------------------------------ MODULE AutoUpdate ------------------------------
(***************************************************************************)
(* The self-update of auto_update.rs: the updater task watches a build     *)
(* path, waits until the build is stable and nothing runs, and has a       *)
(* detached script replace the binary, check its health and roll back.     *)
(* The script's `systemctl stop` kills the updater with the whole service, *)
(* so what one life of the updater learns reaches the next one only        *)
(* through the marker file.                                                *)
(*                                                                         *)
(* A build is named by its SHA.  Time is abstracted: an interactive turn   *)
(* may be waited out, a marker may expire, at any moment.                  *)
(***************************************************************************)
EXTENDS Naturals, FiniteSets

CONSTANTS
    Shas,          \* the contents a binary may have
    First,         \* the one installed at the beginning
    Smokes,        \* those whose --help succeeds
    Healthy,       \* those that answer 200 within the health window
    NoSha,         \* no such content: a missing file, None
    MaxWrites,     \* bound: how often the operator writes the watch path
    MaxRestarts,   \* bound: restarts of the service that are not the script's
    MaxScripts,    \* bound: swaps in progress at once
    MaxFaults      \* bound: failed reads and copies, starts that miss the health window

ASSUME ShasAssumption ==
    /\ First \in Shas /\ Smokes \subseteq Shas /\ Healthy \subseteq Smokes
    /\ NoSha \notin Shas
ASSUME BoundsAssumption ==
    /\ MaxWrites \in Nat /\ MaxRestarts \in Nat /\ MaxFaults \in Nat
    /\ MaxScripts \in Nat \ {0}

VARIABLES
    built,       \* content of the watch path
    writes, restarts, faults,
    installed,   \* content of the installed binary
    marker,      \* the health-fail marker: its SHA, and whether its TTL lasts
    overlapped,  \* ghost: two swaps were in progress at once
    service,     \* SHA of the running process, NoSha when stopped
    upd,         \* memory of the updater task of that process
    script,      \* the detached scripts: next command, FAILED_SHA, own backup
    run,         \* the scheduled run: "late" if claimed between recheck and stop
    dbOk,        \* scheduled.db is readable
    turn         \* an interactive turn is in flight

build == <<built, writes>>
load == <<run, dbOk, turn>>
env  == <<build, load, faults>>
disk == <<installed, marker, overlapped>>
vars == <<built, writes, restarts, faults, installed, marker, overlapped, service,
          upd, script, run, dbOk, turn>>

Content == Shas \cup {NoSha}

UpdaterState ==
    [pc: {"idle", "hash", "check", "gate", "smoke", "recheck", "swap"},
     own: 0..MaxScripts, cand: Content, seen: BOOLEAN, last: Content, smokeFailed: Content,
     pending: {"no", "waiting", "waitedOut"}]
ScriptState ==
    [pc: {"none", "backup", "stop", "copy", "start", "health", "stopBad", "restore",
          "startOld", "mark"},
     sha: Content, backup: Content]

TypeOK ==
    /\ built \in Content /\ installed \in Content /\ service \in Content
    /\ writes \in 0..MaxWrites /\ restarts \in 0..MaxRestarts /\ faults \in 0..MaxFaults
    /\ marker \in [sha: Content, fresh: BOOLEAN]
    /\ upd \in UpdaterState
    /\ script \in [1..MaxScripts -> ScriptState]
    /\ run \in {"none", "active", "late"}
    /\ dbOk \in BOOLEAN /\ turn \in BOOLEAN /\ overlapped \in BOOLEAN

(* The updater's memory when the process starts.  `seen` stands for        *)
(* last_stat = the file's stat now.                                        *)
FreshUpdater == [pc |-> "idle", own |-> 0, cand |-> NoSha, seen |-> FALSE, last |-> NoSha,
                 smokeFailed |-> NoSha, pending |-> "no"]
NoScript == [pc |-> "none", sha |-> NoSha, backup |-> NoSha]
Swapping == {k \in 1..MaxScripts : script[k].pc # "none"}

Init ==
    /\ built = NoSha /\ writes = 0 /\ restarts = 0 /\ faults = 0
    /\ installed = First
    /\ marker = [sha |-> NoSha, fresh |-> FALSE] /\ overlapped = FALSE
    /\ service = First /\ upd = FreshUpdater /\ script = [k \in 1..MaxScripts |-> NoScript]
    /\ run = "none" /\ dbOk = TRUE /\ turn = FALSE

Fault == faults < MaxFaults /\ faults' = faults + 1

-----------------------------------------------------------------------------
(* The updater's loop.                                                     *)

(* mutant: the stat of an unchanged file cuts the step short               *)
StabilityStepStatOnly(changed, fresh, last) ==
    IF changed /\ fresh = last THEN [step |-> "proceed", sha |-> fresh]
    ELSE IF changed THEN [step |-> "wait", sha |-> fresh]
    ELSE [step |-> "skip", sha |-> last]

(* stability_step: what a tick makes of the file's content.                *)
StabilityStep(changed, fresh, last) ==
    CASE changed /\ fresh # last -> [step |-> "wait", sha |-> fresh]
      [] changed /\ fresh = last -> [step |-> "proceed", sha |-> fresh]
      [] ~changed /\ last # NoSha -> [step |-> "proceed", sha |-> last]
      [] OTHER -> [step |-> "skip", sha |-> last]

Settle(s) ==
    upd' = [upd EXCEPT !.seen = TRUE, !.last = s.sha, !.cand = s.sha,
                       !.pc = IF s.step = "proceed" THEN "check" ELSE "idle"]

(* The first tick comes when the process starts and finds the build new to  *)
(* it; poll_secs later, at the next, the script that started the process   *)
(* has written its marker.                                                 *)
Tick ==
    /\ service # NoSha /\ upd.pc = "idle" /\ built # NoSha
    /\ (\E k \in Swapping : script[k].pc = "mark") => upd.last = NoSha
    /\ IF upd.seen THEN Settle(StabilityStep(FALSE, NoSha, upd.last))
                   ELSE upd' = [upd EXCEPT !.seen = TRUE, !.pc = "hash"]
    /\ UNCHANGED <<env, restarts, disk, service, script>>

Hash ==
    /\ upd.pc = "hash"
    /\ \/ /\ built # NoSha
          /\ upd' = LET s == StabilityStep(TRUE, built, upd.last)
                    IN  [upd EXCEPT !.last = s.sha, !.cand = s.sha,
                             !.pc = IF s.step = "proceed" THEN "check" ELSE "idle"]
          /\ UNCHANGED faults
       \/ /\ IF built = NoSha THEN UNCHANGED faults ELSE Fault
          /\ upd' = [upd EXCEPT !.pc = "idle"]
    /\ UNCHANGED <<build, load, restarts, disk, service, script>>

(* mutant: only the process that saw the smoke fail remembers              *)
HealthFailedRecentlyInMemory(sha) == upd.smokeFailed = sha

(* health_failed_recently on the marker, then the comparison with self.    *)
HealthFailedRecently(sha) == marker.sha = sha /\ marker.fresh

Check ==
    /\ upd.pc = "check"
    /\ upd' = IF upd.smokeFailed = upd.cand
              THEN [upd EXCEPT !.pc = "idle"]
              ELSE IF HealthFailedRecently(upd.cand) \/ upd.cand = service
              THEN [upd EXCEPT !.pc = "idle", !.pending = "no"]
              ELSE [upd EXCEPT !.pc = "gate",
                               !.pending = IF @ = "no" THEN "waiting" ELSE @]
    /\ UNCHANGED <<env, restarts, disk, service, script>>

(* running_summary().scheduled > 0: an unreadable store counts as a run.   *)
ScheduledSeen == run # "none" \/ ~dbOk

GateDecision ==
    CASE ScheduledSeen -> "blockedByScheduled"
      [] ~ScheduledSeen /\ (~turn \/ upd.pending = "waitedOut") -> "upgrade"
      [] OTHER -> "waitInteractive"

Gate ==
    /\ upd.pc = "gate"
    /\ upd' = [upd EXCEPT !.pc = IF GateDecision = "upgrade" THEN "smoke" ELSE "idle"]
    /\ UNCHANGED <<env, restarts, disk, service, script>>

(* The smoke runs whatever the watch path holds by now.                    *)
Smoke ==
    /\ upd.pc = "smoke"
    /\ upd' = IF built \in Smokes
              THEN [upd EXCEPT !.pc = "recheck"]
              ELSE [upd EXCEPT !.pc = "idle", !.pending = "no",
                               !.smokeFailed = upd.cand]
    /\ UNCHANGED <<env, restarts, disk, service, script>>

Launch ==
    \E k \in 1..MaxScripts \ Swapping :
        /\ upd' = [upd EXCEPT !.pc = "swap", !.own = k]
        /\ script' = [script EXCEPT ![k] = [NoScript EXCEPT !.pc = "backup", !.sha = upd.cand]]
        /\ overlapped' = (overlapped \/ Swapping # {})

(* mutant: no second look at the scheduled runs                            *)
RecheckSkipped ==
    /\ upd.pc = "recheck" /\ Launch
    /\ UNCHANGED <<env, restarts, installed, marker, service>>

(* The recheck, render_swap_script and launch_swap.                        *)
Recheck ==
    /\ upd.pc = "recheck"
    /\ \/ ~ScheduledSeen /\ Launch
       \/ ScheduledSeen /\ upd' = [upd EXCEPT !.pc = "idle"] /\ UNCHANGED <<script, overlapped>>
    /\ UNCHANGED <<env, restarts, installed, marker, service>>

(* launch_swap returned and this process is still alive.                   *)
SwapReturned ==
    /\ upd.pc = "swap" /\ upd.own \notin Swapping
    /\ upd' = [upd EXCEPT !.pc = "idle", !.own = 0]
    /\ UNCHANGED <<env, restarts, disk, service, script>>

-----------------------------------------------------------------------------
(* The script of render_swap_script, one command after the other under     *)
(* set -e.                                                                 *)

Then(k, pc) == script' = [script EXCEPT ![k].pc = pc]
Ends(k) == script' = [script EXCEPT ![k] = NoScript]
Stopped == service' = NoSha /\ upd' = FreshUpdater /\ run' = "none" /\ turn' = FALSE
Started(sha) == service' = sha /\ upd' = FreshUpdater

(* systemctl start does nothing to a service that runs, as it does when     *)
(* another script has started it.                                          *)
StartUnit == IF service = NoSha THEN Started(installed) ELSE UNCHANGED <<service, upd>>

(* A cp that fails ends the script.                                        *)
CopyFails(k) == Fault /\ Ends(k)

Backup(k) ==
    /\ script[k].pc = "backup"
    /\ \/ /\ script' = [script EXCEPT ![k].pc = "stop", ![k].backup = installed]
          /\ UNCHANGED faults
       \/ CopyFails(k)
    /\ UNCHANGED <<build, load, restarts, disk, service, upd>>

Stop(k) ==
    /\ script[k].pc = "stop" /\ Then(k, "copy") /\ Stopped
    /\ UNCHANGED <<build, faults, restarts, dbOk, disk>>

Copy(k) ==
    /\ script[k].pc = "copy"
    /\ \/ built # NoSha /\ installed' = built /\ Then(k, "start") /\ UNCHANGED faults
       \/ built = NoSha /\ Ends(k) /\ UNCHANGED <<installed, faults>>
       \/ built # NoSha /\ CopyFails(k) /\ UNCHANGED installed
    /\ UNCHANGED <<build, load, restarts, marker, overlapped, service, upd>>

Start(k) ==
    /\ script[k].pc = "start" /\ Then(k, "health") /\ StartUnit
    /\ UNCHANGED <<env, restarts, disk>>

(* A binary that is healthy may still start too slowly for the window.     *)
Health(k) ==
    /\ script[k].pc = "health"
    /\ \/ installed \in Healthy /\ Ends(k) /\ UNCHANGED faults
       \/ installed \notin Healthy /\ Then(k, "stopBad") /\ UNCHANGED faults
       \/ installed \in Healthy /\ Fault /\ Then(k, "stopBad")
    /\ UNCHANGED <<build, load, restarts, disk, service, upd>>

StopBad(k) ==
    /\ script[k].pc = "stopBad" /\ Then(k, "restore") /\ Stopped
    /\ UNCHANGED <<build, faults, restarts, dbOk, disk>>

(* mutant: the build is copied once more                                   *)
RestoreBuilt(k) ==
    /\ script[k].pc = "restore"
    /\ installed' = installed /\ Then(k, "startOld")
    /\ UNCHANGED <<env, restarts, marker, overlapped, service, upd>>

Restore(k) ==
    /\ script[k].pc = "restore"
    /\ \/ installed' = script[k].backup /\ Then(k, "startOld") /\ UNCHANGED faults
       \/ CopyFails(k) /\ UNCHANGED installed
    /\ UNCHANGED <<build, load, restarts, marker, overlapped, service, upd>>

StartOld(k) ==
    /\ script[k].pc = "startOld" /\ Then(k, "mark") /\ StartUnit
    /\ UNCHANGED <<env, restarts, disk>>

Mark(k) ==
    /\ script[k].pc = "mark"
    /\ marker' = [sha |-> script[k].sha, fresh |-> TRUE]
    /\ Ends(k)
    /\ UNCHANGED <<env, restarts, installed, overlapped, service, upd>>

-----------------------------------------------------------------------------
(* The surroundings: the operator's builds, the users' turns, the          *)
(* scheduler's runs, time, and restarts of the service by others.          *)

Write(sha) ==
    /\ writes < MaxWrites /\ writes' = writes + 1
    /\ built' = sha
    /\ upd' = [upd EXCEPT !.seen = FALSE]
    /\ UNCHANGED <<faults, load, restarts, disk, service, script>>

ClaimRun ==
    /\ service # NoSha /\ run = "none"
    /\ run' = IF \E k \in Swapping : script[k].pc \in {"backup", "stop"}
              THEN "late" ELSE "active"
    /\ UNCHANGED <<build, faults, dbOk, turn, restarts, disk, service, upd, script>>

EndRun ==
    /\ run # "none" /\ run' = "none"
    /\ UNCHANGED <<build, faults, dbOk, turn, restarts, disk, service, upd, script>>

TurnChanges ==
    /\ service # NoSha /\ turn' = ~turn
    /\ UNCHANGED <<build, faults, run, dbOk, restarts, disk, service, upd, script>>

DbChanges ==
    /\ dbOk' = ~dbOk
    /\ UNCHANGED <<build, faults, run, turn, restarts, disk, service, upd, script>>

(* max_wait_secs since the updater became pending.                         *)
WaitedOut ==
    /\ upd.pending = "waiting"
    /\ upd' = [upd EXCEPT !.pending = "waitedOut"]
    /\ UNCHANGED <<env, restarts, disk, service, script>>

(* HEALTH_FAIL_TTL_SECS since the marker was written.                      *)
MarkerExpires ==
    /\ marker.fresh /\ marker' = [marker EXCEPT !.fresh = FALSE]
    /\ UNCHANGED <<env, restarts, installed, overlapped, service, upd, script>>

ServiceRestarts ==
    /\ restarts < MaxRestarts /\ service # NoSha
    /\ restarts' = restarts + 1
    /\ Started(installed) /\ run' = "none" /\ turn' = FALSE
    /\ UNCHANGED <<build, faults, dbOk, disk, script>>

Updater == Tick \/ Hash \/ Check \/ Gate \/ Smoke \/ Recheck \/ SwapReturned
Script(k) ==
    \/ Backup(k) \/ Stop(k) \/ Copy(k) \/ Start(k) \/ Health(k)
    \/ StopBad(k) \/ Restore(k) \/ StartOld(k) \/ Mark(k)

Next ==
    \/ Updater
    \/ \E k \in 1..MaxScripts : Script(k)
    \/ \E sha \in Content : Write(sha)
    \/ ClaimRun \/ EndRun \/ TurnChanges \/ DbChanges
    \/ WaitedOut \/ MarkerExpires \/ ServiceRestarts

Spec == Init /\ [][Next]_vars

(* The updater's loop and the script go on, and time passes.               *)
Fairness ==
    /\ WF_vars(Updater) /\ (\A k \in 1..MaxScripts : WF_vars(Script(k)))
    /\ WF_vars(WaitedOut) /\ WF_vars(MarkerExpires)
FairSpec == Spec /\ Fairness

-----------------------------------------------------------------------------
(* Safety: the gate "never forces its way through a scheduled run": when   *)
(* the script stops the service, no run dies that the recheck could have   *)
(* seen (auto_update.rs 124-137, 325-343).                                 *)
KilledRunIsLate == [][(\E k \in 1..MaxScripts : Stop(k)) => run # "active"]_vars

(* Safety: a roll back puts back a binary that has passed a health check,  *)
(* and between swaps such a binary is what runs, whatever the operator     *)
(* wrote to the watch path meanwhile (auto_update.rs 165-187).  Excepted   *)
(* are swaps that overlapped: the backup of the second is not proven.      *)
InstalledIsProven ==
    /\ TypeOK
    /\ Swapping = {} /\ service # NoSha /\ ~overlapped => installed \in Healthy \cup {First}

(* Safety, across lives of the updater: a candidate whose swap was rolled  *)
(* back is not launched again while its marker's TTL lasts: no stop/swap/  *)
(* roll back storm (auto_update.rs 139-151, 252-269).  Excepted are swaps   *)
(* that overlapped: the updater that checks the marker may be another      *)
(* script's, not started anew before the marker was written.               *)
NoReflap ==
    [][\A k \in 1..MaxScripts :
         ~overlapped /\ script[k].pc = "none" /\ script'[k].pc = "backup"
             => ~(marker.fresh /\ marker.sha = script'[k].sha)]_vars

(* The hash failed at the one tick at which the build's stat was new: it is *)
(* not hashed again (auto_update.rs 230-241).                              *)
HashMissed == upd.pc = "idle" /\ upd.seen /\ upd.last # built

(* Liveness: a healthy build that stays on the watch path is installed     *)
(* once no scheduled run is in flight any more, even if an interactive     *)
(* turn never ends (auto_update.rs 88-121: the stability gate must not     *)
(* dead-lock).  Excepted are a build the updater has seen fail its smoke   *)
(* or missed the hash of, and a service a failed copy has left stopped.    *)
UpgradeHappens ==
    \A b \in Healthy :
        /\ <>[](built = b /\ ~ScheduledSeen /\ upd.smokeFailed # b /\ ~HashMissed)
        /\ []<>(service # NoSha)
        => <>(installed = b)
===============================================================================
