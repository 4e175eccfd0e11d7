--------------------------- MODULE Watchers_proofs ---------------------------
(***************************************************************************)
(* Proofs about the two watchers of files, each on its own.                *)
(*                                                                         *)
(* AutoUpdate, for any builds, any number of writes, restarts, faults and  *)
(* scripts at once: its types, the runs a swap may kill, what a roll back  *)
(* leaves installed, and that a rolled back build waits for its marker.    *)
(*                                                                         *)
(* VaultIndex, for any names, queue length, changes, rebuilds and refused  *)
(* watches: that the index is the tree once the watcher has applied what   *)
(* it was told.  The invariant says why none is missed: a directory that   *)
(* was watched under its path and is there still (`same`) tells of what    *)
(* changes in it, and the model says of it what was read, unless it will   *)
(* be read again; one that was not watched there is dirty, listed or told  *)
(* of by its parent, or is one that need not be (`stale`: the watch was    *)
(* refused, say), or its parent in turn was not watched.  This holds while *)
(* nothing makes the watcher start over, and the start is a walk of        *)
(* everything.                                                             *)
(***************************************************************************)
EXTENDS AutoUpdate, VaultIndex, SequenceTheorems, FiniteSetTheorems, FunctionTheorems, TLAPS

Slot == 1..MaxScripts

LEMMA StepFacts ==
  ASSUME NEW last \in Content, NEW fresh \in Content, NEW changed \in BOOLEAN
  PROVE  /\ StabilityStep(changed, fresh, last).sha \in Content
         /\ last = NoSha /\ (changed => fresh # NoSha)
              => StabilityStep(changed, fresh, last).step # "proceed"
<1>1. CASE changed
  <2>1. CASE fresh = last
    BY <1>1, <2>1 DEF StabilityStep
  <2>2. CASE fresh # last
    BY <1>1, <2>2 DEF StabilityStep
  <2> QED
    BY <2>1, <2>2
<1>2. CASE ~changed
  <2>1. CASE last = NoSha
    BY <1>2, <2>1 DEF StabilityStep
  <2>2. CASE last # NoSha
    BY <1>2, <2>2 DEF StabilityStep
  <2> QED
    BY <2>1, <2>2
<1> QED
  BY <1>1, <1>2

LEMMA ConstantFacts ==
  /\ NoSha \in Content /\ First \in Content
  /\ FreshUpdater \in UpdaterState /\ NoScript \in ScriptState
BY ShasAssumption, BoundsAssumption DEF Content, FreshUpdater, UpdaterState, NoScript, ScriptState

\* Every variable has its type.
LEMMA TypeInit == Init => TypeOK
<1> SUFFICES ASSUME Init PROVE TypeOK
  OBVIOUS
<1>1. /\ built \in Content /\ installed \in Content /\ service \in Content
      /\ upd \in UpdaterState /\ script \in [1..MaxScripts -> ScriptState]
  BY ConstantFacts DEF Init
<1>2. marker \in [sha: Content, fresh: BOOLEAN]
  BY ConstantFacts DEF Init
<1>3. writes \in 0..MaxWrites /\ restarts \in 0..MaxRestarts /\ faults \in 0..MaxFaults
  BY BoundsAssumption DEF Init
<1>4. /\ run \in {"none", "active", "late"}
      /\ dbOk \in BOOLEAN /\ turn \in BOOLEAN /\ overlapped \in BOOLEAN
  BY DEF Init
<1> QED
  BY <1>1, <1>2, <1>3, <1>4 DEF TypeOK

LEMMA UpdaterTyped == TypeOK /\ [Next]_vars => upd' \in UpdaterState
<1> SUFFICES ASSUME TypeOK, [Next]_vars PROVE upd' \in UpdaterState
  OBVIOUS
<1> USE ConstantFacts
<1>1. CASE Tick
  <2>1. StabilityStep(FALSE, NoSha, upd.last).sha \in Content
    BY StepFacts DEF TypeOK, UpdaterState
  <2> DEFINE s == StabilityStep(FALSE, NoSha, upd.last)
  <2> HIDE DEF s
  <2>2. upd \in UpdaterState /\ s.sha \in Content
    BY <2>1 DEF TypeOK, s
  <2>3. CASE upd.seen
    <3>1. upd' = [upd EXCEPT !.seen = TRUE, !.last = s.sha, !.cand = s.sha,
                             !.pc = IF s.step = "proceed" THEN "check" ELSE "idle"]
      BY <1>1, <2>3 DEF Tick, Settle, s
    <3> QED
      BY <2>2, <3>1 DEF UpdaterState
  <2>4. CASE ~upd.seen
    <3>1. upd' = [upd EXCEPT !.seen = TRUE, !.pc = "hash"]
      BY <1>1, <2>4 DEF Tick
    <3> QED
      BY <2>2, <3>1 DEF UpdaterState
  <2> QED
    BY <2>3, <2>4
<1>2. CASE Hash
  <2>1. StabilityStep(TRUE, built, upd.last).sha \in Content
    BY StepFacts DEF TypeOK, UpdaterState
  <2> QED
    BY <1>2, <2>1 DEF Hash, TypeOK, UpdaterState
<1>3. CASE Check
  BY <1>3 DEF Check, TypeOK, UpdaterState
<1>4. CASE Gate
  BY <1>4 DEF Gate, TypeOK, UpdaterState
<1>5. CASE Smoke
  BY <1>5 DEF Smoke, TypeOK, UpdaterState
<1>6. CASE Recheck
  <2>1. \A k \in 1..MaxScripts : k \in 0..MaxScripts
    BY BoundsAssumption
  <2> QED
    BY <1>6, <2>1 DEF Recheck, Launch, TypeOK, UpdaterState
<1>7. CASE SwapReturned
  <2>1. 0 \in 0..MaxScripts
    BY BoundsAssumption
  <2> QED
    BY <1>7, <2>1 DEF SwapReturned, TypeOK, UpdaterState
<1>8. ASSUME NEW k \in Slot, Script(k) PROVE upd' \in UpdaterState
  <2>1. upd' = upd \/ upd' = FreshUpdater
    BY <1>8 DEF Script, Backup, Stop, Copy, Start, Health, StopBad, Restore, StartOld, Mark,
       StartUnit, Started, Stopped
  <2> QED
    BY <2>1 DEF TypeOK
<1>9. CASE WaitedOut \/ \E sha \in Content : Write(sha)
  BY <1>9 DEF WaitedOut, Write, TypeOK, UpdaterState
<1>10. CASE ClaimRun \/ EndRun \/ TurnChanges \/ DbChanges \/ MarkerExpires \/ ServiceRestarts
            \/ UNCHANGED vars
  BY <1>10 DEF ClaimRun, EndRun, TurnChanges, DbChanges, MarkerExpires, ServiceRestarts, Started,
     vars, TypeOK
<1> QED
  BY <1>1, <1>2, <1>3, <1>4, <1>5, <1>6, <1>7, <1>8, <1>9, <1>10 DEF Next, Updater, Slot

LEMMA ScriptTyped == TypeOK /\ [Next]_vars => script' \in [Slot -> ScriptState]
<1> SUFFICES ASSUME TypeOK, [Next]_vars PROVE script' \in [Slot -> ScriptState]
  OBVIOUS
<1> USE ConstantFacts DEF Slot
<1>1. CASE Recheck
  <2>1. ASSUME NEW k \in Slot PROVE [NoScript EXCEPT !.pc = "backup", !.sha = upd.cand] \in ScriptState
    BY DEF TypeOK, UpdaterState, ScriptState
  <2> QED
    BY <1>1, <2>1 DEF Recheck, Launch, TypeOK
<1>2. ASSUME NEW k \in Slot, Backup(k) PROVE script' \in [Slot -> ScriptState]
  BY <1>2 DEF Backup, CopyFails, Ends, TypeOK, ScriptState
<1>3. ASSUME NEW k \in Slot,
             \/ Stop(k) \/ Copy(k) \/ Start(k) \/ Health(k)
             \/ StopBad(k) \/ Restore(k) \/ StartOld(k) \/ Mark(k)
      PROVE  script' \in [Slot -> ScriptState]
  <2>1. Ends(k) => script' \in [Slot -> ScriptState]
    BY DEF Ends, TypeOK
  <2>2. ASSUME NEW p \in {"copy", "start", "health", "stopBad", "restore", "startOld", "mark"},
               Then(k, p)
        PROVE  script' \in [Slot -> ScriptState]
    BY <2>2 DEF Then, TypeOK, ScriptState
  <2> QED
    BY <1>3, <2>1, <2>2 DEF Stop, Copy, Start, Health, StopBad, Restore, StartOld, Mark, CopyFails
<1>4. CASE UNCHANGED script
  BY <1>4 DEF TypeOK
<1> QED
  BY <1>1, <1>2, <1>3, <1>4 DEF Next, Updater, Script, Tick, Hash, Check, Gate, Smoke,
     SwapReturned, Write, ClaimRun, EndRun, TurnChanges, DbChanges, WaitedOut, MarkerExpires,
     ServiceRestarts, vars

LEMMA ContentTyped ==
  TypeOK /\ [Next]_vars =>
    /\ built' \in Content /\ installed' \in Content /\ service' \in Content
    /\ marker' \in [sha: Content, fresh: BOOLEAN]
<1> SUFFICES ASSUME TypeOK, [Next]_vars
             PROVE  /\ built' \in Content /\ installed' \in Content /\ service' \in Content
                    /\ marker' \in [sha: Content, fresh: BOOLEAN]
  OBVIOUS
<1> USE ConstantFacts
<1>1. ASSUME NEW k \in Slot, Script(k)
      PROVE  /\ built' \in Content /\ installed' \in Content /\ service' \in Content
             /\ marker' \in [sha: Content, fresh: BOOLEAN]
  <2>1. script[k] \in ScriptState
    BY DEF TypeOK, Slot
  <2>2. /\ installed' = installed \/ installed' = built \/ installed' = script[k].backup
        /\ marker' = marker \/ marker' = [sha |-> script[k].sha, fresh |-> TRUE]
    <3>1. CASE Copy(k) \/ Restore(k)
      BY <3>1 DEF Copy, Restore
    <3>2. CASE Mark(k)
      BY <3>2 DEF Mark
    <3>3. CASE ~Copy(k) /\ ~Restore(k) /\ ~Mark(k)
      BY <1>1, <3>3 DEF Script, Backup, Stop, Start, Health, StopBad, StartOld, disk
    <3> QED
      BY <3>1, <3>2, <3>3
  <2>3. built' = built /\ (service' = service \/ service' = installed \/ service' = NoSha)
    BY <1>1 DEF Script, Backup, Stop, Copy, Start, Health, StopBad, Restore, StartOld, Mark,
       StartUnit, Started, Stopped, env, build
  <2> QED
    <3>1. [sha |-> script[k].sha, fresh |-> TRUE] \in [sha: Content, fresh: BOOLEAN]
      BY <2>1 DEF ScriptState
    <3>2. marker' \in [sha: Content, fresh: BOOLEAN]
      BY <2>2, <3>1 DEF TypeOK
    <3>3. script[k].backup \in Content
      BY <2>1 DEF ScriptState
    <3> QED
      BY <2>2, <2>3, <3>2, <3>3 DEF TypeOK
<1>2. CASE Updater
  BY <1>2 DEF Updater, Tick, Hash, Check, Gate, Smoke, Recheck, SwapReturned, env, build, disk,
     TypeOK
<1>3. CASE MarkerExpires
  BY <1>3 DEF MarkerExpires, env, build, TypeOK
<1>4. CASE \/ (\E sha \in Content : Write(sha)) \/ ClaimRun \/ EndRun \/ TurnChanges \/ DbChanges
           \/ WaitedOut \/ ServiceRestarts \/ UNCHANGED vars
  BY <1>4 DEF Write, ClaimRun, EndRun, TurnChanges, DbChanges, WaitedOut, ServiceRestarts, Started,
     env, build, disk, vars, TypeOK
<1> QED
  BY <1>1, <1>2, <1>3, <1>4 DEF Next, Slot

LEMMA RestTyped ==
  TypeOK /\ [Next]_vars =>
    /\ writes' \in 0..MaxWrites /\ restarts' \in 0..MaxRestarts /\ faults' \in 0..MaxFaults
    /\ run' \in {"none", "active", "late"}
    /\ dbOk' \in BOOLEAN /\ turn' \in BOOLEAN /\ overlapped' \in BOOLEAN
<1> SUFFICES ASSUME TypeOK, [Next]_vars
             PROVE  /\ writes' \in 0..MaxWrites /\ restarts' \in 0..MaxRestarts
                    /\ faults' \in 0..MaxFaults
                    /\ run' \in {"none", "active", "late"}
                    /\ dbOk' \in BOOLEAN /\ turn' \in BOOLEAN /\ overlapped' \in BOOLEAN
  OBVIOUS
<1>1. writes' \in 0..MaxWrites /\ restarts' \in 0..MaxRestarts /\ faults' \in 0..MaxFaults
  <2>1. ASSUME NEW k \in Slot, Script(k)
        PROVE  writes' = writes /\ restarts' = restarts /\ (faults' = faults \/ Fault)
    BY <2>1 DEF Script, Backup, Stop, Copy, Start, Health, StopBad, Restore, StartOld, Mark,
       CopyFails, env, build
  <2>2. CASE Updater
    <3>1. writes' = writes /\ restarts' = restarts /\ (faults' = faults \/ Fault)
      BY <2>2 DEF Updater, Tick, Hash, Check, Gate, Smoke, Recheck, SwapReturned, env, build
    <3> QED
      BY <3>1, BoundsAssumption DEF Fault, TypeOK
  <2>3. CASE \/ (\E sha \in Content : Write(sha)) \/ ServiceRestarts
    BY <2>3, BoundsAssumption DEF Write, ServiceRestarts, build, TypeOK
  <2>4. CASE \/ ClaimRun \/ EndRun \/ TurnChanges \/ DbChanges
             \/ WaitedOut \/ MarkerExpires \/ UNCHANGED vars
    BY <2>4 DEF ClaimRun, EndRun, TurnChanges, DbChanges, WaitedOut, MarkerExpires, env, build,
       vars, TypeOK
  <2> QED
    BY <2>1, <2>2, <2>3, <2>4, BoundsAssumption DEF Fault, Next, Slot, TypeOK
<1>2. run' \in {"none", "active", "late"}
  BY DEF Next, Updater, Script, Tick, Hash, Check, Gate, Smoke, Recheck, SwapReturned, Backup, Stop,
     Copy, Start, Health, StopBad, Restore, StartOld, Mark, Stopped, Write, ClaimRun, EndRun,
     TurnChanges, DbChanges, WaitedOut, MarkerExpires, ServiceRestarts, env, load, vars, TypeOK
<1>3. dbOk' \in BOOLEAN /\ turn' \in BOOLEAN
  BY DEF Next, Updater, Script, Tick, Hash, Check, Gate, Smoke, Recheck, SwapReturned, Backup, Stop,
     Copy, Start, Health, StopBad, Restore, StartOld, Mark, Stopped, Write, ClaimRun, EndRun,
     TurnChanges, DbChanges, WaitedOut, MarkerExpires, ServiceRestarts, env, load, vars, TypeOK
<1>4. overlapped' \in BOOLEAN
  BY DEF Next, Updater, Script, Tick, Hash, Check, Gate, Smoke, Recheck, Launch, SwapReturned,
     Backup, Stop, Copy, Start, Health, StopBad, Restore, StartOld, Mark, Write, ClaimRun, EndRun,
     TurnChanges, DbChanges, WaitedOut, MarkerExpires, ServiceRestarts, disk, vars, TypeOK
<1> QED
  BY <1>1, <1>2, <1>3, <1>4

LEMMA TypeStep == TypeOK /\ [Next]_vars => TypeOK'
BY UpdaterTyped, ScriptTyped, ContentTyped, RestTyped DEF TypeOK, Slot

\* Every variable of the updater and its scripts keeps its type.
THEOREM TypeCorrect == Spec => []TypeOK
BY TypeInit, TypeStep, PTL DEF Spec

-----------------------------------------------------------------------------
(* The runs a swap may kill *)

\* While a script is about to stop the service, a run in flight was claimed too late for
\* the recheck to see.
NoSeenRunAtStop == \A k \in Slot : script[k].pc \in {"backup", "stop"} => run # "active"

LEMMA NoSeenRunStep == TypeOK /\ NoSeenRunAtStop /\ [Next]_vars => NoSeenRunAtStop'
<1> SUFFICES ASSUME TypeOK, NoSeenRunAtStop, [Next]_vars,
                    NEW k \in Slot, script'[k].pc \in {"backup", "stop"}
             PROVE  run' # "active"
  BY DEF NoSeenRunAtStop
<1>t. script \in [Slot -> ScriptState] /\ \A j \in Slot : script[j] \in ScriptState
  BY DEF TypeOK, Slot
<1>1. CASE Recheck
  <2>1. CASE ~ScheduledSeen
    BY <1>1, <2>1 DEF Recheck, ScheduledSeen, env, load
  <2>2. CASE ScheduledSeen
    BY <1>1, <2>2 DEF Recheck, Launch, NoSeenRunAtStop, env, load
  <2> QED
    BY <2>1, <2>2
<1>2. ASSUME NEW j \in Slot, Script(j) PROVE run' # "active"
  <2>1. CASE Stop(j) \/ StopBad(j)
    BY <2>1 DEF Stop, StopBad, Stopped
  <2>2. CASE Backup(j)
    <3>1. script[k].pc \in {"backup", "stop"}
      BY <1>t, <2>2 DEF Backup, CopyFails, Ends, NoScript, ScriptState
    <3> QED
      BY <2>2, <3>1 DEF Backup, load, NoSeenRunAtStop
  <2>3. CASE Copy(j) \/ Start(j) \/ Health(j) \/ Restore(j) \/ StartOld(j) \/ Mark(j)
    <3>1. script[k].pc \in {"backup", "stop"}
      BY <1>t, <2>3 DEF Copy, Start, Health, Restore, StartOld, Mark, CopyFails, Then, Ends,
         NoScript, ScriptState
    <3>2. run' = run
      BY <2>3 DEF Copy, Start, Health, Restore, StartOld, Mark, env, load
    <3> QED
      BY <3>1, <3>2 DEF NoSeenRunAtStop
  <2> QED
    BY <1>2, <2>1, <2>2, <2>3 DEF Script
<1>3. CASE ClaimRun
  BY <1>3 DEF ClaimRun, NoSeenRunAtStop, Swapping, Slot
<1>4. CASE EndRun \/ ServiceRestarts
  BY <1>4 DEF EndRun, ServiceRestarts
<1>5. CASE \/ Tick \/ Hash \/ Check \/ Gate \/ Smoke \/ SwapReturned
           \/ (\E sha \in Content : Write(sha)) \/ TurnChanges \/ DbChanges
           \/ WaitedOut \/ MarkerExpires \/ UNCHANGED vars
  <2>1. run' = run /\ script' = script
    BY <1>5 DEF Tick, Hash, Check, Gate, Smoke, SwapReturned, Write, TurnChanges, DbChanges,
       WaitedOut, MarkerExpires, env, load, vars
  <2> QED
    BY <2>1 DEF NoSeenRunAtStop
<1> QED
  BY <1>1, <1>2, <1>3, <1>4, <1>5 DEF Next, Updater, Slot

\* No run that the recheck before the swap could have seen is killed when the script stops
\* the service.
THEOREM KilledRunIsLateHolds == Spec => KilledRunIsLate
<1>1. Init => NoSeenRunAtStop
  BY DEF Init, NoSeenRunAtStop
<1>2. NoSeenRunAtStop => [(\E k \in 1..MaxScripts : Stop(k)) => run # "active"]_vars
  BY DEF NoSeenRunAtStop, Stop, Slot
<1> QED
  BY <1>1, <1>2, TypeInit, TypeStep, NoSeenRunStep, PTL DEF Spec, KilledRunIsLate

-----------------------------------------------------------------------------
(* One swap at a time: what is installed, and what waits for its marker *)

Proven == Healthy \cup {First}

\* At most one swap is in progress.
Alone == \A j, k \in Slot : script[j].pc # "none" /\ script[k].pc # "none" => j = k

\* A service that is stopped has no updater.
NoUpdaterWhenStopped == service = NoSha => upd.pc = "idle"

\* From its stop to its start, and from one to the other of a roll back, the script has the
\* service stopped.
KeptStopped ==
  \A k \in Slot : script[k].pc \in {"copy", "start", "restore", "startOld"} => service = NoSha

\* Before the copy and after the restore what is installed is proven; between the two the
\* backup is.
BackupIsProven ==
  \A k \in Slot :
    /\ script[k].pc \in {"backup", "stop", "copy", "startOld", "mark"} => installed \in Proven
    /\ script[k].pc \in {"stop", "copy", "start", "health", "stopBad", "restore"}
         => script[k].backup \in Proven

\* Without a swap what runs is proven.
QuietIsProven == Swapping = {} /\ service # NoSha => installed \in Proven

\* A candidate on its way to a swap has no marker that lasts.
CandidateUnmarked ==
  upd.pc \in {"gate", "smoke", "recheck"} => ~(marker.fresh /\ marker.sha = upd.cand)

\* The updater a roll back has started has not looked at the build twice when the script
\* writes the marker.
NewbornAtMark ==
  \A k \in Slot : script[k].pc = "mark" =>
    upd.pc = "idle" \/ (upd.pc = "hash" /\ upd.last = NoSha)

OneSwap ==
  /\ Alone /\ NoUpdaterWhenStopped /\ KeptStopped /\ BackupIsProven /\ QuietIsProven
  /\ CandidateUnmarked /\ NewbornAtMark

IInv == TypeOK /\ (~overlapped => OneSwap)

LEMMA OneSwapInit == Init => OneSwap
BY DEF Init, OneSwap, Alone, NoUpdaterWhenStopped, KeptStopped, BackupIsProven, QuietIsProven,
   CandidateUnmarked, NewbornAtMark, Proven, FreshUpdater, NoScript, Slot

\* Of a swap that is alone, a command moves its own script only.
LEMMA OthersIdle ==
  ASSUME TypeOK, Alone, NEW k \in Slot, script[k].pc # "none",
         NEW new \in ScriptState, script' = [script EXCEPT ![k] = new]
  PROVE  /\ script'[k] = new
         /\ \A j \in Slot : j # k => script'[j] = script[j] /\ script[j].pc = "none"
         /\ Alone'
         /\ new.pc # "none" => Swapping' # {}
BY DEF TypeOK, Alone, Slot, Swapping

\* What the updater does between two swaps leaves the scripts, the service and the disk.
LEMMA UpdaterKeepsOneSwap ==
  ASSUME TypeOK, OneSwap, Tick \/ Hash \/ Check \/ Gate \/ Smoke \/ SwapReturned
  PROVE  OneSwap'
<1>1. script' = script /\ service' = service /\ installed' = installed /\ marker' = marker
  BY DEF Tick, Hash, Check, Gate, Smoke, SwapReturned, disk
<1>2. Alone' /\ KeptStopped' /\ BackupIsProven' /\ QuietIsProven'
  BY <1>1 DEF OneSwap, Alone, KeptStopped, BackupIsProven, QuietIsProven, Swapping
<1>3. NoUpdaterWhenStopped'
  BY <1>1 DEF OneSwap, NoUpdaterWhenStopped, Tick, Hash, Check, Gate, Smoke, SwapReturned
<1>u. upd \in UpdaterState /\ built \in Content
  BY DEF TypeOK
<1>4. CandidateUnmarked'
  <2>1. CASE Tick \/ Hash \/ SwapReturned
    <3>1. upd'.pc \in {"idle", "hash", "check"}
      BY <2>1, <1>u DEF Tick, Settle, Hash, SwapReturned, UpdaterState
    <3> QED
      BY <3>1 DEF CandidateUnmarked
  <2>2. CASE Check
    BY <2>2, <1>1, <1>u DEF Check, CandidateUnmarked, HealthFailedRecently, UpdaterState
  <2>3. CASE Gate \/ Smoke
    BY <2>3, <1>1, <1>u DEF Gate, Smoke, OneSwap, CandidateUnmarked, UpdaterState
  <2> QED
    BY <2>1, <2>2, <2>3
<1>5. NewbornAtMark'
  <2>1. SUFFICES ASSUME NEW k \in Slot, script[k].pc = "mark"
                 PROVE  upd'.pc = "idle" \/ (upd'.pc = "hash" /\ upd'.last = NoSha)
    BY <1>1 DEF NewbornAtMark
  <2>2. upd.pc = "idle" \/ (upd.pc = "hash" /\ upd.last = NoSha)
    BY <2>1 DEF OneSwap, NewbornAtMark
  <2>3. CASE Tick
    <3>1. upd.last = NoSha
      BY <2>1, <2>3 DEF Tick, Swapping, Slot
    <3>2. StabilityStep(FALSE, NoSha, upd.last).step # "proceed"
      BY <3>1, StepFacts, ConstantFacts
    <3> QED
      BY <2>3, <3>1, <3>2, <1>u DEF Tick, Settle, UpdaterState
  <2>4. CASE Hash
    <3>1. built # NoSha => StabilityStep(TRUE, built, upd.last).step # "proceed"
      BY <2>2, <2>4, <1>u, StepFacts, ConstantFacts DEF Hash
    <3> QED
      BY <2>4, <3>1, <1>u DEF Hash, UpdaterState
  <2>5. CASE Check \/ Gate \/ Smoke \/ SwapReturned
    BY <2>2, <2>5, <1>u DEF Check, Gate, Smoke, SwapReturned, UpdaterState
  <2> QED
    BY <2>3, <2>4, <2>5
<1> QED
  BY <1>2, <1>3, <1>4, <1>5 DEF OneSwap

\* A swap that starts beside no other finds a proven binary to back up.
LEMMA RecheckKeepsOneSwap ==
  ASSUME TypeOK, OneSwap, Recheck, ~overlapped'
  PROVE  OneSwap'
<1>1. /\ service' = service /\ installed' = installed /\ marker' = marker
      /\ upd.pc = "recheck" /\ service # NoSha
  BY DEF Recheck, OneSwap, NoUpdaterWhenStopped
<1>u. upd \in UpdaterState
  BY DEF TypeOK
<1>2. CASE ScheduledSeen
  <2>1. upd'.pc = "idle" /\ script' = script
    BY <1>2, <1>u DEF Recheck, UpdaterState
  <2> QED
    BY <1>1, <2>1 DEF OneSwap, Alone, NoUpdaterWhenStopped, KeptStopped, BackupIsProven,
       QuietIsProven, CandidateUnmarked, NewbornAtMark, Swapping
<1>3. CASE ~ScheduledSeen
  <2>1. PICK k \in Slot :
           script' = [script EXCEPT ![k] = [NoScript EXCEPT !.pc = "backup", !.sha = upd.cand]]
    BY <1>3 DEF Recheck, Launch, Slot
  <2>2. Swapping = {} /\ upd'.pc = "swap"
    BY <1>3, <1>u DEF Recheck, Launch, UpdaterState
  <2>3. /\ script'[k].pc = "backup"
        /\ \A j \in Slot : j # k => script'[j] = script[j] /\ script[j].pc = "none"
    BY <2>1, <2>2 DEF TypeOK, Slot, Swapping, NoScript
  <2>4. installed \in Proven /\ Swapping' # {}
    BY <1>1, <2>2, <2>3 DEF OneSwap, QuietIsProven, Swapping, Slot
  <2> QED
    BY <1>1, <2>2, <2>3, <2>4 DEF OneSwap, Alone, NoUpdaterWhenStopped, KeptStopped,
       BackupIsProven, QuietIsProven, CandidateUnmarked, NewbornAtMark
<1> QED
  BY <1>2, <1>3

\* Each command leaves its script where the next one needs it.
LEMMA ScriptKeepsOneSwap ==
  ASSUME TypeOK, OneSwap, NEW k \in Slot, Script(k)
  PROVE  OneSwap'
<1>t. /\ script[k] \in ScriptState /\ upd \in UpdaterState /\ script[k].pc # "none"
      /\ NoScript \in ScriptState /\ NoScript.pc = "none"
  BY ConstantFacts DEF TypeOK, Slot, NoScript, Script, Backup, Stop, Copy, Start, Health, StopBad,
     Restore, StartOld, Mark
<1>a. Alone
  BY DEF OneSwap
<1>ends. ASSUME Ends(k), service' = service, upd' = upd, installed' = installed, marker' = marker,
                installed \in Proven \/ service = NoSha
         PROVE  OneSwap'
  <2>1. /\ script'[k].pc = "none" /\ Alone'
        /\ \A j \in Slot : j # k => script'[j].pc = "none"
    <3>1. script' = [script EXCEPT ![k] = NoScript]
      BY <1>ends DEF Ends
    <3>2. NoScript \in ScriptState /\ script[k].pc # "none" /\ NoScript.pc = "none"
      BY <1>t
    <3>3. /\ script'[k] = NoScript /\ Alone'
          /\ \A j \in Slot : j # k => script'[j] = script[j] /\ script[j].pc = "none"
      BY <3>1, <3>2, <1>a, OthersIdle
    <3> QED
      BY <3>2, <3>3
  <2> QED
    BY <1>ends, <2>1 DEF OneSwap, NoUpdaterWhenStopped, KeptStopped, BackupIsProven,
       QuietIsProven, CandidateUnmarked, NewbornAtMark
<1>then. ASSUME NEW p \in {"copy", "start", "health", "stopBad", "restore", "startOld", "mark"},
                Then(k, p)
         PROVE  /\ script'[k].pc = p /\ script'[k].backup = script[k].backup
                /\ Alone' /\ Swapping' # {}
                /\ \A j \in Slot : j # k => script'[j].pc = "none"
  <2>1. [script[k] EXCEPT !.pc = p] \in ScriptState
    BY <1>t DEF ScriptState
  <2>2. script' = [script EXCEPT ![k] = [script[k] EXCEPT !.pc = p]]
    BY <1>then DEF Then
  <2>3. [script[k] EXCEPT !.pc = p].pc = p /\ [script[k] EXCEPT !.pc = p].backup = script[k].backup
    BY <1>t DEF ScriptState
  <2> DEFINE new == [script[k] EXCEPT !.pc = p]
  <2>4. new \in ScriptState /\ script' = [script EXCEPT ![k] = new] /\ new.pc = p
        /\ new.backup = script[k].backup /\ p # "none"
    BY <2>1, <2>2, <2>3
  <2> HIDE DEF new
  <2> QED
    BY <2>4, <1>t, <1>a, OthersIdle
<1>1. CASE Backup(k)
  <2>1. /\ service' = service /\ upd' = upd /\ installed' = installed /\ marker' = marker
        /\ installed \in Proven
    BY <1>1 DEF Backup, disk, OneSwap, BackupIsProven
  <2>2. CASE Ends(k)
    BY <2>1, <2>2, <1>ends
  <2>3. CASE script' = [script EXCEPT ![k].pc = "stop", ![k].backup = installed]
    <3> DEFINE new == [script[k] EXCEPT !.pc = "stop", !.backup = installed]
    <3>1. new \in ScriptState /\ script' = [script EXCEPT ![k] = new] /\ new.pc = "stop"
          /\ new.backup = installed
      BY <2>3, <1>t DEF TypeOK, ScriptState, Slot
    <3> HIDE DEF new
    <3>2. /\ script'[k].pc = "stop" /\ script'[k].backup = installed /\ Alone' /\ Swapping' # {}
          /\ \A j \in Slot : j # k => script'[j].pc = "none"
      BY <3>1, <1>t, <1>a, OthersIdle
    <3> QED
      BY <2>1, <3>2 DEF OneSwap, NoUpdaterWhenStopped, KeptStopped, BackupIsProven,
         QuietIsProven, CandidateUnmarked, NewbornAtMark
  <2> QED
    BY <1>1, <2>2, <2>3 DEF Backup, CopyFails
<1>2. CASE Stop(k) \/ StopBad(k)
  <2>1. /\ service' = NoSha /\ upd'.pc = "idle" /\ installed' = installed /\ marker' = marker
        /\ Then(k, IF script[k].pc = "stop" THEN "copy" ELSE "restore")
    BY <1>2 DEF Stop, StopBad, Stopped, FreshUpdater, disk
  <2>2. /\ script[k].pc = "stop" => installed \in Proven
        /\ script[k].backup \in Proven
    BY <1>2 DEF Stop, StopBad, OneSwap, BackupIsProven
  <2>3. /\ script'[k].pc = IF script[k].pc = "stop" THEN "copy" ELSE "restore"
        /\ script'[k].backup = script[k].backup /\ Alone' /\ Swapping' # {}
        /\ \A j \in Slot : j # k => script'[j].pc = "none"
    BY <2>1, <1>then
  <2> QED
    BY <2>1, <2>2, <2>3 DEF OneSwap, NoUpdaterWhenStopped, KeptStopped, BackupIsProven,
       QuietIsProven, CandidateUnmarked, NewbornAtMark
<1>3. CASE Copy(k) \/ Restore(k)
  <2>1. /\ service' = service /\ upd' = upd /\ marker' = marker /\ service = NoSha
        /\ script[k].backup \in Proven
    BY <1>3 DEF Copy, Restore, OneSwap, BackupIsProven, KeptStopped
  <2>2. CASE Ends(k) /\ installed' = installed
    BY <2>1, <2>2, <1>ends
  <2>3. CASE Copy(k) /\ Then(k, "start")
    <3>1. /\ script'[k].pc = "start" /\ script'[k].backup = script[k].backup
          /\ Alone' /\ Swapping' # {} /\ \A j \in Slot : j # k => script'[j].pc = "none"
      BY <2>3, <1>then
    <3> QED
      BY <2>1, <3>1 DEF OneSwap, NoUpdaterWhenStopped, KeptStopped, BackupIsProven,
         QuietIsProven, CandidateUnmarked, NewbornAtMark
  <2>4. CASE Restore(k) /\ Then(k, "startOld") /\ installed' = script[k].backup
    <3>1. /\ script'[k].pc = "startOld" /\ script'[k].backup = script[k].backup
          /\ Alone' /\ Swapping' # {} /\ \A j \in Slot : j # k => script'[j].pc = "none"
      BY <2>4, <1>then
    <3> QED
      BY <2>1, <2>4, <3>1 DEF OneSwap, NoUpdaterWhenStopped, KeptStopped, BackupIsProven,
         QuietIsProven, CandidateUnmarked, NewbornAtMark
  <2> QED
    BY <1>3, <2>2, <2>3, <2>4 DEF Copy, Restore, CopyFails
<1>4. CASE Start(k) \/ StartOld(k)
  <2>1. /\ service = NoSha /\ service' = installed /\ upd' = FreshUpdater
        /\ installed' = installed /\ marker' = marker
        /\ Then(k, IF script[k].pc = "start" THEN "health" ELSE "mark")
    BY <1>4 DEF Start, StartOld, StartUnit, Started, OneSwap, KeptStopped, disk
  <2>2. /\ script[k].pc = "startOld" => installed \in Proven
        /\ script[k].pc = "start" => script[k].backup \in Proven
        /\ upd'.pc = "idle" /\ script[k].pc \in {"start", "startOld"}
    BY <1>4, <2>1 DEF Start, StartOld, OneSwap, BackupIsProven, FreshUpdater
  <2>3. /\ script'[k].pc = IF script[k].pc = "start" THEN "health" ELSE "mark"
        /\ script'[k].backup = script[k].backup /\ Alone' /\ Swapping' # {}
        /\ \A j \in Slot : j # k => script'[j].pc = "none"
    BY <2>1, <1>then
  <2> QED
    BY <2>1, <2>2, <2>3 DEF OneSwap, NoUpdaterWhenStopped, KeptStopped, BackupIsProven,
       QuietIsProven, CandidateUnmarked, NewbornAtMark
<1>5. CASE Health(k)
  <2>1. /\ service' = service /\ upd' = upd /\ installed' = installed /\ marker' = marker
        /\ script[k].backup \in Proven
    BY <1>5 DEF Health, OneSwap, BackupIsProven, disk
  <2>2. CASE Ends(k) /\ installed \in Healthy
    BY <2>1, <2>2, <1>ends DEF Proven
  <2>3. CASE Then(k, "stopBad")
    <3>1. /\ script'[k].pc = "stopBad" /\ script'[k].backup = script[k].backup
          /\ Alone' /\ Swapping' # {} /\ \A j \in Slot : j # k => script'[j].pc = "none"
      BY <2>3, <1>then
    <3> QED
      BY <2>1, <3>1 DEF OneSwap, NoUpdaterWhenStopped, KeptStopped, BackupIsProven,
         QuietIsProven, CandidateUnmarked, NewbornAtMark
  <2> QED
    BY <1>5, <2>2, <2>3 DEF Health
<1>6. CASE Mark(k)
  <2>1. /\ service' = service /\ upd' = upd /\ installed' = installed /\ installed \in Proven
        /\ upd.pc \in {"idle", "hash"}
    BY <1>6 DEF Mark, env, OneSwap, BackupIsProven, NewbornAtMark
  <2>2. /\ script'[k].pc = "none" /\ Alone'
        /\ \A j \in Slot : j # k => script'[j].pc = "none"
    BY <1>6, <1>t, <1>a, OthersIdle DEF Mark, Ends
  <2> QED
    BY <2>1, <2>2 DEF OneSwap, NoUpdaterWhenStopped, KeptStopped, BackupIsProven,
       QuietIsProven, CandidateUnmarked, NewbornAtMark
<1> QED
  BY <1>1, <1>2, <1>3, <1>4, <1>5, <1>6 DEF Script

LEMMA OneSwapStep == TypeOK /\ (~overlapped => OneSwap) /\ [Next]_vars => (~overlapped' => OneSwap')
<1> SUFFICES ASSUME TypeOK, ~overlapped => OneSwap, [Next]_vars, ~overlapped' PROVE OneSwap'
  OBVIOUS
<1>1. ~overlapped
  BY DEF Next, Updater, Script, Tick, Hash, Check, Gate, Smoke, Recheck, Launch, SwapReturned,
     Backup, Stop, Copy, Start, Health, StopBad, Restore, StartOld, Mark, Write, ClaimRun, EndRun,
     TurnChanges, DbChanges, WaitedOut, MarkerExpires, ServiceRestarts, disk, vars
<1>2. CASE ServiceRestarts
  <2>1. /\ service # NoSha /\ upd'.pc = "idle" /\ installed' = installed /\ marker' = marker
        /\ script' = script
    BY <1>2 DEF ServiceRestarts, Started, FreshUpdater, disk
  <2> QED
    BY <1>1, <2>1 DEF OneSwap, Alone, NoUpdaterWhenStopped, KeptStopped, BackupIsProven,
       QuietIsProven, CandidateUnmarked, NewbornAtMark, Swapping
<1>3. CASE \/ (\E sha \in Content : Write(sha)) \/ ClaimRun \/ EndRun \/ TurnChanges \/ DbChanges
           \/ WaitedOut \/ MarkerExpires \/ UNCHANGED vars
  <2>1. /\ service' = service /\ installed' = installed /\ script' = script
        /\ marker' = marker \/ ~marker'.fresh
    BY <1>3 DEF Write, ClaimRun, EndRun, TurnChanges, DbChanges, WaitedOut, MarkerExpires, disk,
       vars, TypeOK
  <2>2. upd'.pc = upd.pc /\ upd'.last = upd.last /\ upd'.cand = upd.cand
    BY <1>3 DEF Write, ClaimRun, EndRun, TurnChanges, DbChanges, WaitedOut, MarkerExpires, vars,
       TypeOK, UpdaterState
  <2> QED
    BY <1>1, <2>1, <2>2 DEF OneSwap, Alone, NoUpdaterWhenStopped, KeptStopped, BackupIsProven,
       QuietIsProven, CandidateUnmarked, NewbornAtMark, Swapping
<1> QED
  BY <1>1, <1>2, <1>3, UpdaterKeepsOneSwap, RecheckKeepsOneSwap, ScriptKeepsOneSwap
     DEF Next, Updater, Slot

LEMMA IInvInit == Init => IInv
BY TypeInit, OneSwapInit DEF IInv

LEMMA IInvStep == IInv /\ [Next]_vars => IInv'
BY TypeStep, OneSwapStep DEF IInv

\* Between swaps that did not overlap, what runs has passed a health check or was there from
\* the beginning.
THEOREM InstalledIsProvenHolds == Spec => []InstalledIsProven
<1>1. IInv => InstalledIsProven
  BY DEF IInv, OneSwap, QuietIsProven, Proven, InstalledIsProven
<1> QED
  BY <1>1, IInvInit, IInvStep, PTL DEF Spec

\* A build that was rolled back is not launched again while its marker's TTL lasts.
THEOREM NoReflapHolds == Spec => NoReflap
<1>1. IInv /\ [Next]_vars =>
        [\A k \in 1..MaxScripts :
           ~overlapped /\ script[k].pc = "none" /\ script'[k].pc = "backup"
             => ~(marker.fresh /\ marker.sha = script'[k].sha)]_vars
  <2> SUFFICES ASSUME IInv, Next, NEW k \in Slot,
                      ~overlapped, script[k].pc = "none", script'[k].pc = "backup"
               PROVE  ~(marker.fresh /\ marker.sha = script'[k].sha)
    BY DEF Slot, vars
  <2>t. script \in [Slot -> ScriptState]
    BY DEF IInv, TypeOK, Slot
  <2>1. ASSUME NEW j \in Slot, Script(j) PROVE FALSE
    <3>1. script[j].pc # "none" /\ j # k
      BY <2>1 DEF Script, Backup, Stop, Copy, Start, Health, StopBad, Restore, StartOld, Mark
    <3>2. script'[k] = script[k]
      BY <2>1, <2>t, <3>1 DEF Script, Backup, Stop, Copy, Start, Health, StopBad, Restore,
         StartOld, Mark, CopyFails, Then, Ends
    <3> QED
      BY <3>2
  <2>2. Recheck
    BY <2>1 DEF Next, Updater, Tick, Hash, Check, Gate, Smoke, SwapReturned, Write, ClaimRun,
       EndRun, TurnChanges, DbChanges, WaitedOut, MarkerExpires, ServiceRestarts, Slot
  <2>3. script'[k].sha = upd.cand /\ upd.pc = "recheck"
    BY <2>2, <2>t DEF Recheck, Launch, NoScript, Slot
  <2> QED
    BY <2>3 DEF IInv, OneSwap, CandidateUnmarked
<1> QED
  BY <1>1, IInvInit, IInvStep, PTL DEF Spec, NoReflap

----------------------------------------------------------------------------
(* The vault.  Paths, first.                                               *)

\* Sequences of one and two things.
LEMMA Pairs ==
  ASSUME NEW a, NEW b
  PROVE  /\ Append(<<a>>, b) = <<a, b>> /\ <<a>> \o <<b>> = <<a, b>>
         /\ SubSeq(<<a, b>>, 1, 1) = <<a>> /\ SubSeq(<<a, b>>, 2, 2) = <<b>>
         /\ SubSeq(<<a, b>>, 1, 2) = <<a, b>> /\ SubSeq(<<a>>, 1, 1) = <<a>>
<1> DEFINE S == {a, b}
<1>1. <<a>> \in Seq(S) /\ <<b>> \in Seq(S) /\ <<a, b>> \in Seq(S) /\ a \in S /\ b \in S
  OBVIOUS
<1>2. Len(<<a>>) = 1 /\ Len(<<b>>) = 1 /\ Len(<<a, b>>) = 2 /\ <<a>>[1] = a /\ <<b>>[1] = b
      /\ <<a, b>>[1] = a /\ <<a, b>>[2] = b
  OBVIOUS
<1> HIDE DEF S
<1>3. Append(<<a>>, b) = <<a, b>>
  <2>1. /\ Append(<<a>>, b) \in Seq(S) /\ Len(Append(<<a>>, b)) = 2
        /\ Append(<<a>>, b)[1] = a /\ Append(<<a>>, b)[2] = b
    BY <1>1, <1>2, AppendProperties
  <2>2. \A i \in 1 .. 2 : Append(<<a>>, b)[i] = <<a, b>>[i]
    BY <2>1, <1>2
  <2> QED
    BY <2>1, <2>2, <1>1, <1>2, SeqEqual
<1>4. <<a>> \o <<b>> = <<a, b>>
  BY <1>3, <1>1, AppendIsConcat
<1>5. SubSeq(<<a, b>>, 1, 1) = <<a>>
  <2>1. /\ SubSeq(<<a, b>>, 1, 1) \in Seq(S) /\ Len(SubSeq(<<a, b>>, 1, 1)) = 1
        /\ SubSeq(<<a, b>>, 1, 1)[1] = a
    <3>1. \A i \in 1 .. 1 : <<a, b>>[i] \in S
      BY <1>1, <1>2
    <3> QED
      BY <3>1, <1>2, SubSeqProperties
  <2>2. \A i \in 1 .. 1 : SubSeq(<<a, b>>, 1, 1)[i] = <<a>>[i]
    BY <2>1, <1>2
  <2> QED
    BY <2>1, <2>2, <1>1, <1>2, SeqEqual
<1>6. SubSeq(<<a, b>>, 2, 2) = <<b>>
  <2>1. /\ SubSeq(<<a, b>>, 2, 2) \in Seq(S) /\ Len(SubSeq(<<a, b>>, 2, 2)) = 1
        /\ SubSeq(<<a, b>>, 2, 2)[1] = b
    <3>1. \A i \in 2 .. 2 : <<a, b>>[i] \in S
      BY <1>1, <1>2
    <3> QED
      BY <3>1, <1>2, SubSeqProperties
  <2>2. \A i \in 1 .. 1 : SubSeq(<<a, b>>, 2, 2)[i] = <<b>>[i]
    BY <2>1, <1>2
  <2> QED
    BY <2>1, <2>2, <1>1, <1>2, SeqEqual
<1>7. SubSeq(<<a, b>>, 1, 2) = <<a, b>> /\ SubSeq(<<a>>, 1, 1) = <<a>>
  BY <1>1, <1>2, SubSeqFull
<1> QED
  BY <1>3, <1>4, <1>5, <1>6, <1>7

\* How the paths of the two levels are made of names.
LEMMA PathShapes ==
  /\ Len(Root) = 0
  /\ \A a : /\ Len(<<a>>) = 1 /\ <<a>> # Root /\ Front(<<a>>) = Root /\ Last(<<a>>) = a
            /\ Append(Root, a) = <<a>>
  /\ \A a, b : /\ Len(<<a, b>>) = 2 /\ <<a, b>> # Root /\ Front(<<a, b>>) = <<a>>
               /\ Last(<<a, b>>) = b /\ Append(<<a>>, b) = <<a, b>>
<1>1. Len(Root) = 0
  BY DEF Root
<1>2. \A a : Len(<<a>>) = 1 /\ <<a>> # Root /\ Front(<<a>>) = Root /\ Last(<<a>>) = a
             /\ Append(Root, a) = <<a>>
  BY DEF Root, Front, Last
<1>3. ASSUME NEW a, NEW b
      PROVE  /\ Len(<<a, b>>) = 2 /\ <<a, b>> # Root /\ Front(<<a, b>>) = <<a>>
             /\ Last(<<a, b>>) = b /\ Append(<<a>>, b) = <<a, b>>
  <2>1. Len(<<a, b>>) = 2 /\ <<a, b>> # Root /\ <<a, b>>[2] = b
    BY DEF Root
  <2>2. Front(<<a, b>>) = SubSeq(<<a, b>>, 1, 1)
    BY <2>1 DEF Front
  <2>3. Last(<<a, b>>) = b
    BY <2>1 DEF Last
  <2> QED
    BY <2>1, <2>2, <2>3, Pairs
<1> QED
  BY <1>1, <1>2, <1>3

\* There are no other paths.
LEMMA PathCases ==
  ASSUME NEW p \in Paths
  PROVE  \/ p = Root
         \/ \E a \in Top : p = <<a>>
         \/ \E a \in Top, b \in Sub : p = <<a, b>>
BY DEF Paths

\* Which of those are prefixes of which.
LEMMA PrefixCases ==
  /\ IsPrefix(Root, Root)
  /\ \A a : IsPrefix(Root, <<a>>) /\ ~IsPrefix(<<a>>, Root)
  /\ \A a, b : IsPrefix(Root, <<a, b>>) /\ ~IsPrefix(<<a, b>>, Root)
  /\ \A a, b : IsPrefix(<<a>>, <<b>>) <=> a = b
  /\ \A a, b, c : (IsPrefix(<<a>>, <<b, c>>) <=> a = b) /\ ~IsPrefix(<<b, c>>, <<a>>)
  /\ \A a, b, c, d : IsPrefix(<<a, b>>, <<c, d>>) <=> a = c /\ b = d
<1>1. IsPrefix(Root, Root) /\ \A p : IsPrefix(Root, <<p>>) /\ ~IsPrefix(<<p>>, Root)
  BY DEF IsPrefix, Root
<1>2. \A a, b : IsPrefix(Root, <<a, b>>) /\ ~IsPrefix(<<a, b>>, Root)
  BY DEF IsPrefix, Root
<1>3. ASSUME NEW a, NEW b PROVE IsPrefix(<<a>>, <<b>>) <=> a = b
  <2>1. SubSeq(<<a>>, 1, 1) = <<a>> /\ SubSeq(<<b>>, 1, 1) = <<b>>
    BY Pairs
  <2>2. Len(<<a>>) = 1 /\ Len(<<b>>) = 1 /\ (<<a>> = <<b>> <=> a = b)
    OBVIOUS
  <2> QED
    BY <2>1, <2>2 DEF IsPrefix
<1>4. ASSUME NEW a, NEW b, NEW c
      PROVE (IsPrefix(<<a>>, <<b, c>>) <=> a = b) /\ ~IsPrefix(<<b, c>>, <<a>>)
  <2>1. SubSeq(<<a>>, 1, 1) = <<a>> /\ SubSeq(<<b, c>>, 1, 1) = <<b>>
    BY Pairs
  <2>2. Len(<<a>>) = 1 /\ Len(<<b, c>>) = 2 /\ (<<a>> = <<b>> <=> a = b)
    OBVIOUS
  <2> QED
    BY <2>1, <2>2 DEF IsPrefix
<1>6. ASSUME NEW a, NEW b, NEW c, NEW d
      PROVE IsPrefix(<<a, b>>, <<c, d>>) <=> a = c /\ b = d
  <2>1. SubSeq(<<a, b>>, 1, 2) = <<a, b>> /\ SubSeq(<<c, d>>, 1, 2) = <<c, d>>
    BY Pairs
  <2>2. Len(<<a, b>>) = 2 /\ Len(<<c, d>>) = 2 /\ (<<a, b>> = <<c, d>> <=> a = c /\ b = d)
    OBVIOUS
  <2> QED
    BY <2>1, <2>2 DEF IsPrefix
<1> QED
  BY <1>1, <1>2, <1>3, <1>4, <1>6

\* A path has at most two names, and the root alone has none.
LEMMA PathLens ==
  /\ Root \in Paths /\ Len(Root) = 0
  /\ \A p \in Paths : Len(p) \in 0..2 /\ (Len(p) = 0 <=> p = Root)
<1>1. Root \in Paths /\ Len(Root) = 0
  BY PathShapes DEF Paths
<1>2. \A p \in Paths : Len(p) \in 0..2 /\ (Len(p) = 0 <=> p = Root)
  <2> TAKE p \in Paths
  <2>1. CASE p = Root
    BY <2>1, PathShapes
  <2>2. CASE \E a \in Top : p = <<a>>
    BY <2>2, PathShapes
  <2>3. CASE \E a \in Top, b \in Sub : p = <<a, b>>
    BY <2>3, PathShapes
  <2> QED
    BY <2>1, <2>2, <2>3, PathCases
<1> QED
  BY <1>1, <1>2

\* A path but the root is its parent and a name.
LEMMA PathFacts ==
  /\ Root \in Paths /\ Len(Root) = 0
  /\ \A p \in Paths : Len(p) \in 0..2 /\ (Len(p) = 0 <=> p = Root)
  /\ \A p \in Paths \ {Root} :
        /\ Front(p) \in Paths /\ Front(p) # p /\ Len(p) = Len(Front(p)) + 1
        /\ Append(Front(p), Last(p)) = p /\ Last(p) \in Top \cup Sub
<1>1. Root \in Paths /\ \A p \in Paths : Len(p) \in 0..2 /\ (Len(p) = 0 <=> p = Root)
  BY PathLens
<1>4. \A p \in Paths \ {Root} :
        /\ Front(p) \in Paths /\ Front(p) # p /\ Len(p) = Len(Front(p)) + 1
        /\ Append(Front(p), Last(p)) = p /\ Last(p) \in Top \cup Sub
  <2> TAKE p \in Paths \ {Root}
  <2>2. CASE \E a \in Top : p = <<a>>
    <3>1. PICK a \in Top : p = <<a>>
      BY <2>2
    <3>2. Len(p) = 1 /\ Front(p) = Root /\ Last(p) = a /\ Append(Root, a) = p /\ Len(Root) = 0
      BY <3>1, PathShapes
    <3>3. Front(p) \in Paths /\ Append(Front(p), Last(p)) = p
      BY <3>2, <1>1
    <3> QED
      BY <3>2, <3>3
  <2>3. CASE \E a \in Top, b \in Sub : p = <<a, b>>
    <3>1. PICK a \in Top, b \in Sub : p = <<a, b>>
      BY <2>3
    <3>2. <<a>> \in Paths /\ Len(<<a>>) = 1
      BY PathShapes DEF Paths
    <3>3. Len(p) = 2 /\ Front(p) = <<a>> /\ Last(p) = b /\ Append(<<a>>, b) = p
      BY <3>1, PathShapes
    <3>4. Front(p) # p /\ Len(p) = Len(Front(p)) + 1
      BY <3>2, <3>3
    <3>5. Append(Front(p), Last(p)) = p /\ Front(p) \in Paths
      BY <3>2, <3>3
    <3>6. Last(p) \in Top \cup Sub
      BY <3>3
    <3> QED
      BY <3>4, <3>5, <3>6
  <2>4. (\E a \in Top : p = <<a>>) \/ \E a \in Top, b \in Sub : p = <<a, b>>
    BY PathCases
  <2> QED
    BY <2>2, <2>3, <2>4
<1> QED
  BY <1>1, <1>4, PathShapes

\* The prefixes of a directory: itself, and those of its parent.
LEMMA PathPrefix ==
  ASSUME NEW p \in Paths, NEW q \in Paths
  PROVE  IsPrefix(p, q) <=> p = q \/ (q # Root /\ IsPrefix(p, Front(q)))
<1>1. CASE q = Root
  BY <1>1, PathCases, PrefixCases, PathShapes
<1>2. CASE \E a \in Top : q = <<a>>
  <2>1. PICK a \in Top : q = <<a>>
    BY <1>2
  <2>2. q # Root /\ Front(q) = Root
    BY <2>1, PathShapes
  <2>3. CASE p = Root
    BY <2>1, <2>2, <2>3, PrefixCases
  <2>4. CASE p # Root
    <3>1. ~IsPrefix(p, Root)
      BY <2>4, PathCases, PrefixCases
    <3>2. IsPrefix(p, q) <=> p = q
      BY <2>1, <2>4, PathCases, PrefixCases, PathShapes
    <3> QED
      BY <3>1, <3>2, <2>2
  <2> QED
    BY <2>3, <2>4
<1>3. CASE \E a \in Top, b \in Sub : q = <<a, b>>
  <2>1. PICK a \in Top, b \in Sub : q = <<a, b>>
    BY <1>3
  <2>2. q # Root /\ Front(q) = <<a>>
    BY <2>1, PathShapes
  <2>3. CASE p = Root
    BY <2>1, <2>2, <2>3, PrefixCases
  <2>4. CASE \E c \in Top : p = <<c>>
    <3>1. PICK c \in Top : p = <<c>>
      BY <2>4
    <3>2. p # q
      BY <3>1, <2>1
    <3> QED
      BY <3>1, <3>2, <2>1, <2>2, PrefixCases
  <2>5. CASE \E c \in Top, d \in Sub : p = <<c, d>>
    <3>1. PICK c \in Top, d \in Sub : p = <<c, d>>
      BY <2>5
    <3>2. ~IsPrefix(p, Front(q))
      BY <3>1, <2>2, PrefixCases
    <3>3. IsPrefix(p, q) <=> p = q
      BY <3>1, <2>1, PrefixCases
    <3> QED
      BY <3>2, <3>3
  <2> QED
    BY <2>3, <2>4, <2>5, PathCases
<1> QED
  BY <1>1, <1>2, <1>3, PathCases

\* Prefixes order the paths as a tree.
LEMMA PathOrder ==
  /\ \A p \in Paths : IsPrefix(p, p) /\ IsPrefix(Root, p) /\ (IsPrefix(p, Root) => p = Root)
  /\ \A p, q \in Paths : IsPrefix(p, q) => Len(p) <= Len(q) /\ (Len(p) = Len(q) => p = q)
  /\ \A p, q, r \in Paths : IsPrefix(p, q) /\ IsPrefix(q, r) => IsPrefix(p, r)
  /\ \A p, q, r \in Paths : IsPrefix(p, r) /\ IsPrefix(q, r) => IsPrefix(p, q) \/ IsPrefix(q, p)
<1>1. \A p \in Paths : IsPrefix(p, p) /\ (IsPrefix(p, Root) => p = Root)
  BY PathPrefix, PathFacts
<1>2. \A p \in Paths : IsPrefix(Root, p)
  BY PathCases, PrefixCases
<1>3. \A q \in Paths : q # Root => Front(q) \in Paths /\ Len(q) = Len(Front(q)) + 1 /\ Len(Front(q)) \in Nat
  BY PathFacts
<1>4. \A p, q \in Paths : IsPrefix(p, q) =>
        \/ p = q
        \/ q # Root /\ p = Front(q)
        \/ q # Root /\ Front(q) # Root /\ p = Front(Front(q))
  <2> TAKE p, q \in Paths
  <2> HAVE IsPrefix(p, q)
  <2>1. p = q \/ (q # Root /\ IsPrefix(p, Front(q)))
    BY PathPrefix
  <2>2. CASE q # Root /\ IsPrefix(p, Front(q))
    <3>1. p = Front(q) \/ (Front(q) # Root /\ IsPrefix(p, Front(Front(q))))
      BY <2>2, <1>3, PathPrefix
    <3>2. CASE Front(q) # Root /\ IsPrefix(p, Front(Front(q)))
      <4>1. Front(Front(q)) \in Paths /\ Len(q) = Len(Front(Front(q))) + 2 /\ Len(Front(Front(q))) \in Nat
        BY <3>2, <2>2, <1>3
      <4>2. Front(Front(q)) = Root
        BY <4>1, PathFacts
      <4> QED
        BY <4>2, <3>2, <2>2, <1>1
    <3> QED
      BY <3>1, <3>2, <2>2
  <2> QED
    BY <2>1, <2>2
<1>5. \A p, q \in Paths : IsPrefix(p, q) => Len(p) <= Len(q) /\ (Len(p) = Len(q) => p = q)
  <2> TAKE p, q \in Paths
  <2> HAVE IsPrefix(p, q)
  <2>1. CASE p = q
    BY <2>1, PathFacts
  <2>2. CASE q # Root /\ p = Front(q)
    BY <2>2, <1>3
  <2>3. CASE q # Root /\ Front(q) # Root /\ p = Front(Front(q))
    <3>1. Len(q) = Len(Front(q)) + 1 /\ Len(Front(q)) = Len(p) + 1 /\ Len(p) \in Nat
      BY <2>3, <1>3
    <3> QED
      BY <3>1
  <2> QED
    BY <2>1, <2>2, <2>3, <1>4
<1>6. \A p, q, r \in Paths : IsPrefix(p, q) /\ IsPrefix(q, r) => IsPrefix(p, r)
  <2> TAKE p, q, r \in Paths
  <2> HAVE IsPrefix(p, q) /\ IsPrefix(q, r)
  <2>1. CASE r = q
    BY <2>1
  <2>2. CASE r # Root /\ q = Front(r)
    BY <2>2, PathPrefix
  <2>3. CASE r # Root /\ Front(r) # Root /\ q = Front(Front(r))
    <3>1. IsPrefix(p, Front(r))
      BY <2>3, <1>3, PathPrefix
    <3> QED
      BY <3>1, <2>3, <1>3, PathPrefix
  <2> QED
    BY <2>1, <2>2, <2>3, <1>4
<1>7. \A p, q, r \in Paths : IsPrefix(p, r) /\ IsPrefix(q, r) => IsPrefix(p, q) \/ IsPrefix(q, p)
  <2> TAKE p, q, r \in Paths
  <2> HAVE IsPrefix(p, r) /\ IsPrefix(q, r)
  <2>1. \/ p = r
        \/ r # Root /\ p = Front(r)
        \/ r # Root /\ Front(r) # Root /\ p = Front(Front(r))
    BY <1>4
  <2>2. \/ q = r
        \/ r # Root /\ q = Front(r)
        \/ r # Root /\ Front(r) # Root /\ q = Front(Front(r))
    BY <1>4
  <2>3. CASE r = p \/ r = q
    BY <2>3
  <2>4. CASE p = q
    BY <2>4, <1>1
  <2>5. CASE r # Root /\ Front(r) # Root
    <3>1. IsPrefix(Front(Front(r)), Front(r))
      BY <2>5, <1>1, <1>3, PathPrefix
    <3> QED
      BY <3>1, <2>1, <2>2, <2>3, <2>4
  <2> QED
    BY <2>1, <2>2, <2>3, <2>4, <2>5
<1> QED
  BY <1>1, <1>2, <1>5, <1>6, <1>7

\* What is below a directory, in terms of parents.
LEMMA BelowFacts ==
  /\ \A p \in Paths : Under(p) \subseteq Paths /\ Below(p) = Under(p) \ {p} /\ p \in Under(p)
  /\ \A p, q \in Paths : q \in Under(p) <=> q = p \/ (q # Root /\ Front(q) \in Under(p))
  /\ \A p \in Paths : Children(p) = {q \in Paths \ {Root} : Front(q) = p}
<1>1. \A p \in Paths : Under(p) \subseteq Paths /\ Below(p) = Under(p) \ {p} /\ p \in Under(p)
  BY PathOrder DEF Under, Below, IsStrictPrefix
<1>2. \A p, q \in Paths : q \in Under(p) <=> q = p \/ (q # Root /\ Front(q) \in Under(p))
  BY PathPrefix, PathFacts DEF Under
<1>3. ASSUME NEW p \in Paths, NEW q \in Paths
      PROVE  IsPrefix(p, q) /\ p # q /\ Len(q) = Len(p) + 1 <=> q # Root /\ Front(q) = p
  <2>1. CASE q = Root
    BY <2>1, PathOrder
  <2>2. CASE q # Root
    <3>1. Front(q) \in Paths /\ Front(q) # q /\ Len(q) = Len(Front(q)) + 1 /\ Len(Front(q)) \in Nat
          /\ Len(p) \in Nat
      BY <2>2, PathFacts
    <3>2. IsPrefix(p, q) <=> p = q \/ IsPrefix(p, Front(q))
      BY <2>2, PathPrefix
    <3>3. IsPrefix(p, Front(q)) /\ Len(p) = Len(Front(q)) => p = Front(q)
      BY <3>1, PathOrder
    <3>4. IsPrefix(Front(q), Front(q))
      BY <3>1, PathOrder
    <3> QED
      BY <2>2, <3>1, <3>2, <3>3, <3>4
  <2> QED
    BY <2>1, <2>2
<1>4. \A p \in Paths : Children(p) = {q \in Paths \ {Root} : Front(q) = p}
  BY <1>3 DEF Children, Below, IsStrictPrefix
<1> QED
  BY <1>1, <1>2, <1>4

\* A name that a directory below p may have.
Fits(p, n) == Append(p, n) \in Paths

\* Whether a name fits below a directory is a matter of its depth.
LEMMA FitFacts ==
  /\ \A n : \A p, q \in Paths : Len(p) = Len(q) /\ Fits(p, n) => Fits(q, n)
  /\ \A p \in Paths \ {Root} : Fits(Front(p), Last(p))
<1>1. ASSUME NEW p \in Paths, NEW n
      PROVE  Fits(p, n) <=> (Len(p) = 0 /\ n \in Top) \/ (Len(p) = 1 /\ n \in Sub)
  <2>1. CASE p = Root
    <3>1. Append(p, n) = <<n>> /\ Len(p) = 0
      BY <2>1, PathShapes
    <3>2. <<n>> \in Paths <=> n \in Top
      <4>1. ASSUME <<n>> \in Paths PROVE n \in Top
        <5>1. <<n>> # Root /\ \A a, b : <<n>> # <<a, b>>
          BY PathShapes
        <5>2. PICK a \in Top : <<n>> = <<a>>
          BY <4>1, <5>1, PathCases
        <5> QED
          BY <5>2
      <4> QED
        BY <4>1 DEF Paths
    <3> QED
      BY <3>1, <3>2 DEF Fits
  <2>2. CASE \E a \in Top : p = <<a>>
    <3>0. PICK a \in Top : p = <<a>>
      BY <2>2
    <3>1. Append(p, n) = <<a, n>> /\ Len(p) = 1
      BY <3>0, PathShapes
    <3>2. <<a, n>> \in Paths <=> n \in Sub
      <4>1. ASSUME <<a, n>> \in Paths PROVE n \in Sub
        <5>1. <<a, n>> # Root /\ \A c : <<a, n>> # <<c>>
          BY PathShapes
        <5>2. PICK c \in Top, d \in Sub : <<a, n>> = <<c, d>>
          BY <4>1, <5>1, PathCases
        <5> QED
          BY <5>2
      <4> QED
        BY <4>1 DEF Paths
    <3> QED
      BY <3>1, <3>2 DEF Fits
  <2>3. CASE \E a \in Top, b \in Sub : p = <<a, b>>
    <3>0. PICK a \in Top, b \in Sub : p = <<a, b>>
      BY <2>3
    <3>1. Len(p) = 2
      BY <3>0
    <3>2. Len(Append(p, n)) = 3
      <4> DEFINE S == {a, b, n}
      <4>1. p \in Seq(S) /\ n \in S
        BY <3>0
      <4> HIDE DEF S
      <4> QED
        BY <3>1, <4>1, AppendProperties
    <3>3. Append(p, n) \notin Paths
      <4>1. \A r \in Paths : Len(r) # 3
        BY PathLens
      <4> QED
        BY <3>2, <4>1
    <3> QED
      BY <3>1, <3>3 DEF Fits
  <2> QED
    BY <2>1, <2>2, <2>3, PathCases
<1>2. \A p \in Paths \ {Root} : Fits(Front(p), Last(p))
  BY PathFacts DEF Fits
<1> QED
  BY <1>1, <1>2

\* Where a rename takes what is below the directory from.
Moved(p, r) == p \o SubSeq(r, Len(p) + 1, Len(r))

\* A rename maps what is below one directory to what is below the other, parents to parents.
LEMMA MovedFacts ==
  ASSUME NEW p \in Paths \ {Root}, NEW q \in Paths \ {Root}, Len(p) = Len(q)
  PROVE  /\ Moved(p, q) = p
         /\ \A r \in Under(q) : /\ Moved(p, r) \in Under(p) /\ Len(Moved(p, r)) = Len(r)
                               /\ Moved(q, Moved(p, r)) = r
         /\ \A r \in Under(q) \ {q} : Moved(p, r) # Root /\ Front(Moved(p, r)) = Moved(p, Front(r))
<1>1. CASE \E a \in Top : q = <<a>>
  <2>1. PICK a \in Top : q = <<a>>
    BY <1>1
  <2>2. PICK c \in Top : p = <<c>>
    <3>1. Len(p) = 1 /\ Len(Root) = 0 /\ \A c, d : Len(<<c, d>>) = 2
      BY <2>1, PathShapes
    <3> QED
      BY <3>1, PathCases
  <2>3. Len(p) = 1 /\ Len(q) = 1
    BY <2>1, <2>2, PathShapes
  <2>4. ASSUME NEW e, NEW f PROVE Moved(<<e>>, <<f>>) = <<e>>
    <3>1. SubSeq(<<f>>, 2, 1) = <<>>
      BY SubSeqEmpty
    <3>2. Len(<<e>>) = 1 /\ Len(<<f>>) = 1
      OBVIOUS
    <3>3. <<e>> \o <<>> = <<e>>
      <4>1. <<e>> \in Seq({e})
        OBVIOUS
      <4> QED
        BY <4>1, ConcatEmptySeq
    <3>4. Moved(<<e>>, <<f>>) = <<e>> \o SubSeq(<<f>>, 2, 1)
      BY <3>2 DEF Moved
    <3> QED
      BY <3>1, <3>3, <3>4
  <2>5. ASSUME NEW e, NEW f, NEW g PROVE Moved(<<e>>, <<f, g>>) = <<e, g>>
    <3>1. SubSeq(<<f, g>>, 2, 2) = <<g>> /\ Len(<<e>>) = 1 /\ Len(<<f, g>>) = 2
      BY Pairs
    <3>2. Moved(<<e>>, <<f, g>>) = <<e>> \o <<g>>
      BY <3>1 DEF Moved
    <3> QED
      BY <3>2, Pairs
  <2>6. ASSUME NEW r \in Under(q) \ {q}
        PROVE  \E b \in Sub : r = <<a, b>>
    <3>1. r \in Paths /\ IsPrefix(<<a>>, r) /\ r # <<a>>
      BY <2>1 DEF Under
    <3>2. r # Root
      BY <3>1, PrefixCases
    <3>3. ~\E b \in Top : r = <<b>>
      BY <3>1, PrefixCases
    <3>4. PICK b \in Top, d \in Sub : r = <<b, d>>
      BY <3>1, <3>2, <3>3, PathCases
    <3>5. a = b
      BY <3>1, <3>4, PrefixCases
    <3> QED
      BY <3>4, <3>5
  <2>7. Moved(p, q) = p /\ Moved(q, p) = q
    BY <2>1, <2>2, <2>4
  <2>8. ASSUME NEW r \in Under(q) \ {q}
        PROVE  /\ Moved(p, r) \in Under(p) /\ Len(Moved(p, r)) = Len(r)
               /\ Moved(q, Moved(p, r)) = r
               /\ Moved(p, r) # Root /\ Front(Moved(p, r)) = Moved(p, Front(r))
    <3>1. PICK b \in Sub : r = <<a, b>>
      BY <2>6
    <3>2. Moved(p, r) = <<c, b>> /\ Moved(q, <<c, b>>) = <<a, b>>
      BY <3>1, <2>1, <2>2, <2>5
    <3>3. <<c, b>> \in Paths /\ IsPrefix(<<c>>, <<c, b>>)
      BY PrefixCases DEF Paths
    <3>4. Len(<<c, b>>) = 2 /\ Len(r) = 2 /\ <<c, b>> # Root /\ Front(<<c, b>>) = <<c>> /\ Front(r) = <<a>>
      BY <3>1, PathShapes
    <3> QED
      BY <3>1, <3>2, <3>3, <3>4, <2>1, <2>2, <2>4 DEF Under
  <2>9. p \in Under(p)
    BY BelowFacts
  <2> QED
    BY <2>3, <2>7, <2>8, <2>9
<1>2. CASE \E a \in Top, b \in Sub : q = <<a, b>>
  <2>1. Len(q) = 2 /\ Len(p) = 2
    BY <1>2, PathShapes
  <2>2. Under(q) = {q}
    <3>1. \A r \in Paths : IsPrefix(q, r) => r = q
      BY <2>1, PathOrder, PathFacts
    <3>2. q \in Under(q) /\ Under(q) \subseteq Paths /\ \A r \in Under(q) : IsPrefix(q, r)
      BY BelowFacts DEF Under
    <3> QED
      BY <3>1, <3>2
  <2>3. \A x, y \in Paths : Len(x) = 2 /\ Len(y) = 2 => Moved(x, y) = x
    <3> TAKE x, y \in Paths
    <3> HAVE Len(x) = 2 /\ Len(y) = 2
    <3>0. Len(Root) = 0 /\ (\A a : Len(<<a>>) = 1)
      BY PathShapes
    <3>1. PICK e \in Top, f \in Sub : x = <<e, f>>
      BY <3>0, PathCases
    <3>2. x \in Seq({e, f})
      BY <3>1
    <3>3. x \o <<>> = x
      BY <3>2, ConcatEmptySeq
    <3>4. SubSeq(y, 3, 2) = <<>>
      BY SubSeqEmpty
    <3>5. Moved(x, y) = x \o SubSeq(y, 3, 2)
      BY DEF Moved
    <3> QED
      BY <3>3, <3>4, <3>5
  <2>4. p \in Under(p)
    BY BelowFacts
  <2> QED
    BY <2>1, <2>2, <2>3, <2>4
<1> QED
  BY <1>1, <1>2, PathCases

\* There are finitely many paths.
LEMMA FinitePaths == IsFiniteSet(Paths)
<1>1. IsFiniteSet({Root}) /\ IsFiniteSet(Top) /\ IsFiniteSet(Sub)
  BY VaultAssumption, FS_Singleton
<1>2. IsFiniteSet({<<a>> : a \in Top})
  <2> DEFINE f == [a \in Top |-> <<a>>]
  <2>1. f \in Surjection(Top, {<<a>> : a \in Top})
    BY DEF Surjection
  <2> QED
    BY <1>1, <2>1, FS_Surjection
<1>3. IsFiniteSet(Top \X Sub)
  BY <1>1, FS_Product
<1>4. {<<a, b>> : a \in Top, b \in Sub} = Top \X Sub
  OBVIOUS
<1>5. IsFiniteSet({Root} \cup {<<a>> : a \in Top})
  BY <1>1, <1>2, FS_Union
<1>6. IsFiniteSet({<<a, b>> : a \in Top, b \in Sub})
  BY <1>3, <1>4
<1>7. IsFiniteSet(({Root} \cup {<<a>> : a \in Top}) \cup {<<a, b>> : a \in Top, b \in Sub})
  <2> DEFINE A == {Root} \cup {<<a>> : a \in Top}
             B == {<<a, b>> : a \in Top, b \in Sub}
  <2>1. IsFiniteSet(A) /\ IsFiniteSet(B)
    BY <1>5, <1>6
  <2> HIDE DEF A, B
  <2>2. IsFiniteSet(A \cup B)
    BY <2>1, FS_Union
  <2> QED
    BY <2>2 DEF A, B
<1> QED
  BY <1>7 DEF Paths

\* What the list of directories to read holds.
TodoItems == [dir : Paths, kind : {"walk", "dirty", "scan"}]
\* The directories on it,
DirsOf(s) == {s[i].dir : i \in DOMAIN s}
\* and those it is to walk.
Scans(s) == {s[i].dir : i \in {j \in DOMAIN s : s[j].kind # "dirty"}}

\* No directory of a walk is to be walked as a part of another.
Apart(s) == \A i, j \in DOMAIN s :
    i # j /\ s[i].kind # "dirty" /\ s[j].kind # "dirty" => ~IsPrefix(s[i].dir, s[j].dir)

\* What is to be walked comes before what is only dirty.
ScansFirst(s) == \A i, j \in DOMAIN s : i < j /\ s[j].kind # "dirty" => s[i].kind # "dirty"

\* A set in some order: all of it, each element once.
LEMMA SetToSeqFacts ==
  ASSUME NEW S, IsFiniteSet(S)
  PROVE  /\ SetToSeq(S) \in Seq(S) /\ ToSet(SetToSeq(S)) = S
         /\ \A i, j \in DOMAIN SetToSeq(S) : SetToSeq(S)[i] = SetToSeq(S)[j] => i = j
<1> DEFINE n == Cardinality(S)
           f == SetToSeq(S)
<1>1. n \in Nat /\ ExistsBijection(1..n, S)
  BY FS_CardinalityType, FS_Bijection
<1>2. \E g \in [1..n -> S] : IsInjective(g)
  BY <1>1 DEF ExistsBijection, Bijection, Injection
<1>3. f \in [1..n -> S] /\ IsInjective(f)
  BY <1>2 DEF SetToSeq
<1>4. f \in Injection(1..n, S)
  BY <1>3 DEF Injection
<1>5. Cardinality(1..n) = n /\ IsFiniteSet(1..n)
  BY <1>1, FS_Interval
<1> HIDE DEF f
<1>6. f \in Surjection(1..n, S)
  BY <1>4, <1>5, FS_Injection
<1>7. f \in Seq(S) /\ DOMAIN f = 1..n
  BY <1>1, <1>3, SeqDef
<1>8. ToSet(f) = S
  BY <1>6, <1>7 DEF ToSet, Surjection
<1> QED
  BY <1>3, <1>7, <1>8 DEF f, IsInjective

\* What is in one sequence after another, and where.
LEMMA ConcatSets ==
  ASSUME NEW S, NEW s \in Seq(S), NEW t \in Seq(S)
  PROVE  /\ s \o t \in Seq(S) /\ ToSet(s \o t) = ToSet(s) \cup ToSet(t)
         /\ \A i \in DOMAIN (s \o t) : \/ i \in DOMAIN s /\ (s \o t)[i] = s[i]
                                       \/ i - Len(s) \in DOMAIN t /\ (s \o t)[i] = t[i - Len(s)]
         /\ \A i \in DOMAIN s : i \in DOMAIN (s \o t) /\ (s \o t)[i] = s[i]
         /\ \A i \in DOMAIN t : i + Len(s) \in DOMAIN (s \o t) /\ (s \o t)[i + Len(s)] = t[i]
<1> DEFINE u == s \o t
<1>1. /\ u \in Seq(S) /\ Len(u) = Len(s) + Len(t)
      /\ \A i \in 1 .. Len(s) + Len(t) : u[i] = IF i <= Len(s) THEN s[i] ELSE t[i - Len(s)]
  BY ConcatProperties
<1>2. Len(s) \in Nat /\ Len(t) \in Nat /\ DOMAIN s = 1..Len(s) /\ DOMAIN t = 1..Len(t)
      /\ DOMAIN u = 1..(Len(s) + Len(t))
  BY <1>1, LenProperties
<1> HIDE DEF u
<1>3. \A i \in DOMAIN u : \/ i \in DOMAIN s /\ u[i] = s[i]
                          \/ i - Len(s) \in DOMAIN t /\ u[i] = t[i - Len(s)]
  BY <1>1, <1>2
<1>4. \A i \in DOMAIN s : i \in DOMAIN u /\ u[i] = s[i]
  BY <1>1, <1>2
<1>5. \A i \in DOMAIN t : i + Len(s) \in DOMAIN u /\ u[i + Len(s)] = t[i]
  <2> TAKE i \in DOMAIN t
  <2>1. i + Len(s) \in 1 .. Len(s) + Len(t) /\ ~(i + Len(s) <= Len(s)) /\ (i + Len(s)) - Len(s) = i
    BY <1>2
  <2> QED
    BY <1>1, <1>2, <2>1
<1>6. ToSet(u) = ToSet(s) \cup ToSet(t)
  <2>1. ToSet(u) \subseteq ToSet(s) \cup ToSet(t)
    BY <1>3 DEF ToSet
  <2>2. ToSet(s) \subseteq ToSet(u)
    BY <1>4 DEF ToSet
  <2>3. ToSet(t) \subseteq ToSet(u)
    BY <1>5 DEF ToSet
  <2> QED
    BY <2>1, <2>2, <2>3
<1> QED
  BY <1>1, <1>3, <1>4, <1>5, <1>6 DEF u

\* Two sequences without repetitions of different things, one after the other.
LEMMA ConcatDistinct ==
  ASSUME NEW S, NEW s \in Seq(S), NEW t \in Seq(S),
         \A i, j \in DOMAIN s : s[i] = s[j] => i = j,
         \A i, j \in DOMAIN t : t[i] = t[j] => i = j,
         ToSet(s) \cap ToSet(t) = {}
  PROVE  \A i, j \in DOMAIN (s \o t) : (s \o t)[i] = (s \o t)[j] => i = j
<1> DEFINE u == s \o t
<1>1. \A i \in DOMAIN u : \/ i \in DOMAIN s /\ u[i] = s[i]
                          \/ i - Len(s) \in DOMAIN t /\ u[i] = t[i - Len(s)]
  BY ConcatSets
<1>2. \A i \in DOMAIN s, j \in DOMAIN t : s[i] # t[j]
  BY DEF ToSet
<1>3. u \in Seq(S)
  BY ConcatSets
<1>4. DOMAIN u \subseteq Int /\ Len(s) \in Int
  BY <1>3, LenProperties
<1> HIDE DEF u
<1>5. ASSUME NEW i \in DOMAIN u, NEW j \in DOMAIN u, u[i] = u[j] PROVE i = j
  <2>1. CASE i \in DOMAIN s /\ u[i] = s[i]
    <3>1. j \in DOMAIN s /\ u[j] = s[j]
      BY <2>1, <1>1, <1>2, <1>5
    <3> QED
      BY <2>1, <3>1, <1>5
  <2>2. CASE i - Len(s) \in DOMAIN t /\ u[i] = t[i - Len(s)]
    <3>1. j - Len(s) \in DOMAIN t /\ u[j] = t[j - Len(s)]
      BY <2>2, <1>1, <1>2, <1>5
    <3>2. i - Len(s) = j - Len(s)
      BY <2>2, <3>1, <1>5
    <3>3. i \in Int /\ j \in Int
      BY <1>4
    <3> QED
      BY <3>2, <3>3, <1>4
  <2> QED
    BY <2>1, <2>2, <1>1
<1> QED
  BY <1>5 DEF u

\* Directories ordered by depth: all of them, each once.
LEMMA ShallowFacts ==
  ASSUME NEW ps \in SUBSET Paths
  PROVE  /\ ShallowFirst(ps) \in Seq(Paths) /\ ToSet(ShallowFirst(ps)) = ps
         /\ \A i, j \in DOMAIN ShallowFirst(ps) : ShallowFirst(ps)[i] = ShallowFirst(ps)[j] => i = j
<1> DEFINE P(n) == {p \in ps : Len(p) = n}
           s(n) == SetToSeq(P(n))
<1>1. ASSUME NEW n \in 0..2
      PROVE  /\ s(n) \in Seq(Paths) /\ ToSet(s(n)) = P(n)
             /\ \A i, j \in DOMAIN s(n) : s(n)[i] = s(n)[j] => i = j
  <2>1. IsFiniteSet(P(n)) /\ P(n) \subseteq Paths
    BY FinitePaths, FS_Subset
  <2> HIDE DEF P
  <2>2. /\ s(n) \in Seq(P(n)) /\ ToSet(s(n)) = P(n)
        /\ \A i, j \in DOMAIN s(n) : s(n)[i] = s(n)[j] => i = j
    BY <2>1, SetToSeqFacts
  <2> HIDE DEF s
  <2>3. s(n) \in Seq(Paths)
    BY <2>1, <2>2, SeqMonotonic
  <2> QED
    BY <2>2, <2>3
<1>2. P(0) \cup P(1) \cup P(2) = ps /\ P(0) \cap P(1) = {} /\ (P(0) \cup P(1)) \cap P(2) = {}
  BY PathLens
<1> DEFINE a == s(0) \o s(1)
<1>3. ShallowFirst(ps) = a \o s(2)
  BY DEF ShallowFirst
<1> HIDE DEF s, P
<1>4. /\ a \in Seq(Paths) /\ ToSet(a) = P(0) \cup P(1)
      /\ \A i, j \in DOMAIN a : a[i] = a[j] => i = j
  <2>1. s(0) \in Seq(Paths) /\ s(1) \in Seq(Paths) /\ ToSet(s(0)) = P(0) /\ ToSet(s(1)) = P(1)
    BY <1>1
  <2>2. a \in Seq(Paths) /\ ToSet(a) = P(0) \cup P(1)
    BY <2>1, ConcatSets
  <2>3. ToSet(s(0)) \cap ToSet(s(1)) = {}
    BY <1>2, <2>1
  <2>4. (\A i, j \in DOMAIN s(0) : s(0)[i] = s(0)[j] => i = j) /\ \A i, j \in DOMAIN s(1) : s(1)[i] = s(1)[j] => i = j
    BY <1>1
  <2>5. \A i, j \in DOMAIN a : a[i] = a[j] => i = j
    BY <2>1, <2>3, <2>4, ConcatDistinct
  <2> QED
    BY <2>2, <2>5
<1> HIDE DEF a
<1>5. s(2) \in Seq(Paths) /\ ToSet(s(2)) = P(2) /\ \A i, j \in DOMAIN s(2) : s(2)[i] = s(2)[j] => i = j
  BY <1>1
<1>6. a \o s(2) \in Seq(Paths) /\ ToSet(a \o s(2)) = ps
  <2> DEFINE b == s(2)
  <2>1. a \in Seq(Paths) /\ b \in Seq(Paths)
    BY <1>4, <1>5
  <2>2. ToSet(a) \cup ToSet(b) = ps
    BY <1>2, <1>4, <1>5
  <2> HIDE DEF b
  <2>3. a \o b \in Seq(Paths) /\ ToSet(a \o b) = ToSet(a) \cup ToSet(b)
    BY <2>1, ConcatSets
  <2> QED
    BY <2>2, <2>3 DEF b
<1>7. \A i, j \in DOMAIN (a \o s(2)) : (a \o s(2))[i] = (a \o s(2))[j] => i = j
  BY <1>2, <1>4, <1>5, ConcatDistinct
<1> QED
  BY <1>3, <1>6, <1>7

\* The same directories as items of one kind.
LEMMA ItemsFacts ==
  ASSUME NEW ps \in SUBSET Paths, NEW k \in {"walk", "dirty", "scan"}
  PROVE  /\ Items(ps, k) \in Seq(TodoItems) /\ DirsOf(Items(ps, k)) = ps
         /\ \A i \in DOMAIN Items(ps, k) : Items(ps, k)[i].kind = k
         /\ \A i, j \in DOMAIN Items(ps, k) : i # j => Items(ps, k)[i].dir # Items(ps, k)[j].dir
<1> DEFINE s == ShallowFirst(ps)
           t == Items(ps, k)
<1>1. s \in Seq(Paths) /\ ToSet(s) = ps /\ \A i, j \in DOMAIN s : s[i] = s[j] => i = j
  BY ShallowFacts
<1>2. t = [i \in DOMAIN s |-> [dir |-> s[i], kind |-> k]]
  BY DEF Items
<1> HIDE DEF s, t
<1>3. DOMAIN s = 1..Len(s) /\ Len(s) \in Nat /\ s \in [1..Len(s) -> Paths]
  BY <1>1, LenProperties
<1>4. t \in [1..Len(s) -> TodoItems]
  BY <1>2, <1>3 DEF TodoItems
<1>5. t \in Seq(TodoItems)
  BY <1>3, <1>4, SeqDef
<1>6. DOMAIN t = DOMAIN s /\ \A i \in DOMAIN t : t[i].kind = k /\ t[i].dir = s[i]
  BY <1>2
<1>7. DirsOf(t) = ps
  BY <1>1, <1>6 DEF DirsOf, ToSet
<1> QED
  BY <1>1, <1>5, <1>6, <1>7 DEF t

\* What is put on the list, and how it is ordered.
LEMMA NewItems ==
  ASSUME NEW ps \in SUBSET Paths, NEW k \in {"walk", "dirty", "scan"},
         \A p, q \in ps : Len(p) = Len(q)
  PROVE  /\ Items(ps, k) \in Seq(TodoItems) /\ DirsOf(Items(ps, k)) = ps
         /\ Scans(Items(ps, k)) = IF k = "dirty" THEN {} ELSE ps
         /\ Apart(Items(ps, k)) /\ ScansFirst(Items(ps, k))
<1> DEFINE t == Items(ps, k)
<1>1. /\ t \in Seq(TodoItems) /\ DirsOf(t) = ps /\ (\A i \in DOMAIN t : t[i].kind = k)
      /\ \A i, j \in DOMAIN t : i # j => t[i].dir # t[j].dir
  BY ItemsFacts
<1> HIDE DEF t
<1>2. Scans(t) = IF k = "dirty" THEN {} ELSE ps
  BY <1>1 DEF Scans, DirsOf
<1>3. ScansFirst(t)
  BY <1>1 DEF ScansFirst
<1>4. Apart(t)
  <2> SUFFICES ASSUME NEW i \in DOMAIN t, NEW j \in DOMAIN t, i # j
               PROVE  ~IsPrefix(t[i].dir, t[j].dir)
    BY DEF Apart
  <2>1. t[i].dir \in ps /\ t[j].dir \in ps /\ t[i].dir # t[j].dir
    BY <1>1 DEF DirsOf
  <2> QED
    BY <2>1, PathOrder
<1> QED
  BY <1>1, <1>2, <1>3, <1>4 DEF t

\* A list of dirty directories has nothing to be walked.
LEMMA DirtyItems ==
  ASSUME NEW ps \in SUBSET Paths
  PROVE  /\ Items(ps, "dirty") \in Seq(TodoItems) /\ DirsOf(Items(ps, "dirty")) = ps
         /\ Scans(Items(ps, "dirty")) = {}
         /\ Apart(Items(ps, "dirty")) /\ ScansFirst(Items(ps, "dirty"))
         /\ \A i \in DOMAIN Items(ps, "dirty") : Items(ps, "dirty")[i].kind = "dirty"
<1> DEFINE t == Items(ps, "dirty")
<1>1. t \in Seq(TodoItems) /\ DirsOf(t) = ps /\ (\A i \in DOMAIN t : t[i].kind = "dirty")
  BY ItemsFacts
<1> HIDE DEF t
<1> QED
  BY <1>1 DEF t, Scans, Apart, ScansFirst

\* The first item of a list, and where the others are.
LEMMA TailItems ==
  ASSUME NEW s \in Seq(TodoItems), s # <<>>
  PROVE  /\ Head(s) \in TodoItems /\ Tail(s) \in Seq(TodoItems) /\ Head(s) = s[1] /\ 1 \in DOMAIN s
         /\ \A i \in DOMAIN Tail(s) : i + 1 \in DOMAIN s /\ Tail(s)[i] = s[i + 1] /\ i \in Nat /\ i > 0
         /\ \A i \in DOMAIN s : i = 1 \/ (i - 1 \in DOMAIN Tail(s) /\ s[i] = Tail(s)[i - 1])
<1> DEFINE t == Tail(s)
<1>1. /\ Head(s) \in TodoItems /\ t \in Seq(TodoItems) /\ Len(t) = Len(s) - 1
      /\ \A i \in 1..Len(t) : t[i] = s[i + 1]
  BY HeadTailProperties
<1>2. Len(s) \in Nat \ {0} /\ DOMAIN s = 1..Len(s) /\ DOMAIN t = 1..Len(t)
  BY <1>1, LenProperties, EmptySeq
<1>3. Head(s) = s[1]
  BY <1>2
<1> HIDE DEF t
<1>4. \A i \in DOMAIN t : i + 1 \in DOMAIN s /\ t[i] = s[i + 1] /\ i \in Nat /\ i > 0
  BY <1>1, <1>2
<1>5. \A i \in DOMAIN s : i = 1 \/ (i - 1 \in DOMAIN t /\ s[i] = t[i - 1])
  <2> TAKE i \in DOMAIN s
  <2>1. i # 1 => i - 1 \in 1..Len(t) /\ (i - 1) + 1 = i
    BY <1>1, <1>2
  <2> QED
    BY <2>1, <1>1, <1>2
<1> QED
  BY <1>1, <1>2, <1>3, <1>4, <1>5 DEF t

\* What is left of a list when its first item is taken.
LEMMA TailFacts ==
  ASSUME NEW s \in Seq(TodoItems), s # <<>>
  PROVE  /\ Head(s) \in TodoItems /\ Tail(s) \in Seq(TodoItems)
         /\ DirsOf(s) = {Head(s).dir} \cup DirsOf(Tail(s))
         /\ Scans(s) = Scans(Tail(s)) \cup IF Head(s).kind = "dirty" THEN {} ELSE {Head(s).dir}
         /\ Apart(s) => /\ Apart(Tail(s))
                        /\ Head(s).kind # "dirty" => \A p \in Scans(Tail(s)) :
                              ~IsPrefix(Head(s).dir, p) /\ ~IsPrefix(p, Head(s).dir)
         /\ ScansFirst(s) => /\ ScansFirst(Tail(s))
                             /\ Head(s).kind = "dirty" => Scans(Tail(s)) = {}
<1> DEFINE t == Tail(s)
           h == Head(s)
<1>1. h \in TodoItems /\ t \in Seq(TodoItems) /\ h = s[1] /\ 1 \in DOMAIN s
  BY TailItems
<1>2. \A i \in DOMAIN t : i + 1 \in DOMAIN s /\ t[i] = s[i + 1] /\ i \in Nat /\ i > 0
  BY TailItems
<1>3. \A i \in DOMAIN s : i = 1 \/ (i - 1 \in DOMAIN t /\ s[i] = t[i - 1])
  BY TailItems
<1> HIDE DEF t, h
<1>4. DirsOf(s) = {h.dir} \cup DirsOf(t)
  <2>1. DirsOf(s) \subseteq {h.dir} \cup DirsOf(t)
    BY <1>1, <1>3 DEF DirsOf
  <2>2. DirsOf(t) \subseteq DirsOf(s)
    BY <1>2 DEF DirsOf
  <2>3. h.dir \in DirsOf(s)
    BY <1>1 DEF DirsOf
  <2> QED
    BY <2>1, <2>2, <2>3
<1>5. Scans(s) = Scans(t) \cup IF h.kind = "dirty" THEN {} ELSE {h.dir}
  <2>1. Scans(s) \subseteq Scans(t) \cup IF h.kind = "dirty" THEN {} ELSE {h.dir}
    BY <1>1, <1>3 DEF Scans
  <2>2. Scans(t) \subseteq Scans(s)
    BY <1>2 DEF Scans
  <2>3. h.kind # "dirty" => h.dir \in Scans(s)
    BY <1>1 DEF Scans
  <2> QED
    BY <2>1, <2>2, <2>3
<1>6. Apart(s) => Apart(t)
  <2> SUFFICES ASSUME Apart(s), NEW i \in DOMAIN t, NEW j \in DOMAIN t, i # j,
                      t[i].kind # "dirty", t[j].kind # "dirty"
               PROVE  ~IsPrefix(t[i].dir, t[j].dir)
    BY DEF Apart
  <2>1. i + 1 # j + 1
    BY <1>2
  <2> QED
    BY <2>1, <1>2 DEF Apart
<1>7. ASSUME Apart(s), h.kind # "dirty", NEW p \in Scans(t)
      PROVE  ~IsPrefix(h.dir, p) /\ ~IsPrefix(p, h.dir)
  <2>1. PICK i \in DOMAIN t : t[i].kind # "dirty" /\ p = t[i].dir
    BY DEF Scans
  <2>2. i + 1 \in DOMAIN s /\ s[i + 1] = t[i] /\ i + 1 # 1
    BY <1>2
  <2> QED
    BY <2>1, <2>2, <1>1, <1>7 DEF Apart
<1>8. ScansFirst(s) => ScansFirst(t)
  <2> SUFFICES ASSUME ScansFirst(s), NEW i \in DOMAIN t, NEW j \in DOMAIN t, i < j, t[j].kind # "dirty"
               PROVE  t[i].kind # "dirty"
    BY DEF ScansFirst
  <2>1. i + 1 < j + 1
    BY <1>2
  <2> QED
    BY <2>1, <1>2 DEF ScansFirst
<1>9. ScansFirst(s) /\ h.kind = "dirty" => Scans(t) = {}
  <2> SUFFICES ASSUME ScansFirst(s), h.kind = "dirty", NEW i \in DOMAIN t, t[i].kind # "dirty" PROVE FALSE
    BY DEF Scans
  <2>1. 1 < i + 1 /\ i + 1 \in DOMAIN s /\ s[i + 1] = t[i]
    BY <1>2
  <2> QED
    BY <2>1, <1>1 DEF ScansFirst
<1> QED
  BY <1>1, <1>4, <1>5, <1>6, <1>7, <1>8, <1>9 DEF t, h

\* One list after another.
LEMMA ConcatItems ==
  ASSUME NEW s \in Seq(TodoItems), NEW t \in Seq(TodoItems)
  PROVE  /\ s \o t \in Seq(TodoItems) /\ DirsOf(s \o t) = DirsOf(s) \cup DirsOf(t)
         /\ Scans(s \o t) = Scans(s) \cup Scans(t)
         /\ Apart(s) /\ Apart(t)
            /\ (\A p \in Scans(s), q \in Scans(t) : ~IsPrefix(p, q) /\ ~IsPrefix(q, p))
               => Apart(s \o t)
         /\ ScansFirst(s) /\ ScansFirst(t)
            /\ (Scans(t) = {} \/ \A i \in DOMAIN s : s[i].kind # "dirty")
               => ScansFirst(s \o t)
<1> DEFINE u == s \o t
           n == Len(s)
<1>0. u \in Seq(TodoItems)
  BY ConcatSets
<1>1. /\ \A i \in DOMAIN u : \/ i \in DOMAIN s /\ u[i] = s[i]
                             \/ i - n \in DOMAIN t /\ u[i] = t[i - n]
      /\ \A i \in DOMAIN s : i \in DOMAIN u /\ u[i] = s[i]
      /\ \A i \in DOMAIN t : i + n \in DOMAIN u /\ u[i + n] = t[i]
  BY ConcatSets
<1>2. n \in Nat /\ DOMAIN s = 1..n /\ DOMAIN t \subseteq Nat \ {0} /\ DOMAIN u \subseteq Nat
  BY <1>0, LenProperties
<1> HIDE DEF u, n
<1>3. DirsOf(u) = DirsOf(s) \cup DirsOf(t)
  <2>1. DirsOf(u) \subseteq DirsOf(s) \cup DirsOf(t)
    BY <1>1 DEF DirsOf
  <2>2. DirsOf(s) \subseteq DirsOf(u)
    BY <1>1 DEF DirsOf
  <2>3. DirsOf(t) \subseteq DirsOf(u)
    BY <1>1 DEF DirsOf
  <2> QED
    BY <2>1, <2>2, <2>3
<1>4. Scans(u) = Scans(s) \cup Scans(t)
  <2>1. Scans(u) \subseteq Scans(s) \cup Scans(t)
    BY <1>1 DEF Scans
  <2>2. Scans(s) \subseteq Scans(u)
    BY <1>1 DEF Scans
  <2>3. Scans(t) \subseteq Scans(u)
    BY <1>1 DEF Scans
  <2> QED
    BY <2>1, <2>2, <2>3
<1>5. ASSUME Apart(s), Apart(t), \A p \in Scans(s), q \in Scans(t) : ~IsPrefix(p, q) /\ ~IsPrefix(q, p)
      PROVE  Apart(u)
  <2> SUFFICES ASSUME NEW i \in DOMAIN u, NEW j \in DOMAIN u, i # j,
                      u[i].kind # "dirty", u[j].kind # "dirty"
               PROVE  ~IsPrefix(u[i].dir, u[j].dir)
    BY DEF Apart
  <2>1. CASE i \in DOMAIN s /\ u[i] = s[i] /\ j \in DOMAIN s /\ u[j] = s[j]
    BY <2>1, <1>5 DEF Apart
  <2>2. CASE i \in DOMAIN s /\ u[i] = s[i] /\ j - n \in DOMAIN t /\ u[j] = t[j - n]
    BY <2>2, <1>5 DEF Scans
  <2>3. CASE i - n \in DOMAIN t /\ u[i] = t[i - n] /\ j \in DOMAIN s /\ u[j] = s[j]
    BY <2>3, <1>5 DEF Scans
  <2>4. CASE i - n \in DOMAIN t /\ u[i] = t[i - n] /\ j - n \in DOMAIN t /\ u[j] = t[j - n]
    <3>1. i - n # j - n
      BY <1>2
    <3> QED
      BY <3>1, <2>4, <1>5 DEF Apart
  <2> QED
    BY <2>1, <2>2, <2>3, <2>4, <1>1
<1>6. ASSUME ScansFirst(s), ScansFirst(t), Scans(t) = {} \/ \A i \in DOMAIN s : s[i].kind # "dirty"
      PROVE  ScansFirst(u)
  <2> SUFFICES ASSUME NEW i \in DOMAIN u, NEW j \in DOMAIN u, i < j, u[j].kind # "dirty"
               PROVE  u[i].kind # "dirty"
    BY DEF ScansFirst
  <2>1. CASE i \in DOMAIN s /\ u[i] = s[i] /\ j \in DOMAIN s /\ u[j] = s[j]
    BY <2>1, <1>6 DEF ScansFirst
  <2>2. CASE i \in DOMAIN s /\ u[i] = s[i] /\ j - n \in DOMAIN t /\ u[j] = t[j - n]
    BY <2>2, <1>6 DEF Scans
  <2>3. CASE i - n \in DOMAIN t /\ u[i] = t[i - n] /\ j \in DOMAIN s /\ u[j] = s[j]
    <3>1. i - n > 0 /\ j <= n /\ i \in Nat /\ j \in Nat
      BY <2>3, <1>2
    <3> QED
      BY <3>1, <1>2
  <2>4. CASE i - n \in DOMAIN t /\ u[i] = t[i - n] /\ j - n \in DOMAIN t /\ u[j] = t[j - n]
    <3>1. i - n < j - n
      BY <1>2
    <3> QED
      BY <3>1, <2>4, <1>6 DEF ScansFirst
  <2> QED
    BY <2>1, <2>2, <2>3, <2>4, <1>1
<1> QED
  BY <1>0, <1>3, <1>4, <1>5, <1>6 DEF u

\* What inotify tells.
Events == [wd : Nat, kind : {"dir", "other", "ignored", "overflow", "unmount"},
           name : {""} \cup Top \cup Sub]

\* The queue is full only with an overflow at its end.
Bounded(q) == Len(q) <= QueueMax + 1 /\ (Len(q) > QueueMax => Last(q) = Overflow)

\* What an event is made of.
LEMMA EventFacts ==
  ASSUME NEW wd \in Nat, NEW k \in {"dir", "other", "ignored", "overflow", "unmount"}, NEW p \in Paths
  PROVE  /\ Event(wd, k, p) \in Events /\ Event(wd, k, p).wd = wd /\ Event(wd, k, p).kind = k
         /\ p # Root => Event(wd, k, p).name = Last(p)
         /\ Overflow \in Events /\ Overflow.kind = "overflow" /\ Overflow.wd = 0
<1>1. p # Root => Last(p) \in Top \cup Sub
  BY PathFacts
<1> QED
  BY <1>1 DEF Event, Events, Overflow

\* Queueing an event loses none that were there, and itself only to an overflow.
LEMMA QueuedFacts ==
  ASSUME NEW q \in Seq(Events), NEW e \in Events, Bounded(q)
  PROVE  /\ Queued(q, e) \in Seq(Events) /\ Bounded(Queued(q, e))
         /\ ToSet(q) \subseteq ToSet(Queued(q, e))
         /\ \A f \in ToSet(Queued(q, e)) : f \in ToSet(q) \/ f = Overflow \/ (f = e /\ e.wd \in watched)
         /\ e.wd \in watched => e \in ToSet(Queued(q, e)) \/ Overflow \in ToSet(Queued(q, e))
<1> DEFINE full == Len(q) >= QueueMax /\ q # <<>> /\ Last(q) = Overflow
           last == IF Len(q) < QueueMax THEN e ELSE Overflow
<1>1. Overflow \in Events /\ last \in Events
  BY EventFacts, PathLens DEF Overflow, Event, Events
<1>2. Len(q) \in Nat /\ DOMAIN q = 1..Len(q) /\ (q # <<>> => Len(q) > 0) /\ QueueMax \in Nat
  BY LenProperties, EmptySeq, VaultAssumption
<1>3. CASE e.wd \notin watched \/ full
  <2>1. Queued(q, e) = q
    BY <1>3 DEF Queued
  <2>2. full => Overflow \in ToSet(q)
    BY <1>2 DEF Last, ToSet
  <2> QED
    BY <2>1, <2>2, <1>3
<1>4. CASE ~(e.wd \notin watched \/ full)
  <2> DEFINE r == Append(q, last)
  <2>1. Queued(q, e) = r
    BY <1>4 DEF Queued
  <2>2. /\ r \in Seq(Events) /\ Len(r) = Len(q) + 1 /\ r[Len(q) + 1] = last
        /\ \A i \in 1..Len(q) : r[i] = q[i]
    BY <1>1, AppendProperties
  <2>3. DOMAIN r = 1..(Len(q) + 1)
    BY <2>2, LenProperties
  <2> HIDE DEF r
  <2>4. ToSet(r) = ToSet(q) \cup {last}
    <3>1. \A i \in DOMAIN r : r[i] \in ToSet(q) \cup {last}
      BY <2>2, <2>3, <1>2 DEF ToSet
    <3>2. \A i \in DOMAIN q : q[i] \in ToSet(r)
      BY <2>2, <2>3, <1>2 DEF ToSet
    <3>3. last \in ToSet(r)
      BY <2>2, <2>3, <1>2 DEF ToSet
    <3> QED
      BY <3>1, <3>2, <3>3 DEF ToSet
  <2>5. Last(r) = last
    BY <2>2 DEF Last
  <2>6. Len(q) <= QueueMax
    <3> SUFFICES ASSUME Len(q) > QueueMax PROVE FALSE
      BY <1>2
    <3>1. Last(q) = Overflow /\ Len(q) > 0 /\ Len(q) >= QueueMax
      BY <1>2 DEF Bounded
    <3>2. q # <<>>
      BY <3>1
    <3> QED
      BY <3>1, <3>2, <1>4
  <2>7. Bounded(r)
    BY <2>2, <2>5, <2>6, <1>2 DEF Bounded
  <2>8. last = e \/ last = Overflow
    OBVIOUS
  <2> HIDE DEF last, full
  <2>9. \A f \in ToSet(r) : f \in ToSet(q) \/ f = Overflow \/ (f = e /\ e.wd \in watched)
    BY <2>4, <2>8, <1>4
  <2> QED
    BY <2>1, <2>2, <2>4, <2>7, <2>8, <2>9, <1>4
<1> QED
  BY <1>3, <1>4

\* An event that makes the watches worthless is queued.
Lost == \E e \in ToSet(queue) : e.kind \in {"overflow", "unmount"}

\* What draining the queue makes of the map and of the dirty directories.
LEMMA DrainedFacts ==
  ASSUME queue \in Seq(Events)
  PROVE  /\ Drained.lost = Lost
         /\ DOMAIN Drained.map \subseteq DOMAIN map
         /\ \A x \in DOMAIN Drained.map : Drained.map[x] = map[x]
         /\ \A x \in DOMAIN map \ DOMAIN Drained.map : \E e \in ToSet(queue) : e.kind = "ignored" /\ e.wd = x
         /\ dirty \subseteq Drained.dirty
         /\ \A d \in Drained.dirty : d \in dirty \/ \E e \in ToSet(queue) :
               e.kind \in {"dir", "other"} /\ e.wd \in DOMAIN map /\ d \in Marks(map, e)
         /\ ~Lost => \A e \in ToSet(queue) :
               /\ e.kind \in {"dir", "other"} /\ e.wd \in DOMAIN map
               /\ \A f \in ToSet(queue) : f.kind = "ignored" => f.wd # e.wd
               => Marks(map, e) \subseteq Drained.dirty
<1> DEFINE lost == {i \in DOMAIN queue : queue[i].kind \in {"overflow", "unmount"}}
           taken == {i \in DOMAIN queue : \A j \in lost : i < j}
           ignored(n) == {queue[i].wd : i \in {j \in taken : queue[j].kind = "ignored" /\ j < n}}
           marking == {i \in taken : /\ queue[i].kind \in {"dir", "other"}
                                     /\ queue[i].wd \in DOMAIN map \ ignored(i)}
<1>1. /\ Drained.lost = (lost # {})
      /\ Drained.map = Without(map, ignored(Len(queue) + 1))
      /\ Drained.dirty = dirty \cup UNION {Marks(map, queue[i]) : i \in marking}
  BY DEF Drained
<1>2. Drained.lost = Lost
  BY <1>1 DEF Lost, ToSet
<1>3. \A n : \A x \in ignored(n) : \E e \in ToSet(queue) : e.kind = "ignored" /\ e.wd = x
  BY DEF ToSet
<1>4. ~Lost => taken = DOMAIN queue
  BY DEF Lost, ToSet
<1>5. marking \subseteq DOMAIN queue /\ \A i \in marking : queue[i].kind \in {"dir", "other"} /\ queue[i].wd \in DOMAIN map
  OBVIOUS
<1>6. \A i \in taken : queue[i].kind \in {"dir", "other"} /\ queue[i].wd \in DOMAIN map \ ignored(i) => i \in marking
  OBVIOUS
<1> HIDE DEF lost, taken, ignored, marking
<1>7. /\ DOMAIN Drained.map \subseteq DOMAIN map
      /\ \A x \in DOMAIN Drained.map : Drained.map[x] = map[x]
      /\ \A x \in DOMAIN map \ DOMAIN Drained.map : \E e \in ToSet(queue) : e.kind = "ignored" /\ e.wd = x
  BY <1>1, <1>3 DEF Without, Restrict
<1>8. dirty \subseteq Drained.dirty
  BY <1>1
<1>9. \A d \in Drained.dirty : d \in dirty \/ \E e \in ToSet(queue) :
               e.kind \in {"dir", "other"} /\ e.wd \in DOMAIN map /\ d \in Marks(map, e)
  BY <1>1, <1>5 DEF ToSet
<1>10. ASSUME ~Lost, NEW e \in ToSet(queue), e.kind \in {"dir", "other"}, e.wd \in DOMAIN map,
              \A f \in ToSet(queue) : f.kind = "ignored" => f.wd # e.wd
       PROVE  Marks(map, e) \subseteq Drained.dirty
  <2>1. PICK i \in DOMAIN queue : e = queue[i]
    BY DEF ToSet
  <2>2. queue[i].wd \notin ignored(i)
    BY <1>3, <1>10, <2>1
  <2>3. i \in marking
    BY <2>1, <2>2, <1>4, <1>6, <1>10
  <2> QED
    BY <2>1, <2>3, <1>1
<1> QED
  BY <1>2, <1>7, <1>8, <1>9, <1>10

----------------------------------------------------------------------------
\* What a model may say of a directory.
Nodes == [dirs : SUBSET Paths, note : BOOLEAN]
\* The models.
Models == UNION {[D -> Nodes] : D \in SUBSET Paths}

\* Models, and what is read of a directory.
LEMMA ModelFacts ==
  /\ Nothing \in Models /\ DOMAIN Nothing = {}
  /\ \A m \in Models : IsModel(m) /\ DOMAIN m \subseteq Paths /\ \A p \in DOMAIN m : m[p] \in Nodes
  /\ \A p \in Paths : Node(p) \in Nodes /\ Node(p).dirs \subseteq Children(p) /\ Children(p) \subseteq Paths
  /\ Truth \in Models
<1>1. Nothing \in Models /\ DOMAIN Nothing = {}
  BY DEF Nothing, Models
<1>2. \A m \in Models : IsModel(m) /\ DOMAIN m \subseteq Paths /\ \A p \in DOMAIN m : m[p] \in Nodes
  BY DEF Models, IsModel, Nodes
<1>3. \A p \in Paths : Node(p) \in Nodes /\ Node(p).dirs \subseteq Children(p) /\ Children(p) \subseteq Paths
  BY DEF Node, Nodes, Children, Below
<1>4. Truth \in Models
  <2> DEFINE D == {q \in Paths : Exists(q)}
  <2>1. Truth = [p \in D |-> Node(p)] /\ D \in SUBSET Paths
    BY DEF Truth
  <2> HIDE DEF D
  <2>2. Truth \in [D -> Nodes]
    BY <2>1, <1>3
  <2> QED
    BY <2>1, <2>2 DEF Models
<1> QED
  BY <1>1, <1>2, <1>3, <1>4

\* One directory more in a model.
LEMMA WithFacts ==
  ASSUME NEW m \in Models, NEW p \in Paths, NEW n \in Nodes
  PROVE  /\ With(m, p, n) \in Models /\ DOMAIN With(m, p, n) = DOMAIN m \cup {p}
         /\ With(m, p, n)[p] = n
         /\ \A q \in DOMAIN m \ {p} : With(m, p, n)[q] = m[q]
<1> DEFINE D == DOMAIN m \cup {p}
<1>1. With(m, p, n) = [q \in D |-> IF q = p THEN n ELSE m[q]]
  BY DEF With
<1>2. D \in SUBSET Paths /\ \A q \in DOMAIN m : m[q] \in Nodes
  BY ModelFacts
<1>3. \A q \in D : (IF q = p THEN n ELSE m[q]) \in Nodes
  BY <1>2
<1> HIDE DEF D
<1>4. With(m, p, n) \in [D -> Nodes]
  BY <1>1, <1>3
<1>5. With(m, p, n) \in Models
  BY <1>2, <1>4 DEF Models
<1> QED
  BY <1>1, <1>5 DEF D

\* Some directories fewer.
LEMMA WithoutFacts ==
  ASSUME NEW m \in Models, NEW ps
  PROVE  /\ Without(m, ps) \in Models /\ DOMAIN Without(m, ps) = DOMAIN m \ ps
         /\ \A q \in DOMAIN m \ ps : Without(m, ps)[q] = m[q]
<1> DEFINE D == DOMAIN m \ ps
<1>1. Without(m, ps) = [q \in D |-> m[q]]
  BY DEF Without, Restrict
<1>2. D \in SUBSET Paths /\ \A q \in D : m[q] \in Nodes
  BY ModelFacts
<1> HIDE DEF D
<1>3. Without(m, ps) \in [D -> Nodes]
  BY <1>1, <1>2
<1>4. Without(m, ps) \in Models
  BY <1>2, <1>3 DEF Models
<1> QED
  BY <1>1, <1>4 DEF D

\* A directory and what is below it removed.
LEMMA RemovedFacts ==
  ASSUME NEW m \in Models, NEW p \in Paths
  PROVE  /\ RemoveSubtree(m, p) \in Models
         /\ DOMAIN RemoveSubtree(m, p) \subseteq DOMAIN m
         /\ p # Root => DOMAIN RemoveSubtree(m, p) = DOMAIN m \ Under(p)
         /\ \A q \in DOMAIN RemoveSubtree(m, p) : RemoveSubtree(m, p)[q] = m[q]
BY WithoutFacts DEF RemoveSubtree

\* One directory of a walk in a model.
LEMMA ScannedFacts ==
  ASSUME NEW m \in Models, NEW p \in Paths
  PROVE  /\ Scanned(m, p) \in Models
         /\ Exists(p) => /\ DOMAIN Scanned(m, p) = DOMAIN m \cup {p} /\ Scanned(m, p)[p] = Node(p)
                         /\ \A q \in DOMAIN m \ {p} : Scanned(m, p)[q] = m[q]
         /\ ~Exists(p) => Scanned(m, p) = RemoveSubtree(m, p)
<1> DEFINE n == Node(p)
<1>1. n \in Nodes
  BY ModelFacts
<1> HIDE DEF n
<1>2. CASE Exists(p)
  <2>1. Scanned(m, p) = With(m, p, n)
    BY <1>2 DEF Scanned, n
  <2>2. /\ With(m, p, n) \in Models /\ DOMAIN With(m, p, n) = DOMAIN m \cup {p}
        /\ With(m, p, n)[p] = n
        /\ \A q \in DOMAIN m \ {p} : With(m, p, n)[q] = m[q]
    BY <1>1, WithFacts
  <2> QED
    BY <2>1, <2>2, <1>2 DEF n
<1>3. CASE ~Exists(p)
  <2>1. Scanned(m, p) = RemoveSubtree(m, p)
    BY <1>3 DEF Scanned
  <2> QED
    BY <2>1, <1>3, RemovedFacts
<1> QED
  BY <1>2, <1>3

\* A directory listed by its parent.
LEMMA ListFacts ==
  ASSUME NEW m \in Models, NEW p \in Paths \ {Root}
  PROVE  /\ List(m, p) \in Models /\ DOMAIN List(m, p) = DOMAIN m \cup {Front(p)}
         /\ \A q \in DOMAIN m \ {Front(p)} : List(m, p)[q] = m[q]
         /\ List(m, p)[Front(p)] = IF Front(p) \in DOMAIN m
               THEN [dirs |-> m[Front(p)].dirs \cup {p}, note |-> m[Front(p)].note]
               ELSE [dirs |-> {p}, note |-> FALSE]
<1> DEFINE a == Front(p)
           l == List(m, p)
<1>1. a \in Paths
  BY PathFacts
<1>2. CASE a \in DOMAIN m
  <2> DEFINE n == [dirs |-> m[a].dirs \cup {p}, note |-> m[a].note]
  <2>1. m[a] \in Nodes
    BY <1>2, ModelFacts
  <2>2. n \in Nodes /\ n = [m[a] EXCEPT !.dirs = @ \cup {p}]
    BY <2>1 DEF Nodes
  <2>3. l = With(m, a, n)
    BY <1>2, <2>2 DEF List
  <2> HIDE DEF n, a
  <2>4. /\ With(m, a, n) \in Models /\ DOMAIN With(m, a, n) = DOMAIN m \cup {a}
        /\ With(m, a, n)[a] = n
        /\ \A q \in DOMAIN m \ {a} : With(m, a, n)[q] = m[q]
    BY <1>1, <2>2, WithFacts
  <2> QED
    BY <1>2, <2>3, <2>4 DEF n, a
<1>3. CASE a \notin DOMAIN m
  <2> DEFINE n == [dirs |-> {p}, note |-> FALSE]
  <2>2. n \in Nodes
    BY DEF Nodes
  <2>3. l = With(m, a, n)
    BY <1>3, <2>2 DEF List
  <2> HIDE DEF n, a
  <2>4. /\ With(m, a, n) \in Models /\ DOMAIN With(m, a, n) = DOMAIN m \cup {a}
        /\ With(m, a, n)[a] = n
        /\ \A q \in DOMAIN m \ {a} : With(m, a, n)[q] = m[q]
    BY <1>1, <2>2, WithFacts
  <2> QED
    BY <1>3, <2>3, <2>4 DEF n, a
<1> QED
  BY <1>2, <1>3

\* What reconciling an existing directory makes of the model: outside it, only
\* its ancestors learn of it.
Lists(m, n, a, c) ==
    /\ a \in DOMAIN n
    /\ IF a \in DOMAIN m THEN n[a] = [dirs |-> m[a].dirs \cup {c}, note |-> m[a].note]
                         ELSE n[a] = [dirs |-> {c}, note |-> FALSE]

\* A directory listed by all its ancestors.
LEMMA ListedFacts ==
  ASSUME NEW m \in Models, NEW p \in Paths
  PROVE  LET n == Listed(m, p) IN
         /\ n \in Models
         /\ p = Root => n = m
         /\ p # Root /\ Front(p) = Root => /\ DOMAIN n = DOMAIN m \cup {Root} /\ Lists(m, n, Root, p)
                                           /\ \A q \in DOMAIN m \ {Root} : n[q] = m[q]
         /\ p # Root /\ Front(p) # Root =>
               /\ Front(Front(p)) = Root
               /\ DOMAIN n = DOMAIN m \cup {Front(p), Root}
               /\ Lists(m, n, Front(p), p) /\ Lists(m, n, Root, Front(p))
               /\ \A q \in DOMAIN m \ {Root, Front(p)} : n[q] = m[q]
<1>1. CASE p = Root
  <2>1. Listed(m, p) = m
    BY <1>1, PathLens DEF Listed, List
  <2> QED
    BY <1>1, <2>1
<1>2. CASE p # Root /\ Front(p) = Root
  <2>1. Len(p) = 1
    BY <1>2, PathFacts
  <2> DEFINE n == List(m, p)
  <2>2. Listed(m, p) = n
    BY <2>1 DEF Listed
  <2>3. /\ n \in Models /\ DOMAIN n = DOMAIN m \cup {Root}
        /\ \A q \in DOMAIN m \ {Root} : n[q] = m[q]
        /\ n[Root] = IF Root \in DOMAIN m THEN [dirs |-> m[Root].dirs \cup {p}, note |-> m[Root].note]
                                          ELSE [dirs |-> {p}, note |-> FALSE]
    BY <1>2, ListFacts
  <2> HIDE DEF n
  <2>4. Lists(m, n, Root, p)
    BY <2>3 DEF Lists
  <2> QED
    BY <1>2, <2>2, <2>3, <2>4
<1>3. CASE p # Root /\ Front(p) # Root
  <2> DEFINE a == Front(p)
             l == List(m, p)
             n == List(l, a)
  <2>1. a \in Paths \ {Root} /\ Len(p) = Len(a) + 1 /\ Len(a) \in Nat
    BY <1>3, PathFacts
  <2>2. Len(a) = Len(Front(a)) + 1 /\ Front(a) \in Paths /\ a # Front(a) /\ Len(Front(a)) \in Nat
    BY <2>1, PathFacts
  <2>3. Len(p) = 2 /\ Front(a) = Root
    BY <2>1, <2>2, PathLens
  <2>4. Listed(m, p) = n
    BY <2>3 DEF Listed
  <2>5. /\ l \in Models /\ DOMAIN l = DOMAIN m \cup {a}
        /\ \A q \in DOMAIN m \ {a} : l[q] = m[q]
        /\ l[a] = IF a \in DOMAIN m THEN [dirs |-> m[a].dirs \cup {p}, note |-> m[a].note]
                                    ELSE [dirs |-> {p}, note |-> FALSE]
    BY <1>3, ListFacts
  <2> HIDE DEF l
  <2>6. /\ n \in Models /\ DOMAIN n = DOMAIN l \cup {Root}
        /\ \A q \in DOMAIN l \ {Root} : n[q] = l[q]
        /\ n[Root] = IF Root \in DOMAIN l THEN [dirs |-> l[Root].dirs \cup {a}, note |-> l[Root].note]
                                    ELSE [dirs |-> {a}, note |-> FALSE]
    BY <2>1, <2>3, <2>5, ListFacts
  <2> HIDE DEF n, a
  <2>7. Root # a
    BY <2>2, <2>3
  <2>8. Lists(m, n, a, p)
    BY <2>5, <2>6, <2>7 DEF Lists
  <2>9. Lists(m, n, Root, a)
    <3>1. Root \in DOMAIN l <=> Root \in DOMAIN m
      BY <2>5, <2>7
    <3>2. Root \in DOMAIN m => l[Root] = m[Root]
      BY <2>5, <2>7
    <3> QED
      BY <3>1, <3>2, <2>6 DEF Lists
  <2>10. \A q \in DOMAIN m \ {Root, a} : n[q] = m[q]
    BY <2>5, <2>6
  <2>11. DOMAIN n = DOMAIN m \cup {a, Root}
    BY <2>5, <2>6
  <2> QED
    BY <1>3, <2>3, <2>4, <2>6, <2>8, <2>9, <2>10, <2>11 DEF a
<1> QED
  BY <1>1, <1>2, <1>3

\* The watcher thread.
Steps == [pc : {"idle", "walk", "apply", "armed", "loop"}, todo : Seq(TodoItems), seen : BOOLEAN,
          other : BOOLEAN, fresh : Models, restart : BOOLEAN, root0 : Nat, live : BOOLEAN]

\* The types of all variables, the locals of the thread and the bounds included.
VaultTypes ==
    /\ inode \in Nat /\ tree \in [Paths -> 0..inode] /\ notes \subseteq 0..inode
    /\ watched \subseteq 1..inode
    /\ queue \in Seq(Events) /\ Bounded(queue) /\ \A e \in ToSet(queue) : e.wd \in 0..inode
    /\ DOMAIN map \subseteq 1..inode /\ \A i \in DOMAIN map : map[i] \in Paths
    /\ dirty \subseteq Paths /\ same \subseteq Paths /\ stale \subseteq Paths
    /\ w \in Steps /\ model \in Models /\ active \in BOOLEAN /\ intruded \in BOOLEAN
    /\ claimed \in {"none", "watcher", "poll"}
    /\ job \in [kind : {"none", "poll", "build", "turn"}, dir : Paths]
    /\ used \in [ops : Nat, others : Nat, fails : Nat]

\* A tree, whose directories each are one inode; what is watched exists, and an
\* inode that was ignored never comes back.
TreeInv ==
    /\ \A p, q \in Paths : tree[p] = tree[q] /\ tree[p] # 0 => p = q
    /\ Exists(Root) /\ \A p \in Paths \ {Root} : Exists(p) => Exists(Front(p))
    /\ w.root0 <= inode
    /\ \A i \in watched : \E p \in Paths : tree[p] = i
    /\ \A e \in ToSet(queue) : e.kind = "ignored" => \A p \in Paths : Exists(p) => tree[p] # e.wd

\* An inode keeps its depth wherever it is moved, so the names that events give
\* fit the path their watch is mapped to.
DepthInv ==
    /\ \A p \in Paths : Exists(p) /\ tree[p] \in DOMAIN map => Len(map[tree[p]]) = Len(p)
    /\ \A e \in ToSet(queue) : e.kind = "dir" =>
          /\ \A p \in Paths : Exists(p) /\ tree[p] = e.wd => Fits(p, e.name)
          /\ e.wd \in DOMAIN map => Fits(map[e.wd], e.name)

\* What has not changed since it was watched is watched still, under its path.
SameInv == \A p \in same :
    Exists(p) /\ tree[p] \in watched /\ tree[p] \in DOMAIN map /\ map[tree[p]] = p

----------------------------------------------------------------------------
\* What changing the file system means to all else.
FsStep ==
    /\ inode' \in Nat /\ inode' >= inode /\ tree' \in [Paths -> 0..inode'] /\ notes' \subseteq 0..inode'
    /\ watched' \subseteq watched /\ \A p \in same' : tree[p] \in watched'
    /\ queue' \in Seq(Events) /\ Bounded(queue') /\ ToSet(queue) \subseteq ToSet(queue')
    /\ \A e \in ToSet(queue') : e.wd \in 0..inode
    /\ same' = {p \in same : tree'[p] = tree[p]}
    /\ tree'[Root] = tree[Root] \/ tree'[Root] > inode
    /\ \A p \in Paths : tree'[p] # 0 /\ tree'[p] # tree[p] /\ tree'[Root] = tree[Root] =>
          p # Root /\ (\/ Front(p) \notin same' \/ Lost'
                       \/ Event(tree[Front(p)], "dir", p) \in ToSet(queue'))
    /\ \A p \in same' : \/ Node(p)' = Node(p) \/ Lost'
                        \/ \E e \in ToSet(queue') : e.kind \in {"dir", "other"} /\ e.wd = tree[p]
    /\ UNCHANGED <<map, dirty, w, model, published, active, claimed, job, stale, intruded>>
    /\ used' \in [ops : Nat, others : Nat, fails : Nat]

\* And to the tree and the names in events.
FsTree ==
    /\ \A p, q \in Paths : tree'[p] = tree'[q] /\ tree'[p] # 0 => p = q
    /\ tree'[Root] # 0 /\ \A p \in Paths \ {Root} : tree'[p] # 0 => tree'[Front(p)] # 0
    /\ \A i \in watched' : \E p \in Paths : tree'[p] = i
    /\ \A p \in Paths : \/ tree'[p] = 0 \/ tree'[p] > inode
                        \/ \E q \in Paths : tree[q] = tree'[p] /\ Len(q) = Len(p)
    /\ \A e \in ToSet(queue') : e.kind = "ignored" =>
          \A p \in Paths : tree'[p] # 0 => tree'[p] # e.wd
    /\ \A e \in ToSet(queue') : e.kind = "dir" =>
          \/ e \in ToSet(queue)
          \/ \E q \in Paths : Exists(q) /\ e.wd = tree[q] /\ Fits(q, e.name)

\* The queue after a change that tells of the events es.
Told(q, es) ==
    /\ q \in Seq(Events) /\ Bounded(q) /\ ToSet(queue) \subseteq ToSet(q)
    /\ \A f \in ToSet(q) : f \in ToSet(queue) \/ f = Overflow \/ (f \in es /\ f.wd \in watched)
    /\ \A f \in ToSet(q) : f.wd \in 0..inode
    /\ \A f \in es : f.wd \in watched => f \in ToSet(q) \/ Overflow \in ToSet(q)

\* A change may be told of by no event,
LEMMA NothingTold == ASSUME VaultTypes PROVE Told(queue, {})
BY DEF Told, VaultTypes

\* and by one more than it was.
LEMMA OneMore ==
  ASSUME VaultTypes, NEW q, NEW es, Told(q, es), NEW e \in Events, e.wd \in 0..inode
  PROVE  Told(Queued(q, e), es \cup {e})
<1> DEFINE r == Queued(q, e)
<1>1. Overflow.wd = 0 /\ inode \in Nat
  BY EventFacts, PathLens DEF Overflow, Event, VaultTypes
<1>2. /\ r \in Seq(Events) /\ Bounded(r) /\ ToSet(q) \subseteq ToSet(r)
      /\ \A f \in ToSet(r) : f \in ToSet(q) \/ f = Overflow \/ (f = e /\ e.wd \in watched)
      /\ e.wd \in watched => e \in ToSet(r) \/ Overflow \in ToSet(r)
  BY QueuedFacts DEF Told
<1> HIDE DEF r
<1>3. \A f \in ToSet(r) : f \in ToSet(queue) \/ f = Overflow \/ (f \in es \cup {e} /\ f.wd \in watched)
  BY <1>2 DEF Told
<1>4. \A f \in ToSet(r) : f.wd \in 0..inode
  BY <1>1, <1>2 DEF Told
<1>5. \A f \in es \cup {e} : f.wd \in watched => f \in ToSet(r) \/ Overflow \in ToSet(r)
  BY <1>2 DEF Told
<1>6. Told(r, es \cup {e})
  BY <1>2, <1>3, <1>4, <1>5 DEF Told
<1> QED
  BY <1>6 DEF r

\* A directory that is made is nobody else, and its parent tells of it.
LEMMA MkdirFacts ==
  ASSUME VaultTypes, TreeInv, SameInv, NEW p \in Paths, Mkdir(p)
  PROVE  FsStep /\ FsTree
<1> DEFINE e == Event(tree[Front(p)], "dir", p)
<1>1. /\ p \in Paths \ {Root} /\ ~Exists(p) /\ Exists(Front(p)) /\ Front(p) \in Paths /\ Front(p) # p
      /\ inode' = inode + 1 /\ tree' = [tree EXCEPT ![p] = inode + 1] /\ notes' = notes
      /\ queue' = Queued(queue, e) /\ watched' = watched \ {}
      /\ same' = {q \in same : tree'[q] = tree[q]}
      /\ UNCHANGED <<map, dirty, w, model, published, active, claimed, job, stale, intruded>>
      /\ used' = [used EXCEPT !.ops = @ + 1]
  BY PathFacts DEF Mkdir, Change
<1>2. inode \in Nat /\ tree \in [Paths -> 0..inode] /\ notes \subseteq 0..inode /\ watched \subseteq 1..inode
      /\ used \in [ops : Nat, others : Nat, fails : Nat] /\ same \subseteq Paths
  BY DEF VaultTypes
<1>3. tree' \in [Paths -> 0..inode'] /\ tree'[p] = inode + 1 /\ \A q \in Paths \ {p} : tree'[q] = tree[q]
  BY <1>1, <1>2
<1>4. e \in Events /\ e.wd = tree[Front(p)] /\ e.kind = "dir" /\ e.name = Last(p) /\ e.wd \in 0..inode
  <2>1. tree[Front(p)] \in Nat /\ tree[Front(p)] \in 0..inode
    BY <1>1, <1>2
  <2> QED
    BY <2>1, <1>1, EventFacts
<1> HIDE DEF e
<1>5. /\ queue' \in Seq(Events) /\ Bounded(queue') /\ ToSet(queue) \subseteq ToSet(queue')
      /\ \A f \in ToSet(queue') : f \in ToSet(queue) \/ f = Overflow \/ f = e
      /\ \A f \in ToSet(queue') : f.wd \in 0..inode
      /\ e.wd \in watched => e \in ToSet(queue') \/ Overflow \in ToSet(queue')
  <2>1. Told(queue', {} \cup {e})
    BY <1>1, <1>4, NothingTold, OneMore
  <2> QED
    BY <2>1 DEF Told
<1>6. Overflow \in ToSet(queue') => Lost'
  BY EventFacts, PathLens DEF Lost
<1>7. \A q \in same : q # p /\ tree'[q] = tree[q]
  BY <1>1, <1>2, <1>3 DEF SameInv
<1>8. \A q \in same' : tree[q] \in watched'
  BY <1>1 DEF SameInv
<1>9. ASSUME NEW q \in Paths, tree'[q] # 0, tree'[q] # tree[q]
      PROVE  q # Root /\ (\/ Front(q) \notin same' \/ Lost'
                          \/ Event(tree[Front(q)], "dir", q) \in ToSet(queue'))
  <2>1. q = p
    BY <1>3, <1>9
  <2>2. Front(p) \in same' => e.wd \in watched
    BY <1>4, <1>1 DEF SameInv
  <2> QED
    BY <2>1, <2>2, <1>1, <1>5, <1>6 DEF e
<1>10. ASSUME NEW q \in same'
       PROVE  \/ Node(q)' = Node(q) \/ Lost'
              \/ \E f \in ToSet(queue') : f.kind \in {"dir", "other"} /\ f.wd = tree[q]
  <2>1. q \in same /\ q \in Paths /\ q # p /\ tree'[q] = tree[q]
    BY <1>1, <1>2, <1>7
  <2>2. CASE q = Front(p)
    <3>1. e.wd \in watched
      BY <2>1, <2>2, <1>4 DEF SameInv
    <3> QED
      BY <3>1, <2>2, <1>4, <1>5, <1>6
  <2>3. CASE q # Front(p)
    <3>1. p \notin Children(q)
      BY <2>1, <2>3, BelowFacts
    <3>2. \A r \in Children(q) : r \in Paths /\ tree'[r] = tree[r]
      BY <3>1, <2>1, <1>3, BelowFacts
    <3>3. Node(q)' = [dirs |-> {r \in Children(q) : tree'[r] # 0}, note |-> tree'[q] \in notes']
      BY DEF Node, Exists
    <3>4. Node(q) = [dirs |-> {r \in Children(q) : tree[r] # 0}, note |-> tree[q] \in notes]
      BY DEF Node, Exists
    <3> QED
      BY <3>2, <3>3, <3>4, <2>1, <1>1
  <2> QED
    BY <2>2, <2>3
<1>11. used' \in [ops : Nat, others : Nat, fails : Nat] /\ inode' \in Nat /\ inode' >= inode /\ notes' \subseteq 0..inode'
  BY <1>1, <1>2
<1>12. tree'[Root] = tree[Root]
  BY <1>1, <1>3, PathLens
<1>13. FsStep
  BY <1>1, <1>3, <1>5, <1>8, <1>9, <1>10, <1>11, <1>12 DEF FsStep
<1>14. \A q, r \in Paths : tree'[q] = tree'[r] /\ tree'[q] # 0 => q = r
  <2> TAKE q, r \in Paths
  <2>1. tree[q] # inode + 1 /\ tree[r] # inode + 1
    BY <1>2
  <2> QED
    BY <2>1, <1>3 DEF TreeInv
<1>15. \A q \in Paths \ {Root} : tree'[q] # 0 => tree'[Front(q)] # 0
  <2> TAKE q \in Paths \ {Root}
  <2>1. Front(q) \in Paths
    BY PathFacts
  <2>2. inode + 1 # 0
    BY <1>2
  <2> QED
    BY <2>1, <2>2, <1>1, <1>3 DEF TreeInv, Exists
<1>16. \A i \in watched' : \E q \in Paths : tree'[q] = i
  <2> TAKE i \in watched'
  <2>1. PICK q \in Paths : tree[q] = i
    BY <1>1 DEF TreeInv
  <2>2. i # 0
    BY <1>1, <1>2
  <2> QED
    BY <2>1, <2>2, <1>1, <1>3 DEF Exists
<1>17. \A q \in Paths : \/ tree'[q] = 0 \/ tree'[q] > inode
                        \/ \E r \in Paths : tree[r] = tree'[q] /\ Len(r) = Len(q)
  BY <1>2, <1>3
<1>18. \A f \in ToSet(queue') : f.kind = "ignored" => \A q \in Paths : tree'[q] # 0 => tree'[q] # f.wd
  <2> SUFFICES ASSUME NEW f \in ToSet(queue'), f.kind = "ignored", NEW q \in Paths, tree'[q] # 0
               PROVE  tree'[q] # f.wd
    OBVIOUS
  <2>1. f \in ToSet(queue) /\ f.wd \in 0..inode
    BY <1>4, <1>5, EventFacts, PathLens
  <2>2. inode + 1 # f.wd
    BY <2>1, <1>2
  <2> QED
    BY <2>1, <2>2, <1>3 DEF TreeInv, Exists
<1>19. \A f \in ToSet(queue') : f.kind = "dir" =>
          \/ f \in ToSet(queue)
          \/ \E q \in Paths : Exists(q) /\ f.wd = tree[q] /\ Fits(q, f.name)
  <2> SUFFICES ASSUME NEW f \in ToSet(queue'), f.kind = "dir", f \notin ToSet(queue)
               PROVE  \E q \in Paths : Exists(q) /\ f.wd = tree[q] /\ Fits(q, f.name)
    OBVIOUS
  <2>1. f = e
    BY <1>5, EventFacts, PathLens
  <2> QED
    BY <2>1, <1>1, <1>4, FitFacts
<1>20. FsTree
  BY <1>12, <1>14, <1>15, <1>16, <1>17, <1>18, <1>19 DEF FsTree, TreeInv, Exists
<1> QED
  BY <1>13, <1>20

\* An overflow is among the events that make the watches worthless.
LEMMA OverflowLoses == ASSUME Overflow \in ToSet(queue') PROVE Lost'
BY EventFacts, PathLens DEF Lost

\* A directory that is removed is watched no more; its parent tells of it.
LEMMA RmdirFacts ==
  ASSUME VaultTypes, TreeInv, SameInv, NEW p \in Paths, Rmdir(p)
  PROVE  FsStep /\ FsTree
<1> DEFINE gone == Event(tree[p], "ignored", p)
           left == Event(tree[Front(p)], "other", p)
<1>1. /\ p \in Paths \ {Root} /\ Exists(p) /\ Front(p) \in Paths /\ Front(p) # p
      /\ (\A q \in Below(p) : ~Exists(q)) /\ inode' = inode /\ tree' = [tree EXCEPT ![p] = 0] /\ notes' = notes
      /\ queue' = Queued(Queued(queue, gone), left) /\ watched' = watched \ {tree[p]}
      /\ same' = {q \in same : tree'[q] = tree[q]}
      /\ UNCHANGED <<map, dirty, w, model, published, active, claimed, job, stale, intruded>>
      /\ used' = [used EXCEPT !.ops = @ + 1]
  BY PathFacts DEF Rmdir, Change, Empty
<1>2. inode \in Nat /\ tree \in [Paths -> 0..inode] /\ notes \subseteq 0..inode /\ watched \subseteq 1..inode
      /\ used \in [ops : Nat, others : Nat, fails : Nat] /\ same \subseteq Paths
  BY DEF VaultTypes
<1>3. tree' \in [Paths -> 0..inode'] /\ tree'[p] = 0 /\ \A q \in Paths \ {p} : tree'[q] = tree[q]
  BY <1>1, <1>2
<1>4. /\ gone \in Events /\ gone.wd = tree[p] /\ gone.kind = "ignored" /\ gone.wd \in 0..inode
      /\ left \in Events /\ left.wd = tree[Front(p)] /\ left.kind = "other" /\ left.wd \in 0..inode
  <2>1. tree[Front(p)] \in Nat /\ tree[Front(p)] \in 0..inode /\ tree[p] \in Nat /\ tree[p] \in 0..inode
    BY <1>1, <1>2
  <2> QED
    BY <2>1, <1>1, EventFacts
<1> HIDE DEF gone, left
<1>5. Told(queue', {gone, left})
  <2>1. Told(Queued(queue, gone), {} \cup {gone})
    BY <1>4, NothingTold, OneMore
  <2>2. Told(queue', ({} \cup {gone}) \cup {left})
    BY <1>1, <1>4, <2>1, OneMore
  <2>3. ({} \cup {gone}) \cup {left} = {gone, left}
    OBVIOUS
  <2> QED
    BY <2>2, <2>3
<1>7. \A q \in same' : q \in same /\ q # p /\ q \in Paths /\ tree'[q] = tree[q] /\ tree[q] # 0 /\ tree[q] # tree[p]
  BY <1>1, <1>2, <1>3 DEF SameInv, Exists, TreeInv
<1>8. \A q \in same' : tree[q] \in watched'
  BY <1>1, <1>7 DEF SameInv
<1>9. \A q \in Paths : tree'[q] # 0 => tree'[q] = tree[q]
  BY <1>3
<1>10. ASSUME NEW q \in same'
       PROVE  \/ Node(q)' = Node(q) \/ Lost'
              \/ \E f \in ToSet(queue') : f.kind \in {"dir", "other"} /\ f.wd = tree[q]
  <2>2. CASE q = Front(p)
    <3>1. left.wd \in watched
      BY <1>7, <2>2, <1>4 DEF SameInv
    <3>2. left \in ToSet(queue') \/ Overflow \in ToSet(queue')
      BY <3>1, <1>5 DEF Told
    <3> QED
      BY <3>2, <2>2, <1>4, OverflowLoses
  <2>3. CASE q # Front(p)
    <3>1. p \notin Children(q)
      BY <1>7, <2>3, BelowFacts
    <3>2. \A r \in Children(q) : r \in Paths /\ tree'[r] = tree[r]
      BY <3>1, <1>7, <1>3, BelowFacts
    <3>3. Node(q)' = [dirs |-> {r \in Children(q) : tree'[r] # 0}, note |-> tree'[q] \in notes']
      BY DEF Node, Exists
    <3>4. Node(q) = [dirs |-> {r \in Children(q) : tree[r] # 0}, note |-> tree[q] \in notes]
      BY DEF Node, Exists
    <3> QED
      BY <3>2, <3>3, <3>4, <1>7, <1>1
  <2> QED
    BY <2>2, <2>3
<1>11. used' \in [ops : Nat, others : Nat, fails : Nat] /\ inode' \in Nat /\ inode' >= inode /\ notes' \subseteq 0..inode'
  BY <1>1, <1>2
<1>12. tree'[Root] = tree[Root]
  BY <1>1, <1>3, PathLens
<1>13. FsStep
  BY <1>1, <1>3, <1>5, <1>8, <1>9, <1>10, <1>11, <1>12 DEF FsStep, Told
<1>14. \A q, r \in Paths : tree'[q] = tree'[r] /\ tree'[q] # 0 => q = r
  BY <1>3 DEF TreeInv
<1>15. \A q \in Paths \ {Root} : tree'[q] # 0 => tree'[Front(q)] # 0
  <2> SUFFICES ASSUME NEW q \in Paths \ {Root}, tree'[q] # 0 PROVE tree'[Front(q)] # 0
    OBVIOUS
  <2>1. Front(q) \in Paths /\ tree[q] # 0 /\ tree[Front(q)] # 0 /\ q # p
    BY PathFacts, <1>3 DEF TreeInv, Exists
  <2>2. Front(q) # p
    BY <2>1, <1>1, BelowFacts DEF Exists
  <2> QED
    BY <2>1, <2>2, <1>3
<1>16. \A i \in watched' : \E q \in Paths : tree'[q] = i
  BY <1>1, <1>3 DEF TreeInv
<1>17. \A q \in Paths : \/ tree'[q] = 0 \/ tree'[q] > inode
                        \/ \E r \in Paths : tree[r] = tree'[q] /\ Len(r) = Len(q)
  BY <1>3
<1>18. \A f \in ToSet(queue') : f.kind = "ignored" => \A q \in Paths : tree'[q] # 0 => tree'[q] # f.wd
  <2> SUFFICES ASSUME NEW f \in ToSet(queue'), f.kind = "ignored", NEW q \in Paths, tree'[q] # 0
               PROVE  tree'[q] # f.wd
    OBVIOUS
  <2>1. f \in ToSet(queue) \/ f.wd = tree[p]
    BY <1>4, <1>5, EventFacts, PathLens DEF Told
  <2>2. q # p /\ tree'[q] = tree[q]
    BY <1>3
  <2> QED
    BY <2>1, <2>2 DEF TreeInv, Exists
<1>19. \A f \in ToSet(queue') : f.kind = "dir" =>
          \/ f \in ToSet(queue)
          \/ \E q \in Paths : Exists(q) /\ f.wd = tree[q] /\ Fits(q, f.name)
  BY <1>4, <1>5, EventFacts, PathLens DEF Told
<1>20. FsTree
  BY <1>12, <1>14, <1>15, <1>16, <1>17, <1>18, <1>19 DEF FsTree, TreeInv, Exists
<1> QED
  BY <1>13, <1>20

\* A note comes or goes in one directory, which tells of it.
LEMMA NoteFacts ==
  ASSUME VaultTypes, TreeInv, SameInv, NEW p \in Paths, Note(p)
  PROVE  FsStep /\ FsTree
<1> DEFINE e == Event(tree[p], "other", p)
<1>1. /\ Exists(p) /\ inode' = inode /\ tree' = tree /\ notes' = SymDiff(notes, {tree[p]})
      /\ queue' = Queued(queue, e) /\ watched' = watched \ {}
      /\ same' = {q \in same : tree'[q] = tree[q]}
      /\ UNCHANGED <<map, dirty, w, model, published, active, claimed, job, stale, intruded>>
      /\ used' = [used EXCEPT !.ops = @ + 1]
  BY DEF Note, Change
<1>2. inode \in Nat /\ tree \in [Paths -> 0..inode] /\ notes \subseteq 0..inode /\ watched \subseteq 1..inode
      /\ used \in [ops : Nat, others : Nat, fails : Nat] /\ same \subseteq Paths
  BY DEF VaultTypes
<1>3. e \in Events /\ e.wd = tree[p] /\ e.kind = "other" /\ e.wd \in 0..inode
  <2>1. tree[p] \in Nat /\ tree[p] \in 0..inode
    BY <1>2
  <2> QED
    BY <2>1, EventFacts
<1> HIDE DEF e
<1>4. Told(queue', {e})
  <2>1. Told(queue', {} \cup {e})
    BY <1>1, <1>3, NothingTold, OneMore
  <2> QED
    BY <2>1
<1>5. notes' \subseteq 0..inode' /\ \A i : i # tree[p] => (i \in notes' <=> i \in notes)
  BY <1>1, <1>2 DEF SymDiff
<1>6. same' = same /\ watched' = watched
  BY <1>1
<1>7. ASSUME NEW q \in same'
      PROVE  \/ Node(q)' = Node(q) \/ Lost'
             \/ \E f \in ToSet(queue') : f.kind \in {"dir", "other"} /\ f.wd = tree[q]
  <2>1. q \in same /\ q \in Paths /\ tree[q] # 0
    BY <1>2, <1>6 DEF SameInv, Exists
  <2>2. CASE q = p
    <3>1. e.wd \in watched
      BY <2>1, <2>2, <1>3 DEF SameInv
    <3>2. e \in ToSet(queue') \/ Overflow \in ToSet(queue')
      BY <3>1, <1>4 DEF Told
    <3> QED
      BY <3>2, <2>2, <1>3, OverflowLoses
  <2>3. CASE q # p
    <3>2. tree[q] # tree[p]
      BY <2>1, <2>3 DEF TreeInv
    <3>3. Node(q)' = [dirs |-> {r \in Children(q) : tree'[r] # 0}, note |-> tree'[q] \in notes']
      BY DEF Node, Exists
    <3>4. Node(q) = [dirs |-> {r \in Children(q) : tree[r] # 0}, note |-> tree[q] \in notes]
      BY DEF Node, Exists
    <3> QED
      <4>1. tree'[q] \in notes' <=> tree[q] \in notes
        BY <3>2, <1>1, <1>5
      <4>2. {r \in Children(q) : tree'[r] # 0} = {r \in Children(q) : tree[r] # 0}
        BY <1>1
      <4> QED
        BY <3>3, <3>4, <4>1, <4>2
  <2> QED
    BY <2>2, <2>3
<1>8. used' \in [ops : Nat, others : Nat, fails : Nat] /\ inode' \in Nat /\ inode' >= inode
  BY <1>1, <1>2
<1>9. FsStep
  <2>1. tree' \in [Paths -> 0..inode'] /\ watched' \subseteq watched
    BY <1>1, <1>2
  <2>2. \A q \in same' : tree[q] \in watched'
    BY <1>6 DEF SameInv
  <2> QED
    BY <1>1, <1>4, <1>5, <1>7, <1>8, <2>1, <2>2 DEF FsStep, Told
<1>10. \A f \in ToSet(queue') : f \in ToSet(queue) \/ f.kind \notin {"ignored", "dir"}
  BY <1>3, <1>4, EventFacts, PathLens DEF Told
<1>11. FsTree
  BY <1>1, <1>6, <1>10 DEF FsTree, TreeInv, Exists
<1> QED
  BY <1>9, <1>11

\* Of a mount nobody may tell, but the root is another one then.
LEMMA RemountFacts ==
  ASSUME VaultTypes, TreeInv, SameInv, Remount
  PROVE  FsStep /\ FsTree
<1> DEFINE e == Event(tree[Root], "unmount", Root)
<1>1. /\ inode' = inode + 1 /\ tree' = [p \in Paths |-> IF p = Root THEN inode + 1 ELSE 0] /\ notes' = notes
      /\ queue' = queue \/ queue' = Queued(queue, e)
      /\ watched' = watched \ watched
      /\ same' = {q \in same : tree'[q] = tree[q]}
      /\ UNCHANGED <<map, dirty, w, model, published, active, claimed, job, stale, intruded>>
      /\ used' = [used EXCEPT !.ops = @ + 1]
  BY DEF Remount, Change
<1>2. inode \in Nat /\ tree \in [Paths -> 0..inode] /\ notes \subseteq 0..inode /\ watched \subseteq 1..inode
      /\ used \in [ops : Nat, others : Nat, fails : Nat] /\ same \subseteq Paths
  BY DEF VaultTypes
<1>3. e \in Events /\ e.kind = "unmount" /\ e.wd \in 0..inode
  <2>1. tree[Root] \in Nat /\ tree[Root] \in 0..inode
    BY <1>2, PathLens
  <2> QED
    BY <2>1, PathLens, EventFacts
<1> HIDE DEF e
<1>4. /\ queue' \in Seq(Events) /\ Bounded(queue') /\ ToSet(queue) \subseteq ToSet(queue')
      /\ \A f \in ToSet(queue') : f \in ToSet(queue) \/ f = Overflow \/ f = e
      /\ \A f \in ToSet(queue') : f.wd \in 0..inode
  <2>1. CASE queue' = queue
    BY <2>1 DEF VaultTypes
  <2>2. CASE queue' = Queued(queue, e)
    <3>1. Told(queue', {} \cup {e})
      BY <2>2, <1>3, NothingTold, OneMore
    <3> QED
      BY <3>1 DEF Told
  <2> QED
    BY <1>1, <2>1, <2>2
<1>5. tree' \in [Paths -> 0..inode'] /\ tree'[Root] = inode + 1 /\ \A q \in Paths \ {Root} : tree'[q] = 0
  BY <1>1, <1>2, PathLens
<1>6. same' = {} /\ watched' = {}
  <2>1. \A q \in same : tree[q] # 0 /\ tree[q] # inode + 1 /\ q \in Paths
    BY <1>2 DEF SameInv, Exists
  <2> QED
    BY <2>1, <1>1, <1>5
<1>7. tree'[Root] > inode /\ tree'[Root] # tree[Root]
  BY <1>2, <1>5, PathLens
<1>8. used' \in [ops : Nat, others : Nat, fails : Nat] /\ inode' \in Nat /\ inode' >= inode /\ notes' \subseteq 0..inode'
  BY <1>1, <1>2
<1>9. FsStep
  BY <1>1, <1>4, <1>5, <1>6, <1>7, <1>8 DEF FsStep
<1>10. \A f \in ToSet(queue') : f \in ToSet(queue) \/ f.kind \notin {"ignored", "dir"}
  BY <1>3, <1>4, EventFacts, PathLens
<1>11. \A f \in ToSet(queue') : f.kind = "ignored" => \A q \in Paths : tree'[q] # 0 => tree'[q] # f.wd
  <2> SUFFICES ASSUME NEW f \in ToSet(queue') PROVE f.wd # inode + 1
    BY <1>5
  <2> QED
    BY <1>2, <1>4
<1>12. tree'[Root] # 0
  BY <1>2, <1>5
<1>13. \A q \in Paths : tree'[q] # 0 => q = Root
  BY <1>5
<1>14. \A q \in Paths : tree'[q] = 0 \/ tree'[q] > inode
  BY <1>5, <1>7
<1>15. FsTree
  BY <1>6, <1>10, <1>11, <1>12, <1>13, <1>14 DEF FsTree
<1> QED
  BY <1>9, <1>15

\* Where what is at r after p was renamed to q was before.
Source(p, q, r) == IF r \in Under(q) THEN Moved(p, r) ELSE r

\* A rename keeps the tree a tree.
LEMMA RenameTree ==
  ASSUME VaultTypes, TreeInv, NEW p \in Paths \ {Root}, NEW q \in Paths \ {Root}, Rename(p, q)
  PROVE  /\ tree' \in [Paths -> 0..inode] /\ tree[p] # 0 /\ tree'[q] = tree[p] /\ tree'[p] = 0
         /\ Under(p) \cap Under(q) = {} /\ p # q /\ Len(p) = Len(q)
         /\ \A r \in Under(p) : tree'[r] = 0
         /\ \A r \in Under(q) \ {q} : tree[r] = 0
         /\ \A r \in Paths \ (Under(p) \cup Under(q)) : tree'[r] = tree[r]
         /\ \A r \in Paths \ Under(p) : /\ Source(p, q, r) \in Paths /\ tree'[r] = tree[Source(p, q, r)]
                                       /\ Len(Source(p, q, r)) = Len(r)
         /\ \A r, s \in Paths \ Under(p) : Source(p, q, r) = Source(p, q, s) => r = s
<1>1. /\ Len(p) = Len(q) /\ p # q /\ Exists(p) /\ \A r \in Below(q) : ~Exists(r)
      /\ tree' = [r \in Paths |-> CASE r \in Under(p) -> 0
                                    [] r \in Under(q) -> tree[Moved(p, r)]
                                    [] OTHER -> tree[r]]
  BY DEF Rename, Empty, Moved
<1>2. tree \in [Paths -> 0..inode] /\ inode \in Nat
  BY DEF VaultTypes
<1>3. Under(p) \cap Under(q) = {}
  <2> SUFFICES ASSUME NEW r \in Paths, IsPrefix(p, r), IsPrefix(q, r) PROVE FALSE
    BY DEF Under
  <2>1. IsPrefix(p, q) \/ IsPrefix(q, p)
    BY PathOrder
  <2> QED
    BY <2>1, <1>1, PathOrder
<1>4. /\ Under(p) \subseteq Paths /\ Under(q) \subseteq Paths /\ q \in Under(q) /\ p \in Under(p)
      /\ Below(q) = Under(q) \ {q}
  BY BelowFacts
<1>5. \A r \in Under(q) : /\ Moved(p, r) \in Under(p) /\ Len(Moved(p, r)) = Len(r)
                          /\ Moved(q, Moved(p, r)) = r
  BY <1>1, MovedFacts
<1>6. Moved(p, q) = p
  BY <1>1, MovedFacts
<1>7. \A r \in Under(p) : tree'[r] = 0
  <2> TAKE r \in Under(p)
  <2>1. r \notin Under(q) /\ r \in Paths
    BY <1>3, <1>4
  <2> QED
    BY <2>1, <1>1
<1>8. \A r \in Under(q) : r \notin Under(p) /\ r \in Paths /\ tree'[r] = tree[Moved(p, r)]
  <2> TAKE r \in Under(q)
  <2>1. r \notin Under(p) /\ r \in Paths
    BY <1>3, <1>4
  <2> QED
    BY <2>1, <1>1
<1>9. \A r \in Paths \ (Under(p) \cup Under(q)) : tree'[r] = tree[r]
  BY <1>1
<1>10. \A r \in Paths : tree'[r] \in 0..inode
  BY <1>2, <1>4, <1>5, <1>7, <1>8, <1>9
<1>11. tree' \in [Paths -> 0..inode]
  <2>1. DOMAIN tree' = Paths /\ tree' = [r \in DOMAIN tree' |-> tree'[r]]
    BY <1>1
  <2> QED
    BY <2>1, <1>10
<1>12. \A r \in Paths \ Under(p) : /\ Source(p, q, r) \in Paths /\ tree'[r] = tree[Source(p, q, r)]
                                   /\ Len(Source(p, q, r)) = Len(r)
  BY <1>4, <1>5, <1>8, <1>9 DEF Source
<1>13. ASSUME NEW r \in Paths \ Under(p), NEW s \in Paths \ Under(p), Source(p, q, r) = Source(p, q, s)
       PROVE  r = s
  <2>1. CASE r \in Under(q) /\ s \in Under(q)
    BY <2>1, <1>5, <1>13 DEF Source
  <2>2. CASE r \in Under(q) /\ s \notin Under(q)
    BY <2>2, <1>5, <1>13 DEF Source
  <2>3. CASE r \notin Under(q) /\ s \in Under(q)
    BY <2>3, <1>5, <1>13 DEF Source
  <2>4. CASE r \notin Under(q) /\ s \notin Under(q)
    BY <2>4, <1>13 DEF Source
  <2> QED
    BY <2>1, <2>2, <2>3, <2>4
<1>14. \A r \in Under(q) \ {q} : tree[r] = 0
  BY <1>1, <1>4 DEF Exists
<1> QED
  BY <1>1, <1>3, <1>4, <1>6, <1>7, <1>8, <1>9, <1>11, <1>12, <1>13, <1>14 DEF Exists

\* What a rename moves is not where it was watched, and its new parent tells of the directory.
LEMMA RenameFacts ==
  ASSUME VaultTypes, TreeInv, SameInv, NEW p \in Paths \ {Root}, NEW q \in Paths \ {Root}, Rename(p, q)
  PROVE  FsStep /\ FsTree
<1> DEFINE left == Event(tree[Front(p)], "other", p)
           come == Event(tree[Front(q)], "dir", q)
           gone == Event(tree[q], "ignored", q)
<1>1. /\ tree' \in [Paths -> 0..inode] /\ tree[p] # 0 /\ tree'[q] = tree[p] /\ tree'[p] = 0
      /\ Under(p) \cap Under(q) = {} /\ p # q /\ Len(p) = Len(q)
      /\ \A r \in Under(p) : tree'[r] = 0
      /\ \A r \in Under(q) \ {q} : tree[r] = 0
      /\ \A r \in Paths \ (Under(p) \cup Under(q)) : tree'[r] = tree[r]
      /\ \A r \in Paths \ Under(p) : /\ Source(p, q, r) \in Paths /\ tree'[r] = tree[Source(p, q, r)]
                                    /\ Len(Source(p, q, r)) = Len(r)
      /\ \A r, s \in Paths \ Under(p) : Source(p, q, r) = Source(p, q, s) => r = s
  BY RenameTree
<1>2. /\ Exists(Front(q)) /\ inode' = inode /\ notes' = notes
      /\ queue' = Queued(Queued(Queued(queue, left), come), gone) /\ watched' = watched \ {tree[q]}
      /\ same' = {r \in same : tree'[r] = tree[r]}
      /\ UNCHANGED <<map, dirty, w, model, published, active, claimed, job, stale, intruded>>
      /\ used' = [used EXCEPT !.ops = @ + 1]
  BY DEF Rename, Change
<1>3. inode \in Nat /\ tree \in [Paths -> 0..inode] /\ notes \subseteq 0..inode /\ watched \subseteq 1..inode
      /\ used \in [ops : Nat, others : Nat, fails : Nat] /\ same \subseteq Paths
  BY DEF VaultTypes
<1>4. Front(p) \in Paths /\ Front(q) \in Paths /\ Len(p) = Len(Front(p)) + 1 /\ Len(q) = Len(Front(q)) + 1
      /\ Len(Front(p)) \in Nat /\ Len(Front(q)) \in Nat
  BY PathFacts
<1>5. /\ left \in Events /\ left.wd = tree[Front(p)] /\ left.kind = "other" /\ left.wd \in 0..inode
      /\ come \in Events /\ come.wd = tree[Front(q)] /\ come.kind = "dir" /\ come.name = Last(q) /\ come.wd \in 0..inode
      /\ gone \in Events /\ gone.wd = tree[q] /\ gone.kind = "ignored" /\ gone.wd \in 0..inode
  <2>1. \A r \in Paths : tree[r] \in Nat /\ tree[r] \in 0..inode
    BY <1>3
  <2>2. left \in Events /\ left.wd = tree[Front(p)] /\ left.kind = "other" /\ left.wd \in 0..inode
    BY <2>1, <1>4, EventFacts
  <2>3. /\ come \in Events /\ come.wd = tree[Front(q)] /\ come.kind = "dir" /\ come.name = Last(q)
        /\ come.wd \in 0..inode
    BY <2>1, <1>4, EventFacts
  <2>4. gone \in Events /\ gone.wd = tree[q] /\ gone.kind = "ignored" /\ gone.wd \in 0..inode
    BY <2>1, EventFacts
  <2> QED
    BY <2>2, <2>3, <2>4
<1>6. come = Event(tree[Front(q)], "dir", q)
  OBVIOUS
<1> HIDE DEF left, come, gone
<1>7. Told(queue', {left, come, gone})
  <2>1. Told(Queued(queue, left), {} \cup {left})
    BY <1>5, NothingTold, OneMore
  <2>2. Told(Queued(Queued(queue, left), come), ({} \cup {left}) \cup {come})
    BY <1>5, <2>1, OneMore
  <2>3. Told(queue', (({} \cup {left}) \cup {come}) \cup {gone})
    BY <1>2, <1>5, <2>2, OneMore
  <2>4. (({} \cup {left}) \cup {come}) \cup {gone} = {left, come, gone}
    OBVIOUS
  <2> QED
    BY <2>3, <2>4
\* The parents are neither moved nor replaced.
<1>8. ASSUME NEW a \in Paths, Len(a) < Len(q)
      PROVE  a \notin Under(p) /\ a \notin Under(q) /\ tree'[a] = tree[a]
  <2>1. Len(a) \in Nat /\ Len(q) \in Nat
    BY <1>4, PathLens
  <2>2. ~IsPrefix(p, a) /\ ~IsPrefix(q, a)
    BY <2>1, <1>8, <1>1, PathOrder
  <2> QED
    BY <2>2, <1>1 DEF Under
<1>9. Len(Root) < Len(q) /\ tree'[Root] = tree[Root]
  <2>1. Len(Root) < Len(q)
    BY <1>4, PathLens
  <2> QED
    BY <2>1, <1>8, PathLens
<1>10. p \in Under(p) /\ q \in Under(q) /\ Under(p) \subseteq Paths /\ Under(q) \subseteq Paths
  BY BelowFacts
<1>11. \A r \in same' : /\ r \in same /\ r \in Paths /\ tree'[r] = tree[r] /\ tree[r] # 0
                        /\ r \notin Under(p) /\ r \notin Under(q) /\ tree[r] # tree[q]
  <2> TAKE r \in same'
  <2>1. r \in same /\ r \in Paths /\ tree'[r] = tree[r] /\ tree[r] # 0
    BY <1>2, <1>3 DEF SameInv, Exists
  <2>2. r \notin Under(p)
    BY <2>1, <1>1
  <2>3. r # q
    <3>1. tree[q] # tree[p]
      BY <1>1 DEF TreeInv
    <3> QED
      BY <3>1, <2>1, <1>1
  <2>4. r \notin Under(q)
    BY <2>1, <2>3, <1>1
  <2>5. tree[r] # tree[q]
    BY <2>1, <2>3 DEF TreeInv
  <2> QED
    BY <2>1, <2>2, <2>4, <2>5
<1>12. \A r \in same' : tree[r] \in watched'
  BY <1>11, <1>2 DEF SameInv
<1>13. ASSUME NEW r \in Paths, tree'[r] # 0, tree'[r] # tree[r]
       PROVE  r # Root /\ (\/ Front(r) \notin same' \/ Lost'
                           \/ Event(tree[Front(r)], "dir", r) \in ToSet(queue'))
  <2>1. r # Root /\ r \in Under(q)
    BY <1>1, <1>9, <1>13
  <2>2. CASE r = q
    <3>1. Front(q) \in same' => come.wd \in watched
      BY <1>5, <1>11 DEF SameInv
    <3>2. Front(q) \in same' => come \in ToSet(queue') \/ Overflow \in ToSet(queue')
      BY <3>1, <1>7 DEF Told
    <3> QED
      BY <3>2, <2>1, <2>2, <1>6, OverflowLoses
  <2>3. CASE r # q
    <3>1. Front(r) \in Under(q)
      BY <2>1, <2>3, <1>10, BelowFacts
    <3> QED
      BY <3>1, <2>1, <1>11
  <2> QED
    BY <2>2, <2>3
<1>14. ASSUME NEW r \in same'
       PROVE  \/ Node(r)' = Node(r) \/ Lost'
              \/ \E f \in ToSet(queue') : f.kind \in {"dir", "other"} /\ f.wd = tree[r]
  <2>1. CASE r = Front(p)
    <3>1. left.wd \in watched
      BY <2>1, <1>5, <1>11 DEF SameInv
    <3>2. left \in ToSet(queue') \/ Overflow \in ToSet(queue')
      BY <3>1, <1>7 DEF Told
    <3> QED
      BY <3>2, <2>1, <1>5, OverflowLoses
  <2>2. CASE r = Front(q)
    <3>1. come.wd \in watched
      BY <2>2, <1>5, <1>11 DEF SameInv
    <3>2. come \in ToSet(queue') \/ Overflow \in ToSet(queue')
      BY <3>1, <1>7 DEF Told
    <3> QED
      BY <3>2, <2>2, <1>5, OverflowLoses
  <2>3. CASE r # Front(p) /\ r # Front(q)
    <3>1. \A c \in Children(r) : c \in Paths /\ c \notin Under(p) /\ c \notin Under(q)
      <4> TAKE c \in Children(r)
      <4>1. c \in Paths \ {Root} /\ Front(c) = r
        BY <1>11, BelowFacts
      <4>2. c # p /\ c # q
        BY <4>1, <2>3
      <4>3. r \notin Under(p) /\ r \notin Under(q)
        BY <1>11
      <4> QED
        BY <4>1, <4>2, <4>3, BelowFacts
    <3>2. \A c \in Children(r) : tree'[c] = tree[c]
      BY <3>1, <1>1
    <3>3. Node(r)' = [dirs |-> {c \in Children(r) : tree'[c] # 0}, note |-> tree'[r] \in notes']
      BY DEF Node, Exists
    <3>4. Node(r) = [dirs |-> {c \in Children(r) : tree[c] # 0}, note |-> tree[r] \in notes]
      BY DEF Node, Exists
    <3>5. tree'[r] \in notes' <=> tree[r] \in notes
      BY <1>2, <1>11
    <3>6. {c \in Children(r) : tree'[c] # 0} = {c \in Children(r) : tree[c] # 0}
      BY <3>2
    <3> QED
      BY <3>3, <3>4, <3>5, <3>6
  <2> QED
    BY <2>1, <2>2, <2>3
<1>15. used' \in [ops : Nat, others : Nat, fails : Nat] /\ inode' \in Nat /\ inode' >= inode /\ notes' \subseteq 0..inode'
       /\ tree' \in [Paths -> 0..inode'] /\ watched' \subseteq watched
  <2>1. used' \in [ops : Nat, others : Nat, fails : Nat]
    BY <1>2, <1>3
  <2>2. inode' \in Nat /\ inode' >= inode /\ notes' \subseteq 0..inode'
    BY <1>2, <1>3
  <2>3. tree' \in [Paths -> 0..inode']
    BY <1>1, <1>2, <1>3
  <2>4. watched' \subseteq watched
    BY <1>2
  <2> QED
    BY <2>1, <2>2, <2>3, <2>4
<1>16. FsStep
  BY <1>2, <1>7, <1>9, <1>12, <1>13, <1>14, <1>15 DEF FsStep, Told
<1>17. ASSUME NEW r \in Paths, NEW s \in Paths, tree'[r] = tree'[s], tree'[r] # 0
       PROVE  r = s
  <2>1. r \notin Under(p) /\ s \notin Under(p)
    BY <1>1, <1>17
  <2>2. tree[Source(p, q, r)] = tree[Source(p, q, s)] /\ tree[Source(p, q, r)] # 0
        /\ Source(p, q, r) \in Paths /\ Source(p, q, s) \in Paths
    BY <2>1, <1>1, <1>17
  <2>3. Source(p, q, r) = Source(p, q, s)
    BY <2>2 DEF TreeInv
  <2> QED
    BY <2>1, <2>3, <1>1
<1>18. ASSUME NEW r \in Paths \ {Root}, tree'[r] # 0
       PROVE  tree'[Front(r)] # 0
  <2>1. r \notin Under(p) /\ Front(r) \in Paths
    BY <1>1, <1>18, PathFacts
  <2>2. Front(r) \notin Under(p)
    BY <2>1, BelowFacts
  <2>3. CASE r = q
    <3>1. tree'[Front(q)] = tree[Front(q)]
      BY <1>4, <1>8
    <3> QED
      BY <3>1, <2>3, <1>2 DEF Exists
  <2>4. CASE r \in Under(q) /\ r # q
    <3>1. Front(r) \in Under(q)
      BY <2>1, <2>4, BelowFacts
    <3>2. Moved(p, r) # Root /\ Front(Moved(p, r)) = Moved(p, Front(r)) /\ Moved(p, r) \in Under(p)
      BY <2>4, <1>1, MovedFacts
    <3>3. tree'[r] = tree[Moved(p, r)] /\ tree'[Front(r)] = tree[Moved(p, Front(r))]
      BY <2>1, <2>2, <2>4, <3>1, <1>1 DEF Source
    <3>4. Moved(p, r) \in Paths
      BY <3>2, <1>10
    <3> QED
      BY <3>2, <3>3, <3>4, <1>18 DEF TreeInv, Exists
  <2>5. CASE r \notin Under(q)
    <3>1. Front(r) \notin Under(q)
      BY <2>1, <2>5, BelowFacts
    <3>2. tree'[r] = tree[r] /\ tree'[Front(r)] = tree[Front(r)]
      BY <2>1, <2>2, <2>5, <3>1, <1>1
    <3> QED
      BY <3>2, <1>18 DEF TreeInv, Exists
  <2> QED
    BY <2>3, <2>4, <2>5
<1>19. ASSUME NEW i \in watched' PROVE \E r \in Paths : tree'[r] = i
  <2>1. PICK r \in Paths : tree[r] = i
    BY <1>2 DEF TreeInv
  <2>2. i # 0 /\ i # tree[q]
    BY <1>2, <1>3
  <2>3. CASE r \in Under(p)
    <3>1. Moved(q, r) \in Under(q) /\ Moved(p, Moved(q, r)) = r
      BY <2>3, <1>1, MovedFacts
    <3>2. Moved(q, r) \in Paths \ Under(p) /\ Source(p, q, Moved(q, r)) = r
      BY <3>1, <1>1, <1>10 DEF Source
    <3> QED
      BY <3>2, <2>1, <1>1
  <2>4. CASE r \notin Under(p)
    <3>1. r \notin Under(q)
      BY <2>1, <2>2, <1>1
    <3> QED
      BY <3>1, <2>1, <2>4, <1>1
  <2> QED
    BY <2>3, <2>4
<1>20. ASSUME NEW r \in Paths, tree'[r] # 0
       PROVE  \E s \in Paths : tree[s] = tree'[r] /\ Len(s) = Len(r)
  <2>1. r \notin Under(p)
    BY <1>1, <1>20
  <2>2. Source(p, q, r) \in Paths /\ tree'[r] = tree[Source(p, q, r)] /\ Len(Source(p, q, r)) = Len(r)
    BY <2>1, <1>1
  <2> QED
    BY <2>2
<1>21. ASSUME NEW f \in ToSet(queue'), f.kind = "ignored", NEW r \in Paths, tree'[r] # 0
       PROVE  tree'[r] # f.wd
  <2>1. f \in ToSet(queue) \/ f.wd = tree[q]
    BY <1>5, <1>7, <1>21, EventFacts, PathLens DEF Told
  <2>2. PICK s \in Paths : tree[s] = tree'[r] /\ s = Source(p, q, r) /\ r \notin Under(p)
    BY <1>1, <1>21
  <2>3. CASE f \in ToSet(queue)
    BY <2>2, <2>3, <1>21 DEF TreeInv, Exists
  <2>4. CASE f.wd = tree[q]
    <3> SUFFICES ASSUME tree[s] = tree[q] PROVE FALSE
      BY <2>2, <2>4
    <3>1. s = q
      BY <2>2, <1>21 DEF TreeInv
    <3>2. q \notin Under(p)
      BY <1>1, <1>10
    <3>3. CASE r \in Under(q)
      <4>1. s \in Under(p)
        BY <3>3, <2>2, <1>1, MovedFacts DEF Source
      <4> QED
        BY <4>1, <3>1, <3>2
    <3>4. CASE r \notin Under(q)
      BY <3>1, <3>4, <2>2, <1>10 DEF Source
    <3> QED
      BY <3>3, <3>4
  <2> QED
    BY <2>1, <2>3, <2>4
<1>22. ASSUME NEW f \in ToSet(queue'), f.kind = "dir", f \notin ToSet(queue)
       PROVE  \E s \in Paths : Exists(s) /\ f.wd = tree[s] /\ Fits(s, f.name)
  <2>1. f = come
    BY <1>5, <1>7, <1>22, EventFacts, PathLens DEF Told
  <2> QED
    BY <2>1, <1>2, <1>4, <1>5, FitFacts
<1>23. FsTree
  <2>1. tree'[Root] # 0
    BY <1>9 DEF TreeInv, Exists
  <2> QED
    BY <2>1, <1>17, <1>18, <1>19, <1>20, <1>21, <1>22 DEF FsTree
<1> QED
  BY <1>16, <1>23

\* Every change of the file system is such a step.
LEMMA FsFacts ==
  ASSUME VaultTypes, TreeInv, SameInv, FileSystem
  PROVE  FsStep /\ FsTree
BY MkdirFacts, RmdirFacts, NoteFacts, RenameFacts, RemountFacts DEF FileSystem

\* Nothing on the list is only dirty.
AllScans(s) == \A i \in DOMAIN s : s[i].kind # "dirty"

\* The walker's list: what is to be walked comes before what is only dirty, and
\* nothing is to be walked twice.
ListInv ==
    /\ w.pc = "walk" => AllScans(w.todo)
    /\ w.pc \notin {"walk", "apply"} => w.todo = <<>>
    /\ w.seen => w.todo # <<>>
    /\ Apart(w.todo) /\ ScansFirst(w.todo)
    /\ w.pc \in {"armed", "loop"} \/ (w.pc = "apply" /\ w.live) => ~w.restart

\* The directory that was watched and is to be read.
Hand(p) == w.seen /\ Head(w.todo).dir = p

\* What the model need not say of a directory is because it is another one than
\* when it was last watched, or about to be read again.
UnsureInv == \A p \in stale : p \notin same \/ (Hand(p) /\ w.other)

\* The model that is to be the tree, the one a walk builds before it is done.
M == IF w.pc = "walk" THEN w.fresh ELSE model

\* The watcher is bound to start over, or its model was changed behind it.
Doomed == w.pc = "idle" \/ w.restart \/ Lost \/ RootChanged \/ (intruded /\ w.pc # "walk")

\* What is still to be watched and read, and what will be.
\* Its arrival is queued at a parent that has not changed.
Arrived(p) == p # Root /\ Front(p) \in same /\ Event(tree[Front(p)], "dir", p) \in ToSet(queue)
\* It is dirty, on the list, or its arrival is queued.
Expected(p) == p \in dirty \/ p \in DirsOf(w.todo) \/ Arrived(p)
\* A change inside it is queued.
Heard(p) == \E e \in ToSet(queue) : e.kind \in {"dir", "other"} /\ e.wd = tree[p]

\* Nothing is missed: what was not watched where it is will be, or its parent
\* will tell of it, or it is known for one that need not be.
FoundInv == \A p \in Paths \ stale : Exists(p) /\ p \notin same =>
    \/ Expected(p)
    \/ p # Root /\ (Front(p) \in Scans(w.todo) \/ (Hand(Front(p)) /\ w.other) \/ Front(p) \notin same)

\* What was watched and read is as it was read, or will be read again.
ReadInv == \A p \in same \cap DOMAIN M :
    M[p] = Node(p) \/ p \in dirty \/ Heard(p) \/ p \in DirsOf(w.todo)

\* What was watched and read is in the model.
ModelledInv == \A p \in same : p \in DOMAIN M \/ Hand(p)

\* The model is a tree: each directory is listed by its parent.
Closed(m) == \A p \in DOMAIN m :
    m[p].dirs \subseteq Children(p) /\ (p # Root => Front(p) \in DOMAIN m /\ p \in m[Front(p)].dirs)

ClosedInv == Closed(M)

\* What is to be walked is new, and listed by its parent.
New(m, ps) == \A p \in ps :
    p \notin DOMAIN m /\ (p # Root => Front(p) \in DOMAIN m /\ p \in m[Front(p)].dirs)

NewInv == New(M, Scans(w.todo))

\* Searches see the model between two rounds.
PublishedInv == w.pc \in {"armed", "loop"} => published = Snapshot(model)

\* What holds unless the watcher is to start over.
LiveInv == FoundInv /\ ReadInv /\ ModelledInv /\ ClosedInv /\ NewInv /\ PublishedInv

\* The inductive invariant.
VaultInv == /\ VaultTypes /\ TreeInv /\ DepthInv /\ SameInv /\ ListInv /\ UnsureInv
            /\ Doomed \/ LiveInv

----------------------------------------------------------------------------
\* A change of the file system keeps the types,
LEMMA FsTypes == ASSUME VaultTypes, FsStep PROVE VaultTypes'
<1>1. /\ inode' \in Nat /\ inode' >= inode /\ inode \in Nat /\ tree' \in [Paths -> 0..inode'] /\ notes' \subseteq 0..inode'
      /\ watched' \subseteq watched /\ watched \subseteq 1..inode
      /\ queue' \in Seq(Events) /\ Bounded(queue') /\ \A e \in ToSet(queue') : e.wd \in 0..inode
      /\ DOMAIN map \subseteq 1..inode /\ \A i \in DOMAIN map : map[i] \in Paths
      /\ same' \subseteq same /\ used' \in [ops : Nat, others : Nat, fails : Nat]
  BY DEF FsStep, VaultTypes
<1>2. 0..inode \subseteq 0..inode' /\ 1..inode \subseteq 1..inode'
  BY <1>1
<1>3. watched' \subseteq 1..inode' /\ (\A e \in ToSet(queue') : e.wd \in 0..inode') /\ DOMAIN map \subseteq 1..inode'
  BY <1>1, <1>2
<1>4. UNCHANGED <<map, dirty, w, model, published, active, claimed, job, stale, intruded>>
  BY DEF FsStep
<1> QED
  BY <1>1, <1>3, <1>4 DEF VaultTypes

\* the tree and the depths of what is watched,
LEMMA FsTrees ==
  ASSUME VaultTypes, TreeInv, DepthInv, SameInv, FsStep, FsTree
  PROVE  TreeInv' /\ DepthInv' /\ SameInv'
<1>1. UNCHANGED <<map, w>> /\ inode' >= inode /\ inode' \in Nat /\ inode \in Nat /\ w.root0 \in Nat
  BY DEF FsStep, VaultTypes, Steps
<1>2. /\ DOMAIN map \subseteq 1..inode /\ (\A i \in DOMAIN map : map[i] \in Paths)
      /\ \A e \in ToSet(queue') : e.wd \in 0..inode
      /\ tree' \in [Paths -> 0..inode']
  BY DEF FsStep, VaultTypes
<1>3. w'.root0 <= inode'
  BY <1>1 DEF TreeInv
<1>4. TreeInv'
  BY <1>3 DEF FsTree, TreeInv, Exists
<1>5. ASSUME NEW p \in Paths, tree'[p] # 0, tree'[p] \in DOMAIN map
      PROVE  Len(map[tree'[p]]) = Len(p)
  <2>1. ~(tree'[p] > inode)
    BY <1>1, <1>2, <1>5
  <2>2. PICK q \in Paths : tree[q] = tree'[p] /\ Len(q) = Len(p)
    BY <2>1, <1>5 DEF FsTree
  <2> QED
    BY <2>2, <1>5 DEF DepthInv, Exists
<1>6. ASSUME NEW e \in ToSet(queue'), e.kind = "dir", NEW p \in Paths, tree'[p] # 0, tree'[p] = e.wd
      PROVE  Fits(p, e.name)
  <2>1. ~(tree'[p] > inode)
    BY <1>1, <1>2, <1>6
  <2>2. PICK q \in Paths : tree[q] = tree'[p] /\ Len(q) = Len(p)
    BY <2>1, <1>6 DEF FsTree
  <2>3. Fits(q, e.name)
    <3>1. CASE e \in ToSet(queue)
      BY <3>1, <2>2, <1>6 DEF DepthInv, Exists
    <3>2. CASE e \notin ToSet(queue)
      <4>1. PICK r \in Paths : Exists(r) /\ e.wd = tree[r] /\ Fits(r, e.name)
        BY <3>2, <1>6 DEF FsTree
      <4>2. r = q
        BY <4>1, <2>2, <1>6 DEF TreeInv, Exists
      <4> QED
        BY <4>1, <4>2
    <3> QED
      BY <3>1, <3>2
  <2> QED
    BY <2>2, <2>3, FitFacts
<1>7. ASSUME NEW e \in ToSet(queue'), e.kind = "dir", e.wd \in DOMAIN map
      PROVE  Fits(map[e.wd], e.name)
  <2>1. CASE e \in ToSet(queue)
    BY <2>1, <1>7 DEF DepthInv
  <2>2. CASE e \notin ToSet(queue)
    <3>1. PICK q \in Paths : Exists(q) /\ e.wd = tree[q] /\ Fits(q, e.name)
      BY <2>2, <1>7 DEF FsTree
    <3>2. Len(map[e.wd]) = Len(q) /\ map[e.wd] \in Paths
      BY <3>1, <1>2, <1>7 DEF DepthInv
    <3> QED
      BY <3>1, <3>2, FitFacts
  <2> QED
    BY <2>1, <2>2
<1>8. DepthInv'
  BY <1>1, <1>5, <1>6, <1>7 DEF DepthInv, Exists
<1>9. SameInv'
  BY <1>1 DEF SameInv, FsStep, Exists
<1> QED
  BY <1>4, <1>8, <1>9

\* and all that the index rests on,
LEMMA FsLive ==
  ASSUME VaultTypes, TreeInv, SameInv, LiveInv, FsStep, ~Doomed'
  PROVE  LiveInv'
<1>1. UNCHANGED <<map, dirty, w, model, published, stale>> /\ ToSet(queue) \subseteq ToSet(queue')
      /\ same' = {p \in same : tree'[p] = tree[p]} /\ same \subseteq Paths /\ ~Lost'
  BY DEF FsStep, VaultTypes, Doomed
<1>2. tree'[Root] = tree[Root]
  <2>1. tree'[Root] = w.root0 /\ w.root0 <= inode /\ w.root0 \in Nat /\ inode \in Nat
    BY <1>1 DEF Doomed, RootChanged, TreeInv, VaultTypes, Steps
  <2>2. ~(tree'[Root] > inode)
    BY <2>1
  <2> QED
    BY <2>2 DEF FsStep
<1>3. M' = M /\ w'.todo = w.todo /\ \A p : Hand(p)' = Hand(p)
  BY <1>1 DEF M, Hand
<1>5. ASSUME NEW p \in Paths \ stale, tree'[p] # 0, p \notin same'
      PROVE  \/ Expected(p)'
             \/ p # Root /\ (Front(p) \in Scans(w.todo) \/ (Hand(Front(p)) /\ w.other) \/ Front(p) \notin same')
  <2>1. CASE tree'[p] # tree[p]
    <3>1. p # Root /\ (Front(p) \notin same' \/ Event(tree[Front(p)], "dir", p) \in ToSet(queue'))
      BY <2>1, <1>1, <1>2, <1>5 DEF FsStep
    <3>2. Front(p) \in same' => tree'[Front(p)] = tree[Front(p)]
      BY <1>1
    <3> QED
      BY <3>1, <3>2 DEF Expected, Arrived
  <2>2. CASE tree'[p] = tree[p]
    <3>1. Exists(p) /\ p \notin same
      BY <2>2, <1>1, <1>5 DEF Exists
    <3>2. CASE Expected(p)
      <4>1. CASE Arrived(p)
        <5>1. p # Root /\ Front(p) \in same /\ Event(tree[Front(p)], "dir", p) \in ToSet(queue')
          BY <4>1, <1>1 DEF Arrived
        <5>2. Front(p) \in same' => tree'[Front(p)] = tree[Front(p)]
          BY <1>1
        <5> QED
          BY <5>1, <5>2 DEF Expected, Arrived
      <4>2. CASE p \in dirty \/ p \in DirsOf(w.todo)
        BY <4>2, <1>1, <1>3 DEF Expected
      <4> QED
        BY <4>1, <4>2, <3>2 DEF Expected
    <3>3. CASE p # Root /\ (Front(p) \in Scans(w.todo) \/ (Hand(Front(p)) /\ w.other) \/ Front(p) \notin same)
      BY <3>3, <1>1
    <3> QED
      BY <3>1, <3>2, <3>3 DEF LiveInv, FoundInv
  <2> QED
    BY <2>1, <2>2
<1>6. FoundInv'
  BY <1>1, <1>3, <1>5 DEF FoundInv, Exists
<1>7. ASSUME NEW p \in same', p \in DOMAIN M
      PROVE  M[p] = Node(p)' \/ p \in dirty \/ Heard(p)' \/ p \in DirsOf(w.todo)
  <2>1. p \in same /\ tree'[p] = tree[p]
    BY <1>1, <1>7
  <2>2. Node(p)' = Node(p) \/ Heard(p)'
    BY <1>1, <1>7, <2>1 DEF FsStep, Heard
  <2>3. M[p] = Node(p) \/ p \in dirty \/ Heard(p) \/ p \in DirsOf(w.todo)
    BY <2>1, <1>7 DEF LiveInv, ReadInv
  <2>4. Heard(p) => Heard(p)'
    BY <2>1, <1>1 DEF Heard
  <2> QED
    BY <2>2, <2>3, <2>4
<1>8. ReadInv'
  BY <1>1, <1>3, <1>7 DEF ReadInv
<1>9. ModelledInv'
  BY <1>1, <1>3 DEF LiveInv, ModelledInv
<1>10. ClosedInv' /\ NewInv'
  BY <1>1, <1>3 DEF LiveInv, ClosedInv, Closed, NewInv, New
<1>11. PublishedInv'
  BY <1>1 DEF LiveInv, PublishedInv
<1> QED
  BY <1>6, <1>8, <1>9, <1>10, <1>11 DEF LiveInv

\* so the invariant.
LEMMA FsInv == ASSUME VaultInv, FileSystem PROVE VaultInv'
<1>1. VaultTypes /\ TreeInv /\ DepthInv /\ SameInv /\ ListInv /\ UnsureInv /\ (Doomed \/ LiveInv)
  BY DEF VaultInv
<1>2. FsStep /\ FsTree
  BY <1>1, FsFacts
<1>3. VaultTypes' /\ TreeInv' /\ DepthInv' /\ SameInv'
  BY <1>1, <1>2, FsTypes, FsTrees
<1>4. UNCHANGED <<w, stale, model, intruded>> /\ same' \subseteq same /\ ToSet(queue) \subseteq ToSet(queue')
  BY <1>2 DEF FsStep
<1>5. ListInv' /\ UnsureInv'
  BY <1>1, <1>4 DEF ListInv, UnsureInv, Hand
<1>6. Doomed => Doomed'
  <2>1. Lost => Lost'
    BY <1>4 DEF Lost
  <2>2. RootChanged => RootChanged'
    <3>1. w.root0 <= inode /\ w.root0 \in Nat /\ inode \in Nat /\ (tree'[Root] = tree[Root] \/ tree'[Root] > inode)
      BY <1>1, <1>2 DEF TreeInv, VaultTypes, Steps, FsStep
    <3>2. w'.root0 = w.root0
      BY <1>4
    <3>3. tree'[Root] = tree[Root] \/ tree'[Root] # w.root0
      BY <3>1
    <3> QED
      BY <3>2, <3>3 DEF RootChanged
  <2> QED
    BY <2>1, <2>2, <1>4 DEF Doomed
<1>7. ~Doomed' => LiveInv'
  BY <1>1, <1>2, <1>6, FsLive
<1> QED
  BY <1>3, <1>5, <1>7 DEF VaultInv

\* The list, its directories and the model have their types.
LEMMA TodoTypes ==
  ASSUME VaultTypes
  PROVE  /\ w.todo \in Seq(TodoItems) /\ DirsOf(w.todo) \subseteq Paths /\ Scans(w.todo) \subseteq DirsOf(w.todo)
         /\ M \in Models /\ w.fresh \in Models
<1>1. w.todo \in Seq(TodoItems) /\ w.fresh \in Models /\ model \in Models
  BY DEF VaultTypes, Steps
<1>2. \A i \in DOMAIN w.todo : w.todo[i] \in TodoItems
  BY <1>1, LenProperties
<1>3. DirsOf(w.todo) \subseteq Paths
  BY <1>2 DEF DirsOf, TodoItems
<1>4. Scans(w.todo) \subseteq DirsOf(w.todo)
  BY DEF Scans, DirsOf
<1> QED
  BY <1>1, <1>3, <1>4 DEF M

\* The empty list.
LEMMA EmptyList == DirsOf(<<>>) = {} /\ Scans(<<>>) = {} /\ Apart(<<>>) /\ ScansFirst(<<>>) /\ AllScans(<<>>)
                   /\ <<>> \in Seq(TodoItems)
BY DEF DirsOf, Scans, Apart, ScansFirst, AllScans

\* Reconciling a model gives a model.
LEMMA ReconciledType == ASSUME NEW m \in Models, NEW p \in Paths PROVE Reconciled(m, p) \in Models
<1>1. CASE ~Exists(p)
  BY <1>1, RemovedFacts DEF Reconciled
<1>2. CASE Exists(p)
  <2> DEFINE kept == Without(m, UNION {Under(q) : q \in Known(m, p) \ Node(p).dirs})
             here == With(kept, p, Node(p))
  <2>1. kept \in Models
    BY WithoutFacts
  <2>2. Node(p) \in Nodes
    BY ModelFacts
  <2> HIDE DEF kept
  <2>3. here \in Models
    BY <2>1, <2>2, WithFacts
  <2> HIDE DEF here
  <2>4. Listed(here, p) \in Models
    BY <2>3, ListedFacts
  <2> QED
    BY <2>4, <1>2 DEF Reconciled, here, kept
<1> QED
  BY <1>1, <1>2

\* Steps that leave the tree, the watches, the model and the list alone.
LEMMA Unmoved ==
  ASSUME VaultInv, VaultTypes',
         UNCHANGED <<tree, notes, inode, watched, queue, map, dirty, same, stale>>,
         w'.todo = w.todo, w'.seen = w.seen, w'.other = w.other, w'.root0 = w.root0, M' = M, ListInv',
         w'.pc = w.pc \/ w.pc # "walk", ~Doomed' => ~Doomed /\ PublishedInv'
  PROVE  VaultInv'
<1>1. TreeInv' /\ DepthInv' /\ SameInv'
  BY DEF VaultInv, TreeInv, DepthInv, SameInv, Exists
<1>2. Lost' = Lost /\ \A p : Hand(p)' = Hand(p) /\ Node(p)' = Node(p)
  BY DEF Lost, Hand, Node, Exists
<1>3. UnsureInv'
  BY <1>2 DEF VaultInv, UnsureInv
<1>4. \A p : Expected(p)' = Expected(p) /\ Heard(p)' = Heard(p)
  BY <1>2 DEF Expected, Arrived, Heard
<1>5. ASSUME ~Doomed' PROVE LiveInv'
  <2>1. LiveInv /\ PublishedInv'
    BY <1>5 DEF VaultInv
  <2>2. FoundInv' /\ ReadInv'
    BY <2>1, <1>2, <1>4 DEF LiveInv, FoundInv, ReadInv, Exists
  <2>3. ModelledInv' /\ ClosedInv' /\ NewInv'
    BY <2>1, <1>2 DEF LiveInv, ModelledInv, ClosedInv, Closed, NewInv, New
  <2> QED
    BY <2>1, <2>2, <2>3 DEF LiveInv
<1> QED
  BY <1>1, <1>3, <1>5 DEF VaultInv

\* Publishing makes what searches see the model.
LEMMA PublishInv == ASSUME VaultInv, Publish PROVE VaultInv'
<1>1. /\ w.pc = "apply" /\ w.todo = <<>> /\ published' = Snapshot(model)
      /\ w' = [w EXCEPT !.pc = CASE w.live -> "loop" [] w.restart -> "idle" [] OTHER -> "armed"]
      /\ claimed' = IF w'.pc = "idle" /\ claimed = "watcher" THEN "none" ELSE claimed
      /\ UNCHANGED <<tree, notes, inode, watched, queue, map, dirty, model, active, job, stale, intruded, same, used>>
  BY DEF Publish, fsVars, noteVars
<1>2. VaultTypes /\ ListInv /\ w \in Steps /\ claimed \in {"none", "watcher", "poll"}
  BY DEF VaultInv, VaultTypes
<1> DEFINE next == CASE w.live -> "loop" [] w.restart -> "idle" [] OTHER -> "armed"
<1>3. next \in {"loop", "idle", "armed"} /\ (w.live => next = "loop") /\ (~w.live /\ w.restart => next = "idle")
      /\ (~w.live /\ ~w.restart => next = "armed")
  <2>1. w.live => ~w.restart
    BY <1>1, <1>2 DEF ListInv
  <2>2. w.live \in BOOLEAN /\ w.restart \in BOOLEAN
    BY <1>2 DEF Steps
  <2>3. CASE w.live
    BY <2>1, <2>3
  <2>4. CASE ~w.live /\ w.restart
    BY <2>4
  <2>5. CASE ~w.live /\ ~w.restart
    BY <2>5
  <2> QED
    BY <2>2, <2>3, <2>4, <2>5
<1> HIDE DEF next
<1>4. w' \in Steps /\ w'.pc = next /\ w'.todo = w.todo /\ w'.seen = w.seen /\ w'.other = w.other
      /\ w'.root0 = w.root0 /\ w'.restart = w.restart /\ w'.live = w.live /\ w'.fresh = w.fresh
  BY <1>1, <1>2, <1>3 DEF Steps, next
<1>5. VaultTypes'
  <2>1. claimed' \in {"none", "watcher", "poll"}
    BY <1>1, <1>2
  <2> QED
    BY <1>1, <1>2, <1>4, <2>1 DEF VaultTypes
<1>6. ListInv'
  <2>1. w'.pc \in {"armed", "loop"} => ~w'.restart
    BY <1>1, <1>2, <1>3, <1>4 DEF ListInv, Steps
  <2> QED
    BY <1>1, <1>2, <1>3, <1>4, <2>1 DEF ListInv
<1>7. M' = M
  BY <1>1, <1>3, <1>4 DEF M
<1>8. ~Doomed' => ~Doomed /\ PublishedInv'
  <2>1. Lost' = Lost /\ RootChanged' = RootChanged
    BY <1>1, <1>4 DEF Lost, RootChanged
  <2>2. w'.pc # "walk" /\ w.pc # "walk"
    BY <1>1, <1>3, <1>4
  <2> QED
    BY <2>1, <2>2, <1>1, <1>4 DEF Doomed, PublishedInv
<1> QED
  BY <1>1, <1>4, <1>5, <1>6, <1>7, <1>8, Unmoved

\* Activating changes nothing the index rests on.
LEMMA ActivateInv == ASSUME VaultInv, Activate PROVE VaultInv'
<1>1. /\ w.pc = "armed" /\ active' = TRUE /\ claimed' = IF claimed = "watcher" THEN "none" ELSE claimed
      /\ w' = [w EXCEPT !.pc = "loop", !.live = TRUE]
      /\ UNCHANGED <<tree, notes, inode, watched, queue, map, dirty, model, published, job, stale, intruded, same, used>>
  BY DEF Activate, fsVars, noteVars
<1>2. VaultTypes /\ ListInv /\ w \in Steps /\ claimed \in {"none", "watcher", "poll"}
  BY DEF VaultInv, VaultTypes
<1>4. w' \in Steps /\ w'.pc = "loop" /\ w'.todo = w.todo /\ w'.seen = w.seen /\ w'.other = w.other
      /\ w'.root0 = w.root0 /\ w'.restart = w.restart
  BY <1>1, <1>2 DEF Steps
<1>5. VaultTypes'
  <2>1. claimed' \in {"none", "watcher", "poll"}
    BY <1>1, <1>2
  <2> QED
    BY <1>1, <1>2, <1>4, <2>1 DEF VaultTypes
<1>6. ListInv'
  BY <1>1, <1>2, <1>4 DEF ListInv
<1>7. M' = M
  BY <1>1, <1>4 DEF M
<1>8. ~Doomed' => ~Doomed /\ PublishedInv'
  <2>1. Lost' = Lost /\ RootChanged' = RootChanged
    BY <1>1, <1>4 DEF Lost, RootChanged
  <2>2. ~Doomed' => ~Doomed
    BY <2>1, <1>1, <1>4 DEF Doomed
  <2>3. ~Doomed => PublishedInv
    BY DEF VaultInv, LiveInv
  <2> QED
    BY <2>2, <2>3, <1>1, <1>4 DEF PublishedInv
<1> QED
  BY <1>1, <1>4, <1>5, <1>6, <1>7, <1>8, Unmoved

\* Steps after which the watcher starts over.
LEMMA GivenUp ==
  ASSUME VaultInv, VaultTypes', w.pc = "loop", w' = [w EXCEPT !.pc = "idle"],
         UNCHANGED <<tree, notes, inode, watched, same, stale>>,
         TreeInv', DepthInv', SameInv'
  PROVE  VaultInv'
<1>1. w \in Steps /\ ListInv /\ UnsureInv
  BY DEF VaultInv, VaultTypes
<1>2. w'.pc = "idle" /\ w'.todo = w.todo /\ w'.seen = w.seen /\ w'.other = w.other
  BY <1>1 DEF Steps
<1>3. ListInv'
  BY <1>1, <1>2 DEF ListInv
<1>4. UnsureInv'
  BY <1>1, <1>2 DEF UnsureInv, Hand
<1>5. Doomed'
  BY <1>2 DEF Doomed
<1> QED
  BY <1>3, <1>4, <1>5 DEF VaultInv

\* Another root, or six hours: the watcher starts over.
LEMMA StartOverInv == ASSUME VaultInv, CheckRoot \/ FullDue PROVE VaultInv'
<1>1. /\ w.pc = "loop" /\ active' = FALSE /\ w' = [w EXCEPT !.pc = "idle"]
      /\ UNCHANGED <<tree, notes, inode, watched, queue, map, dirty, model, published, claimed, job, stale, intruded, same>>
      /\ used' = used \/ used' = [used EXCEPT !.others = @ + 1]
  BY DEF CheckRoot, FullDue, GiveUp, fsVars, noteVars
<1>2. VaultTypes /\ w \in Steps /\ used \in [ops : Nat, others : Nat, fails : Nat]
  BY DEF VaultInv, VaultTypes
<1>3. w' \in Steps /\ used' \in [ops : Nat, others : Nat, fails : Nat] /\ w'.root0 = w.root0
  BY <1>1, <1>2 DEF Steps
<1>4. VaultTypes'
  BY <1>1, <1>2, <1>3 DEF VaultTypes
<1>5. TreeInv' /\ DepthInv' /\ SameInv'
  BY <1>1, <1>3 DEF VaultInv, TreeInv, DepthInv, SameInv, Exists
<1> QED
  BY <1>1, <1>4, <1>5, GivenUp

\* The refreshes: nothing of the watcher's but the model, and then it is told.
LEMMA JobInv ==
  ASSUME VaultInv, Claim \/ Build \/ TurnEnd \/ Ask("poll", Root) \/ \E p \in Paths : Ask("turn", p)
  PROVE  VaultInv'
<1>1. VaultTypes /\ ListInv
  BY DEF VaultInv
<1>2. /\ UNCHANGED <<tree, notes, inode, watched, queue, map, dirty, same, stale, w>>
      /\ UNCHANGED <<model, published, intruded>> \/ (Intrudes /\ w.pc # "apply")
  BY DEF Claim, Build, TurnEnd, Ask, fsVars, noteVars, indexVars
<1>3. VaultTypes'
  <2>0. job \in [kind : {"none", "poll", "build", "turn"}, dir : Paths] /\ Root \in Paths
        /\ used \in [ops : Nat, others : Nat, fails : Nat] /\ model \in Models
    BY <1>1, PathLens DEF VaultTypes
  <2>n. NoJob \in [kind : {"none", "poll", "build", "turn"}, dir : Paths]
    BY <2>0 DEF NoJob
  <2>1. CASE Claim
    <3>1. /\ claimed' \in {"none", "watcher", "poll"} /\ job' \in [kind : {"none", "poll", "build", "turn"}, dir : Paths]
          /\ UNCHANGED <<model, active, intruded, used>>
      BY <2>0, <2>n, <2>1, <1>1 DEF Claim, VaultTypes
    <3> QED
      BY <3>1, <1>1, <1>2 DEF VaultTypes
  <2>2. CASE Build
    <3>1. /\ claimed' = "none" /\ job' = NoJob /\ model' = Truth /\ UNCHANGED <<active, used>>
          /\ intruded' \in BOOLEAN
      BY <2>2 DEF Build, Intrudes
    <3> QED
      BY <3>1, <2>n, <1>1, <1>2, ModelFacts DEF VaultTypes
  <2>3. CASE TurnEnd
    <3> DEFINE p == job.dir
               below == [q \in Under(p) \cap DOMAIN Truth |-> Truth[q]]
               r == Reconciled(model, p)
               fresh == [q \in DOMAIN r \cup DOMAIN below |-> IF q \in DOMAIN below THEN below[q] ELSE r[q]]
    <3>1. /\ UNCHANGED <<model, intruded>> \/ (model' = fresh /\ intruded' \in BOOLEAN)
          /\ job' = NoJob /\ UNCHANGED <<active, claimed, used>>
      BY <2>3 DEF TurnEnd, Intrudes
    <3>2. p \in Paths
      BY <2>0
    <3>3. r \in Models
      BY <3>2, <2>0, ReconciledType
    <3>4. fresh \in Models
      <4>1. DOMAIN r \subseteq Paths /\ (\A q \in DOMAIN r : r[q] \in Nodes)
            /\ DOMAIN Truth \subseteq Paths /\ \A q \in DOMAIN Truth : Truth[q] \in Nodes
        BY <3>3, ModelFacts
      <4>2. DOMAIN below \subseteq DOMAIN Truth /\ \A q \in DOMAIN below : below[q] = Truth[q]
        OBVIOUS
      <4> HIDE DEF r, below
      <4>3. \A q \in DOMAIN r \cup DOMAIN below : (IF q \in DOMAIN below THEN below[q] ELSE r[q]) \in Nodes
        BY <4>1, <4>2
      <4> DEFINE D == DOMAIN r \cup DOMAIN below
      <4>4. fresh \in [D -> Nodes] /\ D \in SUBSET Paths
        BY <4>1, <4>2, <4>3
      <4> QED
        BY <4>4 DEF Models
    <3> HIDE DEF fresh
    <3> QED
      BY <3>1, <3>4, <2>n, <1>1, <1>2 DEF VaultTypes
  <2>4. ASSUME NEW k \in {"poll", "turn"}, NEW p \in Paths, Ask(k, p) PROVE VaultTypes'
    <3>1. /\ job' \in [kind : {"none", "poll", "build", "turn"}, dir : Paths]
          /\ used' \in [ops : Nat, others : Nat, fails : Nat] /\ UNCHANGED <<model, active, claimed, intruded>>
      BY <2>0, <2>4 DEF Ask, indexVars
    <3> QED
      BY <3>1, <1>1, <1>2 DEF VaultTypes
  <2> QED
    BY <2>0, <2>1, <2>2, <2>3, <2>4
<1>4. ListInv'
  BY <1>1, <1>2 DEF ListInv
<1>5. Lost' = Lost /\ RootChanged' = RootChanged
  BY <1>2 DEF Lost, RootChanged
<1>6. CASE UNCHANGED <<model, published, intruded>>
  <2>1. M' = M /\ Doomed' = Doomed /\ PublishedInv' = PublishedInv
    BY <1>2, <1>5, <1>6 DEF M, Doomed, PublishedInv
  <2>2. ~Doomed => PublishedInv
    BY DEF VaultInv, LiveInv
  <2> QED
    BY <2>1, <2>2, <1>2, <1>3, <1>4, Unmoved
<1>7. CASE Intrudes /\ w.pc = "walk"
  <2>1. M' = M /\ PublishedInv'
    BY <1>2, <1>7 DEF M, PublishedInv
  <2>2. Doomed' = Doomed
    BY <1>2, <1>5, <1>7 DEF Doomed
  <2> QED
    BY <2>1, <2>2, <1>2, <1>3, <1>4, Unmoved
<1>8. CASE Intrudes /\ w.pc # "walk" /\ w.pc # "apply"
  <2>1. Doomed'
    <3>1. w.pc \in {"idle", "armed", "loop"}
      BY <1>1, <1>8 DEF VaultTypes, Steps
    <3> QED
      BY <3>1, <1>2, <1>8 DEF Doomed, Intrudes
  <2>2. TreeInv' /\ DepthInv' /\ SameInv' /\ UnsureInv'
    BY <1>2 DEF VaultInv, TreeInv, DepthInv, SameInv, UnsureInv, Exists, Hand
  <2> QED
    BY <2>1, <2>2, <1>3, <1>4 DEF VaultInv
<1> QED
  BY <1>2, <1>6, <1>7, <1>8

\* A lifetime begins with nothing watched and the root to be walked.
LEMMA BeginInv == ASSUME VaultInv, Begin PROVE VaultInv'
<1>1. /\ w.pc = "idle"
      /\ watched' = {} /\ queue' = <<>> /\ map' = Nothing /\ dirty' = {}
      /\ claimed' = IF claimed = "none" THEN "watcher" ELSE claimed
      /\ w' = [w EXCEPT !.pc = "walk", !.todo = Items({Root}, "walk"), !.seen = FALSE,
                        !.fresh = Nothing, !.restart = FALSE, !.root0 = tree[Root]]
      /\ same' = {} /\ stale' = {}
      /\ UNCHANGED <<tree, notes, inode, model, published, active, job, intruded, used>>
  BY DEF Begin, fsVars
<1>2. VaultTypes /\ TreeInv /\ w \in Steps /\ Root \in Paths /\ Nothing \in Models /\ DOMAIN Nothing = {}
  BY PathLens, ModelFacts DEF VaultInv, VaultTypes
<1> DEFINE t == Items({Root}, "walk")
<1>3. /\ t \in Seq(TodoItems) /\ DirsOf(t) = {Root} /\ Scans(t) = {Root} /\ Apart(t) /\ ScansFirst(t)
  BY <1>2, NewItems
<1>4. AllScans(t)
  BY <1>2, ItemsFacts DEF AllScans
<1> HIDE DEF t
<1>5. tree[Root] \in 0..inode /\ inode \in Nat /\ tree[Root] \in Nat
  BY <1>2 DEF VaultTypes
<1>6. /\ w' \in Steps /\ w'.pc = "walk" /\ w'.todo = t /\ ~w'.seen /\ w'.fresh = Nothing /\ ~w'.restart
      /\ w'.root0 = tree[Root]
  BY <1>1, <1>2, <1>3, <1>5 DEF Steps, t
<1>7. VaultTypes'
  <2>1. <<>> \in Seq(Events) /\ ToSet(<<>>) = {} /\ Bounded(<<>>)
    BY VaultAssumption DEF Bounded, ToSet
  <2>2. claimed' \in {"none", "watcher", "poll"}
    BY <1>1, <1>2 DEF VaultTypes
  <2> QED
    BY <1>1, <1>2, <1>6, <2>1, <2>2 DEF VaultTypes
<1>8. ToSet(queue') = {}
  BY <1>1 DEF ToSet
<1>9. TreeInv' /\ DepthInv' /\ SameInv' /\ UnsureInv'
  BY <1>1, <1>2, <1>5, <1>6, <1>8 DEF TreeInv, DepthInv, SameInv, UnsureInv, Exists
<1>10. ListInv'
  BY <1>3, <1>4, <1>6 DEF ListInv
<1>11. M' = Nothing /\ w'.todo = t
  BY <1>1, <1>6 DEF M
<1>12. FoundInv'
  BY <1>1, <1>3, <1>11 DEF FoundInv, Expected
<1>13. ReadInv' /\ ModelledInv' /\ ClosedInv'
  BY <1>1, <1>2, <1>11 DEF ReadInv, ModelledInv, ClosedInv, Closed
<1>14. NewInv' /\ PublishedInv'
  BY <1>1, <1>2, <1>3, <1>6, <1>11 DEF NewInv, New, PublishedInv
<1> QED
  BY <1>7, <1>9, <1>10, <1>12, <1>13, <1>14 DEF VaultInv, LiveInv

\* What watching a directory changes.
LEMMA AddFacts ==
  ASSUME NEW p \in Paths, Add(p)
  PROVE  /\ Exists(p) => /\ watched' = watched \cup {tree[p]}
                         /\ DOMAIN map' = DOMAIN map \cup {tree[p]} /\ map'[tree[p]] = p
                         /\ \A x \in DOMAIN map \ {tree[p]} : map'[x] = map[x]
         /\ ~Exists(p) => watched' = watched /\ map' = map
BY DEF Add, With

\* Watching a directory, or not being let to: what it holds is found when it is read.
LEMMA WatchInv == ASSUME VaultInv, WatchNext PROVE VaultInv'
<1> DEFINE h == Head(w.todo).dir
<1>1. /\ w.pc \in {"walk", "apply"} /\ w.todo # <<>> /\ ~w.seen
      /\ w' = [w EXCEPT !.seen = TRUE, !.other = h \notin same]
      /\ \/ Add(h) /\ used' = used /\ same' = IF Exists(h) THEN same \cup {h} ELSE same
         \/ AddFails(h) /\ same' = same
      /\ UNCHANGED <<tree, notes, inode, queue, dirty, model, published, active, claimed, stale,
                     intruded, job>>
  BY DEF WatchNext, Watch, fsVars, indexVars
<1>2. VaultTypes /\ TreeInv /\ DepthInv /\ SameInv /\ ListInv /\ UnsureInv /\ w \in Steps
      /\ w.todo \in Seq(TodoItems)
  BY TodoTypes DEF VaultInv, VaultTypes
<1>3. h \in Paths /\ DirsOf(w.todo) = {h} \cup DirsOf(Tail(w.todo))
  BY <1>1, <1>2, TailFacts DEF TodoItems
<1>4. PICK ok \in BOOLEAN :
        /\ ok => /\ Exists(h) /\ watched' = watched \cup {tree[h]} /\ same' = same \cup {h}
                 /\ DOMAIN map' = DOMAIN map \cup {tree[h]} /\ map'[tree[h]] = h
                 /\ \A x \in DOMAIN map \ {tree[h]} : map'[x] = map[x]
        /\ ~ok => watched' = watched /\ map' = map /\ same' = same
  <2> HIDE DEF h
  <2>1. CASE AddFails(h) /\ same' = same
    <3>1. watched' = watched /\ map' = map
      BY <2>1 DEF AddFails
    <3> QED
      BY <2>1, <3>1
  <2>2. CASE Add(h) /\ Exists(h) /\ same' = same \cup {h}
    BY <2>2, <1>3, AddFacts
  <2>3. CASE Add(h) /\ ~Exists(h) /\ same' = same
    <3>1. watched' = watched /\ map' = map
      BY <2>3, <1>3, AddFacts
    <3> QED
      BY <2>3, <3>1
  <2> QED
    BY <2>1, <2>2, <2>3, <1>1
<1>u. used' \in [ops : Nat, others : Nat, fails : Nat]
  BY <1>1, <1>2 DEF AddFails, VaultTypes
<1>5. /\ w' \in Steps /\ w'.pc = w.pc /\ w'.todo = w.todo /\ w'.seen /\ w'.other = (h \notin same)
      /\ w'.fresh = w.fresh /\ w'.restart = w.restart /\ w'.root0 = w.root0 /\ w'.live = w.live
  BY <1>1, <1>2 DEF Steps
<1>w. w.todo # <<>> /\ ~w.seen /\ UNCHANGED <<tree, notes, inode, queue, dirty, model, published, stale, intruded>>
  BY <1>1
<1>s. same \subseteq same' /\ \A p \in same' : p \in same \/ (p = h /\ ok)
  BY <1>4
<1>h. (\A p : Hand(p)' <=> p = h) /\ \A p : ~Hand(p)
  BY <1>1, <1>5 DEF Hand
<1> HIDE DEF h
<1>6. VaultTypes'
  <2>1. same' \subseteq Paths
    BY <1>2, <1>3, <1>4 DEF VaultTypes
  <2>2. watched' \subseteq 1..inode /\ DOMAIN map' \subseteq 1..inode /\ \A i \in DOMAIN map' : map'[i] \in Paths
    <3>1. tree[h] \in 0..inode /\ inode \in Nat
      BY <1>2, <1>3 DEF VaultTypes
    <3>2. Exists(h) => tree[h] \in 1..inode
      BY <3>1 DEF Exists
    <3> QED
      BY <3>2, <1>2, <1>3, <1>4 DEF VaultTypes
  <2> QED
    BY <1>1, <1>2, <1>5, <1>u, <2>1, <2>2 DEF VaultTypes
<1>7. TreeInv'
  BY <1>2, <1>3, <1>4, <1>5, <1>w DEF TreeInv, Exists
<1>8. DepthInv'
  <2>1. ASSUME NEW p \in Paths, Exists(p), tree[p] \in DOMAIN map' PROVE Len(map'[tree[p]]) = Len(p)
    <3>1. CASE ok /\ tree[p] = tree[h]
      <4>1. p = h
        BY <3>1, <1>2, <1>3, <1>4, <2>1 DEF TreeInv, Exists
      <4> QED
        BY <4>1, <3>1, <1>4
    <3>2. CASE ~(ok /\ tree[p] = tree[h])
      BY <3>2, <1>2, <1>4, <2>1 DEF DepthInv
    <3> QED
      BY <3>1, <3>2
  <2>2. ASSUME NEW e \in ToSet(queue), e.kind = "dir", e.wd \in DOMAIN map' PROVE Fits(map'[e.wd], e.name)
    <3>1. CASE ok /\ e.wd = tree[h]
      BY <3>1, <1>2, <1>3, <1>4, <2>2 DEF DepthInv
    <3>2. CASE ~(ok /\ e.wd = tree[h])
      BY <3>2, <1>2, <1>4, <2>2 DEF DepthInv
    <3> QED
      BY <3>1, <3>2
  <2> QED
    BY <2>1, <2>2, <1>2, <1>w DEF DepthInv, Exists
<1>9. SameInv'
  <2>1. ASSUME NEW p \in same'
        PROVE  Exists(p) /\ tree[p] \in watched' /\ tree[p] \in DOMAIN map' /\ map'[tree[p]] = p
    <3>1. CASE p = h
      BY <3>1, <1>2, <1>4, <2>1 DEF SameInv, Exists
    <3>2. CASE p # h
      <4>1. p \in same /\ p \in Paths
        BY <3>2, <1>s, <1>2, <2>1 DEF VaultTypes
      <4>2. Exists(p) /\ tree[p] \in watched /\ tree[p] \in DOMAIN map /\ map[tree[p]] = p
        BY <4>1, <1>2 DEF SameInv
      <4>3. ok => tree[p] # tree[h]
        BY <4>1, <4>2, <3>2, <1>2, <1>3, <1>4 DEF TreeInv, Exists
      <4> QED
        BY <4>2, <4>3, <1>4
    <3> QED
      BY <3>1, <3>2
  <2> QED
    BY <2>1, <1>w DEF SameInv, Exists
<1>10. ListInv'
  BY <1>2, <1>5, <1>w, <1>1 DEF ListInv
<1>11. UnsureInv'
  BY <1>2, <1>5, <1>w, <1>s, <1>h DEF UnsureInv
<1>12. M' = M /\ Lost' = Lost /\ RootChanged' = RootChanged
       /\ \A p : Exists(p)' = Exists(p) /\ Node(p)' = Node(p) /\ Heard(p)' = Heard(p)
  BY <1>5, <1>w DEF M, Lost, RootChanged, Exists, Node, Heard
<1>13. Doomed' = Doomed
  BY <1>5, <1>w, <1>12 DEF Doomed
<1>14. ASSUME LiveInv PROVE LiveInv'
  <2>1. ASSUME NEW p \in Paths \ stale, Exists(p), p \notin same'
        PROVE  \/ Expected(p)'
               \/ p # Root /\ (\/ Front(p) \in Scans(w.todo) \/ Front(p) \notin same'
                               \/ Hand(Front(p))' /\ w'.other)
    <3>1. p \notin same
      BY <2>1, <1>s
    <3>2. Expected(p) \/ (p # Root /\ (Front(p) \in Scans(w.todo) \/ Front(p) \notin same))
      BY <1>14, <2>1, <3>1, <1>h DEF LiveInv, FoundInv
    <3>3. CASE Expected(p)
      <4>1. Arrived(p) => Arrived(p)'
        BY <1>w, <1>s DEF Arrived
      <4> QED
        BY <3>3, <4>1, <1>5, <1>w DEF Expected
    <3>4. CASE p # Root /\ Front(p) \notin same
      <4>1. Front(p) \in same' => Front(p) = h
        BY <3>4, <1>s
      <4> QED
        BY <4>1, <3>4, <1>h, <1>5
    <3> QED
      BY <3>2, <3>3, <3>4
  <2>2. FoundInv'
    BY <2>1, <1>5, <1>12, <1>w DEF FoundInv
  <2>3. ReadInv'
    <3>1. h \in DirsOf(w.todo)
      BY <1>3
    <3> QED
      BY <3>1, <1>14, <1>5, <1>12, <1>w, <1>s DEF LiveInv, ReadInv
  <2>4. ModelledInv'
    BY <1>14, <1>12, <1>s, <1>h DEF LiveInv, ModelledInv
  <2>5. ClosedInv' /\ NewInv'
    BY <1>14, <1>12, <1>5 DEF LiveInv, ClosedInv, Closed, NewInv, New
  <2>6. PublishedInv'
    BY <1>14, <1>1, <1>5, <1>w DEF PublishedInv
  <2> QED
    BY <2>2, <2>3, <2>4, <2>5, <2>6 DEF LiveInv
<1> QED
  BY <1>6, <1>7, <1>8, <1>9, <1>10, <1>11, <1>13, <1>14 DEF VaultInv

\* What an event that is queued means, once it is drained.
LEMMA DrainedPaths ==
  ASSUME VaultTypes, TreeInv, DepthInv, SameInv
  PROVE  /\ Drained.lost = Lost /\ DOMAIN Drained.map \subseteq DOMAIN map
         /\ \A x \in DOMAIN Drained.map : Drained.map[x] = map[x]
         /\ \A p \in same : tree[p] \in DOMAIN Drained.map
         /\ dirty \subseteq Drained.dirty /\ Drained.dirty \subseteq Paths
         /\ ~Lost => /\ \A p \in Paths : Arrived(p) => p \in Drained.dirty
                     /\ \A p \in same : Heard(p) => p \in Drained.dirty
<1>1. queue \in Seq(Events) /\ (\A i \in DOMAIN map : map[i] \in Paths) /\ same \subseteq Paths
      /\ dirty \subseteq Paths /\ \A p \in Paths : tree[p] \in Nat
  BY DEF VaultTypes
<1>2. \A p \in same : Exists(p) /\ tree[p] \in DOMAIN map /\ map[tree[p]] = p
  BY DEF SameInv
<1>3. ASSUME NEW p \in same, NEW f \in ToSet(queue), f.kind = "ignored" PROVE f.wd # tree[p]
  BY <1>1, <1>2, <1>3 DEF TreeInv
<1>4. ASSUME NEW p \in same PROVE tree[p] \in DOMAIN Drained.map
  BY <1>1, <1>2, <1>3, DrainedFacts
<1>5. ASSUME NEW d \in Drained.dirty PROVE d \in Paths
  <2>1. d \in dirty \/ \E e \in ToSet(queue) :
           e.kind \in {"dir", "other"} /\ e.wd \in DOMAIN map /\ d \in Marks(map, e)
    BY <1>1, <1>5, DrainedFacts
  <2>2. ASSUME NEW e \in ToSet(queue), e.wd \in DOMAIN map, d \in Marks(map, e) PROVE d \in Paths
    <3>1. d = map[e.wd] \/ (e.kind = "dir" /\ d = Append(map[e.wd], e.name))
      BY <2>2 DEF Marks
    <3>2. e.kind = "dir" => Append(map[e.wd], e.name) \in Paths
      BY <2>2 DEF DepthInv, Fits
    <3> QED
      BY <3>1, <3>2, <1>1, <2>2
  <2> QED
    BY <2>1, <2>2, <1>1
<1>6. ASSUME ~Lost, NEW p \in Paths, Arrived(p) PROVE p \in Drained.dirty
  <2> DEFINE e == Event(tree[Front(p)], "dir", p)
  <2>1. p # Root /\ Front(p) \in same /\ e \in ToSet(queue)
    BY <1>6 DEF Arrived
  <2>2. Front(p) \in Paths /\ tree[Front(p)] \in Nat /\ Append(Front(p), Last(p)) = p
    BY <2>1, <1>1, PathFacts
  <2>3. e.wd = tree[Front(p)] /\ e.kind = "dir" /\ e.name = Last(p)
    BY <2>1, <2>2, EventFacts
  <2> HIDE DEF e
  <2>4. \A f \in ToSet(queue) : f.kind = "ignored" => f.wd # e.wd
    BY <2>1, <2>3, <1>3
  <2>5. e.wd \in DOMAIN map /\ map[e.wd] = Front(p)
    BY <2>1, <2>3, <1>2
  <2>6. Append(map[e.wd], e.name) \in Marks(map, e)
    BY <2>3 DEF Marks
  <2>7. Marks(map, e) \subseteq Drained.dirty
    BY <2>1, <2>3, <2>4, <2>5, <1>1, <1>6, DrainedFacts
  <2> QED
    BY <2>2, <2>3, <2>5, <2>6, <2>7
<1>7. ASSUME ~Lost, NEW p \in same, Heard(p) PROVE p \in Drained.dirty
  <2>1. PICK e \in ToSet(queue) : e.kind \in {"dir", "other"} /\ e.wd = tree[p]
    BY <1>7 DEF Heard
  <2>2. \A f \in ToSet(queue) : f.kind = "ignored" => f.wd # e.wd
    BY <2>1, <1>3
  <2>3. e.wd \in DOMAIN map /\ map[e.wd] = p
    BY <2>1, <1>2
  <2>4. map[e.wd] \in Marks(map, e)
    BY DEF Marks
  <2>5. Marks(map, e) \subseteq Drained.dirty
    BY <2>1, <2>2, <2>3, <1>1, <1>7, DrainedFacts
  <2> QED
    BY <2>3, <2>4, <2>5
<1>8. /\ Drained.lost = Lost /\ DOMAIN Drained.map \subseteq DOMAIN map
      /\ \A x \in DOMAIN Drained.map : Drained.map[x] = map[x]
      /\ dirty \subseteq Drained.dirty
  BY <1>1, DrainedFacts
<1> QED
  BY <1>4, <1>5, <1>6, <1>7, <1>8

\* Draining some of the queue, or none of it, and forgetting dead descriptors.
LEMMA DrainTrees ==
  ASSUME VaultTypes, TreeInv, DepthInv, SameInv, queue' \in {queue, <<>>}, map' \in {map, Drained.map},
         UNCHANGED <<tree, notes, inode, watched, same>>, w'.root0 = w.root0
  PROVE  /\ TreeInv' /\ DepthInv' /\ SameInv' /\ ToSet(queue') \subseteq ToSet(queue)
         /\ queue' \in Seq(Events) /\ Bounded(queue')
         /\ DOMAIN map' \subseteq 1..inode /\ \A i \in DOMAIN map' : map'[i] \in Paths
<1>1. ToSet(<<>>) = {} /\ <<>> \in Seq(Events) /\ Bounded(<<>>)
  BY VaultAssumption DEF Bounded, ToSet
<1>2. /\ ToSet(queue') \subseteq ToSet(queue) /\ queue' \in Seq(Events) /\ Bounded(queue')
  BY <1>1 DEF VaultTypes
<1>3. /\ DOMAIN map' \subseteq DOMAIN map /\ \A x \in DOMAIN map' : map'[x] = map[x]
      /\ \A p \in same : tree[p] \in DOMAIN map'
  BY DrainedPaths DEF SameInv
<1>4. DOMAIN map' \subseteq 1..inode /\ \A i \in DOMAIN map' : map'[i] \in Paths
  BY <1>3 DEF VaultTypes
<1>5. TreeInv'
  BY <1>2 DEF TreeInv, Exists
<1>6. DepthInv'
  BY <1>2, <1>3 DEF DepthInv, Exists
<1>7. SameInv'
  BY <1>3 DEF SameInv, Exists
<1> QED
  BY <1>2, <1>4, <1>5, <1>6, <1>7

\* Draining is all that happens, and nothing was lost.
LEMMA DrainLive ==
  ASSUME VaultTypes, TreeInv, DepthInv, SameInv, LiveInv, ~Lost,
         map' = Drained.map, dirty' = Drained.dirty, queue' = <<>>,
         UNCHANGED <<tree, notes, inode, watched, w, model, published, stale, same>>
  PROVE  LiveInv'
<1>1. /\ dirty \subseteq dirty' /\ (\A p \in Paths : Arrived(p) => p \in dirty')
      /\ \A p \in same : Heard(p) => p \in dirty'
  BY DrainedPaths
<1>2. M' = M /\ \A p : Hand(p)' = Hand(p) /\ Node(p)' = Node(p) /\ Exists(p)' = Exists(p)
  BY DEF M, Hand, Node, Exists
<1>4. \A p \in Paths : Expected(p) => Expected(p)'
  BY <1>1, <1>2 DEF Expected
<1>5. FoundInv'
  BY <1>2, <1>4 DEF LiveInv, FoundInv
<1>6. ReadInv'
  BY <1>1, <1>2 DEF LiveInv, ReadInv
<1>7. ModelledInv' /\ ClosedInv' /\ NewInv'
  BY <1>2 DEF LiveInv, ModelledInv, ClosedInv, Closed, NewInv, New
<1>8. PublishedInv'
  BY DEF LiveInv, PublishedInv
<1> QED
  BY <1>5, <1>6, <1>7, <1>8 DEF LiveInv

\* Draining while walking.
LEMMA DrainInWalkInv == ASSUME VaultInv, DrainInWalk PROVE VaultInv'
<1>1. /\ w.pc = "walk" /\ ~w.restart /\ map' = Drained.map /\ dirty' = Drained.dirty /\ queue' = <<>>
      /\ w' = [w EXCEPT !.restart = Drained.lost]
      /\ UNCHANGED <<tree, notes, inode, watched, model, published, active, claimed, stale, intruded,
                     job, same, used>>
  BY DEF DrainInWalk, fsVars, indexVars
<1>2. VaultTypes /\ TreeInv /\ DepthInv /\ SameInv /\ ListInv /\ UnsureInv /\ w \in Steps
  BY DEF VaultInv, VaultTypes
<1>3. Drained.lost = Lost /\ Lost \in BOOLEAN /\ Drained.dirty \subseteq Paths
  BY <1>2, DrainedPaths DEF Lost
<1>4. /\ w' \in Steps /\ w'.pc = w.pc /\ w'.todo = w.todo /\ w'.seen = w.seen /\ w'.other = w.other
      /\ w'.root0 = w.root0 /\ w'.restart = Lost
  BY <1>1, <1>2, <1>3 DEF Steps
<1>5. /\ TreeInv' /\ DepthInv' /\ SameInv' /\ ToSet(queue') \subseteq ToSet(queue)
      /\ queue' \in Seq(Events) /\ Bounded(queue')
      /\ DOMAIN map' \subseteq 1..inode /\ \A i \in DOMAIN map' : map'[i] \in Paths
  BY <1>1, <1>2, <1>4, DrainTrees
<1>6. VaultTypes'
  BY <1>1, <1>2, <1>3, <1>4, <1>5 DEF VaultTypes
<1>7. ListInv' /\ UnsureInv'
  BY <1>1, <1>2, <1>4 DEF ListInv, UnsureInv, Hand
<1>8. Doomed' \/ LiveInv'
  <2>1. CASE Lost
    BY <2>1, <1>4 DEF Doomed
  <2>2. CASE ~Lost /\ Doomed
    BY <2>2, <1>1, <1>4 DEF Doomed, RootChanged
  <2>3. CASE ~Lost /\ LiveInv
    <3>1. w' = w
      BY <1>1, <1>2, <1>3, <2>3 DEF Steps
    <3> QED
      BY <3>1, <2>3, <1>1, <1>2, DrainLive
  <2> QED
    BY <2>1, <2>2, <2>3 DEF VaultInv
<1> QED
  BY <1>5, <1>6, <1>7, <1>8 DEF VaultInv

\* Draining between two rounds.
LEMMA DrainInv == ASSUME VaultInv, Drain PROVE VaultInv'
<1>1. /\ w.pc = "loop" /\ map' = Drained.map /\ dirty' = Drained.dirty /\ queue' = <<>>
      /\ IF Drained.lost THEN active' = FALSE /\ w' = [w EXCEPT !.pc = "idle"] ELSE active' = active /\ w' = w
      /\ UNCHANGED <<tree, notes, inode, watched, model, published, claimed, job, stale, intruded, same, used>>
  BY DEF Drain, GiveUp, fsVars
<1>2. VaultTypes /\ TreeInv /\ DepthInv /\ SameInv /\ ListInv /\ UnsureInv /\ w \in Steps
  BY DEF VaultInv, VaultTypes
<1>3. Drained.lost = Lost /\ Drained.dirty \subseteq Paths
  BY <1>2, DrainedPaths
<1>4. w' \in Steps /\ w'.root0 = w.root0 /\ active' \in BOOLEAN
  BY <1>1, <1>2 DEF Steps, VaultTypes
<1>5. /\ TreeInv' /\ DepthInv' /\ SameInv' /\ ToSet(queue') \subseteq ToSet(queue)
      /\ queue' \in Seq(Events) /\ Bounded(queue')
      /\ DOMAIN map' \subseteq 1..inode /\ \A i \in DOMAIN map' : map'[i] \in Paths
  BY <1>1, <1>2, <1>4, DrainTrees
<1>6. VaultTypes'
  BY <1>1, <1>2, <1>3, <1>4, <1>5 DEF VaultTypes
<1>7. CASE Lost
  BY <1>1, <1>3, <1>5, <1>6, <1>7, GivenUp
<1>8. CASE ~Lost
  <2>1. w' = w
    BY <1>1, <1>3, <1>8
  <2>2. ListInv' /\ UnsureInv'
    BY <1>1, <1>2, <2>1 DEF ListInv, UnsureInv, Hand
  <2>3. Doomed => Doomed'
    BY <1>1, <1>8, <2>1 DEF Doomed, RootChanged
  <2>4. LiveInv => LiveInv'
    BY <1>1, <1>2, <1>8, <2>1, DrainLive
  <2> QED
    BY <1>5, <1>6, <2>2, <2>3, <2>4 DEF VaultInv
<1> QED
  BY <1>7, <1>8

\* All that is dirty is put on an empty list.
LEMMA ListedLive ==
  ASSUME VaultTypes, LiveInv, w.todo = <<>>, ~w.seen, NEW D \in SUBSET Paths, dirty \subseteq D,
         w'.todo = Items(D, "dirty"), ~w'.seen, w'.pc = "apply",
         \A p \in Paths : Arrived(p) => p \in D \/ Arrived(p)',
         \A p \in same : Heard(p) => p \in D \/ Heard(p)',
         M' = M, UNCHANGED <<tree, notes, stale, same>>
  PROVE  LiveInv'
<1>1. DirsOf(w'.todo) = D /\ Scans(w'.todo) = {} /\ DirsOf(<<>>) = {} /\ Scans(<<>>) = {}
  BY DirtyItems, EmptyList
<1>3. \A p : ~Hand(p) /\ ~Hand(p)' /\ Node(p)' = Node(p) /\ Exists(p)' = Exists(p)
  BY DEF Hand, Node, Exists
<1>4. \A p \in Paths : Expected(p) => Expected(p)'
  BY <1>1 DEF Expected
<1>5. FoundInv'
  BY <1>1, <1>3, <1>4 DEF LiveInv, FoundInv
<1>6. ReadInv'
  BY <1>1, <1>3 DEF LiveInv, ReadInv
<1>7. ModelledInv' /\ ClosedInv' /\ NewInv'
  BY <1>1, <1>3 DEF LiveInv, ModelledInv, ClosedInv, Closed, NewInv, New
<1>8. PublishedInv'
  BY <1>1 DEF LiveInv, PublishedInv
<1> QED
  BY <1>5, <1>6, <1>7, <1>8 DEF LiveInv

\* What is dirty is put on the list.
LEMMA DueInv == ASSUME VaultInv, Due PROVE VaultInv'
<1>1. /\ w.pc = "loop" /\ w' = [w EXCEPT !.pc = "apply", !.todo = Items(dirty, "dirty"), !.seen = FALSE]
      /\ dirty' = {}
      /\ UNCHANGED <<tree, notes, inode, watched, queue, map, model, published, active, claimed, stale,
                     intruded, job, same, used>>
  BY DEF Due, fsVars, indexVars
<1>2. VaultTypes /\ TreeInv /\ DepthInv /\ SameInv /\ ListInv /\ UnsureInv /\ w \in Steps
  BY DEF VaultInv, VaultTypes
<1> DEFINE t == Items(dirty, "dirty")
<1>3. t \in Seq(TodoItems) /\ Apart(t) /\ ScansFirst(t) /\ dirty \subseteq Paths
  BY <1>2, DirtyItems DEF VaultTypes
<1> HIDE DEF t
<1>4. /\ w' \in Steps /\ w'.pc = "apply" /\ w'.todo = t /\ ~w'.seen /\ w'.other = w.other
      /\ w'.root0 = w.root0 /\ w'.restart = w.restart /\ w'.live = w.live
  BY <1>1, <1>2, <1>3 DEF Steps, t
<1>5. w.todo = <<>> /\ ~w.seen /\ ~w.restart
  BY <1>1, <1>2 DEF ListInv
<1>6. VaultTypes'
  BY <1>1, <1>2, <1>4 DEF VaultTypes
<1>7. TreeInv' /\ DepthInv' /\ SameInv'
  BY <1>1, <1>2, <1>4 DEF TreeInv, DepthInv, SameInv, Exists
<1>8. ListInv' /\ UnsureInv'
  BY <1>1, <1>2, <1>3, <1>4, <1>5 DEF ListInv, UnsureInv, Hand
<1>9. M' = M
  BY <1>1, <1>4 DEF M
<1>10. \A p : Arrived(p)' = Arrived(p) /\ Heard(p)' = Heard(p)
  BY <1>1 DEF Arrived, Heard
<1>11. Doomed' = Doomed
  BY <1>1, <1>4 DEF Doomed, Lost, RootChanged
<1>12. LiveInv => LiveInv'
  BY <1>1, <1>2, <1>3, <1>4, <1>5, <1>9, <1>10, ListedLive DEF t
<1> QED
  BY <1>6, <1>7, <1>8, <1>11, <1>12 DEF VaultInv

\* A walk ends: its model is the index's, and what changed meanwhile is put on the list.
LEMMA WalkDoneInv == ASSUME VaultInv, WalkDone PROVE VaultInv'
<1> DEFINE d == IF w.restart THEN [map |-> map, dirty |-> dirty, lost |-> FALSE] ELSE Drained
           t == Items(d.dirty, "dirty")
<1>1. /\ w.pc = "walk" /\ w.todo = <<>>
      /\ map' = d.map /\ dirty' = {} /\ queue' = IF w.restart THEN queue ELSE <<>>
      /\ w' = [w EXCEPT !.pc = "apply", !.todo = t, !.live = FALSE,
                        !.fresh = Nothing, !.restart = @ \/ d.lost]
      /\ model' = w.fresh /\ intruded' = FALSE
      /\ UNCHANGED <<tree, notes, inode, watched, published, active, claimed, job, stale, same, used>>
  BY DEF WalkDone, fsVars
<1>2. VaultTypes /\ TreeInv /\ DepthInv /\ SameInv /\ ListInv /\ UnsureInv /\ w \in Steps
      /\ w.fresh \in Models /\ Nothing \in Models
  BY ModelFacts DEF VaultInv, VaultTypes, Steps
<1>3. /\ d.map \in {map, Drained.map} /\ d.dirty \subseteq Paths /\ dirty \subseteq d.dirty
      /\ d.lost = (~w.restart /\ Lost) /\ (~w.restart => d = Drained)
  <2>1. CASE w.restart
    BY <2>1, <1>2 DEF VaultTypes
  <2>2. CASE ~w.restart
    <3>1. d = Drained
      BY <2>2
    <3>2. Drained.lost = Lost /\ dirty \subseteq Drained.dirty /\ Drained.dirty \subseteq Paths
      BY <1>2, DrainedPaths
    <3> HIDE DEF d
    <3> QED
      BY <3>1, <3>2, <2>2 DEF Lost
  <2> QED
    BY <2>1, <2>2
<1>4. t \in Seq(TodoItems) /\ Apart(t) /\ ScansFirst(t)
  BY <1>3, DirtyItems
<1> HIDE DEF d
<1>5. /\ w' \in Steps /\ w'.pc = "apply" /\ w'.todo = t /\ w'.seen = w.seen /\ ~w'.live
      /\ w'.root0 = w.root0 /\ w'.restart = (w.restart \/ d.lost) /\ w'.other = w.other
  <2> HIDE DEF t
  <2>1. (w.restart \/ d.lost) \in BOOLEAN
    BY DEF Steps
  <2> QED
    BY <1>1, <1>2, <1>4, <2>1 DEF Steps
<1>6. ~w.seen
  BY <1>1, <1>2 DEF ListInv
<1>7. /\ TreeInv' /\ DepthInv' /\ SameInv' /\ ToSet(queue') \subseteq ToSet(queue)
      /\ queue' \in Seq(Events) /\ Bounded(queue')
      /\ DOMAIN map' \subseteq 1..inode /\ \A i \in DOMAIN map' : map'[i] \in Paths
  <2>1. queue' \in {queue, <<>>} /\ map' \in {map, Drained.map}
    BY <1>1, <1>3
  <2> QED
    BY <2>1, <1>1, <1>2, <1>5, DrainTrees
<1>8. VaultTypes'
  BY <1>1, <1>2, <1>5, <1>7 DEF VaultTypes
<1>9. ListInv' /\ UnsureInv'
  BY <1>1, <1>2, <1>4, <1>5, <1>6 DEF ListInv, UnsureInv, Hand
<1>10. M' = M
  BY <1>1, <1>5 DEF M
<1>11. Doomed' \/ LiveInv'
  <2>1. CASE w.restart \/ Lost
    BY <2>1, <1>3, <1>5 DEF Doomed
  <2>2. CASE RootChanged
    BY <2>2, <1>1, <1>5 DEF Doomed, RootChanged
  <2>3. CASE ~w.restart /\ ~Lost /\ LiveInv
    <3>1. d.dirty = Drained.dirty /\ d.dirty \subseteq Paths /\ dirty \subseteq d.dirty
      BY <1>3, <2>3
    <3>2. (\A p \in Paths : Arrived(p) => p \in d.dirty) /\ \A p \in same : Heard(p) => p \in d.dirty
      BY <1>2, <2>3, <3>1, DrainedPaths
    <3> DEFINE D == d.dirty
    <3>3. w'.todo = Items(D, "dirty")
      BY <1>5
    <3> HIDE DEF D
    <3>4. D \in SUBSET Paths /\ dirty \subseteq D /\ (\A p \in Paths : Arrived(p) => p \in D)
          /\ \A p \in same : Heard(p) => p \in D
      BY <3>1, <3>2 DEF D
    <3> QED
      BY <3>3, <3>4, <2>3, <1>1, <1>2, <1>5, <1>6, <1>10, ListedLive
  <2> QED
    BY <2>1, <2>2, <2>3, <1>1 DEF VaultInv, Doomed
<1> QED
  BY <1>7, <1>8, <1>9, <1>11 DEF VaultInv

\* The directories a directory that may not exist has.
Here(p) == IF Exists(p) THEN Node(p).dirs ELSE {}

\* What a read of h makes of a model: what it reads is in it, what is new is
\* listed, and what has not changed is left as it was.
ReadOk(m, n, h, ps) ==
    /\ n \in Models /\ Closed(n) /\ New(n, ps)
    /\ Exists(h) => h \in DOMAIN n /\ n[h] = Node(h)
    /\ \A q \in same \ {h} : q \in DOMAIN m => q \in DOMAIN n /\ (m[q] = Node(q) => n[q] = Node(q))

\* The directories a directory has, and that nothing is below one that does not exist.
LEMMA ChildFacts ==
  ASSUME TreeInv, NEW h \in Paths
  PROVE  /\ Node(h).dirs = {q \in Paths \ {Root} : Front(q) = h /\ Exists(q)}
         /\ \A q \in Under(h) : Exists(q) => Exists(h)
<1>1. Node(h).dirs = {q \in Children(h) : Exists(q)}
  BY DEF Node
<1>2. ASSUME NEW q \in Under(h), Exists(q) PROVE Exists(h)
  <2>1. q \in Paths /\ (q = h \/ (q # Root /\ Front(q) \in Under(h)))
    BY BelowFacts, <1>2
  <2>2. CASE q # Root /\ Front(q) \in Under(h)
    <3>1. Exists(Front(q)) /\ Front(q) \in Paths
      BY <2>1, <2>2, <1>2, PathFacts DEF TreeInv
    <3>2. Front(q) = h \/ (Front(q) # Root /\ Front(Front(q)) \in Under(h))
      BY <3>1, <2>2, BelowFacts
    <3>3. CASE Front(q) # Root /\ Front(Front(q)) \in Under(h)
      <4>1. Exists(Front(Front(q))) /\ Front(Front(q)) \in Paths
        BY <3>1, <3>3, PathFacts DEF TreeInv
      <4>2. Front(Front(q)) = h \/ (Front(Front(q)) # Root /\ Front(Front(Front(q))) \in Under(h))
        BY <4>1, <3>3, BelowFacts
      <4>3. Front(Front(q)) = Root
        BY <2>1, <2>2, <3>1, <3>3, <4>1, PathFacts
      <4> QED
        BY <4>1, <4>2, <4>3
    <3> QED
      BY <3>1, <3>2, <3>3
  <2> QED
    BY <2>1, <2>2, <1>2
<1> QED
  BY <1>1, <1>2, BelowFacts

\* A directory that is gone takes what is below it out of the model.
LEMMA RemovedOk ==
  ASSUME VaultTypes, TreeInv, SameInv, NEW m \in Models, NEW h \in Paths, ~Exists(h), h # Root, Closed(m),
         NEW ps \in SUBSET Paths, New(m, ps), \A p \in ps : ~IsPrefix(h, p)
  PROVE  ReadOk(m, RemoveSubtree(m, h), h, ps)
<1> DEFINE n == RemoveSubtree(m, h)
<1>1. n \in Models /\ DOMAIN n = DOMAIN m \ Under(h) /\ \A q \in DOMAIN n : n[q] = m[q]
  BY RemovedFacts
<1> HIDE DEF n
<1>2. \A q \in Paths : (q # Root /\ Front(q) \in Under(h)) => q \in Under(h)
  BY BelowFacts
<1>3. DOMAIN m \subseteq Paths
  BY ModelFacts
<1>4. Closed(n)
  BY <1>1, <1>2, <1>3 DEF Closed
<1>5. \A p \in ps : p \notin Under(h)
  BY DEF Under
<1>6. New(n, ps)
  BY <1>1, <1>2, <1>5 DEF New
<1>7. \A q \in same : q \notin Under(h)
  BY ChildFacts DEF SameInv
<1> QED
  BY <1>1, <1>4, <1>6, <1>7 DEF ReadOk, n

\* A directory of a walk: nothing below it was known.
LEMMA ScannedOk ==
  ASSUME VaultTypes, TreeInv, SameInv, NEW m \in Models, NEW h \in Paths, Exists(h) \/ h # Root, Closed(m),
         New(m, {h}), NEW ps \in SUBSET Paths, New(m, ps), \A p \in ps : ~IsPrefix(h, p)
  PROVE  ReadOk(m, Scanned(m, h), h, ps \cup Here(h))
<1>1. CASE ~Exists(h)
  <2>1. Scanned(m, h) = RemoveSubtree(m, h) /\ ps \cup Here(h) = ps
    BY <1>1 DEF Scanned, Here
  <2> QED
    BY <2>1, <1>1, RemovedOk
<1>2. CASE Exists(h)
  <2> DEFINE n == Scanned(m, h)
  <2>1. n \in Models /\ DOMAIN n = DOMAIN m \cup {h} /\ n[h] = Node(h) /\ \A q \in DOMAIN m \ {h} : n[q] = m[q]
    BY <1>2, ScannedFacts
  <2> HIDE DEF n
  <2>2. /\ DOMAIN m \subseteq Paths /\ Node(h).dirs \subseteq Children(h) /\ Here(h) = Node(h).dirs
        /\ \A q \in Node(h).dirs : q \in Paths \ {Root} /\ Front(q) = h
    BY <1>2, ModelFacts, ChildFacts DEF Here
  <2>3. h \notin DOMAIN m /\ (h # Root => Front(h) \in DOMAIN m /\ h \in m[Front(h)].dirs)
    BY DEF New
  <2>4. \A q \in DOMAIN m : n[q] = m[q] /\ (q # Root => Front(q) # h)
    BY <2>1, <2>3 DEF Closed
  <2>5. Closed(n)
    BY <2>1, <2>2, <2>3, <2>4 DEF Closed
  <2>6. ASSUME NEW p \in ps PROVE p \notin DOMAIN n /\ (p # Root => Front(p) \in DOMAIN n /\ p \in n[Front(p)].dirs)
    <3>1. p # h
      BY PathOrder, <2>6
    <3> QED
      BY <3>1, <2>1, <2>4 DEF New
  <2>7. ASSUME NEW p \in Here(h) PROVE p \notin DOMAIN n /\ p # Root /\ Front(p) \in DOMAIN n /\ p \in n[Front(p)].dirs
    <3>1. p \in Paths \ {Root} /\ Front(p) = h /\ p # h
      BY <2>2, <2>7, PathFacts
    <3>2. p \notin DOMAIN m
      BY <3>1, <2>4
    <3> QED
      BY <3>1, <3>2, <2>1, <2>2, <2>7
  <2>8. New(n, ps \cup Here(h))
    BY <2>6, <2>7 DEF New
  <2> QED
    BY <2>1, <2>4, <2>5, <2>8 DEF ReadOk, n
<1> QED
  BY <1>1, <1>2

\* What listing one more child makes of a directory.
LEMMA ListsFacts ==
  ASSUME NEW m, NEW n, NEW a, NEW c, Lists(m, n, a, c)
  PROVE  /\ a \in DOMAIN n /\ c \in n[a].dirs
         /\ a \in DOMAIN m => /\ n[a] = [dirs |-> m[a].dirs \cup {c}, note |-> m[a].note]
                             /\ m[a].dirs \subseteq n[a].dirs /\ n[a].dirs \subseteq m[a].dirs \cup {c}
         /\ a \notin DOMAIN m => n[a].dirs = {c}
<1>1. CASE a \in DOMAIN m
  <2>1. n[a] = [dirs |-> m[a].dirs \cup {c}, note |-> m[a].note] /\ a \in DOMAIN n
    BY <1>1 DEF Lists
  <2>2. n[a].dirs = m[a].dirs \cup {c}
    BY <2>1
  <2> QED
    BY <2>1, <2>2, <1>1
<1>2. CASE a \notin DOMAIN m
  BY <1>2 DEF Lists
<1> QED
  BY <1>1, <1>2

\* Reconciling a directory: its children that are gone are, those that stay do, its ancestors list it.
LEMMA ReconciledOk ==
  ASSUME VaultTypes, TreeInv, SameInv, NEW m \in Models, NEW h \in Paths, Exists(h) \/ h # Root, Closed(m)
  PROVE  ReadOk(m, Reconciled(m, h), h, News(m, h))
<1>1. CASE ~Exists(h)
  <2>1. Reconciled(m, h) = RemoveSubtree(m, h) /\ News(m, h) = {}
    BY <1>1 DEF Reconciled, News
  <2>2. New(m, {})
    BY DEF New
  <2> QED
    BY <2>1, <2>2, <1>1, RemovedOk
<1>2. CASE Exists(h)
  <2> DEFINE gone == Known(m, h) \ Node(h).dirs
             kept == Without(m, UNION {Under(q) : q \in gone})
             here == With(kept, h, Node(h))
             n == Listed(here, h)
  <2>1. Reconciled(m, h) = n
    BY <1>2 DEF Reconciled
  <2>2. /\ DOMAIN m \subseteq Paths /\ Node(h) \in Nodes
        /\ Node(h).dirs = {q \in Paths \ {Root} : Front(q) = h /\ Exists(q)}
        /\ (\A q \in Paths \ {Root} : Front(q) \in Paths /\ Front(q) # q /\ Len(q) = Len(Front(q)) + 1)
        /\ Root \in Paths /\ \A q \in Paths : Len(q) \in Nat
    BY ModelFacts, ChildFacts, PathFacts
  <2>3. kept \in Models /\ DOMAIN kept = DOMAIN m \ UNION {Under(q) : q \in gone}
        /\ \A q \in DOMAIN kept : kept[q] = m[q]
    BY WithoutFacts
  <2>4. \A q \in gone : q \in Paths \ {Root} /\ Front(q) = h /\ ~Exists(q)
    <3>1. Known(m, h) \subseteq Children(h)
      BY DEF Known, Closed
    <3> QED
      BY <3>1, <2>2, BelowFacts
  <2> DEFINE dead == UNION {Under(q) : q \in gone}
  <2>5. \A q \in Paths : (q # Root /\ Front(q) \in dead) => q \in dead
    <3>1. ASSUME NEW q \in Paths, q # Root, NEW g \in gone, Front(q) \in Under(g) PROVE q \in Under(g)
      BY <3>1, <2>4, BelowFacts
    <3> QED
      BY <3>1
  <2>6. \A q \in dead : q \in Paths /\ ~Exists(q) /\ q # h
    <3>1. ASSUME NEW g \in gone, NEW q \in Under(g) PROVE q \in Paths /\ ~Exists(q)
      BY <3>1, <2>4, BelowFacts, ChildFacts
    <3> QED
      BY <3>1, <1>2
  <2>7. \A q \in gone : q \in dead
    BY <2>4, BelowFacts
  <2>8. \A q \in Known(m, h) : q \in dead \/ q \in Node(h).dirs
    BY <2>7
  <2>9. DOMAIN kept = DOMAIN m \ dead
    BY <2>3
  <2> HIDE DEF kept, dead, gone
  <2>10. /\ here \in Models /\ DOMAIN here = DOMAIN kept \cup {h} /\ here[h] = Node(h)
         /\ \A q \in DOMAIN kept \ {h} : here[q] = kept[q]
    <3>1. kept \in Models /\ Node(h) \in Nodes
      BY <2>2, <2>3
    <3> DEFINE nd == Node(h)
    <3> HIDE DEF nd
    <3>2. /\ With(kept, h, nd) \in Models /\ DOMAIN With(kept, h, nd) = DOMAIN kept \cup {h}
          /\ With(kept, h, nd)[h] = nd
          /\ \A q \in DOMAIN kept \ {h} : With(kept, h, nd)[q] = kept[q]
      <4>1. nd \in Nodes
        BY <3>1 DEF nd
      <4> QED
        BY <3>1, <4>1, WithFacts
    <3> QED
      BY <3>2 DEF nd
  <2>11. /\ DOMAIN here = (DOMAIN m \ dead) \cup {h} /\ DOMAIN here \subseteq Paths
         /\ \A q \in DOMAIN here \ {h} : here[q] = m[q] /\ q \in DOMAIN m /\ q \notin dead
    BY <2>2, <2>3, <2>9, <2>10
  <2> HIDE DEF here
  <2>12. \A q \in DOMAIN here : q # h /\ q # Root =>
            Front(q) \in DOMAIN here /\ q \in here[Front(q)].dirs
    <3>1. ASSUME NEW q \in DOMAIN here, q # h, q # Root
          PROVE  Front(q) \in DOMAIN here /\ q \in here[Front(q)].dirs
      <4>1. q \in DOMAIN m /\ q \in Paths /\ q \notin dead /\ Front(q) \in DOMAIN m /\ q \in m[Front(q)].dirs
        BY <3>1, <2>11 DEF Closed
      <4>2. Front(q) \notin dead
        BY <4>1, <3>1, <2>5
      <4>3. CASE Front(q) = h
        <5>1. q \in Known(m, h)
          BY <4>1, <4>3 DEF Known
        <5> QED
          BY <5>1, <4>1, <4>3, <2>8, <2>10, <2>11
      <4>4. CASE Front(q) # h
        BY <4>1, <4>2, <4>4, <2>11
      <4> QED
        BY <4>3, <4>4
    <3> QED
      BY <3>1
  <2>13. \A q \in DOMAIN here : here[q].dirs \subseteq Children(q)
    BY <2>10, <2>11, ModelFacts DEF Closed
  <2>14. /\ n \in Models
         /\ h = Root => n = here
         /\ h # Root /\ Front(h) = Root => /\ DOMAIN n = DOMAIN here \cup {Root} /\ Lists(here, n, Root, h)
                                           /\ \A q \in DOMAIN here \ {Root} : n[q] = here[q]
         /\ h # Root /\ Front(h) # Root =>
               /\ Front(Front(h)) = Root
               /\ DOMAIN n = DOMAIN here \cup {Front(h), Root}
               /\ Lists(here, n, Front(h), h) /\ Lists(here, n, Root, Front(h))
               /\ \A q \in DOMAIN here \ {Root, Front(h)} : n[q] = here[q]
    BY <2>10, ListedFacts
  <2> HIDE DEF n
  \* The ancestors of h, each with the one below it: nothing but they is listed.
  <2> DEFINE Up == IF h = Root THEN {} ELSE IF Front(h) = Root THEN {h} ELSE {h, Front(h)}
  <2>15. \A c \in Up : /\ c \in Paths \ {Root} /\ c # Root /\ Front(c) \in Paths /\ Front(c) # h
                       /\ Exists(c) /\ Front(c) \in DOMAIN n
                       /\ Lists(here, n, Front(c), c)
    <3>1. h # Root => Exists(Front(h))
      BY <1>2 DEF TreeInv
    <3>2. h # Root /\ Front(h) # Root => Front(Front(h)) # h
      BY <2>2
    <3> QED
      BY <1>2, <2>2, <2>14, <3>1, <3>2
  <2>16. /\ \A c, d \in Up : Front(c) = Front(d) => c = d
         /\ DOMAIN n = DOMAIN here \cup {Front(c) : c \in Up}
         /\ \A q \in DOMAIN n : q \in {Front(c) : c \in Up} \/ (q \in DOMAIN here /\ n[q] = here[q])
         /\ \A c \in Up : c = h \/ \E d \in Up : Front(d) = c
         /\ h # Root => h \in Up
    <3>1. CASE h = Root
      BY <3>1, <2>14
    <3>2. CASE h # Root /\ Front(h) = Root
      BY <3>2, <2>14
    <3>3. CASE h # Root /\ Front(h) # Root
      <4> DEFINE f == Front(h)
      <4>1. h # Root /\ f # Root /\ f = Front(h) /\ Front(f) = Root /\ h # f /\ f # Front(f)
            /\ Up = {h, f}
        BY <3>3, <2>2, <2>14
      <4>2. {Front(c) : c \in Up} = {f, Root}
        BY <4>1
      <4>3. DOMAIN n = DOMAIN here \cup {f, Root} /\ \A q \in DOMAIN here \ {Root, f} : n[q] = here[q]
        BY <3>3, <2>14
      <4> HIDE DEF f, Up
      <4> QED
        BY <4>1, <4>2, <4>3
    <3> QED
      BY <3>1, <3>2, <3>3
  <2> HIDE DEF Up
  <2>17. \A q \in DOMAIN here : q \in DOMAIN n /\ here[q].dirs \subseteq n[q].dirs
    <3>1. ASSUME NEW c \in Up, Front(c) \in DOMAIN here PROVE here[Front(c)].dirs \subseteq n[Front(c)].dirs
      BY <3>1, <2>15, ListsFacts
    <3> QED
      BY <3>1, <2>16
  <2>18. \A c \in Up : c \in n[Front(c)].dirs
    BY <2>15, ListsFacts
  <2>19. \A q \in DOMAIN n : n[q].dirs \subseteq Children(q)
    <3>1. ASSUME NEW c \in Up PROVE n[Front(c)].dirs \subseteq Children(Front(c))
      <4>1. c \in Children(Front(c))
        BY <2>15, BelowFacts
      <4> QED
        <5>1. CASE Front(c) \in DOMAIN here
          <6> DEFINE a == Front(c)
          <6> HIDE DEF a
          <6>1. Lists(here, n, a, c) /\ a \in DOMAIN here
            BY <5>1, <2>15 DEF a
          <6>2. n[a].dirs \subseteq here[a].dirs \cup {c}
            BY <6>1, ListsFacts
          <6>3. here[a].dirs \subseteq Children(a)
            BY <6>1, <2>13
          <6> QED
            BY <6>2, <6>3, <4>1 DEF a
        <5>2. CASE Front(c) \notin DOMAIN here
          <6>1. n[Front(c)].dirs = {c}
            BY <5>2, <2>15, ListsFacts
          <6> QED
            BY <6>1, <4>1
        <5> QED
          BY <5>1, <5>2
    <3> QED
      BY <3>1, <2>13, <2>16
  <2>20. \A q \in DOMAIN n : q # Root => Front(q) \in DOMAIN n /\ q \in n[Front(q)].dirs
    <3>1. ASSUME NEW q \in DOMAIN n, q # Root PROVE q \in Up \/ (Front(q) \in DOMAIN n /\ q \in n[Front(q)].dirs)
      <4>1. CASE q \in DOMAIN here /\ q # h
        BY <4>1, <3>1, <2>12, <2>17
      <4>2. CASE q = h
        BY <4>2, <3>1, <2>16
      <4>3. CASE q \notin DOMAIN here
        <5>1. PICK c \in Up : q = Front(c)
          BY <4>3, <3>1, <2>16
        <5>2. c # h => c \notin DOMAIN here
          BY <5>1, <4>3, <2>12, <2>15
        <5>3. q \in Up
          <6> DEFINE f == Front(h)
          <6>1. h # Root
            BY <5>1 DEF Up
          <6>2. c = h \/ c = f
            BY <5>1 DEF Up
          <6>3. f # Root
            BY <6>1, <6>2, <5>1, <3>1, <2>15
          <6>4. Up = {h, f}
            BY <6>1, <6>3 DEF Up
          <6>5. Front(f) = Root
            BY <6>1, <6>3, <2>14
          <6> QED
            BY <6>2, <6>4, <6>5, <5>1, <3>1
        <5> QED
          BY <5>3
      <4> QED
        BY <4>1, <4>2, <4>3
    <3> QED
      BY <3>1, <2>15, <2>18
  <2>21. Closed(n)
    BY <2>19, <2>20 DEF Closed
  <2>22. n[h] = Node(h) /\ h \in DOMAIN n
    BY <2>10, <2>15, <2>16, <2>17
  <2>23. New(n, News(m, h))
    <3>1. ASSUME NEW p \in News(m, h) PROVE p \notin DOMAIN n /\ p \in Node(h).dirs
      <4>1. p \in Node(h).dirs /\ (p \notin Known(m, h) \/ p \notin DOMAIN m)
        BY <3>1, <1>2 DEF News
      <4>2. p \in Paths \ {Root} /\ Front(p) = h
        BY <4>1, <2>2
      <4>3. p \notin DOMAIN m
        BY <4>1, <4>2 DEF Known, Closed
      <4>4. p # h /\ p \notin DOMAIN here
        BY <4>2, <4>3, <2>2, <2>11
      <4>5. ASSUME NEW c \in Up, p = Front(c) PROVE FALSE
        <5>1. Len(p) = Len(h) + 1 /\ Len(c) = Len(p) + 1 /\ (h = Root \/ Len(h) = Len(Front(h)) + 1)
              /\ Len(h) \in Nat /\ (h # Root => Len(Front(h)) \in Nat)
          BY <4>2, <4>5, <2>2, <2>15
        <5>2. c = h \/ (h # Root /\ c = Front(h))
          BY <4>5 DEF Up
        <5> QED
          BY <5>1, <5>2
      <4> QED
        BY <4>1, <4>4, <4>5, <2>16
    <3> QED
      BY <3>1, <2>2, <2>22 DEF New
  <2>24. ASSUME NEW q \in same \ {h}, q \in DOMAIN m
         PROVE  q \in DOMAIN n /\ (m[q] = Node(q) => n[q] = Node(q))
    <3>1. Exists(q) /\ q \in Paths
      BY <2>24 DEF SameInv, VaultTypes
    <3>2. q \in DOMAIN here /\ here[q] = m[q]
      BY <3>1, <2>24, <2>6, <2>11
    <3>3. ASSUME m[q] = Node(q), NEW c \in Up, q = Front(c) PROVE n[q] = Node(q)
      <4>1. c \in Node(q).dirs
        BY <3>1, <3>3, <2>15, ChildFacts
      <4>2. n[q] = [dirs |-> Node(q).dirs \cup {c}, note |-> Node(q).note]
        BY <3>2, <3>3, <2>15, ListsFacts
      <4>3. Node(q).dirs \cup {c} = Node(q).dirs
        BY <4>1
      <4>4. Node(q) = [dirs |-> Node(q).dirs, note |-> Node(q).note]
        BY DEF Node
      <4> QED
        BY <4>2, <4>3, <4>4
    <3> QED
      BY <3>2, <3>3, <2>16, <2>17
  <2> QED
    BY <2>1, <2>14, <2>21, <2>22, <2>23, <2>24 DEF ReadOk
<1> QED
  BY <1>1, <1>2

\* A directory is not counted on when it was read as another than was watched.
LEMMA ReadUnsure ==
  ASSUME UnsureInv, w.seen, ~w'.seen, NEW h, h = Head(w.todo).dir, NEW news, same' = same,
         stale' = Unsure(h) \cup IF w.other THEN Here(h) \ (news \cup same) ELSE {}
  PROVE  UnsureInv'
<1>1. ASSUME NEW p \in stale' PROVE p \notin same
  <2>1. p \in Unsure(h) \/ p \notin same
    BY <1>1
  <2>2. p \in Unsure(h) => p \notin same \/ (p \in stale /\ p # h)
    BY DEF Unsure
  <2>3. p \in stale /\ p # h => p \notin same
    BY DEF UnsureInv, Hand
  <2> QED
    BY <2>1, <2>2, <2>3
<1> QED
  BY <1>1 DEF UnsureInv

\* A directory is read that was watched before, or whose watch was refused.
LEMMA ReadLive ==
  ASSUME VaultTypes, TreeInv, SameInv, UnsureInv, LiveInv, w.seen, ~w'.seen, w.todo # <<>>,
         NEW h \in Paths, h = Head(w.todo).dir, NEW news \in SUBSET Here(h),
         Head(w.todo).kind # "dirty" => news = Here(h),
         DirsOf(w'.todo) = DirsOf(Tail(w.todo)) \cup news, Scans(w'.todo) = Scans(Tail(w.todo)) \cup news,
         stale' = Unsure(h) \cup IF w.other THEN Here(h) \ (news \cup same) ELSE {},
         ReadOk(M, M', h, Scans(w'.todo)), w'.pc \in {"walk", "apply"},
         UNCHANGED <<tree, notes, queue, dirty, same>>
  PROVE  LiveInv'
<1>1. /\ w.todo \in Seq(TodoItems) /\ DirsOf(w.todo) = {h} \cup DirsOf(Tail(w.todo))
      /\ Scans(w.todo) = Scans(Tail(w.todo)) \cup IF Head(w.todo).kind = "dirty" THEN {} ELSE {h}
      /\ same \subseteq Paths
  BY TodoTypes, TailFacts DEF VaultTypes
<1>2. \A p : (Hand(p) <=> p = h) /\ ~Hand(p)' /\ Node(p)' = Node(p) /\ Exists(p)' = Exists(p)
             /\ Arrived(p)' = Arrived(p) /\ Heard(p)' = Heard(p)
  BY DEF Hand, Node, Exists, Arrived, Heard
<1>3. \A q \in Paths \ {Root} : Front(q) = h /\ Exists(q) => q \in Here(h)
  <2>1. \A q \in Paths \ {Root} : Front(q) = h /\ Exists(q) => Exists(h)
    BY DEF TreeInv
  <2> QED
    BY <2>1, ChildFacts DEF Here
<1>4. /\ \A p \in stale : p # h => p \in stale'
      /\ Exists(h) /\ h \notin same => h \in stale'
      /\ w.other => \A p \in Here(h) \ (news \cup same) : p \in stale'
  BY DEF Unsure
<1>5. ASSUME NEW p \in Paths \ stale', Exists(p), p \notin same
      PROVE  Expected(p)' \/ (p # Root /\ (Front(p) \in Scans(w'.todo) \/ Front(p) \notin same))
  <2>1. p # h /\ p \notin stale
    BY <1>4, <1>5
  <2>2. ASSUME p # Root, Front(p) = h, w.other \/ news = Here(h) PROVE Expected(p)'
    <3>1. p \in Here(h)
      BY <1>3, <1>5, <2>2
    <3>2. p \in news
      BY <3>1, <1>4, <1>5, <2>2
    <3> QED
      BY <3>2 DEF Expected
  <2>3. Expected(p) \/ (p # Root /\ (\/ Front(p) \in Scans(w.todo) \/ (Hand(Front(p)) /\ w.other)
                                     \/ Front(p) \notin same))
    BY <1>5, <2>1 DEF LiveInv, FoundInv
  <2>4. Expected(p) => Expected(p)'
    BY <1>1, <1>2, <2>1 DEF Expected
  <2>5. CASE p # Root /\ Front(p) \in Scans(w.todo)
    <3>1. Front(p) \in Scans(w'.todo) \/ (Front(p) = h /\ Head(w.todo).kind # "dirty")
      BY <2>5, <1>1
    <3> QED
      BY <3>1, <2>2, <2>5
  <2>6. CASE p # Root /\ Hand(Front(p)) /\ w.other
    BY <2>6, <1>2, <2>2
  <2> QED
    BY <2>3, <2>4, <2>5, <2>6
<1>6. FoundInv'
  BY <1>2, <1>5 DEF FoundInv
<1>7. /\ Closed(M') /\ New(M', Scans(w'.todo))
      /\ Exists(h) => h \in DOMAIN M' /\ M'[h] = Node(h)
      /\ \A q \in same \ {h} : q \in DOMAIN M => q \in DOMAIN M' /\ (M[q] = Node(q) => M'[q] = Node(q))
  BY DEF ReadOk
<1>8. \A q \in same : Exists(q) /\ (q = h \/ q \in DOMAIN M)
  BY <1>2 DEF LiveInv, ModelledInv, SameInv
<1>9. ReadInv'
  <2>1. ASSUME NEW q \in same, q # h
        PROVE  M'[q] = Node(q) \/ q \in dirty \/ Heard(q) \/ q \in DirsOf(w'.todo)
    <3>1. M[q] = Node(q) \/ q \in dirty \/ Heard(q) \/ q \in DirsOf(w.todo)
      BY <2>1, <1>8 DEF LiveInv, ReadInv
    <3> QED
      BY <3>1, <2>1, <1>1, <1>7, <1>8
  <2> QED
    BY <2>1, <1>2, <1>7, <1>8 DEF ReadInv
<1>10. ModelledInv'
  BY <1>7, <1>8 DEF ModelledInv
<1>11. ClosedInv' /\ NewInv'
  BY <1>7 DEF Closed, New, ClosedInv, NewInv
<1>12. PublishedInv'
  BY DEF PublishedInv
<1> QED
  BY <1>6, <1>9, <1>10, <1>11, <1>12 DEF LiveInv

\* Two lists of which none is to be walked as a part of the other.
LEMMA ChildrenApart ==
  ASSUME NEW h \in Paths, NEW ps \in SUBSET Paths, NEW qs \in SUBSET Children(h),
         \A p \in ps : ~IsPrefix(h, p) /\ ~IsPrefix(p, h)
  PROVE  \A p \in ps, q \in qs : ~IsPrefix(p, q) /\ ~IsPrefix(q, p)
<1>1. ASSUME NEW p \in ps, NEW q \in qs PROVE ~IsPrefix(p, q) /\ ~IsPrefix(q, p)
  <2>1. q \in Paths \ {Root} /\ Front(q) = h /\ q \in Paths /\ p \in Paths
    BY BelowFacts
  <2>2. IsPrefix(h, q)
    BY <2>1, PathPrefix, PathOrder
  <2>3. IsPrefix(q, p) => IsPrefix(h, p)
    BY <2>1, <2>2, PathOrder
  <2>4. IsPrefix(p, q) => p = q \/ IsPrefix(p, h)
    BY <2>1, PathPrefix
  <2> QED
    BY <2>2, <2>3, <2>4
<1> QED
  BY <1>1

\* What is left of the list, with what a read found before or after it.
LEMMA ReadList ==
  ASSUME VaultTypes, ListInv, w.todo # <<>>, NEW h \in Paths, h = Head(w.todo).dir,
         NEW news \in SUBSET Children(h)
  PROVE  /\ LET t == Items(news, "scan") \o Tail(w.todo) IN
            /\ t \in Seq(TodoItems) /\ Apart(t) /\ ScansFirst(t)
            /\ DirsOf(t) = DirsOf(Tail(w.todo)) \cup news /\ Scans(t) = Scans(Tail(w.todo)) \cup news
         /\ AllScans(w.todo) =>
            LET t == Tail(w.todo) \o Items(news, "walk") IN
            /\ t \in Seq(TodoItems) /\ Apart(t) /\ ScansFirst(t) /\ AllScans(t)
            /\ DirsOf(t) = DirsOf(Tail(w.todo)) \cup news /\ Scans(t) = Scans(Tail(w.todo)) \cup news
         /\ \A p \in Scans(Tail(w.todo)) : ~IsPrefix(h, p)
         /\ Head(w.todo).kind = "dirty" => Scans(Tail(w.todo)) = {}
         /\ AllScans(w.todo) => Head(w.todo).kind # "dirty"
<1> DEFINE T == Tail(w.todo)
           s == Items(news, "scan")
           k == Items(news, "walk")
<1>1. /\ w.todo \in Seq(TodoItems) /\ T \in Seq(TodoItems) /\ Apart(T) /\ ScansFirst(T)
      /\ Scans(T) \subseteq Paths
      /\ Head(w.todo).kind # "dirty" => \A p \in Scans(T) : ~IsPrefix(h, p) /\ ~IsPrefix(p, h)
      /\ Head(w.todo).kind = "dirty" => Scans(T) = {}
  <2>1. w.todo \in Seq(TodoItems) /\ Scans(w.todo) \subseteq Paths
    BY TodoTypes
  <2> QED
    BY <2>1, TailFacts DEF ListInv
<1>2. \A p \in Scans(T) : ~IsPrefix(h, p) /\ ~IsPrefix(p, h)
  BY <1>1
<1>3. news \in SUBSET Paths /\ \A p, q \in news : Len(p) = Len(q)
  BY BelowFacts, PathFacts
<1>4. /\ s \in Seq(TodoItems) /\ DirsOf(s) = news /\ Scans(s) = news /\ Apart(s) /\ ScansFirst(s)
      /\ k \in Seq(TodoItems) /\ DirsOf(k) = news /\ Scans(k) = news /\ Apart(k) /\ ScansFirst(k)
      /\ (\A i \in DOMAIN s : s[i].kind = "scan") /\ \A i \in DOMAIN k : k[i].kind = "walk"
  BY <1>3, NewItems, ItemsFacts
<1>5. \A p \in Scans(T), q \in news : ~IsPrefix(p, q) /\ ~IsPrefix(q, p)
  BY <1>1, <1>2, ChildrenApart
<1>6. AllScans(w.todo) => Head(w.todo).kind # "dirty" /\ \A i \in DOMAIN T : T[i].kind # "dirty"
  <2>1. Head(w.todo) = w.todo[1] /\ 1 \in DOMAIN w.todo
        /\ \A i \in DOMAIN T : i + 1 \in DOMAIN w.todo /\ T[i] = w.todo[i + 1]
    BY <1>1, TailItems
  <2> QED
    BY <2>1 DEF AllScans
<1> HIDE DEF T, s, k
<1>7. /\ s \o T \in Seq(TodoItems) /\ Apart(s \o T) /\ ScansFirst(s \o T)
      /\ DirsOf(s \o T) = DirsOf(T) \cup news /\ Scans(s \o T) = Scans(T) \cup news
  <2>1. \A i \in DOMAIN s : s[i].kind # "dirty"
    BY <1>4
  <2> QED
    BY <2>1, <1>1, <1>4, <1>5, ConcatItems
<1>8. ASSUME AllScans(w.todo)
      PROVE  /\ T \o k \in Seq(TodoItems) /\ Apart(T \o k) /\ ScansFirst(T \o k) /\ AllScans(T \o k)
             /\ DirsOf(T \o k) = DirsOf(T) \cup news /\ Scans(T \o k) = Scans(T) \cup news
  <2>1. /\ T \o k \in Seq(TodoItems) /\ Apart(T \o k) /\ ScansFirst(T \o k)
        /\ DirsOf(T \o k) = DirsOf(T) \cup news /\ Scans(T \o k) = Scans(T) \cup news
    BY <1>1, <1>4, <1>5, <1>6, <1>8, ConcatItems
  <2>2. \A i \in DOMAIN (T \o k) :
           \/ i \in DOMAIN T /\ (T \o k)[i] = T[i]
           \/ i - Len(T) \in DOMAIN k /\ (T \o k)[i] = k[i - Len(T)]
    BY <1>1, <1>4, ConcatSets
  <2>3. AllScans(T \o k)
    BY <2>2, <1>4, <1>6, <1>8 DEF AllScans
  <2> QED
    BY <2>1, <2>3
<1> QED
  BY <1>1, <1>2, <1>6, <1>7, <1>8 DEF T, s, k

\* A walk reads a directory as it should.
LEMMA ScanReadOk ==
  ASSUME VaultTypes, TreeInv, SameInv, LiveInv, ListInv, w.todo # <<>>, NEW h \in Paths,
         h = Head(w.todo).dir, Head(w.todo).kind # "dirty"
  PROVE  ReadOk(M, Scanned(M, h), h, Scans(Tail(w.todo)) \cup Here(h))
<1>1. M \in Models /\ w.todo \in Seq(TodoItems) /\ Scans(w.todo) \subseteq Paths
  BY TodoTypes
<1>2. Scans(w.todo) = Scans(Tail(w.todo)) \cup {h} /\ \A p \in Scans(Tail(w.todo)) : ~IsPrefix(h, p)
  BY <1>1, TailFacts DEF ListInv
<1>3. Closed(M) /\ New(M, {h}) /\ New(M, Scans(Tail(w.todo)))
  BY <1>2 DEF LiveInv, ClosedInv, NewInv, Closed, New
<1>4. Exists(h) \/ h # Root
  BY DEF TreeInv
<1>5. Scans(Tail(w.todo)) \in SUBSET Paths
  BY <1>1, <1>2
<1> QED
  BY <1>1, <1>2, <1>3, <1>4, <1>5, ScannedOk

\* The directories it has are its children.
LEMMA HereFacts == ASSUME NEW h \in Paths PROVE Here(h) \subseteq Children(h) /\ Unsure(h) \subseteq stale \cup {h}
BY DEF Here, Node, Unsure

\* The walk reads a directory.
LEMMA WalkReadInv == ASSUME VaultInv, WalkRead PROVE VaultInv'
<1>1. VaultTypes /\ TreeInv /\ DepthInv /\ SameInv /\ ListInv /\ UnsureInv /\ w \in Steps
      /\ w.fresh \in Models /\ w.todo \in Seq(TodoItems)
  BY TodoTypes DEF VaultInv, VaultTypes
<1>2. w.pc = "walk" /\ w.todo # <<>> /\ w.seen
  BY DEF WalkRead
<1>3. PICK h \in Paths : h = Head(w.todo).dir
  BY <1>1, <1>2, TailItems DEF TodoItems
<1> DEFINE t == Tail(w.todo) \o Items(Here(h), "walk")
<1>4. /\ w' = [w EXCEPT !.fresh = Scanned(@, h), !.seen = FALSE, !.todo = t]
      /\ stale' = Unsure(h)
      /\ UNCHANGED <<tree, notes, inode, watched, queue, map, dirty, model, published, active, claimed,
                     job, intruded, same, used>>
  BY <1>3 DEF WalkRead, Here, fsVars, noteVars
<1>5. Here(h) \in SUBSET Children(h) /\ Unsure(h) \subseteq Paths
  BY <1>1, HereFacts DEF VaultTypes
<1>6. AllScans(w.todo)
  BY <1>1, <1>2 DEF ListInv
<1>7. /\ t \in Seq(TodoItems) /\ Apart(t) /\ ScansFirst(t) /\ AllScans(t)
      /\ DirsOf(t) = DirsOf(Tail(w.todo)) \cup Here(h) /\ Scans(t) = Scans(Tail(w.todo)) \cup Here(h)
      /\ Head(w.todo).kind # "dirty"
  BY <1>1, <1>2, <1>3, <1>5, <1>6, ReadList
<1>8. Scanned(w.fresh, h) \in Models
  BY <1>1, ScannedFacts
<1> HIDE DEF t
<1>9. /\ w' \in Steps /\ w'.pc = w.pc /\ w'.todo = t /\ ~w'.seen /\ w'.fresh = Scanned(w.fresh, h)
      /\ w'.root0 = w.root0 /\ w'.restart = w.restart /\ w'.other = w.other
  BY <1>1, <1>4, <1>7, <1>8 DEF Steps
<1>10. VaultTypes'
  BY <1>1, <1>4, <1>5, <1>9 DEF VaultTypes
<1>11. TreeInv' /\ DepthInv' /\ SameInv'
  BY <1>1, <1>4, <1>9 DEF TreeInv, DepthInv, SameInv, Exists
<1>12. ListInv'
  BY <1>2, <1>7, <1>9 DEF ListInv
<1>13. stale' = Unsure(h) \cup IF w.other THEN Here(h) \ (Here(h) \cup same) ELSE {}
  BY <1>4
<1>14. UnsureInv'
  BY <1>1, <1>2, <1>3, <1>4, <1>9, <1>13, ReadUnsure
<1>15. Doomed' = Doomed
  BY <1>4, <1>9 DEF Doomed, Lost, RootChanged
<1>16. ASSUME LiveInv PROVE LiveInv'
  <2>1. M = w.fresh /\ M' = Scanned(w.fresh, h)
    BY <1>2, <1>9 DEF M
  <2>2. ReadOk(M, M', h, Scans(w'.todo))
    BY <2>1, <1>1, <1>2, <1>3, <1>7, <1>9, <1>16, ScanReadOk
  <2>3. Here(h) \in SUBSET Here(h)
    OBVIOUS
  <2> QED
    BY <2>2, <2>3, <1>1, <1>2, <1>3, <1>4, <1>7, <1>9, <1>13, <1>16, ReadLive
<1> QED
  BY <1>10, <1>11, <1>12, <1>14, <1>15, <1>16 DEF VaultInv

\* A dirty directory is reconciled, or one below it walked.
LEMMA ApplyReadInv == ASSUME VaultInv, ApplyRead PROVE VaultInv'
<1>1. VaultTypes /\ TreeInv /\ DepthInv /\ SameInv /\ ListInv /\ UnsureInv /\ w \in Steps
      /\ model \in Models /\ w.todo \in Seq(TodoItems)
  BY TodoTypes DEF VaultInv, VaultTypes
<1>2. w.pc = "apply" /\ w.todo # <<>> /\ w.seen
  BY DEF ApplyRead
<1>3. PICK h \in Paths : h = Head(w.todo).dir
  BY <1>1, <1>2, TailItems DEF TodoItems
<1>4. PICK dirt \in BOOLEAN : dirt = (Head(w.todo).kind = "dirty")
  OBVIOUS
<1>5. PICK news : news = IF dirt THEN News(model, h) ELSE Here(h)
  OBVIOUS
<1> DEFINE t == Items(news, "scan") \o Tail(w.todo)
<1>6. /\ model' = IF dirt THEN Reconciled(model, h) ELSE Scanned(model, h)
      /\ stale' = Unsure(h) \cup IF w.other THEN Here(h) \ (news \cup same) ELSE {}
      /\ w' = [w EXCEPT !.seen = FALSE, !.todo = t]
      /\ UNCHANGED <<tree, notes, inode, watched, queue, map, dirty, published, active, claimed,
                     job, intruded, same, used>>
  BY <1>3, <1>4, <1>5 DEF ApplyRead, Here, fsVars, noteVars
<1>7. Here(h) \subseteq Children(h) /\ Children(h) \subseteq Paths /\ Unsure(h) \subseteq Paths
      /\ news \in SUBSET Here(h)
  BY <1>1, <1>5, HereFacts, BelowFacts DEF VaultTypes, News, Here
<1>8. /\ t \in Seq(TodoItems) /\ Apart(t) /\ ScansFirst(t)
      /\ DirsOf(t) = DirsOf(Tail(w.todo)) \cup news /\ Scans(t) = Scans(Tail(w.todo)) \cup news
      /\ dirt => Scans(Tail(w.todo)) = {}
  <2>1. news \in SUBSET Children(h)
    BY <1>7
  <2> QED
    BY <2>1, <1>1, <1>2, <1>3, <1>4, ReadList
<1>9. model' \in Models
  BY <1>1, <1>6, ScannedFacts, ReconciledType
<1> HIDE DEF t
<1>10. /\ w' \in Steps /\ w'.pc = w.pc /\ w'.todo = t /\ ~w'.seen /\ w'.live = w.live
       /\ w'.root0 = w.root0 /\ w'.restart = w.restart /\ w'.other = w.other
  BY <1>1, <1>6, <1>8 DEF Steps
<1>11. VaultTypes'
  <2>1. stale' \subseteq Paths
    BY <1>6, <1>7
  <2> QED
    BY <1>1, <1>6, <1>9, <1>10, <2>1 DEF VaultTypes
<1>12. TreeInv' /\ DepthInv' /\ SameInv'
  BY <1>1, <1>6, <1>10 DEF TreeInv, DepthInv, SameInv, Exists
<1>13. ListInv'
  BY <1>1, <1>2, <1>8, <1>10 DEF ListInv
<1>14. UnsureInv'
  BY <1>1, <1>2, <1>3, <1>6, <1>10, ReadUnsure
<1>15. Doomed' = Doomed
  BY <1>6, <1>10 DEF Doomed, Lost, RootChanged
<1>16. ASSUME LiveInv PROVE LiveInv'
  <2>1. M = model /\ M' = model'
    BY <1>2, <1>10 DEF M
  <2>2. ReadOk(M, M', h, Scans(w'.todo))
    <3>1. CASE ~dirt
      BY <3>1, <2>1, <1>1, <1>2, <1>3, <1>4, <1>5, <1>6, <1>8, <1>10, <1>16, ScanReadOk
    <3>2. CASE dirt
      <4>1. Closed(model)
        BY <2>1, <1>16 DEF LiveInv, ClosedInv, Closed
      <4>2. Exists(h) \/ h # Root
        BY <1>1 DEF TreeInv
      <4>3. ReadOk(model, Reconciled(model, h), h, News(model, h))
        BY <4>1, <4>2, <1>1, ReconciledOk
      <4>4. Scans(w'.todo) = News(model, h)
        BY <3>2, <1>5, <1>8, <1>10
      <4> QED
        BY <4>3, <4>4, <3>2, <2>1, <1>6
    <3> QED
      BY <3>1, <3>2
  <2>3. Head(w.todo).kind # "dirty" => news = Here(h)
    BY <1>4, <1>5
  <2> QED
    BY <2>2, <2>3, <1>1, <1>2, <1>3, <1>6, <1>7, <1>8, <1>10, <1>16, ReadLive
<1> QED
  BY <1>11, <1>12, <1>13, <1>14, <1>15, <1>16 DEF VaultInv

\* A vault with every directory there may be exists.
LEMMA GrownFacts ==
  /\ Cardinality(Paths) \in Nat /\ Grown \in [Paths -> 1..Cardinality(Paths)]
  /\ \A p, q \in Paths : Grown[p] = Grown[q] => p = q
<1> DEFINE n == Cardinality(Paths)
<1>1. n \in Nat /\ ExistsBijection(1..n, Paths)
  BY FinitePaths, FS_CardinalityType
<1>2. ExistsBijection(Paths, 1..n)
  BY <1>1, Fun_ExistsBijSymmetric
<1> HIDE DEF n
<1>3. \E f \in [Paths -> 1..n] : IsInjective(f)
  BY <1>2 DEF ExistsBijection, Bijection, Injection
<1>4. Grown \in [Paths -> 1..n] /\ IsInjective(Grown)
  BY <1>3 DEF Grown, n
<1> QED
  BY <1>1, <1>4 DEF IsInjective, n

\* So does a deepest directory.
LEMMA DeepestFacts == Deepest \in Paths
<1>1. \E p \in Paths : \A q \in Paths : Len(q) <= Len(p)
  <2>1. CASE \E p \in Paths : Len(p) = 2
    BY <2>1, PathLens
  <2>2. CASE (\A p \in Paths : Len(p) # 2) /\ \E p \in Paths : Len(p) = 1
    <3>1. \A p \in Paths : Len(p) \in 0..1
      BY <2>2, PathLens
    <3> QED
      BY <3>1, <2>2
  <2>3. CASE \A p \in Paths : Len(p) # 2 /\ Len(p) # 1
    <3>1. \A p \in Paths : Len(p) = 0
      BY <2>3, PathLens
    <3> QED
      BY <3>1, PathLens
  <2> QED
    BY <2>1, <2>2, <2>3
<1> QED
  BY <1>1 DEF Deepest

\* The invariant holds at the start,
LEMMA InitInv == ASSUME VaultInit PROVE VaultInv
<1> DEFINE n == Cardinality(Paths)
<1>1. /\ tree \in {Grown, Bare} /\ notes = {Grown[Deepest]} /\ inode = n
      /\ watched = {} /\ queue = <<>> /\ map = Nothing /\ dirty = {}
      /\ w = [pc |-> "idle", todo |-> <<>>, seen |-> FALSE, other |-> FALSE,
              fresh |-> Nothing, restart |-> FALSE, root0 |-> 0, live |-> FALSE]
      /\ model = Nothing /\ active = FALSE /\ claimed = "none"
      /\ job = NoJob /\ same = {} /\ stale = {} /\ intruded = FALSE
      /\ used = [ops |-> 0, others |-> 0, fails |-> 0]
  BY DEF VaultInit
<1>2. n \in Nat /\ Grown \in [Paths -> 1..n] /\ (\A p, q \in Paths : Grown[p] = Grown[q] => p = q)
      /\ Deepest \in Paths /\ Root \in Paths
  BY GrownFacts, DeepestFacts, PathLens
<1> HIDE DEF n
<1>3. /\ Bare \in [Paths -> 0..n] /\ Bare[Root] = Grown[Root]
      /\ \A p \in Paths : p # Root => Bare[p] = 0
  BY <1>2 DEF Bare
<1>4. /\ tree \in [Paths -> 0..n] /\ tree[Root] # 0
      /\ \A p, q \in Paths : tree[p] = tree[q] /\ tree[p] # 0 => p = q
      /\ \A p \in Paths \ {Root} : tree[p] # 0 => tree[Front(p)] # 0
  <2>1. CASE tree = Grown
    <3>1. \A p \in Paths : Grown[p] # 0
      BY <1>2
    <3>2. \A p \in Paths \ {Root} : Front(p) \in Paths
      BY PathFacts
    <3>3. Grown \in [Paths -> 0..n]
      BY <1>2
    <3> QED
      BY <2>1, <3>1, <3>2, <3>3, <1>2
  <2>2. CASE tree = Bare
    BY <2>2, <1>2, <1>3
  <2> QED
    BY <2>1, <2>2, <1>1
<1>5. <<>> \in Seq(Events) /\ ToSet(<<>>) = {} /\ Bounded(<<>>)
  BY VaultAssumption DEF Bounded, ToSet
<1>6. Nothing \in Models /\ DOMAIN Nothing = {} /\ w \in Steps /\ NoJob \in [kind : {"none", "poll", "build", "turn"}, dir : Paths]
  BY <1>1, <1>2, ModelFacts, EmptyList DEF Steps, NoJob
<1>7. VaultTypes
  <2>1. notes \subseteq 0..inode /\ inode \in Nat /\ tree \in [Paths -> 0..inode]
    BY <1>1, <1>2, <1>4
  <2>2. used \in [ops : Nat, others : Nat, fails : Nat]
    BY <1>1
  <2>3. w \in Steps /\ model \in Models /\ DOMAIN map = {}
    BY <1>1, <1>6
  <2>4. queue \in Seq(Events) /\ Bounded(queue) /\ ToSet(queue) = {}
    BY <1>1, <1>5
  <2> QED
    BY <2>1, <2>2, <2>3, <2>4, <1>1, <1>6 DEF VaultTypes
<1>8. TreeInv
  BY <1>1, <1>2, <1>4, <1>5 DEF TreeInv, Exists
<1>9. DepthInv /\ SameInv
  BY <1>1, <1>5, <1>6 DEF DepthInv, SameInv
<1>10. ListInv /\ UnsureInv /\ Doomed
  BY <1>1, EmptyList DEF ListInv, UnsureInv, Doomed
<1> QED
  BY <1>7, <1>8, <1>9, <1>10 DEF VaultInv

\* when nothing happens,
LEMMA StutterInv == ASSUME VaultInv, UNCHANGED vaultVars PROVE VaultInv'
<1>1. /\ UNCHANGED <<tree, notes, inode, watched, queue, map, dirty, w, model, published, active, claimed,
                     job, same, stale, intruded, used>>
  BY DEF vaultVars
<1>2. VaultTypes' /\ ListInv'
  BY <1>1 DEF VaultInv, VaultTypes, ListInv
<1>3. M' = M /\ Doomed' = Doomed /\ PublishedInv' = PublishedInv
  BY <1>1 DEF M, Doomed, Lost, RootChanged, PublishedInv
<1>4. ~Doomed' => ~Doomed /\ PublishedInv'
  BY <1>3 DEF VaultInv, LiveInv
<1> QED
  BY <1>1, <1>2, <1>3, <1>4, Unmoved

\* and after every step.
LEMMA VaultStep == ASSUME VaultInv, [VaultNext]_vaultVars PROVE VaultInv'
<1>1. CASE FileSystem
  BY <1>1, FsInv
<1>2. CASE Begin
  BY <1>2, BeginInv
<1>3. CASE WatchNext
  BY <1>3, WatchInv
<1>4. CASE DrainInWalk
  BY <1>4, DrainInWalkInv
<1>5. CASE WalkRead
  BY <1>5, WalkReadInv
<1>6. CASE WalkDone
  BY <1>6, WalkDoneInv
<1>7. CASE ApplyRead
  BY <1>7, ApplyReadInv
<1>8. CASE Publish
  BY <1>8, PublishInv
<1>9. CASE Activate
  BY <1>9, ActivateInv
<1>10. CASE Drain
  BY <1>10, DrainInv
<1>11. CASE Due
  BY <1>11, DueInv
<1>12. CASE CheckRoot \/ FullDue
  BY <1>12, StartOverInv
<1>13. CASE Jobs \/ Ask("poll", Root) \/ \E p \in Paths : Ask("turn", p)
  BY <1>13, JobInv DEF Jobs
<1>14. CASE UNCHANGED vaultVars
  BY <1>14, StutterInv
<1> QED
  BY <1>1, <1>2, <1>3, <1>4, <1>5, <1>6, <1>7, <1>8, <1>9, <1>10, <1>11, <1>12, <1>13, <1>14
     DEF VaultNext, Watcher

----------------------------------------------------------------------------
\* The types the run checks.
LEMMA TypesOk == ASSUME VaultTypes PROVE VaultTypeOK
<1>1. w.pc \in {"idle", "walk", "apply", "armed", "loop"} /\ w.seen \in BOOLEAN /\ w.other \in BOOLEAN
      /\ w.fresh \in Models /\ w.todo \in Seq(TodoItems)
  BY DEF VaultTypes, Steps
<1>2. IsModel(w.fresh) /\ IsModel(model)
  BY <1>1, ModelFacts DEF VaultTypes
<1>3. \A i \in DOMAIN w.todo : w.todo[i].dir \in Paths
  <2>1. \A i \in DOMAIN w.todo : w.todo[i] \in TodoItems
    BY <1>1, LenProperties
  <2> QED
    BY <2>1 DEF TodoItems
<1>4. Len(queue) <= QueueMax + 1 /\ \A i \in DOMAIN queue : queue[i].wd \in 0..inode
  BY DEF VaultTypes, Bounded, ToSet
<1> QED
  BY <1>1, <1>2, <1>3, <1>4 DEF VaultTypes, VaultTypeOK

\* When all is quiet, every directory that is there, as far as it counts, has
\* been watched and read since it came.
LEMMA QuietFacts ==
  ASSUME VaultInv, Quiet
  PROVE  /\ published = Snapshot(model)
         /\ \A p \in Sure : Exists(p) => p \in same
         /\ \A p \in Sure : p \in DOMAIN model <=> Exists(p)
         /\ \A p \in Sure : Exists(p) => model[p] = Node(p)
<1>1. w.pc = "loop" /\ queue = <<>> /\ dirty = {} /\ ~RootChanged /\ ~intruded
  BY DEF Quiet
<1>2. w.todo = <<>> /\ ~w.seen /\ ~w.restart /\ ToSet(queue) = {} /\ DirsOf(w.todo) = {} /\ Scans(w.todo) = {}
  BY <1>1, EmptyList DEF VaultInv, ListInv, ToSet
<1>3. LiveInv /\ M = model
  BY <1>1, <1>2 DEF VaultInv, Doomed, Lost, M
<1>4. \A p : ~Hand(p) /\ ~Expected(p) /\ ~Heard(p)
  BY <1>1, <1>2 DEF Hand, Expected, Arrived, Heard
<1>5. TreeInv /\ same \subseteq Paths
  BY DEF VaultInv, VaultTypes
<1>6. \A p \in Sure : p \in Paths \ stale /\ (p # Root => Front(p) \in Sure /\ Front(p) \in Paths)
  <2>1. ASSUME NEW p \in Sure, p # Root PROVE Front(p) \in Sure
    <3>1. p \in Paths /\ Front(p) \in Paths /\ \A q \in stale : ~IsPrefix(q, p)
      BY <2>1, PathFacts DEF Sure
    <3>2. \A q \in stale : q \in Paths
      BY DEF VaultInv, VaultTypes
    <3>3. \A q \in stale : ~IsPrefix(q, Front(p))
      BY <2>1, <3>1, <3>2, PathPrefix
    <3> QED
      BY <3>1, <3>3 DEF Sure
  <2>2. ASSUME NEW p \in Sure PROVE p \in Paths \ stale
    BY <2>2, PathOrder DEF Sure
  <2> QED
    BY <2>1, <2>2, PathFacts
<1>7. \A p \in Sure : Exists(p) => p \in same
  <2>1. ASSUME NEW p \in Sure, Exists(p), p \notin same
        PROVE  p # Root /\ Front(p) \in Sure /\ Exists(Front(p)) /\ Front(p) \notin same
    BY <2>1, <1>2, <1>3, <1>4, <1>5, <1>6 DEF LiveInv, FoundInv, TreeInv
  <2>2. ASSUME NEW p \in Sure, Exists(p), p \notin same PROVE FALSE
    <3> DEFINE a == Front(p)
               b == Front(a)
    <3>1. p # Root /\ a \in Sure /\ Exists(a) /\ a \notin same
      BY <2>1, <2>2
    <3> HIDE DEF a
    <3>2. a # Root /\ b \in Sure /\ Exists(b) /\ b \notin same
      BY <2>1, <3>1
    <3> HIDE DEF b
    <3>3. b # Root
      BY <2>1, <3>2
    <3>4. p \in Paths \ {Root} /\ a \in Paths \ {Root} /\ b \in Paths
      BY <2>2, <3>1, <3>2, <1>6
    <3>5. Len(p) \in 0..2 /\ Len(p) = Len(a) + 1 /\ Len(a) = Len(b) + 1 /\ Len(b) \in 0..2 /\ Len(b) # 0
          /\ Len(a) \in 0..2
      BY <3>3, <3>4, PathFacts DEF a, b
    <3> QED
      BY <3>5
  <2> QED
    BY <2>2
<1>8. \A p \in Sure : Exists(p) => p \in DOMAIN model /\ model[p] = Node(p)
  BY <1>1, <1>2, <1>3, <1>4, <1>7 DEF LiveInv, ModelledInv, ReadInv
<1>9. ASSUME NEW p \in Sure, p \in DOMAIN model, p # Root, Exists(Front(p)) PROVE Exists(p)
  <2>1. p \in model[Front(p)].dirs
    BY <1>3, <1>9 DEF LiveInv, ClosedInv, Closed
  <2>2. model[Front(p)] = Node(Front(p))
    BY <1>6, <1>8, <1>9
  <2>3. p \in Node(Front(p)).dirs
    BY <2>1, <2>2
  <2> QED
    BY <2>3 DEF Node
<1>10. ASSUME NEW p \in Sure, p \in DOMAIN model PROVE Exists(p)
  <2>1. Exists(Root)
    BY <1>5 DEF TreeInv
  <2>2. CASE p # Root /\ Front(p) = Root
    BY <2>1, <2>2, <1>9, <1>10
  <2>3. CASE p # Root /\ Front(p) # Root
    <3>1. Front(p) \in Sure /\ Front(p) \in DOMAIN model
      BY <2>3, <1>3, <1>6, <1>10 DEF LiveInv, ClosedInv, Closed
    <3>2. Front(Front(p)) = Root
      <4>1. p \in Paths \ {Root} /\ Front(p) \in Paths \ {Root}
        BY <2>3, <1>6, <1>10
      <4>2. Front(Front(p)) \in Paths /\ Len(p) = Len(Front(p)) + 1 /\ Len(Front(p)) = Len(Front(Front(p))) + 1
            /\ Len(p) \in 0..2 /\ Len(Front(p)) \in 0..2 /\ Len(Front(Front(p))) \in 0..2
        BY <4>1, PathFacts
      <4>3. Len(Front(Front(p))) = 0
        BY <4>2
      <4> QED
        BY <4>2, <4>3, PathFacts
    <3>3. Exists(Front(p))
      BY <3>1, <3>2, <2>1, <2>3, <1>9
    <3> QED
      BY <3>3, <2>3, <1>9, <1>10
  <2> QED
    BY <2>1, <2>2, <2>3
<1>11. published = Snapshot(model)
  BY <1>1, <1>3 DEF LiveInv, PublishedInv
<1> QED
  BY <1>7, <1>8, <1>10, <1>11

\* The invariant says that the index is the tree when all is quiet.
LEMMA IndexOk == ASSUME VaultInv PROVE IndexMirrorsTree
<1>1. VaultTypeOK
  BY TypesOk DEF VaultInv
<1>2. TreeWatched
  <2>1. ASSUME Quiet, NEW p \in Sure, Exists(p)
        PROVE  tree[p] \in watched /\ tree[p] \in DOMAIN map /\ map[tree[p]] = p
    BY <2>1, QuietFacts DEF VaultInv, SameInv
  <2> QED
    BY <2>1 DEF TreeWatched
<1>3. ASSUME Quiet PROVE Right(Sure)
  <2>1. published = Snapshot(model) /\ (\A p \in Sure : p \in DOMAIN model <=> Exists(p))
        /\ \A p \in Sure : Exists(p) => model[p] = Node(p)
    BY <1>3, QuietFacts
  <2>2. Sure \subseteq Paths /\ DOMAIN Truth = {q \in Paths : Exists(q)} /\ \A q \in DOMAIN Truth : Truth[q] = Node(q)
    BY DEF Sure, Truth
  <2>3. \A p \in Sure : (p \in DOMAIN model <=> p \in DOMAIN Truth) /\ (p \in DOMAIN Truth => model[p] = Truth[p])
    BY <2>1, <2>2
  <2>4. \A q \in DOMAIN Truth : Truth[q].dirs \subseteq Under(q)
    BY <2>2, ModelFacts, BelowFacts DEF Children
  <2>5. published # NoSnapshot
    <3>1. DOMAIN Snapshot(model) = {"notes", "folders"} /\ DOMAIN NoSnapshot = {"notes", "folders", "none"}
      BY DEF Snapshot, NoSnapshot
    <3> QED
      BY <3>1, <2>1
  <2> DEFINE m == model
             u == Truth
             noted(f, p) == f[p].note \/ \E q \in f[p].dirs : q \in DOMAIN f /\ f[q].note
  <2>6. /\ \A p : p \in Snapshot(m).notes <=> p \in DOMAIN m /\ m[p].note
        /\ \A p : p \in Snapshot(u).notes <=> p \in DOMAIN u /\ u[p].note
        /\ \A p : p \in Snapshot(m).folders <=> p \in DOMAIN m /\ p # Root /\ (noted(m, p) \/ m[p].dirs = {})
        /\ \A p : p \in Snapshot(u).folders <=> p \in DOMAIN u /\ p # Root /\ (noted(u, p) \/ u[p].dirs = {})
    BY DEF Snapshot
  <2> HIDE DEF m, u
  <2>7. /\ published = Snapshot(m) /\ (\A p \in Sure : p \in DOMAIN m <=> p \in DOMAIN u)
        /\ \A p \in Sure : p \in DOMAIN u => m[p] = u[p]
    BY <2>1, <2>3 DEF m, u
  <2>8. \A p \in Sure : p \in Snapshot(m).notes <=> p \in Snapshot(u).notes
    BY <2>6, <2>7
  <2>9. ASSUME NEW p \in Sure, Under(p) \subseteq Sure
        PROVE  p \in Snapshot(m).folders <=> p \in Snapshot(u).folders
    <3>1. p \in DOMAIN u => noted(m, p) = noted(u, p)
      <4>1. ASSUME p \in DOMAIN u PROVE u[p].dirs \subseteq Sure /\ m[p] = u[p]
        BY <4>1, <2>4, <2>7, <2>9 DEF u
      <4> QED
        BY <4>1, <2>7
    <3> HIDE DEF noted
    <3> QED
      BY <3>1, <2>6, <2>7
  <2> QED
    BY <2>5, <2>7, <2>8, <2>9 DEF Right, u
<1> QED
  BY <1>1, <1>2, <1>3 DEF IndexMirrorsTree, IndexIsTree

\* What the index rests on holds in every state: the walker's list, the watches, the
\* queue and the model account for every directory, unless the watcher is to start over,
\* and no watch outlives the inode it is on.  A directory the kernel refused to watch, which
\* the code leaves to the six-hour rebuild, is on the list until it is read and in `stale`
\* from then on: nothing is claimed of it, nor of what is new below it.
THEOREM VaultInvHolds == VaultSpec => []VaultInv
<1>1. VaultInit => VaultInv
  BY InitInv
<1>2. VaultInv /\ [VaultNext]_vaultVars => VaultInv'
  BY VaultStep
<1> QED
  BY <1>1, <1>2, PTL DEF VaultSpec

\* The watcher, its list, the model and the events keep their types: no event's name, put
\* after the path its watch is mapped to, makes a path that cannot be.
THEOREM VaultTypesHold == VaultSpec => []VaultTypeOK
<1>1. VaultInv => VaultTypeOK
  BY TypesOk DEF VaultInv
<1> QED
  BY <1>1, VaultInvHolds, PTL

\* Whatever the file system does and whenever, once the watcher has applied what it was
\* told (Quiet), what searches see is the tree, and every directory is watched under its
\* own path, for every vault, queue length and number of changes, rebuilds and refused
\* watches; but for what the ghost `stale` names: the directories whose watch was refused,
\* and those that were replaced or away while the walk or the model took them for known.
THEOREM IndexMirrorsTreeHolds == VaultSpec => []IndexMirrorsTree
<1>1. VaultInv => IndexMirrorsTree
  BY IndexOk
<1> QED
  BY <1>1, VaultInvHolds, PTL
=============================================================================
