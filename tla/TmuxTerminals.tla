----------------------------- MODULE TmuxTerminals -----------------------------
(***************************************************************************)
(* Terminals are bindings of zeromux sessions to sessions of one tmux      *)
(* server, which outlives the program and is shared with other clients     *)
(* (an editor, a shell).  Modelled: attaching to or creating a terminal,   *)
(* connecting to one, the end of its tmux client, closing it with an undo  *)
(* window, and a restart of the program (session_manager.rs, ws_handler.rs,*)
(* web.rs, tmux.rs).  Each step is one holding of the sessions lock or one *)
(* tmux command; between two of them anybody may act.                      *)
(*                                                                         *)
(* A tmux session is named by its name and a generation, so that a session *)
(* made anew under an old name can be told from the old one.               *)
(***************************************************************************)
EXTENDS Naturals, FiniteSets

CONSTANTS
    Ids,           \* the zeromux sessions there may ever be
    Dev,           \* the name of a tmux session the user made elsewhere
    NoTime,        \* no pending_kill_until
    Window,        \* PENDING_KILL_MS
    MaxClock,      \* bound on time; a close needs its window to end by then
    MaxGen,        \* bound: tmux sessions ever started
    MaxRestarts    \* bound: restarts of the program

ASSUME BoundsAssumption ==
    /\ Window \in Nat /\ MaxClock \in Nat /\ MaxGen \in Nat /\ MaxRestarts \in Nat
    /\ Dev \notin Ids /\ NoTime \notin Nat

VARIABLES
    clock, restarts,
    host,    \* the tmux server: name -> generation, 0 when there is none
    gens,    \* generations used up
    sess,    \* the sessions map
    row,     \* the store
    fan,     \* the fan-out of each session, attached to a generation
    making,  \* a create request on its way: the next step and the target
    conn,    \* a web socket that connects
    timers,  \* due times of the sleeping finalisers
    fin,     \* a finaliser that has read a due mark
    booting, \* main has not finished reconcile_pending_kills
    killed   \* history: generations killed by the close of each session

tmux    == <<host, gens>>
vars == <<clock, restarts, host, gens, sess, row, fan, making, conn, timers,
          fin, booting, killed>>

(* tmux_name_for: a terminal zeromux makes has a name of its own.          *)
Names == Ids \cup {Dev}
Times == 0..MaxClock

NoSession == [listed |-> FALSE, name |-> Dev, own |-> FALSE, status |-> "idle",
              running |-> FALSE, spawning |-> FALSE, until |-> NoTime]
NoRow  == [listed |-> FALSE, name |-> Dev, own |-> FALSE, until |-> NoTime]
NoFan  == [pc |-> "none", gen |-> 0]
NoFin  == [pc |-> "none", name |-> Dev, ended |-> FALSE, raced |-> FALSE]
NoMake == [pc |-> "none", name |-> Dev]

SessionState == [listed: BOOLEAN, name: Names, own: BOOLEAN,
                 status: {"idle", "running", "ended"}, running: BOOLEAN,
                 spawning: BOOLEAN, until: Times \cup {NoTime}]
RowState == [listed: BOOLEAN, name: Names, own: BOOLEAN, until: Times \cup {NoTime}]
FanState == [pc: {"none", "up", "exited", "gone"}, gen: 0..MaxGen]
MakeState == [pc: {"none", "tracked", "has", "done"}, name: Names]
FinState == [pc: {"none", "remove", "kill"}, name: Names, ended: BOOLEAN, raced: BOOLEAN]

TypeOK ==
    /\ clock \in Times /\ restarts \in 0..MaxRestarts
    /\ host \in [Names -> 0..MaxGen] /\ gens \in 0..MaxGen
    /\ sess \in [Ids -> SessionState] /\ row \in [Ids -> RowState]
    /\ fan \in [Ids -> FanState] /\ making \in [Ids -> MakeState]
    /\ conn \in [Ids -> {"none", "asking", "ready", "spawning"}]
    /\ timers \in [Ids -> SUBSET Times] /\ fin \in [Ids -> FinState]
    /\ booting \in BOOLEAN /\ killed \in [Ids -> SUBSET (1..MaxGen)]

Init ==
    /\ clock = 0 /\ restarts = 0
    /\ host = [n \in Names |-> 0] /\ gens = 0
    /\ sess = [i \in Ids |-> NoSession] /\ row = [i \in Ids |-> NoRow]
    /\ fan = [i \in Ids |-> NoFan] /\ making = [i \in Ids |-> NoMake]
    /\ conn = [i \in Ids |-> "none"] /\ timers = [i \in Ids |-> {}]
    /\ fin = [i \in Ids |-> NoFin] /\ booting = FALSE
    /\ killed = [i \in Ids |-> {}]

RowOf(s) == [listed |-> s.listed, name |-> s.name, own |-> s.own, until |-> s.until]
Tracked  == {sess[i].name : i \in {j \in Ids : sess[j].listed}}

(* tmux new-session -A: attach to the name, or make it.                    *)
CanAttach(n) == host[n] # 0 \/ gens < MaxGen
NewSessionA(n) ==
    IF host[n] # 0 THEN UNCHANGED tmux
    ELSE gens' = gens + 1 /\ host' = [host EXCEPT ![n] = gens + 1]

-----------------------------------------------------------------------------
(* create_pty_session.  An attach looks the name up among the tracked      *)
(* ones, then on the server; a new terminal only needs the server.  A name *)
(* of zeromux's own that nobody is bound to may be adopted.                *)

CreateOwn(i) ==
    /\ ~booting /\ making[i].pc = "none" /\ ~row[i].listed
    /\ making' = [making EXCEPT ![i] = [pc |-> "has", name |-> i]]
    /\ UNCHANGED <<clock, restarts, tmux, sess, row, fan, conn, timers, fin, booting, killed>>

CreateAttach(i, n) ==
    /\ ~booting /\ making[i].pc = "none" /\ ~row[i].listed
    /\ n \notin Tracked /\ n # i
    /\ making' = [making EXCEPT ![i] = [pc |-> "tracked", name |-> n]]
    /\ UNCHANGED <<clock, restarts, tmux, sess, row, fan, conn, timers, fin, booting, killed>>

CreateHas(i) ==
    /\ making[i].pc = "tracked"
    /\ making' = [making EXCEPT ![i].pc = IF host[making[i].name] # 0 THEN "has" ELSE "none"]
    /\ UNCHANGED <<clock, restarts, tmux, sess, row, fan, conn, timers, fin, booting, killed>>

CreateInsert(i) ==
    /\ making[i].pc = "has" /\ CanAttach(making[i].name)
    /\ NewSessionA(making[i].name)
    /\ sess' = [sess EXCEPT ![i] = [NoSession EXCEPT
                 !.listed = TRUE, !.name = making[i].name, !.own = making[i].name # Dev,
                 !.status = "running", !.running = TRUE]]
    /\ row' = [row EXCEPT ![i] = RowOf(sess'[i])]
    /\ fan' = [fan EXCEPT ![i] = [pc |-> "up", gen |-> host'[making[i].name]]]
    /\ making' = [making EXCEPT ![i].pc = "done"]
    /\ UNCHANGED <<clock, restarts, conn, timers, fin, booting, killed>>

-----------------------------------------------------------------------------
(* A web socket connects: tmux_preflight, then ensure_running.             *)

MarkEnded(i) ==
    IF sess[i].listed /\ ~sess[i].running /\ ~sess[i].spawning
    THEN sess' = [sess EXCEPT ![i].status = "ended"]
    ELSE UNCHANGED sess

ConnectLook(i) ==
    /\ ~booting /\ conn[i] = "none" /\ sess[i].listed
    /\ sess[i].status # "ended" /\ ~sess[i].running
    /\ conn' = [conn EXCEPT ![i] = "asking"]
    /\ UNCHANGED <<clock, restarts, tmux, sess, row, fan, making, timers, fin, booting, killed>>

(* decide_tmux_resume; a server that is down ends the connection.          *)
ConnectHas(i) ==
    /\ conn[i] = "asking"
    /\ LET ended == host[sess[i].name] = 0 /\ ~sess[i].own
       IN \/ /\ conn' = [conn EXCEPT ![i] = IF ended THEN "none" ELSE "ready"]
             /\ IF ended THEN MarkEnded(i) ELSE UNCHANGED sess
          \/ /\ conn' = [conn EXCEPT ![i] = "none"] /\ UNCHANGED sess
    /\ UNCHANGED <<clock, restarts, tmux, row, fan, making, timers, fin, booting, killed>>

EnsureDecide(i) ==
    /\ conn[i] = "ready"
    /\ LET spawn == sess[i].listed /\ ~sess[i].running /\ ~sess[i].spawning
       IN /\ conn' = [conn EXCEPT ![i] = IF spawn THEN "spawning" ELSE "none"]
          /\ sess' = IF spawn THEN [sess EXCEPT ![i].spawning = TRUE] ELSE sess
    /\ UNCHANGED <<clock, restarts, tmux, row, fan, making, timers, fin, booting, killed>>

(* spawn_tmux and phase 3.  A session removed meanwhile leaves no fan-out, *)
(* but the tmux session its client made stays.                             *)
EnsureInstall(i) ==
    /\ conn[i] = "spawning" /\ CanAttach(sess[i].name) /\ fan[i].pc = "none"
    /\ NewSessionA(sess[i].name)
    /\ conn' = [conn EXCEPT ![i] = "none"]
    /\ IF sess[i].listed
       THEN /\ sess' = [sess EXCEPT ![i].spawning = FALSE, ![i].running = TRUE,
                                    ![i].status = "running"]
            /\ fan' = [fan EXCEPT ![i] = [pc |-> "up", gen |-> host'[sess[i].name]]]
       ELSE UNCHANGED <<sess, fan>>
    /\ UNCHANGED <<clock, restarts, row, making, timers, fin, booting, killed>>

-----------------------------------------------------------------------------
(* The fan-out of a terminal ends when its client does: the tmux session   *)
(* is gone, the client is detached, or the session was removed.            *)

FanExit(i) ==
    /\ fan[i].pc = "up"
    /\ fan' = [fan EXCEPT ![i].pc = "exited"]
    /\ sess' = IF sess[i].listed
               THEN [sess EXCEPT ![i].running = FALSE, ![i].status = "idle"] ELSE sess
    /\ UNCHANGED <<clock, restarts, tmux, row, making, conn, timers, fin, booting, killed>>

FanHas(i) ==
    /\ fan[i].pc = "exited"
    /\ fan' = IF sess[i].listed /\ host[sess[i].name] = 0
              THEN [fan EXCEPT ![i].pc = "gone"] ELSE [fan EXCEPT ![i] = NoFan]
    /\ UNCHANGED <<clock, restarts, tmux, sess, row, making, conn, timers, fin, booting, killed>>

(* mark_ended; when it changes the status, term_ended is pushed.           *)
Reports(i) == /\ fan[i].pc = "gone" /\ sess[i].listed /\ sess[i].status # "ended"
              /\ ~sess[i].running /\ ~sess[i].spawning
FanMark(i) ==
    /\ fan[i].pc = "gone"
    /\ MarkEnded(i)
    /\ fan' = [fan EXCEPT ![i] = NoFan]
    /\ UNCHANGED <<clock, restarts, tmux, row, making, conn, timers, fin, booting, killed>>

Revive(i) ==
    /\ ~booting /\ sess[i].listed /\ sess[i].status = "ended"
    /\ sess' = [sess EXCEPT ![i].status = "idle", ![i].own = TRUE]
    /\ row' = [row EXCEPT ![i] = RowOf(sess'[i])]
    /\ UNCHANGED <<clock, restarts, tmux, fan, making, conn, timers, fin, booting, killed>>

-----------------------------------------------------------------------------
(* Closing: mark and hide, finalise after the window unless restored.      *)

(* A request that falls between the finaliser's two locks; a ghost.        *)
Disturbs(i) == fin' = [fin EXCEPT ![i].raced = fin[i].pc = "remove"]

Close(i) ==
    /\ ~booting /\ sess[i].listed /\ clock + Window <= MaxClock
    /\ sess' = [sess EXCEPT ![i].until = clock + Window]
    /\ row' = [row EXCEPT ![i].until = clock + Window]
    /\ timers' = [timers EXCEPT ![i] = @ \cup {clock + Window}]
    /\ Disturbs(i)
    /\ UNCHANGED <<clock, restarts, tmux, fan, making, conn, booting, killed>>

Restore(i) ==
    /\ ~booting /\ sess[i].listed /\ sess[i].until # NoTime
    /\ sess' = [sess EXCEPT ![i].until = NoTime]
    /\ row' = [row EXCEPT ![i].until = NoTime]
    /\ Disturbs(i)
    /\ UNCHANGED <<clock, restarts, tmux, fan, making, conn, timers, booting, killed>>

(* mutant: any mark will do                                                *)
DueAnyMark(i) == sess[i].until # NoTime
Due(i) == sess[i].until # NoTime /\ sess[i].until <= clock

(* mutant: kill first, remove then                                         *)
FirstStepKill == "kill"
FirstStep == "remove"

Reading(i) == [pc |-> FirstStep, name |-> sess[i].name, ended |-> sess[i].status = "ended",
               raced |-> FALSE]

TimerFires(i, t) ==
    /\ t \in timers[i] /\ t <= clock /\ fin[i].pc = "none"
    /\ timers' = [timers EXCEPT ![i] = @ \ {t}]
    /\ fin' = IF sess[i].listed /\ Due(i) THEN [fin EXCEPT ![i] = Reading(i)] ELSE fin
    /\ UNCHANGED <<clock, restarts, tmux, sess, row, fan, making, conn, booting, killed>>

Done(i) == IF fin[i].pc = FirstStep
           THEN [fin EXCEPT ![i].pc = CHOOSE p \in {"remove", "kill"} : p # FirstStep]
           ELSE [fin EXCEPT ![i] = NoFin]

FinRemove(i) ==
    /\ fin[i].pc = "remove"
    /\ sess' = [sess EXCEPT ![i] = [NoSession EXCEPT !.name = sess[i].name]]
    /\ row' = [row EXCEPT ![i] = NoRow]
    /\ fin' = Done(i)
    /\ UNCHANGED <<clock, restarts, tmux, fan, making, conn, timers, booting, killed>>

(* The kill is by name; it may fail, which is only logged.                 *)
FinKill(i) ==
    /\ fin[i].pc = "kill"
    /\ \/ /\ ~fin[i].ended /\ host[fin[i].name] # 0
          /\ host' = [host EXCEPT ![fin[i].name] = 0]
          /\ killed' = [killed EXCEPT ![i] = @ \cup {host[fin[i].name]}]
       \/ UNCHANGED <<host, killed>>
    /\ fin' = Done(i)
    /\ UNCHANGED <<clock, restarts, gens, sess, row, fan, making, conn, timers, booting>>

-----------------------------------------------------------------------------
(* The program restarts: load_persisted, then reconcile_pending_kills,     *)
(* before anyone is served.                                                *)
Restart ==
    /\ restarts < MaxRestarts /\ restarts' = restarts + 1
    /\ sess' = [i \in Ids |-> [NoSession EXCEPT
                  !.listed = row[i].listed, !.name = row[i].name, !.own = row[i].own,
                  !.until = row[i].until]]
    /\ fan' = [i \in Ids |-> NoFan] /\ conn' = [i \in Ids |-> "none"]
    /\ making' = [i \in Ids |-> IF making[i].pc = "done" THEN making[i] ELSE NoMake]
    /\ timers' = [i \in Ids |-> {}] /\ fin' = [i \in Ids |-> NoFin]
    /\ booting' = TRUE
    /\ UNCHANGED <<clock, tmux, row, killed>>

(* mutant: only what is due already is closed                              *)
ReconcilableDue(i) == /\ sess[i].listed /\ sess[i].until # NoTime /\ fin[i].pc = "none"
                      /\ sess[i].until <= clock

Reconcilable(i) == sess[i].listed /\ sess[i].until # NoTime /\ fin[i].pc = "none"

Reconcile(i) ==
    /\ booting /\ \A j \in Ids : fin[j].pc = "none"
    /\ Reconcilable(i)
    /\ sess' = [sess EXCEPT ![i].until = 0]
    /\ fin' = [fin EXCEPT ![i] = Reading(i)]
    /\ UNCHANGED <<clock, restarts, tmux, row, fan, making, conn, timers, booting, killed>>

Booted ==
    /\ booting /\ \A i \in Ids : ~Reconcilable(i) /\ fin[i].pc = "none"
    /\ booting' = FALSE
    /\ UNCHANGED <<clock, restarts, tmux, sess, row, fan, making, conn, timers, fin, killed>>

-----------------------------------------------------------------------------
(* Others use the tmux server: a session is made or ends under them.       *)
HostOpens ==
    /\ host[Dev] = 0 /\ gens < MaxGen /\ NewSessionA(Dev)
    /\ UNCHANGED <<clock, restarts, sess, row, fan, making, conn, timers, fin, booting, killed>>

HostEnds(n) ==
    /\ host[n] # 0 /\ host' = [host EXCEPT ![n] = 0]
    /\ UNCHANGED <<clock, restarts, gens, sess, row, fan, making, conn, timers, fin, booting, killed>>

TimePasses ==
    /\ clock < MaxClock /\ clock' = clock + 1
    /\ UNCHANGED <<restarts, tmux, sess, row, fan, making, conn, timers, fin, booting, killed>>

Finaliser(i) ==
    \/ \E t \in timers[i] : TimerFires(i, t)
    \/ FinRemove(i) \/ FinKill(i) \/ Reconcile(i)

Next ==
    \/ \E i \in Ids :
         \/ Finaliser(i)
         \/ CreateHas(i) \/ CreateInsert(i)
         \/ ConnectHas(i) \/ EnsureDecide(i) \/ EnsureInstall(i)
         \/ FanHas(i) \/ FanMark(i)
         \/ CreateOwn(i) \/ ConnectLook(i) \/ FanExit(i)
         \/ Revive(i) \/ Close(i) \/ Restore(i)
    \/ Booted \/ Restart \/ HostOpens \/ TimePasses
    \/ \E i \in Ids, n \in Names : CreateAttach(i, n)
    \/ \E n \in Names : HostEnds(n)

Spec == Init /\ [][Next]_vars

(* The sleeping tasks and start-up go on and time passes; nobody else owes *)
(* a step.                                                                 *)
FairSpec ==
    /\ Spec /\ WF_vars(TimePasses) /\ WF_vars(Booted)
    /\ \A i \in Ids : WF_vars(Finaliser(i))

-----------------------------------------------------------------------------
(* Safety, over time: a terminal that is served is removed only under a    *)
(* mark whose undo window is over, whichever of several closes the timer   *)
(* belongs to; so an undo that was acknowledged holds                      *)
(* (session_manager.rs 2537-2584).  Excepted is a restore between the two  *)
(* locks of finalize_pending_kill, which the code overrides.               *)
UndoWindowHonoured ==
    [][\A i \in Ids : FinRemove(i) /\ ~booting /\ ~fin[i].raced
                        => sess[i].until # NoTime /\ sess[i].until <= clock]_vars

(* Safety: a terminal that the user closed is not reported to him as       *)
(* having ended on its own (session_manager.rs 1159-1183, 2573-2575).      *)
DeliberateCloseNotReported ==
    /\ []TypeOK
    /\ [][\A i \in Ids : FanMark(i) /\ Reports(i) => fan[i].gen \notin killed[i]]_vars

(* Liveness, across restarts: a closed terminal, hidden from every list,   *)
(* is removed or restored in the end, never hidden for good                *)
(* (session_manager.rs 2586-2595).                                         *)
PendingResolved ==
    \A i \in Ids : sess[i].listed /\ sess[i].until # NoTime
                     ~> ~sess[i].listed \/ sess[i].until = NoTime
===============================================================================
