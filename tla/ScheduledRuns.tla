----------------------------- MODULE ScheduledRuns -----------------------------
(***************************************************************************)
(* The runs of one scheduled task: how the scheduler's tick and the HTTP    *)
(* handlers (run now, replay) claim a run, break ties, spawn its agent and  *)
(* send its prompt; how the run's row ends (the agent's boundary, the       *)
(* watchdog, the removal of its session, a restart); how rows are pruned    *)
(* and how unknown ends wait for a human's confirmation.                    *)
(*                                                                         *)
(* One task is enough: every query is keyed by the task, or treats rows one *)
(* by one. Each access to the database is one step, as each takes the       *)
(* connection's lock once; the claimants run on different threads.          *)
(***************************************************************************)
EXTENDS Naturals, FiniteSets

CONSTANTS
  Web,          \* HTTP requests in progress (run now, replay)
  Keep,         \* retention_n of the task
  MaxRuns,      \* bound: rows ever inserted
  MaxClock,     \* bound: scheduled_for values
  MaxRestarts   \* bound: restarts of the server and panics of the scheduler

ASSUME ScheduledAssumption ==
  /\ Keep \in Nat /\ MaxRuns \in Nat /\ MaxClock \in Nat /\ MaxRestarts \in Nat
  /\ "scheduler" \notin Web

VARIABLES
  row,         \* agent_task_runs, by the order of insertion (rowid)
  nextRun,     \* the next row to be inserted
  configured,  \* the task has a row in agent_runs_config
  deleting,    \* delete_scheduled is between remove_session and delete_config
  pc, job,     \* what each claimant is doing, and with which run
  found,       \* the rows the watchdog found stale, before it aborts them
  listed,      \* the run's session is in the manager's map
  agent,       \* the run's `claude -p` process
  kill,        \* runs whose session a spawned TimeoutKill is about to reach
  clock,       \* the latest scheduled_for value taken
  restarts

storeVars == <<row, nextRun, configured>>
claimVars == <<pc, job, found, clock>>
agentVars == <<listed, agent, kill>>
vars == <<storeVars, claimVars, agentVars, deleting, restarts>>

-----------------------------------------------------------------------------
Run == 1..MaxRuns
Claimant == Web \cup {"scheduler"}
None == 0

ActiveState == {"claimed", "running"}
Terminal == {"succeeded", "failed", "skipped", "aborted"}
Absent == {"none", "deleted"}
Unknown == {"timeout", "orphaned"}

Row == [state : ActiveState \cup Terminal \cup Absent,
        bound : BOOLEAN,                                  \* session_id is set
        kind : {"none", "other"} \cup Unknown,            \* failure_kind
        slot : Nat,                                       \* scheduled_for_ms
        snapshot : BOOLEAN,                               \* input_snapshot is set
        confirm : {"null", "confirmed_done", "replayed"}, \* confirm_status
        replayOf : Run \cup {None}]

Job == [run : Run \cup {None}, slot : Nat, orig : Run \cup {None}, fromQueue : BOOLEAN]
Triggering == {"won", "spawned", "bound"}
Phase == {"idle", "watch", "prune", "due", "vetted", "checked", "claimed", "live"}
           \cup Triggering
Engaged == {"claimed", "live"} \cup Triggering  \* the claimant has a run
Alive == {"ready", "prompted", "working", "idle"}

NoRow == [state |-> "none", bound |-> FALSE, kind |-> "none", slot |-> 0,
          snapshot |-> FALSE, confirm |-> "null", replayOf |-> None]
NoJob == [run |-> None, slot |-> 0, orig |-> None, fromQueue |-> FALSE]

Exists(r) == row[r].state \notin Absent
Active(r) == row[r].state \in ActiveState

\* active_states_for_task and should_skip_overlap
Overlap == \E r \in Run : Active(r)

\* The predicate of the human confirmation queue; the task has side effects.
Pending(r) ==
  /\ row[r].state = "aborted" /\ row[r].kind \in Unknown /\ row[r].confirm = "null"
  /\ configured

-----------------------------------------------------------------------------
(* Rows: each operator gives the row after an UPDATE *)

\* mutant: no guard for rows that ended
SetRunStateAgain(x, state, kind) ==
  [x EXCEPT !.state = state, !.kind = IF kind = "none" THEN @ ELSE kind]

\* set_run_state: a row that ended stays as it ended.
SetRunState(x, state, kind) ==
  IF x.state \in ActiveState
  THEN [x EXCEPT !.state = state, !.kind = IF kind = "none" THEN @ ELSE kind]
  ELSE x

\* set_run_state(running, session)
BoundTo(x) ==
  [SetRunState(x, "running", "none") EXCEPT !.bound = @ \/ x.state \in ActiveState]

\* abort_active_run_for_session
AbortForSession(x) == IF x.bound THEN SetRunState(x, "aborted", "other") ELSE x

Update(r, x) == row' = [row EXCEPT ![r] = x]

-----------------------------------------------------------------------------
(* Claiming: Check, Claim, Decide *)

Now == {clock, clock + 1} \cap 0..MaxClock

\* A row is left for the claim (bound).
Room == nextRun + Cardinality({c \in Claimant : pc[c] \in {"vetted", "checked"}}) <= MaxRuns

Step(c, from, to) == pc[c] = from /\ pc' = [pc EXCEPT ![c] = to]
Quit(c) == pc' = [pc EXCEPT ![c] = "idle"] /\ job' = [job EXCEPT ![c] = NoJob]

\* The last fire point since the previous tick, if the task has no active run.
\* The task comes from the tick's list_enabled and is not read again.
SchedulerCheck ==
  LET c == "scheduler" IN
  /\ \/ /\ Step(c, "due", "checked") /\ ~Overlap /\ Room
        /\ \E s \in Now : clock' = s /\ job' = [job EXCEPT ![c] = [NoJob EXCEPT !.slot = s]]
     \/ Step(c, "due", "idle") /\ UNCHANGED <<job, clock>>
  /\ UNCHANGED <<storeVars, found, agentVars, deleting, restarts>>

\* run_scheduled_now
RunNow(c) ==
  /\ Step(c, "idle", "checked") /\ configured /\ ~Overlap /\ Room
  /\ \E s \in Now : clock' = s /\ job' = [job EXCEPT ![c] = [NoJob EXCEPT !.slot = s]]
  /\ UNCHANGED <<storeVars, found, agentVars, deleting, restarts>>

\* replay_run_handler: a run that waits for confirmation only from the queue; the
\* overlap is read after that.
Replay(c) ==
  /\ Step(c, "idle", "vetted") /\ configured /\ Room
  /\ \E r \in Run, q \in BOOLEAN :
       /\ Exists(r) /\ (q \/ ~Pending(r))
       /\ job' = [job EXCEPT ![c] = [NoJob EXCEPT !.orig = r, !.fromQueue = q]]
  /\ UNCHANGED <<storeVars, found, agentVars, clock, deleting, restarts>>

ReplayCheck(c) ==
  /\ \/ Step(c, "vetted", "checked") /\ ~Overlap /\ UNCHANGED job
     \/ pc[c] = "vetted" /\ Overlap /\ Quit(c)
  /\ UNCHANGED <<storeVars, found, agentVars, clock, deleting, restarts>>

\* claim_run uses the fire point; claim_replay its own timestamp, and the snapshot
\* of the original.
Slots(c) == IF job[c].orig = None THEN {job[c].slot} ELSE Now

\* UNIQUE(task_id, scheduled_for_ms), and a snapshot to replay
Insertable(c, s) ==
  /\ \A r \in Run : Exists(r) => row[r].slot # s
  /\ LET orig == job[c].orig IN orig # None => Exists(orig) /\ row[orig].snapshot

NewRow(s, orig) ==
  [NoRow EXCEPT !.state = "claimed", !.slot = s, !.snapshot = (orig # None),
                !.replayOf = orig]

Insert(c, s) ==
  /\ Insertable(c, s)
  /\ Update(nextRun, NewRow(s, job[c].orig)) /\ nextRun' = nextRun + 1
  /\ pc' = [pc EXCEPT ![c] = "claimed"] /\ job' = [job EXCEPT ![c].run = nextRun]
  /\ clock' = IF s > clock THEN s ELSE clock

Claim(c) ==
  /\ pc[c] = "checked" /\ nextRun <= MaxRuns
  /\ \E s \in Slots(c) :
       \/ Insert(c, s)
       \/ ~Insertable(c, s) /\ Quit(c) /\ UNCHANGED <<row, nextRun, clock>>
  /\ UNCHANGED <<configured, found, agentVars, deleting, restarts>>

ClaimWonAlways(r) == Active(r)  \* mutant: no tie-break after the claim

\* claim_won: the earliest inserted of the task's active rows
ClaimWon(r) == Active(r) /\ \A s \in Run : Active(s) => r <= s

\* A loser never spawned: it is skipped, not aborted.
Decide(c) ==
  /\ pc[c] = "claimed"
  /\ LET r == job[c].run IN
     IF ClaimWon(r)
     THEN pc' = [pc EXCEPT ![c] = "won"] /\ UNCHANGED <<job, row>>
     ELSE Update(r, SetRunState(row[r], "skipped", "other")) /\ Quit(c)
  /\ UNCHANGED <<nextRun, configured, found, clock, agentVars, deleting, restarts>>

-----------------------------------------------------------------------------
(* trigger_run *)

\* The working directory is rejected, or the session cannot be created.
SpawnFails(c) ==
  /\ pc[c] = "won"
  /\ Update(job[c].run, SetRunState(row[job[c].run], "failed", "other"))
  /\ Quit(c)
  /\ UNCHANGED <<nextRun, configured, found, clock, agentVars, deleting, restarts>>

Spawn(c) ==
  /\ Step(c, "won", "spawned")
  /\ listed' = [listed EXCEPT ![job[c].run] = TRUE]
  /\ agent' = [agent EXCEPT ![job[c].run] = "ready"]
  /\ UNCHANGED <<storeVars, job, found, clock, kill, deleting, restarts>>

Bind(c) ==
  /\ Step(c, "spawned", "bound")
  /\ Update(job[c].run, BoundTo(row[job[c].run]))
  /\ UNCHANGED <<nextRun, configured, job, found, clock, agentVars, deleting, restarts>>

\* mutant: the confirmation is consumed also when the prompt was not sent
AfterPromptAlways(c, sent) ==
  IF job[c].fromQueue THEN pc' = [pc EXCEPT ![c] = "live"] /\ UNCHANGED job ELSE Quit(c)

\* A replay from the queue goes on to consume the confirmation.
AfterPrompt(c, sent) ==
  IF job[c].fromQueue /\ sent
  THEN pc' = [pc EXCEPT ![c] = "live"] /\ UNCHANGED job
  ELSE Quit(c)

\* The snapshot, then the prompt; without an input channel the run has failed.
SendPrompt(c) ==
  /\ pc[c] = "bound"
  /\ LET r == job[c].run
         reachable == listed[r] /\ agent[r] = "ready"
         x == [row[r] EXCEPT !.snapshot = (@ \/ Exists(r))]
     IN
     /\ Update(r, IF reachable THEN x ELSE SetRunState(x, "failed", "other"))
     /\ agent' = IF reachable THEN [agent EXCEPT ![r] = "prompted"] ELSE agent
     /\ AfterPrompt(c, reachable)
  /\ UNCHANGED <<nextRun, configured, found, clock, listed, kill, deleting, restarts>>

\* set_confirm_status(orig, "replayed"), first writer wins
Consume(c) ==
  /\ pc[c] = "live"
  /\ LET r == job[c].orig IN
     Update(r, IF Pending(r) THEN [row[r] EXCEPT !.confirm = "replayed"] ELSE row[r])
  /\ Quit(c)
  /\ UNCHANGED <<nextRun, configured, found, clock, agentVars, deleting, restarts>>

-----------------------------------------------------------------------------
(* The agent: its fan-out finalises the row at the turn's boundary *)

AgentStarts(r) ==
  /\ agent[r] = "prompted"
  /\ agent' = [agent EXCEPT ![r] = "working"]
  /\ UNCHANGED <<storeVars, claimVars, listed, kill, deleting, restarts>>

AgentFinishes(r) ==
  /\ agent[r] = "working"
  /\ agent' = [agent EXCEPT ![r] = "idle"]
  /\ \E state \in {"succeeded", "failed"} :
       Update(r, SetRunState(row[r], state, "none"))
  /\ UNCHANGED <<nextRun, configured, claimVars, listed, kill, deleting, restarts>>

\* The process ends: a boundary for a working turn, for a waiting prompt none.
Exits(r) ==
  /\ agent' = [agent EXCEPT ![r] = "gone"]
  /\ Update(r, IF agent[r] = "working" THEN SetRunState(row[r], "failed", "none")
               ELSE row[r])

AgentExits(r) ==
  /\ agent[r] \in Alive /\ Exits(r)
  /\ UNCHANGED <<nextRun, configured, claimVars, listed, kill, deleting, restarts>>

\* The kill is behind the prompt in the input channel; a session that is gone
\* from the map, or whose process is, is not reached.
KillLands(r) ==
  /\ r \in kill /\ agent[r] # "prompted"
  /\ kill' = kill \ {r}
  /\ IF listed[r] /\ agent[r] \in Alive THEN Exits(r) ELSE UNCHANGED <<row, agent>>
  /\ UNCHANGED <<nextRun, configured, claimVars, listed, deleting, restarts>>

\* spawn_timeout_kill gives up after 10 s on a full input channel.
KillGivesUp(r) ==
  /\ r \in kill /\ agent[r] = "working"
  /\ kill' = kill \ {r}
  /\ UNCHANGED <<storeVars, claimVars, listed, agent, deleting, restarts>>

-----------------------------------------------------------------------------
(* The scheduler's tick *)

\* mutant: only runs that have their session
StaleRunning(r) == Active(r) /\ row[r].state = "running" /\ configured

\* A run older than the shortest timeout, one minute: its claimant has long sent
\* the prompt, and the fan-out has taken it, or they never will.
Stale(r) ==
  /\ Active(r) /\ configured /\ agent[r] # "prompted"
  /\ \A c \in Claimant : pc[c] # "idle" => job[c].run # r

KillsOf(S) == {r \in S : row[r].bound}

\* mutant: the sessions of scheduled tasks are left to the other watchdog
IdleUnscheduled == {r \in Run : listed[r] /\ agent[r] = "working" /\ ~row[r].bound}

\* Sessions that are silent for 30 minutes in a turn without an active run
IdleTooLong == {r \in Run : listed[r] /\ agent[r] = "working" /\ ~(Active(r) /\ row[r].bound)}

\* reconcile_timeouts_per_task reads the active rows and judges them by their age.
WatchdogReads ==
  /\ Step("scheduler", "idle", "watch")
  /\ found' \in SUBSET {r \in Run : Stale(r)}
  /\ UNCHANGED <<storeVars, job, clock, agentVars, deleting, restarts>>

\* It aborts them and kills their sessions; running_idle_too_long gives it the
\* silent turns of sessions without an active run.
WatchdogAborts ==
  /\ Step("scheduler", "watch", "prune") /\ found' = {}
  /\ row' = [r \in Run |-> IF r \in found THEN SetRunState(row[r], "aborted", "timeout")
                           ELSE row[r]]
  /\ \E K \in SUBSET IdleTooLong : kill' = kill \cup KillsOf(found) \cup K
  /\ UNCHANGED <<nextRun, configured, job, clock, listed, agent, deleting, restarts>>

PrunesAll(r) == TRUE  \* mutant: runs that wait for a human are pruned

\* A run that waits for a human is exempt.
Prunable(r) == ~Pending(r)

Newest(r) == Cardinality({s \in Run : Exists(s) /\ row[s].slot > row[r].slot}) < Keep

\* list_enabled, and prune_runs for the tasks it lists. The user may have disabled
\* the task, which stops neither its runs nor the watchdog.
Prune ==
  /\ \/ /\ Step("scheduler", "prune", "due") /\ configured
        /\ row' = [r \in Run |-> IF Exists(r) /\ Prunable(r) /\ ~Newest(r)
                                 THEN [NoRow EXCEPT !.state = "deleted"] ELSE row[r]]
     \/ Step("scheduler", "prune", "idle") /\ UNCHANGED row
  /\ UNCHANGED <<nextRun, configured, job, found, clock, agentVars, deleting, restarts>>

\* mutant: every active run is aborted, although its agent works on
OrphanedAll(r) == row[r].bound
\* Only a run whose session is gone is orphaned by a panic of the scheduler.
Orphaned(r) == row[r].bound /\ ~listed[r]

SchedulerPanics ==
  /\ restarts < MaxRestarts /\ restarts' = restarts + 1
  /\ pc["scheduler"] # "idle"
  /\ Quit("scheduler") /\ found' = {}
  /\ row' = [r \in Run |-> IF Orphaned(r) THEN SetRunState(row[r], "aborted", "orphaned")
                           ELSE row[r]]
  /\ UNCHANGED <<nextRun, configured, clock, agentVars, deleting>>

-----------------------------------------------------------------------------
(* The user, and the server's restart *)

\* remove_session of a run's session
RemoveSession(r) ==
  /\ listed[r]
  /\ listed' = [listed EXCEPT ![r] = FALSE]
  /\ Update(r, AbortForSession(row[r]))
  /\ UNCHANGED <<nextRun, configured, claimVars, agent, kill, deleting, restarts>>

\* set_confirm_status(run, "confirmed_done")
ConfirmDone(r) ==
  /\ Pending(r)
  /\ Update(r, [row[r] EXCEPT !.confirm = "confirmed_done"])
  /\ UNCHANGED <<nextRun, configured, claimVars, agentVars, deleting, restarts>>

\* delete_scheduled removes the sessions of the active runs, then the rows.
BeginDelete ==
  /\ configured /\ ~deleting
  /\ deleting' = TRUE
  /\ LET S == {r \in Run : Active(r) /\ row[r].bound}
     IN  /\ listed' = [r \in Run |-> listed[r] /\ r \notin S]
         /\ row' = [r \in Run |-> IF r \in S /\ listed[r] THEN AbortForSession(row[r])
                                  ELSE row[r]]
  /\ UNCHANGED <<nextRun, configured, claimVars, agent, kill, restarts>>

\* delete_config
EndDelete ==
  /\ deleting
  /\ deleting' = FALSE /\ configured' = FALSE
  /\ row' = [r \in Run |-> IF Exists(r) THEN [NoRow EXCEPT !.state = "deleted"] ELSE row[r]]
  /\ UNCHANGED <<nextRun, claimVars, agentVars, restarts>>

\* The processes die with the server; reconcile_orphans(None) runs before the
\* scheduler starts and the first request is served.
Restart ==
  /\ restarts < MaxRestarts /\ restarts' = restarts + 1
  /\ row' = [r \in Run |-> SetRunState(row[r], "aborted", "orphaned")]
  /\ agent' = [r \in Run |-> IF agent[r] \in Alive THEN "gone" ELSE agent[r]]
  /\ pc' = [c \in Claimant |-> "idle"] /\ job' = [c \in Claimant |-> NoJob]
  /\ kill' = {} /\ found' = {} /\ deleting' = FALSE
  /\ UNCHANGED <<nextRun, configured, clock, listed>>

-----------------------------------------------------------------------------
Init ==
  /\ row = [r \in Run |-> NoRow] /\ nextRun = 1 /\ configured = TRUE /\ deleting = FALSE
  /\ pc = [c \in Claimant |-> "idle"] /\ job = [c \in Claimant |-> NoJob]
  /\ found = {} /\ clock = 0
  /\ listed = [r \in Run |-> FALSE] /\ agent = [r \in Run |-> "none"] /\ kill = {}
  /\ restarts = 0

Trigger(c) ==
  \/ Claim(c) \/ Decide(c) \/ SpawnFails(c) \/ Spawn(c) \/ Bind(c) \/ SendPrompt(c)
  \/ Consume(c)

Tick == WatchdogReads \/ WatchdogAborts \/ Prune \/ SchedulerCheck

Agent(r) == AgentStarts(r) \/ AgentFinishes(r) \/ AgentExits(r) \/ KillLands(r) \/ KillGivesUp(r)

Next ==
  \/ \E c \in Web : RunNow(c) \/ Replay(c) \/ ReplayCheck(c)
  \/ \E c \in Claimant : Trigger(c)
  \/ Tick \/ SchedulerPanics
  \/ \E r \in Run : Agent(r) \/ RemoveSession(r) \/ ConfirmDone(r)
  \/ BeginDelete \/ EndDelete \/ Restart

Spec == Init /\ [][Next]_vars

\* The server runs its tasks: claimants go on, the scheduler ticks, an agent's
\* fan-out takes the prompt. The age of a run makes the watchdog find it at last
\* (max_runtime_min), silence an abandoned turn (INTERACTIVE_IDLE_MS); the agent
\* itself is never assumed to answer. A kill that gave up on a full input channel
\* is sent again, and one of them finds room.
Fairness ==
  /\ \A c \in Claimant : WF_vars(Trigger(c)) /\ WF_vars(ReplayCheck(c))
  /\ WF_vars(Tick)
  /\ \A r \in Run :
       /\ SF_vars(WatchdogReads /\ r \in found')
       /\ SF_vars(WatchdogAborts /\ r \in kill')
       /\ WF_vars(AgentStarts(r)) /\ SF_vars(KillLands(r))
  /\ WF_vars(EndDelete)

FairSpec == Spec /\ Fairness

-----------------------------------------------------------------------------
(* Safety *)

\* Types: rows are inserted in order; a row has a session exactly from the moment
\* it is running, a loser of the tie-break never; a claimant past its claim has a run.
TypeOK ==
  /\ row \in [Run -> Row] /\ nextRun \in 1..(MaxRuns + 1)
  /\ configured \in BOOLEAN /\ deleting \in BOOLEAN
  /\ pc \in [Claimant -> Phase] /\ job \in [Claimant -> Job]
  /\ found \in SUBSET Run /\ clock \in Nat
  /\ listed \in [Run -> BOOLEAN] /\ kill \in SUBSET Run
  /\ agent \in [Run -> Alive \cup {"none", "gone"}]
  /\ restarts \in 0..MaxRestarts
  /\ \A r \in Run :
       /\ r < nextRun <=> row[r].state # "none"
       /\ row[r].state = "running" => row[r].bound
       /\ row[r].state \in {"claimed", "skipped"} => ~row[r].bound
  /\ \A c \in Claimant :
       /\ IF pc[c] \in Engaged THEN job[c].run \in 1..(nextRun - 1) ELSE job[c].run = None
       /\ pc[c] = "live" => job[c].fromQueue
       /\ job[c].fromQueue => job[c].orig # None

\* A run holds the task's slot from the tie-break it won until its row ends.
Held(r) ==
  /\ Active(r)
  /\ row[r].state = "running" \/ \E c \in Claimant : job[c].run = r /\ pc[c] \in Triggering

holder == IF \E r \in Run : Held(r) THEN CHOOSE r \in Run : Held(r) ELSE None
over == {r \in Run : row[r].state \in Terminal \cup {"deleted"}}

Slot == INSTANCE ExclusiveSlot WITH Party <- Run, holder <- holder, over <- over

\* However the checks, claims and tie-breaks of the scheduler and of requests
\* interleave with ends, kills and restarts: one run at a time passes claim_won
\* and spawns with its row active, and a run that ended never does again.
SlotIsExclusive == Slot!Spec

\* The holder is the earliest active run, so no later claimant wins beside it
\* (claim_won's total order; a count of active runs would let both lose).
HolderIsEarliest == \A r, s \in Run : Held(r) /\ Active(s) => r <= s

\* While a listed session's agent has the run's prompt or works on it, the row
\* that the auto-update gate counts (active_run_count) is still active, unless
\* the watchdog aborted it (and kills the session) or the row was deleted: a panic
\* of the scheduler in particular leaves the rows of live agents alone.
RowCoversRun ==
  \A r \in Run : agent[r] \in {"ready", "prompted", "working"} /\ listed[r] =>
    \/ Active(r) \/ row[r].state = "deleted"
    \/ row[r].state = "aborted" /\ row[r].kind = "timeout"

\* A run whose side effects are unknown stays in the confirmation queue until a
\* human decides or its task is deleted: pruning, replays, late boundaries and
\* restarts never drop it.
PendingNeverDropped ==
  [][\A r \in Run : Pending(r) =>
       Pending(r)' \/ row'[r].confirm # "null" \/ ~configured']_vars

\* The first end of a run is final: a late boundary, a second watchdog, the
\* removal of the session or a restart never rewrites how it ended.
VerdictIsFinal ==
  [][\A r \in Run : row[r].state \in Terminal =>
       \/ row'[r].state = "deleted"
       \/ row'[r].state = row[r].state /\ row'[r].kind = row[r].kind]_vars

\* A confirmation is consumed as "replayed" only by a replay whose agent was sent
\* the original's prompt (spec 4.5: never consumed without a live replay).
ConsumedByLiveReplay ==
  [][\A i \in Run : row[i].confirm # "replayed" /\ row'[i].confirm = "replayed" =>
       \E c \in Web : /\ job[c].orig = i
                      /\ agent[job[c].run] \notin {"none", "ready"}]_vars

-----------------------------------------------------------------------------
(* Liveness *)

\* A run of an existing task ends at last, however its claimant, its session, its
\* agent or the scheduler failed: the overlap guard never blocks a task forever.
RunsEnd == \A r \in Run : (Active(r) /\ configured) ~> (~Active(r) \/ ~configured)

\* The agent of a run that the watchdog aborted stops (or its session is removed):
\* flipping the row is not enough.
AbortedStops ==
  \A r \in Run :
    (row[r].kind = "timeout" /\ agent[r] = "working") ~> (agent[r] # "working" \/ ~listed[r])

-----------------------------------------------------------------------------
(* What comments and documents say, and the code does not do *)

\* "No double replay": of two tabs that replay the same waiting run, one sends the
\* prompt (the run is still unconfirmed when a replay from the queue is sent).
NoDoubleReplay ==
  [][\A c \in Web :
       job[c].fromQueue /\ job[c].run # None /\ agent[job[c].run] = "ready"
         /\ agent'[job[c].run] = "prompted"
       => row[job[c].orig].confirm = "null"]_vars

\* "The child dies before its gate signal disappears": no prompt goes to the agent
\* of a run whose row was deleted with its task.
NoPromptWithoutRow == \A r \in Run : agent[r] = "prompted" => Exists(r)
=============================================================================
