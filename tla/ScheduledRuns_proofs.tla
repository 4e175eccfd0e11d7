------------------------- MODULE ScheduledRuns_proofs -------------------------
(***************************************************************************)
(* Proofs about ScheduledRuns, for every number of rows, requests and       *)
(* restarts and every retention: its types, the exclusive slot (refinement  *)
(* of ExclusiveSlot), final ends, the confirmation queue and the agents     *)
(* every running agent's row answers for.                                   *)
(***************************************************************************)
EXTENDS ScheduledRuns, TLAPS

-----------------------------------------------------------------------------
(* The inductive invariant *)

\* No two claimants work on the same run.
JobsDistinct ==
  \A c, d \in Claimant : job[c].run = job[d].run /\ job[c].run # None => c = d

\* The row of a claimant that has not bound its session is not running.
NotYetRunning ==
  \A c \in Claimant :
    pc[c] \in {"claimed", "won", "spawned"} => row[job[c].run].state # "running"

IInv == TypeOK /\ JobsDistinct /\ NotYetRunning

\* How a step may change a row.
Deleted(r) ==
  /\ row[r].state # "none" /\ row'[r] = [NoRow EXCEPT !.state = "deleted"]
  /\ ~Pending(r) \/ ~configured'
Kept(r) ==
  /\ row'[r].state = row[r].state /\ row'[r].kind = row[r].kind
  /\ row'[r].bound = row[r].bound
  /\ row'[r].confirm = row[r].confirm \/ row'[r].confirm # "null"
Ends(r) ==
  /\ Active(r) /\ row'[r].state \in Terminal
  /\ row'[r].state = "skipped" => ~row'[r].bound
BindsTo(r) ==
  /\ Active(r) /\ row'[r].state = "running" /\ row'[r].bound
  /\ \E c \in Claimant : Bind(c) /\ job[c].run = r
Inserted(r) ==
  /\ r = nextRun /\ nextRun' = nextRun + 1
  /\ row'[r].state = "claimed" /\ ~row'[r].bound

Moves(r) == Deleted(r) \/ Kept(r) \/ Ends(r) \/ BindsTo(r) \/ Inserted(r)

-----------------------------------------------------------------------------
(* Lemmas about the operators on rows *)

\* set_run_state gives a row; it changes only the state and kind of an active row.
LEMMA SetRunStateFacts ==
  ASSUME NEW x \in Row, NEW state \in Terminal \cup {"running"},
         NEW kind \in {"none", "other"} \cup Unknown
  PROVE  LET y == SetRunState(x, state, kind) IN
         /\ y \in Row /\ y.bound = x.bound /\ y.confirm = x.confirm
         /\ x.state \in ActiveState => y.state = state
         /\ x.state \notin ActiveState => y = x
<1>1. CASE x.state \in ActiveState
  BY <1>1 DEF SetRunState, Row, ActiveState, Terminal, Absent, Unknown
<1>2. CASE x.state \notin ActiveState
  BY <1>2 DEF SetRunState
<1> QED
  BY <1>1, <1>2

\* Binding a session makes an active row running, and gives it the session.
LEMMA BoundToFacts ==
  ASSUME NEW x \in Row
  PROVE  LET y == BoundTo(x) IN
         /\ y \in Row /\ y.confirm = x.confirm
         /\ x.state \in ActiveState => y.state = "running" /\ y.bound
         /\ x.state \notin ActiveState => y = x
<1> DEFINE y == SetRunState(x, "running", "none")
<1>1. y \in Row /\ y.bound = x.bound /\ y.confirm = x.confirm
      /\ (x.state \in ActiveState => y.state = "running")
      /\ (x.state \notin ActiveState => y = x)
  BY SetRunStateFacts DEF Terminal, Unknown
<1>2. BoundTo(x) = [y EXCEPT !.bound = @ \/ x.state \in ActiveState]
  BY DEF BoundTo
<1> HIDE DEF y
<1>3. CASE x.state \in ActiveState
  <2>1. BoundTo(x) = [y EXCEPT !.bound = TRUE]
    BY <1>1, <1>2, <1>3 DEF Row
  <2> QED
    BY <1>1, <1>3, <2>1 DEF Row
<1>4. CASE x.state \notin ActiveState
  <2>1. BoundTo(x) = [y EXCEPT !.bound = y.bound]
    BY <1>1, <1>2, <1>4 DEF Row
  <2> QED
    BY <1>1, <1>4, <2>1 DEF Row
<1> QED
  BY <1>3, <1>4

\* A deleted row is a row without a session.
LEMMA DeletedFacts ==
  LET y == [NoRow EXCEPT !.state = "deleted"] IN
  y \in Row /\ y.state = "deleted" /\ ~y.bound
BY DEF NoRow, Row, Absent, None, Unknown

\* Rows that did not change moved.
LEMMA Unmoved ==
  ASSUME NEW r \in Run, row'[r] = row[r]
  PROVE  Moves(r)
BY DEF Moves, Kept

\* An end given to a row moves it, also when the row had ended.
LEMMA EndMoves ==
  ASSUME TypeOK, NEW r \in Run, NEW state \in Terminal,
         NEW kind \in {"none", "other"} \cup Unknown,
         row'[r] = SetRunState(row[r], state, kind),
         state = "skipped" => ~row[r].bound
  PROVE  Moves(r) /\ row'[r] \in Row
<1>1. row[r] \in Row
  BY DEF TypeOK
<1>2. /\ row'[r] \in Row /\ row'[r].bound = row[r].bound
      /\ row[r].state \in ActiveState => row'[r].state = state
      /\ row[r].state \notin ActiveState => row'[r] = row[r]
  BY <1>1, SetRunStateFacts
<1>3. CASE row[r].state \in ActiveState
  BY <1>2, <1>3 DEF Moves, Ends, Active
<1>4. CASE row[r].state \notin ActiveState
  BY <1>2, <1>4, Unmoved
<1> QED
  BY <1>2, <1>3, <1>4

\* An update of one row that moves it moves every row.
LEMMA UpdateMoves ==
  ASSUME TypeOK, NEW r \in Run, NEW x \in Row, Update(r, x),
         row'[r] = x => Moves(r)
  PROVE  row' \in [Run -> Row] /\ \A s \in Run : Moves(s)
<1>1. row \in [Run -> Row] /\ row' = [row EXCEPT ![r] = x]
  BY DEF TypeOK, Update
<1>2. row'[r] = x /\ \A s \in Run \ {r} : row'[s] = row[s]
  BY <1>1
<1>3. \A s \in Run \ {r} : Moves(s)
  BY <1>2, Unmoved
<1> QED
  BY <1>1, <1>2, <1>3

\* An end given to one row moves every row.
LEMMA UpdateEnds ==
  ASSUME TypeOK, NEW r \in Run, NEW state \in Terminal,
         NEW kind \in {"none", "other"} \cup Unknown,
         Update(r, SetRunState(row[r], state, kind)),
         state = "skipped" => ~row[r].bound
  PROVE  row' \in [Run -> Row] /\ \A s \in Run : Moves(s)
<1>1. SetRunState(row[r], state, kind) \in Row
  BY SetRunStateFacts DEF TypeOK
<1>2. row'[r] = SetRunState(row[r], state, kind) => Moves(r)
  BY EndMoves DEF Terminal
<1> QED
  BY <1>1, <1>2, UpdateMoves

\* The run of a claimant past its claim has a row.
LEMMA JobHasRow ==
  ASSUME TypeOK, NEW c \in Claimant, pc[c] \in Engaged
  PROVE  /\ job[c].run \in Run /\ job[c].run < nextRun
         /\ row[job[c].run].state # "none" /\ row[job[c].run] \in Row
BY ScheduledAssumption DEF TypeOK, Run

-----------------------------------------------------------------------------
(* Every step moves the rows *)

LEMMA RowsMove ==
  ASSUME IInv, [Next]_vars
  PROVE  row' \in [Run -> Row] /\ \A r \in Run : Moves(r)
<1>1. TypeOK
  BY DEF IInv
<1> USE <1>1
<1> DEFINE Goal == row' \in [Run -> Row] /\ \A r \in Run : Moves(r)
<1>same. ASSUME row' = row PROVE Goal
  BY <1>same, Unmoved DEF TypeOK
<1>Claim. ASSUME NEW c \in Claimant, Claim(c) PROVE Goal
  <2>1. CASE row' = row
    BY <2>1, <1>same
  <2>2. CASE row' # row
    <3>1. nextRun \in Run
      BY <1>Claim, ScheduledAssumption DEF Claim, TypeOK, Run
    <3>2. PICK s \in Slots(c) : Insert(c, s)
      BY <1>Claim, <2>2 DEF Claim
    <3>3. s \in Nat /\ job[c].orig \in Run \cup {None}
      BY ScheduledAssumption DEF Slots, Now, Job, TypeOK
    <3> DEFINE x == NewRow(s, job[c].orig)
    <3>4. x \in Row /\ x.state = "claimed" /\ ~x.bound
      BY <3>3 DEF NewRow, NoRow, Row, ActiveState, None, Unknown
    <3>5. Update(nextRun, x) /\ nextRun' = nextRun + 1
      BY <3>2 DEF Insert
    <3> HIDE DEF x
    <3>6. row'[nextRun] = x => Moves(nextRun)
      BY <3>4, <3>5 DEF Moves, Inserted
    <3> QED
      BY <3>1, <3>4, <3>5, <3>6, UpdateMoves
  <2> QED
    BY <2>1, <2>2
<1>Decide. ASSUME NEW c \in Claimant, Decide(c) PROVE Goal
  <2> DEFINE r == job[c].run
  <2>1. r \in Run /\ row[r] \in Row /\ row[r].state # "running"
    BY <1>Decide, JobHasRow DEF Decide, NotYetRunning, IInv, Engaged
  <2>2. CASE row' = row
    BY <2>2, <1>same
  <2>3. CASE Update(r, SetRunState(row[r], "skipped", "other"))
    <3>1. CASE Active(r)
      <4>1. ~row[r].bound
        BY <2>1, <3>1 DEF Active, ActiveState, TypeOK
      <4> QED
        BY <2>1, <2>3, <4>1, UpdateEnds DEF Terminal
    <3>2. CASE ~Active(r)
      <4>1. SetRunState(row[r], "skipped", "other") = row[r]
        BY <3>2 DEF SetRunState, Active
      <4>2. row' = row
        BY <2>1, <2>3, <4>1 DEF Update, TypeOK
      <4> QED
        BY <4>2, <1>same
    <3> QED
      BY <3>1, <3>2
  <2> QED
    BY <1>Decide, <2>2, <2>3 DEF Decide
<1>SpawnFails. ASSUME NEW c \in Claimant, SpawnFails(c) PROVE Goal
  <2>1. job[c].run \in Run
    BY <1>SpawnFails, JobHasRow DEF SpawnFails, Triggering, Engaged
  <2> QED
    BY <1>SpawnFails, <2>1, UpdateEnds DEF SpawnFails, Terminal
<1>Bind. ASSUME NEW c \in Claimant, Bind(c) PROVE Goal
  <2> DEFINE r == job[c].run
  <2>1. r \in Run /\ row[r] \in Row
    BY <1>Bind, JobHasRow DEF Bind, Step, Triggering, Engaged
  <2>2. BoundTo(row[r]) \in Row
    BY <2>1, BoundToFacts
  <2>3. row'[r] = BoundTo(row[r]) => Moves(r)
    <3>1. CASE Active(r)
      BY <1>Bind, <2>1, <3>1, BoundToFacts DEF Moves, BindsTo, Active
    <3>2. CASE ~Active(r)
      BY <2>1, <3>2, BoundToFacts, Unmoved DEF Active
    <3> QED
      BY <3>1, <3>2
  <2> QED
    BY <1>Bind, <2>1, <2>2, <2>3, UpdateMoves DEF Bind
<1>SendPrompt. ASSUME NEW c \in Claimant, SendPrompt(c) PROVE Goal
  <2> DEFINE r == job[c].run
             x == [row[r] EXCEPT !.snapshot = (@ \/ Exists(r))]
  <2>1. r \in Run /\ row[r] \in Row
    BY <1>SendPrompt, JobHasRow DEF SendPrompt, Triggering, Engaged
  <2>2. /\ x \in Row /\ x.state = row[r].state /\ x.kind = row[r].kind
        /\ x.bound = row[r].bound /\ x.confirm = row[r].confirm
    <3>1. x = [row[r] EXCEPT !.snapshot = TRUE] \/ x = row[r]
      BY <2>1 DEF Row, Exists
    <3> QED
      BY <2>1, <3>1 DEF Row
  <2> HIDE DEF x
  <2>3. PICK y \in {x, SetRunState(x, "failed", "other")} : Update(r, y)
    BY <1>SendPrompt DEF SendPrompt, x
  <2>4. y \in Row
    BY <2>2, SetRunStateFacts DEF Terminal
  <2>5. row'[r] = y => Moves(r)
    <3>1. CASE y = x
      BY <2>2, <3>1 DEF Moves, Kept
    <3>2. CASE y = SetRunState(x, "failed", "other") /\ Active(r)
      <4>1. x.state \in ActiveState
        BY <2>2, <3>2 DEF Active
      <4>2. y.state = "failed"
        BY <2>2, <3>2, <4>1 DEF SetRunState, Row
      <4> QED
        BY <3>2, <4>2 DEF Moves, Ends, Terminal
    <3>3. CASE y = SetRunState(x, "failed", "other") /\ ~Active(r)
      <4>1. y = x
        BY <2>2, <3>3, SetRunStateFacts DEF Active, Terminal
      <4> QED
        BY <2>2, <4>1 DEF Moves, Kept
    <3> QED
      BY <2>3, <3>1, <3>2, <3>3
  <2> QED
    BY <2>1, <2>3, <2>4, <2>5, UpdateMoves
<1>Confirm. ASSUME NEW r \in Run, NEW status \in {"confirmed_done", "replayed"},
                   Update(r, [row[r] EXCEPT !.confirm = status])
            PROVE  Goal
  <2> DEFINE x == [row[r] EXCEPT !.confirm = status]
  <2>1. row[r] \in Row
    BY DEF TypeOK
  <2>2. /\ x \in Row /\ x.state = row[r].state /\ x.kind = row[r].kind
        /\ x.bound = row[r].bound /\ x.confirm = status
    BY <2>1 DEF Row
  <2> HIDE DEF x
  <2>3. row'[r] = x => Moves(r)
    BY <2>2 DEF Moves, Kept
  <2>4. Update(r, x)
    BY <1>Confirm DEF x
  <2> QED
    BY <2>2, <2>3, <2>4, UpdateMoves
<1>Consume. ASSUME NEW c \in Claimant, Consume(c) PROVE Goal
  <2> DEFINE r == job[c].orig
  <2>1. CASE Pending(r)
    <3>1. r \in Run
      BY <1>Consume DEF Consume, TypeOK, Job
    <3> QED
      BY <1>Consume, <2>1, <3>1, <1>Confirm DEF Consume
  <2>2. CASE ~Pending(r)
    <3>1. row' = row
      BY <1>Consume, <2>2 DEF Consume, Update, TypeOK
    <3> QED
      BY <3>1, <1>same
  <2> QED
    BY <2>1, <2>2
<1>AgentFinishes. ASSUME NEW r \in Run, AgentFinishes(r) PROVE Goal
  <2>1. PICK state \in {"succeeded", "failed"} : Update(r, SetRunState(row[r], state, "none"))
    BY <1>AgentFinishes DEF AgentFinishes
  <2> QED
    BY <2>1, UpdateEnds DEF Terminal
<1>Exits. ASSUME NEW r \in Run, Exits(r) PROVE Goal
  <2>1. CASE row' = row
    BY <2>1, <1>same
  <2>2. CASE Update(r, SetRunState(row[r], "failed", "none"))
    BY <2>2, UpdateEnds DEF Terminal
  <2> QED
    BY <1>Exits, <2>1, <2>2 DEF Exits, Update, TypeOK
<1>WatchdogAborts. ASSUME WatchdogAborts PROVE Goal
  <2>1. row' = [r \in Run |-> IF r \in found THEN SetRunState(row[r], "aborted", "timeout")
                             ELSE row[r]]
    BY <1>WatchdogAborts DEF WatchdogAborts
  <2>2. \A r \in Run : Moves(r) /\ row'[r] \in Row
    <3> TAKE r \in Run
    <3>1. CASE r \in found
      BY <2>1, <3>1, EndMoves DEF Terminal, Unknown
    <3>2. CASE r \notin found
      BY <2>1, <3>2, Unmoved DEF TypeOK
    <3> QED
      BY <3>1, <3>2
  <2> QED
    BY <2>1, <2>2
<1>Prune. ASSUME Prune PROVE Goal
  <2>1. CASE row' = row
    BY <2>1, <1>same
  <2>2. CASE row' # row
    <3>1. row' = [r \in Run |-> IF Exists(r) /\ Prunable(r) /\ ~Newest(r)
                               THEN [NoRow EXCEPT !.state = "deleted"] ELSE row[r]]
      BY <1>Prune, <2>2 DEF Prune
    <3>2. \A r \in Run : Moves(r) /\ row'[r] \in Row
      <4> TAKE r \in Run
      <4>1. CASE Exists(r) /\ Prunable(r) /\ ~Newest(r)
        BY <3>1, <4>1, DeletedFacts DEF Moves, Deleted, Exists, Absent, Prunable
      <4>2. CASE ~(Exists(r) /\ Prunable(r) /\ ~Newest(r))
        BY <3>1, <4>2, Unmoved DEF TypeOK
      <4> QED
        BY <4>1, <4>2
    <3> QED
      BY <3>1, <3>2
  <2> QED
    BY <2>1, <2>2
<1>SchedulerPanics. ASSUME SchedulerPanics PROVE Goal
  <2>1. row' = [r \in Run |-> IF Orphaned(r) THEN SetRunState(row[r], "aborted", "orphaned")
                             ELSE row[r]]
    BY <1>SchedulerPanics DEF SchedulerPanics
  <2>2. \A r \in Run : Moves(r) /\ row'[r] \in Row
    <3> TAKE r \in Run
    <3>1. CASE Orphaned(r)
      BY <2>1, <3>1, EndMoves DEF Terminal, Unknown
    <3>2. CASE ~Orphaned(r)
      BY <2>1, <3>2, Unmoved DEF TypeOK
    <3> QED
      BY <3>1, <3>2
  <2> QED
    BY <2>1, <2>2
<1>RemoveSession. ASSUME NEW r \in Run, RemoveSession(r) PROVE Goal
  <2>1. CASE row' = row
    BY <2>1, <1>same
  <2>2. CASE row[r].bound
    BY <1>RemoveSession, <2>2, UpdateEnds DEF RemoveSession, AbortForSession, Terminal
  <2>3. CASE ~row[r].bound
    <3>1. row' = row
      BY <1>RemoveSession, <2>3 DEF RemoveSession, AbortForSession, Update, TypeOK
    <3> QED
      BY <3>1, <1>same
  <2> QED
    BY <2>2, <2>3
<1>ConfirmDone. ASSUME NEW r \in Run, ConfirmDone(r) PROVE Goal
  BY <1>ConfirmDone, <1>Confirm DEF ConfirmDone
<1>BeginDelete. ASSUME BeginDelete PROVE Goal
  <2> DEFINE S == {r \in Run : Active(r) /\ row[r].bound}
  <2>1. row' = [r \in Run |-> IF r \in S /\ listed[r] THEN AbortForSession(row[r])
                             ELSE row[r]]
    BY <1>BeginDelete DEF BeginDelete
  <2>2. \A r \in Run : Moves(r) /\ row'[r] \in Row
    <3> TAKE r \in Run
    <3>1. CASE r \in S /\ listed[r]
      <4>1. row'[r] = SetRunState(row[r], "aborted", "other")
        BY <2>1, <3>1 DEF AbortForSession
      <4> QED
        BY <4>1, EndMoves DEF Terminal
    <3>2. CASE ~(r \in S /\ listed[r])
      BY <2>1, <3>2, Unmoved DEF TypeOK
    <3> QED
      BY <3>1, <3>2
  <2> QED
    BY <2>1, <2>2
<1>EndDelete. ASSUME EndDelete PROVE Goal
  <2>1. /\ row' = [r \in Run |-> IF Exists(r) THEN [NoRow EXCEPT !.state = "deleted"] ELSE row[r]]
        /\ ~configured'
    BY <1>EndDelete DEF EndDelete
  <2>2. \A r \in Run : Moves(r) /\ row'[r] \in Row
    <3> TAKE r \in Run
    <3>1. CASE Exists(r)
      BY <2>1, <3>1, DeletedFacts DEF Moves, Deleted, Exists, Absent
    <3>2. CASE ~Exists(r)
      BY <2>1, <3>2, Unmoved DEF TypeOK
    <3> QED
      BY <3>1, <3>2
  <2> QED
    BY <2>1, <2>2
<1>Restart. ASSUME Restart PROVE Goal
  <2>1. row' = [r \in Run |-> SetRunState(row[r], "aborted", "orphaned")]
    BY <1>Restart DEF Restart
  <2>2. \A r \in Run : Moves(r) /\ row'[r] \in Row
    BY <2>1, EndMoves DEF Terminal, Unknown
  <2> QED
    BY <2>1, <2>2
<1>KillLands. ASSUME NEW r \in Run, KillLands(r) PROVE Goal
  BY <1>KillLands, <1>Exits, <1>same DEF KillLands
<1>Agent. ASSUME NEW r \in Run, Agent(r) PROVE Goal
  BY <1>Agent, <1>AgentFinishes, <1>Exits, <1>KillLands, <1>same
     DEF Agent, AgentStarts, AgentExits, KillGivesUp, storeVars
<1>Trigger. ASSUME NEW c \in Claimant, Trigger(c) PROVE Goal
  BY <1>Trigger, <1>Claim, <1>Decide, <1>SpawnFails, <1>Bind, <1>SendPrompt, <1>Consume, <1>same
     DEF Trigger, Spawn, storeVars
<1>Ask. ASSUME NEW c \in Web, RunNow(c) \/ Replay(c) \/ ReplayCheck(c) PROVE Goal
  BY <1>Ask, <1>same DEF RunNow, Replay, ReplayCheck, storeVars
<1>Tick. ASSUME Tick PROVE Goal
  BY <1>Tick, <1>WatchdogAborts, <1>Prune, <1>same
     DEF Tick, WatchdogReads, SchedulerCheck, storeVars
<1>Stutter. ASSUME UNCHANGED vars PROVE Goal
  BY <1>Stutter, <1>same DEF vars, storeVars
<1>next. Goal
  BY <1>Agent, <1>Trigger, <1>Ask, <1>Tick, <1>Stutter, <1>SchedulerPanics, <1>RemoveSession,
     <1>ConfirmDone, <1>BeginDelete, <1>EndDelete, <1>Restart
     DEF Next
<1> QED
  BY <1>next DEF Goal

-----------------------------------------------------------------------------
(* The claimants *)

\* The claimants of a step: each keeps its run and goes on, or drops it.
Unbound == {"claimed", "won", "spawned"}
Wins(c) == ClaimWon(job[c].run) /\ row' = row
JobStep(c) ==
  \/ /\ job'[c].run = job[c].run /\ (pc'[c] \in Unbound => pc[c] \in Unbound)
     /\ pc'[c] \in Triggering => pc[c] \in Triggering \/ Wins(c)
  \/ job'[c].run = None /\ pc'[c] \notin Unbound \cup Triggering

\* Steps other than an insertion keep or drop runs.
Quiet == nextRun' = nextRun /\ \A c \in Claimant : JobStep(c)

ClaimTypes ==
  /\ nextRun \in 1..(MaxRuns + 1)
  /\ pc \in [Claimant -> Phase] /\ job \in [Claimant -> Job]
  /\ \A c \in Claimant :
       /\ IF pc[c] \in Engaged THEN job[c].run \in 1..(nextRun - 1) ELSE job[c].run = None
       /\ pc[c] = "live" => job[c].fromQueue
       /\ job[c].fromQueue => job[c].orig # None

OtherTypes ==
  /\ configured \in BOOLEAN /\ deleting \in BOOLEAN
  /\ found \in SUBSET Run /\ clock \in Nat
  /\ listed \in [Run -> BOOLEAN] /\ kill \in SUBSET Run
  /\ agent \in [Run -> Alive \cup {"none", "gone"}]
  /\ restarts \in 0..MaxRestarts

RowShapes ==
  \A r \in Run :
    /\ r < nextRun <=> row[r].state # "none"
    /\ row[r].state = "running" => row[r].bound
    /\ row[r].state \in {"claimed", "skipped"} => ~row[r].bound

LEMMA TypeOKParts ==
  TypeOK <=> row \in [Run -> Row] /\ ClaimTypes /\ OtherTypes /\ RowShapes
BY DEF TypeOK, ClaimTypes, OtherTypes, RowShapes

LEMMA NoJobFacts == NoJob \in Job /\ NoJob.run = None /\ ~NoJob.fromQueue
BY DEF NoJob, Job, None

LEMMA StillClaims ==
  ASSUME ClaimTypes, UNCHANGED <<pc, job, nextRun>>
  PROVE  ClaimTypes' /\ Quiet
BY DEF ClaimTypes, Quiet, JobStep

\* A claimant that quits leaves the others as they are.
LEMMA QuitKeeps ==
  ASSUME ClaimTypes, NEW c \in Claimant, Quit(c), nextRun' = nextRun
  PROVE  ClaimTypes' /\ Quiet
<1>1. /\ pc' \in [Claimant -> Phase] /\ job' \in [Claimant -> Job]
      /\ pc'[c] = "idle" /\ job'[c] = NoJob
      /\ \A d \in Claimant : d # c => pc'[d] = pc[d] /\ job'[d] = job[d]
  BY NoJobFacts DEF ClaimTypes, Quit, Phase
<1>2. Quiet
  BY <1>1, NoJobFacts DEF Quiet, JobStep, Unbound, Triggering
<1> QED
  BY <1>1, <1>2, NoJobFacts DEF ClaimTypes, Engaged, Triggering

\* So does one that goes on,
LEMMA GoOnKeeps ==
  ASSUME ClaimTypes, NEW c \in Claimant, NEW from, NEW to \in Phase,
         Step(c, from, to), UNCHANGED job, nextRun' = nextRun,
         from \in Engaged <=> to \in Engaged,
         to \in Unbound => from \in Unbound, to = "live" => job[c].fromQueue,
         to \in Triggering => from \in Triggering \/ Wins(c)
  PROVE  ClaimTypes' /\ Quiet
<1>1. /\ pc' \in [Claimant -> Phase] /\ pc[c] = from /\ pc'[c] = to
      /\ \A d \in Claimant : d # c => pc'[d] = pc[d]
  BY DEF ClaimTypes, Step
<1>2. Quiet
  BY <1>1 DEF Quiet, JobStep
<1> QED
  BY <1>1, <1>2 DEF ClaimTypes

\* and one that is about to claim.
LEMMA TakeUpKeeps ==
  ASSUME ClaimTypes, NEW c \in Claimant, NEW from, NEW to \in {"checked", "vetted"},
         Step(c, from, to), nextRun' = nextRun, NEW j \in Job, job' = [job EXCEPT ![c] = j],
         j.run = None, j.fromQueue => j.orig # None
  PROVE  ClaimTypes' /\ Quiet
BY DEF ClaimTypes, Step, Quiet, JobStep, Phase, Triggering, Unbound, Engaged

\* A claimant whose run is inserted has it; the others keep theirs.
LEMMA InsertKeeps ==
  ASSUME ClaimTypes, NEW c \in Claimant, NEW s \in Nat, Insert(c, s), nextRun <= MaxRuns
  PROVE  ClaimTypes'
<1>1. nextRun \in Run /\ nextRun' = nextRun + 1 /\ nextRun' \in 1..(MaxRuns + 1)
  BY ScheduledAssumption DEF ClaimTypes, Insert, Run
<1>2. job' \in [Claimant -> Job] /\ pc' \in [Claimant -> Phase]
  BY <1>1 DEF ClaimTypes, Insert, Job, Phase
<1>3. /\ job'[c].run = nextRun /\ job'[c].fromQueue = job[c].fromQueue
      /\ job'[c].orig = job[c].orig /\ pc'[c] = "claimed"
      /\ \A d \in Claimant : d # c => job'[d] = job[d] /\ pc'[d] = pc[d]
  BY <1>1 DEF ClaimTypes, Insert, Job
<1>4. ASSUME NEW d \in Claimant
      PROVE  /\ IF pc'[d] \in Engaged THEN job'[d].run \in 1..(nextRun' - 1) ELSE job'[d].run = None
             /\ pc'[d] = "live" => job'[d].fromQueue
             /\ job'[d].fromQueue => job'[d].orig # None
  BY <1>1, <1>3 DEF ClaimTypes, Engaged
<1> QED
  BY <1>1, <1>2, <1>4 DEF ClaimTypes

-----------------------------------------------------------------------------
(* Every step keeps the types of the claimants and of the other variables *)

LEMMA ReplayJob ==
  ASSUME NEW orig \in Run, NEW q \in BOOLEAN
  PROVE  LET j == [NoJob EXCEPT !.orig = orig, !.fromQueue = q]
         IN  j \in Job /\ j.run = None /\ j.orig # None
<1>1. orig # None
  BY ScheduledAssumption DEF None, Run
<1> QED
  BY <1>1 DEF NoJob, Job

LEMMA SlotJob ==
  ASSUME NEW s \in Now
  PROVE  LET j == [NoJob EXCEPT !.slot = s] IN j \in Job /\ j.run = None /\ ~j.fromQueue
<1>1. s \in Nat
  BY ScheduledAssumption DEF Now
<1> QED
  BY <1>1 DEF NoJob, Job, None

\* The step of an insertion
Inserts == nextRun \in Run /\ \E c \in Claimant, s \in Nat : Insert(c, s)

LEMMA ClaimsStep ==
  ASSUME IInv, [Next]_vars
  PROVE  ClaimTypes' /\ (Quiet \/ Inserts)
<1>1. TypeOK /\ ClaimTypes
  BY TypeOKParts DEF IInv
<1> USE <1>1
<1> DEFINE Goal == ClaimTypes' /\ (Quiet \/ Inserts)
<1>still. ASSUME UNCHANGED <<pc, job, nextRun>> PROVE Goal
  BY <1>still, StillClaims
<1>quit. ASSUME NEW c \in Claimant, Quit(c), nextRun' = nextRun PROVE Goal
  BY <1>quit, QuitKeeps
<1>sched. "scheduler" \in Claimant /\ Web \subseteq Claimant
  BY DEF Claimant
<1>go. ASSUME NEW c \in Claimant, NEW from, NEW to \in Phase \ {"live"},
              Step(c, from, to), UNCHANGED job, nextRun' = nextRun,
              from \in Engaged <=> to \in Engaged, to \in Unbound => from \in Unbound,
              to \in Triggering => from \in Triggering \/ Wins(c)
       PROVE  Goal
  BY <1>go, GoOnKeeps
<1>take. ASSUME NEW c \in Claimant, NEW from, NEW to \in {"checked", "vetted"},
                Step(c, from, to), nextRun' = nextRun,
                NEW j \in Job, job' = [job EXCEPT ![c] = j],
                j.run = None, j.fromQueue => j.orig # None
         PROVE  Goal
  BY <1>take, TakeUpKeeps
<1> HIDE DEF Goal
<1>SchedulerCheck. ASSUME SchedulerCheck PROVE Goal
  <2>1. CASE Step("scheduler", "due", "idle") /\ UNCHANGED job
    BY <1>SchedulerCheck, <1>sched, <1>go, <2>1
       DEF SchedulerCheck, storeVars, Phase, Engaged, Triggering, Unbound
  <2>2. CASE Step("scheduler", "due", "checked")
    <3>1. PICK s \in Now : job' = [job EXCEPT !["scheduler"] = [NoJob EXCEPT !.slot = s]]
      BY <1>SchedulerCheck, <1>sched, <2>2 DEF SchedulerCheck, Step, ClaimTypes
    <3> QED
      BY <1>SchedulerCheck, <1>sched, <2>2, <3>1, SlotJob, <1>take DEF SchedulerCheck, storeVars
  <2> QED
    BY <1>SchedulerCheck, <2>1, <2>2 DEF SchedulerCheck
<1>RunNow. ASSUME NEW c \in Web, RunNow(c) PROVE Goal
  <2>1. PICK s \in Now : job' = [job EXCEPT ![c] = [NoJob EXCEPT !.slot = s]]
    BY <1>RunNow DEF RunNow
  <2> QED
    BY <1>RunNow, <1>sched, <2>1, SlotJob, <1>take DEF RunNow, storeVars
<1>Replay. ASSUME NEW c \in Web, Replay(c) PROVE Goal
  <2>1. PICK r \in Run, q \in BOOLEAN :
          job' = [job EXCEPT ![c] = [NoJob EXCEPT !.orig = r, !.fromQueue = q]]
    BY <1>Replay DEF Replay
  <2> QED
    BY <1>Replay, <1>sched, <2>1, ReplayJob, <1>take DEF Replay, storeVars
<1>ReplayCheck. ASSUME NEW c \in Web, ReplayCheck(c) PROVE Goal
  <2>1. CASE Step(c, "vetted", "checked") /\ UNCHANGED job
    BY <1>ReplayCheck, <1>sched, <1>go, <2>1
       DEF ReplayCheck, storeVars, Phase, Engaged, Triggering, Unbound
  <2>2. CASE Quit(c)
    BY <1>ReplayCheck, <1>sched, <1>quit, <2>2 DEF ReplayCheck, storeVars
  <2> QED
    BY <1>ReplayCheck, <2>1, <2>2 DEF ReplayCheck
<1>Claim. ASSUME NEW c \in Claimant, Claim(c) PROVE Goal
  <2>1. PICK s \in Slots(c) : Insert(c, s) \/ (Quit(c) /\ UNCHANGED nextRun)
    BY <1>Claim DEF Claim
  <2>2. s \in Nat
    BY ScheduledAssumption DEF Slots, Now, ClaimTypes, Job
  <2>3. CASE Insert(c, s)
    <3>1. nextRun \in Run
      BY <1>Claim, ScheduledAssumption DEF Claim, ClaimTypes, Run
    <3> QED
      BY <1>Claim, <2>2, <2>3, <3>1, InsertKeeps DEF Claim, Goal, Inserts
  <2>4. CASE Quit(c) /\ UNCHANGED nextRun
    BY <2>4, <1>quit
  <2> QED
    BY <2>1, <2>3, <2>4
<1>Decide. ASSUME NEW c \in Claimant, Decide(c) PROVE Goal
  <2>1. CASE pc' = [pc EXCEPT ![c] = "won"] /\ UNCHANGED job /\ Wins(c)
    BY <1>Decide, <1>go, <2>1 DEF Decide, Step, Phase, Engaged, Triggering, Unbound
  <2>2. CASE Quit(c)
    BY <1>Decide, <1>quit, <2>2 DEF Decide
  <2> QED
    BY <1>Decide, <2>1, <2>2 DEF Decide, Wins
<1>SpawnFails. ASSUME NEW c \in Claimant, SpawnFails(c) PROVE Goal
  BY <1>SpawnFails, <1>quit DEF SpawnFails
<1>Spawn. ASSUME NEW c \in Claimant, Spawn(c) PROVE Goal
  BY <1>Spawn, <1>go DEF Spawn, storeVars, Phase, Engaged, Triggering, Unbound
<1>Bind. ASSUME NEW c \in Claimant, Bind(c) PROVE Goal
  BY <1>Bind, <1>go DEF Bind, Phase, Engaged, Triggering, Unbound
<1>SendPrompt. ASSUME NEW c \in Claimant, SendPrompt(c) PROVE Goal
  <2>1. CASE Quit(c)
    BY <1>SendPrompt, <1>quit, <2>1 DEF SendPrompt
  <2>2. CASE pc' = [pc EXCEPT ![c] = "live"] /\ UNCHANGED job /\ job[c].fromQueue
    <3>1. Step(c, "bound", "live") /\ nextRun' = nextRun
      BY <1>SendPrompt, <2>2 DEF SendPrompt, Step
    <3> QED
      BY <2>2, <3>1, GoOnKeeps DEF Goal, Phase, Engaged, Triggering, Unbound
  <2> QED
    BY <1>SendPrompt, <2>1, <2>2 DEF SendPrompt, AfterPrompt
<1>Consume. ASSUME NEW c \in Claimant, Consume(c) PROVE Goal
  BY <1>Consume, <1>quit DEF Consume
<1>Tick. ASSUME Tick PROVE Goal
  <2>1. CASE WatchdogReads
    BY <1>sched, <1>go, <2>1 DEF WatchdogReads, storeVars, Phase, Engaged, Triggering, Unbound
  <2>2. CASE WatchdogAborts
    BY <1>sched, <1>go, <2>2 DEF WatchdogAborts, Phase, Engaged, Triggering, Unbound
  <2>3. CASE Prune
    BY <1>sched, <1>go, <2>3 DEF Prune, Phase, Engaged, Triggering, Unbound
  <2> QED
    BY <1>Tick, <1>SchedulerCheck, <2>1, <2>2, <2>3 DEF Tick
<1>SchedulerPanics. ASSUME SchedulerPanics PROVE Goal
  BY <1>SchedulerPanics, <1>sched, <1>quit DEF SchedulerPanics
<1>Restart. ASSUME Restart PROVE Goal
  BY <1>Restart, NoJobFacts
     DEF Restart, Goal, Quiet, JobStep, Unbound, ClaimTypes, Phase, Engaged, Triggering
<1>Trigger. ASSUME NEW c \in Claimant, Trigger(c) PROVE Goal
  BY <1>Trigger, <1>Claim, <1>Decide, <1>SpawnFails, <1>Spawn, <1>Bind, <1>SendPrompt, <1>Consume
     DEF Trigger
<1>Agent. ASSUME NEW r \in Run, Agent(r) PROVE Goal
  BY <1>Agent, <1>still
     DEF Agent, AgentStarts, AgentFinishes, AgentExits, KillLands, KillGivesUp, storeVars, claimVars
<1>User. ASSUME (\E r \in Run : RemoveSession(r) \/ ConfirmDone(r)) \/ BeginDelete \/ EndDelete
         PROVE  Goal
  BY <1>User, <1>still DEF RemoveSession, ConfirmDone, BeginDelete, EndDelete, storeVars, claimVars
<1>Stutter. ASSUME UNCHANGED vars PROVE Goal
  BY <1>Stutter, <1>still DEF vars, storeVars, claimVars
<1>next. Goal
  BY <1>RunNow, <1>Replay, <1>ReplayCheck, <1>Trigger, <1>Tick, <1>SchedulerPanics, <1>Agent,
     <1>User, <1>Restart, <1>Stutter
     DEF Next
<1> QED
  BY <1>next DEF Goal

LEMMA OthersStep ==
  ASSUME IInv, [Next]_vars
  PROVE  OtherTypes'
<1>1. OtherTypes /\ ClaimTypes /\ TypeOK
  BY TypeOKParts DEF IInv
<1> USE <1>1 DEF OtherTypes
<1>2. \A s \in Now : s \in Nat
  BY ScheduledAssumption DEF Now
<1>Ask. ASSUME NEW c \in Web, RunNow(c) \/ Replay(c) \/ ReplayCheck(c) PROVE OtherTypes'
  BY <1>Ask, <1>2 DEF RunNow, Replay, ReplayCheck, storeVars, agentVars
<1>Claim. ASSUME NEW c \in Claimant, Claim(c) PROVE OtherTypes'
  <2>1. clock' \in Nat
    BY <1>Claim, <1>2 DEF Claim, Insert, Slots, ClaimTypes, Job
  <2> QED
    BY <1>Claim, <2>1 DEF Claim, agentVars
<1>Trigger. ASSUME NEW c \in Claimant, Trigger(c) PROVE OtherTypes'
  <2>1. CASE Decide(c) \/ SpawnFails(c) \/ Bind(c) \/ Consume(c)
    BY <2>1 DEF Decide, SpawnFails, Bind, Consume, agentVars
  <2>2. CASE Spawn(c)
    BY <2>2 DEF Spawn, storeVars, Alive
  <2>3. CASE SendPrompt(c)
    BY <2>3 DEF SendPrompt, Alive
  <2> QED
    BY <1>Trigger, <1>Claim, <2>1, <2>2, <2>3 DEF Trigger
<1>Tick. ASSUME Tick PROVE OtherTypes'
  <2>1. CASE WatchdogReads
    BY <2>1 DEF WatchdogReads, storeVars, agentVars
  <2>2. CASE WatchdogAborts
    BY <2>2 DEF WatchdogAborts, KillsOf, IdleTooLong
  <2>3. CASE Prune
    BY <2>3 DEF Prune, agentVars
  <2>4. CASE SchedulerCheck
    BY <2>4, <1>2 DEF SchedulerCheck, storeVars, agentVars
  <2> QED
    BY <1>Tick, <2>1, <2>2, <2>3, <2>4 DEF Tick
<1>Agent. ASSUME NEW r \in Run, Agent(r) PROVE OtherTypes'
  <2>1. CASE AgentStarts(r) \/ AgentFinishes(r)
    BY <2>1 DEF AgentStarts, AgentFinishes, storeVars, claimVars, Alive
  <2>2. CASE AgentExits(r)
    BY <2>2 DEF AgentExits, Exits, claimVars
  <2>3. CASE KillLands(r) \/ KillGivesUp(r)
    BY <2>3 DEF KillLands, KillGivesUp, Exits, storeVars, claimVars
  <2> QED
    BY <1>Agent, <2>1, <2>2, <2>3 DEF Agent
<1>Panic. ASSUME SchedulerPanics PROVE OtherTypes'
  BY <1>Panic, ScheduledAssumption DEF SchedulerPanics, agentVars
<1>User. ASSUME NEW r \in Run, RemoveSession(r) \/ ConfirmDone(r) PROVE OtherTypes'
  BY <1>User DEF RemoveSession, ConfirmDone, claimVars, agentVars
<1>Delete. ASSUME BeginDelete \/ EndDelete PROVE OtherTypes'
  BY <1>Delete DEF BeginDelete, EndDelete, claimVars, agentVars
<1>Restart. ASSUME Restart PROVE OtherTypes'
  <2>1. restarts' \in 0..MaxRestarts
    BY <1>Restart, ScheduledAssumption DEF Restart
  <2>2. agent' \in [Run -> Alive \cup {"none", "gone"}]
    BY <1>Restart DEF Restart
  <2> QED
    BY <1>Restart, <2>1, <2>2 DEF Restart
<1>Stutter. ASSUME UNCHANGED vars PROVE OtherTypes'
  BY <1>Stutter DEF vars, storeVars, claimVars, agentVars
<1> QED
  BY <1>Ask, <1>Trigger, <1>Tick, <1>Agent, <1>Panic, <1>User, <1>Delete, <1>Restart, <1>Stutter
     DEF Next

-----------------------------------------------------------------------------
(* The invariant is inductive *)

LEMMA ShapesStep ==
  ASSUME IInv, [Next]_vars
  PROVE  RowShapes'
<1>1. ClaimTypes /\ RowShapes /\ row \in [Run -> Row]
  BY TypeOKParts DEF IInv
<1>2. row' \in [Run -> Row] /\ \A r \in Run : Moves(r)
  BY RowsMove
<1>3. \/ nextRun' = nextRun
      \/ /\ nextRun' = nextRun + 1
         /\ nextRun \in Run => row'[nextRun].state = "claimed"
  <2>1. CASE Quiet
    BY <2>1 DEF Quiet
  <2>2. CASE Inserts
    <3>1. PICK c \in Claimant, s \in Nat : Insert(c, s)
      BY <2>2 DEF Inserts
    <3> QED
      BY <1>1, <3>1 DEF Insert, Update, NewRow, NoRow
  <2> QED
    BY <2>1, <2>2, ClaimsStep
<1>4. ASSUME NEW r \in Run
      PROVE  /\ r < nextRun' <=> row'[r].state # "none"
             /\ row'[r].state = "running" => row'[r].bound
             /\ row'[r].state \in {"claimed", "skipped"} => ~row'[r].bound
  <2>0. nextRun \in Nat /\ r \in Nat
    BY <1>1, ScheduledAssumption DEF ClaimTypes, Run
  <2>1. CASE Deleted(r)
    BY <1>1, <1>3, <2>0, <2>1, DeletedFacts DEF Deleted, RowShapes
  <2>2. CASE Kept(r)
    BY <1>1, <1>3, <2>0, <2>2 DEF Kept, RowShapes
  <2>3. CASE Ends(r)
    BY <1>1, <1>3, <2>0, <2>3 DEF Ends, RowShapes, Terminal, Active, ActiveState
  <2>4. CASE BindsTo(r)
    BY <1>1, <1>3, <2>0, <2>4 DEF BindsTo, RowShapes, Active, ActiveState
  <2>5. CASE Inserted(r)
    BY <1>1, <1>3, <2>0, <2>5 DEF Inserted
  <2> QED
    BY <1>2, <2>1, <2>2, <2>3, <2>4, <2>5 DEF Moves
<1> QED
  BY <1>4 DEF RowShapes

LEMMA JobsStep ==
  ASSUME IInv, [Next]_vars
  PROVE  JobsDistinct' /\ NotYetRunning'
<1>1. ClaimTypes /\ RowShapes /\ row \in [Run -> Row] /\ JobsDistinct /\ NotYetRunning
  BY TypeOKParts DEF IInv
<1>2. \A r \in Run : Moves(r)
  BY RowsMove
<1>3. \A c \in Claimant : pc[c] \in Unbound => job[c].run \in Run
  BY <1>1, ScheduledAssumption DEF ClaimTypes, Unbound, Engaged, Triggering, Run
<1>4. CASE Quiet
  <2>1. JobsDistinct'
    BY <1>1, <1>4 DEF JobsDistinct, Quiet, JobStep
  <2>2. ASSUME NEW c \in Claimant, pc'[c] \in Unbound PROVE row'[job'[c].run].state # "running"
    <3> DEFINE r == job[c].run
    <3>1. job'[c].run = r /\ pc[c] \in Unbound /\ r \in Run
      BY <1>3, <1>4, <2>2 DEF Quiet, JobStep
    <3>2. row[r].state # "running"
      BY <1>1, <3>1 DEF NotYetRunning, Unbound
    <3>3. ~BindsTo(r)
      <4>1. SUFFICES ASSUME NEW d \in Claimant, Bind(d), job[d].run = r PROVE FALSE
        BY DEF BindsTo
      <4>2. r # None
        BY <3>1, ScheduledAssumption DEF Run, None
      <4>3. c = d
        BY <1>1, <4>1, <4>2 DEF JobsDistinct
      <4> QED
        BY <1>1, <2>2, <4>1, <4>3 DEF Bind, Step, Unbound, ClaimTypes
    <3>4. CASE Deleted(r) \/ Kept(r) \/ Ends(r) \/ Inserted(r)
      BY <3>1, <3>2, <3>4, DeletedFacts DEF Deleted, Kept, Ends, Inserted, Terminal
    <3> QED
      BY <1>2, <3>1, <3>3, <3>4 DEF Moves
  <2> QED
    BY <2>1, <2>2 DEF NotYetRunning, Unbound
<1>5. CASE Inserts
  <2>1. PICK c \in Claimant, s \in Nat : Insert(c, s)
    BY <1>5 DEF Inserts
  <2>2. /\ job'[c].run = nextRun /\ pc'[c] = "claimed"
        /\ \A d \in Claimant \ {c} : job'[d] = job[d] /\ pc'[d] = pc[d]
    BY <1>1, <2>1 DEF Insert, ClaimTypes, Job
  <2>3. \A d \in Claimant : job[d].run # nextRun
    BY <1>1, ScheduledAssumption DEF ClaimTypes, None
  <2>4. JobsDistinct'
    BY <1>1, <2>2, <2>3 DEF JobsDistinct
  <2>5. ASSUME NEW d \in Claimant, pc'[d] \in Unbound PROVE row'[job'[d].run].state # "running"
    <3>1. CASE d = c
      BY <1>1, <1>5, <2>1, <2>2, <3>1 DEF Inserts, Insert, Update, NewRow, NoRow
    <3>2. CASE d # c
      BY <1>1, <1>3, <2>1, <2>2, <2>3, <2>5, <3>2
         DEF NotYetRunning, Unbound, Insert, Update
    <3> QED
      BY <3>1, <3>2
  <2> QED
    BY <2>4, <2>5 DEF NotYetRunning, Unbound
<1> QED
  BY <1>4, <1>5, ClaimsStep

LEMMA IInvInit == Init => IInv
<1>1. NoRow \in Row /\ NoRow.state = "none" /\ ~NoRow.bound
  BY DEF NoRow, Row, Absent, None, Unknown
<1> SUFFICES ASSUME Init PROVE IInv
  OBVIOUS
<1>2. row \in [Run -> Row] /\ RowShapes
  BY <1>1, ScheduledAssumption DEF Init, RowShapes, Run
<1>3. ClaimTypes
  BY NoJobFacts, ScheduledAssumption DEF Init, ClaimTypes, Phase, Engaged, Triggering
<1>4. OtherTypes
  <2>1. clock \in Nat /\ restarts \in 0..MaxRestarts
    BY ScheduledAssumption DEF Init
  <2>2. agent \in [Run -> Alive \cup {"none", "gone"}] /\ listed \in [Run -> BOOLEAN]
    BY DEF Init
  <2>3. found \in SUBSET Run /\ kill \in SUBSET Run
    BY DEF Init
  <2>4. configured \in BOOLEAN /\ deleting \in BOOLEAN
    BY DEF Init
  <2> QED
    BY <2>1, <2>2, <2>3, <2>4 DEF OtherTypes
<1>5. JobsDistinct /\ NotYetRunning
  BY NoJobFacts DEF Init, JobsDistinct, NotYetRunning
<1> QED
  BY <1>2, <1>3, <1>4, <1>5, TypeOKParts DEF IInv

LEMMA IInvStep == IInv /\ [Next]_vars => IInv'
BY RowsMove, ClaimsStep, OthersStep, ShapesStep, JobsStep, TypeOKParts
   DEF IInv, TypeOK, ClaimTypes, OtherTypes, RowShapes

LEMMA IInvHolds == Spec => []IInv
BY IInvInit, IInvStep, PTL DEF Spec

\* Every reachable state is well typed: rows in order, a session exactly from the
\* moment a row is running, a loser of the tie-break never with one.
THEOREM TypeCorrect == Spec => []TypeOK
<1>1. IInv => TypeOK
  BY DEF IInv
<1> QED
  BY <1>1, IInvHolds, PTL

-----------------------------------------------------------------------------
(* Final ends and the confirmation queue *)

\* However many requests, ticks, boundaries, removals and restarts: how a run first
\* ended is never rewritten.
THEOREM VerdictIsFinalHolds == Spec => VerdictIsFinal
<1>1. IInv /\ [Next]_vars =>
        [\A r \in Run : row[r].state \in Terminal =>
           \/ row'[r].state = "deleted"
           \/ row'[r].state = row[r].state /\ row'[r].kind = row[r].kind]_vars
  <2>1. SUFFICES ASSUME IInv, [Next]_vars, NEW r \in Run, row[r].state \in Terminal
                 PROVE  \/ row'[r].state = "deleted"
                        \/ row'[r].state = row[r].state /\ row'[r].kind = row[r].kind
    OBVIOUS
  <2>2. ~Active(r) /\ row[r].state # "none"
    BY <2>1 DEF Terminal, Active, ActiveState
  <2>3. ~Inserted(r)
    BY <2>1, <2>2 DEF Inserted, IInv, TypeOK
  <2>4. Deleted(r) \/ Kept(r)
    BY <2>1, <2>2, <2>3, RowsMove DEF Moves, Ends, BindsTo
  <2> QED
    BY <2>4, DeletedFacts DEF Deleted, Kept
<1> QED
  BY <1>1, IInvHolds, PTL DEF Spec, VerdictIsFinal

\* Nothing but a human's decision or the deletion of the task takes a run out of the
\* confirmation queue.
THEOREM PendingNeverDroppedHolds == Spec => PendingNeverDropped
<1>1. IInv /\ [Next]_vars =>
        [\A r \in Run : Pending(r) =>
           Pending(r)' \/ row'[r].confirm # "null" \/ ~configured']_vars
  <2>1. SUFFICES ASSUME IInv, [Next]_vars, NEW r \in Run, Pending(r)
                 PROVE  Pending(r)' \/ row'[r].confirm # "null" \/ ~configured'
    OBVIOUS
  <2>2. ~Active(r) /\ row[r].state # "none"
    BY <2>1 DEF Pending, Active, ActiveState
  <2>3. ~Inserted(r)
    BY <2>1, <2>2 DEF Inserted, IInv, TypeOK
  <2>4. Deleted(r) \/ Kept(r)
    BY <2>1, <2>2, <2>3, RowsMove DEF Moves, Ends, BindsTo
  <2>5. configured \in BOOLEAN /\ configured' \in BOOLEAN
    BY <2>1, IInvStep DEF IInv, TypeOK
  <2> QED
    BY <2>1, <2>4, <2>5 DEF Deleted, Kept, Pending
<1> QED
  BY <1>1, IInvHolds, PTL DEF Spec, PendingNeverDropped

-----------------------------------------------------------------------------
(* The exclusive slot *)

SlotInv == IInv /\ HolderIsEarliest

\* A run newly holds the slot only by winning the tie-break, which leaves the rows.
LEMMA HeldStep ==
  ASSUME IInv, [Next]_vars, NEW r \in Run, Held(r)'
  PROVE  Held(r) \/ (ClaimWon(r) /\ row' = row)
<1>1. ClaimTypes /\ RowShapes
  BY TypeOKParts DEF IInv
<1>2. Active(r)' /\ r # None
  BY ScheduledAssumption DEF Held, Run, None
<1>3. Kept(r) \/ BindsTo(r) \/ Inserted(r)
  BY <1>2, RowsMove, DeletedFacts DEF Moves, Deleted, Ends, Active, ActiveState, Terminal
<1>4. CASE BindsTo(r)
  BY <1>4 DEF BindsTo, Bind, Step, Held, Triggering
<1>5. CASE Quiet /\ Kept(r)
  <2>1. Active(r)
    BY <1>2, <1>5 DEF Kept, Active
  <2>2. CASE row[r].state = "running"
    BY <2>1, <2>2 DEF Held
  <2>3. CASE row[r].state # "running"
    <3>1. PICK c \in Claimant : job'[c].run = r /\ pc'[c] \in Triggering
      BY <1>5, <2>3 DEF Kept, Held
    <3>2. job[c].run = r /\ (pc[c] \in Triggering \/ Wins(c))
      BY <1>2, <1>5, <3>1 DEF Quiet, JobStep
    <3> QED
      BY <2>1, <3>2 DEF Held, Wins
  <2> QED
    BY <2>2, <2>3
<1>6. CASE Inserts
  <2>1. PICK c \in Claimant, s \in Nat : Insert(c, s)
    BY <1>6 DEF Inserts
  <2>2. /\ job'[c].run = nextRun /\ pc'[c] = "claimed"
        /\ \A d \in Claimant \ {c} : job'[d] = job[d] /\ pc'[d] = pc[d]
    BY <1>1, <2>1 DEF Insert, ClaimTypes, Job
  <2>3. \A d \in Claimant : job[d].run # nextRun
    BY <1>1, ScheduledAssumption DEF ClaimTypes, None
  <2>4. row'[nextRun].state = "claimed"
    BY <1>6, <2>1 DEF Inserts, Insert, Update, NewRow, NoRow, IInv, TypeOK
  <2>5. r # nextRun
    BY <2>2, <2>3, <2>4 DEF Held, Triggering
  <2>6. row'[r] = row[r]
    BY <2>1, <2>5 DEF Insert, Update, IInv, TypeOK
  <2> QED
    BY <2>2, <2>5, <2>6, <1>2 DEF Held, Active
<1>7. CASE Quiet /\ Inserted(r)
  BY <1>1, <1>7 DEF Quiet, Inserted, ClaimTypes
<1> QED
  BY <1>3, <1>4, <1>5, <1>6, <1>7, ClaimsStep

LEMMA HolderIsEarliestInit == Init => HolderIsEarliest
BY DEF Init, HolderIsEarliest, Active, NoRow, ActiveState

LEMMA HolderIsEarliestStep == SlotInv /\ [Next]_vars => HolderIsEarliest'
<1>1. SUFFICES ASSUME SlotInv, [Next]_vars, NEW r \in Run, NEW s \in Run, Held(r)', Active(s)'
               PROVE  r <= s
  BY DEF HolderIsEarliest
<1>2. nextRun \in Nat /\ r \in Nat /\ s \in Nat
  BY <1>1, ScheduledAssumption DEF SlotInv, IInv, TypeOK, Run
<1>3. Held(r) \/ ClaimWon(r)
  BY <1>1, HeldStep DEF SlotInv
<1>4. Active(r)
  BY <1>3 DEF Held, ClaimWon
<1>5. r < nextRun
  BY <1>1, <1>4 DEF SlotInv, IInv, TypeOK, Active, ActiveState
<1>6. CASE Active(s)
  BY <1>1, <1>3, <1>6 DEF SlotInv, HolderIsEarliest, ClaimWon
<1>7. CASE ~Active(s)
  <2>1. Inserted(s)
    BY <1>1, <1>7, RowsMove, DeletedFacts
       DEF SlotInv, Moves, Deleted, Kept, Ends, BindsTo, Active, ActiveState
  <2> QED
    BY <1>2, <1>5, <2>1 DEF Inserted
<1> QED
  BY <1>6, <1>7

\* However the claimants interleave, the run that holds the slot is the earliest of
\* the active ones: no later claimant passes claim_won beside it.
THEOREM HolderIsEarliestHolds == Spec => []HolderIsEarliest
BY HolderIsEarliestInit, HolderIsEarliestStep, IInvHolds, PTL DEF Spec, SlotInv

\* The holder is the run that holds the slot, now and after the step.
LEMMA HolderFacts ==
  /\ (\A r \in Run : ~Held(r)) => holder = None
  /\ (\E r \in Run : Held(r)) => holder \in Run /\ Held(holder)
BY DEF holder

LEMMA NextHolderFacts ==
  /\ (\A r \in Run : ~Held(r)') => holder' = None
  /\ \A h \in Run : (Held(h)' /\ \A r \in Run : Held(r)' => r = h) => holder' = h
BY DEF holder

\* A run that is over stays over.
LEMMA OverGrows ==
  ASSUME IInv, [Next]_vars
  PROVE  over' \in SUBSET Run /\ over \subseteq over'
<1>1. ASSUME NEW r \in over PROVE r \in over'
  <2>1. r \in Run /\ row[r].state \in Terminal \cup {"deleted"}
    BY <1>1 DEF over
  <2>2. ~Active(r) /\ row[r].state # "none"
    BY <2>1 DEF Terminal, Active, ActiveState
  <2>3. ~Inserted(r)
    BY <2>1, <2>2 DEF Inserted, IInv, TypeOK
  <2>4. Deleted(r) \/ Kept(r)
    BY <2>1, <2>2, <2>3, RowsMove DEF Moves, Ends, BindsTo
  <2> QED
    BY <2>1, <2>4, DeletedFacts DEF Deleted, Kept, over
<1> QED
  BY <1>1 DEF over

\* The holder is the only run that holds the slot.
LEMMA OneHolder ==
  ASSUME SlotInv, NEW r \in Run, NEW s \in Run, Held(r), Held(s)
  PROVE  r = s
<1>1. r \in Nat /\ s \in Nat
  BY ScheduledAssumption DEF Run
<1>2. r <= s /\ s <= r
  BY DEF SlotInv, HolderIsEarliest, Held
<1> QED
  BY <1>1, <1>2

LEMMA SlotInvStep == SlotInv /\ [Next]_vars => SlotInv'
BY IInvStep, HolderIsEarliestStep DEF SlotInv

\* A run that takes the slot finds it free: it is the earliest active run.
LEMMA SlotStep ==
  ASSUME SlotInv, [Next]_vars
  PROVE  Slot!Next
<1>1. SlotInv' /\ over' \in SUBSET Run /\ over \subseteq over'
  BY SlotInvStep, OverGrows DEF SlotInv
<1>2. \A h \in Run : Held(h)' => h \notin over'
  BY DEF Held, Active, ActiveState, over, Terminal
<1>3. CASE \A r \in Run : ~Held(r)'
  <2>1. holder' = None /\ None \notin over'
    BY <1>1, <1>3, NextHolderFacts, ScheduledAssumption DEF Run, None
  <2> QED
    BY <1>1, <2>1 DEF Slot!Next, Slot!Leave, Slot!Free, None
<1>4. CASE \E h \in Run : Held(h)'
  <2>1. PICK h \in Run : Held(h)'
    BY <1>4
  <2>2. \A r \in Run : Held(r)' => r = h
    <3>1. SUFFICES ASSUME NEW r \in Run, Held(r)' PROVE r = h
      OBVIOUS
    <3>2. r \in Nat /\ h \in Nat
      BY ScheduledAssumption DEF Run
    <3>3. r <= h /\ h <= r
      BY <1>1, <2>1, <3>1 DEF SlotInv, HolderIsEarliest, Held
    <3> QED
      BY <3>2, <3>3
  <2>3. holder' = h
    BY <2>1, <2>2, NextHolderFacts
  <2>4. CASE Held(h)
    <3>1. holder = h
      BY <2>4, HolderFacts, OneHolder
    <3> QED
      BY <1>1, <1>2, <2>1, <2>3, <3>1 DEF Slot!Next, Slot!Leave
  <2>5. CASE ~Held(h)
    <3>1. ClaimWon(h) /\ row' = row
      BY <2>1, <2>5, HeldStep DEF SlotInv
    <3>2. over' = over
      BY <3>1 DEF over
    <3>3. \A r \in Run : ~Held(r)
      <4>1. SUFFICES ASSUME NEW r \in Run, Held(r) PROVE FALSE
        OBVIOUS
      <4>2. r \in Nat /\ h \in Nat
        BY ScheduledAssumption DEF Run
      <4>3. r <= h /\ h <= r
        BY <3>1, <4>1 DEF SlotInv, HolderIsEarliest, ClaimWon, Held
      <4> QED
        BY <2>5, <4>1, <4>2, <4>3
    <3>4. holder = None
      BY <3>3, HolderFacts
    <3> QED
      BY <1>2, <2>1, <2>3, <3>2, <3>4 DEF Slot!Next, Slot!Acquire, Slot!Free, None
  <2> QED
    BY <2>4, <2>5
<1> QED
  BY <1>3, <1>4

\* The checks, claims and tie-breaks of any number of requests and of the scheduler
\* implement an exclusive slot: a run takes it only while it is free, and a run
\* that is over never takes it again.
THEOREM SlotIsExclusiveHolds == Spec => SlotIsExclusive
<1>1. Init => Slot!Init
  <2>1. SUFFICES ASSUME Init PROVE Slot!Init
    OBVIOUS
  <2>2. \A r \in Run : row[r].state = "none"
    BY <2>1 DEF Init, NoRow
  <2>3. over = {}
    BY <2>2 DEF over, Terminal
  <2>4. \A r \in Run : ~Held(r)
    BY <2>2 DEF Held, Active, ActiveState
  <2> QED
    BY <2>3, <2>4, HolderFacts DEF Slot!Init, Slot!Free, None
<1>2. Init => SlotInv
  BY IInvInit, HolderIsEarliestInit DEF SlotInv
<1>3. SlotInv /\ [Next]_vars => [Slot!Next]_<<holder, over>>
  BY SlotStep
<1> QED
  BY <1>1, <1>2, <1>3, SlotInvStep, PTL DEF Spec, SlotIsExclusive, Slot!Spec
-----------------------------------------------------------------------------
(* The rows of live agents *)

Covered(r) ==
  \/ Active(r) \/ row[r].state = "deleted"
  \/ row[r].state = "aborted" /\ row[r].kind = "timeout"

\* A row not yet inserted has no agent, a claimant makes the agent of its run and
\* keeps it from the prompt, and the row it has not bound is not over behind its back.
AgentsOfRows == \A r \in Run : r >= nextRun => agent[r] = "none"
AgentsOfClaims ==
  \A c \in Claimant :
    /\ pc[c] \in {"claimed", "won"} => agent[job[c].run] = "none"
    /\ pc[c] \in {"spawned", "bound"} => agent[job[c].run] \in {"ready", "gone"}
ClaimsCovered == \A c \in Claimant : pc[c] \in Unbound => Covered(job[c].run)

CoverInv == IInv /\ AgentsOfRows /\ AgentsOfClaims /\ ClaimsCovered /\ RowCoversRun

\* How a step may change an agent and its place in the map.
AgentKept(r) == agent'[r] = agent[r] /\ (listed'[r] => listed[r])
AgentMoves(r) ==
  \/ AgentKept(r)
  \/ \E c \in Claimant : Spawn(c) /\ job[c].run = r /\ agent'[r] = "ready"
  \/ /\ agent[r] = "ready" /\ agent'[r] = "prompted" /\ listed'[r] = listed[r]
     /\ \E c \in Claimant : pc[c] = "bound" /\ pc'[c] \in {"live", "idle"} /\ job[c].run = r
  \/ agent[r] = "prompted" /\ agent'[r] = "working" /\ listed'[r] = listed[r]
  \/ agent[r] = "working" /\ agent'[r] = "idle"
  \/ agent[r] \in Alive /\ agent'[r] = "gone"

LEMMA AgentsMove ==
  ASSUME IInv, [Next]_vars, NEW r \in Run
  PROVE  AgentMoves(r)
<1>1. /\ OtherTypes /\ ClaimTypes
      /\ agent \in [Run -> Alive \cup {"none", "gone"}] /\ listed \in [Run -> BOOLEAN]
  BY TypeOKParts DEF IInv, OtherTypes
<1>2. \A c \in Claimant : pc[c] \in Engaged => job[c].run \in Run
  BY JobHasRow DEF IInv
<1>same. ASSUME agent' = agent, listed' = listed PROVE AgentMoves(r)
  BY <1>same DEF AgentMoves, AgentKept
<1>Spawn. ASSUME NEW c \in Claimant, Spawn(c) PROVE AgentMoves(r)
  <2>1. CASE job[c].run = r
    BY <1>1, <1>Spawn, <2>1 DEF Spawn, AgentMoves
  <2>2. CASE job[c].run # r
    BY <1>1, <1>Spawn, <2>2 DEF Spawn, AgentMoves, AgentKept
  <2> QED
    BY <2>1, <2>2
<1>SendPrompt. ASSUME NEW c \in Claimant, SendPrompt(c) PROVE AgentMoves(r)
  <2>1. CASE agent' = agent
    BY <1>SendPrompt, <2>1, <1>same DEF SendPrompt
  <2>2. CASE agent' # agent
    <3>1. /\ agent[job[c].run] = "ready" /\ agent' = [agent EXCEPT ![job[c].run] = "prompted"]
          /\ listed' = listed /\ pc[c] = "bound"
      BY <1>SendPrompt, <2>2 DEF SendPrompt
    <3>2. pc'[c] \in {"live", "idle"}
      BY <1>1, <1>SendPrompt DEF SendPrompt, AfterPrompt, Quit, ClaimTypes
    <3> QED
      BY <1>1, <3>1, <3>2 DEF AgentMoves, AgentKept
  <2> QED
    BY <2>1, <2>2
<1>Trigger. ASSUME NEW c \in Claimant, Trigger(c) PROVE AgentMoves(r)
  BY <1>Trigger, <1>same, <1>Spawn, <1>SendPrompt
     DEF Trigger, Claim, Decide, SpawnFails, Bind, Consume, agentVars
<1>Exits. ASSUME NEW s \in Run, agent[s] \in Alive, Exits(s), listed' = listed
          PROVE  AgentMoves(r)
  BY <1>1, <1>Exits DEF Exits, AgentMoves, AgentKept
<1>Agent. ASSUME NEW s \in Run, Agent(s) PROVE AgentMoves(r)
  <2>1. CASE AgentStarts(s)
    BY <1>1, <2>1 DEF AgentStarts, AgentMoves, AgentKept
  <2>2. CASE AgentFinishes(s)
    BY <1>1, <2>2 DEF AgentFinishes, AgentMoves, AgentKept
  <2>3. CASE AgentExits(s)
    BY <2>3, <1>Exits DEF AgentExits
  <2>4. CASE KillLands(s)
    BY <2>4, <1>Exits, <1>same DEF KillLands
  <2>5. CASE KillGivesUp(s)
    BY <2>5, <1>same DEF KillGivesUp
  <2> QED
    BY <1>Agent, <2>1, <2>2, <2>3, <2>4, <2>5 DEF Agent
<1>RemoveSession. ASSUME NEW s \in Run, RemoveSession(s) PROVE AgentMoves(r)
  BY <1>1, <1>RemoveSession DEF RemoveSession, AgentMoves, AgentKept
<1>BeginDelete. ASSUME BeginDelete PROVE AgentMoves(r)
  BY <1>1, <1>BeginDelete DEF BeginDelete, AgentMoves, AgentKept
<1>Restart. ASSUME Restart PROVE AgentMoves(r)
  BY <1>1, <1>Restart DEF Restart, AgentMoves, AgentKept
<1>Rest. ASSUME \/ \E c \in Web : RunNow(c) \/ Replay(c) \/ ReplayCheck(c)
                \/ Tick \/ SchedulerPanics \/ EndDelete \/ UNCHANGED vars
                \/ \E s \in Run : ConfirmDone(s)
         PROVE  AgentMoves(r)
  BY <1>Rest, <1>same DEF RunNow, Replay, ReplayCheck, Tick, WatchdogReads, WatchdogAborts,
     Prune, SchedulerCheck, SchedulerPanics, EndDelete, ConfirmDone, vars, agentVars
<1> QED
  BY <1>Trigger, <1>Agent, <1>RemoveSession, <1>BeginDelete, <1>Restart, <1>Rest DEF Next

\* Why a step ends a run that the claim or the agent still needs covered.
EndsFor(r) ==
  \/ \E c \in Claimant : pc[c] \in {"claimed", "won"} /\ job[c].run = r /\ pc'[c] = "idle"
  \/ \E c \in Claimant :
       /\ pc[c] = "bound" /\ job[c].run = r /\ AgentKept(r)
       /\ ~(listed[r] /\ agent[r] = "ready")
  \/ agent[r] = "working" /\ agent'[r] \in {"idle", "gone"}
  \/ row[r].bound /\ ~listed'[r]
  \/ row'[r].state = "aborted" /\ row'[r].kind = "timeout"
  \/ agent'[r] \in {"none", "gone"} /\ \A c \in Claimant : pc'[c] = "idle"

LEMMA EndsAreFor ==
  ASSUME IInv, [Next]_vars, NEW r \in Run, Ends(r)
  PROVE  EndsFor(r)
<1>1. /\ TypeOK /\ row \in [Run -> Row] /\ row[r] \in Row
      /\ agent \in [Run -> Alive \cup {"none", "gone"}] /\ listed \in [Run -> BOOLEAN]
      /\ pc \in [Claimant -> Phase]
  BY TypeOKParts DEF IInv, OtherTypes, ClaimTypes
<1>2. \A c \in Claimant : pc[c] \in Engaged => job[c].run \in Run
  BY JobHasRow DEF IInv
<1>3. row'[r] # row[r] /\ Active(r)
  BY DEF Ends, Active, ActiveState, Terminal
<1>4. row'[r].state \in Terminal
  BY DEF Ends
<1>same. ASSUME row' = row PROVE FALSE
  BY <1>3, <1>same
<1>only. ASSUME NEW s \in Run, NEW x, Update(s, x), r # s PROVE FALSE
  BY <1>1, <1>3, <1>only DEF Update
<1>Quits. ASSUME NEW c \in Claimant, pc[c] \in {"claimed", "won"}, Quit(c),
                 NEW x, Update(job[c].run, x)
          PROVE  EndsFor(r)
  <2>1. job[c].run = r
    BY <1>Quits, <1>2, <1>only DEF Engaged, Triggering
  <2> QED
    BY <1>1, <1>Quits, <2>1 DEF EndsFor, Quit
<1>Claim. ASSUME NEW c \in Claimant, Claim(c) PROVE FALSE
  <2>1. PICK s \in Slots(c) : Insert(c, s)
    BY <1>Claim, <1>same DEF Claim
  <2>2. nextRun \in Run
    BY <1>1, <1>Claim, ScheduledAssumption DEF Claim, TypeOK, Run
  <2>3. r = nextRun
    BY <2>1, <2>2, <1>only DEF Insert
  <2> QED
    BY <1>1, <1>3, <2>3, ScheduledAssumption DEF TypeOK, Active, ActiveState, Run
<1>Decide. ASSUME NEW c \in Claimant, Decide(c) PROVE EndsFor(r)
  BY <1>Decide, <1>same, <1>Quits DEF Decide
<1>SpawnFails. ASSUME NEW c \in Claimant, SpawnFails(c) PROVE EndsFor(r)
  BY <1>SpawnFails, <1>Quits DEF SpawnFails
<1>Bind. ASSUME NEW c \in Claimant, Bind(c) PROVE FALSE
  <2>1. job[c].run = r
    BY <1>Bind, <1>2, <1>only DEF Bind, Step, Engaged, Triggering
  <2>2. row'[r] = BoundTo(row[r])
    BY <1>1, <1>Bind, <2>1 DEF Bind, Update
  <2> QED
    BY <1>1, <1>3, <1>4, <2>2, BoundToFacts DEF Active, Terminal
<1>SendPrompt. ASSUME NEW c \in Claimant, SendPrompt(c) PROVE EndsFor(r)
  <2>1. pc[c] = "bound" /\ job[c].run \in Run
    BY <1>SendPrompt, <1>2 DEF SendPrompt, Engaged, Triggering
  <2>2. job[c].run = r
    BY <1>SendPrompt, <2>1, <1>only DEF SendPrompt
  <2>3. CASE listed[r] /\ agent[r] = "ready"
    <3>1. row'[r] = [row[r] EXCEPT !.snapshot = (@ \/ Exists(r))]
      BY <1>1, <1>SendPrompt, <2>2, <2>3 DEF SendPrompt, Update
    <3>2. row'[r].state = row[r].state
      BY <1>1, <3>1 DEF Row
    <3> QED
      BY <1>3, <1>4, <3>2 DEF Active, ActiveState, Terminal
  <2>4. CASE ~(listed[r] /\ agent[r] = "ready")
    <3>1. agent' = agent /\ listed' = listed
      BY <1>SendPrompt, <2>2, <2>4 DEF SendPrompt
    <3> QED
      BY <2>1, <2>2, <2>4, <3>1 DEF EndsFor, AgentKept
  <2> QED
    BY <2>3, <2>4
<1>Consume. ASSUME NEW c \in Claimant, Consume(c) PROVE FALSE
  <2> DEFINE o == job[c].orig
  <2>1. CASE ~Pending(o)
    BY <1>1, <1>Consume, <1>same, <2>1 DEF Consume, Update
  <2>2. CASE Pending(o)
    <3>1. o \in Run
      BY <1>1, <1>Consume DEF Consume, TypeOK, Job
    <3>2. o = r
      BY <1>Consume, <2>2, <3>1, <1>only DEF Consume
    <3> QED
      BY <1>3, <2>2, <3>2 DEF Pending, Active, ActiveState
  <2> QED
    BY <2>1, <2>2
<1>Trigger. ASSUME NEW c \in Claimant, Trigger(c) PROVE EndsFor(r)
  BY <1>Trigger, <1>same, <1>Claim, <1>Decide, <1>SpawnFails, <1>Bind, <1>SendPrompt, <1>Consume
     DEF Trigger, Spawn, storeVars
<1>Exits. ASSUME NEW s \in Run, Exits(s) PROVE EndsFor(r)
  <2>1. s = r
    BY <1>Exits, <1>only DEF Exits
  <2>2. agent[r] = "working"
    BY <1>1, <1>Exits, <1>same, <2>1 DEF Exits, Update
  <2> QED
    BY <1>1, <1>Exits, <2>1, <2>2 DEF EndsFor, Exits
<1>Agent. ASSUME NEW s \in Run, Agent(s) PROVE EndsFor(r)
  <2>1. CASE AgentFinishes(s)
    <3>1. s = r
      BY <2>1, <1>only DEF AgentFinishes
    <3> QED
      BY <1>1, <2>1, <3>1 DEF AgentFinishes, EndsFor
  <2> QED
    BY <1>Agent, <1>same, <1>Exits, <2>1
       DEF Agent, AgentStarts, AgentExits, KillLands, KillGivesUp, storeVars
<1>WatchdogAborts. ASSUME WatchdogAborts PROVE EndsFor(r)
  <2>1. row'[r] = SetRunState(row[r], "aborted", "timeout")
    BY <1>3, <1>WatchdogAborts DEF WatchdogAborts
  <2>2. row'[r].state = "aborted" /\ row'[r].kind = "timeout"
    BY <1>1, <1>3, <2>1 DEF SetRunState, Active, Row
  <2> QED
    BY <2>2 DEF EndsFor
<1>Prune. ASSUME Prune PROVE FALSE
  BY <1>1, <1>3, <1>4, <1>Prune, DeletedFacts DEF Prune, Terminal
<1>Tick. ASSUME Tick PROVE EndsFor(r)
  BY <1>Tick, <1>WatchdogAborts, <1>Prune, <1>same
     DEF Tick, WatchdogReads, SchedulerCheck, storeVars
<1>SchedulerPanics. ASSUME SchedulerPanics PROVE EndsFor(r)
  BY <1>1, <1>3, <1>SchedulerPanics DEF SchedulerPanics, Orphaned, EndsFor, agentVars
<1>RemoveSession. ASSUME NEW s \in Run, RemoveSession(s) PROVE EndsFor(r)
  <2>1. s = r
    BY <1>RemoveSession, <1>only DEF RemoveSession
  <2>2. row[r].bound
    BY <1>1, <1>3, <1>RemoveSession, <2>1 DEF RemoveSession, AbortForSession, Update
  <2> QED
    BY <1>1, <1>RemoveSession, <2>1, <2>2 DEF RemoveSession, EndsFor
<1>BeginDelete. ASSUME BeginDelete PROVE EndsFor(r)
  BY <1>3, <1>BeginDelete DEF BeginDelete, EndsFor
<1>EndDelete. ASSUME EndDelete PROVE FALSE
  BY <1>3, <1>4, <1>EndDelete, DeletedFacts DEF EndDelete, Terminal
<1>Restart. ASSUME Restart PROVE EndsFor(r)
  BY <1>1, <1>Restart DEF Restart, EndsFor, Alive
<1>ConfirmDone. ASSUME NEW s \in Run, ConfirmDone(s) PROVE FALSE
  <2>1. s = r
    BY <1>ConfirmDone, <1>only DEF ConfirmDone
  <2> QED
    BY <1>3, <1>ConfirmDone, <2>1 DEF ConfirmDone, Pending, Active, ActiveState
<1>Rest. ASSUME (\E c \in Web : RunNow(c) \/ Replay(c) \/ ReplayCheck(c)) \/ UNCHANGED vars
         PROVE  FALSE
  BY <1>Rest, <1>same DEF RunNow, Replay, ReplayCheck, vars, storeVars
<1> QED
  BY <1>Trigger, <1>Agent, <1>Tick, <1>SchedulerPanics, <1>RemoveSession, <1>BeginDelete,
     <1>EndDelete, <1>Restart, <1>ConfirmDone, <1>Rest DEF Next

\* How a step moves a claimant that stands between its claim and its prompt.
ClaimMoves(c) ==
  \/ pc'[c] \notin {"claimed", "won", "spawned", "bound"}
  \/ pc'[c] = "claimed" /\ job'[c].run = nextRun /\ \E s \in Nat : Insert(c, s)
  \/ /\ job'[c].run = job[c].run
     /\ \/ pc'[c] = pc[c]
        \/ pc[c] = "claimed" /\ pc'[c] = "won"
        \/ Spawn(c)
        \/ Bind(c)

LEMMA ClaimantsMove ==
  ASSUME IInv, [Next]_vars, NEW c \in Claimant
  PROVE  ClaimMoves(c)
<1>1. /\ TypeOK /\ ClaimTypes
      /\ pc \in [Claimant -> Phase] /\ job \in [Claimant -> Job]
  BY TypeOKParts DEF IInv, ClaimTypes
<1>2. "scheduler" \in Claimant /\ \A d \in Web : d \in Claimant
  BY DEF Claimant
<1>same. ASSUME pc' = pc, job' = job PROVE ClaimMoves(c)
  BY <1>same DEF ClaimMoves
<1>to. ASSUME NEW d \in Claimant, NEW from, NEW to, Step(d, from, to),
              to \notin {"claimed", "won", "spawned", "bound"},
              job' = job \/ \E j : job' = [job EXCEPT ![d] = j]
       PROVE  ClaimMoves(c)
  <2>1. CASE d = c
    BY <1>1, <1>to, <2>1 DEF Step, ClaimMoves
  <2>2. CASE d # c
    BY <1>1, <1>to, <2>2 DEF Step, ClaimMoves
  <2> QED
    BY <2>1, <2>2
<1>Quit. ASSUME NEW d \in Claimant, Quit(d) PROVE ClaimMoves(c)
  BY <1>1, <1>Quit DEF Quit, ClaimMoves
<1>Claim. ASSUME NEW d \in Claimant, Claim(d) PROVE ClaimMoves(c)
  <2>1. PICK s \in Slots(d) : Insert(d, s) \/ Quit(d)
    BY <1>Claim DEF Claim
  <2>2. s \in Nat
    BY <1>1, ScheduledAssumption DEF Slots, Now, Job
  <2>3. CASE Insert(d, s) /\ d = c
    <3>1. job[c] \in Job /\ pc'[c] = "claimed" /\ job'[c].run = nextRun
      BY <1>1, <2>3 DEF Insert, Job
    <3> QED
      BY <2>2, <2>3, <3>1 DEF ClaimMoves
  <2>4. CASE Insert(d, s) /\ d # c
    BY <1>1, <2>4 DEF Insert, ClaimMoves
  <2> QED
    BY <2>1, <2>3, <2>4, <1>Quit
<1>Trigger. ASSUME NEW d \in Claimant, Trigger(d) PROVE ClaimMoves(c)
  <2>1. CASE Decide(d)
    BY <1>1, <1>Quit, <2>1 DEF Decide, ClaimMoves
  <2>2. CASE SpawnFails(d)
    BY <1>Quit, <2>2 DEF SpawnFails
  <2>3. CASE Spawn(d)
    BY <1>1, <2>3 DEF Spawn, Step, ClaimMoves
  <2>4. CASE Bind(d)
    BY <1>1, <2>4 DEF Bind, Step, ClaimMoves
  <2>5. CASE SendPrompt(d)
    <3>1. CASE Quit(d)
      BY <3>1, <1>Quit
    <3>2. CASE Step(d, "bound", "live") /\ job' = job
      BY <3>2, <1>to
    <3> QED
      BY <2>5, <3>1, <3>2 DEF SendPrompt, AfterPrompt, Step
  <2>6. CASE Consume(d)
    BY <1>Quit, <2>6 DEF Consume
  <2> QED
    BY <1>Trigger, <1>Claim, <2>1, <2>2, <2>3, <2>4, <2>5, <2>6 DEF Trigger
<1>Ask. ASSUME NEW d \in Web, RunNow(d) \/ Replay(d) \/ ReplayCheck(d) PROVE ClaimMoves(c)
  <2>1. CASE RunNow(d)
    BY <1>2, <1>to, <2>1 DEF RunNow
  <2>2. CASE Replay(d)
    BY <1>2, <1>to, <2>2 DEF Replay
  <2>3. CASE ReplayCheck(d)
    BY <1>2, <1>to, <1>Quit, <2>3 DEF ReplayCheck
  <2> QED
    BY <1>Ask, <2>1, <2>2, <2>3
<1>Tick. ASSUME Tick PROVE ClaimMoves(c)
  <2>1. CASE WatchdogReads
    BY <1>2, <1>to, <2>1 DEF WatchdogReads
  <2>2. CASE WatchdogAborts
    BY <1>2, <1>to, <2>2 DEF WatchdogAborts
  <2>3. CASE Prune
    BY <1>2, <1>to, <2>3 DEF Prune
  <2>4. CASE SchedulerCheck
    BY <1>2, <1>to, <2>4 DEF SchedulerCheck
  <2> QED
    BY <1>Tick, <2>1, <2>2, <2>3, <2>4 DEF Tick
<1>SchedulerPanics. ASSUME SchedulerPanics PROVE ClaimMoves(c)
  BY <1>2, <1>Quit, <1>SchedulerPanics DEF SchedulerPanics
<1>Restart. ASSUME Restart PROVE ClaimMoves(c)
  BY <1>Restart DEF Restart, ClaimMoves
<1>Rest. ASSUME \/ \E s \in Run : Agent(s) \/ RemoveSession(s) \/ ConfirmDone(s)
                \/ BeginDelete \/ EndDelete \/ UNCHANGED vars
         PROVE  ClaimMoves(c)
  BY <1>Rest, <1>same DEF Agent, AgentStarts, AgentFinishes, AgentExits, KillLands, KillGivesUp,
     RemoveSession, ConfirmDone, BeginDelete, EndDelete, vars, claimVars
<1> QED
  BY <1>Trigger, <1>Ask, <1>Tick, <1>SchedulerPanics, <1>Restart, <1>Rest DEF Next

\* A covered row stays covered, or it ends for one of the reasons above.
LEMMA CoveredStays ==
  ASSUME IInv, [Next]_vars, NEW r \in Run, Covered(r)
  PROVE  Covered(r)' \/ EndsFor(r)
<1>1. Moves(r)
  BY RowsMove
<1>2. CASE Ends(r)
  BY <1>2, EndsAreFor
<1>3. CASE Deleted(r)
  BY <1>3, DeletedFacts DEF Deleted, Covered
<1>4. CASE Kept(r)
  BY <1>4 DEF Kept, Covered, Active
<1>5. CASE BindsTo(r) \/ Inserted(r)
  BY <1>5 DEF BindsTo, Inserted, Covered, Active, ActiveState
<1> QED
  BY <1>1, <1>2, <1>3, <1>4, <1>5 DEF Moves

LEMMA CoverInvInit == Init => CoverInv
<1>1. Init => AgentsOfRows /\ AgentsOfClaims /\ ClaimsCovered /\ RowCoversRun
  BY DEF Init, AgentsOfRows, AgentsOfClaims, ClaimsCovered, RowCoversRun, Unbound
<1> QED
  BY <1>1, IInvInit DEF CoverInv

LEMMA CoverInvStep == CoverInv /\ [Next]_vars => CoverInv'
<1> SUFFICES ASSUME CoverInv, [Next]_vars PROVE CoverInv'
  OBVIOUS
<1>1. /\ IInv /\ IInv' /\ ClaimTypes /\ RowShapes /\ JobsDistinct /\ NotYetRunning
      /\ pc \in [Claimant -> Phase]
      /\ AgentsOfRows /\ AgentsOfClaims /\ ClaimsCovered /\ RowCoversRun
  BY IInvStep, TypeOKParts DEF CoverInv, IInv, ClaimTypes
<1>2. \A c \in Claimant : pc[c] \in Engaged =>
        job[c].run \in Run /\ job[c].run < nextRun /\ job[c].run # None
  BY <1>1, JobHasRow, ScheduledAssumption DEF IInv, Run, None
<1>3. ASSUME NEW c \in Claimant, NEW d \in Claimant, pc[c] \in Engaged, job[d].run = job[c].run
      PROVE  c = d
  BY <1>1, <1>2, <1>3 DEF JobsDistinct
<1>4. nextRun \in Nat /\ nextRun' \in Nat /\ nextRun' >= nextRun
  BY <1>1, ClaimsStep DEF ClaimTypes, Quiet, Inserts, Insert
<1>5. ASSUME NEW r \in Run, r >= nextRun PROVE agent'[r] = "none"
  <2>1. agent[r] = "none"
    BY <1>1, <1>5 DEF AgentsOfRows
  <2>2. ASSUME NEW c \in Claimant, Spawn(c), job[c].run = r PROVE FALSE
    BY <1>2, <1>4, <1>5, <2>2 DEF Spawn, Step, Engaged, Triggering, Run
  <2> QED
    BY <1>1, <2>1, <2>2, AgentsMove DEF AgentMoves, AgentKept, Alive
<1>6. AgentsOfRows'
  BY <1>4, <1>5 DEF AgentsOfRows, Run
<1>7. ASSUME NEW c \in Claimant,
             pc'[c] \in {"claimed", "won", "spawned", "bound"},
             ~\E s \in Nat : Insert(c, s)
      PROVE  /\ job'[c].run = job[c].run /\ job[c].run \in Run
             /\ pc[c] \in {"claimed", "won", "spawned", "bound"}
             /\ pc[c] = "bound" => pc'[c] = "bound"
             /\ pc'[c] = "bound" => pc[c] \in {"spawned", "bound"}
             /\ pc'[c] = "spawned" => pc[c] \in {"won", "spawned"}
             /\ pc'[c] \in {"claimed", "won"} => pc[c] \in {"claimed", "won"}
             /\ pc[c] \in {"claimed", "won"} /\ pc'[c] \in {"spawned", "bound"} => Spawn(c)
             /\ Spawn(c) => pc[c] = "won" /\ pc'[c] = "spawned"
  <2>1. Spawn(c) => pc[c] = "won" /\ pc'[c] = "spawned"
    BY <1>1 DEF Spawn, Step
  <2>2. Bind(c) => pc[c] = "spawned" /\ pc'[c] = "bound"
    BY <1>1 DEF Bind, Step
  <2>3. /\ job'[c].run = job[c].run
        /\ pc'[c] = pc[c] \/ (pc[c] = "claimed" /\ pc'[c] = "won") \/ Spawn(c) \/ Bind(c)
    BY <1>1, <1>7, ClaimantsMove DEF ClaimMoves
  <2>4. pc[c] \in {"claimed", "won", "spawned", "bound"}
    BY <1>7, <2>1, <2>2, <2>3
  <2>5. job[c].run \in Run
    BY <1>2, <2>4 DEF Engaged, Triggering
  <2> QED
    BY <2>1, <2>2, <2>3, <2>4, <2>5
<1>8. ASSUME NEW c \in Claimant, NEW s \in Nat, Insert(c, s), pc'[c] = "claimed"
      PROVE  /\ job'[c].run = nextRun /\ nextRun \in Run
             /\ row'[nextRun].state = "claimed"
  <2>1. nextRun \in Run /\ row \in [Run -> Row]
    <3>1. nextRun \in 1..(MaxRuns + 1) /\ nextRun' \in 1..(MaxRuns + 1) /\ row \in [Run -> Row]
      BY <1>1 DEF IInv, TypeOK
    <3>2. nextRun' = nextRun + 1
      BY <1>8 DEF Insert
    <3> QED
      BY <3>1, <3>2, ScheduledAssumption DEF Run
  <2>2. job[c] \in Job
    BY <1>1 DEF ClaimTypes
  <2> QED
    BY <1>1, <1>8, <2>1, <2>2 DEF Insert, Update, NewRow, NoRow, ClaimTypes, Job
<1>9. AgentsOfClaims'
  <2>1. SUFFICES ASSUME NEW c \in Claimant, pc'[c] \in {"claimed", "won", "spawned", "bound"}
                 PROVE  /\ pc'[c] \in {"claimed", "won"} => agent'[job'[c].run] = "none"
                        /\ pc'[c] \in {"spawned", "bound"}
                             => agent'[job'[c].run] \in {"ready", "gone"}
    BY DEF AgentsOfClaims
  <2>2. CASE \E s \in Nat : Insert(c, s)
    <3>1. pc'[c] = "claimed"
      BY <1>1, <2>2 DEF Insert
    <3> QED
      BY <1>4, <1>5, <1>8, <2>2, <3>1
  <2>3. CASE ~\E s \in Nat : Insert(c, s)
    <3> DEFINE r == job[c].run
    <3>1. job'[c].run = r /\ r \in Run /\ pc[c] \in Engaged
      BY <1>7, <2>1, <2>3 DEF Engaged, Triggering
    <3>2. AgentMoves(r)
      BY <1>1, <3>1, AgentsMove
    <3>3. \A d \in Claimant : job[d].run = r => d = c
      BY <1>3, <3>1
    <3>4. CASE pc[c] \in {"claimed", "won"}
      <4>1. agent[r] = "none"
        BY <1>1, <3>4 DEF AgentsOfClaims
      <4>2. CASE Spawn(c)
        BY <1>1, <1>7, <2>1, <2>3, <3>1, <4>2, TypeOKParts DEF Spawn, IInv, OtherTypes
      <4>3. CASE ~Spawn(c)
        <5>1. pc'[c] \notin {"spawned", "bound"}
          BY <1>7, <2>1, <2>3, <3>4, <4>3
        <5>2. ~\E d \in Claimant : Spawn(d) /\ job[d].run = r
          BY <3>3, <4>3
        <5>3. agent'[r] = "none"
          BY <3>2, <4>1, <5>2 DEF AgentMoves, AgentKept, Alive
        <5> QED
          BY <3>1, <5>1, <5>3
      <4> QED
        BY <4>2, <4>3
    <3>5. CASE pc[c] \in {"spawned", "bound"}
      <4>1. agent[r] \in {"ready", "gone"}
        BY <1>1, <3>5 DEF AgentsOfClaims
      <4>2. ~Spawn(c) /\ pc'[c] \in {"spawned", "bound"}
        BY <1>7, <2>1, <2>3, <3>5
      <4>3. ~\E d \in Claimant : pc[d] = "bound" /\ pc'[d] \in {"live", "idle"} /\ job[d].run = r
        BY <2>1, <3>3
      <4> QED
        BY <3>1, <3>2, <3>3, <4>1, <4>2, <4>3 DEF AgentMoves, AgentKept, Alive
    <3> QED
      BY <1>7, <2>1, <2>3, <3>4, <3>5
  <2> QED
    BY <2>2, <2>3
<1>10. ClaimsCovered'
  <2>1. SUFFICES ASSUME NEW c \in Claimant, pc'[c] \in Unbound
                 PROVE  Covered(job[c].run)'
    BY DEF ClaimsCovered
  <2>2. CASE \E s \in Nat : Insert(c, s)
    <3>1. pc'[c] = "claimed"
      BY <1>1, <2>2 DEF Insert
    <3>2. row'[job'[c].run].state = "claimed"
      BY <1>8, <2>2, <3>1
    <3> QED
      BY <3>2 DEF Covered, Active, ActiveState
  <2>3. CASE ~\E s \in Nat : Insert(c, s)
    <3>r. job[c].run \in Run
      BY <1>7, <2>1, <2>3 DEF Unbound
    <3> PICK r \in Run : r = job[c].run
      BY <3>r
    <3>1. job[c].run = r /\ job'[c].run = r /\ pc[c] \in Engaged /\ pc[c] \in Unbound
      BY <1>7, <2>1, <2>3 DEF Engaged, Triggering, Unbound
    <3>2. Covered(r) /\ agent[r] # "working" /\ row[r].state # "running"
      BY <1>1, <3>1 DEF ClaimsCovered, AgentsOfClaims, NotYetRunning, Unbound
    <3>3. \A d \in Claimant : job[d].run = r => d = c
      BY <1>3, <3>1
    <3>4. Covered(r)' \/ EndsFor(r)
      BY <1>1, <3>1, <3>2, CoveredStays
    <3>5. ~row[r].bound \/ ~Active(r)
      BY <1>1, <3>1, <3>2 DEF RowShapes, Active, ActiveState
    <3>6. Covered(r)'
      <4>1. CASE Active(r)
        <5>1. ~row[r].bound
          BY <3>5, <4>1
        <5> QED
          BY <2>1, <3>1, <3>2, <3>3, <3>4, <5>1 DEF EndsFor, Covered, Unbound
      <4>2. CASE ~Active(r)
        <5>1. Moves(r)
          BY <1>1, <3>1, RowsMove
        <5>2. ~Ends(r) /\ ~BindsTo(r)
          BY <4>2 DEF Ends, BindsTo
        <5>3. CASE Deleted(r)
          BY <5>3, DeletedFacts DEF Deleted, Covered
        <5>4. CASE Kept(r) \/ Inserted(r)
          BY <3>2, <5>4 DEF Kept, Inserted, Covered, Active, ActiveState
        <5> QED
          BY <5>1, <5>2, <5>3, <5>4 DEF Moves
      <4> QED
        BY <4>1, <4>2
    <3> QED
      BY <3>1, <3>6 DEF Covered, Active
  <2> QED
    BY <2>2, <2>3
<1>11. RowCoversRun'
  <2>1. SUFFICES ASSUME NEW r \in Run, agent'[r] \in {"ready", "prompted", "working"}, listed'[r]
                 PROVE  Covered(r)'
    BY DEF RowCoversRun, Covered, Active
  <2>2. AgentMoves(r)
    BY <1>1, AgentsMove
  <2>3. CASE \E c \in Claimant : Spawn(c) /\ job[c].run = r
    <3>1. PICK c \in Claimant : Spawn(c) /\ job[c].run = r
      BY <2>3
    <3>2. Covered(r) /\ row' = row
      BY <1>1, <3>1 DEF Spawn, Step, ClaimsCovered, Unbound, storeVars
    <3> QED
      BY <3>2 DEF Covered, Active
  <2>4. CASE ~\E c \in Claimant : Spawn(c) /\ job[c].run = r
    <3>1. agent[r] \in {"ready", "prompted", "working"} /\ listed[r]
      BY <2>1, <2>2, <2>4 DEF AgentMoves, AgentKept
    <3>2. Covered(r)
      BY <1>1, <3>1 DEF RowCoversRun, Covered
    <3>3. Covered(r)' \/ EndsFor(r)
      BY <1>1, <3>2, CoveredStays
    <3>4. \A c \in Claimant : job[c].run = r =>
            /\ pc[c] \notin {"claimed", "won"}
            /\ pc[c] = "bound" => agent[r] = "ready"
      BY <1>1, <3>1 DEF AgentsOfClaims
    <3> QED
      BY <2>1, <3>1, <3>3, <3>4 DEF EndsFor, Covered
  <2> QED
    BY <2>3, <2>4
<1> QED
  BY <1>1, <1>6, <1>9, <1>10, <1>11 DEF CoverInv

\* While a listed session's agent has the run's prompt or works on it, the row that the
\* update gate counts is active, timed out or deleted: however many requests, ticks,
\* panics, removals and restarts come between.
THEOREM RowCoversRunHolds == Spec => []RowCoversRun
<1>1. CoverInv => RowCoversRun
  BY DEF CoverInv
<1> QED
  BY <1>1, CoverInvInit, CoverInvStep, PTL DEF Spec

-----------------------------------------------------------------------------
(* Confirmations are consumed behind a sent prompt *)

\* The scheduler replays nothing; a claimant that goes on to consume a confirmation has
\* sent its prompt, and its agent is past waiting for one.
SchedulerReplaysNone == job["scheduler"].orig = None
LiveHasPrompted ==
  \A c \in Claimant : pc[c] = "live" => agent[job[c].run] \notin {"none", "ready"}

\* Only Consume writes "replayed".
LEMMA OnlyConsumeReplays ==
  ASSUME IInv, [Next]_vars, NEW i \in Run,
         row[i].confirm # "replayed", row'[i].confirm = "replayed"
  PROVE  \E c \in Claimant : Consume(c) /\ job[c].orig = i
<1>1. TypeOK /\ row \in [Run -> Row]
  BY DEF IInv, TypeOK
<1> DEFINE Keeps == row'[i].confirm \in {row[i].confirm, "null", "confirmed_done"}
<1>same. ASSUME row'[i] = row[i] PROVE Keeps
  BY <1>same
<1>set. ASSUME NEW state \in Terminal, NEW kind \in {"none", "other"} \cup Unknown,
               row'[i] = SetRunState(row[i], state, kind)
        PROVE  Keeps
  BY <1>1, <1>set, SetRunStateFacts
<1>end. ASSUME NEW r \in Run, NEW state \in Terminal, NEW kind \in {"none", "other"} \cup Unknown,
               Update(r, SetRunState(row[r], state, kind))
        PROVE  Keeps
  <2>1. CASE r = i
    <3>1. row'[i] = SetRunState(row[i], state, kind)
      BY <1>1, <1>end, <2>1 DEF Update
    <3> QED
      BY <3>1, <1>set
  <2>2. CASE r # i
    BY <1>1, <1>end, <2>2, <1>same DEF Update
  <2> QED
    BY <2>1, <2>2
<1>gone. [NoRow EXCEPT !.state = "deleted"].confirm = "null"
  BY DEF NoRow
<1>Claim. ASSUME NEW c \in Claimant, Claim(c) PROVE Keeps
  <2>1. CASE row' = row
    BY <2>1
  <2>2. CASE row' # row
    <3>1. PICK s \in Slots(c) : Insert(c, s)
      BY <1>Claim, <2>2 DEF Claim
    <3>2. row' = [row EXCEPT ![nextRun] = NewRow(s, job[c].orig)]
      BY <3>1 DEF Insert, Update
    <3>3. NewRow(s, job[c].orig).confirm = "null"
      BY DEF NewRow, NoRow
    <3> QED
      BY <1>1, <3>2, <3>3
  <2> QED
    BY <2>1, <2>2
<1>Decide. ASSUME NEW c \in Claimant, Decide(c) PROVE Keeps
  <2>1. job[c].run \in Run
    BY <1>1, <1>Decide, JobHasRow DEF Decide, Engaged
  <2> QED
    BY <1>Decide, <2>1, <1>end, <1>same DEF Decide, Terminal
<1>SpawnFails. ASSUME NEW c \in Claimant, SpawnFails(c) PROVE Keeps
  <2>1. job[c].run \in Run
    BY <1>1, <1>SpawnFails, JobHasRow DEF SpawnFails, Triggering, Engaged
  <2> QED
    BY <1>SpawnFails, <2>1, <1>end DEF SpawnFails, Terminal
<1>Bind. ASSUME NEW c \in Claimant, Bind(c) PROVE Keeps
  <2>1. job[c].run \in Run /\ row[job[c].run] \in Row
    BY <1>1, <1>Bind, JobHasRow DEF Bind, Step, Triggering, Engaged
  <2>2. BoundTo(row[job[c].run]).confirm = row[job[c].run].confirm
    BY <2>1, BoundToFacts
  <2> QED
    BY <1>1, <1>Bind, <2>1, <2>2 DEF Bind, Update
<1>SendPrompt. ASSUME NEW c \in Claimant, SendPrompt(c) PROVE Keeps
  <2> DEFINE r == job[c].run
             x == [row[r] EXCEPT !.snapshot = (@ \/ Exists(r))]
  <2>1. r \in Run /\ row[r] \in Row
    BY <1>1, <1>SendPrompt, JobHasRow DEF SendPrompt, Triggering, Engaged
  <2>2. x \in Row /\ x.confirm = row[r].confirm
    <3>1. x = [row[r] EXCEPT !.snapshot = TRUE] \/ x = row[r]
      BY <2>1 DEF Row, Exists
    <3> QED
      BY <2>1, <3>1 DEF Row
  <2> HIDE DEF x
  <2>3. PICK y \in {x, SetRunState(x, "failed", "other")} : Update(r, y)
    BY <1>SendPrompt DEF SendPrompt, x
  <2>4. y.confirm = row[r].confirm
    <3>1. SetRunState(x, "failed", "other").confirm = x.confirm
      BY <2>2, SetRunStateFacts DEF Terminal
    <3> QED
      BY <2>2, <2>3, <3>1
  <2> QED
    BY <1>1, <2>1, <2>3, <2>4 DEF Update
<1>Consume. ASSUME NEW c \in Claimant, Consume(c) PROVE Keeps \/ job[c].orig = i
  BY <1>1, <1>Consume DEF Consume, Update
<1>AgentFinishes. ASSUME NEW r \in Run, AgentFinishes(r) PROVE Keeps
  <2>1. PICK state \in {"succeeded", "failed"} : Update(r, SetRunState(row[r], state, "none"))
    BY <1>AgentFinishes DEF AgentFinishes
  <2> QED
    BY <2>1, <1>end DEF Terminal
<1>Exits. ASSUME NEW r \in Run, Exits(r) PROVE Keeps
  <2>1. CASE Update(r, SetRunState(row[r], "failed", "none"))
    BY <2>1, <1>end DEF Terminal
  <2>2. CASE Update(r, row[r])
    BY <1>1, <2>2 DEF Update
  <2> QED
    BY <1>Exits, <2>1, <2>2 DEF Exits
<1>Agent. ASSUME NEW r \in Run, Agent(r) PROVE Keeps
  BY <1>Agent, <1>AgentFinishes, <1>Exits, <1>same
     DEF Agent, AgentStarts, AgentExits, KillLands, KillGivesUp, storeVars
<1>WatchdogAborts. ASSUME WatchdogAborts PROVE Keeps
  <2>1. row'[i] = row[i] \/ row'[i] = SetRunState(row[i], "aborted", "timeout")
    BY <1>WatchdogAborts DEF WatchdogAborts
  <2> QED
    BY <2>1, <1>set DEF Terminal, Unknown
<1>Prune. ASSUME Prune PROVE Keeps
  <2>1. row'[i] = row[i] \/ row'[i] = [NoRow EXCEPT !.state = "deleted"]
    BY <1>Prune DEF Prune
  <2> QED
    BY <2>1, <1>gone
<1>SchedulerPanics. ASSUME SchedulerPanics PROVE Keeps
  <2>1. row'[i] = row[i] \/ row'[i] = SetRunState(row[i], "aborted", "orphaned")
    BY <1>SchedulerPanics DEF SchedulerPanics
  <2> QED
    BY <2>1, <1>set DEF Terminal, Unknown
<1>RemoveSession. ASSUME NEW r \in Run, RemoveSession(r) PROVE Keeps
  <2>1. CASE Update(r, SetRunState(row[r], "aborted", "other"))
    BY <2>1, <1>end DEF Terminal
  <2>2. CASE Update(r, row[r])
    BY <1>1, <2>2 DEF Update
  <2> QED
    BY <1>RemoveSession, <2>1, <2>2 DEF RemoveSession, AbortForSession
<1>ConfirmDone. ASSUME NEW r \in Run, ConfirmDone(r) PROVE Keeps
  BY <1>1, <1>ConfirmDone DEF ConfirmDone, Update, Row
<1>BeginDelete. ASSUME BeginDelete PROVE Keeps
  <2>1. row'[i] = row[i] \/ row'[i] = AbortForSession(row[i])
    BY <1>BeginDelete DEF BeginDelete
  <2>2. row'[i] = row[i] \/ row'[i] = SetRunState(row[i], "aborted", "other")
    BY <2>1 DEF AbortForSession
  <2> QED
    BY <2>2, <1>set DEF Terminal
<1>EndDelete. ASSUME EndDelete PROVE Keeps
  <2>1. row'[i] = row[i] \/ row'[i] = [NoRow EXCEPT !.state = "deleted"]
    BY <1>EndDelete DEF EndDelete
  <2> QED
    BY <2>1, <1>gone
<1>Restart. ASSUME Restart PROVE Keeps
  <2>1. row'[i] = SetRunState(row[i], "aborted", "orphaned")
    BY <1>Restart DEF Restart
  <2> QED
    BY <2>1, <1>set DEF Terminal, Unknown
<1>Rest. ASSUME \/ \E c \in Web : RunNow(c) \/ Replay(c) \/ ReplayCheck(c)
                \/ \E c \in Claimant : Spawn(c)
                \/ WatchdogReads \/ SchedulerCheck \/ UNCHANGED vars
         PROVE  Keeps
  BY <1>Rest, <1>same DEF RunNow, Replay, ReplayCheck, Spawn, WatchdogReads, SchedulerCheck,
     vars, storeVars
<1>not. ~Keeps
  OBVIOUS
<1> HIDE DEF Keeps
<1>2. ~\E c \in Claimant : Claim(c) \/ Decide(c) \/ SpawnFails(c) \/ Spawn(c) \/ Bind(c)
                           \/ SendPrompt(c)
  BY <1>not, <1>Claim, <1>Decide, <1>SpawnFails, <1>Bind, <1>SendPrompt, <1>Rest
<1>3. ~(Tick \/ \E c \in Web : RunNow(c) \/ Replay(c) \/ ReplayCheck(c))
  BY <1>not, <1>WatchdogAborts, <1>Prune, <1>Rest DEF Tick
<1>4. ~\E r \in Run : Agent(r) \/ RemoveSession(r) \/ ConfirmDone(r)
  BY <1>not, <1>Agent, <1>RemoveSession, <1>ConfirmDone
<1>5. \E c \in Claimant : Consume(c)
  BY <1>not, <1>2, <1>3, <1>4, <1>SchedulerPanics, <1>BeginDelete, <1>EndDelete, <1>Restart, <1>Rest
     DEF Next, Trigger
<1> QED
  BY <1>not, <1>5, <1>Consume

LEMMA SchedulerReplaysNoneStep ==
  ASSUME IInv, SchedulerReplaysNone, [Next]_vars
  PROVE  SchedulerReplaysNone'
<1> DEFINE s == "scheduler"
<1>1. job \in [Claimant -> Job] /\ s \in Claimant /\ s \notin Web
  BY ScheduledAssumption DEF IInv, TypeOK, Claimant
<1>same. ASSUME job'[s] = job[s] PROVE job'[s].orig = None
  BY <1>same DEF SchedulerReplaysNone
<1>Quit. ASSUME NEW c \in Claimant, Quit(c) PROVE job'[s].orig = None
  <2>1. NoJob.orig = None
    BY DEF NoJob
  <2> QED
    BY <1>1, <2>1, <1>Quit DEF Quit, SchedulerReplaysNone
<1>Insert. ASSUME NEW c \in Claimant, NEW t, Insert(c, t) PROVE job'[s].orig = None
  BY <1>1, <1>Insert DEF Insert, SchedulerReplaysNone, Job
<1>Trigger. ASSUME NEW c \in Claimant, Trigger(c) PROVE job'[s].orig = None
  BY <1>Trigger, <1>Quit, <1>Insert, <1>same
     DEF Trigger, Claim, Decide, SpawnFails, Spawn, Bind, SendPrompt, AfterPrompt, Consume
<1>Ask. ASSUME NEW c \in Web, RunNow(c) \/ Replay(c) \/ ReplayCheck(c) PROVE job'[s].orig = None
  <2>1. c \in Claimant /\ c # s
    BY <1>1 DEF Claimant
  <2>2. ASSUME NEW j, job' = [job EXCEPT ![c] = j] PROVE job'[s] = job[s]
    BY <1>1, <2>1, <2>2
  <2> QED
    BY <1>Ask, <2>1, <2>2, <1>Quit, <1>same DEF RunNow, Replay, ReplayCheck
<1>Check. ASSUME SchedulerCheck PROVE job'[s].orig = None
  <2>1. CASE job' = job
    BY <2>1, <1>same
  <2>2. CASE \E t \in Now : job' = [job EXCEPT ![s] = [NoJob EXCEPT !.slot = t]]
    BY <1>1, <2>2 DEF NoJob
  <2> QED
    BY <1>Check, <2>1, <2>2 DEF SchedulerCheck
<1>Tick. ASSUME Tick PROVE job'[s].orig = None
  BY <1>Tick, <1>Check, <1>same DEF Tick, WatchdogReads, WatchdogAborts, Prune
<1>Panic. ASSUME SchedulerPanics PROVE job'[s].orig = None
  BY <1>Panic, <1>1, <1>Quit DEF SchedulerPanics
<1>Restart. ASSUME Restart PROVE job'[s].orig = None
  BY <1>Restart, <1>1 DEF Restart, NoJob
<1>Rest. ASSUME \/ \E r \in Run : Agent(r) \/ RemoveSession(r) \/ ConfirmDone(r)
                \/ BeginDelete \/ EndDelete \/ UNCHANGED vars
         PROVE  job'[s].orig = None
  BY <1>Rest, <1>same DEF Agent, AgentStarts, AgentFinishes, AgentExits, KillLands, KillGivesUp,
     RemoveSession, ConfirmDone, BeginDelete, EndDelete, vars, claimVars
<1> QED
  BY <1>Trigger, <1>Ask, <1>Tick, <1>Panic, <1>Restart, <1>Rest DEF Next, SchedulerReplaysNone

\* A claimant comes to consume a confirmation by sending its prompt to an agent.
LEMMA LiveMoves ==
  ASSUME IInv, [Next]_vars, NEW c \in Claimant, pc'[c] = "live"
  PROVE  /\ job'[c] = job[c]
         /\ pc[c] = "live" \/ (/\ pc[c] = "bound" /\ job[c].run \in Run
                               /\ agent' = [agent EXCEPT ![job[c].run] = "prompted"])
<1>1. /\ TypeOK /\ pc \in [Claimant -> Phase] /\ job \in [Claimant -> Job]
  BY DEF IInv, TypeOK
<1>2. "scheduler" \in Claimant /\ \A d \in Web : d \in Claimant
  BY DEF Claimant
<1> DEFINE Stays == job'[c] = job[c] /\ pc[c] = "live"
<1>same. ASSUME pc' = pc, job' = job PROVE Stays
  BY <1>same
<1>to. ASSUME NEW d \in Claimant, NEW from, NEW to, Step(d, from, to), to # "live",
              job' = job \/ \E j : job' = [job EXCEPT ![d] = j]
       PROVE  Stays
  <2>1. CASE d = c
    BY <1>1, <1>to, <2>1 DEF Step
  <2>2. CASE d # c
    BY <1>1, <1>to, <2>2 DEF Step
  <2> QED
    BY <2>1, <2>2
<1>Quit. ASSUME NEW d \in Claimant, Quit(d) PROVE Stays
  BY <1>1, <1>Quit DEF Quit
<1>Insert. ASSUME NEW d \in Claimant, NEW s, Insert(d, s) PROVE Stays
  BY <1>1, <1>Insert DEF Insert
<1>SendPrompt. ASSUME NEW d \in Claimant, SendPrompt(d)
               PROVE  Stays \/ (/\ job'[c] = job[c] /\ pc[c] = "bound" /\ job[c].run \in Run
                                /\ agent' = [agent EXCEPT ![job[c].run] = "prompted"])
  <2>1. CASE Quit(d)
    BY <2>1, <1>Quit
  <2>2. CASE ~Quit(d)
    <3>1. /\ pc[d] = "bound" /\ pc' = [pc EXCEPT ![d] = "live"] /\ job' = job
          /\ listed[job[d].run] /\ agent[job[d].run] = "ready"
          /\ agent' = [agent EXCEPT ![job[d].run] = "prompted"]
      BY <1>SendPrompt, <2>2 DEF SendPrompt, AfterPrompt
    <3>2. job[d].run \in Run
      BY <1>1, <3>1, JobHasRow DEF Triggering, Engaged
    <3>3. CASE d = c
      BY <3>1, <3>2, <3>3
    <3>4. CASE d # c
      BY <1>1, <3>1, <3>4
    <3> QED
      BY <3>3, <3>4
  <2> QED
    BY <2>1, <2>2
<1>Decide. ASSUME NEW d \in Claimant, Decide(d) PROVE Stays
  BY <1>1, <1>Quit, <1>Decide DEF Decide
<1>Spawn. ASSUME NEW d \in Claimant, Spawn(d) PROVE Stays
  BY <1>to, <1>Spawn DEF Spawn
<1>Bind. ASSUME NEW d \in Claimant, Bind(d) PROVE Stays
  BY <1>to, <1>Bind DEF Bind
<1>Others. ASSUME NEW d \in Claimant, Claim(d) \/ SpawnFails(d) \/ Consume(d) PROVE Stays
  BY <1>Others, <1>Quit, <1>Insert DEF Claim, SpawnFails, Consume
<1>Ask. ASSUME NEW d \in Web, RunNow(d) \/ Replay(d) \/ ReplayCheck(d) PROVE Stays
  <2>1. CASE RunNow(d)
    BY <1>2, <1>to, <2>1 DEF RunNow
  <2>2. CASE Replay(d)
    BY <1>2, <1>to, <2>2 DEF Replay
  <2>3. CASE ReplayCheck(d)
    BY <1>2, <1>to, <1>Quit, <2>3 DEF ReplayCheck
  <2> QED
    BY <1>Ask, <2>1, <2>2, <2>3
<1>Tick. ASSUME Tick PROVE Stays
  <2>1. CASE WatchdogReads
    BY <1>2, <1>to, <2>1 DEF WatchdogReads
  <2>2. CASE WatchdogAborts
    BY <1>2, <1>to, <2>2 DEF WatchdogAborts
  <2>3. CASE Prune
    BY <1>2, <1>to, <2>3 DEF Prune
  <2>4. CASE SchedulerCheck
    BY <1>2, <1>to, <2>4 DEF SchedulerCheck
  <2> QED
    BY <1>Tick, <2>1, <2>2, <2>3, <2>4 DEF Tick
<1>Panic. ASSUME SchedulerPanics PROVE Stays
  BY <1>2, <1>Quit, <1>Panic DEF SchedulerPanics
<1>Restart. ~Restart
  BY DEF Restart
<1>Rest. ASSUME \/ \E s \in Run : Agent(s) \/ RemoveSession(s) \/ ConfirmDone(s)
                \/ BeginDelete \/ EndDelete \/ UNCHANGED vars
         PROVE  Stays
  BY <1>Rest, <1>same DEF Agent, AgentStarts, AgentFinishes, AgentExits, KillLands, KillGivesUp,
     RemoveSession, ConfirmDone, BeginDelete, EndDelete, vars, claimVars
<1>3. CASE \E d \in Claimant : SendPrompt(d)
  BY <1>3, <1>SendPrompt
<1> HIDE DEF Stays
<1>4. CASE ~\E d \in Claimant : SendPrompt(d)
  <2>1. Stays
    BY <1>4, <1>Decide, <1>Spawn, <1>Bind, <1>Others, <1>Ask, <1>Tick, <1>Panic, <1>Restart, <1>Rest
       DEF Next, Trigger
  <2> QED
    BY <2>1 DEF Stays
<1> QED
  BY <1>3, <1>4

LEMMA LiveHasPromptedStep ==
  ASSUME IInv, LiveHasPrompted, [Next]_vars
  PROVE  LiveHasPrompted'
<1> SUFFICES ASSUME NEW c \in Claimant, pc'[c] = "live"
             PROVE  agent'[job'[c].run] \notin {"none", "ready"}
  BY DEF LiveHasPrompted
<1> DEFINE r == job[c].run
<1>1. TypeOK /\ JobsDistinct /\ agent \in [Run -> Alive \cup {"none", "gone"}]
  BY DEF IInv, TypeOK
<1>2. job'[c] = job[c]
  BY LiveMoves
<1>3. CASE pc[c] = "live"
  <2>1. r \in Run /\ r # None
    BY <1>1, <1>3, JobHasRow, ScheduledAssumption DEF Engaged, Run, None
  <2>2. agent[r] \notin {"none", "ready"}
    BY <1>3 DEF LiveHasPrompted
  <2>3. ASSUME NEW d \in Claimant, Spawn(d), job[d].run = r PROVE FALSE
    BY <1>1, <1>3, <2>1, <2>3 DEF JobsDistinct, Spawn, Step
  <2>4. AgentMoves(r)
    BY <2>1, AgentsMove
  <2>5. agent'[r] \notin {"none", "ready"}
    BY <2>2, <2>3, <2>4 DEF AgentMoves, AgentKept
  <2> QED
    BY <1>2, <2>5
<1>4. CASE pc[c] # "live"
  <2>1. r \in Run /\ agent' = [agent EXCEPT ![r] = "prompted"]
    BY <1>4, LiveMoves
  <2> QED
    BY <1>1, <1>2, <2>1
<1> QED
  BY <1>3, <1>4

\* A confirmation is consumed as "replayed" only by a request whose replay has an agent
\* that was sent the original's prompt: however sends fail, processes die, and claimants
\* and the scheduler come between.
THEOREM ConsumedByLiveReplayHolds == Spec => ConsumedByLiveReplay
<1> DEFINE Inv == IInv /\ SchedulerReplaysNone /\ LiveHasPrompted
<1>1. Init => Inv
  <2>1. ASSUME Init PROVE SchedulerReplaysNone /\ LiveHasPrompted
    BY <2>1 DEF Init, SchedulerReplaysNone, LiveHasPrompted, Claimant, NoJob
  <2> QED
    BY <2>1, IInvInit
<1>2. Inv /\ [Next]_vars => Inv'
  BY IInvStep, SchedulerReplaysNoneStep, LiveHasPromptedStep
<1>3. Inv /\ [Next]_vars =>
        [\A i \in Run : row[i].confirm # "replayed" /\ row'[i].confirm = "replayed" =>
           \E c \in Web : /\ job[c].orig = i
                          /\ agent[job[c].run] \notin {"none", "ready"}]_vars
  <2>1. SUFFICES ASSUME Inv, [Next]_vars, NEW i \in Run,
                        row[i].confirm # "replayed", row'[i].confirm = "replayed"
                 PROVE  \E c \in Web : /\ job[c].orig = i
                                       /\ agent[job[c].run] \notin {"none", "ready"}
    OBVIOUS
  <2>2. PICK c \in Claimant : Consume(c) /\ job[c].orig = i
    BY <2>1, OnlyConsumeReplays
  <2>3. pc[c] = "live" /\ i # None
    BY <2>2, ScheduledAssumption DEF Consume, Run, None
  <2>4. c \in Web
    BY <2>1, <2>2, <2>3 DEF Claimant, SchedulerReplaysNone
  <2> QED
    BY <2>1, <2>2, <2>3, <2>4 DEF LiveHasPrompted
<1> QED
  BY <1>1, <1>2, <1>3, PTL DEF Spec, ConsumedByLiveReplay
===============================================================================
