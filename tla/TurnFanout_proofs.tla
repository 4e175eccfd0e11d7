-------------------------- MODULE TurnFanout_proofs --------------------------
(***************************************************************************)
(* Proofs about TurnFanout, for every value of its bounds: first the       *)
(* fan-out's own bookkeeping and its run, then the stream of events.       *)
(***************************************************************************)
EXTENDS TurnFanout, SequenceTheorems, TLAPS

-----------------------------------------------------------------------------
(* Lemmas about the FIFO of turn starts *)

\* A new entry is well typed and carries no intent.
LEMMA NewEntryType ==
  ASSUME NEW external \in BOOLEAN
  PROVE  NewEntry(external) \in Entry /\ NewEntry(external).intent = "none"
BY DEF NewEntry, Entry, Intent

\* mark_echoed changes no entry but its echoed flag.
LEMMA MarkEchoedKeeps ==
  ASSUME NEW q \in Seq(Entry)
  PROVE  /\ MarkEchoed(q) \in Seq(Entry)
         /\ Len(MarkEchoed(q)) = Len(q)
         /\ \A i \in 1..Len(q) : MarkEchoed(q)[i].intent = q[i].intent
<1>1. \A i \in 1..Len(q) : q[i] \in Entry
  BY ElementOfSeq
<1>2. \A i \in 1..Len(q) : [q[i] EXCEPT !.echoed = TRUE] \in Entry
  BY <1>1 DEF Entry
<1>3. MarkEchoed(q) \in [1..Len(q) -> Entry]
  BY <1>1, <1>2 DEF MarkEchoed
<1>4. Len(q) \in Nat
  BY LenProperties
<1>5. MarkEchoed(q) \in Seq(Entry)
  BY <1>3, <1>4, SeqDef
<1>6. \A i \in 1..Len(q) : MarkEchoed(q)[i].intent = q[i].intent
  BY <1>1 DEF MarkEchoed, Entry
<1>7. Len(MarkEchoed(q)) = Len(q)
  BY <1>3, <1>4, <1>5, LenProperties
<1> QED
  BY <1>5, <1>6, <1>7

\* set_live_intent stamps the back of the FIFO and nothing else.
LEMMA SetLiveIntentKeeps ==
  ASSUME NEW q \in Seq(Entry), NEW intent \in Intent
  PROVE  /\ SetLiveIntent(q, intent) \in Seq(Entry)
         /\ Len(SetLiveIntent(q, intent)) = Len(q)
         /\ \A i \in 1..Len(q) :
              SetLiveIntent(q, intent)[i].intent = IF i = Len(q) THEN intent ELSE q[i].intent
<1>1. \A i \in 1..Len(q) : q[i] \in Entry
  BY ElementOfSeq
<1>2. \A i \in 1..Len(q) : [q[i] EXCEPT !.intent = intent] \in Entry
  BY <1>1 DEF Entry
<1>3. SetLiveIntent(q, intent) \in [1..Len(q) -> Entry]
  BY <1>1, <1>2 DEF SetLiveIntent
<1>4. Len(q) \in Nat
  BY LenProperties
<1>5. SetLiveIntent(q, intent) \in Seq(Entry)
  BY <1>3, <1>4, SeqDef
<1>6. \A i \in 1..Len(q) :
        SetLiveIntent(q, intent)[i].intent = IF i = Len(q) THEN intent ELSE q[i].intent
  BY <1>1 DEF SetLiveIntent, Entry
<1>7. Len(SetLiveIntent(q, intent)) = Len(q)
  BY <1>3, <1>4, <1>5, LenProperties
<1> QED
  BY <1>5, <1>6, <1>7

\* The outcome of a boundary is an abort exactly when the turn's intent is one.
LEMMA OutcomeFollowsIntent ==
  ASSUME NEW type \in Boundary, NEW intent \in Intent
  PROVE  /\ ClassifyOutcome(type, intent) \in Outcome
         /\ ClassifyOutcome(type, intent) \in {"cancelled", "timeout"} <=> intent # "none"
BY DEF ClassifyOutcome, Boundary, Intent, Outcome

\* The FIFO's front, settled or only read.
LEMMA FrontKeeps ==
  ASSUME NEW q \in Seq(Entry)
  PROVE  /\ Settle(q) \in Seq(Entry)
         /\ FrontIntent(q) \in Intent
         /\ q # <<>> => /\ Len(Settle(q)) = Len(q) - 1
                        /\ \A i \in 1..Len(Settle(q)) : Settle(q)[i] = q[i + 1]
                        /\ FrontIntent(q) = q[1].intent
                        /\ Len(q) > 0
         /\ q = <<>> => Settle(q) = <<>> /\ Len(q) = 0
<1>1. CASE q = <<>>
  BY <1>1 DEF Settle, FrontIntent, Intent
<1>2. CASE q # <<>>
  <2>1. Head(q) \in Entry /\ Head(q) = q[1]
    BY <1>2, HeadTailProperties
  <2>2. Len(q) > 0
    BY <1>2, EmptySeq
  <2> QED
    BY <1>2, <2>1, <2>2, HeadTailProperties DEF Settle, FrontIntent, Entry
<1> QED
  BY <1>1, <1>2

-----------------------------------------------------------------------------
(* Type correctness *)

RpType == [live : BOOLEAN, state : {"idle", "running"}, seq : Nat, mode : Mode]
PostureType ==
  [outcome : Outcome \cup {"none"}, lastSnippet : BOOLEAN, turnSnippet : Int]
CliType == [state : CliState, turn : Nat, blocks : Nat, started : Nat]

\* The manager's callback at a turn start keeps the types of what it changes.
LEMMA MarkRunningType ==
  ASSUME TypeOK, NEW seq \in Nat, MarkRunning(seq)
  PROVE  rp' \in RpType /\ posture' \in PostureType /\ turnsCompleted' \in Nat
<1>1. rp \in RpType /\ posture \in PostureType /\ turnsCompleted \in Nat
  BY DEF TypeOK, RpType, PostureType
<1>2. CASE rp.live
  <2>1. rp' = [rp EXCEPT !.state = "running", !.seq = seq]
    BY <1>2 DEF MarkRunning
  <2>2. rp' \in RpType
    BY <1>1, <2>1 DEF RpType
  <2>3. posture' \in PostureType
    BY <1>1, <1>2 DEF PostureType, MarkRunning, NoTurn
  <2> QED
    BY <1>1, <2>2, <2>3 DEF MarkRunning
<1>3. CASE ~rp.live
  BY <1>1, <1>3 DEF MarkRunning
<1> QED
  BY <1>2, <1>3

\* A turn start keeps the types of what it changes.
LEMMA StartTurnType ==
  ASSUME TypeOK, NEW starts \in Seq(Entry), StartTurn(starts)
  PROVE  /\ turnSeq' \in Nat /\ localRunning' \in BOOLEAN
         /\ turnStarts' \in Seq(Entry)
         /\ rp' \in RpType /\ posture' \in PostureType /\ turnsCompleted' \in Nat
<1>1. turnStarts' \in Seq(Entry)
  BY NewEntryType, AppendProperties DEF StartTurn
<1>2. turnSeq + 1 \in Nat
  BY DEF TypeOK
<1> QED
  BY <1>1, <1>2, MarkRunningType DEF StartTurn

\* A session without a process, and one without a history.
LEMMA NothingYetType == NoProcess \in RpType /\ NoPosture \in PostureType
BY DEF NoProcess, NoPosture, NoTurn, RpType, PostureType, Mode

\* The writes of a turn start are lines.
LEMMA WriteType ==
  ASSUME TypeOK, NEW lines \in Seq(Line), Write(lines)
  PROVE  stdin' \in Seq(Line)
BY ConcatProperties DEF TypeOK, Write

LEMMA LineTypes ==
  ASSUME NEW turn \in Nat
  PROVE  /\ <<Prompt(turn)>> \in Seq(Line) /\ <<InterruptLine>> \in Seq(Line)
         /\ <<InterruptLine, Prompt(turn)>> \in Seq(Line)
BY DEF Prompt, InterruptLine, Line, NoTurn

\* What the CLI emits are events.
LEMMA EmitType ==
  ASSUME TypeOK, NEW events \in Seq(Event), Emit(events)
  PROVE  channel' \in Seq(Event)
BY ConcatProperties DEF TypeOK, Emit

LEMMA TurnEndType ==
  ASSUME TypeOK, NEW type \in Boundary
  PROVE  TurnEnd(type) \in Seq(Event)
<1> DEFINE of == IF cli.state = "external" THEN CliStarted ELSE cli.turn
<1>1. of \in Int
  BY DEF TypeOK, CliStarted
<1>2. <<[type |-> type, of |-> of]>> \in Seq(Event)
  BY <1>1 DEF Event
<1>3. <<[type |-> "origin", of |-> of]>> \in Seq(Event)
  BY <1>1 DEF Event
<1> QED
  BY <1>2, <1>3, ConcatProperties DEF TurnEnd

\* The CLI's own steps keep the type of its state.
LEMMA CliStepType ==
  ASSUME TypeOK
  PROVE  /\ [cli EXCEPT !.blocks = @ + 1] \in CliType
         /\ \A s \in CliState : [cli EXCEPT !.state = s, !.started = @ + 1] \in CliType
         /\ Idle(cli) \in CliType
         /\ \A s \in CliState : [Idle(cli) EXCEPT !.state = s] \in CliType
<1>1. cli \in CliType
  BY DEF TypeOK, CliType
<1>2. [cli EXCEPT !.blocks = @ + 1] \in CliType
  BY <1>1 DEF CliType
<1>3. \A s \in CliState : [cli EXCEPT !.state = s, !.started = @ + 1] \in CliType
  <2>1. [cli EXCEPT !.started = @ + 1] \in CliType
    BY <1>1 DEF CliType
  <2> QED
    BY <1>1, <2>1 DEF CliType
<1>4. Idle(cli) \in CliType
  <2>1. [cli EXCEPT !.state = "idle"] \in CliType
    BY <1>1 DEF CliType, CliState
  <2>2. [[cli EXCEPT !.state = "idle"] EXCEPT !.turn = 0] \in CliType
    BY <2>1 DEF CliType
  <2>3. [[[cli EXCEPT !.state = "idle"] EXCEPT !.turn = 0] EXCEPT !.blocks = 0] \in CliType
    BY <2>2 DEF CliType
  <2> QED
    BY <2>3 DEF Idle, NoTurn
<1>5. \A s \in CliState : [Idle(cli) EXCEPT !.state = s] \in CliType
  BY <1>4 DEF CliType
<1> QED
  BY <1>2, <1>3, <1>4, <1>5

LEMMA KillType ==
  ASSUME TypeOK, Kill
  PROVE  cli' \in CliType /\ stdin' \in Seq(Line)
BY EmptySeq DEF TypeOK, Kill, Idle, CliState, CliType, NoTurn

\* What the event arm reads is a typed event.
LEMMA HandlingType ==
  ASSUME TypeOK, NEW types, Handling(types)
  PROVE  Head(channel) \in Event /\ channel' \in Seq(Event)
BY HeadTailProperties DEF TypeOK, Handling

\* A superseding prompt keeps the types of what it changes.
LEMMA StartSupersedingType ==
  ASSUME TypeOK, StartSuperseding
  PROVE  /\ turnSeq' \in Nat /\ localRunning' \in BOOLEAN
         /\ turnStarts' \in Seq(Entry)
         /\ rp' \in RpType /\ posture' \in PostureType /\ turnsCompleted' \in Nat
         /\ stdin' \in Seq(Line) /\ aborted' \in SUBSET Nat
<1>1. turnSeq + 1 \in Nat /\ turnStarts \in Seq(Entry) /\ turnSeq \in Nat /\ aborted \in SUBSET Nat
  BY DEF TypeOK
<1>2. SetLiveIntent(turnStarts, "cancelled") \in Seq(Entry)
  BY <1>1, SetLiveIntentKeeps DEF Intent
<1>3. CASE localRunning
  BY <1>1, <1>2, <1>3, StartTurnType, WriteType, LineTypes DEF StartSuperseding
<1>4. CASE ~localRunning
  BY <1>1, <1>4, StartTurnType, WriteType, LineTypes DEF StartSuperseding
<1> QED
  BY <1>3, <1>4

\* A boundary's settling keeps the types of what it changes.
LEMMA SettleBoundaryType ==
  ASSUME TypeOK, SettleBoundary
  PROVE  TypeOK'
<1> USE DEF inputVars
<1> DEFINE e == Head(channel)
           outcome == ClassifyOutcome(e.type, FrontIntent(turnStarts))
           emitted == EmitSnippet(posture, e)
<1>1. /\ e \in Event /\ e.type \in Boundary /\ channel' \in Seq(Event)
  BY HandlingType DEF SettleBoundary, Handling
<1>2. outcome \in Outcome
  BY <1>1, FrontKeeps, OutcomeFollowsIntent DEF TypeOK
<1>3. emitted \in PostureType
  BY <1>1 DEF TypeOK, EmitSnippet, PostureType, Event
<1>4. SettlePosture(emitted, outcome) \in PostureType
  BY <1>2, <1>3 DEF SettlePosture, PostureType
<1>5. posture' \in PostureType
  BY <1>3, <1>4 DEF SettleBoundary
<1>6. metrics' \in Seq(Outcome)
  BY <1>2, AppendProperties DEF SettleBoundary, TypeOK
<1>7. turnStarts' \in Seq(Entry)
  BY FrontKeeps DEF SettleBoundary, TypeOK
<1>8. boundaryCount' \in Nat /\ localRunning' \in BOOLEAN /\ pendingOrigin' \in BOOLEAN
  <2>1. boundaryCount' = CountBoundary /\ CountBoundary \in Nat
    BY DEF SettleBoundary, TypeOK, CountBoundary
  <2>2. CaughtUp \in BOOLEAN
    BY DEF CaughtUp
  <2>3. localRunning' \in BOOLEAN /\ pendingOrigin' \in BOOLEAN
    BY <2>2 DEF SettleBoundary, TypeOK
  <2> QED
    BY <2>1, <2>3
<1>9. rp' \in RpType /\ turnsCompleted' \in Nat
  <2>1. rp \in RpType /\ turnsCompleted \in Nat
    BY DEF TypeOK, RpType
  <2>2. [rp EXCEPT !.state = "idle"] \in RpType
    BY <2>1 DEF RpType
  <2>3. \/ rp' = [rp EXCEPT !.state = "idle"] /\ turnsCompleted' = turnsCompleted + 1
        \/ rp' = rp /\ turnsCompleted' = turnsCompleted
    BY DEF SettleBoundary, MarkIdle
  <2> QED
    BY <2>1, <2>2, <2>3
<1>10. pushes' \in SUBSET [turn : Nat, body : Int]
  BY <1>3 DEF SettleBoundary, TypeOK, PostureType
<1>11. run' \in RunState /\ activeRun' \in BOOLEAN /\ window' \in BOOLEAN
  BY DEF SettleBoundary, TypeOK, FinalizeRun, RunState, Arm
<1> QED
  BY <1>1, <1>5, <1>6, <1>7, <1>8, <1>9, <1>10, <1>11
     DEF SettleBoundary, Handling, TypeOK, RpType, PostureType

\* A step of the CLI touches its pipe, the event channel and its own state.
LEMMA CliKeepsTypes ==
  ASSUME TypeOK, stdin' \in Seq(Line), channel' \in Seq(Event), cli' \in CliType,
         UNCHANGED <<fanoutVars, managerVars, aborted, overtaken>>
  PROVE  TypeOK'
<1>1. UNCHANGED <<phase, turnSeq, boundaryCount, localRunning, turnStarts, pendingOrigin,
                  queueMode, pending, window, activeRun>>
  BY DEF fanoutVars
<1>2. UNCHANGED <<rp, turnsCompleted, posture, run, runQueued, killQueued, lingering,
                  metrics, pushes>>
  BY DEF managerVars
<1> QED
  BY <1>1, <1>2 DEF TypeOK, CliType

\* Every action keeps every type.
LEMMA TypeStep ==
  ASSUME TypeOK, [Next]_vars
  PROVE  TypeOK'
<1> USE DEF fanoutVars, managerVars, inputVars, cliVars
<1>1. CASE HandleMarker
  <2>1. turnStarts' \in Seq(Entry) /\ pendingOrigin' \in BOOLEAN
    BY <1>1, MarkEchoedKeeps DEF HandleMarker, TypeOK
  <2>2. channel' \in Seq(Event)
    BY <1>1, HandlingType DEF HandleMarker
  <2> QED
    BY <1>1, <2>1, <2>2 DEF HandleMarker, Handling, TypeOK
<1>2. CASE OpenExternalTurn
  <2>1. turnStarts' \in Seq(Entry) /\ turnSeq + 1 \in Nat
    <3>1. turnStarts \in Seq(Entry) /\ turnSeq \in Nat
      BY DEF TypeOK
    <3>2. turnStarts' = Append(turnStarts, NewEntry(TRUE))
      BY <1>2 DEF OpenExternalTurn
    <3>3. NewEntry(TRUE) \in Entry
      BY NewEntryType
    <3>4. turnStarts' \in Seq(Entry)
      BY <3>1, <3>2, <3>3, AppendProperties
    <3> QED
      BY <3>1, <3>4
  <2>2. rp' \in RpType /\ posture' \in PostureType /\ turnsCompleted' \in Nat
    BY <1>2, <2>1, MarkRunningType DEF OpenExternalTurn
  <2> QED
    BY <1>2, <2>1, <2>2, HandlingType
       DEF OpenExternalTurn, Handling, TypeOK, RpType, PostureType
<1>3. CASE ForwardOutput
  BY <1>3, HandlingType DEF ForwardOutput, Handling, TypeOK
<1>4. CASE SkipBoundary
  <2>1. posture' \in PostureType
    BY <1>4, HandlingType DEF SkipBoundary, EmitSnippet, TypeOK, PostureType, Event
  <2> QED
    BY <1>4, <2>1, HandlingType DEF SkipBoundary, Handling, TypeOK, PostureType
<1>5. CASE SettleBoundary
  BY <1>5, SettleBoundaryType
<1>6. CASE HandleRunPrompt
  BY <1>6, StartSupersedingType DEF HandleRunPrompt, Receiving, TypeOK, RunState, RpType, PostureType
<1>7. CASE HandlePromptInterrupting
  BY <1>7, StartSupersedingType
     DEF HandlePromptInterrupting, FromClient, Receiving, SupersedeRun, FinalizeRun, TypeOK, RunState, RpType, PostureType
<1>8. CASE HandlePromptQueued
  BY <1>8 DEF HandlePromptQueued, FromClient, Receiving, TypeOK
<1>9. CASE HandlePromptIdle
  <2>1. /\ StartTurn(turnStarts) /\ Write(<<Prompt(turnSeq + 1)>>)
        /\ turnStarts \in Seq(Entry) /\ <<Prompt(turnSeq + 1)>> \in Seq(Line)
    BY <1>9, LineTypes DEF HandlePromptIdle, TypeOK
  <2>2. /\ turnSeq' \in Nat /\ localRunning' \in BOOLEAN /\ turnStarts' \in Seq(Entry)
        /\ rp' \in RpType /\ posture' \in PostureType /\ turnsCompleted' \in Nat
        /\ stdin' \in Seq(Line)
    BY <2>1, StartTurnType, WriteType
  <2> QED
    BY <1>9, <2>2 DEF HandlePromptIdle, FromClient, Receiving, TypeOK, RpType, PostureType
<1>10. CASE HandleSetQueueMode
  <2>1. queueMode' \in Mode /\ rp' \in RpType
    BY <1>10 DEF HandleSetQueueMode, TypeOK, RpType
  <2> QED
    BY <1>10, <2>1 DEF HandleSetQueueMode, FromClient, Receiving, TypeOK, RpType
<1>11. CASE HandleInterrupt
  <2>1. turnStarts' \in Seq(Entry)
    BY <1>11, SetLiveIntentKeeps DEF HandleInterrupt, TypeOK, Intent
  <2>2. stdin' \in Seq(Line)
    BY <1>11, WriteType, LineTypes DEF HandleInterrupt, TypeOK
  <2> QED
    BY <1>11, <2>1, <2>2 DEF HandleInterrupt, FromClient, Receiving, TypeOK
<1>12. CASE HandleCancel
  <2>1. turnStarts' \in Seq(Entry)
    BY <1>12, SetLiveIntentKeeps DEF HandleCancel, AbortAndKill, TypeOK, Intent
  <2>2. cli' \in CliType /\ stdin' \in Seq(Line) /\ aborted' \in SUBSET Nat
    BY <1>12, KillType DEF HandleCancel, AbortAndKill, TypeOK, CliType
  <2> QED
    BY <1>12, <2>1, <2>2
       DEF HandleCancel, AbortAndKill, FromClient, Receiving, TypeOK, CliType
<1>13. CASE HandleTimeoutKill
  <2>1. turnStarts' \in Seq(Entry)
    BY <1>13, SetLiveIntentKeeps DEF HandleTimeoutKill, AbortAndKill, TypeOK, Intent
  <2>2. cli' \in CliType /\ stdin' \in Seq(Line) /\ aborted' \in SUBSET Nat
    BY <1>13, KillType DEF HandleTimeoutKill, AbortAndKill, TypeOK, CliType
  <2> QED
    BY <1>13, <2>1, <2>2
       DEF HandleTimeoutKill, AbortAndKill, FromClient, Receiving, TypeOK, CliType
<1>14. CASE FlushQueue
  <2>1. CASE pending > 0
    <3>1. /\ StartTurn(turnStarts) /\ Write(<<Prompt(turnSeq + 1)>>)
          /\ turnStarts \in Seq(Entry) /\ <<Prompt(turnSeq + 1)>> \in Seq(Line)
      BY <1>14, <2>1, LineTypes DEF FlushQueue, TypeOK
    <3>2. /\ turnSeq' \in Nat /\ localRunning' \in BOOLEAN /\ turnStarts' \in Seq(Entry)
          /\ rp' \in RpType /\ posture' \in PostureType /\ turnsCompleted' \in Nat
          /\ stdin' \in Seq(Line)
      BY <3>1, StartTurnType, WriteType
    <3>3. /\ pending' = 0 /\ activeRun' = FALSE /\ window' = FALSE
          /\ UNCHANGED <<phase, boundaryCount, pendingOrigin, channel, pushes, metrics,
                         queueMode, run, inputVars, cli, aborted, overtaken>>
      BY <1>14, <2>1 DEF FlushQueue, Receiving
    <3> QED
      BY <3>2, <3>3 DEF TypeOK, RpType, PostureType
  <2>2. CASE ~(pending > 0)
    BY <1>14, <2>2 DEF FlushQueue, Receiving, TypeOK
  <2> QED
    BY <2>1, <2>2
<1>15. CASE FanoutEnds
  BY <1>15, KillType, NothingYetType DEF FanoutEnds, TypeOK, CliType, RpType
<1>16. CASE SendRunPrompt
  BY <1>16 DEF SendRunPrompt, TypeOK, RunState
<1>17. CASE WatchdogFires
  BY <1>17 DEF WatchdogFires, TypeOK
<1>18. CASE RemoveSession \/ ClientLeaves
  <2>1. run' \in RunState /\ rp' \in RpType /\ posture' \in PostureType
    BY <1>18, NothingYetType
       DEF RemoveSession, ClientLeaves, FinalizeRun, TypeOK, RunState, RpType, PostureType
  <2>2. lingering' \in BOOLEAN
    BY <1>18 DEF RemoveSession, ClientLeaves
  <2>3. UNCHANGED <<fanoutVars, cliVars, aborted, overtaken, turnsCompleted, runQueued,
                    killQueued, metrics, pushes>>
    BY <1>18 DEF RemoveSession, ClientLeaves
  <2> QED
    BY <2>1, <2>2, <2>3 DEF TypeOK, RpType, PostureType
<1>19. CASE CliTakePrompt \/ CliMergePrompt
  <2>1. Head(stdin) \in Line /\ Tail(stdin) \in Seq(Line)
    BY <1>19, HeadTailProperties DEF CliTakePrompt, CliMergePrompt, TypeOK
  <2>2. <<[type |-> "echo", of |-> Head(stdin).turn]>> \in Seq(Event)
    BY <2>1 DEF Event, Line
  <2>3. channel' \in Seq(Event)
    BY <1>19, <2>2, EmitType DEF CliTakePrompt, CliMergePrompt
  <2>4. cli' \in CliType
    BY <1>19, <2>1 DEF CliTakePrompt, CliMergePrompt, TypeOK, CliType, Line, CliState
  <2> QED
    BY <1>19, <2>1, <2>3, <2>4, CliKeepsTypes DEF CliTakePrompt, CliMergePrompt
<1>20. CASE CliStartExternal
  <2>1. \A type \in {"peer", "content"} : <<[type |-> type, of |-> CliStarted]>> \in Seq(Event)
    BY DEF Event, CliStarted
  <2>2. channel' \in Seq(Event)
    BY <1>20, <2>1, EmitType DEF CliStartExternal
  <2>3. cli' \in CliType
    BY <1>20, CliStepType DEF CliStartExternal, CliState
  <2> QED
    BY <1>20, <2>2, <2>3, CliKeepsTypes DEF CliStartExternal, TypeOK
<1>21. CASE CliOutput
  <2>1. <<[type |-> "content",
           of |-> IF cli.state = "external" THEN CliStarted ELSE cli.turn]>> \in Seq(Event)
    BY DEF Event, CliStarted, TypeOK
  <2>2. channel' \in Seq(Event)
    BY <1>21, <2>1, EmitType DEF CliOutput
  <2>3. cli' \in CliType
    BY <1>21, CliStepType DEF CliOutput
  <2> QED
    BY <1>21, <2>2, <2>3, CliKeepsTypes DEF CliOutput, TypeOK
<1>22. CASE CliFinish
  <2>1. channel' \in Seq(Event)
    BY <1>22, TurnEndType, EmitType DEF CliFinish, Boundary
  <2>2. cli' \in CliType
    BY <1>22 DEF CliFinish, Idle, TypeOK, CliType, CliState, NoTurn
  <2> QED
    BY <1>22, <2>1, <2>2, CliKeepsTypes DEF CliFinish, TypeOK
<1>23. CASE CliInterrupt
  <2>1. channel' \in Seq(Event)
    BY <1>23, TurnEndType, EmitType DEF CliInterrupt, Boundary, TypeOK
  <2>2. stdin' \in Seq(Line)
    <3>1. PICK i \in 1..Len(stdin) :
            stdin' = SubSeq(stdin, 1, i - 1) \o SubSeq(stdin, i + 1, Len(stdin))
      BY <1>23 DEF CliInterrupt
    <3>2. \A j \in 1..Len(stdin) : stdin[j] \in Line
      BY ElementOfSeq DEF TypeOK
    <3>3. Len(stdin) \in Nat
      BY LenProperties DEF TypeOK
    <3>4. SubSeq(stdin, 1, i - 1) \in Seq(Line)
      BY <3>2, <3>3, SubSeqProperties
    <3>5. SubSeq(stdin, i + 1, Len(stdin)) \in Seq(Line)
      BY <3>2, <3>3, SubSeqProperties
    <3> QED
      BY <3>1, <3>4, <3>5, ConcatProperties
  <2>3. cli' \in CliType
    BY <1>23, CliStepType DEF CliInterrupt, TypeOK, CliType
  <2> QED
    BY <1>23, <2>1, <2>2, <2>3, CliKeepsTypes DEF CliInterrupt
<1>24. CASE CliExit
  <2>1. <<[type |-> "exit", of |-> CliStarted]>> \in Seq(Event)
    BY DEF Event, Boundary, CliStarted
  <2>2. channel' \in Seq(Event)
    BY <1>24, <2>1, EmitType DEF CliExit
  <2>3. cli' \in CliType
    BY <1>24 DEF CliExit, Idle, TypeOK, CliType, CliState, NoTurn
  <2> QED
    BY <1>24, <2>2, <2>3, EmptySeq, CliKeepsTypes DEF CliExit
<1>25. CASE UNCHANGED vars
  BY <1>25 DEF vars, TypeOK
<1> QED
  BY <1>1, <1>2, <1>3, <1>4, <1>5, <1>6, <1>7, <1>8, <1>9, <1>10, <1>11, <1>12, <1>13,
     <1>14, <1>15, <1>16, <1>17, <1>18, <1>19, <1>20, <1>21, <1>22, <1>23, <1>24, <1>25
     DEF Next, HandleEvent, HandleInput, Cli

\* The types hold initially.
LEMMA TypeInit ==
  ASSUME Init
  PROVE  TypeOK
<1>1. rp \in RpType /\ posture \in PostureType
  BY NothingYetType DEF Init, RpType
<1>2. <<>> \in Seq(Entry) /\ <<>> \in Seq(Outcome) /\ <<>> \in Seq(Line) /\ <<>> \in Seq(Event)
  BY EmptySeq
<1>3. cli \in CliType
  BY DEF Init, CliType, CliState, NoTurn
<1> QED
  BY <1>1, <1>2, <1>3 DEF Init, TypeOK, RpType, PostureType, CliType, Mode, RunState

\* Every variable has its type in every reachable state, for any bounds.
THEOREM TypeCorrect == Spec => []TypeOK
<1> QED
  BY TypeInit, TypeStep, PTL DEF Spec

-----------------------------------------------------------------------------
(* What a step does to the turns: nothing but an abort, a start, a settling *)

\* r is the FIFO with, perhaps, an abort stamped on the live turn's entry; the
\* history variable says which.
Stamped(r) ==
  /\ r \in Seq(Entry) /\ Len(r) = Len(turnStarts)
  /\ \/ /\ \A i \in 1..Len(r) : r[i].intent = turnStarts[i].intent
        /\ aborted' = aborted
     \/ /\ localRunning
        /\ \A i \in 1..Len(r) :
             r[i].intent # "none" <=> i = Len(r) \/ turnStarts[i].intent # "none"
        /\ aborted' = aborted \cup {turnSeq}

KeepsTurns ==
  /\ UNCHANGED <<turnSeq, boundaryCount, localRunning, metrics, pushes>>
  /\ Stamped(turnStarts')

StartsTurn ==
  /\ UNCHANGED <<boundaryCount, metrics, pushes>>
  /\ turnSeq' = turnSeq + 1 /\ localRunning' = TRUE
  /\ \E r \in Seq(Entry), e \in Entry :
       Stamped(r) /\ e.intent = "none" /\ turnStarts' = Append(r, e)

\* A FIFO left alone is stamped by no abort.
LEMMA UnchangedIsStamped ==
  ASSUME TypeOK, aborted' = aborted
  PROVE  Stamped(turnStarts)
BY DEF Stamped, TypeOK

\* set_live_intent with a turn live stamps an abort; with none, nothing.
LEMMA AbortIsStamped ==
  ASSUME TypeOK, TurnAccounting, NEW intent \in {"cancelled", "timeout"},
         aborted' = IF localRunning THEN aborted \cup {turnSeq} ELSE aborted
  PROVE  Stamped(SetLiveIntent(turnStarts, intent))
<1> DEFINE r == SetLiveIntent(turnStarts, intent)
<1>1. /\ r \in Seq(Entry) /\ Len(r) = Len(turnStarts)
      /\ \A i \in 1..Len(turnStarts) :
           r[i].intent = IF i = Len(turnStarts) THEN intent ELSE turnStarts[i].intent
  BY SetLiveIntentKeeps DEF TypeOK, Intent
<1>2. CASE localRunning
  <2>1. \A i \in 1..Len(r) :
          r[i].intent # "none" <=> i = Len(r) \/ turnStarts[i].intent # "none"
    BY <1>1
  <2>2. aborted' = aborted \cup {turnSeq}
    BY <1>2
  <2> QED
    BY <1>1, <1>2, <2>1, <2>2 DEF Stamped
<1>3. CASE ~localRunning
  <2>1. Len(turnStarts) = 0
    BY <1>3, EmptySeq DEF TurnAccounting, TypeOK
  <2>2. \A i \in 1..Len(r) : r[i].intent = turnStarts[i].intent
    BY <1>1, <2>1
  <2> QED
    BY <1>1, <1>3, <2>2 DEF Stamped
<1> QED
  BY <1>2, <1>3

LEMMA StartIsShaped ==
  ASSUME TypeOK, NEW starts \in Seq(Entry), Stamped(starts), StartTurn(starts),
         UNCHANGED <<boundaryCount, metrics, pushes>>
  PROVE  StartsTurn
BY NewEntryType DEF StartTurn, StartsTurn

LEMMA SupersedingIsShaped ==
  ASSUME TypeOK, TurnAccounting, StartSuperseding,
         UNCHANGED <<boundaryCount, metrics, pushes>>
  PROVE  StartsTurn
<1>1. CASE localRunning
  <2>1. Stamped(SetLiveIntent(turnStarts, "cancelled"))
    BY <1>1, AbortIsStamped DEF StartSuperseding
  <2>2. SetLiveIntent(turnStarts, "cancelled") \in Seq(Entry)
    BY <2>1 DEF Stamped
  <2> QED
    BY <1>1, <2>1, <2>2, StartIsShaped DEF StartSuperseding
<1>2. CASE ~localRunning
  <2>1. Stamped(turnStarts) /\ turnStarts \in Seq(Entry)
    BY <1>2, UnchangedIsStamped DEF StartSuperseding, TypeOK
  <2> QED
    BY <1>2, <2>1, StartIsShaped DEF StartSuperseding
<1> QED
  BY <1>1, <1>2

\* Every step keeps the turns, starts one, or settles a boundary.
LEMMA StepShape ==
  ASSUME TypeOK, TurnAccounting, [Next]_vars
  PROVE  KeepsTurns \/ StartsTurn \/ SettleBoundary
<1> USE DEF fanoutVars, managerVars, inputVars, cliVars
<1>1. CASE UNCHANGED <<turnSeq, boundaryCount, localRunning, turnStarts, metrics, pushes, aborted>>
  BY <1>1, UnchangedIsStamped DEF KeepsTurns
<1>2. CASE HandleMarker
  <2>1. aborted' = aborted /\ UNCHANGED <<turnSeq, boundaryCount, localRunning, metrics, pushes>>
    BY <1>2 DEF HandleMarker, Handling
  <2>2. turnStarts' = turnStarts \/ turnStarts' = MarkEchoed(turnStarts)
    BY <1>2 DEF HandleMarker
  <2>3. Stamped(MarkEchoed(turnStarts))
    BY <2>1, MarkEchoedKeeps DEF Stamped, TypeOK
  <2> QED
    BY <2>1, <2>2, <2>3, UnchangedIsStamped DEF KeepsTurns
<1>3. CASE OpenExternalTurn
  <2>1. Stamped(turnStarts) /\ turnStarts \in Seq(Entry)
    BY <1>3, UnchangedIsStamped DEF OpenExternalTurn, Handling, TypeOK
  <2>2. NewEntry(TRUE) \in Entry /\ NewEntry(TRUE).intent = "none"
    BY NewEntryType
  <2> QED
    BY <1>3, <2>1, <2>2 DEF OpenExternalTurn, StartsTurn
<1>4. CASE HandleRunPrompt
  BY <1>4, SupersedingIsShaped DEF HandleRunPrompt, Receiving
<1>5. CASE HandlePromptInterrupting
  BY <1>5, SupersedingIsShaped DEF HandlePromptInterrupting, FromClient, Receiving
<1>6. CASE HandlePromptIdle
  <2>1. Stamped(turnStarts) /\ turnStarts \in Seq(Entry)
    BY <1>6, UnchangedIsStamped DEF HandlePromptIdle, TypeOK
  <2> QED
    BY <1>6, <2>1, StartIsShaped DEF HandlePromptIdle, FromClient, Receiving
<1>7. CASE HandleInterrupt
  <2>1. CASE localRunning
    <3>1. Stamped(turnStarts')
      BY <1>7, <2>1, AbortIsStamped DEF HandleInterrupt
    <3> QED
      BY <1>7, <3>1 DEF HandleInterrupt, FromClient, Receiving, KeepsTurns
  <2>2. CASE ~localRunning
    BY <1>1, <1>7, <2>2 DEF HandleInterrupt, FromClient, Receiving
  <2> QED
    BY <2>1, <2>2
<1>8. CASE HandleCancel \/ HandleTimeoutKill
  <2>1. PICK intent \in {"cancelled", "timeout"} : AbortAndKill(intent)
    BY <1>8 DEF HandleCancel, HandleTimeoutKill
  <2>2. Stamped(turnStarts')
    BY <2>1, AbortIsStamped DEF AbortAndKill
  <2> QED
    BY <1>8, <2>1, <2>2
       DEF HandleCancel, HandleTimeoutKill, AbortAndKill, FromClient, Receiving, KeepsTurns
<1>9. CASE FlushQueue
  <2>1. CASE pending > 0
    <3>1. Stamped(turnStarts) /\ turnStarts \in Seq(Entry)
      BY <1>9, UnchangedIsStamped DEF FlushQueue, TypeOK
    <3> QED
      BY <1>9, <2>1, <3>1, StartIsShaped DEF FlushQueue, Receiving
  <2>2. CASE ~(pending > 0)
    BY <1>1, <1>9, <2>2 DEF FlushQueue, Receiving
  <2> QED
    BY <2>1, <2>2
<1>10. CASE ForwardOutput \/ SkipBoundary
  BY <1>1, <1>10 DEF ForwardOutput, SkipBoundary, Handling
<1>11. CASE HandlePromptQueued \/ HandleSetQueueMode
  BY <1>1, <1>11 DEF HandlePromptQueued, HandleSetQueueMode, FromClient, Receiving
<1>12. CASE FanoutEnds \/ SendRunPrompt \/ WatchdogFires \/ RemoveSession \/ ClientLeaves
  BY <1>1, <1>12 DEF FanoutEnds, SendRunPrompt, WatchdogFires, RemoveSession, ClientLeaves
<1>13. CASE Cli
  BY <1>1, <1>13 DEF Cli, CliTakePrompt, CliMergePrompt, CliStartExternal, CliOutput,
                     CliFinish, CliInterrupt, CliExit
<1>14. CASE UNCHANGED vars
  BY <1>1, <1>14 DEF vars
<1> QED
  BY <1>2, <1>3, <1>4, <1>5, <1>6, <1>7, <1>8, <1>9, <1>10, <1>11, <1>12, <1>13, <1>14
     DEF Next, HandleEvent, HandleInput

-----------------------------------------------------------------------------
(* The accounting of turns, metrics, aborts and pushes *)

\* One metric per counted boundary; aborts and pushes name started and settled turns.
MetricPerBoundary == Len(metrics) = boundaryCount
AbortsAreStarted == aborted \subseteq 1..turnSeq
PushesAreSettled == \A p \in pushes : p.turn <= boundaryCount

TurnInv ==
  /\ TypeOK /\ TurnAccounting
  /\ MetricPerBoundary /\ AbortsAreStarted /\ PushesAreSettled
  /\ IntentReachesItsTurn /\ NoFalseDonePush

\* A boundary with a turn outstanding settles exactly that turn, the clamp of
\* boundary_count included; one with none changes no count.
LEMMA SettleFacts ==
  ASSUME TypeOK, TurnAccounting, SettleBoundary
  PROVE  /\ UNCHANGED <<turnSeq, aborted>>
         /\ turnStarts # <<>> =>
              /\ boundaryCount' = boundaryCount + 1
              /\ Len(turnStarts') = Len(turnStarts) - 1
              /\ \A i \in 1..Len(turnStarts') : turnStarts'[i] = turnStarts[i + 1]
              /\ \E outcome \in Outcome :
                   /\ metrics' = Append(metrics, outcome)
                   /\ outcome \in {"cancelled", "timeout"} <=> turnStarts[1].intent # "none"
         /\ turnStarts = <<>> =>
              UNCHANGED <<boundaryCount, turnStarts, metrics, pushes, localRunning>>
         /\ localRunning' <=> turnStarts' # <<>>
<1> DEFINE outcome == ClassifyOutcome(Head(channel).type, FrontIntent(turnStarts))
<1>1. /\ UNCHANGED <<turnSeq, aborted>> /\ turnStarts' = Settle(turnStarts)
      /\ boundaryCount' = CountBoundary /\ localRunning' = (localRunning /\ ~CaughtUp)
      /\ metrics' = IF turnStarts # <<>> THEN Append(metrics, outcome) ELSE metrics
  BY DEF SettleBoundary, Handling
<1>2. /\ turnSeq \in Nat /\ boundaryCount \in Nat /\ boundaryCount <= turnSeq
      /\ Len(turnStarts) = turnSeq - boundaryCount
      /\ localRunning <=> turnStarts # <<>>
      /\ localRunning \in BOOLEAN
  BY DEF TypeOK, TurnAccounting
<1>3. turnStarts \in Seq(Entry) /\ turnStarts' \in Seq(Entry)
  BY SettleBoundaryType DEF TypeOK
<1>4. CASE turnStarts # <<>>
  <2>1. /\ Len(turnStarts) > 0 /\ Len(turnStarts') = Len(turnStarts) - 1
        /\ \A i \in 1..Len(turnStarts') : turnStarts'[i] = turnStarts[i + 1]
        /\ FrontIntent(turnStarts) = turnStarts[1].intent
    BY <1>1, <1>3, <1>4, FrontKeeps
  <2>2. boundaryCount' = boundaryCount + 1
    BY <1>1, <1>2, <2>1 DEF CountBoundary, CaughtUp
  <2>3. CaughtUp <=> Len(turnStarts') = 0
    BY <1>2, <2>1 DEF CaughtUp
  <2>4. turnStarts' = <<>> <=> Len(turnStarts') = 0
    BY <1>3, EmptySeq
  <2>5. localRunning' <=> turnStarts' # <<>>
    BY <1>1, <1>2, <1>4, <2>3, <2>4
  <2>6. /\ outcome \in Outcome
        /\ outcome \in {"cancelled", "timeout"} <=> turnStarts[1].intent # "none"
    <3>1. Head(channel).type \in Boundary
      BY DEF SettleBoundary, Handling
    <3> QED
      BY <1>3, <2>1, <3>1, FrontKeeps, OutcomeFollowsIntent
  <2> QED
    BY <1>1, <1>4, <2>1, <2>2, <2>5, <2>6
<1>5. CASE turnStarts = <<>>
  <2>1. Len(turnStarts) = 0 /\ turnStarts' = <<>>
    BY <1>1, <1>3, <1>5, FrontKeeps
  <2>2. boundaryCount' = boundaryCount
    BY <1>1, <1>2, <2>1 DEF CountBoundary, CaughtUp
  <2>3. pushes' = pushes
    BY <1>5 DEF SettleBoundary
  <2>4. localRunning = FALSE /\ localRunning' = FALSE /\ metrics' = metrics
    BY <1>1, <1>2, <1>5
  <2> QED
    BY <1>1, <1>5, <2>1, <2>2, <2>3, <2>4
<1> QED
  BY <1>4, <1>5

\* A push is added only for the settling turn, and not if its intent is an abort.
LEMMA PushFacts ==
  ASSUME TypeOK, SettleBoundary, NEW p \in pushes', p \notin pushes
  PROVE  /\ p.turn = boundaryCount + 1
         /\ turnStarts # <<>> /\ turnStarts[1].intent = "none"
<1>1. /\ turnStarts # <<>> /\ ~IntentSuppressesPush(FrontIntent(turnStarts))
      /\ p.turn = boundaryCount + 1
  BY DEF SettleBoundary
<1>2. FrontIntent(turnStarts) \in Intent /\ FrontIntent(turnStarts) = turnStarts[1].intent
  BY <1>1, FrontKeeps DEF TypeOK
<1> QED
  BY <1>1, <1>2 DEF IntentSuppressesPush, Intent

LEMMA TurnInvInit ==
  ASSUME Init
  PROVE  TurnInv
<1>1. TypeOK
  BY TypeInit
<1>2. Len(turnStarts) = 0 /\ Len(metrics) = 0
  BY DEF Init
<1> QED
  BY <1>1, <1>2 DEF Init, TurnInv, TurnAccounting, MetricPerBoundary, AbortsAreStarted,
     PushesAreSettled, IntentReachesItsTurn, NoFalseDonePush

\* The counters and the FIFO stay in step.
LEMMA AccountingStep ==
  ASSUME TypeOK, TurnAccounting, [Next]_vars
  PROVE  TurnAccounting'
<1>1. TypeOK'
  BY TypeStep
<1>2. turnStarts' = <<>> <=> Len(turnStarts') = 0
  BY <1>1, EmptySeq DEF TypeOK
<1>3. turnStarts = <<>> <=> Len(turnStarts) = 0
  BY EmptySeq DEF TypeOK
<1>4. CASE KeepsTurns
  BY <1>2, <1>3, <1>4 DEF KeepsTurns, Stamped, TurnAccounting
<1>5. CASE StartsTurn
  <2>1. Len(turnStarts') = Len(turnStarts) + 1
    BY <1>5, AppendProperties DEF StartsTurn, Stamped
  <2>2. Len(turnStarts) \in Nat
    BY LenProperties DEF TypeOK
  <2> QED
    BY <1>2, <1>5, <2>1, <2>2 DEF StartsTurn, TurnAccounting, TypeOK
<1>6. CASE SettleBoundary
  <2>1. localRunning' <=> turnStarts' # <<>>
    BY <1>6, SettleFacts
  <2>2. CASE turnStarts # <<>>
    <3>1. Len(turnStarts) > 0
      BY <1>3, <2>2, LenProperties DEF TypeOK
    <3>2. /\ turnSeq' = turnSeq /\ boundaryCount' = boundaryCount + 1
          /\ Len(turnStarts') = Len(turnStarts) - 1
      BY <1>6, <2>2, SettleFacts
    <3> QED
      BY <2>1, <3>1, <3>2 DEF TurnAccounting, TypeOK
  <2>3. CASE turnStarts = <<>>
    BY <1>6, <2>1, <2>3, SettleFacts DEF TurnAccounting
  <2> QED
    BY <2>2, <2>3
<1> QED
  BY <1>4, <1>5, <1>6, StepShape

\* Metrics, aborts and pushes stay in step with the counters.
LEMMA TurnInvStep ==
  ASSUME TurnInv, [Next]_vars
  PROVE  TurnInv'
<1>1. TypeOK /\ TypeOK' /\ TurnAccounting /\ TurnAccounting'
  BY TypeStep, AccountingStep DEF TurnInv
<1>2. /\ turnSeq \in Nat /\ boundaryCount \in Nat /\ boundaryCount <= turnSeq
      /\ Len(turnStarts) \in Nat /\ Len(turnStarts) = turnSeq - boundaryCount
      /\ Len(metrics) = boundaryCount /\ aborted \subseteq 1..turnSeq
      /\ turnStarts \in Seq(Entry) /\ metrics \in Seq(Outcome)
  BY <1>1, LenProperties DEF TypeOK, TurnAccounting, TurnInv, MetricPerBoundary, AbortsAreStarted
<1>3. /\ \A i \in 1..Len(metrics) :
           metrics[i] \in {"cancelled", "timeout"} <=> i \in aborted
      /\ \A i \in 1..Len(turnStarts) :
           turnStarts[i].intent # "none" <=> boundaryCount + i \in aborted
  BY DEF TurnInv, IntentReachesItsTurn
<1>4. \A p \in pushes : p.turn \in Nat /\ p.turn <= boundaryCount /\ p.turn \notin aborted
  BY <1>1 DEF TurnInv, PushesAreSettled, NoFalseDonePush, TypeOK
<1>5. ASSUME NEW r, Stamped(r)
      PROVE  /\ aborted' \subseteq 1..turnSeq
             /\ \A i \in 1..boundaryCount : i \in aborted' <=> i \in aborted
             /\ \A i \in 1..Len(r) : r[i].intent # "none" <=> boundaryCount + i \in aborted'
  <2>1. Len(r) = Len(turnStarts)
    BY <1>5 DEF Stamped
  <2>2. CASE aborted' = aborted /\ \A i \in 1..Len(r) : r[i].intent = turnStarts[i].intent
    BY <1>2, <1>3, <2>1, <2>2
  <2>3. CASE /\ localRunning
             /\ \A i \in 1..Len(r) :
                  r[i].intent # "none" <=> i = Len(r) \/ turnStarts[i].intent # "none"
             /\ aborted' = aborted \cup {turnSeq}
    <3>1. boundaryCount < turnSeq
      BY <1>1, <1>2, <2>3, EmptySeq DEF TurnAccounting
    <3>2. aborted' \subseteq 1..turnSeq
      BY <1>2, <2>3, <3>1
    <3>3. \A i \in 1..boundaryCount : i \in aborted' <=> i \in aborted
      BY <1>2, <2>3, <3>1
    <3>4. \A i \in 1..Len(r) : boundaryCount + i = turnSeq <=> i = Len(r)
      BY <1>2, <2>1
    <3>5. \A i \in 1..Len(r) : r[i].intent # "none" <=> boundaryCount + i \in aborted'
      BY <1>3, <2>1, <2>3, <3>4
    <3> QED
      BY <3>2, <3>3, <3>5
  <2> QED
    BY <1>5, <2>2, <2>3 DEF Stamped
<1>6. CASE KeepsTurns
  <2>1. /\ UNCHANGED <<turnSeq, boundaryCount, metrics, pushes>>
        /\ aborted' \subseteq 1..turnSeq
        /\ \A i \in 1..boundaryCount : i \in aborted' <=> i \in aborted
        /\ \A i \in 1..Len(turnStarts') :
             turnStarts'[i].intent # "none" <=> boundaryCount + i \in aborted'
    BY <1>5, <1>6 DEF KeepsTurns
  <2>2. MetricPerBoundary' /\ AbortsAreStarted' /\ PushesAreSettled'
    BY <1>2, <1>4, <2>1 DEF MetricPerBoundary, AbortsAreStarted, PushesAreSettled
  <2>3. IntentReachesItsTurn'
    BY <1>2, <1>3, <2>1 DEF IntentReachesItsTurn
  <2>4. NoFalseDonePush'
    <3>1. \A p \in pushes : p.turn \notin aborted'
      <4> TAKE p \in pushes
      <4>1. p.turn \in Nat /\ p.turn <= boundaryCount /\ p.turn \notin aborted
        BY <1>4
      <4>2. CASE p.turn = 0
        BY <1>2, <2>1, <4>2
      <4>3. CASE p.turn # 0
        <5>1. p.turn \in 1..boundaryCount
          BY <1>2, <4>1, <4>3
        <5> QED
          BY <2>1, <4>1, <5>1
      <4> QED
        BY <4>2, <4>3
    <3> QED
      BY <2>1, <3>1 DEF NoFalseDonePush
  <2> QED
    BY <1>1, <2>2, <2>3, <2>4 DEF TurnInv
<1>7. CASE StartsTurn
  <2>1. PICK r \in Seq(Entry), e \in Entry :
          Stamped(r) /\ e.intent = "none" /\ turnStarts' = Append(r, e)
    BY <1>7 DEF StartsTurn
  <2>2. /\ UNCHANGED <<boundaryCount, metrics, pushes>> /\ turnSeq' = turnSeq + 1
        /\ aborted' \subseteq 1..turnSeq
        /\ \A i \in 1..boundaryCount : i \in aborted' <=> i \in aborted
        /\ \A i \in 1..Len(r) : r[i].intent # "none" <=> boundaryCount + i \in aborted'
        /\ Len(r) = Len(turnStarts)
    BY <1>5, <1>7, <2>1 DEF StartsTurn, Stamped
  <2>3. /\ Len(turnStarts') = Len(r) + 1
        /\ \A i \in 1..Len(r) : turnStarts'[i] = r[i]
        /\ turnStarts'[Len(r) + 1] = e
    BY <2>1, AppendProperties
  <2>4. MetricPerBoundary' /\ AbortsAreStarted' /\ PushesAreSettled'
    BY <1>2, <1>4, <2>2 DEF MetricPerBoundary, AbortsAreStarted, PushesAreSettled
  <2>5. IntentReachesItsTurn'
    <3>1. \A i \in 1..Len(metrics') :
            metrics'[i] \in {"cancelled", "timeout"} <=> i \in aborted'
      BY <1>2, <1>3, <2>2
    <3>2. boundaryCount + (Len(r) + 1) \notin aborted'
      BY <1>2, <2>2
    <3>3. \A i \in 1..Len(turnStarts') :
            turnStarts'[i].intent # "none" <=> boundaryCount + i \in aborted'
      BY <1>2, <2>1, <2>2, <2>3, <3>2
    <3> QED
      BY <2>2, <3>1, <3>3 DEF IntentReachesItsTurn
  <2>6. NoFalseDonePush'
    <3>1. \A p \in pushes : p.turn \notin aborted'
      <4> TAKE p \in pushes
      <4>1. p.turn \in Nat /\ p.turn <= boundaryCount /\ p.turn \notin aborted
        BY <1>4
      <4>2. CASE p.turn = 0
        BY <1>2, <2>2, <4>2
      <4>3. CASE p.turn # 0
        <5>1. p.turn \in 1..boundaryCount
          BY <1>2, <4>1, <4>3
        <5> QED
          BY <2>2, <4>1, <5>1
      <4> QED
        BY <4>2, <4>3
    <3> QED
      BY <2>2, <3>1 DEF NoFalseDonePush
  <2> QED
    BY <1>1, <2>4, <2>5, <2>6 DEF TurnInv
<1>8. CASE SettleBoundary
  <2>1. CASE turnStarts = <<>>
    <3>1. UNCHANGED <<turnSeq, boundaryCount, turnStarts, metrics, pushes, aborted>>
      BY <1>1, <1>8, <2>1, SettleFacts
    <3> QED
      BY <1>1, <3>1 DEF TurnInv, MetricPerBoundary, AbortsAreStarted, PushesAreSettled,
         IntentReachesItsTurn, NoFalseDonePush
  <2>2. CASE turnStarts # <<>>
    <3>1. /\ UNCHANGED <<turnSeq, aborted>> /\ boundaryCount' = boundaryCount + 1
          /\ Len(turnStarts') = Len(turnStarts) - 1
          /\ \A i \in 1..Len(turnStarts') : turnStarts'[i] = turnStarts[i + 1]
      BY <1>1, <1>8, <2>2, SettleFacts
    <3>2. PICK outcome \in Outcome :
            /\ metrics' = Append(metrics, outcome)
            /\ outcome \in {"cancelled", "timeout"} <=> turnStarts[1].intent # "none"
      BY <1>1, <1>8, <2>2, SettleFacts
    <3>3. /\ Len(metrics') = Len(metrics) + 1
          /\ \A i \in 1..Len(metrics) : metrics'[i] = metrics[i]
          /\ metrics'[Len(metrics) + 1] = outcome
      BY <1>2, <3>2, AppendProperties
    <3>4. Len(turnStarts) > 0 /\ (turnStarts[1].intent # "none" <=> boundaryCount + 1 \in aborted)
      BY <1>2, <1>3, <2>2, EmptySeq
    <3>5. MetricPerBoundary' /\ AbortsAreStarted'
      BY <1>2, <3>1, <3>3 DEF MetricPerBoundary, AbortsAreStarted
    <3>6. IntentReachesItsTurn'
      <4>1. \A i \in 1..Len(metrics') :
              metrics'[i] \in {"cancelled", "timeout"} <=> i \in aborted
        BY <1>2, <1>3, <3>2, <3>3, <3>4
      <4>2. \A i \in 1..Len(turnStarts') :
              turnStarts'[i].intent # "none" <=> boundaryCount' + i \in aborted
        <5> TAKE i \in 1..Len(turnStarts')
        <5>1. i + 1 \in 1..Len(turnStarts) /\ boundaryCount' + i = boundaryCount + (i + 1)
          BY <1>2, <3>1
        <5> QED
          BY <1>3, <3>1, <5>1
      <4> QED
        BY <3>1, <4>1, <4>2 DEF IntentReachesItsTurn
    <3>7. PushesAreSettled' /\ NoFalseDonePush'
      <4>1. \A p \in pushes' : p.turn <= boundaryCount' /\ p.turn \notin aborted
        <5> TAKE p \in pushes'
        <5>1. CASE p \in pushes
          BY <1>2, <1>4, <3>1, <5>1
        <5>2. CASE p \notin pushes
          BY <1>1, <1>2, <1>8, <3>1, <3>4, <5>2, PushFacts
        <5> QED
          BY <5>1, <5>2
      <4> QED
        BY <3>1, <4>1 DEF PushesAreSettled, NoFalseDonePush
    <3> QED
      BY <1>1, <3>5, <3>6, <3>7 DEF TurnInv
  <2> QED
    BY <2>1, <2>2
<1> QED
  BY <1>1, <1>6, <1>7, <1>8, StepShape

-----------------------------------------------------------------------------
(* The queue, the manager's mirror and the scheduled run's handle *)

IInv == TurnInv /\ QueueDiscipline /\ MirrorAgrees /\ RunHandle /\ CompletedOnce

LEMMA IInvInit ==
  ASSUME Init
  PROVE  IInv
<1>1. TurnInv
  BY TurnInvInit
<1>2. Len(metrics) = 0
  BY DEF Init
<1> QED
  BY <1>1, <1>2 DEF Init, IInv, QueueDiscipline, MirrorAgrees, RunHandle, CompletedOnce,
     NoProcess

\* The manager's two callbacks, seen through the mirror.
LEMMA RunningMirrors ==
  ASSUME TypeOK, NEW seq \in Nat, MarkRunning(seq)
  PROVE  /\ rp'.live = rp.live /\ rp'.mode = rp.mode /\ turnsCompleted' = turnsCompleted
         /\ rp.live => rp'.state = "running" /\ rp'.seq = seq
BY DEF TypeOK, MarkRunning

LEMMA IdleMirrors ==
  ASSUME TypeOK, NEW seq \in Nat, MarkIdle(seq)
  PROVE  /\ rp'.live = rp.live /\ rp'.mode = rp.mode /\ rp'.seq = rp.seq
         /\ rp.live /\ rp.seq = seq => rp'.state = "idle"
         /\ \/ turnsCompleted' = turnsCompleted
            \/ rp.live /\ rp.state = "running" /\ turnsCompleted' = turnsCompleted + 1
BY DEF TypeOK, MarkIdle

\* A started turn empties the window, adopts its number in the mirror, and
\* holds a run's handle exactly if it is the run's own.
LEMMA StartKeepsMirror ==
  ASSUME IInv, TurnInv', MarkRunning(turnSeq + 1),
         turnSeq' = turnSeq + 1, localRunning' = TRUE, window' = FALSE,
         UNCHANGED <<phase, queueMode, metrics>>,
         phase = "running" /\ rp.live =>
           (runQueued' <=> run' = "sent") /\ (activeRun' <=> run' = "running")
  PROVE  IInv'
<1>1. TypeOK /\ turnSeq + 1 \in Nat
  BY DEF IInv, TurnInv, TypeOK
<1>2. /\ rp'.live = rp.live /\ rp'.mode = rp.mode /\ turnsCompleted' = turnsCompleted
      /\ rp.live => rp'.state = "running" /\ rp'.seq = turnSeq + 1
  BY <1>1, RunningMirrors
<1>3. QueueDiscipline' /\ RunHandle'
  BY <1>2 DEF QueueDiscipline, RunHandle
<1>4. MirrorAgrees'
  BY <1>2 DEF MirrorAgrees, IInv
<1>5. CompletedOnce'
  BY <1>2 DEF CompletedOnce, IInv
<1> QED
  BY <1>3, <1>4, <1>5 DEF IInv

\* Settling a boundary: idle exactly when caught up, counted once, the window
\* armed if prompts wait, the run's handle gone.
LEMMA SettleKeepsMirror ==
  ASSUME IInv, TurnInv', SettleBoundary
  PROVE  IInv'
<1>1. /\ TypeOK /\ TurnAccounting /\ turnSeq \in Nat /\ boundaryCount \in Nat
      /\ metrics \in Seq(Outcome) /\ localRunning \in BOOLEAN /\ turnsCompleted \in Nat
  BY DEF IInv, TurnInv, TypeOK
<1>2. phase = "running" /\ UNCHANGED <<phase, queueMode, turnSeq, pending>>
  BY DEF SettleBoundary, Handling
<1>3. localRunning' = (localRunning /\ ~CaughtUp) /\ activeRun' = FALSE
  BY DEF SettleBoundary
<1>4. /\ rp'.live = rp.live /\ rp'.mode = rp.mode /\ rp'.seq = rp.seq
      /\ CaughtUp /\ rp.live => rp'.state = "idle"
      /\ ~CaughtUp => rp'.state = rp.state
      /\ \/ turnsCompleted' = turnsCompleted
         \/ rp.live /\ rp.state = "running" /\ turnsCompleted' = turnsCompleted + 1
  <2>1. CASE CaughtUp
    <3>1. MarkIdle(turnSeq)
      BY <2>1 DEF SettleBoundary
    <3>2. rp.live => rp.seq = turnSeq
      BY <1>2 DEF IInv, MirrorAgrees
    <3> QED
      BY <1>1, <2>1, <3>1, <3>2, IdleMirrors
  <2>2. CASE ~CaughtUp
    BY <2>2 DEF SettleBoundary
  <2> QED
    BY <2>1, <2>2
<1>5. MirrorAgrees'
  BY <1>1, <1>2, <1>3, <1>4 DEF IInv, MirrorAgrees
<1>6. CompletedOnce'
  <2>1. CASE turnsCompleted' = turnsCompleted
    <3>1. Len(metrics') >= Len(metrics)
      BY <1>1, AppendProperties, LenProperties DEF SettleBoundary
    <3> QED
      BY <1>1, <2>1, <3>1, LenProperties DEF IInv, CompletedOnce
  <2>2. CASE rp.live /\ rp.state = "running" /\ turnsCompleted' = turnsCompleted + 1
    <3>1. turnStarts # <<>>
      BY <1>1, <1>2, <2>2 DEF IInv, MirrorAgrees, TurnAccounting
    <3>2. \E outcome \in Outcome : metrics' = Append(metrics, outcome)
      BY <1>1, <3>1, SettleFacts
    <3>3. Len(metrics') = Len(metrics) + 1
      BY <1>1, <3>2, AppendProperties
    <3> QED
      BY <1>1, <2>2, <3>3, LenProperties DEF IInv, CompletedOnce
  <2> QED
    BY <1>4, <2>1, <2>2
<1>7. QueueDiscipline'
  <2>1. window' = IF ~localRunning' /\ pending > 0 THEN TRUE ELSE window
    BY DEF SettleBoundary, Arm
  <2>2. localRunning' => localRunning
    BY <1>3
  <2> QED
    BY <1>2, <2>1, <2>2 DEF IInv, QueueDiscipline
<1>8. RunHandle'
  <2>1. CASE activeRun
    <3>1. run' # "running" /\ runQueued' = runQueued /\ (run' = "sent" => run = "sent")
      BY <2>1 DEF SettleBoundary, Handling, inputVars, FinalizeRun
    <3>2. rp.live => run = "running" /\ ~runQueued
      BY <1>2, <2>1 DEF IInv, RunHandle
    <3> QED
      BY <1>2, <1>3, <1>4, <3>1, <3>2 DEF RunHandle
  <2>2. CASE ~activeRun
    <3>1. run' = run /\ runQueued' = runQueued
      BY <2>2 DEF SettleBoundary, Handling, inputVars
    <3> QED
      BY <1>2, <1>3, <1>4, <2>2, <3>1 DEF RunHandle, IInv
  <2> QED
    BY <2>1, <2>2
<1> QED
  BY <1>5, <1>6, <1>7, <1>8 DEF IInv

LEMMA IInvStep ==
  ASSUME IInv, [Next]_vars
  PROVE  IInv'
<1> USE DEF fanoutVars, managerVars, inputVars, cliVars
<1>1. TurnInv /\ TypeOK /\ TurnInv'
  BY TurnInvStep DEF IInv, TurnInv
<1>2. CASE /\ UNCHANGED <<phase, turnSeq, localRunning, pending, window, queueMode, activeRun>>
           /\ UNCHANGED <<rp, turnsCompleted, run, runQueued, metrics>>
  BY <1>1, <1>2 DEF IInv, QueueDiscipline, MirrorAgrees, RunHandle, CompletedOnce
<1>3. CASE HandleMarker \/ ForwardOutput \/ SkipBoundary
  BY <1>2, <1>3 DEF HandleMarker, ForwardOutput, SkipBoundary, Handling
<1>4. CASE OpenExternalTurn
  <2>1. ~localRunning
    BY <1>4 DEF OpenExternalTurn, OpensExternal
  <2>2. phase = "running" /\ rp.live =>
          (runQueued' <=> run' = "sent") /\ (activeRun' <=> run' = "running")
    BY <1>4, <2>1 DEF OpenExternalTurn, Handling, IInv, RunHandle
  <2> QED
    BY <1>1, <1>4, <2>2, StartKeepsMirror DEF OpenExternalTurn, Handling
<1>5. CASE SettleBoundary
  BY <1>1, <1>5, SettleKeepsMirror
<1>6. CASE HandleRunPrompt
  <2>1. run' = (IF run = "sent" THEN "running" ELSE run) /\ activeRun' = TRUE
    BY <1>6 DEF HandleRunPrompt
  <2>2. rp.live => run' = "running"
    BY <1>6, <2>1 DEF HandleRunPrompt, Receiving, IInv, RunHandle
  <2> QED
    BY <1>1, <1>6, <2>1, <2>2, StartKeepsMirror
       DEF HandleRunPrompt, Receiving, StartSuperseding, StartTurn
<1>7. CASE HandlePromptInterrupting
  <2>1. rp.live => run' # "running" /\ (runQueued' <=> run' = "sent")
    BY <1>7 DEF HandlePromptInterrupting, FromClient, Receiving, SupersedeRun, FinalizeRun,
                IInv, RunHandle
  <2> QED
    BY <1>1, <1>7, <2>1, StartKeepsMirror
       DEF HandlePromptInterrupting, FromClient, Receiving, StartSuperseding, StartTurn
<1>8. CASE HandlePromptQueued
  BY <1>1, <1>8 DEF HandlePromptQueued, FromClient, Receiving, IInv, QueueDiscipline, MirrorAgrees,
                    RunHandle, CompletedOnce, TypeOK
<1>9. CASE HandlePromptIdle
  <2>1. ~localRunning /\ run' = run /\ activeRun' = FALSE /\ phase = "running"
    BY <1>9 DEF HandlePromptIdle, FromClient, Receiving
  <2>2. rp.live => run' # "running" /\ (runQueued' <=> run' = "sent")
    BY <1>9, <2>1 DEF HandlePromptIdle, FromClient, IInv, RunHandle
  <2>3. window' = FALSE /\ UNCHANGED <<phase, queueMode, metrics>>
    BY <1>1, <1>9 DEF HandlePromptIdle, FromClient, Receiving, TypeOK
  <2> QED
    BY <1>1, <1>9, <2>1, <2>2, <2>3, StartKeepsMirror DEF HandlePromptIdle, StartTurn
<1>10. CASE HandleSetQueueMode
  <2>1. PICK m \in Mode : /\ queueMode' = m
                          /\ rp' = IF rp.live THEN [rp EXCEPT !.mode = m] ELSE rp
    BY <1>10 DEF HandleSetQueueMode
  <2>2. /\ rp'.live = rp.live /\ rp'.state = rp.state /\ rp'.seq = rp.seq
        /\ rp.live => rp'.mode = m
    BY <1>1, <2>1 DEF TypeOK
  <2> QED
    BY <1>1, <1>10, <2>1, <2>2 DEF HandleSetQueueMode, FromClient, Receiving, IInv, QueueDiscipline,
                                   MirrorAgrees, RunHandle, CompletedOnce
<1>11. CASE HandleInterrupt
  BY <1>1, <1>11 DEF HandleInterrupt, FromClient, Receiving, IInv, QueueDiscipline, MirrorAgrees,
                     RunHandle, CompletedOnce
<1>12. CASE HandleCancel \/ HandleTimeoutKill
  BY <1>2, <1>12 DEF HandleCancel, HandleTimeoutKill, AbortAndKill, FromClient, Receiving
<1>13. CASE FlushQueue
  <2>1. window /\ phase = "running"
    BY <1>13 DEF FlushQueue, Receiving
  <2>2. ~localRunning /\ pending > 0
    BY <2>1 DEF IInv, QueueDiscipline
  <2>3. /\ StartTurn(turnStarts) /\ window' = FALSE /\ activeRun' = FALSE
        /\ UNCHANGED <<phase, queueMode, metrics, run>>
    BY <1>13, <2>2 DEF FlushQueue, Receiving
  <2>4. rp.live => run' # "running" /\ (runQueued' <=> run' = "sent")
    BY <1>13, <2>1, <2>2, <2>3 DEF FlushQueue, IInv, RunHandle
  <2> QED
    BY <1>1, <2>3, <2>4, StartKeepsMirror DEF StartTurn
<1>14. CASE FanoutEnds
  BY <1>1, <1>14 DEF FanoutEnds, IInv, QueueDiscipline, MirrorAgrees, RunHandle,
                     CompletedOnce, NoProcess
<1>15. CASE SendRunPrompt
  BY <1>1, <1>15 DEF SendRunPrompt, IInv, QueueDiscipline, MirrorAgrees, RunHandle,
                     CompletedOnce
<1>16. CASE RemoveSession
  BY <1>1, <1>16 DEF RemoveSession, IInv, QueueDiscipline, MirrorAgrees, RunHandle,
                     CompletedOnce, NoProcess
<1>17. CASE WatchdogFires \/ ClientLeaves
  BY <1>2, <1>17 DEF WatchdogFires, ClientLeaves
<1>18. CASE Cli
  BY <1>2, <1>18 DEF Cli, CliTakePrompt, CliMergePrompt, CliStartExternal, CliOutput,
                     CliFinish, CliInterrupt, CliExit
<1>19. CASE UNCHANGED vars
  BY <1>2, <1>19 DEF vars
<1> QED
  BY <1>3, <1>4, <1>5, <1>6, <1>7, <1>8, <1>9, <1>10, <1>11, <1>12, <1>13, <1>14, <1>15,
     <1>16, <1>17, <1>18, <1>19 DEF Next, HandleEvent, HandleInput

-----------------------------------------------------------------------------
(* The theorems *)

\* The strengthening is an invariant: each part needs another one. The handle
\* needs the window closed while busy, the counted turns need the mirror, the
\* aborts need the FIFO to hold one entry per unsettled turn.
LEMMA Invariance == Spec => []IInv
<1> QED
  BY IInvInit, IInvStep, PTL DEF Spec

\* The counters and the FIFO of turn starts agree in every reachable state:
\* no doubled, late or spurious boundary leaves the fan-out busy with no turn.
THEOREM TurnAccountingHolds == Spec => []TurnAccounting
<1>1. IInv => TurnAccounting
  BY DEF IInv, TurnInv
<1> QED
  BY <1>1, Invariance, PTL

\* An abort is recorded on the turn that was live when it was asked for, and
\* on no other, however turns supersede each other.
THEOREM IntentReachesItsTurnHolds == Spec => []IntentReachesItsTurn
<1>1. IInv => IntentReachesItsTurn
  BY DEF IInv, TurnInv
<1> QED
  BY <1>1, Invariance, PTL

\* No turn that was aborted is pushed as done, later aborts included.
THEOREM NoFalseDonePushHolds == Spec => []NoFalseDonePush
<1>1. IInv => NoFalseDonePush
  BY DEF IInv, TurnInv
<1> QED
  BY <1>1, Invariance, PTL

\* The collect window is open only while idle with prompts waiting, and no
\* waiting prompt is stranded.
THEOREM QueueDisciplineHolds == Spec => []QueueDiscipline
<1>1. IInv => QueueDiscipline
  BY DEF IInv
<1> QED
  BY <1>1, Invariance, PTL

\* The manager's mirror shows the fan-out's state, turn number and mode.
THEOREM MirrorAgreesHolds == Spec => []MirrorAgrees
<1>1. IInv => MirrorAgrees
  BY DEF IInv
<1> QED
  BY <1>1, Invariance, PTL

\* A scheduled run's handle is held exactly while its row runs, and only while
\* a turn runs.
THEOREM RunHandleHolds == Spec => []RunHandle
<1>1. IInv => RunHandle
  BY DEF IInv
<1> QED
  BY <1>1, Invariance, PTL

\* No turn is counted as completed twice.
THEOREM CompletedOnceHolds == Spec => []CompletedOnce
<1>1. IInv => CompletedOnce
  BY DEF IInv
<1> QED
  BY <1>1, Invariance, PTL

\* Counters, FIFO, queue, mirror, run handle and completed turns stay in step,
\* for any number of turns, prompts and CLI-started turns.
THEOREM FanoutBookkeepingHolds == Spec => []FanoutBookkeeping
<1>1. TurnAccounting /\ QueueDiscipline /\ MirrorAgrees /\ RunHandle /\ CompletedOnce
      => FanoutBookkeeping
  BY DEF FanoutBookkeeping
<1> QED
  BY <1>1, TurnAccountingHolds, QueueDisciplineHolds, MirrorAgreesHolds,
     RunHandleHolds, CompletedOnceHolds, PTL

-----------------------------------------------------------------------------
(* The run of a handle owns its turn *)

LEMMA RunOwnsInit ==
  ASSUME Init
  PROVE  RunOwnsLiveTurn
BY DEF Init, RunOwnsLiveTurn

\* What any step may do to the run's turn: it is started on an empty FIFO or overtaken, and
\* from then on the FIFO only grows with a turn that drops the handle.
LEMMA RunOwnsStep ==
  ASSUME TypeOK, TurnAccounting, RunHandle, RunOwnsLiveTurn, [Next]_vars
  PROVE  RunOwnsLiveTurn'
<1> USE DEF fanoutVars, managerVars, inputVars, cliVars
<1>1. turnStarts \in Seq(Entry) /\ turnSeq \in Nat
  BY DEF TypeOK
<1>2. CASE UNCHANGED <<activeRun, overtaken>> /\ Len(turnStarts') = Len(turnStarts)
  BY <1>2 DEF RunOwnsLiveTurn
<1>3. CASE ~activeRun'
  BY <1>3 DEF RunOwnsLiveTurn
<1>4. CASE HandleMarker
  <2>1. Len(turnStarts') = Len(turnStarts)
    BY <1>1, <1>4, MarkEchoedKeeps DEF HandleMarker
  <2> QED
    BY <1>2, <1>4, <2>1 DEF HandleMarker, Handling
<1>5. CASE OpenExternalTurn
  <2>1. ~activeRun'
    BY <1>5 DEF OpenExternalTurn, OpensExternal, RunHandle
  <2> QED
    BY <1>3, <2>1
<1>6. CASE ForwardOutput \/ SkipBoundary
  BY <1>2, <1>6 DEF ForwardOutput, SkipBoundary, Handling
<1>7. CASE SettleBoundary
  BY <1>3, <1>7 DEF SettleBoundary
<1>8. CASE HandleRunPrompt
  <2>1. CASE localRunning
    BY <1>8, <2>1 DEF HandleRunPrompt, RunOwnsLiveTurn
  <2>2. CASE ~localRunning
    <3>1. turnStarts = <<>>
      BY <2>2 DEF TurnAccounting
    <3>2. turnStarts' = Append(<<>>, NewEntry(FALSE))
      BY <1>8, <2>2, <3>1 DEF HandleRunPrompt, StartSuperseding, StartTurn
    <3> QED
      BY <3>2 DEF RunOwnsLiveTurn
  <2> QED
    BY <2>1, <2>2
<1>9. CASE HandlePromptInterrupting \/ HandlePromptIdle
  BY <1>3, <1>9 DEF HandlePromptInterrupting, HandlePromptIdle
<1>10. CASE HandlePromptQueued \/ HandleSetQueueMode
  BY <1>2, <1>10 DEF HandlePromptQueued, HandleSetQueueMode, FromClient, Receiving
<1>11. CASE HandleInterrupt
  <2>1. Len(turnStarts') = Len(turnStarts)
    BY <1>1, <1>11, SetLiveIntentKeeps DEF HandleInterrupt, Intent
  <2> QED
    BY <1>2, <1>11, <2>1 DEF HandleInterrupt, FromClient
<1>12. ASSUME NEW intent \in {"cancelled", "timeout"}, AbortAndKill(intent)
       PROVE  activeRun' = activeRun /\ Len(turnStarts') = Len(turnStarts)
  BY <1>1, <1>12, SetLiveIntentKeeps DEF AbortAndKill, Intent
<1>13. CASE HandleCancel \/ HandleTimeoutKill
  BY <1>2, <1>12, <1>13 DEF HandleCancel, HandleTimeoutKill, FromClient
<1>14. CASE FlushQueue
  BY <1>2, <1>3, <1>14 DEF FlushQueue
<1>15. CASE FanoutEnds \/ SendRunPrompt \/ WatchdogFires \/ RemoveSession \/ ClientLeaves
  BY <1>2, <1>15 DEF FanoutEnds, SendRunPrompt, WatchdogFires, RemoveSession, ClientLeaves
<1>16. CASE Cli \/ UNCHANGED vars
  BY <1>2, <1>16 DEF Cli, CliTakePrompt, CliMergePrompt, CliStartExternal, CliOutput, CliFinish,
     CliInterrupt, CliExit, vars
<1> QED
  BY <1>4, <1>5, <1>6, <1>7, <1>8, <1>9, <1>10, <1>11, <1>13, <1>14, <1>15, <1>16
     DEF Next, HandleEvent, HandleInput

\* While a scheduled run's handle is held its turn is the only one outstanding, unless its
\* prompt found another turn running: whatever the users prompt, interrupt and queue behind
\* it and whatever the CLI starts, the boundary that decides its verdict is its own.
THEOREM RunOwnsLiveTurnHolds == Spec => []RunOwnsLiveTurn
<1>1. IInv => TypeOK /\ TurnAccounting /\ RunHandle
  BY DEF IInv, TurnInv
<1>2. Init => IInv /\ RunOwnsLiveTurn
  BY IInvInit, RunOwnsInit
<1>3. IInv /\ RunOwnsLiveTurn /\ [Next]_vars => IInv' /\ RunOwnsLiveTurn'
  BY <1>1, IInvStep, RunOwnsStep
<1> QED
  BY <1>2, <1>3, PTL DEF Spec

-----------------------------------------------------------------------------
(***************************************************************************)
(* The stream of events between the CLI and the fan-out: the FIFO of turn  *)
(* starts never falls out of step with the turns the CLI answers. StreamInv*)
(* says what can be on its way (in the channel, on stdin, in the CLI's     *)
(* hands) for a given FIFO; it is shown inductive, one lemma per kind of   *)
(* step, and the properties of the runs about settling, idleness and the   *)
(* posture follow from it.                                                 *)
(***************************************************************************)

-----------------------------------------------------------------------------
(* What is on its way from the CLI to the fan-out *)

Position == 1..Len(channel)
Past == Len(channel) + 1
IsEnd(i) == channel[i].type \in {"result", "error"}
IsEcho(i) == channel[i].type = "echo"
IsOurs(i) == channel[i].of # CliStarted
IsStart(i) == channel[i].type \in {"peer", "content"} /\ ~IsOurs(i)

\* An answer to turn n, output of a turn the CLI started, an echo of n: between positions.
EndsIn(lo, hi, n) == \E j \in Position : lo < j /\ j < hi /\ IsEnd(j) /\ channel[j].of = n
StartsIn(lo, hi) == \E j \in Position : lo < j /\ j < hi /\ IsStart(j)
EchoIn(hi, n) == \E j \in Position : j < hi /\ IsEcho(j) /\ channel[j].of = n
Answered(n) == EndsIn(0, Past, n)

\* The turns of ours that are outstanding, and those among them whose prompt is unread.
Entries == 1..Len(turnStarts)
EntryOf(n) == turnStarts[n - boundaryCount]
Ours == {n \in (boundaryCount + 1)..turnSeq : ~EntryOf(n).external}
ExternalLeads == turnStarts # <<>> /\ turnStarts[1].external
Answering == cli.state \in {"own", "merged"}
Lines == {k \in 1..Len(stdin) : stdin[k].kind = "prompt"}
Waiting == {stdin[k].turn : k \in Lines}
LinesInOrder == \A k, l \in Lines : k < l => stdin[k].turn < stdin[l].turn
InterruptFirst == stdin # <<>> => Head(stdin).kind = "interrupt"

-----------------------------------------------------------------------------
(* The invariant *)

\* A turn the CLI started is counted only while no other is, so it leads the FIFO.
ExternalAtFront == \A i \in Entries : turnStarts[i].external => i = 1 /\ turnStarts[i].echoed

\* What the CLI says of a turn of ours is said while the turn is outstanding.
SaidOfOurs ==
  /\ \A i \in Position : IsOurs(i) => channel[i].of \in Ours
  /\ \A i \in Position : IsEcho(i) => IsOurs(i)
  /\ Answering => cli.turn \in Ours
  /\ Waiting \subseteq Ours

\* Turns are answered in the order they were started, and the echo comes first.
SaidInOrder ==
  /\ \A i, j \in Position : i < j /\ IsOurs(i) /\ IsOurs(j) =>
       /\ channel[i].of <= channel[j].of
       /\ IsEnd(i) \/ IsEcho(j) => channel[i].of < channel[j].of
  /\ \A i \in Position : IsOurs(i) /\ Answering =>
       /\ channel[i].of <= cli.turn
       /\ IsEnd(i) => channel[i].of < cli.turn
  /\ \A i \in Position : IsOurs(i) => \A n \in Waiting : channel[i].of < n
  /\ Answering => \A n \in Waiting : cli.turn < n
  /\ LinesInOrder

\* No turn is forgotten by a CLI that lives, and none is passed over.
NoneForgotten ==
  /\ Alive => \A n \in Ours : Answered(n) \/ (Answering /\ cli.turn = n) \/ n \in Waiting
  /\ \A i \in Position : IsOurs(i) =>
       \A m \in Ours : m < channel[i].of => Answered(m)

\* An entry is echoed when the fan-out has seen its echo, which precedes its answer.
EchoedWhenSeen ==
  /\ \A i \in Position : IsEcho(i) => ~EntryOf(channel[i].of).echoed
  /\ \A n \in Waiting : ~EntryOf(n).echoed
  /\ \A i \in Position : IsEnd(i) /\ IsOurs(i) =>
       EntryOf(channel[i].of).echoed \/ EchoIn(i, channel[i].of)
  /\ Answering => EntryOf(cli.turn).echoed \/ EchoIn(Past, cli.turn)

\* A turn of ours that was echoed is answered before the CLI ends one of its own,
OursEndFirst ==
  \A i \in Position : IsEnd(i) /\ ~IsOurs(i) =>
    \A n \in Ours : EntryOf(n).echoed => EndsIn(0, i, n)
\* and so is one whose echo is on its way.
EchoThenEnd ==
  /\ \A i \in Position : IsEnd(i) /\ ~IsOurs(i) =>
       \A k \in Position : k < i /\ IsEcho(k) => EndsIn(k, i, channel[k].of)
  /\ \A k \in Position : IsEcho(k) =>
       EndsIn(k, Past, channel[k].of) \/ (Answering /\ cli.turn = channel[k].of) \/ ~Alive

\* The origin mark comes right before the end it belongs to.
OriginMarksNext ==
  /\ pendingOrigin => channel # <<>> /\ IsEnd(1)
  /\ \A i \in Position : channel[i].type = "origin" => i + 1 \in Position /\ IsEnd(i + 1)
  /\ \A i \in Position : IsEnd(i) /\ ~IsOurs(i) =>
       IF i = 1 THEN pendingOrigin ELSE channel[i - 1].type = "origin"

\* The end of a counted CLI-started turn is yet to come, before any answer to ours, and
\* no prompt reaches the CLI before an interrupt has ended it.
ExternalEndsFirst ==
  ExternalLeads =>
    /\ \A j \in Position : IsEnd(j) /\ IsOurs(j) => EndsIn(0, j, CliStarted)
    /\ Alive => \/ EndsIn(0, Past, CliStarted)
                \/ cli.state = "external" /\ InterruptFirst

\* What the CLI starts it ends, and it ends nothing it did not start.
StartThenEnd ==
  /\ \A i \in Position : IsStart(i) =>
       \/ \E j \in Position : i < j /\ IsEnd(j)
       \/ cli.state \in {"external", "merged"} \/ ~Alive
  /\ \A i, j \in Position : IsEnd(i) /\ ~IsOurs(i) /\ j < i /\ IsEnd(j) => StartsIn(j, i)
  /\ cli.state = "external" => \A j \in Position : IsEnd(j) => StartsIn(j, Past)
\* The start of a turn that ends while nothing is counted is still to be seen.
StartIsSeen ==
  turnStarts = <<>> =>
    /\ \A i \in Position : IsEnd(i) /\ ~IsOurs(i) => StartsIn(0, i)
    /\ cli.state = "external" => StartsIn(0, Past)

\* A CLI that is gone reads nothing and says nothing behind its exit.
ExitIsLast ==
  /\ \A i \in Position : channel[i].type = "exit" => i = Len(channel) /\ cli.state = "dead"
  /\ ~Alive => stdin = <<>>

StreamInv ==
  /\ ExternalAtFront /\ SaidOfOurs /\ SaidInOrder /\ NoneForgotten /\ EchoedWhenSeen
  /\ OursEndFirst /\ EchoThenEnd /\ OriginMarksNext /\ ExternalEndsFirst /\ StartThenEnd
  /\ StartIsSeen /\ ExitIsLast

-----------------------------------------------------------------------------
(* Lemmas about the channel, the pipe and the FIFO *)

\* What the type invariant and the accounting say of the counters, the FIFO and the queues.
LEMMA Basics ==
  ASSUME TypeOK, TurnAccounting
  PROVE  /\ turnSeq \in Nat /\ boundaryCount \in Nat /\ boundaryCount <= turnSeq
         /\ Len(turnStarts) \in Nat /\ Len(turnStarts) = turnSeq - boundaryCount
         /\ turnStarts = <<>> <=> turnSeq = boundaryCount
         /\ \A i \in Entries : turnStarts[i] \in Entry
         /\ \A n \in (boundaryCount + 1)..turnSeq : n - boundaryCount \in Entries
         /\ Ours \subseteq Nat
         /\ Len(channel) \in Nat /\ \A i \in Position : channel[i] \in Event
         /\ Len(stdin) \in Nat /\ \A k \in 1..Len(stdin) : stdin[k] \in Line
         /\ cli \in CliType
<1>1. turnStarts \in Seq(Entry) /\ channel \in Seq(Event) /\ stdin \in Seq(Line)
  BY DEF TypeOK
<1>2. /\ turnSeq \in Nat /\ boundaryCount \in Nat /\ boundaryCount <= turnSeq
      /\ Len(turnStarts) = turnSeq - boundaryCount /\ cli \in CliType
  BY DEF TypeOK, TurnAccounting, CliType
<1>3. /\ Len(turnStarts) \in Nat /\ Len(channel) \in Nat /\ Len(stdin) \in Nat
      /\ turnStarts = <<>> <=> Len(turnStarts) = 0
  BY <1>1, EmptySeq, LenProperties
<1>4. /\ \A i \in Entries : turnStarts[i] \in Entry
      /\ \A i \in Position : channel[i] \in Event
      /\ \A k \in 1..Len(stdin) : stdin[k] \in Line
  BY <1>1, ElementOfSeq DEF Entries, Position
<1> QED
  BY <1>2, <1>3, <1>4 DEF Entries, Ours

\* The event arm takes the channel's head: positions move down by one.
Pops == channel # <<>> /\ channel' = Tail(channel)

\* Taking the head off the channel moves every event one position forward.
LEMMA PopPositions ==
  ASSUME TypeOK, Pops
  PROVE  /\ Len(channel) \in Nat /\ Len(channel') = Len(channel) - 1 /\ 1 \in Position
         /\ Head(channel) = channel[1]
         /\ \A i \in Position' : /\ i \in Nat /\ i >= 1 /\ i + 1 \in Position
                                 /\ channel'[i] = channel[i + 1]
         /\ \A i \in Position : i # 1 => i - 1 \in Position' /\ channel'[i - 1] = channel[i]
<1>1. channel \in Seq(Event) /\ channel # <<>>
  BY DEF TypeOK, Pops
<1>2. /\ Len(channel) \in Nat /\ Len(channel) > 0 /\ Head(channel) = channel[1]
      /\ Len(Tail(channel)) = Len(channel) - 1
      /\ \A i \in 1..Len(Tail(channel)) : Tail(channel)[i] = channel[i + 1]
  BY <1>1, HeadTailProperties, EmptySeq, LenProperties
<1> QED
  BY <1>2 DEF Pops, Position

\* What lies between two positions still does when the head is taken, unless it was the head.
LEMMA PopKeeps ==
  ASSUME TypeOK, Pops, NEW n
  PROVE  \A hi \in Int :
           /\ \A lo \in Nat : EndsIn(lo + 1, hi + 1, n) => EndsIn(lo, hi, n)'
           /\ \A lo \in Nat : StartsIn(lo + 1, hi + 1) => StartsIn(lo, hi)'
           /\ EndsIn(0, hi + 1, n) => EndsIn(0, hi, n)' \/ (IsEnd(1) /\ channel[1].of = n)
           /\ StartsIn(0, hi + 1) => StartsIn(0, hi)' \/ IsStart(1)
           /\ EchoIn(hi + 1, n) => EchoIn(hi, n)' \/ (IsEcho(1) /\ channel[1].of = n)
<1>0. SUFFICES ASSUME NEW hi \in Int, NEW lo \in Nat
      PROVE  /\ EndsIn(lo + 1, hi + 1, n) => EndsIn(lo, hi, n)'
             /\ StartsIn(lo + 1, hi + 1) => StartsIn(lo, hi)'
             /\ EndsIn(0, hi + 1, n) => EndsIn(0, hi, n)' \/ (IsEnd(1) /\ channel[1].of = n)
             /\ StartsIn(0, hi + 1) => StartsIn(0, hi)' \/ IsStart(1)
             /\ EchoIn(hi + 1, n) => EchoIn(hi, n)' \/ (IsEcho(1) /\ channel[1].of = n)
  BY 0 \in Nat
<1>1. /\ \A i \in Position : i # 1 => i - 1 \in Position' /\ channel'[i - 1] = channel[i]
      /\ \A i \in Position : i \in Nat /\ i >= 1
  BY PopPositions DEF Position
<1>2. ASSUME NEW l \in Nat, EndsIn(l, hi + 1, n)
      PROVE  EndsIn(l - 1, hi, n)' \/ (l = 0 /\ IsEnd(1) /\ channel[1].of = n)
  <2>1. PICK j \in Position : l < j /\ j < hi + 1 /\ IsEnd(j) /\ channel[j].of = n
    BY <1>2 DEF EndsIn
  <2>2. CASE j = 1
    BY <2>1, <2>2
  <2>3. CASE j # 1
    <3>1. /\ j - 1 \in Position' /\ l - 1 < j - 1 /\ j - 1 < hi
          /\ IsEnd(j - 1)' /\ channel'[j - 1].of = n
      BY <1>1, <2>1, <2>3 DEF IsEnd
    <3> QED
      BY <3>1 DEF EndsIn
  <2> QED
    BY <2>2, <2>3
<1>3. ASSUME NEW l \in Nat, StartsIn(l, hi + 1)
      PROVE  StartsIn(l - 1, hi)' \/ (l = 0 /\ IsStart(1))
  <2>1. PICK j \in Position : l < j /\ j < hi + 1 /\ IsStart(j)
    BY <1>3 DEF StartsIn
  <2>2. CASE j = 1
    BY <2>1, <2>2
  <2>3. CASE j # 1
    <3>1. j - 1 \in Position' /\ l - 1 < j - 1 /\ j - 1 < hi /\ IsStart(j - 1)'
      BY <1>1, <2>1, <2>3 DEF IsStart, IsOurs
    <3> QED
      BY <3>1 DEF StartsIn
  <2> QED
    BY <2>2, <2>3
<1>4. EchoIn(hi + 1, n) => EchoIn(hi, n)' \/ (IsEcho(1) /\ channel[1].of = n)
  <2>1. SUFFICES ASSUME EchoIn(hi + 1, n)
                 PROVE  EchoIn(hi, n)' \/ (IsEcho(1) /\ channel[1].of = n)
    OBVIOUS
  <2>2. PICK j \in Position : j < hi + 1 /\ IsEcho(j) /\ channel[j].of = n
    BY <2>1 DEF EchoIn
  <2>3. CASE j = 1
    BY <2>2, <2>3
  <2>4. CASE j # 1
    <3>1. j - 1 \in Position' /\ j - 1 < hi /\ IsEcho(j - 1)' /\ channel'[j - 1].of = n
      BY <1>1, <2>2, <2>4 DEF IsEcho
    <3> QED
      BY <3>1 DEF EchoIn
  <2> QED
    BY <2>3, <2>4
<1>5. EndsIn(0 - 1, hi, n)' => EndsIn(0, hi, n)'
  BY <1>1, PopPositions DEF EndsIn
<1>6. StartsIn(0 - 1, hi)' => StartsIn(0, hi)'
  BY <1>1, PopPositions DEF StartsIn
<1>7. lo + 1 \in Nat /\ (lo + 1) - 1 = lo /\ lo + 1 # 0
  OBVIOUS
<1>8. /\ EndsIn(lo + 1, hi + 1, n) => EndsIn((lo + 1) - 1, hi, n)'
      /\ StartsIn(lo + 1, hi + 1) => StartsIn((lo + 1) - 1, hi)'
  BY <1>2, <1>3, <1>7
<1>9. /\ EndsIn(lo + 1, hi + 1, n) => EndsIn(lo, hi, n)'
      /\ StartsIn(lo + 1, hi + 1) => StartsIn(lo, hi)'
  BY <1>7, <1>8
<1> QED
  BY <1>2, <1>3, <1>4, <1>5, <1>6, <1>9

\* The CLI's events go behind what is there.
Appends(s) == channel' = channel \o s

\* What is said joins behind what was said before.
LEMMA AppendPositions ==
  ASSUME TypeOK, NEW s \in Seq(Event), Appends(s)
  PROVE  /\ Len(channel) \in Nat /\ Len(s) \in Nat /\ Len(channel') = Len(channel) + Len(s)
         /\ Position \subseteq Position' /\ \A i \in Position : channel'[i] = channel[i]
         /\ \A i \in Position' : i \notin Position =>
              i - Len(channel) \in 1..Len(s) /\ channel'[i] = s[i - Len(channel)]
         /\ \A k \in 1..Len(s) : /\ Len(channel) + k \in Position'
                                 /\ channel'[Len(channel) + k] = s[k]
<1>1. /\ Len(channel) \in Nat /\ Len(s) \in Nat
      /\ Len(channel \o s) = Len(channel) + Len(s)
      /\ \A i \in 1..(Len(channel) + Len(s)) :
           (channel \o s)[i] = IF i <= Len(channel) THEN channel[i] ELSE s[i - Len(channel)]
  BY ConcatProperties, LenProperties DEF TypeOK
<1> QED
  BY <1>1 DEF Appends, Position

\* What is between two positions stays between them; the old end may move up.
LEMMA AppendKeeps ==
  ASSUME TypeOK, NEW s \in Seq(Event), Appends(s), NEW lo, NEW n
  PROVE  \A h, g \in Int : h <= g =>
           /\ EndsIn(lo, h, n) => EndsIn(lo, g, n)'
           /\ StartsIn(lo, h) => StartsIn(lo, g)'
           /\ EchoIn(h, n) => EchoIn(g, n)'
<1>1. /\ Position \subseteq Position' /\ \A i \in Position : channel'[i] = channel[i]
      /\ Position \subseteq Nat
  BY AppendPositions DEF Position
<1> SUFFICES ASSUME NEW h \in Int, NEW g \in Int, h <= g
             PROVE  /\ EndsIn(lo, h, n) => EndsIn(lo, g, n)'
                    /\ StartsIn(lo, h) => StartsIn(lo, g)'
                    /\ EchoIn(h, n) => EchoIn(g, n)'
  OBVIOUS
<1>2. ASSUME EndsIn(lo, h, n) PROVE EndsIn(lo, g, n)'
  <2>1. PICK j \in Position : lo < j /\ j < h /\ IsEnd(j) /\ channel[j].of = n
    BY <1>2 DEF EndsIn
  <2>2. j \in Position' /\ lo < j /\ j < g /\ IsEnd(j)' /\ channel'[j].of = n
    BY <1>1, <2>1 DEF IsEnd
  <2> QED
    BY <2>2 DEF EndsIn
<1>3. ASSUME StartsIn(lo, h) PROVE StartsIn(lo, g)'
  <2>1. PICK j \in Position : lo < j /\ j < h /\ IsStart(j)
    BY <1>3 DEF StartsIn
  <2>2. j \in Position' /\ lo < j /\ j < g /\ IsStart(j)'
    BY <1>1, <2>1 DEF IsStart, IsOurs
  <2> QED
    BY <2>2 DEF StartsIn
<1>4. ASSUME EchoIn(h, n) PROVE EchoIn(g, n)'
  <2>1. PICK j \in Position : j < h /\ IsEcho(j) /\ channel[j].of = n
    BY <1>4 DEF EchoIn
  <2>2. j \in Position' /\ j < g /\ IsEcho(j)' /\ channel'[j].of = n
    BY <1>1, <2>1 DEF IsEcho
  <2> QED
    BY <2>2 DEF EchoIn
<1> QED
  BY <1>2, <1>3, <1>4

-----------------------------------------------------------------------------
(* Steps that leave the channel alone *)

\* The FIFO as far as the stream is concerned: whose turns, and which were echoed.
FifoKept ==
  /\ Ours' = Ours /\ \A n \in Ours : EntryOf(n).echoed' = EntryOf(n).echoed
  /\ ExternalLeads' = ExternalLeads /\ (turnStarts' = <<>> <=> turnStarts = <<>>)
  /\ ExternalAtFront'

\* A FIFO with the same flags is the same FIFO for the stream.
LEMMA SameFlags ==
  ASSUME TypeOK, TypeOK', TurnAccounting, ExternalAtFront, UNCHANGED <<turnSeq, boundaryCount>>,
         Len(turnStarts') = Len(turnStarts),
         \A i \in Entries : /\ turnStarts'[i].external = turnStarts[i].external
                            /\ turnStarts'[i].echoed = turnStarts[i].echoed
  PROVE  FifoKept
<1>1. /\ \A n \in (boundaryCount + 1)..turnSeq : n - boundaryCount \in Entries
      /\ Entries' = Entries
  BY Basics DEF Entries
<1>2. turnStarts' = <<>> <=> turnStarts = <<>>
  BY EmptySeq DEF TypeOK
<1>3. Ours' = Ours /\ \A n \in Ours : EntryOf(n).echoed' = EntryOf(n).echoed
  BY <1>1 DEF Ours, EntryOf
<1>4. turnStarts # <<>> => 1 \in Entries
  BY Basics, EmptySeq DEF Entries, TypeOK
<1>5. ExternalLeads' = ExternalLeads
  BY <1>2, <1>4 DEF ExternalLeads
<1>6. ExternalAtFront'
  BY <1>1 DEF ExternalAtFront
<1> QED
  BY <1>2, <1>3, <1>5, <1>6 DEF FifoKept

\* A step that touches neither channel nor CLI, and at most adds an interrupt to stdin.
LEMMA QuietKeeps ==
  ASSUME TypeOK, StreamInv, FifoKept, UNCHANGED <<channel, cli, pendingOrigin>>,
         Waiting' = Waiting, LinesInOrder',
         cli.state = "external" /\ InterruptFirst => InterruptFirst',
         ~Alive => stdin' = <<>>
  PROVE  StreamInv'
<1> USE DEF FifoKept, StreamInv
<1>1. /\ Position' = Position /\ Past' = Past /\ Answering' = Answering /\ Alive' = Alive
      /\ \A i : /\ IsEnd(i)' = IsEnd(i) /\ IsEcho(i)' = IsEcho(i)
                /\ IsOurs(i)' = IsOurs(i) /\ IsStart(i)' = IsStart(i)
      /\ \A lo, hi, n : /\ EndsIn(lo, hi, n)' = EndsIn(lo, hi, n)
                        /\ StartsIn(lo, hi)' = StartsIn(lo, hi)
                        /\ EchoIn(hi, n)' = EchoIn(hi, n)
  BY DEF Position, Past, Answering, Alive, IsEnd, IsEcho, IsOurs, IsStart, EndsIn, StartsIn, EchoIn
<1>2. \A lo, n : EndsIn(lo, Past, n)' = EndsIn(lo, Past, n)
  BY <1>1
<1>3. \A n : Answered(n)' = Answered(n)
  BY <1>2 DEF Answered
<1>4. SaidOfOurs'
  BY <1>1 DEF SaidOfOurs
<1>5. SaidInOrder'
  BY <1>1 DEF SaidInOrder
<1>6. NoneForgotten'
  BY <1>1, <1>3 DEF NoneForgotten
<1>7. EchoedWhenSeen'
  <2>1. /\ \A i \in Position : IsEcho(i) \/ IsOurs(i) => channel[i].of \in Ours
        /\ Waiting \subseteq Ours /\ (Answering => cli.turn \in Ours)
    BY DEF SaidOfOurs
  <2>2. \A n \in Ours : EntryOf(n).echoed' = EntryOf(n).echoed
    OBVIOUS
  <2> HIDE DEF StreamInv
  <2>3. EchoedWhenSeen
    BY DEF StreamInv
  <2> QED
    BY <1>1, <2>1, <2>2, <2>3 DEF EchoedWhenSeen
<1>8. OursEndFirst'
  BY <1>1 DEF OursEndFirst
<1>9. EchoThenEnd'
  BY <1>1 DEF EchoThenEnd
<1>10. OriginMarksNext'
  BY <1>1 DEF OriginMarksNext
<1>11. ExternalEndsFirst'
  BY <1>1 DEF ExternalEndsFirst
<1>12. StartThenEnd'
  BY <1>1 DEF StartThenEnd
<1>13. StartIsSeen'
  BY <1>1 DEF StartIsSeen
<1>14. ExitIsLast'
  BY <1>1 DEF ExitIsLast
<1> QED
  BY <1>4, <1>5, <1>6, <1>7, <1>8, <1>9, <1>10, <1>11, <1>12, <1>13, <1>14

\* A kill silences the CLI and discards what it has not read.
LEMMA KillKeeps ==
  ASSUME TypeOK, StreamInv, FifoKept, UNCHANGED <<channel, pendingOrigin>>, Alive, Kill
  PROVE  StreamInv'
<1>1. stdin' = <<>> /\ cli'.state = "killed" /\ Alive
  BY DEF Kill, Idle, TypeOK
<1>2. /\ ~Alive' /\ ~Answering' /\ cli'.state \notin {"external", "merged", "dead"}
      /\ Lines' = {} /\ Waiting' = {} /\ LinesInOrder'
  BY <1>1, EmptySeq DEF Alive, Answering, Lines, Waiting, LinesInOrder
<1>3. /\ Position' = Position /\ Past' = Past
      /\ \A i : /\ IsEnd(i)' = IsEnd(i) /\ IsEcho(i)' = IsEcho(i)
                /\ IsOurs(i)' = IsOurs(i) /\ IsStart(i)' = IsStart(i)
      /\ \A lo, hi, n : /\ EndsIn(lo, hi, n)' = EndsIn(lo, hi, n)
                        /\ StartsIn(lo, hi)' = StartsIn(lo, hi)
                        /\ EchoIn(hi, n)' = EchoIn(hi, n)
  BY DEF Position, Past, IsEnd, IsEcho, IsOurs, IsStart, EndsIn, StartsIn, EchoIn
<1>4. \A n : Answered(n)' = Answered(n)
  BY <1>3 DEF Answered
<1>5. SaidOfOurs /\ SaidOfOurs'
  BY <1>2, <1>3 DEF SaidOfOurs, StreamInv, FifoKept
<1>6. SaidInOrder'
  BY <1>2, <1>3 DEF SaidInOrder, StreamInv
<1>7. NoneForgotten'
  BY <1>2, <1>3, <1>4 DEF NoneForgotten, StreamInv, FifoKept
<1>8. EchoedWhenSeen'
  <2>1. /\ \A i \in Position : IsEcho(i) \/ IsOurs(i) => channel[i].of \in Ours
        /\ \A n \in Ours : EntryOf(n).echoed' = EntryOf(n).echoed
    BY <1>5 DEF SaidOfOurs, FifoKept
  <2>2. EchoedWhenSeen
    BY DEF StreamInv
  <2> QED
    BY <1>2, <1>3, <2>1, <2>2 DEF EchoedWhenSeen
<1>9. OursEndFirst'
  BY <1>2, <1>3 DEF OursEndFirst, StreamInv, FifoKept
<1>10. EchoThenEnd'
  BY <1>2, <1>3 DEF EchoThenEnd, StreamInv
<1>11. OriginMarksNext'
  BY <1>2, <1>3 DEF OriginMarksNext, StreamInv
<1>12. ExternalEndsFirst'
  BY <1>2, <1>3 DEF ExternalEndsFirst, StreamInv, FifoKept
<1>13. StartThenEnd'
  BY <1>2, <1>3 DEF StartThenEnd, StreamInv
<1>14. StartIsSeen'
  BY <1>2, <1>3 DEF StartIsSeen, StreamInv, FifoKept
<1>15. ExitIsLast'
  BY <1>1, <1>2, <1>3 DEF ExitIsLast, StreamInv, Alive
<1> QED
  BY <1>5, <1>6, <1>7, <1>8, <1>9, <1>10, <1>11, <1>12, <1>13, <1>14, <1>15
     DEF StreamInv, FifoKept

\* A turn of ours starts behind the others; its prompt is the last to be written.
Starts ==
  /\ UNCHANGED <<channel, cli, pendingOrigin, boundaryCount>>
  /\ turnSeq' = turnSeq + 1 /\ Len(turnStarts') = Len(turnStarts) + 1
  /\ \A i \in Entries : /\ turnStarts'[i].external = turnStarts[i].external
                        /\ turnStarts'[i].echoed = turnStarts[i].echoed
  /\ turnStarts'[Len(turnStarts) + 1] = NewEntry(FALSE)
  /\ Waiting' = IF Alive THEN Waiting \cup {turnSeq + 1} ELSE Waiting
  /\ LinesInOrder'
  /\ ExternalLeads /\ InterruptFirst => InterruptFirst'
  /\ ~Alive => stdin' = stdin

\* A turn of ours starts: it is last in the FIFO and last on stdin.
LEMMA StartKeeps ==
  ASSUME TypeOK, TypeOK', TurnAccounting, StreamInv, Starts
  PROVE  StreamInv'
<1>1. /\ Position' = Position /\ Past' = Past /\ Answering' = Answering /\ Alive' = Alive
      /\ \A i : /\ IsEnd(i)' = IsEnd(i) /\ IsEcho(i)' = IsEcho(i)
                /\ IsOurs(i)' = IsOurs(i) /\ IsStart(i)' = IsStart(i)
      /\ \A lo, hi, n : /\ EndsIn(lo, hi, n)' = EndsIn(lo, hi, n)
                        /\ StartsIn(lo, hi)' = StartsIn(lo, hi)
                        /\ EchoIn(hi, n)' = EchoIn(hi, n)
  BY DEF Starts, Position, Past, Answering, Alive, IsEnd, IsEcho, IsOurs, IsStart, EndsIn,
         StartsIn, EchoIn
<1>2. \A n : Answered(n)' = Answered(n)
  BY <1>1 DEF Answered
<1>3. PICK n0 : n0 = turnSeq + 1
  OBVIOUS
<1>4. /\ turnSeq \in Nat /\ boundaryCount \in Nat /\ Len(turnStarts) = turnSeq - boundaryCount
      /\ Len(turnStarts) \in Nat /\ Ours \subseteq boundaryCount + 1 .. turnSeq
      /\ \A n \in boundaryCount + 1 .. turnSeq : n - boundaryCount \in Entries
      /\ (turnStarts = <<>> <=> Len(turnStarts) = 0) /\ turnStarts' # <<>>
  <2>1. turnStarts' # <<>>
    BY Basics, EmptySeq DEF Starts, TypeOK
  <2> QED
    BY Basics, <2>1 DEF Ours
<1>5. ~NewEntry(FALSE).external /\ ~NewEntry(FALSE).echoed
  BY DEF NewEntry
<1>6. /\ Ours' = Ours \cup {n0} /\ n0 \in Nat /\ (\A n \in Ours : n \in Nat /\ n < n0)
      /\ ~EntryOf(n0)'.echoed /\ \A n \in Ours : EntryOf(n).echoed' = EntryOf(n).echoed
  <2>1. /\ EntryOf(n0)' = NewEntry(FALSE)
        /\ \A n \in boundaryCount + 1 .. turnSeq :
             /\ EntryOf(n)'.external = EntryOf(n).external
             /\ EntryOf(n)'.echoed = EntryOf(n).echoed
    <3>1. n0 - boundaryCount = Len(turnStarts) + 1 /\ boundaryCount' = boundaryCount
      BY <1>3, <1>4 DEF Starts
    <3> QED
      BY <1>3, <1>4, <3>1 DEF EntryOf, Starts
  <2>2. (boundaryCount + 1 .. turnSeq)' = (boundaryCount + 1 .. turnSeq) \cup {n0}
    BY <1>3, <1>4, Basics DEF Starts
  <2>3. n0 \in Nat /\ (\A n \in Ours : n \in Nat /\ n < n0)
    BY <1>3, <1>4
  <2>4. ~EntryOf(n0)'.external /\ ~EntryOf(n0)'.echoed
    BY <1>5, <2>1
  <2>5. Ours' = {n \in (boundaryCount + 1 .. turnSeq)' : ~EntryOf(n)'.external}
    BY DEF Ours
  <2>6. Ours' = Ours \cup {n0}
    BY <2>1, <2>2, <2>4, <2>5 DEF Ours
  <2>7. \A n \in Ours : EntryOf(n).echoed' = EntryOf(n).echoed
    BY <1>4, <2>1
  <2> QED
    BY <2>3, <2>4, <2>6, <2>7
<1>7. /\ ExternalLeads' = ExternalLeads
      /\ ExternalAtFront'
  <2>1. Entries' = Entries \cup {Len(turnStarts) + 1}
    BY <1>4 DEF Entries, Starts
  <2>2. ExternalAtFront'
    BY <1>5, <2>1 DEF ExternalAtFront, Starts, StreamInv
  <2>3. ExternalLeads' = ExternalLeads
    <3>1. CASE turnStarts = <<>>
      <4>1. Len(turnStarts) + 1 = 1
        BY <1>4, <3>1
      <4>2. turnStarts'[1] = NewEntry(FALSE)
        BY <4>1 DEF Starts
      <4> QED
        BY <1>5, <3>1, <4>2 DEF ExternalLeads
    <3>2. CASE turnStarts # <<>>
      <4>1. 1 \in Entries
        BY <1>4, <3>2 DEF Entries
      <4> QED
        BY <1>4, <3>2, <4>1 DEF ExternalLeads, Starts
    <3> QED
      BY <3>1, <3>2
  <2> QED
    BY <2>2, <2>3
<1>8. SaidOfOurs /\ SaidOfOurs'
  BY <1>1, <1>3, <1>6 DEF SaidOfOurs, StreamInv, Starts
<1>9. SaidInOrder'
  <2>1. /\ \A i \in Position : IsOurs(i) => channel[i].of < n0
        /\ Answering => cli.turn < n0
    BY <1>6, <1>8 DEF SaidOfOurs
  <2>2. \A n \in Waiting' : n \in Waiting \/ n = n0
    BY <1>3 DEF Starts
  <2> QED
    BY <1>1, <2>1, <2>2 DEF SaidInOrder, StreamInv, Starts
<1>10. NoneForgotten'
  <2>1. Alive => n0 \in Waiting' /\ Waiting \subseteq Waiting'
    BY <1>3 DEF Starts
  <2>2. \A i \in Position : IsOurs(i) => ~(n0 < channel[i].of)
    BY <1>6, <1>8 DEF SaidOfOurs
  <2>3. channel' = channel /\ cli' = cli
    BY DEF Starts
  <2>4. NoneForgotten
    BY DEF StreamInv
  <2> QED
    BY <1>1, <1>2, <1>6, <2>1, <2>2, <2>3, <2>4 DEF NoneForgotten
<1>11. EchoedWhenSeen'
  <2>1. /\ \A i \in Position : IsEcho(i) \/ IsOurs(i) => channel[i].of \in Ours
        /\ Waiting \subseteq Ours /\ (Answering => cli.turn \in Ours)
    BY <1>8 DEF SaidOfOurs
  <2>2. \A n \in Waiting' : n \in Waiting \/ n = n0
    BY <1>3 DEF Starts
  <2>3. channel' = channel /\ cli' = cli /\ EchoedWhenSeen
    BY DEF Starts, StreamInv
  <2> QED
    BY <1>1, <1>6, <2>1, <2>2, <2>3 DEF EchoedWhenSeen
<1>12. OursEndFirst'
  BY <1>1, <1>6 DEF OursEndFirst, StreamInv, Starts
<1>13. EchoThenEnd'
  BY <1>1 DEF EchoThenEnd, StreamInv, Starts
<1>14. OriginMarksNext'
  BY <1>1 DEF OriginMarksNext, StreamInv, Starts
<1>15. ExternalEndsFirst'
  BY <1>1, <1>7 DEF ExternalEndsFirst, StreamInv, Starts
<1>16. StartThenEnd'
  BY <1>1 DEF StartThenEnd, StreamInv, Starts
<1>17. StartIsSeen'
  BY <1>4 DEF StartIsSeen
<1>18. ExitIsLast'
  BY <1>1 DEF ExitIsLast, StreamInv, Starts
<1> QED
  BY <1>7, <1>8, <1>9, <1>10, <1>11, <1>12, <1>13, <1>14, <1>15, <1>16, <1>17, <1>18
     DEF StreamInv

-----------------------------------------------------------------------------
(* The event at the head of the channel *)

\* An answer to a turn of ours, or its echo, is for the first of ours that is outstanding.
LEMMA HeadIsForFirst ==
  ASSUME TypeOK, TurnAccounting, StreamInv, 1 \in Position, IsOurs(1), IsEnd(1) \/ IsEcho(1)
  PROVE  /\ channel[1].of \in Ours /\ \A m \in Ours : channel[1].of <= m
         /\ turnStarts # <<>>
         /\ ~ExternalLeads => channel[1].of = boundaryCount + 1
         /\ IsEnd(1) => EntryOf(channel[1].of).echoed /\ ~ExternalLeads
         /\ IsEcho(1) => ~EntryOf(channel[1].of).echoed
<1>1. PICK n : n = channel[1].of
  OBVIOUS
<1>2. /\ Position \subseteq Nat /\ \A i \in Position : i >= 1
      /\ turnSeq \in Nat /\ boundaryCount \in Nat
      /\ Ours \subseteq boundaryCount + 1 .. turnSeq
  BY Basics DEF Position, Ours
<1>3. n \in Ours
  BY <1>1 DEF StreamInv, SaidOfOurs
<1>4. ASSUME NEW m \in Ours, m < n PROVE FALSE
  <2>1. Answered(m)
    BY <1>1, <1>4 DEF StreamInv, NoneForgotten
  <2>2. PICK j \in Position : IsEnd(j) /\ channel[j].of = m
    BY <2>1 DEF Answered, EndsIn
  <2>3. m # CliStarted
    BY <1>2, <1>4 DEF CliStarted
  <2>4. j # 1
    BY <1>1, <1>2, <1>3, <1>4, <2>2
  <2>5. 1 < j /\ IsOurs(j)
    BY <1>2, <2>2, <2>3, <2>4 DEF IsOurs
  <2>6. n <= m
    BY <1>1, <2>2, <2>5 DEF StreamInv, SaidInOrder
  <2> QED
    BY <1>2, <1>3, <1>4, <2>6
<1>5. \A m \in Ours : n <= m
  BY <1>2, <1>3, <1>4
<1>6. turnStarts # <<>>
  BY <1>2, <1>3, Basics
<1>7. ~ExternalLeads => n = boundaryCount + 1
  <2>1. boundaryCount + 1 \in boundaryCount + 1 .. turnSeq
    BY <1>2, <1>3
  <2>2. EntryOf(boundaryCount + 1) = turnStarts[1]
    BY <1>2 DEF EntryOf
  <2>3. ~ExternalLeads => boundaryCount + 1 \in Ours
    BY <1>6, <2>1, <2>2 DEF ExternalLeads, Ours
  <2> QED
    BY <1>2, <1>3, <1>5, <2>3
<1>8. IsEnd(1) => EntryOf(n).echoed
  <2>1. ~EchoIn(1, n)
    BY <1>2 DEF EchoIn
  <2> QED
    BY <1>1, <2>1 DEF StreamInv, EchoedWhenSeen
<1>9. IsEnd(1) => ~ExternalLeads
  <2>1. ~EndsIn(0, 1, CliStarted)
    BY <1>2 DEF EndsIn
  <2> QED
    BY <2>1 DEF StreamInv, ExternalEndsFirst
<1>10. IsEcho(1) => ~EntryOf(n).echoed
  BY <1>1 DEF StreamInv, EchoedWhenSeen
<1> QED
  BY <1>1, <1>3, <1>5, <1>6, <1>7, <1>8, <1>9, <1>10

\* An end of a turn the CLI started comes with the origin mark, and finds the first turn
\* of ours not yet echoed.
LEMMA HeadIsOfCli ==
  ASSUME TypeOK, TurnAccounting, StreamInv, 1 \in Position, IsEnd(1), ~IsOurs(1)
  PROVE  /\ pendingOrigin
         /\ turnStarts # <<>> => turnStarts[1].external \/ ~turnStarts[1].echoed
<1>1. pendingOrigin
  BY DEF StreamInv, OriginMarksNext
<1>2. ASSUME turnStarts # <<>>, ~turnStarts[1].external, turnStarts[1].echoed
      PROVE  FALSE
  <2>1. /\ boundaryCount + 1 \in boundaryCount + 1 .. turnSeq
        /\ EntryOf(boundaryCount + 1) = turnStarts[1]
    BY <1>2, Basics DEF EntryOf
  <2>2. boundaryCount + 1 \in Ours
    BY <1>2, <2>1 DEF Ours
  <2>3. EndsIn(0, 1, boundaryCount + 1)
    BY <1>2, <2>1, <2>2 DEF StreamInv, OursEndFirst
  <2> QED
    BY <2>3, Basics DEF EndsIn, Position
<1> QED
  BY <1>1, <1>2

\* Every event moves one position down.
LEMMA PopShift ==
  ASSUME TypeOK, Pops
  PROVE  /\ \A i \in Position' :
              /\ i \in Nat /\ i >= 1 /\ i + 1 \in Position /\ i + 1 > 1
              /\ channel'[i] = channel[i + 1]
              /\ IsEnd(i)' = IsEnd(i + 1) /\ IsEcho(i)' = IsEcho(i + 1)
              /\ IsOurs(i)' = IsOurs(i + 1) /\ IsStart(i)' = IsStart(i + 1)
         /\ \A i \in Position : i # 1 =>
              /\ i - 1 \in Position' /\ (i - 1) + 1 = i
              /\ channel'[i - 1] = channel[i]
         /\ 1 \in Position /\ Position \subseteq Nat /\ Head(channel) = channel[1]
         /\ Past \in Nat /\ Past' \in Nat /\ Past = Past' + 1 /\ Past' = Past - 1
<1>1. \A i \in Position' : i \in Nat /\ i >= 1 /\ i + 1 \in Position /\ channel'[i] = channel[i + 1]
  BY PopPositions
<1>2. \A i \in Position' : /\ IsEnd(i)' = IsEnd(i + 1) /\ IsEcho(i)' = IsEcho(i + 1)
                           /\ IsOurs(i)' = IsOurs(i + 1) /\ IsStart(i)' = IsStart(i + 1)
  BY <1>1 DEF IsEnd, IsEcho, IsOurs, IsStart
<1>3. Past \in Nat /\ Past' \in Nat /\ Past = Past' + 1 /\ Past' = Past - 1
  BY PopPositions DEF Past, Position
<1>4. \A i \in Position : i \in Nat /\ (i # 1 => (i - 1) + 1 = i)
  BY PopPositions DEF Position
<1>5. \A i \in Position' : i + 1 > 1
  BY <1>1
<1>6. \A i \in Position : i # 1 => i - 1 \in Position' /\ channel'[i - 1] = channel[i]
  BY PopPositions
<1>7. 1 \in Position /\ Position \subseteq Nat /\ Head(channel) = channel[1]
  BY <1>4, PopPositions
<1> QED
  BY <1>1, <1>2, <1>3, <1>4, <1>5, <1>6, <1>7

\* What does not speak of the FIFO survives the loss of the head.
LEMMA PopKeepsOrder ==
  ASSUME TypeOK, StreamInv, Pops, UNCHANGED <<stdin, cli>>
  PROVE  SaidInOrder' /\ EchoThenEnd' /\ StartThenEnd' /\ ExitIsLast'
<1>1. /\ Answering' = Answering /\ Alive' = Alive /\ Waiting' = Waiting
      /\ LinesInOrder' = LinesInOrder
  BY DEF Answering, Alive, Waiting, Lines, LinesInOrder
<1>2. SaidInOrder'
  <2>1. SaidInOrder
    BY DEF StreamInv
  <2>2. \A i, j \in Position' : i < j => i + 1 < j + 1
    BY PopShift
  <2> QED
    BY <1>1, <2>1, <2>2, PopShift DEF SaidInOrder
<1>3. EchoThenEnd'
  <2>1. ASSUME NEW i \in Position', NEW k \in Position', k < i, IsEnd(i)', ~IsOurs(i)', IsEcho(k)'
        PROVE  EndsIn(k, i, channel[k].of)'
    <3>1. /\ i + 1 \in Position /\ k + 1 \in Position /\ k + 1 < i + 1 /\ i \in Int /\ k \in Nat
          /\ IsEnd(i + 1) /\ ~IsOurs(i + 1) /\ IsEcho(k + 1)
          /\ channel[k + 1].of = channel'[k].of
      BY <2>1, PopShift
    <3>2. EndsIn(k + 1, i + 1, channel'[k].of)
      BY <3>1 DEF StreamInv, EchoThenEnd
    <3>3. PICK n : n = channel'[k].of
      OBVIOUS
    <3>4. EndsIn(k, i, n)'
      BY <3>1, <3>2, <3>3, PopKeeps
    <3> QED
      BY <3>3, <3>4 DEF EndsIn
  <2>2. ASSUME NEW k \in Position', IsEcho(k)'
        PROVE  (EndsIn(k, Past, channel[k].of) \/ (Answering /\ cli.turn = channel[k].of) \/ ~Alive)'
    <3>1. /\ k + 1 \in Position /\ k \in Nat /\ IsEcho(k + 1) /\ channel[k + 1].of = channel'[k].of
          /\ Past = Past' + 1 /\ Past' \in Int
      BY <2>2, PopShift
    <3>2. CASE EndsIn(k + 1, Past, channel[k + 1].of)
      <4>1. PICK n, h : n = channel'[k].of /\ h = Past'
        OBVIOUS
      <4>2. EndsIn(k + 1, h + 1, n)
        BY <3>1, <3>2, <4>1
      <4>3. EndsIn(k, h, n)'
        BY <3>1, <4>1, <4>2, PopKeeps
      <4>4. EndsIn(k, Past, channel[k].of)'
        BY <4>1, <4>3 DEF EndsIn
      <4> QED
        BY <4>4
    <3>3. CASE ~EndsIn(k + 1, Past, channel[k + 1].of)
      BY <1>1, <3>1, <3>3 DEF StreamInv, EchoThenEnd
    <3> QED
      BY <3>2, <3>3
  <2> QED
    BY <2>1, <2>2 DEF EchoThenEnd
<1>4. StartThenEnd'
  <2>1. ASSUME NEW i \in Position', IsStart(i)'
        PROVE  ((\E j \in Position : i < j /\ IsEnd(j)) \/ cli.state \in {"external", "merged"}
                \/ ~Alive)'
    <3>1. i + 1 \in Position /\ IsStart(i + 1) /\ i \in Nat
      BY <2>1, PopShift
    <3>2. ASSUME NEW j \in Position, i + 1 < j, IsEnd(j)
          PROVE  (\E l \in Position : i < l /\ IsEnd(l))'
      <4>1. j # 1 /\ j \in Nat
        BY <3>1, <3>2, PopShift
      <4>2. j - 1 \in Position' /\ i < j - 1 /\ IsEnd(j - 1)'
        BY <3>1, <3>2, <4>1, PopShift DEF IsEnd
      <4> QED
        BY <4>2
    <3> QED
      BY <1>1, <3>1, <3>2 DEF StreamInv, StartThenEnd
  <2>2. ASSUME NEW i \in Position', NEW j \in Position', j < i, IsEnd(i)', ~IsOurs(i)', IsEnd(j)'
        PROVE  StartsIn(j, i)'
    <3>1. /\ i + 1 \in Position /\ j + 1 \in Position /\ j + 1 < i + 1 /\ i \in Int /\ j \in Nat
          /\ IsEnd(i + 1) /\ ~IsOurs(i + 1) /\ IsEnd(j + 1)
      BY <2>2, PopShift
    <3>2. StartsIn(j + 1, i + 1)
      BY <3>1 DEF StreamInv, StartThenEnd
    <3> QED
      BY <3>1, <3>2, PopKeeps
  <2>3. ASSUME NEW j \in Position', IsEnd(j)', cli.state = "external"
        PROVE  StartsIn(j, Past)'
    <3>1. j + 1 \in Position /\ j \in Nat /\ IsEnd(j + 1) /\ Past = Past' + 1 /\ Past' \in Int
      BY <2>3, PopShift
    <3>2. StartsIn(j + 1, Past)
      BY <2>3, <3>1 DEF StreamInv, StartThenEnd
    <3>3. PICK h : h = Past'
      OBVIOUS
    <3>4. StartsIn(j, h)'
      BY <3>1, <3>2, <3>3, PopKeeps
    <3> QED
      BY <3>3, <3>4 DEF StartsIn
  <2> QED
    BY <2>1, <2>2, <2>3 DEF StartThenEnd
<1>5. ExitIsLast'
  <2>1. ASSUME NEW i \in Position', channel'[i].type = "exit"
        PROVE  i = Len(channel') /\ cli'.state = "dead"
    <3>1. i + 1 = Len(channel) /\ cli.state = "dead"
      BY <2>1, PopShift DEF StreamInv, ExitIsLast
    <3> QED
      BY <2>1, <3>1, PopShift DEF Past
  <2>2. ~Alive => stdin = <<>>
    BY DEF StreamInv, ExitIsLast
  <2> QED
    BY <1>1, <2>1, <2>2 DEF ExitIsLast
<1> QED
  BY <1>2, <1>3, <1>4, <1>5

-----------------------------------------------------------------------------
(* Steps that take the head of the channel *)

\* The origin marks when the head is taken,
LEMMA OriginShift ==
  ASSUME TypeOK, StreamInv, Pops, pendingOrigin' <=> channel[1].type = "origin"
  PROVE  OriginMarksNext'
<1>0. OriginMarksNext
  BY DEF StreamInv
<1>1. pendingOrigin' => channel' # <<>> /\ IsEnd(1)'
  <2>1. SUFFICES ASSUME channel[1].type = "origin" PROVE channel' # <<>> /\ IsEnd(1)'
    OBVIOUS
  <2>2. 2 \in Position /\ IsEnd(2)
    BY <1>0, <2>1, PopShift, 1 + 1 = 2 DEF OriginMarksNext
  <2>3. 1 \in Position' /\ channel'[1] = channel[2]
    BY <2>2, PopShift, 2 - 1 = 1
  <2>4. channel' # <<>>
    BY <2>3, EmptySeq DEF Position
  <2> QED
    BY <2>2, <2>3, <2>4 DEF IsEnd
<1>2. ASSUME NEW i \in Position', channel'[i].type = "origin"
      PROVE  i + 1 \in Position' /\ IsEnd(i + 1)'
  <2>1. PICK k : k = i + 1
    OBVIOUS
  <2>2. k \in Position /\ channel[k].type = "origin" /\ k \in Nat /\ k + 1 # 1
    BY <1>2, <2>1, PopShift
  <2>3. k + 1 \in Position /\ IsEnd(k + 1)
    BY <1>0, <2>2 DEF OriginMarksNext
  <2>4. (k + 1) - 1 = k
    BY <2>2
  <2>5. k \in Position' /\ channel'[k] = channel[k + 1]
    BY <2>2, <2>3, <2>4, PopShift
  <2> QED
    BY <2>1, <2>3, <2>5 DEF IsEnd
<1>3. ASSUME NEW i \in Position', IsEnd(i)', ~IsOurs(i)'
      PROVE  IF i = 1 THEN pendingOrigin' ELSE channel'[i - 1].type = "origin"
  <2>1. /\ i + 1 \in Position /\ IsEnd(i + 1) /\ ~IsOurs(i + 1) /\ i + 1 # 1
        /\ i \in Nat /\ i >= 1 /\ (i + 1) - 1 = i
    BY <1>3, PopShift
  <2>2. channel[i].type = "origin"
    BY <1>0, <2>1 DEF OriginMarksNext
  <2>3. CASE i = 1
    BY <2>2, <2>3
  <2>4. CASE i # 1
    <3>1. i \in Position
      BY <2>1, PopPositions DEF Position
    <3>2. channel'[i - 1] = channel[i]
      BY <2>4, <3>1, PopShift
    <3> QED
      BY <2>2, <2>4, <3>2
  <2> QED
    BY <2>3, <2>4
<1> QED
  BY <1>1, <1>2, <1>3 DEF OriginMarksNext

\* the starts still to be seen,
LEMMA SeenShift ==
  ASSUME TypeOK, StreamInv, Pops, UNCHANGED cli,
         turnStarts' = <<>> => IsEnd(1) \/ (turnStarts = <<>> /\ ~IsStart(1))
  PROVE  StartIsSeen'
<1> SUFFICES ASSUME turnStarts' = <<>>
             PROVE  /\ \A i \in Position' : IsEnd(i)' /\ ~IsOurs(i)' => StartsIn(0, i)'
                    /\ cli.state = "external" => StartsIn(0, Past)'
  BY DEF StartIsSeen
<1>0. StartThenEnd /\ StartIsSeen
  BY DEF StreamInv
<1>1. ASSUME NEW i \in Position', IsEnd(i)', ~IsOurs(i)'
      PROVE  StartsIn(0, i)'
  <2>1. /\ i + 1 \in Position /\ IsEnd(i + 1) /\ ~IsOurs(i + 1) /\ 1 < i + 1
        /\ i \in Int /\ 1 \in Position
    BY <1>1, PopShift
  <2>2. IsEnd(1) => StartsIn(0 + 1, i + 1)
    BY <1>0, <2>1, 0 + 1 = 1 DEF StartThenEnd
  <2>3. ~IsEnd(1) => StartsIn(0, i + 1) /\ ~IsStart(1)
    BY <1>0, <2>1 DEF StartIsSeen
  <2> QED
    BY <2>1, <2>2, <2>3, PopKeeps, 0 \in Nat
<1>2. ASSUME cli.state = "external" PROVE StartsIn(0, Past)'
  <2>1. PICK h : h = Past'
    OBVIOUS
  <2>2. Past = h + 1 /\ h \in Int /\ 1 \in Position
    BY <2>1, PopShift
  <2>3. IsEnd(1) => StartsIn(0 + 1, h + 1)
    BY <1>0, <1>2, <2>2, 0 + 1 = 1 DEF StartThenEnd
  <2>4. ~IsEnd(1) => StartsIn(0, h + 1) /\ ~IsStart(1)
    BY <1>0, <1>2, <2>2 DEF StartIsSeen
  <2>5. StartsIn(0, h)'
    BY <2>2, <2>3, <2>4, PopKeeps, 0 \in Nat
  <2> QED
    BY <2>1, <2>5 DEF StartsIn
<1> QED
  BY <1>1, <1>2

\* and the end of a counted CLI-started turn.
LEMMA ExternalShift ==
  ASSUME TypeOK, StreamInv, Pops, UNCHANGED <<stdin, cli>>,
         ExternalLeads' => ExternalLeads /\ ~IsEnd(1)
  PROVE  ExternalEndsFirst'
<1> SUFFICES ASSUME ExternalLeads, ~IsEnd(1)
             PROVE  /\ \A j \in Position' : IsEnd(j)' /\ IsOurs(j)' => EndsIn(0, j, CliStarted)'
                    /\ Alive' => \/ EndsIn(0, Past, CliStarted)'
                                 \/ cli'.state = "external" /\ InterruptFirst'
  BY DEF ExternalEndsFirst
<1>0. ExternalEndsFirst
  BY DEF StreamInv
<1>1. ASSUME NEW j \in Position', IsEnd(j)', IsOurs(j)'
      PROVE  EndsIn(0, j, CliStarted)'
  <2>1. j + 1 \in Position /\ IsEnd(j + 1) /\ IsOurs(j + 1) /\ j \in Int
    BY <1>1, PopShift
  <2>2. EndsIn(0, j + 1, CliStarted)
    BY <1>0, <2>1 DEF ExternalEndsFirst
  <2> QED
    BY <2>1, <2>2, PopKeeps
<1>2. ASSUME EndsIn(0, Past, CliStarted) PROVE EndsIn(0, Past, CliStarted)'
  <2>1. PICK h : h = Past'
    OBVIOUS
  <2>2. EndsIn(0, h + 1, CliStarted) /\ h \in Int
    BY <1>2, <2>1, PopShift
  <2>3. EndsIn(0, h, CliStarted)'
    BY <2>2, PopKeeps
  <2> QED
    BY <2>1, <2>3 DEF EndsIn
<1>3. Alive' = Alive /\ InterruptFirst' = InterruptFirst
  BY DEF Alive, InterruptFirst
<1> QED
  BY <1>0, <1>1, <1>2, <1>3 DEF ExternalEndsFirst

\* Taking the head settles the turn it answers, and marks the turn it echoes.
LEMMA PopKeepsStream ==
  ASSUME TypeOK, TurnAccounting, StreamInv, Pops, UNCHANGED <<stdin, cli>>,
         Ours' = Ours \ (IF IsEnd(1) THEN {channel[1].of} ELSE {}),
         \A n \in Ours' : EntryOf(n).echoed' <=>
                            EntryOf(n).echoed \/ (IsEcho(1) /\ channel[1].of = n),
         ExternalAtFront', OriginMarksNext', ExternalEndsFirst', StartIsSeen'
  PROVE  StreamInv'
<1>1. /\ Answering' = Answering /\ Alive' = Alive /\ Waiting' = Waiting
      /\ cli' = cli
  BY DEF Answering, Alive, Waiting, Lines
<1>2. /\ SaidOfOurs /\ SaidInOrder /\ NoneForgotten /\ EchoedWhenSeen /\ OursEndFirst
      /\ EchoThenEnd
  BY DEF StreamInv
<1>3. CliStarted \notin Ours
  BY Basics DEF CliStarted
<1>4. Ours \subseteq Nat
  BY Basics
<1>5. SaidOfOurs'
  <2>1. ASSUME NEW n \in Ours, IsOurs(1) /\ IsEnd(1) => channel[1].of < n
        PROVE  n \in Ours'
    BY <1>3, <1>4, <2>1 DEF IsOurs
  <2>2. ASSUME NEW i \in Position', IsOurs(i)' PROVE channel'[i].of \in Ours'
    <3>1. i + 1 \in Position /\ IsOurs(i + 1) /\ 1 < i + 1 /\ channel'[i] = channel[i + 1]
      BY <2>2, PopShift
    <3>2. channel[i + 1].of \in Ours
      BY <1>2, <3>1 DEF SaidOfOurs
    <3>3. IsOurs(1) /\ IsEnd(1) => channel[1].of < channel[i + 1].of
      BY <1>2, <3>1, PopShift DEF SaidInOrder
    <3> QED
      BY <2>1, <3>1, <3>2, <3>3
  <2>3. ASSUME NEW i \in Position', IsEcho(i)' PROVE IsOurs(i)'
    BY <1>2, <2>3, PopShift DEF SaidOfOurs
  <2>4. Answering => cli.turn \in Ours'
    BY <1>2, <2>1, PopShift DEF SaidOfOurs, SaidInOrder
  <2>5. \A n \in Waiting : n \in Ours'
    BY <1>2, <2>1, PopShift DEF SaidOfOurs, SaidInOrder
  <2> QED
    BY <1>1, <2>2, <2>3, <2>4, <2>5 DEF SaidOfOurs
<1>6. \A n \in Ours' : Answered(n) => Answered(n)'
  <2>1. SUFFICES ASSUME NEW n \in Ours', Answered(n) PROVE Answered(n)'
    OBVIOUS
  <2>2. PICK h : h = Past'
    OBVIOUS
  <2>3. EndsIn(0, h + 1, n) /\ h \in Int
    BY <2>1, <2>2, PopShift DEF Answered
  <2>4. EndsIn(0, h, n)'
    BY <2>3, PopKeeps
  <2> QED
    BY <2>2, <2>4 DEF EndsIn, Answered
<1>7. Ours' \subseteq Ours
  OBVIOUS
<1>8. NoneForgotten'
  <2>1. Alive => \A n \in Ours' : Answered(n)' \/ (Answering /\ cli.turn = n) \/ n \in Waiting
    BY <1>2, <1>6, <1>7 DEF NoneForgotten
  <2>2. \A i \in Position' : IsOurs(i)' => \A m \in Ours' : m < channel'[i].of => Answered(m)'
    BY <1>2, <1>6, <1>7, PopShift DEF NoneForgotten
  <2> QED
    BY <1>1, <2>1, <2>2 DEF NoneForgotten
<1>9. EchoedWhenSeen'
  <2>1. ASSUME NEW i \in Position', IsEcho(i)' PROVE ~EntryOf(channel[i].of).echoed'
    <3>1. /\ i + 1 \in Position /\ IsEcho(i + 1) /\ 1 < i + 1
          /\ channel'[i].of = channel[i + 1].of
      BY <2>1, PopShift
    <3>2. ~EntryOf(channel[i + 1].of).echoed /\ IsOurs(i + 1) /\ channel[i + 1].of \in Nat
      BY <1>2, <1>4, <3>1 DEF EchoedWhenSeen, SaidOfOurs
    <3>3. IsEcho(1) => channel[1].of < channel[i + 1].of /\ channel[1].of \in Nat
      BY <1>2, <1>4, <3>1, <3>2, PopShift DEF SaidInOrder, SaidOfOurs
    <3>4. channel'[i].of \in Ours'
      BY <1>5, <2>1 DEF SaidOfOurs
    <3>5. PICK n : n = channel'[i].of
      OBVIOUS
    <3>6. ~EntryOf(n).echoed'
      BY <3>1, <3>2, <3>3, <3>4, <3>5
    <3> QED
      BY <3>5, <3>6 DEF EntryOf
  <2>2. ASSUME NEW n \in Waiting PROVE ~EntryOf(n).echoed'
    <3>1. ~EntryOf(n).echoed /\ n \in Nat /\ n \in Ours'
      BY <1>1, <1>2, <1>4, <1>5, <1>7, <2>2 DEF EchoedWhenSeen, SaidOfOurs
    <3>2. IsEcho(1) => channel[1].of < n /\ channel[1].of \in Nat
      BY <1>2, <1>4, <2>2, PopShift DEF SaidInOrder, SaidOfOurs
    <3> QED
      BY <3>1, <3>2
  <2>3. ASSUME NEW i \in Position', IsEnd(i)', IsOurs(i)'
        PROVE  EntryOf(channel[i].of).echoed' \/ EchoIn(i, channel[i].of)'
    <3>1. /\ i + 1 \in Position /\ IsEnd(i + 1) /\ IsOurs(i + 1) /\ i \in Int
          /\ channel'[i].of = channel[i + 1].of /\ channel'[i].of \in Ours'
      BY <1>5, <2>3, PopShift DEF SaidOfOurs
    <3>2. PICK n : n = channel'[i].of
      OBVIOUS
    <3>3. EntryOf(n).echoed \/ EchoIn(i + 1, n)
      BY <1>2, <3>1, <3>2 DEF EchoedWhenSeen
    <3>4. EntryOf(n).echoed' \/ EchoIn(i, n)'
      BY <3>1, <3>2, <3>3, PopKeeps
    <3> QED
      BY <3>2, <3>4 DEF EntryOf, EchoIn
  <2>4. ASSUME Answering PROVE EntryOf(cli.turn).echoed' \/ EchoIn(Past, cli.turn)'
    <3>1. cli.turn \in Ours'
      BY <1>1, <1>5, <2>4 DEF SaidOfOurs
    <3>2. PICK n, h : n = cli.turn /\ h = Past'
      OBVIOUS
    <3>3. (EntryOf(n).echoed \/ EchoIn(h + 1, n)) /\ h \in Int
      BY <1>2, <2>4, <3>2, PopShift DEF EchoedWhenSeen
    <3>4. EntryOf(n).echoed' \/ EchoIn(h, n)'
      BY <3>1, <3>2, <3>3, PopKeeps
    <3> QED
      BY <1>1, <3>2, <3>4 DEF EntryOf, EchoIn
  <2> QED
    BY <1>1, <2>1, <2>2, <2>3, <2>4 DEF EchoedWhenSeen
<1>10. OursEndFirst'
  <2>1. SUFFICES ASSUME NEW i \in Position', IsEnd(i)', ~IsOurs(i)', NEW n \in Ours',
                        EntryOf(n).echoed'
                 PROVE  EndsIn(0, i, n)'
    BY DEF OursEndFirst
  <2>2. /\ i + 1 \in Position /\ IsEnd(i + 1) /\ ~IsOurs(i + 1) /\ i \in Int /\ 1 < i + 1
        /\ 1 \in Position /\ ~(IsEnd(1) /\ channel[1].of = n)
    BY <2>1, PopShift
  <2>3. CASE EntryOf(n).echoed
    <3>1. EndsIn(0, i + 1, n)
      BY <1>2, <1>7, <2>2, <2>3 DEF OursEndFirst
    <3> QED
      BY <2>2, <3>1, PopKeeps
  <2>4. CASE IsEcho(1) /\ channel[1].of = n
    <3>1. EndsIn(0 + 1, i + 1, n)
      BY <1>2, <2>2, <2>4, 0 + 1 = 1 DEF EchoThenEnd
    <3> QED
      BY <2>2, <3>1, PopKeeps, 0 \in Nat
  <2> QED
    BY <2>1, <2>3, <2>4
<1> QED
  BY <1>5, <1>8, <1>9, <1>10, PopKeepsOrder DEF StreamInv

\* The echo at the head is marked on the turn that it echoes.
LEMMA EchoMarksItsTurn ==
  ASSUME TypeOK, TurnAccounting, StreamInv, 1 \in Position, IsEcho(1),
         UNCHANGED <<turnSeq, boundaryCount>>, turnStarts' = MarkEchoed(turnStarts)
  PROVE  /\ Ours' = Ours /\ ExternalLeads' = ExternalLeads /\ ExternalAtFront'
         /\ turnStarts # <<>>
         /\ \A n \in Ours : EntryOf(n).echoed' <=> EntryOf(n).echoed \/ channel[1].of = n
<1>0. IsOurs(1) /\ ExternalAtFront
  BY DEF StreamInv, SaidOfOurs
<1>1. PICK n, k : n = channel[1].of /\ k = n - boundaryCount
  OBVIOUS
<1>2. /\ n \in Ours /\ (\A m \in Ours : n <= m) /\ turnStarts # <<>>
      /\ (~ExternalLeads => n = boundaryCount + 1) /\ ~EntryOf(n).echoed
  BY <1>0, <1>1, HeadIsForFirst
<1>3. /\ k \in Entries /\ boundaryCount \in Nat /\ turnSeq \in Nat
      /\ Len(turnStarts) = turnSeq - boundaryCount /\ Len(turnStarts) \in Nat
      /\ Ours \subseteq boundaryCount + 1 .. turnSeq
      /\ \A i \in Entries : turnStarts[i] \in Entry
      /\ \A m \in boundaryCount + 1 .. turnSeq : m - boundaryCount \in Entries
  BY <1>1, <1>2, Basics DEF Ours
<1>4. ~turnStarts[k].echoed /\ ~turnStarts[k].external
  BY <1>1, <1>2 DEF EntryOf, Ours
<1>5. ASSUME NEW i \in Entries, ~turnStarts[i].echoed PROVE k <= i
  <2>1. ~turnStarts[i].external
    BY <1>0, <1>5 DEF ExternalAtFront
  <2>2. i \in Nat /\ i >= 1 /\ i + boundaryCount \in boundaryCount + 1 .. turnSeq
        /\ (i + boundaryCount) - boundaryCount = i
    BY <1>3 DEF Entries
  <2>3. i + boundaryCount \in Ours
    BY <2>1, <2>2 DEF Ours, EntryOf
  <2>4. PICK m : m = i + boundaryCount
    OBVIOUS
  <2>5. n <= m /\ n \in Nat
    BY <1>2, <1>3, <2>3, <2>4
  <2> QED
    BY <1>1, <1>3, <2>2, <2>4, <2>5
<1>6. PICK waiting : waiting = {i \in 1..Len(turnStarts) : ~turnStarts[i].echoed}
  OBVIOUS
<1>7. \A i \in Entries : i \in waiting /\ (\A j \in waiting : i <= j) <=> i = k
  BY <1>3, <1>4, <1>5, <1>6 DEF Entries
<1>8. \A i \in Entries :
        turnStarts'[i] = IF i = k THEN [turnStarts[i] EXCEPT !.echoed = TRUE] ELSE turnStarts[i]
  BY <1>6, <1>7 DEF MarkEchoed, Entries
<1>9. \A i \in Entries : /\ turnStarts'[i].external = turnStarts[i].external
                         /\ turnStarts'[i].echoed <=> turnStarts[i].echoed \/ i = k
  BY <1>3, <1>8 DEF Entry
<1>10. Len(turnStarts') = Len(turnStarts) /\ Entries' = Entries
  BY MarkEchoedKeeps DEF TypeOK, Entries
<1>11. Ours' = Ours
  BY <1>3, <1>9 DEF Ours, EntryOf
<1>12. \A m \in Ours : EntryOf(m).echoed' <=> EntryOf(m).echoed \/ n = m
  <2>1. SUFFICES ASSUME NEW m \in Ours
                 PROVE  EntryOf(m).echoed' <=> EntryOf(m).echoed \/ n = m
    OBVIOUS
  <2>2. PICK i : i = m - boundaryCount
    OBVIOUS
  <2>3. i \in Entries /\ (i = k <=> n = m)
    BY <1>1, <1>2, <1>3, <2>2
  <2> QED
    BY <1>9, <2>2, <2>3 DEF EntryOf
<1>13. ExternalAtFront'
  BY <1>0, <1>9, <1>10 DEF ExternalAtFront
<1>14. turnStarts' # <<>>
  BY <1>2, <1>3, <1>10, Basics, EmptySeq, MarkEchoedKeeps DEF TypeOK
<1>15. 1 \in Entries
  BY <1>2, <1>3, Basics DEF Entries
<1>16. ExternalLeads' = ExternalLeads
  BY <1>2, <1>9, <1>14, <1>15 DEF ExternalLeads
<1> QED
  BY <1>1, <1>2, <1>11, <1>12, <1>13, <1>16

\* The FIFO gives up its front: the first turn of ours, or the turn the CLI started.
LEMMA SettlesFront ==
  ASSUME TypeOK, TypeOK', TurnAccounting, TurnAccounting', ExternalAtFront, turnStarts # <<>>,
         UNCHANGED turnSeq, boundaryCount' = boundaryCount + 1, turnStarts' = Tail(turnStarts)
  PROVE  /\ Ours' = Ours \ {boundaryCount + 1} /\ ~ExternalLeads' /\ ExternalAtFront'
         /\ \A n \in Ours' : EntryOf(n).echoed' = EntryOf(n).echoed
         /\ turnStarts[1].external => boundaryCount + 1 \notin Ours
<1>1. /\ Len(turnStarts) \in Nat /\ Len(turnStarts') = Len(turnStarts) - 1
      /\ \A i \in Entries' : i \in Nat /\ i >= 1 /\ i + 1 \in Entries
                             /\ turnStarts'[i] = turnStarts[i + 1]
  <2>1. turnStarts \in Seq(Entry) /\ turnStarts # <<>>
    BY DEF TypeOK
  <2>2. /\ Len(Tail(turnStarts)) = Len(turnStarts) - 1
        /\ \A i \in 1..Len(Tail(turnStarts)) : Tail(turnStarts)[i] = turnStarts[i + 1]
    BY <2>1, HeadTailProperties
  <2> QED
    BY <2>2, Basics DEF Entries
<1>2. /\ turnSeq \in Nat /\ boundaryCount \in Nat /\ boundaryCount + 1 <= turnSeq
      /\ Len(turnStarts) = turnSeq - boundaryCount
  BY Basics
<1>3. \A n \in boundaryCount + 2 .. turnSeq : EntryOf(n)' = EntryOf(n)
  <2>1. SUFFICES ASSUME NEW n \in boundaryCount + 2 .. turnSeq PROVE EntryOf(n)' = EntryOf(n)
    OBVIOUS
  <2>2. PICK i : i = n - (boundaryCount + 1)
    OBVIOUS
  <2>3. i \in Entries' /\ i + 1 = n - boundaryCount
    BY <1>1, <1>2, <2>2 DEF Entries
  <2> QED
    BY <1>1, <2>2, <2>3 DEF EntryOf
<1>4. (boundaryCount + 1 .. turnSeq)' = (boundaryCount + 1 .. turnSeq) \ {boundaryCount + 1}
  BY <1>2
<1>5. \A n \in (boundaryCount + 1 .. turnSeq)' : n \in boundaryCount + 2 .. turnSeq
  BY <1>2
<1>6. Ours' = Ours \ {boundaryCount + 1}
  BY <1>3, <1>4, <1>5 DEF Ours
<1>7. \A n \in Ours' : EntryOf(n).echoed' = EntryOf(n).echoed
  BY <1>3, <1>5 DEF Ours
<1>8. \A i \in Entries' : ~turnStarts'[i].external
  <2>1. SUFFICES ASSUME NEW i \in Entries' PROVE ~turnStarts'[i].external
    OBVIOUS
  <2>2. i \in Nat /\ i >= 1 /\ i + 1 \in Entries /\ turnStarts'[i] = turnStarts[i + 1]
    BY <1>1
  <2>3. i + 1 # 1
    BY <2>2
  <2> QED
    BY <2>2, <2>3 DEF ExternalAtFront
<1>9. ~ExternalLeads'
  <2>1. turnStarts' # <<>> => 1 \in Entries'
    <3>1. turnStarts' \in Seq(Entry)
      BY DEF TypeOK
    <3> QED
      BY <3>1, EmptySeq, LenProperties DEF Entries
  <2> QED
    BY <1>8, <2>1 DEF ExternalLeads
<1>10. turnStarts[1].external => boundaryCount + 1 \notin Ours
  <2>1. (boundaryCount + 1) - boundaryCount = 1
    BY <1>2
  <2> QED
    BY <2>1 DEF Ours, EntryOf
<1> QED
  BY <1>6, <1>7, <1>8, <1>9, <1>10 DEF ExternalAtFront

\* How the fan-out takes a boundary off the channel.
LEMMA HeadKinds ==
  ASSUME TypeOK, StreamInv, Pops
  PROVE  /\ channel[1].type \in Boundary \cup {"peer", "content", "origin", "echo"}
         /\ channel[1].type \in Boundary <=> IsEnd(1) \/ channel[1].type = "exit"
         /\ channel[1].type = "echo" <=> IsEcho(1)
         /\ ~IsEnd(1) => ~pendingOrigin
         /\ channel[1].type = "exit" =>
              /\ ~Alive /\ stdin = <<>> /\ Len(channel) = 1 /\ cli.state = "dead"
<1>1. channel[1] \in Event /\ 1 \in Position
  BY PopShift, Basics DEF TypeOK, Position
<1>2. channel[1].type \in Boundary \cup {"peer", "content", "origin", "echo"}
  BY <1>1 DEF Event
<1>3. ~IsEnd(1) => ~pendingOrigin
  BY DEF StreamInv, OriginMarksNext
<1>4. channel[1].type = "exit" =>
        ~Alive /\ stdin = <<>> /\ Len(channel) = 1 /\ cli.state = "dead"
  BY <1>1 DEF StreamInv, ExitIsLast, Alive
<1> QED
  BY <1>2, <1>3, <1>4 DEF Boundary, IsEnd, IsEcho

\* An origin mark or an echo is taken: it moves attribution only.
LEMMA MarkerKeeps ==
  ASSUME TypeOK, TypeOK', TurnAccounting, StreamInv, HandleMarker
  PROVE  StreamInv'
<1>1. Pops /\ UNCHANGED <<stdin, cli, turnSeq, boundaryCount>>
  BY DEF HandleMarker, Handling, Pops
<1>2. /\ 1 \in Position /\ Head(channel) = channel[1]
      /\ channel[1].type \in {"origin", "echo"}
  BY <1>1, PopShift DEF HandleMarker, Handling
<1>3. ~IsEnd(1) /\ ~IsStart(1) /\ ~pendingOrigin
  BY <1>1, <1>2, HeadKinds DEF IsEnd, IsStart
<1>4. pendingOrigin' <=> channel[1].type = "origin"
  BY <1>2, <1>3 DEF HandleMarker
<1>5. OriginMarksNext'
  BY <1>1, <1>4, OriginShift
<1>6. CASE channel[1].type = "origin"
  <2>1. turnStarts' = turnStarts /\ ~IsEcho(1)
    BY <1>2, <1>6 DEF HandleMarker, IsEcho
  <2>2. ExternalAtFront
    BY DEF StreamInv
  <2>3. FifoKept
    BY <1>1, <2>1, <2>2, SameFlags
  <2>4. ExternalEndsFirst' /\ StartIsSeen'
    BY <1>1, <1>3, <2>1, <2>3, ExternalShift, SeenShift DEF FifoKept
  <2> QED
    BY <1>1, <1>3, <1>5, <2>1, <2>3, <2>4, PopKeepsStream DEF FifoKept
<1>7. CASE channel[1].type = "echo"
  <2>1. turnStarts' = MarkEchoed(turnStarts) /\ IsEcho(1)
    BY <1>2, <1>7 DEF HandleMarker, IsEcho
  <2>2. /\ Ours' = Ours /\ ExternalLeads' = ExternalLeads /\ ExternalAtFront'
        /\ turnStarts # <<>>
        /\ \A n \in Ours : EntryOf(n).echoed' <=> EntryOf(n).echoed \/ channel[1].of = n
    BY <1>1, <1>2, <2>1, EchoMarksItsTurn
  <2>3. turnStarts' # <<>>
    BY <2>1, <2>2, EmptySeq, MarkEchoedKeeps DEF TypeOK
  <2>4. ExternalEndsFirst' /\ StartIsSeen'
    BY <1>1, <1>3, <2>2, <2>3, ExternalShift, SeenShift
  <2> QED
    BY <1>1, <1>3, <1>5, <2>1, <2>2, <2>4, PopKeepsStream
<1> QED
  BY <1>2, <1>6, <1>7

\* Output of the running turn is taken.
LEMMA OutputKeeps ==
  ASSUME TypeOK, TypeOK', TurnAccounting, StreamInv, ForwardOutput
  PROVE  StreamInv'
<1>1. Pops /\ UNCHANGED <<stdin, cli, turnSeq, boundaryCount, turnStarts, pendingOrigin>>
  BY DEF ForwardOutput, Handling, Pops
<1>2. Head(channel) = channel[1] /\ channel[1].type \in {"peer", "content"} /\ turnStarts # <<>>
  BY <1>1, PopShift DEF ForwardOutput, Handling, OpensExternal, TurnAccounting
<1>3. ~IsEnd(1) /\ ~IsEcho(1) /\ ~pendingOrigin /\ channel[1].type # "origin"
  BY <1>1, <1>2, HeadKinds DEF IsEnd, IsEcho
<1>4. FifoKept
  BY <1>1, SameFlags DEF StreamInv
<1>5. OriginMarksNext' /\ ExternalEndsFirst' /\ StartIsSeen'
  BY <1>1, <1>2, <1>3, <1>4, OriginShift, ExternalShift, SeenShift DEF FifoKept
<1> QED
  BY <1>1, <1>3, <1>4, <1>5, PopKeepsStream DEF FifoKept

\* Output while idle opens a turn of the CLI's own.
LEMMA OpenKeeps ==
  ASSUME TypeOK, TypeOK', TurnAccounting, StreamInv, OpenExternalTurn
  PROVE  StreamInv'
<1>1. /\ Pops /\ UNCHANGED <<stdin, cli, boundaryCount, pendingOrigin>>
      /\ turnSeq' = turnSeq + 1 /\ turnStarts' = Append(turnStarts, NewEntry(TRUE))
  BY DEF OpenExternalTurn, Handling, Pops
<1>2. Head(channel) = channel[1] /\ channel[1].type \in {"peer", "content"} /\ turnStarts = <<>>
  BY <1>1, PopShift DEF OpenExternalTurn, Handling, OpensExternal, TurnAccounting
<1>3. ~IsEnd(1) /\ ~IsEcho(1) /\ ~pendingOrigin /\ channel[1].type # "origin" /\ 1 \in Position
  BY <1>1, <1>2, HeadKinds, PopShift DEF IsEnd, IsEcho
<1>4. Ours = {} /\ turnSeq = boundaryCount /\ turnSeq \in Nat
  BY <1>2, Basics DEF Ours
<1>5. /\ turnStarts' = <<NewEntry(TRUE)>> /\ Len(turnStarts') = 1
      /\ turnStarts'[1].external /\ turnStarts'[1].echoed
  BY <1>1, <1>2 DEF NewEntry
<1>6. ExternalAtFront' /\ turnStarts' # <<>>
  <2>1. \A i \in Entries' : i = 1
    BY <1>5 DEF Entries
  <2>2. ExternalAtFront'
    BY <1>5, <2>1 DEF ExternalAtFront
  <2>3. turnStarts' # <<>>
    BY <1>5
  <2> QED
    BY <2>2, <2>3
<1>7. Ours' = {}
  <2>1. ASSUME NEW n \in (boundaryCount + 1 .. turnSeq)' PROVE n - boundaryCount = 1
    BY <1>1, <1>4, <2>1
  <2>2. \A n \in (boundaryCount + 1 .. turnSeq)' : EntryOf(n)'.external
    BY <1>1, <1>5, <2>1 DEF EntryOf
  <2> QED
    BY <2>2 DEF Ours
<1>8. ~Answering /\ Waiting = {} /\ \A i \in Position : ~IsOurs(i)
  BY <1>4 DEF StreamInv, SaidOfOurs
<1>9. ExternalEndsFirst'
  <2>1. \A j \in Position' : ~IsOurs(j)'
    BY <1>1, <1>8, PopShift
  <2>2. InterruptFirst'
    <3>1. \A k \in 1..Len(stdin) : stdin[k].kind # "prompt"
      BY <1>8 DEF Waiting, Lines
    <3>2. stdin # <<>> => 1 \in 1..Len(stdin) /\ Head(stdin) = stdin[1] /\ stdin[1] \in Line
      BY EmptySeq, HeadTailProperties, ElementOfSeq DEF TypeOK
    <3>3. InterruptFirst
      BY <3>1, <3>2 DEF InterruptFirst, Line
    <3> QED
      BY <1>1, <3>3 DEF InterruptFirst
  <2>3. IsStart(1)
    BY <1>2, <1>3, <1>8 DEF IsStart
  <2>4. ASSUME NEW j \in Position, 1 < j, IsEnd(j)
        PROVE  EndsIn(0, Past, CliStarted)'
    <3>1. j - 1 \in Position' /\ channel'[j - 1] = channel[j] /\ channel[j].of = CliStarted
      BY <1>1, <1>8, <2>4, PopShift DEF IsOurs
    <3>2. 0 < j - 1 /\ j - 1 < Past'
      BY <3>1 DEF Position, Past
    <3> QED
      BY <2>4, <3>1, <3>2 DEF EndsIn, IsEnd
  <2>5. Alive' => EndsIn(0, Past, CliStarted)' \/ cli'.state = "external"
    BY <1>1, <1>3, <1>8, <2>3, <2>4 DEF StreamInv, StartThenEnd, Alive, Answering
  <2> QED
    BY <2>1, <2>2, <2>5 DEF ExternalEndsFirst
<1>10. OriginMarksNext' /\ StartIsSeen'
  BY <1>1, <1>3, <1>6, OriginShift, SeenShift
<1> QED
  BY <1>1, <1>3, <1>4, <1>6, <1>7, <1>9, <1>10, PopKeepsStream

\* The end of a CLI-started turn is skipped.
LEMMA SkipKeeps ==
  ASSUME TypeOK, TypeOK', TurnAccounting, StreamInv, SkipBoundary
  PROVE  StreamInv'
<1>1. Pops /\ UNCHANGED <<stdin, cli, turnSeq, boundaryCount, turnStarts>> /\ ~pendingOrigin'
  BY DEF SkipBoundary, Handling, Pops
<1>2. /\ 1 \in Position /\ Head(channel) = channel[1] /\ channel[1].type \in Boundary
      /\ pendingOrigin
  BY <1>1, PopShift DEF SkipBoundary, Handling, Skipped
<1>3. IsEnd(1) /\ ~IsEcho(1) /\ channel[1].type # "origin"
  BY <1>1, <1>2, HeadKinds DEF IsEnd, IsEcho
<1>4. turnStarts # <<>> => ~turnStarts[1].external /\ ~turnStarts[1].echoed /\ ~ExternalLeads
  <2>1. turnStarts # <<>> => Head(turnStarts) = turnStarts[1]
    BY HeadTailProperties DEF TypeOK
  <2> QED
    BY <2>1 DEF SkipBoundary, Skipped, FrontSettlesOnOrigin, ExternalLeads
<1>5. ~IsOurs(1)
  <2>1. SUFFICES ASSUME IsOurs(1) PROVE FALSE
    OBVIOUS
  <2>2. /\ channel[1].of = boundaryCount + 1 /\ turnStarts # <<>>
        /\ EntryOf(channel[1].of).echoed
    BY <1>2, <1>3, <2>1, HeadIsForFirst DEF ExternalLeads
  <2>3. (boundaryCount + 1) - boundaryCount = 1
    BY Basics
  <2> QED
    BY <1>4, <2>2, <2>3 DEF EntryOf
<1>6. channel[1].of \notin Ours
  BY <1>5, Basics DEF IsOurs, CliStarted
<1>7. FifoKept
  BY <1>1, SameFlags DEF StreamInv
<1>8. ~ExternalLeads'
  BY <1>4, <1>7 DEF FifoKept, ExternalLeads
<1>9. OriginMarksNext' /\ ExternalEndsFirst' /\ StartIsSeen'
  BY <1>1, <1>3, <1>8, OriginShift, ExternalShift, SeenShift
<1> QED
  BY <1>1, <1>3, <1>6, <1>7, <1>9, PopKeepsStream DEF FifoKept

\* Behind the exit of the process there is nothing left to settle.
LEMMA ExitKeeps ==
  ASSUME TypeOK, TypeOK', StreamInv, Pops, UNCHANGED <<stdin, cli>>, ~pendingOrigin',
         channel[1].type = "exit", ExternalAtFront'
  PROVE  StreamInv'
<1>1. /\ ~Alive' /\ stdin' = <<>> /\ Position' = {} /\ ~Answering' /\ cli'.state = "dead"
  <2>1. ~Alive /\ stdin = <<>> /\ Len(channel) = 1 /\ cli.state = "dead"
    BY HeadKinds
  <2>2. Position' = {}
    BY <2>1, PopPositions DEF Position
  <2> QED
    BY <2>1, <2>2 DEF Alive, Answering
<1>2. Lines' = {} /\ Waiting' = {} /\ LinesInOrder'
  BY <1>1, EmptySeq DEF Lines, Waiting, LinesInOrder
<1>3. SaidOfOurs' /\ SaidInOrder' /\ NoneForgotten' /\ EchoedWhenSeen' /\ OursEndFirst'
  BY <1>1, <1>2 DEF SaidOfOurs, SaidInOrder, NoneForgotten, EchoedWhenSeen, OursEndFirst
<1>4. EchoThenEnd' /\ OriginMarksNext' /\ ExternalEndsFirst' /\ StartThenEnd' /\ StartIsSeen'
  BY <1>1 DEF EchoThenEnd, OriginMarksNext, ExternalEndsFirst, StartThenEnd, StartIsSeen
<1>5. ExitIsLast'
  BY <1>1 DEF ExitIsLast
<1> QED
  BY <1>3, <1>4, <1>5 DEF StreamInv

\* A boundary settles the front of the FIFO.
LEMMA SettleKeeps ==
  ASSUME TypeOK, TypeOK', TurnAccounting, TurnAccounting', StreamInv, SettleBoundary
  PROVE  StreamInv'
<1>1. /\ Pops /\ UNCHANGED <<stdin, cli, turnSeq>> /\ ~pendingOrigin'
      /\ turnStarts' = Settle(turnStarts) /\ boundaryCount' = CountBoundary
  BY DEF SettleBoundary, Handling, Pops
<1>2. /\ 1 \in Position /\ Head(channel) = channel[1] /\ channel[1].type \in Boundary
      /\ ~Skipped
  BY <1>1, PopShift DEF SettleBoundary, Handling
<1>3. ~IsEcho(1) /\ channel[1].type # "origin"
  BY <1>1, <1>2, HeadKinds DEF IsEcho, Boundary
<1>4. ExternalAtFront
  BY DEF StreamInv
<1>5. ASSUME turnStarts # <<>>
      PROVE  /\ boundaryCount' = boundaryCount + 1
             /\ Ours' = Ours \ {boundaryCount + 1} /\ ~ExternalLeads' /\ ExternalAtFront'
             /\ \A n \in Ours' : EntryOf(n).echoed' = EntryOf(n).echoed
             /\ turnStarts[1].external => boundaryCount + 1 \notin Ours
  <2>1. boundaryCount' = boundaryCount + 1
    BY <1>1, <1>5, Basics DEF CountBoundary, CaughtUp
  <2>2. turnStarts' = Tail(turnStarts)
    BY <1>1, <1>5 DEF Settle
  <2> QED
    BY <1>1, <1>4, <1>5, <2>1, <2>2, SettlesFront
<1>6. CASE channel[1].type = "exit"
  <2>1. CASE turnStarts = <<>>
    BY <1>1, <1>6, <2>1, ExitKeeps, EmptySeq DEF Settle, ExternalAtFront, Entries
  <2>2. CASE turnStarts # <<>>
    BY <1>1, <1>5, <1>6, <2>2, ExitKeeps
  <2> QED
    BY <2>1, <2>2
<1>7. CASE IsEnd(1)
  <2>1. turnStarts # <<>> => Head(turnStarts) = turnStarts[1]
    BY HeadTailProperties DEF TypeOK
  <2>2. turnStarts # <<>> /\ Ours' = Ours \ {channel[1].of}
    <3>1. CASE IsOurs(1)
      <4>1. turnStarts # <<>> /\ channel[1].of = boundaryCount + 1
        BY <1>2, <1>7, <3>1, HeadIsForFirst
      <4> QED
        BY <1>5, <4>1
    <3>2. CASE ~IsOurs(1)
      <4>1. turnStarts # <<>> /\ turnStarts[1].external
        BY <1>2, <1>7, <2>1, <3>2, HeadIsOfCli DEF Skipped, FrontSettlesOnOrigin
      <4>2. channel[1].of \notin Ours
        BY <3>2, Basics DEF IsOurs, CliStarted
      <4> QED
        BY <1>5, <4>1, <4>2
    <3> QED
      BY <3>1, <3>2
  <2>3. OriginMarksNext' /\ ExternalEndsFirst' /\ StartIsSeen'
    BY <1>1, <1>3, <1>5, <1>7, <2>2, OriginShift, ExternalShift, SeenShift
  <2> QED
    BY <1>1, <1>3, <1>5, <1>7, <2>2, <2>3, PopKeepsStream
<1> QED
  BY <1>1, <1>2, <1>6, <1>7, HeadKinds

\* Every handler of the event arm.
LEMMA EventKeeps ==
  ASSUME TypeOK, TypeOK', TurnAccounting, TurnAccounting', StreamInv, HandleEvent
  PROVE  StreamInv'
BY MarkerKeeps, OpenKeeps, OutputKeeps, SkipKeeps, SettleKeeps DEF HandleEvent

-----------------------------------------------------------------------------
(* Steps of the CLI *)

\* What is said joins the channel behind everything else.
LEMMA AppendFacts ==
  ASSUME TypeOK, NEW s \in Seq(Event), Appends(s)
  PROVE  /\ \A i \in Position :
              /\ i \in Position' /\ i \in Nat /\ i < Past /\ i >= 1
              /\ channel'[i] = channel[i]
              /\ IsEnd(i)' = IsEnd(i) /\ IsEcho(i)' = IsEcho(i)
              /\ IsOurs(i)' = IsOurs(i) /\ IsStart(i)' = IsStart(i)
         /\ \A i \in Position' : i \notin Position =>
              /\ i \in Nat /\ i >= Past /\ i < Past' /\ i - Len(channel) \in 1..Len(s)
              /\ channel'[i] = s[i - Len(channel)]
         /\ Past \in Nat /\ Past' \in Nat /\ Past <= Past' /\ Past = Len(channel) + 1
         /\ channel # <<>> => channel' # <<>>
<1>1. /\ Len(channel) \in Nat /\ Len(s) \in Nat /\ Len(channel') = Len(channel) + Len(s)
      /\ Position \subseteq Position' /\ \A i \in Position : channel'[i] = channel[i]
      /\ \A i \in Position' : i \notin Position =>
           i - Len(channel) \in 1..Len(s) /\ channel'[i] = s[i - Len(channel)]
  BY AppendPositions
<1>2. \A i \in Position : /\ IsEnd(i)' = IsEnd(i) /\ IsEcho(i)' = IsEcho(i)
                          /\ IsOurs(i)' = IsOurs(i) /\ IsStart(i)' = IsStart(i)
  BY <1>1 DEF IsEnd, IsEcho, IsOurs, IsStart
<1>3. Past \in Nat /\ Past' \in Nat /\ Past <= Past' /\ Past = Len(channel) + 1
  BY <1>1 DEF Past
<1>4. \A i \in Position : i \in Position' /\ i \in Nat /\ i < Past /\ i >= 1
  BY <1>1 DEF Position, Past
<1>5. \A i \in Position' : i \notin Position => i \in Nat /\ i >= Past /\ i < Past'
  BY <1>1 DEF Position, Past
<1>6. channel # <<>> => channel' # <<>>
  <2>1. channel # <<>> => Len(channel) # 0
    BY EmptySeq DEF TypeOK
  <2>2. channel' = <<>> => Len(channel') = 0
    BY EmptySeq
  <2> QED
    BY <1>1, <2>1, <2>2
<1> QED
  BY <1>1, <1>2, <1>3, <1>4, <1>5, <1>6

\* The FIFO is not the CLI's to change.
LEMMA CliKeepsFifo ==
  ASSUME UNCHANGED fanoutVars, StreamInv
  PROVE  /\ Ours' = Ours /\ (\A n : EntryOf(n)' = EntryOf(n)) /\ ExternalLeads' = ExternalLeads
         /\ turnStarts' = turnStarts /\ pendingOrigin' = pendingOrigin /\ ExternalAtFront'
BY DEF fanoutVars, Ours, EntryOf, ExternalLeads, ExternalAtFront, Entries, StreamInv

\* The first line is a prompt and is read: it was the oldest that waited.
LEMMA ReadsPrompt ==
  ASSUME TypeOK, stdin # <<>>, Head(stdin).kind = "prompt", stdin' = Tail(stdin), LinesInOrder
  PROVE  /\ Head(stdin).turn \in Waiting /\ \A m \in Waiting : Head(stdin).turn <= m
         /\ Waiting' \subseteq Waiting
         /\ \A m \in Waiting : m = Head(stdin).turn \/ m \in Waiting'
         /\ \A m \in Waiting' : Head(stdin).turn < m
         /\ LinesInOrder'
<1>1. /\ stdin \in Seq(Line) /\ Len(stdin) \in Nat /\ Len(stdin) > 0 /\ Head(stdin) = stdin[1]
      /\ Len(stdin') = Len(stdin) - 1
      /\ \A k \in 1..Len(stdin') : stdin'[k] = stdin[k + 1]
      /\ \A k \in 1..Len(stdin) : stdin[k] \in Line
  BY HeadTailProperties, EmptySeq, LenProperties, ElementOfSeq DEF TypeOK
<1>2. \A k \in Lines : k \in Nat /\ k >= 1 /\ stdin[k].turn \in Nat
  BY <1>1 DEF Lines, Line
<1>3. 1 \in Lines
  BY <1>1 DEF Lines
<1>4. \A k \in Lines' : /\ k \in Nat /\ k >= 1 /\ k + 1 \in Lines /\ 1 < k + 1
                        /\ stdin'[k].turn = stdin[k + 1].turn
  BY <1>1 DEF Lines
<1>5. \A k \in Lines : k # 1 => k - 1 \in Lines' /\ stdin'[k - 1].turn = stdin[k].turn
  <2>1. SUFFICES ASSUME NEW k \in Lines, k # 1
                 PROVE  k - 1 \in Lines' /\ stdin'[k - 1].turn = stdin[k].turn
    OBVIOUS
  <2>2. k - 1 \in 1..Len(stdin') /\ (k - 1) + 1 = k
    BY <1>1, <2>1 DEF Lines
  <2>3. stdin'[k - 1] = stdin[k]
    BY <1>1, <2>2
  <2> QED
    BY <2>2, <2>3 DEF Lines
<1>6. \A k \in Lines : k # 1 => stdin[1].turn < stdin[k].turn
  BY <1>2, <1>3 DEF LinesInOrder
<1>7. Head(stdin).turn \in Waiting /\ \A m \in Waiting : Head(stdin).turn <= m
  BY <1>1, <1>2, <1>3, <1>6 DEF Waiting
<1>8. Waiting' \subseteq Waiting /\ \A m \in Waiting' : Head(stdin).turn < m
  <2>1. SUFFICES ASSUME NEW m \in Waiting' PROVE m \in Waiting /\ Head(stdin).turn < m
    OBVIOUS
  <2>2. PICK k \in Lines' : m = stdin'[k].turn
    BY DEF Waiting
  <2>3. k \in Nat /\ k >= 1 /\ k + 1 \in Lines /\ m = stdin[k + 1].turn
    BY <1>4, <2>2
  <2>4. k + 1 # 1
    BY <2>3
  <2> QED
    BY <1>1, <1>6, <2>3, <2>4 DEF Waiting
<1>9. \A m \in Waiting : m = Head(stdin).turn \/ m \in Waiting'
  <2>1. ASSUME NEW k \in Lines PROVE stdin[k].turn = Head(stdin).turn \/ stdin[k].turn \in Waiting'
    <3>1. CASE k = 1
      BY <1>1, <3>1
    <3>2. CASE k # 1
      <4>1. k - 1 \in Lines' /\ stdin'[k - 1].turn = stdin[k].turn
        BY <1>5, <2>1, <3>2
      <4> QED
        BY <4>1 DEF Waiting
    <3> QED
      BY <3>1, <3>2
  <2> QED
    BY <2>1 DEF Waiting
<1>10. LinesInOrder'
  <2>1. \A k, l \in Lines' : k < l => k + 1 < l + 1
    BY <1>4
  <2> QED
    BY <1>4, <2>1 DEF LinesInOrder
<1> QED
  BY <1>7, <1>8, <1>9, <1>10

\* What has been said stays true when more is said. First the answers and the echoes,
AnswersKept ==
  /\ \A n : Answered(n) => Answered(n)'
  /\ \A n : EchoIn(Past, n) => EchoIn(Past, n)'
  /\ \A i \in Position : IsEnd(i)' /\ IsOurs(i)' =>
       EntryOf(channel'[i].of).echoed \/ EchoIn(i, channel[i].of)'
  /\ \A i \in Position : IsEnd(i)' /\ ~IsOurs(i)' =>
       \A n \in Ours : EntryOf(n).echoed => EndsIn(0, i, n)'
  /\ \A i, k \in Position : IsEnd(i)' /\ ~IsOurs(i)' /\ k < i /\ IsEcho(k)' =>
       EndsIn(k, i, channel[k].of)'
  /\ \A k \in Position : IsEcho(k)' =>
       EndsIn(k, Past, channel[k].of)' \/ (Answering /\ cli.turn = channel'[k].of) \/ ~Alive

\* AnswersKept holds whatever is said.
LEMMA AnswersStay ==
  ASSUME TypeOK, StreamInv, NEW s \in Seq(Event), Appends(s)
  PROVE  AnswersKept
<1>1. /\ EchoedWhenSeen /\ OursEndFirst /\ EchoThenEnd
  BY DEF StreamInv
<1>2. /\ \A i \in Position :
           /\ i \in Int /\ i < Past /\ channel'[i] = channel[i]
           /\ IsEnd(i)' = IsEnd(i) /\ IsEcho(i)' = IsEcho(i) /\ IsOurs(i)' = IsOurs(i)
      /\ Past \in Int /\ Past' \in Int /\ Past <= Past'
  BY AppendFacts
<1>3. \A lo, n : \A h, g \in Int : h <= g =>
        /\ EndsIn(lo, h, n) => EndsIn(lo, g, n)'
        /\ EchoIn(h, n) => EchoIn(g, n)'
  BY AppendKeeps
<1>i. \A lo, n : \A h \in Int : EndsIn(lo, h, n) => EndsIn(lo, h, n)'
  <2>1. \A h \in Int : h <= h
    OBVIOUS
  <2> QED
    BY <1>3, <2>1
<1>j. \A n : \A h \in Int : EchoIn(h, n) => EchoIn(h, n)'
  <2>1. \A h \in Int : h <= h
    OBVIOUS
  <2> QED
    BY <1>3, <2>1
<1>4. \A lo, n : EndsIn(lo, Past, n) => EndsIn(lo, Past, n)'
  <2>1. SUFFICES ASSUME NEW lo, NEW n, EndsIn(lo, Past, n) PROVE EndsIn(lo, Past, n)'
    OBVIOUS
  <2>2. PICK h : h = Past'
    OBVIOUS
  <2>3. EndsIn(lo, h, n)'
    BY <1>2, <1>3, <2>1, <2>2
  <2> QED
    BY <2>2, <2>3 DEF EndsIn
<1>5. \A n : Answered(n) => Answered(n)'
  BY <1>4 DEF Answered
<1>6. ASSUME NEW i \in Position, IsEnd(i)', IsOurs(i)'
      PROVE  EntryOf(channel'[i].of).echoed \/ EchoIn(i, channel[i].of)'
  <2>1. PICK n : n = channel'[i].of
    OBVIOUS
  <2>2. (EntryOf(n).echoed \/ EchoIn(i, n)) /\ i \in Int
    BY <1>1, <1>2, <1>6, <2>1 DEF EchoedWhenSeen
  <2>3. EntryOf(n).echoed \/ EchoIn(i, n)'
    BY <1>j, <2>2
  <2> QED
    BY <2>1, <2>3 DEF EchoIn
<1>7. ASSUME NEW i \in Position, IsEnd(i)', ~IsOurs(i)', NEW n \in Ours, EntryOf(n).echoed
      PROVE  EndsIn(0, i, n)'
  BY <1>1, <1>2, <1>i, <1>7 DEF OursEndFirst
<1>8. ASSUME NEW i \in Position, NEW k \in Position, IsEnd(i)', ~IsOurs(i)', k < i, IsEcho(k)'
      PROVE  EndsIn(k, i, channel[k].of)'
  <2>1. PICK n : n = channel'[k].of
    OBVIOUS
  <2>2. EndsIn(k, i, n) /\ i \in Int
    BY <1>1, <1>2, <1>8, <2>1 DEF EchoThenEnd
  <2>3. EndsIn(k, i, n)'
    BY <1>i, <2>2
  <2> QED
    BY <2>1, <2>3 DEF EndsIn
<1>9. ASSUME NEW k \in Position, IsEcho(k)'
      PROVE  EndsIn(k, Past, channel[k].of)' \/ (Answering /\ cli.turn = channel'[k].of) \/ ~Alive
  <2>1. PICK n : n = channel'[k].of
    OBVIOUS
  <2>2. EndsIn(k, Past, n) \/ (Answering /\ cli.turn = n) \/ ~Alive
    BY <1>1, <1>2, <1>9, <2>1 DEF EchoThenEnd
  <2>3. EndsIn(k, Past, n)' \/ (Answering /\ cli.turn = n) \/ ~Alive
    BY <1>4, <2>2
  <2> QED
    BY <2>1, <2>3 DEF EndsIn
<1>10. ASSUME NEW n, EchoIn(Past, n) PROVE EchoIn(Past, n)'
  <2>1. PICK h : h = Past'
    OBVIOUS
  <2>2. EchoIn(h, n)'
    BY <1>2, <1>3, <1>10, <2>1
  <2> QED
    BY <2>1, <2>2 DEF EchoIn
<1> QED
  BY <1>5, <1>6, <1>7, <1>8, <1>9, <1>10 DEF AnswersKept

\* then the turns that the CLI starts on its own,
StartsKept ==
  /\ ExternalLeads =>
       /\ \A j \in Position : IsEnd(j)' /\ IsOurs(j)' => EndsIn(0, j, CliStarted)'
       /\ Alive => \/ EndsIn(0, Past, CliStarted)' /\ \A g \in Int : g >= Past => EndsIn(0, g, CliStarted)'
                   \/ cli.state = "external" /\ InterruptFirst
  /\ \A i \in Position : IsStart(i)' =>
       \/ \E j \in Position' : i < j /\ IsEnd(j)'
       \/ cli.state \in {"external", "merged"} \/ ~Alive
  /\ \A i, j \in Position : IsEnd(i)' /\ ~IsOurs(i)' /\ j < i /\ IsEnd(j)' => StartsIn(j, i)'
  /\ cli.state = "external" => \A j \in Position : IsEnd(j)' => \A g \in Int : g >= Past => StartsIn(j, g)'
  /\ turnStarts = <<>> =>
       /\ \A i \in Position : IsEnd(i)' /\ ~IsOurs(i)' => StartsIn(0, i)'
       /\ cli.state = "external" => \A g \in Int : g >= Past => StartsIn(0, g)'

\* StartsKept holds whatever is said.
LEMMA StartsStay ==
  ASSUME TypeOK, StreamInv, NEW s \in Seq(Event), Appends(s)
  PROVE  StartsKept
<1>1. ExternalEndsFirst /\ StartThenEnd /\ StartIsSeen
  BY DEF StreamInv
<1>2. /\ \A i \in Position :
           /\ i \in Position' /\ i \in Int /\ channel'[i] = channel[i]
           /\ IsEnd(i)' = IsEnd(i) /\ IsStart(i)' = IsStart(i) /\ IsOurs(i)' = IsOurs(i)
      /\ Past \in Int /\ Past' \in Int /\ Past <= Past'
  BY AppendFacts
<1>3. \A lo, n : \A h, g \in Int : h <= g =>
        /\ EndsIn(lo, h, n) => EndsIn(lo, g, n)'
        /\ StartsIn(lo, h) => StartsIn(lo, g)'
  BY AppendKeeps
<1>i. \A lo : \A h \in Int : StartsIn(lo, h) => StartsIn(lo, h)'
  <2>1. \A h \in Int : h <= h
    OBVIOUS
  <2> QED
    BY <1>3, <2>1
<1>4. ASSUME EndsIn(0, Past, CliStarted)
      PROVE  EndsIn(0, Past, CliStarted)' /\ \A g \in Int : g >= Past => EndsIn(0, g, CliStarted)'
  <2>1. \A g \in Int : g >= Past => EndsIn(0, g, CliStarted)'
    BY <1>2, <1>3, <1>4
  <2>2. PICK h : h = Past'
    OBVIOUS
  <2>3. EndsIn(0, h, CliStarted)'
    BY <1>2, <2>1, <2>2
  <2> QED
    BY <2>1, <2>2, <2>3 DEF EndsIn
<1>5. ExternalLeads =>
       /\ \A j \in Position : IsEnd(j)' /\ IsOurs(j)' => EndsIn(0, j, CliStarted)'
       /\ Alive => \/ EndsIn(0, Past, CliStarted)' /\ \A g \in Int : g >= Past => EndsIn(0, g, CliStarted)'
                   \/ cli.state = "external" /\ InterruptFirst
  BY <1>1, <1>2, <1>3, <1>4 DEF ExternalEndsFirst
<1>6. \A i \in Position : IsStart(i)' =>
       \/ \E j \in Position' : i < j /\ IsEnd(j)'
       \/ cli.state \in {"external", "merged"} \/ ~Alive
  BY <1>1, <1>2 DEF StartThenEnd
<1>7. \A i, j \in Position : IsEnd(i)' /\ ~IsOurs(i)' /\ j < i /\ IsEnd(j)' => StartsIn(j, i)'
  BY <1>1, <1>2, <1>i DEF StartThenEnd
<1>8. cli.state = "external" => \A j \in Position : IsEnd(j)' => \A g \in Int : g >= Past => StartsIn(j, g)'
  BY <1>1, <1>2, <1>3 DEF StartThenEnd
<1>9. turnStarts = <<>> =>
       /\ \A i \in Position : IsEnd(i)' /\ ~IsOurs(i)' => StartsIn(0, i)'
       /\ cli.state = "external" => \A g \in Int : g >= Past => StartsIn(0, g)'
  <2>1. turnStarts = <<>> => \A i \in Position : IsEnd(i)' /\ ~IsOurs(i)' => StartsIn(0, i)'
    BY <1>1, <1>2, <1>i DEF StartIsSeen
  <2>2. turnStarts = <<>> /\ cli.state = "external" => StartsIn(0, Past)
    BY <1>1 DEF StartIsSeen
  <2> QED
    BY <1>2, <1>3, <2>1, <2>2
<1> QED
  BY <1>5, <1>6, <1>7, <1>8, <1>9 DEF StartsKept

\* and the order of it all, and the origin marks.
OrderKept ==
  /\ \A i, j \in Position : i < j /\ IsOurs(i)' /\ IsOurs(j)' =>
       /\ channel'[i].of <= channel'[j].of
       /\ IsEnd(i)' \/ IsEcho(j)' => channel'[i].of < channel'[j].of
  /\ \A i \in Position : IsOurs(i)' => \A m \in Ours : m < channel'[i].of => Answered(m)'
  /\ \A i \in Position : IsOurs(i)' => channel'[i].of \in Ours
  /\ \A i \in Position : IsEcho(i)' => IsOurs(i)' /\ ~EntryOf(channel'[i].of).echoed
  /\ pendingOrigin => channel' # <<>> /\ IsEnd(1)'
  /\ \A i \in Position : channel'[i].type = "origin" => i + 1 \in Position' /\ IsEnd(i + 1)'
  /\ \A i \in Position : IsEnd(i)' /\ ~IsOurs(i)' =>
       IF i = 1 THEN pendingOrigin ELSE channel'[i - 1].type = "origin"
  /\ Alive => \A i \in Position : channel'[i].type # "exit"

\* OrderKept holds whatever is said.
LEMMA OrderStays ==
  ASSUME TypeOK, StreamInv, NEW s \in Seq(Event), Appends(s)
  PROVE  OrderKept
<1>1. /\ SaidOfOurs /\ SaidInOrder /\ NoneForgotten /\ EchoedWhenSeen /\ OriginMarksNext
      /\ ExitIsLast
  BY DEF StreamInv
<1>2. /\ \A i \in Position :
           /\ i \in Position' /\ i \in Nat /\ i >= 1 /\ channel'[i] = channel[i]
           /\ IsEnd(i)' = IsEnd(i) /\ IsEcho(i)' = IsEcho(i) /\ IsOurs(i)' = IsOurs(i)
      /\ (channel # <<>> => channel' # <<>>)
  BY AppendFacts
<1>3. \A n : Answered(n) => Answered(n)'
  BY AnswersStay DEF AnswersKept
<1>4. pendingOrigin => 1 \in Position
  BY <1>1, Basics, EmptySeq DEF OriginMarksNext, Position, TypeOK
<1>5. \A i, j \in Position : i < j /\ IsOurs(i)' /\ IsOurs(j)' =>
        /\ channel'[i].of <= channel'[j].of
        /\ IsEnd(i)' \/ IsEcho(j)' => channel'[i].of < channel'[j].of
  BY <1>1, <1>2 DEF SaidInOrder
<1>6. \A i \in Position : IsOurs(i)' => \A m \in Ours : m < channel'[i].of => Answered(m)'
  BY <1>1, <1>2, <1>3 DEF NoneForgotten
<1>7. \A i \in Position : IsOurs(i)' => channel'[i].of \in Ours
  BY <1>1, <1>2 DEF SaidOfOurs
<1>8. \A i \in Position : IsEcho(i)' => IsOurs(i)' /\ ~EntryOf(channel'[i].of).echoed
  BY <1>1, <1>2 DEF SaidOfOurs, EchoedWhenSeen
<1>9. pendingOrigin => channel' # <<>> /\ IsEnd(1)'
  BY <1>1, <1>2, <1>4 DEF OriginMarksNext
<1>10. \A i \in Position : channel'[i].type = "origin" => i + 1 \in Position' /\ IsEnd(i + 1)'
  <2>1. SUFFICES ASSUME NEW i \in Position, channel'[i].type = "origin"
                 PROVE  i + 1 \in Position' /\ IsEnd(i + 1)'
    OBVIOUS
  <2>2. i + 1 \in Position /\ IsEnd(i + 1)
    BY <1>1, <1>2, <2>1 DEF OriginMarksNext
  <2> QED
    BY <1>2, <2>2 DEF IsEnd
<1>11. \A i \in Position : IsEnd(i)' /\ ~IsOurs(i)' =>
         IF i = 1 THEN pendingOrigin ELSE channel'[i - 1].type = "origin"
  <2>1. \A i \in Position : i # 1 => i - 1 \in Position
    BY Basics DEF Position
  <2> QED
    BY <1>1, <1>2, <2>1 DEF OriginMarksNext
<1>12. Alive => \A i \in Position : channel'[i].type # "exit"
  BY <1>1, <1>2 DEF ExitIsLast, Alive
<1> QED
  BY <1>5, <1>6, <1>7, <1>8, <1>9, <1>10, <1>11, <1>12 DEF OrderKept

\* One event that is neither an end nor an origin mark.
OneSaid(e) ==
  /\ \A i \in Position' : i \in Position \/ (i \notin Position /\ i = Past)
  /\ \A i \in Position : /\ i \in Position' /\ i \in Nat /\ i < Past /\ channel'[i] = channel[i]
                         /\ IsEnd(i)' = IsEnd(i) /\ IsEcho(i)' = IsEcho(i)
                         /\ IsOurs(i)' = IsOurs(i) /\ IsStart(i)' = IsStart(i)
  /\ Past \in Position' /\ Past < Past' /\ Past \in Nat /\ channel'[Past] = e
  /\ \A i \in Position' : IsEnd(i)' => i \in Position
  /\ OursEndFirst' /\ OriginMarksNext'
  /\ \A i \in Position' : IsEnd(i)' /\ IsOurs(i)' =>
       EntryOf(channel[i].of).echoed' \/ EchoIn(i, channel[i].of)'
  /\ \A i, k \in Position' : IsEnd(i)' /\ ~IsOurs(i)' /\ k < i /\ IsEcho(k)' =>
       EndsIn(k, i, channel[k].of)'
  /\ ExternalLeads =>
       \A j \in Position' : IsEnd(j)' /\ IsOurs(j)' => EndsIn(0, j, CliStarted)'
  /\ \A i, j \in Position' : IsEnd(i)' /\ ~IsOurs(i)' /\ j < i /\ IsEnd(j)' => StartsIn(j, i)'
  /\ turnStarts = <<>> => \A i \in Position' : IsEnd(i)' /\ ~IsOurs(i)' => StartsIn(0, i)'

\* OneSaid holds for an event of that kind.
LEMMA OneIsSaid ==
  ASSUME TypeOK, TypeOK', StreamInv, UNCHANGED fanoutVars, NEW e \in Event, Appends(<<e>>),
         e.type \notin {"result", "error", "origin"}
  PROVE  OneSaid(e)
<1>0. <<e>> \in Seq(Event)
  OBVIOUS
<1>1. AnswersKept /\ StartsKept /\ OrderKept
  BY <1>0, AnswersStay, StartsStay, OrderStays
<1>2. /\ Ours' = Ours /\ (\A n : EntryOf(n)' = EntryOf(n)) /\ ExternalLeads' = ExternalLeads
      /\ turnStarts' = turnStarts /\ pendingOrigin' = pendingOrigin
  BY CliKeepsFifo
<1>3. /\ \A i \in Position : /\ i \in Position' /\ i \in Nat /\ i < Past /\ i >= 1
                             /\ channel'[i] = channel[i]
                             /\ IsEnd(i)' = IsEnd(i) /\ IsEcho(i)' = IsEcho(i)
                             /\ IsOurs(i)' = IsOurs(i) /\ IsStart(i)' = IsStart(i)
      /\ Past \in Nat /\ Past = Len(channel) + 1
  BY <1>0, AppendFacts
<1>4. /\ \A i \in Position' : i \in Position \/ (i \notin Position /\ i = Past)
      /\ Past \in Position' /\ Past < Past' /\ channel'[Past] = e
  <2>1. /\ Len(channel) \in Nat /\ Len(<<e>>) = 1 /\ <<e>>[1] = e
        /\ Len(channel') = Len(channel) + 1
        /\ \A i \in Position' : i \notin Position => i - Len(channel) \in 1..1
        /\ \A k \in 1..1 : /\ Len(channel) + k \in Position'
                           /\ channel'[Len(channel) + k] = <<e>>[k]
    BY <1>0, AppendPositions
  <2>2. Past \in Position' /\ channel'[Past] = e
    BY <1>3, <2>1
  <2>3. \A i \in Position' : i \notin Position => i = Past
    BY <1>3, <2>1 DEF Position
  <2> QED
    BY <2>1, <2>2, <2>3 DEF Past
<1>5. \A i \in Position' : IsEnd(i)' => i \in Position
  BY <1>4 DEF IsEnd
<1>6. OursEndFirst'
  BY <1>1, <1>2, <1>5 DEF OursEndFirst, AnswersKept
<1>7. OriginMarksNext'
  <2>1. \A i \in Position' : channel'[i].type = "origin" => i \in Position
    BY <1>4
  <2>2. \A i \in Position' : channel'[i].type = "origin" => i + 1 \in Position' /\ IsEnd(i + 1)'
    BY <1>1, <2>1 DEF OrderKept
  <2>3. \A i \in Position' : IsEnd(i)' /\ ~IsOurs(i)' =>
          IF i = 1 THEN pendingOrigin' ELSE channel'[i - 1].type = "origin"
    BY <1>1, <1>2, <1>5 DEF OrderKept
  <2>4. pendingOrigin' => channel' # <<>> /\ IsEnd(1)'
    BY <1>1, <1>2 DEF OrderKept
  <2> QED
    BY <2>2, <2>3, <2>4 DEF OriginMarksNext
<1>8. ASSUME NEW i \in Position', IsEnd(i)', IsOurs(i)'
      PROVE  EntryOf(channel[i].of).echoed' \/ EchoIn(i, channel[i].of)'
  <2>1. PICK n : n = channel'[i].of
    OBVIOUS
  <2>2. EntryOf(n).echoed \/ EchoIn(i, channel[i].of)'
    BY <1>1, <1>5, <1>8, <2>1 DEF AnswersKept
  <2>3. EntryOf(n)'.echoed \/ EchoIn(i, channel[i].of)'
    BY <1>2, <2>2
  <2> QED
    BY <2>1, <2>3 DEF EntryOf
<1>9. \A i, k \in Position' : IsEnd(i)' /\ ~IsOurs(i)' /\ k < i /\ IsEcho(k)' =>
        EndsIn(k, i, channel[k].of)'
  <2>1. \A i, k \in Position' : IsEnd(i)' /\ k < i => i \in Position /\ k \in Position
    BY <1>3, <1>4, <1>5
  <2> QED
    BY <1>1, <2>1 DEF AnswersKept
<1>10. ExternalLeads =>
         \A j \in Position' : IsEnd(j)' /\ IsOurs(j)' => EndsIn(0, j, CliStarted)'
  BY <1>1, <1>5 DEF StartsKept
<1>11. \A i, j \in Position' : IsEnd(i)' /\ ~IsOurs(i)' /\ j < i /\ IsEnd(j)' => StartsIn(j, i)'
  BY <1>1, <1>5 DEF StartsKept
<1>12. turnStarts = <<>> => \A i \in Position' : IsEnd(i)' /\ ~IsOurs(i)' => StartsIn(0, i)'
  BY <1>1, <1>5 DEF StartsKept
<1> QED
  BY <1>3, <1>4, <1>5, <1>6, <1>7, <1>8, <1>9, <1>10, <1>11, <1>12 DEF OneSaid

\* The CLI reads a prompt and echoes it, from rest or within a turn of its own.
LEMMA TakeKeeps ==
  ASSUME TypeOK, TypeOK', TurnAccounting, StreamInv, CliTakePrompt \/ CliMergePrompt
  PROVE  StreamInv'
<1>1. PICK n, e : n = Head(stdin).turn /\ e = [type |-> "echo", of |-> n]
  OBVIOUS
<1>2. /\ cli.state \in {"idle", "external"} /\ stdin # <<>> /\ Head(stdin).kind = "prompt"
      /\ channel' = channel \o <<e>> /\ stdin' = Tail(stdin) /\ UNCHANGED fanoutVars
      /\ cli'.turn = n /\ cli'.state \in {"own", "merged"}
      /\ cli.state = "external" => cli'.state = "merged"
  BY <1>1 DEF CliTakePrompt, CliMergePrompt, Emit, TypeOK
<1>3. /\ Ours' = Ours /\ (\A m : EntryOf(m)' = EntryOf(m)) /\ ExternalLeads' = ExternalLeads
      /\ turnStarts' = turnStarts /\ ExternalAtFront'
  BY <1>2, CliKeepsFifo
<1>4. /\ SaidOfOurs /\ SaidInOrder /\ NoneForgotten /\ EchoedWhenSeen
  BY DEF StreamInv
<1>5. /\ n \in Waiting /\ (\A m \in Waiting : n <= m) /\ Waiting' \subseteq Waiting
      /\ (\A m \in Waiting : m = n \/ m \in Waiting') /\ (\A m \in Waiting' : n < m)
      /\ LinesInOrder'
  BY <1>1, <1>2, <1>4, ReadsPrompt DEF SaidInOrder
<1>6. n \in Ours /\ n \in Nat /\ n # CliStarted /\ Ours \subseteq Nat /\ turnStarts # <<>>
  <2>1. n \in Ours
    BY <1>4, <1>5 DEF SaidOfOurs
  <2> QED
    BY <2>1, Basics DEF CliStarted, Ours
<1>7. ~Answering /\ Answering' /\ Alive /\ Alive'
  BY <1>2 DEF Answering, Alive
<1>8. e \in Event /\ Appends(<<e>>) /\ <<e>> \in Seq(Event) /\ e.type = "echo" /\ e.of = n
  <2>1. e \in Event
    BY <1>1, <1>6 DEF Event
  <2> QED
    BY <1>1, <1>2, <2>1 DEF Appends
<1>9. AnswersKept /\ StartsKept /\ OrderKept
  BY <1>8, AnswersStay, StartsStay, OrderStays
<1>10. OneSaid(e)
  BY <1>2, <1>8, OneIsSaid
<1> USE DEF OneSaid
<1>11. \A i \in Position' : i \notin Position =>
         /\ channel'[i] = e /\ channel'[i].of = n
         /\ IsEcho(i)' /\ IsOurs(i)' /\ ~IsStart(i)' /\ channel'[i].type # "exit"
  BY <1>6, <1>8, <1>10 DEF IsEcho, IsOurs, IsStart
<1>12. \A m \in Ours : m < n => Answered(m)
  <2>1. \A m \in Ours : m < n => m \notin Waiting
    BY <1>5, <1>6
  <2> QED
    BY <1>4, <1>7, <2>1 DEF NoneForgotten
<1>13. SaidOfOurs'
  <2>1. \A i \in Position' : IsOurs(i)' => channel'[i].of \in Ours'
    BY <1>3, <1>6, <1>9, <1>11 DEF OrderKept
  <2>2. \A i \in Position' : IsEcho(i)' => IsOurs(i)'
    BY <1>9, <1>11 DEF OrderKept
  <2> QED
    BY <1>2, <1>3, <1>4, <1>5, <1>6, <2>1, <2>2 DEF SaidOfOurs
<1>14. SaidInOrder'
  <2>1. ASSUME NEW i \in Position, IsOurs(i)'
        PROVE  /\ channel'[i].of <= n /\ channel'[i].of < n
               /\ \A m \in Waiting' : channel'[i].of < m
    <3>1. channel[i].of < n /\ channel[i].of \in Nat /\ \A m \in Waiting : channel[i].of < m
      BY <1>4, <1>5, <1>6, <1>10, <2>1 DEF SaidInOrder, SaidOfOurs
    <3> QED
      BY <1>5, <1>6, <1>10, <3>1
  <2>2. ASSUME NEW i \in Position', IsOurs(i)'
        PROVE  /\ channel'[i].of <= n /\ (IsEnd(i)' => channel'[i].of < n)
               /\ \A m \in Waiting' : channel'[i].of < m
    BY <1>5, <1>6, <1>10, <1>11, <2>1, <2>2
  <2>3. ASSUME NEW i \in Position', NEW j \in Position', i < j, IsOurs(i)', IsOurs(j)'
        PROVE  /\ channel'[i].of <= channel'[j].of
               /\ IsEnd(i)' \/ IsEcho(j)' => channel'[i].of < channel'[j].of
    <3>1. i \in Position
      BY <1>10, <2>3
    <3>2. CASE j \in Position
      BY <1>9, <2>3, <3>1, <3>2 DEF OrderKept
    <3>3. CASE j \notin Position
      BY <1>11, <2>1, <2>3, <3>1, <3>3
    <3> QED
      BY <3>2, <3>3
  <2> QED
    BY <1>2, <1>5, <2>2, <2>3 DEF SaidInOrder
<1>15. NoneForgotten'
  <2>1. \A m \in Ours : Answered(m)' \/ (Answering' /\ cli'.turn = m) \/ m \in Waiting'
    BY <1>2, <1>4, <1>5, <1>7, <1>9 DEF NoneForgotten, AnswersKept
  <2>2. ASSUME NEW i \in Position', IsOurs(i)', NEW m \in Ours, m < channel'[i].of
        PROVE  Answered(m)'
    <3>1. CASE i \in Position
      BY <1>9, <2>2, <3>1 DEF OrderKept
    <3>2. CASE i \notin Position
      BY <1>9, <1>11, <1>12, <2>2, <3>2 DEF AnswersKept
    <3> QED
      BY <3>1, <3>2
  <2> QED
    BY <1>3, <2>1, <2>2 DEF NoneForgotten
<1>16. EchoedWhenSeen'
  <2>1. ASSUME NEW i \in Position', IsEcho(i)' PROVE ~EntryOf(channel[i].of).echoed'
    <3>1. PICK m : m = channel'[i].of
      OBVIOUS
    <3>2. ~EntryOf(m).echoed
      BY <1>4, <1>5, <1>9, <1>11, <2>1, <3>1 DEF EchoedWhenSeen, OrderKept
    <3>3. ~EntryOf(m)'.echoed
      BY <1>3, <3>2
    <3> QED
      BY <3>1, <3>3 DEF EntryOf
  <2>2. \A m \in Waiting' : ~EntryOf(m)'.echoed
    BY <1>3, <1>4, <1>5 DEF EchoedWhenSeen
  <2>3. EchoIn(Past, cli.turn)'
    BY <1>2, <1>8, <1>10 DEF EchoIn, IsEcho
  <2> QED
    BY <1>10, <2>1, <2>2, <2>3 DEF EchoedWhenSeen
<1>17. EchoThenEnd'
  <2>1. ASSUME NEW k \in Position', IsEcho(k)'
        PROVE  (EndsIn(k, Past, channel[k].of) \/ (Answering /\ cli.turn = channel[k].of) \/ ~Alive)'
    <3>1. CASE k \in Position
      BY <1>7, <1>9, <2>1, <3>1 DEF AnswersKept
    <3>2. CASE k \notin Position
      BY <1>2, <1>7, <1>11, <3>2
    <3> QED
      BY <3>1, <3>2
  <2> QED
    BY <1>10, <2>1 DEF EchoThenEnd
<1>18. ExternalEndsFirst'
  <2>1. ExternalLeads => EndsIn(0, Past, CliStarted)'
    BY <1>2, <1>7, <1>9 DEF StartsKept, InterruptFirst
  <2> QED
    BY <1>3, <1>10, <2>1 DEF ExternalEndsFirst
<1>19. StartThenEnd'
  <2>1. ASSUME NEW i \in Position', IsStart(i)'
        PROVE  (\E j \in Position' : i < j /\ IsEnd(j)') \/ cli'.state \in {"external", "merged"}
    <3>1. i \in Position
      BY <1>11, <2>1
    <3> QED
      BY <1>2, <1>7, <1>9, <2>1, <3>1 DEF StartsKept
  <2> QED
    BY <1>2, <1>10, <2>1 DEF StartThenEnd
<1>20. StartIsSeen'
  BY <1>3, <1>6 DEF StartIsSeen
<1>21. ExitIsLast'
  <2>1. \A i \in Position' : channel'[i].type # "exit"
    BY <1>7, <1>9, <1>11 DEF OrderKept
  <2> QED
    BY <1>7, <2>1 DEF ExitIsLast
<1> QED
  BY <1>3, <1>10, <1>13, <1>14, <1>15, <1>16, <1>17, <1>18, <1>19, <1>20, <1>21 DEF StreamInv

\* The CLI says something of the turn it is running, or starts one of its own.
LEMMA TalkKeeps ==
  ASSUME TypeOK, TypeOK', TurnAccounting, StreamInv, CliStartExternal \/ CliOutput
  PROVE  StreamInv'
<1>a. PICK type, of :
        /\ type \in {"peer", "content"} /\ Appends(<<[type |-> type, of |-> of]>>)
        /\ \/ of = CliStarted /\ cli'.state = "external"
           \/ of = cli.turn /\ Answering
  <2>1. CASE CliStartExternal
    <3>1. PICK type \in {"peer", "content"} :
            channel' = channel \o <<[type |-> type, of |-> CliStarted]>>
      BY <2>1 DEF CliStartExternal, Emit
    <3>2. cli'.state = "external"
      BY <2>1 DEF CliStartExternal, TypeOK
    <3>3. Appends(<<[type |-> type, of |-> CliStarted]>>)
      BY <3>1 DEF Appends
    <3> QED
      BY <3>2, <3>3
  <2>2. CASE CliOutput
    <3>1. PICK of : of = IF cli.state = "external" THEN CliStarted ELSE cli.turn
      OBVIOUS
    <3>2. Appends(<<[type |-> "content", of |-> of]>>)
      BY <2>2, <3>1 DEF CliOutput, Emit, Appends
    <3>3. cli.state = "external" => cli'.state = "external"
      BY <2>2 DEF CliOutput, TypeOK
    <3>4. cli.state # "external" => Answering
      BY <2>2 DEF CliOutput, Busy, Answering
    <3>5. \/ of = CliStarted /\ cli'.state = "external"
          \/ of = cli.turn /\ Answering
      BY <3>1, <3>3, <3>4
    <3> QED
      BY <3>2, <3>5
  <2> QED
    BY <2>1, <2>2
<1>1. PICK e : /\ e = [type |-> type, of |-> of] /\ Appends(<<e>>)
               /\ e.type \in {"peer", "content"}
               /\ \/ e.of = CliStarted /\ cli'.state = "external"
                  \/ e.of = cli.turn /\ Answering
  BY <1>a
<1>2. /\ UNCHANGED fanoutVars /\ stdin' = stdin /\ cli'.turn = cli.turn /\ Alive /\ Alive'
      /\ Answering' = Answering
      /\ cli.state \in {"external", "merged"} => cli'.state = cli.state
      /\ cli'.state = "external" => e.of = CliStarted
  <2>1. CASE CliStartExternal
    BY <1>1, <2>1 DEF CliStartExternal, Alive, Answering, TypeOK
  <2>2. CASE CliOutput
    BY <1>1, <2>2 DEF CliOutput, Alive, Answering, Busy, TypeOK
  <2> QED
    BY <2>1, <2>2
<1>3. /\ Ours' = Ours /\ (\A m : EntryOf(m)' = EntryOf(m)) /\ ExternalLeads' = ExternalLeads
      /\ turnStarts' = turnStarts /\ ExternalAtFront'
  BY <1>2, CliKeepsFifo
<1>4. /\ SaidOfOurs /\ SaidInOrder /\ NoneForgotten /\ EchoedWhenSeen
  BY DEF StreamInv
<1>5. Waiting' = Waiting /\ LinesInOrder' /\ InterruptFirst' = InterruptFirst
  BY <1>2, <1>4 DEF Waiting, Lines, LinesInOrder, InterruptFirst, SaidInOrder
<1>6. /\ Ours \subseteq Nat /\ CliStarted \notin Nat /\ CliStarted \in Int
      /\ (Answering => cli.turn \in Ours)
  BY <1>4, Basics DEF CliStarted, SaidOfOurs
<1>7. e \in Event /\ <<e>> \in Seq(Event)
  <2>1. cli.turn \in Int
    BY DEF TypeOK
  <2>2. CliStarted \in Int
    BY <1>6
  <2>3. e.of \in Int
    BY <1>1, <2>1, <2>2
  <2> QED
    BY <1>1, <2>3 DEF Event
<1>8. AnswersKept /\ StartsKept /\ OrderKept
  BY <1>1, <1>7, AnswersStay, StartsStay, OrderStays
<1>9. OneSaid(e)
  BY <1>1, <1>2, <1>7, OneIsSaid
<1> USE DEF OneSaid
<1>10. \A i \in Position' : i \notin Position =>
         /\ channel'[i] = e /\ i = Past
         /\ ~IsEcho(i)' /\ channel'[i].type # "exit"
         /\ IsOurs(i)' => channel'[i].of = cli.turn /\ Answering
         /\ IsStart(i)' => cli'.state = "external"
  BY <1>1, <1>2, <1>6, <1>9 DEF IsEcho, IsOurs, IsStart
<1>11. SaidOfOurs'
  <2>1. \A i \in Position' : IsOurs(i)' => channel'[i].of \in Ours'
    BY <1>3, <1>6, <1>8, <1>9, <1>10 DEF OrderKept
  <2>2. \A i \in Position' : IsEcho(i)' => IsOurs(i)'
    BY <1>8, <1>9, <1>10 DEF OrderKept
  <2> QED
    BY <1>2, <1>3, <1>4, <1>5, <2>1, <2>2 DEF SaidOfOurs
<1>12. SaidInOrder'
  <2>1. ASSUME NEW i \in Position, IsOurs(i)'
        PROVE  /\ Answering => channel'[i].of <= cli.turn
               /\ Answering /\ IsEnd(i)' => channel'[i].of < cli.turn
               /\ \A m \in Waiting : channel'[i].of < m
    BY <1>4, <1>9, <2>1 DEF SaidInOrder
  <2>2. ASSUME NEW i \in Position', IsOurs(i)', i \notin Position
        PROVE  /\ channel'[i].of = cli.turn /\ cli.turn \in Nat /\ ~IsEnd(i)' /\ ~IsEcho(i)'
               /\ Answering /\ \A m \in Waiting : cli.turn < m
    BY <1>4, <1>6, <1>9, <1>10, <2>2 DEF SaidInOrder
  <2>3. ASSUME NEW i \in Position', IsOurs(i)'
        PROVE  /\ Answering => channel'[i].of <= cli.turn
               /\ Answering /\ IsEnd(i)' => channel'[i].of < cli.turn
               /\ \A m \in Waiting : channel'[i].of < m
    BY <2>1, <2>2, <2>3
  <2>4. ASSUME NEW i \in Position', NEW j \in Position', i < j, IsOurs(i)', IsOurs(j)'
        PROVE  /\ channel'[i].of <= channel'[j].of
               /\ IsEnd(i)' \/ IsEcho(j)' => channel'[i].of < channel'[j].of
    <3>1. i \in Position
      BY <1>9, <2>4
    <3>2. CASE j \in Position
      BY <1>8, <2>4, <3>1, <3>2 DEF OrderKept
    <3>3. CASE j \notin Position
      BY <2>1, <2>2, <2>4, <3>1, <3>3
    <3> QED
      BY <3>2, <3>3
  <2> QED
    BY <1>2, <1>4, <1>5, <2>3, <2>4 DEF SaidInOrder
<1>13. NoneForgotten'
  <2>1. \A m \in Ours : Answered(m)' \/ (Answering' /\ cli'.turn = m) \/ m \in Waiting'
    BY <1>2, <1>4, <1>5, <1>8 DEF NoneForgotten, AnswersKept
  <2>2. ASSUME NEW i \in Position', IsOurs(i)', NEW m \in Ours, m < channel'[i].of
        PROVE  Answered(m)'
    <3>1. CASE i \in Position
      BY <1>8, <2>2, <3>1 DEF OrderKept
    <3>2. CASE i \notin Position
      <4>1. m < cli.turn /\ Answering /\ cli.turn \in Nat /\ m \in Nat
        BY <1>6, <1>10, <2>2, <3>2
      <4>2. m # cli.turn /\ m \notin Waiting
        BY <1>4, <4>1 DEF SaidInOrder
      <4> QED
        BY <1>2, <2>1, <1>5, <4>2
    <3> QED
      BY <3>1, <3>2
  <2> QED
    BY <1>3, <2>1, <2>2 DEF NoneForgotten
<1>14. EchoedWhenSeen'
  <2>1. ASSUME NEW i \in Position', IsEcho(i)' PROVE ~EntryOf(channel[i].of).echoed'
    <3>1. PICK m : m = channel'[i].of
      OBVIOUS
    <3>2. ~EntryOf(m).echoed
      BY <1>8, <1>10, <2>1, <3>1 DEF OrderKept
    <3>3. ~EntryOf(m)'.echoed
      BY <1>3, <3>2
    <3> QED
      BY <3>1, <3>3 DEF EntryOf
  <2>2. \A m \in Waiting' : ~EntryOf(m)'.echoed
    BY <1>3, <1>4, <1>5 DEF EchoedWhenSeen
  <2>3. Answering' => EntryOf(cli.turn).echoed' \/ EchoIn(Past, cli.turn)'
    <3>1. PICK m : m = cli.turn
      OBVIOUS
    <3>2. Answering => EntryOf(m)'.echoed \/ EchoIn(Past, m)'
      BY <1>3, <1>4, <1>8, <3>1 DEF EchoedWhenSeen, AnswersKept
    <3> QED
      BY <1>2, <3>1, <3>2 DEF EntryOf, EchoIn
  <2> QED
    BY <1>9, <2>1, <2>2, <2>3 DEF EchoedWhenSeen
<1>15. EchoThenEnd'
  <2>1. ASSUME NEW k \in Position', IsEcho(k)'
        PROVE  (EndsIn(k, Past, channel[k].of) \/ (Answering /\ cli.turn = channel[k].of) \/ ~Alive)'
    BY <1>2, <1>8, <1>10, <2>1 DEF AnswersKept
  <2> QED
    BY <1>9, <2>1 DEF EchoThenEnd
<1>16. ExternalEndsFirst'
  <2>1. ExternalLeads => EndsIn(0, Past, CliStarted)' \/ (cli'.state = "external" /\ InterruptFirst')
    BY <1>2, <1>5, <1>8 DEF StartsKept
  <2> QED
    BY <1>3, <1>9, <2>1 DEF ExternalEndsFirst
<1>17. \A lo : cli'.state = "external" /\ lo < Past => StartsIn(lo, Past)'
  <2>1. SUFFICES ASSUME NEW lo, cli'.state = "external", lo < Past PROVE StartsIn(lo, Past)'
    OBVIOUS
  <2>2. PICK i \in Position' : i = Past /\ lo < i /\ i < Past'
    BY <1>9, <2>1
  <2>3. IsStart(i)'
    BY <1>1, <1>2, <1>9, <2>1, <2>2 DEF IsStart, IsOurs
  <2> QED
    BY <2>2, <2>3 DEF StartsIn
<1>18. StartThenEnd'
  <2>1. ASSUME NEW i \in Position', IsStart(i)'
        PROVE  (\E j \in Position' : i < j /\ IsEnd(j)') \/ cli'.state \in {"external", "merged"}
    BY <1>2, <1>8, <1>10, <2>1 DEF StartsKept
  <2>2. cli'.state = "external" => \A j \in Position' : IsEnd(j)' => StartsIn(j, Past)'
    BY <1>9, <1>17
  <2> QED
    BY <1>9, <2>1, <2>2 DEF StartThenEnd
<1>19. StartIsSeen'
  <2>1. Past > 0
    BY Basics DEF Past
  <2> QED
    BY <1>3, <1>9, <1>17, <2>1 DEF StartIsSeen
<1>20. ExitIsLast'
  <2>1. \A i \in Position' : channel'[i].type # "exit"
    BY <1>2, <1>8, <1>10 DEF OrderKept
  <2> QED
    BY <1>2, <2>1 DEF ExitIsLast
<1> QED
  BY <1>3, <1>9, <1>11, <1>12, <1>13, <1>14, <1>15, <1>16, <1>18, <1>19, <1>20 DEF StreamInv

\* The CLI is gone: behind its exit nothing is said.
LEMMA LeaveKeeps ==
  ASSUME TypeOK, TypeOK', TurnAccounting, StreamInv, CliExit
  PROVE  StreamInv'
<1>1. PICK e : e = [type |-> "exit", of |-> CliStarted]
  OBVIOUS
<1>2. /\ UNCHANGED fanoutVars /\ stdin' = <<>> /\ cli'.state = "dead" /\ Appends(<<e>>)
      /\ cli.state # "dead"
  BY <1>1 DEF CliExit, Emit, Appends, Idle, TypeOK
<1>3. /\ Ours' = Ours /\ (\A m : EntryOf(m)' = EntryOf(m)) /\ ExternalLeads' = ExternalLeads
      /\ turnStarts' = turnStarts /\ ExternalAtFront'
  BY <1>2, CliKeepsFifo
<1>4. /\ Waiting' = {} /\ Lines' = {} /\ LinesInOrder' /\ ~Answering' /\ ~Alive'
  BY <1>2, EmptySeq DEF Waiting, Lines, LinesInOrder, Answering, Alive
<1>5. e \in Event /\ <<e>> \in Seq(Event) /\ e.type = "exit" /\ e.of = CliStarted
  <2>1. e \in Event
    BY <1>1 DEF Event, Boundary, CliStarted
  <2> QED
    BY <1>1, <2>1
<1>6. AnswersKept /\ StartsKept /\ OrderKept
  BY <1>2, <1>5, AnswersStay, StartsStay, OrderStays
<1>7. OneSaid(e)
  BY <1>2, <1>5, OneIsSaid
<1> USE DEF OneSaid
<1>8. \A i \in Position' : i \notin Position =>
        channel'[i] = e /\ i = Past /\ ~IsEcho(i)' /\ ~IsOurs(i)' /\ ~IsStart(i)'
  <2>1. \A i \in Position' : i \notin Position => channel'[i] = e /\ i = Past
    BY <1>7
  <2> QED
    BY <1>5, <2>1 DEF IsEcho, IsOurs, IsStart
<1>9. SaidOfOurs'
  BY <1>3, <1>4, <1>6, <1>7, <1>8 DEF SaidOfOurs, OrderKept
<1>10. SaidInOrder'
  BY <1>4, <1>6, <1>7, <1>8 DEF SaidInOrder, OrderKept
<1>11. NoneForgotten'
  BY <1>3, <1>4, <1>6, <1>7, <1>8 DEF NoneForgotten, OrderKept
<1>12. EchoedWhenSeen'
  <2>1. ASSUME NEW i \in Position', IsEcho(i)' PROVE ~EntryOf(channel[i].of).echoed'
    <3>1. PICK m : m = channel'[i].of
      OBVIOUS
    <3>2. ~EntryOf(m)'.echoed
      BY <1>3, <1>6, <1>8, <2>1, <3>1 DEF OrderKept
    <3> QED
      BY <3>1, <3>2 DEF EntryOf
  <2> QED
    BY <1>4, <1>7, <2>1 DEF EchoedWhenSeen
<1>13. EchoThenEnd' /\ ExternalEndsFirst' /\ StartThenEnd'
  BY <1>2, <1>3, <1>4, <1>7 DEF EchoThenEnd, ExternalEndsFirst, StartThenEnd
<1>14. StartIsSeen'
  BY <1>2, <1>3, <1>7 DEF StartIsSeen
<1>15. ExitIsLast'
  <2>1. \A i \in Position' : channel'[i].type = "exit" => i = Past
    BY <1>2, <1>7, <1>8 DEF ExitIsLast, StreamInv
  <2>2. Past = Len(channel')
    <3>1. Len(channel') = Len(channel) + Len(<<e>>) /\ Len(<<e>>) = 1
      BY <1>2, <1>5, AppendPositions
    <3> QED
      BY <3>1 DEF Past
  <2> QED
    BY <1>2, <2>1, <2>2 DEF ExitIsLast
<1> QED
  BY <1>3, <1>7, <1>9, <1>10, <1>11, <1>12, <1>13, <1>14, <1>15 DEF StreamInv

\* The end of a turn, after an origin mark when the CLI had started it or merged into it.
EndOf == IF cli.state = "external" THEN CliStarted ELSE cli.turn

EndSaid(E) ==
  /\ E \in Position' /\ E \notin Position /\ E \in Nat /\ Past <= E /\ E < Past'
  /\ channel'[E].type \in {"result", "error"} /\ channel'[E].of = EndOf
  /\ \A i \in Position' : i \notin Position /\ i # E =>
       i < E /\ i + 1 = E /\ channel'[i].type = "origin" /\ channel'[i].of = EndOf
  /\ cli.state # "own" => E # 1 /\ channel'[E - 1].type = "origin"

\* What the CLI emits at the end of a turn is such an end.
LEMMA EndIsSaid ==
  ASSUME TypeOK, Busy, NEW type \in {"result", "error"}, Emit(TurnEnd(type))
  PROVE  \E s \in Seq(Event) : Appends(s) /\ \E E \in Nat : EndSaid(E)
<1>1. PICK end, mark : end = [type |-> type, of |-> EndOf] /\ mark = [type |-> "origin", of |-> EndOf]
  OBVIOUS
<1>2. EndOf \in Int
  BY DEF TypeOK, CliStarted, EndOf
<1>3. /\ end \in Event /\ mark \in Event /\ end.type = type /\ end.of = EndOf
      /\ mark.type = "origin" /\ mark.of = EndOf
  BY <1>1, <1>2 DEF Event, Boundary
<1>4. Len(channel) \in Nat /\ Position = 1..Len(channel) /\ Past = Len(channel) + 1
  BY Basics DEF Position, Past
<1>5. CASE cli.state = "own"
  <2>1. Appends(<<end>>) /\ <<end>> \in Seq(Event)
    BY <1>1, <1>3, <1>5 DEF Emit, TurnEnd, Appends, EndOf
  <2>2. /\ Len(channel') = Len(channel) + 1
        /\ channel'[Len(channel) + 1] = end
    <3>1. Len(<<end>>) = 1 /\ <<end>>[1] = end /\ 1 \in 1..Len(<<end>>)
      OBVIOUS
    <3> QED
      BY <2>1, <3>1, AppendPositions
  <2>3. /\ Past \in Position' /\ Past \notin Position /\ Past \in Nat /\ Past < Past'
        /\ channel'[Past] = end
        /\ \A i \in Position' : i \notin Position => i = Past
    BY <1>4, <2>2 DEF Position, Past
  <2>4. PICK E : E = Past
    OBVIOUS
  <2>5. /\ E \in Position' /\ E \notin Position /\ E \in Nat /\ Past <= E /\ E < Past'
        /\ channel'[E].type = type /\ channel'[E].of = EndOf
    BY <1>3, <2>3, <2>4
  <2>6. \A i \in Position' : i \notin Position /\ i # E => FALSE
    BY <2>3, <2>4
  <2>7. EndSaid(E)
    BY <1>5, <2>5, <2>6 DEF EndSaid
  <2>8. E \in Nat
    BY <2>3, <2>4
  <2> QED
    BY <2>1, <2>7, <2>8
<1>6. CASE cli.state # "own"
  <2>1. PICK s : s = <<mark>> \o <<end>>
    OBVIOUS
  <2>2. s \in Seq(Event) /\ Len(s) = 2 /\ s[1] = mark /\ s[2] = end
    <3>1. /\ <<mark>> \in Seq(Event) /\ <<end>> \in Seq(Event)
          /\ Len(<<mark>>) = 1 /\ Len(<<end>>) = 1 /\ <<mark>>[1] = mark /\ <<end>>[1] = end
      BY <1>3
    <3>2. /\ s \in Seq(Event) /\ Len(s) = Len(<<mark>>) + Len(<<end>>)
          /\ \A i \in 1..(Len(<<mark>>) + Len(<<end>>)) :
               s[i] = IF i <= Len(<<mark>>) THEN <<mark>>[i] ELSE <<end>>[i - Len(<<mark>>)]
      BY <2>1, <3>1, ConcatProperties
    <3> QED
      BY <3>1, <3>2
  <2>3. Appends(s)
    BY <1>1, <1>6, <2>1 DEF Emit, TurnEnd, Appends, EndOf
  <2>4. /\ Len(channel') = Len(channel) + 2
        /\ channel'[Len(channel) + 1] = mark /\ channel'[Len(channel) + 2] = end
    <3>1. 1 \in 1..Len(s) /\ 2 \in 1..Len(s)
      BY <2>2
    <3> QED
      BY <2>2, <2>3, <3>1, AppendPositions
  <2>5. PICK E : E = Len(channel) + 2
    OBVIOUS
  <2>6. /\ E \in Position' /\ E \notin Position /\ E \in Nat /\ Past <= E /\ E < Past'
        /\ E - 1 = Len(channel) + 1 /\ E # 1
        /\ \A i \in Position' : i \notin Position /\ i # E =>
             i < E /\ i + 1 = E /\ i = Len(channel) + 1
    BY <1>4, <2>4, <2>5 DEF Position, Past
  <2>7. channel'[E] = end /\ channel'[E - 1] = mark
    BY <2>4, <2>5, <2>6
  <2>8. EndSaid(E)
    BY <1>3, <2>4, <2>6, <2>7 DEF EndSaid
  <2> QED
    BY <2>2, <2>3, <2>6, <2>8
<1> QED
  BY <1>5, <1>6

\* A turn of the CLI ends, and with it one that it merged into it.
LEMMA EndKeeps ==
  ASSUME TypeOK, TypeOK', TurnAccounting, StreamInv, UNCHANGED fanoutVars, Busy,
         NEW type \in {"result", "error"}, Emit(TurnEnd(type)), cli' = Idle(cli),
         Waiting' = Waiting, LinesInOrder'
  PROVE  StreamInv'
<1>1. PICK s \in Seq(Event) : Appends(s) /\ \E E \in Nat : EndSaid(E)
  BY EndIsSaid
<1>2. PICK E \in Nat : EndSaid(E)
  BY <1>1
<1>3. /\ Ours' = Ours /\ (\A m : EntryOf(m)' = EntryOf(m)) /\ ExternalLeads' = ExternalLeads
      /\ turnStarts' = turnStarts /\ pendingOrigin' = pendingOrigin /\ ExternalAtFront'
  BY CliKeepsFifo
<1>4. /\ SaidOfOurs /\ SaidInOrder /\ NoneForgotten /\ EchoedWhenSeen
  BY DEF StreamInv
<1>5. /\ cli'.state = "idle" /\ ~Answering' /\ Alive' /\ Alive
      /\ cli.state \in {"own", "external", "merged"}
  BY DEF Idle, TypeOK, Answering, Alive, Busy
<1>6. AnswersKept /\ StartsKept /\ OrderKept
  BY <1>1, AnswersStay, StartsStay, OrderStays
<1>7. /\ \A i \in Position : /\ i \in Position' /\ i \in Nat /\ i < Past /\ i >= 1
                             /\ channel'[i] = channel[i]
                             /\ IsEnd(i)' = IsEnd(i) /\ IsEcho(i)' = IsEcho(i)
                             /\ IsOurs(i)' = IsOurs(i) /\ IsStart(i)' = IsStart(i)
      /\ Past \in Nat
  BY <1>1, AppendFacts
<1>8. PICK t : t = EndOf
  OBVIOUS
<1>9. /\ E \in Position' /\ E \notin Position /\ Past <= E /\ E < Past' /\ IsEnd(E)'
      /\ channel'[E].of = t
      /\ cli.state # "own" => E # 1 /\ channel'[E - 1].type = "origin"
  BY <1>2, <1>8 DEF EndSaid, IsEnd
<1>10. \A i \in Position' : i \notin Position =>
         /\ channel'[i].of = t /\ (IsOurs(i)' <=> t # CliStarted)
         /\ channel'[i].type # "exit" /\ ~IsEcho(i)' /\ ~IsStart(i)'
         /\ IsEnd(i)' => i = E
  BY <1>2, <1>8 DEF EndSaid, IsEcho, IsStart, IsEnd, IsOurs
<1>11. \A i \in Position' : i \in Position \/ i = E \/
         (i < E /\ i + 1 = E /\ channel'[i].type = "origin" /\ i \notin Position)
  BY <1>2 DEF EndSaid
<1>12. Ours \subseteq Nat
  BY Basics
<1>14. /\ Answering => t = cli.turn /\ t \in Ours /\ t \in Nat /\ t # CliStarted
       /\ ~Answering => cli.state = "external" /\ t = CliStarted
       /\ Answering => cli.state # "external"
       /\ cli.state = "external" => t = CliStarted
  <2>1. Answering => t = cli.turn /\ t \in Ours
    BY <1>4, <1>5, <1>8 DEF Answering, EndOf, SaidOfOurs
  <2>2. \A n \in Nat : n # CliStarted
    BY DEF CliStarted
  <2>3. cli.state = "external" => t = CliStarted
    BY <1>8 DEF EndOf
  <2> QED
    BY <1>5, <1>12, <2>1, <2>2, <2>3 DEF Answering
<1>15. \A lo, n : /\ EndsIn(lo, Past, n) => EndsIn(lo, E, n)'
                  /\ EchoIn(Past, n) => EchoIn(E, n)'
  <2>1. \A lo, n : \A h, g \in Int : h <= g =>
          /\ EndsIn(lo, h, n) => EndsIn(lo, g, n)'
          /\ EchoIn(h, n) => EchoIn(g, n)'
    BY <1>1, AppendKeeps
  <2> QED
    BY <1>7, <1>9, <2>1
<1>16. \A lo \in Int : lo < E => EndsIn(lo, Past, t)'
  BY <1>9 DEF EndsIn
<1>17. SaidOfOurs'
  <2>1. \A i \in Position' : IsOurs(i)' => channel'[i].of \in Ours'
    BY <1>3, <1>6, <1>10, <1>14 DEF OrderKept
  <2>2. \A i \in Position' : IsEcho(i)' => IsOurs(i)'
    BY <1>6, <1>10 DEF OrderKept
  <2> QED
    BY <1>3, <1>4, <1>5, <2>1, <2>2 DEF SaidOfOurs
<1>18. SaidInOrder'
  <2>1. ASSUME NEW i \in Position', IsOurs(i)', NEW n \in Waiting
        PROVE  channel'[i].of < n
    <3>1. CASE i \in Position
      BY <1>4, <1>7, <2>1, <3>1 DEF SaidInOrder
    <3>2. CASE i \notin Position
      BY <1>4, <1>10, <1>14, <2>1, <3>2 DEF SaidInOrder
    <3> QED
      BY <3>1, <3>2
  <2>2. ASSUME NEW i \in Position', NEW j \in Position', i < j, IsOurs(i)', IsOurs(j)'
        PROVE  /\ channel'[i].of <= channel'[j].of
               /\ IsEnd(i)' \/ IsEcho(j)' => channel'[i].of < channel'[j].of
    <3>1. CASE j \in Position
      <4>1. i \in Position
        BY <1>7, <1>9, <1>11, <2>2, <3>1
      <4> QED
        BY <1>6, <2>2, <3>1, <4>1 DEF OrderKept
    <3>2. CASE j \notin Position /\ i \in Position
      BY <1>4, <1>7, <1>10, <1>14, <2>2, <3>2 DEF SaidInOrder
    <3>3. CASE j \notin Position /\ i \notin Position
      <4>1. i # E
        BY <1>11, <2>2, <3>3 DEF Position
      <4> QED
        BY <1>10, <1>14, <2>2, <3>3, <4>1
    <3> QED
      BY <3>1, <3>2, <3>3
  <2> QED
    BY <1>5, <2>1, <2>2 DEF SaidInOrder
<1>19. NoneForgotten'
  <2>1. \A m \in Ours : Answered(m)' \/ m \in Waiting'
    <3>1. Answered(t)'
      <4>1. 0 \in Int /\ 0 < E
        BY <1>7, <1>9 DEF Position
      <4> QED
        BY <1>16, <4>1 DEF Answered
    <3>2. \A m \in Ours : Answered(m) \/ (Answering /\ t = m) \/ m \in Waiting
      BY <1>4, <1>5, <1>14 DEF NoneForgotten
    <3>3. \A m \in Ours : Answered(m)' \/ m = t \/ m \in Waiting'
      BY <1>6, <3>2 DEF AnswersKept
    <3> QED
      BY <3>1, <3>3
  <2>2. ASSUME NEW i \in Position', IsOurs(i)', NEW m \in Ours, m < channel'[i].of
        PROVE  Answered(m)'
    <3>1. CASE i \in Position
      BY <1>6, <2>2, <3>1 DEF OrderKept
    <3>2. CASE i \notin Position
      <4>1. Answering /\ m < cli.turn /\ m \in Nat /\ cli.turn \in Nat
        BY <1>10, <1>12, <1>14, <2>2, <3>2
      <4>2. m \notin Waiting
        BY <1>4, <4>1 DEF SaidInOrder
      <4> QED
        BY <1>4, <1>5, <1>6, <2>2, <4>1, <4>2 DEF NoneForgotten, AnswersKept
    <3> QED
      BY <3>1, <3>2
  <2> QED
    BY <1>3, <2>1, <2>2 DEF NoneForgotten
<1>20. EchoedWhenSeen'
  <2>1. ASSUME NEW i \in Position', IsEcho(i)' PROVE ~EntryOf(channel[i].of).echoed'
    <3>1. PICK m : m = channel'[i].of
      OBVIOUS
    <3>2. ~EntryOf(m)'.echoed
      BY <1>3, <1>6, <1>10, <2>1, <3>1 DEF OrderKept
    <3> QED
      BY <3>1, <3>2 DEF EntryOf
  <2>2. \A m \in Waiting' : ~EntryOf(m)'.echoed
    BY <1>3, <1>4 DEF EchoedWhenSeen
  <2>3. ASSUME NEW i \in Position', IsEnd(i)', IsOurs(i)'
        PROVE  EntryOf(channel[i].of).echoed' \/ EchoIn(i, channel[i].of)'
    <3>1. PICK m : m = channel'[i].of
      OBVIOUS
    <3>2. EntryOf(m).echoed \/ EchoIn(i, m)'
      <4>1. CASE i \in Position
        <5>1. EntryOf(m).echoed \/ EchoIn(i, channel[i].of)'
          BY <1>6, <2>3, <3>1, <4>1 DEF AnswersKept
        <5> QED
          BY <3>1, <5>1 DEF EchoIn
      <4>2. CASE i \notin Position
        BY <1>4, <1>10, <1>14, <1>15, <2>3, <3>1, <4>2 DEF EchoedWhenSeen
      <4> QED
        BY <4>1, <4>2
    <3>3. EntryOf(m)'.echoed \/ EchoIn(i, m)'
      BY <1>3, <3>2
    <3> QED
      BY <3>1, <3>3 DEF EntryOf, EchoIn
  <2> QED
    BY <1>5, <2>1, <2>2, <2>3 DEF EchoedWhenSeen
<1>21. OursEndFirst'
  <2>1. ASSUME ~Answering, NEW n \in Ours, EntryOf(n).echoed PROVE EndsIn(0, E, n)'
    <3>1. Answered(n)
      BY <1>4, <1>5, <2>1 DEF NoneForgotten, EchoedWhenSeen
    <3> QED
      BY <1>15, <3>1 DEF Answered
  <2>2. ASSUME NEW i \in Position', IsEnd(i)', ~IsOurs(i)', NEW n \in Ours, EntryOf(n).echoed
        PROVE  EndsIn(0, i, n)'
    <3>1. CASE i \in Position
      BY <1>6, <2>2, <3>1 DEF AnswersKept
    <3>2. CASE i \notin Position
      BY <1>10, <1>14, <2>1, <2>2, <3>2
    <3> QED
      BY <3>1, <3>2
  <2> QED
    BY <1>3, <2>2 DEF OursEndFirst
<1>22. EchoThenEnd'
  <2>1. \A k \in Position' : IsEcho(k)' => k \in Position
    BY <1>10
  <2>2. ASSUME NEW i \in Position', IsEnd(i)', ~IsOurs(i)',
               NEW k \in Position', k < i, IsEcho(k)'
        PROVE  EndsIn(k, i, channel[k].of)'
    <3>1. k \in Position
      BY <2>1, <2>2
    <3>2. CASE i \in Position
      BY <1>6, <2>2, <3>1, <3>2 DEF AnswersKept
    <3>3. CASE i \notin Position
      <4>1. PICK m : m = channel[k].of
        OBVIOUS
      <4>2. EndsIn(k, Past, m)
        BY <1>5, <1>7, <1>10, <1>14, <2>2, <3>1, <3>3, <4>1 DEF EchoThenEnd, StreamInv
      <4>3. EndsIn(k, E, m)' /\ i = E /\ channel'[k].of = m
        BY <1>7, <1>10, <1>15, <2>2, <3>1, <3>3, <4>1, <4>2
      <4> QED
        BY <4>3 DEF EndsIn
    <3> QED
      BY <3>2, <3>3
  <2>3. ASSUME NEW k \in Position', IsEcho(k)' PROVE EndsIn(k, Past, channel[k].of)'
    <3>1. k \in Position /\ k \in Int /\ k < E
      BY <1>7, <1>9, <2>1, <2>3
    <3>2. EndsIn(k, Past, channel[k].of)' \/ (Answering /\ cli.turn = channel'[k].of)
      BY <1>5, <1>6, <2>3, <3>1 DEF AnswersKept
    <3>3. CASE Answering /\ cli.turn = channel'[k].of
      <4>1. channel'[k].of = t /\ EndsIn(k, Past, t)'
        BY <1>14, <1>16, <3>1, <3>3
      <4> QED
        BY <4>1 DEF EndsIn
    <3> QED
      BY <3>2, <3>3
  <2> QED
    BY <2>2, <2>3 DEF EchoThenEnd
<1>23. OriginMarksNext'
  <2>1. ASSUME NEW i \in Position', channel'[i].type = "origin"
        PROVE  i + 1 \in Position' /\ IsEnd(i + 1)'
    <3>1. CASE i \in Position
      BY <1>6, <2>1, <3>1 DEF OrderKept
    <3>2. CASE i \notin Position
      <4>1. i # E
        BY <1>9, <2>1 DEF IsEnd
      <4> QED
        BY <1>9, <1>11, <2>1, <3>2, <4>1
    <3> QED
      BY <3>1, <3>2
  <2>2. ASSUME NEW i \in Position', IsEnd(i)', ~IsOurs(i)'
        PROVE  IF i = 1 THEN pendingOrigin' ELSE channel'[i - 1].type = "origin"
    <3>1. CASE i \in Position
      BY <1>3, <1>6, <2>2, <3>1 DEF OrderKept
    <3>2. CASE i \notin Position
      <4>1. i = E /\ cli.state # "own"
        BY <1>10, <1>14, <2>2, <3>2 DEF Answering
      <4> QED
        BY <1>9, <4>1
    <3> QED
      BY <3>1, <3>2
  <2>3. pendingOrigin' => channel' # <<>> /\ IsEnd(1)'
    BY <1>3, <1>6 DEF OrderKept
  <2> QED
    BY <2>1, <2>2, <2>3 DEF OriginMarksNext
<1>24. ExternalEndsFirst'
  <2>1. ASSUME ExternalLeads, Answering PROVE EndsIn(0, E, CliStarted)' /\ EndsIn(0, Past, CliStarted)'
    <3>1. cli.state # "external"
      BY <1>14, <2>1
    <3> QED
      BY <1>5, <1>6, <1>9, <2>1, <3>1 DEF StartsKept
  <2>2. ASSUME ExternalLeads, NEW j \in Position', IsEnd(j)', IsOurs(j)'
        PROVE  EndsIn(0, j, CliStarted)'
    <3>1. CASE j \in Position
      BY <1>6, <2>2, <3>1 DEF StartsKept
    <3>2. CASE j \notin Position
      <4>1. j = E /\ Answering
        BY <1>10, <1>14, <2>2, <3>2
      <4> QED
        BY <2>1, <2>2, <4>1
    <3> QED
      BY <3>1, <3>2
  <2>3. ASSUME ExternalLeads PROVE EndsIn(0, Past, CliStarted)'
    <3>1. CASE ~Answering
      <4>1. 0 < E /\ t = CliStarted
        BY <1>7, <1>9, <1>14, <3>1 DEF Position
      <4> QED
        BY <1>16, <4>1
    <3> QED
      BY <2>1, <2>3, <3>1
  <2> QED
    BY <1>3, <2>2, <2>3 DEF ExternalEndsFirst
<1>25. StartThenEnd'
  <2>1. ASSUME NEW i \in Position', IsStart(i)' PROVE \E j \in Position' : i < j /\ IsEnd(j)'
    <3>1. i \in Position /\ i < E
      BY <1>7, <1>9, <1>10, <2>1
    <3> QED
      BY <1>9, <3>1
  <2>2. ASSUME NEW i \in Position', NEW j \in Position', IsEnd(i)', ~IsOurs(i)', j < i, IsEnd(j)'
        PROVE  StartsIn(j, i)'
    <3>1. j \in Position
      BY <1>7, <1>9, <1>10, <2>2
    <3>2. CASE i \in Position
      BY <1>6, <2>2, <3>1, <3>2 DEF StartsKept
    <3>3. CASE i \notin Position
      <4>1. i = E /\ cli.state = "external"
        BY <1>10, <1>14, <2>2, <3>3
      <4> QED
        BY <1>6, <1>9, <2>2, <3>1, <4>1 DEF StartsKept
    <3> QED
      BY <3>2, <3>3
  <2> QED
    BY <1>5, <2>1, <2>2 DEF StartThenEnd
<1>26. StartIsSeen'
  <2>1. ASSUME turnStarts = <<>>, NEW i \in Position', IsEnd(i)', ~IsOurs(i)'
        PROVE  StartsIn(0, i)'
    <3>1. CASE i \in Position
      BY <1>6, <2>1, <3>1 DEF StartsKept
    <3>2. CASE i \notin Position
      <4>1. i = E /\ cli.state = "external"
        BY <1>10, <1>14, <2>1, <3>2
      <4> QED
        BY <1>6, <1>9, <2>1, <4>1 DEF StartsKept
    <3> QED
      BY <3>1, <3>2
  <2> QED
    BY <1>3, <1>5, <2>1 DEF StartIsSeen
<1>27. ExitIsLast'
  <2>1. \A i \in Position' : channel'[i].type # "exit"
    BY <1>5, <1>6, <1>10 DEF OrderKept
  <2> QED
    BY <1>5, <2>1 DEF ExitIsLast
<1> QED
  BY <1>3, <1>17, <1>18, <1>19, <1>20, <1>21, <1>22, <1>23, <1>24, <1>25, <1>26, <1>27 DEF StreamInv

-----------------------------------------------------------------------------
(* The lines on the CLI's stdin *)

Drops(i) == stdin' = SubSeq(stdin, 1, i - 1) \o SubSeq(stdin, i + 1, Len(stdin))
Writes(s) == stdin' = stdin \o s

\* An interrupt that is read past the prompts leaves them as they were.
LEMMA TakesInterrupt ==
  ASSUME TypeOK, LinesInOrder, NEW i \in 1..Len(stdin), stdin[i].kind = "interrupt", Drops(i)
  PROVE  Waiting' = Waiting /\ LinesInOrder'
<1>1. stdin \in Seq(Line) /\ Len(stdin) \in Nat /\ i \in Nat /\ i >= 1 /\ i <= Len(stdin)
  BY LenProperties DEF TypeOK
<1>2. PICK a, b : a = SubSeq(stdin, 1, i - 1) /\ b = SubSeq(stdin, i + 1, Len(stdin))
  OBVIOUS
<1>3. /\ a \in Seq(Line) /\ Len(a) = i - 1 /\ \A k \in 1..(i - 1) : a[k] = stdin[k]
      /\ b \in Seq(Line) /\ Len(b) = Len(stdin) - i
      /\ \A k \in 1..(Len(stdin) - i) : b[k] = stdin[k + i]
  <2>1. \A k \in 1..(i - 1) : a[k] = stdin[k]
    BY <1>1, <1>2, Z3
  <2>2. \A k \in 1..(Len(stdin) - i) : b[k] = stdin[k + i]
    BY <1>1, <1>2, Z3
  <2>3. Len(a) = i - 1 /\ Len(b) = Len(stdin) - i
    BY <1>1, <1>2
  <2>4. a \in Seq(Line) /\ b \in Seq(Line)
    BY <1>1, <1>2, SubSeqProperties
  <2> QED
    BY <2>1, <2>2, <2>3, <2>4
<1>4. /\ Len(stdin') = Len(stdin) - 1
      /\ \A k \in 1..(Len(stdin) - 1) : stdin'[k] = IF k < i THEN stdin[k] ELSE stdin[k + 1]
  <2>1. stdin' = a \o b
    BY <1>2 DEF Drops
  <2>2. /\ Len(a \o b) = Len(a) + Len(b)
        /\ \A k \in 1..(Len(a) + Len(b)) : (a \o b)[k] = IF k <= Len(a) THEN a[k] ELSE b[k - Len(a)]
    BY <1>3, ConcatProperties
  <2>3. Len(stdin') = Len(stdin) - 1
    BY <1>1, <1>3, <2>1, <2>2
  <2>4. ASSUME NEW k \in 1..(Len(stdin) - 1), k < i PROVE stdin'[k] = stdin[k]
    <3>1. k \in 1..(i - 1) /\ k \in 1..(Len(a) + Len(b)) /\ k <= Len(a)
      BY <1>1, <1>3, <2>4
    <3> QED
      BY <1>3, <2>1, <2>2, <3>1
  <2>5. ASSUME NEW k \in 1..(Len(stdin) - 1), ~(k < i) PROVE stdin'[k] = stdin[k + 1]
    <3>1. /\ k - (i - 1) \in 1..(Len(stdin) - i) /\ (k - (i - 1)) + i = k + 1
          /\ k \in 1..(Len(a) + Len(b)) /\ ~(k <= Len(a)) /\ k - Len(a) = k - (i - 1)
      BY <1>1, <1>3, <2>5
    <3>2. stdin'[k] = b[k - (i - 1)]
      BY <2>1, <2>2, <3>1
    <3>3. b[k - (i - 1)] = stdin[(k - (i - 1)) + i]
      BY <1>3, <3>1
    <3> QED
      BY <3>1, <3>2, <3>3
  <2> QED
    BY <2>3, <2>4, <2>5
<1> DEFINE Old(k) == IF k < i THEN k ELSE k + 1
<1>5. \A k \in Lines : /\ k # i /\ k \in Nat
                       /\ k < i => k \in Lines' /\ stdin'[k] = stdin[k]
                       /\ k > i => k - 1 \in Lines' /\ stdin'[k - 1] = stdin[k]
  BY <1>1, <1>4 DEF Lines
<1>6. \A k \in Lines' : k \in Nat /\ Old(k) \in Lines /\ stdin[Old(k)] = stdin'[k]
  BY <1>1, <1>4 DEF Lines
<1>7. \A k, l \in Nat : k < l => Old(k) < Old(l)
  BY <1>1
<1> HIDE DEF Old
<1>8. Waiting' = Waiting
  <2>1. Waiting' \subseteq Waiting
    BY <1>6 DEF Waiting
  <2>2. ASSUME NEW k \in Lines PROVE \E l \in Lines' : stdin'[l].turn = stdin[k].turn
    <3>1. k < i \/ k > i
      BY <1>1, <1>5
    <3>2. CASE k < i
      BY <1>5, <3>2
    <3>3. CASE k > i
      BY <1>5, <3>3
    <3> QED
      BY <3>1, <3>2, <3>3
  <2> QED
    BY <2>1, <2>2 DEF Waiting
<1>9. LinesInOrder'
  BY <1>6, <1>7 DEF LinesInOrder
<1> QED
  BY <1>8, <1>9

\* Lines are written behind those that wait; at most the last of them is a prompt.
LEMMA WritesLines ==
  ASSUME TypeOK, LinesInOrder, NEW s \in Seq(Line), s # <<>>, Writes(s),
         NEW n \in Nat, \A m \in Waiting : m < n,
         \A k \in 1..Len(s) : s[k].kind = "prompt" => k = Len(s) /\ s[k].turn = n
  PROVE  /\ LinesInOrder'
         /\ s[Len(s)].kind = "prompt" => Waiting' = Waiting \cup {n}
         /\ s[Len(s)].kind # "prompt" => Waiting' = Waiting
         /\ s[1].kind = "interrupt" /\ InterruptFirst => InterruptFirst'
<1>1. /\ stdin \in Seq(Line) /\ Len(stdin) \in Nat /\ Len(s) \in Nat /\ Len(s) > 0
      /\ Len(stdin') = Len(stdin) + Len(s)
      /\ \A k \in 1..(Len(stdin) + Len(s)) :
           stdin'[k] = IF k <= Len(stdin) THEN stdin[k] ELSE s[k - Len(stdin)]
  <2>1. stdin \in Seq(Line)
    BY DEF TypeOK
  <2> QED
    BY <2>1, ConcatProperties, LenProperties, EmptySeq DEF Writes
<1>len. Len(stdin) \in Nat
  BY <1>1
<1>2. \A k \in Lines : k \in Nat /\ k <= Len(stdin) /\ k \in Lines' /\ stdin'[k] = stdin[k]
  BY <1>1 DEF Lines
<1>3. PICK p : p = Len(stdin) + Len(s)
  OBVIOUS
<1>4. \A k \in Lines' : /\ k \in Nat
                        /\ k <= Len(stdin) => k \in Lines /\ stdin'[k] = stdin[k]
                        /\ k > Len(stdin) => k = p /\ stdin'[k].turn = n /\ s[Len(s)].kind = "prompt"
  <2>1. ASSUME NEW k \in Lines', k > Len(stdin)
        PROVE  k = p /\ stdin'[k].turn = n /\ s[Len(s)].kind = "prompt"
    <3>1. k - Len(stdin) \in 1..Len(s) /\ stdin'[k] = s[k - Len(stdin)] /\ stdin'[k].kind = "prompt"
      BY <1>1, <2>1 DEF Lines
    <3> QED
      BY <1>1, <1>3, <2>1, <3>1 DEF Lines
  <2> QED
    BY <1>1, <2>1 DEF Lines
<1>5. s[Len(s)].kind = "prompt" => p \in Lines' /\ stdin'[p].turn = n
  <2>1. p \in 1..Len(stdin') /\ p - Len(stdin) = Len(s) /\ Len(s) \in 1..Len(s) /\ ~(p <= Len(stdin))
    BY <1>1, <1>3
  <2>2. stdin'[p] = s[Len(s)]
    BY <1>1, <1>3, <2>1
  <2> QED
    BY <2>1, <2>2 DEF Lines
<1>6. Waiting \subseteq Waiting' /\ Waiting' \subseteq Waiting \cup {n}
  <2>1. Waiting \subseteq Waiting'
    BY <1>2 DEF Waiting
  <2>2. ASSUME NEW k \in Lines' PROVE stdin'[k].turn \in Waiting \cup {n}
    <3>1. k <= Len(stdin) \/ k > Len(stdin)
      BY <1>len, <1>4, <2>2
    <3> QED
      BY <1>4, <2>2, <3>1 DEF Waiting
  <2> QED
    BY <2>1, <2>2 DEF Waiting
<1>7. s[Len(s)].kind = "prompt" => Waiting' = Waiting \cup {n}
  <2>1. s[Len(s)].kind = "prompt" => n \in Waiting'
    BY <1>5 DEF Waiting
  <2> QED
    BY <1>6, <2>1
<1>8. s[Len(s)].kind # "prompt" => Waiting' = Waiting
  <2>1. s[Len(s)].kind # "prompt" => \A m \in Waiting' : m \in Waiting
    BY <1>1, <1>4 DEF Waiting
  <2> QED
    BY <1>6, <2>1
<1>9. LinesInOrder'
  <2>1. SUFFICES ASSUME NEW k \in Lines', NEW l \in Lines', k < l
                 PROVE  stdin'[k].turn < stdin'[l].turn
    BY DEF LinesInOrder
  <2>2. k \in Lines /\ stdin'[k] = stdin[k]
    <3>1. k > Len(stdin) => k = l
      BY <1>len, <1>4, <2>1
    <3> QED
      BY <1>len, <1>4, <2>1, <3>1
  <2>3. stdin[k].turn \in Waiting
    BY <2>2 DEF Waiting
  <2> QED
    BY <1>1, <1>4, <2>1, <2>2, <2>3 DEF LinesInOrder
<1>10. s[1].kind = "interrupt" /\ InterruptFirst => InterruptFirst'
  <2>1. CASE stdin = <<>>
    <3>1. Len(stdin) = 0 /\ stdin'[1] = s[1]
      BY <1>1, <2>1
    <3> QED
      BY <1>1, <3>1, Z3 DEF InterruptFirst
  <2>2. CASE stdin # <<>>
    <3>1. Len(stdin) > 0 /\ stdin'[1] = stdin[1]
      BY <1>1, <2>2, EmptySeq
    <3> QED
      BY <1>1, <2>2, <3>1, Z3 DEF InterruptFirst
  <2> QED
    BY <2>1, <2>2
<1> QED
  BY <1>7, <1>8, <1>9, <1>10

-----------------------------------------------------------------------------
(* Steps of the fan-out's other arms *)

\* An untouched FIFO,
LEMMA FifoUnchanged ==
  ASSUME UNCHANGED <<turnSeq, boundaryCount, turnStarts>>, ExternalAtFront
  PROVE  FifoKept
BY DEF FifoKept, Ours, EntryOf, ExternalLeads, ExternalAtFront, Entries

\* and an untouched stdin.
LEMMA StdinUnchanged ==
  ASSUME UNCHANGED stdin
  PROVE  Waiting' = Waiting /\ LinesInOrder' = LinesInOrder /\ InterruptFirst' = InterruptFirst
BY DEF Waiting, Lines, LinesInOrder, InterruptFirst

\* What the stream depends on.
streamVars == <<turnSeq, boundaryCount, turnStarts, pendingOrigin, stdin, channel, cli>>

\* A step that touches nothing of the stream.
LEMMA NothingKeeps ==
  ASSUME TypeOK, StreamInv, UNCHANGED streamVars
  PROVE  StreamInv'
<1>1. FifoKept
  BY FifoUnchanged DEF streamVars, StreamInv
<1>2. Waiting' = Waiting /\ LinesInOrder' /\ InterruptFirst' = InterruptFirst
  BY StdinUnchanged DEF streamVars, StreamInv, SaidInOrder
<1>3. ~Alive => stdin' = <<>>
  BY DEF streamVars, StreamInv, ExitIsLast
<1>4. UNCHANGED <<channel, cli, pendingOrigin>>
  BY DEF streamVars
<1> QED
  BY <1>1, <1>2, <1>3, <1>4, QuietKeeps

\* An interrupt the CLI reads ends the turn it runs, if any.
LEMMA InterruptKeeps ==
  ASSUME TypeOK, TypeOK', TurnAccounting, StreamInv, CliInterrupt
  PROVE  StreamInv'
<1>1. UNCHANGED fanoutVars /\ Alive
  BY DEF CliInterrupt
<1>2. PICK i \in 1..Len(stdin) : stdin[i].kind = "interrupt" /\ Drops(i)
  BY DEF CliInterrupt, Drops
<1>3. Waiting' = Waiting /\ LinesInOrder'
  BY <1>2, TakesInterrupt DEF StreamInv, SaidInOrder
<1>4. CASE Busy
  <2>1. PICK type \in {"result", "error"} : Emit(TurnEnd(type))
    BY <1>4 DEF CliInterrupt
  <2>2. cli' = Idle(cli)
    BY <1>4 DEF CliInterrupt
  <2> QED
    BY <1>1, <1>3, <1>4, <2>1, <2>2, EndKeeps
<1>5. CASE ~Busy
  <2>1. UNCHANGED <<channel, cli>> /\ cli.state # "external"
    BY <1>5 DEF CliInterrupt, Busy
  <2>2. UNCHANGED <<turnSeq, boundaryCount, turnStarts, pendingOrigin>>
    BY <1>1 DEF fanoutVars
  <2>3. FifoKept
    BY <2>2, FifoUnchanged DEF StreamInv
  <2> QED
    BY <1>1, <1>3, <2>1, <2>2, <2>3, QuietKeeps
<1> QED
  BY <1>4, <1>5

\* Every step of the CLI.
LEMMA CliKeepsStream ==
  ASSUME TypeOK, TypeOK', TurnAccounting, StreamInv, Cli
  PROVE  StreamInv'
<1>1. CASE CliFinish
  <2>1. PICK type \in {"result", "error"} : Emit(TurnEnd(type))
    BY <1>1 DEF CliFinish
  <2>2. UNCHANGED fanoutVars /\ Busy /\ cli' = Idle(cli) /\ stdin' = stdin
    BY <1>1 DEF CliFinish
  <2>3. Waiting' = Waiting /\ LinesInOrder'
    BY <2>2, StdinUnchanged DEF StreamInv, SaidInOrder
  <2> QED
    BY <2>1, <2>2, <2>3, EndKeeps
<1> QED
  BY <1>1, TakeKeeps, TalkKeeps, InterruptKeeps, LeaveKeeps DEF Cli

\* set_live_intent touches no flag the stream depends on.
LEMMA IntentKeepsFlags ==
  ASSUME TypeOK, NEW intent \in Intent
  PROVE  /\ Len(SetLiveIntent(turnStarts, intent)) = Len(turnStarts)
         /\ \A i \in Entries :
              /\ SetLiveIntent(turnStarts, intent)[i].external = turnStarts[i].external
              /\ SetLiveIntent(turnStarts, intent)[i].echoed = turnStarts[i].echoed
<1>1. turnStarts \in Seq(Entry) /\ Len(turnStarts) \in Nat
  BY LenProperties DEF TypeOK
<1>2. Len(SetLiveIntent(turnStarts, intent)) = Len(turnStarts)
  BY <1>1, SetLiveIntentKeeps
<1>3. ASSUME NEW i \in Entries
      PROVE  /\ SetLiveIntent(turnStarts, intent)[i].external = turnStarts[i].external
             /\ SetLiveIntent(turnStarts, intent)[i].echoed = turnStarts[i].echoed
  <2>1. turnStarts[i] \in [external : BOOLEAN, echoed : BOOLEAN, intent : Intent]
    BY <1>1, <1>3, ElementOfSeq DEF Entries, Entry
  <2>2. SetLiveIntent(turnStarts, intent)[i] =
          IF i = Len(turnStarts) THEN [turnStarts[i] EXCEPT !.intent = intent] ELSE turnStarts[i]
    BY <1>3 DEF SetLiveIntent, Entries
  <2> QED
    BY <2>1, <2>2
<1> QED
  BY <1>2, <1>3

\* An abort stamped on the live turn, with or without an interrupt for the CLI.
LEMMA StampKeeps ==
  ASSUME TypeOK, TypeOK', TurnAccounting, StreamInv, NEW intent \in Intent,
         UNCHANGED <<turnSeq, boundaryCount>>,
         turnStarts' = SetLiveIntent(turnStarts, intent)
  PROVE  FifoKept
BY IntentKeepsFlags, SameFlags DEF StreamInv

\* Every prompt that waits was numbered before the next one.
LEMMA WaitingIsOld ==
  ASSUME TypeOK, TurnAccounting, StreamInv
  PROVE  turnSeq + 1 \in Nat /\ \A m \in Waiting : m < turnSeq + 1
<1>1. turnSeq \in Nat /\ Waiting \subseteq Ours /\ Ours \subseteq Nat
  BY Basics DEF StreamInv, SaidOfOurs
<1>2. \A m \in Ours : m <= turnSeq
  BY DEF Ours
<1> QED
  BY <1>1, <1>2

\* The interrupt button: an intent on the live turn, a line for the CLI.
LEMMA HandleInterruptKeeps ==
  ASSUME TypeOK, TypeOK', TurnAccounting, StreamInv, HandleInterrupt
  PROVE  StreamInv'
<1>1. UNCHANGED <<turnSeq, boundaryCount, pendingOrigin, channel, cli>>
  BY DEF HandleInterrupt, FromClient, Receiving
<1>2. CASE localRunning
  <2>1. turnStarts' = SetLiveIntent(turnStarts, "cancelled") /\ Write(<<InterruptLine>>)
    BY <1>2 DEF HandleInterrupt
  <2>2. FifoKept
    BY <1>1, <2>1, StampKeeps DEF Intent
  <2>3. /\ Waiting' = Waiting /\ LinesInOrder' /\ (InterruptFirst => InterruptFirst')
        /\ ~Alive => stdin' = <<>>
    <3>1. CASE Alive
      <4>1. PICK s : s = <<InterruptLine>>
        OBVIOUS
      <4>2. s \in Seq(Line) /\ Len(s) = 1 /\ s # <<>> /\ s[1].kind = "interrupt"
        BY <4>1, LineTypes, 0 \in Nat DEF InterruptLine
      <4>3. Writes(s)
        BY <2>1, <3>1, <4>1 DEF Write, Writes
      <4>4. \A k \in 1..Len(s) : s[k].kind # "prompt"
        BY <4>2
      <4> QED
        BY <3>1, <4>2, <4>3, <4>4, WaitingIsOld, WritesLines DEF StreamInv, SaidInOrder
    <3>2. CASE ~Alive
      <4>1. stdin' = stdin /\ stdin = <<>>
        BY <2>1, <3>2 DEF Write, StreamInv, ExitIsLast
      <4> QED
        BY <4>1, StdinUnchanged DEF StreamInv, SaidInOrder
    <3> QED
      BY <3>1, <3>2
  <2> QED
    BY <1>1, <2>2, <2>3, QuietKeeps
<1>3. CASE ~localRunning
  <2>1. UNCHANGED streamVars
    BY <1>1, <1>3 DEF HandleInterrupt, streamVars
  <2> QED
    BY <2>1, NothingKeeps
<1> QED
  BY <1>2, <1>3

\* The kill, asked for by a user or the watchdog, or by the end of the fan-out.
LEMMA KillStepKeeps ==
  ASSUME TypeOK, TypeOK', TurnAccounting, StreamInv,
         HandleCancel \/ HandleTimeoutKill \/ FanoutEnds
  PROVE  StreamInv'
<1>1. Kill /\ UNCHANGED <<channel, pendingOrigin, turnSeq, boundaryCount>>
  BY DEF HandleCancel, HandleTimeoutKill, FanoutEnds, AbortAndKill, FromClient, Receiving
<1>2. FifoKept
  <2>1. CASE HandleCancel
    BY <1>1, <2>1, StampKeeps DEF HandleCancel, AbortAndKill, Intent
  <2>2. CASE HandleTimeoutKill
    BY <1>1, <2>2, StampKeeps DEF HandleTimeoutKill, AbortAndKill, Intent
  <2>3. CASE FanoutEnds
    BY <1>1, <2>3, FifoUnchanged DEF FanoutEnds, StreamInv
  <2> QED
    BY <2>1, <2>2, <2>3
<1>3. CASE Alive
  BY <1>1, <1>2, <1>3, KillKeeps
<1>4. CASE ~Alive
  <2>1. cli' = cli /\ stdin' = stdin /\ stdin = <<>>
    BY <1>1, <1>4 DEF Kill, StreamInv, ExitIsLast
  <2> QED
    BY <1>1, <1>2, <2>1, QuietKeeps, StdinUnchanged DEF StreamInv, SaidInOrder
<1> QED
  BY <1>3, <1>4

\* A FIFO with one more entry at its back.
LEMMA EntryAppended ==
  ASSUME NEW q \in Seq(Entry)
  PROVE  /\ Len(Append(q, NewEntry(FALSE))) = Len(q) + 1
         /\ \A i \in 1..Len(q) : Append(q, NewEntry(FALSE))[i] = q[i]
         /\ Append(q, NewEntry(FALSE))[Len(q) + 1] = NewEntry(FALSE)
BY NewEntryType, AppendProperties

\* A turn of ours starts: behind an interrupt when another runs, else at once.
LEMMA StartTurnKeeps ==
  ASSUME TypeOK, TypeOK', TurnAccounting, StreamInv,
         UNCHANGED <<channel, cli, pendingOrigin, boundaryCount>>, turnSeq' = turnSeq + 1,
         NEW q, q = turnStarts \/ q = SetLiveIntent(turnStarts, "cancelled"),
         turnStarts' = Append(q, NewEntry(FALSE)),
         NEW s, Write(s),
         s = <<InterruptLine, Prompt(turnSeq + 1)>>
           \/ (s = <<Prompt(turnSeq + 1)>> /\ turnStarts = <<>>)
  PROVE  StreamInv'
<1>1. turnSeq + 1 \in Nat /\ \A m \in Waiting : m < turnSeq + 1
  BY WaitingIsOld
<1>2. turnStarts \in Seq(Entry) /\ Len(turnStarts) \in Nat
  BY LenProperties DEF TypeOK
<1>3. /\ q \in Seq(Entry) /\ Len(q) = Len(turnStarts)
      /\ \A i \in Entries : /\ q[i].external = turnStarts[i].external
                            /\ q[i].echoed = turnStarts[i].echoed
  BY <1>2, SetLiveIntentKeeps, IntentKeepsFlags DEF Intent
<1>4. /\ Len(turnStarts') = Len(turnStarts) + 1
      /\ turnStarts'[Len(turnStarts) + 1] = NewEntry(FALSE)
      /\ \A i \in Entries : turnStarts'[i] = q[i]
  <2>1. /\ Len(Append(q, NewEntry(FALSE))) = Len(q) + 1
        /\ \A i \in 1..Len(q) : Append(q, NewEntry(FALSE))[i] = q[i]
        /\ Append(q, NewEntry(FALSE))[Len(q) + 1] = NewEntry(FALSE)
    BY <1>3, EntryAppended
  <2> QED
    BY <1>3, <2>1 DEF Entries
<1>5. \A i \in Entries : /\ turnStarts'[i].external = turnStarts[i].external
                         /\ turnStarts'[i].echoed = turnStarts[i].echoed
  BY <1>3, <1>4
<1>6. CASE Alive
  <2>1. /\ s \in Seq(Line) /\ s # <<>> /\ s[Len(s)].kind = "prompt"
        /\ \A k \in 1..Len(s) : s[k].kind = "prompt" => k = Len(s) /\ s[k].turn = turnSeq + 1
        /\ turnStarts # <<>> => s[1].kind = "interrupt"
    <3>1. CASE s = <<InterruptLine, Prompt(turnSeq + 1)>>
      <4>1. s \in Seq(Line) /\ Len(s) = 2 /\ s[1] = InterruptLine /\ s[2] = Prompt(turnSeq + 1)
        BY <1>1, <3>1, LineTypes
      <4> QED
        BY <4>1 DEF InterruptLine, Prompt
    <3>2. CASE s = <<Prompt(turnSeq + 1)>> /\ turnStarts = <<>>
      <4>1. s \in Seq(Line) /\ Len(s) = 1 /\ s[1] = Prompt(turnSeq + 1)
        BY <1>1, <3>2, LineTypes
      <4> QED
        BY <3>2, <4>1 DEF Prompt
    <3> QED
      BY <3>1, <3>2
  <2>2. Writes(s)
    BY <1>6 DEF Write, Writes
  <2>3. /\ LinesInOrder' /\ Waiting' = Waiting \cup {turnSeq + 1}
        /\ s[1].kind = "interrupt" /\ InterruptFirst => InterruptFirst'
    BY <1>1, <2>1, <2>2, WritesLines DEF StreamInv, SaidInOrder
  <2>4. Starts
    BY <1>4, <1>5, <1>6, <2>1, <2>3 DEF Starts, ExternalLeads
  <2> QED
    BY <2>4, StartKeeps
<1>7. CASE ~Alive
  <2>1. stdin' = stdin
    BY <1>7 DEF Write
  <2>2. Waiting' = Waiting /\ LinesInOrder' /\ InterruptFirst' = InterruptFirst
    BY <2>1, StdinUnchanged DEF StreamInv, SaidInOrder
  <2>3. Starts
    BY <1>4, <1>5, <1>7, <2>1, <2>2 DEF Starts
  <2> QED
    BY <2>3, StartKeeps
<1> QED
  BY <1>6, <1>7

\* A prompt that supersedes the running turn, or finds none.
LEMMA SupersedingKeeps ==
  ASSUME TypeOK, TypeOK', TurnAccounting, StreamInv, Receiving, UNCHANGED cli, StartSuperseding
  PROVE  StreamInv'
<1>1. UNCHANGED <<channel, cli, pendingOrigin, boundaryCount>>
  BY DEF Receiving
<1>2. CASE localRunning
  <2>1. /\ turnSeq' = turnSeq + 1 /\ Write(<<InterruptLine, Prompt(turnSeq + 1)>>)
        /\ turnStarts' = Append(SetLiveIntent(turnStarts, "cancelled"), NewEntry(FALSE))
    BY <1>2 DEF StartSuperseding, StartTurn
  <2> QED
    BY <1>1, <2>1, StartTurnKeeps
<1>3. CASE ~localRunning
  <2>1. /\ turnSeq' = turnSeq + 1 /\ Write(<<Prompt(turnSeq + 1)>>)
        /\ turnStarts' = Append(turnStarts, NewEntry(FALSE)) /\ turnStarts = <<>>
    BY <1>3 DEF StartSuperseding, StartTurn, TurnAccounting
  <2> QED
    BY <1>1, <2>1, StartTurnKeeps
<1> QED
  BY <1>2, <1>3

\* A prompt that starts a turn at once.
LEMMA IdleStartKeeps ==
  ASSUME TypeOK, TypeOK', TurnAccounting, StreamInv, Receiving, UNCHANGED cli, ~localRunning,
         StartTurn(turnStarts), Write(<<Prompt(turnSeq + 1)>>)
  PROVE  StreamInv'
<1>1. UNCHANGED <<channel, cli, pendingOrigin, boundaryCount>>
  BY DEF Receiving
<1>2. /\ turnSeq' = turnSeq + 1 /\ turnStarts = <<>>
      /\ turnStarts' = Append(turnStarts, NewEntry(FALSE))
  BY DEF StartTurn, TurnAccounting
<1> QED
  BY <1>1, <1>2, StartTurnKeeps

\* Nothing is on its way when the session starts.
LEMMA StreamInit ==
  ASSUME Init
  PROVE  StreamInv
<1>1. /\ channel = <<>> /\ stdin = <<>> /\ turnStarts = <<>> /\ ~pendingOrigin
      /\ turnSeq = 0 /\ boundaryCount = 0 /\ cli.state = "idle"
  BY DEF Init
<1>2. /\ Position = {} /\ Entries = {} /\ Lines = {} /\ Waiting = {} /\ Ours = {}
      /\ ~Answering /\ ~ExternalLeads
  BY <1>1, EmptySeq DEF Position, Entries, Lines, Waiting, Ours, Answering, ExternalLeads
<1>3. /\ ExternalAtFront /\ SaidOfOurs /\ SaidInOrder /\ NoneForgotten /\ EchoedWhenSeen
  BY <1>2 DEF ExternalAtFront, SaidOfOurs, SaidInOrder, LinesInOrder, NoneForgotten, EchoedWhenSeen
<1>4. /\ OursEndFirst /\ EchoThenEnd /\ OriginMarksNext /\ ExternalEndsFirst
  BY <1>1, <1>2 DEF OursEndFirst, EchoThenEnd, OriginMarksNext, ExternalEndsFirst
<1>5. StartThenEnd /\ StartIsSeen /\ ExitIsLast
  BY <1>1, <1>2 DEF StartThenEnd, StartIsSeen, ExitIsLast
<1> QED
  BY <1>3, <1>4, <1>5 DEF StreamInv

\* No step of the fan-out, of its clients, of the manager or of the CLI breaks the stream.
LEMMA StreamStep ==
  ASSUME IInv, StreamInv, [Next]_vars
  PROVE  StreamInv'
<1>1. TypeOK /\ TypeOK' /\ TurnAccounting /\ TurnAccounting' /\ QueueDiscipline
  BY IInvStep DEF IInv, TurnInv
<1>2. CASE UNCHANGED streamVars
  BY <1>1, <1>2, NothingKeeps
<1>3. CASE HandleEvent
  BY <1>1, <1>3, EventKeeps
<1>4. CASE Cli
  BY <1>1, <1>4, CliKeepsStream
<1>5. CASE HandleRunPrompt \/ HandlePromptInterrupting
  BY <1>1, <1>5, SupersedingKeeps DEF HandleRunPrompt, HandlePromptInterrupting, FromClient
<1>6. CASE HandlePromptIdle
  BY <1>1, <1>6, IdleStartKeeps DEF HandlePromptIdle, FromClient
<1>7. CASE FlushQueue
  <2>1. CASE pending > 0
    BY <1>1, <1>7, <2>1, IdleStartKeeps DEF FlushQueue, QueueDiscipline
  <2>2. CASE ~(pending > 0)
    <3>1. UNCHANGED streamVars
      BY <1>7, <2>2 DEF FlushQueue, Receiving, streamVars
    <3> QED
      BY <1>2, <3>1
  <2> QED
    BY <2>1, <2>2
<1>8. CASE HandleInterrupt
  BY <1>1, <1>8, HandleInterruptKeeps
<1>9. CASE HandleCancel \/ HandleTimeoutKill \/ FanoutEnds
  BY <1>1, <1>9, KillStepKeeps
<1>10. CASE HandlePromptQueued \/ HandleSetQueueMode
  <2>1. UNCHANGED streamVars
    BY <1>10 DEF HandlePromptQueued, HandleSetQueueMode, FromClient, Receiving, streamVars
  <2> QED
    BY <1>2, <2>1
<1>11. CASE SendRunPrompt \/ WatchdogFires \/ RemoveSession \/ ClientLeaves \/ UNCHANGED vars
  <2>1. UNCHANGED streamVars
    BY <1>11 DEF SendRunPrompt, WatchdogFires, RemoveSession, ClientLeaves, vars, fanoutVars,
       managerVars, cliVars, streamVars
  <2> QED
    BY <1>2, <2>1
<1> QED
  BY <1>3, <1>4, <1>5, <1>6, <1>7, <1>8, <1>9, <1>10, <1>11 DEF Next, HandleInput

\* What is on its way from the CLI is in step with the FIFO of turns in every reachable
\* state, whatever the order of prompts, interrupts, turns of the CLI's own and merges.
THEOREM StreamInvariance == Spec => [](IInv /\ StreamInv)
<1>1. Init => IInv /\ StreamInv
  BY IInvInit, StreamInit
<1>2. IInv /\ StreamInv /\ [Next]_vars => (IInv /\ StreamInv)'
  BY IInvStep, StreamStep
<1> QED
  BY <1>1, <1>2, PTL DEF Spec

-----------------------------------------------------------------------------
(* What follows *)

\* A result at the head of the channel: whose it is and whether it is skipped.
LEMMA HeadSettles ==
  ASSUME TypeOK, TurnAccounting, StreamInv, 1 \in Position, IsEnd(1)
  PROVE  /\ turnStarts # <<>>
         /\ channel[1].of = CliStarted => turnStarts[1].external \/ Skipped
         /\ channel[1].of # CliStarted => ~Skipped /\ boundaryCount + 1 = channel[1].of
<1>1. /\ turnSeq \in Nat /\ boundaryCount \in Nat /\ Len(turnStarts) = turnSeq - boundaryCount
      /\ turnStarts = <<>> <=> turnSeq = boundaryCount
  BY Basics
<1>2. /\ turnStarts # <<>> => Head(turnStarts) = turnStarts[1] /\ turnStarts[1] \in Entry
      /\ \A n : n = boundaryCount + 1 => EntryOf(n) = turnStarts[1]
  <2>1. turnStarts # <<>> => Head(turnStarts) = turnStarts[1] /\ turnStarts[1] \in Entry
    BY <1>1, ElementOfSeq, HeadTailProperties DEF TypeOK, TurnAccounting
  <2>2. (boundaryCount + 1) - boundaryCount = 1
    BY <1>1
  <2> QED
    BY <2>1, <2>2 DEF EntryOf
<1>3. ASSUME NEW n PROVE ~EndsIn(0, 1, n) /\ ~StartsIn(0, 1) /\ ~EchoIn(1, n)
  BY DEF EndsIn, StartsIn, EchoIn, Position
<1>4. CASE IsOurs(1)
  <2>1. /\ turnStarts # <<>> /\ ~ExternalLeads /\ channel[1].of = boundaryCount + 1
        /\ EntryOf(channel[1].of).echoed
    BY <1>4, HeadIsForFirst
  <2>2. ~Skipped
    BY <1>2, <2>1 DEF Skipped, FrontSettlesOnOrigin
  <2> QED
    BY <1>4, <2>1, <2>2 DEF IsOurs
<1>5. CASE ~IsOurs(1)
  <2>1. turnStarts # <<>>
    BY <1>3, <1>5 DEF StreamInv, StartIsSeen
  <2>2. pendingOrigin
    BY <1>5 DEF StreamInv, OriginMarksNext
  <2>3. ASSUME ~turnStarts[1].external, turnStarts[1].echoed PROVE FALSE
    <3>1. PICK n : n = boundaryCount + 1
      OBVIOUS
    <3>2. n \in Ours /\ EntryOf(n).echoed
      BY <1>1, <1>2, <2>1, <2>3, <3>1 DEF Ours, TurnAccounting
    <3> QED
      BY <1>3, <1>5, <3>2 DEF StreamInv, OursEndFirst
  <2>4. turnStarts[1].external \/ Skipped
    BY <1>2, <2>1, <2>2, <2>3 DEF Skipped, FrontSettlesOnOrigin, Entry
  <2> QED
    BY <1>5, <2>1, <2>4 DEF IsOurs
<1> QED
  BY <1>4, <1>5

\* The head of a channel that is not empty is its first position.
LEMMA HeadIsFirst ==
  ASSUME TypeOK, channel # <<>>
  PROVE  Head(channel) = channel[1] /\ 1 \in Position
<1>1. channel \in Seq(Event) /\ Len(channel) \in Nat /\ Len(channel) # 0
  BY EmptySeq, LenProperties DEF TypeOK
<1> QED
  BY <1>1 DEF Position

\* The stream invariant gives the three properties of the runs.
LEMMA StreamSettles ==
  ASSUME IInv, StreamInv
  PROVE  BoundarySettlesOwnTurn
<1>1. TypeOK /\ TurnAccounting
  BY DEF IInv, TurnInv
<1>2. SUFFICES ASSUME channel # <<>>, Head(channel).type \in {"result", "error"}
               PROVE  IF Head(channel).of = CliStarted
                      THEN turnStarts # <<>> => Head(turnStarts).external \/ Skipped
                      ELSE turnStarts # <<>> /\ ~Skipped /\ boundaryCount + 1 = Head(channel).of
  BY DEF BoundarySettlesOwnTurn
<1>3. Head(channel) = channel[1] /\ 1 \in Position /\ IsEnd(1)
  BY <1>1, <1>2, HeadIsFirst DEF IsEnd
<1>4. turnStarts # <<>> => Head(turnStarts) = turnStarts[1]
  BY <1>1 DEF TypeOK
<1> QED
  BY <1>1, <1>3, <1>4, HeadSettles

\* Nothing on its way, nothing to read, nothing running: no turn is outstanding.
LEMMA StreamNeverWedges ==
  ASSUME IInv, StreamInv
  PROVE  NeverWedged
<1>1. TypeOK /\ TurnAccounting
  BY DEF IInv, TurnInv
<1>2. SUFFICES ASSUME cli.state = "idle", channel = <<>>,
                      \A i \in 1..Len(stdin) : stdin[i].kind = "interrupt"
               PROVE  ~localRunning
  BY DEF NeverWedged
<1>3. Position = {} /\ Waiting = {} /\ Alive /\ ~Answering
  BY <1>2, EmptySeq DEF Position, Waiting, Lines, Alive, Answering
<1>4. \A n : ~EndsIn(0, Past, n)
  BY <1>3 DEF EndsIn
<1>5. Ours = {}
  BY <1>3, <1>4 DEF StreamInv, NoneForgotten, Answered
<1>6. ~ExternalLeads
  BY <1>2, <1>3, <1>4 DEF StreamInv, ExternalEndsFirst
<1>7. turnStarts = <<>>
  <2>1. ASSUME turnStarts # <<>> PROVE FALSE
    <3>1. PICK n : n = boundaryCount + 1
      OBVIOUS
    <3>2. n \in (boundaryCount + 1)..turnSeq /\ n - boundaryCount = 1
      BY <1>1, <2>1, <3>1, Basics
    <3>3. EntryOf(n) = turnStarts[1] /\ ~turnStarts[1].external
      BY <1>6, <2>1, <3>2 DEF EntryOf, ExternalLeads
    <3> QED
      BY <1>5, <3>2, <3>3 DEF Ours
  <2> QED
    BY <2>1
<1> QED
  BY <1>1, <1>7 DEF TurnAccounting

\* No turn outstanding: nothing of ours is on its way, unread or running.
LEMMA StreamIsNeverEarly ==
  ASSUME IInv, StreamInv
  PROVE  NoEarlyIdle
<1>1. TypeOK /\ TurnAccounting
  BY DEF IInv, TurnInv
<1>2. SUFFICES ASSUME ~localRunning
               PROVE  /\ \A i \in 1..Len(stdin) : stdin[i].kind = "interrupt"
                      /\ cli.state \notin {"own", "merged"}
                      /\ \A i \in 1..Len(channel) : channel[i].of = CliStarted
  BY DEF NoEarlyIdle
<1>3. Ours = {}
  BY <1>1, <1>2, Basics DEF Ours, TurnAccounting
<1>4. Waiting = {} /\ ~Answering /\ \A i \in Position : ~IsOurs(i)
  BY <1>3 DEF StreamInv, SaidOfOurs
<1>5. \A i \in 1..Len(stdin) : stdin[i].kind = "interrupt"
  <2>1. \A i \in 1..Len(stdin) : stdin[i].kind \in {"prompt", "interrupt"}
    BY <1>1, Basics DEF Line
  <2> QED
    BY <1>4, <2>1 DEF Waiting, Lines
<1> QED
  BY <1>4, <1>5 DEF Answering, IsOurs, Position

\* A session that is idle got no result since its last turn was settled.
LEMMA IdleGetsNoResult ==
  ASSUME IInv, StreamInv, channel # <<>>, ~localRunning
  PROVE  Head(channel).type \notin {"result", "error"}
<1>1. TypeOK /\ TurnAccounting /\ turnStarts = <<>>
  BY DEF IInv, TurnInv, TurnAccounting
<1> QED
  BY <1>1, HeadIsFirst, HeadSettles DEF IsEnd

\* The last boundary of an idle fan-out left the outcome it shows.
LEMMA SettlingShowsOutcome ==
  ASSUME IInv, StreamInv, PostureIsLatest, SettleBoundary
  PROVE  PostureIsLatest'
<1>0. TypeOK /\ TurnAccounting /\ Len(metrics) = boundaryCount
  BY DEF IInv, TurnInv, MetricPerBoundary
<1>1. /\ TypeOK /\ TurnAccounting /\ Len(metrics) = boundaryCount
      /\ turnSeq \in Nat /\ boundaryCount \in Nat /\ metrics \in Seq(Outcome)
      /\ Len(turnStarts) = turnSeq - boundaryCount
  BY <1>0 DEF TypeOK, TurnAccounting
<1>2. /\ phase = "running" /\ phase' = phase /\ turnSeq' = turnSeq /\ channel # <<>>
      /\ localRunning' = (localRunning /\ ~CaughtUp)
  BY DEF SettleBoundary, Handling
<1>3. rp'.live = rp.live
  <2>1. MarkIdle(turnSeq) => rp'.live = rp.live
    BY <1>1, IdleMirrors
  <2> QED
    BY <2>1 DEF SettleBoundary
<1>4. PICK outcome, emitted :
        /\ outcome = ClassifyOutcome(Head(channel).type, FrontIntent(turnStarts))
        /\ emitted = EmitSnippet(posture, Head(channel))
  OBVIOUS
<1>5. CASE turnStarts = <<>>
  <2>1. /\ ~localRunning /\ metrics' = metrics /\ posture' = emitted
    BY <1>1, <1>4, <1>5 DEF SettleBoundary, TurnAccounting
  <2>2. emitted = posture
    BY <1>2, <1>4, <2>1, IdleGetsNoResult DEF EmitSnippet
  <2> QED
    BY <1>2, <1>3, <2>1, <2>2 DEF PostureIsLatest
<1>6. CASE turnStarts # <<>> /\ CaughtUp
  <2>1. metrics' = Append(metrics, outcome) /\ posture' = SettlePosture(emitted, outcome)
    BY <1>4, <1>6 DEF SettleBoundary
  <2>2. turnSeq = Len(metrics) + 1
    BY <1>1, <1>6, Basics DEF CaughtUp
  <2>3. outcome \in Outcome /\ posture \in PostureType /\ Head(channel).of \in Int
    <3>1. Head(channel) \in Event /\ Head(channel).type \in Boundary
      BY <1>1, HandlingType DEF SettleBoundary, Handling
    <3>2. FrontIntent(turnStarts) \in Intent /\ posture \in PostureType
      BY <1>1, FrontKeeps DEF TypeOK, PostureType
    <3> QED
      BY <1>4, <3>1, <3>2, OutcomeFollowsIntent DEF Event
  <2>4. metrics'[turnSeq] = outcome
    BY <1>1, <2>1, <2>2, <2>3, AppendProperties
  <2>5. rp.live => /\ posture'.outcome = outcome
                   /\ outcome \in {"errored", "timeout"} => ~posture'.lastSnippet
    <3>1. emitted \in PostureType
      BY <1>4, <2>3 DEF EmitSnippet, PostureType
    <3> QED
      BY <2>1, <3>1 DEF SettlePosture, PostureType
  <2> QED
    BY <1>2, <1>3, <2>4, <2>5 DEF PostureIsLatest
<1>7. CASE turnStarts # <<>> /\ ~CaughtUp
  BY <1>1, <1>2, <1>7 DEF PostureIsLatest, TurnAccounting
<1> QED
  BY <1>5, <1>6, <1>7

\* No step leaves an idle session with the outcome of an earlier turn.
LEMMA PostureStep ==
  ASSUME IInv, StreamInv, PostureIsLatest, [Next]_vars
  PROVE  PostureIsLatest'
<1> USE DEF fanoutVars, managerVars, inputVars, cliVars
<1>1. TypeOK /\ TurnAccounting
  BY DEF IInv, TurnInv
<1>2. CASE /\ UNCHANGED <<phase, turnSeq, localRunning, metrics, posture>>
           /\ rp'.live => rp.live
  BY <1>2 DEF PostureIsLatest
<1>3. CASE localRunning' \/ ~rp'.live
  BY <1>3 DEF PostureIsLatest
<1>4. CASE HandleMarker \/ ForwardOutput
  BY <1>2, <1>4 DEF HandleMarker, ForwardOutput, Handling
<1>5. CASE OpenExternalTurn \/ HandleRunPrompt \/ HandlePromptInterrupting \/ HandlePromptIdle
  BY <1>3, <1>5 DEF OpenExternalTurn, HandleRunPrompt, HandlePromptInterrupting, HandlePromptIdle,
     StartSuperseding, StartTurn
<1>6. CASE SkipBoundary
  <2>1. /\ UNCHANGED <<phase, turnSeq, localRunning, metrics, rp>> /\ channel # <<>>
        /\ posture' = EmitSnippet(posture, Head(channel))
    BY <1>6 DEF SkipBoundary, Handling
  <2>2. ~localRunning => posture' = posture
    BY <2>1, IdleGetsNoResult DEF EmitSnippet
  <2> QED
    BY <1>3, <2>1, <2>2 DEF PostureIsLatest
<1>7. CASE SettleBoundary
  BY <1>7, SettlingShowsOutcome
<1>8. CASE HandlePromptQueued \/ HandleInterrupt \/ HandleCancel \/ HandleTimeoutKill
  BY <1>2, <1>8 DEF HandlePromptQueued, HandleInterrupt, HandleCancel, HandleTimeoutKill,
     AbortAndKill, FromClient, Receiving
<1>9. CASE HandleSetQueueMode
  <2>1. rp'.live = rp.live
    BY <1>1, <1>9 DEF HandleSetQueueMode, TypeOK
  <2>2. UNCHANGED <<phase, turnSeq, localRunning, metrics, posture>>
    BY <1>9 DEF HandleSetQueueMode, FromClient, Receiving
  <2> QED
    BY <1>2, <2>1, <2>2
<1>10. CASE FlushQueue
  <2>1. CASE pending > 0
    BY <1>3, <1>10, <2>1 DEF FlushQueue, StartTurn
  <2>2. CASE ~(pending > 0)
    BY <1>2, <1>10, <2>2 DEF FlushQueue, Receiving
  <2> QED
    BY <2>1, <2>2
<1>11. CASE FanoutEnds \/ RemoveSession
  BY <1>3, <1>11 DEF FanoutEnds, RemoveSession, NoProcess
<1>12. CASE SendRunPrompt \/ WatchdogFires \/ ClientLeaves \/ UNCHANGED vars
  BY <1>2, <1>12 DEF SendRunPrompt, WatchdogFires, ClientLeaves, vars
<1>13. CASE Cli
  BY <1>2, <1>13 DEF Cli, CliTakePrompt, CliMergePrompt, CliStartExternal, CliOutput, CliFinish,
     CliInterrupt, CliExit
<1> QED
  BY <1>4, <1>5, <1>6, <1>7, <1>8, <1>9, <1>10, <1>11, <1>12, <1>13
     DEF Next, HandleEvent, HandleInput

-----------------------------------------------------------------------------

\* Every result and error is settled against the turn it answers: whatever turns the CLI ran
\* on its own or merged a prompt into, however many prompts wait and whichever were
\* interrupted, the front of the FIFO is the turn of the result that comes next.
THEOREM BoundarySettlesOwnTurnHolds == Spec => []BoundarySettlesOwnTurn
<1> QED
  BY StreamInvariance, StreamSettles, PTL

\* The session is busy exactly while the CLI owes it an answer: it is never wedged in
\* Running with a CLI that has nothing left to say, nor idle with a prompt unanswered.
THEOREM BusyIffWorkHolds == Spec => []BusyIffWork
<1>1. IInv /\ StreamInv => BusyIffWork
  BY StreamNeverWedges, StreamIsNeverEarly DEF BusyIffWork
<1> QED
  BY <1>1, StreamInvariance, PTL

\* While idle the triage list shows the outcome of the latest turn, and no summary next to
\* a failed one: no result comes to an idle fan-out that could change what it shows.
THEOREM PostureIsLatestHolds == Spec => []PostureIsLatest
<1>1. Init => PostureIsLatest
  BY DEF Init, PostureIsLatest
<1>2. IInv /\ StreamInv /\ PostureIsLatest /\ [Next]_vars => PostureIsLatest'
  BY PostureStep
<1> QED
  BY <1>1, <1>2, StreamInvariance, PTL DEF Spec
=============================================================================
