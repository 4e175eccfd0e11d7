------------------------------ MODULE TurnFanout ------------------------------
(***************************************************************************)
(* The Claude fan-out of ZeroMux (spawn_acp_fanout): the one task that owns *)
(* a session's `claude -p` process, turns its NDJSON events into turn       *)
(* boundaries, and decides when the user's prompts are written to it.       *)
(*                                                                         *)
(* Three parties share the state:                                           *)
(*  - the fan-out task (phase .. activeRun), one handler at a time;         *)
(*  - the SessionManager's mirror of it (rp, posture, turnsCompleted), the  *)
(*    scheduled run's row (run), the metrics and the pushes;                *)
(*  - the CLI process (stdin, channel, cli), external, at its own pace.     *)
(* The module starts when the session has just been inserted in the         *)
(* manager's map with its process running.                                  *)
(***************************************************************************)
EXTENDS Integers, Sequences

CONSTANTS
  MaxTurns,      \* bound: a prompt is accepted only while turnSeq < MaxTurns
  MaxPending,    \* bound: a prompt is queued only while pending < MaxPending
  MaxExternal,   \* bound: turns the CLI starts on its own
  MaxChannel,    \* capacity of the event channel
  MaxStdin,      \* bound: unread lines on the CLI's stdin
  MaxBlocks      \* bound: output blocks of one turn after its first event

ASSUME BoundsAssumption ==
  /\ MaxTurns \in Nat /\ MaxPending \in Nat /\ MaxExternal \in Nat
  /\ MaxChannel \in Nat /\ MaxStdin \in Nat /\ MaxBlocks \in Nat

VARIABLES
  phase,          \* "running" | "ended": the fan-out task
  turnSeq,        \* turn_seq: turns started
  boundaryCount,  \* boundary_count: boundaries counted
  localRunning,   \* local_running
  turnStarts,     \* turn_starts: FIFO of the turns not yet settled
  pendingOrigin,  \* pending_origin: the next boundary ends a CLI-started turn
  queueMode,      \* queue_mode
  pending,        \* queue.pending: prompts collected while busy, by number
  window,         \* queue.debounce/hard_cap are armed
  activeRun,      \* active_run_id is Some
  rp,             \* Session.running: the manager's mirror of the turn state
  turnsCompleted, \* Session.turns_completed
  posture,        \* Session.posture: last outcome, snippets
  run,            \* the scheduled run's row in agent_task_runs
  runQueued,      \* the scheduled run's prompt waits in input_rx
  killQueued,     \* a TimeoutKill of the watchdog waits in input_rx
  lingering,      \* the session is removed, a client's socket still holds input_tx
  metrics,        \* outcomes recorded, one per settled turn, in order
  pushes,         \* "turn done" pushes allowed: the turn and its body's turn
  stdin,          \* lines written to the CLI and not yet read by it
  channel,        \* event_rx: events read from the CLI and not yet handled
  cli,            \* what the CLI is doing
  aborted,        \* history: turns the user or the watchdog aborted while live
  overtaken       \* history: the run's prompt found another turn running

fanoutVars == <<phase, turnSeq, boundaryCount, localRunning, turnStarts,
                pendingOrigin, queueMode, pending, window, activeRun>>
inputVars == <<runQueued, killQueued, lingering>>
managerVars == <<rp, turnsCompleted, posture, run, runQueued, killQueued, lingering,
                 metrics, pushes>>
cliVars == <<stdin, channel, cli>>
vars == <<fanoutVars, managerVars, cliVars, aborted, overtaken>>

-----------------------------------------------------------------------------
(* Types *)

Mode == {"collect", "interrupt"}
Intent == {"none", "cancelled", "timeout"}
Outcome == {"completed", "errored", "cancelled", "timeout"}
Entry == [external : BOOLEAN, echoed : BOOLEAN, intent : Intent]

NoTurn == 0          \* no snippet
CliStarted == -1     \* an event of a turn the CLI started on its own
Boundary == {"result", "error", "exit"}
Event == [type : Boundary \cup {"peer", "content", "origin", "echo"}, of : Int]
Line == [kind : {"prompt", "interrupt"}, turn : Nat]
CliState == {"idle", "own", "external", "merged", "killed", "dead"}
RunState == {"none", "sent", "running", "succeeded", "failed", "aborted"}

NoProcess == [live |-> FALSE, state |-> "idle", seq |-> 0, mode |-> "collect"]

-----------------------------------------------------------------------------
(* TurnStarts: the FIFO of unsettled turns *)

NewEntry(external) ==
  [external |-> external, echoed |-> external, intent |-> "none"]

MarkNoneEchoed(q) == q  \* mutant: echoes are dropped like other noise

\* The echo belongs to the oldest entry still waiting for one.
MarkEchoed(q) ==
  LET waiting == {i \in 1..Len(q) : ~q[i].echoed}
  IN  [i \in 1..Len(q) |->
        IF i \in waiting /\ \A j \in waiting : i <= j
        THEN [q[i] EXCEPT !.echoed = TRUE] ELSE q[i]]

FrontSettlesAlways(q) == q # <<>>  \* mutant: no wait for the echo

FrontSettlesOnOrigin(q) == q # <<>> /\ (Head(q).external \/ Head(q).echoed)

FrontIntent(q) == IF q = <<>> THEN "none" ELSE Head(q).intent

\* mutant: the intent goes to the turn whose boundary comes first
SetFrontIntent(q, intent) ==
  [i \in 1..Len(q) |-> IF i = 1 THEN [q[i] EXCEPT !.intent = intent] ELSE q[i]]

\* The live turn is the back of the FIFO; with nothing live it is a no-op.
SetLiveIntent(q, intent) ==
  [i \in 1..Len(q) |-> IF i = Len(q) THEN [q[i] EXCEPT !.intent = intent] ELSE q[i]]

Settle(q) == IF q = <<>> THEN q ELSE Tail(q)

\* The intent wins over what the terminal event would say.
ClassifyOutcome(type, intent) ==
  IF intent # "none" THEN intent
  ELSE IF type = "result" THEN "completed" ELSE "errored"

-----------------------------------------------------------------------------
(* SessionManager callbacks *)

\* mutant: a turn start that does not adopt the new number
MarkRunningStaleSeq(seq) ==
  /\ rp' = IF rp.live THEN [rp EXCEPT !.state = "running"] ELSE rp
  /\ posture' = IF rp.live THEN [posture EXCEPT !.turnSnippet = NoTurn] ELSE posture
  /\ UNCHANGED turnsCompleted

\* apply_turn, Running branch
MarkRunning(seq) ==
  /\ rp' = IF rp.live THEN [rp EXCEPT !.state = "running", !.seq = seq] ELSE rp
  /\ posture' = IF rp.live THEN [posture EXCEPT !.turnSnippet = NoTurn] ELSE posture
  /\ UNCHANGED turnsCompleted

\* mutant: a repeated Idle counts again
MarkIdleAgain(seq) ==
  IF rp.live /\ rp.seq = seq
  THEN /\ rp' = [rp EXCEPT !.state = "idle"]
       /\ turnsCompleted' = turnsCompleted + 1
  ELSE UNCHANGED <<rp, turnsCompleted>>

\* apply_turn, Idle branch: only the live turn, and only once
MarkIdle(seq) ==
  IF rp.live /\ rp.seq = seq /\ rp.state # "idle"
  THEN /\ rp' = [rp EXCEPT !.state = "idle"]
       /\ turnsCompleted' = turnsCompleted + 1
  ELSE UNCHANGED <<rp, turnsCompleted>>

\* set_run_state only moves a row that is still in flight
FinalizeRun(state) == IF run \in {"sent", "running"} THEN state ELSE run

\* The snippet an emitted Result leaves, and what the live turn's settling
\* does to it.
EmitSnippet(p, e) ==
  IF e.type = "result" /\ rp.live
  THEN [p EXCEPT !.lastSnippet = TRUE, !.turnSnippet = e.of] ELSE p

\* mutant: the summary of an earlier turn stays next to a failed one
SettlePostureKeeping(p, outcome) ==
  IF rp.live THEN [p EXCEPT !.outcome = outcome] ELSE p

SettlePosture(p, outcome) ==
  IF rp.live
  THEN [p EXCEPT !.outcome = outcome,
                 !.lastSnippet = @ /\ outcome \notin {"errored", "timeout"}]
  ELSE p

SuppressCancelledOnly(intent) == intent = "cancelled"  \* mutant

IntentSuppressesPush(intent) == intent \in {"cancelled", "timeout"}

-----------------------------------------------------------------------------
(* The CLI process: external, modelled from how the fan-out uses it *)

Alive == cli.state \notin {"killed", "dead"}

\* A write to the stdin of a process that is gone fails and is only logged.
Write(lines) == stdin' = IF Alive THEN stdin \o lines ELSE stdin
Prompt(turn) == [kind |-> "prompt", turn |-> turn]
InterruptLine == [kind |-> "interrupt", turn |-> NoTurn]

\* start_reader blocks while the event channel is full.
Emit(events) ==
  /\ Len(channel) + Len(events) <= MaxChannel
  /\ channel' = channel \o events

\* A result of a turn the CLI started itself is preceded by a TurnOrigin.
TurnEnd(type) ==
  LET of == IF cli.state = "external" THEN CliStarted ELSE cli.turn
      end == <<[type |-> type, of |-> of]>>
  IN  IF cli.state = "own" THEN end ELSE <<[type |-> "origin", of |-> of]>> \o end

Busy == cli.state \in {"own", "external", "merged"}
Idle(c) == [c EXCEPT !.state = "idle", !.turn = NoTurn, !.blocks = 0]

\* The CLI takes the next prompt as a turn of its own and echoes it.
CliTakePrompt ==
  /\ cli.state = "idle" /\ stdin # <<>> /\ Head(stdin).kind = "prompt"
  /\ Emit(<<[type |-> "echo", of |-> Head(stdin).turn]>>)
  /\ stdin' = Tail(stdin)
  /\ cli' = [cli EXCEPT !.state = "own", !.turn = Head(stdin).turn]
  /\ UNCHANGED <<fanoutVars, managerVars, aborted, overtaken>>

\* It may merge a prompt into the turn it is running on its own.
CliMergePrompt ==
  /\ cli.state = "external" /\ stdin # <<>> /\ Head(stdin).kind = "prompt"
  /\ Emit(<<[type |-> "echo", of |-> Head(stdin).turn]>>)
  /\ stdin' = Tail(stdin)
  /\ cli' = [cli EXCEPT !.state = "merged", !.turn = Head(stdin).turn]
  /\ UNCHANGED <<fanoutVars, managerVars, aborted, overtaken>>

\* A peer message or a background task starts a turn nobody asked for; a
\* scheduled session refuses the first and has none of the second yet.
CliStartExternal ==
  /\ cli.state = "idle" /\ cli.started < MaxExternal
  /\ \E type \in {"peer", "content"} : Emit(<<[type |-> type, of |-> CliStarted]>>)
  /\ cli' = [cli EXCEPT !.state = "external", !.started = @ + 1]
  /\ UNCHANGED <<stdin, fanoutVars, managerVars, aborted, overtaken>>

CliOutput ==
  /\ Busy /\ cli.blocks < MaxBlocks
  /\ Emit(<<[type |-> "content",
             of |-> IF cli.state = "external" THEN CliStarted ELSE cli.turn]>>)
  /\ cli' = [cli EXCEPT !.blocks = @ + 1]
  /\ UNCHANGED <<stdin, fanoutVars, managerVars, aborted, overtaken>>

CliFinish ==
  /\ Busy
  /\ \E type \in {"result", "error"} : Emit(TurnEnd(type))
  /\ cli' = Idle(cli)
  /\ UNCHANGED <<stdin, fanoutVars, managerVars, aborted, overtaken>>

\* Control requests are read past the prompts that wait for their turn.
CliInterrupt ==
  /\ Alive
  /\ \E i \in 1..Len(stdin) :
       /\ stdin[i].kind = "interrupt"
       /\ \A j \in 1..(i - 1) : stdin[j].kind = "prompt"
       /\ stdin' = SubSeq(stdin, 1, i - 1) \o SubSeq(stdin, i + 1, Len(stdin))
  /\ IF Busy
     THEN /\ \E type \in {"result", "error"} : Emit(TurnEnd(type))
          /\ cli' = Idle(cli)
     ELSE UNCHANGED <<channel, cli>>
  /\ UNCHANGED <<fanoutVars, managerVars, aborted, overtaken>>

\* End of stdout: a crash, or the kill the fan-out asked for.
CliExit ==
  /\ cli.state # "dead" /\ phase = "running"
  /\ Emit(<<[type |-> "exit", of |-> CliStarted]>>)
  /\ cli' = [Idle(cli) EXCEPT !.state = "dead"]
  /\ stdin' = <<>>
  /\ UNCHANGED <<fanoutVars, managerVars, aborted, overtaken>>

KillNothing == UNCHANGED <<cli, stdin>>  \* mutant: the kill is lost

\* AcpProcess::kill
Kill ==
  /\ cli' = IF Alive THEN [Idle(cli) EXCEPT !.state = "killed"] ELSE cli
  /\ stdin' = IF Alive THEN <<>> ELSE stdin

-----------------------------------------------------------------------------
(* The fan-out's event arm *)

Handling(types) ==
  /\ phase = "running" /\ channel # <<>> /\ Head(channel).type \in types
  /\ channel' = Tail(channel)
  /\ UNCHANGED <<phase, queueMode, stdin, cli, inputVars, aborted, overtaken>>

\* TurnOrigin and StdinEcho only move attribution state.
HandleMarker ==
  /\ Handling({"origin", "echo"})
  /\ IF Head(channel).type = "origin"
     THEN pendingOrigin' = TRUE /\ UNCHANGED turnStarts
     ELSE turnStarts' = MarkEchoed(turnStarts) /\ UNCHANGED pendingOrigin
  /\ UNCHANGED <<turnSeq, boundaryCount, localRunning, pending, window, activeRun,
                 rp, turnsCompleted, posture, run, metrics, pushes>>

OpensAlways == TRUE  \* mutant: output opens a turn although one runs

\* Output while idle can only come from a turn the CLI started.
OpensExternal == ~localRunning

\* ClaudeStep::StartExternal: output while idle opens a turn of the CLI's own.
OpenExternalTurn ==
  /\ Handling({"peer", "content"}) /\ OpensExternal
  /\ turnSeq' = turnSeq + 1
  /\ localRunning' = TRUE
  /\ turnStarts' = Append(turnStarts, NewEntry(TRUE))
  /\ window' = FALSE
  /\ MarkRunning(turnSeq + 1)
  /\ UNCHANGED <<boundaryCount, pendingOrigin, pending, activeRun, run, metrics, pushes>>

\* Output of the running turn is only emitted.
ForwardOutput ==
  /\ Handling({"peer", "content"}) /\ ~OpensExternal
  /\ UNCHANGED <<turnSeq, boundaryCount, localRunning, turnStarts, pendingOrigin,
                 pending, window, activeRun, rp, turnsCompleted, posture, run,
                 metrics, pushes>>

NeverSkipped == FALSE  \* mutant: every boundary settles

\* ClaudeStep::SkipBoundary
Skipped == pendingOrigin /\ ~FrontSettlesOnOrigin(turnStarts)

SkipBoundary ==
  /\ Handling(Boundary) /\ Skipped
  /\ pendingOrigin' = FALSE
  /\ posture' = EmitSnippet(posture, Head(channel))
  /\ UNCHANGED <<turnSeq, boundaryCount, localRunning, turnStarts, pending, window,
                 activeRun, rp, turnsCompleted, run, metrics, pushes>>

ArmAnyway(running) == IF pending > 0 THEN TRUE ELSE window  \* mutant
ArmNever(running) == window  \* mutant

\* The collect window opens when a turn ended and prompts wait.
Arm(running) == IF ~running /\ pending > 0 THEN TRUE ELSE window

\* A boundary caught up with the live turn settles it; a stale one of a
\* superseded turn, or a second one of the same turn, must not.
CaughtUp == boundaryCount + 1 >= turnSeq

CountUnclamped == boundaryCount + 1  \* mutant
CountBoundary == IF CaughtUp THEN turnSeq ELSE boundaryCount + 1

SettleBoundary ==
  LET e == Head(channel)
      intent == FrontIntent(turnStarts)
      outcome == ClassifyOutcome(e.type, intent)
      emitted == EmitSnippet(posture, e)
  IN
  /\ Handling(Boundary) /\ ~Skipped
  /\ pendingOrigin' = FALSE
  /\ boundaryCount' = CountBoundary
  /\ localRunning' = (localRunning /\ ~CaughtUp)
  /\ IF CaughtUp THEN MarkIdle(turnSeq) ELSE UNCHANGED <<rp, turnsCompleted>>
  \* a boundary without a turn has duration 0, below the push threshold
  /\ pushes' = IF /\ CaughtUp /\ ~activeRun
                  /\ turnStarts # <<>> /\ ~IntentSuppressesPush(intent)
               THEN pushes \cup {[turn |-> boundaryCount + 1, body |-> emitted.turnSnippet]}
               ELSE pushes
  /\ activeRun' = FALSE
  /\ run' = IF activeRun
            THEN FinalizeRun(IF e.type = "result" THEN "succeeded" ELSE "failed")
            ELSE run
  /\ turnStarts' = Settle(turnStarts)
  /\ metrics' = IF turnStarts # <<>> THEN Append(metrics, outcome) ELSE metrics
  /\ posture' = IF CaughtUp /\ turnStarts # <<>> THEN SettlePosture(emitted, outcome)
                ELSE emitted
  /\ window' = Arm(localRunning')
  /\ UNCHANGED <<turnSeq, pending>>

-----------------------------------------------------------------------------
(* The fan-out's input arm *)

Receiving ==
  /\ phase = "running"
  /\ UNCHANGED <<phase, boundaryCount, pendingOrigin, channel, pushes, metrics, lingering>>

\* A client sends while the session is there, or over a socket that outlived it.
FromClient ==
  /\ Receiving /\ (rp.live \/ lingering)
  /\ UNCHANGED <<runQueued, killQueued, overtaken>>

\* The four steps of every turn start: count it, go busy, push its entry, tell
\* the manager. `starts` is the FIFO with what was done to the live turn.
StartTurn(starts) ==
  /\ turnSeq' = turnSeq + 1
  /\ localRunning' = TRUE
  /\ turnStarts' = Append(starts, NewEntry(FALSE))
  /\ MarkRunning(turnSeq + 1)

\* Supersede the running turn: Cancelled on it, an interrupt line, then the
\* new prompt; or just the prompt when nothing runs.
StartSuperseding ==
  IF localRunning
  THEN /\ StartTurn(SetLiveIntent(turnStarts, "cancelled"))
       /\ Write(<<InterruptLine, Prompt(turnSeq + 1)>>)
       /\ aborted' = aborted \cup {turnSeq}
  ELSE /\ StartTurn(turnStarts)
       /\ Write(<<Prompt(turnSeq + 1)>>)
       /\ UNCHANGED aborted

MayPrompt == turnSeq < MaxTurns /\ Len(stdin) + 2 <= MaxStdin

\* trigger_run puts the run's prompt in the input channel of its session.
SendRunPrompt ==
  /\ phase = "running" /\ rp.live /\ run = "none"
  /\ run' = "sent" /\ runQueued' = TRUE
  /\ UNCHANGED <<fanoutVars, cliVars, aborted, overtaken, rp, turnsCompleted, posture,
                 killQueued, lingering, metrics, pushes>>

\* A run's prompt bypasses the queue and gets a turn of its own, even when the
\* session, and with it the run's row, is gone by now.
HandleRunPrompt ==
  /\ Receiving /\ MayPrompt /\ runQueued
  /\ runQueued' = FALSE
  /\ StartSuperseding
  /\ activeRun' = TRUE /\ overtaken' = localRunning
  /\ run' = IF run = "sent" THEN "running" ELSE run
  /\ pending' = 0 /\ window' = FALSE
  /\ UNCHANGED <<queueMode, killQueued, cli>>

DropRun == run  \* mutant: the handle is dropped, the row stays running

\* finalize_active_run_if_scheduled
SupersedeRun == IF activeRun THEN FinalizeRun("failed") ELSE run

\* A user's prompt in Interrupt mode supersedes the running turn, and fails
\* the scheduled run it belongs to before dropping its handle.
HandlePromptInterrupting ==
  /\ FromClient /\ MayPrompt /\ queueMode = "interrupt" /\ localRunning
  /\ StartSuperseding
  /\ activeRun' = FALSE
  /\ run' = SupersedeRun
  /\ pending' = 0 /\ window' = FALSE
  /\ UNCHANGED <<queueMode, cli>>

\* Collect mode, busy or with the window open: the prompt waits.
HandlePromptQueued ==
  /\ FromClient /\ turnSeq < MaxTurns /\ pending < MaxPending
  /\ (localRunning /\ queueMode = "collect") \/ (~localRunning /\ window)
  /\ pending' = pending + 1
  /\ UNCHANGED <<turnSeq, localRunning, turnStarts, queueMode, window, activeRun, rp,
                 turnsCompleted, posture, run, stdin, cli, aborted>>

\* Truly idle: the prompt starts a turn at once.
HandlePromptIdle ==
  /\ FromClient /\ MayPrompt /\ ~localRunning /\ ~window
  /\ StartTurn(turnStarts)
  /\ Write(<<Prompt(turnSeq + 1)>>)
  /\ activeRun' = FALSE
  /\ UNCHANGED <<queueMode, pending, window, run, cli, aborted>>

HandleSetQueueMode ==
  /\ FromClient
  /\ \E m \in Mode : /\ queueMode' = m
                     /\ rp' = IF rp.live THEN [rp EXCEPT !.mode = m] ELSE rp
  /\ UNCHANGED <<turnSeq, localRunning, turnStarts, pending, window, activeRun,
                 turnsCompleted, posture, run, stdin, cli, aborted>>

\* The interrupt button: stop the live turn, and drop what waits in any case.
HandleInterrupt ==
  /\ FromClient /\ Len(stdin) < MaxStdin
  /\ IF localRunning
     THEN /\ turnStarts' = SetLiveIntent(turnStarts, "cancelled")
          /\ Write(<<InterruptLine>>)
          /\ aborted' = aborted \cup {turnSeq}
     ELSE UNCHANGED <<turnStarts, stdin, aborted>>
  /\ pending' = 0 /\ window' = FALSE
  /\ UNCHANGED <<turnSeq, localRunning, queueMode, activeRun, rp, turnsCompleted,
                 posture, run, cli>>

\* Cancel and TimeoutKill: the intent first, then the kill.
AbortAndKill(intent) ==
  /\ turnStarts' = SetLiveIntent(turnStarts, intent)
  /\ aborted' = IF localRunning THEN aborted \cup {turnSeq} ELSE aborted
  /\ Kill
  /\ UNCHANGED <<turnSeq, localRunning, queueMode, pending, window, activeRun, rp,
                 turnsCompleted, posture, run>>

HandleCancel == FromClient /\ AbortAndKill("cancelled")

HandleTimeoutKill ==
  /\ Receiving /\ killQueued
  /\ AbortAndKill("timeout")
  /\ killQueued' = FALSE /\ UNCHANGED <<runQueued, overtaken>>

\* The debounce or the hard cap expires: one merged turn for all that waits.
FlushQueue ==
  /\ Receiving /\ window
  /\ window' = FALSE
  /\ IF pending > 0
     THEN /\ StartTurn(turnStarts)
          /\ Write(<<Prompt(turnSeq + 1)>>)
          /\ pending' = 0
          /\ activeRun' = FALSE
     ELSE UNCHANGED <<turnSeq, localRunning, turnStarts, rp, turnsCompleted, posture,
                      stdin, pending, activeRun>>
  /\ UNCHANGED <<queueMode, run, runQueued, killQueued, cli, aborted, overtaken>>

-----------------------------------------------------------------------------
(* The manager around the fan-out *)

\* The watchdog decides on the mirror, and its kill waits in the input channel.
WatchdogFires ==
  /\ rp.live /\ rp.state = "running" /\ ~killQueued
  /\ killQueued' = TRUE
  /\ UNCHANGED <<fanoutVars, cliVars, aborted, overtaken, rp, turnsCompleted, posture, run,
                 runQueued, lingering, metrics, pushes>>

NoPosture == [outcome |-> "none", lastSnippet |-> FALSE, turnSnippet |-> NoTurn]

\* remove_session drops the map's entry with its input sender and event_tx, and
\* aborts the run's row; a client that is connected keeps a sender of its own,
\* and its socket sees no end of events, because the fan-out holds event_tx too.
RemoveSession ==
  /\ rp.live
  /\ rp' = NoProcess
  /\ posture' = NoPosture
  /\ run' = FinalizeRun("aborted")
  /\ \E connected \in BOOLEAN : lingering' = connected
  /\ UNCHANGED <<fanoutVars, cliVars, aborted, overtaken, turnsCompleted, runQueued, killQueued,
                 metrics, pushes>>

ClientLeaves ==
  /\ lingering
  /\ lingering' = FALSE
  /\ UNCHANGED <<fanoutVars, cliVars, aborted, overtaken, rp, turnsCompleted, posture, run,
                 runQueued, killQueued, metrics, pushes>>

\* recv() is None once every sender is gone and the buffered inputs are taken.
InputClosed == ~rp.live /\ ~lingering /\ ~runQueued /\ ~killQueued

\* The loop breaks when the event channel closed behind Exit, or when the input
\* channel is closed; dropping the process kills it.
FanoutEnds ==
  /\ phase = "running"
  /\ (channel = <<>> /\ cli.state = "dead") \/ InputClosed
  /\ phase' = "ended"
  /\ rp' = NoProcess
  /\ runQueued' = FALSE /\ killQueued' = FALSE /\ lingering' = FALSE
  /\ Kill
  /\ UNCHANGED <<turnSeq, boundaryCount, localRunning, turnStarts, pendingOrigin,
                 queueMode, pending, window, activeRun, turnsCompleted, posture, run,
                 metrics, pushes, channel, aborted, overtaken>>

-----------------------------------------------------------------------------
Init ==
  /\ phase = "running" /\ turnSeq = 0 /\ boundaryCount = 0 /\ localRunning = FALSE
  /\ turnStarts = <<>> /\ pendingOrigin = FALSE /\ queueMode = "collect"
  /\ pending = 0 /\ window = FALSE /\ activeRun = FALSE
  /\ rp = [NoProcess EXCEPT !.live = TRUE] /\ turnsCompleted = 0
  /\ posture = NoPosture /\ run = "none"
  /\ runQueued = FALSE /\ killQueued = FALSE /\ lingering = FALSE
  /\ metrics = <<>> /\ pushes = {}
  /\ stdin = <<>> /\ channel = <<>>
  /\ cli = [state |-> "idle", turn |-> NoTurn, blocks |-> 0, started |-> 0]
  /\ aborted = {} /\ overtaken = FALSE

HandleEvent == HandleMarker \/ OpenExternalTurn \/ ForwardOutput \/ SkipBoundary \/ SettleBoundary

HandleInput ==
  \/ HandleRunPrompt \/ HandlePromptInterrupting \/ HandlePromptQueued
  \/ HandlePromptIdle \/ HandleSetQueueMode \/ HandleInterrupt
  \/ HandleCancel \/ HandleTimeoutKill

Cli ==
  \/ CliTakePrompt \/ CliMergePrompt \/ CliStartExternal \/ CliOutput
  \/ CliFinish \/ CliInterrupt \/ CliExit

Next ==
  \/ HandleEvent \/ HandleInput \/ FlushQueue \/ FanoutEnds
  \/ SendRunPrompt \/ WatchdogFires \/ RemoveSession \/ ClientLeaves
  \/ Cli

Spec == Init /\ [][Next]_vars

\* The runtime polls the fan-out's three arms and the scheduler's tick comes
\* back; nothing is assumed of the user, and of the CLI only that a killed
\* process reaches the end of its stdout.
Fairness ==
  /\ WF_vars(HandleEvent) /\ WF_vars(FlushQueue) /\ WF_vars(FanoutEnds)
  /\ WF_vars(WatchdogFires) /\ WF_vars(HandleTimeoutKill) /\ WF_vars(HandleRunPrompt)
  /\ WF_vars(cli.state = "killed" /\ CliExit)

FairSpec == Spec /\ Fairness

-----------------------------------------------------------------------------
(* Properties *)

\* Every variable has its type; the code's counters and FIFO included.
TypeOK ==
  /\ phase \in {"running", "ended"}
  /\ turnSeq \in Nat /\ boundaryCount \in Nat
  /\ localRunning \in BOOLEAN /\ pendingOrigin \in BOOLEAN
  /\ turnStarts \in Seq(Entry)
  /\ queueMode \in Mode /\ pending \in Nat /\ window \in BOOLEAN /\ activeRun \in BOOLEAN
  /\ rp \in [live : BOOLEAN, state : {"idle", "running"}, seq : Nat, mode : Mode]
  /\ turnsCompleted \in Nat
  /\ posture \in [outcome : Outcome \cup {"none"}, lastSnippet : BOOLEAN, turnSnippet : Int]
  /\ run \in RunState
  /\ runQueued \in BOOLEAN /\ killQueued \in BOOLEAN /\ lingering \in BOOLEAN
  /\ metrics \in Seq(Outcome)
  /\ pushes \in SUBSET [turn : Nat, body : Int]
  /\ stdin \in Seq(Line) /\ channel \in Seq(Event)
  /\ cli \in [state : CliState, turn : Nat, blocks : Nat, started : Nat]
  /\ aborted \in SUBSET Nat /\ overtaken \in BOOLEAN

\* The counters and the FIFO agree whatever boundaries arrive, doubled or late:
\* the FIFO holds exactly the turns started and not settled, and the fan-out is
\* busy exactly while there is one (the clamp at session_manager.rs:3113).
TurnAccounting ==
  /\ boundaryCount <= turnSeq
  /\ Len(turnStarts) = turnSeq - boundaryCount
  /\ localRunning <=> turnStarts # <<>>

\* The collect window is armed only while idle with something to flush, so a
\* merged prompt never lands in a running turn, and a queued prompt is never
\* stranded: a turn is running or the window is open (comment at 3002-3005).
QueueDiscipline ==
  /\ window => ~localRunning /\ pending > 0
  /\ phase = "running" /\ pending > 0 => localRunning \/ window

\* What the manager shows of a session is what its fan-out does: the watchdog,
\* the update gate and reconnecting clients all read the mirror.
MirrorAgrees ==
  phase = "running" /\ rp.live =>
    /\ rp.state = "running" <=> localRunning
    /\ rp.seq = turnSeq
    /\ rp.mode = queueMode

\* A turn is counted as completed at most once, however many boundaries it has.
CompletedOnce == turnsCompleted <= Len(metrics)

\* A run's handle is held only while a turn runs, and exactly while its row is in
\* flight behind its prompt: no run is left behind by a fan-out that went idle.
RunHandle ==
  /\ activeRun => localRunning
  /\ phase = "running" /\ rp.live =>
       (runQueued <=> run = "sent") /\ (activeRun <=> run = "running")

\* All that the fan-out keeps in step with itself and with what the manager shows
\* of it: counters and FIFO, queue and window, mirror, run handle and row,
\* completed turns. Whatever races whatever, none of them drifts from the others.
FanoutBookkeeping ==
  TurnAccounting /\ QueueDiscipline /\ MirrorAgrees /\ RunHandle /\ CompletedOnce

\* The verdict of a scheduled run is taken from its own turn: while its handle is
\* held, its turn is the only one outstanding, so the next boundary that settles
\* is its own. One exception, which the code has: the session is in the map (1392)
\* before trigger_run sends the prompt (1546), so a user's prompt, or a turn the
\* CLI starts, may be running when the run's prompt arrives and supersedes it.
\* The run is then overtaken: the superseded turn's boundary decides its verdict.
RunOwnsLiveTurn == activeRun /\ ~overtaken => Len(turnStarts) = 1

\* A result of a turn is settled against that turn's own FIFO entry, whatever
\* turns the CLI ran ahead of it or merged it into (TurnStarts, 3526-3562).
BoundarySettlesOwnTurn ==
  channel # <<>> /\ Head(channel).type \in {"result", "error"} /\ phase = "running" =>
    IF Head(channel).of = CliStarted
    THEN turnStarts # <<>> => Head(turnStarts).external \/ Skipped
    ELSE /\ turnStarts # <<>> /\ ~Skipped
         /\ boundaryCount + 1 = Head(channel).of

\* An abort is recorded on the turn that was live when it was asked for, and on
\* no other: not on the superseded turn whose boundary comes first, nor on the
\* next one.
IntentReachesItsTurn ==
  /\ \A i \in 1..Len(metrics) :
       metrics[i] \in {"cancelled", "timeout"} <=> i \in aborted
  /\ \A i \in 1..Len(turnStarts) :
       turnStarts[i].intent # "none" <=> boundaryCount + i \in aborted

\* While idle, the triage list shows the outcome of the latest turn, and never
\* a summary next to a failed one (posture_settles; note A10 at 2230).
PostureIsLatest ==
  phase = "running" /\ rp.live /\ ~localRunning /\ turnSeq > 0 =>
    /\ posture.outcome = metrics[turnSeq]
    /\ posture.outcome \in {"errored", "timeout"} => ~posture.lastSnippet

\* "Turn done" is never pushed for a turn the user or the watchdog aborted.
NoFalseDonePush == \A p \in pushes : p.turn \notin aborted

\* When the CLI has nothing left to do or to say, the fan-out is idle: no
\* sequence of turns, merges and skips wedges the session in Running.
NeverWedged ==
  phase = "running" /\ cli.state = "idle" /\ channel = <<>>
    /\ (\A i \in 1..Len(stdin) : stdin[i].kind = "interrupt") => ~localRunning

\* While a prompt of ours is unread, running, or unanswered, the session shows
\* busy: the queue and the update gate rely on it.
NoEarlyIdle ==
  phase = "running" /\ ~localRunning =>
    /\ \A i \in 1..Len(stdin) : stdin[i].kind = "interrupt"
    /\ cli.state \notin {"own", "merged"}
    /\ \A i \in 1..Len(channel) : channel[i].of = CliStarted

\* The session shows busy exactly while the CLI owes it an answer: a merged,
\* skipped or doubled boundary neither wedges it nor frees it early.
BusyIffWork == NeverWedged /\ NoEarlyIdle

\* While its session exists every started turn ends, be it by the watchdog's
\* kill (liveness).
EveryTurnEnds == localRunning ~> (~localRunning \/ ~rp.live)

\* A collected prompt does not wait for ever: it is flushed, dropped by an
\* interrupt, or gone with the process or the session (liveness).
QueuedPromptLeaves == pending > 0 ~> (pending = 0 \/ ~rp.live)

-----------------------------------------------------------------------------
(* What comments of the source say, and the code does not keep *)

\* "an errored turn never pushes the previous summary" (3782-3783).
PushBodyIsOwn == \A p \in pushes : p.body \in {NoTurn, p.turn}

\* "local_running == false here, so this branch is currently dead" (3338-3340): the
\* run's prompt never finds a turn to supersede.
RunPromptFindsIdle == ~overtaken

\* "Dropping session closes event_tx + input_tx -> fan-out task exits" (2086):
\* a removed session's fan-out ends (liveness).
RemovedFanoutEnds == ~rp.live ~> phase = "ended"
=============================================================================
