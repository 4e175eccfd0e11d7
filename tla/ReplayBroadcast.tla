------------------------- MODULE ReplayBroadcast -------------------------
(***************************************************************************)
(* What a browser tab sees of a session: the scrollback every recorded     *)
(* event goes to, the broadcast channel every message goes to, and the     *)
(* WebSocket handler (acp/ws_handler.rs) that takes a snapshot of the one  *)
(* and a receiver of the other under one lock, replays the snapshot, reads *)
(* the live turn state and queue mode for `replay_done`, and then forwards *)
(* the channel.  At the other end is the tab's own state (useAcpSocket.ts):*)
(* whether a turn is shown as running and which queue mode it assumes.     *)
(* The fan-out is here with what the tabs can observe of it: the echo of a *)
(* prompt, the turn's blocks and its boundary, the queue of collected      *)
(* prompts, and the steps BETWEEN a broadcast and the mirror's update.     *)
(* TurnFanout has the rest of it.                                          *)
(*                                                                         *)
(* A message on its way through the socket is a message the handler has    *)
(* not taken from its receiver yet; a tab sends nothing before it is live. *)
(* The process does not die here (SessionLifecycle, TurnFanout).           *)
(***************************************************************************)
EXTENDS Naturals, Sequences, FiniteSets, TLC, SequencesExt

CONSTANTS
    Clients,        \* browser tabs on the session
    Capacity,       \* messages the broadcast channel keeps (512)
    Room,           \* what the scrollback may weigh (2 MB)
    MaxPrompts,     \* bound: prompts the tabs send
    MaxRecords,     \* bound: recorded events
    MaxCommands,    \* bound: changes of the queue mode and interrupts
    MaxConnects     \* bound: connections of all tabs

\* Both capacities are positive constants of the code.
ASSUME ReplayAssumption ==
    /\ Capacity \in Nat \ {0} /\ Room \in Nat \ {0}
    /\ {MaxPrompts, MaxRecords, MaxCommands, MaxConnects} \subseteq Nat

VARIABLES
    fan,        \* the fan-out task's locals, and where it is between two awaits
    mirror,     \* RunningProcess.turn_state and .queue_mode, read by the handlers
    log,        \* Session.scrollback
    recorded,   \* events recorded so far (ghost: the scrollback's eldest may be gone)
    chan,       \* what the channel retains of the messages sent
    sent,       \* messages sent on the channel so far
    inputs,     \* the session's input channel
    tabs,       \* each tab and the handler that serves it
    used        \* the bounds' counters

vars == <<fan, mirror, log, recorded, chan, sent, inputs, tabs, used>>

Modes == {"collect", "interrupt", "passthrough"}

\* QueueMode::effective for an ACP backend.
Effective(m) == IF m = "passthrough" THEN "collect" ELSE m

(***************************************************************************)
(* State a tab has when it is not connected: onclose, and onopen's reset.  *)
(***************************************************************************)
Offline == [conn |-> "off", todo |-> <<>>, had |-> FALSE, at |-> 0, seen |-> 0,
            busy |-> FALSE, mode |-> "collect", ran |-> FALSE,
            lagged |-> FALSE, skipped |-> FALSE, again |-> FALSE,
            joined |-> 0, cleared |-> FALSE, raced |-> FALSE]

Init ==
    /\ fan = [pc |-> "free", turn |-> 0, bounds |-> 0, running |-> FALSE,
              mode |-> "collect", queue |-> 0, window |-> FALSE, dropped |-> FALSE]
    /\ mirror = [running |-> FALSE, mode |-> "collect"]
    /\ log = <<>> /\ recorded = 0 /\ chan = <<>> /\ sent = 0 /\ inputs = <<>>
    /\ tabs = [c \in Clients |-> Offline]
    /\ used = [prompts |-> 0, commands |-> 0, connects |-> 0]

----------------------------------------------------------------------------
(* The broadcast channel and the scrollback.                               *)

LastN(s, n) == IF Len(s) <= n THEN s ELSE SubSeq(s, Len(s) - n + 1, Len(s))

\* broadcast::send: the eldest message makes room; no receiver is no error.
Send(m) == chan' = LastN(Append(chan, m), Capacity) /\ sent' = sent + 1

Weight(s) == FoldLeft(LAMBDA w, e : w + e.weight, 0, s)

(* mutant: the tail may go, too *)
FitEmptied(s) ==
    LET k == CHOOSE k \in 1..(Len(s) + 1) :
                 /\ Weight(SubSeq(s, k, Len(s))) <= Room
                 /\ \A j \in 1..(k - 1) : Weight(SubSeq(s, j, Len(s))) > Room
    IN  SubSeq(s, k, Len(s))

\* Evicted from the front while over the cap, but never the event just recorded.
Fit(s) ==
    LET fits(k) == k = Len(s) \/ Weight(SubSeq(s, k, Len(s))) <= Room
        k == CHOOSE k \in 1..Len(s) : fits(k) /\ \A j \in 1..(k - 1) : ~fits(j)
    IN  SubSeq(s, k, Len(s))

\* emit: record_and_broadcast, under the sessions lock.
Record(kind, of, weight) ==
    LET e == [n |-> recorded + 1, kind |-> kind, of |-> of, weight |-> weight]
    IN  /\ recorded < MaxRecords /\ recorded' = recorded + 1
        /\ log' = Fit(Append(log, e))
        /\ Send(e)

Signal(kind, mode) == [n |-> 0, kind |-> kind, mode |-> mode]

----------------------------------------------------------------------------
(* The fan-out.                                                            *)

Take(k) == fan.pc = "free" /\ inputs # <<>> /\ Head(inputs).kind = k /\ inputs' = Tail(inputs)

\* The prompt is echoed; it starts a turn unless it is collected.
TakePrompt ==
    /\ Take("prompt")
    /\ Record("prompt", fan.turn + 1, 1)
    /\ LET interrupts == fan.running /\ fan.mode = "interrupt"
           collected == ~interrupts /\ (fan.running \/ fan.window)
       IN  fan' = IF collected THEN [fan EXCEPT !.queue = @ + 1, !.pc = "queued"]
                  ELSE [fan EXCEPT !.turn = @ + 1, !.running = TRUE, !.pc = "mark",
                                   !.queue = IF interrupts THEN 0 ELSE @]
    /\ UNCHANGED <<mirror, tabs, used>>

\* emit_queued: a hint, never recorded.
TellQueued ==
    /\ fan.pc = "queued"
    /\ Send(Signal("queued", fan.mode))
    /\ fan' = [fan EXCEPT !.pc = "free"]
    /\ UNCHANGED <<mirror, log, recorded, inputs, tabs, used>>

\* mark_turn(Running), then the prompt goes to the agent.
MarkRunning ==
    /\ fan.pc = "mark"
    /\ mirror' = [mirror EXCEPT !.running = TRUE]
    /\ fan' = [fan EXCEPT !.pc = "free"]
    /\ UNCHANGED <<log, recorded, chan, sent, inputs, tabs, used>>

\* The agent works on the eldest turn it has not ended.
Block ==
    /\ fan.pc = "free" /\ fan.bounds < fan.turn
    /\ \E w \in {1, Room + 1} : Record("block", fan.bounds + 1, w)
    /\ UNCHANGED <<fan, mirror, inputs, tabs, used>>

\* The turn's result is emitted; the live turn's boundary goes on to settle it.
Boundary ==
    /\ fan.pc = "free" /\ fan.bounds < fan.turn
    /\ Record("result", fan.bounds + 1, 1)
    /\ fan' = [fan EXCEPT !.bounds = @ + 1, !.dropped = FALSE,
                          !.pc = IF fan.bounds + 1 = fan.turn THEN "settle" ELSE "free"]
    /\ UNCHANGED <<mirror, inputs, tabs, used>>

(* mutant: the mirror goes on saying Running *)
SettleUnmarked ==
    /\ fan.pc = "settle"
    /\ fan' = [fan EXCEPT !.running = FALSE, !.window = fan.queue > 0, !.pc = "free"]
    /\ UNCHANGED <<mirror, log, recorded, chan, sent, inputs, tabs, used>>

\* mark_turn(Idle) and, with prompts collected, the window is armed.
Settle ==
    /\ fan.pc = "settle"
    /\ mirror' = [mirror EXCEPT !.running = FALSE]
    /\ fan' = [fan EXCEPT !.running = FALSE, !.window = fan.queue > 0, !.pc = "free"]
    /\ UNCHANGED <<log, recorded, chan, sent, inputs, tabs, used>>

\* The collected prompts become one turn; nothing is emitted for it.
Flush ==
    /\ fan.pc = "free" /\ fan.window
    /\ fan' = [fan EXCEPT !.window = FALSE, !.queue = 0, !.turn = @ + 1, !.running = TRUE]
    /\ mirror' = [mirror EXCEPT !.running = TRUE]
    /\ UNCHANGED <<log, recorded, chan, sent, inputs, tabs, used>>

\* The agent's turn ends by itself; the collected prompts go in any case.
TakeInterrupt ==
    /\ Take("interrupt")
    /\ fan' = [fan EXCEPT !.queue = 0, !.window = FALSE, !.dropped = @ \/ fan.window]
    /\ UNCHANGED <<mirror, log, recorded, chan, sent, tabs, used>>

\* mark_queue_mode; the broadcast follows.
TakeMode ==
    /\ Take("mode")
    /\ LET m == Effective(Head(inputs).mode)
       IN  /\ fan' = [fan EXCEPT !.mode = m, !.pc = "tell"]
           /\ mirror' = [mirror EXCEPT !.mode = m]
    /\ UNCHANGED <<log, recorded, chan, sent, tabs, used>>

(* mutant: the change of mode is not broadcast *)
TellModeSilent ==
    /\ fan.pc = "tell"
    /\ fan' = [fan EXCEPT !.pc = "free"]
    /\ UNCHANGED <<mirror, log, recorded, chan, sent, inputs, tabs, used>>

\* emit_queue_mode.
TellMode ==
    /\ fan.pc = "tell"
    /\ Send(Signal("queue_mode", fan.mode))
    /\ fan' = [fan EXCEPT !.pc = "free"]
    /\ UNCHANGED <<mirror, log, recorded, inputs, tabs, used>>

----------------------------------------------------------------------------
(* A tab and the handler that serves it.                                   *)

\* What the page does with a message (useAcpSocket.handleEvent).  The ghosts
\* note an event shown twice or left out, and a turn's end taken for another's.
Show(t, m) ==
    CASE m.kind = "queue_mode" -> [t EXCEPT !.mode = m.mode]
      [] m.kind = "queued"     -> t
      [] OTHER ->
            [t EXCEPT !.again = @ \/ m.n <= t.seen,
                      !.skipped = @ \/ m.n > t.seen + 1,
                      !.seen = m.n,
                      !.busy = CASE m.kind = "block" -> TRUE
                                 [] m.kind = "result" -> FALSE
                                 [] OTHER -> @,
                      !.raced = @ /\ m.kind # "result",
                      !.joined = IF m.kind = "result" /\ m.of = @ THEN 0 ELSE @,
                      !.cleared = IF m.kind = "block" THEN FALSE
                                  ELSE @ \/ (m.kind = "result" /\ m.of < t.joined)]

(* mutant: the receiver is taken first, the snapshot after more was sent *)
SubscribeFrom(t, h) == [t EXCEPT !.todo = h, !.had = h # <<>>, !.at = IF sent = 0 THEN 0 ELSE sent - 1]

\* subscribe_with_history: the snapshot and the receiver, under one lock.
Subscribed(t, h) == [t EXCEPT !.todo = h, !.had = h # <<>>, !.at = sent]

Connect(c) ==
    /\ tabs[c].conn = "off" /\ used.connects < MaxConnects
    /\ tabs' = [tabs EXCEPT ![c] =
                   [Subscribed(Offline, log) EXCEPT
                       !.conn = IF log = <<>> THEN "live" ELSE "replay",
                       !.seen = IF log = <<>> THEN recorded ELSE Head(log).n - 1]]
    /\ used' = [used EXCEPT !.connects = @ + 1]
    /\ UNCHANGED <<fan, mirror, log, recorded, chan, sent, inputs>>

Replay(c) ==
    LET t == tabs[c]
    IN  /\ t.conn = "replay" /\ t.todo # <<>>
        /\ tabs' = [tabs EXCEPT ![c] = [Show(t, Head(t.todo)) EXCEPT !.todo = Tail(@)]]
        /\ UNCHANGED <<fan, mirror, log, recorded, chan, sent, inputs, used>>

\* turn_is_running, a lock of its own after the snapshot's.
ReadRunning(c) ==
    LET t == tabs[c]
    IN  /\ t.conn = "replay" /\ t.todo = <<>>
        /\ tabs' = [tabs EXCEPT ![c] =
                       [t EXCEPT !.conn = "asked", !.ran = mirror.running,
                                 !.joined = IF mirror.running THEN fan.turn ELSE 0,
                                 !.raced = fan.pc = "settle" /\ t.seen = recorded]]
        /\ UNCHANGED <<fan, mirror, log, recorded, chan, sent, inputs, used>>

(* mutant: a replay always ends the turn shown *)
BusyAfterReplayNever(ran) == FALSE

\* busyAfterReplay.
BusyAfterReplay(ran) == ran

\* queue_mode, read last, and the replay_done message with both.
ReplayDone(c) ==
    LET t == tabs[c]
    IN  /\ t.conn = "asked"
        /\ tabs' = [tabs EXCEPT ![c] =
                       [t EXCEPT !.conn = "live", !.busy = BusyAfterReplay(t.ran),
                                 !.mode = mirror.mode, !.ran = FALSE]]
        /\ UNCHANGED <<fan, mirror, log, recorded, chan, sent, inputs, used>>

\* A receiver that fell out of the window goes on with the eldest retained.
Forward(c) ==
    LET t == tabs[c]
        oldest == sent - Len(chan)
    IN  /\ t.conn = "live" /\ t.at < sent
        /\ tabs' = [tabs EXCEPT ![c] =
                       IF t.at < oldest THEN [t EXCEPT !.at = oldest, !.lagged = TRUE]
                       ELSE [Show(t, chan[t.at + 1 - oldest]) EXCEPT !.at = @ + 1]]
        /\ UNCHANGED <<fan, mirror, log, recorded, chan, sent, inputs, used>>

Disconnect(c) ==
    /\ tabs[c].conn # "off"
    /\ tabs' = [tabs EXCEPT ![c] = Offline]
    /\ UNCHANGED <<fan, mirror, log, recorded, chan, sent, inputs, used>>

Input(kind, mode) == inputs' = Append(inputs, [kind |-> kind, mode |-> mode])

\* sendPrompt: the tab shows a turn before the server has it.
SendPrompt(c) ==
    /\ tabs[c].conn = "live" /\ used.prompts < MaxPrompts
    /\ Input("prompt", "collect")
    /\ tabs' = [tabs EXCEPT ![c].busy = TRUE]
    /\ used' = [used EXCEPT !.prompts = @ + 1]
    /\ UNCHANGED <<fan, mirror, log, recorded, chan, sent>>

\* setQueueMode: adopted at once, as it was asked for.
SendMode(c) ==
    /\ tabs[c].conn = "live" /\ used.commands < MaxCommands
    /\ \E m \in Modes : Input("mode", m) /\ tabs' = [tabs EXCEPT ![c].mode = m]
    /\ used' = [used EXCEPT !.commands = @ + 1]
    /\ UNCHANGED <<fan, mirror, log, recorded, chan, sent>>

SendInterrupt(c) ==
    /\ tabs[c].conn = "live" /\ used.commands < MaxCommands
    /\ Input("interrupt", "collect")
    /\ used' = [used EXCEPT !.commands = @ + 1]
    /\ UNCHANGED <<fan, mirror, log, recorded, chan, sent, tabs>>

FanOut == \/ TakePrompt \/ TellQueued \/ MarkRunning \/ Block \/ Boundary \/ Settle
          \/ Flush \/ TakeInterrupt \/ TakeMode \/ TellMode

Tab(c) == \/ Connect(c) \/ Replay(c) \/ ReadRunning(c) \/ ReplayDone(c) \/ Forward(c)
          \/ Disconnect(c) \/ SendPrompt(c) \/ SendMode(c) \/ SendInterrupt(c)

Next == FanOut \/ \E c \in Clients : Tab(c)

\* The tabs are alike.
Alike == Permutations(Clients)

Spec == Init /\ [][Next]_vars

----------------------------------------------------------------------------
(* Properties.                                                             *)

Event == [n : 1..MaxRecords, kind : {"prompt", "block", "result"}, of : Nat, weight : Nat]
Message == Event \cup [n : {0}, kind : {"queued", "queue_mode"}, mode : Modes]

TypeOK ==
    /\ fan \in [pc : {"free", "queued", "mark", "settle", "tell"}, turn : Nat, bounds : Nat,
                running : BOOLEAN, mode : Modes, queue : Nat, window : BOOLEAN,
                dropped : BOOLEAN]
    /\ mirror \in [running : BOOLEAN, mode : Modes]
    /\ log \in Seq(Event) /\ recorded \in 0..MaxRecords
    /\ chan \in Seq(Message) /\ Len(chan) <= Capacity /\ sent \in Nat
    /\ inputs \in Seq([kind : {"prompt", "interrupt", "mode"}, mode : Modes])
    /\ \A c \in Clients : /\ tabs[c].conn \in {"off", "replay", "asked", "live"}
                          /\ tabs[c].todo \in Seq(Event)
                          /\ tabs[c].at \in 0..sent /\ tabs[c].seen \in 0..recorded
                          /\ tabs[c].mode \in Modes
                          /\ {tabs[c].busy, tabs[c].lagged} \subseteq BOOLEAN

CaughtUp(t) == t.conn = "live" /\ t.at = sent

\* Nothing on the way that will still change what the tabs are told.
Quiet == fan.pc = "free" /\ inputs = <<>>

\* A tab shows every event recorded since the eldest one it was given, each
\* once, wherever its connection fell between the fan-out's steps: an event is
\* in its replay or in its receiver, not in both and not in neither.  Only a
\* receiver the channel overtook misses any (record_and_broadcast with
\* subscribe_with_history).
EveryEventOnce ==
    \A c \in Clients : LET t == tabs[c] IN
        /\ ~t.again
        /\ t.skipped => t.lagged
        /\ CaughtUp(t) /\ ~t.lagged => t.seen = recorded

\* Whatever was recorded and whoever listened, a tab that connects now is given
\* the newest event, and what it is given has no hole; the scrollback is over
\* its cap only by that newest event (the eviction loop).
NewestReplayable ==
    recorded > 0 =>
        /\ log # <<>> /\ Last(log).n = recorded
        /\ \A i \in DOMAIN log : log[i].n = recorded - Len(log) + i
        /\ Weight(log) <= Room \/ Len(log) = 1

\* What the tabs were shown and what a new one will be: the history is whole.
HistoryIsWhole == TypeOK /\ EveryEventOnce /\ NewestReplayable

\* Whichever tab changed the mode and in whatever order the changes, the
\* broadcasts and the connections fell: a tab that was told the mode when it
\* connected and has taken every message assumes the fan-out's mode.
ModeAgrees ==
    \A c \in Clients : LET t == tabs[c] IN
        Quiet /\ CaughtUp(t) /\ t.had /\ ~t.lagged => t.mode = fan.mode

\* No tab shows a turn when there is none, running or to come.  Two cases are
\* left out, where the code does: prompts thrown away by an interrupt between
\* two turns (`dropped`), and a turn state read between the broadcast of the
\* last result and mark_turn(Idle) (`raced`).
NoPhantomBusy ==
    \A c \in Clients : LET t == tabs[c] IN
        /\ Quiet /\ CaughtUp(t) /\ ~t.lagged
        /\ ~fan.running /\ ~fan.window /\ ~fan.dropped /\ ~t.raced
        => ~t.busy

\* A tab that connected in the middle of a turn shows it until it ends, however
\* silent the agent is, unless the end of an older, interrupted turn came after
\* replay_done (acp/ws_handler.rs:116-121).
LiveTurnShown ==
    \A c \in Clients : LET t == tabs[c] IN
        /\ t.conn = "live" /\ t.joined > 0 /\ ~t.cleared
        /\ fan.turn = t.joined /\ fan.bounds < fan.turn
        => t.busy

\* The turn a tab shows is the turn there is.
BusyIsTrue == NoPhantomBusy /\ LiveTurnShown
=============================================================================
