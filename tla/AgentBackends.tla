----------------------------- MODULE AgentBackends -----------------------------
(***************************************************************************)
(* A session whose agent is reached over a protocol: its fan-out task and, *)
(* under it, either the event loop of a Codex MCP server (rmcp client,     *)
(* codex_process.rs) or that of a Kiro Crew Gateway slot (web socket and   *)
(* REST, crew_process.rs).  The two fan-outs are one program twice         *)
(* (session_manager.rs); they differ in where the resume token comes from. *)
(* Commands go down one channel, boundary events come up another; content  *)
(* blocks, texts and labels are left out, and a prompt is its number.      *)
(***************************************************************************)
EXTENDS Naturals, Sequences

CONSTANTS
    NoRef,        \* no thread, no slot, no turn
    MaxPrompts,   \* bound: prompts sent to the backend
    MaxQueue,     \* bound: prompts waiting in the fan-out
    MaxNotes,     \* bound: notifications waiting (1024 in the code)
    MaxRefs,      \* bound: threads or slots ever made
    MaxErrors,    \* bound: error notifications, and lost connections
    MaxCmds       \* bound: commands waiting (16 in the code)

ASSUME BoundsAssumption ==
    /\ {MaxPrompts, MaxQueue, MaxNotes, MaxRefs, MaxErrors, MaxCmds} \subseteq Nat
    /\ MaxRefs > 0 /\ NoRef \notin Nat

VARIABLES
    backend,  \* which of the two the session uses
    stage,    \* the session: being made, in the map, or not running
    token,    \* its resume token
    fan,      \* the fan-out's locals
    cmds,     \* the channel down
    events,   \* the channel up
    loop,     \* the event loop: where it is, and its thread or slot
    remote,   \* the other side: what it made and what it works on
    faults,   \* errors and disconnections so far
    killing,  \* a kill was accepted by this life's fan-out
    said,     \* history: thread of the last result, while nothing broke it off
    lost,     \* history: a Crew prompt was not delivered, or one of two broken off
    shifted   \* history: a boundary of no turn of this life has settled one

vars == <<backend, stage, token, fan, cmds, events, loop, remote, faults, killing,
          said, lost, shifted>>

Prompts == 1..MaxPrompts
Refs    == 1..MaxRefs
IsCodex == backend = "codex"
IsCrew  == backend = "crew"
OldTurn == 0  \* a turn of the slot, asked for in an earlier life

FreshFan == [seq |-> 0, running |-> FALSE, bound |-> 0, starts |-> <<>>, pending |-> 0,
             window |-> FALSE, mode |-> "collect", saved |-> FALSE]
NoCall == [id |-> 0, ref |-> NoRef]
(* pc: codex "idle" or "turn", crew "up" or "down", "ended" for both; text *)
(* is NormState's turn_text: the first turn that it has chunks of.         *)
FreshLoop(pc, ref) == [pc |-> pc, ref |-> ref, call |-> NoCall, notes |-> <<>>,
                       posts |-> <<>>, text |-> 0]

TypeOK ==
    /\ backend \in {"codex", "crew"} /\ stage \in {"making", "listed", "down"}
    /\ token \in Refs \cup {NoRef}
    /\ fan.seq \in 0..MaxPrompts /\ fan.bound \in 0..MaxPrompts
    /\ Len(fan.starts) <= MaxPrompts /\ fan.pending \in 0..MaxQueue
    /\ {fan.running, fan.window, fan.saved, killing} \subseteq BOOLEAN
    /\ fan.mode \in {"collect", "interrupt"}
    /\ Len(cmds) <= MaxCmds
    /\ \A i \in DOMAIN events : events[i].ref \in Refs \cup {NoRef}
    /\ loop.pc \in {"idle", "turn", "up", "down", "ended"}
    /\ loop.ref \in Refs \cup {NoRef} /\ loop.text \in 0..MaxPrompts
    /\ Len(loop.notes) <= MaxNotes /\ loop.posts \in Seq(Prompts)
    /\ remote.made \in 0..MaxRefs /\ remote.alive \subseteq Refs
    /\ remote.ghosts \subseteq Refs /\ remote.turns \in Seq(Prompts \cup {OldTurn})
    /\ remote.prompts \in 0..MaxPrompts /\ remote.late \in Nat
    /\ faults \in 0..MaxErrors
    /\ said \in Refs \cup {NoRef} /\ {lost, shifted} \subseteq BOOLEAN

Event(kind, id) == [kind |-> kind, id |-> id, ref |-> NoRef, waiting |-> FALSE, text |-> 0]
Emit(e) == events' = Append(events, e)

(* Which side of the program a step leaves alone.                          *)
FanSame    == UNCHANGED <<stage, token, fan, killing, shifted>>
Constant   == UNCHANGED backend
History    == UNCHANGED <<said, lost>>

-----------------------------------------------------------------------------
(* spawn_codex, spawn_crew.  The fan-out runs before create_*_session has  *)
(* written the row and put the session into the map.                       *)

Spawned(pc, ref) ==
    /\ fan' = FreshFan /\ cmds' = <<>> /\ killing' = FALSE
    /\ lost' = FALSE /\ shifted' = FALSE
    /\ loop' = FreshLoop(pc, ref)
    /\ events' = <<[Event("init", 0) EXCEPT !.ref = IF IsCrew THEN ref ELSE NoRef]>>

NewSlot == IF IsCrew THEN [remote EXCEPT !.made = @ + 1, !.alive = @ \cup {remote.made + 1},
                                         !.turns = <<>>, !.late = 0]
                     ELSE remote

Init ==
    /\ backend \in {"codex", "crew"} /\ stage = "making" /\ token = NoRef
    /\ fan = FreshFan /\ cmds = <<>> /\ killing = FALSE
    /\ loop = IF IsCrew THEN FreshLoop("up", 1) ELSE FreshLoop("idle", NoRef)
    /\ events = <<[Event("init", 0) EXCEPT !.ref = IF IsCrew THEN 1 ELSE NoRef]>>
    /\ remote = [made |-> IF IsCrew THEN 1 ELSE 0, alive |-> IF IsCrew THEN {1} ELSE {},
                 ghosts |-> {}, turns |-> <<>>, prompts |-> 0, late |-> 0]
    /\ faults = 0 /\ said = NoRef /\ lost = FALSE /\ shifted = FALSE

Insert ==
    /\ stage = "making" /\ stage' = "listed"
    /\ UNCHANGED <<backend, token, fan, cmds, events, loop, remote, faults, killing,
                   said, lost, shifted>>

(* ensure_running: resume by the token; a Crew slot that is gone is        *)
(* replaced by a fresh one, and the token that named it is dropped.        *)
EnsureCodex ==
    /\ IsCodex /\ stage = "down" /\ stage' = "listed"
    /\ Spawned("idle", token) /\ remote' = [remote EXCEPT !.ghosts = {}]
    /\ said' = NoRef
    /\ UNCHANGED <<backend, token, faults>>

EnsureCrew ==
    /\ IsCrew /\ stage = "down" /\ stage' = "listed"
    /\ \/ /\ token \in remote.alive
          /\ Spawned("up", token) /\ UNCHANGED <<token, remote>>
       \/ /\ token \notin remote.alive /\ remote.made < MaxRefs
          /\ remote' = NewSlot /\ Spawned("up", remote.made + 1) /\ token' = NoRef
    /\ UNCHANGED <<backend, faults, said>>

-----------------------------------------------------------------------------
(* The fan-out takes an event.  set_resume_token does nothing for a        *)
(* session that is not in the map, but the fan-out has saved its token.    *)

CrewSlotKey(e)   == IF e.kind \in {"init", "result"} THEN e.ref ELSE NoRef
CodexThreadId(e) == IF e.kind = "result" THEN e.ref ELSE NoRef

IsBoundary(e) == e.kind \in {"result", "error", "exit"}
Behind(f) == f.bound + 1 < f.seq
Counted(f) ==
    LET popped == [f EXCEPT !.starts = IF @ = <<>> THEN @ ELSE Tail(@)]
        after  == IF Behind(f) THEN [popped EXCEPT !.bound = @ + 1]
                  ELSE [popped EXCEPT !.bound = f.seq, !.running = FALSE]
    IN [after EXCEPT !.window = @ \/ (~after.running /\ after.pending > 0)]

TakeEvent(Id(_)) ==
    /\ events # <<>> /\ stage # "down"
    /\ LET e == Head(events)
           backfill == ~fan.saved /\ Id(e) # NoRef
           f == [fan EXCEPT !.saved = @ \/ backfill]
       IN /\ token' = IF backfill /\ stage = "listed" THEN Id(e) ELSE token
          /\ fan' = IF IsBoundary(e) THEN Counted(f) ELSE f
          /\ shifted' = (shifted \/ (e.kind \in {"result", "error"} /\ e.id = 0
                                      /\ ~e.waiting /\ fan.starts # <<>>))
    /\ events' = Tail(events)
    /\ UNCHANGED <<backend, stage, cmds, loop, remote, faults, killing, said, lost>>

CodexTakesEvent == IsCodex /\ TakeEvent(CodexThreadId)
CrewTakesEvent  == IsCrew /\ TakeEvent(CrewSlotKey)

(* The channels are closed: mark_fanout_ended, and the process is dropped. *)
(* A slot of our own is deleted; one that is not ours, or whose DELETE does*)
(* not get through, works on, and the worker posts what it still holds.    *)
Deleted == [remote EXCEPT !.alive = IF IsCrew THEN @ \ {loop.ref} ELSE @,
                          !.turns = <<>>, !.late = 0]
Survives == [remote EXCEPT !.turns = [i \in DOMAIN @ |-> OldTurn],
                           !.late = @ + Len(loop.posts)]
FanEnds ==
    /\ stage = "listed" /\ events = <<>> /\ loop.pc = "ended"
    /\ stage' = "down" /\ killing' = FALSE /\ fan' = FreshFan /\ cmds' = <<>>
    /\ loop' = [loop EXCEPT !.posts = <<>>]
    /\ remote' = Deleted \/ (IsCrew /\ remote' = Survives)
    /\ UNCHANGED <<backend, token, events, faults, said, lost, shifted>>

-----------------------------------------------------------------------------
(* The fan-out takes an input.  A prompt starts a turn at once, waits in   *)
(* the queue, or breaks off the turn that runs, as the queue mode says.    *)
(* When the loop has ended, what is sent to it is lost.                    *)

Serving == stage = "listed"
Room(n) == Len(cmds) + n <= MaxCmds /\ remote.prompts < MaxPrompts
Cancel == [kind |-> "cancel", id |-> 0]
Next_Id == remote.prompts + 1

Start(f) == [f EXCEPT !.seq = @ + 1, !.running = TRUE, !.starts = Append(@, Next_Id),
                      !.pending = 0, !.window = FALSE]
Send(before) ==
    /\ Room(Len(before) + 1) /\ fan' = Start(fan)
    /\ cmds' = IF loop.pc = "ended" THEN cmds
               ELSE cmds \o before \o <<[kind |-> "prompt", id |-> Next_Id]>>
    /\ remote' = [remote EXCEPT !.prompts = Next_Id]
Idle == UNCHANGED <<backend, stage, token, events, loop, faults, killing, said, lost, shifted>>

PromptAtOnce == Serving /\ ~fan.running /\ ~fan.window /\ Send(<<>>) /\ Idle
PromptInterrupts ==
    Serving /\ fan.running /\ fan.mode = "interrupt" /\ Send(<<Cancel>>) /\ Idle
PromptWaits ==
    /\ Serving /\ fan.pending < MaxQueue
    /\ IF fan.running THEN fan.mode = "collect" ELSE fan.window
    /\ fan' = [fan EXCEPT !.pending = @ + 1]
    /\ UNCHANGED <<cmds, remote>> /\ Idle
WindowEnds == Serving /\ fan.window /\ Send(<<>>) /\ Idle

SetMode ==
    /\ Serving /\ fan' = [fan EXCEPT !.mode = IF @ = "collect" THEN "interrupt" ELSE "collect"]
    /\ UNCHANGED <<cmds, remote>> /\ Idle

Interrupt ==
    /\ Serving /\ Len(cmds) < MaxCmds
    /\ cmds' = IF fan.running /\ loop.pc # "ended" THEN Append(cmds, Cancel) ELSE cmds
    /\ fan' = [fan EXCEPT !.pending = 0, !.window = FALSE]
    /\ UNCHANGED remote /\ Idle

(* Cancel and TimeoutKill.  A second one changes nothing more.             *)
Kill ==
    /\ Serving /\ ~killing /\ Len(cmds) < MaxCmds /\ loop.pc # "ended"
    /\ cmds' = Append(cmds, [kind |-> "stop", id |-> 0]) /\ killing' = TRUE
    /\ UNCHANGED <<backend, stage, token, fan, events, loop, remote, faults, said, lost, shifted>>

-----------------------------------------------------------------------------
(* Codex: the event loop.  Both of its selects are biased towards commands.*)

Takes(kind) == cmds # <<>> /\ Head(cmds).kind = kind /\ cmds' = Tail(cmds)
(* The loop ends, and what is still in its channel is gone with it.        *)
TakesStop == cmds # <<>> /\ Head(cmds).kind = "stop" /\ cmds' = <<>>

CodexPrompt ==
    /\ loop.pc = "idle" /\ Takes("prompt")
    /\ loop' = [loop EXCEPT !.pc = "turn", !.notes = <<>>,
                            !.call = [id |-> Head(cmds).id, ref |-> loop.ref]]
    /\ UNCHANGED <<events, remote, faults>> /\ FanSame /\ Constant /\ History

CodexIdleCancel ==
    /\ loop.pc = "idle" /\ Takes("cancel")
    /\ UNCHANGED <<events, loop, remote, faults>> /\ FanSame /\ Constant /\ History

CodexStop ==
    /\ loop.pc \in {"idle", "turn"} /\ TakesStop
    /\ Emit(Event("exit", loop.call.id))
    /\ loop' = [loop EXCEPT !.pc = "ended"]
    /\ UNCHANGED <<remote, faults>> /\ FanSame /\ Constant /\ History

(* mutant: the cancelled call just ends                                    *)
CancelEventSilent == events' = events

CancelEvent == Emit(Event("error", loop.call.id))

(* The call is dropped, the server goes on with it.                        *)
CodexCancel ==
    /\ loop.pc = "turn" /\ Takes("cancel")
    /\ CancelEvent
    /\ loop' = [loop EXCEPT !.pc = "idle", !.call = NoCall]
    /\ remote' = [remote EXCEPT !.ghosts = @ \cup ({loop.call.ref} \ {NoRef})]
    /\ said' = NoRef
    /\ UNCHANGED <<faults, lost>> /\ FanSame /\ Constant

(* Not delivered; only a content block tells the user.                     *)
CodexRefuses ==
    /\ loop.pc = "turn" /\ Takes("prompt")
    /\ UNCHANGED <<events, loop, remote, faults>> /\ FanSame /\ Constant /\ History

(* A notification during a turn: the thread is taken from it.              *)
CodexTurnNote ==
    /\ loop.pc = "turn" /\ cmds = <<>> /\ loop.notes # <<>>
    /\ LET n == Head(loop.notes)
       IN loop' = [loop EXCEPT !.notes = Tail(@), !.ref = IF n.ref # NoRef THEN n.ref ELSE @]
    /\ UNCHANGED <<cmds, events, remote, faults>> /\ FanSame /\ Constant /\ History

(* mutant: a late chunk's thread is taken between the turns, too           *)
StaleRefTaken(n) == IF n.ref # NoRef THEN n.ref ELSE loop.ref

StaleRef(n) == loop.ref

(* mutant: an unbiased select                                              *)
OuterTurnAny == loop.pc = "idle"

OuterTurn == loop.pc = "idle" /\ cmds = <<>>

CodexIdleNote ==
    /\ OuterTurn /\ loop.notes # <<>>
    /\ LET n == Head(loop.notes)
       IN /\ loop' = [loop EXCEPT !.notes = Tail(@), !.ref = StaleRef(n)]
          /\ IF n.kind = "error"
             THEN Emit([Event("error", 0) EXCEPT !.waiting = cmds # <<>>])
             ELSE UNCHANGED events
    /\ UNCHANGED <<cmds, remote, faults>> /\ FanSame /\ Constant /\ History

(* call_tool returns: the thread it ran in, or nothing usable, or an error,*)
(* which may say that the thread is not known.  A turn that fails after a  *)
(* late chunk of an abandoned thread leaves the session in that thread.    *)
CallOver == loop.pc = "turn" /\ cmds = <<>> /\ loop.notes = <<>>
CodexResult ==
    /\ CallOver /\ loop.call.ref # NoRef /\ loop.call.ref \in remote.alive
    /\ Emit([Event("result", loop.call.id) EXCEPT !.ref = loop.call.ref])
    /\ loop' = [loop EXCEPT !.pc = "idle", !.call = NoCall, !.ref = loop.call.ref]
    /\ said' = loop.call.ref
    /\ UNCHANGED <<cmds, remote, faults, lost>> /\ FanSame /\ Constant

CodexError(unknown) ==
    /\ CallOver /\ (unknown => loop.call.ref \notin remote.alive \cup {NoRef})
    /\ Emit(Event("error", loop.call.id))
    /\ loop' = [loop EXCEPT !.pc = "idle", !.call = NoCall, !.ref = IF unknown THEN NoRef ELSE @]
    /\ said' = IF unknown \/ loop.ref # loop.call.ref THEN NoRef ELSE said
    /\ UNCHANGED <<cmds, remote, faults, lost>> /\ FanSame /\ Constant

(* The server: opens a thread, streams with the thread's id (abandoned     *)
(* calls do, too), notifies of an error, forgets its threads.              *)
ServerOpens ==
    /\ loop.pc = "turn" /\ loop.call.ref = NoRef /\ remote.made < MaxRefs
    /\ remote' = [remote EXCEPT !.made = @ + 1, !.alive = @ \cup {remote.made + 1}]
    /\ loop' = [loop EXCEPT !.call.ref = remote.made + 1]
    /\ UNCHANGED <<cmds, events, faults>> /\ FanSame /\ Constant /\ History

Streaming == remote.ghosts \cup (IF loop.pc = "turn" THEN {loop.call.ref} ELSE {})
ServerNotes(n) ==
    /\ IsCodex /\ stage = "listed" /\ loop.pc # "ended" /\ Len(loop.notes) < MaxNotes
    /\ \/ n.kind = "text" /\ n.ref \in Streaming \cap remote.alive /\ UNCHANGED faults
       \/ n.kind = "error" /\ n.ref = NoRef /\ faults < MaxErrors /\ faults' = faults + 1
    /\ loop' = [loop EXCEPT !.notes = Append(@, n)]
    /\ UNCHANGED <<cmds, events, remote>> /\ FanSame /\ Constant /\ History

ServerForgets ==
    /\ IsCodex /\ stage = "down" /\ remote.alive # {}
    /\ remote' = [remote EXCEPT !.alive = {}]
    /\ UNCHANGED <<cmds, events, loop, faults>> /\ FanSame /\ Constant /\ History

Notes == [kind: {"text", "error"}, ref: Refs \cup {NoRef}]
CodexStep ==
    /\ IsCodex
    /\ \/ CodexPrompt \/ CodexIdleCancel \/ CodexStop \/ CodexCancel \/ CodexRefuses
       \/ CodexTurnNote \/ CodexIdleNote \/ CodexResult
       \/ \E unknown \in BOOLEAN : CodexError(unknown)

-----------------------------------------------------------------------------
(* Crew: the event loop.  Prompts go to a worker that posts one at a time. *)

CrewSame == UNCHANGED <<faults, said>> /\ FanSame /\ Constant

CrewPrompt ==
    /\ loop.pc = "up" /\ Takes("prompt")
    /\ loop' = [loop EXCEPT !.posts = Append(@, Head(cmds).id)]
    /\ UNCHANGED <<events, remote, lost>> /\ CrewSame

(* post_prompt; when it fails there is a line in the log.  The worker goes *)
(* on after the event loop has ended.                                      *)
CrewPosts ==
    /\ IsCrew /\ loop.posts # <<>>
    /\ loop' = [loop EXCEPT !.posts = Tail(@)]
    /\ \/ /\ loop.ref \in remote.alive /\ UNCHANGED lost
          /\ remote' = [remote EXCEPT !.turns = Append(@, Head(loop.posts))]
       \/ lost' = TRUE /\ UNCHANGED remote
    /\ UNCHANGED <<cmds, events>> /\ CrewSame

(* The worker of an earlier life has a prompt left for the slot.           *)
LatePosts ==
    /\ IsCrew /\ remote.late > 0
    /\ \/ /\ loop.ref \in remote.alive
          /\ remote' = [remote EXCEPT !.late = @ - 1, !.turns = Append(@, OldTurn)]
       \/ remote' = [remote EXCEPT !.late = @ - 1]
    /\ UNCHANGED <<cmds, events, loop, lost>> /\ CrewSame

(* stop_turn, on a task of its own: whatever turn runs by then ends.       *)
CrewCancel ==
    /\ loop.pc = "up" /\ Takes("cancel")
    /\ UNCHANGED <<events, loop, remote, lost>> /\ CrewSame

CrewStop ==
    /\ loop.pc \in {"up", "down"} /\ TakesStop
    /\ Emit(Event("exit", 0)) /\ loop' = [loop EXCEPT !.pc = "ended"]
    /\ UNCHANGED <<remote, lost>> /\ CrewSame

(* mutant: while it waits it drops every command, the stop with them       *)
DroppedAll == {"prompt", "cancel", "stop"}

Dropped == {"prompt", "cancel"}

(* sleep_or_stop                                                           *)
CrewDrops ==
    /\ IsCrew /\ loop.pc = "down"
    /\ cmds # <<>> /\ Head(cmds).kind \in Dropped /\ cmds' = Tail(cmds)
    /\ lost' = (lost \/ Head(cmds).kind = "prompt")
    /\ UNCHANGED <<events, loop, remote>> /\ CrewSame

(* mutant: reconnect without a word                                        *)
BrokenEventSilent == events' = events

BrokenEvent == Emit(Event("error", 0))

(* The socket breaks, or a new one cannot be had: Error, then back off.    *)
CrewBreaks ==
    /\ IsCrew /\ loop.pc \in {"up", "down"} /\ faults < MaxErrors
    /\ faults' = faults + 1
    /\ BrokenEvent /\ loop' = [loop EXCEPT !.pc = "down"]
    /\ lost' = (lost \/ Len(fan.starts) > 1)
    /\ UNCHANGED <<cmds, remote, said>> /\ FanSame /\ Constant

CrewReconnects ==
    /\ IsCrew /\ loop.pc = "down"
    /\ IF loop.ref \in remote.alive
       THEN loop' = [loop EXCEPT !.pc = "up"] /\ UNCHANGED <<events, cmds>>
       ELSE /\ events' = events \o <<Event("error", 0), Event("exit", 0)>>
            /\ loop' = [loop EXCEPT !.pc = "ended"] /\ cmds' = <<>>
    /\ UNCHANGED <<remote, lost>> /\ CrewSame

(* The Gateway works on one turn at a time; its frames are broadcast, and  *)
(* one sent while the socket is down is not seen.                          *)
GatewayChunk ==
    /\ IsCrew /\ remote.turns # <<>> /\ loop.pc = "up"
    /\ loop.text = 0 /\ loop' = [loop EXCEPT !.text = Head(remote.turns)]
    /\ UNCHANGED <<cmds, events, remote, lost>> /\ CrewSame

(* mutant: an error leaves the turn's text for the next turn's result      *)
TextAfterKept(kind) == IF kind = "error" THEN loop.text ELSE 0

TextAfter(kind) == 0

(* The turn, if it is another one, whose text the result tells.            *)
Foreign == IF loop.text = Head(remote.turns) THEN 0 ELSE loop.text

GatewayEnds(kind) ==
    /\ IsCrew /\ remote.turns # <<>>
    /\ remote' = [remote EXCEPT !.turns = Tail(@)]
    /\ IF loop.pc = "up"
       THEN /\ Emit([Event(kind, Head(remote.turns)) EXCEPT
                       !.ref = IF kind = "result" THEN loop.ref ELSE NoRef,
                       !.text = IF kind = "result" THEN Foreign ELSE 0])
            /\ loop' = [loop EXCEPT !.text = TextAfter(kind)] /\ UNCHANGED lost
       ELSE UNCHANGED <<events, loop, lost>>
    /\ UNCHANGED cmds /\ CrewSame

(* Somebody deletes the slot in the Gateway's own dashboard, or the DELETE *)
(* of an earlier life arrives after the session was resumed.               *)
GatewayForgets ==
    /\ IsCrew /\ loop.ref \in remote.alive /\ faults < MaxErrors /\ faults' = faults + 1
    /\ remote' = [remote EXCEPT !.alive = @ \ {loop.ref}, !.turns = <<>>]
    /\ lost' = (lost \/ remote.turns # <<>>)
    /\ UNCHANGED <<cmds, events, loop, said>> /\ FanSame /\ Constant

CrewStep ==
    /\ IsCrew
    /\ \/ CrewPrompt \/ CrewCancel \/ CrewStop \/ CrewDrops \/ CrewReconnects \/ CrewPosts
       \/ LatePosts

-----------------------------------------------------------------------------
TakesEvent == CodexTakesEvent \/ CrewTakesEvent

Next ==
    \/ Insert \/ EnsureCodex \/ EnsureCrew \/ TakesEvent \/ FanEnds
    \/ PromptAtOnce \/ PromptInterrupts \/ PromptWaits \/ WindowEnds \/ SetMode
    \/ Interrupt \/ Kill
    \/ CodexStep \/ ServerOpens \/ ServerForgets \/ \E n \in Notes : ServerNotes(n)
    \/ CrewStep \/ CrewBreaks \/ GatewayChunk \/ GatewayForgets
    \/ \E kind \in {"result", "error"} : GatewayEnds(kind)

Spec == Init /\ [][Next]_vars

(* The program's own tasks go on; users and the other side owe nothing.    *)
FairSpec == /\ Spec /\ WF_vars(Insert) /\ WF_vars(TakesEvent) /\ WF_vars(FanEnds)
            /\ WF_vars(CodexStep) /\ WF_vars(CrewStep)

-----------------------------------------------------------------------------
(* Safety: a session the fan-out holds for busy waits for something that   *)
(* is still to come - its prompt on the way, a call or a turn at work, a   *)
(* boundary in the channel - whatever interrupts, stray errors and lost    *)
(* connections did to the counting of boundaries; a Crew turn can hang     *)
(* only when a prompt was not delivered, or a turn that another one        *)
(* superseded when the connection broke (session_manager.rs 4140-4160,     *)
(* codex_process.rs 572-592, crew_process.rs 604-614).                     *)
BusyHasCause ==
    fan.running /\ loop.pc # "ended" =>
        \/ \E i \in DOMAIN cmds : cmds[i].kind # "cancel"
        \/ \E i \in DOMAIN events : IsBoundary(events[i])
        \/ loop.call # NoCall \/ loop.posts # <<>> \/ remote.turns # <<>>
        \/ IsCrew /\ lost

(* Safety, over time: the boundary of a turn settles the turn it is of,    *)
(* cancelled or not; only a boundary of no turn of this life, or a loss,   *)
(* shifts the counting: an error left over from a Codex turn or of a lost  *)
(* Gateway connection, for a turn whose prompt was not waiting when the    *)
(* loop came upon it; and the end of an earlier life's turn on a Crew slot *)
(* that survived it, which a resumed session takes for its own, as frames  *)
(* name the slot only (session_manager.rs 4150-4200, codex_process.rs      *)
(* 498-511, crew_process.rs 147-168, 646, 671-677, 741-765).               *)
BoundaryOwnTurn ==
    [][TakesEvent /\ Head(events).id # 0 /\ ~shifted /\ ~lost
          => fan.starts # <<>> /\ Head(fan.starts) = Head(events).id]_vars

(* Safety, over time: a prompt that follows a completed Codex turn goes on *)
(* in that turn's thread, in spite of late chunks of threads abandoned     *)
(* before; unless a turn between them was cancelled, lost its thread, or   *)
(* failed with such a chunk read in the middle of it (codex_process.rs     *)
(* 516-545, 666-690, 771-775, 845-863).                                    *)
ReplyContinues ==
    [][CodexPrompt /\ said # NoRef => loop'.call.ref = said]_vars

(* Liveness: a session that is killed ends, in the middle of a turn or of  *)
(* a reconnection (codex_process.rs 593-602, crew_process.rs 485-497).     *)
KillEnds == killing ~> stage = "down"

(* Safety: the text of a result is that of its own turn, after failed      *)
(* turns as well, as long as the connection held; half a turn's text from  *)
(* before a break is told again with a later turn (crew_process.rs         *)
(* 147-173, 604-614).                                                      *)
ResultOwnText ==
    faults = 0 => \A i \in DOMAIN events : events[i].text = 0

(* What the other side sends is taken for what it belongs to.              *)
ResultsBelong == [](TypeOK /\ ResultOwnText) /\ BoundaryOwnTurn
===============================================================================
