------------------------- MODULE AgentBackends_proofs -------------------------
(***************************************************************************)
(* Proofs about AgentBackends, for any numbers of prompts, notifications,  *)
(* threads, errors and commands.                                           *)
(*                                                                         *)
(* Base is what every other argument stands on: types, the counting of     *)
(* boundaries, where each backend's loop may be.  ThreadInv, TextInv,      *)
(* PipeInv and BusyInv are inductive beside it, each for one property:     *)
(*  - the thread of the last completed turn is the loop's or the call's;   *)
(*  - what a loop and a channel hold of texts is their own turn's;         *)
(*  - the turns that started and did not settle stand in one line - down   *)
(*    the channel, among the posts, at work, up the channel - in the order *)
(*    they were counted in, until an error of no turn or a loss;           *)
(*  - as many boundaries, prompts that will be taken and turns at work are *)
(*    left as turns are counted, whatever such errors did.                 *)
(* A step belongs to the fan-out, to what sends down, to what takes an     *)
(* event, to the life of the session, to the Codex server or to one side   *)
(* of Crew (StepSorts); the lemmas of each invariant follow that sorting.  *)
(***************************************************************************)
EXTENDS AgentBackends, SequenceTheorems, FiniteSetTheorems, WellFoundedInduction, TLAPS

-----------------------------------------------------------------------------
(* Types and shape *)

SomeRef   == Refs \cup {NoRef}
CmdType   == [kind : {"prompt"}, id : Prompts] \cup [kind : {"cancel", "stop"}, id : {0}]
EventType == [kind : {"init", "result", "error", "exit"}, id : 0..MaxPrompts, ref : SomeRef,
              waiting : {FALSE}, text : 0..MaxPrompts]
FanType   == [seq : 0..MaxPrompts, running : BOOLEAN, bound : 0..MaxPrompts,
              starts : Seq(Prompts), pending : 0..MaxQueue, window : BOOLEAN,
              mode : {"collect", "interrupt"}, saved : BOOLEAN]
CallType  == [id : 0..MaxPrompts, ref : SomeRef]
LoopType  == [pc : {"idle", "turn", "up", "down", "ended"}, ref : SomeRef, call : CallType,
              notes : Seq(Notes), posts : Seq(Prompts), text : 0..MaxPrompts]
TurnIds    == Prompts \cup {OldTurn}
RemoteType == [made : 0..MaxRefs, alive : SUBSET Refs, ghosts : SUBSET Refs,
               turns : Seq(TurnIds), prompts : 0..MaxPrompts, late : Nat]

Typed ==
    /\ backend \in {"codex", "crew"} /\ stage \in {"making", "listed", "down"}
    /\ token \in SomeRef /\ fan \in FanType
    /\ cmds \in Seq(CmdType) /\ Len(cmds) <= MaxCmds
    /\ events \in Seq(EventType)
    /\ loop \in LoopType /\ Len(loop.notes) <= MaxNotes
    /\ remote \in RemoteType
    /\ faults \in 0..MaxErrors /\ killing \in BOOLEAN /\ said \in SomeRef
    /\ lost \in BOOLEAN /\ shifted \in BOOLEAN

\* What the counting of boundaries keeps true.
Counts ==
    /\ fan.bound <= fan.seq /\ Len(fan.starts) = fan.seq - fan.bound
    /\ fan.running <=> fan.bound < fan.seq
    /\ fan.window => ~fan.running
    /\ fan.seq <= remote.prompts

\* Where each backend's loop may be, and what it holds there.
Shape ==
    /\ IsCodex => /\ loop.pc \in {"idle", "turn", "ended"}
                  /\ loop.posts = <<>> /\ remote.turns = <<>> /\ ~lost
    /\ IsCrew => loop.pc \in {"up", "down", "ended"} /\ loop.call = NoCall /\ said = NoRef
    /\ loop.pc = "idle" => loop.call = NoCall
    /\ loop.pc = "turn" => loop.call.id # 0
    /\ loop.pc = "down" => faults > 0

\* A session being made has no command yet; one that is down has nothing left, but for what
\* a Crew slot that survived it still works on.
Fresh ==
    /\ stage = "making" => /\ cmds = <<>> /\ fan.seq = 0 /\ loop.pc # "turn"
                           /\ loop.posts = <<>> /\ remote.turns = <<>> /\ remote.late = 0
    /\ stage = "down" => /\ loop.pc = "ended" /\ events = <<>> /\ loop.posts = <<>>
                         /\ remote.turns \in Seq({OldTurn}) /\ cmds = <<>>

Base == Typed /\ Counts /\ Shape /\ Fresh

LEMMA Bounds ==
    /\ MaxPrompts \in Nat /\ MaxQueue \in Nat /\ MaxNotes \in Nat /\ MaxRefs \in Nat
    /\ MaxErrors \in Nat /\ MaxCmds \in Nat /\ MaxRefs > 0 /\ NoRef \notin Nat
BY BoundsAssumption

LEMMA TurnIdsAre ==
    TurnIds = 0..MaxPrompts /\ Prompts \subseteq TurnIds /\ OldTurn \in TurnIds /\ OldTurn = 0
BY Bounds DEF TurnIds, Prompts, OldTurn

LEMMA BaseTypes ==
    Base => TypeOK
<1> SUFFICES ASSUME Base PROVE TypeOK
    OBVIOUS
<1> USE BoundsAssumption DEF Base
<1>1. /\ fan.seq \in 0..MaxPrompts /\ fan.bound \in 0..MaxPrompts /\ fan.pending \in 0..MaxQueue
      /\ fan.running \in BOOLEAN /\ fan.window \in BOOLEAN /\ fan.saved \in BOOLEAN
      /\ fan.mode \in {"collect", "interrupt"} /\ fan.starts \in Seq(Prompts)
    BY DEF Typed, FanType
<1>2. Len(fan.starts) <= MaxPrompts
    BY <1>1 DEF Counts
<1>3. \A i \in DOMAIN events : events[i].ref \in SomeRef
  <2>1. \A i \in DOMAIN events : events[i] \in EventType
      BY DEF Typed
  <2> QED
      BY <2>1 DEF EventType
<1>4. /\ loop.pc \in {"idle", "turn", "up", "down", "ended"} /\ loop.ref \in SomeRef
      /\ loop.text \in 0..MaxPrompts /\ Len(loop.notes) <= MaxNotes /\ loop.posts \in Seq(Prompts)
    BY DEF Typed, LoopType
<1>5. /\ remote.made \in 0..MaxRefs /\ remote.alive \subseteq Refs /\ remote.ghosts \subseteq Refs
      /\ remote.turns \in Seq(Prompts \cup {OldTurn}) /\ remote.prompts \in 0..MaxPrompts
      /\ remote.late \in Nat
    BY DEF Typed, RemoteType, TurnIds
<1>6. /\ backend \in {"codex", "crew"} /\ stage \in {"making", "listed", "down"}
      /\ token \in SomeRef /\ Len(cmds) <= MaxCmds /\ faults \in 0..MaxErrors
      /\ killing \in BOOLEAN /\ said \in SomeRef /\ lost \in BOOLEAN /\ shifted \in BOOLEAN
    BY DEF Typed
<1>7. {fan.running, fan.window, fan.saved, killing} \subseteq BOOLEAN /\ {lost, shifted} \subseteq BOOLEAN
    BY <1>1, <1>6
<1> HIDE DEF Base
<1> QED
    BY <1>1, <1>2, <1>3, <1>4, <1>5, <1>6, <1>7 DEF TypeOK, SomeRef

LEMMA BaseInit ==
    Init => Base
<1> SUFFICES ASSUME Init PROVE Base
    OBVIOUS
<1> USE BoundsAssumption
<1>1. 1 \in Refs /\ 1 \in Refs \cup {NoRef} /\ 1 \in 0..MaxRefs /\ NoRef \in SomeRef
    BY DEF Refs, SomeRef
<1>2. fan \in FanType /\ fan.seq = 0 /\ fan.bound = 0 /\ fan.starts = <<>> /\ ~fan.running
      /\ ~fan.window
    BY DEF Init, FreshFan, FanType
<1>3. NoCall \in CallType
    BY <1>1 DEF NoCall, CallType
<1>4. loop \in LoopType /\ loop.notes = <<>> /\ loop.posts = <<>> /\ loop.call = NoCall
      /\ loop.pc = IF IsCrew THEN "up" ELSE "idle"
    BY <1>1, <1>3 DEF Init, FreshLoop, LoopType, SomeRef
<1>5. remote \in RemoteType /\ remote.turns = <<>> /\ remote.prompts = 0 /\ remote.late = 0
    BY <1>1 DEF Init, RemoteType
<1>6. events \in Seq(EventType)
  <2>1. Event("init", 0) \in EventType
      BY <1>1 DEF Event, EventType
  <2>2. [Event("init", 0) EXCEPT !.ref = IF IsCrew THEN 1 ELSE NoRef] \in EventType
      BY <2>1, <1>1 DEF EventType, SomeRef
  <2> QED
      BY <2>2 DEF Init
<1>7. Typed
  <2>1. /\ backend \in {"codex", "crew"} /\ stage = "making" /\ token = NoRef /\ cmds = <<>>
        /\ faults = 0 /\ killing = FALSE /\ said = NoRef /\ lost = FALSE /\ shifted = FALSE
      BY DEF Init
  <2>2. faults \in 0..MaxErrors /\ Len(cmds) <= MaxCmds /\ Len(loop.notes) <= MaxNotes
      BY <2>1, <1>4
  <2>3. cmds \in Seq(CmdType)
      BY <2>1
  <2> QED
      BY <2>1, <2>3, <2>2, <1>1, <1>2, <1>4, <1>5, <1>6 DEF Typed
<1>8. Counts /\ Shape /\ Fresh
    BY <1>2, <1>4, <1>5 DEF Init, Counts, Shape, Fresh, IsCodex, IsCrew
<1> QED
    BY <1>7, <1>8 DEF Base

\* A prompt sent: the turn starts, and the command goes down after what precedes it.
LEMMA BaseSend ==
    ASSUME Base, NEW before \in {<<>>, <<Cancel>>}, Serving, Send(before), Idle
    PROVE  Base'
<1> USE Bounds
<1>1. /\ stage = "listed" /\ fan \in FanType /\ cmds \in Seq(CmdType) /\ Len(cmds) <= MaxCmds
      /\ remote \in RemoteType
    BY DEF Base, Typed, Serving
<1>2. /\ fan.seq \in 0..MaxPrompts /\ fan.bound \in 0..MaxPrompts /\ fan.starts \in Seq(Prompts)
      /\ remote.prompts \in 0..MaxPrompts
    BY <1>1 DEF FanType, RemoteType
<1>3. Next_Id \in Prompts /\ Next_Id = remote.prompts + 1 /\ Next_Id \in 0..MaxPrompts
    BY <1>2 DEF Next_Id, Send, Room, Prompts
<1>4. /\ fan.bound <= fan.seq /\ Len(fan.starts) = fan.seq - fan.bound
      /\ fan.seq <= remote.prompts
    BY DEF Base, Counts
<1>5. /\ Append(fan.starts, Next_Id) \in Seq(Prompts)
      /\ Len(Append(fan.starts, Next_Id)) = Len(fan.starts) + 1
    BY <1>2, <1>3, AppendProperties
<1>6. fan.seq + 1 \in 0..MaxPrompts
    BY <1>2, <1>3, <1>4
<1>7. fan' \in FanType
  <2>1. 0 \in 0..MaxQueue
      OBVIOUS
  <2> QED
      BY <2>1, <1>1, <1>5, <1>6 DEF Send, Start, FanType
<1>8. /\ fan'.seq = fan.seq + 1 /\ fan'.bound = fan.bound /\ fan'.running = TRUE
      /\ fan'.window = FALSE /\ fan'.starts = Append(fan.starts, Next_Id)
    BY <1>1 DEF Send, Start, FanType
<1>9. /\ remote' \in RemoteType /\ remote'.prompts = Next_Id /\ remote'.turns = remote.turns
      /\ remote'.late = remote.late
    BY <1>1, <1>3 DEF Send, RemoteType
<1>10. cmds' \in Seq(CmdType) /\ Len(cmds') <= MaxCmds
  <2>1. Cancel \in CmdType /\ [kind |-> "prompt", id |-> Next_Id] \in CmdType
      BY <1>3 DEF Cancel, CmdType
  <2>2. before \in Seq(CmdType) /\ Len(before) \in Nat
    <3>1. CASE before = <<>>
        BY <3>1
    <3>2. CASE before = <<Cancel>>
        BY <3>2, <2>1
    <3> QED
        BY <3>1, <3>2
  <2>3. <<[kind |-> "prompt", id |-> Next_Id]>> \in Seq(CmdType)
        /\ Len(<<[kind |-> "prompt", id |-> Next_Id]>>) = 1
      BY <2>1
  <2>4. cmds \o before \in Seq(CmdType) /\ Len(cmds \o before) = Len(cmds) + Len(before)
      BY <1>1, <2>2, ConcatProperties
  <2>5. /\ cmds \o before \o <<[kind |-> "prompt", id |-> Next_Id]>> \in Seq(CmdType)
        /\ Len(cmds \o before \o <<[kind |-> "prompt", id |-> Next_Id]>>)
              = Len(cmds) + Len(before) + 1
      BY <2>3, <2>4, ConcatProperties
  <2>6. Len(cmds) + (Len(before) + 1) <= MaxCmds
      BY DEF Send, Room
  <2>7. Len(cmds) + Len(before) + 1 <= MaxCmds
      BY <2>6, <2>2, <1>1
  <2>8. CASE loop.pc = "ended"
      BY <2>8, <1>1 DEF Send
  <2>9. CASE loop.pc # "ended"
    <3>1. cmds' = cmds \o before \o <<[kind |-> "prompt", id |-> Next_Id]>>
        BY <2>9 DEF Send
    <3> QED
        BY <3>1, <2>5, <2>7
  <2> QED
      BY <2>8, <2>9
<1>11. Typed'
    BY <1>7, <1>9, <1>10 DEF Base, Typed, Idle
<1>12. Counts'
  <2>1. fan'.bound < fan'.seq /\ Len(fan'.starts) = fan'.seq - fan'.bound
      BY <1>2, <1>4, <1>5, <1>8
  <2>2. fan'.seq <= remote'.prompts
      BY <1>2, <1>3, <1>4, <1>8, <1>9
  <2>3. fan'.bound <= fan'.seq
      BY <1>2, <1>4, <1>8
  <2> QED
      BY <2>1, <2>2, <2>3, <1>8 DEF Counts
<1>13. Shape' /\ Fresh'
    BY <1>1, <1>9 DEF Base, Shape, Fresh, Idle, IsCodex, IsCrew
<1> QED
    BY <1>11, <1>12, <1>13 DEF Base

\* The other inputs of the fan-out.
LEMMA BaseInput ==
    ASSUME Base, PromptWaits \/ SetMode \/ Interrupt \/ Kill
    PROVE  Base'
<1> USE Bounds
<1>1. /\ stage = "listed" /\ fan \in FanType /\ cmds \in Seq(CmdType) /\ Len(cmds) <= MaxCmds
      /\ stage' = stage /\ remote' = remote /\ loop' = loop /\ events' = events
      /\ UNCHANGED <<backend, token, faults, said, lost, shifted>>
    BY DEF Base, Typed, Serving, PromptWaits, SetMode, Interrupt, Kill, Idle
<1>2. \A c \in {"cancel", "stop"} : [kind |-> c, id |-> 0] \in CmdType
    BY DEF CmdType
<1>3. cmds' \in Seq(CmdType) /\ Len(cmds') <= MaxCmds
  <2>1. CASE cmds' = cmds
      BY <2>1, <1>1
  <2>2. ASSUME NEW c \in {"cancel", "stop"}, cmds' = Append(cmds, [kind |-> c, id |-> 0]),
               Len(cmds) < MaxCmds
        PROVE  cmds' \in Seq(CmdType) /\ Len(cmds') <= MaxCmds
      BY <2>2, <1>1, <1>2, AppendProperties
  <2> QED
      BY <2>1, <2>2 DEF PromptWaits, SetMode, Interrupt, Kill, Idle, Cancel
<1>4. /\ fan' \in FanType /\ fan'.seq = fan.seq /\ fan'.bound = fan.bound
      /\ fan'.running = fan.running /\ fan'.starts = fan.starts
      /\ fan'.window = fan.window \/ fan'.window = FALSE
  <2>1. CASE PromptWaits
    <3>1. fan.pending + 1 \in 0..MaxQueue
        BY <2>1, <1>1 DEF PromptWaits, FanType
    <3> QED
        BY <2>1, <3>1, <1>1 DEF PromptWaits, FanType
  <2>2. CASE SetMode
      BY <2>2, <1>1 DEF SetMode, FanType
  <2>3. CASE Interrupt
    <3>1. PICK f : f = [fan EXCEPT !.pending = 0, !.window = FALSE]
        OBVIOUS
    <3>2. /\ f \in FanType /\ f.seq = fan.seq /\ f.bound = fan.bound
          /\ f.running = fan.running /\ f.starts = fan.starts /\ f.window = FALSE
      <4>1. 0 \in 0..MaxQueue
          OBVIOUS
      <4> QED
          BY <4>1, <3>1, <1>1 DEF FanType
    <3>3. fan' = f
        BY <3>1, <2>3 DEF Interrupt
    <3> QED
        BY <3>2, <3>3
  <2>4. CASE Kill
      BY <2>4, <1>1 DEF Kill
  <2> QED
      BY <2>1, <2>2, <2>3, <2>4
<1>5. killing' \in BOOLEAN
    BY DEF Base, Typed, PromptWaits, SetMode, Interrupt, Kill, Idle
<1>6. Typed'
    BY <1>1, <1>3, <1>4, <1>5 DEF Base, Typed
<1>7. Counts'
    BY <1>1, <1>4 DEF Base, Counts
<1>8. Shape' /\ Fresh'
    BY <1>1 DEF Base, Shape, Fresh, IsCodex, IsCrew
<1> QED
    BY <1>6, <1>7, <1>8 DEF Base

\* One boundary counted.
CountsOf(f) ==
    /\ f.bound <= f.seq /\ Len(f.starts) = f.seq - f.bound
    /\ f.running <=> f.bound < f.seq
    /\ f.window => ~f.running

LEMMA CountedOnce ==
    ASSUME NEW f \in FanType, CountsOf(f)
    PROVE  /\ Counted(f) \in FanType /\ CountsOf(Counted(f)) /\ Counted(f).seq = f.seq
           /\ Counted(f).starts = IF f.starts = <<>> THEN <<>> ELSE Tail(f.starts)
<1>1. /\ f.seq \in 0..MaxPrompts /\ f.bound \in 0..MaxPrompts /\ f.starts \in Seq(Prompts)
      /\ f.running \in BOOLEAN /\ f.window \in BOOLEAN /\ f.pending \in Nat
    BY DEF FanType
<1>2. PICK s : s = IF f.starts = <<>> THEN <<>> ELSE Tail(f.starts)
    OBVIOUS
<1>3. s \in Seq(Prompts) /\ Len(s) = IF f.starts = <<>> THEN 0 ELSE Len(f.starts) - 1
    BY <1>1, <1>2, HeadTailProperties, EmptySeq
<1>4. f.starts = <<>> <=> Len(f.starts) = 0
    BY <1>1, EmptySeq
<1>5. PICK p : p = [f EXCEPT !.starts = s]
    OBVIOUS
<1>6. /\ p \in FanType /\ p.seq = f.seq /\ p.bound = f.bound /\ p.running = f.running
      /\ p.starts = s /\ p.window = f.window /\ p.pending = f.pending
    BY <1>3, <1>5 DEF FanType
<1>7. PICK a : a = IF Behind(f) THEN [p EXCEPT !.bound = @ + 1]
                   ELSE [p EXCEPT !.bound = f.seq, !.running = FALSE]
    OBVIOUS
<1>8. /\ a \in FanType /\ a.seq = f.seq /\ a.starts = s /\ a.window = f.window
      /\ a.pending = f.pending
      /\ Behind(f) => a.bound = f.bound + 1 /\ a.running = f.running
      /\ ~Behind(f) => a.bound = f.seq /\ a.running = FALSE
  <2>1. CASE Behind(f)
    <3>1. a = [p EXCEPT !.bound = @ + 1] /\ f.bound + 1 < f.seq
        BY <2>1, <1>7 DEF Behind
    <3>2. f.bound + 1 \in 0..MaxPrompts
        BY <3>1, <1>1, Bounds
    <3> QED
        BY <2>1, <3>1, <3>2, <1>1, <1>6 DEF FanType
  <2>2. CASE ~Behind(f)
    <3>1. a = [p EXCEPT !.bound = f.seq, !.running = FALSE]
        BY <2>2, <1>7
    <3> QED
        BY <2>2, <3>1, <1>1, <1>6 DEF FanType
  <2> QED
      BY <2>1, <2>2
<1>9. PICK w : w = [a EXCEPT !.window = @ \/ (~a.running /\ a.pending > 0)]
    OBVIOUS
<1>10. /\ w \in FanType /\ w.seq = a.seq /\ w.bound = a.bound /\ w.running = a.running
       /\ w.starts = a.starts /\ (w.window <=> a.window \/ (~a.running /\ a.pending > 0))
    BY <1>8, <1>9 DEF FanType
<1>11. Counted(f) = w
    BY <1>2, <1>5, <1>7, <1>9 DEF Counted
<1>12. CountsOf(w)
  <2>1. CASE Behind(f)
      BY <2>1, <1>1, <1>3, <1>4, <1>8, <1>10 DEF CountsOf, Behind
  <2>2. CASE ~Behind(f)
      BY <2>2, <1>1, <1>3, <1>4, <1>8, <1>10 DEF CountsOf, Behind
  <2> QED
      BY <2>1, <2>2
<1> QED
    BY <1>2, <1>8, <1>10, <1>11, <1>12

\* What taking an event does, whatever it does to the token.
Taken ==
    /\ events # <<>> /\ stage # "down" /\ events' = Tail(events)
    /\ fan'.seq = fan.seq
    /\ fan'.starts = IF IsBoundary(Head(events)) /\ fan.starts # <<>>
                     THEN Tail(fan.starts) ELSE fan.starts
    /\ shifted' = (shifted \/ (/\ Head(events).kind \in {"result", "error"} /\ Head(events).id = 0
                               /\ ~Head(events).waiting /\ fan.starts # <<>>))
    /\ UNCHANGED <<backend, stage, cmds, loop, remote, faults, killing, said, lost>>

\* TakeEvent, for the reference r that the backend reads from the event.
TakesWith(r) ==
    /\ events # <<>> /\ stage # "down" /\ events' = Tail(events)
    /\ token' = IF ~fan.saved /\ r # NoRef /\ stage = "listed" THEN r ELSE token
    /\ LET f == [fan EXCEPT !.saved = @ \/ (~fan.saved /\ r # NoRef)]
       IN fan' = IF IsBoundary(Head(events)) THEN Counted(f) ELSE f
    /\ shifted' = (shifted \/ (/\ Head(events).kind \in {"result", "error"} /\ Head(events).id = 0
                               /\ ~Head(events).waiting /\ fan.starts # <<>>))
    /\ UNCHANGED <<backend, stage, cmds, loop, remote, faults, killing, said, lost>>

LEMMA TakeIsTaken ==
    ASSUME Base, NEW r \in SomeRef, TakesWith(r)
    PROVE  Taken /\ fan' \in FanType /\ CountsOf(fan') /\ token' \in SomeRef
<1>1. fan \in FanType /\ CountsOf(fan) /\ events \in Seq(EventType) /\ token \in SomeRef
    BY DEF Base, Typed, Counts, CountsOf
<1>2. PICK e : e = Head(events)
    OBVIOUS
<1>4. PICK b \in BOOLEAN : b = (~fan.saved /\ r # NoRef)
    OBVIOUS
<1>5. PICK f : f = [fan EXCEPT !.saved = @ \/ b]
    OBVIOUS
<1>6. /\ f \in FanType /\ f.seq = fan.seq /\ f.bound = fan.bound /\ f.running = fan.running
      /\ f.starts = fan.starts /\ f.window = fan.window
    BY <1>1, <1>4, <1>5 DEF FanType
<1>7. CountsOf(f)
    BY <1>1, <1>6 DEF CountsOf
<1>8. fan' = IF IsBoundary(e) THEN Counted(f) ELSE f
    BY <1>2, <1>4, <1>5 DEF TakesWith
<1>9. fan' \in FanType /\ CountsOf(fan') /\ fan'.seq = fan.seq
      /\ fan'.starts = IF IsBoundary(e) /\ fan.starts # <<>> THEN Tail(fan.starts) ELSE fan.starts
    BY <1>6, <1>7, <1>8, CountedOnce
<1>10. token' \in SomeRef
    BY <1>1 DEF TakesWith
<1> QED
    BY <1>2, <1>9, <1>10 DEF TakesWith, Taken

LEMMA BaseTake ==
    ASSUME Base, TakesEvent
    PROVE  Taken /\ Base'
<1>1. Taken /\ fan' \in FanType /\ CountsOf(fan') /\ token' \in SomeRef
  <2>1. events # <<>> => Head(events) \in EventType
      BY HeadTailProperties DEF Base, Typed
  <2>2. CASE CodexTakesEvent
    <3>1. PICK r : r = CodexThreadId(Head(events))
        OBVIOUS
    <3>2. TakesWith(r)
        BY <2>2, <3>1 DEF CodexTakesEvent, TakeEvent, TakesWith
    <3>3. r \in SomeRef
        BY <2>1, <3>1, <3>2 DEF CodexThreadId, EventType, SomeRef, TakesWith
    <3> QED
        BY <3>2, <3>3, TakeIsTaken
  <2>3. CASE CrewTakesEvent
    <3>1. PICK r : r = CrewSlotKey(Head(events))
        OBVIOUS
    <3>2. TakesWith(r)
        BY <2>3, <3>1 DEF CrewTakesEvent, TakeEvent, TakesWith
    <3>3. r \in SomeRef
        BY <2>1, <3>1, <3>2 DEF CrewSlotKey, EventType, SomeRef, TakesWith
    <3> QED
        BY <3>2, <3>3, TakeIsTaken
  <2> QED
      BY <2>2, <2>3 DEF TakesEvent
<1>2. events' \in Seq(EventType)
    BY <1>1, HeadTailProperties DEF Base, Typed, Taken
<1>3. shifted' \in BOOLEAN
    BY <1>1 DEF Base, Typed, Taken
<1>4. Typed'
    BY <1>1, <1>2, <1>3 DEF Base, Typed, Taken
<1>5. Counts'
    BY <1>1 DEF Base, Counts, CountsOf, Taken
<1>6. Shape' /\ Fresh'
    BY <1>1 DEF Base, Shape, Fresh, Taken, IsCodex, IsCrew
<1> QED
    BY <1>1, <1>4, <1>5, <1>6 DEF Base

\* A fresh fan-out and loop over a channel that is empty but for "init".
LEMMA BaseSpawned ==
    ASSUME Base, NEW pc, NEW ref \in SomeRef, Spawned(pc, ref), stage' = "listed",
           backend' = backend, (IsCodex /\ pc = "idle") \/ (IsCrew /\ pc = "up"),
           token' \in SomeRef, said' \in SomeRef, IsCrew => said' = said, faults' = faults,
           remote' \in RemoteType, IsCodex => remote'.turns = remote.turns
    PROVE  Base'
<1>1. 0 \in 0..MaxPrompts /\ 0 \in 0..MaxQueue /\ NoRef \in SomeRef /\ 0 <= MaxNotes /\ 0 <= MaxCmds
    BY Bounds DEF SomeRef
<1>2. /\ fan' \in FanType /\ fan'.seq = 0 /\ fan'.bound = 0 /\ fan'.starts = <<>>
      /\ fan'.running = FALSE /\ fan'.window = FALSE
    BY <1>1 DEF Spawned, FreshFan, FanType
<1>3. NoCall \in CallType
    BY <1>1 DEF NoCall, CallType
<1>4. /\ loop' \in LoopType /\ loop'.notes = <<>> /\ loop'.posts = <<>> /\ loop'.call = NoCall
      /\ loop'.pc = pc
    BY <1>1, <1>3 DEF Spawned, FreshLoop, LoopType
<1>5. events' \in Seq(EventType)
  <2>1. PICK r \in SomeRef : r = IF IsCrew THEN ref ELSE NoRef
      BY <1>1
  <2>2. Event("init", 0) \in EventType
      BY <1>1 DEF Event, EventType
  <2>3. [Event("init", 0) EXCEPT !.ref = r] \in EventType
      BY <2>1, <2>2 DEF EventType
  <2> QED
      BY <2>1, <2>3 DEF Spawned
<1>6. Typed'
  <2>1. cmds' \in Seq(CmdType) /\ Len(cmds') <= MaxCmds /\ Len(loop'.notes) <= MaxNotes
      BY <1>1, <1>4 DEF Spawned
  <2>2. killing' \in BOOLEAN /\ lost' \in BOOLEAN /\ shifted' \in BOOLEAN
      BY DEF Spawned
  <2> QED
      BY <1>2, <1>4, <1>5, <2>1, <2>2 DEF Base, Typed
<1>7. Counts'
  <2>1. remote'.prompts \in Nat
      BY DEF RemoteType
  <2> QED
      BY <1>2, <2>1 DEF Counts
<1>8. Shape'
    BY <1>4 DEF Base, Shape, IsCodex, IsCrew, Spawned
<1>9. Fresh'
    BY DEF Fresh
<1> QED
    BY <1>6, <1>7, <1>8, <1>9 DEF Base

LEMMA BaseLife ==
    ASSUME Base, Insert \/ EnsureCodex \/ EnsureCrew \/ FanEnds
    PROVE  Base'
<1>1. CASE Insert
  <2>1. Typed'
      BY <1>1 DEF Base, Typed, Insert
  <2>2. Counts' /\ Shape' /\ Fresh'
      BY <1>1 DEF Base, Counts, Shape, Fresh, Insert, IsCodex, IsCrew
  <2> QED
      BY <2>1, <2>2 DEF Base
<1>2. CASE EnsureCodex
  <2>1. remote' \in RemoteType /\ remote'.turns = remote.turns
    <3>1. remote \in RemoteType
        BY DEF Base, Typed
    <3>2. remote' = [remote EXCEPT !.ghosts = {}]
        BY <1>2 DEF EnsureCodex
    <3> QED
        BY <3>1, <3>2 DEF RemoteType
  <2>2. token \in SomeRef /\ NoRef \in SomeRef /\ Spawned("idle", token) /\ IsCodex /\ said' = NoRef
        /\ stage' = "listed" /\ UNCHANGED <<backend, token, faults>> /\ ~IsCrew
      BY <1>2 DEF Base, Typed, EnsureCodex, SomeRef, IsCodex, IsCrew
  <2> QED
      BY <2>1, <2>2, BaseSpawned
<1>3. CASE EnsureCrew
  <2>1. token \in SomeRef /\ NoRef \in SomeRef /\ IsCrew /\ said' = said /\ said \in SomeRef
        /\ stage' = "listed" /\ UNCHANGED <<backend, faults>> /\ remote \in RemoteType
      BY <1>3 DEF Base, Typed, EnsureCrew, SomeRef
  <2>2. CASE token \in remote.alive /\ Spawned("up", token) /\ UNCHANGED <<token, remote>>
      BY <2>1, <2>2, BaseSpawned DEF IsCrew, IsCodex
  <2>3. CASE /\ token \notin remote.alive /\ remote.made < MaxRefs
             /\ remote' = NewSlot /\ Spawned("up", remote.made + 1) /\ token' = NoRef
    <3>1. remote.made \in 0..MaxRefs /\ remote.alive \subseteq Refs
        BY <2>1 DEF RemoteType
    <3>2. remote.made + 1 \in Refs /\ remote.made + 1 \in 0..MaxRefs /\ remote.made + 1 \in SomeRef
        BY <3>1, <2>3, Bounds DEF Refs, SomeRef
    <3>3. remote.alive \cup {remote.made + 1} \in SUBSET Refs
        BY <3>1, <3>2
    <3>4. remote' = [remote EXCEPT !.made = @ + 1, !.alive = @ \cup {remote.made + 1},
                                   !.turns = <<>>, !.late = 0]
        BY <2>1, <2>3 DEF NewSlot
    <3>5. remote' \in RemoteType
      <4>1. <<>> \in Seq(TurnIds) /\ 0 \in Nat
          OBVIOUS
      <4> QED
          BY <2>1, <3>2, <3>3, <3>4, <4>1 DEF RemoteType
    <3> QED
        BY <2>1, <2>3, <3>2, <3>5, BaseSpawned DEF IsCrew, IsCodex
  <2> QED
      BY <1>3, <2>2, <2>3 DEF EnsureCrew
<1>4. CASE FanEnds
  <2>1. 0 \in 0..MaxPrompts /\ 0 \in 0..MaxQueue /\ 0 <= MaxCmds
      BY Bounds
  <2>2. /\ fan' \in FanType /\ fan'.seq = 0 /\ fan'.bound = 0 /\ fan'.starts = <<>>
        /\ fan'.running = FALSE /\ fan'.window = FALSE
      BY <1>4, <2>1 DEF FanEnds, FreshFan, FanType
  <2>3. remote \in RemoteType
      BY DEF Base, Typed
  <2>4. /\ remote' \in RemoteType /\ remote'.prompts = remote.prompts
        /\ remote'.turns \in Seq({OldTurn}) /\ (IsCodex => remote'.turns = <<>>)
    <3>1. CASE remote' = Deleted
      <4>1. PICK A : A = IF IsCrew THEN remote.alive \ {loop.ref} ELSE remote.alive
          OBVIOUS
      <4>2. A \in SUBSET Refs /\ <<>> \in Seq(TurnIds) /\ <<>> \in Seq({OldTurn}) /\ 0 \in Nat
          BY <2>3, <4>1 DEF RemoteType
      <4>3. remote' = [remote EXCEPT !.alive = A, !.turns = <<>>, !.late = 0]
          BY <3>1, <4>1 DEF Deleted
      <4> QED
          BY <2>3, <4>2, <4>3 DEF RemoteType
    <3>2. CASE IsCrew /\ remote' = Survives
      <4>1. PICK z : z = [i \in DOMAIN remote.turns |-> OldTurn]
          OBVIOUS
      <4>2. z \in Seq({OldTurn}) /\ z \in Seq(TurnIds)
        <5>1. remote.turns \in Seq(TurnIds)
            BY <2>3 DEF RemoteType
        <5>2. DOMAIN remote.turns = 1..Len(remote.turns) /\ Len(remote.turns) \in Nat
            BY <5>1, LenProperties
        <5>3. z \in [1..Len(remote.turns) -> {OldTurn}] /\ z \in [1..Len(remote.turns) -> TurnIds]
            BY <4>1, <5>2, TurnIdsAre
        <5> QED
            BY <5>2, <5>3, SeqDef
      <4>3. remote.late + Len(loop.posts) \in Nat
        <5>1. loop.posts \in Seq(Prompts) /\ remote.late \in Nat
            BY <2>3 DEF Base, Typed, LoopType, RemoteType
        <5>2. Len(loop.posts) \in Nat
            BY <5>1, LenProperties
        <5> QED
            BY <5>1, <5>2
      <4>4. remote' = [remote EXCEPT !.turns = z, !.late = @ + Len(loop.posts)]
          BY <3>2, <4>1 DEF Survives
      <4>5. ~IsCodex
          BY <3>2 DEF IsCrew, IsCodex
      <4> QED
          BY <2>3, <4>2, <4>3, <4>4, <4>5 DEF RemoteType
    <3> QED
        BY <1>4, <3>1, <3>2 DEF FanEnds
  <2>loop. /\ loop' \in LoopType /\ loop'.posts = <<>> /\ loop'.pc = loop.pc
           /\ loop'.notes = loop.notes /\ loop'.call = loop.call
    <3>1. loop \in LoopType /\ <<>> \in Seq(Prompts)
        BY DEF Base, Typed
    <3> QED
        BY <1>4, <3>1 DEF FanEnds, LoopType
  <2>5. Typed'
    <3>1. cmds' \in Seq(CmdType) /\ Len(cmds') <= MaxCmds /\ killing' \in BOOLEAN
      <4>1. cmds' = <<>> /\ killing' = FALSE
          BY <1>4 DEF FanEnds
      <4>2. <<>> \in Seq(CmdType) /\ Len(<<>>) = 0
          BY EmptySeq
      <4> QED
          BY <4>1, <4>2, <2>1
    <3> QED
        BY <1>4, <2>2, <2>4, <2>loop, <3>1 DEF Base, Typed, FanEnds
  <2>6. Counts'
    <3>1. remote'.prompts \in Nat
        BY <2>4 DEF RemoteType
    <3> QED
        BY <2>2, <3>1 DEF Counts
  <2>7. Shape'
    <3>1. IsCodex' = IsCodex /\ IsCrew' = IsCrew /\ UNCHANGED <<lost, said, faults>>
        BY <1>4 DEF FanEnds, IsCodex, IsCrew
    <3>2. Shape
        BY DEF Base
    <3> QED
        BY <2>4, <2>loop, <3>1, <3>2 DEF Shape
  <2>8. Fresh'
    <3>1. stage' = "down" /\ loop.pc = "ended" /\ events' = <<>> /\ cmds' = <<>>
        BY <1>4 DEF FanEnds
    <3> QED
        BY <2>4, <2>loop, <3>1 DEF Fresh
  <2> QED
      BY <2>5, <2>6, <2>7, <2>8 DEF Base
<1> QED
    BY <1>1, <1>2, <1>3, <1>4

\* A step of the loop or of the other side: it leaves the fan-out alone.
LoopSide == UNCHANGED <<backend, stage, token, fan, killing, shifted>>

LEMMA BaseLoopSide ==
    ASSUME Base, LoopSide, cmds' \in Seq(CmdType), Len(cmds') <= MaxCmds,
           events' \in Seq(EventType), loop' \in LoopType, Len(loop'.notes) <= MaxNotes,
           remote' \in RemoteType, remote'.prompts = remote.prompts,
           faults' \in 0..MaxErrors, said' \in SomeRef, lost' \in BOOLEAN, Shape', Fresh'
    PROVE  Base'
<1>1. Typed'
    BY DEF Base, Typed, LoopSide
<1>2. Counts'
    BY DEF Base, Counts, LoopSide
<1> QED
    BY <1>1, <1>2 DEF Base

LEMMA Took ==
    ASSUME Base, cmds # <<>>
    PROVE  /\ Head(cmds) \in CmdType /\ Tail(cmds) \in Seq(CmdType)
           /\ Len(Tail(cmds)) <= MaxCmds /\ Len(Tail(cmds)) = Len(cmds) - 1
           /\ Head(cmds).kind = "prompt" => Head(cmds).id \in Prompts
           /\ stage # "making" /\ stage # "down"
<1>1. cmds \in Seq(CmdType) /\ Len(cmds) <= MaxCmds
    BY DEF Base, Typed
<1>2. Head(cmds) \in CmdType /\ Tail(cmds) \in Seq(CmdType) /\ Len(Tail(cmds)) = Len(cmds) - 1
    BY <1>1, HeadTailProperties
<1>3. Len(Tail(cmds)) <= MaxCmds
    BY <1>1, <1>2, Bounds
<1>4. Head(cmds).kind = "prompt" => Head(cmds).id \in Prompts
    BY <1>2 DEF CmdType
<1> QED
    BY <1>2, <1>3, <1>4 DEF Base, Fresh

LEMMA Emitted ==
    ASSUME Base, NEW kind \in {"result", "error", "exit"}, NEW id \in 0..MaxPrompts,
           NEW ref \in SomeRef, NEW text \in 0..MaxPrompts
    PROVE  /\ [Event(kind, id) EXCEPT !.ref = ref, !.text = text] \in EventType
           /\ [Event(kind, id) EXCEPT !.ref = ref] \in EventType
           /\ Event(kind, id) \in EventType
           /\ \A e \in EventType : Append(events, e) \in Seq(EventType)
<1>1. Event(kind, id) \in EventType
    BY Bounds DEF Event, EventType, SomeRef
<1>2. [Event(kind, id) EXCEPT !.ref = ref] \in EventType
    BY <1>1 DEF EventType
<1>3. [Event(kind, id) EXCEPT !.ref = ref, !.text = text] \in EventType
    BY <1>1, <1>2 DEF EventType
<1>4. \A e \in EventType : Append(events, e) \in Seq(EventType)
    BY AppendProperties DEF Base, Typed
<1> QED
    BY <1>1, <1>2, <1>3, <1>4

\* The Codex loop: an effect, and how the loop's state stays well formed.
LEMMA BaseCodexLoop ==
    ASSUME Base, CodexStep
    PROVE  Base'
<1>1. /\ cmds \in Seq(CmdType) /\ Len(cmds) <= MaxCmds /\ events \in Seq(EventType)
      /\ loop \in LoopType /\ Len(loop.notes) <= MaxNotes /\ remote \in RemoteType
      /\ faults \in 0..MaxErrors /\ said \in SomeRef /\ lost \in BOOLEAN /\ IsCodex
      /\ NoRef \in SomeRef /\ MaxNotes \in Nat
    BY Bounds DEF Base, Typed, CodexStep, SomeRef
<1>2. /\ loop.pc \in {"idle", "turn", "ended"} /\ loop.posts = <<>> /\ remote.turns = <<>>
      /\ loop.ref \in SomeRef /\ loop.call \in CallType /\ loop.notes \in Seq(Notes)
      /\ loop.text \in 0..MaxPrompts /\ ~IsCrew /\ ~lost
    BY <1>1 DEF Base, Shape, LoopType, IsCodex, IsCrew
<1>3. NoCall \in CallType /\ loop.call.id \in 0..MaxPrompts /\ loop.call.ref \in SomeRef
      /\ NoCall.id = 0 /\ 0 \in 0..MaxPrompts
    BY <1>1, <1>2, Bounds DEF NoCall, CallType
<1>4. LoopSide /\ lost' = lost
    BY DEF CodexStep, CodexPrompt, CodexIdleCancel, CodexStop, CodexCancel, CodexRefuses,
        CodexTurnNote, CodexIdleNote, CodexResult, CodexError, FanSame, Constant, History, LoopSide
<1>5. cmds' \in Seq(CmdType) /\ Len(cmds') <= MaxCmds
  <2>1. cmds' = cmds \/ (cmds # <<>> /\ (cmds' = Tail(cmds) \/ cmds' = <<>>))
      BY DEF CodexStep, CodexPrompt, CodexIdleCancel, CodexStop, CodexCancel, CodexRefuses,
          CodexTurnNote, CodexIdleNote, CodexResult, CodexError, Takes, TakesStop
  <2>2. <<>> \in Seq(CmdType) /\ Len(<<>>) <= MaxCmds
      BY Bounds
  <2> QED
      BY <2>1, <2>2, <1>1, Took
<1>6. events' \in Seq(EventType)
  <2>1. CASE events' = events
      BY <2>1, <1>1
  <2>2. CASE CodexStop \/ CodexCancel \/ (\E unknown \in BOOLEAN : CodexError(unknown))
    <3>1. \E kind \in {"error", "exit"} : events' = Append(events, Event(kind, loop.call.id))
        BY <2>2 DEF CodexStop, CodexCancel, CodexError, CancelEvent, Emit
    <3> QED
        BY <3>1, <1>1, <1>3, Emitted
  <2>3. CASE CodexResult
    <3>1. events' = Append(events, [Event("result", loop.call.id) EXCEPT !.ref = loop.call.ref])
        BY <2>3 DEF CodexResult, Emit
    <3> QED
        BY <3>1, <1>1, <1>3, Emitted
  <2>4. CASE CodexIdleNote /\ events' # events
    <3>1. events' = Append(events, [Event("error", 0) EXCEPT !.waiting = cmds # <<>>]) /\ cmds = <<>>
        BY <2>4 DEF CodexIdleNote, Emit, OuterTurn
    <3>2. [Event("error", 0) EXCEPT !.waiting = cmds # <<>>] \in EventType
        BY <3>1, <1>1, <1>3 DEF Event, EventType
    <3> QED
        BY <3>1, <3>2, <1>1, AppendProperties
  <2> QED
      BY <2>1, <2>2, <2>3, <2>4 DEF CodexStep, CodexPrompt, CodexIdleCancel, CodexRefuses,
          CodexTurnNote
<1>7. remote' \in RemoteType /\ remote'.prompts = remote.prompts /\ remote'.turns = remote.turns
  <2>1. remote' = remote \/ CodexCancel
      BY DEF CodexStep, CodexPrompt, CodexIdleCancel, CodexStop, CodexRefuses,
          CodexTurnNote, CodexIdleNote, CodexResult, CodexError
  <2>2. CASE CodexCancel
    <3>1. remote' = [remote EXCEPT !.ghosts = @ \cup ({loop.call.ref} \ {NoRef})]
        BY <2>2 DEF CodexCancel
    <3>2. remote.ghosts \cup ({loop.call.ref} \ {NoRef}) \in SUBSET Refs
        BY <1>1, <1>3 DEF RemoteType, SomeRef
    <3> QED
        BY <1>1, <3>1, <3>2 DEF RemoteType
  <2> QED
      BY <1>1, <2>1, <2>2
<1>8. faults' \in 0..MaxErrors /\ faults' = faults
    BY <1>1 DEF CodexStep, CodexPrompt, CodexIdleCancel, CodexStop, CodexCancel, CodexRefuses,
        CodexTurnNote, CodexIdleNote, CodexResult, CodexError
<1>9. said' \in SomeRef
    BY <1>1, <1>3 DEF CodexStep, CodexPrompt, CodexIdleCancel, CodexStop, CodexCancel, CodexRefuses,
        CodexTurnNote, CodexIdleNote, CodexResult, CodexError, History
<1>10. /\ loop' \in LoopType /\ Len(loop'.notes) <= MaxNotes /\ loop'.posts = <<>>
       /\ loop'.pc \in {"idle", "turn", "ended"}
       /\ loop'.pc = "idle" => loop'.call = NoCall
       /\ loop'.pc = "turn" => loop'.call.id # 0
  <2>1. CASE loop' = loop
      BY <2>1, <1>1, <1>2 DEF Base, Shape
  <2>2. CASE CodexPrompt
    <3>1. Head(cmds).id \in Prompts /\ Head(cmds).id # 0
        BY <2>2, Took DEF CodexPrompt, Takes, Prompts
    <3>2. PICK c : c = [id |-> Head(cmds).id, ref |-> loop.ref]
        OBVIOUS
    <3>3. c \in CallType /\ c.id # 0
        BY <3>1, <3>2, <1>2 DEF CallType, Prompts
    <3>4. loop' = [loop EXCEPT !.pc = "turn", !.notes = <<>>, !.call = c]
        BY <2>2, <3>2 DEF CodexPrompt
    <3>5. <<>> \in Seq(Notes) /\ Len(<<>>) = 0
        BY EmptySeq
    <3>6. loop' \in LoopType /\ loop'.notes = <<>> /\ loop'.posts = loop.posts /\ loop'.pc = "turn"
          /\ loop'.call = c
        BY <3>3, <3>4, <3>5, <1>1 DEF LoopType
    <3> QED
        BY <3>3, <3>5, <3>6, <1>1, <1>2
  <2>3. CASE CodexStop
      BY <2>3, <1>1, <1>2 DEF CodexStop, LoopType
  <2>4. CASE CodexCancel
      BY <2>4, <1>1, <1>2, <1>3 DEF CodexCancel, LoopType
  <2>5. CASE (CodexTurnNote \/ CodexIdleNote)
    <3>1. PICK r \in SomeRef : loop' = [loop EXCEPT !.notes = Tail(@), !.ref = r]
      <4>1. Head(loop.notes).ref \in SomeRef
        <5>1. loop.notes # <<>>
            BY <2>5 DEF CodexTurnNote, CodexIdleNote
        <5>2. Head(loop.notes) \in Notes
            BY <5>1, <1>2, HeadTailProperties
        <5> QED
            BY <5>2 DEF Notes, SomeRef
      <4> QED
          BY <4>1, <1>2, <2>5 DEF CodexTurnNote, CodexIdleNote, StaleRef
    <3>2. Tail(loop.notes) \in Seq(Notes) /\ Len(Tail(loop.notes)) <= MaxNotes
      <4>1. loop.notes # <<>>
          BY <2>5 DEF CodexTurnNote, CodexIdleNote
      <4>2. Tail(loop.notes) \in Seq(Notes) /\ Len(Tail(loop.notes)) = Len(loop.notes) - 1
          BY <4>1, <1>2, HeadTailProperties
      <4> QED
          BY <4>2, <1>1, <1>2
    <3>3. /\ loop' \in LoopType /\ loop'.notes = Tail(loop.notes) /\ loop'.posts = loop.posts
          /\ loop'.pc = loop.pc /\ loop'.call = loop.call
        BY <3>1, <3>2, <1>1 DEF LoopType
    <3> QED
        BY <3>2, <3>3, <1>1, <1>2 DEF Base, Shape
  <2>6. CASE CodexResult
      BY <2>6, <1>1, <1>2, <1>3 DEF CodexResult, LoopType
  <2>7. CASE \E unknown \in BOOLEAN : CodexError(unknown)
    <3>1. PICK unknown \in BOOLEAN : CodexError(unknown)
        BY <2>7
    <3>2. PICK r \in SomeRef : loop' = [loop EXCEPT !.pc = "idle", !.call = NoCall, !.ref = r]
        BY <3>1, <1>1, <1>2 DEF CodexError
    <3> QED
        BY <3>2, <1>1, <1>2, <1>3 DEF LoopType
  <2> QED
      BY <2>1, <2>2, <2>3, <2>4, <2>5, <2>6, <2>7 DEF CodexStep, CodexIdleCancel, CodexRefuses
<1>11. Shape'
    BY <1>1, <1>2, <1>4, <1>7, <1>10 DEF Shape, LoopSide, IsCodex, IsCrew
<1>12. Fresh'
  <2>1. stage # "down"
      BY <1>2, Took DEF Base, Fresh, CodexStep, CodexPrompt, CodexIdleCancel, CodexStop, CodexCancel, CodexRefuses,
        CodexTurnNote, CodexIdleNote, CodexResult, CodexError, CallOver, OuterTurn, Takes
  <2>2. stage = "making" => /\ cmds' = <<>> /\ fan'.seq = 0 /\ loop'.pc # "turn"
                            /\ loop'.posts = <<>> /\ remote'.turns = <<>> /\ remote'.late = 0
    <3>1. SUFFICES ASSUME stage = "making"
                   PROVE  /\ cmds' = <<>> /\ loop'.pc # "turn" /\ loop'.posts = <<>>
                          /\ remote' = remote
        BY <1>2, <1>4, <1>7 DEF Base, Fresh, LoopSide
    <3>2. cmds = <<>> /\ loop.pc # "turn"
        BY <3>1 DEF Base, Fresh
    <3>3. CodexIdleNote
        BY <3>2 DEF CodexStep, CodexPrompt, CodexIdleCancel, CodexStop, CodexCancel, CodexRefuses,
          CodexTurnNote, CodexResult, CodexError, CallOver, Takes, TakesStop
    <3> QED
        BY <3>2, <3>3, <1>1, <1>2 DEF CodexIdleNote, LoopType
  <2> QED
      BY <2>1, <2>2, <1>4, <1>10 DEF Fresh, LoopSide
<1> QED
    BY <1>4, <1>5, <1>6, <1>7, <1>8, <1>9, <1>1, <1>10, <1>11, <1>12, BaseLoopSide

\* The other side of a Codex session.
LEMMA BaseServer ==
    ASSUME Base, ServerOpens \/ ServerForgets \/ (\E n \in Notes : ServerNotes(n))
    PROVE  Base'
<1>1. /\ cmds \in Seq(CmdType) /\ Len(cmds) <= MaxCmds /\ events \in Seq(EventType)
      /\ loop \in LoopType /\ Len(loop.notes) <= MaxNotes /\ remote \in RemoteType
      /\ faults \in 0..MaxErrors /\ said \in SomeRef /\ lost \in BOOLEAN
    BY DEF Base, Typed
<1>2. /\ LoopSide /\ lost' = lost /\ said' = said /\ cmds' = cmds /\ events' = events
    BY DEF ServerOpens, ServerForgets, ServerNotes, FanSame, Constant, History, LoopSide
<1>3. CASE ServerOpens
  <2>1. remote.made \in 0..MaxRefs /\ remote.alive \subseteq Refs
      BY <1>1 DEF RemoteType
  <2>2. remote.made + 1 \in 0..MaxRefs /\ remote.made + 1 \in SomeRef
        /\ remote.alive \cup {remote.made + 1} \in SUBSET Refs
      BY <1>3, <2>1, Bounds DEF ServerOpens, Refs, SomeRef
  <2>3. remote' \in RemoteType /\ remote'.prompts = remote.prompts /\ remote'.turns = remote.turns
      BY <1>1, <1>3, <2>2 DEF ServerOpens, RemoteType
  <2>4. PICK c : c = [loop.call EXCEPT !.ref = remote.made + 1]
      OBVIOUS
  <2>5. loop.call \in CallType
      BY <1>1 DEF LoopType
  <2>6. c \in CallType /\ c.id = loop.call.id
      BY <2>2, <2>4, <2>5 DEF CallType
  <2>7. loop' = [loop EXCEPT !.call = c]
      BY <1>3, <2>4 DEF ServerOpens
  <2>8. /\ loop' \in LoopType /\ loop'.notes = loop.notes /\ loop'.posts = loop.posts
        /\ loop'.pc = "turn" /\ loop'.call.id = loop.call.id
      BY <1>1, <1>3, <2>6, <2>7 DEF LoopType, ServerOpens
  <2>9. Shape'
      BY <1>2, <1>3, <2>3, <2>8 DEF Base, Shape, LoopSide, ServerOpens, IsCodex, IsCrew
  <2>10. Fresh'
      BY <1>2, <1>3, <2>3, <2>8 DEF Base, Fresh, LoopSide, ServerOpens
  <2> QED
      BY <1>1, <1>2, <1>3, <2>3, <2>8, <2>9, <2>10, BaseLoopSide DEF ServerOpens
<1>4. CASE ServerForgets
  <2>1. remote' \in RemoteType /\ remote'.prompts = remote.prompts /\ remote'.turns = remote.turns
      BY <1>1, <1>4 DEF ServerForgets, RemoteType
  <2>2. Shape' /\ Fresh'
      BY <1>2, <1>4, <2>1 DEF Base, Shape, Fresh, LoopSide, ServerForgets, IsCodex, IsCrew
  <2> QED
      BY <1>1, <1>2, <1>4, <2>1, <2>2, BaseLoopSide DEF ServerForgets
<1>5. ASSUME NEW n \in Notes, ServerNotes(n)
      PROVE  Base'
  <2>1. loop.notes \in Seq(Notes)
      BY <1>1 DEF LoopType
  <2>2. Append(loop.notes, n) \in Seq(Notes) /\ Len(Append(loop.notes, n)) = Len(loop.notes) + 1
      BY <2>1, AppendProperties
  <2>3. Len(Append(loop.notes, n)) <= MaxNotes
      BY <1>5, <2>1, <2>2, Bounds DEF ServerNotes
  <2>4. /\ loop' \in LoopType /\ loop'.notes = Append(loop.notes, n) /\ loop'.posts = loop.posts
        /\ loop'.pc = loop.pc /\ loop'.call = loop.call
      BY <1>1, <1>5, <2>2 DEF ServerNotes, LoopType
  <2>5. faults' \in 0..MaxErrors /\ remote' = remote /\ faults' >= faults
      BY <1>1, <1>5, Bounds DEF ServerNotes
  <2>6. Shape' /\ Fresh'
    <3>1. IsCodex /\ loop.pc # "down"
        BY <1>5 DEF ServerNotes, Base, Shape
    <3> QED
        BY <1>2, <2>4, <2>5, <3>1 DEF Base, Shape, Fresh, LoopSide, IsCodex, IsCrew
  <2> QED
      BY <1>1, <1>2, <2>3, <2>4, <2>5, <2>6, BaseLoopSide
<1> QED
    BY <1>3, <1>4, <1>5

\* The Crew loop and the Gateway.
CrewSide == CrewStep \/ CrewBreaks \/ GatewayChunk \/ GatewayForgets
            \/ (\E kind \in {"result", "error"} : GatewayEnds(kind))

LEMMA BaseCrew ==
    ASSUME Base, CrewSide
    PROVE  Base'
<1>1. /\ cmds \in Seq(CmdType) /\ Len(cmds) <= MaxCmds /\ events \in Seq(EventType)
      /\ loop \in LoopType /\ Len(loop.notes) <= MaxNotes /\ remote \in RemoteType
      /\ faults \in 0..MaxErrors /\ said \in SomeRef /\ lost \in BOOLEAN /\ NoRef \in SomeRef
      /\ 0 \in 0..MaxPrompts /\ faults \in Nat
    BY Bounds DEF Base, Typed, SomeRef
<1>2. /\ loop.posts \in Seq(Prompts) /\ loop.ref \in SomeRef /\ loop.text \in 0..MaxPrompts
      /\ remote.turns \in Seq(TurnIds) /\ remote.alive \subseteq Refs /\ loop.notes \in Seq(Notes)
      /\ remote.late \in Nat
    BY <1>1 DEF LoopType, RemoteType
<1>3. /\ IsCrew /\ ~IsCodex
    <2>1. IsCrew
      <3>1. CASE GatewayForgets
          BY <3>1 DEF GatewayForgets
      <3> QED
          BY <3>1 DEF CrewSide, CrewStep, CrewBreaks, GatewayChunk, GatewayEnds
    <2> QED
        BY <2>1 DEF IsCrew, IsCodex
<1>4. /\ loop.pc \in {"up", "down", "ended"} /\ loop.call = NoCall /\ said = NoRef
      /\ loop.pc = "down" => faults > 0
    BY <1>3 DEF Base, Shape
<1>5. LoopSide /\ said' = said
    BY DEF CrewSide, CrewStep, CrewPrompt, CrewCancel, CrewStop, CrewDrops, CrewReconnects, CrewPosts,
        LatePosts, CrewBreaks, GatewayChunk, GatewayForgets, GatewayEnds, CrewSame, FanSame, Constant,
        LoopSide
<1>6. cmds' \in Seq(CmdType) /\ Len(cmds') <= MaxCmds /\ (stage = "down" => cmds' = cmds)
      /\ (stage = "making" => cmds' = cmds)
  <2>1. cmds' = cmds \/ (cmds # <<>> /\ cmds' = Tail(cmds)) \/ cmds' = <<>>
      BY DEF CrewSide, CrewStep, CrewPrompt, CrewCancel, CrewStop, CrewDrops, CrewReconnects,
          CrewPosts, LatePosts, CrewBreaks, GatewayChunk, GatewayForgets, GatewayEnds, Takes, TakesStop
  <2>2. /\ <<>> \in Seq(CmdType) /\ Len(<<>>) <= MaxCmds
        /\ stage = "down" \/ stage = "making" => cmds = <<>>
      BY Bounds DEF Base, Fresh
  <2> QED
      BY <2>1, <2>2, <1>1, Took
<1>7. faults' \in 0..MaxErrors /\ faults' >= faults
    BY <1>1, Bounds DEF CrewSide, CrewStep, CrewPrompt, CrewCancel, CrewStop, CrewDrops,
        CrewReconnects, CrewPosts, LatePosts, CrewBreaks, GatewayChunk, GatewayForgets, GatewayEnds,
        CrewSame
<1>8. lost' \in BOOLEAN
    BY <1>1 DEF CrewSide, CrewStep, CrewPrompt, CrewCancel, CrewStop, CrewDrops,
        CrewReconnects, CrewPosts, LatePosts, CrewBreaks, GatewayChunk, GatewayForgets, GatewayEnds,
        CrewSame
<1>9. /\ remote' \in RemoteType /\ remote'.prompts = remote.prompts
      /\ remote' = remote \/ remote.turns # <<>> \/ loop.posts # <<>> \/ remote.late > 0
         \/ (remote'.turns = <<>> /\ remote'.late = remote.late)
      /\ remote.turns \in Seq({OldTurn}) /\ loop.posts = <<>> => remote'.turns \in Seq({OldTurn})
  <2>1. CASE remote' = remote
      BY <2>1, <1>1
  <2>2. CASE CrewPosts
    <3>1. loop.posts # <<>> /\ Head(loop.posts) \in Prompts
        BY <2>2, <1>2, HeadTailProperties DEF CrewPosts
    <3>2. Append(remote.turns, Head(loop.posts)) \in Seq(TurnIds)
        BY <3>1, <1>2, AppendProperties, TurnIdsAre
    <3> QED
        BY <2>2, <3>1, <3>2, <1>1 DEF CrewPosts, RemoteType
  <2>late. CASE LatePosts
    <3>1. Append(remote.turns, OldTurn) \in Seq(TurnIds) /\ remote.late > 0 /\ remote.late - 1 \in Nat
        BY <2>late, <1>2, AppendProperties, TurnIdsAre DEF LatePosts
    <3>2. remote.turns \in Seq({OldTurn}) => Append(remote.turns, OldTurn) \in Seq({OldTurn})
        BY AppendProperties
    <3> QED
        BY <2>late, <3>1, <3>2, <1>1 DEF LatePosts, RemoteType
  <2>3. CASE GatewayForgets
    <3>1. PICK r : r = [remote EXCEPT !.alive = @ \ {loop.ref}]
        OBVIOUS
    <3>2. r \in RemoteType /\ r.prompts = remote.prompts
        BY <3>1, <1>1 DEF RemoteType
    <3>3. remote' = [r EXCEPT !.turns = <<>>] /\ <<>> \in Seq(TurnIds) /\ <<>> \in Seq({OldTurn})
        BY <2>3, <3>1 DEF GatewayForgets
    <3> QED
        BY <3>1, <3>2, <3>3, <1>1 DEF RemoteType
  <2>4. CASE \E kind \in {"result", "error"} : GatewayEnds(kind)
    <3>1. remote.turns # <<>> /\ remote' = [remote EXCEPT !.turns = Tail(@)]
        BY <2>4 DEF GatewayEnds
    <3>2. Tail(remote.turns) \in Seq(TurnIds)
          /\ (remote.turns \in Seq({OldTurn}) => Tail(remote.turns) \in Seq({OldTurn}))
        BY <3>1, <1>2, HeadTailProperties
    <3> QED
        BY <3>1, <3>2, <1>1 DEF RemoteType
  <2> QED
      BY <2>1, <2>2, <2>late, <2>3, <2>4 DEF CrewSide, CrewStep, CrewPrompt, CrewCancel, CrewStop, CrewDrops,
          CrewReconnects, CrewBreaks, GatewayChunk
<1>10. events' \in Seq(EventType) /\ (stage = "down" => events' = events)
  <2>1. CASE events' = events
      BY <2>1, <1>1
  <2>2. CASE CrewStop
    <3>1. events' = Append(events, Event("exit", 0)) /\ stage # "down"
        BY <2>2, Took DEF CrewStop, TakesStop, Emit
    <3> QED
        BY <3>1, <1>1, Emitted
  <2>3. CASE CrewBreaks
    <3>1. events' = Append(events, Event("error", 0)) /\ stage # "down"
        BY <2>3 DEF CrewBreaks, BrokenEvent, Emit, Base, Fresh
    <3> QED
        BY <3>1, <1>1, Emitted
  <2>4. CASE CrewReconnects /\ events' # events
    <3>1. events' = events \o <<Event("error", 0), Event("exit", 0)>> /\ stage # "down"
        BY <2>4 DEF CrewReconnects, Base, Fresh
    <3>2. Event("error", 0) \in EventType /\ Event("exit", 0) \in EventType
        BY <1>1, Emitted
    <3>3. <<Event("error", 0), Event("exit", 0)>> \in Seq(EventType)
        BY <3>2
    <3> QED
        BY <3>1, <3>3, <1>1, ConcatProperties
  <2>5. ASSUME NEW kind \in {"result", "error"}, GatewayEnds(kind), events' # events
        PROVE  events' \in Seq(EventType) /\ (stage = "down" => events' = events)
    <3>1. PICK r \in SomeRef : r = IF kind = "result" THEN loop.ref ELSE NoRef
        BY <1>1, <1>2
    <3>2. PICK t \in 0..MaxPrompts : t = IF kind = "result" THEN Foreign ELSE 0
        BY <1>1, <1>2 DEF Foreign
    <3>3. remote.turns # <<>> /\ loop.pc = "up"
        BY <2>5 DEF GatewayEnds
    <3>4. Head(remote.turns) \in 0..MaxPrompts
        BY <3>3, <1>2, HeadTailProperties, TurnIdsAre
    <3>5. events' = Append(events, [Event(kind, Head(remote.turns)) EXCEPT !.ref = r, !.text = t])
        BY <2>5, <3>1, <3>2, <3>3 DEF GatewayEnds, Emit
    <3>6. stage # "down"
        BY <3>3 DEF Base, Fresh
    <3> QED
        BY <3>4, <3>5, <3>6, Emitted
  <2> QED
      BY <2>1, <2>2, <2>3, <2>4, <2>5 DEF CrewSide, CrewStep, CrewPrompt, CrewCancel, CrewDrops,
          CrewPosts, LatePosts, GatewayChunk, GatewayForgets
<1>11. /\ loop' \in LoopType /\ loop'.notes = loop.notes /\ loop'.call = loop.call
       /\ loop'.pc \in {"up", "down", "ended"} /\ (loop'.pc = "down" => faults' > 0)
       /\ loop'.posts = loop.posts \/ cmds # <<>> \/ loop.posts # <<>>
       /\ loop.pc = "ended" => loop'.pc = "ended"
  <2>1. CASE loop' = loop
      BY <2>1, <1>1, <1>4, <1>7
  <2>2. CASE CrewPrompt
    <3>1. cmds # <<>> /\ Append(loop.posts, Head(cmds).id) \in Seq(Prompts)
        BY <2>2, <1>2, Took, AppendProperties DEF CrewPrompt, Takes
    <3> QED
        BY <2>2, <3>1, <1>1, <1>4, <1>7 DEF CrewPrompt, LoopType
  <2>3. CASE CrewPosts
    <3>1. loop.posts # <<>> /\ Tail(loop.posts) \in Seq(Prompts)
        BY <2>3, <1>2, HeadTailProperties DEF CrewPosts
    <3>2. loop' = [loop EXCEPT !.posts = Tail(@)]
        BY <2>3 DEF CrewPosts
    <3>3. faults' > 0 \/ loop.pc # "down"
        BY <1>1, <1>4, <1>7
    <3> QED
        BY <3>1, <3>2, <3>3, <1>1, <1>4 DEF LoopType
  <2>4. CASE CrewStop
      BY <2>4, <1>1, <1>4, <1>7 DEF CrewStop, LoopType
  <2>5. CASE CrewBreaks
    <3>1. faults' > 0
        BY <2>5, <1>1 DEF CrewBreaks
    <3> QED
        BY <2>5, <3>1, <1>1, <1>4, <1>7 DEF CrewBreaks, LoopType
  <2>6. CASE CrewReconnects
    <3>1. PICK pc \in {"up", "ended"} : loop' = [loop EXCEPT !.pc = pc]
        BY <2>6 DEF CrewReconnects
    <3> QED
        BY <2>6, <3>1, <1>1, <1>4, <1>7 DEF CrewReconnects, LoopType
  <2>7. CASE GatewayChunk
    <3>1. Head(remote.turns) \in 0..MaxPrompts
      <4>1. remote.turns # <<>>
          BY <2>7 DEF GatewayChunk
      <4> QED
          BY <4>1, <1>2, HeadTailProperties, TurnIdsAre
    <3> QED
        BY <2>7, <3>1, <1>1, <1>4, <1>7 DEF GatewayChunk, LoopType
  <2>8. CASE \E kind \in {"result", "error"} : GatewayEnds(kind)
    <3>1. loop' = loop \/ loop' = [loop EXCEPT !.text = 0]
        BY <2>8 DEF GatewayEnds, TextAfter
    <3> QED
        BY <3>1, <1>1, <1>4, <1>7 DEF LoopType
  <2> QED
      BY <2>1, <2>2, <2>3, <2>4, <2>5, <2>6, <2>7, <2>8 DEF CrewSide, CrewStep, CrewCancel, CrewDrops,
          LatePosts, GatewayForgets
<1>12. Shape'
    BY <1>3, <1>4, <1>5, <1>11 DEF Shape, LoopSide, IsCodex, IsCrew, NoCall
<1>13. Fresh'
  <2>1. stage = "down" => /\ remote'.turns \in Seq({OldTurn}) /\ loop.pc = "ended"
                          /\ loop.posts = <<>> /\ cmds = <<>>
      BY <1>9 DEF Base, Fresh
  <2>2. stage = "making" => /\ loop'.posts = <<>> /\ remote'.turns = <<>> /\ remote'.late = 0
      BY <1>9, <1>11, <1>2 DEF Base, Fresh
  <2> QED
      BY <2>1, <2>2, <1>5, <1>6, <1>10, <1>11 DEF Base, Fresh, LoopSide
<1> QED
    BY <1>1, <1>5, <1>6, <1>7, <1>8, <1>9, <1>10, <1>11, <1>12, <1>13, BaseLoopSide

\* The steps, sorted by what they are proved with.
FanSide == PromptWaits \/ SetMode \/ Interrupt \/ Kill
Sends   == \E before \in {<<>>, <<Cancel>>} :
              /\ before = <<>> => ~fan.running
              /\ Serving /\ Send(before) /\ Idle
Lives   == Insert \/ EnsureCodex \/ EnsureCrew \/ FanEnds
Server  == ServerOpens \/ ServerForgets \/ (\E n \in Notes : ServerNotes(n))

LEMMA StepSorts ==
    ASSUME Base, Next
    PROVE  Lives \/ TakesEvent \/ Sends \/ FanSide \/ CodexStep \/ Server \/ CrewSide
<1>1. PromptAtOnce \/ PromptInterrupts \/ WindowEnds => Sends
  <2>1. fan.window => ~fan.running
      BY DEF Base, Counts
  <2>2. PromptAtOnce => Sends
      BY DEF PromptAtOnce, Sends
  <2>3. PromptInterrupts => Sends
      BY DEF PromptInterrupts, Sends
  <2>4. WindowEnds => Sends
      BY <2>1 DEF WindowEnds, Sends
  <2> QED
      BY <2>2, <2>3, <2>4
<1> QED
    BY <1>1 DEF Next, Lives, FanSide, Server, CrewSide

LEMMA BaseStep ==
    ASSUME Base, [Next]_vars
    PROVE  Base'
<1>1. CASE Next
  <2>1. CASE Lives
      BY <2>1, BaseLife DEF Lives
  <2>2. CASE TakesEvent
      BY <2>2, BaseTake
  <2>3. CASE Sends
    <3>1. PICK before \in {<<>>, <<Cancel>>} : Serving /\ Send(before) /\ Idle
        BY <2>3 DEF Sends
    <3> QED
        BY <3>1, BaseSend
  <2>4. CASE FanSide
      BY <2>4, BaseInput DEF FanSide
  <2>5. CASE CodexStep
      BY <2>5, BaseCodexLoop
  <2>6. CASE Server
      BY <2>6, BaseServer DEF Server
  <2>7. CASE CrewSide
      BY <2>7, BaseCrew
  <2> QED
      BY <1>1, <2>1, <2>2, <2>3, <2>4, <2>5, <2>6, <2>7, StepSorts
<1>2. CASE UNCHANGED vars
  <2>1. Typed'
      BY <1>2 DEF Base, Typed, vars
  <2>2. Counts' /\ Shape' /\ Fresh'
      BY <1>2 DEF Base, Counts, Shape, Fresh, vars, IsCodex, IsCrew
  <2> QED
      BY <2>1, <2>2 DEF Base
<1> QED
    BY <1>1, <1>2

\* TypeOK, for every value of the constants.
THEOREM BackendTypes == Spec => []TypeOK
<1>1. Init => Base
    BY BaseInit
<1>2. Base /\ [Next]_vars => Base'
    BY BaseStep
<1>3. Base => TypeOK
    BY BaseTypes
<1> QED
    BY <1>1, <1>2, <1>3, PTL DEF Spec

-----------------------------------------------------------------------------
(* The thread a Codex session goes on in *)

\* The last completed turn's thread is the loop's, and then the call's.
ThreadInv ==
    /\ loop.pc = "idle" /\ said # NoRef => loop.ref = said
    /\ loop.pc = "turn" /\ said # NoRef => loop.call.ref = said

LEMMA ThreadStep ==
    ASSUME Base, Base', ThreadInv, [Next]_vars
    PROVE  ThreadInv'
<1>1. CASE IsCrew'
    BY <1>1 DEF Base, Shape, ThreadInv
<1>2. CASE loop' = loop /\ said' = said
    BY <1>2 DEF ThreadInv
<1>3. CASE said' = NoRef
    BY <1>3 DEF ThreadInv
<1>4. CASE CodexStep /\ ~IsCrew'
  <2>1. loop \in LoopType /\ loop.call \in CallType
      BY DEF Base, Typed, LoopType
  <2>2. CASE CodexPrompt
      BY <2>1, <2>2 DEF CodexPrompt, ThreadInv, LoopType, CallType, History
  <2>3. CASE CodexStop
      BY <2>1, <2>3 DEF CodexStop, ThreadInv, LoopType
  <2>4. CASE CodexTurnNote \/ CodexIdleNote
      BY <2>1, <2>4 DEF CodexTurnNote, CodexIdleNote, ThreadInv, LoopType, History, StaleRef, OuterTurn
  <2>5. CASE CodexResult
      BY <2>1, <2>5 DEF CodexResult, ThreadInv, LoopType, CallType
  <2>6. CASE \E unknown \in BOOLEAN : CodexError(unknown)
    <3>1. PICK unknown \in BOOLEAN : CodexError(unknown)
        BY <2>6
    <3>2. loop.pc = "turn" /\ (said' # NoRef => said' = said /\ ~unknown /\ loop.ref = loop.call.ref)
        BY <3>1 DEF CodexError, CallOver
    <3>3. said' # NoRef => loop'.pc = "idle" /\ loop'.ref = loop.ref
        BY <2>1, <3>1, <3>2 DEF CodexError, LoopType
    <3> QED
        BY <3>2, <3>3 DEF ThreadInv
  <2> QED
      BY <1>2, <1>3, <1>4, <2>2, <2>3, <2>4, <2>5, <2>6 DEF CodexStep, CodexIdleCancel, CodexRefuses,
          CodexCancel, History
<1>5. CASE Server
  <2>1. loop \in LoopType /\ loop.call \in CallType
      BY DEF Base, Typed, LoopType
  <2>2. CASE ServerOpens
      BY <2>1, <2>2 DEF ServerOpens, ThreadInv, LoopType, CallType, History
  <2>3. ASSUME NEW n \in Notes, ServerNotes(n)
        PROVE  ThreadInv'
      BY <2>1, <2>3 DEF ServerNotes, ThreadInv, LoopType, History
  <2> QED
      BY <1>2, <1>5, <2>2, <2>3 DEF Server, ServerForgets, History
<1>6. CASE CrewSide
  <2>1. (IsCrew /\ backend' = backend) \/ (loop' = loop /\ said' = said)
      BY <1>6 DEF CrewSide, CrewStep, CrewBreaks, GatewayChunk, GatewayForgets, GatewayEnds,
          CrewPrompt, CrewCancel, CrewStop, CrewDrops, CrewReconnects, CrewPosts, LatePosts, CrewSame,
          Constant
  <2> QED
      BY <1>1, <1>2, <2>1 DEF IsCrew
<1>7. CASE Lives \/ TakesEvent \/ Sends \/ FanSide
  <2>1. CASE TakesEvent
      BY <2>1, <1>2, BaseTake DEF Taken
  <2>2. CASE Sends
      BY <2>2, <1>2 DEF Sends, Idle
  <2>3. CASE EnsureCrew
      BY <2>3, <1>1 DEF EnsureCrew, IsCrew
  <2>4. CASE FanEnds
    <3>1. loop' = [loop EXCEPT !.posts = <<>>] /\ said' = said /\ loop \in LoopType
        BY <2>4 DEF FanEnds, Base, Typed
    <3> QED
        BY <3>1 DEF ThreadInv, LoopType
  <2> QED
      BY <1>2, <1>3, <1>7, <2>1, <2>2, <2>3, <2>4 DEF Lives, FanSide, Insert, EnsureCodex,
          PromptWaits, SetMode, Interrupt, Kill, Idle
<1> QED
    BY <1>1, <1>2, <1>4, <1>5, <1>6, <1>7, StepSorts DEF vars

\* ReplyContinues: a prompt that follows a completed Codex turn goes on in its thread.
THEOREM ThreadKept == Spec => ReplyContinues
<1>1. Init => Base /\ ThreadInv
  <2>1. Init => ThreadInv
      BY DEF Init, ThreadInv
  <2> QED
      BY <2>1, BaseInit
<1>2. Base /\ ThreadInv /\ [Next]_vars => (Base /\ ThreadInv)'
    BY BaseStep, ThreadStep
<1>3. Base /\ ThreadInv /\ [Next]_vars => [CodexPrompt /\ said # NoRef => loop'.call.ref = said]_vars
  <2>1. SUFFICES ASSUME Base, ThreadInv, CodexPrompt, said # NoRef
                 PROVE  loop'.call.ref = said
      OBVIOUS
  <2>2. loop \in LoopType
      BY <2>1 DEF Base, Typed
  <2> QED
      BY <2>1, <2>2 DEF CodexPrompt, ThreadInv, LoopType
<1> QED
    BY <1>1, <1>2, <1>3, PTL DEF Spec, ReplyContinues

-----------------------------------------------------------------------------
(* Whose text a result carries *)

OwnTexts(s) == \A i \in DOMAIN s : s[i].text = 0

\* Chunks are of the turn the Gateway works on.
TextInv ==
    faults = 0 => /\ OwnTexts(events)
                  /\ loop.pc = "up" /\ loop.text # 0 =>
                        remote.turns # <<>> /\ Head(remote.turns) = loop.text

LEMMA OwnTextsKept ==
    ASSUME NEW s \in Seq(EventType), OwnTexts(s)
    PROVE  /\ s # <<>> => OwnTexts(Tail(s))
           /\ \A e \in EventType : e.text = 0 => OwnTexts(Append(s, e))
<1>1. ASSUME s # <<>> PROVE OwnTexts(Tail(s))
    BY <1>1, HeadTailProperties DEF OwnTexts
<1>2. ASSUME NEW e \in EventType, e.text = 0
      PROVE  OwnTexts(Append(s, e))
    BY <1>2, AppendProperties DEF OwnTexts
<1> QED
    BY <1>1, <1>2

LEMMA TextStep ==
    ASSUME Base, Base', TextInv, [Next]_vars
    PROVE  TextInv'
<1>1. /\ events \in Seq(EventType) /\ loop \in LoopType /\ remote \in RemoteType
      /\ faults \in 0..MaxErrors /\ loop.text \in 0..MaxPrompts /\ loop.call.id \in 0..MaxPrompts
      /\ remote.turns \in Seq(TurnIds) /\ faults \in Nat
  <2>1. /\ events \in Seq(EventType) /\ loop \in LoopType /\ remote \in RemoteType
        /\ faults \in 0..MaxErrors /\ faults \in Nat
      BY Bounds DEF Base, Typed
  <2>2. loop.text \in 0..MaxPrompts /\ loop.call \in CallType /\ remote.turns \in Seq(TurnIds)
      BY <2>1 DEF LoopType, RemoteType
  <2>3. loop.call.id \in 0..MaxPrompts
      BY <2>2 DEF CallType
  <2> QED
      BY <2>1, <2>2, <2>3
<1>2. CASE faults' # 0
    BY <1>2 DEF TextInv
<1>3. CASE UNCHANGED <<faults, events, loop>> /\ remote'.turns = remote.turns
    BY <1>3 DEF TextInv
<1>4. CASE TakesEvent
  <2>1. Taken
      BY <1>4, BaseTake
  <2> QED
      BY <2>1, <1>1, OwnTextsKept DEF Taken, TextInv
<1>5. CASE Lives
  <2>1. CASE EnsureCodex \/ EnsureCrew
    <3>1. PICK pc, ref : Spawned(pc, ref)
        BY <2>1 DEF EnsureCodex, EnsureCrew
    <3>2. \A i \in DOMAIN events' : events'[i].text = 0
        BY <3>1 DEF Spawned, Event
    <3>3. loop'.text = 0
        BY <3>1 DEF Spawned, FreshLoop
    <3> QED
        BY <3>2, <3>3 DEF TextInv, OwnTexts
  <2>2. CASE FanEnds
      BY <2>2, <1>1 DEF FanEnds, TextInv, LoopType
  <2> QED
      BY <1>3, <1>5, <2>1, <2>2 DEF Lives, Insert
<1>6. CASE Sends \/ FanSide
  <2>1. UNCHANGED <<faults, events, loop>> /\ remote'.turns = remote.turns
      BY <1>1, <1>6 DEF Sends, Send, FanSide, PromptWaits, SetMode, Interrupt, Kill, Idle, RemoteType
  <2> QED
      BY <1>3, <2>1
<1>7. CASE CodexStep \/ Server
  <2>1. IsCodex' /\ loop'.pc # "up"
    <3>1. backend' = backend
        BY <1>7 DEF CodexStep, Server, ServerOpens, ServerForgets, ServerNotes, CodexPrompt,
            CodexIdleCancel, CodexStop, CodexCancel, CodexRefuses, CodexTurnNote, CodexIdleNote,
            CodexResult, CodexError, Constant
    <3>2. IsCodex
      <4>1. CASE ServerOpens
          BY <4>1 DEF ServerOpens, Base, Typed, Shape, IsCodex, IsCrew
      <4> QED
          BY <1>7, <4>1 DEF CodexStep, Server, ServerForgets, ServerNotes
    <3>3. IsCodex'
        BY <3>1, <3>2 DEF IsCodex
    <3> QED
        BY <3>3 DEF Base, Shape
  <2>2. faults' = 0 => faults = 0
    <3>1. faults' = faults \/ faults' = faults + 1
        BY <1>7 DEF CodexStep, Server, ServerOpens, ServerForgets, ServerNotes, CodexPrompt,
            CodexIdleCancel, CodexStop, CodexCancel, CodexRefuses, CodexTurnNote, CodexIdleNote,
            CodexResult, CodexError
    <3> QED
        BY <1>1, <3>1
  <2>3. \/ events' = events
        \/ \E e \in EventType : events' = Append(events, e) /\ e.text = 0
    <3>1. CASE CodexStop \/ CodexCancel \/ (\E unknown \in BOOLEAN : CodexError(unknown))
      <4>1. PICK kind \in {"error", "exit"} : events' = Append(events, Event(kind, loop.call.id))
          BY <3>1 DEF CodexStop, CodexCancel, CodexError, CancelEvent, Emit
      <4>2. Event(kind, loop.call.id) \in EventType /\ Event(kind, loop.call.id).text = 0
          BY <1>1, Bounds DEF Event, EventType, SomeRef
      <4> QED
          BY <4>1, <4>2
    <3>2. CASE CodexResult
      <4>1. PICK e : e = [Event("result", loop.call.id) EXCEPT !.ref = loop.call.ref]
          OBVIOUS
      <4>2. loop.call.ref \in SomeRef
          BY <1>1 DEF LoopType, CallType
      <4>3. e \in EventType /\ e.text = 0
        <5>1. PICK v : v = Event("result", loop.call.id)
            OBVIOUS
        <5>2. v \in EventType /\ v.text = 0
            BY <5>1, <1>1, Bounds DEF Event, EventType, SomeRef
        <5> QED
            BY <4>1, <4>2, <5>1, <5>2 DEF EventType
      <4> QED
          BY <3>2, <4>1, <4>3 DEF CodexResult, Emit
    <3>3. CASE CodexIdleNote /\ events' # events
      <4>1. events' = Append(events, [Event("error", 0) EXCEPT !.waiting = cmds # <<>>]) /\ cmds = <<>>
          BY <3>3 DEF CodexIdleNote, Emit, OuterTurn
      <4>2. PICK e : e = [Event("error", 0) EXCEPT !.waiting = cmds # <<>>]
          OBVIOUS
      <4>3. e \in EventType /\ e.text = 0
        <5>1. NoRef \in SomeRef /\ 0 \in 0..MaxPrompts
            BY Bounds DEF SomeRef
        <5> QED
            BY <4>1, <4>2, <5>1 DEF Event, EventType
      <4> QED
          BY <4>1, <4>2, <4>3
    <3> QED
        BY <1>7, <3>1, <3>2, <3>3 DEF CodexStep, Server, ServerOpens, ServerForgets, ServerNotes,
            CodexPrompt, CodexIdleCancel, CodexRefuses, CodexTurnNote
  <2>4. faults' = 0 => OwnTexts(events')
    <3>1. CASE events' = events
        BY <2>2, <3>1 DEF TextInv
    <3>2. CASE \E e \in EventType : events' = Append(events, e) /\ e.text = 0
        BY <2>2, <3>2, <1>1, OwnTextsKept DEF TextInv
    <3> QED
        BY <2>3, <3>1, <3>2
  <2> QED
      BY <2>1, <2>4 DEF TextInv
<1>8. CASE CrewSide /\ faults' = 0
  <2>1. faults = 0 /\ loop.pc # "down"
    <3>1. faults = 0
        BY <1>1, <1>8 DEF CrewSide, CrewStep, CrewBreaks, GatewayChunk, GatewayForgets, GatewayEnds,
            CrewPrompt, CrewCancel, CrewStop, CrewDrops, CrewReconnects, CrewPosts, LatePosts, CrewSame
    <3> QED
        BY <3>1 DEF Base, Shape
  <2>2. CASE CrewPrompt
    <3>1. loop'.text = loop.text /\ loop'.pc = loop.pc
        BY <1>1, <2>2 DEF CrewPrompt, LoopType
    <3> QED
        BY <2>1, <2>2, <3>1 DEF CrewPrompt, TextInv
  <2>3. CASE CrewPosts
    <3>1. loop'.text = loop.text /\ loop'.pc = loop.pc /\ events' = events
        BY <1>1, <2>3 DEF CrewPosts, LoopType
    <3>2. remote.turns # <<>> => remote'.turns # <<>> /\ Head(remote'.turns) = Head(remote.turns)
      <4>1. CASE remote' = remote
          BY <4>1
      <4>2. CASE remote' # remote
        <5>1. remote' = [remote EXCEPT !.turns = Append(@, Head(loop.posts))] /\ loop.posts # <<>>
            BY <2>3, <4>2 DEF CrewPosts
        <5>2. Head(loop.posts) \in TurnIds
            BY <1>1, <5>1, HeadTailProperties DEF LoopType, TurnIds
        <5>3. remote'.turns = Append(remote.turns, Head(loop.posts))
            BY <1>1, <5>1 DEF RemoteType
        <5> QED
            BY <1>1, <5>2, <5>3, HeadTailAppend, AppendProperties
      <4> QED
          BY <4>1, <4>2
    <3> QED
        BY <2>1, <3>1, <3>2 DEF TextInv
  <2>7. CASE LatePosts
    <3>1. UNCHANGED <<loop, events, faults>>
        BY <2>7 DEF LatePosts, CrewSame
    <3>2. remote.turns # <<>> => remote'.turns # <<>> /\ Head(remote'.turns) = Head(remote.turns)
      <4>1. remote'.turns \in {remote.turns, Append(remote.turns, OldTurn)}
          BY <1>1, <2>7 DEF LatePosts, RemoteType
      <4>2. OldTurn \in TurnIds
          BY DEF TurnIds
      <4> QED
          BY <1>1, <4>1, <4>2, HeadTailAppend, AppendProperties
    <3> QED
        BY <2>1, <3>1, <3>2 DEF TextInv
  <2>4. CASE CrewStop
    <3>1. loop'.pc = "ended"
        BY <1>1, <2>4 DEF CrewStop, LoopType
    <3>2. Event("exit", 0) \in EventType /\ Event("exit", 0).text = 0
        BY Bounds DEF Event, EventType, SomeRef
    <3> QED
        BY <1>1, <2>1, <2>4, <3>1, <3>2, OwnTextsKept DEF CrewStop, Emit, TextInv
  <2>5. CASE GatewayChunk
    <3>1. loop'.text = Head(remote.turns)
        BY <1>1, <2>5 DEF GatewayChunk, LoopType
    <3> QED
        BY <2>1, <2>5, <3>1 DEF GatewayChunk, TextInv
  <2>6. ASSUME NEW kind \in {"result", "error"}, GatewayEnds(kind)
        PROVE  TextInv'
    <3>1. CASE loop.pc = "up"
      <4>1. PICK id : id = Head(remote.turns)
          OBVIOUS
      <4>2. id \in 0..MaxPrompts
        <5>1. remote.turns # <<>>
            BY <2>6 DEF GatewayEnds
        <5>2. id \in TurnIds
            BY <4>1, <5>1, <1>1, HeadTailProperties
        <5> QED
            BY <5>2, TurnIdsAre
      <4>3. PICK r \in SomeRef : r = IF kind = "result" THEN loop.ref ELSE NoRef
          BY <1>1 DEF LoopType, SomeRef
      <4>4. PICK t \in 0..MaxPrompts : t = IF kind = "result" THEN Foreign ELSE 0
          BY <1>1, Bounds DEF Foreign
      <4>5. PICK v : v = Event(kind, id)
          OBVIOUS
      <4>6. v \in EventType /\ v.id = id
          BY <4>2, <4>5, Bounds DEF Event, EventType, SomeRef
      <4>7. PICK w : w = [v EXCEPT !.ref = r]
          OBVIOUS
      <4>8. w \in EventType /\ w.id = id
          BY <4>3, <4>6, <4>7 DEF EventType
      <4>9. PICK e : e = [w EXCEPT !.text = t]
          OBVIOUS
      <4>10. e \in EventType /\ e.id = id /\ e.text = t
          BY <4>4, <4>8, <4>9 DEF EventType
      <4>11. events' = Append(events, e)
          BY <2>6, <3>1, <4>1, <4>3, <4>4, <4>5, <4>7, <4>9 DEF GatewayEnds, Emit
      <4>12. t = 0
          BY <2>1, <3>1, <4>4 DEF TextInv, Foreign
      <4>13. OwnTexts(events')
          BY <2>1, <1>1, <4>10, <4>11, <4>12, OwnTextsKept DEF TextInv
      <4>14. loop'.text = 0
          BY <1>1, <2>6, <3>1 DEF GatewayEnds, TextAfter, LoopType
      <4> QED
          BY <4>13, <4>14 DEF TextInv
    <3>2. CASE loop.pc # "up"
        BY <2>1, <2>6, <3>2 DEF GatewayEnds, TextInv
    <3> QED
        BY <3>1, <3>2
  <2> QED
      BY <1>1, <1>3, <1>8, <2>1, <2>2, <2>3, <2>4, <2>5, <2>6, <2>7 DEF CrewSide, CrewStep, CrewCancel,
          CrewDrops, CrewReconnects, CrewBreaks, GatewayForgets, CrewSame
<1> QED
    BY <1>2, <1>3, <1>4, <1>5, <1>6, <1>7, <1>8, StepSorts DEF vars

-----------------------------------------------------------------------------
(* Sequences of numbers, where 0 is no number *)

Inc(s)  == \A i, j \in DOMAIN s : i < j /\ s[i] # 0 /\ s[j] # 0 => s[i] < s[j]
Nums(s) == {s[i] : i \in DOMAIN s} \ {0}
Ids(s)  == [i \in DOMAIN s |-> s[i].id]

LEMMA NumsTail ==
    ASSUME NEW s \in Seq(Nat), s # <<>>, Inc(s)
    PROVE  /\ Inc(Tail(s)) /\ Nums(Tail(s)) = Nums(s) \ {Head(s)}
           /\ \A x \in Nums(Tail(s)) : Head(s) < x
           /\ Head(s) # 0 => Head(s) \in Nums(s)
<1>1. /\ Tail(s) \in Seq(Nat) /\ Len(Tail(s)) = Len(s) - 1 /\ Len(s) \in Nat /\ Len(s) > 0
      /\ Head(s) = s[1] /\ \A i \in 1..Len(Tail(s)) : Tail(s)[i] = s[i + 1]
    BY HeadTailProperties, EmptySeq
<1>2. DOMAIN s = 1..Len(s) /\ DOMAIN Tail(s) = 1..Len(Tail(s))
    BY <1>1
<1>3. \A i \in DOMAIN Tail(s) : i + 1 \in DOMAIN s /\ Tail(s)[i] = s[i + 1] /\ i \in Nat /\ 1 < i + 1
    BY <1>1, <1>2
<1>4. Inc(Tail(s))
  <2>1. SUFFICES ASSUME NEW i \in DOMAIN Tail(s), NEW j \in DOMAIN Tail(s), i < j,
                        Tail(s)[i] # 0, Tail(s)[j] # 0
                 PROVE  Tail(s)[i] < Tail(s)[j]
      BY DEF Inc
  <2>2. i + 1 < j + 1
      BY <2>1, <1>3
  <2> QED
      BY <2>1, <2>2, <1>3 DEF Inc
<1>5. \A i \in DOMAIN s : i # 1 => /\ i - 1 \in DOMAIN Tail(s) /\ Tail(s)[i - 1] = s[i]
  <2>1. SUFFICES ASSUME NEW i \in DOMAIN s, i # 1
                 PROVE  i - 1 \in DOMAIN Tail(s) /\ Tail(s)[i - 1] = s[i]
      OBVIOUS
  <2>2. i - 1 \in DOMAIN Tail(s) /\ (i - 1) + 1 = i
      BY <2>1, <1>1, <1>2
  <2> QED
      BY <2>2, <1>3
<1>6. 1 \in DOMAIN s
    BY <1>1, <1>2
<1>7. \A x \in Nums(Tail(s)) : Head(s) < x /\ x \in Nums(s) /\ x # Head(s)
  <2>1. SUFFICES ASSUME NEW i \in DOMAIN Tail(s), Tail(s)[i] # 0
                 PROVE  /\ Head(s) < Tail(s)[i] /\ Tail(s)[i] \in Nums(s)
                        /\ Tail(s)[i] # Head(s)
      BY DEF Nums
  <2>2. Tail(s)[i] \in Nums(s)
      BY <2>1, <1>3 DEF Nums
  <2>3. Head(s) < Tail(s)[i]
    <3>1. CASE Head(s) = 0
      <4>1. Tail(s)[i] \in Nat
          BY <1>1
      <4> QED
          BY <3>1, <4>1, <2>1
    <3>2. CASE Head(s) # 0
        BY <3>2, <2>1, <1>1, <1>3, <1>6 DEF Inc
    <3> QED
        BY <3>1, <3>2
  <2>4. Tail(s)[i] \in Nat /\ Head(s) \in Nat
      BY <1>1, <1>6
  <2> QED
      BY <2>2, <2>3, <2>4
<1>8. \A x \in Nums(s) : x # Head(s) => x \in Nums(Tail(s))
  <2>1. SUFFICES ASSUME NEW i \in DOMAIN s, s[i] # 0, s[i] # Head(s)
                 PROVE  s[i] \in Nums(Tail(s))
      BY DEF Nums
  <2>2. i # 1
      BY <2>1, <1>1
  <2>3. i - 1 \in DOMAIN Tail(s) /\ Tail(s)[i - 1] = s[i]
      BY <2>2, <1>5
  <2> QED
      BY <2>1, <2>3 DEF Nums
<1>9. Head(s) # 0 => Head(s) \in Nums(s)
    BY <1>1, <1>6 DEF Nums
<1> QED
    BY <1>4, <1>7, <1>8, <1>9

LEMMA NumsAppend ==
    ASSUME NEW s \in Seq(Nat), NEW n \in Nat
    PROVE  /\ Nums(Append(s, n)) = Nums(s) \cup ({n} \ {0})
           /\ Inc(s) /\ (\A x \in Nums(s) : x < n) => Inc(Append(s, n))
           /\ Inc(s) /\ n = 0 => Inc(Append(s, n))
<1>1. /\ Append(s, n) \in Seq(Nat) /\ Len(Append(s, n)) = Len(s) + 1 /\ Len(s) \in Nat
      /\ \A i \in 1..Len(s) : Append(s, n)[i] = s[i]
      /\ Append(s, n)[Len(s) + 1] = n
    BY AppendProperties
<1>2. DOMAIN s = 1..Len(s) /\ DOMAIN Append(s, n) = 1..(Len(s) + 1)
    BY <1>1
<1>3. \A i \in DOMAIN Append(s, n) : \/ i \in DOMAIN s /\ Append(s, n)[i] = s[i]
                                     \/ i = Len(s) + 1 /\ Append(s, n)[i] = n
    BY <1>1, <1>2
<1>4. \A i \in DOMAIN s : i \in DOMAIN Append(s, n) /\ Append(s, n)[i] = s[i] /\ i < Len(s) + 1
                          /\ s[i] \in Nat
    BY <1>1, <1>2
<1>5. Len(s) + 1 \in DOMAIN Append(s, n)
    BY <1>1, <1>2
<1>6. Nums(Append(s, n)) = Nums(s) \cup ({n} \ {0})
  <2>1. Nums(Append(s, n)) \subseteq Nums(s) \cup ({n} \ {0})
      BY <1>3 DEF Nums
  <2>2. Nums(s) \cup ({n} \ {0}) \subseteq Nums(Append(s, n))
      BY <1>1, <1>4, <1>5 DEF Nums
  <2> QED
      BY <2>1, <2>2
<1>7. ASSUME Inc(s), (\A x \in Nums(s) : x < n) \/ n = 0
      PROVE  Inc(Append(s, n))
  <2>1. SUFFICES ASSUME NEW i \in DOMAIN Append(s, n), NEW j \in DOMAIN Append(s, n), i < j,
                        Append(s, n)[i] # 0, Append(s, n)[j] # 0
                 PROVE  Append(s, n)[i] < Append(s, n)[j]
      BY DEF Inc
  <2>2. i \in DOMAIN s
      BY <2>1, <1>1, <1>2
  <2>3. CASE j \in DOMAIN s
      BY <2>1, <2>2, <2>3, <1>4, <1>7 DEF Inc
  <2>4. CASE j = Len(s) + 1
    <3>1. n # 0 /\ Append(s, n)[j] = n /\ Append(s, n)[i] = s[i] /\ s[i] # 0
        BY <2>1, <2>2, <2>4, <1>1, <1>4
    <3>2. s[i] \in Nums(s)
        BY <2>2, <3>1 DEF Nums
    <3> QED
        BY <3>1, <3>2, <1>7
  <2> QED
      BY <2>3, <2>4, <1>3
<1> QED
    BY <1>6, <1>7

LEMMA IdsSeq ==
    ASSUME NEW S, NEW s \in Seq(S), \A e \in S : e.id \in Nat
    PROVE  /\ Ids(s) \in Seq(Nat) /\ DOMAIN Ids(s) = DOMAIN s /\ Len(Ids(s)) = Len(s)
           /\ \A i \in DOMAIN s : Ids(s)[i] = s[i].id
<1>1. DOMAIN s = 1..Len(s) /\ Len(s) \in Nat /\ \A i \in 1..Len(s) : s[i] \in S
    BY ElementOfSeq
<1>2. Ids(s) \in Seq(Nat)
  <2>1. \A i \in 1..Len(s) : s[i].id \in Nat
      BY <1>1
  <2>2. [i \in 1..Len(s) |-> s[i].id] \in Seq(Nat)
      BY <1>1, <2>1, IsASeq
  <2> QED
      BY <2>2, <1>1 DEF Ids
<1>3. DOMAIN Ids(s) = DOMAIN s /\ \A i \in DOMAIN s : Ids(s)[i] = s[i].id
    BY DEF Ids
<1>4. Len(Ids(s)) = Len(s)
    BY <1>1, <1>2, <1>3, LenProperties
<1> QED
    BY <1>2, <1>3, <1>4

LEMMA IdsOf ==
    ASSUME NEW S, NEW s \in Seq(S), \A e \in S : e.id \in Nat
    PROVE  /\ s # <<>> => Ids(s) # <<>> /\ Head(Ids(s)) = Head(s).id /\ Ids(Tail(s)) = Tail(Ids(s))
           /\ \A e \in S : Ids(Append(s, e)) = Append(Ids(s), e.id)
<1>1. /\ Ids(s) \in Seq(Nat) /\ DOMAIN Ids(s) = DOMAIN s /\ Len(Ids(s)) = Len(s)
      /\ \A i \in DOMAIN s : Ids(s)[i] = s[i].id
      /\ DOMAIN s = 1..Len(s) /\ Len(s) \in Nat
    BY IdsSeq
<1>2. ASSUME s # <<>>
      PROVE  Ids(s) # <<>> /\ Head(Ids(s)) = Head(s).id /\ Ids(Tail(s)) = Tail(Ids(s))
  <2>1. Len(s) > 0 /\ Head(s) = s[1] /\ Tail(s) \in Seq(S) /\ Len(Tail(s)) = Len(s) - 1
        /\ \A i \in 1..Len(Tail(s)) : Tail(s)[i] = s[i + 1]
      BY <1>2, HeadTailProperties, EmptySeq
  <2>2. Ids(s) # <<>>
      BY <2>1, <1>1, EmptySeq
  <2>3. Head(Ids(s)) = Ids(s)[1] /\ Tail(Ids(s)) \in Seq(Nat) /\ Len(Tail(Ids(s))) = Len(s) - 1
        /\ \A i \in 1..Len(Tail(Ids(s))) : Tail(Ids(s))[i] = Ids(s)[i + 1]
      BY <1>1, <2>2, HeadTailProperties
  <2>4. Head(Ids(s)) = Head(s).id
      BY <2>1, <2>3, <1>1
  <2>5. /\ Ids(Tail(s)) \in Seq(Nat) /\ Len(Ids(Tail(s))) = Len(s) - 1
        /\ \A i \in 1..(Len(s) - 1) : Ids(Tail(s))[i] = Tail(s)[i].id
    <3>1. DOMAIN Tail(s) = 1..(Len(s) - 1)
        BY <2>1, <1>1, LenProperties
    <3>2. /\ Ids(Tail(s)) \in Seq(Nat) /\ Len(Ids(Tail(s))) = Len(Tail(s))
          /\ \A i \in DOMAIN Tail(s) : Ids(Tail(s))[i] = Tail(s)[i].id
        BY <2>1, IdsSeq
    <3> QED
        BY <3>1, <3>2, <2>1
  <2>6. \A i \in 1..(Len(s) - 1) : Ids(Tail(s))[i] = Tail(Ids(s))[i]
    <3>1. SUFFICES ASSUME NEW i \in 1..(Len(s) - 1) PROVE Ids(Tail(s))[i] = Tail(Ids(s))[i]
        OBVIOUS
    <3>2. i + 1 \in DOMAIN s
        BY <1>1
    <3>3. Tail(Ids(s))[i] = Ids(s)[i + 1] /\ Tail(s)[i] = s[i + 1]
        BY <2>1, <2>3
    <3> QED
        BY <3>2, <3>3, <2>5, <1>1
  <2>7. Ids(Tail(s)) = Tail(Ids(s))
      BY <2>3, <2>5, <2>6, SeqEqual
  <2> QED
      BY <2>2, <2>4, <2>7
<1>3. ASSUME NEW e \in S
      PROVE  Ids(Append(s, e)) = Append(Ids(s), e.id)
  <2>1. /\ Append(s, e) \in Seq(S) /\ Len(Append(s, e)) = Len(s) + 1
        /\ \A i \in 1..Len(s) : Append(s, e)[i] = s[i]
        /\ Append(s, e)[Len(s) + 1] = e /\ DOMAIN Append(s, e) = 1..(Len(s) + 1)
      BY <1>1, AppendProperties
  <2>2. e.id \in Nat
      OBVIOUS
  <2>3. /\ Append(Ids(s), e.id) \in Seq(Nat) /\ Len(Append(Ids(s), e.id)) = Len(s) + 1
        /\ \A i \in 1..Len(s) : Append(Ids(s), e.id)[i] = Ids(s)[i]
        /\ Append(Ids(s), e.id)[Len(s) + 1] = e.id
      BY <1>1, <2>2, AppendProperties
  <2>4. /\ Ids(Append(s, e)) \in Seq(Nat) /\ Len(Ids(Append(s, e))) = Len(s) + 1
        /\ \A i \in 1..(Len(s) + 1) : Ids(Append(s, e))[i] = Append(s, e)[i].id
      BY <2>1, IdsSeq
  <2>5. \A i \in 1..(Len(s) + 1) : Ids(Append(s, e))[i] = Append(Ids(s), e.id)[i]
    <3>1. SUFFICES ASSUME NEW i \in 1..(Len(s) + 1)
                   PROVE  Append(s, e)[i].id = Append(Ids(s), e.id)[i]
        BY <2>4
    <3>2. CASE i = Len(s) + 1
      <4>1. Append(s, e)[i] = e /\ Append(Ids(s), e.id)[i] = e.id
          BY <3>2, <2>1, <2>3
      <4> QED
          BY <4>1
    <3>3. CASE i \in 1..Len(s)
      <4>1. Append(s, e)[i] = s[i] /\ Append(Ids(s), e.id)[i] = Ids(s)[i] /\ Ids(s)[i] = s[i].id
          BY <3>3, <2>1, <2>3, <1>1
      <4> QED
          BY <4>1
    <3> QED
        BY <1>1, <3>2, <3>3
  <2> QED
      BY <2>3, <2>4, <2>5, SeqEqual
<1> QED
    BY <1>2, <1>3

-----------------------------------------------------------------------------
(* Boundaries in the channel up *)

Stray(e)     == e.kind \in {"result", "error"} /\ e.id = 0
HasStray(es) == \E i \in DOMAIN es : Stray(es[i])

\* Up to the first boundary of no turn of this life, no turn's boundary is missing before a later one's.
Clear(es, S) ==
    \A i \in DOMAIN es :
        es[i].id # 0 /\ (\A j \in 1..(i - 1) : ~Stray(es[j])) =>
            \A x \in S : x < es[i].id => x \in Nums(Ids(es))

LEMMA EventIds == \A e \in EventType : e.id \in Nat
BY Bounds DEF EventType

LEMMA EventsTail ==
    ASSUME NEW es \in Seq(EventType), es # <<>>, Inc(Ids(es)), NEW S \in SUBSET Nat
    PROVE  /\ Inc(Ids(Tail(es))) /\ Nums(Ids(Tail(es))) = Nums(Ids(es)) \ {Head(es).id}
           /\ Head(es).id \in Nat /\ \A x \in Nums(Ids(Tail(es))) : Head(es).id < x
           /\ Head(es).id # 0 => Head(es).id \in Nums(Ids(es))
           /\ ~Stray(Head(es)) => (HasStray(Tail(es)) <=> HasStray(es))
           /\ Clear(es, S) /\ ~Stray(Head(es)) => Clear(Tail(es), S \ {Head(es).id})
<1>1. /\ Ids(es) \in Seq(Nat) /\ Ids(es) # <<>> /\ Head(Ids(es)) = Head(es).id
      /\ Ids(Tail(es)) = Tail(Ids(es)) /\ Head(es).id \in Nat
    BY EventIds, IdsSeq, IdsOf, HeadTailProperties
<1>2. /\ Inc(Tail(Ids(es))) /\ Nums(Tail(Ids(es))) = Nums(Ids(es)) \ {Head(Ids(es))}
      /\ \A x \in Nums(Tail(Ids(es))) : Head(Ids(es)) < x
      /\ Head(Ids(es)) # 0 => Head(Ids(es)) \in Nums(Ids(es))
    BY <1>1, NumsTail
<1>3. /\ Len(es) \in Nat /\ Len(es) > 0 /\ Head(es) = es[1] /\ DOMAIN es = 1..Len(es)
      /\ Tail(es) \in Seq(EventType) /\ DOMAIN Tail(es) = 1..(Len(es) - 1)
      /\ \A i \in 1..(Len(es) - 1) : Tail(es)[i] = es[i + 1]
    BY HeadTailProperties, EmptySeq
<1>4. \A i \in DOMAIN Tail(es) : i + 1 \in DOMAIN es /\ Tail(es)[i] = es[i + 1] /\ i \in Nat
    BY <1>3
<1>5. \A i \in DOMAIN es : i = 1 \/ (i - 1 \in DOMAIN Tail(es) /\ Tail(es)[i - 1] = es[i])
  <2>1. SUFFICES ASSUME NEW i \in DOMAIN es, i # 1
                 PROVE  i - 1 \in DOMAIN Tail(es) /\ Tail(es)[i - 1] = es[i]
      OBVIOUS
  <2>2. i - 1 \in DOMAIN Tail(es) /\ (i - 1) + 1 = i
      BY <2>1, <1>3
  <2> QED
      BY <2>2, <1>3
<1>6. ~Stray(Head(es)) => (HasStray(Tail(es)) <=> HasStray(es))
    BY <1>3, <1>4, <1>5 DEF HasStray
<1>7. ASSUME Clear(es, S), ~Stray(Head(es))
      PROVE  Clear(Tail(es), S \ {Head(es).id})
  <2>1. SUFFICES ASSUME NEW i \in DOMAIN Tail(es), Tail(es)[i].id # 0,
                        \A j \in 1..(i - 1) : ~Stray(Tail(es)[j]),
                        NEW x \in S \ {Head(es).id}, x < Tail(es)[i].id
                 PROVE  x \in Nums(Ids(Tail(es)))
      BY DEF Clear
  <2>2. i + 1 \in DOMAIN es /\ es[i + 1] = Tail(es)[i] /\ i \in Nat
      BY <1>4
  <2>3. \A j \in 1..((i + 1) - 1) : ~Stray(es[j])
    <3>1. SUFFICES ASSUME NEW j \in 1..((i + 1) - 1) PROVE ~Stray(es[j])
        OBVIOUS
    <3>2. CASE j = 1
        BY <3>2, <1>3, <1>7
    <3>3. CASE j # 1
      <4>1. j - 1 \in 1..(i - 1) /\ j \in DOMAIN es
          BY <3>1, <3>3, <2>2, <1>3
      <4> QED
          BY <4>1, <3>3, <1>5, <2>1
    <3> QED
        BY <3>2, <3>3
  <2>4. x \in Nums(Ids(es))
      BY <2>1, <2>2, <2>3, <1>7 DEF Clear
  <2> QED
      BY <2>1, <2>4, <1>1, <1>2
<1> QED
    BY <1>1, <1>2, <1>6, <1>7

LEMMA EventsAppend ==
    ASSUME NEW es \in Seq(EventType), NEW e \in EventType, NEW S \in SUBSET Nat, Inc(Ids(es)),
           Clear(es, S), \A x \in Nums(Ids(es)) : e.id = 0 \/ x < e.id,
           e.id # 0 /\ ~HasStray(es) => \A x \in S : x < e.id => x \in Nums(Ids(es))
    PROVE  /\ Inc(Ids(Append(es, e))) /\ Clear(Append(es, e), S)
           /\ Nums(Ids(Append(es, e))) = Nums(Ids(es)) \cup ({e.id} \ {0})
           /\ HasStray(Append(es, e)) <=> HasStray(es) \/ Stray(e)
<1>1. Ids(es) \in Seq(Nat) /\ Ids(Append(es, e)) = Append(Ids(es), e.id) /\ e.id \in Nat
    BY EventIds, IdsSeq, IdsOf
<1>2. /\ Inc(Append(Ids(es), e.id))
      /\ Nums(Append(Ids(es), e.id)) = Nums(Ids(es)) \cup ({e.id} \ {0})
    BY <1>1, NumsAppend
<1>3. /\ Len(es) \in Nat /\ DOMAIN es = 1..Len(es) /\ DOMAIN Append(es, e) = 1..(Len(es) + 1)
      /\ \A i \in 1..Len(es) : Append(es, e)[i] = es[i]
      /\ Append(es, e)[Len(es) + 1] = e
    BY AppendProperties
<1>4. HasStray(Append(es, e)) <=> HasStray(es) \/ Stray(e)
    BY <1>3 DEF HasStray
<1>5. Clear(Append(es, e), S)
  <2>1. SUFFICES ASSUME NEW i \in 1..(Len(es) + 1), Append(es, e)[i].id # 0,
                        \A j \in 1..(i - 1) : ~Stray(Append(es, e)[j]),
                        NEW x \in S, x < Append(es, e)[i].id
                 PROVE  x \in Nums(Ids(es))
      BY <1>1, <1>2, <1>3 DEF Clear
  <2>2. \A j \in 1..(i - 1) : j \in 1..Len(es) /\ ~Stray(es[j])
      BY <2>1, <1>3
  <2>3. CASE i = Len(es) + 1
    <3>1. Append(es, e)[i] = e /\ \A j \in 1..Len(es) : j \in 1..(i - 1)
        BY <2>3, <1>3
    <3>2. ~HasStray(es)
        BY <3>1, <2>2, <1>3 DEF HasStray
    <3> QED
        BY <3>1, <3>2, <2>1
  <2>4. CASE i \in 1..Len(es)
      BY <2>1, <2>2, <2>4, <1>3 DEF Clear
  <2> QED
      BY <2>3, <2>4, <1>3
<1> QED
    BY <1>1, <1>2, <1>4, <1>5

\* A later start is behind every boundary.
LEMMA ClearStart ==
    ASSUME NEW es \in Seq(EventType), NEW S \in SUBSET Nat, NEW n \in Nat, Clear(es, S),
           \A x \in Nums(Ids(es)) : x < n
    PROVE  Clear(es, S \cup {n})
<1>1. SUFFICES ASSUME NEW i \in DOMAIN es, es[i].id # 0,
                      \A j \in 1..(i - 1) : ~Stray(es[j]),
                      NEW x \in S \cup {n}, x < es[i].id
               PROVE  x \in Nums(Ids(es))
    BY DEF Clear
<1>2. es[i].id \in Nums(Ids(es)) /\ es[i].id \in Nat
    BY <1>1, EventIds, IdsSeq DEF Nums
<1>3. es[i].id < n
    BY <1>2
<1>4. x \in S
    BY <1>1, <1>2, <1>3
<1> QED
    BY <1>1, <1>4 DEF Clear

-----------------------------------------------------------------------------
(* The line that the prompts stand in: in the channel down, among a Crew   *)
(* session's posts, at work, and as a boundary in the channel up.          *)

AtTurn(l, r) == IF l.pc = "turn" THEN {l.call.id}
                ELSE IF l.pc \in {"up", "down"} THEN Nums(r.turns) ELSE {}
AtPost(l)    == IF l.pc \in {"up", "down"} THEN Nums(l.posts) ELSE {}
Below(l, cs) == IF l.pc = "ended" THEN {} ELSE Nums(Ids(cs))
Placed(es, l, r, cs) == Nums(Ids(es)) \cup AtTurn(l, r) \cup AtPost(l) \cup Below(l, cs)

Ahead(A, B) == \A a \in A, b \in B : a < b
Line(e, t, p, c) == /\ Ahead(e, t) /\ Ahead(e, p) /\ Ahead(e, c)
                    /\ Ahead(t, p) /\ Ahead(t, c) /\ Ahead(p, c)
Sorted(es, l, r, cs) ==
    Inc(Ids(es)) /\ (l.pc # "ended" => Inc(Ids(cs)) /\ Inc(r.turns) /\ Inc(l.posts))

\* A Codex prompt behind another one, or behind a call, is behind a cancel, too.
Guarded(cs, l) ==
    l.pc # "ended" =>
        /\ \A i, k \in DOMAIN cs : i < k /\ cs[i].kind = "prompt" /\ cs[k].kind = "prompt" =>
               \E j \in DOMAIN cs : i < j /\ j < k /\ cs[j].kind = "cancel"
        /\ l.pc = "turn" => \A k \in DOMAIN cs : cs[k].kind = "prompt" =>
               \E j \in DOMAIN cs : j < k /\ cs[j].kind = "cancel"

\* The channel up: an exit ends it.
EventShape(es, l) ==
    \A i \in DOMAIN es :
        /\ es[i].kind = "init" => es[i].id = 0
        /\ es[i].kind = "exit" => i = Len(es) /\ l.pc = "ended"
StartsInc(f, r) == Inc(f.starts) /\ \A x \in Nums(f.starts) : x <= r.prompts

\* The turns that started and did not settle are those in the line, in its order.
Pipe(es, l, r, cs, f) ==
    /\ Sorted(es, l, r, cs)
    /\ Line(Nums(Ids(es)), AtTurn(l, r), AtPost(l), Below(l, cs))
    /\ Placed(es, l, r, cs) \subseteq Nums(f.starts)
    /\ l.pc # "ended" /\ ~HasStray(es) => Nums(f.starts) \subseteq Placed(es, l, r, cs)
    /\ Clear(es, Nums(f.starts))
    /\ l.pc = "down" => HasStray(es) \/ (Nums(r.turns) = {} /\ l.posts = <<>>)

PipeInv ==
    /\ EventShape(events, loop) /\ StartsInc(fan, remote)
    /\ ~shifted /\ ~lost => /\ Pipe(events, loop, remote, cmds, fan)
                            /\ IsCodex => Guarded(cmds, loop)

LEMMA PromptNums ==
    ASSUME NEW s \in Seq(Prompts)
    PROVE  s \in Seq(Nat) /\ Nums(s) \in SUBSET Nat /\ 0 \notin Nums(s) /\ (Nums(s) = {} <=> s = <<>>)
<1>1. Prompts \subseteq Nat /\ 0 \notin Prompts
    BY Bounds DEF Prompts
<1>2. s \in Seq(Nat)
    BY <1>1, SeqMonotonic
<1>3. \A i \in DOMAIN s : s[i] \in Prompts
    BY ElementOfSeq
<1>4. s # <<>> => 1 \in DOMAIN s
    BY EmptySeq
<1> QED
    BY SMTT(20), <1>1, <1>2, <1>3, <1>4 DEF Nums

LEMMA PipeTypes ==
    ASSUME Base
    PROVE  /\ events \in Seq(EventType) /\ cmds \in Seq(CmdType) /\ loop \in LoopType
           /\ remote \in RemoteType /\ fan \in FanType
           /\ Ids(events) \in Seq(Nat) /\ Ids(cmds) \in Seq(Nat) /\ remote.turns \in Seq(TurnIds)
           /\ loop.posts \in Seq(Prompts) /\ fan.starts \in Seq(Prompts)
           /\ remote.turns \in Seq(Nat) /\ loop.posts \in Seq(Nat) /\ fan.starts \in Seq(Nat)
           /\ loop.call.id \in Nat /\ remote.prompts \in Nat /\ Nums(fan.starts) \in SUBSET Nat
           /\ \A c \in CmdType : c.id \in Nat /\ (c.id = 0 <=> c.kind # "prompt")
           /\ Nums(Ids(events)) \in SUBSET Nat /\ AtTurn(loop, remote) \in SUBSET Nat
           /\ AtPost(loop) \in SUBSET Nat /\ Below(loop, cmds) \in SUBSET Nat
           /\ 0 \notin Nums(fan.starts)
<1>1. /\ events \in Seq(EventType) /\ cmds \in Seq(CmdType) /\ loop \in LoopType
      /\ remote \in RemoteType /\ fan \in FanType
    BY DEF Base, Typed
<1>2. \A c \in CmdType : c.id \in Nat /\ (c.id = 0 <=> c.kind # "prompt")
  <2>1. Prompts \subseteq Nat /\ 0 \notin Prompts
      BY Bounds DEF Prompts
  <2>2. ASSUME NEW c \in [kind : {"prompt"}, id : Prompts]
        PROVE  c.id \in Nat /\ c.id # 0 /\ c.kind = "prompt"
      BY <2>1
  <2>3. ASSUME NEW c \in [kind : {"cancel", "stop"}, id : {0}]
        PROVE  c.id = 0 /\ c.kind # "prompt"
      OBVIOUS
  <2> QED
      BY <2>2, <2>3 DEF CmdType
<1>3. Ids(events) \in Seq(Nat) /\ Ids(cmds) \in Seq(Nat)
  <2>1. Ids(events) \in Seq(Nat)
      BY <1>1, EventIds, IdsSeq
  <2>2. Ids(cmds) \in Seq(Nat)
      BY <1>1, <1>2, IdsSeq
  <2> QED
      BY <2>1, <2>2
<1>4. /\ remote.turns \in Seq(TurnIds) /\ loop.posts \in Seq(Prompts) /\ fan.starts \in Seq(Prompts)
      /\ loop.call \in CallType /\ remote.prompts \in 0..MaxPrompts
    BY <1>1 DEF LoopType, RemoteType, FanType
<1>5. loop.call.id \in Nat /\ remote.prompts \in Nat
    BY <1>4, Bounds DEF CallType
<1>6. \A s : s \in Seq(Nat) => Nums(s) \in SUBSET Nat
    BY ElementOfSeq DEF Nums
<1>7. /\ remote.turns \in Seq(Nat) /\ loop.posts \in Seq(Nat) /\ fan.starts \in Seq(Nat)
      /\ Nums(fan.starts) \in SUBSET Nat /\ 0 \notin Nums(fan.starts)
      /\ Nums(loop.posts) \in SUBSET Nat
  <2>1. remote.turns \in Seq(Nat)
    <3>1. TurnIds \subseteq Nat
        BY TurnIdsAre
    <3> QED
        BY <1>4, <3>1, SeqMonotonic
  <2> QED
      BY <2>1, <1>4, PromptNums
<1>8. /\ Nums(Ids(events)) \in SUBSET Nat /\ AtTurn(loop, remote) \in SUBSET Nat
      /\ AtPost(loop) \in SUBSET Nat /\ Below(loop, cmds) \in SUBSET Nat
    BY <1>3, <1>5, <1>6, <1>7 DEF AtTurn, AtPost, Below
<1> QED
    BY <1>1, <1>2, <1>3, <1>4, <1>5, <1>7, <1>8

\* The boundary at the head of the channel settles the oldest turn.
LEMMA OldestSettles ==
    ASSUME Base, EventShape(events, loop), StartsInc(fan, remote),
           Pipe(events, loop, remote, cmds, fan), events # <<>>, Head(events).id # 0
    PROVE  fan.starts # <<>> /\ Head(fan.starts) = Head(events).id
<1>1. PICK h : h = Head(events).id
    OBVIOUS
<1>2. PICK S : S = Nums(fan.starts)
    OBVIOUS
<1>3. PICK E : E = Nums(Ids(events))
    OBVIOUS
<1>4. S \in SUBSET Nat /\ E \in SUBSET Nat /\ events \in Seq(EventType) /\ Inc(Ids(events))
    BY <1>2, <1>3, PipeTypes DEF Pipe, Sorted
<1>5. h \in E /\ h \in Nat /\ \A x \in E : x = h \/ h < x
    BY <1>1, <1>3, <1>4, EventsTail
<1>6. h \in S
    BY <1>2, <1>3, <1>5 DEF Pipe, Placed
<1>7. \A x \in S : x < h => x \in E
  <2>1. 1 \in DOMAIN events /\ events[1] = Head(events) /\ \A j \in 1..(1 - 1) : FALSE
      BY <1>4, HeadTailProperties, EmptySeq
  <2> QED
      BY <2>1, <1>1, <1>2, <1>3 DEF Pipe, Clear
<1>8. \A x \in S : ~(x < h)
    BY <1>4, <1>5, <1>7
<1>9. fan.starts \in Seq(Prompts) /\ fan.starts \in Seq(Nat) /\ Inc(fan.starts) /\ 0 \notin S
    BY <1>2, PipeTypes DEF StartsInc
<1>10. fan.starts # <<>>
    BY <1>2, <1>6, <1>9, PromptNums
<1>11. Head(fan.starts) \in Nat /\ Head(fan.starts) # 0
    BY <1>9, <1>10, HeadTailProperties, Bounds DEF Prompts
<1>12. /\ Nums(Tail(fan.starts)) = S \ {Head(fan.starts)} /\ Head(fan.starts) \in S
       /\ \A x \in Nums(Tail(fan.starts)) : Head(fan.starts) < x
    BY <1>2, <1>9, <1>10, <1>11, NumsTail
<1>13. Head(fan.starts) = h
    BY <1>5, <1>6, <1>8, <1>11, <1>12
<1> QED
    BY <1>1, <1>10, <1>13

LEMMA ShapeTail ==
    ASSUME NEW es \in Seq(EventType), es # <<>>, NEW l, EventShape(es, l)
    PROVE  EventShape(Tail(es), l)
<1>1. /\ Len(es) \in Nat /\ DOMAIN es = 1..Len(es) /\ Len(Tail(es)) = Len(es) - 1
      /\ DOMAIN Tail(es) = 1..(Len(es) - 1) /\ \A i \in 1..(Len(es) - 1) : Tail(es)[i] = es[i + 1]
    BY HeadTailProperties
<1>2. \A i \in DOMAIN Tail(es) : i + 1 \in DOMAIN es /\ Tail(es)[i] = es[i + 1]
                                 /\ (i + 1 = Len(es) => i = Len(Tail(es)))
    BY <1>1
<1> QED
    BY <1>2 DEF EventShape

LEMMA StartsTail ==
    ASSUME Base, StartsInc(fan, remote), fan.starts # <<>>
    PROVE  /\ Nums(Tail(fan.starts)) = Nums(fan.starts) \ {Head(fan.starts)}
           /\ Inc(Tail(fan.starts)) /\ \A x \in Nums(Tail(fan.starts)) : x <= remote.prompts
<1>1. fan.starts \in Seq(Nat)
    BY PipeTypes
<1> QED
    BY <1>1, NumsTail DEF StartsInc

LEMMA PipeTake ==
    ASSUME Base, PipeInv, Taken
    PROVE  PipeInv'
<1>1. EventShape(events', loop')
    BY ShapeTail DEF Base, Typed, Taken, PipeInv
<1>2. StartsInc(fan', remote')
    BY StartsTail DEF PipeInv, Taken, StartsInc
<1>3. ASSUME ~shifted', ~lost'
      PROVE  Pipe(events', loop', remote', cmds', fan')
  <2>1. Pipe(events, loop, remote, cmds, fan) /\ EventShape(events, loop) /\ StartsInc(fan, remote)
      BY <1>3 DEF PipeInv, Taken
  <2>2. /\ events \in Seq(EventType) /\ events # <<>> /\ Inc(Ids(events))
        /\ Head(events) \in EventType /\ Nums(fan.starts) \in SUBSET Nat /\ 0 \notin Nums(fan.starts)
      BY <2>1, PipeTypes, HeadTailProperties DEF Taken, Pipe, Sorted
  <2>3. PICK h : h = Head(events).id
      OBVIOUS
  <2>4. PICK E, E2, T, P, C, S, S2 :
            /\ E = Nums(Ids(events)) /\ E2 = Nums(Ids(Tail(events))) /\ T = AtTurn(loop, remote)
            /\ P = AtPost(loop) /\ C = Below(loop, cmds) /\ S = Nums(fan.starts)
            /\ S2 = Nums(fan'.starts)
      OBVIOUS
  <2>5. /\ Inc(Ids(Tail(events))) /\ E2 = E \ {h} /\ h \in Nat /\ (h # 0 => h \in E)
        /\ ~Stray(Head(events)) => (HasStray(Tail(events)) <=> HasStray(events))
        /\ ~Stray(Head(events)) => Clear(Tail(events), S \ {h})
      BY <2>1, <2>2, <2>3, <2>4, EventsTail DEF Pipe
  <2>6. Line(E, T, P, C) /\ E \cup T \cup P \cup C \subseteq S
      BY <2>1, <2>4 DEF Pipe, Placed
  <2>7. Line(E2, T, P, C) /\ Sorted(events', loop', remote', cmds')
      BY <2>1, <2>5, <2>6 DEF Line, Ahead, Pipe, Sorted, Taken
  <2>8. UNCHANGED <<loop, remote, cmds, backend>> /\ events' = Tail(events)
      BY DEF Taken
  <2>9. SUFFICES /\ E2 \cup T \cup P \cup C \subseteq S2
                 /\ loop.pc # "ended" /\ ~HasStray(Tail(events)) => S2 \subseteq E2 \cup T \cup P \cup C
                 /\ Clear(Tail(events), S2)
                 /\ loop.pc = "down" =>
                       HasStray(Tail(events)) \/ (Nums(remote.turns) = {} /\ loop.posts = <<>>)
      BY <2>1, <2>4, <2>7, <2>8 DEF Pipe, Placed
  <2>10. CASE h # 0
    <3>1. fan.starts # <<>> /\ Head(fan.starts) = h
        BY <2>1, <2>2, <2>3, <2>10, OldestSettles
    <3>2. IsBoundary(Head(events)) /\ ~Stray(Head(events))
      <4>1. 1 \in DOMAIN events /\ events[1] = Head(events)
          BY <2>2, HeadTailProperties, EmptySeq
      <4> QED
          BY <2>1, <2>2, <2>3, <2>10, <4>1 DEF EventShape, IsBoundary, EventType, Stray
    <3>3. S2 = S \ {h}
        BY <2>1, <2>4, <3>1, <3>2, StartsTail DEF Taken
    <3>4. h \notin T \cup P \cup C
        BY <2>5, <2>6, <2>10 DEF Line, Ahead
    <3>5. loop.pc # "ended" /\ ~HasStray(events) => S \subseteq E \cup T \cup P \cup C
        BY <2>1, <2>4 DEF Pipe, Placed
    <3>6. loop.pc = "down" => HasStray(events) \/ (Nums(remote.turns) = {} /\ loop.posts = <<>>)
        BY <2>1 DEF Pipe
    <3> QED
        BY <2>5, <2>6, <3>2, <3>3, <3>4, <3>5, <3>6
  <2>11. CASE h = 0 /\ Stray(Head(events))
    <3>1. fan.starts = <<>> /\ fan'.starts = fan.starts
        BY <1>3, <2>2, <2>11 DEF Taken, Stray, EventType
    <3>2. S = {} /\ S2 = {}
        BY <2>4, <3>1 DEF Nums
    <3>3. loop.pc = "down" => Nums(remote.turns) = {} /\ loop.posts = <<>>
      <4>1. loop.pc = "down" => Nums(remote.turns) = {} /\ Nums(loop.posts) = {}
          BY <2>4, <2>6, <3>2 DEF AtTurn, AtPost
      <4> QED
          BY <4>1, PipeTypes, PromptNums
    <3> QED
        BY <2>5, <2>6, <3>2, <3>3 DEF Clear
  <2>12. CASE h = 0 /\ Head(events).kind = "init"
    <3>1. fan'.starts = fan.starts /\ ~Stray(Head(events))
        BY <2>12 DEF Taken, IsBoundary, Stray
    <3>2. S2 = S /\ S \ {h} = S /\ E2 = E
        BY <2>2, <2>4, <2>5, <2>12, <3>1 DEF Nums
    <3>3. loop.pc # "ended" /\ ~HasStray(events) => S \subseteq E \cup T \cup P \cup C
        BY <2>1, <2>4 DEF Pipe, Placed
    <3>4. loop.pc = "down" => HasStray(events) \/ (Nums(remote.turns) = {} /\ loop.posts = <<>>)
        BY <2>1 DEF Pipe
    <3> QED
        BY <2>5, <2>6, <3>1, <3>2, <3>3, <3>4
  <2>13. CASE h = 0 /\ Head(events).kind = "exit"
    <3>1. Len(events) = 1 /\ loop.pc = "ended"
      <4>1. 1 \in DOMAIN events /\ events[1] = Head(events)
          BY <2>2, HeadTailProperties, EmptySeq
      <4> QED
          BY <2>1, <2>13, <4>1 DEF EventShape
    <3>2. Tail(events) = <<>>
      <4>1. Tail(events) \in Seq(EventType) /\ Len(Tail(events)) = 0
          BY <2>2, <3>1, HeadTailProperties
      <4> QED
          BY <4>1, EmptySeq
    <3>3. E2 = {} /\ T = {} /\ P = {} /\ C = {}
        BY <2>4, <3>1, <3>2 DEF Nums, Ids, AtTurn, AtPost, Below
    <3> QED
        BY <3>1, <3>2, <3>3 DEF Clear
  <2>14. h = 0 => Stray(Head(events)) \/ Head(events).kind \in {"init", "exit"}
    <3>1. 1 \in DOMAIN events /\ events[1] = Head(events)
        BY <2>2, HeadTailProperties, EmptySeq
    <3> QED
        BY <2>1, <2>2, <2>3, <3>1 DEF EventShape, EventType, Stray
  <2> QED
      BY <2>10, <2>11, <2>12, <2>13, <2>14
<1>4. ASSUME ~shifted', ~lost', IsCodex'
      PROVE  Guarded(cmds', loop')
    BY <1>4 DEF PipeInv, Taken, IsCodex
<1> QED
    BY <1>1, <1>2, <1>3, <1>4 DEF PipeInv

LEMMA GuardTail ==
    ASSUME NEW cs \in Seq(CmdType), cs # <<>>, NEW l, NEW l2, Guarded(cs, l), l.pc # "ended",
           l2.pc = "turn" => Head(cs).kind = "prompt" \/ (l.pc = "turn" /\ Head(cs).kind # "cancel")
    PROVE  Guarded(Tail(cs), l2)
<1>1. /\ Len(cs) \in Nat /\ DOMAIN cs = 1..Len(cs) /\ Head(cs) = cs[1] /\ Len(cs) > 0
      /\ DOMAIN Tail(cs) = 1..(Len(cs) - 1) /\ \A i \in 1..(Len(cs) - 1) : Tail(cs)[i] = cs[i + 1]
    BY HeadTailProperties, EmptySeq
<1>2. \A i \in DOMAIN Tail(cs) : i + 1 \in DOMAIN cs /\ Tail(cs)[i] = cs[i + 1] /\ i \in Nat
    BY <1>1
<1>3. \A j \in DOMAIN cs : j > 1 => j - 1 \in DOMAIN Tail(cs) /\ Tail(cs)[j - 1] = cs[j]
  <2>1. SUFFICES ASSUME NEW j \in DOMAIN cs, j > 1
                 PROVE  j - 1 \in DOMAIN Tail(cs) /\ Tail(cs)[j - 1] = cs[j]
      OBVIOUS
  <2>2. j - 1 \in 1..(Len(cs) - 1) /\ (j - 1) + 1 = j
      BY <2>1, <1>1
  <2> QED
      BY <2>2, <1>1
<1>4. ASSUME NEW i \in DOMAIN Tail(cs), NEW k \in DOMAIN Tail(cs), i < k,
             Tail(cs)[i].kind = "prompt", Tail(cs)[k].kind = "prompt"
      PROVE  \E j \in DOMAIN Tail(cs) : i < j /\ j < k /\ Tail(cs)[j].kind = "cancel"
  <2>1. i + 1 < k + 1
      BY <1>2, <1>4
  <2>2. PICK j \in DOMAIN cs : i + 1 < j /\ j < k + 1 /\ cs[j].kind = "cancel"
      BY <2>1, <1>2, <1>4 DEF Guarded
  <2>3. j - 1 \in DOMAIN Tail(cs) /\ Tail(cs)[j - 1] = cs[j] /\ i < j - 1 /\ j - 1 < k
    <3>1. i \in Nat /\ k \in Nat /\ j \in Nat /\ j > 1
        BY <2>2, <1>1, <1>2
    <3> QED
        BY <3>1, <2>2, <1>3
  <2> QED
      BY <2>2, <2>3
<1>5. ASSUME l2.pc = "turn", NEW k \in DOMAIN Tail(cs), Tail(cs)[k].kind = "prompt"
      PROVE  \E j \in DOMAIN Tail(cs) : j < k /\ Tail(cs)[j].kind = "cancel"
  <2>1. 1 \in DOMAIN cs /\ 1 < k + 1 /\ k + 1 \in DOMAIN cs /\ cs[k + 1].kind = "prompt"
      BY <1>1, <1>2, <1>5
  <2>2. PICK j \in DOMAIN cs : j < k + 1 /\ cs[j].kind = "cancel" /\ j # 1
    <3>1. CASE Head(cs).kind = "prompt"
      <4>1. \E j \in DOMAIN cs : 1 < j /\ j < k + 1 /\ cs[j].kind = "cancel"
          BY <2>1, <3>1, <1>1 DEF Guarded
      <4> QED
          BY <4>1, <1>1
    <3>2. CASE l.pc = "turn" /\ Head(cs).kind # "cancel"
        BY <2>1, <3>2, <1>1 DEF Guarded
    <3> QED
        BY <3>1, <3>2, <1>5
  <2>3. j - 1 \in DOMAIN Tail(cs) /\ Tail(cs)[j - 1] = cs[j] /\ j - 1 < k
    <3>1. k \in Nat /\ j \in Nat /\ j > 1
        BY <2>2, <1>1, <1>2
    <3> QED
        BY <3>1, <2>2, <1>3
  <2> QED
      BY <2>2, <2>3
<1> QED
    BY <1>4, <1>5 DEF Guarded

LEMMA GuardAppend ==
    ASSUME NEW cs \in Seq(CmdType), NEW l, Guarded(cs, l), NEW c \in CmdType,
           \/ c.kind # "prompt"
           \/ \E j \in DOMAIN cs : j = Len(cs) /\ cs[j].kind = "cancel"
           \/ l.pc # "turn" /\ \A k \in DOMAIN cs : cs[k].kind # "prompt"
    PROVE  Guarded(Append(cs, c), l)
<1>1. /\ Len(cs) \in Nat /\ DOMAIN cs = 1..Len(cs) /\ DOMAIN Append(cs, c) = 1..(Len(cs) + 1)
      /\ \A i \in 1..Len(cs) : Append(cs, c)[i] = cs[i]
      /\ Append(cs, c)[Len(cs) + 1] = c
    BY AppendProperties
<1>2. \A i \in DOMAIN Append(cs, c) : i = Len(cs) + 1 \/ i \in DOMAIN cs
    BY <1>1
<1>3. \A i \in DOMAIN cs : i \in DOMAIN Append(cs, c) /\ Append(cs, c)[i] = cs[i]
                           /\ i < Len(cs) + 1 /\ i \in Nat
    BY <1>1
<1>4. SUFFICES ASSUME l.pc # "ended"
               PROVE  Guarded(Append(cs, c), l)
    BY DEF Guarded
<1>5. ASSUME NEW i \in DOMAIN Append(cs, c), NEW k \in DOMAIN Append(cs, c), i < k,
             Append(cs, c)[i].kind = "prompt", Append(cs, c)[k].kind = "prompt"
      PROVE  \E j \in DOMAIN Append(cs, c) : i < j /\ j < k /\ Append(cs, c)[j].kind = "cancel"
  <2>1. i \in DOMAIN cs
      BY <1>1, <1>5
  <2>2. CASE k \in DOMAIN cs
    <3>1. PICK j \in DOMAIN cs : i < j /\ j < k /\ cs[j].kind = "cancel"
        BY <2>1, <2>2, <1>3, <1>4, <1>5 DEF Guarded
    <3> QED
        BY <3>1, <1>3
  <2>3. CASE k = Len(cs) + 1
    <3>1. PICK j \in DOMAIN cs : j = Len(cs) /\ cs[j].kind = "cancel"
        BY <2>1, <2>3, <1>1, <1>3, <1>5
    <3>2. i # j
        BY <2>1, <3>1, <1>3, <1>5
    <3>3. i < j /\ j < k
        BY <2>1, <2>3, <3>1, <3>2, <1>1
    <3> QED
        BY <3>1, <3>3, <1>3
  <2> QED
      BY <2>2, <2>3, <1>2
<1>6. ASSUME l.pc = "turn", NEW k \in DOMAIN Append(cs, c), Append(cs, c)[k].kind = "prompt"
      PROVE  \E j \in DOMAIN Append(cs, c) : j < k /\ Append(cs, c)[j].kind = "cancel"
  <2>1. CASE k \in DOMAIN cs
    <3>1. PICK j \in DOMAIN cs : j < k /\ cs[j].kind = "cancel"
        BY <2>1, <1>3, <1>4, <1>6 DEF Guarded
    <3> QED
        BY <3>1, <1>3
  <2>2. CASE k = Len(cs) + 1
    <3>1. PICK j \in DOMAIN cs : j = Len(cs) /\ cs[j].kind = "cancel"
        BY <2>2, <1>1, <1>6
    <3> QED
        BY <2>2, <3>1, <1>3
  <2> QED
      BY <2>1, <2>2, <1>2
<1> QED
    BY <1>5, <1>6 DEF Guarded

LEMMA CmdIds == \A c \in CmdType : c.id \in Nat /\ (c.id = 0 <=> c.kind # "prompt")
<1>1. Prompts \subseteq Nat /\ 0 \notin Prompts
    BY Bounds DEF Prompts
<1>2. ASSUME NEW c \in [kind : {"prompt"}, id : Prompts]
      PROVE  c.id \in Nat /\ c.id # 0 /\ c.kind = "prompt"
    BY <1>1
<1>3. ASSUME NEW c \in [kind : {"cancel", "stop"}, id : {0}]
      PROVE  c.id = 0 /\ c.kind # "prompt"
    OBVIOUS
<1> QED
    BY <1>2, <1>3 DEF CmdType

LEMMA CmdsAppend ==
    ASSUME NEW cs \in Seq(CmdType), Inc(Ids(cs)), NEW c \in CmdType,
           \A x \in Nums(Ids(cs)) : c.id = 0 \/ x < c.id
    PROVE  /\ Append(cs, c) \in Seq(CmdType) /\ Inc(Ids(Append(cs, c)))
           /\ Nums(Ids(Append(cs, c))) = Nums(Ids(cs)) \cup ({c.id} \ {0})
<1>1. Ids(cs) \in Seq(Nat) /\ Ids(Append(cs, c)) = Append(Ids(cs), c.id) /\ c.id \in Nat
    BY CmdIds, IdsSeq, IdsOf
<1>2. /\ Inc(Append(Ids(cs), c.id))
      /\ Nums(Append(Ids(cs), c.id)) = Nums(Ids(cs)) \cup ({c.id} \ {0})
    BY <1>1, NumsAppend
<1> QED
    BY <1>1, <1>2, AppendProperties

LEMMA CmdsTail ==
    ASSUME NEW cs \in Seq(CmdType), Inc(Ids(cs)), cs # <<>>
    PROVE  /\ Inc(Ids(Tail(cs))) /\ Nums(Ids(Tail(cs))) = Nums(Ids(cs)) \ {Head(cs).id}
           /\ \A x \in Nums(Ids(Tail(cs))) : Head(cs).id < x
           /\ Head(cs).id # 0 => Head(cs).id \in Nums(Ids(cs))
           /\ Head(cs).kind # "prompt" => Nums(Ids(Tail(cs))) = Nums(Ids(cs))
<1>1. /\ Ids(cs) \in Seq(Nat) /\ Ids(cs) # <<>> /\ Head(Ids(cs)) = Head(cs).id
      /\ Ids(Tail(cs)) = Tail(Ids(cs)) /\ Head(cs) \in CmdType
    BY CmdIds, IdsSeq, IdsOf, HeadTailProperties
<1>2. /\ Inc(Tail(Ids(cs))) /\ Nums(Tail(Ids(cs))) = Nums(Ids(cs)) \ {Head(Ids(cs))}
      /\ \A x \in Nums(Tail(Ids(cs))) : Head(Ids(cs)) < x
      /\ Head(Ids(cs)) # 0 => Head(Ids(cs)) \in Nums(Ids(cs))
    BY <1>1, NumsTail
<1>3. Head(cs).kind # "prompt" => Nums(Ids(Tail(cs))) = Nums(Ids(cs))
    BY <1>1, <1>2, CmdIds DEF Nums
<1> QED
    BY <1>1, <1>2, <1>3

LEMMA PipeSend ==
    ASSUME Base, PipeInv, NEW before \in {<<>>, <<Cancel>>}, before = <<>> => ~fan.running,
           Serving, Send(before), Idle
    PROVE  PipeInv'
<1>1. PICK n : n = Next_Id
    OBVIOUS
<1>2. /\ n = remote.prompts + 1 /\ n \in Prompts /\ n \in Nat /\ n # 0 /\ remote.prompts \in Nat
      /\ n > remote.prompts
  <2>1. remote.prompts \in 0..MaxPrompts
      BY DEF Base, Typed, RemoteType
  <2> QED
      BY <1>1, <2>1, Bounds DEF Next_Id, Send, Room, Prompts
<1>3. /\ fan'.starts = Append(fan.starts, n) /\ remote'.prompts = n /\ remote'.turns = remote.turns
      /\ UNCHANGED <<loop, events, backend, shifted, lost>>
  <2>1. fan \in FanType /\ remote \in RemoteType
      BY DEF Base, Typed
  <2>2. fan'.starts = Append(fan.starts, n)
      BY <2>1, <1>1 DEF Send, Start, FanType
  <2>3. remote'.prompts = n /\ remote'.turns = remote.turns
      BY <2>1, <1>1 DEF Send, RemoteType
  <2> QED
      BY <2>2, <2>3 DEF Idle
<1>4. PICK S, S2 : S = Nums(fan.starts) /\ S2 = Nums(fan'.starts)
    OBVIOUS
<1>5. S2 = S \cup {n} /\ S \in SUBSET Nat /\ (\A x \in S : x < n) /\ StartsInc(fan', remote')
  <2>1. fan.starts \in Seq(Nat) /\ S \in SUBSET Nat
      BY <1>4, PipeTypes
  <2>2. Inc(fan.starts) /\ \A x \in S : x < n
      BY <1>2, <1>4, <2>1 DEF PipeInv, StartsInc
  <2>3. S2 = S \cup {n} /\ Inc(fan'.starts)
      BY <1>2, <1>3, <1>4, <2>1, <2>2, NumsAppend
  <2>4. \A x \in S2 : x <= remote'.prompts
      BY <1>2, <1>3, <2>1, <2>2, <2>3
  <2> QED
      BY <1>4, <2>1, <2>2, <2>3, <2>4 DEF StartsInc
<1>6. EventShape(events', loop')
    BY <1>3 DEF PipeInv
<1>7. ASSUME ~shifted', ~lost'
      PROVE  Pipe(events', loop', remote', cmds', fan') /\ (IsCodex' => Guarded(cmds', loop'))
  <2>1. Pipe(events, loop, remote, cmds, fan) /\ (IsCodex => Guarded(cmds, loop))
      BY <1>3, <1>7 DEF PipeInv
  <2>2. PICK E, T, P, C : /\ E = Nums(Ids(events)) /\ T = AtTurn(loop, remote)
                          /\ P = AtPost(loop) /\ C = Below(loop, cmds)
      OBVIOUS
  <2>3. /\ Line(E, T, P, C) /\ E \cup T \cup P \cup C \subseteq S /\ Clear(events, S)
        /\ loop.pc # "ended" /\ ~HasStray(events) => S \subseteq E \cup T \cup P \cup C
        /\ loop.pc = "down" => HasStray(events) \/ (Nums(remote.turns) = {} /\ loop.posts = <<>>)
      BY <1>4, <2>1, <2>2 DEF Pipe, Placed
  <2>4. AtTurn(loop', remote') = T /\ AtPost(loop') = P
      BY <1>3, <2>2 DEF AtTurn, AtPost
  <2>5. Clear(events, S2)
      BY <1>2, <1>5, <2>2, <2>3, PipeTypes, ClearStart
  <2>6. CASE loop.pc = "ended"
    <3>1. cmds' = cmds /\ C = {}
        BY <2>2, <2>6 DEF Send, Below
    <3>2. Below(loop', cmds') = C
        BY <1>3, <2>2, <3>1
    <3>3. Sorted(events', loop', remote', cmds') /\ Guarded(cmds', loop')
        BY <1>3, <2>1, <2>6 DEF Pipe, Sorted, Guarded
    <3> QED
        BY <1>3, <1>4, <1>5, <2>2, <2>3, <2>4, <2>5, <2>6, <3>2, <3>3 DEF Pipe, Placed
  <2>7. CASE loop.pc # "ended"
    <3>1. PICK c : c = [kind |-> "prompt", id |-> n]
        OBVIOUS
    <3>2. c \in CmdType /\ c.id = n /\ c.kind = "prompt" /\ Cancel \in CmdType
          /\ Cancel.kind = "cancel" /\ Cancel.id = 0
        BY <1>2, <3>1 DEF CmdType, Cancel
    <3>3. PICK b : b = cmds \o before
        OBVIOUS
    <3>4. cmds \in Seq(CmdType) /\ Inc(Ids(cmds)) /\ C = Nums(Ids(cmds))
        BY <2>1, <2>2, <2>7, PipeTypes DEF Pipe, Sorted, Below
    <3>5. /\ b \in Seq(CmdType) /\ Inc(Ids(b)) /\ Nums(Ids(b)) = C
          /\ (IsCodex => Guarded(b, loop))
          /\ before = <<Cancel>> => \E j \in DOMAIN b : j = Len(b) /\ b[j].kind = "cancel"
          /\ before = <<>> => b = cmds
      <4>1. CASE before = <<>>
        <5>1. b = cmds
            BY <4>1, <3>3, <3>4, ConcatEmptySeq
        <5>2. before # <<Cancel>>
            BY <4>1
        <5> QED
            BY <5>1, <5>2, <3>4, <2>1
      <4>2. CASE before = <<Cancel>>
        <5>1. b = Append(cmds, Cancel)
            BY <4>2, <3>2, <3>3, <3>4, AppendIsConcat
        <5>2. b \in Seq(CmdType) /\ Inc(Ids(b)) /\ Nums(Ids(b)) = C
          <6>1. \A x \in Nums(Ids(cmds)) : Cancel.id = 0 \/ x < Cancel.id
              BY <3>2
          <6>2. b \in Seq(CmdType) /\ Inc(Ids(b)) /\ Nums(Ids(b)) = Nums(Ids(cmds)) \cup ({Cancel.id} \ {0})
              BY <5>1, <6>1, <3>2, <3>4, CmdsAppend
          <6> QED
              BY <6>2, <3>2, <3>4
        <5>3. IsCodex => Guarded(b, loop)
            BY <5>1, <3>2, <3>4, <2>1, GuardAppend
        <5>4. Len(b) \in DOMAIN b /\ b[Len(b)] = Cancel
            BY <5>1, <3>2, <3>4, AppendProperties
        <5>5. before # <<>>
            BY <4>2
        <5> QED
            BY <5>2, <5>3, <5>4, <5>5, <3>2
      <4> QED
          BY <4>1, <4>2
    <3>6. cmds' = Append(b, c)
      <4>1. cmds' = cmds \o before \o <<c>>
          BY <2>7, <3>1, <1>1 DEF Send
      <4> QED
          BY <4>1, <3>2, <3>3, <3>5, AppendIsConcat
    <3>7. \A x \in C : x < n
        BY <1>5, <2>3
    <3>8. /\ Inc(Ids(cmds')) /\ Nums(Ids(cmds')) = C \cup {n}
        BY <1>2, <3>2, <3>5, <3>6, <3>7, CmdsAppend
    <3>9. Below(loop', cmds') = C \cup {n}
        BY <1>3, <2>7, <3>8 DEF Below
    <3>10. Line(E, T, P, C \cup {n})
        BY <1>5, <2>3 DEF Line, Ahead
    <3>11. Sorted(events', loop', remote', cmds')
        BY <1>3, <2>1, <2>7, <3>8 DEF Pipe, Sorted
    <3>12. IsCodex => Guarded(cmds', loop')
      <4>1. CASE before = <<Cancel>>
          BY <4>1, <1>3, <3>2, <3>5, <3>6, GuardAppend
      <4>2. CASE before = <<>>
        <5>1. fan.starts = <<>>
          <6>1. fan.bound = fan.seq /\ Len(fan.starts) = 0
            <7>1. fan.bound \in Nat /\ fan.seq \in Nat
                BY PipeTypes, Bounds DEF FanType
            <7> QED
                BY <7>1, <4>2 DEF Base, Counts
          <6> QED
              BY <6>1, PipeTypes, EmptySeq
        <5>2. S = {}
            BY <1>4, <5>1 DEF Nums
        <5>3. T = {} /\ Nums(Ids(cmds)) = {}
            BY <2>3, <3>4, <5>2
        <5>4. loop.pc # "turn"
            BY <2>2, <5>3 DEF AtTurn
        <5>5. \A k \in DOMAIN cmds : cmds[k].kind # "prompt"
          <6>1. SUFFICES ASSUME NEW k \in DOMAIN cmds PROVE cmds[k].kind # "prompt"
              OBVIOUS
          <6>2. cmds[k] \in CmdType /\ Ids(cmds)[k] = cmds[k].id /\ k \in DOMAIN Ids(cmds)
              BY <3>4, <6>1, CmdIds, IdsSeq, ElementOfSeq
          <6>3. cmds[k].id = 0
              BY <5>3, <6>2 DEF Nums
          <6> QED
              BY <6>2, <6>3, CmdIds
        <5> QED
            BY <4>2, <5>4, <5>5, <1>3, <3>2, <3>4, <3>5, <3>6, <2>1, GuardAppend
      <4> QED
          BY <4>1, <4>2
    <3>13. IsCodex' => Guarded(cmds', loop')
        BY <1>3, <3>12 DEF IsCodex
    <3> QED
        BY <1>3, <1>4, <1>5, <2>2, <2>3, <2>4, <2>5, <2>7, <3>9, <3>10, <3>11, <3>13 DEF Pipe, Placed
  <2> QED
      BY <2>6, <2>7
<1> QED
    BY <1>5, <1>6, <1>7 DEF PipeInv

\* Commands that are no prompts.
LEMMA PipeInput ==
    ASSUME Base, PipeInv, UNCHANGED <<events, loop, remote, backend, shifted, lost>>,
           fan'.starts = fan.starts,
           cmds' = cmds \/ (\E c \in CmdType : c.kind # "prompt" /\ cmds' = Append(cmds, c))
    PROVE  PipeInv'
<1>1. EventShape(events', loop') /\ StartsInc(fan', remote')
    BY DEF PipeInv, StartsInc
<1>2. ASSUME ~shifted', ~lost'
      PROVE  Pipe(events', loop', remote', cmds', fan') /\ (IsCodex' => Guarded(cmds', loop'))
  <2>1. Pipe(events, loop, remote, cmds, fan) /\ (IsCodex => Guarded(cmds, loop))
      BY <1>2 DEF PipeInv
  <2>2. /\ loop.pc # "ended" => Inc(Ids(cmds'))
        /\ Below(loop, cmds') = Below(loop, cmds)
        /\ IsCodex => Guarded(cmds', loop)
    <3>1. CASE cmds' = cmds
        BY <2>1, <3>1 DEF Pipe, Sorted
    <3>2. ASSUME NEW c \in CmdType, c.kind # "prompt", cmds' = Append(cmds, c)
          PROVE  /\ loop.pc # "ended" => Inc(Ids(cmds'))
                 /\ Below(loop, cmds') = Below(loop, cmds)
                 /\ IsCodex => Guarded(cmds', loop)
      <4>1. c.id = 0 /\ cmds \in Seq(CmdType)
          BY <3>2, CmdIds, PipeTypes
      <4>2. IsCodex => Guarded(cmds', loop)
          BY <2>1, <3>2, <4>1, GuardAppend
      <4>3. loop.pc # "ended" => Inc(Ids(cmds')) /\ Nums(Ids(cmds')) = Nums(Ids(cmds)) \cup ({c.id} \ {0})
          BY <2>1, <3>2, <4>1, CmdsAppend DEF Pipe, Sorted
      <4> QED
          BY <4>1, <4>2, <4>3 DEF Below
    <3> QED
        BY <3>1, <3>2
  <2>3. Pipe(events', loop', remote', cmds', fan')
      BY <2>1, <2>2 DEF Pipe, Sorted, Placed
  <2> QED
      BY <2>2, <2>3 DEF IsCodex
<1> QED
    BY <1>1, <1>2 DEF PipeInv

LEMMA NoNums ==
    ASSUME NEW s, \A i \in DOMAIN s : s[i].id = 0
    PROVE  Inc(Ids(s)) /\ Nums(Ids(s)) = {}
BY DEF Inc, Ids, Nums

\* Turns of earlier lives have no number.
LEMMA OldNums ==
    ASSUME NEW s \in Seq({OldTurn})
    PROVE  Inc(s) /\ Nums(s) = {}
<1>1. \A i \in DOMAIN s : s[i] = 0
    BY ElementOfSeq DEF OldTurn
<1> QED
    BY <1>1 DEF Inc, Nums

\* Nothing in the line, and no turn.
LEMMA PipeEmpty ==
    ASSUME NEW es, NEW l, NEW r, NEW cs, NEW f, \A i \in DOMAIN es : es[i].id = 0, f.starts = <<>>,
           \/ l.pc = "ended"
           \/ /\ l.pc \in {"idle", "up"} /\ r.turns \in Seq({OldTurn})
              /\ l.posts = <<>> /\ cs = <<>>
    PROVE  Pipe(es, l, r, cs, f) /\ Guarded(cs, l) /\ (r.prompts \in Nat => StartsInc(f, r))
<1>1. Inc(Ids(es)) /\ Nums(Ids(es)) = {}
    BY NoNums
<1>2. Nums(<<>>) = {} /\ Inc(<<>>) /\ Ids(<<>>) = <<>>
    BY DEF Nums, Inc, Ids
<1>3. AtTurn(l, r) = {} /\ AtPost(l) = {} /\ Below(l, cs) = {}
    BY <1>2, OldNums DEF AtTurn, AtPost, Below
<1>4. Sorted(es, l, r, cs) /\ Guarded(cs, l)
    BY <1>1, <1>2, OldNums DEF Sorted, Guarded
<1>5. Clear(es, Nums(f.starts))
    BY <1>2 DEF Clear
<1>6. r.prompts \in Nat => StartsInc(f, r)
    BY <1>2 DEF StartsInc
<1> QED
    BY <1>1, <1>2, <1>3, <1>4, <1>5, <1>6 DEF Pipe, Line, Ahead, Placed

LEMMA PipeLife ==
    ASSUME Base, Base', PipeInv, Lives
    PROVE  PipeInv'
<1>1. CASE Insert
  <2>1. UNCHANGED <<events, loop, remote, backend, shifted, lost, cmds>> /\ fan'.starts = fan.starts
      BY <1>1 DEF Insert
  <2> QED
      BY <2>1, PipeInput
<1>2. remote'.prompts \in Nat
    BY PipeTypes DEF Base, Typed, RemoteType
<1>3. CASE EnsureCodex \/ EnsureCrew
  <2>1. PICK pc, ref : pc \in {"idle", "up"} /\ Spawned(pc, ref)
      BY <1>3 DEF EnsureCodex, EnsureCrew
  <2>2. loop'.pc = pc /\ loop'.posts = <<>> /\ cmds' = <<>>
      BY <2>1 DEF Spawned, FreshLoop
  <2>3. fan'.starts = <<>>
      BY <2>1 DEF Spawned, FreshFan
  <2>4. /\ \A i \in DOMAIN events' : events'[i].id = 0 /\ events'[i].kind = "init"
      BY <2>1 DEF Spawned, Event
  <2>5. remote'.turns \in Seq({OldTurn})
    <3>1. remote \in RemoteType /\ remote.turns \in Seq({OldTurn}) /\ <<>> \in Seq({OldTurn})
        BY <1>3 DEF Base, Typed, Fresh, EnsureCodex, EnsureCrew
    <3> QED
        BY <1>3, <3>1 DEF EnsureCodex, EnsureCrew, NewSlot, RemoteType
  <2>6. EventShape(events', loop')
      BY <2>4 DEF EventShape
  <2>7. Pipe(events', loop', remote', cmds', fan') /\ Guarded(cmds', loop') /\ StartsInc(fan', remote')
    <3>1. \A i \in DOMAIN events' : events'[i].id = 0
        BY <2>4
    <3>2. loop'.pc \in {"idle", "up"}
        BY <2>1, <2>2
    <3> QED
        BY <1>2, <2>2, <2>3, <2>5, <3>1, <3>2, PipeEmpty
  <2> QED
      BY <2>6, <2>7 DEF PipeInv
<1>4. CASE FanEnds
  <2>1. events' = <<>> /\ loop'.pc = "ended" /\ fan'.starts = <<>>
      BY <1>4 DEF FanEnds, FreshFan, Base, Typed, LoopType
  <2>2. Pipe(events', loop', remote', cmds', fan') /\ Guarded(cmds', loop') /\ StartsInc(fan', remote')
    <3>1. \A i \in DOMAIN events' : events'[i].id = 0
        BY <2>1
    <3> QED
        BY <1>2, <2>1, <3>1, PipeEmpty
  <2>3. EventShape(events', loop')
      BY <2>1 DEF EventShape
  <2> QED
      BY <2>2, <2>3 DEF PipeInv
<1> QED
    BY <1>1, <1>3, <1>4 DEF Lives

LEMMA ShapeSame ==
    ASSUME NEW es, NEW l, NEW l2, EventShape(es, l), l.pc = "ended" => l2.pc = "ended"
    PROVE  EventShape(es, l2)
BY DEF EventShape

LEMMA ShapeAppend ==
    ASSUME NEW es \in Seq(EventType), NEW e \in EventType, NEW l, NEW l2, EventShape(es, l),
           l.pc # "ended", e.kind # "init", e.kind = "exit" => l2.pc = "ended"
    PROVE  EventShape(Append(es, e), l2)
<1>1. /\ Len(es) \in Nat /\ DOMAIN es = 1..Len(es) /\ DOMAIN Append(es, e) = 1..(Len(es) + 1)
      /\ Len(Append(es, e)) = Len(es) + 1
      /\ \A i \in 1..Len(es) : Append(es, e)[i] = es[i]
      /\ Append(es, e)[Len(es) + 1] = e
    BY AppendProperties
<1>2. SUFFICES ASSUME NEW i \in 1..(Len(es) + 1)
               PROVE  /\ Append(es, e)[i].kind = "init" => Append(es, e)[i].id = 0
                      /\ Append(es, e)[i].kind = "exit" => i = Len(es) + 1 /\ l2.pc = "ended"
    BY <1>1 DEF EventShape
<1>3. CASE i = Len(es) + 1
    BY <1>1, <1>3
<1>4. CASE i \in DOMAIN es
    BY <1>1, <1>4 DEF EventShape
<1> QED
    BY <1>1, <1>2, <1>3, <1>4

\* What is at work may come to be a boundary, the oldest first.
LEMMA EmitInLine ==
    ASSUME Base, Pipe(events, loop, remote, cmds, fan), loop.pc # "ended", NEW e \in EventType,
           \/ e.id = 0
           \/ e.id \in AtTurn(loop, remote) /\ \A x \in AtTurn(loop, remote) : x = e.id \/ e.id < x
    PROVE  /\ Inc(Ids(Append(events, e))) /\ Clear(Append(events, e), Nums(fan.starts))
           /\ Nums(Ids(Append(events, e))) = Nums(Ids(events)) \cup ({e.id} \ {0})
           /\ HasStray(Append(events, e)) <=> HasStray(events) \/ Stray(e)
           /\ Line(Nums(Ids(Append(events, e))), AtTurn(loop, remote) \ {e.id}, AtPost(loop),
                   Below(loop, cmds))
<1>1. PICK E, T, P, C, S : /\ E = Nums(Ids(events)) /\ T = AtTurn(loop, remote)
                           /\ P = AtPost(loop) /\ C = Below(loop, cmds) /\ S = Nums(fan.starts)
    OBVIOUS
<1>2. /\ E \in SUBSET Nat /\ T \in SUBSET Nat /\ P \in SUBSET Nat /\ C \in SUBSET Nat
      /\ S \in SUBSET Nat /\ events \in Seq(EventType) /\ e.id \in Nat
    BY <1>1, PipeTypes, EventIds
<1>3. /\ Line(E, T, P, C) /\ E \cup T \cup P \cup C \subseteq S /\ Clear(events, S)
      /\ ~HasStray(events) => S \subseteq E \cup T \cup P \cup C
      /\ Inc(Ids(events))
    BY <1>1 DEF Pipe, Placed, Sorted
<1>4. \A x \in E : e.id = 0 \/ x < e.id
    BY <1>1, <1>3 DEF Line, Ahead
<1>5. ASSUME e.id # 0, ~HasStray(events), NEW x \in S, x < e.id
      PROVE  x \in E
  <2>1. x \in E \cup T \cup P \cup C
      BY <1>3, <1>5
  <2>2. e.id \in T /\ x \in Nat /\ e.id \in Nat
      BY <1>1, <1>2, <1>5
  <2>3. x \notin T
      BY <1>1, <1>5, <2>2
  <2>4. x \notin P /\ x \notin C
    <3>1. \A y \in P \cup C : e.id < y
        BY <1>3, <2>2 DEF Line, Ahead
    <3>2. ~(e.id < x)
        BY <1>5, <2>2
    <3> QED
        BY <3>1, <3>2
  <2> QED
      BY <2>1, <2>3, <2>4
<1>6. /\ Inc(Ids(Append(events, e))) /\ Clear(Append(events, e), S)
      /\ Nums(Ids(Append(events, e))) = E \cup ({e.id} \ {0})
      /\ HasStray(Append(events, e)) <=> HasStray(events) \/ Stray(e)
  <2>1. \A x \in Nums(Ids(events)) : e.id = 0 \/ x < e.id
      BY <1>1, <1>4
  <2>2. e.id # 0 /\ ~HasStray(events) => \A x \in S : x < e.id => x \in Nums(Ids(events))
      BY <1>1, <1>5
  <2> QED
      BY <1>1, <1>2, <1>3, <2>1, <2>2, EventsAppend
<1>7. Line(E \cup ({e.id} \ {0}), T \ {e.id}, P, C)
  <2>1. CASE e.id = 0
      BY <1>3, <2>1 DEF Line, Ahead
  <2>2. CASE e.id # 0
      BY <1>1, <1>3, <2>2 DEF Line, Ahead
  <2> QED
      BY <2>1, <2>2
<1> QED
    BY <1>1, <1>6, <1>7

\* The numbers in the sequences of a Codex session.
LEMMA CodexSets ==
    ASSUME Base, IsCodex
    PROVE  /\ loop.pc \in {"idle", "turn", "ended"} /\ loop.posts = <<>> /\ remote.turns = <<>> /\ ~IsCrew
           /\ AtPost(loop) = {}
           /\ AtTurn(loop, remote) = IF loop.pc = "turn" THEN {loop.call.id} ELSE {}
           /\ Inc(<<>>) /\ Nums(<<>>) = {}
<1>1. Inc(<<>>) /\ Nums(<<>>) = {}
    BY DEF Inc, Nums
<1>2. loop.pc \in {"idle", "turn", "ended"} /\ loop.posts = <<>> /\ remote.turns = <<>> /\ ~IsCrew
    BY DEF Base, Shape, IsCodex, IsCrew
<1> QED
    BY <1>1, <1>2 DEF AtTurn, AtPost

\* Steps of a Codex session that move nothing in the line.
LEMMA PipeCodexSame ==
    ASSUME Base, Base', PipeInv, IsCodex, LoopSide, lost' = lost, events' = events, cmds' = cmds,
           loop'.pc = loop.pc, loop'.call.id = loop.call.id, remote'.prompts = remote.prompts
    PROVE  PipeInv'
<1>1. IsCodex'
    BY DEF LoopSide, IsCodex
<1>2. AtTurn(loop', remote') = AtTurn(loop, remote) /\ AtPost(loop') = AtPost(loop)
      /\ Below(loop', cmds') = Below(loop, cmds) /\ loop'.posts = loop.posts
      /\ remote'.turns = remote.turns
  <2>1. loop'.posts = loop.posts /\ remote'.turns = remote.turns
      BY <1>1 DEF Base, Shape
  <2> QED
      BY <2>1 DEF AtTurn, AtPost, Below
<1>3. EventShape(events', loop') /\ StartsInc(fan', remote')
    BY ShapeSame DEF PipeInv, StartsInc, LoopSide
<1>4. ASSUME ~shifted', ~lost'
      PROVE  Pipe(events', loop', remote', cmds', fan') /\ Guarded(cmds', loop')
  <2>1. Pipe(events, loop, remote, cmds, fan) /\ Guarded(cmds, loop)
      BY <1>4 DEF PipeInv, LoopSide
  <2> QED
      BY <2>1, <1>2 DEF Pipe, Guarded, Sorted, Placed, LoopSide
<1> QED
    BY <1>3, <1>4 DEF PipeInv

\* The call is over, or the loop is: a boundary is emitted.
LEMMA PipeCodexEmit ==
    ASSUME Base, Base', PipeInv, IsCodex, LoopSide, lost' = lost, loop.pc # "ended",
           NEW e \in EventType, events' = Append(events, e),
           e.kind \in {"result", "error", "exit"},
           \/ e.kind = "exit" \/ cmds' = cmds
           \/ cmds # <<>> /\ cmds' = Tail(cmds) /\ Head(cmds).kind # "prompt",
           loop'.pc = IF e.kind = "exit" THEN "ended" ELSE "idle",
           e.id = loop.call.id,
           remote'.prompts = remote.prompts
    PROVE  PipeInv'
<1>1. IsCodex'
    BY DEF LoopSide, IsCodex
<1>2. loop'.posts = <<>> /\ remote'.turns = <<>> /\ AtPost(loop') = {} /\ AtTurn(loop', remote') = {}
      /\ Inc(<<>>)
  <2>1. loop'.posts = <<>> /\ remote'.turns = <<>>
      BY <1>1 DEF Base, Shape
  <2> QED
      BY <2>1, CodexSets DEF AtTurn, AtPost
<1>3. EventShape(events', loop') /\ StartsInc(fan', remote')
  <2>1. EventShape(Append(events, e), loop')
      BY PipeTypes, ShapeAppend DEF PipeInv
  <2> QED
      BY <2>1 DEF PipeInv, StartsInc, LoopSide
<1>4. ASSUME ~shifted', ~lost'
      PROVE  Pipe(events', loop', remote', cmds', fan') /\ Guarded(cmds', loop')
  <2>1. Pipe(events, loop, remote, cmds, fan) /\ Guarded(cmds, loop) /\ cmds \in Seq(CmdType)
      BY <1>4, PipeTypes DEF PipeInv, LoopSide
  <2>2. PICK E, T, C, S : /\ E = Nums(Ids(events)) /\ T = AtTurn(loop, remote)
                          /\ C = Nums(Ids(cmds)) /\ S = Nums(fan.starts)
      OBVIOUS
  <2>3. T = IF loop.pc = "turn" THEN {loop.call.id} ELSE {}
      BY <2>2, CodexSets
  <2>4. loop.pc = "turn" => loop.call.id # 0
      BY DEF Base, Shape
  <2>5. loop.pc # "turn" => loop.call.id = 0
    <3>1. loop.pc # "turn" => loop.call = NoCall
        BY CodexSets DEF Base, Shape
    <3> QED
        BY <3>1 DEF NoCall
  <2>6. \/ e.id = 0 /\ T = {}
        \/ e.id # 0 /\ T = {e.id}
      BY <2>3, <2>4, <2>5
  <2>7. Below(loop, cmds) = C /\ AtPost(loop) = {} /\ Inc(Ids(cmds))
      BY <2>1, <2>2, CodexSets DEF Below, Pipe, Sorted
  <2>8. /\ Inc(Ids(events')) /\ Clear(events', S) /\ Nums(Ids(events')) = E \cup ({e.id} \ {0})
        /\ HasStray(events') <=> HasStray(events) \/ Stray(e)
        /\ Line(E \cup ({e.id} \ {0}), T \ {e.id}, {}, C)
    <3>1. \/ e.id = 0
          \/ e.id \in T /\ \A x \in T : x = e.id \/ e.id < x
        BY <2>6
    <3> QED
        BY <2>1, <2>2, <2>7, <3>1, EmitInLine
  <2>9. (loop'.pc # "ended" => Inc(Ids(cmds')) /\ Nums(Ids(cmds')) = C) /\ Guarded(cmds', loop')
    <3>1. CASE cmds' = cmds
        BY <2>1, <2>2, <2>7, <3>1 DEF Guarded
    <3>2. CASE cmds # <<>> /\ cmds' = Tail(cmds) /\ Head(cmds).kind # "prompt"
      <4>1. loop'.pc # "turn"
          OBVIOUS
      <4> QED
          BY <2>1, <2>2, <2>7, <3>2, <4>1, CmdsTail, GuardTail
    <3>3. CASE e.kind = "exit"
        BY <3>3 DEF Guarded
    <3> QED
        BY <3>1, <3>2, <3>3
  <2>10. PICK C2 : C2 = Below(loop', cmds')
      OBVIOUS
  <2>11. C2 \subseteq C /\ (loop'.pc # "ended" => C2 = C)
      BY <2>9, <2>10 DEF Below
  <2>12. Line(Nums(Ids(events')), AtTurn(loop', remote'), AtPost(loop'), C2)
      BY <1>2, <2>8, <2>11 DEF Line, Ahead
  <2>13. E \cup T \cup C \subseteq S /\ (~HasStray(events) => S \subseteq E \cup T \cup C)
      BY <2>1, <2>2, <2>7 DEF Pipe, Placed
  <2>14. Placed(events', loop', remote', cmds') = E \cup ({e.id} \ {0}) \cup C2
      BY <1>2, <2>8, <2>10 DEF Placed
  <2>15. Placed(events', loop', remote', cmds') \subseteq S
      BY <2>6, <2>11, <2>13, <2>14
  <2>16. loop'.pc # "ended" /\ ~HasStray(events') => S \subseteq Placed(events', loop', remote', cmds')
      BY <2>6, <2>8, <2>11, <2>13, <2>14
  <2>17. Sorted(events', loop', remote', cmds')
      BY <1>2, <2>8, <2>9 DEF Sorted
  <2>18. fan' = fan /\ loop'.pc # "down"
      BY DEF LoopSide
  <2> QED
      BY <2>2, <2>8, <2>9, <2>10, <2>12, <2>15, <2>16, <2>17, <2>18 DEF Pipe
<1> QED
    BY <1>3, <1>4 DEF PipeInv

\* Codex takes a command between turns: a prompt becomes the call, a cancel is dropped.
LEMMA PipeCodexTake ==
    ASSUME Base, Base', PipeInv, IsCodex, LoopSide, lost' = lost, loop.pc = "idle",
           cmds # <<>>, cmds' = Tail(cmds), events' = events, remote' = remote,
           \/ Head(cmds).kind = "prompt" /\ loop'.pc = "turn" /\ loop'.call.id = Head(cmds).id
           \/ Head(cmds).kind = "cancel" /\ loop'.pc = "idle"
    PROVE  PipeInv'
<1>1. IsCodex'
    BY DEF LoopSide, IsCodex
<1>2. loop'.posts = <<>> /\ remote'.turns = <<>> /\ AtPost(loop') = {} /\ Inc(<<>>)
  <2>1. loop'.posts = <<>> /\ remote'.turns = <<>>
      BY <1>1 DEF Base, Shape
  <2> QED
      BY <2>1, CodexSets DEF AtPost
<1>3. EventShape(events', loop') /\ StartsInc(fan', remote')
    BY ShapeSame DEF PipeInv, StartsInc, LoopSide
<1>4. ASSUME ~shifted', ~lost'
      PROVE  Pipe(events', loop', remote', cmds', fan') /\ Guarded(cmds', loop')
  <2>1. Pipe(events, loop, remote, cmds, fan) /\ Guarded(cmds, loop) /\ cmds \in Seq(CmdType)
      BY <1>4, PipeTypes DEF PipeInv, LoopSide
  <2>2. PICK E, C, C2, S, h : /\ E = Nums(Ids(events)) /\ C = Nums(Ids(cmds)) /\ S = Nums(fan.starts)
                              /\ C2 = Nums(Ids(cmds')) /\ h = Head(cmds).id
      OBVIOUS
  <2>3. AtTurn(loop, remote) = {} /\ AtPost(loop) = {} /\ Below(loop, cmds) = C /\ Inc(Ids(cmds))
      BY <2>1, <2>2, CodexSets DEF Below, Pipe, Sorted
  <2>4. Line(E, {}, {}, C) /\ E \cup C \subseteq S /\ (~HasStray(events) => S \subseteq E \cup C)
      BY <2>1, <2>2, <2>3 DEF Pipe, Placed
  <2>5. /\ Inc(Ids(cmds')) /\ C2 = C \ {h} /\ (\A x \in C2 : h < x) /\ (h # 0 => h \in C)
        /\ Head(cmds).kind # "prompt" => C2 = C
      BY <2>1, <2>2, <2>3, CmdsTail
  <2>6. Guarded(cmds', loop')
      BY <2>1, GuardTail
  <2>7. Below(loop', cmds') = C2
      BY <2>2 DEF Below
  <2>8. PICK T : T = AtTurn(loop', remote')
      OBVIOUS
  <2>9. \/ T = {h} /\ h \in C /\ C2 = C \ {h} /\ \A x \in C2 : h < x
        \/ T = {} /\ C2 = C
    <3>1. CASE Head(cmds).kind = "prompt" /\ loop'.pc = "turn" /\ loop'.call.id = Head(cmds).id
      <4>1. h # 0
          BY <2>1, <2>2, <3>1, CmdIds, HeadTailProperties
      <4> QED
          BY <2>2, <2>5, <2>8, <3>1, <4>1 DEF AtTurn
    <3>2. CASE Head(cmds).kind = "cancel" /\ loop'.pc = "idle"
        BY <2>5, <2>8, <3>2 DEF AtTurn
    <3> QED
        BY <3>1, <3>2
  <2>10. Line(E, T, {}, C2)
      BY <2>4, <2>9 DEF Line, Ahead
  <2>11. Placed(events', loop', remote', cmds') = E \cup C
      BY <1>2, <2>2, <2>7, <2>8, <2>9 DEF Placed
  <2>12. Sorted(events', loop', remote', cmds')
      BY <1>2, <2>1, <2>5 DEF Sorted, Pipe
  <2>13. fan' = fan /\ loop'.pc # "down" /\ Clear(events', S)
      BY <2>1, <2>2 DEF LoopSide, Pipe
  <2> QED
      BY <1>2, <2>2, <2>4, <2>6, <2>7, <2>8, <2>10, <2>11, <2>12, <2>13 DEF Pipe
<1> QED
    BY <1>3, <1>4 DEF PipeInv

LEMMA PipeCodex ==
    ASSUME Base, Base', PipeInv, CodexStep
    PROVE  PipeInv'
<1>1. /\ IsCodex /\ LoopSide /\ lost' = lost /\ loop \in LoopType /\ loop.call \in CallType
      /\ remote \in RemoteType /\ cmds \in Seq(CmdType) /\ NoRef \in SomeRef
      /\ 0 \in 0..MaxPrompts /\ loop.call.id \in 0..MaxPrompts /\ loop.call.ref \in SomeRef
  <2>1. LoopSide /\ lost' = lost
      BY DEF CodexStep, CodexPrompt, CodexIdleCancel, CodexStop, CodexCancel, CodexRefuses,
          CodexTurnNote, CodexIdleNote, CodexResult, CodexError, FanSame, Constant, History, LoopSide
  <2>2. loop \in LoopType /\ loop.call \in CallType /\ remote \in RemoteType
        /\ cmds \in Seq(CmdType)
      BY DEF Base, Typed, LoopType
  <2>3. loop.call.id \in 0..MaxPrompts /\ loop.call.ref \in SomeRef
      BY <2>2 DEF CallType
  <2> QED
      BY <2>1, <2>2, <2>3, Bounds DEF CodexStep, SomeRef
<1>2. loop.pc = "idle" => loop.call.id = 0
    BY <1>1, CodexSets DEF Base, Shape, NoCall
<1>3. loop.pc = "turn" => loop.call.id # 0
    BY DEF Base, Shape
<1>4. CASE CodexPrompt
  <2>1. /\ loop.pc = "idle" /\ cmds # <<>> /\ cmds' = Tail(cmds) /\ events' = events /\ remote' = remote
        /\ Head(cmds).kind = "prompt"
      BY <1>4 DEF CodexPrompt, Takes
  <2>2. loop'.pc = "turn" /\ loop'.call.id = Head(cmds).id
      BY <1>1, <1>4 DEF CodexPrompt, LoopType
  <2> QED
      BY <1>1, <2>1, <2>2, PipeCodexTake
<1>5. CASE CodexIdleCancel
    BY <1>1, <1>5, PipeCodexTake DEF CodexIdleCancel, Takes
<1>6. CASE CodexStop
  <2>1. PICK e : e = Event("exit", loop.call.id)
      OBVIOUS
  <2>2. e \in EventType /\ e.kind = "exit" /\ e.id = loop.call.id
      BY <1>1, <2>1 DEF Event, EventType
  <2>3. loop.pc # "ended" /\ events' = Append(events, e) /\ remote' = remote
      BY <1>6, <2>1 DEF CodexStop, Emit
  <2>4. loop'.pc = "ended"
      BY <1>1, <1>6 DEF CodexStop, LoopType
  <2> QED
      BY <1>1, <2>2, <2>3, <2>4, PipeCodexEmit
<1>7. CASE CodexCancel
  <2>1. PICK e : e = Event("error", loop.call.id)
      OBVIOUS
  <2>2. e \in EventType /\ e.kind = "error" /\ e.id = loop.call.id
      BY <1>1, <2>1 DEF Event, EventType
  <2>3. /\ loop.pc # "ended" /\ events' = Append(events, e)
        /\ cmds # <<>> /\ cmds' = Tail(cmds) /\ Head(cmds).kind # "prompt"
      BY <1>7, <2>1 DEF CodexCancel, CancelEvent, Emit, Takes
  <2>4. loop'.pc = "idle" /\ remote'.prompts = remote.prompts
      BY <1>1, <1>7 DEF CodexCancel, LoopType, RemoteType
  <2> QED
      BY <1>1, <2>2, <2>3, <2>4, PipeCodexEmit
<1>8. CASE CodexRefuses
  <2>1. /\ loop.pc = "turn" /\ cmds # <<>> /\ Head(cmds).kind = "prompt"
        /\ UNCHANGED <<events, loop, remote>> /\ cmds' = Tail(cmds)
      BY <1>8 DEF CodexRefuses, Takes
  <2>2. ~Guarded(cmds, loop)
    <3>1. 1 \in DOMAIN cmds /\ cmds[1].kind = "prompt" /\ \A j \in DOMAIN cmds : ~(j < 1)
        BY <1>1, <2>1, HeadTailProperties, EmptySeq
    <3> QED
        BY <2>1, <3>1 DEF Guarded
  <2>3. ~(~shifted' /\ ~lost')
      BY <1>1, <2>2 DEF PipeInv, LoopSide
  <2>4. EventShape(events', loop') /\ StartsInc(fan', remote')
      BY <1>1, <2>1 DEF PipeInv, StartsInc, LoopSide
  <2> QED
      BY <2>3, <2>4 DEF PipeInv
<1>9. CASE CodexTurnNote \/ (CodexIdleNote /\ events' = events)
  <2>1. cmds' = cmds /\ remote' = remote /\ events' = events
      BY <1>9 DEF CodexTurnNote, CodexIdleNote
  <2>2. loop'.pc = loop.pc /\ loop'.call = loop.call
      BY <1>1, <1>9 DEF CodexTurnNote, CodexIdleNote, LoopType
  <2> QED
      BY <1>1, <2>1, <2>2, PipeCodexSame
<1>10. CASE CodexIdleNote /\ events' # events
  <2>1. PICK e : e = [Event("error", 0) EXCEPT !.waiting = cmds # <<>>]
      OBVIOUS
  <2>2. /\ events' = Append(events, e) /\ cmds = <<>> /\ cmds' = cmds /\ remote' = remote
        /\ loop.pc = "idle"
      BY <1>10, <2>1 DEF CodexIdleNote, Emit, OuterTurn
  <2>3. e \in EventType /\ e.kind = "error" /\ e.id = 0
      BY <1>1, <2>1, <2>2 DEF Event, EventType
  <2>4. loop'.pc = "idle"
      BY <1>1, <1>10, <2>2 DEF CodexIdleNote, LoopType
  <2> QED
      BY <1>1, <1>2, <2>2, <2>3, <2>4, PipeCodexEmit
<1>11. CASE CodexResult
  <2>1. PICK v : v = Event("result", loop.call.id)
      OBVIOUS
  <2>2. v \in EventType /\ v.kind = "result" /\ v.id = loop.call.id
      BY <1>1, <2>1 DEF Event, EventType
  <2>3. PICK e : e = [v EXCEPT !.ref = loop.call.ref]
      OBVIOUS
  <2>4. e \in EventType /\ e.kind = "result" /\ e.id = loop.call.id
      BY <1>1, <2>2, <2>3 DEF EventType
  <2>5. /\ loop.pc = "turn" /\ events' = Append(events, e) /\ cmds' = cmds /\ remote' = remote
      BY <1>11, <2>1, <2>3 DEF CodexResult, CallOver, Emit
  <2>6. loop'.pc = "idle"
      BY <1>1, <1>11 DEF CodexResult, LoopType
  <2> QED
      BY <1>1, <1>3, <2>4, <2>5, <2>6, PipeCodexEmit
<1>12. ASSUME NEW unknown \in BOOLEAN, CodexError(unknown)
       PROVE  PipeInv'
  <2>1. PICK e : e = Event("error", loop.call.id)
      OBVIOUS
  <2>2. e \in EventType /\ e.kind = "error" /\ e.id = loop.call.id
      BY <1>1, <2>1 DEF Event, EventType
  <2>3. loop.pc = "turn" /\ events' = Append(events, e) /\ cmds' = cmds /\ remote' = remote
      BY <1>12, <2>1 DEF CodexError, CallOver, Emit
  <2>4. loop'.pc = "idle"
      BY <1>1, <1>12 DEF CodexError, LoopType
  <2> QED
      BY <1>1, <2>2, <2>3, <2>4, PipeCodexEmit
<1> QED
    BY <1>4, <1>5, <1>6, <1>7, <1>8, <1>9, <1>10, <1>11, <1>12 DEF CodexStep

LEMMA PipeServer ==
    ASSUME Base, Base', PipeInv, Server
    PROVE  PipeInv'
<1>1. /\ LoopSide /\ lost' = lost /\ cmds' = cmds /\ events' = events
    BY DEF Server, ServerOpens, ServerForgets, ServerNotes, FanSame, Constant, History, LoopSide
<1>2. loop \in LoopType /\ loop.call \in CallType /\ remote \in RemoteType
    BY DEF Base, Typed, LoopType
<1>3. IsCodex
  <2>1. CASE ServerOpens
      BY <2>1 DEF ServerOpens, Base, Typed, Shape, IsCodex, IsCrew
  <2> QED
      BY <2>1 DEF Server, ServerForgets, ServerNotes
<1>4. loop'.pc = loop.pc /\ loop'.call.id = loop.call.id /\ remote'.prompts = remote.prompts
  <2>1. CASE ServerOpens
      BY <1>2, <2>1 DEF ServerOpens, LoopType, CallType, RemoteType
  <2>2. CASE ServerForgets
      BY <1>2, <2>2 DEF ServerForgets, RemoteType
  <2>3. ASSUME NEW n \in Notes, ServerNotes(n)
        PROVE  loop'.pc = loop.pc /\ loop'.call.id = loop.call.id /\ remote'.prompts = remote.prompts
    <3>1. loop' = [loop EXCEPT !.notes = Append(@, n)] /\ remote' = remote
        BY <2>3 DEF ServerNotes
    <3> QED
        BY <1>2, <3>1 DEF LoopType
  <2> QED
      BY <2>1, <2>2, <2>3 DEF Server
<1> QED
    BY <1>1, <1>3, <1>4, PipeCodexSame

\* The line of a Crew session.
LEMMA CrewSets ==
    ASSUME Base, IsCrew, PipeInv, ~shifted, ~lost,
           NEW E, NEW T, NEW P, NEW C, NEW S,
           E = Nums(Ids(events)), T = AtTurn(loop, remote), P = AtPost(loop),
           C = Below(loop, cmds), S = Nums(fan.starts)
    PROVE  /\ loop.pc \in {"up", "down", "ended"}
           /\ T = (IF loop.pc = "ended" THEN {} ELSE Nums(remote.turns))
           /\ P = (IF loop.pc = "ended" THEN {} ELSE Nums(loop.posts))
           /\ C = (IF loop.pc = "ended" THEN {} ELSE Nums(Ids(cmds)))
           /\ E \in SUBSET Nat /\ T \in SUBSET Nat /\ P \in SUBSET Nat /\ C \in SUBSET Nat
           /\ S \in SUBSET Nat
           /\ Sorted(events, loop, remote, cmds) /\ Line(E, T, P, C)
           /\ E \cup T \cup P \cup C \subseteq S /\ Clear(events, S)
           /\ loop.pc # "ended" /\ ~HasStray(events) => S \subseteq E \cup T \cup P \cup C
           /\ loop.pc = "down" => HasStray(events) \/ (Nums(remote.turns) = {} /\ loop.posts = <<>>)
           /\ Pipe(events, loop, remote, cmds, fan)
<1>1. loop.pc \in {"up", "down", "ended"}
    BY DEF Base, Shape
<1>2. Pipe(events, loop, remote, cmds, fan)
    BY DEF PipeInv
<1>3. /\ E \in SUBSET Nat /\ T \in SUBSET Nat /\ P \in SUBSET Nat /\ C \in SUBSET Nat
      /\ S \in SUBSET Nat
    BY PipeTypes
<1>4. /\ T = (IF loop.pc = "ended" THEN {} ELSE Nums(remote.turns))
      /\ P = (IF loop.pc = "ended" THEN {} ELSE Nums(loop.posts))
      /\ C = (IF loop.pc = "ended" THEN {} ELSE Nums(Ids(cmds)))
    BY <1>1 DEF AtTurn, AtPost, Below
<1> QED
    BY <1>1, <1>2, <1>3, <1>4 DEF Pipe, Placed

\* The channel up and the starts are the same, and the line holds the same turns.
LEMMA CrewKeeps ==
    ASSUME NEW es, NEW l, NEW r, NEW cs, NEW f, NEW T, NEW P, NEW C,
           l.pc \in {"up", "down"}, T = Nums(r.turns), P = Nums(l.posts), C = Nums(Ids(cs)),
           Inc(Ids(es)), Inc(r.turns), Inc(l.posts), Inc(Ids(cs)),
           Line(Nums(Ids(es)), T, P, C), Nums(Ids(es)) \cup T \cup P \cup C \subseteq Nums(f.starts),
           ~HasStray(es) => Nums(f.starts) \subseteq Nums(Ids(es)) \cup T \cup P \cup C,
           Clear(es, Nums(f.starts)),
           l.pc = "down" => HasStray(es) \/ (T = {} /\ l.posts = <<>>)
    PROVE  Pipe(es, l, r, cs, f)
<1>1. AtTurn(l, r) = T /\ AtPost(l) = P /\ Below(l, cs) = C
    BY DEF AtTurn, AtPost, Below
<1> QED
    BY <1>1 DEF Pipe, Placed, Sorted

LEMMA CrewOver ==
    ASSUME NEW es, NEW l, NEW r, NEW cs, NEW f, l.pc = "ended", Inc(Ids(es)),
           Nums(Ids(es)) \subseteq Nums(f.starts), Clear(es, Nums(f.starts))
    PROVE  Pipe(es, l, r, cs, f)
<1>1. AtTurn(l, r) = {} /\ AtPost(l) = {} /\ Below(l, cs) = {}
    BY DEF AtTurn, AtPost, Below
<1> QED
    BY <1>1 DEF Pipe, Placed, Sorted, Line, Ahead

\* A boundary of no turn is appended.
LEMMA ZeroAppend ==
    ASSUME NEW es \in Seq(EventType), NEW e \in EventType, e.id = 0, NEW S \in SUBSET Nat,
           Inc(Ids(es)), Clear(es, S)
    PROVE  /\ Append(es, e) \in Seq(EventType)
           /\ Inc(Ids(Append(es, e))) /\ Clear(Append(es, e), S)
           /\ Nums(Ids(Append(es, e))) = Nums(Ids(es))
           /\ HasStray(Append(es, e)) <=> HasStray(es) \/ Stray(e)
<1>1. \A x \in Nums(Ids(es)) : e.id = 0 \/ x < e.id
    OBVIOUS
<1>2. e.id # 0 /\ ~HasStray(es) => \A x \in S : x < e.id => x \in Nums(Ids(es))
    OBVIOUS
<1>3. /\ Inc(Ids(Append(es, e))) /\ Clear(Append(es, e), S)
      /\ Nums(Ids(Append(es, e))) = Nums(Ids(es)) \cup ({e.id} \ {0})
      /\ HasStray(Append(es, e)) <=> HasStray(es) \/ Stray(e)
    BY <1>1, <1>2, EventsAppend
<1> QED
    BY <1>3, AppendProperties

\* A prompt goes from the channel down to the posts.
LEMMA LineToPosts ==
    ASSUME Base, IsCrew, PipeInv, ~shifted, ~lost, CrewPrompt, fan' = fan
    PROVE  Pipe(events', loop', remote', cmds', fan')
<1>1. PICK E, T, P, C, S : /\ E = Nums(Ids(events)) /\ T = AtTurn(loop, remote)
                           /\ P = AtPost(loop) /\ C = Below(loop, cmds) /\ S = Nums(fan.starts)
    OBVIOUS
<1>2. PICK h : h = Head(cmds).id
    OBVIOUS
<1>3. /\ loop.pc = "up" /\ cmds # <<>> /\ Head(cmds).kind = "prompt" /\ cmds' = Tail(cmds)
      /\ events' = events /\ remote' = remote /\ loop' = [loop EXCEPT !.posts = Append(@, h)]
    BY <1>2 DEF CrewPrompt, Takes
<1>4. /\ loop \in LoopType /\ cmds \in Seq(CmdType) /\ Head(cmds) \in CmdType
      /\ loop.posts \in Seq(Nat) /\ h \in Nat /\ h # 0
  <2>1. loop \in LoopType /\ cmds \in Seq(CmdType) /\ loop.posts \in Seq(Nat)
      BY PipeTypes
  <2>2. Head(cmds) \in CmdType
      BY <1>3, <2>1, HeadTailProperties
  <2> QED
      BY <1>2, <1>3, <2>1, <2>2, CmdIds
<1>5. loop'.pc = "up" /\ loop'.posts = Append(loop.posts, h)
    BY <1>3, <1>4 DEF LoopType
<1>6. /\ T = Nums(remote.turns) /\ P = Nums(loop.posts) /\ C = Nums(Ids(cmds))
      /\ E \in SUBSET Nat /\ T \in SUBSET Nat /\ P \in SUBSET Nat /\ C \in SUBSET Nat
      /\ Sorted(events, loop, remote, cmds) /\ Line(E, T, P, C)
      /\ E \cup T \cup P \cup C \subseteq S /\ Clear(events, S)
      /\ ~HasStray(events) => S \subseteq E \cup T \cup P \cup C
    BY <1>1, <1>3, CrewSets
<1>7. /\ Inc(Ids(events)) /\ Inc(Ids(cmds)) /\ Inc(remote.turns) /\ Inc(loop.posts)
    BY <1>3, <1>6 DEF Sorted
<1>8. /\ Inc(Ids(Tail(cmds))) /\ Nums(Ids(Tail(cmds))) = C \ {h} /\ h \in C
      /\ \A x \in C \ {h} : h < x
    BY <1>2, <1>3, <1>4, <1>6, <1>7, CmdsTail
<1>9. Inc(Append(loop.posts, h)) /\ Nums(Append(loop.posts, h)) = P \cup {h}
  <2>1. \A x \in Nums(loop.posts) : x < h
      BY <1>6, <1>8 DEF Line, Ahead
  <2> QED
      BY <1>4, <1>6, <1>7, <2>1, NumsAppend
<1>10. Line(E, T, P \cup {h}, C \ {h})
    BY <1>6, <1>8 DEF Line, Ahead
<1>11. (P \cup {h}) \cup (C \ {h}) = P \cup C
    BY <1>8
<1>12. PICK P2, C2 : P2 = P \cup {h} /\ C2 = C \ {h}
    OBVIOUS
<1>13. /\ loop'.pc = "up" /\ P2 = Nums(loop'.posts) /\ C2 = Nums(Ids(cmds')) /\ T = Nums(remote'.turns)
       /\ Inc(Ids(events')) /\ Inc(remote'.turns) /\ Inc(loop'.posts) /\ Inc(Ids(cmds'))
       /\ Line(Nums(Ids(events')), T, P2, C2)
       /\ Nums(Ids(events')) \cup T \cup P2 \cup C2 \subseteq Nums(fan'.starts)
       /\ ~HasStray(events') => Nums(fan'.starts) \subseteq Nums(Ids(events')) \cup T \cup P2 \cup C2
       /\ Clear(events', Nums(fan'.starts))
  <2>1. events' = events /\ remote' = remote /\ Nums(fan'.starts) = S /\ Nums(Ids(events')) = E
      BY <1>1, <1>3
  <2>2. E \cup T \cup P2 \cup C2 = E \cup T \cup P \cup C
      BY <1>11, <1>12
  <2> QED
      BY <2>1, <2>2, <1>3, <1>5, <1>6, <1>7, <1>8, <1>9, <1>10, <1>12
<1>14. loop'.pc # "down" /\ loop'.pc \in {"up", "down"}
    BY <1>5
<1> QED
    BY <1>13, <1>14, CrewKeeps

\* A post goes to the Gateway.
LEMMA LineToTurns ==
    ASSUME Base, IsCrew, PipeInv, ~shifted, ~lost, CrewPosts, loop.pc # "ended", ~lost', fan' = fan
    PROVE  Pipe(events', loop', remote', cmds', fan')
<1>1. PICK E, T, P, C, S : /\ E = Nums(Ids(events)) /\ T = AtTurn(loop, remote)
                           /\ P = AtPost(loop) /\ C = Below(loop, cmds) /\ S = Nums(fan.starts)
    OBVIOUS
<1>2. PICK h : h = Head(loop.posts)
    OBVIOUS
<1>3. /\ loop.pc # "ended" /\ loop.posts # <<>> /\ loop' = [loop EXCEPT !.posts = Tail(@)]
      /\ cmds' = cmds /\ events' = events /\ remote' = [remote EXCEPT !.turns = Append(@, h)]
    BY <1>2 DEF CrewPosts
<1>4. /\ loop \in LoopType /\ remote \in RemoteType /\ loop.posts \in Seq(Nat)
      /\ remote.turns \in Seq(Nat) /\ h \in Nat /\ h # 0
  <2>1. /\ loop \in LoopType /\ remote \in RemoteType /\ loop.posts \in Seq(Prompts)
        /\ loop.posts \in Seq(Nat) /\ remote.turns \in Seq(Nat)
      BY PipeTypes
  <2>2. h \in Prompts
      BY <1>2, <1>3, <2>1, HeadTailProperties
  <2> QED
      BY <2>1, <2>2, Bounds DEF Prompts
<1>5. /\ loop'.pc = loop.pc /\ loop'.posts = Tail(loop.posts)
      /\ remote'.turns = Append(remote.turns, h)
    BY <1>3, <1>4 DEF LoopType, RemoteType
<1>6. /\ T = Nums(remote.turns) /\ P = Nums(loop.posts) /\ C = Nums(Ids(cmds))
      /\ loop.pc \in {"up", "down"}
      /\ E \in SUBSET Nat /\ T \in SUBSET Nat /\ P \in SUBSET Nat /\ C \in SUBSET Nat
      /\ Sorted(events, loop, remote, cmds) /\ Line(E, T, P, C)
      /\ E \cup T \cup P \cup C \subseteq S /\ Clear(events, S)
      /\ ~HasStray(events) => S \subseteq E \cup T \cup P \cup C
      /\ loop.pc = "down" => HasStray(events)
    BY <1>1, <1>3, CrewSets
<1>7. /\ Inc(Ids(events)) /\ Inc(Ids(cmds)) /\ Inc(remote.turns) /\ Inc(loop.posts)
    BY <1>3, <1>6 DEF Sorted
<1>8. /\ Inc(Tail(loop.posts)) /\ Nums(Tail(loop.posts)) = P \ {h} /\ h \in P
      /\ \A x \in P \ {h} : h < x
    BY <1>2, <1>3, <1>4, <1>6, <1>7, NumsTail
<1>9. Inc(Append(remote.turns, h)) /\ Nums(Append(remote.turns, h)) = T \cup {h}
  <2>1. \A x \in Nums(remote.turns) : x < h
      BY <1>6, <1>8 DEF Line, Ahead
  <2> QED
      BY <1>4, <1>6, <1>7, <2>1, NumsAppend
<1>10. Line(E, T \cup {h}, P \ {h}, C)
    BY <1>6, <1>8 DEF Line, Ahead
<1>11. (T \cup {h}) \cup (P \ {h}) = T \cup P
    BY <1>8
<1>12. PICK P2, T2 : P2 = P \ {h} /\ T2 = T \cup {h}
    OBVIOUS
<1>13. /\ P2 = Nums(loop'.posts) /\ C = Nums(Ids(cmds')) /\ T2 = Nums(remote'.turns)
       /\ Inc(Ids(events')) /\ Inc(remote'.turns) /\ Inc(loop'.posts) /\ Inc(Ids(cmds'))
       /\ Line(Nums(Ids(events')), T2, P2, C)
       /\ Nums(Ids(events')) \cup T2 \cup P2 \cup C \subseteq Nums(fan'.starts)
       /\ ~HasStray(events') => Nums(fan'.starts) \subseteq Nums(Ids(events')) \cup T2 \cup P2 \cup C
       /\ Clear(events', Nums(fan'.starts))
  <2>1. events' = events /\ Nums(fan'.starts) = S /\ Nums(Ids(events')) = E
      BY <1>1, <1>3
  <2>2. E \cup T2 \cup P2 \cup C = E \cup T \cup P \cup C
      BY <1>11, <1>12
  <2> QED
      BY <2>1, <2>2, <1>3, <1>5, <1>6, <1>7, <1>8, <1>9, <1>10, <1>12
<1>14. loop'.pc \in {"up", "down"} /\ (loop'.pc = "down" => HasStray(events'))
    BY <1>3, <1>5, <1>6
<1> QED
    BY <1>13, <1>14, CrewKeeps

\* A turn is over, the oldest at the Gateway.
LEMMA LineToEvents ==
    ASSUME Base, IsCrew, PipeInv, ~shifted, ~lost, loop.pc = "up", loop'.pc = "up",
           loop'.posts = loop.posts, cmds' = cmds, fan' = fan, remote.turns # <<>>,
           NEW e \in EventType, e.id = Head(remote.turns), events' = Append(events, e),
           remote'.turns = Tail(remote.turns)
    PROVE  Pipe(events', loop', remote', cmds', fan')
<1>1. PICK E, T, P, C, S : /\ E = Nums(Ids(events)) /\ T = AtTurn(loop, remote)
                           /\ P = AtPost(loop) /\ C = Below(loop, cmds) /\ S = Nums(fan.starts)
    OBVIOUS
<1>2. /\ T = Nums(remote.turns) /\ P = Nums(loop.posts) /\ C = Nums(Ids(cmds))
      /\ Sorted(events, loop, remote, cmds)
      /\ E \cup T \cup P \cup C \subseteq S
      /\ ~HasStray(events) => S \subseteq E \cup T \cup P \cup C
      /\ Pipe(events, loop, remote, cmds, fan)
    BY <1>1, CrewSets
<1>3. /\ Inc(Ids(cmds)) /\ Inc(remote.turns) /\ Inc(loop.posts)
    BY <1>2 DEF Sorted
<1>4. /\ Inc(Tail(remote.turns)) /\ Nums(Tail(remote.turns)) = T \ {e.id}
      /\ e.id # 0 => e.id \in T
      /\ \A x \in T : x = e.id \/ e.id < x
      /\ 0 \notin T
  <2>1. remote.turns \in Seq(Nat)
      BY PipeTypes
  <2>2. /\ Inc(Tail(remote.turns)) /\ Nums(Tail(remote.turns)) = T \ {e.id}
        /\ e.id # 0 => e.id \in T
        /\ \A x \in Nums(Tail(remote.turns)) : e.id < x
      BY <1>2, <1>3, <2>1, NumsTail
  <2>3. 0 \notin T
      BY <1>2 DEF Nums
  <2> QED
      BY <2>2, <2>3
<1>5. \/ e.id = 0
      \/ e.id \in AtTurn(loop, remote) /\ \A x \in AtTurn(loop, remote) : x = e.id \/ e.id < x
    BY <1>1, <1>4
<1>6. /\ Inc(Ids(events')) /\ Clear(events', S) /\ Nums(Ids(events')) = E \cup ({e.id} \ {0})
      /\ HasStray(events') <=> HasStray(events) \/ Stray(e)
      /\ Line(Nums(Ids(events')), T \ {e.id}, P, C)
    BY <1>1, <1>2, <1>4, <1>5, EmitInLine
<1>7. PICK T2, E2 : T2 = T \ {e.id} /\ E2 = E \cup ({e.id} \ {0})
    OBVIOUS
<1>8. E2 \cup T2 \cup P \cup C = E \cup T \cup P \cup C
    BY <1>4, <1>7
<1>9. /\ P = Nums(loop'.posts) /\ C = Nums(Ids(cmds')) /\ T2 = Nums(remote'.turns)
      /\ Inc(Ids(events')) /\ Inc(remote'.turns) /\ Inc(loop'.posts) /\ Inc(Ids(cmds'))
      /\ Line(Nums(Ids(events')), T2, P, C)
      /\ Nums(Ids(events')) \cup T2 \cup P \cup C \subseteq Nums(fan'.starts)
      /\ ~HasStray(events') => Nums(fan'.starts) \subseteq Nums(Ids(events')) \cup T2 \cup P \cup C
      /\ Clear(events', Nums(fan'.starts))
    BY <1>1, <1>2, <1>3, <1>4, <1>6, <1>7, <1>8
<1>10. loop'.pc \in {"up", "down"} /\ loop'.pc # "down"
    OBVIOUS
<1> QED
    BY <1>9, <1>10, CrewKeeps

\* Nothing moves in the line; a boundary of no turn may be emitted, a cancel taken, and an
\* earlier life's prompt may come to the slot.
LEMMA LineStays ==
    ASSUME Base, IsCrew, PipeInv, ~shifted, ~lost, loop.pc # "ended", loop'.pc \in {"up", "down"},
           loop'.posts = loop.posts, fan' = fan,
           remote'.turns = remote.turns \/ remote'.turns = Append(remote.turns, OldTurn),
           cmds' = cmds \/ (cmds # <<>> /\ cmds' = Tail(cmds) /\ Head(cmds).kind # "prompt"),
           events' = events \/ (\E e \in EventType : e.id = 0 /\ events' = Append(events, e)),
           loop'.pc = "down" => loop.pc = "down" \/ HasStray(events')
    PROVE  Pipe(events', loop', remote', cmds', fan')
<1>1. PICK E, T, P, C, S : /\ E = Nums(Ids(events)) /\ T = AtTurn(loop, remote)
                           /\ P = AtPost(loop) /\ C = Below(loop, cmds) /\ S = Nums(fan.starts)
    OBVIOUS
<1>2. /\ T = Nums(remote.turns) /\ P = Nums(loop.posts) /\ C = Nums(Ids(cmds))
      /\ S \in SUBSET Nat
      /\ Sorted(events, loop, remote, cmds) /\ Line(E, T, P, C)
      /\ E \cup T \cup P \cup C \subseteq S /\ Clear(events, S)
      /\ ~HasStray(events) => S \subseteq E \cup T \cup P \cup C
      /\ loop.pc = "down" => HasStray(events) \/ (Nums(remote.turns) = {} /\ loop.posts = <<>>)
    BY <1>1, CrewSets
<1>3. Inc(Ids(events)) /\ Inc(Ids(cmds)) /\ Inc(remote.turns) /\ Inc(loop.posts)
    BY <1>2 DEF Sorted
<1>4. Inc(Ids(cmds')) /\ Nums(Ids(cmds')) = C
  <2>1. CASE cmds' = cmds
      BY <2>1, <1>2, <1>3
  <2>2. CASE cmds # <<>> /\ cmds' = Tail(cmds) /\ Head(cmds).kind # "prompt"
      BY <2>2, <1>2, <1>3, PipeTypes, CmdsTail
  <2> QED
      BY <2>1, <2>2
<1>5. /\ Inc(Ids(events')) /\ Clear(events', S) /\ Nums(Ids(events')) = E
      /\ HasStray(events) => HasStray(events')
  <2>1. CASE events' = events
      BY <2>1, <1>1, <1>2, <1>3
  <2>2. ASSUME NEW e \in EventType, e.id = 0, events' = Append(events, e)
        PROVE  /\ Inc(Ids(events')) /\ Clear(events', S) /\ Nums(Ids(events')) = E
               /\ HasStray(events) => HasStray(events')
    <3>1. events \in Seq(EventType)
        BY PipeTypes
    <3> QED
        BY <2>2, <3>1, <1>1, <1>2, <1>3, ZeroAppend
  <2> QED
      BY <2>1, <2>2
<1>0. Inc(remote'.turns) /\ Nums(remote'.turns) = T
  <2>1. remote.turns \in Seq(Nat) /\ OldTurn = 0
      BY PipeTypes, TurnIdsAre
  <2> QED
      BY <2>1, <1>2, <1>3, NumsAppend
<1>6. /\ P = Nums(loop'.posts) /\ C = Nums(Ids(cmds')) /\ T = Nums(remote'.turns)
      /\ Inc(Ids(events')) /\ Inc(remote'.turns) /\ Inc(loop'.posts) /\ Inc(Ids(cmds'))
      /\ Line(Nums(Ids(events')), T, P, C)
      /\ Nums(Ids(events')) \cup T \cup P \cup C \subseteq Nums(fan'.starts)
      /\ ~HasStray(events') => Nums(fan'.starts) \subseteq Nums(Ids(events')) \cup T \cup P \cup C
      /\ Clear(events', Nums(fan'.starts))
    BY <1>0, <1>1, <1>2, <1>3, <1>4, <1>5
<1>7. loop'.pc = "down" => HasStray(events') \/ (T = {} /\ loop'.posts = <<>>)
    BY <1>2, <1>5
<1> QED
    BY <1>6, <1>7, CrewKeeps

\* A turn that ends while the socket is down leaves no boundary.
LEMMA LineSkips ==
    ASSUME Base, IsCrew, PipeInv, ~shifted, ~lost, loop.pc = "down", loop' = loop, cmds' = cmds,
           fan' = fan, events' = events, remote.turns # <<>>, remote'.turns = Tail(remote.turns)
    PROVE  Pipe(events', loop', remote', cmds', fan')
<1>1. PICK E, T, P, C, S : /\ E = Nums(Ids(events)) /\ T = AtTurn(loop, remote)
                           /\ P = AtPost(loop) /\ C = Below(loop, cmds) /\ S = Nums(fan.starts)
    OBVIOUS
<1>2. /\ T = Nums(remote.turns) /\ P = Nums(loop.posts) /\ C = Nums(Ids(cmds))
      /\ Sorted(events, loop, remote, cmds) /\ Line(E, T, P, C)
      /\ E \cup T \cup P \cup C \subseteq S /\ Clear(events, S)
      /\ HasStray(events) \/ (T = {} /\ loop.posts = <<>>)
      /\ ~HasStray(events) => S \subseteq E \cup T \cup P \cup C
    BY <1>1, CrewSets
<1>3. Inc(Ids(events)) /\ Inc(Ids(cmds)) /\ Inc(remote.turns) /\ Inc(loop.posts)
    BY <1>2 DEF Sorted
<1>4. remote.turns \in Seq(Nat)
    BY PipeTypes
<1>5. PICK T2 : T2 = Nums(Tail(remote.turns))
    OBVIOUS
<1>6. Inc(Tail(remote.turns)) /\ T2 \subseteq T
    BY <1>2, <1>3, <1>4, <1>5, NumsTail
<1>7. Line(E, T2, P, C)
    BY <1>2, <1>6 DEF Line, Ahead
<1>8. /\ P = Nums(loop'.posts) /\ C = Nums(Ids(cmds')) /\ T2 = Nums(remote'.turns)
      /\ Inc(Ids(events')) /\ Inc(remote'.turns) /\ Inc(loop'.posts) /\ Inc(Ids(cmds'))
      /\ Line(Nums(Ids(events')), T2, P, C)
      /\ Nums(Ids(events')) \cup T2 \cup P \cup C \subseteq Nums(fan'.starts)
      /\ Clear(events', Nums(fan'.starts)) /\ loop'.pc \in {"up", "down"}
    BY <1>1, <1>2, <1>3, <1>5, <1>6, <1>7
<1>9. /\ HasStray(events') \/ (T2 = {} /\ loop'.posts = <<>>)
      /\ ~HasStray(events') => Nums(fan'.starts) \subseteq Nums(Ids(events')) \cup T2 \cup P \cup C
    BY <1>1, <1>2, <1>6
<1> QED
    BY <1>8, <1>9, CrewKeeps

\* The loop has ended, or ends.
LEMMA LineEnds ==
    ASSUME Base, IsCrew, PipeInv, ~shifted, ~lost, loop'.pc = "ended", fan' = fan,
           NEW a \in EventType, NEW b \in EventType, a.id = 0, b.id = 0,
           events' \in {events, Append(events, a), Append(Append(events, a), b)}
    PROVE  Pipe(events', loop', remote', cmds', fan')
<1>1. PICK E, T, P, C, S : /\ E = Nums(Ids(events)) /\ T = AtTurn(loop, remote)
                           /\ P = AtPost(loop) /\ C = Below(loop, cmds) /\ S = Nums(fan.starts)
    OBVIOUS
<1>2. /\ S \in SUBSET Nat /\ Sorted(events, loop, remote, cmds)
      /\ E \cup T \cup P \cup C \subseteq S /\ Clear(events, S)
    BY <1>1, CrewSets
<1>3. Inc(Ids(events)) /\ events \in Seq(EventType)
    BY <1>2, PipeTypes DEF Sorted
<1>4. PICK f : f = Append(events, a)
    OBVIOUS
<1>5. f \in Seq(EventType) /\ Inc(Ids(f)) /\ Clear(f, S) /\ Nums(Ids(f)) = E
    BY <1>1, <1>2, <1>3, <1>4, ZeroAppend
<1>6. PICK g : g = Append(f, b)
    OBVIOUS
<1>7. Inc(Ids(g)) /\ Clear(g, S) /\ Nums(Ids(g)) = E
    BY <1>2, <1>5, <1>6, ZeroAppend
<1>8. Inc(Ids(events')) /\ Clear(events', S) /\ Nums(Ids(events')) = E
  <2>1. events' = events \/ events' = f \/ events' = g
      BY <1>4, <1>6
  <2> QED
      BY <2>1, <1>1, <1>2, <1>3, <1>5, <1>7
<1>9. /\ Inc(Ids(events')) /\ Clear(events', Nums(fan'.starts))
      /\ Nums(Ids(events')) \subseteq Nums(fan'.starts)
    BY <1>1, <1>2, <1>8
<1> QED
    BY <1>9, CrewOver

LEMMA PipeCrew ==
    ASSUME Base, Base', PipeInv, CrewSide
    PROVE  PipeInv'
<1>1. /\ events \in Seq(EventType) /\ loop \in LoopType /\ remote \in RemoteType
      /\ cmds \in Seq(CmdType) /\ NoRef \in SomeRef /\ 0 \in 0..MaxPrompts
      /\ loop.ref \in SomeRef /\ loop.text \in 0..MaxPrompts
    BY Bounds DEF Base, Typed, SomeRef, LoopType
<1>2. IsCrew /\ ~IsCodex
  <2>1. CASE GatewayForgets
      BY <2>1 DEF GatewayForgets, IsCrew, IsCodex
  <2> QED
      BY <2>1 DEF CrewSide, CrewStep, CrewBreaks, GatewayChunk, GatewayEnds, IsCrew, IsCodex
<1>3. LoopSide
    BY DEF CrewSide, CrewStep, CrewPrompt, CrewCancel, CrewStop, CrewDrops, CrewReconnects, CrewPosts,
        LatePosts, CrewBreaks, GatewayChunk, GatewayForgets, GatewayEnds, CrewSame, FanSame, Constant, LoopSide
<1>4. fan' = fan /\ shifted' = shifted /\ ~IsCodex'
    BY <1>2, <1>3 DEF LoopSide, IsCodex
<1>5. ~lost' => ~lost
    BY <1>1 DEF CrewSide, CrewStep, CrewPrompt, CrewCancel, CrewStop, CrewDrops, CrewReconnects, CrewPosts,
        LatePosts, CrewBreaks, GatewayChunk, GatewayForgets, GatewayEnds, Base, Typed
<1>6. remote'.prompts = remote.prompts
    BY <1>1 DEF CrewSide, CrewStep, CrewPrompt, CrewCancel, CrewStop, CrewDrops, CrewReconnects, CrewPosts,
        LatePosts, CrewBreaks, GatewayChunk, GatewayForgets, GatewayEnds, RemoteType
<1>7. StartsInc(fan', remote') /\ EventShape(events, loop)
    BY <1>4, <1>6 DEF PipeInv, StartsInc
<1>8. loop.pc \in {"up", "down", "ended"}
    BY <1>2 DEF Base, Shape
<1>9. SUFFICES /\ EventShape(events', loop')
               /\ ~shifted /\ ~lost' => Pipe(events', loop', remote', cmds', fan')
    BY <1>4, <1>7 DEF PipeInv
<1>10. PICK a, b : a = Event("error", 0) /\ b = Event("exit", 0)
    OBVIOUS
<1>11. /\ a \in EventType /\ a.id = 0 /\ a.kind = "error" /\ Stray(a)
       /\ b \in EventType /\ b.id = 0 /\ b.kind = "exit"
    BY <1>1, <1>10 DEF Event, EventType, Stray
<1>12. CASE CrewPrompt
  <2>1. loop'.pc = loop.pc /\ events' = events
      BY <1>1, <1>12 DEF CrewPrompt, LoopType
  <2> QED
      BY <1>2, <1>4, <1>5, <1>7, <1>12, <2>1, LineToPosts, ShapeSame
<1>13. CASE CrewPosts
  <2>1. loop'.pc = loop.pc /\ events' = events
      BY <1>1, <1>13 DEF CrewPosts, LoopType
  <2>2. CASE loop.pc # "ended"
      BY <1>2, <1>4, <1>5, <1>7, <1>13, <2>1, <2>2, LineToTurns, ShapeSame
  <2>3. CASE loop.pc = "ended"
      BY <1>2, <1>4, <1>5, <1>7, <1>11, <2>1, <2>3, LineEnds, ShapeSame
  <2> QED
      BY <2>2, <2>3
<1>21. CASE LatePosts
  <2>1. /\ UNCHANGED <<events, loop, cmds>>
        /\ remote'.turns = remote.turns \/ remote'.turns = Append(remote.turns, OldTurn)
      BY <1>1, <1>21 DEF LatePosts, RemoteType
  <2>2. CASE loop.pc # "ended"
      BY <1>2, <1>4, <1>5, <1>7, <1>8, <2>1, <2>2, LineStays
  <2>3. CASE loop.pc = "ended"
      BY <1>2, <1>4, <1>5, <1>7, <1>11, <2>1, <2>3, LineEnds
  <2> QED
      BY <2>2, <2>3
<1>14. CASE CrewCancel \/ CrewDrops
  <2>1. UNCHANGED <<events, loop, remote>> /\ cmds # <<>> /\ cmds' = Tail(cmds) /\ loop.pc \in {"up", "down"}
      BY <1>14 DEF CrewCancel, CrewDrops, Takes
  <2>2. ~lost' => Head(cmds).kind # "prompt"
      BY <1>14 DEF CrewCancel, CrewDrops, Takes
  <2> QED
      BY <1>2, <1>4, <1>5, <1>7, <2>1, <2>2, LineStays, ShapeSame
<1>15. CASE CrewStop
  <2>1. loop.pc # "ended" /\ events' = Append(events, b) /\ loop'.pc = "ended"
      BY <1>1, <1>10, <1>15 DEF CrewStop, Emit, LoopType
  <2>2. EventShape(events', loop')
      BY <1>1, <1>7, <1>11, <2>1, ShapeAppend
  <2>3. events' \in {events, Append(events, b), Append(Append(events, b), b)}
      BY <2>1
  <2> QED
      BY <1>2, <1>4, <1>5, <1>11, <2>1, <2>2, <2>3, LineEnds
<1>16. CASE CrewBreaks
  <2>1. /\ loop.pc # "ended" /\ events' = Append(events, a) /\ loop'.pc = "down" /\ cmds' = cmds
        /\ loop'.posts = loop.posts /\ remote' = remote
      BY <1>1, <1>10, <1>16 DEF CrewBreaks, BrokenEvent, Emit, LoopType
  <2>2. EventShape(events', loop')
      BY <1>1, <1>7, <1>11, <2>1, ShapeAppend
  <2>3. HasStray(events')
    <3>1. Len(events) + 1 \in DOMAIN Append(events, a) /\ Append(events, a)[Len(events) + 1] = a
        BY <1>1, <1>11, AppendProperties
    <3> QED
        BY <1>11, <2>1, <3>1 DEF HasStray
  <2>4. events' = events \/ (\E e \in EventType : e.id = 0 /\ events' = Append(events, e))
      BY <1>11, <2>1
  <2> QED
      BY <1>2, <1>4, <1>5, <2>1, <2>2, <2>3, <2>4, LineStays
<1>17. CASE CrewReconnects
  <2>1. loop.pc = "down" /\ remote' = remote
      BY <1>17 DEF CrewReconnects
  <2>2. CASE loop.ref \in remote.alive
    <3>1. loop'.pc = "up" /\ loop'.posts = loop.posts /\ events' = events /\ cmds' = cmds
        BY <1>1, <1>17, <2>2 DEF CrewReconnects, LoopType
    <3>2. EventShape(events', loop')
        BY <1>7, <2>1, <3>1, ShapeSame
    <3> QED
        BY <1>2, <1>4, <1>5, <2>1, <3>1, <3>2, LineStays
  <2>3. CASE loop.ref \notin remote.alive
    <3>1. loop'.pc = "ended" /\ events' = events \o <<a, b>>
        BY <1>1, <1>10, <1>17, <2>3 DEF CrewReconnects, LoopType
    <3>2. events \o <<a, b>> = Append(Append(events, a), b)
        BY <1>1, <1>11
    <3>3. EventShape(Append(events, a), loop) /\ Append(events, a) \in Seq(EventType)
        BY <1>1, <1>7, <1>11, <2>1, ShapeAppend, AppendProperties
    <3>4. EventShape(Append(Append(events, a), b), loop')
        BY <1>11, <2>1, <3>1, <3>3, ShapeAppend
    <3>5. events' \in {events, Append(events, a), Append(Append(events, a), b)}
        BY <3>1, <3>2
    <3> QED
        BY <1>2, <1>4, <1>5, <1>11, <3>1, <3>2, <3>4, <3>5, LineEnds
  <2> QED
      BY <2>2, <2>3
<1>18. CASE GatewayChunk
  <2>1. /\ loop.pc = "up" /\ events' = events /\ loop'.pc = "up" /\ cmds' = cmds
        /\ loop'.posts = loop.posts /\ remote' = remote
      BY <1>1, <1>18 DEF GatewayChunk, LoopType
  <2> QED
      BY <1>2, <1>4, <1>5, <1>7, <2>1, LineStays, ShapeSame
<1>19. CASE GatewayForgets
  <2>1. /\ events' = events /\ loop' = loop /\ cmds' = cmds
        /\ lost' = (lost \/ remote.turns # <<>>)
      BY <1>19 DEF GatewayForgets
  <2>2. remote'.turns = <<>>
      BY <1>1, <1>19 DEF GatewayForgets, RemoteType
  <2>3. EventShape(events', loop')
      BY <1>7, <2>1
  <2>4. CASE loop.pc = "ended"
      BY <1>2, <1>4, <1>5, <1>11, <2>1, <2>3, <2>4, LineEnds
  <2>5. CASE loop.pc # "ended"
    <3>1. ~lost' => remote'.turns = remote.turns
        BY <2>1, <2>2
    <3> QED
        BY <1>2, <1>4, <1>5, <1>8, <2>1, <2>3, <2>5, <3>1, LineStays
  <2> QED
      BY <2>4, <2>5
<1>20. ASSUME NEW kind \in {"result", "error"}, GatewayEnds(kind)
       PROVE  /\ EventShape(events', loop')
              /\ ~shifted /\ ~lost' => Pipe(events', loop', remote', cmds', fan')
  <2>1. remote.turns # <<>> /\ remote'.turns = Tail(remote.turns) /\ cmds' = cmds
      BY <1>1, <1>20 DEF GatewayEnds, RemoteType
  <2>2. CASE loop.pc = "up"
    <3>1. PICK r \in SomeRef : r = IF kind = "result" THEN loop.ref ELSE NoRef
        BY <1>1
    <3>2. PICK t \in 0..MaxPrompts : t = IF kind = "result" THEN Foreign ELSE 0
        BY <1>1 DEF Foreign
    <3>3. PICK id : id = Head(remote.turns)
        OBVIOUS
    <3>4. id \in 0..MaxPrompts
      <4>1. id \in TurnIds
          BY <2>1, <3>3, PipeTypes, HeadTailProperties
      <4> QED
          BY <4>1, TurnIdsAre
    <3>5. PICK e : e = [Event(kind, id) EXCEPT !.ref = r, !.text = t]
        OBVIOUS
    <3>6. e \in EventType /\ e.id = id /\ e.kind = kind
        BY <3>4, <3>5 DEF Event, EventType
    <3>7. events' = Append(events, e)
        BY <1>20, <2>2, <3>1, <3>2, <3>3, <3>5 DEF GatewayEnds, Emit
    <3>8. loop'.pc = "up" /\ loop'.posts = loop.posts
        BY <1>1, <1>20, <2>2 DEF GatewayEnds, LoopType
    <3>9. EventShape(events', loop')
        BY <1>1, <1>7, <2>2, <3>6, <3>7, ShapeAppend
    <3>10. e.id = Head(remote.turns)
        BY <3>3, <3>6
    <3> QED
        BY <1>2, <1>4, <1>5, <2>1, <2>2, <3>6, <3>7, <3>8, <3>9, <3>10, LineToEvents
  <2>3. CASE loop.pc # "up"
    <3>1. events' = events /\ loop' = loop
        BY <1>20, <2>3 DEF GatewayEnds
    <3>2. EventShape(events', loop')
        BY <1>7, <3>1
    <3>3. CASE loop.pc = "ended"
        BY <1>2, <1>4, <1>5, <1>11, <3>1, <3>2, <3>3, LineEnds
    <3>4. CASE loop.pc = "down"
        BY <1>2, <1>4, <1>5, <2>1, <3>1, <3>2, <3>4, LineSkips
    <3> QED
        BY <1>8, <2>3, <3>3, <3>4
  <2> QED
      BY <2>2, <2>3
<1> QED
    BY <1>12, <1>13, <1>14, <1>15, <1>16, <1>17, <1>18, <1>19, <1>20, <1>21 DEF CrewSide, CrewStep

LEMMA PipeStart == Init => PipeInv
<1> SUFFICES ASSUME Init PROVE PipeInv
    OBVIOUS
<1>1. /\ loop.pc \in {"idle", "up"} /\ loop.posts = <<>> /\ remote.turns = <<>> /\ cmds = <<>>
      /\ fan.starts = <<>> /\ remote.prompts = 0
    BY DEF Init, FreshLoop, FreshFan
<1>2. \A i \in DOMAIN events : events[i].id = 0 /\ events[i].kind = "init"
    BY DEF Init, Event
<1>3. EventShape(events, loop)
    BY <1>2 DEF EventShape
<1>4. \A i \in DOMAIN events : events[i].id = 0
    BY <1>2
<1>5. Pipe(events, loop, remote, cmds, fan) /\ Guarded(cmds, loop) /\ StartsInc(fan, remote)
  <2>1. \/ loop.pc = "ended"
        \/ /\ loop.pc \in {"idle", "up"} /\ remote.turns \in Seq({OldTurn})
           /\ loop.posts = <<>> /\ cmds = <<>>
      BY <1>1
  <2>2. /\ Pipe(events, loop, remote, cmds, fan) /\ Guarded(cmds, loop)
        /\ remote.prompts \in Nat => StartsInc(fan, remote)
      BY <1>1, <1>4, <2>1, PipeEmpty
  <2>3. remote.prompts \in Nat
      BY <1>1
  <2> QED
      BY <2>2, <2>3
<1> QED
    BY <1>3, <1>5 DEF PipeInv

LEMMA PipeStep ==
    ASSUME Base, Base', PipeInv, [Next]_vars
    PROVE  PipeInv'
<1>1. CASE Next
  <2>1. CASE TakesEvent
      BY <2>1, BaseTake, PipeTake
  <2>2. CASE Sends
    <3>1. PICK before \in {<<>>, <<Cancel>>} :
              (before = <<>> => ~fan.running) /\ Serving /\ Send(before) /\ Idle
        BY <2>2 DEF Sends
    <3> QED
        BY <3>1, PipeSend
  <2>3. CASE FanSide
    <3>1. /\ UNCHANGED <<events, loop, remote, backend, shifted, lost>>
        BY <2>3 DEF FanSide, PromptWaits, SetMode, Interrupt, Kill, Idle
    <3>2. fan \in FanType
        BY DEF Base, Typed
    <3>3. fan'.starts = fan.starts
        BY <2>3, <3>2 DEF FanSide, PromptWaits, SetMode, Interrupt, Kill, FanType
    <3>4. PICK c, d : c = Cancel /\ d = [kind |-> "stop", id |-> 0]
        OBVIOUS
    <3>5. c \in CmdType /\ c.kind # "prompt" /\ d \in CmdType /\ d.kind # "prompt"
        BY <3>4 DEF Cancel, CmdType
    <3>6. cmds' = cmds \/ cmds' = Append(cmds, c) \/ cmds' = Append(cmds, d)
        BY <2>3, <3>4 DEF FanSide, PromptWaits, SetMode, Interrupt, Kill
    <3>7. cmds' = cmds \/ (\E x \in CmdType : x.kind # "prompt" /\ cmds' = Append(cmds, x))
        BY <3>5, <3>6
    <3> QED
        BY <3>1, <3>3, <3>7, PipeInput
  <2> QED
      BY <1>1, <2>1, <2>2, <2>3, StepSorts, PipeLife, PipeCodex, PipeServer, PipeCrew
<1>2. CASE UNCHANGED vars
  <2>1. UNCHANGED <<events, loop, remote, backend, shifted, lost, cmds>> /\ fan'.starts = fan.starts
      BY <1>2 DEF vars
  <2> QED
      BY <2>1, PipeInput
<1> QED
    BY <1>1, <1>2

\* As long as no boundary of no turn has settled one and no Crew prompt was lost, the
\* boundary of a turn settles that turn: the started turns stand in one line, from the
\* channel down to the channel up, in the order in which they started.
THEOREM TurnSettlesItself == Spec => BoundaryOwnTurn
<1>1. Init => Base /\ PipeInv
    BY BaseInit, PipeStart
<1>2. Base /\ PipeInv /\ [Next]_vars => (Base /\ PipeInv)'
    BY BaseStep, PipeStep
<1>3. Base /\ PipeInv /\ [Next]_vars =>
          [TakesEvent /\ Head(events).id # 0 /\ ~shifted /\ ~lost
              => fan.starts # <<>> /\ Head(fan.starts) = Head(events).id]_vars
  <2>1. SUFFICES ASSUME Base, PipeInv, TakesEvent, Head(events).id # 0, ~shifted, ~lost
                 PROVE  fan.starts # <<>> /\ Head(fan.starts) = Head(events).id
      OBVIOUS
  <2>2. events # <<>>
      BY <2>1, BaseTake DEF Taken
  <2>3. EventShape(events, loop) /\ StartsInc(fan, remote) /\ Pipe(events, loop, remote, cmds, fan)
      BY <2>1 DEF PipeInv
  <2> QED
      BY <2>1, <2>2, <2>3, OldestSettles
<1> QED
    BY <1>1, <1>2, <1>3, PTL DEF Spec, BoundaryOwnTurn

\* What the other side sends is taken for what it belongs to: a result's text is of its own
\* turn while the connection held, and a boundary settles its own turn.
THEOREM BelongsKept == Spec => ResultsBelong
<1>1. Init => Base /\ TextInv
  <2>1. Init => TextInv
    <3> SUFFICES ASSUME Init PROVE TextInv
        OBVIOUS
    <3>1. \A i \in DOMAIN events : events[i].text = 0
        BY DEF Init, Event
    <3>2. loop.text = 0
        BY DEF Init, FreshLoop
    <3> QED
        BY <3>1, <3>2 DEF TextInv, OwnTexts
  <2> QED
      BY <2>1, BaseInit
<1>2. Base /\ TextInv /\ [Next]_vars => (Base /\ TextInv)'
    BY BaseStep, TextStep
<1>3. Base /\ TextInv => TypeOK /\ ResultOwnText
    BY BaseTypes DEF TextInv, OwnTexts, ResultOwnText
<1> QED
    BY <1>1, <1>2, <1>3, TurnSettlesItself, PTL DEF Spec, ResultsBelong

-----------------------------------------------------------------------------
(* What is still to come of the turns that started: boundaries in the      *)
(* channel up, prompts in the channel down that will be taken, and work.   *)

\* A number's set has a least one.
LEMMA FirstOf ==
    ASSUME NEW T \in SUBSET Nat, T # {}
    PROVE  \E x \in T : \A y \in T : x <= y
<1>1. PICK F : F = {1..x : x \in T}
    OBVIOUS
<1>2. F \subseteq FiniteSubsetsOf(Nat) /\ F # {}
  <2>1. \A x \in T : 1..x \in FiniteSubsetsOf(Nat)
    <3>1. SUFFICES ASSUME NEW x \in T PROVE 1..x \in FiniteSubsetsOf(Nat)
        OBVIOUS
    <3>2. IsFiniteSet(1..x)
        BY FS_Interval, x \in Int, 1 \in Int
    <3>3. 1..x \subseteq Nat
        OBVIOUS
    <3> QED
        BY <3>2, <3>3 DEF FiniteSubsetsOf
  <2> QED
      BY <1>1, <2>1
<1>3. PICK I \in F : \A J \in F : <<J, I>> \notin StrictSubsetOrdering(Nat)
    BY <1>2, FS_StrictSubsetOrderingWellFounded, WFMin
<1>4. PICK x \in T : I = 1..x
    BY <1>1
<1>5. ASSUME NEW y \in T, ~(x <= y)
      PROVE  FALSE
  <2>1. 1..y \in F /\ <<1..y, 1..x>> \notin StrictSubsetOrdering(Nat)
      BY <1>1, <1>3, <1>4
  <2>2. x \in Nat /\ y \in Nat /\ y < x
      BY <1>5
  <2>3. 1..y \subseteq 1..x /\ x \in 1..x /\ x \notin 1..y
      BY <2>2
  <2>4. 1..y \in SUBSET Nat /\ 1..x \in SUBSET Nat /\ 1..y # 1..x
      BY <2>3
  <2> QED
      BY <2>1, <2>3, <2>4 DEF StrictSubsetOrdering
<1> QED
    BY <1>4, <1>5

\* Places of a sequence, when its head is taken and when something is appended.
LEMMA PlacesShift ==
    ASSUME NEW n \in Nat, NEW A \in SUBSET (1..n)
    PROVE  /\ IsFiniteSet(A) /\ Cardinality(A) \in Nat
           /\ Cardinality({i \in 1..(n - 1) : i + 1 \in A}) \in Nat
           /\ Cardinality(A) = Cardinality({i \in 1..(n - 1) : i + 1 \in A})
                               + (IF 1 \in A THEN 1 ELSE 0)
<1>1. IsFiniteSet(A) /\ Cardinality(A) \in Nat
    BY FS_Interval, FS_Subset, FS_CardinalityType, 1 \in Int, n \in Int
<1>2. PICK D : D = {i \in 1..(n - 1) : i + 1 \in A}
    OBVIOUS
<1>3. PICK B : B = A \ {1}
    OBVIOUS
<1>4. IsFiniteSet(B) /\ Cardinality(B) = IF 1 \in A THEN Cardinality(A) - 1 ELSE Cardinality(A)
    BY <1>1, <1>3, FS_RemoveElement
<1>5. ExistsBijection(B, D)
  <2>1. PICK f : f = [j \in B |-> j - 1]
      OBVIOUS
  <2>2. \A j \in B : j \in Nat /\ j - 1 \in D /\ f[j] = j - 1
      BY <1>2, <1>3, <2>1
  <2>3. f \in [B -> D]
      BY <2>1, <2>2
  <2>4. \A i \in D : i + 1 \in B /\ f[i + 1] = i
    <3>1. SUFFICES ASSUME NEW i \in D PROVE i + 1 \in B /\ f[i + 1] = i
        OBVIOUS
    <3>2. i + 1 \in B /\ i \in Nat /\ (i + 1) - 1 = i
        BY <1>2, <1>3
    <3> QED
        BY <2>2, <3>2
  <2>5. f \in Injection(B, D)
    <3>1. \A a, b \in B : f[a] = f[b] => a = b
        BY <2>2
    <3> QED
        BY <2>3, <3>1 DEF Injection, IsInjective
  <2>6. f \in Surjection(B, D)
      BY <2>3, <2>4 DEF Surjection
  <2> QED
      BY <2>5, <2>6 DEF ExistsBijection, Bijection
<1>6. IsFiniteSet(D) /\ Cardinality(D) = Cardinality(B)
    BY <1>4, <1>5, FS_Bijection
<1>7. Cardinality(D) \in Nat
    BY <1>6, FS_CardinalityType
<1>8. 1 \in A => Cardinality(A) - 1 = Cardinality(D)
    BY <1>4, <1>6
<1> QED
    BY <1>1, <1>2, <1>4, <1>6, <1>7, <1>8

LEMMA PlacesAdd ==
    ASSUME NEW n \in Nat, NEW A \in SUBSET (1..n)
    PROVE  Cardinality(A \cup {n + 1}) = Cardinality(A) + 1 /\ Cardinality(A) \in Nat
<1>1. IsFiniteSet(A) /\ Cardinality(A) \in Nat
    BY FS_Interval, FS_Subset, FS_CardinalityType, 1 \in Int, n \in Int
<1>2. n + 1 \notin A
    OBVIOUS
<1> QED
    BY <1>1, <1>2, FS_AddElement

EndPlaces(es) == {i \in DOMAIN es : IsBoundary(es[i])}
Ends(es)      == Cardinality(EndPlaces(es))

\* Codex takes the prompt at the head when it is idle, and one behind a cancel.
ComingPlaces(cs, pc, b) ==
    {k \in DOMAIN cs : cs[k].kind = "prompt" /\ (b = "crew" \/ IF k = 1 THEN pc = "idle"
                                                              ELSE cs[k - 1].kind = "cancel")}
Coming(cs, pc, b) == Cardinality(ComingPlaces(cs, pc, b))

AtWork(l, r) == IF l.pc = "turn" THEN 1
                ELSE IF l.pc = "up" THEN Len(l.posts) + Len(r.turns) ELSE 0
HasStop(cs) == \E k \in DOMAIN cs : cs[k].kind = "stop"

LEMMA EndsOfTail ==
    ASSUME NEW es \in Seq(EventType), es # <<>>
    PROVE  /\ Ends(es) \in Nat /\ Ends(Tail(es)) \in Nat
           /\ Ends(es) = Ends(Tail(es)) + (IF IsBoundary(Head(es)) THEN 1 ELSE 0)
<1>1. /\ Len(es) \in Nat /\ DOMAIN es = 1..Len(es) /\ Head(es) = es[1] /\ Len(es) > 0
      /\ DOMAIN Tail(es) = 1..(Len(es) - 1) /\ \A i \in 1..(Len(es) - 1) : Tail(es)[i] = es[i + 1]
    BY HeadTailProperties, EmptySeq
<1>2. PICK n, A : n = Len(es) /\ A = EndPlaces(es)
    OBVIOUS
<1>3. A \in SUBSET (1..n) /\ n \in Nat /\ (1 \in A <=> IsBoundary(Head(es)))
    BY <1>1, <1>2 DEF EndPlaces
<1>4. EndPlaces(Tail(es)) = {i \in 1..(n - 1) : i + 1 \in A}
  <2>1. \A i \in 1..(n - 1) : i + 1 \in DOMAIN es
      BY <1>1, <1>2
  <2> QED
      BY <1>1, <1>2, <2>1 DEF EndPlaces
<1>5. PICK D : D = {i \in 1..(n - 1) : i + 1 \in A}
    OBVIOUS
<1>6. /\ Cardinality(A) \in Nat /\ Cardinality(D) \in Nat
      /\ Cardinality(A) = Cardinality(D) + (IF 1 \in A THEN 1 ELSE 0)
    BY <1>3, <1>5, PlacesShift
<1>7. Ends(es) = Cardinality(A) /\ Ends(Tail(es)) = Cardinality(D)
    BY <1>2, <1>4, <1>5 DEF Ends
<1> QED
    BY <1>3, <1>6, <1>7

LEMMA EndsOfAppend ==
    ASSUME NEW es \in Seq(EventType), NEW e \in EventType
    PROVE  /\ Ends(es) \in Nat
           /\ Ends(Append(es, e)) = Ends(es) + (IF IsBoundary(e) THEN 1 ELSE 0)
<1>1. /\ Len(es) \in Nat /\ DOMAIN es = 1..Len(es) /\ DOMAIN Append(es, e) = 1..(Len(es) + 1)
      /\ \A i \in 1..Len(es) : Append(es, e)[i] = es[i]
      /\ Append(es, e)[Len(es) + 1] = e
    BY AppendProperties
<1>2. PICK n, A : n = Len(es) /\ A = EndPlaces(es)
    OBVIOUS
<1>3. A \in SUBSET (1..n) /\ n \in Nat
    BY <1>1, <1>2 DEF EndPlaces
<1>4. EndPlaces(Append(es, e)) = IF IsBoundary(e) THEN A \cup {n + 1} ELSE A
  <2>1. \A i : i \in 1..(n + 1) <=> i \in 1..n \/ i = n + 1
      BY <1>3
  <2> QED
      BY <1>1, <1>2, <1>3, <2>1 DEF EndPlaces
<1>5. Cardinality(A \cup {n + 1}) = Cardinality(A) + 1 /\ Cardinality(A) \in Nat
    BY <1>3, PlacesAdd
<1>6. /\ Ends(es) = Cardinality(A)
      /\ IsBoundary(e) => Ends(Append(es, e)) = Cardinality(A \cup {n + 1})
      /\ ~IsBoundary(e) => Ends(Append(es, e)) = Cardinality(A)
    BY <1>2, <1>4 DEF Ends
<1> QED
    BY <1>5, <1>6

LEMMA ComingOfTail ==
    ASSUME NEW cs \in Seq(CmdType), cs # <<>>, NEW pc, NEW pc2, NEW b,
           b = "crew" \/ (pc2 = "idle" <=> Head(cs).kind = "cancel")
    PROVE  /\ Coming(cs, pc, b) \in Nat /\ Coming(Tail(cs), pc2, b) \in Nat
           /\ Coming(cs, pc, b) = Coming(Tail(cs), pc2, b)
                  + (IF Head(cs).kind = "prompt" /\ (b = "crew" \/ pc = "idle") THEN 1 ELSE 0)
<1>1. /\ Len(cs) \in Nat /\ DOMAIN cs = 1..Len(cs) /\ Head(cs) = cs[1] /\ Len(cs) > 0
      /\ DOMAIN Tail(cs) = 1..(Len(cs) - 1) /\ \A i \in 1..(Len(cs) - 1) : Tail(cs)[i] = cs[i + 1]
    BY HeadTailProperties, EmptySeq
<1>2. PICK n, A : n = Len(cs) /\ A = ComingPlaces(cs, pc, b)
    OBVIOUS
<1>3. /\ A \in SUBSET (1..n) /\ n \in Nat
      /\ 1 \in A <=> Head(cs).kind = "prompt" /\ (b = "crew" \/ pc = "idle")
    BY <1>1, <1>2 DEF ComingPlaces
<1>4. ComingPlaces(Tail(cs), pc2, b) = {i \in 1..(n - 1) : i + 1 \in A}
  <2>1. ASSUME NEW i \in 1..(n - 1)
        PROVE  i \in ComingPlaces(Tail(cs), pc2, b) <=> i + 1 \in A
    <3>1. /\ i \in Nat /\ i + 1 \in DOMAIN cs /\ i + 1 # 1 /\ (i + 1) - 1 = i
          /\ Tail(cs)[i] = cs[i + 1] /\ i \in DOMAIN Tail(cs)
        BY <2>1, <1>1, <1>2
    <3>2. i + 1 \in A <=> cs[i + 1].kind = "prompt" /\ (b = "crew" \/ cs[i].kind = "cancel")
        BY <3>1, <1>2 DEF ComingPlaces
    <3>3. CASE i = 1
        BY <3>1, <3>2, <3>3, <1>1 DEF ComingPlaces
    <3>4. CASE i # 1
      <4>1. i - 1 \in 1..(Len(cs) - 1) /\ (i - 1) + 1 = i
          BY <2>1, <3>4, <1>2, <1>1
      <4>2. Tail(cs)[i - 1] = cs[i]
          BY <4>1, <1>1
      <4> QED
          BY <3>1, <3>2, <3>4, <4>2 DEF ComingPlaces
    <3> QED
        BY <3>3, <3>4
  <2>2. ComingPlaces(Tail(cs), pc2, b) \subseteq 1..(n - 1)
      BY <1>1, <1>2 DEF ComingPlaces
  <2> QED
      BY <2>1, <2>2
<1>5. PICK D : D = {i \in 1..(n - 1) : i + 1 \in A}
    OBVIOUS
<1>6. /\ Cardinality(A) \in Nat /\ Cardinality(D) \in Nat
      /\ Cardinality(A) = Cardinality(D) + (IF 1 \in A THEN 1 ELSE 0)
    BY <1>3, <1>5, PlacesShift
<1>7. Coming(cs, pc, b) = Cardinality(A) /\ Coming(Tail(cs), pc2, b) = Cardinality(D)
    BY <1>2, <1>4, <1>5 DEF Coming
<1> QED
    BY <1>3, <1>6, <1>7

LEMMA ComingOfAppend ==
    ASSUME NEW cs \in Seq(CmdType), NEW c \in CmdType, NEW pc, NEW b
    PROVE  /\ Coming(cs, pc, b) \in Nat
           /\ Coming(Append(cs, c), pc, b) = Coming(cs, pc, b)
                  + (IF c.kind = "prompt" /\ (b = "crew" \/ IF cs = <<>> THEN pc = "idle"
                                                           ELSE cs[Len(cs)].kind = "cancel")
                     THEN 1 ELSE 0)
<1>1. /\ Len(cs) \in Nat /\ DOMAIN cs = 1..Len(cs) /\ DOMAIN Append(cs, c) = 1..(Len(cs) + 1)
      /\ \A i \in 1..Len(cs) : Append(cs, c)[i] = cs[i]
      /\ Append(cs, c)[Len(cs) + 1] = c /\ (cs = <<>> <=> Len(cs) = 0)
    BY AppendProperties, EmptySeq
<1>2. PICK n, A : n = Len(cs) /\ A = ComingPlaces(cs, pc, b)
    OBVIOUS
<1>3. A \in SUBSET (1..n) /\ n \in Nat
    BY <1>1, <1>2 DEF ComingPlaces
<1>4. PICK u \in BOOLEAN : u <=> (c.kind = "prompt" /\ (b = "crew" \/ IF cs = <<>> THEN pc = "idle"
                                                           ELSE cs[Len(cs)].kind = "cancel"))
    OBVIOUS
<1>5. \A i \in 1..n : i \in ComingPlaces(Append(cs, c), pc, b) <=> i \in A
  <2>1. SUFFICES ASSUME NEW i \in 1..n
                 PROVE  i \in ComingPlaces(Append(cs, c), pc, b) <=> i \in A
      OBVIOUS
  <2>2. i \in DOMAIN cs /\ i \in DOMAIN Append(cs, c) /\ Append(cs, c)[i] = cs[i]
      BY <1>1, <1>2
  <2>3. i # 1 => Append(cs, c)[i - 1] = cs[i - 1]
      BY <1>1, <1>2
  <2> QED
      BY <1>2, <2>2, <2>3 DEF ComingPlaces
<1>6. n + 1 \in ComingPlaces(Append(cs, c), pc, b) <=> u
  <2>1. n + 1 \in DOMAIN Append(cs, c) /\ Append(cs, c)[n + 1] = c
      BY <1>1, <1>2
  <2>2. CASE cs = <<>>
      BY <1>1, <1>2, <1>4, <2>1, <2>2 DEF ComingPlaces
  <2>3. CASE cs # <<>>
    <3>1. n + 1 # 1 /\ (n + 1) - 1 = n /\ Append(cs, c)[n] = cs[n]
      <4>1. n \in 1..Len(cs) /\ n # 0
          BY <1>1, <1>2, <2>3
      <4> QED
          BY <1>1, <1>3, <4>1
    <3> QED
        BY <1>2, <1>4, <2>1, <2>3, <3>1 DEF ComingPlaces
  <2> QED
      BY <2>2, <2>3
<1>7. ComingPlaces(Append(cs, c), pc, b) = IF u THEN A \cup {n + 1} ELSE A
  <2>1. \A i : i \in 1..(n + 1) <=> i \in 1..n \/ i = n + 1
      BY <1>3
  <2>2. ComingPlaces(Append(cs, c), pc, b) \subseteq 1..(n + 1)
      BY <1>1, <1>2 DEF ComingPlaces
  <2> QED
      BY <1>3, <1>5, <1>6, <2>1, <2>2
<1>8. Cardinality(A \cup {n + 1}) = Cardinality(A) + 1 /\ Cardinality(A) \in Nat
    BY <1>3, PlacesAdd
<1>9. /\ Coming(cs, pc, b) = Cardinality(A)
      /\ u => Coming(Append(cs, c), pc, b) = Cardinality(A \cup {n + 1})
      /\ ~u => Coming(Append(cs, c), pc, b) = Cardinality(A)
    BY <1>2, <1>7 DEF Coming
<1>10. Coming(Append(cs, c), pc, b) = Coming(cs, pc, b) + (IF u THEN 1 ELSE 0) /\ Coming(cs, pc, b) \in Nat
    BY <1>8, <1>9
<1> QED
    BY <1>4, <1>10

\* An idle loop takes one of the prompts before it, when no stop ends it.
LEMMA OneComes ==
    ASSUME NEW cs \in Seq(CmdType), NEW b, ~HasStop(cs), NEW k \in DOMAIN cs, cs[k].kind = "prompt"
    PROVE  Coming(cs, "idle", b) \in Nat /\ Coming(cs, "idle", b) # 0
<1>1. PICK T : T = {i \in DOMAIN cs : cs[i].kind = "prompt"}
    OBVIOUS
<1>2. Len(cs) \in Nat /\ DOMAIN cs = 1..Len(cs)
    BY LenProperties
<1>3. T \in SUBSET Nat /\ T # {}
    BY <1>1, <1>2
<1>4. PICK x \in T : \A y \in T : x <= y
    BY <1>3, FirstOf
<1>5. x \in DOMAIN cs /\ cs[x].kind = "prompt" /\ x \in Nat
    BY <1>1, <1>3
<1>6. x # 1 => cs[x - 1].kind = "cancel"
  <2>1. SUFFICES ASSUME x # 1 PROVE cs[x - 1].kind = "cancel"
      OBVIOUS
  <2>2. x - 1 \in DOMAIN cs /\ ~(x <= x - 1)
      BY <2>1, <1>2, <1>5
  <2>3. cs[x - 1].kind # "prompt"
      BY <2>2, <1>1, <1>4
  <2>4. cs[x - 1] \in CmdType /\ cs[x - 1].kind # "stop"
      BY <2>2, ElementOfSeq DEF HasStop
  <2> QED
      BY <2>3, <2>4 DEF CmdType
<1>7. x \in ComingPlaces(cs, "idle", b)
    BY <1>5, <1>6 DEF ComingPlaces
<1>8. ComingPlaces(cs, "idle", b) \in SUBSET (1..Len(cs))
    BY <1>2 DEF ComingPlaces
<1>9. IsFiniteSet(ComingPlaces(cs, "idle", b))
    BY <1>2, <1>8, FS_Interval, FS_Subset, 1 \in Int, Len(cs) \in Int
<1> QED
    BY <1>7, <1>9, FS_EmptySet, FS_CardinalityType DEF Coming

LEMMA CountsAreNat ==
    ASSUME NEW es \in Seq(EventType), NEW cs \in Seq(CmdType), NEW pc, NEW b, NEW l \in LoopType,
           NEW r \in RemoteType, NEW f \in FanType
    PROVE  /\ Ends(es) \in Nat /\ Coming(cs, pc, b) \in Nat /\ AtWork(l, r) \in Nat
           /\ Len(f.starts) \in Nat /\ Len(l.posts) \in Nat /\ Len(r.turns) \in Nat
<1>1. Len(es) \in Nat /\ DOMAIN es = 1..Len(es) /\ Len(cs) \in Nat /\ DOMAIN cs = 1..Len(cs)
    BY LenProperties
<1>2. EndPlaces(es) \in SUBSET (1..Len(es)) /\ ComingPlaces(cs, pc, b) \in SUBSET (1..Len(cs))
    BY <1>1 DEF EndPlaces, ComingPlaces
<1>3. Ends(es) \in Nat
    BY <1>1, <1>2, PlacesAdd DEF Ends
<1>4. Coming(cs, pc, b) \in Nat
    BY <1>1, <1>2, PlacesAdd DEF Coming
<1>5. l.posts \in Seq(Prompts) /\ r.turns \in Seq(TurnIds) /\ f.starts \in Seq(Prompts)
    BY DEF LoopType, RemoteType, FanType
<1>6. Len(l.posts) \in Nat /\ Len(r.turns) \in Nat /\ Len(f.starts) \in Nat
    BY <1>5, LenProperties
<1>7. PICK p, t : p = Len(l.posts) /\ t = Len(r.turns)
    OBVIOUS
<1>8. p + t \in Nat
  <2>1. p \in Nat /\ t \in Nat
      BY <1>6, <1>7
  <2> QED
      BY <2>1
<1>9. AtWork(l, r) \in {0, 1, p + t}
    BY <1>7 DEF AtWork
<1> QED
    BY <1>3, <1>4, <1>6, <1>8, <1>9

LEMMA CrewComing ==
    ASSUME NEW cs, NEW pc, NEW pc2
    PROVE  Coming(cs, pc, "crew") = Coming(cs, pc2, "crew")
BY DEF Coming, ComingPlaces

LEMMA StopTail ==
    ASSUME NEW cs \in Seq(CmdType), cs # <<>>, Head(cs).kind # "stop", ~HasStop(Tail(cs))
    PROVE  ~HasStop(cs)
<1>1. /\ Len(cs) \in Nat /\ DOMAIN cs = 1..Len(cs) /\ Head(cs) = cs[1]
      /\ DOMAIN Tail(cs) = 1..(Len(cs) - 1) /\ \A i \in 1..(Len(cs) - 1) : Tail(cs)[i] = cs[i + 1]
    BY HeadTailProperties, EmptySeq
<1>2. SUFFICES ASSUME NEW k \in DOMAIN cs, k # 1 PROVE cs[k].kind # "stop"
    BY <1>1 DEF HasStop
<1>3. k - 1 \in DOMAIN Tail(cs) /\ (k - 1) + 1 = k
    BY <1>1, <1>2
<1>4. Tail(cs)[k - 1] = cs[k]
    BY <1>1, <1>3
<1> QED
    BY <1>3, <1>4 DEF HasStop

LEMMA StopAppend ==
    ASSUME NEW cs \in Seq(CmdType), NEW c \in CmdType
    PROVE  HasStop(Append(cs, c)) <=> HasStop(cs) \/ c.kind = "stop"
<1>1. /\ Len(cs) \in Nat /\ DOMAIN cs = 1..Len(cs) /\ DOMAIN Append(cs, c) = 1..(Len(cs) + 1)
      /\ \A i \in 1..Len(cs) : Append(cs, c)[i] = cs[i]
      /\ Append(cs, c)[Len(cs) + 1] = c
    BY AppendProperties
<1> QED
    BY <1>1 DEF HasStop

\* Every turn that started and did not settle has something to settle it.
Due(es, l, r, cs, f, b) == Len(f.starts) <= Ends(es) + Coming(cs, l.pc, b) + AtWork(l, r)
Going(l, cs, gone) == l.pc # "ended" /\ ~HasStop(cs) /\ ~gone
BusyInv == Going(loop, cmds, lost) => Due(events, loop, remote, cmds, fan, backend)

LEMMA BusyIsHad ==
    ASSUME Base, BusyInv
    PROVE  BusyHasCause
<1>1. SUFFICES ASSUME fan.running, loop.pc # "ended", ~(IsCrew /\ lost),
                      \A i \in DOMAIN cmds : cmds[i].kind = "cancel",
                      \A i \in DOMAIN events : ~IsBoundary(events[i])
               PROVE  loop.call # NoCall \/ loop.posts # <<>> \/ remote.turns # <<>>
    BY DEF BusyHasCause
<1>2. /\ events \in Seq(EventType) /\ loop \in LoopType /\ remote \in RemoteType
      /\ cmds \in Seq(CmdType) /\ fan \in FanType
    BY DEF Base, Typed
<1>3. Going(loop, cmds, lost)
    BY <1>1 DEF Going, HasStop, Base, Typed, Shape, IsCodex, IsCrew
<1>4. EndPlaces(events) = {} /\ ComingPlaces(cmds, loop.pc, backend) = {}
    BY <1>1 DEF EndPlaces, ComingPlaces
<1>5. Ends(events) = 0 /\ Coming(cmds, loop.pc, backend) = 0
    BY <1>4, FS_EmptySet DEF Ends, Coming
<1>6. Len(fan.starts) # 0 /\ Len(fan.starts) \in Nat /\ AtWork(loop, remote) \in Nat
  <2>1. PICK q, b, n : q = fan.seq /\ b = fan.bound /\ n = Len(fan.starts)
      OBVIOUS
  <2>2. b \in Nat /\ q \in Nat /\ b < q /\ n = q - b
    <3>1. b \in 0..MaxPrompts /\ q \in 0..MaxPrompts
        BY <1>2, <2>1 DEF FanType
    <3>2. b < q /\ n = q - b
        BY <1>1, <2>1 DEF Base, Counts
    <3> QED
        BY <3>1, <3>2, Bounds
  <2>3. n # 0
      BY <2>2
  <2>4. Len(fan.starts) \in Nat /\ AtWork(loop, remote) \in Nat
      BY <1>2, CountsAreNat
  <2> QED
      BY <2>1, <2>3, <2>4
<1>7. AtWork(loop, remote) # 0
  <2>1. PICK n, w : n = Len(fan.starts) /\ w = AtWork(loop, remote)
      OBVIOUS
  <2>2. n <= 0 + 0 + w
      BY <1>3, <1>5, <2>1 DEF BusyInv, Due
  <2>3. n # 0 /\ n \in Nat /\ w \in Nat
      BY <1>6, <2>1
  <2>4. w # 0
      BY <2>2, <2>3
  <2> QED
      BY <2>1, <2>4
<1>8. CASE loop.pc = "turn"
    BY <1>8 DEF Base, Shape, NoCall
<1>9. CASE loop.pc = "up"
  <2>1. Len(loop.posts) + Len(remote.turns) # 0
      BY <1>7, <1>9 DEF AtWork
  <2>2. SUFFICES ASSUME loop.posts = <<>>, remote.turns = <<>> PROVE FALSE
      OBVIOUS
  <2>3. Len(loop.posts) = 0 /\ Len(remote.turns) = 0
      BY <2>2
  <2> QED
      BY <2>1, <2>3
<1> QED
    BY <1>7, <1>8, <1>9 DEF AtWork

LEMMA BusyTake ==
    ASSUME Base, Base', BusyInv, Taken
    PROVE  BusyInv'
<1>1. /\ events \in Seq(EventType) /\ loop \in LoopType /\ remote \in RemoteType
      /\ cmds \in Seq(CmdType) /\ fan \in FanType /\ fan' \in FanType /\ fan.starts \in Seq(Prompts)
    BY DEF Base, Typed, FanType
<1>2. /\ events # <<>> /\ events' = Tail(events) /\ UNCHANGED <<backend, cmds, loop, remote, lost>>
      /\ fan'.starts = IF IsBoundary(Head(events)) /\ fan.starts # <<>> THEN Tail(fan.starts) ELSE fan.starts
    BY DEF Taken
<1>3. SUFFICES ASSUME Going(loop, cmds, lost) PROVE Due(events', loop, remote, cmds, fan', backend)
    BY <1>2 DEF BusyInv
<1>4. PICK n, n2, e, e2, c, w :
          /\ n = Len(fan.starts) /\ n2 = Len(fan'.starts) /\ e = Ends(events) /\ e2 = Ends(events')
          /\ c = Coming(cmds, loop.pc, backend) /\ w = AtWork(loop, remote)
    OBVIOUS
<1>5. n \in Nat /\ n2 \in Nat /\ c \in Nat /\ w \in Nat /\ n <= e + c + w
    BY <1>1, <1>3, <1>4, CountsAreNat DEF BusyInv, Due
<1>6. e \in Nat /\ e2 \in Nat /\ e = e2 + (IF IsBoundary(Head(events)) THEN 1 ELSE 0)
    BY <1>1, <1>2, <1>4, EndsOfTail
<1>7. IsBoundary(Head(events)) => n2 = 0 \/ n2 = n - 1
  <2>1. CASE fan.starts = <<>>
      BY <1>2, <1>4, <2>1
  <2>2. CASE fan.starts # <<>>
      BY <1>1, <1>2, <1>4, <2>2, HeadTailProperties
  <2> QED
      BY <2>1, <2>2
<1>8. ~IsBoundary(Head(events)) => n2 = n
    BY <1>2, <1>4
<1>9. n2 <= e2 + c + w
    BY <1>5, <1>6, <1>7, <1>8
<1> QED
    BY <1>4, <1>9 DEF Due

LEMMA NoneComing ==
    ASSUME NEW pc, NEW b
    PROVE  Coming(<<>>, pc, b) = 0
<1>1. ComingPlaces(<<>>, pc, b) = {}
    BY DEF ComingPlaces
<1> QED
    BY <1>1, FS_EmptySet DEF Coming

\* What settles a turn may move, and may grow.
LEMMA BusyMove ==
    ASSUME Base, Base', BusyInv, fan'.starts = fan.starts, backend' = backend,
           NEW n \in Nat, NEW e \in Nat, NEW c \in Nat, NEW w \in Nat,
           NEW e2 \in Nat, NEW c2 \in Nat, NEW w2 \in Nat,
           n = Len(fan.starts), e = Ends(events), c = Coming(cmds, loop.pc, backend),
           w = AtWork(loop, remote),
           e2 = Ends(events'), c2 = Coming(cmds', loop'.pc, backend), w2 = AtWork(loop', remote'),
           Going(loop', cmds', lost') =>
               \/ Going(loop, cmds, lost) /\ e + c + w <= e2 + c2 + w2
               \/ n <= e2 + c2 + w2
    PROVE  BusyInv'
<1>1. SUFFICES ASSUME Going(loop', cmds', lost')
               PROVE  n <= e2 + c2 + w2
    BY DEF BusyInv, Due
<1>2. CASE Going(loop, cmds, lost) /\ e + c + w <= e2 + c2 + w2
  <2>1. n <= e + c + w
      BY <1>2 DEF BusyInv, Due
  <2> QED
      BY <1>2, <2>1
<1> QED
    BY <1>1, <1>2

LEMMA BusyInput ==
    ASSUME Base, Base', BusyInv, UNCHANGED <<events, loop, remote, backend, lost>>,
           fan'.starts = fan.starts,
           cmds' = cmds \/ (\E x \in CmdType : x.kind # "prompt" /\ cmds' = Append(cmds, x))
    PROVE  BusyInv'
<1>1. /\ events \in Seq(EventType) /\ loop \in LoopType /\ remote \in RemoteType
      /\ cmds \in Seq(CmdType) /\ fan \in FanType
    BY DEF Base, Typed
<1>2. PICK n, e, c, w : /\ n = Len(fan.starts) /\ e = Ends(events) /\ w = AtWork(loop, remote)
                        /\ c = Coming(cmds, loop.pc, backend)
    OBVIOUS
<1>3. n \in Nat /\ e \in Nat /\ c \in Nat /\ w \in Nat
    BY <1>1, <1>2, CountsAreNat
<1>4. c = Coming(cmds', loop.pc, backend) /\ (HasStop(cmds) => HasStop(cmds'))
  <2>1. CASE cmds' = cmds
      BY <1>2, <2>1
  <2>2. ASSUME NEW x \in CmdType, x.kind # "prompt", cmds' = Append(cmds, x)
        PROVE  c = Coming(cmds', loop.pc, backend) /\ (HasStop(cmds) => HasStop(cmds'))
    <3>1. HasStop(cmds) => HasStop(cmds')
        BY <1>1, <2>2, StopAppend
    <3>2. Coming(cmds', loop.pc, backend) = c + 0
        BY <1>1, <1>2, <2>2, ComingOfAppend
    <3> QED
        BY <1>3, <3>1, <3>2
  <2> QED
      BY <2>1, <2>2
<1>5. Going(loop', cmds', lost') => Going(loop, cmds, lost) /\ e + c + w <= e + c + w
    BY <1>3, <1>4 DEF Going
<1>6. e = Ends(events') /\ c = Coming(cmds', loop'.pc, backend) /\ w = AtWork(loop', remote')
    BY <1>2, <1>4
<1> QED
    BY <1>2, <1>3, <1>5, <1>6, BusyMove

LEMMA BusyLife ==
    ASSUME Base, Base', BusyInv, Lives
    PROVE  BusyInv'
<1>1. CASE Insert
  <2>1. UNCHANGED <<events, loop, remote, backend, lost, cmds>> /\ fan'.starts = fan.starts
      BY <1>1 DEF Insert
  <2> QED
      BY <2>1, BusyInput
<1>2. CASE EnsureCodex \/ EnsureCrew
  <2>1. fan' = FreshFan
      BY <1>2 DEF EnsureCodex, EnsureCrew, Spawned
  <2>2. fan'.starts = <<>>
      BY <2>1 DEF FreshFan
  <2>3. Len(fan'.starts) = 0
      BY <2>2
  <2>4. /\ events' \in Seq(EventType) /\ loop' \in LoopType /\ remote' \in RemoteType
        /\ cmds' \in Seq(CmdType) /\ fan' \in FanType
      BY DEF Base, Typed
  <2>5. PICK e, c, w : /\ e = Ends(events') /\ w = AtWork(loop', remote')
                       /\ c = Coming(cmds', loop'.pc, backend')
      OBVIOUS
  <2>6. e \in Nat /\ c \in Nat /\ w \in Nat
      BY <2>4, <2>5, CountsAreNat
  <2>7. 0 <= e + c + w
      BY <2>6
  <2> QED
      BY <2>3, <2>5, <2>7 DEF BusyInv, Due
<1>3. CASE FanEnds
  <2>1. loop'.pc = "ended"
      BY <1>3 DEF FanEnds, Base, Typed, LoopType
  <2> QED
      BY <2>1 DEF BusyInv, Going
<1> QED
    BY <1>1, <1>2, <1>3 DEF Lives

LEMMA BusySend ==
    ASSUME Base, Base', BusyInv, NEW before \in {<<>>, <<Cancel>>}, before = <<>> => ~fan.running,
           Serving, Send(before), Idle
    PROVE  BusyInv'
<1>1. /\ events \in Seq(EventType) /\ loop \in LoopType /\ remote \in RemoteType
      /\ cmds \in Seq(CmdType) /\ fan \in FanType /\ remote' \in RemoteType /\ cmds' \in Seq(CmdType)
      /\ backend \in {"codex", "crew"} /\ fan.starts \in Seq(Prompts)
    BY DEF Base, Typed, FanType
<1>2. UNCHANGED <<loop, events, backend, lost>>
    BY DEF Idle
<1>3. SUFFICES ASSUME Going(loop, cmds', lost)
               PROVE  Due(events, loop, remote', cmds', fan', backend)
    BY <1>2 DEF BusyInv
<1>4. PICK id : id = Next_Id
    OBVIOUS
<1>5. id \in Prompts
  <2>1. remote.prompts \in 0..MaxPrompts
      BY <1>1 DEF RemoteType
  <2> QED
      BY <1>4, <2>1, Bounds DEF Next_Id, Send, Room, Prompts
<1>6. remote'.turns = remote.turns /\ fan'.starts = Append(fan.starts, id)
  <2>1. remote'.turns = remote.turns
      BY <1>1 DEF Send, RemoteType
  <2>2. fan'.starts = Append(fan.starts, id)
      BY <1>1, <1>4 DEF Send, Start, FanType
  <2> QED
      BY <2>1, <2>2
<1>7. PICK x : x = [kind |-> "prompt", id |-> id]
    OBVIOUS
<1>8. x \in CmdType /\ x.kind = "prompt" /\ Cancel \in CmdType /\ Cancel.kind = "cancel"
    BY <1>5, <1>7 DEF CmdType, Cancel
<1>9. PICK d : d = cmds \o before
    OBVIOUS
<1>10. loop.pc # "ended" /\ ~HasStop(cmds') /\ ~lost
    BY <1>3 DEF Going
<1>11. /\ before = <<>> => d = cmds
       /\ before = <<Cancel>> => d = Append(cmds, Cancel)
       /\ d \in Seq(CmdType)
  <2>1. CASE before = <<>>
    <3>1. d = cmds /\ before # <<Cancel>>
        BY <1>1, <1>9, <2>1, ConcatEmptySeq
    <3> QED
        BY <1>1, <3>1
  <2>2. CASE before = <<Cancel>>
    <3>1. d = Append(cmds, Cancel) /\ before # <<>>
        BY <1>1, <1>8, <1>9, <2>2, AppendIsConcat
    <3> QED
        BY <1>1, <1>8, <3>1, AppendProperties
  <2> QED
      BY <2>1, <2>2
<1>12. cmds' = Append(d, x)
  <2>1. cmds' = cmds \o before \o <<x>>
      BY <1>4, <1>7, <1>10 DEF Send
  <2> QED
      BY <2>1, <1>8, <1>9, <1>11, AppendIsConcat
<1>13. PICK n, n2, e, c, c1, c2, w :
          /\ n = Len(fan.starts) /\ n2 = Len(fan'.starts) /\ e = Ends(events)
          /\ c = Coming(cmds, loop.pc, backend) /\ c1 = Coming(d, loop.pc, backend)
          /\ c2 = Coming(cmds', loop.pc, backend) /\ w = AtWork(loop, remote)
    OBVIOUS
<1>14. n \in Nat /\ n2 = n + 1 /\ e \in Nat /\ c \in Nat /\ c1 \in Nat /\ c2 \in Nat /\ w \in Nat
       /\ w = AtWork(loop, remote')
  <2>1. n \in Nat /\ e \in Nat /\ c \in Nat /\ w \in Nat
      BY <1>1, <1>13, CountsAreNat
  <2>2. c1 \in Nat
      BY <1>1, <1>11, <1>13, CountsAreNat
  <2>3. c2 \in Nat
      BY <1>1, <1>13, CountsAreNat
  <2>4. n2 = n + 1
      BY <1>1, <1>5, <1>6, <1>13, AppendProperties
  <2>5. AtWork(loop, remote') = AtWork(loop, remote)
      BY <1>6 DEF AtWork
  <2> QED
      BY <2>1, <2>2, <2>3, <2>4, <2>5, <1>13
<1>15. CASE before = <<Cancel>>
  <2>1. d = Append(cmds, Cancel) /\ d # <<>> /\ d[Len(d)] = Cancel
    <3>1. d = Append(cmds, Cancel)
        BY <1>11, <1>15
    <3> QED
        BY <3>1, <1>1, <1>8, AppendProperties
  <2>2. c1 = c
    <3>1. c1 = c + 0
        BY <1>1, <1>8, <1>13, <2>1, ComingOfAppend
    <3> QED
        BY <3>1, <1>14
  <2>3. c2 = c1 + 1
    <3>1. d \in Seq(CmdType) /\ d # <<>> /\ d[Len(d)].kind = "cancel"
        BY <1>8, <1>11, <2>1
    <3> QED
        BY <1>8, <1>12, <1>13, <3>1, ComingOfAppend
  <2>4. ~HasStop(cmds)
      BY <1>1, <1>8, <1>10, <1>11, <1>12, <2>1, StopAppend
  <2>5. n <= e + c + w
      BY <1>10, <1>13, <2>4 DEF BusyInv, Going, Due
  <2>6. n2 <= e + c2 + w
      BY <1>14, <2>2, <2>3, <2>5
  <2> QED
      BY <1>13, <1>14, <2>6 DEF Due
<1>16. CASE before = <<>>
  <2>1. d = cmds /\ ~fan.running
      BY <1>11, <1>16
  <2>2. n = 0
    <3>1. PICK q, b : q = fan.seq /\ b = fan.bound
        OBVIOUS
    <3>2. b \in 0..MaxPrompts /\ q \in 0..MaxPrompts
        BY <1>1, <3>1 DEF FanType
    <3>3. b <= q /\ n = q - b /\ ~(b < q)
        BY <1>13, <2>1, <3>1 DEF Base, Counts
    <3> QED
        BY <3>2, <3>3, Bounds
  <2>3. w + c2 # 0
    <3>1. CASE backend = "crew"
      <4>1. c2 = c1 + 1
          BY <1>8, <1>11, <1>12, <1>13, <3>1, ComingOfAppend
      <4> QED
          BY <4>1, <1>14
    <3>2. CASE loop.pc = "turn"
      <4>1. w = 1
          BY <1>13, <3>2 DEF AtWork
      <4> QED
          BY <4>1, <1>14
    <3>3. CASE loop.pc = "idle"
      <4>1. Len(d) + 1 \in DOMAIN cmds' /\ cmds'[Len(d) + 1] = x
          BY <1>8, <1>11, <1>12, AppendProperties
      <4>2. c2 # 0
          BY <1>1, <1>8, <1>10, <1>13, <3>3, <4>1, OneComes
      <4> QED
          BY <4>2, <1>14
    <3> QED
        BY <1>1, <1>10, <3>1, <3>2, <3>3 DEF Base, Shape, IsCodex
  <2>4. n2 <= e + c2 + w
      BY <1>14, <2>2, <2>3
  <2> QED
      BY <1>13, <1>14, <2>4 DEF Due
<1> QED
    BY <1>15, <1>16

\* The loop takes a command that is no stop.
LEMMA GoingTail ==
    ASSUME Base, cmds # <<>>, cmds' = Tail(cmds), Head(cmds).kind # "stop", loop.pc # "ended",
           Going(loop', cmds', lost'), ~lost' => ~lost
    PROVE  Going(loop, cmds, lost)
<1>1. cmds \in Seq(CmdType)
    BY DEF Base, Typed
<1>2. ~HasStop(Tail(cmds)) /\ ~lost
    BY DEF Going
<1>3. ~HasStop(cmds)
    BY <1>1, <1>2, StopTail
<1> QED
    BY <1>2, <1>3 DEF Going

LEMMA BusyCodex ==
    ASSUME Base, Base', BusyInv, CodexStep
    PROVE  BusyInv'
<1>1. /\ events \in Seq(EventType) /\ loop \in LoopType /\ remote \in RemoteType
      /\ cmds \in Seq(CmdType) /\ fan \in FanType /\ events' \in Seq(EventType)
      /\ loop' \in LoopType /\ remote' \in RemoteType /\ cmds' \in Seq(CmdType)
      /\ NoRef \in SomeRef /\ 0 \in 0..MaxPrompts /\ loop.call.id \in 0..MaxPrompts
      /\ loop.call.ref \in SomeRef
  <2>1. /\ events \in Seq(EventType) /\ loop \in LoopType /\ remote \in RemoteType
        /\ cmds \in Seq(CmdType) /\ fan \in FanType /\ events' \in Seq(EventType)
        /\ loop' \in LoopType /\ remote' \in RemoteType /\ cmds' \in Seq(CmdType)
      BY DEF Base, Typed
  <2> QED
      BY <2>1, Bounds DEF LoopType, CallType, SomeRef
<1>2. IsCodex /\ fan' = fan /\ backend' = backend /\ lost' = lost
  <2>1. IsCodex
      BY DEF CodexStep
  <2>2. fan' = fan /\ backend' = backend /\ lost' = lost
      BY DEF CodexStep, CodexPrompt, CodexIdleCancel, CodexStop, CodexCancel, CodexRefuses, CodexTurnNote,
          CodexIdleNote, CodexResult, CodexError, FanSame, Constant, History
  <2> QED
      BY <2>1, <2>2
<1>3. PICK n, e, c, w, e2, c2, w2 :
          /\ n = Len(fan.starts) /\ e = Ends(events) /\ c = Coming(cmds, loop.pc, backend)
          /\ w = AtWork(loop, remote) /\ e2 = Ends(events') /\ c2 = Coming(cmds', loop'.pc, backend)
          /\ w2 = AtWork(loop', remote')
    OBVIOUS
<1>4. /\ n \in Nat /\ e \in Nat /\ c \in Nat /\ w \in Nat /\ e2 \in Nat /\ c2 \in Nat /\ w2 \in Nat
  <2>1. n \in Nat /\ e \in Nat /\ c \in Nat /\ w \in Nat
      BY <1>1, <1>3, CountsAreNat
  <2>2. e2 \in Nat /\ c2 \in Nat /\ w2 \in Nat
      BY <1>1, <1>3, CountsAreNat
  <2> QED
      BY <2>1, <2>2
<1>5. /\ loop.pc \in {"idle", "turn", "ended"} /\ backend # "crew"
      /\ w = IF loop.pc = "turn" THEN 1 ELSE 0
      /\ w2 = IF loop'.pc = "turn" THEN 1 ELSE 0
  <2>1. loop.pc \in {"idle", "turn", "ended"} /\ backend # "crew"
      BY <1>2, CodexSets DEF IsCodex
  <2>2. loop'.pc \in {"idle", "turn", "ended"}
      BY <1>2 DEF Base, Shape, IsCodex
  <2> QED
      BY <2>1, <2>2, <1>3 DEF AtWork
<1>6. SUFFICES ASSUME Going(loop', cmds', lost')
               PROVE  Going(loop, cmds, lost) /\ e + c + w <= e2 + c2 + w2
    BY <1>2, <1>3, <1>4, BusyMove
<1>7. CASE CodexPrompt
  <2>1. /\ loop.pc = "idle" /\ cmds # <<>> /\ cmds' = Tail(cmds) /\ events' = events
        /\ Head(cmds).kind = "prompt" /\ loop'.pc = "turn"
      BY <1>1, <1>7 DEF CodexPrompt, Takes, LoopType
  <2>2. c = c2 + 1
      BY <1>1, <1>3, <1>5, <2>1, ComingOfTail
  <2>3. e2 = e /\ w = 0 /\ w2 = 1
      BY <1>3, <1>5, <2>1
  <2>4. Going(loop, cmds, lost)
      BY <1>2, <1>6, <2>1, GoingTail
  <2> QED
      BY <1>4, <2>2, <2>3, <2>4
<1>8. CASE CodexIdleCancel \/ CodexRefuses
  <2>1. /\ cmds # <<>> /\ cmds' = Tail(cmds) /\ events' = events /\ loop' = loop /\ remote' = remote
        /\ Head(cmds).kind \in {"cancel", "prompt"} /\ loop.pc # "ended"
        /\ loop.pc = "idle" <=> Head(cmds).kind = "cancel"
      BY <1>8 DEF CodexIdleCancel, CodexRefuses, Takes
  <2>2. c = c2 + 0
      BY <1>1, <1>3, <1>5, <2>1, ComingOfTail
  <2>3. e2 = e /\ w = w2
      BY <1>3, <2>1
  <2>4. Going(loop, cmds, lost)
      BY <1>2, <1>6, <2>1, GoingTail
  <2> QED
      BY <1>4, <2>2, <2>3, <2>4
<1>9. CASE CodexStop
  <2>1. loop'.pc = "ended"
      BY <1>1, <1>9 DEF CodexStop, LoopType
  <2> QED
      BY <1>6, <2>1 DEF Going
<1>10. CASE CodexCancel
  <2>1. PICK v : v = Event("error", loop.call.id)
      OBVIOUS
  <2>2. v \in EventType /\ IsBoundary(v)
      BY <1>1, <2>1 DEF Event, EventType, IsBoundary
  <2>3. /\ loop.pc = "turn" /\ cmds # <<>> /\ cmds' = Tail(cmds) /\ events' = Append(events, v)
        /\ Head(cmds).kind = "cancel"
      BY <1>10, <2>1 DEF CodexCancel, CancelEvent, Emit, Takes
  <2>4. loop'.pc = "idle"
      BY <1>1, <1>10 DEF CodexCancel, LoopType
  <2>5. c = c2 + 0
      BY <1>1, <1>3, <1>5, <2>3, <2>4, ComingOfTail
  <2>6. e2 = e + 1
      BY <1>1, <1>3, <2>2, <2>3, EndsOfAppend
  <2>7. w = 1 /\ w2 = 0
      BY <1>5, <2>3, <2>4
  <2>8. Going(loop, cmds, lost)
      BY <1>2, <1>6, <2>3, GoingTail
  <2> QED
      BY <1>4, <2>5, <2>6, <2>7, <2>8
<1>11. CASE CodexTurnNote \/ CodexIdleNote
  <2>1. cmds' = cmds /\ loop.pc # "ended"
      BY <1>11 DEF CodexTurnNote, CodexIdleNote, OuterTurn
  <2>2. loop'.pc = loop.pc
      BY <1>1, <1>11 DEF CodexTurnNote, CodexIdleNote, LoopType
  <2>3. events' = events \/ (\E v \in EventType : events' = Append(events, v))
    <3>1. CASE CodexIdleNote /\ events' # events
      <4>1. PICK v : v = [Event("error", 0) EXCEPT !.waiting = cmds # <<>>]
          OBVIOUS
      <4>2. events' = Append(events, v) /\ cmds = <<>>
          BY <3>1, <4>1 DEF CodexIdleNote, Emit, OuterTurn
      <4>3. v \in EventType
          BY <1>1, <4>1, <4>2 DEF Event, EventType
      <4> QED
          BY <4>2, <4>3
    <3> QED
        BY <1>11, <3>1 DEF CodexTurnNote
  <2>4. e2 = e \/ e2 = e + 1
    <3>1. ASSUME NEW v \in EventType, events' = Append(events, v)
          PROVE  e2 = e \/ e2 = e + 1
      <4>1. e2 = e + (IF IsBoundary(v) THEN 1 ELSE 0)
          BY <1>1, <1>3, <3>1, EndsOfAppend
      <4> QED
          BY <1>4, <4>1
    <3> QED
        BY <1>3, <2>3, <3>1
  <2>5. c = c2 /\ w = w2
      BY <1>3, <1>5, <2>1, <2>2
  <2>6. Going(loop, cmds, lost)
      BY <1>2, <1>6, <2>1, <2>2 DEF Going
  <2> QED
      BY <1>4, <2>4, <2>5, <2>6
<1>12. CASE CodexResult \/ (\E unknown \in BOOLEAN : CodexError(unknown))
  <2>1. cmds' = cmds /\ cmds = <<>> /\ loop.pc = "turn"
      BY <1>12 DEF CodexResult, CodexError, CallOver
  <2>2. \E v \in EventType : IsBoundary(v) /\ events' = Append(events, v)
    <3>1. CASE CodexResult
      <4>1. PICK u : u = Event("result", loop.call.id)
          OBVIOUS
      <4>2. u \in EventType /\ u.kind = "result"
          BY <1>1, <4>1 DEF Event, EventType
      <4>3. PICK v : v = [u EXCEPT !.ref = loop.call.ref]
          OBVIOUS
      <4>4. v \in EventType /\ v.kind = "result"
          BY <1>1, <4>2, <4>3 DEF EventType
      <4>5. events' = Append(events, v)
          BY <3>1, <4>1, <4>3 DEF CodexResult, Emit
      <4> QED
          BY <4>4, <4>5 DEF IsBoundary
    <3>2. CASE \E unknown \in BOOLEAN : CodexError(unknown)
      <4>1. PICK v : v = Event("error", loop.call.id)
          OBVIOUS
      <4>2. v \in EventType /\ v.kind = "error"
          BY <1>1, <4>1 DEF Event, EventType
      <4>3. events' = Append(events, v)
          BY <3>2, <4>1 DEF CodexError, Emit
      <4> QED
          BY <4>2, <4>3 DEF IsBoundary
    <3> QED
        BY <1>12, <3>1, <3>2
  <2>3. e2 = e + 1
      BY <1>1, <1>3, <2>2, EndsOfAppend
  <2>4. w = 1 /\ c = 0
      BY <1>3, <1>5, <2>1, NoneComing
  <2>5. Going(loop, cmds, lost)
      BY <1>2, <1>6, <2>1 DEF Going
  <2> QED
      BY <1>4, <2>3, <2>4, <2>5
<1> QED
    BY <1>7, <1>8, <1>9, <1>10, <1>11, <1>12 DEF CodexStep

LEMMA BusyServer ==
    ASSUME Base, Base', BusyInv, Server
    PROVE  BusyInv'
<1>1. /\ events \in Seq(EventType) /\ loop \in LoopType /\ remote \in RemoteType
      /\ cmds \in Seq(CmdType) /\ fan \in FanType /\ loop.call \in CallType
    BY DEF Base, Typed, LoopType
<1>2. fan' = fan /\ backend' = backend /\ lost' = lost /\ cmds' = cmds /\ events' = events
    BY DEF Server, ServerOpens, ServerForgets, ServerNotes, FanSame, Constant, History
<1>3. IsCodex
  <2>1. CASE ServerOpens
      BY <2>1 DEF ServerOpens, Base, Typed, Shape, IsCodex, IsCrew
  <2> QED
      BY <2>1 DEF Server, ServerForgets, ServerNotes
<1>4. loop'.pc = loop.pc
  <2>1. CASE ServerOpens
      BY <1>1, <2>1 DEF ServerOpens, LoopType, CallType
  <2>2. ASSUME NEW x \in Notes, ServerNotes(x)
        PROVE  loop'.pc = loop.pc
    <3>1. loop' = [loop EXCEPT !.notes = Append(@, x)]
        BY <2>2 DEF ServerNotes
    <3> QED
        BY <1>1, <3>1 DEF LoopType
  <2> QED
      BY <2>1, <2>2 DEF Server, ServerForgets
<1>5. PICK n, e, c, w : /\ n = Len(fan.starts) /\ e = Ends(events) /\ w = AtWork(loop, remote)
                        /\ c = Coming(cmds, loop.pc, backend)
    OBVIOUS
<1>6. n \in Nat /\ e \in Nat /\ c \in Nat /\ w \in Nat
    BY <1>1, <1>5, CountsAreNat
<1>7. w = AtWork(loop', remote')
  <2>1. loop.pc \in {"idle", "turn", "ended"}
      BY <1>3, CodexSets
  <2> QED
      BY <1>4, <1>5, <2>1 DEF AtWork
<1>8. e = Ends(events') /\ c = Coming(cmds', loop'.pc, backend)
    BY <1>2, <1>4, <1>5
<1>9. Going(loop', cmds', lost') => Going(loop, cmds, lost) /\ e + c + w <= e + c + w
    BY <1>2, <1>4, <1>6 DEF Going
<1> QED
    BY <1>2, <1>5, <1>6, <1>7, <1>8, <1>9, BusyMove

LEMMA BusyCrew ==
    ASSUME Base, Base', BusyInv, CrewSide
    PROVE  BusyInv'
<1>1. /\ events \in Seq(EventType) /\ loop \in LoopType /\ remote \in RemoteType
      /\ cmds \in Seq(CmdType) /\ fan \in FanType /\ events' \in Seq(EventType)
      /\ loop' \in LoopType /\ remote' \in RemoteType /\ cmds' \in Seq(CmdType)
      /\ NoRef \in SomeRef /\ 0 \in 0..MaxPrompts /\ loop.posts \in Seq(Prompts)
      /\ remote.turns \in Seq(TurnIds) /\ loop.ref \in SomeRef /\ loop.text \in 0..MaxPrompts
  <2>1. /\ events \in Seq(EventType) /\ loop \in LoopType /\ remote \in RemoteType
        /\ cmds \in Seq(CmdType) /\ fan \in FanType /\ events' \in Seq(EventType)
        /\ loop' \in LoopType /\ remote' \in RemoteType /\ cmds' \in Seq(CmdType)
      BY DEF Base, Typed
  <2>2. loop.posts \in Seq(Prompts) /\ loop.ref \in SomeRef /\ loop.text \in 0..MaxPrompts
      BY <2>1 DEF LoopType
  <2>3. remote.turns \in Seq(TurnIds)
      BY <2>1 DEF RemoteType
  <2>4. NoRef \in SomeRef /\ 0 \in 0..MaxPrompts
      BY Bounds DEF SomeRef
  <2> QED
      BY <2>1, <2>2, <2>3, <2>4
<1>2. IsCrew /\ ~IsCodex
  <2>1. CASE GatewayForgets
      BY <2>1 DEF GatewayForgets, IsCrew, IsCodex
  <2> QED
      BY <2>1 DEF CrewSide, CrewStep, CrewBreaks, GatewayChunk, GatewayEnds, IsCrew, IsCodex
<1>3. fan' = fan /\ backend' = backend
    BY DEF CrewSide, CrewStep, CrewPrompt, CrewCancel, CrewStop, CrewDrops, CrewReconnects, CrewPosts,
        LatePosts, CrewBreaks, GatewayChunk, GatewayForgets, GatewayEnds, CrewSame, FanSame, Constant
<1>4. ~lost' => ~lost
    BY DEF CrewSide, CrewStep, CrewPrompt, CrewCancel, CrewStop, CrewDrops, CrewReconnects, CrewPosts,
        LatePosts, CrewBreaks, GatewayChunk, GatewayForgets, GatewayEnds
<1>5. PICK n, e, c, w, e2, c2, w2 :
          /\ n = Len(fan.starts) /\ e = Ends(events) /\ c = Coming(cmds, loop.pc, backend)
          /\ w = AtWork(loop, remote) /\ e2 = Ends(events') /\ c2 = Coming(cmds', loop'.pc, backend)
          /\ w2 = AtWork(loop', remote')
    OBVIOUS
<1>6. /\ n \in Nat /\ e \in Nat /\ c \in Nat /\ w \in Nat /\ e2 \in Nat /\ c2 \in Nat /\ w2 \in Nat
  <2>1. n \in Nat /\ e \in Nat /\ c \in Nat /\ w \in Nat
      BY <1>1, <1>5, CountsAreNat
  <2>2. e2 \in Nat /\ c2 \in Nat /\ w2 \in Nat
      BY <1>1, <1>5, CountsAreNat
  <2> QED
      BY <2>1, <2>2
<1>7. PICK p, t, p2, t2 : /\ p = Len(loop.posts) /\ t = Len(remote.turns)
                          /\ p2 = Len(loop'.posts) /\ t2 = Len(remote'.turns)
    OBVIOUS
<1>8. p \in Nat /\ t \in Nat /\ p2 \in Nat /\ t2 \in Nat
  <2>1. loop'.posts \in Seq(Prompts) /\ remote'.turns \in Seq(TurnIds)
      BY <1>1 DEF LoopType, RemoteType
  <2> QED
      BY <1>1, <1>7, <2>1, LenProperties
<1>9. /\ loop.pc \in {"up", "down", "ended"} /\ backend = "crew"
      /\ loop.pc = "up" => w = p + t
      /\ loop.pc # "up" => w = 0
      /\ loop'.pc = "up" => w2 = p2 + t2
      /\ loop'.pc # "up" => w2 = 0
  <2>1. loop.pc \in {"up", "down", "ended"} /\ backend = "crew"
      BY <1>2 DEF Base, Shape, IsCrew
  <2>2. loop'.pc \in {"up", "down", "ended"}
      BY <1>3, <2>1 DEF Base, Shape, IsCrew
  <2> QED
      BY <2>1, <2>2, <1>5, <1>7 DEF AtWork
<1>10. cmds' = cmds => c2 = c
    BY <1>5, <1>9, CrewComing
<1>11. SUFFICES ASSUME Going(loop', cmds', lost')
                PROVE  \/ Going(loop, cmds, lost) /\ e + c + w <= e2 + c2 + w2
                       \/ n <= e2 + c2 + w2
    BY <1>3, <1>5, <1>6, BusyMove
<1>12. loop'.pc # "ended" /\ ~lost'
    BY <1>11 DEF Going
<1>13. cmds' = cmds /\ loop.pc # "ended" => Going(loop, cmds, lost)
    BY <1>4, <1>11 DEF Going
<1>14. CASE CrewPrompt
  <2>1. /\ loop.pc = "up" /\ cmds # <<>> /\ cmds' = Tail(cmds) /\ Head(cmds).kind = "prompt"
        /\ events' = events /\ remote' = remote
        /\ loop' = [loop EXCEPT !.posts = Append(@, Head(cmds).id)]
      BY <1>14 DEF CrewPrompt, Takes
  <2>2. loop'.pc = "up" /\ loop'.posts = Append(loop.posts, Head(cmds).id)
      BY <1>1, <2>1 DEF LoopType
  <2>3. p2 = p + 1 /\ t2 = t /\ e2 = e
    <3>1. Head(cmds) \in CmdType /\ Head(cmds).id \in Nat
        BY <1>1, <2>1, HeadTailProperties, CmdIds
    <3>2. loop.posts \in Seq(Nat)
        BY <1>1, PromptNums
    <3>3. Len(loop'.posts) = Len(loop.posts) + 1
        BY <2>2, <3>1, <3>2, AppendProperties
    <3> QED
        BY <1>5, <1>7, <2>1, <3>3
  <2>4. c = c2 + 1
      BY <1>1, <1>5, <1>9, <2>1, ComingOfTail
  <2>5. Going(loop, cmds, lost)
      BY <1>4, <1>11, <2>1, GoingTail
  <2> QED
      BY <1>6, <1>8, <1>9, <2>1, <2>2, <2>3, <2>4, <2>5
<1>15. CASE CrewPosts
  <2>1. /\ loop.posts # <<>> /\ loop' = [loop EXCEPT !.posts = Tail(@)]
        /\ cmds' = cmds /\ events' = events
        /\ remote' = [remote EXCEPT !.turns = Append(@, Head(loop.posts))]
      BY <1>12, <1>15 DEF CrewPosts
  <2>2. /\ loop'.pc = loop.pc /\ loop'.posts = Tail(loop.posts)
        /\ remote'.turns = Append(remote.turns, Head(loop.posts))
      BY <1>1, <2>1 DEF LoopType, RemoteType
  <2>3. p = p2 + 1 /\ t2 = t + 1 /\ e2 = e
    <3>1. Head(loop.posts) \in TurnIds /\ Len(Tail(loop.posts)) = Len(loop.posts) - 1
        BY <1>1, <2>1, TurnIdsAre, HeadTailProperties
    <3>2. Len(remote'.turns) = Len(remote.turns) + 1
        BY <1>1, <2>2, <3>1, AppendProperties
    <3>3. p2 = p - 1 /\ t2 = t + 1
        BY <1>7, <2>2, <3>1, <3>2
    <3> QED
        BY <1>5, <1>8, <2>1, <3>3
  <2> QED
      BY SMTT(20), <1>6, <1>8, <1>9, <1>10, <1>12, <1>13, <2>1, <2>2, <2>3
<1>23. CASE LatePosts
  <2>1. UNCHANGED <<events, loop, cmds>>
      BY <1>23 DEF LatePosts
  <2>2. t2 = t \/ t2 = t + 1
    <3>1. remote'.turns \in {remote.turns, Append(remote.turns, OldTurn)}
        BY <1>1, <1>23 DEF LatePosts, RemoteType
    <3>2. Len(Append(remote.turns, OldTurn)) = Len(remote.turns) + 1
        BY <1>1, TurnIdsAre, AppendProperties
    <3> QED
        BY <1>7, <3>1, <3>2
  <2>3. p2 = p /\ e2 = e
      BY <1>5, <1>7, <2>1
  <2> QED
      BY <1>6, <1>8, <1>9, <1>10, <1>12, <1>13, <2>1, <2>2, <2>3
<1>16. CASE CrewCancel \/ CrewDrops
  <2>1. /\ UNCHANGED <<events, loop, remote>> /\ cmds # <<>> /\ cmds' = Tail(cmds)
        /\ loop.pc # "ended" /\ Head(cmds).kind = "cancel"
      BY <1>12, <1>16 DEF CrewCancel, CrewDrops, Takes, Dropped
  <2>2. c = c2 + 0
      BY <1>1, <1>5, <1>9, <2>1, ComingOfTail
  <2>3. e2 = e /\ w2 = w
      BY <1>5, <2>1
  <2>4. Going(loop, cmds, lost)
      BY <1>4, <1>11, <2>1, GoingTail
  <2> QED
      BY <1>6, <2>2, <2>3, <2>4
<1>17. CASE CrewStop
  <2>1. loop'.pc = "ended"
      BY <1>1, <1>17 DEF CrewStop, LoopType
  <2> QED
      BY <1>12, <2>1
<1>18. CASE CrewBreaks
  <2>1. PICK v : v = Event("error", 0)
      OBVIOUS
  <2>2. v \in EventType /\ IsBoundary(v)
      BY <1>1, <2>1 DEF Event, EventType, IsBoundary
  <2>3. events' = Append(events, v) /\ lost' = (lost \/ Len(fan.starts) > 1)
      BY <1>18, <2>1 DEF CrewBreaks, BrokenEvent, Emit
  <2>4. e2 = e + 1
      BY <1>1, <1>5, <2>2, <2>3, EndsOfAppend
  <2>5. ~(n > 1)
      BY <1>5, <1>12, <2>3
  <2> QED
      BY <1>6, <2>4, <2>5
<1>19. CASE CrewReconnects
  <2>1. loop.pc = "down" /\ cmds' = cmds /\ loop.ref \in remote.alive /\ events' = events
      BY <1>1, <1>12, <1>19 DEF CrewReconnects, LoopType
  <2> QED
      BY <1>5, <1>6, <1>9, <1>10, <1>13, <2>1
<1>20. CASE GatewayChunk
  <2>1. /\ events' = events /\ cmds' = cmds /\ remote' = remote /\ loop'.pc = loop.pc
        /\ loop'.posts = loop.posts /\ loop.pc = "up"
      BY <1>1, <1>20 DEF GatewayChunk, LoopType
  <2>2. p2 = p /\ t2 = t /\ e2 = e
      BY <1>5, <1>7, <2>1
  <2> QED
      BY <1>6, <1>8, <1>9, <1>10, <1>13, <2>1, <2>2
<1>21. CASE GatewayForgets
  <2>1. events' = events /\ loop' = loop /\ cmds' = cmds /\ lost' = (lost \/ remote.turns # <<>>)
      BY <1>21 DEF GatewayForgets
  <2>2. remote'.turns = <<>>
      BY <1>1, <1>21 DEF GatewayForgets, RemoteType
  <2>3. p2 = p /\ t2 = t /\ e2 = e /\ loop'.pc = loop.pc
      BY <1>5, <1>7, <1>12, <2>1, <2>2
  <2> QED
      BY <1>6, <1>8, <1>9, <1>10, <1>12, <1>13, <2>1, <2>3
<1>22. ASSUME NEW kind \in {"result", "error"}, GatewayEnds(kind)
       PROVE  \/ Going(loop, cmds, lost) /\ e + c + w <= e2 + c2 + w2
              \/ n <= e2 + c2 + w2
  <2>1. remote.turns # <<>> /\ remote'.turns = Tail(remote.turns) /\ cmds' = cmds
      BY <1>1, <1>22 DEF GatewayEnds, RemoteType
  <2>2. CASE loop.pc = "up"
    <3>1. PICK r \in SomeRef : r = IF kind = "result" THEN loop.ref ELSE NoRef
        BY <1>1
    <3>2. PICK x \in 0..MaxPrompts : x = IF kind = "result" THEN Foreign ELSE 0
        BY <1>1 DEF Foreign
    <3>3. PICK id : id = Head(remote.turns)
        OBVIOUS
    <3>4. id \in 0..MaxPrompts
      <4>1. id \in TurnIds
          BY <1>1, <2>1, <3>3, HeadTailProperties
      <4> QED
          BY <4>1, TurnIdsAre
    <3>5. PICK v : v = [Event(kind, id) EXCEPT !.ref = r, !.text = x]
        OBVIOUS
    <3>6. v \in EventType /\ v.kind = kind
        BY <3>4, <3>5 DEF Event, EventType
    <3>7. events' = Append(events, v)
        BY <1>22, <2>2, <3>1, <3>2, <3>3, <3>5 DEF GatewayEnds, Emit
    <3>8. loop'.pc = "up" /\ loop'.posts = loop.posts
        BY <1>1, <1>22, <2>2 DEF GatewayEnds, LoopType
    <3>9. e2 = e + 1
      <4>1. IsBoundary(v)
          BY <3>6 DEF IsBoundary
      <4> QED
          BY <1>1, <1>5, <3>6, <3>7, <4>1, EndsOfAppend
    <3>10. t = t2 + 1 /\ p2 = p
      <4>1. Len(Tail(remote.turns)) = Len(remote.turns) - 1
          BY <1>1, <2>1, HeadTailProperties
      <4>2. t2 = t - 1 /\ p2 = p
          BY <1>7, <2>1, <3>8, <4>1
      <4> QED
          BY <1>8, <4>2
    <3> QED
        BY <1>6, <1>8, <1>9, <1>10, <1>13, <2>1, <2>2, <3>8, <3>9, <3>10
  <2>3. CASE loop.pc # "up"
    <3>1. events' = events /\ loop' = loop
        BY <1>22, <2>3 DEF GatewayEnds
    <3> QED
        BY <1>5, <1>6, <1>9, <1>10, <1>12, <1>13, <2>1, <2>3, <3>1
  <2> QED
      BY <2>2, <2>3
<1> QED
    BY <1>14, <1>15, <1>16, <1>17, <1>18, <1>19, <1>20, <1>21, <1>22, <1>23 DEF CrewSide, CrewStep

LEMMA BusyStep ==
    ASSUME Base, Base', BusyInv, [Next]_vars
    PROVE  BusyInv'
<1>1. CASE Next
  <2>1. CASE TakesEvent
      BY <2>1, BaseTake, BusyTake
  <2>2. CASE Sends
    <3>1. PICK before \in {<<>>, <<Cancel>>} :
              (before = <<>> => ~fan.running) /\ Serving /\ Send(before) /\ Idle
        BY <2>2 DEF Sends
    <3> QED
        BY <3>1, BusySend
  <2>3. CASE FanSide
    <3>1. UNCHANGED <<events, loop, remote, backend, lost>>
        BY <2>3 DEF FanSide, PromptWaits, SetMode, Interrupt, Kill, Idle
    <3>2. fan \in FanType
        BY DEF Base, Typed
    <3>3. fan'.starts = fan.starts
        BY <2>3, <3>2 DEF FanSide, PromptWaits, SetMode, Interrupt, Kill, FanType
    <3>4. PICK c, d : c = Cancel /\ d = [kind |-> "stop", id |-> 0]
        OBVIOUS
    <3>5. c \in CmdType /\ c.kind # "prompt" /\ d \in CmdType /\ d.kind # "prompt"
        BY <3>4 DEF Cancel, CmdType
    <3>6. cmds' = cmds \/ cmds' = Append(cmds, c) \/ cmds' = Append(cmds, d)
        BY <2>3, <3>4 DEF FanSide, PromptWaits, SetMode, Interrupt, Kill
    <3>7. cmds' = cmds \/ (\E x \in CmdType : x.kind # "prompt" /\ cmds' = Append(cmds, x))
        BY <3>5, <3>6
    <3> QED
        BY <3>1, <3>3, <3>7, BusyInput
  <2> QED
      BY <1>1, <2>1, <2>2, <2>3, StepSorts, BusyLife, BusyCodex, BusyServer, BusyCrew
<1>2. CASE UNCHANGED vars
  <2>1. UNCHANGED <<events, loop, remote, backend, lost, cmds>> /\ fan'.starts = fan.starts
      BY <1>2 DEF vars
  <2> QED
      BY <2>1, BusyInput
<1> QED
    BY <1>1, <1>2

\* A session the fan-out holds for busy waits for something that is still to come, whatever
\* interrupts, refused prompts, stray errors and lost connections did to the counting: as
\* many boundaries, prompts on their way and turns at work are left as turns are counted.
THEOREM BusyWaits == Spec => []BusyHasCause
<1>1. Init => Base /\ BusyInv
  <2>1. ASSUME Init PROVE BusyInv
    <3>1. fan.starts = <<>>
        BY <2>1 DEF Init, FreshFan
    <3>2. Len(fan.starts) = 0
        BY <3>1
    <3>3. /\ events \in Seq(EventType) /\ loop \in LoopType /\ remote \in RemoteType
          /\ cmds \in Seq(CmdType) /\ fan \in FanType
        BY <2>1, BaseInit DEF Base, Typed
    <3>4. PICK e, c, w : /\ e = Ends(events) /\ w = AtWork(loop, remote)
                         /\ c = Coming(cmds, loop.pc, backend)
        OBVIOUS
    <3>5. e \in Nat /\ c \in Nat /\ w \in Nat
        BY <3>3, <3>4, CountsAreNat
    <3>6. 0 <= e + c + w
        BY <3>5
    <3> QED
        BY <3>2, <3>4, <3>6 DEF BusyInv, Due
  <2> QED
      BY <2>1, BaseInit
<1>2. Base /\ BusyInv /\ [Next]_vars => (Base /\ BusyInv)'
    BY BaseStep, BusyStep
<1>3. Base /\ BusyInv => BusyHasCause
    BY BusyIsHad
<1> QED
    BY <1>1, <1>2, <1>3, PTL DEF Spec
===============================================================================
