------------------------ MODULE ReplayBroadcast_proofs ------------------------
(***************************************************************************)
(* Proofs about ReplayBroadcast, for any tabs, any capacity of the channel *)
(* and the scrollback, and any number of prompts, events, commands and     *)
(* connections: every tab sees the history whole, and agrees with the      *)
(* fan-out on the queue mode and on whether a turn runs.                   *)
(*                                                                         *)
(* A message has a number, its place among all messages ever sent; the     *)
(* channel keeps those after Oldest.  ReplayInv relates what a tab has     *)
(* seen, what it still has to replay and what lies between its receiver    *)
(* and the end of the channel to the fan-out's state.  Its steps fall in   *)
(* two: the fan-out's, which leave the tabs alone and may grow the channel,*)
(* and a tab's, which leave everything but the tab (and the inputs) alone. *)
(***************************************************************************)
EXTENDS ReplayBroadcast, SequenceTheorems, FiniteSetTheorems, TLAPS

-----------------------------------------------------------------------------
(* Types *)

TabType == [conn : {"off", "replay", "asked", "live"}, todo : Seq(Event), had : BOOLEAN,
            at : Nat, seen : Nat, busy : BOOLEAN, mode : Modes, ran : BOOLEAN,
            lagged : BOOLEAN, skipped : BOOLEAN, again : BOOLEAN,
            joined : Nat, cleared : BOOLEAN, raced : BOOLEAN]
FanType == [pc : {"free", "queued", "mark", "settle", "tell"}, turn : Nat, bounds : Nat,
            running : BOOLEAN, mode : Modes, queue : Nat, window : BOOLEAN, dropped : BOOLEAN]
InputType == [kind : {"prompt", "interrupt", "mode"}, mode : Modes]

Typed ==
    /\ fan \in FanType /\ mirror \in [running : BOOLEAN, mode : Modes]
    /\ log \in Seq(Event) /\ recorded \in 0..MaxRecords
    /\ chan \in Seq(Message) /\ Len(chan) <= Capacity
    /\ sent \in Nat /\ Len(chan) <= sent
    /\ inputs \in Seq(InputType)
    /\ tabs \in [Clients -> TabType]
    /\ \A c \in Clients : tabs[c].at <= sent

-----------------------------------------------------------------------------
(* The inductive invariant *)

\* Messages by their number.
Oldest(c, s) == s - Len(c)
Kept == (Oldest(chan, sent) + 1)..sent
At(c, s, k) == c[k - Oldest(c, s)]
Msg(k) == At(chan, sent, k)

\* A message, or an input, of a kind is on its way.
InChan(kind, at) == \E k \in Kept : k > at /\ Msg(k).kind = kind
InInputs(kind) == \E i \in 1..Len(inputs) : inputs[i].kind = kind

LogIsWhole ==
    /\ Len(log) <= recorded
    /\ \A i \in 1..Len(log) : log[i].n = recorded - Len(log) + i
    /\ recorded > 0 => log # <<>> /\ (Weight(log) <= Room \/ Len(log) = 1)

ChanInOrder ==
    /\ \A k \in Kept : Msg(k).n <= recorded
    /\ \A k, l \in Kept : Msg(k).n # 0 /\ Msg(l).n # 0 /\ k < l => Msg(k).n < Msg(l).n
    /\ \A k \in Kept : Msg(k).n # 0 =>
          Msg(k).n = recorded \/ \E l \in Kept : l > k /\ Msg(l).n = Msg(k).n + 1

FanCounts ==
    /\ fan.bounds <= fan.turn
    /\ fan.running <=> fan.bounds < fan.turn \/ fan.pc = "settle"
    /\ fan.pc = "settle" => fan.bounds = fan.turn
    /\ fan.pc = "mark" => fan.running
    /\ fan.window => ~fan.running
    /\ mirror.mode = fan.mode
    /\ mirror.running => fan.running

\* The end of a turn was sent before it is settled, and after its blocks.
EndsTold ==
    /\ \A k \in Kept : Msg(k).kind = "result" => Msg(k).of <= fan.bounds
    /\ \A k \in Kept : Msg(k).kind = "block" =>
          fan.bounds < fan.turn \/ InChan("result", k)
    /\ fan.pc = "settle" => \E k \in Kept : k = sent /\ Msg(k).kind = "result"

\* The last mode told is the fan-out's, unless it is about to tell.
ModesTold ==
    \A k \in Kept : /\ Msg(k).kind = "queue_mode" /\ fan.pc # "tell"
                    /\ ~InChan("queue_mode", k)
                    => Msg(k).mode = fan.mode

\* The events a tab has seen, or has in hand to replay; its receiver is in the window.
Reach(t) == t.seen + Len(t.todo)
Tracks(t) == ~t.lagged /\ t.at >= Oldest(chan, sent)

\* What the receiver will bring goes on right behind what is in hand.
HistoryInv(t) ==
    /\ ~t.again /\ (t.skipped => t.lagged)
    /\ t.conn \in {"replay", "asked"} => ~t.lagged
    /\ t.conn \in {"live", "asked"} => t.todo = <<>>
    /\ t.seen <= recorded
    /\ t.conn # "off" =>
       /\ Reach(t) <= recorded
       /\ \A i \in 1..Len(t.todo) : t.todo[i].n = t.seen + i
       /\ \A k \in Kept : k > t.at /\ Msg(k).n # 0 => Msg(k).n > Reach(t)
       /\ Tracks(t) => \/ Reach(t) = recorded
                       \/ \E k \in Kept : k > t.at /\ Msg(k).n = Reach(t) + 1

\* A tab that is not of the fan-out's mode will be told one.
ModeAhead(t) == fan.pc = "tell" \/ InInputs("mode") \/ InChan("queue_mode", t.at)
ModeInv(t) == t.conn = "live" /\ t.had /\ Tracks(t) => t.mode = fan.mode \/ ModeAhead(t)

\* A tab that shows a turn, or is about to, will be told of its end.
EndAhead(t) ==
    \/ InChan("result", t.at) \/ InInputs("prompt")
    \/ fan.bounds < fan.turn \/ fan.window \/ fan.dropped \/ t.raced
Turning(t) == (t.conn = "live" /\ t.busy) \/ (t.conn = "asked" /\ t.ran)
BusyInv(t) == Turning(t) /\ Tracks(t) => EndAhead(t)

JoinedInv(t) ==
    /\ t.joined <= fan.turn
    /\ t.joined > 0 /\ t.conn = "asked" => t.ran
    /\ (/\ t.joined > 0 /\ t.conn = "live" /\ ~t.cleared
        /\ fan.turn = t.joined /\ fan.bounds < fan.turn) => t.busy

TabInv(t) == HistoryInv(t) /\ ModeInv(t) /\ BusyInv(t) /\ JoinedInv(t)

SessionInv == LogIsWhole /\ ChanInOrder /\ FanCounts /\ EndsTold /\ ModesTold

ReplayInv == Typed /\ SessionInv /\ \A c \in Clients : TabInv(tabs[c])

-----------------------------------------------------------------------------
(* The scrollback and the channel *)

\* A set of numbers has a least one: of the intervals up to its members, one is minimal.
LEMMA LeastMember ==
  ASSUME NEW T \in SUBSET Nat, T # {}
  PROVE  \E x \in T : \A y \in T : x <= y
<1> DEFINE F == {1..x : x \in T}
<1>1. IsWellFoundedOn(StrictSubsetOrdering(Nat), FiniteSubsetsOf(Nat))
  BY FS_StrictSubsetOrderingWellFounded
<1>2. F \subseteq FiniteSubsetsOf(Nat) /\ F # {}
  <2> SUFFICES ASSUME NEW x \in T
               PROVE  1..x \in FiniteSubsetsOf(Nat)
    OBVIOUS
  <2> QED
    BY FS_Interval, x \in Int, 1 \in Int DEF FiniteSubsetsOf
<1>3. PICK I \in F : \A J \in F : <<J, I>> \notin StrictSubsetOrdering(Nat)
  BY <1>1, <1>2, WFMin
<1>4. PICK x \in T : I = 1..x
  BY <1>3
<1>5. ASSUME NEW y \in T
      PROVE  x <= y
  <2>1. <<1..y, 1..x>> \notin StrictSubsetOrdering(Nat)
    BY <1>3, <1>4
  <2>2. ~(1..y \subseteq 1..x /\ 1..y # 1..x)
    BY <2>1 DEF StrictSubsetOrdering
  <2>3. y < x => x \in 1..x /\ x \notin 1..y
    OBVIOUS
  <2> QED
    BY <2>2, <2>3
<1> QED
  BY <1>5

\* What the eviction loop keeps: a tail with the newest event, which fits or is one event.
LEMMA FitKeepsTail ==
  ASSUME ReplayAssumption, NEW s \in Seq(Event), s # <<>>
  PROVE  /\ Fit(s) \in Seq(Event) /\ Len(Fit(s)) \in 1..Len(s)
         /\ \A i \in 1..Len(Fit(s)) : Fit(s)[i] = s[Len(s) - Len(Fit(s)) + i]
         /\ Weight(Fit(s)) <= Room \/ Len(Fit(s)) = 1
<1> DEFINE fits(k) == k = Len(s) \/ Weight(SubSeq(s, k, Len(s))) <= Room
           T == {k \in 1..Len(s) : fits(k)}
           least(k) == fits(k) /\ \A j \in 1..(k - 1) : ~fits(j)
           k0 == CHOOSE k \in 1..Len(s) : least(k)
<1>1. Len(s) \in Nat \ {0}
  BY EmptySeq, LenProperties
<1>2. T \in SUBSET Nat /\ Len(s) \in T
  BY <1>1
<1>3. PICK x \in T : \A y \in T : x <= y
  BY <1>2, LeastMember
<1>4. x \in 1..Len(s) /\ fits(x)
  BY <1>3
<1>5. \A j \in 1..(x - 1) : ~fits(j)
  <2> SUFFICES ASSUME NEW j \in 1..(x - 1), fits(j)
               PROVE  FALSE
    OBVIOUS
  <2>1. j \in T /\ j < x
    BY <1>1, <1>4
  <2> HIDE DEF T
  <2> QED
    BY <1>3, <1>4, <2>1, <1>1
<1> HIDE DEF fits
<1>6. k0 \in 1..Len(s) /\ least(k0)
  BY <1>4, <1>5
<1>7. Fit(s) = SubSeq(s, k0, Len(s))
  BY DEF Fit, fits
<1> HIDE DEF k0
<1>8. /\ SubSeq(s, k0, Len(s)) \in Seq(Event)
      /\ Len(SubSeq(s, k0, Len(s))) = Len(s) - k0 + 1
      /\ \A i \in 1..(Len(s) - k0 + 1) : SubSeq(s, k0, Len(s))[i] = s[k0 + i - 1]
  BY <1>1, <1>6, SubSeqProperties, LenProperties
<1>9. Weight(Fit(s)) <= Room \/ Len(Fit(s)) = 1
  BY <1>1, <1>6, <1>7, <1>8 DEF fits
<1> QED
  BY <1>1, <1>6, <1>7, <1>8, <1>9

\* A channel d got from c, after s sends, by sending m: the new message is last, and of
\* the others d keeps the newest.
Grew(c, s, m, d) ==
    /\ d \in Seq(Message) /\ Len(d) \in 1..Capacity /\ Len(d) <= s + 1
    /\ Oldest(c, s) <= Oldest(d, s + 1) /\ Oldest(d, s + 1) <= s
    /\ At(d, s + 1, s + 1) = m
    /\ \A k \in (Oldest(d, s + 1) + 1)..s : At(d, s + 1, k) = At(c, s, k)

LEMMA SendGrows ==
  ASSUME ReplayAssumption, NEW c \in Seq(Message), NEW s \in Nat, NEW m \in Message,
         Len(c) <= Capacity, Len(c) <= s
  PROVE  Grew(c, s, m, LastN(Append(c, m), Capacity))
<1> DEFINE d == LastN(Append(c, m), Capacity)
<1> SUFFICES Grew(c, s, m, d)
  OBVIOUS
<1> DEFINE a == Append(c, m)
<1>1. /\ a \in Seq(Message) /\ Len(a) = Len(c) + 1 /\ a[Len(c) + 1] = m
      /\ \A i \in 1..Len(c) : a[i] = c[i]
  BY AppendProperties, LenProperties
<1>2. Len(c) \in Nat /\ Capacity \in Nat /\ Capacity > 0
  BY LenProperties DEF ReplayAssumption
<1>3. d = IF Len(a) <= Capacity THEN a ELSE SubSeq(a, Len(a) - Capacity + 1, Len(a))
  BY DEF LastN
<1> HIDE DEF a, d
<1>4. CASE Len(a) <= Capacity
  <2>1. d = a
    BY <1>4, <1>3
  <2>2. d \in Seq(Message) /\ Len(d) = Len(c) + 1 /\ Len(d) \in 1..Capacity
    BY <1>1, <1>2, <1>4, <2>1
  <2>3. At(d, s + 1, s + 1) = m
    BY <1>1, <1>2, <2>1, <2>2 DEF At, Oldest
  <2>4. ASSUME NEW k \in (Oldest(d, s + 1) + 1)..s
        PROVE  At(d, s + 1, k) = At(c, s, k)
    <3> DEFINE i == k - (s - Len(c))
    <3>1. i \in 1..Len(c) /\ i = k - (s + 1 - Len(d))
      BY <1>2, <2>2 DEF Oldest
    <3>2. d[i] = c[i]
      BY <1>1, <2>1, <3>1
    <3> QED
      BY SMTT(20), <3>1, <3>2 DEF At, Oldest
  <2>5. Oldest(c, s) <= Oldest(d, s + 1) /\ Oldest(d, s + 1) <= s
    BY <1>2, <2>2 DEF Oldest
  <2> QED
    BY <1>2, <2>2, <2>3, <2>4, <2>5 DEF Grew
<1>5. CASE Len(a) > Capacity
  <2>1. Len(a) = Capacity + 1
    BY <1>1, <1>2, <1>5
  <2>2. d = SubSeq(a, 2, Capacity + 1)
    BY <1>2, <1>5, <1>3, <2>1
  <2>3. /\ d \in Seq(Message) /\ Len(d) = Capacity
        /\ \A i \in 1..Capacity : d[i] = a[i + 1]
    BY <1>1, <1>2, <2>1, <2>2, SubSeqProperties
  <2>4. Len(c) + 1 = Capacity + 1
    BY <1>1, <2>1
  <2>5. Len(c) = Capacity
    BY <1>2, <2>4
  <2>6. Len(c) = Capacity /\ s + 1 - Len(d) = s - Len(c) + 1
    <3>1. Len(d) = Len(c)
      BY <2>5, <2>3
    <3>2. s + 1 - Len(c) = s - Len(c) + 1
      BY <1>2
    <3> QED
      BY <2>5, <3>1, <3>2
  <2>7. At(d, s + 1, s + 1) = m
    BY <1>1, <1>2, <2>3, <2>6 DEF At, Oldest
  <2>8. ASSUME NEW k \in (Oldest(d, s + 1) + 1)..s
        PROVE  At(d, s + 1, k) = At(c, s, k)
    <3> DEFINE i == k - (s + 1 - Len(d))
    <3>1. i \in 1..Capacity /\ i + 1 \in 1..Len(c) /\ i + 1 = k - (s - Len(c))
      BY <1>2, <2>3, <2>6 DEF Oldest
    <3>2. d[i] = a[i + 1] /\ a[i + 1] = c[i + 1]
      BY <1>1, <2>3, <3>1
    <3> QED
      BY <3>1, <3>2 DEF At, Oldest
  <2>9. Oldest(c, s) <= Oldest(d, s + 1) /\ Oldest(d, s + 1) <= s /\ Len(d) <= s + 1
    BY <1>2, <2>3, <2>6 DEF Oldest
  <2> QED
    BY <1>2, <2>3, <2>7, <2>8, <2>9 DEF Grew
<1> QED
  BY <1>1, <1>2, <1>4, <1>5

-----------------------------------------------------------------------------
(* What a step of the fan-out tells, and what it leaves on its way *)

\* One message more, recorded or not; the channel keeps the newest of the others.
Told(m) ==
    /\ m \in Message
    /\ chan' \in Seq(Message) /\ Len(chan') \in 1..Capacity /\ Len(chan') <= sent'
    /\ sent' = sent + 1 /\ Oldest(chan, sent) <= Oldest(chan', sent') /\ Oldest(chan', sent') <= sent
    /\ At(chan', sent', sent + 1) = m
    /\ \A k \in (Oldest(chan', sent') + 1)..sent : At(chan', sent', k) = At(chan, sent, k)
    /\ \/ m.n = 0 /\ recorded' = recorded
       \/ m.n = recorded + 1 /\ recorded' = recorded + 1

LEMMA SendTells ==
  ASSUME ReplayAssumption, Typed, NEW m \in Message, Send(m),
         \/ m.n = 0 /\ recorded' = recorded
         \/ m.n = recorded + 1 /\ recorded' = recorded + 1
  PROVE  Told(m)
<1>1. /\ chan \in Seq(Message) /\ sent \in Nat /\ Len(chan) <= Capacity /\ Len(chan) <= sent
      /\ chan' = LastN(Append(chan, m), Capacity) /\ sent' = sent + 1
  BY DEF Typed, Send
<1>2. Grew(chan, sent, m, chan')
  BY <1>1, SendGrows
<1> QED
  BY <1>1, <1>2 DEF Told, Grew

\* Recording an event keeps the scrollback whole, and tells the event.
LEMMA RecordTells ==
  ASSUME ReplayAssumption, Typed, LogIsWhole,
         NEW kind \in {"prompt", "block", "result"}, NEW of \in Nat, NEW weight \in Nat,
         Record(kind, of, weight)
  PROVE  /\ log' \in Seq(Event) /\ recorded' \in 0..MaxRecords /\ LogIsWhole'
         /\ \E m \in Event : Told(m) /\ m.kind = kind /\ m.of = of
<1> DEFINE e == [n |-> recorded + 1, kind |-> kind, of |-> of, weight |-> weight]
           s == Append(log, e)
<1>1. /\ recorded' = recorded + 1 /\ recorded \in Nat /\ recorded' \in 0..MaxRecords
      /\ MaxRecords \in Nat /\ log \in Seq(Event)
      /\ log' = Fit(s) /\ Send(e)
  BY DEF Record, Typed, ReplayAssumption
<1>2. e \in Event /\ e \in Message /\ e.n = recorded + 1 /\ e.kind = kind /\ e.of = of
  BY <1>1 DEF Event, Message
<1>3. Told(e)
  BY <1>1, <1>2, SendTells
<1> HIDE DEF e
<1>4. /\ s \in Seq(Event) /\ s # <<>> /\ Len(s) = Len(log) + 1 /\ s[Len(log) + 1] = e
      /\ \A i \in 1..Len(log) : s[i] = log[i]
  BY <1>1, <1>2, AppendProperties, LenProperties, EmptySeq
<1> HIDE DEF s
<1>5. /\ log' \in Seq(Event) /\ Len(log') \in 1..Len(s)
      /\ \A i \in 1..Len(log') : log'[i] = s[Len(s) - Len(log') + i]
      /\ Weight(log') <= Room \/ Len(log') = 1
  BY <1>1, <1>4, FitKeepsTail
<1>6. LogIsWhole'
  <2>1. Len(log) \in Nat /\ Len(log) <= recorded
    BY <1>1, LenProperties DEF LogIsWhole
  <2>2. Len(log') <= recorded' /\ log' # <<>>
    BY <1>1, <1>4, <1>5, <2>1, EmptySeq
  <2>3. ASSUME NEW i \in 1..Len(log')
        PROVE  log'[i].n = recorded' - Len(log') + i
    <3> DEFINE j == Len(s) - Len(log') + i
    <3>1. log'[i] = s[j] /\ j \in 1..Len(s) /\ j = Len(log) + 1 - Len(log') + i
      BY <1>4, <1>5, <2>1
    <3> HIDE DEF j
    <3>2. Len(log') \in Nat
      BY <1>5
    <3>3. CASE j = Len(log) + 1
      <4>1. log'[i] = e
        BY <1>4, <3>1, <3>3
      <4>2. i = Len(log')
        BY <2>1, <3>2, <3>1, <3>3
      <4> QED
        BY <1>1, <1>2, <4>1, <4>2
    <3>4. CASE j # Len(log) + 1
      <4>1. j \in 1..Len(log)
        BY SMTT(20), <1>4, <2>1, <3>1, <3>4
      <4>2. s[j] = log[j] /\ log[j].n = recorded - Len(log) + j
        BY <1>4, <4>1 DEF LogIsWhole
      <4> QED
        BY <1>1, <1>5, <2>1, <3>1, <4>2
    <3> QED
      BY <3>3, <3>4
  <2> QED
    BY <1>5, <2>2, <2>3 DEF LogIsWhole
<1> QED
  BY <1>1, <1>2, <1>3, <1>5, <1>6

\* The channel's numbers are numbers.
LEMMA Numbers ==
  ASSUME Typed
  PROVE  /\ sent \in Nat /\ Oldest(chan, sent) \in Nat /\ Oldest(chan, sent) <= sent /\ Len(chan) \in Nat
         /\ \A k \in Kept : k \in Nat /\ k > Oldest(chan, sent) /\ k <= sent /\ Msg(k) \in Message
<1>1. chan \in Seq(Message) /\ sent \in Nat /\ Len(chan) <= sent /\ Len(chan) \in Nat
  BY LenProperties DEF Typed
<1>2. Oldest(chan, sent) \in Nat /\ Oldest(chan, sent) <= sent
  BY <1>1 DEF Oldest
<1>3. ASSUME NEW k \in Kept
      PROVE  k \in Nat /\ k > Oldest(chan, sent) /\ k <= sent /\ Msg(k) \in Message
  <2>1. k \in Nat /\ k > Oldest(chan, sent) /\ k <= sent
    BY <1>1, <1>2, <1>3 DEF Kept
  <2>2. k - (sent - Len(chan)) \in 1..Len(chan)
    BY <1>1, <2>1 DEF Oldest
  <2>3. Msg(k) \in Message
    BY <1>1, <2>2, ElementOfSeq DEF Msg, At, Oldest
  <2> QED
    BY <2>1, <2>3
<1> QED
  BY <1>1, <1>2, <1>3

\* What is kept after a message was sent: that message, and what was kept.
LEMMA KeptAfter ==
  ASSUME Typed, NEW m, Told(m), NEW last, last = sent + 1
  PROVE  /\ Kept' \subseteq Kept \cup {last} /\ last \in Kept' /\ last \notin Kept
         /\ Msg(last)' = m
         /\ \A k \in Kept' : k # last => Msg(k)' = Msg(k)
         /\ \A k \in Kept : k > Oldest(chan', sent') => k \in Kept'
<1>1. sent \in Nat /\ Oldest(chan, sent) \in Nat /\ Oldest(chan, sent) <= sent
  BY Numbers
<1>2. /\ Oldest(chan', sent') \in Nat /\ Oldest(chan, sent) <= Oldest(chan', sent') /\ Oldest(chan', sent') <= sent /\ sent' = sent + 1
      /\ At(chan', sent', sent + 1) = m
      /\ \A k \in (Oldest(chan', sent') + 1)..sent : At(chan', sent', k) = At(chan, sent, k)
  <2>1. Len(chan') \in Nat /\ sent' \in Nat
    BY <1>1, LenProperties DEF Told
  <2>2. Oldest(chan', sent') \in Nat
    BY <2>1 DEF Told, Oldest
  <2> QED
    BY <2>2 DEF Told
<1>3. Kept' = (Oldest(chan', sent') + 1)..(sent + 1) /\ Kept = (Oldest(chan, sent) + 1)..sent
  BY <1>2 DEF Kept
<1>4. \A k : Msg(k)' = At(chan', sent', k) /\ Msg(k) = At(chan, sent, k)
  BY DEF Msg
<1>5. Oldest(chan', sent') \in Nat /\ Oldest(chan, sent) <= Oldest(chan', sent') /\ Oldest(chan', sent') <= sent
  BY <1>2
<1>6. Kept' \subseteq Kept \cup {last} /\ last \in Kept' /\ last \notin Kept
  <2>1. last \in Kept'
    BY <1>1, <1>5, <1>3
  <2>2. last \notin Kept
    BY <1>1, <1>5, <1>3
  <2>3. Kept' \subseteq Kept \cup {last}
    BY <1>1, <1>5, <1>3
  <2> QED
    BY <2>1, <2>2, <2>3
<1>7. Msg(last)' = m
  BY <1>2, <1>4
<1>8. ASSUME NEW k \in Kept', k # last
      PROVE  Msg(k)' = Msg(k)
  <2>1. k \in (Oldest(chan', sent') + 1)..sent
    BY <1>1, <1>5, <1>3, <1>8
  <2> QED
    BY <1>2, <1>4, <2>1
<1>9. \A k \in Kept : k > Oldest(chan', sent') => k \in Kept'
  BY <1>1, <1>5, <1>3
<1> QED
  BY <1>6, <1>7, <1>8, <1>9

\* What is on its way stays so until it is taken or falls out of the window.
LEMMA AheadAfter ==
  ASSUME Typed, NEW m, Told(m), NEW kind, NEW at \in Nat, at >= Oldest(chan', sent')
  PROVE  /\ InChan(kind, at) => InChan(kind, at)'
         /\ at <= sent /\ m.kind = kind => InChan(kind, at)'
         /\ InChan(kind, at)' => InChan(kind, at) \/ m.kind = kind
<1>1. PICK last : last = sent + 1
  OBVIOUS
<1>2. /\ Kept' \subseteq Kept \cup {last} /\ last \in Kept' /\ last \notin Kept
      /\ Msg(last)' = m
      /\ \A k \in Kept' : k # last => Msg(k)' = Msg(k)
      /\ \A k \in Kept : k > Oldest(chan', sent') => k \in Kept'
  BY <1>1, KeptAfter
<1>3. sent \in Nat /\ Oldest(chan', sent') \in Int /\ \A k \in Kept : k \in Nat
  BY Numbers, LenProperties DEF Told, Oldest
<1>4. InChan(kind, at) => InChan(kind, at)'
  <2> SUFFICES ASSUME InChan(kind, at)
               PROVE  InChan(kind, at)'
    OBVIOUS
  <2>1. PICK k \in Kept : k > at /\ Msg(k).kind = kind
    BY DEF InChan
  <2>2. k \in Kept' /\ Msg(k)' = Msg(k)
    BY <1>2, <1>3, <2>1
  <2> QED
    BY <2>1, <2>2 DEF InChan
<1>5. at <= sent /\ m.kind = kind => InChan(kind, at)'
  BY <1>1, <1>2, <1>3 DEF InChan
<1>6. InChan(kind, at)' => InChan(kind, at) \/ m.kind = kind
  BY <1>2 DEF InChan
<1> QED
  BY <1>4, <1>5, <1>6

\* Nothing is sent: nothing changes on the way.
LEMMA NothingTold ==
  ASSUME UNCHANGED <<chan, sent>>
  PROVE  /\ Kept' = Kept /\ Oldest(chan', sent') = Oldest(chan, sent)
         /\ \A k : Msg(k)' = Msg(k)
         /\ \A kind, at : InChan(kind, at)' <=> InChan(kind, at)
BY DEF Kept, Oldest, Msg, InChan

\* An input is taken from the front.
LEMMA InputsAfter ==
  ASSUME Typed, NEW kind, Take(kind)
  PROVE  /\ inputs' \in Seq(InputType) /\ Head(inputs) \in InputType
         /\ \A other : other # kind /\ InInputs(other) => InInputs(other)'
<1>1. /\ inputs \in Seq(InputType) /\ inputs # <<>> /\ Head(inputs).kind = kind
      /\ inputs' = Tail(inputs)
  BY DEF Typed, Take
<1>2. /\ Len(inputs) \in Nat /\ Head(inputs) = inputs[1] /\ Head(inputs) \in InputType
      /\ inputs' \in Seq(InputType) /\ Len(inputs') = Len(inputs) - 1
      /\ \A i \in 1..Len(inputs') : inputs'[i] = inputs[i + 1]
  BY <1>1, HeadTailProperties, LenProperties
<1>3. ASSUME NEW other, other # kind, InInputs(other)
      PROVE  InInputs(other)'
  <2>1. PICK i \in 1..Len(inputs) : inputs[i].kind = other
    BY <1>3 DEF InInputs
  <2>2. i # 1
    BY <1>1, <1>2, <1>3, <2>1
  <2>3. i - 1 \in 1..Len(inputs') /\ inputs'[i - 1] = inputs[i]
    BY <1>2, <2>1, <2>2
  <2> QED
    BY <2>1, <2>3 DEF InInputs
<1> QED
  BY <1>2, <1>3

-----------------------------------------------------------------------------
(* The fan-out's steps keep the types and the scrollback *)

Silent == UNCHANGED <<chan, sent, recorded, log>>

\* What each step tells.
LEMMA WhatIsTold ==
  ASSUME ReplayAssumption, Typed, LogIsWhole
  PROVE  /\ TakePrompt => \E m \in Event : Told(m) /\ m.kind = "prompt"
         /\ TellQueued => \E m \in Message : Told(m) /\ m.n = 0 /\ m.kind = "queued"
         /\ Block => \E m \in Event : Told(m) /\ m.kind = "block"
         /\ Boundary => \E m \in Event : /\ Told(m) /\ m.kind = "result"
                                         /\ m.of = fan.bounds + 1
         /\ TellMode => \E m \in Message : /\ Told(m) /\ m.n = 0 /\ m.kind = "queue_mode"
                                           /\ m.mode = fan.mode
<1>1. fan.turn \in Nat /\ fan.bounds \in Nat /\ fan.mode \in Modes /\ Room \in Nat
  BY DEF Typed, FanType, ReplayAssumption
<1>2. TakePrompt => \E m \in Event : Told(m) /\ m.kind = "prompt"
  <2>1. TakePrompt => Record("prompt", fan.turn + 1, 1)
    BY DEF TakePrompt
  <2>2. fan.turn + 1 \in Nat /\ 1 \in Nat
    BY <1>1
  <2> QED
    BY <2>1, <2>2, RecordTells
<1>3. TellQueued => \E m \in Message : Told(m) /\ m.n = 0 /\ m.kind = "queued"
  <2> SUFFICES ASSUME TellQueued
               PROVE  \E m \in Message : Told(m) /\ m.n = 0 /\ m.kind = "queued"
    OBVIOUS
  <2> DEFINE m == Signal("queued", fan.mode)
  <2>1. m \in Message /\ m.n = 0 /\ m.kind = "queued"
    BY <1>1 DEF Signal, Message
  <2>2. Send(m) /\ recorded' = recorded
    BY DEF TellQueued
  <2> HIDE DEF m
  <2> QED
    BY <2>1, <2>2, SendTells
<1>4. Block => \E m \in Event : Told(m) /\ m.kind = "block"
  <2> SUFFICES ASSUME Block
               PROVE  \E m \in Event : Told(m) /\ m.kind = "block"
    OBVIOUS
  <2>1. PICK w \in {1, Room + 1} : Record("block", fan.bounds + 1, w)
    BY DEF Block
  <2>2. w \in Nat /\ fan.bounds + 1 \in Nat
    BY <1>1
  <2> QED
    BY <2>1, <2>2, RecordTells
<1>5. Boundary => \E m \in Event : Told(m) /\ m.kind = "result" /\ m.of = fan.bounds + 1
  <2>1. Boundary => Record("result", fan.bounds + 1, 1)
    BY DEF Boundary
  <2>2. fan.bounds + 1 \in Nat /\ 1 \in Nat
    BY <1>1
  <2> QED
    BY <2>1, <2>2, RecordTells
<1>6. TellMode => \E m \in Message : /\ Told(m) /\ m.n = 0 /\ m.kind = "queue_mode"
                                     /\ m.mode = fan.mode
  <2> SUFFICES ASSUME TellMode
               PROVE  \E m \in Message : /\ Told(m) /\ m.n = 0 /\ m.kind = "queue_mode"
                                         /\ m.mode = fan.mode
    OBVIOUS
  <2> DEFINE m == Signal("queue_mode", fan.mode)
  <2>1. m \in Message /\ m.n = 0 /\ m.kind = "queue_mode" /\ m.mode = fan.mode
    BY <1>1 DEF Signal, Message
  <2>2. Send(m) /\ recorded' = recorded
    BY DEF TellMode
  <2> HIDE DEF m
  <2> QED
    BY <2>1, <2>2, SendTells
<1> QED
  BY <1>2, <1>3, <1>4, <1>5, <1>6

\* The others tell nothing.
LEMMA WhatIsSilent ==
  /\ MarkRunning \/ Settle \/ Flush \/ TakeInterrupt \/ TakeMode => Silent
  /\ TellQueued \/ TellMode => UNCHANGED <<recorded, log>>
BY DEF MarkRunning, Settle, Flush, TakeInterrupt, TakeMode, TellQueued, TellMode, Silent

LEMMA FanStepsTell ==
  ASSUME ReplayAssumption, Typed, LogIsWhole, FanOut
  PROVE  Silent \/ \E m \in Message : Told(m)
<1>1. Event \subseteq Message
  BY DEF Message
<1> QED
  BY <1>1, WhatIsTold, WhatIsSilent DEF FanOut

\* What the fan-out is after a step.
LEMMA FanTyped ==
  ASSUME ReplayAssumption, Typed, FanOut
  PROVE  /\ fan' \in FanType /\ mirror' \in [running : BOOLEAN, mode : Modes]
         /\ inputs' \in Seq(InputType) /\ tabs' = tabs
<1>1. /\ fan \in FanType /\ mirror \in [running : BOOLEAN, mode : Modes]
      /\ inputs \in Seq(InputType) /\ fan.bounds \in Nat /\ fan.turn \in Nat
  BY DEF Typed, FanType
<1>2. PICK tn, bn, qn \in Nat : tn = fan.turn + 1 /\ bn = fan.bounds + 1 /\ qn = fan.queue + 1
  BY <1>1 DEF FanType
<1> DEFINE Rest == /\ mirror' \in [running : BOOLEAN, mode : Modes]
                   /\ inputs' \in Seq(InputType) /\ tabs' = tabs
<1>3. CASE TakePrompt
  <2>1. inputs' \in Seq(InputType)
    BY <1>3, InputsAfter DEF TakePrompt
  <2>2. fan' \in FanType
    <3>1. PICK q \in Nat, pc \in {"queued", "mark"} :
             \/ fan' = [fan EXCEPT !.queue = q, !.pc = pc]
             \/ fan' = [fan EXCEPT !.turn = tn, !.running = TRUE, !.pc = pc,
                                   !.queue = q]
      <4>1. fan.queue \in Nat /\ 0 \in Nat
        BY <1>1 DEF FanType
      <4>2. \/ fan' = [fan EXCEPT !.queue = qn, !.pc = "queued"]
            \/ fan' = [fan EXCEPT !.turn = tn, !.running = TRUE, !.pc = "mark", !.queue = 0]
            \/ fan' = [fan EXCEPT !.turn = tn, !.running = TRUE, !.pc = "mark",
                                  !.queue = fan.queue]
        BY <1>3, <1>2 DEF TakePrompt
      <4> QED
        BY <4>1, <4>2
    <3>2. CASE fan' = [fan EXCEPT !.queue = q, !.pc = pc]
      BY <1>1, <3>2 DEF FanType
    <3>3. CASE fan' = [fan EXCEPT !.turn = tn, !.running = TRUE, !.pc = pc,
                                  !.queue = q]
      BY <1>1, <3>3 DEF FanType
    <3> QED
      BY <3>1, <3>2, <3>3
  <2>3. Rest
    BY <1>1, <1>3, <2>1 DEF TakePrompt
  <2> QED
    BY <2>2, <2>3
<1>4. CASE TellQueued
  <2>1. fan' \in FanType
    BY <1>1, <1>4 DEF TellQueued, FanType
  <2>2. Rest
    BY <1>1, <1>4 DEF TellQueued
  <2> QED
    BY <2>1, <2>2
<1>5. CASE MarkRunning
  <2>1. fan' \in FanType
    BY <1>1, <1>5 DEF MarkRunning, FanType
  <2>2. Rest
    BY <1>1, <1>5 DEF MarkRunning
  <2> QED
    BY <2>1, <2>2
<1>6. CASE Block
  <2>1. fan' \in FanType
    BY <1>1, <1>6 DEF Block, FanType
  <2>2. Rest
    BY <1>1, <1>6 DEF Block
  <2> QED
    BY <2>1, <2>2
<1>7. CASE Boundary
  <2>1. fan' \in FanType
    <3>1. PICK pc \in {"settle", "free"} :
             fan' = [fan EXCEPT !.bounds = bn, !.dropped = FALSE, !.pc = pc]
      BY <1>7, <1>2 DEF Boundary
    <3> QED
      BY <1>1, <3>1 DEF FanType
  <2>2. Rest
    BY <1>1, <1>7 DEF Boundary
  <2> QED
    BY <2>1, <2>2
<1>8. CASE Settle
  <2>1. fan' \in FanType
    <3>1. PICK win \in BOOLEAN :
             fan' = [fan EXCEPT !.running = FALSE, !.window = win, !.pc = "free"]
      <4>1. (fan.queue > 0) \in BOOLEAN
        OBVIOUS
      <4>2. fan' = [fan EXCEPT !.running = FALSE, !.window = (fan.queue > 0), !.pc = "free"]
        BY <1>8 DEF Settle
      <4> QED
        BY <4>1, <4>2
    <3> QED
      BY <1>1, <3>1 DEF FanType
  <2>2. Rest
    BY <1>1, <1>8 DEF Settle
  <2> QED
    BY <2>1, <2>2
<1>9. CASE Flush
  <2>1. fan' \in FanType
    <3>1. fan' = [fan EXCEPT !.window = FALSE, !.queue = 0, !.turn = tn,
                             !.running = TRUE]
      BY <1>9, <1>2 DEF Flush
    <3> QED
      BY <1>1, <3>1 DEF FanType
  <2>2. Rest
    BY <1>1, <1>9 DEF Flush
  <2> QED
    BY <2>1, <2>2
<1>10. CASE TakeInterrupt
  <2>1. inputs' \in Seq(InputType)
    BY <1>10, InputsAfter DEF TakeInterrupt
  <2>2. fan' \in FanType
    BY <1>1, <1>10, <2>1 DEF TakeInterrupt, FanType
  <2>3. Rest
    BY <1>1, <1>10, <2>1 DEF TakeInterrupt
  <2> QED
    BY <2>2, <2>3
<1>11. CASE TakeMode
  <2>1. inputs' \in Seq(InputType) /\ Head(inputs) \in InputType
    BY <1>11, InputsAfter DEF TakeMode
  <2>2. Effective(Head(inputs).mode) \in Modes
    BY <2>1 DEF Effective, Modes, InputType
  <2>3. fan' \in FanType
    BY <1>1, <1>11, <2>1, <2>2 DEF TakeMode, FanType
  <2>4. Rest
    BY <1>1, <1>11, <2>1, <2>2 DEF TakeMode
  <2> QED
    BY <2>3, <2>4
<1>12. CASE TellMode
  <2>1. fan' \in FanType
    BY <1>1, <1>12 DEF TellMode, FanType
  <2>2. Rest
    BY <1>1, <1>12 DEF TellMode
  <2> QED
    BY <2>1, <2>2
<1> QED
  BY <1>3, <1>4, <1>5, <1>6, <1>7, <1>8, <1>9, <1>10, <1>11, <1>12 DEF FanOut

LEMMA FanKeepsTypes ==
  ASSUME ReplayAssumption, Typed, LogIsWhole, FanOut
  PROVE  Typed' /\ LogIsWhole'
<1>1. /\ fan' \in FanType /\ mirror' \in [running : BOOLEAN, mode : Modes]
      /\ inputs' \in Seq(InputType) /\ tabs' = tabs
  BY FanTyped
<1>2. log' \in Seq(Event) /\ recorded' \in 0..MaxRecords /\ LogIsWhole'
  <2>1. CASE UNCHANGED <<recorded, log>>
    BY <2>1 DEF Typed, LogIsWhole
  <2>2. CASE TakePrompt \/ Block \/ Boundary
    <3>1. \E k \in {"prompt", "block", "result"}, of \in Nat, w \in Nat : Record(k, of, w)
      <4>1. fan.turn + 1 \in Nat /\ fan.bounds + 1 \in Nat /\ 1 \in Nat /\ Room + 1 \in Nat
        BY DEF Typed, FanType, ReplayAssumption
      <4>2. \/ Record("prompt", fan.turn + 1, 1) \/ Record("result", fan.bounds + 1, 1)
            \/ \E w \in {1, Room + 1} : Record("block", fan.bounds + 1, w)
        BY <2>2 DEF TakePrompt, Block, Boundary
      <4> QED
        BY <4>1, <4>2
    <3> QED
      BY <3>1, RecordTells
  <2> QED
    BY <2>1, <2>2, WhatIsSilent DEF FanOut, Silent
<1>3. /\ chan' \in Seq(Message) /\ Len(chan') <= Capacity /\ sent' \in Nat /\ Len(chan') <= sent'
      /\ sent <= sent'
  <2>1. chan \in Seq(Message) /\ Len(chan) <= Capacity /\ sent \in Nat /\ Len(chan) <= sent
    BY DEF Typed
  <2>2. CASE Silent
    BY <2>1, <2>2 DEF Silent
  <2>3. ASSUME NEW m \in Message, Told(m)
        PROVE  /\ chan' \in Seq(Message) /\ Len(chan') <= Capacity /\ sent' \in Nat
               /\ Len(chan') <= sent' /\ sent <= sent'
    BY <2>1, <2>3 DEF Told, ReplayAssumption
  <2> QED
    BY <2>2, <2>3, FanStepsTell
<1>4. \A c \in Clients : tabs'[c].at <= sent'
  BY <1>1, <1>3 DEF Typed, TabType
<1> QED
  BY <1>1, <1>2, <1>3, <1>4 DEF Typed

-----------------------------------------------------------------------------
(* The fan-out's steps keep the session's part of the invariant *)

\* A step that says nothing ends no turn; what it makes of the mode is still to be told.
SilentEffect ==
    /\ Silent
    /\ fan'.bounds = fan.bounds /\ fan.turn <= fan'.turn
    /\ fan'.pc # "settle" /\ fan.pc # "tell"
    /\ fan'.mode = fan.mode \/ fan'.pc = "tell"

\* A step that tells an end has counted it; one that tells the mode tells its own.
ToldEffect(m) ==
    /\ m \in Message /\ Told(m)
    /\ \/ /\ m.kind \in {"prompt", "queued", "block"}
          /\ m.kind = "block" => fan.bounds < fan.turn
          /\ fan'.bounds = fan.bounds /\ fan.turn <= fan'.turn /\ fan'.mode = fan.mode
          /\ fan.pc # "tell" /\ fan'.pc \notin {"settle", "tell"}
       \/ /\ m.kind = "result" /\ m.of = fan'.bounds
          /\ fan'.bounds = fan.bounds + 1 /\ fan'.turn = fan.turn /\ fan'.mode = fan.mode
          /\ fan.pc # "tell" /\ fan'.pc # "tell"
       \/ /\ m.kind = "queue_mode" /\ m.mode = fan'.mode
          /\ fan'.bounds = fan.bounds /\ fan'.turn = fan.turn /\ fan'.mode = fan.mode
          /\ fan'.pc = "free"

LEMMA FanEffect ==
  ASSUME ReplayAssumption, Typed, LogIsWhole, FanOut
  PROVE  SilentEffect \/ \E m : ToldEffect(m)
<1>1. /\ fan \in FanType /\ fan.bounds \in Nat /\ fan.turn \in Nat /\ Event \subseteq Message
  BY DEF Typed, FanType, Message
<1>2. CASE TakePrompt
  <2>1. PICK m \in Event : Told(m) /\ m.kind = "prompt"
    BY <1>2, WhatIsTold
  <2>2. /\ fan'.bounds = fan.bounds /\ fan.turn <= fan'.turn /\ fan'.mode = fan.mode
        /\ fan.pc # "tell" /\ fan'.pc \notin {"settle", "tell"}
    BY <1>1, <1>2 DEF TakePrompt, Take, FanType
  <2>3. ToldEffect(m)
    BY <1>1, <2>1, <2>2 DEF ToldEffect
  <2> QED
    BY <2>3
<1>3. CASE TellQueued
  <2>1. PICK m \in Message : Told(m) /\ m.n = 0 /\ m.kind = "queued"
    BY <1>3, WhatIsTold
  <2>2. /\ fan'.bounds = fan.bounds /\ fan.turn <= fan'.turn /\ fan'.mode = fan.mode
        /\ fan.pc # "tell" /\ fan'.pc \notin {"settle", "tell"}
    BY <1>1, <1>3 DEF TellQueued, FanType
  <2>3. ToldEffect(m)
    BY <1>1, <2>1, <2>2 DEF ToldEffect
  <2> QED
    BY <2>3
<1>5. CASE Block
  <2>1. PICK m \in Event : Told(m) /\ m.kind = "block"
    BY <1>5, WhatIsTold
  <2>2. /\ fan'.bounds = fan.bounds /\ fan.turn <= fan'.turn /\ fan'.mode = fan.mode
        /\ fan.pc # "tell" /\ fan'.pc \notin {"settle", "tell"} /\ fan.bounds < fan.turn
    BY <1>1, <1>5 DEF Block, FanType
  <2>3. ToldEffect(m)
    BY <1>1, <2>1, <2>2 DEF ToldEffect
  <2> QED
    BY <2>3
<1>6. CASE Boundary
  <2>1. PICK m \in Event : Told(m) /\ m.kind = "result" /\ m.of = fan.bounds + 1
    BY <1>6, WhatIsTold
  <2>2. /\ fan'.bounds = fan.bounds + 1 /\ fan'.turn = fan.turn /\ fan'.mode = fan.mode
        /\ fan.pc # "tell" /\ fan'.pc # "tell"
    BY <1>1, <1>6 DEF Boundary, FanType
  <2>3. ToldEffect(m)
    BY <1>1, <2>1, <2>2 DEF ToldEffect
  <2> QED
    BY <2>3
<1>11. CASE TellMode
  <2>1. PICK m \in Message : /\ Told(m) /\ m.n = 0 /\ m.kind = "queue_mode"
                             /\ m.mode = fan.mode
    BY <1>11, WhatIsTold
  <2>2. /\ fan'.bounds = fan.bounds /\ fan'.turn = fan.turn /\ fan'.mode = fan.mode
        /\ fan'.pc = "free"
    BY <1>1, <1>11 DEF TellMode, FanType
  <2>3. ToldEffect(m)
    BY <1>1, <2>1, <2>2 DEF ToldEffect
  <2> QED
    BY <2>3
<1>12. CASE MarkRunning \/ Settle \/ Flush \/ TakeInterrupt \/ TakeMode
  <2>1. Silent
    BY <1>12, WhatIsSilent
  <2>2. /\ fan'.bounds = fan.bounds /\ fan.turn <= fan'.turn
        /\ fan'.pc # "settle" /\ fan.pc # "tell"
        /\ fan'.mode = fan.mode \/ fan'.pc = "tell"
    <3>1. CASE MarkRunning
      BY <1>1, <3>1 DEF MarkRunning, FanType
    <3>2. CASE Settle
      BY <1>1, <3>2 DEF Settle, FanType
    <3>3. CASE Flush
      BY <1>1, <3>3 DEF Flush, FanType
    <3>4. CASE TakeInterrupt
      BY <1>1, <3>4 DEF TakeInterrupt, Take, FanType
    <3>5. CASE TakeMode
      BY <1>1, <3>5 DEF TakeMode, Take, FanType
    <3> QED
      BY <1>12, <3>1, <3>2, <3>3, <3>4, <3>5
  <2> QED
    BY <2>1, <2>2 DEF SilentEffect
<1> QED
  BY <1>2, <1>3, <1>5, <1>6, <1>11, <1>12 DEF FanOut

LEMMA FanKeepsCounts ==
  ASSUME Typed, FanCounts, FanOut
  PROVE  FanCounts'
<1>1. /\ fan \in FanType /\ fan.bounds \in Nat /\ fan.turn \in Nat
      /\ mirror \in [running : BOOLEAN, mode : Modes]
  BY DEF Typed, FanType
<1>2. CASE TakePrompt
  BY <1>1, <1>2 DEF TakePrompt, Take, FanCounts, FanType
<1>3. CASE TellQueued
  BY <1>1, <1>3 DEF TellQueued, FanCounts, FanType
<1>4. CASE MarkRunning
  <2>1. fan'.running = fan.running /\ fan'.bounds = fan.bounds /\ fan'.turn = fan.turn
    BY <1>1, <1>4 DEF MarkRunning, FanType
  <2> QED
    BY <1>1, <1>4, <2>1 DEF MarkRunning, FanCounts, FanType
<1>5. CASE Block
  BY <1>1, <1>5 DEF Block, FanCounts
<1>6. CASE Boundary
  BY <1>1, <1>6 DEF Boundary, FanCounts, FanType
<1>7. CASE Settle
  BY <1>1, <1>7 DEF Settle, FanCounts, FanType
<1>8. CASE Flush
  BY <1>1, <1>8 DEF Flush, FanCounts, FanType
<1>9. CASE TakeInterrupt
  BY <1>1, <1>9 DEF TakeInterrupt, Take, FanCounts, FanType
<1>10. CASE TakeMode
  BY <1>1, <1>10 DEF TakeMode, Take, FanCounts, FanType
<1>11. CASE TellMode
  BY <1>1, <1>11 DEF TellMode, FanCounts, FanType
<1> QED
  BY <1>2, <1>3, <1>4, <1>5, <1>6, <1>7, <1>8, <1>9, <1>10, <1>11 DEF FanOut

LEMMA FanKeepsOrder ==
  ASSUME ReplayAssumption, Typed, LogIsWhole, ChanInOrder, FanOut
  PROVE  ChanInOrder'
<1>1. CASE Silent
  BY <1>1, NothingTold DEF Silent, ChanInOrder
<1>2. ASSUME NEW m \in Message, Told(m)
      PROVE  ChanInOrder'
  <2>1. PICK last : last = sent + 1
    OBVIOUS
  <2>2. /\ Kept' \subseteq Kept \cup {last} /\ last \in Kept' /\ last \notin Kept
        /\ Msg(last)' = m
        /\ \A k \in Kept' : k # last => Msg(k)' = Msg(k)
        /\ \A k \in Kept : k > Oldest(chan', sent') => k \in Kept'
    BY <1>2, <2>1, KeptAfter
  <2>3. \A k \in Kept : k \in Nat /\ k < last /\ Msg(k).n \in Nat
    BY <2>1, Numbers DEF Message, Event
  <2>4. /\ recorded \in Nat
        /\ \/ m.n = 0 /\ recorded' = recorded
           \/ m.n = recorded + 1 /\ recorded' = recorded + 1
    BY <1>2 DEF Told, Typed
  <2>5. \A k \in Kept' : Msg(k)'.n <= recorded'
    BY <2>2, <2>3, <2>4 DEF ChanInOrder
  <2>6. ASSUME NEW k \in Kept', NEW l \in Kept', Msg(k)'.n # 0, Msg(l)'.n # 0, k < l
        PROVE  Msg(k)'.n < Msg(l)'.n
    <3>1. sent \in Nat /\ k \in Kept \cup {last} /\ l \in Kept \cup {last}
      BY <2>2, <2>6, Numbers
    <3>2. k # last
      BY <2>1, <2>3, <2>6, <3>1
    <3>3. k # last /\ k \in Kept /\ Msg(k)' = Msg(k) /\ Msg(k).n <= recorded
      BY <2>2, <2>6, <3>1, <3>2 DEF ChanInOrder
    <3>4. CASE l = last
      BY <2>2, <2>3, <2>4, <2>6, <3>3, <3>4
    <3>5. CASE l # last
      BY <2>2, <2>6, <3>3, <3>5 DEF ChanInOrder
    <3> QED
      BY <3>4, <3>5
  <2>7. ASSUME NEW k \in Kept', Msg(k)'.n # 0, Msg(k)'.n # recorded'
        PROVE  \E l \in Kept' : l > k /\ Msg(l)'.n = Msg(k)'.n + 1
    <3>1. k # last /\ k \in Kept /\ Msg(k)' = Msg(k) /\ k < last /\ k \in Nat /\ last \in Nat
      BY <2>1, <2>2, <2>3, <2>4, <2>7, Numbers
    <3>2. CASE Msg(k).n = recorded
      BY <2>2, <2>4, <2>7, <3>1, <3>2
    <3>3. CASE Msg(k).n # recorded
      <4>1. PICK l \in Kept : l > k /\ Msg(l).n = Msg(k).n + 1
        BY <2>7, <3>1, <3>3 DEF ChanInOrder
      <4>2. k > Oldest(chan', sent')
        <5>1. Kept' = (Oldest(chan', sent') + 1)..sent' /\ Oldest(chan', sent') \in Int
          BY <1>2, LenProperties, Numbers DEF Kept, Told, Oldest
        <5>2. k \in (Oldest(chan', sent') + 1)..sent'
          BY <2>7, <5>1
        <5> QED
          BY <3>1, <5>1, <5>2
      <4>3. l > Oldest(chan', sent')
        BY <1>2, <2>3, <3>1, <4>1, <4>2, LenProperties, Numbers DEF Told, Oldest
      <4> QED
        BY <2>2, <2>3, <3>1, <4>1, <4>3
    <3> QED
      BY <3>2, <3>3
  <2> QED
    BY <2>5, <2>6, <2>7 DEF ChanInOrder
<1> QED
  BY <1>1, <1>2, FanStepsTell

LEMMA FanKeepsEnds ==
  ASSUME ReplayAssumption, Typed, LogIsWhole, EndsTold, FanOut
  PROVE  EndsTold'
<1>1. fan.bounds \in Nat /\ fan.turn \in Nat /\ fan'.bounds \in Nat /\ fan'.turn \in Nat
  BY FanTyped DEF Typed, FanType
<1>2. \A k \in Kept : Msg(k).kind = "result" => Msg(k).of \in Nat
  BY Numbers DEF Message, Event
<1>3. CASE SilentEffect
  <2>1. /\ Kept' = Kept /\ \A k : Msg(k)' = Msg(k)
        /\ \A k : InChan("result", k)' <=> InChan("result", k)
    BY <1>3, NothingTold DEF SilentEffect, Silent
  <2>2. fan'.bounds = fan.bounds /\ fan.turn <= fan'.turn /\ fan'.pc # "settle"
    BY <1>3 DEF SilentEffect
  <2>3. ASSUME NEW k \in Kept
        PROVE  /\ Msg(k).kind = "result" => Msg(k).of <= fan'.bounds
               /\ Msg(k).kind = "block" => fan'.bounds < fan'.turn \/ InChan("result", k)
    BY <1>1, <1>2, <2>2 DEF EndsTold
  <2> QED
    BY <2>1, <2>2, <2>3 DEF EndsTold
<1>4. ASSUME NEW m, ToldEffect(m)
      PROVE  EndsTold'
  <2>1. PICK last : last = sent + 1
    OBVIOUS
  <2>2. /\ Kept' \subseteq Kept \cup {last} /\ last \in Kept' /\ last \notin Kept
        /\ Msg(last)' = m
        /\ \A k \in Kept' : k # last => Msg(k)' = Msg(k)
    BY <1>4, <2>1, KeptAfter DEF ToldEffect
  <2>3. /\ m.kind = "result" => fan'.bounds = fan.bounds + 1 /\ m.of = fan'.bounds
        /\ m.kind = "block" => fan.bounds < fan.turn
        /\ m.kind # "result" => fan'.bounds = fan.bounds /\ fan.turn <= fan'.turn
        /\ fan'.pc = "settle" => m.kind = "result"
    BY <1>1, <1>4 DEF ToldEffect
  <2>4. ASSUME NEW k \in Kept', Msg(k)'.kind = "result"
        PROVE  Msg(k)'.of <= fan'.bounds
    <3>1. CASE k = last
      BY <1>1, <2>2, <2>4, <2>3, <3>1
    <3>2. CASE k # last
      <4>1. k \in Kept /\ Msg(k)' = Msg(k) /\ Msg(k).of <= fan.bounds
        BY <2>2, <2>4, <3>2 DEF EndsTold
      <4>2. Msg(k).of \in Nat
        BY <1>2, <2>4, <4>1
      <4> QED
        BY <1>1, <2>3, <4>1, <4>2
    <3> QED
      BY <3>1, <3>2
  <2>5. ASSUME NEW k \in Kept', Msg(k)'.kind = "block"
        PROVE  fan'.bounds < fan'.turn \/ InChan("result", k)'
    <3>1. CASE k = last
      BY <1>1, <2>2, <2>5, <2>3, <3>1
    <3>2. CASE k # last
      <4>1. k \in Kept /\ Msg(k)' = Msg(k) /\ (fan.bounds < fan.turn \/ InChan("result", k))
        BY <2>2, <2>5, <3>2 DEF EndsTold
      <4>2. k \in Nat /\ k <= sent /\ k >= Oldest(chan', sent')
        <5>1. Oldest(chan', sent') \in Int
          BY <1>4, LenProperties, Numbers DEF ToldEffect, Told, Oldest
        <5>2. k > Oldest(chan', sent')
          BY <1>4, <4>1, <5>1, Numbers DEF Kept, ToldEffect, Told
        <5> QED
          BY <4>1, <5>1, <5>2, Numbers
      <4>3. /\ InChan("result", k) => InChan("result", k)'
            /\ m.kind = "result" => InChan("result", k)'
        BY <1>4, <4>2, AheadAfter DEF ToldEffect
      <4> QED
        BY <1>1, <2>3, <4>1, <4>3
    <3> QED
      BY <3>1, <3>2
  <2>6. fan'.pc = "settle" => \E k \in Kept' : k = sent' /\ Msg(k)'.kind = "result"
    <3>1. sent' = last
      BY <1>4, <2>1 DEF ToldEffect, Told
    <3> QED
      BY <2>3, <2>2, <3>1
  <2> QED
    BY <2>4, <2>5, <2>6 DEF EndsTold
<1> QED
  BY <1>3, <1>4, FanEffect

LEMMA FanKeepsModes ==
  ASSUME ReplayAssumption, Typed, LogIsWhole, ModesTold, FanOut
  PROVE  ModesTold'
<1>1. CASE SilentEffect
  <2>1. /\ Kept' = Kept /\ \A k : Msg(k)' = Msg(k)
        /\ \A k : InChan("queue_mode", k)' <=> InChan("queue_mode", k)
    BY <1>1, NothingTold DEF SilentEffect, Silent
  <2>2. fan.pc # "tell" /\ (fan'.mode = fan.mode \/ fan'.pc = "tell")
    BY <1>1 DEF SilentEffect
  <2> QED
    BY <2>1, <2>2 DEF ModesTold
<1>2. ASSUME NEW m, ToldEffect(m)
      PROVE  ModesTold'
  <2>1. PICK last : last = sent + 1
    OBVIOUS
  <2>2. /\ Kept' \subseteq Kept \cup {last} /\ last \in Kept' /\ last \notin Kept
        /\ Msg(last)' = m
        /\ \A k \in Kept' : k # last => Msg(k)' = Msg(k)
    BY <1>2, <2>1, KeptAfter DEF ToldEffect
  <2>3. /\ m.kind = "queue_mode" => m.mode = fan'.mode
        /\ m.kind # "queue_mode" => fan.pc # "tell" /\ fan'.mode = fan.mode
    BY <1>2 DEF ToldEffect
  <2>4. ASSUME NEW k \in Kept', Msg(k)'.kind = "queue_mode", ~InChan("queue_mode", k)'
        PROVE  Msg(k)'.mode = fan'.mode
    <3>1. CASE k = last
      BY <2>2, <2>3, <2>4, <3>1
    <3>2. CASE k # last
      <4>1. k \in Kept /\ Msg(k)' = Msg(k) /\ Msg(k).kind = "queue_mode"
        BY <2>2, <2>4, <3>2
      <4>2. k \in Nat /\ k <= sent /\ k >= Oldest(chan', sent')
        <5>1. Oldest(chan', sent') \in Int
          BY <1>2, LenProperties, Numbers DEF ToldEffect, Told, Oldest
        <5>2. k > Oldest(chan', sent')
          BY <1>2, <4>1, <5>1, Numbers DEF Kept, ToldEffect, Told
        <5> QED
          BY <4>1, <5>1, <5>2, Numbers
      <4>3. m.kind # "queue_mode" /\ ~InChan("queue_mode", k)
        BY <1>2, <2>4, <4>2, AheadAfter DEF ToldEffect
      <4> QED
        BY <2>3, <4>1, <4>3 DEF ModesTold
    <3> QED
      BY <3>1, <3>2
  <2> QED
    BY <2>4 DEF ModesTold
<1> QED
  BY <1>1, <1>2, FanEffect

-----------------------------------------------------------------------------
(* The fan-out's steps keep what holds of a tab *)

\* A receiver in the window after a step was in it before.
LEMMA StillTracks ==
  ASSUME ReplayAssumption, Typed, LogIsWhole, FanOut, NEW t \in TabType, Tracks(t)'
  PROVE  Tracks(t) /\ t.at >= Oldest(chan', sent')
<1>1. ~t.lagged /\ t.at >= Oldest(chan', sent') /\ t.at \in Nat
  BY DEF Tracks, TabType
<1>2. CASE Silent
  BY <1>1, <1>2 DEF Silent, Tracks
<1>3. ASSUME NEW m, Told(m)
      PROVE  t.at >= Oldest(chan, sent)
  <2>1. /\ Oldest(chan, sent) <= Oldest(chan', sent') /\ Oldest(chan, sent) \in Nat
        /\ Oldest(chan', sent') \in Int
    BY <1>3, Numbers, LenProperties DEF Told, Oldest
  <2> QED
    BY <1>1, <2>1
<1> QED
  BY <1>1, <1>2, <1>3, FanStepsTell DEF Tracks

LEMMA FanKeepsHistory ==
  ASSUME ReplayAssumption, Typed, LogIsWhole, FanOut,
         NEW t \in TabType, t.at <= sent, HistoryInv(t)
  PROVE  HistoryInv(t)'
<1>1. CASE Silent
  BY <1>1, NothingTold DEF Silent, HistoryInv, Tracks
<1>2. ASSUME NEW m, Told(m)
      PROVE  HistoryInv(t)'
  <2>1. PICK last : last = sent + 1
    OBVIOUS
  <2>2. /\ Kept' \subseteq Kept \cup {last} /\ last \in Kept' /\ last \notin Kept
        /\ Msg(last)' = m
        /\ \A k \in Kept' : k # last => Msg(k)' = Msg(k)
        /\ \A k \in Kept : k > Oldest(chan', sent') => k \in Kept'
    BY <1>2, <2>1, KeptAfter
  <2>3. /\ recorded \in Nat /\ sent \in Nat /\ t.at \in Nat /\ t.seen \in Nat
        /\ Len(t.todo) \in Nat /\ Reach(t) \in Nat
    BY LenProperties, Numbers DEF Typed, TabType, Reach
  <2>4. \/ m.n = 0 /\ recorded' = recorded
        \/ m.n = recorded + 1 /\ recorded' = recorded + 1
    BY <1>2 DEF Told
  <2>5. t.seen <= recorded'
    BY <2>3, <2>4 DEF HistoryInv
  <2>6. ASSUME t.conn # "off"
        PROVE  /\ Reach(t) <= recorded'
               /\ \A k \in Kept' : k > t.at /\ Msg(k)'.n # 0 => Msg(k)'.n > Reach(t)
    <3>1. Reach(t) <= recorded
      BY <2>6 DEF HistoryInv
    <3>2. ASSUME NEW k \in Kept', k > t.at, Msg(k)'.n # 0
          PROVE  Msg(k)'.n > Reach(t)
      <4>1. CASE k = last
        BY <2>2, <2>3, <2>4, <3>1, <3>2, <4>1
      <4>2. CASE k # last
        BY <2>2, <2>6, <3>2, <4>2 DEF HistoryInv
      <4> QED
        BY <4>1, <4>2
    <3> QED
      BY <2>3, <2>4, <3>1, <3>2
  <2>7. ASSUME t.conn # "off", Tracks(t)'
        PROVE  \/ Reach(t) = recorded'
               \/ \E k \in Kept' : k > t.at /\ Msg(k)'.n = Reach(t) + 1
    <3>1. Tracks(t) /\ t.at >= Oldest(chan', sent')
      BY <2>7, StillTracks
    <3>2. CASE Reach(t) = recorded
      <4>1. last > t.at
        BY <2>1, <2>3
      <4> QED
        BY <2>2, <2>4, <3>2, <4>1
    <3>3. CASE Reach(t) # recorded
      <4>1. PICK k \in Kept : k > t.at /\ Msg(k).n = Reach(t) + 1
        BY <2>7, <3>1, <3>3 DEF HistoryInv
      <4>2. k > Oldest(chan', sent')
        BY SMTT(20), <1>2, <2>3, <3>1, <4>1, Numbers, LenProperties DEF Told, Oldest
      <4>3. k \in Kept' /\ Msg(k)' = Msg(k)
        BY <2>2, <4>1, <4>2
      <4> QED
        BY <4>1, <4>3
    <3> QED
      BY <3>2, <3>3
  <2>8. Reach(t)' = Reach(t)
    BY DEF Reach
  <2> QED
    BY <2>5, <2>6, <2>7, <2>8 DEF HistoryInv
<1> QED
  BY <1>1, <1>2, FanStepsTell

LEMMA FanKeepsMode ==
  ASSUME ReplayAssumption, Typed, LogIsWhole, FanOut,
         NEW t \in TabType, t.at <= sent, ModeInv(t)
  PROVE  ModeInv(t)'
<1> SUFFICES ASSUME t.conn = "live", t.had, Tracks(t)', ~ModeAhead(t)'
             PROVE  t.mode = fan'.mode
  BY DEF ModeInv
<1>1. Tracks(t) /\ t.at >= Oldest(chan', sent') /\ t.at \in Nat
  BY StillTracks DEF TabType
<1>2. fan'.pc # "tell" /\ ~InInputs("mode")' /\ ~InChan("queue_mode", t.at)'
  BY DEF ModeAhead
<1>3. ~InInputs("mode")
  <2>1. CASE \E kind : kind # "mode" /\ Take(kind)
    BY <1>2, <2>1, InputsAfter
  <2>2. CASE UNCHANGED inputs
    BY <1>2, <2>2 DEF InInputs
  <2>3. ~TakeMode
    BY <1>2 DEF TakeMode, Typed, FanType
  <2> QED
    BY <2>1, <2>2, <2>3 DEF FanOut, TakePrompt, TellQueued, MarkRunning, Block, Boundary, Settle,
                            Flush, TakeInterrupt, TellMode
<1>4. ~InChan("queue_mode", t.at) /\ fan.pc # "tell" /\ fan'.mode = fan.mode
  <2>1. CASE SilentEffect
    BY <1>2, <2>1, NothingTold DEF SilentEffect, Silent
  <2>2. ASSUME NEW m, ToldEffect(m)
        PROVE  ~InChan("queue_mode", t.at) /\ fan.pc # "tell" /\ fan'.mode = fan.mode
    <3>1. ~InChan("queue_mode", t.at) /\ m.kind # "queue_mode"
      BY <1>1, <1>2, <2>2, AheadAfter DEF ToldEffect
    <3> QED
      BY <2>2, <3>1 DEF ToldEffect
  <2> QED
    BY <2>1, <2>2, FanEffect
<1> QED
  BY <1>1, <1>3, <1>4 DEF ModeInv, ModeAhead

\* A turn's end stays ahead until it is told, or the prompts it would be of are thrown away.
LEMMA FanKeepsBusy ==
  ASSUME ReplayAssumption, Typed, LogIsWhole, FanCounts, FanOut,
         NEW t \in TabType, t.at <= sent, BusyInv(t)
  PROVE  BusyInv(t)'
<1> SUFFICES ASSUME Turning(t), Tracks(t)'
             PROVE  EndAhead(t)'
  BY DEF BusyInv, Turning
<1>1. Tracks(t) /\ t.at >= Oldest(chan', sent') /\ t.at \in Nat
  BY StillTracks DEF TabType
<1>2. EndAhead(t)
  BY <1>1 DEF BusyInv
<1>3. fan \in FanType /\ fan.bounds \in Nat /\ fan.turn \in Nat /\ fan'.bounds \in Nat /\ fan'.turn \in Nat
  BY FanTyped DEF Typed, FanType
<1>4. CASE Boundary
  <2>1. PICK m \in Event : Told(m) /\ m.kind = "result"
    BY <1>4, WhatIsTold
  <2> QED
    BY <1>1, <2>1, AheadAfter DEF EndAhead
<1>5. InChan("result", t.at) => InChan("result", t.at)'
  <2>1. CASE Silent
    BY <2>1, NothingTold DEF Silent
  <2>2. ASSUME NEW m, Told(m)
        PROVE  InChan("result", t.at) => InChan("result", t.at)'
    BY <1>1, <2>2, AheadAfter
  <2> QED
    BY <2>1, <2>2, FanStepsTell
<1>6. ASSUME ~Boundary, fan.bounds < fan.turn
      PROVE  fan'.bounds < fan'.turn
  <2>2. CASE TakePrompt \/ TellQueued \/ Block \/ TellMode
    <3>1. CASE TakePrompt
      BY <1>3, <1>6, <3>1 DEF TakePrompt, FanType
    <3>2. CASE TellQueued \/ Block \/ TellMode
      BY <1>3, <1>6, <3>2 DEF TellQueued, Block, TellMode, FanType
    <3> QED
      BY <2>2, <3>1, <3>2
  <2>3. CASE MarkRunning \/ Settle \/ Flush \/ TakeInterrupt \/ TakeMode
    <3>1. CASE Flush
      BY <1>3, <1>6, <3>1 DEF Flush, FanType
    <3>2. CASE MarkRunning \/ Settle \/ TakeInterrupt \/ TakeMode
      BY <1>3, <1>6, <3>2 DEF MarkRunning, Settle, TakeInterrupt, TakeMode, FanType
    <3> QED
      BY <2>3, <3>1, <3>2
  <2> QED
    BY <1>6, <2>2, <2>3 DEF FanOut
<1>7. ASSUME ~Boundary, fan.window
      PROVE  fan'.window \/ fan'.dropped \/ fan'.bounds < fan'.turn
  <2>1. CASE Flush
    BY <1>3, <2>1, FanKeepsCounts DEF Flush, FanCounts, FanType
  <2>2. CASE Settle
    BY <1>3, <1>7, <2>2 DEF Settle, FanCounts, FanType
  <2>3. CASE TakePrompt
    BY <1>3, <1>7, <2>3 DEF TakePrompt, FanType
  <2>4. CASE TakeInterrupt
    BY <1>3, <1>7, <2>4 DEF TakeInterrupt, FanType
  <2>5. CASE TellQueued \/ MarkRunning \/ Block \/ TakeMode \/ TellMode
    BY <1>3, <1>7, <2>5 DEF TellQueued, MarkRunning, Block, TakeMode, TellMode, FanType
  <2> QED
    BY <1>7, <2>1, <2>2, <2>3, <2>4, <2>5 DEF FanOut
<1>8. ASSUME ~Boundary, fan.dropped
      PROVE  fan'.dropped
  BY <1>3, <1>8 DEF FanOut, FanType, TakePrompt, TellQueued, MarkRunning, Block, Settle, Flush,
                    TakeInterrupt, TakeMode, TellMode
<1>9. ASSUME ~Boundary, InInputs("prompt")
      PROVE  InInputs("prompt")' \/ fan'.window \/ fan'.bounds < fan'.turn
  <2>1. CASE TakePrompt
    BY <1>3, <2>1 DEF TakePrompt, Take, FanCounts, FanType
  <2>2. CASE \E kind : kind # "prompt" /\ Take(kind)
    BY <1>9, <2>2, InputsAfter
  <2>3. CASE UNCHANGED inputs
    BY <1>9, <2>3 DEF InInputs
  <2> QED
    BY <1>9, <2>1, <2>2, <2>3 DEF FanOut, TellQueued, MarkRunning, Block, Boundary, Settle, Flush,
                                  TakeInterrupt, TakeMode, TellMode
<1> QED
  BY <1>2, <1>4, <1>5, <1>6, <1>7, <1>8, <1>9 DEF EndAhead

LEMMA FanKeepsJoined ==
  ASSUME ReplayAssumption, Typed, LogIsWhole, FanOut, NEW t \in TabType, JoinedInv(t)
  PROVE  JoinedInv(t)'
<1>1. /\ t.joined \in Nat /\ fan.bounds \in Nat /\ fan.turn \in Nat
      /\ fan'.bounds \in Nat /\ fan'.turn \in Nat
  BY FanTyped DEF Typed, FanType, TabType
<1>2. fan.turn <= fan'.turn /\ fan.bounds <= fan'.bounds
  <2>1. SilentEffect => fan.turn <= fan'.turn /\ fan.bounds <= fan'.bounds
    BY <1>1 DEF SilentEffect
  <2>2. \A m : ToldEffect(m) => fan.turn <= fan'.turn /\ fan.bounds <= fan'.bounds
    BY <1>1 DEF ToldEffect
  <2> QED
    BY <2>1, <2>2, FanEffect
<1> QED
  BY <1>1, <1>2 DEF JoinedInv

LEMMA FanStep ==
  ASSUME ReplayAssumption, ReplayInv, FanOut
  PROVE  ReplayInv'
<1>1. Typed' /\ LogIsWhole' /\ ChanInOrder' /\ FanCounts' /\ EndsTold' /\ ModesTold'
  BY FanKeepsTypes, FanKeepsOrder, FanKeepsCounts, FanKeepsEnds, FanKeepsModes
     DEF ReplayInv, SessionInv
<1>2. ASSUME NEW c \in Clients
      PROVE  TabInv(tabs[c])'
  <2>1. PICK t : t = tabs[c]
    OBVIOUS
  <2>2. t \in TabType /\ t.at <= sent /\ tabs'[c] = t
    BY <2>1, FanTyped DEF ReplayInv, Typed
  <2>3. HistoryInv(t) /\ ModeInv(t) /\ BusyInv(t) /\ JoinedInv(t)
    BY <2>1 DEF ReplayInv, TabInv
  <2>4. HistoryInv(t)' /\ ModeInv(t)' /\ BusyInv(t)' /\ JoinedInv(t)'
    BY <2>2, <2>3, FanKeepsHistory, FanKeepsMode, FanKeepsBusy, FanKeepsJoined
       DEF ReplayInv, SessionInv
  <2> QED
    BY <2>2, <2>4 DEF TabInv
<1> QED
  BY <1>1, <1>2 DEF ReplayInv, SessionInv

-----------------------------------------------------------------------------
(* What the page makes of a message *)

LEMMA ShowSignal ==
  ASSUME NEW t \in TabType, NEW m \in Message, m.n = 0
  PROVE  /\ m.kind \in {"queue_mode", "queued"} /\ m.mode \in Modes
         /\ m.kind = "queue_mode" => Show(t, m) = [t EXCEPT !.mode = m.mode]
         /\ m.kind = "queued" => Show(t, m) = t
<1>1. m \notin Event
  BY DEF Event
<1>2. m.kind \in {"queue_mode", "queued"} /\ m.mode \in Modes
  BY <1>1 DEF Message
<1>3. ASSUME m.kind = "queue_mode"
      PROVE  Show(t, m) = [t EXCEPT !.mode = m.mode]
  BY <1>3 DEF Show
<1>4. ASSUME m.kind = "queued"
      PROVE  Show(t, m) = t
  BY <1>4 DEF Show
<1> QED
  BY <1>2, <1>3, <1>4

LEMMA ShowEvent ==
  ASSUME NEW t \in TabType, NEW m \in Event
  PROVE  LET u == Show(t, m)
         IN  /\ u \in TabType
             /\ u.conn = t.conn /\ u.todo = t.todo /\ u.had = t.had /\ u.at = t.at
             /\ u.mode = t.mode /\ u.ran = t.ran /\ u.lagged = t.lagged
             /\ u.seen = m.n
             /\ u.again <=> t.again \/ m.n <= t.seen
             /\ u.skipped <=> t.skipped \/ m.n > t.seen + 1
             /\ u.busy <=> m.kind = "block" \/ (m.kind = "prompt" /\ t.busy)
             /\ u.raced <=> t.raced /\ m.kind # "result"
             /\ u.joined = IF m.kind = "result" /\ m.of = t.joined THEN 0 ELSE t.joined
             /\ u.cleared <=> /\ m.kind # "block"
                              /\ t.cleared \/ (m.kind = "result" /\ m.of < t.joined)
<1>1. m.kind \in {"prompt", "block", "result"} /\ m.n \in Nat /\ m.of \in Nat
  BY DEF Event
<1>2. t.seen \in Nat /\ t.joined \in Nat /\ {t.again, t.skipped, t.busy, t.raced, t.cleared} \subseteq BOOLEAN
  BY DEF TabType
<1> DEFINE again == t.again \/ m.n <= t.seen
           skipped == t.skipped \/ m.n > t.seen + 1
           raced == t.raced /\ m.kind # "result"
           joined == IF m.kind = "result" /\ m.of = t.joined THEN 0 ELSE t.joined
           busy == CASE m.kind = "block" -> TRUE
                     [] m.kind = "result" -> FALSE
                     [] OTHER -> t.busy
           cleared == IF m.kind = "block" THEN FALSE
                      ELSE t.cleared \/ (m.kind = "result" /\ m.of < t.joined)
<1>3. Show(t, m) = [t EXCEPT !.again = again, !.skipped = skipped, !.seen = m.n, !.busy = busy,
                             !.raced = raced, !.joined = joined, !.cleared = cleared]
  BY <1>1 DEF Show
<1>4. {again, skipped, raced, busy, cleared} \subseteq BOOLEAN /\ joined \in Nat
  <2>1. again \in BOOLEAN /\ skipped \in BOOLEAN /\ raced \in BOOLEAN
    BY <1>2
  <2>2. busy \in BOOLEAN
    BY <1>1, <1>2
  <2>3. cleared \in BOOLEAN
    BY <1>2
  <2>4. joined \in Nat
    BY <1>2
  <2> QED
    BY <2>1, <2>2, <2>3, <2>4
<1>5. busy <=> m.kind = "block" \/ (m.kind = "prompt" /\ t.busy)
  BY <1>1, <1>2
<1>6. cleared <=> m.kind # "block" /\ (t.cleared \/ (m.kind = "result" /\ m.of < t.joined))
  BY <1>2
<1> HIDE DEF again, skipped, raced, joined, busy, cleared
<1>7. Show(t, m) \in TabType
  BY <1>1, <1>3, <1>4 DEF TabType
<1>8. LET u == Show(t, m)
      IN  /\ u.conn = t.conn /\ u.todo = t.todo /\ u.had = t.had /\ u.at = t.at
          /\ u.mode = t.mode /\ u.ran = t.ran /\ u.lagged = t.lagged
          /\ u.seen = m.n /\ u.again = again /\ u.skipped = skipped /\ u.busy = busy
          /\ u.raced = raced /\ u.joined = joined /\ u.cleared = cleared
  BY <1>3 DEF TabType
<1> QED
  BY <1>5, <1>6, <1>7, <1>8 DEF again, skipped, raced, joined

-----------------------------------------------------------------------------
(* A step of a tab: it leaves the session alone but for the inputs it adds *)

Session == <<fan, mirror, log, recorded, chan, sent>>

LEMMA TabKeepsSession ==
  ASSUME UNCHANGED Session, SessionInv
  PROVE  SessionInv'
<1>1. /\ Kept' = Kept /\ \A k : Msg(k)' = Msg(k)
      /\ \A kind, at : InChan(kind, at)' <=> InChan(kind, at)
  BY NothingTold DEF Session
<1>2. LogIsWhole' /\ FanCounts'
  BY DEF Session, SessionInv, LogIsWhole, FanCounts
<1>3. ChanInOrder'
  BY <1>1 DEF Session, SessionInv, ChanInOrder
<1>4. EndsTold' /\ ModesTold'
  BY <1>1 DEF Session, SessionInv, EndsTold, ModesTold
<1> QED
  BY <1>2, <1>3, <1>4 DEF SessionInv

\* What holds of a tab holds of it after another's step.
LEMMA TabKeepsTab ==
  ASSUME UNCHANGED Session, NEW t, \A kind : InInputs(kind) => InInputs(kind)'
  PROVE  /\ HistoryInv(t) => HistoryInv(t)'
         /\ ModeInv(t) => ModeInv(t)'
         /\ BusyInv(t) => BusyInv(t)'
         /\ JoinedInv(t) => JoinedInv(t)'
<1>1. /\ Kept' = Kept /\ Oldest(chan', sent') = Oldest(chan, sent) /\ \A k : Msg(k)' = Msg(k)
      /\ \A kind, at : InChan(kind, at)' <=> InChan(kind, at)
  BY NothingTold DEF Session
<1>2. Tracks(t)' <=> Tracks(t)
  BY <1>1 DEF Tracks
<1>3. HistoryInv(t) => HistoryInv(t)'
  BY <1>1, <1>2 DEF HistoryInv, Session, Reach
<1>4. ModeInv(t) => ModeInv(t)'
  BY <1>1, <1>2 DEF ModeInv, ModeAhead, Session
<1>5. BusyInv(t) => BusyInv(t)'
  BY <1>1, <1>2 DEF BusyInv, EndAhead, Turning, Session
<1>6. JoinedInv(t) => JoinedInv(t)'
  BY DEF JoinedInv, Session
<1> QED
  BY <1>3, <1>4, <1>5, <1>6

\* The tab that moves is right about the session it moves in; the others stay right.
LEMMA TabMoves ==
  ASSUME ReplayInv, UNCHANGED Session, NEW c \in Clients, NEW t \in TabType,
         tabs' = [tabs EXCEPT ![c] = t], t.at <= sent, TabInv(t)',
         inputs' \in Seq(InputType), \A kind : InInputs(kind) => InInputs(kind)'
  PROVE  ReplayInv'
<1>1. \A d \in Clients : tabs'[d] = IF d = c THEN t ELSE tabs[d]
  BY DEF ReplayInv, Typed
<1>2. tabs' \in [Clients -> TabType]
  BY DEF ReplayInv, Typed
<1>3. Typed'
  BY <1>1, <1>2 DEF ReplayInv, Typed, Session
<1>4. SessionInv'
  BY TabKeepsSession DEF ReplayInv
<1>5. ASSUME NEW d \in Clients
      PROVE  TabInv(tabs[d])'
  <2>1. PICK u : u = tabs[d]
    OBVIOUS
  <2>2. CASE d = c
    BY <1>1, <2>2 DEF TabInv, HistoryInv, ModeInv, BusyInv, JoinedInv
  <2>3. CASE d # c
    <3>1. TabInv(u)'
      BY <2>1, TabKeepsTab DEF ReplayInv, TabInv
    <3> QED
      BY <1>1, <2>1, <2>3, <3>1
  <2> QED
    BY <2>2, <2>3
<1> QED
  BY <1>3, <1>4, <1>5 DEF ReplayInv

\* The same when no input is added: the tab is right about the session as it is.
LEMMA TabMovesAlone ==
  ASSUME ReplayInv, UNCHANGED Session, UNCHANGED inputs, NEW c \in Clients, NEW t \in TabType,
         tabs' = [tabs EXCEPT ![c] = t], t.at <= sent, TabInv(t)
  PROVE  ReplayInv'
<1>1. \A kind : InInputs(kind) => InInputs(kind)'
  BY DEF InInputs
<1>2. TabInv(t)'
  BY <1>1, TabKeepsTab DEF TabInv
<1>3. inputs' \in Seq(InputType)
  BY DEF ReplayInv, Typed
<1> QED
  BY <1>1, <1>2, <1>3, TabMoves

\* An input goes to the end.
LEMMA InputAdded ==
  ASSUME Typed, NEW kind \in {"prompt", "interrupt", "mode"}, NEW mode \in Modes,
         Input(kind, mode)
  PROVE  /\ inputs' \in Seq(InputType) /\ InInputs(kind)'
         /\ \A other : InInputs(other) => InInputs(other)'
<1> DEFINE e == [kind |-> kind, mode |-> mode]
<1>1. inputs \in Seq(InputType) /\ e \in InputType /\ inputs' = Append(inputs, e) /\ e.kind = kind
  BY DEF Typed, Input, InputType
<1> HIDE DEF e
<1>2. /\ Len(inputs) \in Nat /\ inputs' \in Seq(InputType) /\ Len(inputs') = Len(inputs) + 1
      /\ inputs'[Len(inputs) + 1] = e
      /\ \A i \in 1..Len(inputs) : inputs'[i] = inputs[i]
  BY <1>1, AppendProperties, LenProperties
<1>3. InInputs(kind)'
  BY <1>1, <1>2 DEF InInputs
<1>4. ASSUME NEW other, InInputs(other)
      PROVE  InInputs(other)'
  BY <1>2, <1>4 DEF InInputs
<1> QED
  BY <1>2, <1>3, <1>4

-----------------------------------------------------------------------------
(* The steps of a tab *)

LEMMA ConnectStep ==
  ASSUME ReplayAssumption, ReplayInv, NEW c \in Clients, Connect(c)
  PROVE  ReplayInv'
<1>1. /\ log \in Seq(Event) /\ Len(log) \in Nat /\ recorded \in Nat /\ sent \in Nat
      /\ Len(log) <= recorded /\ \A i \in 1..Len(log) : log[i].n = recorded - Len(log) + i
      /\ recorded > 0 => log # <<>>
      /\ fan.turn \in Nat
  BY LenProperties DEF ReplayInv, Typed, FanType, SessionInv, LogIsWhole
<1>2. PICK seen \in Nat, conn \in {"live", "replay"}, had \in BOOLEAN :
         /\ seen = IF log = <<>> THEN recorded ELSE Head(log).n - 1
         /\ conn = IF log = <<>> THEN "live" ELSE "replay"
         /\ had = (log # <<>>)
         /\ seen + Len(log) = recorded
         /\ conn = "live" => log = <<>>
         /\ conn = "live" => ~had
  <2>1. CASE log = <<>>
    <3>1. Len(log) = 0 /\ recorded = 0
      BY <1>1, <2>1, EmptySeq
    <3> recorded \in Nat
      BY <1>1
    <3> WITNESS recorded \in Nat, "live" \in {"live", "replay"}, FALSE \in BOOLEAN
    <3>2. recorded + Len(log) = recorded
      BY <3>1
    <3> QED
      BY <2>1, <3>2
  <2>2. CASE log # <<>>
    <3>1. Len(log) >= 1 /\ Head(log) = log[1]
      BY <1>1, <2>2, EmptySeq, HeadTailProperties
    <3>2. Head(log).n = recorded - Len(log) + 1
      BY <1>1, <3>1
    <3>3. recorded - Len(log) \in Nat
      BY <1>1
    <3>4. PICK n \in Nat : n = recorded - Len(log)
      BY <3>3
    <3>5. Head(log).n - 1 = n /\ n + Len(log) = recorded
      BY <1>1, <3>2, <3>4
    <3> WITNESS n \in Nat, "replay" \in {"live", "replay"}, TRUE \in BOOLEAN
    <3> QED
      BY <2>2, <3>5
  <2> QED
    BY <2>1, <2>2
<1>3. PICK o : o = Offline
  OBVIOUS
<1>4. /\ o \in TabType /\ o.busy = FALSE /\ o.ran = FALSE /\ o.lagged = FALSE /\ o.skipped = FALSE
      /\ o.again = FALSE /\ o.joined = 0
  BY <1>3 DEF Offline, TabType, Modes
<1>5. PICK u : u = [o EXCEPT !.todo = log, !.had = had, !.at = sent]
  OBVIOUS
<1>6. /\ u \in TabType /\ u.todo = log /\ u.had = had /\ u.at = sent
      /\ u.busy = FALSE /\ u.ran = FALSE /\ u.lagged = FALSE /\ u.skipped = FALSE
      /\ u.again = FALSE /\ u.joined = 0
  BY <1>1, <1>4, <1>5 DEF TabType
<1>7. PICK t : t = [u EXCEPT !.conn = conn, !.seen = seen]
  OBVIOUS
<1>8. conn \in {"live", "replay"} /\ seen \in Nat
  OBVIOUS
<1>9. /\ t \in TabType /\ t.conn = conn /\ t.seen = seen /\ t.todo = log /\ t.had = had
      /\ t.at = sent /\ t.busy = FALSE /\ t.ran = FALSE /\ t.lagged = FALSE /\ t.skipped = FALSE
      /\ t.again = FALSE /\ t.joined = 0
  BY <1>6, <1>7, <1>8 DEF TabType
<1>10. tabs' = [tabs EXCEPT ![c] = t] /\ UNCHANGED Session /\ UNCHANGED inputs
  <2>1. Subscribed(Offline, log) = u
    BY <1>3, <1>2, <1>5 DEF Subscribed
  <2>2. tabs' = [tabs EXCEPT ![c] = [Subscribed(Offline, log) EXCEPT !.conn = conn, !.seen = seen]]
    BY <1>2 DEF Connect
  <2> QED
    BY <1>7, <2>1, <2>2 DEF Connect, Session
<1>11. conn = "live" => log = <<>> /\ ~had
  BY <1>2
<1>12. t.at <= sent
  BY <1>9, <1>1
<1>13. HistoryInv(t)
  <2>1. Reach(t) = recorded /\ t.seen <= recorded
    BY <1>9, <1>1, <1>2 DEF Reach
  <2>2. \A i \in 1..Len(t.todo) : t.todo[i].n = t.seen + i
    <3> SUFFICES ASSUME NEW i \in 1..Len(log)
                 PROVE  log[i].n = seen + i
      BY <1>9
    <3>1. log[i].n = recorded - Len(log) + i /\ i \in Nat
      BY <1>1
    <3>2. seen = recorded - Len(log) /\ Len(log) \in Nat /\ recorded \in Nat
      BY <1>1, <1>2
    <3> QED
      BY <3>1, <3>2
  <2>3. ~\E k \in Kept : k > t.at
    BY <1>9, Numbers DEF ReplayInv
  <2>4. t.conn \in {"live", "asked"} => t.todo = <<>>
    BY <1>9, <1>11
  <2>5. ~t.again /\ ~t.skipped /\ ~t.lagged
    BY <1>9
  <2> QED
    BY <1>1, <2>1, <2>2, <2>3, <2>4, <2>5 DEF HistoryInv
<1>14. ModeInv(t) /\ BusyInv(t) /\ JoinedInv(t)
  <2>1. ~(t.conn = "live" /\ t.had) /\ ~Turning(t)
    BY <1>9, <1>11 DEF Turning
  <2>2. t.joined = 0
    BY <1>9
  <2> QED
    BY <1>1, <2>1, <2>2 DEF ModeInv, BusyInv, JoinedInv
<1> QED
  BY <1>10, <1>9, <1>12, <1>13, <1>14, TabMovesAlone DEF TabInv

\* What is assumed of the tab that moves, in the words of its own record.
LEMMA TabFacts ==
  ASSUME ReplayInv, NEW c \in Clients
  PROVE  /\ tabs[c] \in TabType /\ tabs[c].at <= sent
         /\ HistoryInv(tabs[c]) /\ ModeInv(tabs[c]) /\ BusyInv(tabs[c]) /\ JoinedInv(tabs[c])
         /\ tabs[c].at \in Nat /\ tabs[c].seen \in Nat /\ tabs[c].joined \in Nat
         /\ fan \in FanType /\ fan.turn \in Nat /\ fan.bounds \in Nat
         /\ recorded \in Nat /\ sent \in Nat
BY DEF ReplayInv, Typed, TabInv, TabType, FanType

LEMMA ReplayStep ==
  ASSUME ReplayAssumption, ReplayInv, NEW c \in Clients, Replay(c)
  PROVE  ReplayInv'
<1>1. PICK t : t = tabs[c]
  OBVIOUS
<1>2. /\ t \in TabType /\ t.at <= sent /\ t.at \in Nat /\ t.seen \in Nat /\ t.joined \in Nat
      /\ HistoryInv(t) /\ JoinedInv(t) /\ fan.turn \in Nat /\ recorded \in Nat
  BY <1>1, TabFacts
<1>3. PICK h, rest : h = Head(t.todo) /\ rest = Tail(t.todo)
  OBVIOUS
<1>4. t.conn = "replay" /\ t.todo # <<>> /\ t.todo \in Seq(Event)
  BY <1>1, <1>2 DEF Replay, TabType
<1>5. /\ Len(t.todo) \in Nat \ {0} /\ h = t.todo[1] /\ h \in Event
      /\ rest \in Seq(Event) /\ Len(rest) = Len(t.todo) - 1
      /\ \A i \in 1..Len(rest) : rest[i] = t.todo[i + 1]
  BY <1>3, <1>4, HeadTailProperties, EmptySeq, LenProperties
<1>6. PICK u : u = Show(t, h)
  OBVIOUS
<1>7. /\ u \in TabType /\ u.conn = t.conn /\ u.todo = t.todo /\ u.at = t.at
      /\ u.lagged = t.lagged /\ u.seen = h.n
      /\ u.again <=> t.again \/ h.n <= t.seen
      /\ u.skipped <=> t.skipped \/ h.n > t.seen + 1
      /\ u.joined = 0 \/ u.joined = t.joined
  BY <1>2, <1>5, <1>6, ShowEvent
<1>8. PICK v : v = [u EXCEPT !.todo = rest]
  OBVIOUS
<1>9. tabs' = [tabs EXCEPT ![c] = v] /\ UNCHANGED Session /\ UNCHANGED inputs
  <2>1. [Show(t, h) EXCEPT !.todo = Tail(@)] = v
    BY <1>3, <1>6, <1>7, <1>8 DEF TabType
  <2> QED
    BY <1>1, <1>3, <2>1 DEF Replay, Session
<1>10. /\ v \in TabType /\ v.conn = "replay" /\ v.todo = rest /\ v.at = t.at
       /\ v.lagged = t.lagged /\ v.seen = h.n /\ v.again = u.again /\ v.skipped = u.skipped
       /\ v.joined = u.joined
  BY <1>4, <1>5, <1>7, <1>8 DEF TabType
<1>11. h.n = t.seen + 1
  BY <1>4, <1>5, <1>2 DEF HistoryInv
<1>12. HistoryInv(v)
  <2>1. Reach(v) = Reach(t)
    <3>1. Reach(v) = h.n + Len(rest) /\ Reach(t) = t.seen + Len(t.todo)
      BY <1>10 DEF Reach
    <3>2. Len(rest) = Len(t.todo) - 1 /\ Len(t.todo) \in Nat
      BY <1>5
    <3> QED
      BY SMTT(20), <1>2, <1>11, <3>1, <3>2
  <2>2. Reach(t) <= recorded /\ v.seen <= recorded
    BY <1>2, <1>4, <1>5, <1>10, <1>11 DEF HistoryInv, Reach
  <2>3. ASSUME NEW i \in 1..Len(rest)
        PROVE  rest[i].n = v.seen + i
    <3>1. i + 1 \in 1..Len(t.todo)
      BY <1>5
    <3>2. t.todo[i + 1].n = t.seen + (i + 1)
      BY <1>2, <1>4, <3>1 DEF HistoryInv
    <3>3. rest[i] = t.todo[i + 1] /\ v.seen = t.seen + 1 /\ i \in Nat
      BY <1>5, <1>10, <1>11
    <3> QED
      BY SMTT(20), <1>2, <3>2, <3>3
  <2>4. ~v.again /\ ~v.skipped /\ ~v.lagged
    BY <1>2, <1>4, <1>7, <1>10, <1>11 DEF HistoryInv
  <2>5. Tracks(v) <=> Tracks(t)
    BY <1>10 DEF Tracks
  <2> QED
    BY <1>2, <1>4, <1>10, <2>1, <2>2, <2>3, <2>4, <2>5 DEF HistoryInv
<1>13. ModeInv(v) /\ BusyInv(v) /\ JoinedInv(v)
  BY <1>2, <1>7, <1>10 DEF ModeInv, BusyInv, Turning, JoinedInv
<1> QED
  BY <1>2, <1>9, <1>10, <1>12, <1>13, TabMovesAlone DEF TabInv

LEMMA ReadRunningStep ==
  ASSUME ReplayAssumption, ReplayInv, NEW c \in Clients, ReadRunning(c)
  PROVE  ReplayInv'
<1>1. PICK t : t = tabs[c]
  OBVIOUS
<1>2. /\ t \in TabType /\ t.at <= sent /\ t.at \in Nat /\ t.seen \in Nat
      /\ HistoryInv(t) /\ fan.turn \in Nat /\ fan.bounds \in Nat /\ recorded \in Nat /\ sent \in Nat
      /\ mirror \in [running : BOOLEAN, mode : Modes]
  BY <1>1, TabFacts DEF ReplayInv, Typed
<1>3. t.conn = "replay" /\ t.todo = <<>>
  BY <1>1 DEF ReadRunning
<1>4. PICK ran \in BOOLEAN, joined \in Nat, raced \in BOOLEAN :
         /\ ran = mirror.running
         /\ joined = IF mirror.running THEN fan.turn ELSE 0
         /\ raced = (fan.pc = "settle" /\ t.seen = recorded)
  BY <1>2
<1>5. PICK v : v = [t EXCEPT !.conn = "asked", !.ran = ran, !.joined = joined, !.raced = raced]
  OBVIOUS
<1>6. tabs' = [tabs EXCEPT ![c] = v] /\ UNCHANGED Session /\ UNCHANGED inputs
  BY <1>1, <1>4, <1>5 DEF ReadRunning, Session
<1>7. /\ v \in TabType /\ v.conn = "asked" /\ v.todo = <<>> /\ v.at = t.at /\ v.seen = t.seen
      /\ v.lagged = t.lagged /\ v.again = t.again /\ v.skipped = t.skipped
      /\ v.ran = ran /\ v.joined = joined /\ v.raced = raced
  BY <1>2, <1>3, <1>5 DEF TabType
<1>8. Reach(v) = Reach(t) /\ Reach(t) = t.seen
  BY <1>2, <1>3, <1>7, EmptySeq DEF Reach
<1>9. HistoryInv(v)
  BY <1>2, <1>3, <1>7, <1>8 DEF HistoryInv, Tracks
<1>10. BusyInv(v)
  <2> SUFFICES ASSUME ran, Tracks(t)
               PROVE  EndAhead(v)
    BY <1>7 DEF BusyInv, Turning, Tracks
  <2>1. fan.bounds < fan.turn \/ fan.pc = "settle"
    BY <1>4 DEF ReplayInv, SessionInv, FanCounts
  <2>2. CASE fan.pc = "settle" /\ t.seen # recorded
    <3>1. PICK k \in Kept : k > t.at
      BY <1>2, <1>3, <1>8, <2>2 DEF HistoryInv
    <3>2. PICK l \in Kept : l = sent /\ Msg(l).kind = "result"
      BY <2>2 DEF ReplayInv, SessionInv, EndsTold
    <3>3. l > v.at
      BY <1>2, <1>7, <3>1, <3>2, Numbers DEF ReplayInv
    <3> QED
      BY <3>2, <3>3 DEF EndAhead, InChan
  <2> QED
    BY <1>4, <1>7, <2>1, <2>2 DEF EndAhead
<1>11. ModeInv(v) /\ JoinedInv(v)
  BY <1>2, <1>4, <1>7 DEF ModeInv, JoinedInv
<1> QED
  BY <1>2, <1>6, <1>7, <1>9, <1>10, <1>11, TabMovesAlone DEF TabInv

LEMMA ReplayDoneStep ==
  ASSUME ReplayAssumption, ReplayInv, NEW c \in Clients, ReplayDone(c)
  PROVE  ReplayInv'
<1>1. PICK t : t = tabs[c]
  OBVIOUS
<1>2. /\ t \in TabType /\ t.at <= sent
      /\ HistoryInv(t) /\ BusyInv(t) /\ JoinedInv(t)
      /\ mirror \in [running : BOOLEAN, mode : Modes] /\ mirror.mode = fan.mode
  BY <1>1, TabFacts DEF ReplayInv, Typed, SessionInv, FanCounts
<1>3. t.conn = "asked"
  BY <1>1 DEF ReplayDone
<1>4. PICK v : v = [t EXCEPT !.conn = "live", !.busy = t.ran, !.mode = mirror.mode, !.ran = FALSE]
  OBVIOUS
<1>5. tabs' = [tabs EXCEPT ![c] = v] /\ UNCHANGED Session /\ UNCHANGED inputs
  BY <1>1, <1>4 DEF ReplayDone, BusyAfterReplay, Session
<1>6. /\ v \in TabType /\ v.conn = "live" /\ v.todo = t.todo /\ v.at = t.at /\ v.seen = t.seen
      /\ v.lagged = t.lagged /\ v.again = t.again /\ v.skipped = t.skipped
      /\ v.busy = t.ran /\ v.mode = fan.mode
      /\ v.joined = t.joined /\ v.raced = t.raced /\ v.cleared = t.cleared
  BY <1>2, <1>4 DEF TabType
<1>7. HistoryInv(v)
  BY <1>2, <1>3, <1>6 DEF HistoryInv, Reach, Tracks
<1>8. ModeInv(v) /\ JoinedInv(v)
  BY <1>2, <1>3, <1>6 DEF ModeInv, JoinedInv
<1>9. BusyInv(v)
  BY <1>2, <1>3, <1>6 DEF BusyInv, Turning, EndAhead, Tracks
<1> QED
  BY <1>2, <1>5, <1>6, <1>7, <1>8, <1>9, TabMovesAlone DEF TabInv

LEMMA DisconnectStep ==
  ASSUME ReplayAssumption, ReplayInv, NEW c \in Clients, Disconnect(c)
  PROVE  ReplayInv'
<1>1. PICK t : t = Offline
  OBVIOUS
<1>2. tabs' = [tabs EXCEPT ![c] = t] /\ UNCHANGED Session /\ UNCHANGED inputs
  BY <1>1 DEF Disconnect, Session
<1>3. t \in TabType /\ t.at <= sent /\ recorded \in Nat /\ fan.turn \in Nat
  BY <1>1, TabFacts DEF Offline, TabType, Modes
<1>4. HistoryInv(t) /\ ModeInv(t) /\ BusyInv(t) /\ JoinedInv(t)
  BY <1>1, <1>3 DEF Offline, HistoryInv, ModeInv, BusyInv, Turning, JoinedInv
<1> QED
  BY <1>2, <1>3, <1>4, TabMovesAlone DEF TabInv

\* A receiver the channel overtook goes on with the eldest message kept.
LEMMA LagStep ==
  ASSUME ReplayAssumption, ReplayInv, NEW c \in Clients, Forward(c),
         tabs[c].at < Oldest(chan, sent)
  PROVE  ReplayInv'
<1>1. PICK t, oldest : t = tabs[c] /\ oldest = Oldest(chan, sent)
  OBVIOUS
<1>2. /\ t \in TabType /\ HistoryInv(t) /\ JoinedInv(t) /\ t.at \in Nat
      /\ oldest \in Nat /\ oldest <= sent /\ sent \in Nat
  BY <1>1, TabFacts, Numbers DEF ReplayInv
<1>3. t.conn = "live" /\ t.at < oldest
  BY <1>1 DEF Forward
<1>4. PICK v : v = [t EXCEPT !.at = oldest, !.lagged = TRUE]
  OBVIOUS
<1>5. tabs' = [tabs EXCEPT ![c] = v] /\ UNCHANGED Session /\ UNCHANGED inputs
  BY <1>1, <1>3, <1>4 DEF Forward, Session, Oldest
<1>6. /\ v \in TabType /\ v.conn = "live" /\ v.todo = t.todo /\ v.at = oldest /\ v.seen = t.seen
      /\ v.lagged = TRUE /\ v.again = t.again /\ v.skipped = t.skipped
      /\ v.joined = t.joined /\ v.cleared = t.cleared /\ v.busy = t.busy
  BY <1>2, <1>3, <1>4 DEF TabType
<1>7. HistoryInv(v)
  <2>1. Reach(v) = Reach(t) /\ ~Tracks(v)
    BY <1>6 DEF Reach, Tracks
  <2>2. \A k \in Kept : k > v.at => k > t.at
    BY <1>2, <1>3, <1>6, Numbers DEF ReplayInv
  <2> QED
    BY <1>2, <1>3, <1>6, <2>1, <2>2 DEF HistoryInv
<1>8. ModeInv(v) /\ BusyInv(v)
  BY <1>6 DEF ModeInv, BusyInv, Tracks
<1>9. JoinedInv(v)
  BY <1>2, <1>3, <1>6 DEF JoinedInv
<1> QED
  BY <1>2, <1>5, <1>6, <1>7, <1>8, <1>9, TabMovesAlone DEF TabInv

\* The message after the receiver's, which is in the window.
LEMMA NextMessage ==
  ASSUME Typed, NEW at \in Nat, at >= Oldest(chan, sent), at < sent, NEW next, next = at + 1
  PROVE  /\ next \in Kept /\ next > at /\ Msg(next) \in Message
         /\ \A k \in Kept : k > next => k > at
         /\ \A k \in Kept : k > at => k = next \/ k > next
         /\ \A kind : InChan(kind, at) => Msg(next).kind = kind \/ InChan(kind, next)
         /\ Msg(next).n # 0 => Msg(next) \in Event
         /\ ~(at < sent - Len(chan)) /\ Msg(next) = chan[at + 1 - (sent - Len(chan))]
<1>1. /\ sent \in Nat /\ Oldest(chan, sent) \in Nat
      /\ \A k \in Kept : k \in Nat /\ Msg(k) \in Message
  BY Numbers
<1>2. next \in Kept /\ next > at
  BY <1>1 DEF Kept
<1>3. \A k \in Kept : k > next => k > at
  BY <1>1
<1>4. \A k \in Kept : k > at => k = next \/ k > next
  BY <1>1
<1>5. \A kind : InChan(kind, at) => Msg(next).kind = kind \/ InChan(kind, next)
  BY <1>4 DEF InChan
<1>6. Msg(next).n # 0 => Msg(next) \in Event
  BY <1>1, <1>2 DEF Message
<1>7. ~(at < sent - Len(chan)) /\ Msg(next) = chan[at + 1 - (sent - Len(chan))]
  BY <1>1 DEF Msg, At, Oldest
<1> QED
  BY <1>1, <1>2, <1>3, <1>4, <1>5, <1>6, <1>7

\* A signal changes nothing of the history; a mode it tells is the fan-out's, or not the last.
LEMMA SignalStep ==
  ASSUME ReplayAssumption, ReplayInv, NEW c \in Clients, Forward(c),
         tabs[c].at >= Oldest(chan, sent),
         NEW next, next = tabs[c].at + 1, Msg(next).n = 0
  PROVE  ReplayInv'
<1>1. PICK t, m : t = tabs[c] /\ m = Msg(next)
  OBVIOUS
<1>2. /\ t \in TabType /\ HistoryInv(t) /\ ModeInv(t) /\ BusyInv(t) /\ JoinedInv(t)
      /\ t.at \in Nat /\ t.seen \in Nat /\ sent \in Nat
      /\ t.conn = "live" /\ t.at < sent /\ t.at >= Oldest(chan, sent)
  BY <1>1, TabFacts DEF Forward
<1>3. /\ next \in Kept /\ next > t.at /\ m \in Message /\ next \in Nat /\ next <= sent
      /\ \A k \in Kept : k > next => k > t.at
      /\ \A k \in Kept : k > t.at => k = next \/ k > next
      /\ \A kind : InChan(kind, t.at) => m.kind = kind \/ InChan(kind, next)
  BY <1>1, <1>2, NextMessage DEF ReplayInv
<1>4. /\ m.kind \in {"queue_mode", "queued"} /\ m.mode \in Modes
      /\ m.kind = "queue_mode" => Show(t, m) = [t EXCEPT !.mode = m.mode]
      /\ m.kind = "queued" => Show(t, m) = t
  BY <1>1, <1>2, <1>3, ShowSignal
<1>5. PICK u : u = Show(t, m)
  OBVIOUS
<1>6. /\ u \in TabType /\ u.conn = "live" /\ u.todo = t.todo /\ u.had = t.had /\ u.seen = t.seen
      /\ u.busy = t.busy /\ u.lagged = t.lagged /\ u.skipped = t.skipped /\ u.again = t.again
      /\ u.joined = t.joined /\ u.cleared = t.cleared /\ u.raced = t.raced /\ u.at = t.at
      /\ u.mode = IF m.kind = "queue_mode" THEN m.mode ELSE t.mode
  <2>1. CASE m.kind = "queue_mode"
    BY <1>2, <1>4, <1>5, <2>1 DEF TabType
  <2>2. CASE m.kind = "queued"
    BY <1>2, <1>4, <1>5, <2>2
  <2> QED
    BY <1>4, <2>1, <2>2
<1>7. PICK v : v = [u EXCEPT !.at = next]
  OBVIOUS
<1>8. tabs' = [tabs EXCEPT ![c] = v] /\ UNCHANGED Session /\ UNCHANGED inputs
  <2>1. ~(t.at < sent - Len(chan)) /\ m = chan[t.at + 1 - (sent - Len(chan))]
    BY <1>1, <1>2, NextMessage DEF ReplayInv
  <2>2. [Show(t, m) EXCEPT !.at = @ + 1] = v
    BY <1>1, <1>5, <1>6, <1>7 DEF TabType
  <2> QED
    BY <1>1, <2>1, <2>2 DEF Forward, Session
<1>9. /\ v \in TabType /\ v.conn = "live" /\ v.todo = t.todo /\ v.had = t.had /\ v.seen = t.seen
      /\ v.busy = t.busy /\ v.lagged = t.lagged /\ v.skipped = t.skipped /\ v.again = t.again
      /\ v.joined = t.joined /\ v.cleared = t.cleared /\ v.raced = t.raced /\ v.at = next
      /\ v.mode = IF m.kind = "queue_mode" THEN m.mode ELSE t.mode
  BY <1>3, <1>6, <1>7 DEF TabType
<1>10. Tracks(v) => Tracks(t)
  BY <1>2, <1>9 DEF Tracks
<1>11. HistoryInv(v)
  <2>1. Reach(v) = Reach(t) /\ Reach(t) \in Nat
    BY <1>2, <1>9, LenProperties DEF Reach, TabType
  <2>2. ASSUME NEW k \in Kept, k > t.at, Msg(k).n = Reach(t) + 1
        PROVE  k > next
    BY <1>1, <1>3, <2>1, <2>2
  <2> QED
    BY <1>2, <1>3, <1>9, <1>10, <2>1, <2>2 DEF HistoryInv
<1>12. ModeInv(v)
  <2>1. CASE m.kind = "queue_mode"
    BY <1>1, <1>3, <1>9, <2>1 DEF ReplayInv, SessionInv, ModesTold, ModeInv, ModeAhead
  <2>2. CASE m.kind = "queued"
    BY <1>2, <1>3, <1>9, <1>10, <2>2 DEF ModeInv, ModeAhead
  <2> QED
    BY <1>4, <2>1, <2>2
<1>13. BusyInv(v) /\ JoinedInv(v)
  BY <1>2, <1>3, <1>4, <1>9, <1>10 DEF BusyInv, Turning, EndAhead, JoinedInv
<1> QED
  BY <1>3, <1>8, <1>9, <1>11, <1>12, <1>13, TabMovesAlone DEF TabInv

\* An event is the one after those seen, unless the receiver lagged.
LEMMA EventStep ==
  ASSUME ReplayAssumption, ReplayInv, NEW c \in Clients, Forward(c),
         tabs[c].at >= Oldest(chan, sent),
         NEW next, next = tabs[c].at + 1, Msg(next).n # 0
  PROVE  ReplayInv'
<1>1. PICK t, m : t = tabs[c] /\ m = Msg(next)
  OBVIOUS
<1>2. /\ t \in TabType /\ HistoryInv(t) /\ ModeInv(t) /\ BusyInv(t) /\ JoinedInv(t)
      /\ t.at \in Nat /\ t.seen \in Nat /\ t.joined \in Nat /\ sent \in Nat /\ recorded \in Nat
      /\ fan.turn \in Nat /\ fan.bounds \in Nat
      /\ t.conn = "live" /\ t.at < sent /\ t.at >= Oldest(chan, sent) /\ t.todo = <<>>
  BY <1>1, TabFacts DEF Forward, HistoryInv
<1>3. /\ next \in Kept /\ next > t.at /\ m \in Event /\ m.n # 0 /\ next \in Nat /\ next <= sent
      /\ \A k \in Kept : k > next => k > t.at
      /\ \A k \in Kept : k > t.at => k = next \/ k > next
      /\ \A kind : InChan(kind, t.at) => m.kind = kind \/ InChan(kind, next)
  BY SMTT(20), <1>1, <1>2, NextMessage DEF ReplayInv
<1>4. /\ m.kind \in {"prompt", "block", "result"} /\ m.n \in Nat /\ m.of \in Nat
  BY <1>3 DEF Event
<1>5. PICK u : u = Show(t, m)
  OBVIOUS
<1>6. /\ u \in TabType
      /\ u.conn = t.conn /\ u.todo = t.todo /\ u.had = t.had /\ u.at = t.at
      /\ u.mode = t.mode /\ u.ran = t.ran /\ u.lagged = t.lagged
      /\ u.seen = m.n
      /\ u.again <=> t.again \/ m.n <= t.seen
      /\ u.skipped <=> t.skipped \/ m.n > t.seen + 1
      /\ u.busy <=> m.kind = "block" \/ (m.kind = "prompt" /\ t.busy)
      /\ u.raced <=> t.raced /\ m.kind # "result"
      /\ u.joined = IF m.kind = "result" /\ m.of = t.joined THEN 0 ELSE t.joined
      /\ u.cleared <=> /\ m.kind # "block"
                       /\ t.cleared \/ (m.kind = "result" /\ m.of < t.joined)
  BY SMTT(20), <1>2, <1>3, <1>5, ShowEvent
<1>7. PICK v : v = [u EXCEPT !.at = next]
  OBVIOUS
<1>8. tabs' = [tabs EXCEPT ![c] = v] /\ UNCHANGED Session /\ UNCHANGED inputs
  <2>1. ~(t.at < sent - Len(chan)) /\ m = chan[t.at + 1 - (sent - Len(chan))]
    BY <1>1, <1>2, NextMessage DEF ReplayInv
  <2>2. [Show(t, m) EXCEPT !.at = @ + 1] = v
    BY <1>1, <1>5, <1>6, <1>7 DEF TabType
  <2> QED
    BY <1>1, <2>1, <2>2 DEF Forward, Session
<1>9. /\ v \in TabType /\ v.at = next
      /\ v.conn = u.conn /\ v.todo = u.todo /\ v.had = u.had /\ v.seen = u.seen
      /\ v.mode = u.mode /\ v.ran = u.ran /\ v.lagged = u.lagged /\ v.again = u.again
      /\ v.skipped = u.skipped /\ v.busy = u.busy /\ v.raced = u.raced /\ v.joined = u.joined
      /\ v.cleared = u.cleared
  BY <1>3, <1>6, <1>7 DEF TabType
<1>10. Tracks(v) => Tracks(t)
  BY <1>2, <1>6, <1>9 DEF Tracks
<1>11. Reach(t) = t.seen /\ Reach(v) = m.n
  BY <1>2, <1>4, <1>6, <1>9, EmptySeq DEF Reach
<1>12. m.n > t.seen /\ m.n <= recorded
  BY <1>1, <1>2, <1>3, <1>11 DEF HistoryInv, ReplayInv, SessionInv, ChanInOrder
<1>13. Tracks(t) => m.n = t.seen + 1
  <2> SUFFICES ASSUME Tracks(t)
               PROVE  m.n = t.seen + 1
    OBVIOUS
  <2>1. PICK k \in Kept : k > t.at /\ Msg(k).n = t.seen + 1
    BY <1>2, <1>4, <1>11, <1>12 DEF HistoryInv
  <2>2. CASE k = next
    BY <1>1, <2>1, <2>2
  <2>3. CASE k > next
    <3>1. k \in Nat /\ next < k /\ Msg(k).n # 0
      BY <1>2, <1>3, <2>1, <2>3, Numbers DEF ReplayInv
    <3>2. \A i, j \in Kept : Msg(i).n # 0 /\ Msg(j).n # 0 /\ i < j => Msg(i).n < Msg(j).n
      BY DEF ReplayInv, SessionInv, ChanInOrder
    <3>3. Msg(next).n < Msg(k).n
      BY <1>3, <3>1, <3>2
    <3> QED
      BY <1>1, <1>2, <1>4, <1>12, <2>1, <3>3
  <2> QED
    BY <1>3, <2>1, <2>2, <2>3
<1>14. HistoryInv(v)
  <2>1. ~v.again
    BY <1>2, <1>4, <1>6, <1>9, <1>12 DEF HistoryInv
  <2>2. v.skipped => v.lagged
    BY <1>2, <1>4, <1>6, <1>9, <1>13 DEF HistoryInv, Tracks
  <2>3. v.conn = "live" /\ v.todo = <<>> /\ v.seen = m.n
    BY <1>2, <1>6, <1>9
  <2>4. ASSUME NEW k \in Kept, k > next, Msg(k).n # 0
        PROVE  Msg(k).n > m.n
    <3>1. k \in Nat /\ next < k
      BY <1>3, <2>4, Numbers DEF ReplayInv
    <3>2. \A i, j \in Kept : Msg(i).n # 0 /\ Msg(j).n # 0 /\ i < j => Msg(i).n < Msg(j).n
      BY DEF ReplayInv, SessionInv, ChanInOrder
    <3>3. Msg(next).n < Msg(k).n
      BY <1>3, <2>4, <3>1, <3>2
    <3>4. Msg(k).n \in Nat
      BY Numbers DEF ReplayInv, Message, Event
    <3> QED
      BY <1>1, <1>4, <3>3, <3>4
  <2>5. m.n = recorded \/ \E k \in Kept : k > next /\ Msg(k).n = m.n + 1
    BY <1>1, <1>3 DEF ReplayInv, SessionInv, ChanInOrder
  <2>6. \A i \in 1..Len(v.todo) : v.todo[i].n = v.seen + i
    BY <2>3, EmptySeq
  <2> QED
    BY <1>9, <1>11, <1>12, <2>1, <2>2, <2>3, <2>4, <2>5, <2>6 DEF HistoryInv
<1>15. ModeInv(v)
  BY <1>2, <1>3, <1>4, <1>6, <1>9, <1>10 DEF ModeInv, ModeAhead
<1>16. BusyInv(v)
  <2> SUFFICES ASSUME v.busy, Tracks(v)
               PROVE  EndAhead(v)
    BY <1>2, <1>6, <1>9 DEF BusyInv, Turning
  <2>1. CASE m.kind = "block"
    BY <1>1, <1>3, <1>9, <2>1 DEF ReplayInv, SessionInv, EndsTold, EndAhead
  <2>2. CASE m.kind = "prompt" /\ t.busy
    BY <1>2, <1>3, <1>6, <1>9, <1>10, <2>2 DEF BusyInv, Turning, EndAhead
  <2> QED
    BY <1>6, <1>9, <2>1, <2>2
<1>17. JoinedInv(v)
  <2>1. v.joined <= fan.turn
    BY <1>2, <1>6, <1>9 DEF JoinedInv
  <2>2. ASSUME v.joined > 0, ~v.cleared, fan.turn = v.joined, fan.bounds < fan.turn
        PROVE  v.busy
    <3>1. t.joined = v.joined /\ ~(m.kind = "result" /\ m.of = t.joined)
      BY <1>6, <1>9, <2>2
    <3>2. CASE m.kind = "block"
      BY <1>6, <1>9, <3>2
    <3>3. CASE m.kind = "prompt"
      BY <1>2, <1>6, <1>9, <2>2, <3>1, <3>3 DEF JoinedInv
    <3>4. CASE m.kind = "result"
      <4>1. m.of <= fan.bounds
        BY <1>1, <1>3, <3>4 DEF ReplayInv, SessionInv, EndsTold
      <4>2. m.of < t.joined
        BY <1>2, <1>4, <2>2, <3>1, <4>1
      <4> QED
        BY <1>6, <1>9, <2>2, <3>4, <4>2
    <3> QED
      BY <1>4, <3>2, <3>3, <3>4
  <2> QED
    BY <1>2, <1>6, <1>9, <2>1, <2>2 DEF JoinedInv
<1> QED
  BY <1>3, <1>8, <1>9, <1>14, <1>15, <1>16, <1>17, TabMovesAlone DEF TabInv

LEMMA ForwardStep ==
  ASSUME ReplayAssumption, ReplayInv, NEW c \in Clients, Forward(c)
  PROVE  ReplayInv'
<1>1. PICK next : next = tabs[c].at + 1
  OBVIOUS
<1>2. tabs[c].at < Oldest(chan, sent) \/ tabs[c].at >= Oldest(chan, sent)
  BY TabFacts, Numbers DEF ReplayInv
<1> QED
  BY <1>1, <1>2, LagStep, SignalStep, EventStep

LEMMA SendPromptStep ==
  ASSUME ReplayAssumption, ReplayInv, NEW c \in Clients, SendPrompt(c)
  PROVE  ReplayInv'
<1>1. PICK t : t = tabs[c]
  OBVIOUS
<1>2. /\ t \in TabType /\ t.at <= sent /\ t.conn = "live"
      /\ HistoryInv(t) /\ ModeInv(t) /\ JoinedInv(t)
  BY <1>1, TabFacts DEF SendPrompt
<1>3. PICK v : v = [t EXCEPT !.busy = TRUE]
  OBVIOUS
<1>4. tabs' = [tabs EXCEPT ![c] = v] /\ UNCHANGED Session /\ Input("prompt", "collect")
  <2>1. tabs' = [tabs EXCEPT ![c] = [tabs[c] EXCEPT !.busy = TRUE]]
    BY DEF SendPrompt
  <2> QED
    BY <1>1, <1>3, <2>1 DEF SendPrompt, Session
<1>5. /\ inputs' \in Seq(InputType) /\ InInputs("prompt")'
      /\ \A other : InInputs(other) => InInputs(other)'
  BY <1>4, InputAdded DEF ReplayInv, Modes
<1>6. /\ v \in TabType /\ v.conn = "live" /\ v.todo = t.todo /\ v.had = t.had /\ v.at = t.at
      /\ v.seen = t.seen /\ v.mode = t.mode /\ v.lagged = t.lagged /\ v.again = t.again
      /\ v.skipped = t.skipped /\ v.joined = t.joined /\ v.busy = TRUE
  BY <1>2, <1>3 DEF TabType
<1>7. HistoryInv(v) /\ ModeInv(v) /\ JoinedInv(v)
  BY <1>2, <1>6 DEF HistoryInv, ModeInv, ModeAhead, JoinedInv, Reach, Tracks
<1>8. HistoryInv(v)' /\ ModeInv(v)' /\ JoinedInv(v)'
  BY <1>4, <1>5, <1>7, TabKeepsTab
<1>9. BusyInv(v)'
  BY <1>5 DEF BusyInv, EndAhead
<1> QED
  BY <1>2, <1>4, <1>5, <1>6, <1>8, <1>9, TabMoves DEF TabInv

LEMMA SendModeStep ==
  ASSUME ReplayAssumption, ReplayInv, NEW c \in Clients, SendMode(c)
  PROVE  ReplayInv'
<1>1. PICK t : t = tabs[c]
  OBVIOUS
<1>2. /\ t \in TabType /\ t.at <= sent
      /\ HistoryInv(t) /\ BusyInv(t) /\ JoinedInv(t)
  BY <1>1, TabFacts
<1>3. PICK m \in Modes : Input("mode", m) /\ tabs' = [tabs EXCEPT ![c].mode = m]
  BY DEF SendMode
<1>4. PICK v : v = [t EXCEPT !.mode = m]
  OBVIOUS
<1>5. tabs' = [tabs EXCEPT ![c] = v] /\ UNCHANGED Session
  <2>1. tabs' = [tabs EXCEPT ![c] = [tabs[c] EXCEPT !.mode = m]]
    BY <1>3
  <2> QED
    BY <1>1, <1>4, <2>1 DEF SendMode, Session
<1>6. /\ inputs' \in Seq(InputType) /\ InInputs("mode")'
      /\ \A other : InInputs(other) => InInputs(other)'
  BY <1>3, InputAdded DEF ReplayInv
<1>7. /\ v \in TabType /\ v.conn = t.conn /\ v.todo = t.todo /\ v.at = t.at
      /\ v.seen = t.seen /\ v.lagged = t.lagged /\ v.again = t.again /\ v.ran = t.ran
      /\ v.skipped = t.skipped /\ v.joined = t.joined /\ v.busy = t.busy
      /\ v.cleared = t.cleared /\ v.raced = t.raced
  BY <1>2, <1>4 DEF TabType
<1>8. HistoryInv(v) /\ BusyInv(v) /\ JoinedInv(v)
  BY <1>2, <1>7 DEF HistoryInv, BusyInv, Turning, EndAhead, JoinedInv, Reach, Tracks
<1>9. HistoryInv(v)' /\ BusyInv(v)' /\ JoinedInv(v)'
  BY <1>5, <1>6, <1>8, TabKeepsTab
<1>10. ModeInv(v)'
  BY <1>6 DEF ModeInv, ModeAhead
<1> QED
  BY <1>2, <1>5, <1>6, <1>7, <1>9, <1>10, TabMoves DEF TabInv

LEMMA SendInterruptStep ==
  ASSUME ReplayAssumption, ReplayInv, NEW c \in Clients, SendInterrupt(c)
  PROVE  ReplayInv'
<1>1. PICK t : t = tabs[c]
  OBVIOUS
<1>2. /\ t \in TabType /\ t.at <= sent
      /\ HistoryInv(t) /\ ModeInv(t) /\ BusyInv(t) /\ JoinedInv(t)
  BY <1>1, TabFacts
<1>3. Input("interrupt", "collect") /\ UNCHANGED Session
  BY DEF SendInterrupt, Session
<1>4. tabs' = [tabs EXCEPT ![c] = t]
  BY <1>1 DEF SendInterrupt, ReplayInv, Typed
<1>5. /\ inputs' \in Seq(InputType) /\ \A other : InInputs(other) => InInputs(other)'
  BY <1>3, InputAdded DEF ReplayInv, Modes
<1>6. TabInv(t)'
  BY <1>2, <1>3, <1>5, TabKeepsTab DEF TabInv
<1> QED
  BY <1>2, <1>3, <1>4, <1>5, <1>6, TabMoves

-----------------------------------------------------------------------------
(* The invariant, and what it says of the properties *)

LEMMA ReplayInit ==
  ASSUME ReplayAssumption, Init
  PROVE  ReplayInv
<1>1. Offline \in TabType /\ Offline.at = 0
  BY DEF Offline, TabType, Modes
<1>2. <<>> \in Seq(Event) /\ <<>> \in Seq(Message) /\ <<>> \in Seq(InputType) /\ Len(<<>>) = 0
  BY EmptySeq
<1>3. fan \in FanType /\ mirror \in [running : BOOLEAN, mode : Modes]
  BY DEF Init, FanType, Modes
<1>4. Typed
  BY <1>1, <1>2, <1>3 DEF Init, Typed, ReplayAssumption
<1>5. Kept = {}
  BY <1>2 DEF Kept, Oldest, Init
<1>6. SessionInv
  BY <1>2, <1>5 DEF Init, SessionInv, LogIsWhole, ChanInOrder, FanCounts, EndsTold, ModesTold
<1>7. ASSUME NEW c \in Clients
      PROVE  TabInv(tabs[c])
  <2>1. tabs[c] = Offline
    BY DEF Init
  <2>2. HistoryInv(Offline) /\ ModeInv(Offline) /\ BusyInv(Offline) /\ JoinedInv(Offline)
    BY DEF Init, Offline, HistoryInv, ModeInv, BusyInv, Turning, JoinedInv
  <2> QED
    BY <2>1, <2>2 DEF TabInv
<1> QED
  BY <1>4, <1>6, <1>7 DEF ReplayInv

LEMMA TabStep ==
  ASSUME ReplayAssumption, ReplayInv, NEW c \in Clients, Tab(c)
  PROVE  ReplayInv'
BY ConnectStep, ReplayStep, ReadRunningStep, ReplayDoneStep, ForwardStep, DisconnectStep,
   SendPromptStep, SendModeStep, SendInterruptStep DEF Tab

LEMMA ReplayStutter ==
  ASSUME ReplayInv, UNCHANGED vars
  PROVE  ReplayInv'
<1>1. UNCHANGED Session /\ UNCHANGED inputs /\ UNCHANGED tabs
  BY DEF vars, Session
<1>2. Typed'
  BY <1>1 DEF ReplayInv, Typed, Session
<1>3. SessionInv'
  BY <1>1, TabKeepsSession DEF ReplayInv
<1>4. ASSUME NEW c \in Clients
      PROVE  TabInv(tabs[c])'
  <2>1. PICK t : t = tabs[c] /\ t = tabs'[c]
    BY <1>1
  <2>2. \A kind : InInputs(kind) => InInputs(kind)'
    BY <1>1 DEF InInputs
  <2>3. TabInv(t)'
    BY <1>1, <2>1, <2>2, TabKeepsTab DEF ReplayInv, TabInv
  <2> QED
    BY <2>1, <2>3
<1> QED
  BY <1>2, <1>3, <1>4 DEF ReplayInv

\* The inductive invariant: what a tab has seen, has in hand and has ahead of it on the
\* channel, against what the fan-out recorded, told and is doing.
THEOREM ReplayInvariant == Spec => []ReplayInv
<1>1. Init => ReplayInv
  BY ReplayInit, ReplayAssumption
<1>2. ReplayInv /\ [Next]_vars => ReplayInv'
  BY FanStep, TabStep, ReplayStutter, ReplayAssumption DEF Next
<1> QED
  BY <1>1, <1>2, PTL DEF Spec

\* The invariant's types are TypeOK's.
LEMMA TypesAreOK ==
  ASSUME ReplayInv
  PROVE  TypeOK
<1>1. ASSUME NEW c \in Clients
      PROVE  /\ tabs[c].conn \in {"off", "replay", "asked", "live"}
             /\ tabs[c].todo \in Seq(Event)
             /\ tabs[c].at \in 0..sent /\ tabs[c].seen \in 0..recorded
             /\ tabs[c].mode \in Modes
             /\ {tabs[c].busy, tabs[c].lagged} \subseteq BOOLEAN
  <2>1. tabs[c].seen <= recorded
    BY TabFacts DEF HistoryInv
  <2> QED
    BY <2>1, TabFacts DEF TabType
<1> QED
  BY <1>1 DEF ReplayInv, Typed, TypeOK, FanType, InputType

\* A tab shows every event recorded since the eldest one it was given, each once, wherever
\* its connection fell between the fan-out's steps, unless the channel overtook it; and
\* what is kept for a tab to come has the newest event, no hole, and fits the cap or is one
\* event (subscribe_with_history, record_and_broadcast and its eviction loop).
THEOREM HistoryWhole == Spec => []HistoryIsWhole
<1>1. ReplayInv => HistoryIsWhole
  <2> SUFFICES ASSUME ReplayInv
               PROVE  HistoryIsWhole
    OBVIOUS
  <2>1. TypeOK
    BY TypesAreOK
  <2>2. EveryEventOnce
    <3> SUFFICES ASSUME NEW c \in Clients
                 PROVE  /\ ~tabs[c].again
                        /\ tabs[c].skipped => tabs[c].lagged
                        /\ CaughtUp(tabs[c]) /\ ~tabs[c].lagged => tabs[c].seen = recorded
      BY DEF EveryEventOnce
    <3>1. ASSUME CaughtUp(tabs[c]), ~tabs[c].lagged
          PROVE  tabs[c].seen = recorded
      <4>1. tabs[c].conn = "live" /\ tabs[c].at = sent /\ tabs[c].todo = <<>>
        BY <3>1, TabFacts DEF CaughtUp, HistoryInv
      <4>2. Reach(tabs[c]) = tabs[c].seen
        BY <4>1, TabFacts, EmptySeq DEF Reach
      <4>3. Tracks(tabs[c]) /\ ~\E k \in Kept : k > tabs[c].at
        BY <3>1, <4>1, Numbers DEF Tracks, ReplayInv
      <4> QED
        BY <4>1, <4>2, <4>3, TabFacts DEF HistoryInv
    <3> QED
      BY <3>1, TabFacts DEF HistoryInv
  <2>3. NewestReplayable
    <3> SUFFICES ASSUME recorded > 0
                 PROVE  /\ log # <<>> /\ Last(log).n = recorded
                        /\ \A i \in DOMAIN log : log[i].n = recorded - Len(log) + i
                        /\ Weight(log) <= Room \/ Len(log) = 1
      BY DEF NewestReplayable
    <3>1. /\ log \in Seq(Event) /\ log # <<>> /\ recorded \in Nat
          /\ \A i \in 1..Len(log) : log[i].n = recorded - Len(log) + i
          /\ Weight(log) <= Room \/ Len(log) = 1
      BY DEF ReplayInv, Typed, SessionInv, LogIsWhole
    <3>2. Len(log) \in Nat \ {0} /\ DOMAIN log = 1..Len(log)
      BY <3>1, EmptySeq, LenProperties
    <3>3. Last(log).n = recorded
      BY <3>1, <3>2 DEF Last
    <3> QED
      BY <3>1, <3>2, <3>3
  <2> QED
    BY <2>1, <2>2, <2>3 DEF HistoryIsWhole
<1> QED
  BY <1>1, ReplayInvariant, PTL

\* Whichever tab changed the mode and in whatever order the changes, the broadcasts and the
\* connections fell: a tab that was told the mode when it connected and has taken every
\* message assumes the fan-out's mode (mark_queue_mode, emit_queue_mode and replay_done).
THEOREM ModesAgree == Spec => []ModeAgrees
<1>1. ReplayInv => ModeAgrees
  <2> SUFFICES ASSUME ReplayInv, NEW c \in Clients, Quiet, CaughtUp(tabs[c]),
                      tabs[c].had, ~tabs[c].lagged
               PROVE  tabs[c].mode = fan.mode
    BY DEF ModeAgrees
  <2>1. tabs[c].conn = "live" /\ tabs[c].at = sent
    BY DEF CaughtUp
  <2>2. Tracks(tabs[c]) /\ ~\E k \in Kept : k > tabs[c].at
    BY <2>1, Numbers DEF Tracks, ReplayInv
  <2>3. fan.pc = "free" /\ ~InInputs("mode")
    BY EmptySeq DEF Quiet, InInputs
  <2> QED
    BY <2>1, <2>2, <2>3, TabFacts DEF ModeInv, ModeAhead, InChan
<1> QED
  BY <1>1, ReplayInvariant, PTL

\* The turn a tab shows is the turn there is: none when there is none, running or to come
\* (but for prompts an interrupt threw away between two turns, and a turn state read between
\* a result's broadcast and mark_turn(Idle)), and the one it connected in until that ends.
THEOREM BusyTrue == Spec => []BusyIsTrue
<1>1. ReplayInv => NoPhantomBusy
  <2> SUFFICES ASSUME ReplayInv, NEW c \in Clients, Quiet, CaughtUp(tabs[c]),
                      ~tabs[c].lagged, ~fan.running, ~fan.window, ~fan.dropped, ~tabs[c].raced
               PROVE  ~tabs[c].busy
    BY DEF NoPhantomBusy
  <2>1. tabs[c].conn = "live" /\ tabs[c].at = sent
    BY DEF CaughtUp
  <2>2. Tracks(tabs[c]) /\ ~\E k \in Kept : k > tabs[c].at
    BY <2>1, Numbers DEF Tracks, ReplayInv
  <2>3. ~InInputs("prompt")
    BY EmptySeq DEF Quiet, InInputs
  <2>4. ~(fan.bounds < fan.turn)
    BY DEF ReplayInv, SessionInv, FanCounts
  <2>5. ~EndAhead(tabs[c])
    BY <2>2, <2>3, <2>4 DEF EndAhead, InChan
  <2> QED
    BY <2>1, <2>2, <2>5, TabFacts DEF BusyInv, Turning
<1>2. ReplayInv => LiveTurnShown
  BY TabFacts DEF LiveTurnShown, JoinedInv
<1> QED
  BY <1>1, <1>2, ReplayInvariant, PTL DEF BusyIsTrue
===============================================================================
