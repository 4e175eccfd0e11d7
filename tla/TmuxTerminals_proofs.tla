-------------------------- MODULE TmuxTerminals_proofs --------------------------
(***************************************************************************)
(* Proofs about TmuxTerminals, for any number of terminals, restarts and   *)
(* tmux sessions and any undo window: its types, that a close waits its    *)
(* window out, and that it is not reported as an end.                      *)
(***************************************************************************)
EXTENDS TmuxTerminals, TLAPS

LEMMA BoundFacts ==
  /\ 0 \in Times /\ 0 \in 0..MaxGen /\ 0 \in 0..MaxRestarts /\ Dev \in Names
  /\ \A i \in Ids : i \in Names
  /\ FirstStep = "remove"
  /\ (CHOOSE p \in {"remove", "kill"} : p # FirstStep) = "kill"
BY BoundsAssumption DEF Times, Names, FirstStep

LEMMA EmptyFacts ==
  /\ NoSession \in SessionState /\ NoRow \in RowState /\ NoFan \in FanState
  /\ NoFin \in FinState /\ NoMake \in MakeState
BY BoundFacts
   DEF NoSession, SessionState, NoRow, RowState, NoFan, FanState, NoFin, FinState, NoMake, MakeState

LEMMA TypeInit == Init => TypeOK
<1> SUFFICES ASSUME Init PROVE TypeOK
  OBVIOUS
<1>1. /\ clock \in Times /\ restarts \in 0..MaxRestarts /\ gens \in 0..MaxGen
      /\ host \in [Names -> 0..MaxGen]
  BY BoundFacts DEF Init
<1>2. /\ sess \in [Ids -> SessionState] /\ row \in [Ids -> RowState] /\ fan \in [Ids -> FanState]
      /\ making \in [Ids -> MakeState] /\ fin \in [Ids -> FinState]
  BY EmptyFacts DEF Init
<1>3. /\ conn \in [Ids -> {"none", "asking", "ready", "spawning"}]
      /\ timers \in [Ids -> SUBSET Times] /\ killed \in [Ids -> SUBSET (1..MaxGen)]
      /\ booting \in BOOLEAN
  BY DEF Init
<1> QED
  BY <1>1, <1>2, <1>3 DEF TypeOK

LEMMA SessionTyped == TypeOK /\ [Next]_vars => sess' \in [Ids -> SessionState]
<1> SUFFICES ASSUME TypeOK, [Next]_vars PROVE sess' \in [Ids -> SessionState]
  OBVIOUS
<1>t. sess \in [Ids -> SessionState]
  BY DEF TypeOK
<1>1. ASSUME NEW i \in Ids, CreateInsert(i) PROVE sess' \in [Ids -> SessionState]
  <2>1. making[i].name \in Names
    BY DEF TypeOK, MakeState
  <2>2. [NoSession EXCEPT !.listed = TRUE, !.name = making[i].name, !.own = making[i].name # Dev,
                          !.status = "running", !.running = TRUE] \in SessionState
    BY <2>1, EmptyFacts DEF SessionState
  <2> QED
    BY <1>1, <1>t, <2>2 DEF CreateInsert
<1>2. ASSUME NEW i \in Ids, ConnectHas(i) \/ FanMark(i) PROVE sess' \in [Ids -> SessionState]
  <2>1. MarkEnded(i) \/ sess' = sess
    BY <1>2 DEF ConnectHas, FanMark
  <2>2. CASE MarkEnded(i)
    BY <1>t, <2>2 DEF MarkEnded, SessionState
  <2> QED
    BY <1>t, <2>1, <2>2
<1>3. ASSUME NEW i \in Ids, EnsureDecide(i) PROVE sess' \in [Ids -> SessionState]
  BY <1>3, <1>t DEF EnsureDecide, SessionState
<1>4. ASSUME NEW i \in Ids, EnsureInstall(i) PROVE sess' \in [Ids -> SessionState]
  <2>1. \/ sess' = sess
        \/ sess' = [sess EXCEPT ![i].spawning = FALSE, ![i].running = TRUE, ![i].status = "running"]
    BY <1>4 DEF EnsureInstall
  <2> DEFINE new == [sess[i] EXCEPT !.spawning = FALSE, !.running = TRUE, !.status = "running"]
  <2>2. new \in SessionState
    BY <1>t DEF SessionState
  <2>3. sess' = sess \/ sess' = [sess EXCEPT ![i] = new]
    BY <1>t, <2>1
  <2> HIDE DEF new
  <2> QED
    BY <1>t, <2>2, <2>3
<1>5. ASSUME NEW i \in Ids, FanExit(i) PROVE sess' \in [Ids -> SessionState]
  BY <1>5, <1>t DEF FanExit, SessionState
<1>6. ASSUME NEW i \in Ids, Revive(i) PROVE sess' \in [Ids -> SessionState]
  BY <1>6, <1>t DEF Revive, SessionState
<1>7. ASSUME NEW i \in Ids, Close(i) \/ Restore(i) \/ Reconcile(i)
      PROVE  sess' \in [Ids -> SessionState]
  <2>1. clock \in Times /\ Window \in Nat /\ MaxClock \in Nat
    BY BoundsAssumption DEF TypeOK
  <2>2. ASSUME NEW t \in Times \cup {NoTime}, sess' = [sess EXCEPT ![i].until = t]
        PROVE  sess' \in [Ids -> SessionState]
    BY <1>t, <2>2 DEF SessionState
  <2>3. CASE Close(i)
    <3>1. clock + Window \in Times /\ sess' = [sess EXCEPT ![i].until = clock + Window]
      <4>1. clock + Window <= MaxClock
        BY <2>3 DEF Close
      <4>2. clock + Window \in Times
        BY <4>1, <2>1 DEF Times
      <4> QED
        BY <2>3, <4>2 DEF Close
    <3> QED
      BY <2>2, <3>1
  <2>4. CASE Restore(i)
    BY <2>2, <2>4 DEF Restore
  <2>5. CASE Reconcile(i)
    BY <2>2, <2>5, BoundFacts DEF Reconcile
  <2> QED
    BY <1>7, <2>3, <2>4, <2>5
<1>8. ASSUME NEW i \in Ids, FinRemove(i) PROVE sess' \in [Ids -> SessionState]
  <2>1. [NoSession EXCEPT !.name = sess[i].name] \in SessionState
    BY <1>t, EmptyFacts DEF SessionState
  <2> QED
    BY <1>8, <1>t, <2>1 DEF FinRemove
<1>9. CASE Restart
  <2>1. ASSUME NEW i \in Ids
        PROVE  [NoSession EXCEPT !.listed = row[i].listed, !.name = row[i].name, !.own = row[i].own,
                                 !.until = row[i].until] \in SessionState
    <3>1. row[i] \in RowState
      BY DEF TypeOK
    <3> QED
      BY <3>1, EmptyFacts DEF SessionState, RowState
  <2> QED
    BY <1>9, <2>1 DEF Restart
<1>10. CASE UNCHANGED sess
  BY <1>10, <1>t
<1> QED
  BY <1>1, <1>2, <1>3, <1>4, <1>8, <1>9, <1>10, <1>5, <1>6, <1>7 DEF Next, CreateOwn, CreateAttach, CreateHas,
     ConnectLook, FanHas, TimerFires, FinKill, Booted, HostOpens, HostEnds, TimePasses, Finaliser,
     vars

LEMMA RowTyped == TypeOK /\ [Next]_vars => row' \in [Ids -> RowState]
<1> SUFFICES ASSUME TypeOK, [Next]_vars PROVE row' \in [Ids -> RowState]
  OBVIOUS
<1>t. row \in [Ids -> RowState] /\ sess' \in [Ids -> SessionState]
  BY SessionTyped DEF TypeOK
<1>1. ASSUME NEW i \in Ids, CreateInsert(i) \/ Revive(i) PROVE row' \in [Ids -> RowState]
  <2>1. RowOf(sess'[i]) \in RowState
    BY <1>t DEF RowOf, SessionState, RowState
  <2>2. row' = [row EXCEPT ![i] = RowOf(sess'[i])]
    BY <1>1 DEF CreateInsert, Revive
  <2> QED
    BY <1>t, <2>1, <2>2
<1>2. ASSUME NEW i \in Ids, Close(i) \/ Restore(i) PROVE row' \in [Ids -> RowState]
  <2>1. row' = [row EXCEPT ![i].until = sess'[i].until]
    BY <1>2 DEF Close, Restore, TypeOK, SessionState
  <2>2. sess'[i].until \in Times \cup {NoTime}
    BY <1>t DEF SessionState
  <2> QED
    BY <1>t, <2>1, <2>2 DEF RowState
<1>3. ASSUME NEW i \in Ids, FinRemove(i) PROVE row' \in [Ids -> RowState]
  BY <1>3, <1>t, EmptyFacts DEF FinRemove
<1>4. CASE UNCHANGED row
  BY <1>4, <1>t
<1> QED
  BY <1>1, <1>2, <1>3, <1>4 DEF Next, CreateOwn, CreateAttach, CreateHas, ConnectLook, ConnectHas,
     EnsureDecide, EnsureInstall, FanExit, FanHas, FanMark, TimerFires, FinKill, Reconcile, Booted,
     Restart, HostOpens, HostEnds, TimePasses, Finaliser, vars

LEMMA HostTyped ==
  TypeOK /\ [Next]_vars =>
    host' \in [Names -> 0..MaxGen] /\ gens' \in 0..MaxGen /\ killed' \in [Ids -> SUBSET (1..MaxGen)]
<1> SUFFICES ASSUME TypeOK, [Next]_vars
             PROVE  /\ host' \in [Names -> 0..MaxGen] /\ gens' \in 0..MaxGen
                    /\ killed' \in [Ids -> SUBSET (1..MaxGen)]
  OBVIOUS
<1>t. /\ host \in [Names -> 0..MaxGen] /\ gens \in 0..MaxGen /\ MaxGen \in Nat
      /\ killed \in [Ids -> SUBSET (1..MaxGen)]
  BY BoundsAssumption DEF TypeOK
<1>1. ASSUME NEW n \in Names, CanAttach(n), NewSessionA(n)
      PROVE  host' \in [Names -> 0..MaxGen] /\ gens' \in 0..MaxGen
  <2>1. CASE host[n] # 0
    BY <1>1, <1>t, <2>1 DEF NewSessionA, tmux
  <2>2. CASE host[n] = 0
    <3>1. gens + 1 \in 0..MaxGen /\ host' = [host EXCEPT ![n] = gens + 1] /\ gens' = gens + 1
      BY <1>1, <1>t, <2>2 DEF NewSessionA, CanAttach
    <3> QED
      BY <1>t, <3>1
  <2> QED
    BY <2>1, <2>2
<1>2. ASSUME NEW i \in Ids, CreateInsert(i) \/ EnsureInstall(i)
      PROVE  host' \in [Names -> 0..MaxGen] /\ gens' \in 0..MaxGen /\ killed' = killed
  <2>1. making[i].name \in Names /\ sess[i].name \in Names
    BY DEF TypeOK, MakeState, SessionState
  <2> QED
    BY <1>1, <1>2, <2>1 DEF CreateInsert, EnsureInstall
<1>3. CASE HostOpens
  BY <1>1, <1>3, <1>t, BoundFacts DEF HostOpens, CanAttach
<1>4. ASSUME NEW n \in Names, HostEnds(n)
      PROVE  host' \in [Names -> 0..MaxGen] /\ gens' = gens /\ killed' = killed
  BY <1>4, <1>t, BoundFacts DEF HostEnds
<1>5. ASSUME NEW i \in Ids, FinKill(i)
      PROVE  /\ host' \in [Names -> 0..MaxGen] /\ gens' = gens
             /\ killed' \in [Ids -> SUBSET (1..MaxGen)]
  <2>1. fin[i].name \in Names
    BY DEF TypeOK, FinState
  <2>2. CASE UNCHANGED <<host, killed>>
    BY <1>5, <1>t, <2>2 DEF FinKill
  <2>3. CASE /\ host[fin[i].name] # 0 /\ host' = [host EXCEPT ![fin[i].name] = 0]
             /\ killed' = [killed EXCEPT ![i] = @ \cup {host[fin[i].name]}]
    <3>1. host[fin[i].name] \in 1..MaxGen
      BY <1>t, <2>1, <2>3
    <3> QED
      BY <1>5, <1>t, <2>1, <2>3, <3>1, BoundFacts DEF FinKill
  <2> QED
    BY <1>5, <2>2, <2>3 DEF FinKill
<1>6. CASE UNCHANGED <<host, gens, killed>>
  BY <1>6, <1>t
<1> QED
  BY <1>t, <1>2, <1>3, <1>4, <1>5, <1>6 DEF Next, CreateOwn, CreateAttach, CreateHas, ConnectLook,
     ConnectHas, EnsureDecide, FanExit, FanHas, FanMark, Revive, Close, Restore, TimerFires,
     FinRemove, Reconcile, Booted, Restart, HostOpens, TimePasses, Finaliser, tmux, vars

LEMMA FanTyped == TypeOK /\ [Next]_vars => fan' \in [Ids -> FanState]
<1> SUFFICES ASSUME TypeOK, [Next]_vars PROVE fan' \in [Ids -> FanState]
  OBVIOUS
<1>t. fan \in [Ids -> FanState] /\ host' \in [Names -> 0..MaxGen]
  BY HostTyped DEF TypeOK
<1>1. ASSUME NEW i \in Ids, CreateInsert(i) \/ EnsureInstall(i) PROVE fan' \in [Ids -> FanState]
  <2>1. making[i].name \in Names /\ sess[i].name \in Names
    BY DEF TypeOK, MakeState, SessionState
  <2>2. \A n \in Names : [pc |-> "up", gen |-> host'[n]] \in FanState
    BY <1>t DEF FanState
  <2>3. fan' = fan \/ \E n \in Names : fan' = [fan EXCEPT ![i] = [pc |-> "up", gen |-> host'[n]]]
    BY <1>1, <2>1 DEF CreateInsert, EnsureInstall
  <2> QED
    BY <1>t, <2>2, <2>3
<1>2. ASSUME NEW i \in Ids, FanExit(i) \/ FanHas(i) \/ FanMark(i) PROVE fan' \in [Ids -> FanState]
  BY <1>2, <1>t, EmptyFacts DEF FanExit, FanHas, FanMark, FanState
<1>3. CASE Restart
  BY <1>3, EmptyFacts DEF Restart
<1>4. CASE UNCHANGED fan
  BY <1>4, <1>t
<1> QED
  BY <1>1, <1>2, <1>3, <1>4 DEF Next, CreateOwn, CreateAttach, CreateHas, ConnectLook, ConnectHas,
     EnsureDecide, Revive, Close, Restore, TimerFires, FinRemove, FinKill, Reconcile, Booted,
     HostOpens, HostEnds, TimePasses, Finaliser, vars

LEMMA MakeTyped == TypeOK /\ [Next]_vars => making' \in [Ids -> MakeState]
<1> SUFFICES ASSUME TypeOK, [Next]_vars PROVE making' \in [Ids -> MakeState]
  OBVIOUS
<1>t. making \in [Ids -> MakeState]
  BY DEF TypeOK
<1>1. ASSUME NEW i \in Ids, CreateOwn(i) \/ \E n \in Names : CreateAttach(i, n)
      PROVE  making' \in [Ids -> MakeState]
  <2>1. \A n \in Names : /\ [pc |-> "has", name |-> n] \in MakeState
                        /\ [pc |-> "tracked", name |-> n] \in MakeState
    BY DEF MakeState
  <2>2. \E n \in Names : \/ making' = [making EXCEPT ![i] = [pc |-> "has", name |-> n]]
                        \/ making' = [making EXCEPT ![i] = [pc |-> "tracked", name |-> n]]
    BY <1>1, BoundFacts DEF CreateOwn, CreateAttach
  <2> QED
    BY <1>t, <2>1, <2>2
<1>2. ASSUME NEW i \in Ids, CreateHas(i) \/ CreateInsert(i) PROVE making' \in [Ids -> MakeState]
  BY <1>2, <1>t DEF CreateHas, CreateInsert, MakeState
<1>3. CASE Restart
  BY <1>3, <1>t, EmptyFacts DEF Restart
<1>4. CASE UNCHANGED making
  BY <1>4, <1>t
<1> QED
  BY <1>1, <1>2, <1>3, <1>4 DEF Next, ConnectLook, ConnectHas, EnsureDecide, EnsureInstall, FanExit,
     FanHas, FanMark, Revive, Close, Restore, TimerFires, FinRemove, FinKill, Reconcile, Booted,
     HostOpens, HostEnds, TimePasses, Finaliser, vars

LEMMA FinTyped == TypeOK /\ [Next]_vars => fin' \in [Ids -> FinState]
<1> SUFFICES ASSUME TypeOK, [Next]_vars PROVE fin' \in [Ids -> FinState]
  OBVIOUS
<1>t. fin \in [Ids -> FinState] /\ sess \in [Ids -> SessionState]
  BY DEF TypeOK
<1>1. ASSUME NEW i \in Ids, Disturbs(i) PROVE fin' \in [Ids -> FinState]
  BY <1>1, <1>t DEF Disturbs, FinState
<1>2. ASSUME NEW i \in Ids PROVE Reading(i) \in FinState
  BY <1>t, BoundFacts DEF Reading, SessionState, FinState
<1>3. ASSUME NEW i \in Ids PROVE Done(i) \in [Ids -> FinState]
  BY <1>t, BoundFacts, EmptyFacts DEF Done, FinState
<1>4. ASSUME NEW i \in Ids, (\E t \in timers[i] : TimerFires(i, t)) \/ Reconcile(i)
      PROVE  fin' \in [Ids -> FinState]
  BY <1>4, <1>2, <1>t DEF TimerFires, Reconcile
<1>5. ASSUME NEW i \in Ids, FinRemove(i) \/ FinKill(i) PROVE fin' \in [Ids -> FinState]
  BY <1>5, <1>3 DEF FinRemove, FinKill
<1>6. CASE Restart
  BY <1>6, EmptyFacts DEF Restart
<1>7. CASE UNCHANGED fin
  BY <1>7, <1>t
<1> QED
  BY <1>1, <1>4, <1>5, <1>6, <1>7 DEF Next, CreateOwn, CreateAttach, CreateHas, CreateInsert,
     ConnectLook, ConnectHas, EnsureDecide, EnsureInstall, FanExit, FanHas, FanMark, Revive, Close,
     Restore, Booted, HostOpens, HostEnds, TimePasses, Finaliser, vars

LEMMA RestTyped ==
  TypeOK /\ [Next]_vars =>
    /\ clock' \in Times /\ restarts' \in 0..MaxRestarts /\ booting' \in BOOLEAN
    /\ conn' \in [Ids -> {"none", "asking", "ready", "spawning"}]
    /\ timers' \in [Ids -> SUBSET Times]
<1> SUFFICES ASSUME TypeOK, [Next]_vars
             PROVE  /\ clock' \in Times /\ restarts' \in 0..MaxRestarts /\ booting' \in BOOLEAN
                    /\ conn' \in [Ids -> {"none", "asking", "ready", "spawning"}]
                    /\ timers' \in [Ids -> SUBSET Times]
  OBVIOUS
<1>t. /\ clock \in Times /\ restarts \in 0..MaxRestarts /\ booting \in BOOLEAN
      /\ conn \in [Ids -> {"none", "asking", "ready", "spawning"}]
      /\ timers \in [Ids -> SUBSET Times]
  BY DEF TypeOK
<1>1. CASE Restart
  <2>1. restarts' \in 0..MaxRestarts
    <3>1. restarts < MaxRestarts /\ restarts' = restarts + 1
      BY <1>1 DEF Restart
    <3> QED
      BY <3>1, <1>t, BoundsAssumption
  <2> QED
    BY <1>1, <1>t, <2>1 DEF Restart
<1>2. CASE TimePasses
  <2>1. clock' \in Times
    BY <1>2, <1>t, BoundsAssumption DEF TimePasses, Times
  <2> QED
    BY <1>2, <1>t, <2>1 DEF TimePasses
<1>3. ASSUME NEW i \in Ids,
             Close(i) \/ \E t \in timers[i] : TimerFires(i, t)
      PROVE  /\ clock' = clock /\ restarts' = restarts /\ booting' = booting /\ conn' = conn
             /\ timers' \in [Ids -> SUBSET Times]
  <2>1. clock + Window <= MaxClock => clock + Window \in Times
    BY <1>t, BoundsAssumption DEF Times
  <2>2. CASE Close(i)
    <3>1. clock + Window \in Times
      BY <2>1, <2>2 DEF Close
    <3> QED
      BY <2>2, <1>t, <3>1 DEF Close
  <2>3. ASSUME NEW t \in timers[i], TimerFires(i, t)
        PROVE  /\ clock' = clock /\ restarts' = restarts /\ booting' = booting /\ conn' = conn
               /\ timers' \in [Ids -> SUBSET Times]
    BY <2>3, <1>t DEF TimerFires
  <2> QED
    BY <1>3, <2>2, <2>3
<1>4. ASSUME NEW i \in Ids,
             ConnectLook(i) \/ ConnectHas(i) \/ EnsureDecide(i) \/ EnsureInstall(i)
      PROVE  /\ clock' = clock /\ restarts' = restarts /\ booting' = booting /\ timers' = timers
             /\ conn' \in [Ids -> {"none", "asking", "ready", "spawning"}]
  BY <1>4, <1>t DEF ConnectLook, ConnectHas, EnsureDecide, EnsureInstall
<1>5. CASE UNCHANGED <<clock, restarts, conn, timers>> /\ (booting' = booting \/ booting' = FALSE)
  BY <1>5, <1>t
<1> QED
  BY <1>t, <1>1, <1>2, <1>3, <1>4, <1>5 DEF Next, CreateOwn, CreateAttach, CreateHas, CreateInsert,
     FanExit, FanHas, FanMark, Revive, Restore, FinRemove, FinKill, Reconcile, Booted, HostOpens,
     HostEnds, Finaliser, vars

LEMMA TypeStep == TypeOK /\ [Next]_vars => TypeOK'
BY SessionTyped, RowTyped, HostTyped, FanTyped, MakeTyped, FinTyped, RestTyped DEF TypeOK

\* Every variable of the terminals keeps its type.
THEOREM TypeCorrect == Spec => []TypeOK
BY TypeInit, TypeStep, PTL DEF Spec

-----------------------------------------------------------------------------
(* A close *)

\* Who is listed, in the map or in the store, or is being removed, was created once and for
\* all.
CreatedOnce ==
  \A i \in Ids : sess[i].listed \/ row[i].listed \/ fin[i].pc # "none" => making[i].pc = "done"

\* The mark that an undisturbed finaliser has read still stands and is due.
MarkStands ==
  ~booting => \A i \in Ids : fin[i].pc = "remove" /\ ~fin[i].raced =>
    sess[i].until # NoTime /\ sess[i].until <= clock

\* Whose tmux session is killed, or about to be, is gone for good.
KilledIsGone ==
  \A i \in Ids : fin[i].pc = "kill" \/ killed[i] # {} =>
    making[i].pc = "done" /\ ~sess[i].listed /\ ~row[i].listed

IInv == TypeOK /\ CreatedOnce /\ MarkStands /\ KilledIsGone

LEMMA IInvInit == Init => IInv
<1>1. Init => CreatedOnce /\ MarkStands /\ KilledIsGone
  BY DEF Init, CreatedOnce, MarkStands, KilledIsGone, NoSession, NoRow, NoFin
<1> QED
  BY <1>1, TypeInit DEF IInv

\* What a step does to the creation, the mark and the finaliser of one terminal.
Moves(i) ==
  \/ /\ sess'[i].listed = sess[i].listed /\ sess'[i].until = sess[i].until
     /\ row'[i].listed = row[i].listed
     /\ fin'[i] = fin[i] /\ killed'[i] = killed[i]
     /\ (making[i].pc = "done" => making'[i].pc = "done")
  \/ CreateInsert(i) \/ Revive(i) \/ Close(i) \/ Restore(i)
  \/ (\E t \in timers[i] : TimerFires(i, t)) \/ FinRemove(i) \/ FinKill(i) \/ Reconcile(i)
  \/ Restart

LEMMA EveryMove == ASSUME TypeOK, [Next]_vars, NEW i \in Ids PROVE Moves(i)
<1>t. /\ sess \in [Ids -> SessionState] /\ row \in [Ids -> RowState] /\ fin \in [Ids -> FinState]
      /\ making \in [Ids -> MakeState] /\ killed \in [Ids -> SUBSET (1..MaxGen)]
  BY DEF TypeOK
<1> DEFINE Kept == /\ sess'[i].listed = sess[i].listed /\ sess'[i].until = sess[i].until
                   /\ row'[i].listed = row[i].listed
                   /\ fin'[i] = fin[i] /\ killed'[i] = killed[i]
                   /\ (making[i].pc = "done" => making'[i].pc = "done")
<1>1. ASSUME NEW j \in Ids, CreateOwn(j) \/ CreateHas(j) \/ \E n \in Names : CreateAttach(j, n)
      PROVE  Kept
  <2>1. /\ UNCHANGED <<sess, row, fin, killed>> /\ making[j].pc \in {"none", "tracked"}
        /\ i # j => making'[i] = making[i]
    BY <1>1, <1>t DEF CreateOwn, CreateHas, CreateAttach
  <2> QED
    BY <2>1
<1>2. ASSUME NEW j \in Ids, ConnectHas(j) \/ FanMark(j) PROVE Kept
  <2>1. UNCHANGED <<row, fin, making, killed>> /\ (MarkEnded(j) \/ sess' = sess)
    BY <1>2 DEF ConnectHas, FanMark
  <2> QED
    BY <1>t, <2>1 DEF MarkEnded, SessionState
<1>3. ASSUME NEW j \in Ids, EnsureDecide(j) PROVE Kept
  BY <1>3, <1>t DEF EnsureDecide, SessionState
<1>4. ASSUME NEW j \in Ids, EnsureInstall(j) PROVE Kept
  <2>1. /\ UNCHANGED <<row, fin, making, killed>>
        /\ \/ sess' = sess
           \/ sess' = [sess EXCEPT ![j].spawning = FALSE, ![j].running = TRUE, ![j].status = "running"]
    BY <1>4 DEF EnsureInstall
  <2> QED
    BY <1>t, <2>1 DEF SessionState
<1>5. ASSUME NEW j \in Ids, FanExit(j) PROVE Kept
  BY <1>5, <1>t DEF FanExit, SessionState
<1>6. ASSUME NEW j \in Ids, j # i, CreateInsert(j) \/ Revive(j) PROVE Kept
  BY <1>6, <1>t DEF CreateInsert, Revive
<1>7. ASSUME NEW j \in Ids, j # i, Close(j) \/ Restore(j) PROVE Kept
  BY <1>7, <1>t DEF Close, Restore, Disturbs
<1>8. ASSUME NEW j \in Ids, j # i,
             (\E t \in timers[j] : TimerFires(j, t)) \/ Reconcile(j)
      PROVE  Kept
  BY <1>8, <1>t DEF TimerFires, Reconcile
<1>9. ASSUME NEW j \in Ids, j # i, FinRemove(j) \/ FinKill(j) PROVE Kept
  <2>1. Done(j)[i] = fin[i]
    BY <1>9, <1>t DEF Done
  <2> QED
    BY <1>9, <1>t, <2>1 DEF FinRemove, FinKill
<1>10. UNCHANGED <<sess, row, fin, making, killed>> => Kept
  OBVIOUS
<1> QED
  BY <1>1, <1>2, <1>3, <1>4, <1>5, <1>6, <1>7, <1>8, <1>9, <1>10 DEF Next, Moves, ConnectLook,
     FanHas, Booted, HostOpens, HostEnds, TimePasses, Finaliser, vars

LEMMA IInvStep == IInv /\ [Next]_vars => IInv'
<1> SUFFICES ASSUME IInv, [Next]_vars PROVE IInv'
  OBVIOUS
<1>t. /\ TypeOK /\ TypeOK'
      /\ sess \in [Ids -> SessionState] /\ row \in [Ids -> RowState] /\ fin \in [Ids -> FinState]
      /\ making \in [Ids -> MakeState] /\ killed \in [Ids -> SUBSET (1..MaxGen)]
      /\ clock \in Nat
  BY TypeStep, BoundsAssumption DEF IInv, TypeOK, Times
<1>b. (clock' = clock \/ clock' = clock + 1) /\ (booting' = booting \/ Restart \/ Booted)
  BY DEF Next, CreateOwn, CreateAttach, CreateHas, CreateInsert, ConnectLook, ConnectHas,
     EnsureDecide, EnsureInstall, FanExit, FanHas, FanMark, Revive, Close, Restore, TimerFires,
     FinRemove, FinKill, Reconcile, Booted, Restart, HostOpens, HostEnds, TimePasses, Finaliser,
     vars
<1>i. ASSUME NEW i \in Ids
      PROVE  /\ sess'[i].listed \/ row'[i].listed \/ fin'[i].pc # "none" => making'[i].pc = "done"
             /\ fin'[i].pc = "kill" \/ killed'[i] # {} =>
                  making'[i].pc = "done" /\ ~sess'[i].listed /\ ~row'[i].listed
             /\ ~booting' => (fin'[i].pc = "remove" /\ ~fin'[i].raced =>
                  sess'[i].until # NoTime /\ sess'[i].until <= clock')
  <2>c. sess[i].listed \/ row[i].listed \/ fin[i].pc # "none" => making[i].pc = "done"
    BY DEF IInv, CreatedOnce
  <2>k. fin[i].pc = "kill" \/ killed[i] # {} =>
          making[i].pc = "done" /\ ~sess[i].listed /\ ~row[i].listed
    BY DEF IInv, KilledIsGone
  <2>m. ~booting => (fin[i].pc = "remove" /\ ~fin[i].raced =>
          sess[i].until # NoTime /\ sess[i].until <= clock)
    BY DEF IInv, MarkStands
  <2>u. sess[i].until \in Nat \cup {NoTime}
    BY <1>t, BoundsAssumption DEF SessionState, Times
  <2>1. CASE /\ sess'[i].listed = sess[i].listed /\ sess'[i].until = sess[i].until
             /\ row'[i].listed = row[i].listed
             /\ fin'[i] = fin[i] /\ killed'[i] = killed[i]
             /\ (making[i].pc = "done" => making'[i].pc = "done")
    <3>1. booting /\ ~booting' => fin[i].pc = "none"
      BY <1>b DEF Booted, Restart
    <3> QED
      BY <1>b, <1>t, <2>1, <2>c, <2>k, <2>m, <2>u, <3>1
  <2>2. CASE CreateInsert(i)
    <3>1. making[i].pc = "has" /\ making'[i].pc = "done" /\ fin' = fin /\ killed' = killed
      BY <2>2, <1>t DEF CreateInsert, MakeState
    <3> QED
      BY <3>1, <2>c, <2>k
  <2>3. CASE Revive(i)
    <3>1. /\ sess[i].listed /\ sess'[i].listed = sess[i].listed /\ sess'[i].until = sess[i].until
          /\ UNCHANGED <<clock, making, fin, killed, booting>>
      BY <2>3, <1>t DEF Revive, SessionState
    <3> QED
      BY <3>1, <2>c, <2>k, <2>m
  <2>4. CASE Close(i) \/ Restore(i)
    <3>1. /\ sess[i].listed /\ UNCHANGED <<making, killed>>
          /\ fin'[i].pc = fin[i].pc /\ (fin[i].pc = "remove" => fin'[i].raced)
      <4>1. sess[i].listed /\ UNCHANGED <<making, killed>> /\ Disturbs(i)
        BY <2>4 DEF Close, Restore
      <4>2. fin'[i].pc = fin[i].pc
        BY <4>1, <1>t DEF Disturbs, FinState
      <4>3. ASSUME fin[i].pc = "remove" PROVE fin'[i].raced
        <5>1. fin'[i].raced = (fin[i].pc = "remove")
          BY <4>1, <1>t DEF Disturbs, FinState
        <5> QED
          BY <4>3, <5>1
      <4> QED
        BY <4>1, <4>2, <4>3
    <3> QED
      BY <3>1, <2>c, <2>k
  <2>5. CASE (\E t \in timers[i] : TimerFires(i, t)) \/ Reconcile(i)
    <3>1. /\ UNCHANGED <<making, killed, row, clock, booting>>
          /\ sess'[i].listed = sess[i].listed
          /\ ~booting => sess' = sess
          /\ \/ fin'[i] = fin[i] /\ sess'[i] = sess[i]
             \/ fin'[i].pc = "remove" /\ sess[i].listed /\ (booting \/ Due(i))
      <4>1. Reading(i).pc = "remove"
        BY BoundFacts DEF Reading
      <4>2. ASSUME NEW t \in timers[i], TimerFires(i, t)
            PROVE  /\ UNCHANGED <<making, killed, row, clock, booting, sess>>
                   /\ \/ fin' = fin
                      \/ fin'[i].pc = "remove" /\ sess[i].listed /\ Due(i)
        BY <4>1, <4>2, <1>t DEF TimerFires
      <4>3. CASE Reconcile(i)
        BY <4>1, <4>3, <1>t DEF Reconcile, Reconcilable, SessionState
      <4> QED
        BY <2>5, <4>2, <4>3
    <3> QED
      BY <3>1, <2>c, <2>k, <2>m DEF Due
  <2>6. CASE FinRemove(i)
    <3>1. fin[i].pc = "remove" /\ UNCHANGED <<making, killed>>
      BY <2>6 DEF FinRemove
    <3>2. fin'[i].pc = "kill"
      BY <2>6, <3>1, <1>t, BoundFacts DEF FinRemove, Done, FinState
    <3>3. ~sess'[i].listed /\ ~row'[i].listed
      BY <2>6, <1>t DEF FinRemove, NoSession, NoRow
    <3> QED
      BY <3>1, <3>2, <3>3, <2>c
  <2>7. CASE FinKill(i)
    <3>1. fin[i].pc = "kill" /\ UNCHANGED <<making, sess, row>>
      BY <2>7 DEF FinKill
    <3>2. fin'[i].pc = "none"
      BY <2>7, <3>1, <1>t, BoundFacts DEF FinKill, Done, NoFin
    <3> QED
      BY <3>1, <3>2, <2>k
  <2>8. CASE Restart
    <3>1. /\ fin'[i].pc = "none" /\ killed' = killed /\ row' = row
          /\ sess'[i].listed = row[i].listed
          /\ (making[i].pc = "done" => making'[i].pc = "done")
      BY <2>8, <1>t DEF Restart, NoFin, NoSession
    <3> QED
      BY <3>1, <2>c, <2>k
  <2> QED
    BY <1>t, <2>1, <2>2, <2>3, <2>4, <2>5, <2>6, <2>7, <2>8, EveryMove DEF Moves
<1> QED
  BY <1>t, <1>i DEF IInv, CreatedOnce, KilledIsGone, MarkStands

\* A terminal that is served is removed only under a mark that is due, unless a request
\* came between the two locks of its finaliser.
THEOREM UndoWindowHonouredHolds == Spec => UndoWindowHonoured
<1>1. IInv => [\A i \in Ids : FinRemove(i) /\ ~booting /\ ~fin[i].raced
                 => sess[i].until # NoTime /\ sess[i].until <= clock]_vars
  BY DEF IInv, MarkStands, FinRemove
<1> QED
  BY <1>1, IInvInit, IInvStep, PTL DEF Spec, UndoWindowHonoured

\* A terminal whose tmux session its own close has killed is not reported to have ended.
THEOREM DeliberateCloseNotReportedHolds == Spec => DeliberateCloseNotReported
<1>1. IInv => [\A i \in Ids : FanMark(i) /\ Reports(i) => fan[i].gen \notin killed[i]]_vars
  BY DEF IInv, KilledIsGone, Reports
<1>2. IInv => TypeOK
  BY DEF IInv
<1> QED
  BY <1>1, <1>2, IInvInit, IInvStep, PTL DEF Spec, DeliberateCloseNotReported
=============================================================================
