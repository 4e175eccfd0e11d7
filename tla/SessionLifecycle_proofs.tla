------------------------ MODULE SessionLifecycle_proofs ------------------------
(***************************************************************************)
(* Proofs about SessionLifecycle, for any number of clients, processes and  *)
(* restarts: its types, the ownership of the spawning flag, one process at  *)
(* a time (refinement of ExclusiveSlot), recorded tokens and removal.       *)
(***************************************************************************)
EXTENDS SessionLifecycle, TLAPS

-----------------------------------------------------------------------------
(* The inductive invariant *)

\* Before the request that creates it is done there is no session to connect to.
NotYetCreated ==
  /\ creating # "done" => ~sess.listed /\ Spawners = {} /\ Alive \subseteq {1}
  /\ creating = "no" => nextFan = 1

\* Fan-outs are numbered in the order they begin.
NumberedInOrder == \A f \in Fanout : f >= nextFan => fan[f].state = "none"

OneAlive == \A f, g \in Alive : f = g

\* Who spawns has nobody beside it, and finds nothing running to replace.
NobodyBeside ==
  \A c \in Client :
    /\ pc[c] \in {"spawning", "fallback"} => Alive = {} /\ plan[c].rp = None
    /\ pc[c] \in Spawning /\ sess.listed => sess.running = None

\* A process of a listed session is installed in it, or about to be.
Accounted ==
  sess.listed /\ creating = "done" =>
    \A f \in Alive : sess.running = f \/ \E c \in Client : pc[c] = "installing" /\ plan[c].rp = f

IInv ==
  /\ TypeOK /\ SpawnFlagOwned
  /\ NotYetCreated /\ NumberedInOrder /\ OneAlive /\ NobodyBeside /\ Accounted

LEMMA FanoutFacts ==
  /\ Fanout \subseteq Nat /\ None \notin Fanout /\ 1 \in Fanout /\ None \in Token
  /\ \A f \in Fanout : f \in Token
BY LifecycleAssumption DEF Fanout, None, Token

LEMMA PhaseFacts ==
  /\ "idle" \in Phase /\ "waiting" \in Phase /\ "spawning" \in Phase /\ "fallback" \in Phase
  /\ "installing" \in Phase /\ "clearing" \in Phase /\ "upserting" \in Phase
BY DEF Phase, Spawning, Persisting

\* Every variable has its type.
LEMMA TypeInit == Init => TypeOK
<1>1. SUFFICES ASSUME Init PROVE TypeOK
  OBVIOUS
<1>2. NoSession \in Session /\ NoRow \in StoredRow /\ NoPlan \in Plan /\ NoProcess \in Process
  BY FanoutFacts DEF NoSession, Session, NoRow, StoredRow, NoPlan, Plan, NoProcess, Process, Token
<1>3. nextFan \in 1..MaxFanout + 1 /\ restarts \in 0..MaxRestarts
  BY <1>1, LifecycleAssumption DEF Init
<1>4. /\ fan \in [Fanout -> Process] /\ pc \in [Client -> Phase] /\ plan \in [Client -> Plan]
      /\ sess \in Session /\ row \in StoredRow
  BY <1>1, <1>2, PhaseFacts DEF Init
<1> QED
  BY <1>1, <1>3, <1>4 DEF Init, TypeOK

LEMMA TypeStep == TypeOK /\ [Next]_vars => TypeOK'
<1> SUFFICES ASSUME TypeOK, [Next]_vars PROVE TypeOK'
  OBVIOUS
<1> USE FanoutFacts, PhaseFacts
<1>a. NoSession \in Session /\ NoRow \in StoredRow /\ NoPlan \in Plan /\ NoProcess \in Process
  BY DEF NoSession, Session, NoRow, StoredRow, NoPlan, Plan, NoProcess, Process, Token
<1>b. \A t \in Token : TokenRow(t) \in StoredRow
  BY DEF TypeOK, TokenRow, StoredRow
<1>c. ASSUME NEW conv \in Token, NEW v \in BOOLEAN, Begins(conv, v)
      PROVE  /\ fan' \in [Fanout -> Process] /\ nextFan' \in 1..MaxFanout + 1
             /\ saving' \subseteq Fanout /\ nextFan \in Fanout
  BY <1>c, LifecycleAssumption DEF Begins, TypeOK, Process, Fanout
<1>d. Fresh => /\ fan' \in [Fanout -> Process] /\ nextFan' \in 1..MaxFanout + 1
               /\ saving' \subseteq Fanout /\ nextFan \in Fanout
  <2>1. SUFFICES ASSUME Fresh PROVE nextFan \in Token
    BY <1>c DEF Fresh
  <2> QED
    BY <2>1, LifecycleAssumption DEF Fresh, Begins, TypeOK, Fanout, Token
<1>1. CASE CreateSpawn
  BY <1>1, <1>d DEF CreateSpawn, TypeOK, clientVars
<1>2. CASE CreatePersist
  BY <1>2 DEF CreatePersist, TypeOK, StoredRow, fanVars, clientVars
<1>3. CASE CreateInsert
  BY <1>3, <1>a DEF CreateInsert, TypeOK, Session, fanVars, clientVars
<1>4. CASE RemoveSession \/ DeleteRow
  BY <1>4, <1>a DEF RemoveSession, DeleteRow, TypeOK, fanVars, clientVars
<1>5. CASE Restart
  <2>1. sess' \in Session
    BY <1>5, <1>a DEF Restart, TypeOK, Session, StoredRow
  <2>2. fan' \in [Fanout -> Process]
    BY <1>5 DEF Restart, TypeOK, Process
  <2> QED
    BY <1>5, <1>a, <2>1, <2>2, LifecycleAssumption DEF Restart, TypeOK
<1>6. ASSUME NEW c \in Client, Decide(c) \/ Wait(c) PROVE TypeOK'
  <2>1. [NoPlan EXCEPT !.token = sess.token] \in Plan
    BY <1>a DEF TypeOK, Plan, Session
  <2>2. plan' \in [Client -> Plan] /\ pc' \in [Client -> Phase]
    BY <1>6, <2>1 DEF Decide, Wait, TypeOK
  <2>3. sess' \in Session
    BY <1>6 DEF Decide, Wait, TypeOK, Session
  <2> QED
    BY <1>6, <2>2, <2>3 DEF Decide, Wait, TypeOK, fanVars
<1>7. ASSUME NEW c \in Client, StopWaiting(c) \/ SpawnFails(c) PROVE TypeOK'
  <2>1. [plan[c] EXCEPT !.fell = TRUE] \in Plan
    BY DEF TypeOK, Plan
  <2>2. plan' \in [Client -> Plan]
    BY <1>7, <2>1 DEF StopWaiting, SpawnFails, TypeOK
  <2>3. pc' \in [Client -> Phase]
    BY <1>7 DEF StopWaiting, SpawnFails, TypeOK
  <2> QED
    BY <1>7, <2>2, <2>3 DEF StopWaiting, SpawnFails, TypeOK, fanVars
<1>8. ASSUME NEW c \in Client, SpawnWorks(c) PROVE TypeOK'
  <2>1. plan[c] \in Plan /\ plan[c].token \in Token /\ (plan[c].token \in lost) \in BOOLEAN
    BY DEF TypeOK, Plan
  <2>2. /\ fan' \in [Fanout -> Process] /\ nextFan' \in 1..MaxFanout + 1
        /\ saving' \subseteq Fanout /\ nextFan \in Fanout
    BY <1>8, <1>c, <1>d, <2>1 DEF SpawnWorks, Resumed
  <2> QED
    BY <1>8, <2>1, <2>2 DEF SpawnWorks, TypeOK, Plan
<1>9. ASSUME NEW c \in Client, Abandon(c) PROVE TypeOK'
  BY <1>9, <1>a DEF Abandon, FlagReset, TypeOK, Session, fanVars
<1>10. ASSUME NEW c \in Client, Install(c) PROVE TypeOK'
  <2>1. plan[c] \in Plan /\ sess \in Session
    BY DEF TypeOK
  <2>2. AdoptFresh(sess.token, plan[c].token) \in Token
    BY <2>1 DEF AdoptFresh, Session
  <2>3. sess' \in Session
    BY <1>10, <2>1, <2>2 DEF Install, Session, Plan
  <2>4. pc' \in [Client -> Phase]
    BY <1>10 DEF Install, TypeOK
  <2>5. \A t \in Token, b \in BOOLEAN :
           [plan[c] EXCEPT !.clear = b, !.snapshot = t] \in Plan
    BY <2>1 DEF Plan
  <2>6. sess.token \in Token
    BY <2>1 DEF Session
  <2>7. plan' \in [Client -> Plan]
    BY <1>10, <1>a, <2>2, <2>5, <2>6 DEF Install, TypeOK
  <2> QED
    BY <1>10, <2>3, <2>4, <2>7 DEF Install, TypeOK, fanVars
<1>11. ASSUME NEW c \in Client, ClearStored(c) \/ UpsertSnapshot(c) PROVE TypeOK'
  <2>1. plan[c].snapshot \in Token
    BY DEF TypeOK, Plan
  <2>2. row' \in StoredRow
    <3>1. TokenRow(None) \in StoredRow /\ row \in StoredRow
      BY <1>b DEF TypeOK
    <3>2. CASE ClearStored(c)
      BY <3>1, <3>2 DEF ClearStored
    <3>3. CASE UpsertSnapshot(c)
      BY <2>1, <3>3 DEF UpsertSnapshot, StoredRow
    <3> QED
      BY <1>11, <3>2, <3>3
  <2>3. pc' \in [Client -> Phase] /\ plan' \in [Client -> Plan]
    BY <1>11, <1>a DEF ClearStored, UpsertSnapshot, TypeOK
  <2> QED
    BY <1>11, <2>2, <2>3 DEF ClearStored, UpsertSnapshot, TypeOK, fanVars
<1>12. ASSUME NEW f \in Fanout, Backfill(f) PROVE TypeOK'
  BY <1>12 DEF Backfill, TypeOK, Session, Process, clientVars
<1>13. ASSUME NEW f \in Fanout, WriteToken(f) PROVE TypeOK'
  BY <1>13, <1>b DEF WriteToken, TypeOK, Process, clientVars
<1>14. ASSUME NEW f \in Fanout, Ends(f) \/ MarkEnded(f) PROVE TypeOK'
  BY <1>14 DEF Ends, MarkEnded, TypeOK, Session, Process, clientVars
<1>15. ASSUME NEW f \in Fanout, BackendForgets(f) PROVE TypeOK'
  BY <1>15 DEF BackendForgets, TypeOK, fanVars, clientVars
<1>16. CASE UNCHANGED vars
  BY <1>16 DEF vars, TypeOK, fanVars, clientVars
<1> QED
  BY <1>1, <1>2, <1>3, <1>4, <1>5, <1>6, <1>7, <1>8, <1>9, <1>10, <1>11, <1>12, <1>13,
     <1>14, <1>15, <1>16 DEF Next, Create, EnsureRunning

\* Every variable keeps its type, whatever the bounds.
THEOREM TypeCorrect == Spec => []TypeOK
<1> QED
  BY TypeInit, TypeStep, PTL DEF Spec

-----------------------------------------------------------------------------
(* How a step may change the fan-outs, the clients and the session *)

SameFanouts == nextFan' = nextFan /\ \A f \in Fanout : fan'[f].state = fan[f].state
SameSession ==
  sess'.listed = sess.listed /\ sess'.running = sess.running /\ sess'.spawning = sess.spawning
SameSpawners == Spawners' = Spawners /\ \A c \in Spawners : pc'[c] = pc[c] /\ plan'[c] = plan[c]

\* A process that begins is the only one.
LEMMA BeginsFacts ==
  ASSUME IInv, NEW conv, NEW v, Begins(conv, v), Alive = {}
  PROVE  /\ nextFan \in Fanout /\ nextFan \notin over /\ over' = over
         /\ Alive' = {nextFan} /\ NumberedInOrder' /\ nextFan' = nextFan + 1
         /\ fan'[nextFan] = [state |-> "live", conv |-> conv, saved |-> FALSE, vain |-> v]
         /\ \A f \in Fanout : f # nextFan => fan'[f] = fan[f]
<1>1. nextFan \in Fanout /\ nextFan' = nextFan + 1
  BY LifecycleAssumption DEF Begins, IInv, TypeOK, Fanout
<1>2. /\ fan'[nextFan] = [state |-> "live", conv |-> conv, saved |-> FALSE, vain |-> v]
      /\ \A f \in Fanout : f # nextFan => fan'[f] = fan[f]
  BY <1>1 DEF Begins, IInv, TypeOK
<1>3. fan[nextFan].state = "none"
  BY <1>1, FanoutFacts DEF IInv, NumberedInOrder
<1>4. NumberedInOrder'
  <2>1. SUFFICES ASSUME NEW f \in Fanout, f >= nextFan + 1 PROVE fan'[f].state = "none"
    BY <1>1 DEF NumberedInOrder
  <2>2. f \in Nat /\ nextFan \in Nat
    BY <1>1, FanoutFacts
  <2>3. f >= nextFan /\ f # nextFan
    BY <2>1, <2>2
  <2> QED
    BY <1>2, <2>3 DEF IInv, NumberedInOrder
<1>5. Alive' = {nextFan}
  BY <1>1, <1>2 DEF Alive
<1>6. over' = over /\ nextFan \notin over
  BY <1>1, <1>2, <1>3 DEF over
<1> QED
  BY <1>1, <1>2, <1>4, <1>5, <1>6

\* What changes neither the state of a process, nor who spawns, nor what the session
\* shows of both keeps the invariant.
LEMMA QuietStep ==
  ASSUME IInv, TypeOK', SameFanouts, SameSession, SameSpawners,
         creating' = creating \/ (creating = "spawned" /\ creating' = "persisted")
  PROVE  IInv'
<1>1. Alive' = Alive
  BY DEF SameFanouts, Alive
<1>2. NumberedInOrder' /\ OneAlive'
  BY <1>1 DEF SameFanouts, IInv, NumberedInOrder, OneAlive
<1>3. \A c \in Client : pc'[c] \in Spawning \/ pc[c] \in Spawning =>
         pc'[c] = pc[c] /\ plan'[c] = plan[c]
  <2>1. SUFFICES ASSUME NEW c \in Client, pc'[c] \in Spawning \/ pc[c] \in Spawning
                 PROVE  pc'[c] = pc[c] /\ plan'[c] = plan[c]
    OBVIOUS
  <2>2. c \in Spawners' \/ c \in Spawners
    BY <2>1 DEF Spawners
  <2> QED
    BY <2>2 DEF SameSpawners
<1>4. SpawnFlagOwned'
  BY DEF SameSession, SameSpawners, IInv, SpawnFlagOwned
<1>5. NotYetCreated'
  BY <1>1 DEF SameFanouts, SameSession, SameSpawners, IInv, NotYetCreated
<1>6. NobodyBeside'
  BY <1>1, <1>3 DEF SameSession, IInv, NobodyBeside, Spawning
<1>7. Accounted'
  <2>1. SUFFICES ASSUME sess'.listed, creating' = "done", NEW f \in Alive'
                 PROVE  sess'.running = f \/
                        \E c \in Client : pc'[c] = "installing" /\ plan'[c].rp = f
    BY DEF Accounted
  <2>2. sess.running = f \/ \E c \in Client : pc[c] = "installing" /\ plan[c].rp = f
    BY <1>1, <2>1 DEF SameSession, IInv, Accounted
  <2> QED
    BY <1>3, <2>2 DEF SameSession, Spawning
<1> QED
  BY <1>2, <1>4, <1>5, <1>6, <1>7 DEF IInv

LEMMA IInvInit == Init => IInv
<1>1. SUFFICES ASSUME Init PROVE IInv
  OBVIOUS
<1>2. Spawners = {} /\ Alive = {}
  BY <1>1 DEF Init, Spawners, Spawning, Alive, NoProcess
<1>3. NumberedInOrder
  BY <1>1 DEF Init, NumberedInOrder, NoProcess
<1> QED
  BY <1>1, <1>2, <1>3, TypeInit DEF Init, NoSession, IInv, SpawnFlagOwned, NotYetCreated,
     OneAlive, NobodyBeside, Accounted, Spawning

LEMMA IInvStep == IInv /\ [Next]_vars => IInv'
<1> SUFFICES ASSUME IInv, [Next]_vars PROVE IInv'
  OBVIOUS
<1>t. TypeOK' /\ TypeOK
  BY TypeStep DEF IInv
<1>1. CASE CreateSpawn
  <2>1. Alive = {} /\ nextFan = 1 /\ ~sess.listed /\ Spawners = {}
    <3>1. creating = "no"
      BY <1>1 DEF CreateSpawn
    <3>2. nextFan = 1 /\ Alive \subseteq {1} /\ ~sess.listed /\ Spawners = {}
      BY <3>1 DEF IInv, NotYetCreated
    <3>3. 1 \notin Alive
      BY <3>2, FanoutFacts DEF IInv, NumberedInOrder, Alive
    <3> QED
      BY <3>2, <3>3
  <2>2. Alive' = {1} /\ NumberedInOrder'
    BY <1>1, <2>1, BeginsFacts DEF CreateSpawn, Fresh
  <2>3. Spawners' = {} /\ pc' = pc /\ ~sess'.listed /\ creating' = "spawned"
    BY <1>1, <2>1 DEF CreateSpawn, Spawners, clientVars
  <2>4. \A c \in Client : pc'[c] \notin Spawning
    BY <2>3 DEF Spawners
  <2> QED
    BY <1>t, <2>2, <2>3, <2>4 DEF IInv, SpawnFlagOwned, NotYetCreated, OneAlive, NobodyBeside,
       Accounted, Spawning
<1>2. CASE CreatePersist
  BY <1>t, <1>2, QuietStep DEF CreatePersist, SameFanouts, SameSession, SameSpawners, Spawners,
     fanVars, clientVars
<1>3. CASE CreateInsert
  <2>1. Spawners = {} /\ Alive \subseteq {1}
    BY <1>3 DEF CreateInsert, IInv, NotYetCreated
  <2>2. Spawners' = {} /\ Alive' = Alive /\ pc' = pc /\ creating' = "done"
    BY <1>3, <2>1 DEF CreateInsert, Spawners, Alive, fanVars, clientVars
  <2>3. sess'.listed /\ sess'.running = 1 /\ ~sess'.spawning
    BY <1>3 DEF CreateInsert, NoSession
  <2>4. NumberedInOrder' /\ OneAlive'
    BY <1>3, <2>2 DEF CreateInsert, IInv, NumberedInOrder, OneAlive, fanVars
  <2>5. \A c \in Client : pc'[c] \notin Spawning
    BY <2>2 DEF Spawners
  <2> QED
    BY <1>t, <2>1, <2>2, <2>3, <2>4, <2>5 DEF IInv, SpawnFlagOwned, NotYetCreated,
       NobodyBeside, Accounted, Spawning
<1>4. CASE RemoveSession
  <2>1. Spawners' = Spawners /\ Alive' = Alive /\ pc' = pc /\ plan' = plan /\ ~sess'.listed
    BY <1>4 DEF RemoveSession, NoSession, Spawners, Alive, fanVars, clientVars
  <2> QED
    BY <1>t, <1>4, <2>1 DEF RemoveSession, IInv, SpawnFlagOwned, NotYetCreated,
       NumberedInOrder, OneAlive, NobodyBeside, Accounted, fanVars
<1>5. CASE DeleteRow
  BY <1>t, <1>5, QuietStep DEF DeleteRow, SameFanouts, SameSession, SameSpawners, Spawners,
     fanVars, clientVars
<1>6. CASE Restart
  <2>1. Alive' = {}
    BY <1>6 DEF Restart, Alive
  <2>2. \A c \in Client : pc'[c] \notin Spawning
    BY <1>6 DEF Restart, Spawning
  <2>3. Spawners' = {} /\ creating' = "done"
    BY <1>6, <2>2 DEF Restart, Spawners
  <2>4. NumberedInOrder'
    BY <1>6 DEF Restart, IInv, NumberedInOrder
  <2>5. sess'.spawning = FALSE
    BY <1>6 DEF Restart, NoSession
  <2> QED
    BY <1>t, <2>1, <2>2, <2>3, <2>4, <2>5 DEF IInv, SpawnFlagOwned, NotYetCreated, OneAlive,
       NobodyBeside, Accounted, Spawning
<1>7. ASSUME NEW c \in Client, Decide(c) PROVE IInv'
  <2>1. sess.listed /\ sess.running = None /\ ~sess.spawning /\ Spawners = {} /\ creating = "done"
    BY <1>7 DEF Decide, Spawns, IInv, SpawnFlagOwned, NotYetCreated
  <2>2. Alive = {}
    <3>1. SUFFICES ASSUME NEW f \in Alive PROVE FALSE
      OBVIOUS
    <3>2. f # None
      BY FanoutFacts DEF Alive
    <3>3. PICK d \in Client : pc[d] = "installing"
      BY <2>1, <3>1, <3>2 DEF IInv, Accounted
    <3> QED
      BY <2>1, <3>3 DEF Spawners, Spawning
  <2>3. Alive' = {} /\ NumberedInOrder' /\ creating' = "done"
    BY <1>7, <2>1, <2>2 DEF Decide, Alive, IInv, NumberedInOrder, fanVars
  <2>4. pc'[c] = "spawning" /\ \A d \in Client : d # c => pc'[d] = pc[d]
    BY <1>7, <1>t DEF Decide, TypeOK
  <2>5. Spawners' = {c}
    BY <2>1, <2>4 DEF Spawners, Spawning
  <2>6. sess'.listed /\ sess'.spawning /\ sess'.running = None
    BY <1>7, <1>t, <2>1 DEF Decide, TypeOK, Session
  <2>7. \A d \in Client : pc'[d] \in Spawning => plan'[d].rp = None
    <3>1. plan'[c].rp = None
      BY <1>7, <1>t DEF Decide, NoPlan, TypeOK
    <3> QED
      BY <2>5, <3>1 DEF Spawners
  <2> QED
    BY <1>t, <2>3, <2>5, <2>6, <2>7 DEF IInv, SpawnFlagOwned, NotYetCreated, OneAlive,
       NobodyBeside, Spawning,
       Accounted
<1>8. ASSUME NEW c \in Client, Wait(c) \/ StopWaiting(c) \/ ClearStored(c) \/ UpsertSnapshot(c)
      PROVE  IInv'
  <2>1. pc[c] \notin Spawning /\ pc'[c] \notin Spawning
    BY <1>8, <1>t DEF Wait, StopWaiting, ClearStored, UpsertSnapshot, Spawning, TypeOK
  <2>2. \A d \in Client : d # c => pc'[d] = pc[d] /\ plan'[d] = plan[d]
    BY <1>8, <1>t DEF Wait, StopWaiting, ClearStored, UpsertSnapshot, TypeOK
  <2>3. SameSpawners
    BY <2>1, <2>2 DEF SameSpawners, Spawners
  <2>4. SameFanouts /\ SameSession /\ creating' = creating
    BY <1>8 DEF Wait, StopWaiting, ClearStored, UpsertSnapshot, SameFanouts, SameSession, fanVars
  <2> QED
    BY <1>t, <2>3, <2>4, QuietStep
<1>9. ASSUME NEW c \in Client, SpawnWorks(c) PROVE IInv'
  <2>1. pc[c] \in {"spawning", "fallback"} /\ Alive = {} /\ Spawners = {c}
    BY <1>9 DEF SpawnWorks, IInv, NobodyBeside, SpawnFlagOwned, Spawners, Spawning
  <2>2. PICK conv, v : Begins(conv, v)
    BY <1>9 DEF SpawnWorks, Resumed, Fresh
  <2>3. nextFan \in Fanout /\ Alive' = {nextFan} /\ NumberedInOrder'
    BY <2>1, <2>2, BeginsFacts
  <2>4. /\ pc'[c] = "installing" /\ plan'[c].rp = nextFan
        /\ \A d \in Client : d # c => pc'[d] = pc[d]
    BY <1>9, <1>t DEF SpawnWorks, TypeOK, Plan
  <2>5. Spawners' = {c}
    BY <2>1, <2>4 DEF Spawners, Spawning
  <2>6. \A d \in Client : d # c => pc'[d] \notin Spawning
    BY <2>5 DEF Spawners
  <2>7. sess' = sess /\ creating' = creating /\ creating = "done"
    BY <1>9, <2>1 DEF SpawnWorks, IInv, NotYetCreated
  <2>8. SpawnFlagOwned'
    BY <2>1, <2>5, <2>7 DEF IInv, SpawnFlagOwned
  <2>9. NobodyBeside'
    BY <2>1, <2>4, <2>6, <2>7 DEF IInv, NobodyBeside, Spawning
  <2>10. Accounted'
    BY <2>3, <2>4 DEF Accounted
  <2> QED
    BY <1>t, <2>3, <2>7, <2>8, <2>9, <2>10 DEF IInv, NotYetCreated, OneAlive
<1>10. ASSUME NEW c \in Client, SpawnFails(c) PROVE IInv'
  <2>1. pc[c] \in {"spawning", "fallback"} /\ Alive = {} /\ Spawners = {c}
    BY <1>10 DEF SpawnFails, IInv, NobodyBeside, SpawnFlagOwned, Spawners, Spawning
  <2>2. /\ pc'[c] \in {"fallback", "installing"}
        /\ \A d \in Client : d # c => pc'[d] = pc[d]
    BY <1>10, <1>t DEF SpawnFails, TypeOK
  <2>3. Spawners' = {c}
    BY <2>1, <2>2 DEF Spawners, Spawning
  <2>4. Alive' = {} /\ NumberedInOrder' /\ sess' = sess /\ creating' = creating /\ creating = "done"
    BY <1>10, <2>1 DEF SpawnFails, Alive, IInv, NumberedInOrder, NotYetCreated, fanVars
  <2>5. \A d \in Client : pc'[d] \in Spawning => d = c
    BY <2>3 DEF Spawners
  <2>6. NobodyBeside'
    <3>1. pc'[c] = "fallback" => plan'[c].rp = None
      <4>1. plan[c].rp = None
        BY <2>1 DEF IInv, NobodyBeside
      <4> QED
        BY <1>10, <1>t, <4>1 DEF SpawnFails, TypeOK, Plan
    <3> QED
      BY <2>1, <2>2, <2>4, <2>5, <3>1 DEF IInv, NobodyBeside, Spawning
  <2> QED
    BY <1>t, <2>1, <2>3, <2>4, <2>6 DEF IInv, SpawnFlagOwned, NotYetCreated, OneAlive, Accounted
<1>11. ASSUME NEW c \in Client, Abandon(c) PROVE IInv'
  <2>1. /\ pc'[c] = "idle" /\ \A d \in Client : d # c => pc'[d] = pc[d] /\ plan'[d] = plan[d]
        /\ fan' = fan /\ nextFan' = nextFan /\ creating' = creating
    BY <1>11, <1>t DEF Abandon, TypeOK, fanVars
  <2>2. CASE pc[c] = "waiting"
    <3>1. SameSpawners
      BY <2>1, <2>2 DEF SameSpawners, Spawners, Spawning
    <3>2. SameSession
      BY <1>11, <2>2 DEF Abandon, SameSession
    <3> QED
      BY <1>t, <2>1, <3>1, <3>2, QuietStep DEF SameFanouts
  <2>3. CASE pc[c] # "waiting"
    <3>1. pc[c] \in {"spawning", "fallback"} /\ Alive = {} /\ Spawners = {c}
      BY <1>11, <2>3 DEF Abandon, IInv, NobodyBeside, SpawnFlagOwned, Spawners, Spawning
    <3>2. Spawners' = {}
      BY <2>1, <3>1 DEF Spawners, Spawning
    <3>3. Alive' = {} /\ NumberedInOrder' /\ creating' = "done"
      BY <2>1, <3>1 DEF Alive, IInv, NumberedInOrder, NotYetCreated
    <3>4. sess'.listed => ~sess'.spawning
      BY <1>11, <1>t, <2>3 DEF Abandon, FlagReset, TypeOK, Session
    <3>5. \A d \in Client : pc'[d] \notin Spawning
      BY <3>2 DEF Spawners
    <3> QED
      BY <1>t, <3>2, <3>3, <3>4, <3>5 DEF IInv, SpawnFlagOwned, NotYetCreated, OneAlive,
         NobodyBeside, Accounted, Spawning
  <2> QED
    BY <2>2, <2>3
<1>12. ASSUME NEW c \in Client, Install(c) PROVE IInv'
  <2>1. pc[c] = "installing" /\ Spawners = {c} /\ creating = "done"
    BY <1>12 DEF Install, IInv, SpawnFlagOwned, NotYetCreated, Spawners, Spawning
  <2>2. /\ pc'[c] \in {"clearing", "idle"} /\ \A d \in Client : d # c => pc'[d] = pc[d]
        /\ fan' = fan /\ nextFan' = nextFan /\ creating' = creating
    BY <1>12, <1>t DEF Install, TypeOK, fanVars
  <2>3. Spawners' = {}
    BY <2>1, <2>2 DEF Spawners, Spawning
  <2>4. Alive' = Alive /\ NumberedInOrder' /\ OneAlive'
    BY <2>2 DEF Alive, IInv, NumberedInOrder, OneAlive
  <2>5. sess'.listed => /\ sess.listed /\ ~sess'.spawning
                        /\ sess'.running = IF plan[c].rp # None THEN plan[c].rp ELSE sess.running
    BY <1>12, <1>t DEF Install, TypeOK, Session
  <2>6. \A d \in Client : pc'[d] \notin Spawning
    BY <2>3 DEF Spawners
  <2>7. Accounted'
    <3>1. SUFFICES ASSUME sess'.listed, NEW f \in Alive PROVE sess'.running = f
      BY <2>4 DEF Accounted
    <3>2. f # None
      BY FanoutFacts DEF Alive
    <3>3. sess.running = f \/ \E d \in Client : pc[d] = "installing" /\ plan[d].rp = f
      BY <2>1, <2>5, <3>1 DEF IInv, Accounted
    <3>4. sess.running = None
      BY <2>1, <2>5, <3>1 DEF IInv, NobodyBeside, Spawning
    <3>5. PICK d \in Client : pc[d] = "installing" /\ plan[d].rp = f
      BY <3>2, <3>3, <3>4
    <3>6. d = c
      BY <2>1, <3>5 DEF Spawners, Spawning
    <3> QED
      BY <2>5, <3>1, <3>2, <3>5, <3>6
  <2> QED
    BY <1>t, <2>1, <2>2, <2>3, <2>4, <2>5, <2>6, <2>7 DEF IInv, SpawnFlagOwned, NotYetCreated,
       NobodyBeside, Spawning
<1>13. ASSUME NEW f \in Fanout, Backfill(f) \/ WriteToken(f) \/ Ends(f) \/ BackendForgets(f)
       PROVE  IInv'
  <2>1. Alive' = Alive /\ NumberedInOrder'
    <3>1. \A g \in Fanout :
            \/ fan'[g].state = fan[g].state
            \/ fan[g].state = "live" /\ fan'[g].state = "ending"
      BY <1>13, <1>t DEF Backfill, WriteToken, Ends, BackendForgets, TypeOK, Process, fanVars
    <3>2. nextFan' = nextFan
      BY <1>13 DEF Backfill, WriteToken, Ends, BackendForgets, fanVars
    <3>3. Alive' = Alive
      BY <3>1 DEF Alive
    <3> QED
      BY <3>1, <3>2, <3>3 DEF IInv, NumberedInOrder
  <2>2. SameSession /\ nextFan' = nextFan /\ creating' = creating /\ pc' = pc /\ plan' = plan
    BY <1>13, <1>t DEF Backfill, WriteToken, Ends, BackendForgets, SameSession, TypeOK, Session,
       fanVars, clientVars
  <2>3. Spawners' = Spawners
    BY <2>2 DEF Spawners
  <2> QED
    BY <1>t, <2>1, <2>2, <2>3 DEF SameSession, IInv, SpawnFlagOwned, NotYetCreated, OneAlive,
       NobodyBeside, Accounted
<1>14. ASSUME NEW f \in Fanout, MarkEnded(f) PROVE IInv'
  <2>1. f \in Alive
    BY <1>14 DEF MarkEnded, Alive
  <2>2. Alive = {f}
    BY <2>1 DEF IInv, OneAlive
  <2>3. Alive' = {} /\ NumberedInOrder'
    BY <1>14, <1>t, <2>2 DEF MarkEnded, Alive, IInv, NumberedInOrder, TypeOK, Process
  <2>4. /\ sess'.listed = sess.listed /\ sess'.spawning = sess.spawning
        /\ sess.listed => sess'.running = None
        /\ creating' = creating /\ pc' = pc /\ plan' = plan /\ nextFan' = nextFan
    BY <1>14, <1>t DEF MarkEnded, TypeOK, Session, clientVars
  <2>5. Spawners' = Spawners
    BY <2>4 DEF Spawners
  <2> QED
    BY <1>t, <2>3, <2>4, <2>5 DEF IInv, SpawnFlagOwned, NotYetCreated, OneAlive, NobodyBeside,
       Accounted
<1>15. CASE UNCHANGED vars
  BY <1>t, <1>15, QuietStep DEF vars, SameFanouts, SameSession, SameSpawners, Spawners,
     fanVars, clientVars
<1> QED
  BY <1>1, <1>2, <1>3, <1>4, <1>5, <1>6, <1>7, <1>8, <1>9, <1>10, <1>11, <1>12, <1>13,
     <1>14, <1>15 DEF Next, Create, EnsureRunning

\* The spawning flag is one client's, for any number of clients.
THEOREM SpawnFlagOwnedHolds == Spec => []SpawnFlagOwned
<1>1. IInv => SpawnFlagOwned
  BY DEF IInv
<1> QED
  BY <1>1, IInvInit, IInvStep, PTL DEF Spec

-----------------------------------------------------------------------------
(* One process at a time *)

LEMMA HolderFacts ==
  /\ Alive = {} => holder = None
  /\ \A f : Alive = {f} => holder = f
<1>1. Alive # {} => holder \in Alive
  BY DEF holder
<1> QED
  BY <1>1 DEF holder

LEMMA NextHolderFacts ==
  /\ Alive' = {} => holder' = None
  /\ \A f : Alive' = {f} => holder' = f
<1>1. Alive' # {} => holder' \in Alive'
  BY DEF holder
<1> QED
  BY <1>1 DEF holder

\* Processes that only go on or end leave the slot to its holder or free it.
LEMMA LeaveFacts ==
  ASSUME IInv,
         \A f \in Fanout :
           \/ fan'[f].state = fan[f].state
           \/ fan[f].state \in {"live", "ending"} /\ fan'[f].state \in {"ending", "ended"}
  PROVE  [Slot!Next]_<<holder, over>>
<1>1. over \subseteq over' /\ over' \in SUBSET Fanout
  BY DEF over
<1>2. Alive' \subseteq Alive /\ Alive' \cap over' = {}
  BY DEF Alive, over
<1>3. holder' = Slot!Free \/ (holder' = holder /\ holder \notin over')
  <2>1. CASE Alive' = {}
    BY <2>1, NextHolderFacts DEF Slot!Free, None
  <2>2. CASE Alive' # {}
    <3>1. PICK f \in Alive' : TRUE
      BY <2>2
    <3>2. Alive = {f} /\ Alive' = {f}
      BY <1>2, <3>1 DEF IInv, OneAlive
    <3> QED
      BY <1>2, <3>1, <3>2, HolderFacts, NextHolderFacts
  <2> QED
    BY <2>1, <2>2
<1>4. Slot!Free \notin over'
  BY FanoutFacts DEF over, Slot!Free, None
<1> QED
  BY <1>1, <1>3, <1>4 DEF Slot!Next, Slot!Leave

LEMMA SlotStep == IInv /\ [Next]_vars => [Slot!Next]_<<holder, over>>
<1> SUFFICES ASSUME IInv, [Next]_vars PROVE [Slot!Next]_<<holder, over>>
  OBVIOUS
<1>t. TypeOK
  BY DEF IInv
<1>1. ASSUME NEW conv, NEW v, Begins(conv, v), Alive = {} PROVE Slot!Acquire
  <2>1. nextFan \in Fanout \ over /\ over' = over /\ Alive' = {nextFan}
    BY <1>1, BeginsFacts
  <2>2. holder = None /\ holder' = nextFan
    BY <1>1, <2>1, HolderFacts, NextHolderFacts
  <2> QED
    BY <2>1, <2>2 DEF Slot!Acquire, Slot!Free, None
<1>2. CASE CreateSpawn
  <2>1. creating = "no"
    BY <1>2 DEF CreateSpawn
  <2>2. nextFan = 1 /\ Alive \subseteq {1}
    BY <2>1 DEF IInv, NotYetCreated
  <2>3. Alive = {}
    BY <2>2, FanoutFacts DEF IInv, NumberedInOrder, Alive
  <2> QED
    BY <1>1, <1>2, <2>3 DEF CreateSpawn, Fresh, Slot!Next
<1>3. ASSUME NEW c \in Client, SpawnWorks(c) PROVE Slot!Next
  <2>1. Alive = {}
    BY <1>3 DEF SpawnWorks, IInv, NobodyBeside
  <2>2. PICK conv, v : Begins(conv, v)
    BY <1>3 DEF SpawnWorks, Resumed, Fresh
  <2> QED
    BY <1>1, <2>1, <2>2 DEF Slot!Next
<1>4. CASE CreatePersist \/ CreateInsert \/ RemoveSession \/ DeleteRow \/ UNCHANGED vars
  BY <1>4, LeaveFacts DEF CreatePersist, CreateInsert, RemoveSession, DeleteRow, vars, fanVars
<1>5. CASE Restart
  BY <1>5, LeaveFacts DEF Restart
<1>6. ASSUME NEW c \in Client,
             \/ Decide(c) \/ Wait(c) \/ StopWaiting(c) \/ SpawnFails(c) \/ Abandon(c)
             \/ Install(c) \/ ClearStored(c) \/ UpsertSnapshot(c)
      PROVE  [Slot!Next]_<<holder, over>>
  BY <1>6, LeaveFacts DEF Decide, Wait, StopWaiting, SpawnFails, Abandon, Install, ClearStored,
     UpsertSnapshot, fanVars
<1>7. ASSUME NEW f \in Fanout,
             Backfill(f) \/ WriteToken(f) \/ Ends(f) \/ MarkEnded(f) \/ BackendForgets(f)
      PROVE  [Slot!Next]_<<holder, over>>
  <2>1. \A g \in Fanout :
          \/ fan'[g].state = fan[g].state
          \/ fan[g].state \in {"live", "ending"} /\ fan'[g].state \in {"ending", "ended"}
    BY <1>7, <1>t DEF Backfill, WriteToken, Ends, MarkEnded, BackendForgets, TypeOK, Process, fanVars
  <2> QED
    BY <2>1, LeaveFacts
<1> QED
  BY <1>2, <1>3, <1>4, <1>5, <1>6, <1>7 DEF Next, Create, EnsureRunning

\* However many clients ask, give up, and however often the session is removed or the
\* server restarts, its processes follow each other and never overlap.
THEOREM ProcessIsExclusiveHolds == Spec => ProcessIsExclusive
<1>1. Init => Slot!Init
  <2>1. SUFFICES ASSUME Init PROVE Slot!Init
    OBVIOUS
  <2>2. over = {} /\ Alive = {}
    BY <2>1 DEF Init, NoProcess, over, Alive
  <2> QED
    BY <2>2, HolderFacts DEF Slot!Init, Slot!Free, None
<1> QED
  BY <1>1, IInvInit, IInvStep, SlotStep, PTL DEF Spec, ProcessIsExclusive, Slot!Spec

-----------------------------------------------------------------------------
(* A removed session *)

\* Its row is gone for good, unless a Crew fallback is still about to write it.
RemovedInv ==
  /\ type # "crew" => \A c \in Client : pc[c] # "upserting"
  /\ removed => creating = "done"
  /\ type # "crew" /\ removed => ~sess.listed /\ ~row.exists

LEMMA RemovedStep == TypeOK /\ RemovedInv /\ [Next]_vars => RemovedInv'
<1> SUFFICES ASSUME TypeOK, RemovedInv, [Next]_vars PROVE RemovedInv'
  OBVIOUS
<1>1. CASE Create
  BY <1>1 DEF Create, CreateSpawn, CreatePersist, CreateInsert, RemovedInv, fanVars, clientVars
<1>2. CASE RemoveSession \/ DeleteRow \/ UNCHANGED vars
  BY <1>2 DEF RemoveSession, DeleteRow, RemovedInv, vars, fanVars, clientVars, NoSession, NoRow
<1>3. CASE Restart
  BY <1>3 DEF Restart, RemovedInv, NoSession
<1>4. ASSUME NEW c \in Client,
             \/ Decide(c) \/ Wait(c) \/ StopWaiting(c) \/ SpawnWorks(c) \/ SpawnFails(c)
             \/ Abandon(c) \/ Install(c)
      PROVE  RemovedInv'
  <2>1. /\ type' = type /\ removed' = removed /\ creating' = creating /\ row' = row
        /\ ~sess.listed => sess' = sess
    BY <1>4 DEF Decide, Wait, StopWaiting, SpawnWorks, SpawnFails, Abandon, Install, Spawns
  <2>2. \A d \in Client : pc'[d] = "upserting" => pc[d] = "upserting"
    BY <1>4 DEF Decide, Wait, StopWaiting, SpawnWorks, SpawnFails, Abandon, Install, TypeOK
  <2> QED
    BY <2>1, <2>2 DEF RemovedInv
<1>5. ASSUME NEW c \in Client, ClearStored(c) \/ UpsertSnapshot(c) PROVE RemovedInv'
  <2>1. /\ type' = type /\ removed' = removed /\ creating' = creating /\ sess' = sess
        /\ type # "crew" => \A d \in Client : pc'[d] # "upserting"
        /\ type # "crew" /\ ~row.exists => ~row'.exists
    BY <1>5 DEF ClearStored, UpsertSnapshot, TypeOK, RemovedInv, TokenRow
  <2> QED
    BY <2>1 DEF RemovedInv
<1>6. ASSUME NEW f \in Fanout,
             Backfill(f) \/ WriteToken(f) \/ Ends(f) \/ MarkEnded(f) \/ BackendForgets(f)
      PROVE  RemovedInv'
  BY <1>6 DEF Backfill, WriteToken, TokenRow, Ends, MarkEnded, BackendForgets, RemovedInv,
     fanVars, clientVars
<1> QED
  BY <1>1, <1>2, <1>3, <1>4, <1>5, <1>6 DEF Next, EnsureRunning

\* No late write of a token, and no restart, brings a removed session of Claude back.
THEOREM RemovedStaysRemovedHolds == Spec => []RemovedStaysRemoved
<1>1. Init => RemovedInv
  BY DEF Init, RemovedInv
<1>2. RemovedInv => RemovedStaysRemoved
  BY DEF RemovedInv, RemovedStaysRemoved
<1> QED
  BY <1>1, <1>2, TypeInit, TypeStep, RemovedStep, PTL DEF Spec

-----------------------------------------------------------------------------
(* Recorded tokens *)

\* A conversation is named by a fan-out that has begun: wherever a token is kept, it
\* is older than the next fan-out.
TokensAreOld ==
  /\ sess.token < nextFan /\ row.token < nextFan
  /\ \A f \in Fanout : fan[f].conv < nextFan
  /\ \A c \in Client : plan[c].token < nextFan /\ plan[c].snapshot < nextFan

\* A client that fell back has spawned a conversation that is newer than its token.
FellBackToFresh ==
  \A c \in Client :
    /\ pc[c] = "spawning" => ~plan[c].fell
    /\ pc[c] = "installing" /\ plan[c].fell /\ plan[c].rp # None =>
         fan[plan[c].rp].conv = plan[c].rp /\ plan[c].token < plan[c].rp

TokenInv == TokensAreOld /\ FellBackToFresh

LEMMA TokenIsNat == \A t \in Token : t \in Nat
BY FanoutFacts DEF Token, None

LEMMA TokenInvInit == Init => TokenInv
BY DEF Init, TokenInv, TokensAreOld, FellBackToFresh, NoSession, NoRow, NoProcess, NoPlan, None

\* What begins no process keeps the tokens old, if it invents none.
LEMMA TokensStayOld ==
  ASSUME TypeOK, TokensAreOld, nextFan' = nextFan,
         sess'.token < nextFan, row'.token < nextFan,
         \A f \in Fanout : fan'[f].conv = fan[f].conv,
         \A c \in Client : /\ plan'[c].token \in {plan[c].token, None, sess.token}
                           /\ plan'[c].snapshot \in {plan[c].snapshot, None, sess'.token}
  PROVE  TokensAreOld'
<1>1. None < nextFan
  BY LifecycleAssumption DEF TypeOK, None
<1> QED
  BY <1>1 DEF TokensAreOld

\* Nothing but installing its own fallback changes what FellBackToFresh says of a client.
LEMMA FellBackStays ==
  ASSUME FellBackToFresh, \A f \in Fanout : fan'[f].conv = fan[f].conv, TypeOK,
         \A c \in Client :
           \/ pc'[c] \notin {"spawning", "installing"}
           \/ pc'[c] = pc[c] /\ plan'[c] = plan[c]
           \/ pc'[c] = "spawning" /\ ~plan'[c].fell
           \/ pc'[c] = "installing" /\ plan'[c].rp = None
  PROVE  FellBackToFresh'
<1>1. \A c \in Client : plan[c].rp \in Fanout \cup {None}
  BY DEF TypeOK, Plan
<1> QED
  BY <1>1 DEF FellBackToFresh

LEMMA TokenInvStep == IInv /\ TokenInv /\ [Next]_vars => TokenInv'
<1> SUFFICES ASSUME IInv, TokenInv, [Next]_vars PROVE TokenInv'
  OBVIOUS
<1>t. TypeOK /\ TypeOK' /\ TokensAreOld /\ FellBackToFresh
  BY TypeStep DEF IInv, TokenInv
<1>0. None < nextFan
  BY <1>t, LifecycleAssumption DEF TypeOK, None
<1>1. CASE CreateSpawn
  <2>1. creating = "no" /\ Spawners = {}
    BY <1>1 DEF CreateSpawn, IInv, NotYetCreated
  <2>2. \A c \in Client : pc[c] \notin Spawning
    BY <2>1 DEF Spawners
  <2>3. nextFan' = nextFan + 1 /\ nextFan \in Nat /\ sess' = sess /\ row' = row /\ plan' = plan /\ pc' = pc
    BY <1>1, <1>t, LifecycleAssumption DEF CreateSpawn, Fresh, Begins, TypeOK, clientVars
  <2>4. \A f \in Fanout : fan'[f].conv \in {fan[f].conv, nextFan}
    BY <1>1, <1>t DEF CreateSpawn, Fresh, Begins, TypeOK
  <2>5. TokensAreOld'
    <3>1. \A t \in Token : t < nextFan => t < nextFan + 1
      BY <2>3, TokenIsNat
    <3>2. /\ sess.token \in Token /\ row.token \in Token /\ \A f \in Fanout : fan[f].conv \in Token
          /\ \A c \in Client : plan[c].token \in Token /\ plan[c].snapshot \in Token
      BY <1>t DEF TypeOK, Session, StoredRow, Process, Plan
    <3>3. nextFan < nextFan + 1
      BY <2>3
    <3> QED
      BY <1>t, <2>3, <2>4, <3>1, <3>2, <3>3 DEF TokensAreOld
  <2> QED
    BY <2>2, <2>3, <2>5 DEF TokenInv, FellBackToFresh, Spawning
<1>2. ASSUME NEW c \in Client, SpawnWorks(c) PROVE TokenInv'
  <2>1. PICK conv \in Token, v \in BOOLEAN : Begins(conv, v) /\ conv < nextFan + 1
                                 /\ (plan[c].fell => conv = nextFan)
    <3>1. plan[c].token \in Token /\ nextFan \in Nat /\ plan[c].token < nextFan
      BY <1>t, LifecycleAssumption DEF TypeOK, Plan, TokensAreOld
    <3>2. CASE pc[c] = "spawning" /\ plan[c].token # None
      <4>0. Begins(plan[c].token, plan[c].token \in lost)
        BY <1>2, <3>2 DEF SpawnWorks, Resumed
      <4>1. PICK v \in BOOLEAN : Begins(plan[c].token, v)
        <5>1. (plan[c].token \in lost) \in BOOLEAN
          OBVIOUS
        <5> QED
          BY <4>0, <5>1
      <4>3. ~plan[c].fell
        BY <1>t, <3>2 DEF FellBackToFresh
      <4>2. plan[c].token < nextFan + 1
        BY <3>1, TokenIsNat
      <4> QED
        BY <3>1, <4>1, <4>2, <4>3
    <3>3. CASE ~(pc[c] = "spawning" /\ plan[c].token # None)
      <4>1. Begins(nextFan, FALSE)
        BY <1>2, <3>3 DEF SpawnWorks, Fresh
      <4>2. nextFan \in Token
        BY <1>t, <4>1, LifecycleAssumption DEF Begins, TypeOK, Token, Fanout
      <4>3. nextFan < nextFan + 1
        BY <3>1
      <4> QED
        BY <4>1, <4>2, <4>3
    <3> QED
      BY <3>2, <3>3
  <2>2. nextFan' = nextFan + 1 /\ nextFan \in Fanout /\ sess' = sess /\ row' = row
    BY <1>2, <1>t, <2>1, LifecycleAssumption DEF SpawnWorks, Begins, TypeOK, Fanout
  <2>3. /\ fan'[nextFan].conv = conv
        /\ \A f \in Fanout : f # nextFan => fan'[f].conv = fan[f].conv
    BY <1>t, <2>1, <2>2 DEF Begins, TypeOK
  <2>4. /\ pc'[c] = "installing" /\ plan'[c] = [plan[c] EXCEPT !.rp = nextFan]
        /\ \A d \in Client : d # c => pc'[d] = pc[d] /\ plan'[d] = plan[d]
    BY <1>2, <1>t DEF SpawnWorks, TypeOK
  <2>5. /\ plan'[c].rp = nextFan /\ plan'[c].fell = plan[c].fell
        /\ plan'[c].token = plan[c].token /\ plan'[c].snapshot = plan[c].snapshot
    BY <1>t, <2>4 DEF TypeOK, Plan
  <2>6. TokensAreOld'
    <3>1. \A t \in Token : t < nextFan => t < nextFan + 1
      BY <2>2, FanoutFacts, TokenIsNat
    <3>2. /\ sess.token \in Token /\ row.token \in Token /\ \A f \in Fanout : fan[f].conv \in Token
          /\ \A d \in Client : plan[d].token \in Token /\ plan[d].snapshot \in Token
      BY <1>t DEF TypeOK, Session, StoredRow, Process, Plan
    <3>3. \A f \in Fanout : fan'[f].conv < nextFan'
      BY <1>t, <2>1, <2>2, <2>3, <3>1, <3>2 DEF TokensAreOld
    <3>4. \A d \in Client : plan'[d].token = plan[d].token /\ plan'[d].snapshot = plan[d].snapshot
      BY <2>4, <2>5
    <3> QED
      BY <1>t, <2>2, <3>1, <3>2, <3>3, <3>4 DEF TokensAreOld
  <2>7. FellBackToFresh'
    <3>1. \A d \in Client : d # c => pc'[d] \notin {"spawning", "installing"}
      <4>1. c \in Spawners
        BY <1>2 DEF SpawnWorks, Spawners, Spawning
      <4>2. \A d \in Client : d # c => d \notin Spawners
        BY <4>1 DEF IInv, SpawnFlagOwned
      <4> QED
        BY <2>4, <4>2 DEF Spawners, Spawning
    <3>2. plan[c].token < nextFan
      BY <1>t DEF TokensAreOld
    <3> QED
      BY <2>1, <2>3, <2>4, <2>5, <3>1, <3>2 DEF FellBackToFresh
  <2> QED
    BY <2>6, <2>7 DEF TokenInv
<1>3. CASE CreatePersist \/ CreateInsert \/ RemoveSession \/ DeleteRow \/ UNCHANGED vars
  <2>0. NoSession.token = None /\ [NoSession EXCEPT !.listed = TRUE, !.running = 1].token = None
    BY DEF NoSession
  <2>1. /\ nextFan' = nextFan /\ fan' = fan /\ pc' = pc /\ plan' = plan
        /\ sess'.token \in {sess.token, None} /\ row'.token \in {row.token, None}
    <3>1. CASE CreatePersist
      BY <3>1 DEF CreatePersist, fanVars, clientVars
    <3>2. CASE CreateInsert
      BY <2>0, <3>2 DEF CreateInsert, fanVars, clientVars
    <3>3. CASE RemoveSession
      BY <2>0, <3>3 DEF RemoveSession, fanVars, clientVars
    <3>4. CASE DeleteRow
      BY <3>4 DEF DeleteRow, NoRow, fanVars, clientVars
    <3>5. CASE UNCHANGED vars
      BY <3>5 DEF vars, fanVars, clientVars
    <3> QED
      BY <1>3, <3>1, <3>2, <3>3, <3>4, <3>5
  <2>2. TokensAreOld'
    BY <1>t, <1>0, <2>1 DEF TokensAreOld
  <2> QED
    BY <1>t, <2>1, <2>2, FellBackStays DEF TokenInv
<1>4. CASE Restart
  <2>1. /\ nextFan' = nextFan /\ row' = row /\ sess'.token = row.token
        /\ \A f \in Fanout : fan'[f].conv = fan[f].conv
        /\ \A c \in Client : pc'[c] = "idle" /\ plan'[c] = NoPlan
    BY <1>4, <1>t DEF Restart, NoSession, TypeOK, Process
  <2>2. TokensAreOld'
    BY <1>t, <1>0, <2>1 DEF TokensAreOld, NoPlan
  <2> QED
    BY <1>t, <2>1, <2>2, FellBackStays DEF TokenInv
<1>5. ASSUME NEW c \in Client,
             Decide(c) \/ Wait(c) \/ StopWaiting(c) \/ SpawnFails(c) \/ Abandon(c)
      PROVE  TokenInv'
  <2>1. nextFan' = nextFan /\ fan' = fan /\ row' = row /\ sess'.token = sess.token
    BY <1>5, <1>t DEF Decide, Wait, StopWaiting, SpawnFails, Abandon, FlagReset, TypeOK, Session,
       fanVars
  <2>2. \A d \in Client : /\ plan'[d].token \in {plan[d].token, None, sess.token}
                          /\ plan'[d].snapshot \in {plan[d].snapshot, None}
    BY <1>5, <1>t DEF Decide, Wait, StopWaiting, SpawnFails, Abandon, NoPlan, TypeOK, Plan
  <2>3. \A d \in Client : d # c => pc'[d] = pc[d] /\ plan'[d] = plan[d]
    BY <1>5, <1>t DEF Decide, Wait, StopWaiting, SpawnFails, Abandon, TypeOK
  <2>4. CASE ~SpawnFails(c)
    <3>1. \/ pc'[c] \notin {"spawning", "installing"}
          \/ pc'[c] = "spawning" /\ ~plan'[c].fell
      BY <1>5, <1>t, <2>4 DEF Decide, Wait, StopWaiting, Abandon, NoPlan, TypeOK
    <3> QED
      BY <1>t, <2>1, <2>2, <2>3, <3>1, TokensStayOld, FellBackStays DEF TokenInv, TokensAreOld
  <2>5. CASE SpawnFails(c)
    <3>1. \/ pc'[c] = "fallback"
          \/ pc'[c] = "installing" /\ plan'[c] = plan[c] /\ pc[c] \in {"spawning", "fallback"}
      BY <1>t, <2>5 DEF SpawnFails, TypeOK
    <3>2. pc[c] \in {"spawning", "fallback"} => plan[c].rp = None
      BY DEF IInv, NobodyBeside
    <3> QED
      BY <1>t, <2>1, <2>2, <2>3, <3>1, <3>2, TokensStayOld, FellBackStays DEF TokenInv, TokensAreOld
  <2> QED
    BY <2>4, <2>5
<1>6. ASSUME NEW c \in Client, Install(c) \/ ClearStored(c) \/ UpsertSnapshot(c) PROVE TokenInv'
  <2>1. /\ nextFan' = nextFan /\ fan' = fan
        /\ pc'[c] \in {"idle", "clearing", "upserting"}
        /\ \A d \in Client : d # c => pc'[d] = pc[d] /\ plan'[d] = plan[d]
    BY <1>6, <1>t DEF Install, ClearStored, UpsertSnapshot, TypeOK, fanVars
  <2>2. sess'.token \in {sess.token, None}
    BY <1>6, <1>t DEF Install, AdoptFresh, ClearStored, UpsertSnapshot, TypeOK, Session
  <2>3. row'.token \in {row.token, None, plan[c].snapshot}
    BY <1>6, <1>t DEF Install, ClearStored, UpsertSnapshot, TokenRow, TypeOK, StoredRow
  <2>4. /\ plan'[c].token \in {plan[c].token, None}
        /\ plan'[c].snapshot \in {plan[c].snapshot, None, sess'.token, sess.token}
    BY <1>6, <1>t DEF Install, AdoptFresh, ClearStored, UpsertSnapshot, NoPlan, TypeOK, Plan
  <2>5. TokensAreOld'
    BY <1>t, <1>0, <2>1, <2>2, <2>3, <2>4 DEF TokensAreOld
  <2> QED
    BY <1>t, <2>1, <2>5, FellBackStays DEF TokenInv
<1>7. ASSUME NEW f \in Fanout,
             Backfill(f) \/ WriteToken(f) \/ Ends(f) \/ MarkEnded(f) \/ BackendForgets(f)
      PROVE  TokenInv'
  <2>1. /\ nextFan' = nextFan /\ pc' = pc /\ plan' = plan
        /\ \A g \in Fanout : fan'[g].conv = fan[g].conv
    BY <1>7, <1>t DEF Backfill, WriteToken, Ends, MarkEnded, BackendForgets, TypeOK, Process,
       fanVars, clientVars
  <2>2. sess'.token \in {sess.token, fan[f].conv} /\ row'.token \in {row.token, fan[f].conv}
    BY <1>7, <1>t DEF Backfill, WriteToken, Ends, MarkEnded, BackendForgets, TokenRow, TypeOK,
       Session, StoredRow
  <2>3. TokensAreOld'
    BY <1>t, <2>1, <2>2 DEF TokensAreOld
  <2> QED
    BY <1>t, <2>1, <2>3, FellBackStays DEF TokenInv
<1> QED
  BY <1>1, <1>2, <1>3, <1>4, <1>5, <1>6, <1>7 DEF Next, Create, EnsureRunning

LEMMA TokenKept ==
  ASSUME IInv, TokenInv, [Next]_vars, NEW f \in Alive,
         sess.listed, fan[f].saved, sess.token = fan[f].conv
  PROVE  sess'.token = sess.token \/ ~sess'.listed \/ restarts' # restarts
<1>t. TypeOK /\ f \in Fanout
  BY DEF IInv, Alive
<1>1. CASE Create
  <2>1. creating = "done"
    BY DEF IInv, NotYetCreated
  <2> QED
    BY <1>1, <2>1 DEF Create, CreateSpawn, CreatePersist, CreateInsert
<1>2. CASE RemoveSession \/ DeleteRow \/ Restart \/ UNCHANGED vars
  BY <1>2, <1>t DEF RemoveSession, NoSession, DeleteRow, Restart, vars, TypeOK
<1>3. ASSUME NEW c \in Client,
             \/ Decide(c) \/ Wait(c) \/ StopWaiting(c) \/ SpawnWorks(c) \/ SpawnFails(c)
             \/ Abandon(c) \/ ClearStored(c) \/ UpsertSnapshot(c)
      PROVE  sess'.token = sess.token
  BY <1>3, <1>t DEF Decide, Wait, StopWaiting, SpawnWorks, SpawnFails, Abandon, FlagReset,
     ClearStored, UpsertSnapshot, TypeOK, Session
<1>4. ASSUME NEW c \in Client, Install(c) PROVE sess'.token = sess.token
  <2>1. CASE plan[c].fell /\ plan[c].rp # None
    <3>1. pc[c] = "installing" /\ sess.running = None /\ creating = "done"
      BY <1>4 DEF Install, IInv, NobodyBeside, NotYetCreated, Spawning
    <3>2. f # None
      BY <1>t, FanoutFacts
    <3>3. PICK d \in Client : pc[d] = "installing" /\ plan[d].rp = f
      BY <3>1, <3>2 DEF IInv, Accounted
    <3>4. d = c
      BY <3>1, <3>3 DEF IInv, SpawnFlagOwned, Spawners, Spawning
    <3>5. fan[f].conv = f /\ plan[c].token < f
      BY <2>1, <3>1, <3>3, <3>4 DEF TokenInv, FellBackToFresh
    <3>6. plan[c].token \in Nat /\ f \in Nat
      BY <1>t, TokenIsNat, FanoutFacts DEF TypeOK, Plan
    <3>7. sess.token # plan[c].token
      BY <3>5, <3>6
    <3> QED
      BY <1>4, <1>t, <3>7 DEF Install, AdoptFresh, TypeOK, Session
  <2>2. CASE ~(plan[c].fell /\ plan[c].rp # None)
    BY <1>4, <1>t, <2>2 DEF Install, TypeOK, Session
  <2> QED
    BY <2>1, <2>2
<1>5. ASSUME NEW g \in Fanout, Backfill(g) PROVE sess'.token = sess.token
  <2>1. g \in Alive /\ ~fan[g].saved
    BY <1>5 DEF Backfill, Alive
  <2>2. g = f
    BY <2>1 DEF IInv, OneAlive
  <2> QED
    BY <2>1, <2>2
<1>6. ASSUME NEW g \in Fanout,
             WriteToken(g) \/ Ends(g) \/ MarkEnded(g) \/ BackendForgets(g)
      PROVE  sess'.token = sess.token
  BY <1>6, <1>t DEF WriteToken, Ends, MarkEnded, BackendForgets, TypeOK, Session
<1> QED
  BY <1>1, <1>2, <1>3, <1>4, <1>5, <1>6 DEF Next, EnsureRunning

\* A token that a live process has recorded is not taken from the session by anybody's
\* fallback: the conversation can be found again.
THEOREM TokenNeverLostHolds == Spec => TokenNeverLost
<1>1. IInv /\ TokenInv /\ [Next]_vars =>
        [\A f \in Alive : sess.listed /\ fan[f].saved /\ sess.token = fan[f].conv =>
           sess'.token = sess.token \/ ~sess'.listed \/ restarts' # restarts]_vars
  BY TokenKept
<1> QED
  BY <1>1, IInvInit, IInvStep, TokenInvInit, TokenInvStep, PTL DEF Spec, TokenNeverLost
=============================================================================
