--------------------------- MODULE SessionLifecycle ---------------------------
(***************************************************************************)
(* The life of one agent session: how it is created, how clients that       *)
(* connect have its process spawned again (ensure_running: the spawning     *)
(* flag, the resume token, the fallback to a fresh conversation), how a     *)
(* fan-out that ends gives the session back, how the token gets from the    *)
(* process into memory and into the store, and how the session is removed   *)
(* and survives a restart.                                                  *)
(*                                                                         *)
(* The sessions lock is taken anew by each step; between two steps any      *)
(* other actor may run. A conversation is named by the fan-out that began   *)
(* it: the session id of Claude, the slot of Crew.                          *)
(***************************************************************************)
EXTENDS Naturals, FiniteSets

CONSTANTS
  Client,      \* connections that call ensure_running
  MaxFanout,   \* bound: processes ever spawned for the session
  MaxRestarts  \* bound: restarts of the server

ASSUME LifecycleAssumption == MaxFanout \in Nat \ {0} /\ MaxRestarts \in Nat

VARIABLES
  type,       \* session_type
  creating,   \* how far the request that creates the session is
  sess,       \* the session in the manager's map
  row,        \* its row in the store
  fan,        \* the fan-outs, with their processes
  nextFan,    \* the next one to be spawned
  saving,     \* fan-outs that set the token and still have to write it to the store
  pc, plan,   \* what each client is doing, and its SpawnPlan
  lost,       \* conversations that the backend no longer has
  removed,    \* history: remove_session has deleted the session
  restarts

clientVars == <<pc, plan>>
fanVars == <<fan, nextFan, saving>>
vars == <<type, creating, sess, row, fanVars, clientVars, lost, removed, restarts>>

-----------------------------------------------------------------------------
Fanout == 1..MaxFanout
None == 0
Token == Fanout \cup {None}

Session == [listed : BOOLEAN, running : Fanout \cup {None}, spawning : BOOLEAN, token : Token]
StoredRow == [exists : BOOLEAN, token : Token]
Process == [state : {"none", "live", "ending", "ended"},
            conv : Token,      \* the conversation it carries on
            saved : BOOLEAN,   \* token_saved
            vain : BOOLEAN]    \* history: it resumed a conversation that was lost
Plan == [token : Token, fell : BOOLEAN, rp : Fanout \cup {None},
         clear : BOOLEAN, snapshot : Token]

Spawning == {"spawning", "fallback", "installing"}
Persisting == {"clearing", "upserting"}
Phase == {"idle", "waiting"} \cup Spawning \cup Persisting

NoSession == [listed |-> FALSE, running |-> None, spawning |-> FALSE, token |-> None]
NoRow == [exists |-> FALSE, token |-> None]
NoPlan == [token |-> None, fell |-> FALSE, rp |-> None, clear |-> FALSE, snapshot |-> None]
NoProcess == [state |-> "none", conv |-> None, saved |-> FALSE, vain |-> FALSE]

\* Crew checks that the slot is there before it resumes it. Claude and Codex start
\* with whatever token they are given.
ChecksToken == type = "crew"

\* The gateway client names its slot in its first event. Claude and Codex name their
\* conversation when a prompt is answered, and prompts come through the session.
NamesItself(f) == type = "crew" \/ (sess.listed /\ sess.running = f)

-----------------------------------------------------------------------------
(* Processes *)

Begins(conv, vain) ==
  /\ nextFan <= MaxFanout /\ nextFan' = nextFan + 1
  /\ fan' = [fan EXCEPT ![nextFan] =
              [state |-> "live", conv |-> conv, saved |-> FALSE, vain |-> vain]]
  /\ UNCHANGED saving

Fresh == Begins(nextFan, FALSE)

Resumed(token) ==
  /\ ~(ChecksToken /\ token \in lost)
  /\ Begins(token, token \in lost)

\* set_resume_token in memory; the store is written without the lock. token_saved
\* is set whether or not the session was there to take the token.
Backfill(f) ==
  /\ fan[f].state = "live" /\ ~fan[f].saved /\ NamesItself(f) /\ ~fan[f].vain
  /\ fan' = [fan EXCEPT ![f].saved = TRUE]
  /\ IF sess.listed /\ sess.token # fan[f].conv
     THEN sess' = [sess EXCEPT !.token = fan[f].conv] /\ saving' = saving \cup {f}
     ELSE UNCHANGED <<sess, saving>>
  /\ UNCHANGED <<type, creating, row, nextFan, clientVars, lost, removed, restarts>>

\* mutant: the row is inserted again when it is gone
TokenRowUpserted(token) == [exists |-> TRUE, token |-> token]

\* update_resume_token
TokenRow(token) == IF row.exists THEN [row EXCEPT !.token = token] ELSE row

WriteToken(f) ==
  /\ f \in saving /\ saving' = saving \ {f}
  /\ row' = TokenRow(fan[f].conv)
  /\ UNCHANGED <<type, creating, sess, fan, nextFan, clientVars, lost, removed, restarts>>

\* The process exits, or its input closes (the session was removed).
Ends(f) ==
  /\ fan[f].state = "live" /\ f \notin saving
  /\ fan' = [fan EXCEPT ![f].state = "ending"]
  /\ UNCHANGED <<type, creating, sess, row, nextFan, saving, clientVars, lost, removed, restarts>>

\* mark_fanout_ended
MarkEnded(f) ==
  /\ fan[f].state = "ending"
  /\ fan' = [fan EXCEPT ![f].state = "ended"]
  /\ sess' = IF sess.listed THEN [sess EXCEPT !.running = None] ELSE sess
  /\ UNCHANGED <<type, creating, row, nextFan, saving, clientVars, lost, removed, restarts>>

\* The backend expires a conversation; Crew deletes the slot of a process that ended.
BackendForgets(t) ==
  /\ t \notin lost /\ fan[t].conv = t
  /\ lost' = lost \cup {t}
  /\ UNCHANGED <<type, creating, sess, row, fanVars, clientVars, removed, restarts>>

-----------------------------------------------------------------------------
(* Creation: the process first, then the row, then the session *)

CreateSpawn ==
  /\ creating = "no" /\ creating' = "spawned"
  /\ Fresh
  /\ UNCHANGED <<type, sess, row, clientVars, lost, removed, restarts>>

CreatePersist ==
  /\ creating = "spawned" /\ creating' = "persisted"
  /\ row' = [exists |-> TRUE, token |-> None]
  /\ UNCHANGED <<type, sess, fanVars, clientVars, lost, removed, restarts>>

CreateInsert ==
  /\ creating = "persisted" /\ creating' = "done"
  /\ sess' = [NoSession EXCEPT !.listed = TRUE, !.running = 1]
  /\ UNCHANGED <<type, row, fanVars, clientVars, lost, removed, restarts>>

-----------------------------------------------------------------------------
(* ensure_running *)

SpawnsAlways == sess.listed /\ sess.running = None  \* mutant: the flag is not read
\* decide_spawn
Spawns == sess.listed /\ sess.running = None /\ ~sess.spawning

Decide(c) ==
  /\ pc[c] = "idle" /\ Spawns
  /\ sess' = [sess EXCEPT !.spawning = TRUE]
  /\ pc' = [pc EXCEPT ![c] = "spawning"]
  /\ plan' = [plan EXCEPT ![c] = [NoPlan EXCEPT !.token = sess.token]]
  /\ UNCHANGED <<type, creating, row, fanVars, lost, removed, restarts>>

Wait(c) ==
  /\ pc[c] = "idle" /\ sess.listed /\ sess.running = None /\ sess.spawning
  /\ pc' = [pc EXCEPT ![c] = "waiting"]
  /\ UNCHANGED <<type, creating, sess, row, fanVars, plan, lost, removed, restarts>>

\* The waiter polls until the process is there, the spawn was given up or the
\* session is gone, for 30 s at most.
StopWaiting(c) ==
  /\ pc[c] = "waiting"
  /\ pc' = [pc EXCEPT ![c] = "idle"]
  /\ UNCHANGED <<type, creating, sess, row, fanVars, plan, lost, removed, restarts>>

SpawnWorks(c) ==
  /\ pc[c] \in {"spawning", "fallback"}
  /\ IF pc[c] = "spawning" /\ plan[c].token # None THEN Resumed(plan[c].token) ELSE Fresh
  /\ pc' = [pc EXCEPT ![c] = "installing"]
  /\ plan' = [plan EXCEPT ![c].rp = nextFan]
  /\ UNCHANGED <<type, creating, sess, row, lost, removed, restarts>>

\* A resume that failed is tried once more without the token.
SpawnFails(c) ==
  /\ pc[c] \in {"spawning", "fallback"}
  /\ IF pc[c] = "spawning" /\ plan[c].token # None
     THEN pc' = [pc EXCEPT ![c] = "fallback"] /\ plan' = [plan EXCEPT ![c].fell = TRUE]
     ELSE pc' = [pc EXCEPT ![c] = "installing"] /\ UNCHANGED plan
  /\ UNCHANGED <<type, creating, sess, row, fanVars, lost, removed, restarts>>

FlagKept == sess  \* mutant: no guard
\* SpawningGuard: the flag goes with the future
FlagReset == [sess EXCEPT !.spawning = FALSE]

\* The future is dropped (or panics) while it awaits.
Abandon(c) ==
  /\ pc[c] \in {"waiting", "spawning", "fallback"}
  /\ sess' = IF pc[c] # "waiting" /\ sess.listed THEN FlagReset ELSE sess
  /\ pc' = [pc EXCEPT ![c] = "idle"] /\ plan' = [plan EXCEPT ![c] = NoPlan]
  /\ UNCHANGED <<type, creating, row, fanVars, lost, removed, restarts>>

DropToken(token, stale) == None  \* mutant: also a token that was just backfilled
\* adopt_fresh_slot drops the token only while it is the stale one.
AdoptFresh(token, stale) == IF token = stale THEN None ELSE token

\* Phase 3. A process whose session is gone is dropped: its input closes.
Install(c) ==
  /\ pc[c] = "installing"
  /\ LET p == plan[c]
         fellBack == p.fell /\ p.rp # None /\ sess.listed
         token == IF fellBack THEN AdoptFresh(sess.token, p.token) ELSE sess.token
     IN
     /\ sess' = IF ~sess.listed THEN sess
                ELSE [sess EXCEPT !.spawning = FALSE, !.token = token,
                                  !.running = IF p.rp # None THEN p.rp ELSE @]
     /\ IF fellBack
        THEN /\ pc' = [pc EXCEPT ![c] = "clearing"]
             /\ plan' = [plan EXCEPT ![c].clear = (token = None), ![c].snapshot = token]
        ELSE pc' = [pc EXCEPT ![c] = "idle"] /\ plan' = [plan EXCEPT ![c] = NoPlan]
  /\ UNCHANGED <<type, creating, row, fanVars, lost, removed, restarts>>

\* persist_fallback clears the stored token,
ClearStored(c) ==
  /\ pc[c] = "clearing"
  /\ row' = IF plan[c].clear THEN TokenRow(None) ELSE row
  /\ IF type = "crew" THEN pc' = [pc EXCEPT ![c] = "upserting"] /\ UNCHANGED plan
     ELSE pc' = [pc EXCEPT ![c] = "idle"] /\ plan' = [plan EXCEPT ![c] = NoPlan]
  /\ UNCHANGED <<type, creating, sess, fanVars, lost, removed, restarts>>

\* and for Crew it writes the whole row as phase 3 saw it.
UpsertSnapshot(c) ==
  /\ pc[c] = "upserting"
  /\ row' = [exists |-> TRUE, token |-> plan[c].snapshot]
  /\ pc' = [pc EXCEPT ![c] = "idle"] /\ plan' = [plan EXCEPT ![c] = NoPlan]
  /\ UNCHANGED <<type, creating, sess, fanVars, lost, removed, restarts>>

-----------------------------------------------------------------------------
(* Removal and restart *)

\* remove_session takes the session out of the map
RemoveSession ==
  /\ sess.listed /\ sess' = NoSession
  /\ UNCHANGED <<type, creating, row, fanVars, clientVars, lost, removed, restarts>>

\* and deletes its row.
DeleteRow ==
  /\ creating = "done" /\ ~sess.listed /\ row.exists /\ ~removed
  /\ row' = NoRow /\ removed' = TRUE
  /\ UNCHANGED <<type, creating, sess, fanVars, clientVars, lost, restarts>>

\* The processes die with the server; load_persisted lists the session again.
Restart ==
  /\ creating # "no" /\ restarts < MaxRestarts /\ restarts' = restarts + 1
  /\ creating' = "done"
  /\ sess' = [NoSession EXCEPT !.listed = row.exists, !.token = row.token]
  /\ fan' = [f \in Fanout |-> IF fan[f].state \in {"live", "ending"}
                              THEN [fan[f] EXCEPT !.state = "ended"] ELSE fan[f]]
  /\ saving' = {}
  /\ pc' = [c \in Client |-> "idle"] /\ plan' = [c \in Client |-> NoPlan]
  /\ UNCHANGED <<type, row, nextFan, lost, removed>>

-----------------------------------------------------------------------------
Init ==
  /\ type \in {"claude", "crew"} /\ creating = "no"
  /\ sess = NoSession /\ row = NoRow
  /\ fan = [f \in Fanout |-> NoProcess] /\ nextFan = 1 /\ saving = {}
  /\ pc = [c \in Client |-> "idle"] /\ plan = [c \in Client |-> NoPlan]
  /\ lost = {} /\ removed = FALSE /\ restarts = 0

Create == CreateSpawn \/ CreatePersist \/ CreateInsert

EnsureRunning(c) ==
  \/ StopWaiting(c) \/ SpawnWorks(c) \/ SpawnFails(c)
  \/ Install(c) \/ ClearStored(c) \/ UpsertSnapshot(c)

Next ==
  \/ Create \/ RemoveSession \/ DeleteRow \/ Restart
  \/ \E c \in Client : Decide(c) \/ Wait(c) \/ EnsureRunning(c) \/ Abandon(c)
  \/ \E f \in Fanout : Backfill(f) \/ WriteToken(f) \/ Ends(f) \/ MarkEnded(f)
                        \/ BackendForgets(f)

Spec == Init /\ [][Next]_vars

\* A spawn returns or fails, a task that runs goes on, the store answers. Nothing is
\* assumed of clients, of the backends, or that a process ends.
Fairness ==
  /\ \A c \in Client : WF_vars(SpawnWorks(c) \/ SpawnFails(c)) /\ WF_vars(Install(c))
  /\ \A f \in Fanout : WF_vars(MarkEnded(f)) /\ WF_vars(WriteToken(f))

FairSpec == Spec /\ Fairness

-----------------------------------------------------------------------------
(* What must hold *)

\* Every variable has its type.
TypeOK ==
  /\ type \in {"claude", "crew"} /\ creating \in {"no", "spawned", "persisted", "done"}
  /\ sess \in Session /\ row \in StoredRow
  /\ fan \in [Fanout -> Process] /\ nextFan \in 1..MaxFanout + 1
  /\ saving \subseteq Fanout /\ pc \in [Client -> Phase] /\ plan \in [Client -> Plan]
  /\ lost \subseteq Fanout /\ removed \in BOOLEAN /\ restarts \in 0..MaxRestarts

Spawners == {c \in Client : pc[c] \in Spawning}

\* The spawning flag of a listed session is set exactly while one client spawns for
\* it: a dropped request never leaves it set, and nobody clears another one's flag
\* (decide_spawn, SpawningGuard, phase 3 of ensure_running).
SpawnFlagOwned ==
  /\ \A c, d \in Spawners : c = d
  /\ sess.listed => (sess.spawning <=> Spawners # {})

Alive == {f \in Fanout : fan[f].state \in {"live", "ending"}}
holder == IF Alive = {} THEN None ELSE CHOOSE f \in Alive : TRUE
over == {f \in Fanout : fan[f].state = "ended"}

\* A session never has two processes at once, whoever asks for one and whatever is
\* abandoned, removed or restarted meanwhile: its fan-outs hold the slot of
\* ExclusiveSlot one after the other.
Slot == INSTANCE ExclusiveSlot WITH Party <- Fanout
ProcessIsExclusive == Slot!Spec

\* Only the manager's own fallback, a removal or a restart takes a recorded token from
\* a session whose process is still there; a fallback to a fresh conversation never
\* takes the one that conversation has just recorded (adopt_fresh_slot).
TokenNeverLost ==
  [][\A f \in Alive : sess.listed /\ fan[f].saved /\ sess.token = fan[f].conv =>
       sess'.token = sess.token \/ ~sess'.listed \/ restarts' # restarts]_vars

\* A session of Claude that was removed is not there again after a restart, although
\* its fan-out may still write its token (update_resume_token, an UPDATE). For Crew
\* the fallback's upsert inserts the row again.
RemovedStaysRemoved == type # "crew" /\ removed => ~sess.listed

\* A spawn that was begun ends: the flag is given back and others may try.
SpawnEnds == sess.spawning ~> ~sess.spawning

\* (1) A resume that fails falls back to a fresh conversation, so no lost conversation
\* is resumed twice. The code falls back only when the spawn itself fails; Claude's
\* does not, whatever the token (AcpProcess::spawn).
NeverVainTwice ==
  \A f, g \in Fanout : fan[f].vain /\ fan[g].vain /\ fan[f].conv = fan[g].conv => f = g

\* (2) A process that named its conversation has it recorded while it lives. The code
\* sets token_saved also when the session was not yet there to take the token.
BackfillKept ==
  \A f \in Fanout : sess.listed /\ fan[f].state = "live" /\ fan[f].saved
                      => sess.token = fan[f].conv

\* (3) A fan-out that has ended has cleared the session's running state, so that it
\* can be spawned again. The code clears what is not there yet, and the spawner
\* installs the process afterwards.
RunningIsLive == sess.running # None => fan[sess.running].state # "ended"
=============================================================================
