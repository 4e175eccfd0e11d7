------------------------------ MODULE AgentEvents ------------------------------
(***************************************************************************)
(* The table of agent events (events.rs): a row for each result of a turn  *)
(* or POST, listed and deleted through the API, pruned once a day by a     *)
(* task of main.rs.  A row is its owner and the day it was made.           *)
(***************************************************************************)
EXTENDS Naturals

CONSTANTS
    EventOwners, EventAdmin, LegacyOwner, \* LegacyOwner: NULL, a row older than the column
    Retention,     \* RETENTION_DAYS: 30
    MaxEvents,     \* bound: rows
    MaxEventDays   \* bound: midnights

ASSUME EventsAssumption ==
    /\ {Retention, MaxEvents, MaxEventDays} \subseteq Nat /\ MaxEvents > 0
    /\ EventAdmin \in EventOwners /\ LegacyOwner \notin EventOwners

VARIABLES
    day,
    events,    \* agent_events
    pruneDue,  \* the interval of the prune task has ticked
    pruned     \* history: the day of the last prune that worked

eventVars == <<day, events, pruneDue, pruned>>

AgentEvent == [id: 1..MaxEvents, owner: EventOwners \cup {LegacyOwner}, born: 0..MaxEventDays]

EventsTypeOK ==
    /\ day \in 0..MaxEventDays /\ pruned \in 0..MaxEventDays /\ pruneDue \in BOOLEAN
    /\ events \subseteq AgentEvent

(* open: a row of an older database has no owner                           *)
EventsInit ==
    /\ day = 0 /\ pruned = 0 /\ pruneDue = TRUE
    /\ events = {[id |-> 1, owner |-> LegacyOwner, born |-> 0]}

(* EventStore::create stamps the owner and the time: iso_from_secs orders  *)
(* as its seconds do.                                                      *)
Now == day

EventInserted(o) == \E id \in 1..MaxEvents :
    /\ \A r \in events : r.id # id
    /\ events' = events \cup {[id |-> id, owner |-> o, born |-> Now]}

(* A fan-out's result; that the row could not be written is only logged.   *)
LogResultEvent(o) ==
    /\ EventInserted(o) \/ UNCHANGED events
    /\ UNCHANGED <<day, pruneDue, pruned>>

(* POST /api/events: the owner is the token's, whatever the body says.     *)
CreateEvent(o) == EventInserted(o) /\ UNCHANGED <<day, pruneDue, pruned>>

(* list_events and delete_event: an administrator has no owner filter.     *)
Scoped(o) == {r \in events : r.owner = o \/ o = EventAdmin}

DeleteEvent(o) ==
    /\ \E r \in Scoped(o) : events' = events \ {r}
    /\ UNCHANGED <<day, pruneDue, pruned>>

YoungToo == {r \in events : Now - r.born >= Retention}  \* mutant

(* delete_before of the timestamp Retention days ago                       *)
Old == {r \in events : Now - r.born > Retention}

PruneEvents ==
    /\ pruneDue /\ pruneDue' = FALSE
    /\ \/ events' = events \ Old /\ pruned' = day
       \/ UNCHANGED <<events, pruned>>
    /\ UNCHANGED day

(* Midnight: the interval of 24 hours ticks once a day.                    *)
EventsMidnight ==
    /\ day < MaxEventDays /\ day' = day + 1 /\ pruneDue' = TRUE
    /\ UNCHANGED <<events, pruned>>

(* A boot prunes at once.                                                  *)
EventsBoot == ~pruneDue /\ pruneDue' = TRUE /\ UNCHANGED <<day, events, pruned>>

EventsNext ==
    \/ \E o \in EventOwners : LogResultEvent(o) \/ CreateEvent(o) \/ DeleteEvent(o)
    \/ PruneEvents \/ EventsMidnight \/ EventsBoot

-----------------------------------------------------------------------------
(* Nothing is left that the last prune that worked should have taken, and  *)
(* no prune, failed or repeated by boots, takes anything younger.          *)
OldEventsGo == \A r \in events : pruned - r.born <= Retention
PruneSparesYoung ==
    (pruneDue /\ ~pruneDue') => \A r \in events \ events' : day - r.born > Retention

EventsStand == []OldEventsGo /\ [][PruneSparesYoung]_eventVars
=============================================================================
