----------------------------- MODULE ExclusiveSlot -----------------------------
(***************************************************************************)
(* A slot that one party holds at a time. A party takes it only while it is *)
(* free and gives it back before another one takes it; a party that is over *)
(* never takes it (again). The runs of a scheduled task share such a slot   *)
(* (ScheduledRuns), and so do the processes of a session (SessionLifecycle).*)
(***************************************************************************)
EXTENDS Naturals

CONSTANT Party  \* numbered from 1

VARIABLES
  holder,  \* the party that holds the slot, 0 while it is free
  over     \* the parties that ended, with the slot or without it

Free == 0

Init == holder = Free /\ over = {}

Acquire == holder = Free /\ holder' \in Party \ over /\ UNCHANGED over

\* Parties end or give up; the slot is free again once its holder is one of them.
Leave ==
  /\ over' \in SUBSET Party /\ over \subseteq over'
  /\ holder' \in {holder, Free} \ over'

Next == Acquire \/ Leave

Spec == Init /\ [][Next]_<<holder, over>>
=============================================================================
