-------------------------------- MODULE Services --------------------------------
(***************************************************************************)
(* What zeromux serves beside the sessions' turns: eight components of one *)
(* process that share no state, each with a table, a directory, a channel  *)
(* or a file of its own: who is let in (Accounts), the push subscriptions  *)
(* (PushSubs), a session's name (SessionNames), the files of its workspace *)
(* (WorkFiles), the tables a boot fills (SeededStores), the cost of its    *)
(* turns (RunMetrics), the log of its bytes (SessionLog) and the table of  *)
(* agent events (AgentEvents).                                             *)
(*                                                                         *)
(* Their variables are disjoint and no guard of one reads another's, so a  *)
(* step of one neither enables nor disables a step of another, and every   *)
(* property below is about the variables of one of them: it holds of the   *)
(* interleaved product exactly if it holds of that component alone.  The   *)
(* variable area says which one a behaviour is about; the others stay      *)
(* where they started.                                                     *)
(***************************************************************************)
EXTENDS Accounts, PushSubs, SessionNames, WorkFiles, SeededStores, RunMetrics, SessionLog, AgentEvents

VARIABLE area

Areas == {"accounts", "push", "names", "files", "seeds", "metrics", "log", "events"}

vars == <<area, accountsVars, pushVars, namesVars, filesVars, seedsVars, metricsVars, logVars, eventVars>>

TypeOK ==
    /\ AccountsTypeOK /\ PushTypeOK /\ NamesTypeOK /\ FilesTypeOK /\ SeedsTypeOK
    /\ MetricsTypeOK /\ LogTypeOK /\ EventsTypeOK
    /\ area \in Areas

Init ==
    /\ AccountsInit /\ PushInit /\ NamesInit /\ FilesInit /\ SeedsInit
    /\ MetricsInit /\ LogInit /\ EventsInit
    /\ area \in Areas

Still(a) ==
    CASE a = "accounts" -> UNCHANGED accountsVars [] a = "push" -> UNCHANGED pushVars
      [] a = "names" -> UNCHANGED namesVars [] a = "files" -> UNCHANGED filesVars
      [] a = "seeds" -> UNCHANGED seedsVars [] a = "metrics" -> UNCHANGED metricsVars
      [] a = "log" -> UNCHANGED logVars [] a = "events" -> UNCHANGED eventVars

Next ==
    /\ UNCHANGED area
    /\ \A other \in Areas \ {area} : Still(other)
    /\ \/ area = "accounts" /\ AccountsNext
       \/ area = "push" /\ PushNext
       \/ area = "names" /\ NamesNext
       \/ area = "files" /\ FilesNext
       \/ area = "seeds" /\ SeedsNext
       \/ area = "metrics" /\ MetricsNext
       \/ area = "log" /\ LogNext
       \/ area = "events" /\ EventsNext

Spec == Init /\ [][Next]_vars /\ (area = "accounts" => AccountsFairness)

-----------------------------------------------------------------------------
(* An approval reaches every browser that waits with a pending account, on *)
(* every route, and a socket is let in exactly when a page is.             *)
ApprovalReaches == ApprovedGetsIn /\ WsFollowsPage

(* What a user did through the API only another request for it undoes: a   *)
(* subscription stays, a name the user gave stays, an upload's bytes stay, *)
(* a deleted preset stays deleted; no task, failure or restart of the      *)
(* program takes them back.                                                *)
ChoicesStand ==
    /\ SubscriptionsStand
    /\ TitleYields
    /\ []UploadsStand
    /\ SeedsStand

(* What the program keeps about its work adds up: the costs of a session's *)
(* turns to what it spent, the ring of its log to its newest entries, and  *)
(* the table of events to what its retention promises.  With it, that      *)
(* every variable of the eight has its type.                               *)
RecordsStand == []TypeOK /\ MetricsStand /\ LogStands /\ EventsStand
=============================================================================
