----------------------------- MODULE SessionNames -----------------------------
(***************************************************************************)
(* The name of a session: the user's renames (update_session of web.rs and *)
(* update_session_meta_named) against the automatic title (auto_titler.rs  *)
(* and set_auto_title).  Both write the memory under the sessions lock and *)
(* the store after it, each in several steps, and a restart reads the      *)
(* store back.                                                             *)
(***************************************************************************)
EXTENDS Naturals, FiniteSets

CONSTANTS
    Renames,      \* the user's requests, each with a name of its own
    Titles,       \* the titles a model may answer with
    DefaultName,
    NoName,
    MaxTitlers,   \* bound: titler tasks ever started
    MaxStarts     \* bound: restarts of the program

ASSUME NamesAssumption ==
    /\ {DefaultName, NoName} \cap (Renames \cup Titles) = {} /\ Renames \cap Titles = {}
    /\ DefaultName # NoName /\ {MaxTitlers, MaxStarts} \subseteq Nat

VARIABLES
    mem,       \* Session: its name, name_is_auto; absent after remove_session
    store,     \* its row in session_store
    renames,   \* where each request is
    titled,    \* the fan-out's flag: it has tried
    titlers,   \* the titler tasks: where they are and what they write
    answered,  \* history: a rename has been answered
    given,     \* history: titles given to the session by this process
    starts

namesVars == <<mem, store, renames, titled, titlers, answered, given, starts>>

Names == Renames \cup Titles \cup {DefaultName}
Record == [name: Names, auto: BOOLEAN]
Absent == [name |-> NoName, auto |-> FALSE]
NoTitler == [pc |-> "none", title |-> NoName]

NamesTypeOK ==
    /\ mem \in Record \cup {Absent} /\ store \in Record \cup {Absent}
    /\ renames \in [Renames -> {"new", "store", "lock", "storeAuto", "done", "failed"}]
    /\ titled \in BOOLEAN
    /\ titlers \in [1..MaxTitlers -> [pc: {"none", "asking", "title", "store", "storeAuto", "done"},
                                      title: Titles \cup {NoName}]]
    /\ answered \in BOOLEAN /\ given \in 0..MaxTitlers /\ starts \in 0..MaxStarts

NamesInit ==
    /\ mem = [name |-> DefaultName, auto |-> TRUE] /\ store = mem
    /\ renames = [r \in Renames |-> "new"] /\ titled = FALSE
    /\ titlers = [k \in 1..MaxTitlers |-> NoTitler]
    /\ answered = FALSE /\ given = 0 /\ starts = 0

(* An update of a row that is gone, or of an entry that is gone, does nothing. *)
SetName(r, n) == IF r = Absent THEN r ELSE [r EXCEPT !.name = n]
Locked(r) == IF r = Absent THEN r ELSE [r EXCEPT !.auto = FALSE]
RenameTo(r, pc) == renames' = [renames EXCEPT ![r] = pc]
TitlerTo(k, pc) == titlers' = [titlers EXCEPT ![k].pc = pc]

-----------------------------------------------------------------------------
(* update_session_meta_named: apply_meta under the lock, 404 if the        *)
(* session is gone, then store, lock and store again.                      *)
RenameApply(r) ==
    /\ renames[r] = "new"
    /\ RenameTo(r, IF mem = Absent THEN "failed" ELSE "store") /\ mem' = SetName(mem, r)
    /\ UNCHANGED <<store, titled, titlers, answered, given, starts>>

RenameStore(r) ==
    /\ renames[r] = "store" /\ RenameTo(r, "lock") /\ store' = SetName(store, r)
    /\ UNCHANGED <<mem, titled, titlers, answered, given, starts>>

RenameLock(r) ==
    /\ renames[r] = "lock" /\ RenameTo(r, "storeAuto") /\ mem' = Locked(mem)
    /\ UNCHANGED <<store, titled, titlers, answered, given, starts>>

RenameAnswer(r) ==
    /\ renames[r] = "storeAuto" /\ RenameTo(r, "done") /\ store' = Locked(store)
    /\ answered' = TRUE
    /\ UNCHANGED <<mem, titled, titlers, given, starts>>

(* The fan-out's first Result after a prompt of substance starts a titler, *)
(* once, if the name may still be replaced.                                *)
FirstResult ==
    /\ mem # Absent /\ ~titled /\ titled' = TRUE
    /\ \/ mem.auto /\ \E k \in 1..MaxTitlers :
              titlers[k].pc = "none" /\ titlers' = [titlers EXCEPT ![k].pc = "asking"]
       \/ ~mem.auto /\ UNCHANGED titlers
    /\ UNCHANGED <<mem, store, renames, answered, given, starts>>

(* What sanitize_title makes of an answer: a short line, or nothing.       *)
CleanTitles == Titles \cup {NoName}

(* run_titler: an answer in time, or none; then the first of the two looks *)
(* at name_is_auto.                                                        *)
TitlerEnds(k) ==
    /\ titlers[k].pc = "asking"
    /\ \/ TitlerTo(k, "done")
       \/ \E t \in CleanTitles : titlers' = [titlers EXCEPT ![k] =
              [pc |-> IF t # NoName /\ mem.auto THEN "title" ELSE "done", title |-> t]]
    /\ UNCHANGED <<mem, store, renames, titled, answered, given, starts>>

(* mutant: the look before the lock is enough                              *)
TitlerSetsUnlocked(k) ==
    /\ titlers[k].pc = "title" /\ mem # Absent
    /\ TitlerTo(k, "store") /\ given' = given + 1
    /\ mem' = [name |-> titlers[k].title, auto |-> FALSE]
    /\ UNCHANGED <<store, renames, titled, answered, starts>>

(* set_auto_title: the second look, under the lock of the write            *)
TitlerSets(k) ==
    /\ titlers[k].pc = "title"
    /\ IF mem.auto
       THEN /\ TitlerTo(k, "store") /\ given' = given + 1
            /\ mem' = [name |-> titlers[k].title, auto |-> FALSE]
       ELSE TitlerTo(k, "done") /\ UNCHANGED <<mem, given>>
    /\ UNCHANGED <<store, renames, titled, answered, starts>>

TitlerStore(k) ==
    /\ titlers[k].pc = "store" /\ TitlerTo(k, "storeAuto") /\ store' = SetName(store, titlers[k].title)
    /\ UNCHANGED <<mem, renames, titled, answered, given, starts>>

TitlerStoreAuto(k) ==
    /\ titlers[k].pc = "storeAuto" /\ TitlerTo(k, "done") /\ store' = Locked(store)
    /\ UNCHANGED <<mem, renames, titled, answered, given, starts>>

(* The process of the session ended and another one was started: a fan-out *)
(* whose flag is down again.                                               *)
FanoutAgain ==
    /\ titled /\ \E k \in 1..MaxTitlers : titlers[k].pc = "none"
    /\ titled' = FALSE
    /\ UNCHANGED <<mem, store, renames, titlers, answered, given, starts>>

RemoveNamed ==
    /\ mem # Absent /\ mem' = Absent /\ store' = Absent
    /\ UNCHANGED <<renames, titled, titlers, answered, given, starts>>

(* A restart between any two steps: the requests and tasks are gone, the   *)
(* session is what its row says.                                           *)
RestartNamed ==
    /\ starts < MaxStarts /\ starts' = starts + 1
    /\ mem' = store /\ titled' = FALSE /\ given' = 0
    /\ renames' = [r \in Renames |-> IF renames[r] \in {"store", "lock", "storeAuto"} THEN "failed" ELSE renames[r]]
    /\ titlers' = [k \in 1..MaxTitlers |-> IF titlers[k].pc = "none" THEN titlers[k]
                                           ELSE [titlers[k] EXCEPT !.pc = "done"]]
    /\ UNCHANGED <<store, answered>>

NamesNext ==
    \/ \E r \in Renames : RenameApply(r) \/ RenameStore(r) \/ RenameLock(r) \/ RenameAnswer(r)
    \/ \E k \in 1..MaxTitlers : TitlerEnds(k) \/ TitlerSets(k) \/ TitlerStore(k) \/ TitlerStoreAuto(k)
    \/ FirstResult \/ FanoutAgain \/ RemoveNamed \/ RestartNamed

-----------------------------------------------------------------------------
(* A process gives a session one title at most, and none once a rename has *)
(* been answered, whichever titlers are still asking and however often the *)
(* program restarts.                                                       *)
TitleYields ==
    [][given' > given => given = 0 /\ ~answered]_namesVars

(* What the comment at session_manager.rs:2306 hopes for ("auto-titler no  *)
(* longer overwrites") does not hold of the rename that is under way:      *)
(* between its first and its third step a title replaces the name.         *)
RenameWins == \A r \in Renames : (renames[r] = "done" /\ mem # Absent) => mem.name \in Renames
=============================================================================
