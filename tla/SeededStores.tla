----------------------------- MODULE SeededStores -----------------------------
(***************************************************************************)
(* The two tables a boot fills for the user: prompt presets (prompts.rs)   *)
(* and the board of quick targets (quick_targets.rs), with the boot code   *)
(* of main.rs and the endpoints of web.rs.  Presets are seeded twice, each *)
(* time in one transaction with its version number; the board is filled    *)
(* from the session history row by row, when it is empty.                  *)
(*                                                                         *)
(* One user.  The text of a preset, validation and the frecency score are  *)
(* not here: a row of the board is its number of hits.                     *)
(***************************************************************************)
EXTENDS Naturals, FiniteSets, FiniteSetsExt

CONSTANTS
    SeedTitles, SeedTitles2,  \* SEED_PRESETS, SEED_PRESETS_V2
    OwnTitles,                \* what else the user may call one
    Targets,                  \* (kind, path, agent)
    SessionsEach,             \* interactive sessions of each target in the store
    MaxPresets,               \* bound: presets ever created
    MaxBumps,                 \* bound: visits
    MaxReboots

ASSUME SeedsAssumption ==
    /\ SeedTitles \cap SeedTitles2 = {} /\ OwnTitles \cap (SeedTitles \cup SeedTitles2) = {}
    /\ IsFiniteSet(SeedTitles) /\ IsFiniteSet(SeedTitles2)
    /\ {SessionsEach, MaxPresets, MaxBumps, MaxReboots} \subseteq Nat

VARIABLES
    lib,       \* prompt_presets
    version,   \* PRAGMA user_version
    lastPreset,\* ids are fresh
    boot,      \* where the boot is; "up" when requests are served
    left,      \* sessions still to be counted by the backfill
    board,     \* quick_targets: hits, 0 without a row
    exists,    \* targets that are there in the file system
    listing,   \* rows the open list request will forget
    seeded,    \* history: how often a boot has inserted the title
    visits,    \* history: visits since the row was made
    spent

seedsVars == <<lib, version, lastPreset, boot, left, board, exists, listing, seeded, visits, spent>>

History == Targets \X (1..SessionsEach)
Titles12 == SeedTitles \cup SeedTitles2
Orders == 1..(MaxPresets + Cardinality(Titles12))
Preset == [id: Orders, title: Titles12 \cup OwnTitles, order: Orders]

SeedsTypeOK ==
    /\ lib \subseteq Preset /\ version \in 0..2 /\ lastPreset \in {0} \cup Orders
    /\ boot \in {"v1", "v2", "load", "backfill", "up"} /\ left \subseteq History
    /\ board \in [Targets -> 0..(MaxBumps + 1)] /\ exists \subseteq Targets
    /\ listing \subseteq Targets /\ seeded \in [Titles12 -> Nat]
    /\ visits \in [Targets -> 0..MaxBumps]
    /\ spent \in [presets: 0..MaxPresets, bumps: 0..MaxBumps, boots: 0..MaxReboots]

SeedsInit ==
    /\ lib = {} /\ version = 0 /\ lastPreset = 0 /\ boot = "v1" /\ left = {}
    /\ board = [k \in Targets |-> 0] /\ exists = Targets /\ listing = {}
    /\ seeded = [t \in Titles12 |-> 0] /\ visits = [k \in Targets |-> 0]
    /\ spent = [presets |-> 0, bumps |-> 0, boots |-> 0]

Use(b, max) == spent[b] < max /\ spent' = [spent EXCEPT ![b] = @ + 1]
MaxOrder == Max({p.order : p \in lib} \cup {0})
BoardIsUnused == UNCHANGED <<left, board, exists, listing, visits>>

-----------------------------------------------------------------------------
(* The boot.                                                               *)

(* One transaction: a preset for each of the titles, numbered on from      *)
(* MaxOrder, and the version.                                              *)
Seeding(titles, v) ==
    \E of \in [titles -> 1..Cardinality(titles)] :
        /\ \A t, u \in titles : of[t] = of[u] => t = u
        /\ lib' = lib \cup {[id |-> lastPreset + of[t], title |-> t, order |-> MaxOrder + of[t]] : t \in titles}
        /\ lastPreset' = lastPreset + Cardinality(titles)
        /\ seeded' = [t \in Titles12 |-> IF t \in titles THEN seeded[t] + 1 ELSE seeded[t]]
        /\ version' = v

(* mutant: seeded whenever the table is empty                              *)
SeedWhenEmpty ==
    /\ boot = "v1" /\ boot' = "v2"
    /\ \/ lib = {} /\ Seeding(SeedTitles, IF version = 0 THEN 1 ELSE version)
       \/ version = 0 /\ lib # {} /\ Seeding({}, 1)
       \/ UNCHANGED <<lib, lastPreset, seeded, version>>
    /\ BoardIsUnused /\ UNCHANGED spent

(* seed_if_unseeded: once per database; the database may fail.             *)
SeedIfUnseeded ==
    /\ boot = "v1" /\ boot' = "v2"
    /\ \/ version = 0 /\ Seeding(IF lib = {} THEN SeedTitles ELSE {}, 1)
       \/ UNCHANGED <<lib, lastPreset, seeded, version>>
    /\ BoardIsUnused /\ UNCHANGED spent

(* seed_v2_if_needed: the titles that are not there                        *)
SeedV2IfNeeded ==
    /\ boot = "v2" /\ boot' = "load"
    /\ \/ version = 1 /\ Seeding(SeedTitles2 \ {p.title : p \in lib}, 2)
       \/ UNCHANGED <<lib, lastPreset, seeded, version>>
    /\ BoardIsUnused /\ UNCHANGED spent

(* The history of directories that are there, if the board is empty; or    *)
(* one of the two cannot be read.                                          *)
LoadHistory ==
    /\ boot = "load"
    /\ \/ /\ \A k \in Targets : board[k] = 0
          /\ boot' = "backfill" /\ left' = {s \in History : s[1] \in exists}
       \/ boot' = "up" /\ UNCHANGED left
    /\ UNCHANGED <<lib, version, lastPreset, board, exists, listing, seeded, visits, spent>>

(* seed_from_history: one INSERT ... ON CONFLICT after the other: a second *)
(* session of the same directory counts nothing.  An error ends it.        *)
Backfill ==
    /\ boot = "backfill"
    /\ \/ \E s \in left : /\ board' = [board EXCEPT ![s[1]] = IF @ = 0 THEN 1 ELSE @]
                          /\ left' = left \ {s} /\ UNCHANGED boot
       \/ boot' = "up" /\ left' = {} /\ UNCHANGED board
    /\ UNCHANGED <<lib, version, lastPreset, exists, listing, seeded, visits, spent>>

(* The program dies, in its boot or later, and starts again.               *)
RestartSeeded ==
    /\ Use("boots", MaxReboots) /\ boot' = "v1" /\ left' = {} /\ listing' = {}
    /\ UNCHANGED <<lib, version, lastPreset, board, exists, seeded, visits>>

-----------------------------------------------------------------------------
(* The requests.                                                           *)
Presets(action) == boot = "up" /\ action /\ BoardIsUnused /\ UNCHANGED <<version, boot, seeded>>

(* create: the number and the insert under one lock                        *)
CreatePreset(t) ==
    Presets(/\ Use("presets", MaxPresets) /\ lastPreset' = lastPreset + 1
            /\ lib' = lib \cup {[id |-> lastPreset + 1, title |-> t, order |-> MaxOrder + 1]})

UpdatePreset(p, t) ==
    Presets(lib' = (lib \ {p}) \cup {[p EXCEPT !.title = t]} /\ UNCHANGED <<lastPreset, spent>>)

DeletePreset(p) == Presets(lib' = lib \ {p} /\ UNCHANGED <<lastPreset, spent>>)

Board(action) == boot = "up" /\ action /\ UNCHANGED <<lib, version, lastPreset, boot, left, seeded>>

(* bump: create_session with a directory, a note that was opened           *)
BumpTarget(k) ==
    Board(/\ k \in exists /\ Use("bumps", MaxBumps)
          /\ board' = [board EXCEPT ![k] = @ + 1] /\ visits' = [visits EXCEPT ![k] = @ + 1]
          /\ UNCHANGED <<exists, listing>>)

Forgotten(K) ==
    /\ board' = [k \in Targets |-> IF k \in K THEN 0 ELSE board[k]]
    /\ visits' = [k \in Targets |-> IF k \in K THEN 0 ELSE visits[k]]

ForgetTarget(k) == Board(Forgotten({k}) /\ UNCHANGED <<exists, listing, spent>>)

(* list_quick_targets: rows whose target is not there any more, found on a *)
(* blocking thread, are forgotten afterwards whatever happened meanwhile.  *)
ListTargets ==
    Board(/\ listing = {} /\ listing' = {k \in Targets : board[k] # 0 /\ k \notin exists}
          /\ UNCHANGED <<board, exists, visits, spent>>)
ListForgets ==
    Board(listing # {} /\ Forgotten(listing) /\ listing' = {} /\ UNCHANGED <<exists, spent>>)

TargetMoves(k) ==
    /\ exists' = IF k \in exists THEN exists \ {k} ELSE exists \cup {k}
    /\ UNCHANGED <<lib, version, lastPreset, boot, left, board, listing, seeded, visits, spent>>

SeedsNext ==
    \/ SeedIfUnseeded \/ SeedV2IfNeeded \/ LoadHistory \/ Backfill \/ RestartSeeded
    \/ \E t \in Titles12 \cup OwnTitles : CreatePreset(t) \/ \E p \in lib : UpdatePreset(p, t)
    \/ \E p \in lib : DeletePreset(p)
    \/ \E k \in Targets : BumpTarget(k) \/ ForgetTarget(k) \/ TargetMoves(k)
    \/ ListTargets \/ ListForgets

-----------------------------------------------------------------------------
(* What a boot put there it puts there once: a starter preset the user has *)
(* deleted or renamed never returns, whichever boots failed or died on the *)
(* way, and no two presets share their place in the list.                  *)
SeededOnce ==
    /\ \A t \in Titles12 : seeded[t] <= 1
    /\ \A p, q \in lib : p.order = q.order => p = q

(* Restarts are not visits: hits are what was visited, and one if the row  *)
(* is a backfilled one.                                                    *)
HitsAreVisits == \A k \in Targets : board[k] \in {visits[k], visits[k] + 1}

(* A boot adds no row to a board somebody has used.                        *)
BackfillStep ==
    (boot = "backfill" /\ board' # board) => \A k \in Targets : visits[k] = 0

SeedsStand == [](SeededOnce /\ HitsAreVisits) /\ [][BackfillStep]_seedsVars
=============================================================================
