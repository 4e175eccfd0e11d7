---------------------------- MODULE VaultIndex ----------------------------
(***************************************************************************)
(* The search index of the vault: an inotify watcher (vault_watch.rs) that *)
(* keeps a model of the vault's directories (fuzzy_index.rs VaultModel)    *)
(* equal to the file system while others change it.  Events only mark      *)
(* directories dirty; a dirty directory is watched and read again, and     *)
(* what is new below it is walked.  A full walk in a new inotify instance  *)
(* starts every lifetime, after an overflow, when the root is another      *)
(* directory, and every six hours.  While no watcher is active, searches   *)
(* and agents' turn ends refresh the index themselves ("1a").              *)
(*                                                                         *)
(* The tree has two levels of directories and at most one note in each; a  *)
(* note stands for all of a directory's files.  A watch descriptor is      *)
(* named by the inode it is on.  Every read of one directory is atomic,    *)
(* and so is what a 1a refresh reads.                                      *)
(***************************************************************************)
EXTENDS Naturals, Sequences, FiniteSets, SequencesExt, Functions

CONSTANTS
    Top,            \* names a directory in the root may have
    Sub,            \* names a directory below those may have
    QueueMax,       \* events inotify queues before it reports an overflow
    MaxOps,         \* bound: changes of the file system
    MaxOthers,      \* bound: six-hour rebuilds and 1a refreshes
    MaxFails        \* bound: directories the kernel refuses to watch

ASSUME VaultAssumption ==
    /\ IsFiniteSet(Top) /\ IsFiniteSet(Sub)
    /\ {QueueMax, MaxOps, MaxOthers, MaxFails} \subseteq Nat

VARIABLES
    tree,       \* path -> inode of the directory there, 0 if there is none
    notes,      \* inodes of the directories that hold a note
    inode,      \* the last inode given out
    watched,    \* inodes the inotify instance watches
    queue,      \* its event queue
    map,        \* Watcher.wd_to_dir
    dirty,      \* directories to read again
    w,          \* the watcher thread: where it is, and the walk's locals
    model,      \* SearchIndexes.vault_model: path -> what was read there
    published,  \* the snapshot searches read
    active,     \* SearchIndexes.watcher_active
    claimed,    \* IndexSlot.rebuilding, and by whom
    job,        \* a 1a refresh on its way
    same,       \* ghost: paths that have held one directory since it was watched there
    stale,      \* ghost: directories in the model that need not be watched
    intruded,   \* ghost: a 1a refresh changed the model of a live watcher
    used        \* the bounds' counters

fsVars == <<tree, notes, inode>>
noteVars == <<watched, queue, map, dirty>>
indexVars == <<model, published, active, claimed, stale, intruded>>
vaultVars == <<tree, notes, inode, watched, queue, map, dirty, w,
               model, published, active, claimed, job, same, stale, intruded, used>>

Root == <<>>
Paths == {Root} \cup {<<a>> : a \in Top} \cup {<<a, b>> : a \in Top, b \in Sub}
Nothing == [p \in {} |-> 0]
NoJob == [kind |-> "none", dir |-> Root]

Exists(p) == tree[p] # 0
Below(p) == {q \in Paths : IsStrictPrefix(p, q)}
Under(p) == {q \in Paths : IsPrefix(p, q)}
Children(p) == {q \in Below(p) : Len(q) = Len(p) + 1}

\* read_node.
Node(p) == [dirs |-> {q \in Children(p) : Exists(q)}, note |-> tree[p] \in notes]

Truth == [p \in {q \in Paths : Exists(q)} |-> Node(p)]

\* What searches see of a model: the notes, and the folders that hold one
\* somewhere below, or nothing at all.
Snapshot(m) ==
    LET noted(p) == m[p].note \/ \E q \in m[p].dirs : q \in DOMAIN m /\ m[q].note
    IN  [notes |-> {p \in DOMAIN m : m[p].note},
         folders |-> {p \in DOMAIN m \ {Root} : noted(p) \/ m[p].dirs = {}}]

NoSnapshot == [notes |-> {}, folders |-> {}, none |-> TRUE]

\* A vault with every directory there may be, and its bare root.
Grown == CHOOSE f \in [Paths -> 1..Cardinality(Paths)] : IsInjective(f)
Bare == [p \in Paths |-> IF p = Root THEN Grown[Root] ELSE 0]

Deepest == CHOOSE p \in Paths : \A q \in Paths : Len(q) <= Len(p)

VaultInit ==
    /\ tree \in {Grown, Bare}
    /\ notes = {Grown[Deepest]}
    /\ inode = Cardinality(Paths)
    /\ watched = {} /\ queue = <<>> /\ map = Nothing /\ dirty = {}
    /\ w = [pc |-> "idle", todo |-> <<>>, seen |-> FALSE, other |-> FALSE,
            fresh |-> Nothing, restart |-> FALSE, root0 |-> 0, live |-> FALSE]
    /\ model = Nothing /\ published = NoSnapshot /\ active = FALSE /\ claimed = "none"
    /\ job = NoJob /\ same = {} /\ stale = {} /\ intruded = FALSE
    /\ used = [ops |-> 0, others |-> 0, fails |-> 0]

----------------------------------------------------------------------------
(* The file system and inotify.                                            *)

Event(wd, kind, p) == [wd |-> wd, kind |-> kind, name |-> IF p = Root THEN "" ELSE Last(p)]

Overflow == Event(0, "overflow", Root)

\* An event is queued if its directory is watched; when the queue is full, one
\* overflow is and nothing more.
Queued(q, e) ==
    IF e.wd \notin watched \/ (Len(q) >= QueueMax /\ q # <<>> /\ Last(q) = Overflow) THEN q
    ELSE Append(q, IF Len(q) < QueueMax THEN e ELSE Overflow)

Change(q, gone) ==
    /\ used.ops < MaxOps /\ used' = [used EXCEPT !.ops = @ + 1]
    /\ queue' = q /\ watched' = watched \ gone
    /\ same' = {p \in same : tree'[p] = tree[p]}
    /\ UNCHANGED <<map, dirty, w, model, published, active, claimed, job, stale, intruded>>

Mkdir(p) ==
    /\ p # Root /\ ~Exists(p) /\ Exists(Front(p))
    /\ inode' = inode + 1 /\ tree' = [tree EXCEPT ![p] = inode + 1]
    /\ Change(Queued(queue, Event(tree[Front(p)], "dir", p)), {}) /\ UNCHANGED notes

Empty(p) == tree[p] \notin notes /\ \A q \in Below(p) : ~Exists(q)

Rmdir(p) ==
    /\ p # Root /\ Exists(p) /\ Empty(p)
    /\ tree' = [tree EXCEPT ![p] = 0]
    /\ Change(Queued(Queued(queue, Event(tree[p], "ignored", p)), Event(tree[Front(p)], "other", p)),
              {tree[p]})
    /\ UNCHANGED <<notes, inode>>

\* A note is created or removed.
Note(p) ==
    /\ Exists(p)
    /\ notes' = SymDiff(notes, {tree[p]})
    /\ UNCHANGED <<tree, inode>> /\ Change(Queued(queue, Event(tree[p], "other", p)), {})

\* rename(2), also over an empty directory; the inodes below move along.
Rename(p, q) ==
    /\ Len(p) = Len(q) /\ p # q /\ Exists(p) /\ Exists(Front(q)) /\ Empty(q)
    /\ tree' = [r \in Paths |->
                   CASE r \in Under(p) -> 0
                     [] r \in Under(q) -> tree[p \o SubSeq(r, Len(p) + 1, Len(r))]
                     [] OTHER -> tree[r]]
    /\ LET left == Queued(queue, Event(tree[Front(p)], "other", p))
           come == Queued(left, Event(tree[Front(q)], "dir", q))
       IN  Change(Queued(come, Event(tree[q], "ignored", q)), {tree[q]})
    /\ UNCHANGED <<notes, inode>>

\* Another file system is mounted over the root, with or without a word of it.
Remount ==
    /\ inode' = inode + 1
    /\ tree' = [p \in Paths |-> IF p = Root THEN inode + 1 ELSE 0]
    /\ \E told \in BOOLEAN :
           Change(IF told THEN Queued(queue, Event(tree[Root], "unmount", Root)) ELSE queue, watched)
    /\ UNCHANGED notes

FileSystem ==
    \/ \E p \in Paths : Mkdir(p) \/ Rmdir(p) \/ Note(p)
    \/ \E p, q \in Paths \ {Root} : Rename(p, q)
    \/ Remount

----------------------------------------------------------------------------
(* The vault model's operations.                                           *)

Without(m, ps) == Restrict(m, DOMAIN m \ ps)
With(m, p, node) == [q \in DOMAIN m \cup {p} |-> IF q = p THEN node ELSE m[q]]

\* Names below the root are separated by a "/" the root's own name lacks.
RemoveSubtree(m, p) == Without(m, IF p = Root THEN {Root} ELSE Under(p))

\* One directory of a walk: what is read replaces what was known.
Scanned(m, p) == IF Exists(p) THEN With(m, p, Node(p)) ELSE RemoveSubtree(m, p)

Known(m, p) == IF p \in DOMAIN m THEN m[p].dirs ELSE {}

\* Every ancestor lists the directory, one that is not known included.
List(m, p) ==
    IF p = Root THEN m
    ELSE With(m, Front(p), IF Front(p) \in DOMAIN m
                           THEN [m[Front(p)] EXCEPT !.dirs = @ \cup {p}]
                           ELSE [dirs |-> {p}, note |-> FALSE])

Listed(m, p) == IF Len(p) = 2 THEN List(List(m, p), Front(p)) ELSE List(m, p)

\* reconcile_dir_with: children that are gone take their subtrees along, and
\* the parent lists the directory.
Reconciled(m, p) ==
    IF ~Exists(p) THEN RemoveSubtree(m, p)
    ELSE LET kept == Without(m, UNION {Under(q) : q \in Known(m, p) \ Node(p).dirs})
             here == With(kept, p, Node(p))
         IN  Listed(here, p)

\* Directories not known before are walked; known ones are left alone.
News(m, p) ==
    IF Exists(p) THEN {q \in Node(p).dirs : q \notin Known(m, p) \/ q \notin DOMAIN m} ELSE {}

----------------------------------------------------------------------------
(* The watcher thread.                                                     *)

\* Watcher.add: a watched inode keeps its descriptor and is mapped anew.
Add(p) ==
    IF Exists(p) THEN /\ watched' = watched \cup {tree[p]}
                      /\ map' = With(map, tree[p], p)
                 ELSE UNCHANGED <<watched, map>>

\* Or the kernel has no watch left: a line in the log, and the walk goes on.
AddFails(p) ==
    /\ Exists(p) /\ used.fails < MaxFails
    /\ used' = [used EXCEPT !.fails = @ + 1]
    /\ UNCHANGED <<watched, map>>

(* mutant: a known directory that is read again is not watched again *)
WatchNew(item) == IF item.kind = "dirty" THEN UNCHANGED <<watched, map>> ELSE Add(item.dir)

\* Every directory is watched before it is read, whatever it is read for.
Watch(item) == Add(item.dir)

(* mutant: only the parent of a directory that appears is dirty *)
MarksParent(m, e) == {m[e.wd]}

\* A directory that appears is dirty itself, not only its parent.
Marks(m, e) == {m[e.wd]} \cup IF e.kind = "dir" THEN {Append(m[e.wd], e.name)} ELSE {}

\* drain: up to the event that makes the watches worthless.
Drained ==
    LET lost == {i \in DOMAIN queue : queue[i].kind \in {"overflow", "unmount"}}
        taken == {i \in DOMAIN queue : \A j \in lost : i < j}
        ignored(n) == {queue[i].wd : i \in {j \in taken : queue[j].kind = "ignored" /\ j < n}}
        marking == {i \in taken : /\ queue[i].kind \in {"dir", "other"}
                                  /\ queue[i].wd \in DOMAIN map \ ignored(i)}
    IN  [map |-> Without(map, ignored(Len(queue) + 1)),
         dirty |-> dirty \cup UNION {Marks(map, queue[i]) : i \in marking},
         lost |-> lost # {}]

ShallowFirst(ps) ==
    SetToSeq({p \in ps : Len(p) = 0}) \o SetToSeq({p \in ps : Len(p) = 1})
        \o SetToSeq({p \in ps : Len(p) = 2})

Items(ps, kind) == LET s == ShallowFirst(ps) IN [i \in DOMAIN s |-> [dir |-> s[i], kind |-> kind]]

\* A new inotify instance; a root that cannot be read would end the attempt.
Begin ==
    /\ w.pc = "idle"
    /\ watched' = {} /\ queue' = <<>> /\ map' = Nothing /\ dirty' = {}
    /\ claimed' = IF claimed = "none" THEN "watcher" ELSE claimed
    /\ w' = [w EXCEPT !.pc = "walk", !.todo = Items({Root}, "walk"), !.seen = FALSE,
                      !.fresh = Nothing, !.restart = FALSE, !.root0 = tree[Root]]
    /\ same' = {} /\ stale' = {}
    /\ UNCHANGED <<fsVars, model, published, active, job, intruded, used>>

\* Watch, then read: what comes after the watch is reported.
WatchNext ==
    /\ w.pc \in {"walk", "apply"} /\ w.todo # <<>> /\ ~w.seen
    /\ LET p == Head(w.todo).dir
       IN  /\ w' = [w EXCEPT !.seen = TRUE, !.other = p \notin same]
           /\ \/ /\ Watch(Head(w.todo)) /\ UNCHANGED used
                 /\ same' = IF Exists(p) THEN same \cup {p} ELSE same
              \/ AddFails(p) /\ UNCHANGED same
    /\ UNCHANGED <<fsVars, queue, dirty, indexVars, job>>

\* The ghost: what is read is not the directory that was watched, or none was.
Unsure(p) == IF Exists(p) /\ p \notin same THEN stale \cup {p} ELSE stale \ {p}

\* Every 64 directories the walk drains the queue, between a watch and a read.
DrainInWalk ==
    /\ w.pc = "walk" /\ w.seen /\ ~w.restart /\ queue # <<>>
    /\ map' = Drained.map /\ dirty' = Drained.dirty /\ queue' = <<>>
    /\ w' = [w EXCEPT !.restart = Drained.lost]
    /\ UNCHANGED <<fsVars, watched, indexVars, job, same, used>>

WalkRead ==
    /\ w.pc = "walk" /\ w.todo # <<>> /\ w.seen
    /\ LET p == Head(w.todo).dir
           below == IF Exists(p) THEN Node(p).dirs ELSE {}
       IN  /\ w' = [w EXCEPT !.fresh = Scanned(@, p), !.seen = FALSE,
                             !.todo = Tail(@) \o Items(below, "walk")]
           /\ stale' = Unsure(p)
    /\ UNCHANGED <<fsVars, noteVars, model, published, active, claimed, job, intruded, same, used>>

\* The walk's model becomes the index's, and what changed meanwhile is applied;
\* the model's lock is held until it is published.
WalkDone ==
    /\ w.pc = "walk" /\ w.todo = <<>>
    /\ LET d == IF w.restart THEN [map |-> map, dirty |-> dirty, lost |-> FALSE] ELSE Drained
       IN  /\ map' = d.map /\ dirty' = {} /\ queue' = IF w.restart THEN queue ELSE <<>>
           /\ w' = [w EXCEPT !.pc = "apply", !.todo = Items(d.dirty, "dirty"), !.live = FALSE,
                             !.fresh = Nothing, !.restart = @ \/ d.lost]
    /\ model' = w.fresh /\ intruded' = FALSE
    /\ UNCHANGED <<fsVars, watched, published, active, claimed, job, stale, same, used>>

\* A dirty directory is reconciled; what is new below it is walked before the
\* next.  The ghost: of a directory that was another, or away, since it was last
\* watched the code takes the children for known whose names it knows.
ApplyRead ==
    /\ w.pc = "apply" /\ w.todo # <<>> /\ w.seen
    /\ LET p == Head(w.todo).dir
           dirt == Head(w.todo).kind = "dirty"
           here == IF Exists(p) THEN Node(p).dirs ELSE {}
           news == IF dirt THEN News(model, p) ELSE here
       IN  /\ model' = IF dirt THEN Reconciled(model, p) ELSE Scanned(model, p)
           /\ stale' = Unsure(p) \cup IF w.other THEN here \ (news \cup same) ELSE {}
           /\ w' = [w EXCEPT !.seen = FALSE, !.todo = Items(news, "scan") \o Tail(@)]
    /\ UNCHANGED <<fsVars, noteVars, published, active, claimed, job, same, intruded, used>>

\* A walk that lost events is published, and done again.
Publish ==
    /\ w.pc = "apply" /\ w.todo = <<>>
    /\ published' = Snapshot(model)
    /\ w' = [w EXCEPT !.pc = CASE w.live -> "loop" [] w.restart -> "idle" [] OTHER -> "armed"]
    /\ claimed' = IF w'.pc = "idle" /\ claimed = "watcher" THEN "none" ELSE claimed
    /\ UNCHANGED <<fsVars, noteVars, model, active, job, stale, intruded, same, used>>

\* Active before the claim is released.
Activate ==
    /\ w.pc = "armed"
    /\ active' = TRUE /\ claimed' = IF claimed = "watcher" THEN "none" ELSE claimed
    /\ w' = [w EXCEPT !.pc = "loop", !.live = TRUE]
    /\ UNCHANGED <<fsVars, noteVars, model, published, job, stale, intruded, same, used>>

GiveUp == active' = FALSE /\ w' = [w EXCEPT !.pc = "idle"]

Drain ==
    /\ w.pc = "loop" /\ queue # <<>>
    /\ map' = Drained.map /\ dirty' = Drained.dirty /\ queue' = <<>>
    /\ IF Drained.lost THEN GiveUp ELSE UNCHANGED <<active, w>>
    /\ UNCHANGED <<fsVars, watched, model, published, claimed, job, stale, intruded, same, used>>

\* Quiet for 300 ms, or dirty for 1 s.
Due ==
    /\ w.pc = "loop" /\ dirty # {}
    /\ w' = [w EXCEPT !.pc = "apply", !.todo = Items(dirty, "dirty"), !.seen = FALSE]
    /\ dirty' = {}
    /\ UNCHANGED <<fsVars, watched, queue, map, indexVars, job, same, used>>

(* mutant: only events tell of another root *)
RootChangedNever == FALSE

RootChanged == tree[Root] # w.root0

CheckRoot ==
    /\ w.pc = "loop" /\ RootChanged
    /\ GiveUp
    /\ UNCHANGED <<fsVars, noteVars, model, published, claimed, job, stale, intruded, same, used>>

FullDue ==
    /\ w.pc = "loop" /\ used.others < MaxOthers
    /\ GiveUp /\ used' = [used EXCEPT !.others = @ + 1]
    /\ UNCHANGED <<fsVars, noteVars, model, published, claimed, job, same, stale, intruded>>

Watcher == \/ Begin \/ WatchNext \/ DrainInWalk \/ WalkRead \/ WalkDone \/ ApplyRead
           \/ Publish \/ Activate \/ Drain \/ Due \/ CheckRoot

----------------------------------------------------------------------------
(* The 1a refreshes: the watcher is asked for before, never after.         *)

Intrudes == intruded' = (intruded \/ w.pc \in {"armed", "loop"})

\* refresh_vault_if_older and reconcile_vault_dir: the check.
Ask(kind, p) ==
    /\ job.kind = "none" /\ used.others < MaxOthers /\ ~active
    /\ job' = [kind |-> kind, dir |-> p] /\ used' = [used EXCEPT !.others = @ + 1]
    /\ UNCHANGED <<fsVars, noteVars, w, same, indexVars>>

\* The claim: only one full rebuild at a time.
Claim ==
    /\ job.kind = "poll"
    /\ IF claimed = "none" THEN claimed' = "poll" /\ job' = [job EXCEPT !.kind = "build"]
                           ELSE job' = NoJob /\ UNCHANGED claimed
    /\ UNCHANGED <<fsVars, noteVars, w, model, published, active, stale, intruded, same, used>>

\* The scan and its publication, with the model locked.
Build ==
    /\ job.kind = "build" /\ w.pc # "apply"
    /\ model' = Truth /\ published' = Snapshot(Truth) /\ Intrudes
    /\ claimed' = "none" /\ job' = NoJob
    /\ UNCHANGED <<fsVars, noteVars, w, active, stale, same, used>>

\* A turn ended in directory dir: it and what is below, unless nothing was
\* published yet.  Nothing is watched for it.
TurnEnd ==
    /\ job.kind = "turn" /\ w.pc # "apply"
    /\ LET p == job.dir
           below == [q \in Under(p) \cap DOMAIN Truth |-> Truth[q]]
           fresh == [q \in DOMAIN Reconciled(model, p) \cup DOMAIN below |->
                        IF q \in DOMAIN below THEN below[q] ELSE Reconciled(model, p)[q]]
       IN  IF published = NoSnapshot THEN UNCHANGED <<model, published, intruded>>
           ELSE model' = fresh /\ published' = Snapshot(fresh) /\ Intrudes
    /\ job' = NoJob
    /\ UNCHANGED <<fsVars, noteVars, w, active, claimed, stale, same, used>>

Jobs == Claim \/ Build \/ TurnEnd

VaultNext ==
    \/ FileSystem \/ Watcher \/ FullDue \/ Jobs
    \/ Ask("poll", Root) \/ \E p \in Paths : Ask("turn", p)

VaultSpec == VaultInit /\ [][VaultNext]_vaultVars

\* The watcher's thread and the blocking pool run: while either has something to
\* do, one of them does it.  Nobody waits six hours.
VaultFairSpec == VaultSpec /\ WF_vaultVars(Watcher \/ Jobs)

----------------------------------------------------------------------------
(* Properties.                                                             *)

IsModel(m) == DOMAIN m \subseteq Paths /\ \A p \in DOMAIN m :
    m[p] \in [dirs : SUBSET Paths, note : BOOLEAN]

VaultTypeOK ==
    /\ tree \in [Paths -> 0..inode] /\ notes \subseteq 0..inode /\ watched \subseteq 1..inode
    /\ Len(queue) <= QueueMax + 1 /\ \A i \in DOMAIN queue : queue[i].wd \in 0..inode
    /\ DOMAIN map \subseteq 1..inode /\ (\A i \in DOMAIN map : map[i] \in Paths)
    /\ dirty \subseteq Paths /\ same \subseteq Paths /\ stale \subseteq Paths
    /\ w.pc \in {"idle", "walk", "apply", "armed", "loop"} /\ {w.seen, w.other} \subseteq BOOLEAN
    /\ IsModel(w.fresh) /\ (\A i \in DOMAIN w.todo : w.todo[i].dir \in Paths)
    /\ IsModel(model) /\ active \in BOOLEAN /\ intruded \in BOOLEAN
    /\ claimed \in {"none", "watcher", "poll"}
    /\ job \in [kind : {"none", "poll", "build", "turn"}, dir : Paths]

Quiet == w.pc = "loop" /\ queue = <<>> /\ dirty = {} /\ ~RootChanged /\ ~intruded

Sure == {p \in Paths : \A q \in stale : ~IsPrefix(q, p)}

\* The snapshot is the tree's, as far as the given directories go; what a
\* folder is depends on what is below it.
Right(ps) ==
    /\ published # NoSnapshot
    /\ \A p \in ps : p \in published.notes <=> p \in Snapshot(Truth).notes
    /\ \A p \in ps : Under(p) \subseteq ps =>
           (p \in published.folders <=> p \in Snapshot(Truth).folders)

\* Whatever the order of renames, removals and events, and wherever they fell
\* between the watches and the reads of a walk: once the events are applied,
\* the snapshot is the tree.  Left out are, with what is below them (`stale`):
\* children a directory kept the names of while it was another one, or away,
\* since it was last watched, which the code takes for known; a directory that
\* was replaced or away between its watch and its read; one the kernel refused
\* to watch, until it is watched after all or the six-hour rebuild comes
\* (vault_watch.rs 77-81); and a model a 1a refresh changed behind the watcher.
IndexIsTree == Quiet => Right(Sure)

\* And it will go on being so: every directory is watched, under its own path;
\* but for the same exceptions, the refused ones and what is below them included.
TreeWatched == Quiet => \A p \in Sure :
    Exists(p) => tree[p] \in watched /\ tree[p] \in DOMAIN map /\ map[tree[p]] = p

\* The index is the tree, and set up to stay so.
IndexMirrorsTree == VaultTypeOK /\ IndexIsTree /\ TreeWatched

\* When the vault is left alone, the index gets there without the six-hour
\* rebuild: overflows and remounts are noticed and walked again.  What `stale`
\* leaves out is not promised: a directory whose watch was refused, the root
\* too, and what is below it may wait for that rebuild.
CatchesUp == <>[](intruded \/ Right(Sure))
=============================================================================
