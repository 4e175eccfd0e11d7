------------------------------- MODULE WorkFiles -------------------------------
(***************************************************************************)
(* The file endpoints of web.rs on one directory of a session's workspace. *)
(* Each request runs on a thread of its own and is a sequence of system    *)
(* calls; what it checked may be different when it acts.                   *)
(*                                                                         *)
(* A file is an inode: an open upload keeps writing to the one it created  *)
(* when its name is taken away.  The path checks (base directory, control  *)
(* and credential names, symlinks) are abstracted: every name is allowed.  *)
(***************************************************************************)
EXTENDS Naturals, FiniteSets

CONSTANTS
    Reqs,       \* requests; each may create one inode
    Uploads, Writes, Deletes, FileRenames, Rmdirs, Mkdirs,   \* what they are
    Candidates, \* how many names dedupe_and_create tries; name 1 is the one asked for
    MaxServed,  \* bound: how many of them are made
    OldFile     \* the inode of a file that is there before, under name 1

ASSUME FilesAssumption ==
    /\ Reqs = UNION {Uploads, Writes, Deletes, FileRenames, Rmdirs, Mkdirs}
    /\ LET kinds == <<Uploads, Writes, Deletes, FileRenames, Rmdirs, Mkdirs>>
       IN  \A i, j \in 1..6 : i # j => kinds[i] \cap kinds[j] = {}
    /\ OldFile \notin Reqs /\ 0 \notin Reqs \cup {OldFile}
    /\ Candidates \in Nat \ {0} /\ MaxServed \in Nat

VARIABLES
    there,    \* the directory exists
    dir,      \* name -> inode, or Nobody
    bytes,    \* inode -> whose bytes it holds, Nobody while it is being written
    at,       \* request -> where it is
    name,     \* request -> the name it works on (a candidate for an upload)
    dest,     \* a rename's other name
    fd,       \* request -> the inode it opened
    listed    \* what is left of an rmdir's listing

filesVars == <<there, dir, bytes, at, name, dest, fd, listed>>

FileNames == 1..Candidates
Inodes == Reqs \cup {OldFile}
Nobody == 0

FilesTypeOK ==
    /\ there \in BOOLEAN /\ dir \in [FileNames -> Inodes \cup {Nobody}]
    /\ bytes \in [Inodes -> Inodes \cup {Nobody}]
    /\ at \in [Reqs -> {"new", "open", "write", "act", "ok", "failed"}]
    /\ name \in [Reqs -> FileNames] /\ dest \in [Reqs -> FileNames]
    /\ fd \in [Reqs -> Inodes \cup {Nobody}] /\ listed \in [Reqs -> SUBSET FileNames]

FilesInit ==
    /\ there = TRUE
    /\ dir = [n \in FileNames |-> IF n = 1 THEN OldFile ELSE Nobody]
    /\ bytes = [i \in Inodes |-> IF i = OldFile THEN OldFile ELSE Nobody]
    /\ at = [r \in Reqs |-> "new"] /\ fd = [r \in Reqs |-> Nobody]
    /\ name = [r \in Reqs |-> 1] /\ dest = [r \in Reqs |-> 1] /\ listed = [r \in Reqs |-> {}]

Exists(n) == there /\ dir[n] # Nobody

(* resolve_and_verify of the directory part, resolve_write_target          *)
Resolves == there
GoTo(r, pc) == at' = [at EXCEPT ![r] = pc]

-----------------------------------------------------------------------------
(* upload_session_file: the target's directory resolves, else 403          *)
UploadAsked(r) ==
    /\ r \in Uploads /\ at[r] = "new" /\ GoTo(r, IF Resolves THEN "open" ELSE "failed")
    /\ UNCHANGED <<there, dir, bytes, name, dest, fd, listed>>

(* mutant: opens with create(true), having seen before that nobody is there *)
CreateOver(r) ==
    /\ r \in Uploads /\ at[r] = "open" /\ there
    /\ GoTo(r, "write") /\ fd' = [fd EXCEPT ![r] = IF Exists(name[r]) THEN dir[name[r]] ELSE r]
    /\ dir' = [dir EXCEPT ![name[r]] = fd'[r]] /\ bytes' = [bytes EXCEPT ![fd'[r]] = Nobody]
    /\ UNCHANGED <<there, name, dest, listed>>

(* dedupe_and_create: open with create_new, the next candidate when the    *)
(* name is taken                                                           *)
CreateNew(r) ==
    /\ r \in Uploads /\ at[r] = "open"
    /\ CASE ~there -> GoTo(r, "failed") /\ UNCHANGED <<dir, fd, name>>
         [] Exists(name[r]) /\ name[r] = Candidates -> GoTo(r, "failed") /\ UNCHANGED <<dir, fd, name>>
         [] Exists(name[r]) /\ name[r] < Candidates ->
                name' = [name EXCEPT ![r] = @ + 1] /\ UNCHANGED <<at, dir, fd>>
         [] OTHER -> /\ GoTo(r, "write") /\ dir' = [dir EXCEPT ![name[r]] = r]
                     /\ fd' = [fd EXCEPT ![r] = r] /\ UNCHANGED name
    /\ UNCHANGED <<there, bytes, dest, listed>>

(* write_all to the handle, whatever its name is by now; a failure leaves  *)
(* what was written                                                        *)
UploadWritten(r) ==
    /\ r \in Uploads /\ at[r] = "write"
    /\ \/ GoTo(r, "ok") /\ bytes' = [bytes EXCEPT ![fd[r]] = r]
       \/ GoTo(r, "failed") /\ UNCHANGED bytes
    /\ UNCHANGED <<there, dir, name, dest, fd, listed>>

(* write_session_file: std::fs::write creates or truncates, then writes    *)
WriteOpens(r, n) ==
    /\ r \in Writes /\ at[r] = "new" /\ name' = [name EXCEPT ![r] = n]
    /\ IF Resolves
       THEN /\ GoTo(r, "write") /\ fd' = [fd EXCEPT ![r] = IF Exists(n) THEN dir[n] ELSE r]
            /\ dir' = [dir EXCEPT ![n] = fd'[r]] /\ bytes' = [bytes EXCEPT ![fd'[r]] = Nobody]
       ELSE GoTo(r, "failed") /\ UNCHANGED <<dir, bytes, fd>>
    /\ UNCHANGED <<there, dest, listed>>

WriteWritten(r) ==
    /\ r \in Writes /\ at[r] = "write" /\ GoTo(r, "ok") /\ bytes' = [bytes EXCEPT ![fd[r]] = r]
    /\ UNCHANGED <<there, dir, name, dest, fd, listed>>

(* delete_session_file: canonicalize and is_file, then remove_file         *)
DeleteChecks(r, n) ==
    /\ r \in Deletes /\ at[r] = "new" /\ name' = [name EXCEPT ![r] = n]
    /\ GoTo(r, IF Exists(n) THEN "act" ELSE "failed")
    /\ UNCHANGED <<there, dir, bytes, dest, fd, listed>>

DeleteActs(r) ==
    /\ r \in Deletes /\ at[r] = "act" /\ GoTo(r, IF Exists(name[r]) THEN "ok" ELSE "failed")
    /\ dir' = [dir EXCEPT ![name[r]] = Nobody]
    /\ UNCHANGED <<there, bytes, name, dest, fd, listed>>

(* rename_session_file: the source is there, the destination is not, then  *)
(* rename, which replaces what is there by now                             *)
RenameChecks(r, n, m) ==
    /\ r \in FileRenames /\ at[r] = "new" /\ n # m
    /\ name' = [name EXCEPT ![r] = n] /\ dest' = [dest EXCEPT ![r] = m]
    /\ GoTo(r, IF Exists(n) /\ ~Exists(m) THEN "act" ELSE "failed")
    /\ UNCHANGED <<there, dir, bytes, fd, listed>>

RenameActs(r) ==
    /\ r \in FileRenames /\ at[r] = "act"
    /\ IF Exists(name[r])
       THEN GoTo(r, "ok") /\ dir' = [dir EXCEPT ![dest[r]] = dir[name[r]], ![name[r]] = Nobody]
       ELSE GoTo(r, "failed") /\ UNCHANGED dir
    /\ UNCHANGED <<there, bytes, name, dest, fd, listed>>

(* delete_session_dir: remove_dir_all lists, unlinks what it listed and    *)
(* removes the directory if nothing was added.                             *)
RmdirLists(r) ==
    /\ r \in Rmdirs /\ at[r] = "new" /\ GoTo(r, IF there THEN "act" ELSE "failed")
    /\ listed' = [listed EXCEPT ![r] = {n \in FileNames : Exists(n)}]
    /\ UNCHANGED <<there, dir, bytes, name, dest, fd>>

RmdirUnlinks(r, n) ==
    /\ at[r] = "act" /\ n \in listed[r]
    /\ listed' = [listed EXCEPT ![r] = @ \ {n}] /\ dir' = [dir EXCEPT ![n] = Nobody]
    /\ UNCHANGED <<there, bytes, at, name, dest, fd>>

RmdirEnds(r) ==
    /\ r \in Rmdirs /\ at[r] = "act" /\ listed[r] = {}
    /\ IF there /\ \A n \in FileNames : dir[n] = Nobody
       THEN there' = FALSE /\ GoTo(r, "ok") ELSE GoTo(r, "failed") /\ UNCHANGED there
    /\ UNCHANGED <<dir, bytes, name, dest, fd, listed>>

(* create_session_dir: create_dir_all, no error if it is there             *)
MkdirActs(r) ==
    /\ r \in Mkdirs /\ at[r] = "new" /\ GoTo(r, "ok") /\ there' = TRUE
    /\ UNCHANGED <<dir, bytes, name, dest, fd, listed>>

FilesNext == \E r \in Reqs :
    /\ at[r] = "new" => Cardinality({q \in Reqs : at[q] # "new"}) < MaxServed
    /\ \/ UploadAsked(r) \/ CreateNew(r) \/ UploadWritten(r) \/ WriteWritten(r)
       \/ \E n \in FileNames : \/ WriteOpens(r, n) \/ DeleteChecks(r, n) \/ RmdirUnlinks(r, n)
                               \/ \E m \in FileNames : RenameChecks(r, n, m)
       \/ DeleteActs(r) \/ RenameActs(r) \/ RmdirLists(r) \/ RmdirEnds(r) \/ MkdirActs(r)

-----------------------------------------------------------------------------
(* Whoever may have taken a name away or put another file there.           *)
Meddled(n) ==
    \E r \in Reqs :
        \/ r \in Rmdirs /\ at[r] # "new"
        \/ r \in Deletes \cup FileRenames /\ at[r] = "ok" /\ n \in {name[r], dest[r]}

(* An upload never touches a file that is there, another upload's and its  *)
(* own retry's included (E2): an answered upload's file holds its bytes,   *)
(* and so does the old one, unless a write opened it; and it is still      *)
(* found under the answered name unless a delete, rename or rmdir took it. *)
UploadsStand ==
    /\ \A i \in {OldFile} \cup {fd[r] : r \in {u \in Uploads : at[u] = "ok"}} :
           bytes[i] = i \/ \E w \in Writes : fd[w] = i
    /\ \A r \in Uploads : at[r] = "ok" => dir[name[r]] = fd[r] \/ Meddled(name[r])
=============================================================================
