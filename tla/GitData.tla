------------------------------ MODULE GitData ------------------------------
(***************************************************************************)
(* The cache of git data on the host (pkg/git_repo/gitdata) and the        *)
(* processes that use it: archives and patches, each a data file with a    *)
(* metadata file that holds its last access, and the clone of a remote     *)
(* repository.  They are made and read under the lock "git_data_manager"   *)
(* held shared and collected under the same lock held exclusively.  The    *)
(* lock is released when the path of a file has been handed out: after     *)
(* that only the three hours for which the collector keeps what was        *)
(* accessed protect the file.                                              *)
(*                                                                         *)
(* What is asked for is a key: the commits and paths of an archive or a    *)
(* patch.  Host locks are released when their holder is killed.  Time is   *)
(* counted in units of which KeepFor make three hours.                     *)
(***************************************************************************)
EXTENDS Naturals, FiniteSets

CONSTANTS
  NoFile,     \* absent
  Torn,       \* metadata, or a record of access, cut off while it was written
  NoProc,
  Procs, Keys,
  Names,      \* the names an include and a git mapping give one remote repository
  KeepFor,    \* three hours
  MaxTime, MaxAsks, MaxKills, MaxCollections   \* bounds

Parts == {1, 2}      \* a clone is written in two parts
Times == 0..MaxTime
Clones == [parts : SUBSET Parts, at : Times \union {NoFile, Torn}]
CloneKey == "clone"
TmpKey == "tmp"

ASSUME ConstantsAssumption ==
  /\ NoFile \notin Times /\ NoFile \notin Keys /\ NoFile \notin Clones
  /\ Torn \notin Times \union {NoFile}
  /\ NoProc \notin Procs
  /\ Keys \intersect {CloneKey, TmpKey, "idle", "pick"} = {}
  /\ KeepFor \in Nat \ {0}
  /\ MaxTime \in Nat /\ MaxAsks \in Nat /\ MaxKills \in Nat /\ MaxCollections \in Nat

VARIABLES
  now,
  meta,     \* of each key, the metadata: the last access, Torn or NoFile
  data,     \* of each key, its data file: the key, or NoFile
  clone,    \* the clone: [parts, at] or NoFile
  tmp,      \* "<clone>.tmp": [parts, at] or NoFile
  keyLock,  \* holder of the lock of a key
  nameLock, \* holder of the lock of a name of the remote repository
  task,     \* of each process: [pc, key], or [pc, name] while it clones
  held,     \* of each process and key: when its path was obtained, or NoFile
  clonedAt, \* of each process: when its access to the clone was recorded, or NoFile
  gc,       \* the collector: [pc, todo, need]
  spent,    \* [asks, kills, collections]: the bounds spent
  damaged,  \* ghost: the clone was written under two names at a time, or its
            \* removal was cut off
  lost      \* ghost: the processes whose recorded access was in a clone that was
            \* removed because a later record in it had been cut off

dataVars == <<now, meta, data, clone, tmp, keyLock, nameLock, task, held, clonedAt,
          gc, spent, damaged, lost>>
files == <<meta, data>>
remote == <<clone, tmp, nameLock, clonedAt, damaged, lost>>

Idle == [pc |-> "idle"]
NoGC == [pc |-> "idle"]
At(p, pc) == task[p].pc = pc
Active(p) == task[p] # Idle
Goto(p, pc) == task' = [task EXCEPT ![p].pc = pc]
End(p) == task' = [task EXCEPT ![p] = Idle]
KeyOf(p) == task[p].key
NameOf(p) == task[p].name

FilePcs == {"get", "make", "recheck", "lock", "meta", "rename"}
Cloning == {"cloneBegin", "clonePart", "cloneRename"}
Tasks ==
  {Idle} \union [pc : FilePcs, key : Keys]
    \union [pc : {"cloneLock", "cloneSee"} \union Cloning, name : Names]
Collectors ==
  {NoGC} \union [pc : {"pick", CloneKey, TmpKey} \union Keys,
                 todo : SUBSET (Keys \union {CloneKey, TmpKey}), need : Nat]

\* Types of the variables; the collector, who holds the lock exclusively, runs
\* only while no process is between asking and being answered.
DataTypeOK ==
  /\ now \in Times
  /\ meta \in [Keys -> {NoFile, Torn} \union Times]
  /\ data \in [Keys -> Keys \union {NoFile}]
  /\ clone \in Clones \union {NoFile} /\ tmp \in Clones \union {NoFile}
  /\ keyLock \in [Keys -> Procs \union {NoProc}]
  /\ nameLock \in [Names -> Procs \union {NoProc}]
  /\ task \in [Procs -> Tasks]
  /\ held \in [Procs -> [Keys -> Times \union {NoFile}]]
  /\ clonedAt \in [Procs -> Times \union {NoFile}]
  /\ gc \in Collectors
  /\ gc.pc # "idle" => \A p \in Procs : ~Active(p)
  /\ damaged \in BOOLEAN /\ lost \subseteq Procs

DataInit ==
  /\ now = 0
  /\ meta = [k \in Keys |-> NoFile] /\ data = [k \in Keys |-> NoFile]
  /\ clone = NoFile /\ tmp = NoFile
  /\ keyLock = [k \in Keys |-> NoProc]
  /\ nameLock = [n \in Names |-> NoProc]
  /\ task = [p \in Procs |-> Idle]
  /\ held = [p \in Procs |-> [k \in Keys |-> NoFile]]
  /\ clonedAt = [p \in Procs |-> NoFile]
  /\ gc = NoGC
  /\ spent = [asks |-> 0, kills |-> 0, collections |-> 0]
  /\ damaged = FALSE /\ lost = {}

-----------------------------------------------------------------------------
(* Archives and patches: GetOrCreate, Get and Create.                      *)

\* A path the process has obtained before comes from its memory; otherwise
\* the shared lock is taken.
AskFor(p, k) ==
  /\ ~Active(p) /\ gc.pc = "idle"
  /\ spent.asks < MaxAsks
  /\ held[p][k] = NoFile
  /\ spent' = [spent EXCEPT !.asks = @ + 1]
  /\ task' = [task EXCEPT ![p] = [pc |-> "get", key |-> k]]
  /\ UNCHANGED <<now, files, keyLock, held, gc, remote>>

Present(k) == meta[k] # NoFile /\ data[k] # NoFile

\* Mutant: the access is not recorded.
GetFileOnly(p, k) ==
  /\ held' = [held EXCEPT ![p][k] = now]
  /\ End(p)
  /\ UNCHANGED meta

\* The access is recorded in the metadata; metadata that cannot be parsed is
\* an error.
GetFile(p, k) ==
  IF meta[k] = Torn
  THEN End(p) /\ UNCHANGED <<meta, held>>
  ELSE /\ meta' = [meta EXCEPT ![k] = now]
       /\ held' = [held EXCEPT ![p][k] = now]
       /\ End(p)

Get(p) ==
  /\ At(p, "get") \/ At(p, "recheck")
  /\ LET k == KeyOf(p) IN
       /\ keyLock[k] = NoProc
       /\ IF Present(k) THEN GetFile(p, k)
          ELSE /\ Goto(p, IF At(p, "get") THEN "make" ELSE "lock")
               /\ UNCHANGED <<meta, held>>
  /\ UNCHANGED <<now, data, keyLock, gc, spent, remote>>

\* The data is written to a file of its own in the service directory.
MakeTmpFile(p) ==
  /\ At(p, "make")
  /\ \/ Goto(p, "recheck")
     \/ End(p)               \* an error of git
  /\ UNCHANGED <<now, files, keyLock, held, gc, spent, remote>>

LockKey(p) ==
  /\ At(p, "lock")
  /\ keyLock[KeyOf(p)] = NoProc
  /\ keyLock' = [keyLock EXCEPT ![KeyOf(p)] = p]
  /\ Goto(p, "meta")
  /\ UNCHANGED <<now, files, held, gc, spent, remote>>

WriteMetadata(p) ==
  /\ At(p, "meta")
  /\ meta' = [meta EXCEPT ![KeyOf(p)] = now]
  /\ Goto(p, "rename")
  /\ UNCHANGED <<now, data, keyLock, held, gc, spent, remote>>

RenameIntoPlace(p) ==
  /\ At(p, "rename")
  /\ data' = [data EXCEPT ![KeyOf(p)] = KeyOf(p)]
  /\ held' = [held EXCEPT ![p][KeyOf(p)] = meta[KeyOf(p)]]
  /\ keyLock' = [keyLock EXCEPT ![KeyOf(p)] = NoProc]
  /\ End(p)
  /\ UNCHANGED <<now, meta, gc, spent, remote>>

-----------------------------------------------------------------------------
(* The clone of a remote repository.                                       *)

ReleaseNames(p) ==
  nameLock' = [n \in DOMAIN nameLock |-> IF nameLock[n] = p THEN NoProc ELSE nameLock[n]]

\* The repository is asked for under the name n.
Clone(p, n) ==
  /\ ~Active(p) /\ gc.pc = "idle"
  /\ spent.asks < MaxAsks
  /\ spent' = [spent EXCEPT !.asks = @ + 1]
  /\ LET pc == IF clone # NoFile THEN "cloneSee" ELSE "cloneLock"
     IN  task' = [task EXCEPT ![p] = [pc |-> pc, name |-> n]]
  /\ UNCHANGED <<now, files, keyLock, held, gc, remote>>

\* Under the lock of its name the process looks again, and empties what an
\* earlier attempt left.
LockRemoteRepo(p) ==
  /\ At(p, "cloneLock")
  /\ nameLock[NameOf(p)] = NoProc
  /\ nameLock' = [nameLock EXCEPT ![NameOf(p)] = p]
  /\ IF clone # NoFile
     THEN Goto(p, "cloneSee") /\ UNCHANGED <<tmp, damaged>>
     ELSE /\ tmp' = NoFile
          /\ damaged' = (damaged \/ \E q \in Procs : task[q].pc \in Cloning)
          /\ Goto(p, "cloneBegin")
  /\ UNCHANGED <<now, files, keyLock, held, gc, spent, clone, clonedAt, lost>>

\* The access is recorded in a clone that is there.
SeeClone(p) ==
  /\ At(p, "cloneSee")
  /\ clone' = [clone EXCEPT !.at = now]
  /\ clonedAt' = [clonedAt EXCEPT ![p] = now]
  /\ lost' = lost \ {p}
  /\ ReleaseNames(p)
  /\ End(p)
  /\ UNCHANGED <<now, files, keyLock, held, gc, spent, tmp, damaged>>

\* The lock is waited for ten minutes.
RemoteRepoLockTimeout(p) ==
  /\ At(p, "cloneLock")
  /\ nameLock[NameOf(p)] # NoProc
  /\ End(p)
  /\ UNCHANGED <<now, files, keyLock, held, gc, spent, remote>>

\* Mutant: the repository is cloned in its place.
WritePartInPlace(p) ==
  /\ At(p, "cloneBegin") \/ At(p, "clonePart")
  /\ LET part == IF At(p, "cloneBegin") THEN 1 ELSE 2
         old == IF clone = NoFile THEN {} ELSE clone.parts
     IN  clone' = [parts |-> old \union {part}, at |-> now]
  /\ Goto(p, IF At(p, "cloneBegin") THEN "clonePart" ELSE "cloneRename")
  /\ UNCHANGED <<now, files, keyLock, held, gc, spent, tmp, nameLock, clonedAt, damaged, lost>>

\* The time of access is written when the clone is complete.
WritePart(p) ==
  /\ At(p, "cloneBegin") \/ At(p, "clonePart")
  /\ LET old == IF tmp = NoFile THEN {} ELSE tmp.parts
     IN  tmp' = IF At(p, "cloneBegin") THEN [parts |-> old \union {1}, at |-> NoFile]
                ELSE [parts |-> old \union {2}, at |-> now]
  /\ Goto(p, IF At(p, "cloneBegin") THEN "clonePart" ELSE "cloneRename")
  /\ UNCHANGED <<now, files, keyLock, held, gc, spent, clone, nameLock, clonedAt, damaged, lost>>

\* Cloning may fail, and so does the rename when the directory is gone or the
\* clone is there already; the temporary directory is removed in any case.
RenameClone(p) ==
  /\ task[p].pc \in {"clonePart", "cloneRename"}
  /\ IF At(p, "cloneRename") /\ tmp # NoFile /\ clone = NoFile
     THEN /\ clone' = tmp
          /\ clonedAt' = [clonedAt EXCEPT ![p] = IF tmp.at = Torn THEN NoFile ELSE tmp.at]
          /\ lost' = lost \ {p}
     ELSE UNCHANGED <<clone, clonedAt, lost>>
  /\ tmp' = NoFile
  /\ ReleaseNames(p)
  /\ End(p)
  /\ UNCHANGED <<now, files, keyLock, held, gc, spent, damaged>>

-----------------------------------------------------------------------------
(* The collector: RunGC.                                                   *)

\* An entry is removed only when its last access is three hours old; without
\* a record of its access a clone counts as accessed at time zero.
Preserved(at) == at # NoFile /\ now - at < KeepFor

LastAccess(e) ==
  CASE e = CloneKey -> clone.at
    [] e = TmpKey -> tmp.at
    [] OTHER -> meta[e]
NotLater(e, f) ==
  IF NoFile \in {LastAccess(e), LastAccess(f)} THEN LastAccess(e) = NoFile
  ELSE LastAccess(e) <= LastAccess(f)

\* A record of access that cannot be read makes a clone invalid, of any age.
Unreadable(d) == d # NoFile /\ d.at = Torn
Entries ==
  {k \in Keys : meta[k] \in Times /\ data[k] # NoFile}
    \union {e \in {CloneKey} : clone # NoFile /\ ~Unreadable(clone)}
    \union {e \in {TmpKey} : tmp # NoFile /\ ~Unreadable(tmp)}
Removable == {e \in Entries : ~Preserved(LastAccess(e))}

\* The removal of a clone, file by file: at first its record may stay or go.
BeginCloneRemoval ==
  \E at \in {clone.at, NoFile} : clone' = [parts |-> {2}, at |-> at]

\* Removed when the entries are listed: metadata that is torn or without its
\* file, and an unreadable clone, whoever has accessed it.  A data file without
\* metadata stays.  "need" is how many entries, of equal size, have to go to
\* reach the target usage.
ListAndRemoveInvalid ==
  /\ gc.pc = "idle" /\ spent.collections < MaxCollections
  /\ \A p \in Procs : ~Active(p)
  /\ spent' = [spent EXCEPT !.collections = @ + 1]
  /\ meta' = [k \in Keys |-> IF meta[k] = Torn \/ data[k] = NoFile THEN NoFile ELSE meta[k]]
  /\ tmp' = IF Unreadable(tmp) THEN NoFile ELSE tmp
  /\ IF Unreadable(clone)
     THEN BeginCloneRemoval /\ lost' = lost \union {p \in Procs : clonedAt[p] # NoFile}
     ELSE UNCHANGED <<clone, lost>>
  /\ \E need \in 1..(Cardinality(Keys) + 1) :
       gc' = [pc |-> IF Unreadable(clone) THEN CloneKey ELSE "pick", todo |-> Removable,
              need |-> need]
  /\ UNCHANGED <<now, data, keyLock, task, held, nameLock, clonedAt, damaged>>

\* The entry accessed least recently goes first: the metadata of a file before
\* its data, a clone file by file.
RemoveEntry(e) ==
  /\ gc.pc = "pick" /\ gc.need > 0
  /\ e \in gc.todo
  /\ \A f \in gc.todo : NotLater(e, f)
  /\ IF e = CloneKey THEN BeginCloneRemoval ELSE UNCHANGED clone
  /\ tmp' = IF e = TmpKey THEN NoFile ELSE tmp
  /\ meta' = [k \in Keys |-> IF k = e THEN NoFile ELSE meta[k]]
  /\ gc' = [pc |-> e, todo |-> gc.todo \ {e}, need |-> gc.need - 1]
  /\ UNCHANGED <<now, data, keyLock, nameLock, task, held, clonedAt, spent, damaged, lost>>

RemoveRest ==
  /\ gc.pc \in Keys \union {CloneKey, TmpKey}
  /\ clone' = IF gc.pc = CloneKey THEN NoFile ELSE clone
  /\ data' = [k \in Keys |-> IF k = gc.pc THEN NoFile ELSE data[k]]
  /\ gc' = [gc EXCEPT !.pc = "pick"]
  /\ UNCHANGED <<now, meta, tmp, keyLock, nameLock, task, held, clonedAt, spent, damaged, lost>>

EndGC ==
  /\ gc.pc = "pick" /\ (gc.need = 0 \/ gc.todo = {})
  /\ gc' = NoGC
  /\ UNCHANGED <<now, files, keyLock, task, held, spent, remote>>

-----------------------------------------------------------------------------
Tick ==
  /\ now < MaxTime
  /\ now' = now + 1
  /\ UNCHANGED <<files, keyLock, task, held, gc, spent, remote>>

\* A killed process loses its memory and its locks; the metadata or the record
\* of access it was writing is cut off.
Kill(p) ==
  /\ spent.kills < MaxKills
  /\ Active(p)
  /\ spent' = [spent EXCEPT !.kills = @ + 1]
  /\ End(p)
  /\ held' = [held EXCEPT ![p] = [k \in Keys |-> NoFile]]
  /\ clonedAt' = [clonedAt EXCEPT ![p] = NoFile]
  /\ keyLock' = [k \in Keys |-> IF keyLock[k] = p THEN NoProc ELSE keyLock[k]]
  /\ ReleaseNames(p)
  /\ \/ UNCHANGED <<meta, clone, tmp>>
     \/ /\ \/ At(p, "meta")
           \/ task[p].pc \in {"get", "recheck"} /\ Present(KeyOf(p))
                /\ keyLock[KeyOf(p)] = NoProc
        /\ meta' = [meta EXCEPT ![KeyOf(p)] = Torn]
        /\ UNCHANGED <<clone, tmp>>
     \/ /\ At(p, "cloneSee")
        /\ clone' = [clone EXCEPT !.at = Torn]
        /\ UNCHANGED <<meta, tmp>>
     \/ /\ At(p, "clonePart") /\ tmp # NoFile
        /\ tmp' = [parts |-> tmp.parts \union {2}, at |-> Torn]
        /\ UNCHANGED <<meta, clone>>
  /\ UNCHANGED <<now, data, gc, damaged, lost>>

KillGC ==
  /\ spent.kills < MaxKills
  /\ gc.pc # "idle"
  /\ spent' = [spent EXCEPT !.kills = @ + 1]
  /\ gc' = NoGC
  /\ damaged' = (damaged \/ gc.pc = CloneKey)
  /\ UNCHANGED <<now, files, keyLock, task, held, clone, tmp, nameLock, clonedAt,
                 lost>>

DataNext ==
  \/ \E p \in Procs :
       \/ \E k \in Keys : AskFor(p, k)
       \/ Get(p) \/ MakeTmpFile(p) \/ LockKey(p) \/ WriteMetadata(p) \/ RenameIntoPlace(p)
       \/ \E n \in Names : Clone(p, n)
       \/ LockRemoteRepo(p) \/ RemoteRepoLockTimeout(p) \/ SeeClone(p)
       \/ WritePart(p) \/ RenameClone(p)
       \/ Kill(p)
  \/ ListAndRemoveInvalid
  \/ \E e \in Keys \union {CloneKey, TmpKey} : RemoveEntry(e)
  \/ RemoveRest \/ EndGC \/ KillGC \/ Tick

DataSpec == DataInit /\ [][DataNext]_dataVars

-----------------------------------------------------------------------------
(* Properties.                                                             *)

\* A path that was handed out leads to a file for the next three hours, and
\* so does a clone from the access that was recorded in it, though no lock is
\* held on them any more and the collector may run at any time (gc.go,
\* git_data_entry.go).  Two exceptions: a clone that was made under two names at
\* a time may be without a record, and is protected only from the next access
\* on; and when a process was killed amid recording its own access, the
\* collector removes the clone at once, however recently others accessed it
\* (git_repo.go, GetGitReposAndRemoveInvalid): those others are the lost.
FilesAtHand ==
  \A p \in Procs :
    /\ \A k \in Keys :
         held[p][k] # NoFile /\ Preserved(held[p][k]) => data[k] # NoFile
    /\ clonedAt[p] # NoFile /\ Preserved(clonedAt[p]) /\ p \notin lost => clone # NoFile

\* The clone in its place is whole, whoever was killed while cloning, with two
\* exceptions: remote.go locks the name of a repository while the path follows
\* from its URL, so two names are cloned into one directory at a time; and a
\* collector killed amid a clone leaves a directory that passes for a clone.
ClonesWhole == clone # NoFile /\ ~damaged /\ gc.pc # CloneKey => clone.parts = Parts

=============================================================================
