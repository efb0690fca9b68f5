--------------------------- MODULE ClientElection ---------------------------
(***************************************************************************)
(* How werf processes come to use the same locks of an http                *)
(* synchronization server.                                                 *)
(*                                                                         *)
(* The server keeps a separate set of locks for each client ID.  Processes *)
(* of a project agree upon a client ID through records in the project's    *)
(* repo: the oldest record counts.  A process that finds a record uses it; *)
(* one that finds none posts a record of its own, sleeps, and reads the    *)
(* records again.  A new client ID is unique, so it stands for the process *)
(* that asked for it.                                                      *)
(*                                                                         *)
(* StagePublish takes the lock of a digest to be the same for everyone;    *)
(* this module is about when it is.                                        *)
(***************************************************************************)
EXTENDS Integers, FiniteSets

CONSTANTS
    Procs,     \* werf processes of one project, building the same stage
    Rank,      \* Rank[p]: where p's record comes in a list of tags
    Skew,      \* Skew[p]: how far p's clock is ahead
    Sleep,     \* how long a process sleeps before the second read
    PostTime,  \* longest time from a record's timestamp to its appearance
    MaxTime,   \* bound on time, unless somebody sleeps
    NoID       \* no client ID, no process

ASSUME ElectionAssumption ==
    /\ Rank \in [Procs -> Nat]
    /\ \A p, q \in Procs : Rank[p] = Rank[q] => p = q
    /\ Skew \in [Procs -> Nat]
    /\ Sleep \in Nat /\ PostTime \in Nat /\ MaxTime \in Nat
    /\ NoID \notin Procs

VARIABLES
    records,   \* client ID records in the repo
    now,
    pc,
    at,        \* at[p]: when p took its timestamp or went to sleep
    ts,        \* ts[p]: timestamp of p's record
    clientID,  \* clientID[p]: what GetHttpClientID has returned
    held,      \* held[id]: who holds the stage's lock in the handler of id
    settled    \* history: processes that read when nobody was about to post

electionVars == <<records, now, pc, at, ts, clientID, held, settled>>

Record == [id : Procs, ts : Nat]
Ended == {"done", "failed"}

\* Types of the variables.
ElectionTypeOK ==
    /\ records \subseteq Record
    /\ now \in Nat
    /\ pc \in [Procs -> {"read", "new", "post", "sleep", "lock", "locked"} \cup Ended]
    /\ at \in [Procs -> Nat]
    /\ ts \in [Procs -> Nat]
    /\ clientID \in [Procs -> Procs \cup {NoID}]
    /\ held \in [Procs -> Procs \cup {NoID}]
    /\ settled \subseteq Procs

ElectionInit ==
    /\ records = {}
    /\ now = 0
    /\ pc = [p \in Procs |-> "read"]
    /\ at = [p \in Procs |-> 0]
    /\ ts = [p \in Procs |-> 0]
    /\ clientID = [p \in Procs |-> NoID]
    /\ held = [p \in Procs |-> NoID]
    /\ settled = {}

Goto(p, label) == pc' = [pc EXCEPT ![p] = label]

-----------------------------------------------------------------------------
(* GetHttpClientID.                                                        *)

\* The first of the oldest records in the order of the list.
selectOldestClientIDRecord(recs) ==
    CHOOSE r \in recs : \A s \in recs :
        r.ts < s.ts \/ (r.ts = s.ts /\ Rank[r.id] <= Rank[s.id])

UseOldest(p) ==
    /\ clientID' = [clientID EXCEPT ![p] = selectOldestClientIDRecord(records).id]
    /\ Goto(p, "lock")

FirstRead(p) ==
    /\ pc[p] = "read"
    /\ \/ /\ records # {}
          /\ UseOldest(p)
          /\ settled' = IF \E q \in Procs : pc[q] \in {"new", "post"}
                        THEN settled ELSE settled \cup {p}
       \/ /\ records = {}
          /\ Goto(p, "new")
          /\ UNCHANGED <<clientID, settled>>
    /\ UNCHANGED <<records, now, at, ts, held>>

\* The server gives a new client ID; then the timestamp is taken.
NewClientID(p) ==
    /\ pc[p] = "new"
    /\ at' = [at EXCEPT ![p] = now]
    /\ ts' = [ts EXCEPT ![p] = now + Skew[p]]
    /\ Goto(p, "post")
    /\ UNCHANGED <<records, now, clientID, held, settled>>

PostClientIDRecord(p) ==
    /\ pc[p] = "post"
    /\ records' = records \cup {[id |-> p, ts |-> ts[p]]}
    /\ at' = [at EXCEPT ![p] = now]
    /\ Goto(p, "sleep")
    /\ UNCHANGED <<now, ts, clientID, held, settled>>

\* Mutant: no time is left for the others to post.
SecondReadAtOnce(p) ==
    /\ pc[p] = "sleep"
    /\ UseOldest(p)
    /\ UNCHANGED <<records, now, at, ts, held, settled>>

SecondRead(p) ==
    /\ pc[p] = "sleep"
    /\ now >= at[p] + Sleep
    /\ UseOldest(p)
    /\ UNCHANGED <<records, now, at, ts, held, settled>>

-----------------------------------------------------------------------------
(* The synchronization server: a handler, with its locks, for each client  *)
(* ID.                                                                     *)

\* Mutant: the lock is granted to whoever asks.
LockStageUnguarded(p) ==
    /\ pc[p] = "lock"
    /\ held' = [held EXCEPT ![clientID[p]] = p]
    /\ Goto(p, "locked")
    /\ UNCHANGED <<records, now, at, ts, clientID, settled>>

LockStage(p) ==
    /\ pc[p] = "lock"
    /\ held[clientID[p]] = NoID
    /\ held' = [held EXCEPT ![clientID[p]] = p]
    /\ Goto(p, "locked")
    /\ UNCHANGED <<records, now, at, ts, clientID, settled>>

Unlock(p) ==
    /\ pc[p] = "locked"
    /\ held' = [held EXCEPT ![clientID[p]] = NoID]
    /\ Goto(p, "done")
    /\ UNCHANGED <<records, now, at, ts, clientID, settled>>

\* The registry or the server fails, or the process is killed; the lock it
\* holds is released by the server when its lease ends.
Fails(p) ==
    /\ pc[p] \notin Ended
    /\ Goto(p, "failed")
    /\ held' = [id \in Procs |-> IF held[id] = p THEN NoID ELSE held[id]]
    /\ UNCHANGED <<records, now, at, ts, clientID, settled>>

\* No record takes longer than PostTime to appear.
Tick ==
    /\ \/ now < MaxTime
       \/ \E p \in Procs : pc[p] = "sleep" /\ now < at[p] + Sleep
    /\ \A p \in Procs : pc[p] = "post" => now < at[p] + PostTime
    /\ now' = now + 1
    /\ UNCHANGED <<records, pc, at, ts, clientID, held, settled>>

ElectionOver ==
    /\ \A p \in Procs : pc[p] \in Ended
    /\ UNCHANGED electionVars

Step(p) ==
    \/ FirstRead(p) \/ NewClientID(p) \/ PostClientIDRecord(p) \/ SecondRead(p)
    \/ LockStage(p) \/ Unlock(p)

ElectionNext == (\E p \in Procs : Step(p) \/ Fails(p)) \/ Tick \/ ElectionOver

ElectionSpec == ElectionInit /\ [][ElectionNext]_electionVars

-----------------------------------------------------------------------------
(* Properties.                                                             *)

\* Processes that have posted a record, and processes that came when no
\* record was on its way, agree upon the client ID, whatever the order of
\* reads and posts and even if timestamps are equal.
Agreement ==
    \A p, q \in Procs :
        ({clientID[p], clientID[q]} \subseteq Procs
         /\ \A r \in {p, q} : r \in settled \/ \E rec \in records : rec.id = r)
            => clientID[p] = clientID[q]

\* Among them at most one holds the lock of a stage.
ExclusiveOnceSettled ==
    \A p, q \in Procs :
        (pc[p] = "locked" /\ pc[q] = "locked"
         /\ \A r \in {p, q} : r \in settled \/ \E rec \in records : rec.id = r)
            => p = q

=============================================================================
