------------------------ MODULE ParallelTasksProofs ------------------------
(***************************************************************************)
(* Proofs about ParallelTasks, for any number of tasks and lines and any   *)
(* limits on the workers: the shares of the workers tile the tasks, errors *)
(* reach the caller, and the printer leaves nothing out.  The second part  *)
(* is about ClientElection: for any number of processes, those that have   *)
(* posted a record, or came when none was on its way, agree upon the       *)
(* client ID and exclude each other.                                       *)
(***************************************************************************)
EXTENDS ParallelTasks, ClientElection, FiniteSetTheorems, WellFoundedInduction, TLAPS

-----------------------------------------------------------------------------
(* The inductive invariant.                                                *)

\* DoTasks waits for all the workers unless it fails to create one, and only an
\* error makes it print a second time.
CallInv ==
  /\ result = "none" <=> phase # "returned"
  /\ phase = "create" \/ result = "notCreated" <=> printer.pc = "off"
  /\ printer.pc # "off" => created = numberOfWorkers
  /\ phase = "print" \/ Returned => \A w \in Workers : worker[w].pc = "ended"
  /\ phase = "print" \/ result = "error" => err # NoErr
  /\ result = "ok" => err = NoErr
  /\ Returned => printer.pc = "ended"

\* The group is cancelled by an error or by the caller.
ErrorInv ==
  /\ cancelled <=> err # NoErr \/ interrupted
  /\ err # NoErr <=> err.kind # "none"
  /\ err.kind = "failed" => err.id \in Workers

Share(w) == numberOfTasksPerWorker(w)

\* A worker that returns without an error has done its share; the group knows
\* of the errors of those that have ended.
WorkerInv(w) ==
  /\ worker[w].pc = "none" <=> w >= created
  /\ worker[w].no <= Share(w)
  /\ worker[w].pc = "task" => worker[w].no < Share(w)
  /\ worker[w].ret # "none" => worker[w].pc \in {"return", "closed", "ended"}
  /\ worker[w].pc \in {"return", "closed", "ended"} /\ worker[w].ret = "none"
       => worker[w].no = Share(w)
  /\ worker[w].pc = "ended" /\ worker[w].ret # "none" => err # NoErr
  /\ worker[w].pc \in {"closed", "ended"} => worker[w].halfClosed
  /\ w \in failures => worker[w].ret = "failed"
  /\ worker[w].read <= worker[w].written

Start(w, i) == [task |-> calculateTaskId(w, i), by |-> w, no |-> i]

\* The history of starts: nothing but tasks of the worker's share, and all of
\* those the worker is past.
StartedInv ==
  /\ \A r \in started : r = Start(r.by, r.no) /\ r.no < Share(r.by)
  /\ \A w \in Workers : \A i \in 0..MaxTasks :
       i < worker[w].no \/ (i = worker[w].no /\ worker[w].pc = "task")
          => Start(w, i) \in started

\* The failed worker comes last in the second Print.
FailedLast == err.kind = "failed" /\ resumed.active # err.id
Again == phase = "print" \/ result = "error"

IndexAt(i) ==
  IF Again /\ FailedLast
  THEN IF i = numberOfWorkers THEN err.id
       ELSE IF i = err.id + 1 THEN numberOfWorkers - 1 ELSE i - 1
  ELSE i - 1

\* The printer goes through all workers, and leaves those it is past only when
\* they have nothing more to show.
PrinterInv ==
  printer.pc # "off" =>
    /\ printer.indexes \in [1..numberOfWorkers -> Workers]
    /\ \A i \in 1..numberOfWorkers : printer.indexes[i] = IndexAt(i)
    /\ \A i \in 1..numberOfWorkers : i < printer.at => ~Readable(IndexAt(i))
    /\ printer.pc = "copy" =>
         printer.at <= numberOfWorkers /\ printer.cursor = IndexAt(printer.at)
    /\ printer.pc = "ended" =>
         \/ printer.at > numberOfWorkers
         \/ IF Again THEN lost ELSE cancelled

\* Lines of a failed worker that comes last come last.
LastInv ==
  Again /\ FailedLast =>
    /\ printer.at < numberOfWorkers =>
         \A i \in 1..Len(out) : i > resumed.lines => out[i] # err.id
    /\ \A i, j \in 1..Len(out) :
         i > resumed.lines /\ j >= i /\ out[i] = err.id => out[j] = err.id

IInv ==
  /\ TypeOK /\ CallInv /\ ErrorInv
  /\ \A w \in Workers : WorkerInv(w)
  /\ StartedInv /\ PrinterInv /\ LastInv

-----------------------------------------------------------------------------
(* Distribution: the shares are intervals that tile the tasks.             *)

ArgsTyped == numberOfTasks \in 0..MaxTasks /\ limit \in Limits

LEMMA NumberOfWorkers ==
  ASSUME ArgsTyped
  PROVE  /\ numberOfTasks \in Nat /\ numberOfWorkers \in 0..numberOfTasks
         /\ numberOfTasks > 0 => numberOfWorkers > 0
         /\ limit > 0 => numberOfWorkers <= limit
         /\ Workers \subseteq AnyWorker /\ Workers \subseteq Nat
BY ParallelAssumption DEF ArgsTyped, numberOfWorkers, Workers, AnyWorker

LEMMA ArgsStay ==
  ASSUME UNCHANGED args
  PROVE  /\ numberOfWorkers' = numberOfWorkers /\ Workers' = Workers
         /\ \A w : Share(w)' = Share(w)
         /\ \A w, i : Start(w, i)' = Start(w, i)
BY DEF args, numberOfWorkers, Workers, Share, numberOfTasksPerWorker, Start,
       calculateTaskId, rest

LEMMA DivMod ==
  ASSUME NEW a \in Nat, NEW b \in Nat, b > 0
  PROVE  a \div b \in Nat /\ a % b \in 0..(b - 1) /\ a = b * (a \div b) + (a % b)
OBVIOUS

\* The first task of a worker.
First(w) == calculateTaskId(w, 0)

LEMMA ShareTypes ==
  ASSUME ArgsTyped, NEW w \in Workers
  PROVE  /\ First(w) \in Nat /\ Share(w) \in Nat
         /\ \A i \in Nat : calculateTaskId(w, i) = First(w) + i
<1> DEFINE q == numberOfTasks \div numberOfWorkers
<1>1. w \in Nat /\ numberOfWorkers \in Nat /\ numberOfWorkers > 0
  BY NumberOfWorkers DEF Workers
<1>2. q \in Nat /\ rest \in Nat
  BY <1>1, NumberOfWorkers, DivMod DEF rest
<1>3. w * q \in Nat
  BY <1>1, <1>2
<1> QED
  BY <1>1, <1>2, <1>3 DEF First, Share, calculateTaskId, numberOfTasksPerWorker

LEMMA SharesInOrder ==
  ASSUME ArgsTyped, NEW v \in Workers, NEW w \in Workers, v < w
  PROVE  First(v) + Share(v) <= First(w)
<1> DEFINE q == numberOfTasks \div numberOfWorkers
<1>1. v \in Nat /\ w \in Nat /\ numberOfWorkers \in Nat /\ numberOfWorkers > 0
  BY NumberOfWorkers DEF Workers
<1>2. q \in Nat /\ rest \in Nat
  BY <1>1, NumberOfWorkers, DivMod DEF rest
<1> HIDE DEF q
<1>3. (v + 1) * q <= w * q /\ v * q \in Nat /\ w * q \in Nat
  BY <1>1, <1>2
<1>4. (v + 1) * q = v * q + q
  BY <1>1, <1>2
<1>5. First(v) = v * q + (IF rest > v THEN v ELSE rest)
  BY <1>1, <1>2, <1>3 DEF First, calculateTaskId, q
<1>6. First(w) = w * q + (IF rest > w THEN w ELSE rest)
  BY <1>1, <1>2, <1>3 DEF First, calculateTaskId, q
<1>7. Share(v) = q + (IF rest > v THEN 1 ELSE 0)
  BY DEF Share, numberOfTasksPerWorker, q
<1> QED
  BY <1>1, <1>2, <1>3, <1>4, <1>5, <1>6, <1>7

LEMMA SharesEnd ==
  ASSUME ArgsTyped, NEW w \in Workers
  PROVE  First(w) + Share(w) <= numberOfTasks
<1> DEFINE q == numberOfTasks \div numberOfWorkers
<1>1. w \in Nat /\ numberOfWorkers \in Nat /\ w + 1 <= numberOfWorkers
      /\ numberOfWorkers > 0 /\ numberOfTasks \in Nat
  BY NumberOfWorkers DEF Workers
<1>2. q \in Nat /\ rest \in 0..(numberOfWorkers - 1)
      /\ numberOfTasks = numberOfWorkers * q + rest
  BY <1>1, DivMod DEF rest
<1> HIDE DEF q
<1>3. (w + 1) * q <= numberOfWorkers * q /\ w * q \in Nat /\ numberOfWorkers * q \in Nat
  BY <1>1, <1>2
<1>4. (w + 1) * q = w * q + q
  BY <1>1, <1>2
<1>5. First(w) = w * q + (IF rest > w THEN w ELSE rest)
  BY <1>1, <1>2, <1>3 DEF First, calculateTaskId, q
<1>6. Share(w) = q + (IF rest > w THEN 1 ELSE 0)
  BY DEF Share, numberOfTasksPerWorker, q
<1> QED
  BY <1>1, <1>2, <1>3, <1>4, <1>5, <1>6

LEMMA TaskIds ==
  ASSUME ArgsTyped, NEW w \in Workers, NEW i \in Nat, i < Share(w)
  PROVE  calculateTaskId(w, i) \in 0..(numberOfTasks - 1) /\ i \in 0..MaxTasks
BY ShareTypes, SharesEnd, NumberOfWorkers, ParallelAssumption DEF ArgsTyped

LEMMA TaskIdsDiffer ==
  ASSUME ArgsTyped, NEW v \in Workers, NEW w \in Workers, NEW i \in Nat, NEW j \in Nat,
         i < Share(v), j < Share(w), calculateTaskId(v, i) = calculateTaskId(w, j)
  PROVE  v = w /\ i = j
<1>1. v \in Nat /\ w \in Nat
  BY NumberOfWorkers
<1>2. /\ First(v) \in Nat /\ First(w) \in Nat /\ Share(v) \in Nat /\ Share(w) \in Nat
      /\ First(v) + i = First(w) + j
  BY ShareTypes
<1>3. ~(v < w)
  BY <1>2, SharesInOrder
<1>4. ~(w < v)
  BY <1>2, SharesInOrder
<1> QED
  BY <1>1, <1>2, <1>3, <1>4

\* Every task is in the share of a worker: the one with the larger shares that
\* t falls in, or else the one with the smaller shares.
LEMMA TaskIdsCover ==
  ASSUME ArgsTyped, NEW t \in 0..(numberOfTasks - 1)
  PROVE  \E w \in Workers : \E i \in Nat : i < Share(w) /\ calculateTaskId(w, i) = t
<1> DEFINE q == numberOfTasks \div numberOfWorkers
           n == numberOfWorkers
           m == t - rest * (q + 1)
<1>1. t \in Nat /\ n \in Nat /\ n > 0 /\ numberOfTasks \in Nat /\ n <= numberOfTasks
      /\ t < numberOfTasks
  BY NumberOfWorkers
<1>2. q \in Nat /\ rest \in 0..(n - 1) /\ numberOfTasks = n * q + rest
  BY <1>1, DivMod DEF rest
<1>3. \A w \in Workers : \A i \in Nat :
         calculateTaskId(w, i) = w * q + i + (IF rest > w THEN w ELSE rest)
  BY DEF calculateTaskId
<1>4. \A w \in Workers : Share(w) = q + (IF rest > w THEN 1 ELSE 0)
  BY DEF Share, numberOfTasksPerWorker
<1>5. Workers = 0..(n - 1)
  BY DEF Workers
<1> HIDE DEF q, n
<1>6. CASE t < rest * (q + 1)
  <2> DEFINE w == t \div (q + 1)
             i == t % (q + 1)
  <2>1. w \in Nat /\ i \in 0..q /\ t = (q + 1) * w + i
    BY <1>1, <1>2, DivMod, q + 1 \in Nat, q + 1 > 0, (q + 1) - 1 = q
  <2> HIDE DEF w, i
  <2>2. w < rest
    <3>1. SUFFICES ASSUME w >= rest PROVE FALSE
      BY <2>1, <1>2
    <3>2. (q + 1) * w >= rest * (q + 1)
      BY <3>1, <2>1, <1>2
    <3>3. (q + 1) * w \in Nat /\ rest * (q + 1) \in Nat
      BY <2>1, <1>2
    <3> QED
      BY <3>2, <3>3, <2>1, <1>6, <1>1
  <2>3. (q + 1) * w = w * q + w /\ w * q \in Nat
    BY <2>1, <1>2
  <2>4. w \in Workers /\ i \in Nat /\ i < Share(w)
    <3>1. w \in Workers /\ i \in Nat
      BY <2>1, <2>2, <1>1, <1>2, <1>5
    <3>2. Share(w) = q + 1
      BY <3>1, <2>1, <2>2, <1>2, <1>4
    <3> QED
      BY <3>1, <3>2, <2>1, <1>2
  <2>5. calculateTaskId(w, i) = t
    BY <2>1, <2>2, <2>3, <2>4, <1>2, <1>3
  <2> QED
    BY <2>4, <2>5
<1>7. CASE t >= rest * (q + 1)
  <2>1. q > 0
    <3>1. SUFFICES ASSUME q = 0 PROVE FALSE
      BY <1>2
    <3>2. n * q = 0
      BY <3>1, <1>1
    <3> QED
      BY <3>2, <1>1, <1>2
  <2>2. m \in Nat /\ rest * (q + 1) \in Nat /\ t = rest * (q + 1) + m
    BY <1>1, <1>2, <1>7
  <2> HIDE DEF m
  <2> DEFINE k == m \div q
             i == m % q
             w == rest + k
  <2>3. k \in Nat /\ i \in 0..(q - 1) /\ m = q * k + i
    BY <2>1, <2>2, <1>2, DivMod
  <2> HIDE DEF k, i
  <2>4. rest * (q + 1) = rest * q + rest /\ rest * q \in Nat /\ q * k \in Nat
    BY <2>3, <1>2
  <2>5. w * q = rest * q + q * k
    BY <2>3, <1>2
  <2>6. w < n
    <3>1. SUFFICES ASSUME w >= n PROVE FALSE
      BY <2>3, <1>1, <1>2
    <3>2. w * q >= n * q /\ n * q \in Nat
      BY <3>1, <2>3, <1>1, <1>2
    <3> QED
      BY <3>2, <2>2, <2>3, <2>4, <2>5, <1>1, <1>2
  <2>7. w \in Workers /\ i \in Nat /\ w >= rest /\ w \in Nat
    BY <2>3, <2>6, <1>1, <1>2, <1>5
  <2>8. i < Share(w)
    BY <2>3, <2>7, <1>2, <1>4
  <2>9. calculateTaskId(w, i) = t
    <3> HIDE DEF w
    <3> QED
      BY <2>2, <2>3, <2>4, <2>5, <2>7, <1>1, <1>2, <1>3
  <2> QED
    BY <2>7, <2>8, <2>9
<1> QED
  BY <1>1, <1>2, <1>6, <1>7

-----------------------------------------------------------------------------
(* Steps of a worker.                                                      *)

\* The fields of a worker, its type taken apart.
WorkerRecord ==
  [pc : {"none", "select", "task", "return", "closed", "ended"},
   no : 0..MaxTasks, ret : Kinds, halfClosed : BOOLEAN,
   written : 0..(MaxTasks * MaxLines), read : 0..(MaxTasks * MaxLines)]

LEMMA Typing ==
  ASSUME TypeOK
  PROVE  ArgsTyped /\ worker \in [AnyWorker -> WorkerRecord]
BY DEF TypeOK, ArgsTyped, WorkerRecord

\* Nobody works any more once the group has been waited for.
LEMMA NotAgain ==
  ASSUME IInv, NEW w \in Workers, worker[w].pc # "ended"
  PROVE  ~Again /\ result \in {"none", "notCreated"}
BY DEF IInv, CallInv, Again, Returned, TypeOK

\* What a worker does to itself is all that the printer sees of it.
LEMMA WorkerKeeps ==
  ASSUME IInv, NEW w \in Workers, worker[w].pc # "ended",
         NEW r \in WorkerRecord, worker' = [worker EXCEPT ![w] = r],
         r.pc # "none", worker[w].pc # "none",
         r.read = worker[w].read, r.written >= worker[w].written,
         r.halfClosed = worker[w].halfClosed \/ (r.halfClosed /\ r.pc = "closed"),
         worker[w].halfClosed => r.written = worker[w].written,
         r.pc \in {"closed", "ended"} => r.halfClosed,
         r.pc = "ended" /\ r.ret # "none" => err' # NoErr,
         r.no <= Share(w), r.pc = "task" => r.no < Share(w),
         r.ret # "none" => r.pc \in {"return", "closed", "ended"},
         r.pc \in {"return", "closed", "ended"} /\ r.ret = "none" => r.no = Share(w),
         w \in failures' => r.ret = "failed",
         failures' \subseteq failures \union {w},
         UNCHANGED <<args, phase, created, printer, interrupted, out, result, lost,
                     resumed>>,
         err # NoErr => UNCHANGED <<err, cancelled>>,
         cancelled => cancelled',
         ErrorInv', err' \in [id : -1..MaxTasks, kind : Kinds], cancelled' \in BOOLEAN,
         StartedInv',
         started' \subseteq [task : 0..(numberOfTasks - 1), by : Workers, no : 0..MaxTasks]
  PROVE  IInv'
<1> USE Typing
<1>a. ArgsTyped /\ worker \in [AnyWorker -> WorkerRecord] /\ w \in AnyWorker
  BY NumberOfWorkers DEF IInv
<1>b. /\ numberOfWorkers' = numberOfWorkers /\ Workers' = Workers
      /\ \A v : Share(v)' = Share(v)
  BY ArgsStay
<1>c. ~Again /\ ~Again' /\ result \in {"none", "notCreated"}
  BY NotAgain DEF Again
<1>d. worker'[w] = r /\ \A v \in Workers : v # w => worker'[v] = worker[v]
  BY <1>a, NumberOfWorkers
<1>1. TypeOK'
  BY <1>a, <1>b DEF IInv, TypeOK, WorkerRecord, args
<1>2. CallInv'
  BY <1>b, <1>c, NotAgain DEF IInv, CallInv, Returned, Again
<1>3. ASSUME NEW v \in Workers' PROVE WorkerInv(v)'
  <2>1. CASE v = w
    BY <2>1, <1>a, <1>b, <1>d DEF IInv, WorkerInv, WorkerRecord
  <2>2. CASE v # w
    BY <2>2, <1>3, <1>b, <1>d DEF IInv, WorkerInv
  <2> QED
    BY <2>1, <2>2
<1>4. PrinterInv'
  <2>1. \A i : IndexAt(i) = i - 1 /\ IndexAt(i)' = i - 1
    BY <1>c DEF IndexAt
  <2>2. \A v \in Workers : ~Readable(v) => ~Readable(v)'
    BY <1>a, <1>d DEF Readable, WorkerRecord
  <2>3. \A i \in 1..numberOfWorkers : i - 1 \in Workers
    BY <1>a, NumberOfWorkers DEF Workers
  <2> QED
    BY <2>1, <2>2, <2>3, <1>b, <1>c DEF IInv, PrinterInv
<1>5. LastInv'
  BY <1>c DEF LastInv
<1> QED
  BY <1>1, <1>2, <1>3, <1>4, <1>5 DEF IInv

LEMMA WorkerForms ==
  ASSUME IInv, NEW w \in Workers
  PROVE  /\ worker \in [AnyWorker -> WorkerRecord] /\ w \in AnyWorker
         /\ worker[w] \in WorkerRecord /\ WorkerInv(w) /\ Share(w) \in Nat
         /\ Share(w) <= MaxTasks
         /\ started \subseteq [task : 0..(numberOfTasks - 1), by : Workers,
                               no : 0..MaxTasks]
         /\ err \in [id : -1..MaxTasks, kind : Kinds] /\ cancelled \in BOOLEAN
<1>1. ArgsTyped
  BY Typing DEF IInv
<1>2. Share(w) \in Nat /\ First(w) \in Nat /\ First(w) + Share(w) <= numberOfTasks
  BY <1>1, ShareTypes, SharesEnd
<1>3. numberOfTasks \in 0..MaxTasks /\ MaxTasks \in Nat
  BY <1>1, ParallelAssumption DEF ArgsTyped
<1>4. Share(w) <= MaxTasks
  BY <1>2, <1>3
<1>5. worker \in [AnyWorker -> WorkerRecord] /\ w \in AnyWorker
  BY <1>1, Typing, NumberOfWorkers DEF IInv
<1> QED
  BY <1>2, <1>4, <1>5 DEF IInv, TypeOK

\* A step that neither starts a task nor ends one.
LEMMA StartedStay ==
  ASSUME IInv, NEW w \in Workers, NEW r, worker' = [worker EXCEPT ![w] = r],
         r.no = worker[w].no, r.pc = "task" => worker[w].pc = "task",
         UNCHANGED <<args, started>>
  PROVE  StartedInv'
<1>1. \A v \in Workers : v # w => worker'[v] = worker[v]
  BY WorkerForms, NumberOfWorkers, Typing DEF IInv
<1>2. worker'[w] = r
  BY WorkerForms
<1> QED
  BY <1>1, <1>2, ArgsStay DEF IInv, StartedInv

LEMMA SelectKeeps ==
  ASSUME IInv, NEW w \in Workers, Select(w)
  PROVE  IInv'
<1> USE WorkerForms
<1>1. /\ worker[w].pc = "select" /\ worker[w].ret = "none" /\ worker[w].no <= Share(w)
      /\ UNCHANGED args /\ ErrorInv /\ worker[w].no \in 0..MaxTasks
  BY DEF Select, WorkerInv, IInv, WorkerRecord
<1>2. ErrorInv'
  BY <1>1, ArgsStay DEF Select, ErrorInv
<1>3. CASE /\ worker[w].no = Share(w)
           /\ worker' = [worker EXCEPT ![w].pc = "return"]
           /\ UNCHANGED started
  <2> DEFINE r == [worker[w] EXCEPT !.pc = "return"]
  <2>1. r \in WorkerRecord /\ worker' = [worker EXCEPT ![w] = r]
    BY <1>3 DEF WorkerRecord
  <2>2. StartedInv'
    BY <1>1, <1>3, <2>1, StartedStay DEF WorkerRecord
  <2> QED
    BY <1>1, <1>2, <1>3, <2>1, <2>2, WorkerKeeps DEF Select, WorkerInv, WorkerRecord
<1>4. CASE /\ cancelled
           /\ worker' = [worker EXCEPT ![w].pc = "return", ![w].ret = "canceled"]
           /\ UNCHANGED started
  <2> DEFINE r == [worker[w] EXCEPT !.pc = "return", !.ret = "canceled"]
  <2>1. r \in WorkerRecord /\ worker' = [worker EXCEPT ![w] = r]
    BY <1>4 DEF WorkerRecord, Kinds
  <2>2. StartedInv'
    BY <1>1, <1>4, <2>1, StartedStay DEF WorkerRecord
  <2> QED
    BY <1>1, <1>2, <1>4, <2>1, <2>2, WorkerKeeps DEF Select, WorkerInv, WorkerRecord
<1>5. CASE /\ worker[w].no < Share(w)
           /\ worker' = [worker EXCEPT ![w].pc = "task"]
           /\ started' = started \union {Start(w, worker[w].no)}
  <2> DEFINE r == [worker[w] EXCEPT !.pc = "task"]
  <2>1. r \in WorkerRecord /\ worker' = [worker EXCEPT ![w] = r]
    BY <1>5 DEF WorkerRecord
  <2>2. \A v \in Workers : v # w => worker'[v] = worker[v]
    BY <1>5, NumberOfWorkers, Typing DEF IInv
  <2>3. worker'[w] = r
    BY <2>1
  <2>4. calculateTaskId(w, worker[w].no) \in 0..(numberOfTasks - 1)
    BY <1>1, <1>5, TaskIds, Typing DEF IInv
  <2>5. Start(w, worker[w].no) \in [task : 0..(numberOfTasks - 1), by : Workers,
                                    no : 0..MaxTasks]
    BY <1>1, <2>4 DEF Start
  <2>6. StartedInv'
    <3>1. ASSUME NEW x \in started' PROVE (x = Start(x.by, x.no) /\ x.no < Share(x.by))'
      <4>1. Start(w, worker[w].no).by = w /\ Start(w, worker[w].no).no = worker[w].no
        BY DEF Start
      <4>2. x = Start(x.by, x.no) /\ x.no < Share(x.by)
        BY <3>1, <4>1, <1>5 DEF IInv, StartedInv
      <4> QED
        BY <4>2, <1>1, ArgsStay
    <3>2. ASSUME NEW v \in Workers, NEW i \in 0..MaxTasks,
                 i < worker'[v].no \/ (i = worker'[v].no /\ worker'[v].pc = "task")
          PROVE  Start(v, i) \in started'
      BY <3>2, <1>1, <1>5, <2>2, <2>3 DEF IInv, StartedInv, WorkerRecord
    <3> QED
      BY <3>1, <3>2, <1>1, ArgsStay DEF StartedInv
  <2>7. started' \subseteq [task : 0..(numberOfTasks - 1), by : Workers, no : 0..MaxTasks]
    BY <2>5, <1>5
  <2> HIDE DEF r
  <2>8. r.pc = "task" /\ r.no = worker[w].no /\ r.ret = "none" /\ r.read = worker[w].read
        /\ r.written = worker[w].written /\ r.halfClosed = worker[w].halfClosed
    BY <1>1 DEF r, WorkerRecord
  <2> QED
    BY <1>1, <1>2, <1>5, <2>1, <2>6, <2>7, <2>8, WorkerKeeps
       DEF Select, WorkerInv, WorkerRecord
<1> QED
  BY <1>3, <1>4, <1>5 DEF Select, Share, Start

LEMMA WriteKeeps ==
  ASSUME IInv, NEW w \in Workers, Write(w)
  PROVE  IInv'
<1> USE WorkerForms
<1> DEFINE r == [worker[w] EXCEPT !.written = worker[w].written + 1]
<1>1. /\ worker[w].pc = "task" /\ ~worker[w].halfClosed
      /\ worker[w].written < (worker[w].no + 1) * MaxLines
      /\ worker' = [worker EXCEPT ![w] = r] /\ UNCHANGED <<args, started>>
  BY DEF Write, history
<1>2. worker[w].no + 1 <= MaxTasks /\ worker[w].no \in Nat
  BY <1>1, ParallelAssumption DEF WorkerInv, WorkerRecord
<1>3. (worker[w].no + 1) * MaxLines <= MaxTasks * MaxLines
      /\ (worker[w].no + 1) * MaxLines \in Nat /\ MaxTasks * MaxLines \in Nat
  BY <1>2, ParallelAssumption
<1>4. worker[w].written \in Nat /\ worker[w].written + 1 \in 0..(MaxTasks * MaxLines)
  BY <1>1, <1>3 DEF WorkerRecord
<1>5. r \in WorkerRecord
  BY <1>4 DEF WorkerRecord
<1>6. /\ r.pc = "task" /\ r.no = worker[w].no /\ r.ret = worker[w].ret
      /\ r.read = worker[w].read /\ r.written = worker[w].written + 1
      /\ r.halfClosed = worker[w].halfClosed
  BY <1>1 DEF WorkerRecord
<1> HIDE DEF r
<1>7. StartedInv'
  BY <1>1, <1>6, StartedStay
<1>8. ErrorInv'
  BY <1>1, ArgsStay DEF Write, IInv, ErrorInv
<1>9. UNCHANGED <<args, phase, created, printer, cancelled, interrupted, err, out, result,
                  failures, lost, resumed>>
  BY DEF Write, history
<1>10. r.halfClosed = worker[w].halfClosed \/ (r.halfClosed /\ r.pc = "closed")
  BY <1>6
<1>11. /\ r.written >= worker[w].written
       /\ r.no <= Share(w) /\ r.no < Share(w) /\ r.ret = "none"
       /\ w \notin failures' /\ failures' \subseteq failures \union {w}
  BY <1>1, <1>4, <1>6, <1>9 DEF WorkerInv
<1>12. /\ err' \in [id : -1..MaxTasks, kind : Kinds] /\ cancelled' \in BOOLEAN
       /\ cancelled => cancelled'
       /\ err # NoErr => UNCHANGED <<err, cancelled>>
  BY <1>9
<1>13. started' \subseteq [task : 0..(numberOfTasks - 1), by : Workers, no : 0..MaxTasks]
  BY <1>1
<1>14. UNCHANGED <<args, phase, created, printer, interrupted, out, result, lost, resumed>>
  BY <1>9
<1> QED
  BY <1>1, <1>5, <1>6, <1>7, <1>8, <1>10, <1>11, <1>12, <1>13, <1>14, WorkerKeeps

LEMMA TaskEndsKeeps ==
  ASSUME IInv, NEW w \in Workers, TaskEnds(w)
  PROVE  IInv'
<1> USE WorkerForms
<1>1. /\ worker[w].pc = "task" /\ worker[w].no \in 0..MaxTasks
      /\ worker[w].no < Share(w) /\ worker[w].ret = "none"
      /\ UNCHANGED <<args, started>>
  BY DEF TaskEnds, WorkerInv, WorkerRecord
<1>2. ErrorInv'
  BY <1>1, ArgsStay DEF TaskEnds, IInv, ErrorInv
<1>3. CASE /\ worker' = [worker EXCEPT ![w].pc = "select", ![w].no = @ + 1]
           /\ UNCHANGED failures
  <2> DEFINE r == [worker[w] EXCEPT !.pc = "select", !.no = worker[w].no + 1]
  <2>1. r \in WorkerRecord /\ worker' = [worker EXCEPT ![w] = r]
    BY <1>1, <1>3, ParallelAssumption DEF WorkerRecord
  <2>2. /\ r.pc = "select" /\ r.no = worker[w].no + 1 /\ r.ret = worker[w].ret
        /\ r.read = worker[w].read /\ r.written = worker[w].written
        /\ r.halfClosed = worker[w].halfClosed
    BY DEF WorkerRecord
  <2>3. worker'[w] = r /\ \A v \in Workers : v # w => worker'[v] = worker[v]
    BY <2>1, NumberOfWorkers, Typing DEF IInv
  <2> HIDE DEF r
  <2>4. StartedInv'
    <3>1. ASSUME NEW v \in Workers, NEW i \in 0..MaxTasks,
                 i < worker'[v].no \/ (i = worker'[v].no /\ worker'[v].pc = "task")
          PROVE  Start(v, i) \in started'
      <4>1. CASE v = w
        <5>1. i < worker[w].no \/ (i = worker[w].no /\ worker[w].pc = "task")
          BY <4>1, <3>1, <1>1, <2>2, <2>3, ParallelAssumption
        <5> QED
          BY <4>1, <5>1, <1>1 DEF IInv, StartedInv
      <4>2. CASE v # w
        BY <4>2, <3>1, <1>1, <2>3 DEF IInv, StartedInv
      <4> QED
        BY <4>1, <4>2
    <3> QED
      BY <3>1, <1>1, ArgsStay DEF IInv, StartedInv
  <2> QED
    BY <1>1, <1>2, <1>3, <2>1, <2>2, <2>4, WorkerKeeps
       DEF TaskEnds, WorkerInv, WorkerRecord
<1>4. ASSUME NEW kind \in {"failed", "canceled"},
             worker' = [worker EXCEPT ![w].pc = "return", ![w].ret = kind],
             failures' = failures \union (IF kind = "failed" THEN {w} ELSE {})
      PROVE  IInv'
  <2> DEFINE r == [worker[w] EXCEPT !.pc = "return", !.ret = kind]
  <2>1. r \in WorkerRecord /\ worker' = [worker EXCEPT ![w] = r]
    BY <1>4 DEF WorkerRecord, Kinds
  <2>2. /\ r.pc = "return" /\ r.no = worker[w].no /\ r.ret = kind
        /\ r.read = worker[w].read /\ r.written = worker[w].written
        /\ r.halfClosed = worker[w].halfClosed
    BY DEF WorkerRecord
  <2> HIDE DEF r
  <2>3. StartedInv'
    BY <1>1, <2>1, <2>2, StartedStay
  <2>4. w \notin failures
    BY <1>1 DEF WorkerInv
  <2> QED
    BY <1>1, <1>2, <1>4, <2>1, <2>2, <2>3, <2>4, WorkerKeeps
       DEF TaskEnds, WorkerInv, WorkerRecord
<1> QED
  BY <1>3, <1>4 DEF TaskEnds

LEMMA HalfCloseKeeps ==
  ASSUME IInv, NEW w \in Workers, HalfClose(w)
  PROVE  IInv'
<1> USE WorkerForms
<1> DEFINE r == [worker[w] EXCEPT !.pc = "closed", !.halfClosed = TRUE]
<1>1. /\ worker[w].pc = "return" /\ worker' = [worker EXCEPT ![w] = r]
      /\ UNCHANGED <<args, started>> /\ r \in WorkerRecord
  BY DEF HalfClose, history, WorkerRecord
<1>2. /\ r.pc = "closed" /\ r.no = worker[w].no /\ r.ret = worker[w].ret
      /\ r.read = worker[w].read /\ r.written = worker[w].written
      /\ r.halfClosed = TRUE
  BY DEF WorkerRecord
<1> HIDE DEF r
<1>3. StartedInv'
  BY <1>1, <1>2, StartedStay
<1>4. ErrorInv'
  BY <1>1, ArgsStay DEF HalfClose, IInv, ErrorInv
<1>5. UNCHANGED <<args, phase, created, printer, cancelled, interrupted, err, out, result,
                  failures, lost, resumed>>
  BY DEF HalfClose, history
<1>6. r.halfClosed = worker[w].halfClosed \/ (r.halfClosed /\ r.pc = "closed")
  BY <1>2
<1>7. /\ r.written >= worker[w].written
      /\ r.no <= Share(w)
      /\ r.ret = "none" => r.no = Share(w)
      /\ w \in failures' => r.ret = "failed"
      /\ failures' \subseteq failures \union {w}
  BY <1>1, <1>2, <1>5 DEF WorkerInv, WorkerRecord
<1>8. /\ err' \in [id : -1..MaxTasks, kind : Kinds] /\ cancelled' \in BOOLEAN
  BY <1>5
<1>9. started' \subseteq [task : 0..(numberOfTasks - 1), by : Workers, no : 0..MaxTasks]
  BY <1>1
<1>10. err # NoErr => UNCHANGED <<err, cancelled>>
  BY <1>5
<1>11. UNCHANGED <<args, phase, created, printer, interrupted, out, result, lost, resumed>>
  BY <1>5
<1>12. cancelled => cancelled'
  BY <1>5
<1> QED
  BY <1>1, <1>2, <1>3, <1>4, <1>6, <1>7, <1>8, <1>9, <1>10, <1>11, <1>12, WorkerKeeps

\* The first error stays, and cancels the group.
LEMMA ErrorSet ==
  ASSUME TypeOK, ErrorInv, UNCHANGED <<args, interrupted>>,
         NEW id \in -1..MaxTasks, NEW kind \in Kinds, kind # "none",
         kind = "failed" => id \in Workers, SetErr(id, kind)
  PROVE  /\ ErrorInv' /\ err' # NoErr
         /\ err' \in [id : -1..MaxTasks, kind : Kinds] /\ cancelled' = TRUE
         /\ err # NoErr => UNCHANGED <<err, cancelled>>
<1>1. CASE err = NoErr
  BY <1>1, ArgsStay DEF SetErr, ErrorInv, NoErr, TypeOK
<1>2. CASE err # NoErr
  BY <1>2, ArgsStay DEF SetErr, ErrorInv, TypeOK
<1> QED
  BY <1>1, <1>2

LEMMA ReportKeeps ==
  ASSUME IInv, NEW w \in Workers, Report(w)
  PROVE  IInv'
<1> USE WorkerForms
<1> DEFINE r == [worker[w] EXCEPT !.pc = "ended"]
<1>1. /\ worker[w].pc = "closed" /\ worker' = [worker EXCEPT ![w] = r]
      /\ UNCHANGED <<args, started, interrupted>> /\ r \in WorkerRecord
  BY DEF Report, history, WorkerRecord
<1>2. /\ r.pc = "ended" /\ r.no = worker[w].no /\ r.ret = worker[w].ret
      /\ r.read = worker[w].read /\ r.written = worker[w].written
      /\ r.halfClosed = worker[w].halfClosed
  BY DEF WorkerRecord
<1> HIDE DEF r
<1>3. StartedInv'
  BY <1>1, <1>2, StartedStay
<1>a. UNCHANGED <<args, phase, created, printer, interrupted, out, result, failures, lost,
                  resumed>>
  BY DEF Report, history
<1>b. /\ r.halfClosed = worker[w].halfClosed \/ (r.halfClosed /\ r.pc = "closed")
      /\ worker[w].halfClosed
  BY <1>1, <1>2 DEF WorkerInv
<1>c. /\ r.written >= worker[w].written /\ r.no <= Share(w)
      /\ r.ret = "none" => r.no = Share(w)
      /\ w \in failures' => r.ret = "failed"
      /\ failures' \subseteq failures \union {w}
  BY <1>1, <1>2, <1>a DEF WorkerInv, WorkerRecord
<1>d. started' \subseteq [task : 0..(numberOfTasks - 1), by : Workers, no : 0..MaxTasks]
  BY <1>1
<1>e. UNCHANGED <<args, phase, created, printer, interrupted, out, result, lost, resumed>>
  BY <1>a
<1>4. CASE worker[w].ret = "none"
  <2>1. ErrorInv' /\ UNCHANGED <<err, cancelled>>
    BY <1>1, <1>4, ArgsStay DEF Report, IInv, ErrorInv
  <2>2. err' \in [id : -1..MaxTasks, kind : Kinds] /\ cancelled' \in BOOLEAN
        /\ (cancelled => cancelled')
    BY <2>1
  <2> QED
    BY <1>1, <1>2, <1>3, <1>4, <1>b, <1>c, <1>d, <1>e, <2>1, <2>2, WorkerKeeps
<1>5. CASE worker[w].ret # "none"
  <2>1. w \in -1..MaxTasks /\ worker[w].ret \in Kinds
    BY ParallelAssumption DEF AnyWorker, WorkerRecord
  <2>2. SetErr(w, worker[w].ret)
    BY <1>5 DEF Report
  <2>3. /\ ErrorInv' /\ err' # NoErr
        /\ err' \in [id : -1..MaxTasks, kind : Kinds] /\ cancelled' = TRUE
        /\ err # NoErr => UNCHANGED <<err, cancelled>>
    BY <1>1, <1>5, <2>1, <2>2, ErrorSet DEF IInv
  <2> QED
    BY <1>1, <1>2, <1>3, <1>5, <1>b, <1>c, <1>d, <1>e, <2>3, WorkerKeeps
<1> QED
  BY <1>4, <1>5

-----------------------------------------------------------------------------
(* Steps of the printer.                                                   *)

Printer == [pc : {"off", "next", "copy", "ended"}, indexes : Seq(Workers),
            at : 1..(numberOfWorkers + 1), cursor : AnyWorker \union {0}]

LEMMA PrinterForms ==
  ASSUME IInv, printer.pc # "off"
  PROVE  /\ printer \in Printer /\ numberOfWorkers \in Nat
         /\ Len(printer.indexes) = numberOfWorkers
         /\ \A i \in 1..numberOfWorkers :
              IndexAt(i) \in Workers /\ printer.indexes[i] = IndexAt(i)
<1>1. printer \in Printer /\ numberOfWorkers \in Nat
  BY Typing, NumberOfWorkers DEF IInv, TypeOK, Printer
<1>2. /\ printer.indexes \in [1..numberOfWorkers -> Workers]
      /\ \A i \in 1..numberOfWorkers : printer.indexes[i] = IndexAt(i)
  BY DEF IInv, PrinterInv
<1>3. printer.indexes \in Seq(Workers)
  BY <1>1 DEF Printer
<1> QED
  BY <1>1, <1>2, <1>3

\* The list of the printer names every worker, and the failed one last.
LEMMA IndexesCover ==
  ASSUME IInv, NEW w \in Workers
  PROVE  \E i \in 1..numberOfWorkers : IndexAt(i) = w
<1>1. numberOfWorkers \in Nat /\ Workers = 0..(numberOfWorkers - 1)
  BY Typing, NumberOfWorkers DEF IInv, Workers
<1>2. FailedLast => err.id \in Workers
  BY DEF FailedLast, IInv, ErrorInv
<1>3. CASE Again /\ FailedLast /\ w = err.id
  BY <1>1, <1>3 DEF IndexAt
<1>4. CASE Again /\ FailedLast /\ w # err.id /\ w = numberOfWorkers - 1
  <2>1. err.id + 1 \in 1..numberOfWorkers /\ err.id + 1 # numberOfWorkers
    BY <1>1, <1>2, <1>4
  <2>2. IndexAt(err.id + 1) = w
    BY <2>1, <1>1, <1>4 DEF IndexAt
  <2> QED
    BY <2>1, <2>2
<1>5. CASE ~(Again /\ FailedLast) \/ (w # err.id /\ w # numberOfWorkers - 1)
  <2>1. w + 1 \in 1..numberOfWorkers
    BY <1>1
  <2>2. IndexAt(w + 1) = w
    BY <2>1, <1>1, <1>2, <1>5 DEF IndexAt
  <2> QED
    BY <2>1, <2>2
<1> QED
  BY <1>3, <1>4, <1>5

LEMMA LastIndex ==
  ASSUME IInv, Again, FailedLast, NEW i \in 1..numberOfWorkers
  PROVE  IndexAt(i) = err.id <=> i = numberOfWorkers
<1>1. numberOfWorkers \in Nat /\ err.id \in 0..(numberOfWorkers - 1)
  BY Typing, NumberOfWorkers DEF IInv, Workers, FailedLast, ErrorInv
<1> QED
  BY <1>1 DEF IndexAt

LEMMA PrintNextKeeps ==
  ASSUME IInv, PrintNext
  PROVE  IInv'
<1>1. /\ printer.pc = "next" /\ printer \in Printer /\ numberOfWorkers \in Nat
      /\ Len(printer.indexes) = numberOfWorkers
      /\ \A i \in 1..numberOfWorkers :
           IndexAt(i) \in Workers /\ printer.indexes[i] = IndexAt(i)
  BY PrinterForms DEF PrintNext
<1>2. UNCHANGED <<args, phase, created, worker, cancelled, interrupted, err, out, result,
                  started, failures, lost, resumed>>
  BY DEF PrintNext, history
<1>3. /\ numberOfWorkers' = numberOfWorkers /\ Workers' = Workers
      /\ (\A v : Share(v)' = Share(v)) /\ (\A v, i : Start(v, i)' = Start(v, i))
  BY <1>2, ArgsStay
<1>4. /\ Again' = Again /\ FailedLast' = FailedLast /\ \A i : IndexAt(i)' = IndexAt(i)
      /\ \A w : Readable(w)' = Readable(w)
  BY <1>2, <1>3 DEF Again, FailedLast, IndexAt, Readable
<1>5. CallInv /\ PrinterInv /\ phase # "create" /\ result = "none"
  BY <1>1 DEF IInv, CallInv, Returned, TypeOK
<1>6. /\ printer' \in Printer /\ printer'.at = printer.at
      /\ printer'.indexes = printer.indexes
      /\ printer'.pc \in {"copy", "ended"}
      /\ printer'.pc = "copy" =>
           printer.at <= numberOfWorkers /\ printer'.cursor = IndexAt(printer.at)
      /\ printer'.pc = "ended" => printer.at > numberOfWorkers \/ PrintCancelled
  <2>1. CASE /\ printer.at > numberOfWorkers
             /\ printer' = [printer EXCEPT !.pc = "ended"]
    BY <2>1, <1>1 DEF Printer
  <2>2. CASE /\ printer.at <= numberOfWorkers
             /\ printer' = [printer EXCEPT
                              !.cursor = printer.indexes[printer.at],
                              !.pc = IF PrintCancelled THEN "ended" ELSE "copy"]
    <3>1. printer.at \in 1..numberOfWorkers /\ Workers \subseteq AnyWorker
      BY <2>2, <1>1, Typing, NumberOfWorkers DEF Printer, IInv
    <3> QED
      BY <2>2, <3>1, <1>1 DEF Printer
  <2> QED
    BY <2>1, <2>2, <1>1 DEF PrintNext
<1>7. TypeOK'
  BY <1>2, <1>3, <1>6 DEF IInv, TypeOK, Printer, args
<1>8. CallInv'
  BY <1>1, <1>2, <1>3, <1>5, <1>6 DEF CallInv, Returned
<1>9. ErrorInv'
  BY <1>2, <1>3 DEF IInv, ErrorInv
<1>10. \A w \in Workers' : WorkerInv(w)'
  BY <1>2, <1>3 DEF IInv, WorkerInv
<1>11. StartedInv'
  BY <1>2, <1>3 DEF IInv, StartedInv
<1>12. PrinterInv'
  <2>1. PrintCancelled => cancelled' /\ ~Again
    BY <1>2, <1>5 DEF PrintCancelled, Again
  <2> QED
    BY <1>1, <1>2, <1>3, <1>4, <1>5, <1>6, <2>1 DEF PrinterInv
<1>13. LastInv'
  BY <1>2, <1>3, <1>4, <1>6 DEF IInv, LastInv
<1> QED
  BY <1>7, <1>8, <1>9, <1>10, <1>11, <1>12, <1>13 DEF IInv

\* The place of the printer while it copies.
LEMMA Copying ==
  ASSUME IInv, printer.pc = "copy"
  PROVE  /\ printer \in Printer /\ numberOfWorkers \in Nat
         /\ printer.at \in 1..numberOfWorkers /\ printer.cursor = IndexAt(printer.at)
         /\ printer.cursor \in Workers /\ printer.cursor \in AnyWorker
         /\ result = "none" /\ phase \in {"wait", "print"}
         /\ phase = "print" <=> Again
<1>1. /\ printer \in Printer /\ numberOfWorkers \in Nat
      /\ \A i \in 1..numberOfWorkers : IndexAt(i) \in Workers
  BY PrinterForms
<1>2. printer.at <= numberOfWorkers /\ printer.cursor = IndexAt(printer.at)
  BY DEF IInv, PrinterInv
<1>3. printer.at \in 1..numberOfWorkers
  BY <1>1, <1>2 DEF Printer
<1>4. result = "none" /\ phase \in {"wait", "print"}
  BY DEF IInv, CallInv, Returned, TypeOK
<1> QED
  BY <1>1, <1>2, <1>3, <1>4, Typing, NumberOfWorkers DEF IInv, Again

\* The printer leaves a worker it is done with, or gives up.
LEMMA CopyMoves ==
  ASSUME IInv, printer.pc = "copy",
         UNCHANGED <<args, phase, created, worker, cancelled, interrupted, err, out,
                     result, started, failures, lost, resumed>>,
         \/ /\ ~Readable(printer.cursor)
            /\ printer' = [printer EXCEPT !.pc = "next", !.at = @ + 1]
         \/ /\ PrintCancelled
            /\ printer' = [printer EXCEPT !.pc = "ended"]
  PROVE  IInv'
<1>1. /\ printer \in Printer /\ numberOfWorkers \in Nat
      /\ printer.at \in 1..numberOfWorkers /\ printer.cursor = IndexAt(printer.at)
      /\ result = "none" /\ phase \in {"wait", "print"}
      /\ phase = "print" <=> Again
  BY Copying
<1>3. /\ numberOfWorkers' = numberOfWorkers /\ Workers' = Workers
      /\ (\A v : Share(v)' = Share(v)) /\ (\A v, i : Start(v, i)' = Start(v, i))
  BY ArgsStay
<1>4. /\ Again' = Again /\ FailedLast' = FailedLast /\ \A i : IndexAt(i)' = IndexAt(i)
      /\ \A w : Readable(w)' = Readable(w)
  BY <1>3 DEF Again, FailedLast, IndexAt, Readable
<1>5. /\ printer' \in Printer /\ printer'.indexes = printer.indexes
      /\ \/ /\ printer'.pc = "next" /\ printer'.at = printer.at + 1
            /\ ~Readable(IndexAt(printer.at))
         \/ /\ printer'.pc = "ended" /\ printer'.at = printer.at
            /\ cancelled /\ ~Again
  <2>1. CASE /\ ~Readable(printer.cursor)
             /\ printer' = [printer EXCEPT !.pc = "next", !.at = @ + 1]
    <3>1. printer.at + 1 \in 1..(numberOfWorkers + 1)
      BY <1>1
    <3>2. printer' = [printer EXCEPT !.pc = "next", !.at = printer.at + 1]
      BY <2>1
    <3>3. printer'.pc = "next" /\ printer'.at = printer.at + 1
          /\ printer'.indexes = printer.indexes /\ printer' \in Printer
      BY <3>1, <3>2, <1>1 DEF Printer
    <3> QED
      BY <2>1, <3>3, <1>1
  <2>2. CASE PrintCancelled /\ printer' = [printer EXCEPT !.pc = "ended"]
    <3>1. printer'.pc = "ended" /\ printer'.at = printer.at
          /\ printer'.indexes = printer.indexes /\ printer' \in Printer
      BY <2>2, <1>1 DEF Printer
    <3> QED
      BY <2>2, <3>1, <1>1 DEF PrintCancelled
  <2> QED
    BY <2>1, <2>2
<1>6. TypeOK'
  BY <1>3, <1>5 DEF IInv, TypeOK, Printer, args
<1>7. CallInv'
  BY <1>1, <1>3, <1>5 DEF IInv, CallInv, Returned
<1>8. ErrorInv'
  BY <1>3 DEF IInv, ErrorInv
<1>9. \A w \in Workers' : WorkerInv(w)'
  BY <1>3 DEF IInv, WorkerInv
<1>10. StartedInv'
  BY <1>3 DEF IInv, StartedInv
<1>11. PrinterInv'
  <2>1. /\ printer.indexes \in [1..numberOfWorkers -> Workers]
        /\ \A i \in 1..numberOfWorkers : printer.indexes[i] = IndexAt(i)
        /\ \A i \in 1..numberOfWorkers : i < printer.at => ~Readable(IndexAt(i))
    BY DEF IInv, PrinterInv
  <2>2. \A i \in 1..numberOfWorkers : i < printer'.at => ~Readable(IndexAt(i))
    BY <2>1, <1>1, <1>5
  <2> QED
    BY <2>1, <2>2, <1>1, <1>3, <1>4, <1>5 DEF PrinterInv
<1>12. LastInv'
  BY <1>1, <1>3, <1>4, <1>5 DEF IInv, LastInv
<1> QED
  BY <1>6, <1>7, <1>8, <1>9, <1>10, <1>11, <1>12 DEF IInv

\* The printer takes what the worker has written so far.
LEMMA Taking ==
  ASSUME IInv, printer.pc = "copy", UNCHANGED <<args, created, started, failures>>,
         worker' = [worker EXCEPT ![printer.cursor].read = worker[printer.cursor].written],
         err # NoErr => err' # NoErr
  PROVE  /\ worker' \in [AnyWorker -> WorkerRecord]
         /\ \A w \in Workers' : WorkerInv(w)'
         /\ StartedInv'
         /\ \A w \in Workers : ~Readable(w) => ~Readable(w)'
         /\ \A w \in Workers : worker'[w].pc = worker[w].pc
<1> DEFINE c == printer.cursor
           r == [worker[c] EXCEPT !.read = worker[c].written]
<1>1. c \in Workers /\ c \in AnyWorker
  BY Copying
<1>2. worker \in [AnyWorker -> WorkerRecord] /\ worker[c] \in WorkerRecord
      /\ worker' = [worker EXCEPT ![c] = r]
  BY <1>1, WorkerForms
<1>3. r \in WorkerRecord
  BY <1>2 DEF WorkerRecord
<1>4. worker'[c] = r /\ \A v \in Workers : v # c => worker'[v] = worker[v]
  BY <1>1, <1>2, NumberOfWorkers, Typing DEF IInv
<1>5. /\ r.pc = worker[c].pc /\ r.no = worker[c].no /\ r.ret = worker[c].ret
      /\ r.written = worker[c].written /\ r.read = r.written
      /\ r.halfClosed = worker[c].halfClosed
      /\ worker[c].read <= worker[c].written /\ r.read <= r.written
      /\ worker[c].read \in Int /\ worker[c].written \in Int
  BY <1>1, <1>2, WorkerForms DEF WorkerInv, WorkerRecord
<1> HIDE DEF r, c
<1>6. /\ Workers' = Workers
      /\ (\A v : Share(v)' = Share(v)) /\ (\A v, i : Start(v, i)' = Start(v, i))
  BY ArgsStay
<1>7. worker' \in [AnyWorker -> WorkerRecord]
  BY <1>1, <1>2, <1>3
<1>8. ASSUME NEW w \in Workers PROVE WorkerInv(w)'
  <2>1. CASE w = c
    BY <2>1, <1>4, <1>5, <1>6, <1>8 DEF IInv, WorkerInv
  <2>2. CASE w # c
    BY <2>2, <1>4, <1>6, <1>8 DEF IInv, WorkerInv
  <2> QED
    BY <2>1, <2>2
<1>9. \A w \in Workers : worker'[w].pc = worker[w].pc /\ worker'[w].no = worker[w].no
  BY <1>4, <1>5
<1>10. StartedInv'
  BY <1>6, <1>9 DEF IInv, StartedInv
<1>11. ASSUME NEW w \in Workers, ~Readable(w) PROVE ~Readable(w)'
  <2>1. CASE w = c
    BY <2>1, <1>11, <1>4, <1>5 DEF Readable
  <2>2. CASE w # c
    BY <2>2, <1>11, <1>4 DEF Readable
  <2> QED
    BY <2>1, <2>2
<1> QED
  BY <1>6, <1>7, <1>8, <1>9, <1>10, <1>11

\* Copies of one element are appended.
LEMMA Appended ==
  ASSUME NEW S, NEW s \in Seq(S), NEW c \in S, NEW k \in Nat
  PROVE  /\ s \o [i \in 1..k |-> c] \in Seq(S)
         /\ Len(s \o [i \in 1..k |-> c]) = Len(s) + k
         /\ \A i \in 1..(Len(s) + k) :
              (s \o [j \in 1..k |-> c])[i] = IF i <= Len(s) THEN s[i] ELSE c
<1> DEFINE t == [i \in 1..k |-> c]
<1>1. t \in Seq(S) /\ Len(t) = k /\ \A i \in 1..k : t[i] = c
  OBVIOUS
<1> HIDE DEF t
<1>2. s \o t \in Seq(S) /\ Len(s \o t) = Len(s) + k
  BY <1>1
<1>3. \A i \in 1..(Len(s) + k) : (s \o t)[i] = IF i <= Len(s) THEN s[i] ELSE c
  BY <1>1
<1> QED
  BY <1>2, <1>3 DEF t

LEMMA CopyTakes ==
  ASSUME IInv, printer.pc = "copy",
         NEW unread \in Nat, out' \in Seq(Workers), Len(out') = Len(out) + unread,
         \A i \in 1..Len(out') :
            out'[i] = IF i <= Len(out) THEN out[i] ELSE printer.cursor,
         worker' = [worker EXCEPT ![printer.cursor].read = worker[printer.cursor].written],
         UNCHANGED <<args, phase, created, printer, cancelled, interrupted, err, result,
                     started, failures, lost, resumed>>
  PROVE  IInv'
<1> DEFINE c == printer.cursor
<1>1. /\ numberOfWorkers \in Nat
      /\ printer.at \in 1..numberOfWorkers /\ c = IndexAt(printer.at) /\ c \in Workers
  BY Copying
<1>2. /\ worker' \in [AnyWorker -> WorkerRecord]
      /\ \A w \in Workers' : WorkerInv(w)'
      /\ StartedInv'
      /\ \A w \in Workers : ~Readable(w) => ~Readable(w)'
      /\ \A w \in Workers : worker'[w].pc = worker[w].pc
  BY Taking
<1>6. Len(out) \in Nat /\ Len(out') \in Nat
  BY DEF IInv, TypeOK
<1> HIDE DEF c
<1>7. /\ numberOfWorkers' = numberOfWorkers /\ Workers' = Workers
  BY ArgsStay
<1>8. /\ Again' = Again /\ FailedLast' = FailedLast /\ \A i : IndexAt(i)' = IndexAt(i)
  BY <1>7 DEF Again, FailedLast, IndexAt
<1>9. TypeOK'
  BY <1>2, <1>6, <1>7 DEF IInv, TypeOK, WorkerRecord, args
<1>10. CallInv'
  BY <1>2, <1>7 DEF IInv, CallInv, Returned
<1>11. ErrorInv'
  BY <1>7 DEF IInv, ErrorInv
<1>12. PrinterInv'
  <2>1. \A i \in 1..numberOfWorkers : IndexAt(i) \in Workers
    BY PrinterForms
  <2>2. \A i \in 1..numberOfWorkers :
           i < printer.at => ~Readable(IndexAt(i))'
    <3>1. SUFFICES ASSUME NEW i \in 1..numberOfWorkers, i < printer.at
                   PROVE  ~Readable(IndexAt(i))'
      OBVIOUS
    <3>2. ~Readable(IndexAt(i)) /\ IndexAt(i) \in Workers /\ IndexAt(i)' = IndexAt(i)
      BY <3>1, <2>1, <1>8 DEF IInv, PrinterInv
    <3> QED
      BY <3>2, <1>2 DEF Readable
  <2> QED
    BY <2>2, <1>7, <1>8 DEF IInv, PrinterInv
<1>13. LastInv'
  <2>1. SUFFICES ASSUME Again, FailedLast
                 PROVE  /\ printer.at < numberOfWorkers =>
                             \A i \in 1..Len(out') : i > resumed.lines => out'[i] # err.id
                        /\ \A i, j \in 1..Len(out') :
                             i > resumed.lines /\ j >= i /\ out'[i] = err.id
                                => out'[j] = err.id
    BY <1>7, <1>8 DEF LastInv
  <2>2. c = err.id <=> printer.at = numberOfWorkers
    BY <2>1, <1>1, LastIndex
  <2>3. /\ printer.at < numberOfWorkers =>
             \A i \in 1..Len(out) : i > resumed.lines => out[i] # err.id
        /\ \A i, j \in 1..Len(out) :
             i > resumed.lines /\ j >= i /\ out[i] = err.id => out[j] = err.id
    BY <2>1 DEF IInv, LastInv
  <2>4. CASE printer.at < numberOfWorkers
    <3>1. \A i \in 1..Len(out') : i > resumed.lines => out'[i] # err.id
      BY <2>2, <2>3, <2>4, <1>1, <1>6 DEF c
    <3> QED
      BY <3>1
  <2>5. CASE printer.at = numberOfWorkers
    <3>1. ASSUME NEW i \in 1..Len(out'), NEW j \in 1..Len(out'),
                 i > resumed.lines, j >= i, out'[i] = err.id
          PROVE  out'[j] = err.id
      <4>1. CASE j > Len(out)
        BY <4>1, <2>2, <2>5, <1>6 DEF c
      <4>2. CASE j <= Len(out)
        BY <4>2, <3>1, <2>3, <1>6
      <4> QED
        BY <4>1, <4>2, <1>6
    <3> QED
      BY <3>1, <2>5, <1>1
  <2> QED
    BY <2>4, <2>5, <1>1
<1> QED
  BY <1>2, <1>9, <1>10, <1>11, <1>12, <1>13 DEF IInv

LEMMA CopyKeeps ==
  ASSUME IInv, Copy
  PROVE  IInv'
<1>1. /\ printer.pc = "copy"
      /\ UNCHANGED <<args, phase, created, cancelled, interrupted, err, result, started,
                     failures, lost, resumed>>
  BY DEF Copy, history
<1>2. CASE /\ ~Readable(printer.cursor)
           /\ printer' = [printer EXCEPT !.pc = "next", !.at = @ + 1]
           /\ UNCHANGED <<worker, out>>
  BY <1>1, <1>2, CopyMoves
<1>3. CASE /\ PrintCancelled
           /\ printer' = [printer EXCEPT !.pc = "ended"]
           /\ UNCHANGED <<worker, out>>
  BY <1>1, <1>3, CopyMoves
<1>4. CASE /\ out' = out \o [i \in 1..(worker[printer.cursor].written
                                        - worker[printer.cursor].read) |-> printer.cursor]
           /\ worker' = [worker EXCEPT ![printer.cursor].read =
                                          worker[printer.cursor].written]
           /\ UNCHANGED printer
  <2> DEFINE unread == worker[printer.cursor].written - worker[printer.cursor].read
  <2>1. printer.cursor \in Workers /\ unread \in Nat
    BY <1>1, Copying, WorkerForms DEF WorkerInv, WorkerRecord
  <2>2. out \in Seq(Workers) /\ out' = out \o [i \in 1..unread |-> printer.cursor]
    BY <1>4 DEF IInv, TypeOK
  <2> HIDE DEF unread
  <2>3. /\ out' \in Seq(Workers) /\ Len(out') = Len(out) + unread
        /\ \A i \in 1..Len(out') :
             out'[i] = IF i <= Len(out) THEN out[i] ELSE printer.cursor
    BY <2>1, <2>2, Appended
  <2> QED
    BY <1>1, <1>4, <2>1, <2>3, CopyTakes
<1> QED
  BY <1>2, <1>3, <1>4 DEF Copy

LEMMA CopyFailsKeeps ==
  ASSUME IInv, CopyFails
  PROVE  IInv'
<1>1. /\ printer.pc = "copy" /\ lost' = TRUE
      /\ printer' = [printer EXCEPT !.pc = "ended"]
      /\ worker' = [worker EXCEPT ![printer.cursor].read = worker[printer.cursor].written]
      /\ UNCHANGED <<args, phase, created, interrupted, out, result, started, failures,
                     resumed>>
      /\ SetErr(-1, "print")
  BY DEF CopyFails
<1>2. /\ printer \in Printer /\ numberOfWorkers \in Nat
      /\ printer.at \in 1..numberOfWorkers
      /\ result = "none" /\ phase \in {"wait", "print"} /\ (phase = "print" <=> Again)
  BY <1>1, Copying
<1>3. /\ ErrorInv' /\ err' # NoErr
      /\ err' \in [id : -1..MaxTasks, kind : Kinds] /\ cancelled' = TRUE
      /\ err # NoErr => UNCHANGED <<err, cancelled>>
  <2>1. -1 \in -1..MaxTasks /\ "print" \in Kinds
    BY ParallelAssumption DEF Kinds
  <2> QED
    BY <1>1, <2>1, ErrorSet DEF IInv
<1>4. /\ worker' \in [AnyWorker -> WorkerRecord]
      /\ \A w \in Workers' : WorkerInv(w)'
      /\ StartedInv'
      /\ \A w \in Workers : ~Readable(w) => ~Readable(w)'
      /\ \A w \in Workers : worker'[w].pc = worker[w].pc
  BY <1>1, <1>3, Taking
<1>5. /\ numberOfWorkers' = numberOfWorkers /\ Workers' = Workers
  BY <1>1, ArgsStay
<1>6. Again => UNCHANGED <<err, cancelled>>
  BY <1>2, <1>3 DEF IInv, CallInv, Again
<1>7. /\ Again' = Again /\ (Again => FailedLast' = FailedLast)
      /\ \A i : IndexAt(i)' = IndexAt(i)
  <2>1. Again' = Again
    BY <1>1 DEF Again
  <2>2. CASE Again
    BY <2>1, <2>2, <1>1, <1>5, <1>6 DEF FailedLast, IndexAt
  <2>3. CASE ~Again
    BY <2>1, <2>3 DEF IndexAt
  <2> QED
    BY <2>1, <2>2, <2>3
<1>8. /\ printer' \in Printer /\ printer'.pc = "ended" /\ printer'.at = printer.at
      /\ printer'.indexes = printer.indexes
  BY <1>1, <1>2 DEF Printer
<1>9. TypeOK'
  BY <1>1, <1>3, <1>4, <1>5, <1>8 DEF IInv, TypeOK, WorkerRecord, Printer, args
<1>10. CallInv'
  BY <1>1, <1>2, <1>3, <1>4, <1>5, <1>8 DEF IInv, CallInv, Returned
<1>11. PrinterInv'
  <2>1. \A i \in 1..numberOfWorkers : IndexAt(i) \in Workers
    BY <1>1, PrinterForms
  <2>2. \A i \in 1..numberOfWorkers :
           i < printer.at => ~Readable(IndexAt(i))'
    <3>1. SUFFICES ASSUME NEW i \in 1..numberOfWorkers, i < printer.at
                   PROVE  ~Readable(IndexAt(i))'
      OBVIOUS
    <3>2. ~Readable(IndexAt(i)) /\ IndexAt(i) \in Workers /\ IndexAt(i)' = IndexAt(i)
      BY <3>1, <2>1, <1>1, <1>7 DEF IInv, PrinterInv
    <3> QED
      BY <3>2, <1>4 DEF Readable
  <2> QED
    BY <2>2, <1>1, <1>3, <1>5, <1>7, <1>8 DEF IInv, PrinterInv
<1>12. LastInv'
  BY <1>1, <1>5, <1>6, <1>7, <1>8 DEF IInv, LastInv
<1> QED
  BY <1>3, <1>4, <1>9, <1>10, <1>11, <1>12 DEF IInv

-----------------------------------------------------------------------------
(* Steps of DoTasks and of its caller.                                     *)

LEMMA NewWorkerKeeps ==
  ASSUME IInv, NewWorker
  PROVE  IInv'
<1>1. /\ phase = "create" /\ created < numberOfWorkers /\ created' = created + 1
      /\ worker' = [worker EXCEPT ![created].pc = "select"]
      /\ UNCHANGED <<args, phase, printer, cancelled, interrupted, err, out, result, started,
                     failures, lost, resumed>>
  BY DEF NewWorker, history
<1>2. /\ numberOfWorkers' = numberOfWorkers /\ Workers' = Workers
      /\ (\A v : Share(v)' = Share(v)) /\ (\A v, i : Start(v, i)' = Start(v, i))
  BY <1>1, ArgsStay
<1>3. created \in Workers /\ created \in Nat /\ created \in AnyWorker
      /\ numberOfWorkers \in Nat
  <2>1. numberOfWorkers \in Nat /\ Workers \subseteq AnyWorker
    BY Typing, NumberOfWorkers DEF IInv
  <2>2. created \in 0..numberOfWorkers
    BY DEF IInv, TypeOK
  <2>3. created \in Workers
    BY <2>1, <2>2, <1>1 DEF Workers
  <2> QED
    BY <2>1, <2>2, <2>3
<1>4. /\ worker \in [AnyWorker -> WorkerRecord] /\ worker[created] \in WorkerRecord
      /\ worker[created].pc = "none" /\ WorkerInv(created)
  BY <1>3, WorkerForms DEF WorkerInv
<1>5. /\ worker' \in [AnyWorker -> WorkerRecord]
      /\ worker'[created] = [worker[created] EXCEPT !.pc = "select"]
      /\ \A v \in Workers : v # created => worker'[v] = worker[v]
  BY <1>1, <1>3, <1>4 DEF WorkerRecord
<1>6. /\ worker'[created].pc = "select" /\ worker'[created].no = worker[created].no
      /\ worker'[created].ret = worker[created].ret
      /\ worker'[created].read = worker[created].read
      /\ worker'[created].written = worker[created].written
      /\ worker'[created].halfClosed = worker[created].halfClosed
  BY <1>4, <1>5 DEF WorkerRecord
<1>7. /\ printer.pc = "off" /\ result = "none" /\ ~Again /\ ~Again'
  BY <1>1 DEF IInv, CallInv, Again
<1>8. TypeOK'
  <2>1. created' \in 0..numberOfWorkers
    BY <1>1, <1>3
  <2> QED
    BY <2>1, <1>1, <1>2, <1>5 DEF IInv, TypeOK, WorkerRecord, args
<1>9. CallInv'
  BY <1>1, <1>2, <1>7 DEF IInv, CallInv, Returned
<1>10. ErrorInv'
  BY <1>1, <1>2 DEF IInv, ErrorInv
<1>11. ASSUME NEW w \in Workers PROVE WorkerInv(w)'
  <2>1. CASE w = created
    BY <2>1, <1>1, <1>2, <1>3, <1>4, <1>6 DEF WorkerInv
  <2>2. CASE w # created
    <3>1. w \in Nat /\ WorkerInv(w) /\ worker'[w] = worker[w]
      BY <2>2, <1>5, Typing, NumberOfWorkers DEF IInv
    <3>2. w >= created <=> w >= created'
      BY <3>1, <2>2, <1>1, <1>3
    <3> QED
      BY <3>1, <3>2, <1>1, <1>2 DEF WorkerInv
  <2> QED
    BY <2>1, <2>2
<1>12. StartedInv'
  <2>1. \A w \in Workers : worker'[w].no = worker[w].no
                           /\ (worker'[w].pc = "task" => worker[w].pc = "task")
    BY <1>5, <1>6
  <2> QED
    BY <2>1, <1>1, <1>2 DEF IInv, StartedInv
<1>13. PrinterInv' /\ LastInv'
  BY <1>1, <1>7 DEF PrinterInv, LastInv
<1> QED
  BY <1>2, <1>8, <1>9, <1>10, <1>11, <1>12, <1>13 DEF IInv

\* Closing the files changes nothing but that.
LEMMA Closing ==
  ASSUME IInv, worker' = Closed,
         UNCHANGED <<args, created, err, started, failures>>
  PROVE  /\ worker' \in [AnyWorker -> WorkerRecord]
         /\ \A w \in Workers' : WorkerInv(w)'
         /\ StartedInv'
         /\ \A w \in Workers : worker'[w].pc = worker[w].pc
         /\ \A w \in Workers : ~Readable(w) => ~Readable(w)'
<1>1. /\ Workers' = Workers /\ (\A v : Share(v)' = Share(v))
      /\ (\A v, i : Start(v, i)' = Start(v, i))
  BY ArgsStay
<1>2. worker \in [AnyWorker -> WorkerRecord] /\ Workers \subseteq AnyWorker
  BY Typing, NumberOfWorkers DEF IInv
<1>3. ASSUME NEW w \in AnyWorker
      PROVE  /\ worker'[w] = [worker[w] EXCEPT !.halfClosed =
                                 worker[w].halfClosed \/ w < created]
             /\ worker'[w] \in WorkerRecord
             /\ worker'[w].pc = worker[w].pc /\ worker'[w].no = worker[w].no
             /\ worker'[w].ret = worker[w].ret /\ worker'[w].read = worker[w].read
             /\ worker'[w].written = worker[w].written
             /\ worker[w].halfClosed => worker'[w].halfClosed
  BY <1>2, <1>3 DEF Closed, WorkerRecord
<1>4. worker' \in [AnyWorker -> WorkerRecord]
  BY <1>3 DEF Closed
<1>5. ASSUME NEW w \in Workers PROVE WorkerInv(w)'
  <2>1. w \in AnyWorker /\ WorkerInv(w)
    BY <1>2, <1>5 DEF IInv
  <2>2. worker'[w].pc \in {"closed", "ended"} => worker'[w].halfClosed
    BY <2>1, <1>3 DEF WorkerInv
  <2>3. /\ worker'[w].pc = worker[w].pc /\ worker'[w].no = worker[w].no
        /\ worker'[w].ret = worker[w].ret /\ worker'[w].read = worker[w].read
        /\ worker'[w].written = worker[w].written
    BY <2>1, <1>3
  <2> QED
    BY <2>1, <2>2, <2>3, <1>1 DEF WorkerInv
<1>6. StartedInv'
  BY <1>1, <1>2, <1>3 DEF IInv, StartedInv
<1>7. ASSUME NEW w \in Workers, ~Readable(w) PROVE ~Readable(w)'
  BY <1>2, <1>3, <1>7 DEF Readable
<1> QED
  BY <1>1, <1>2, <1>3, <1>4, <1>5, <1>6, <1>7

LEMMA NewWorkerFailsKeeps ==
  ASSUME IInv, NewWorkerFails
  PROVE  IInv'
<1>1. /\ phase = "create" /\ phase' = "returned" /\ result' = "notCreated"
      /\ worker' = Closed
      /\ UNCHANGED <<args, created, printer, cancelled, interrupted, err, out, started,
                     failures, lost, resumed>>
  BY DEF NewWorkerFails, history
<1>2. /\ worker' \in [AnyWorker -> WorkerRecord]
      /\ \A w \in Workers' : WorkerInv(w)'
      /\ StartedInv'
  BY <1>1, Closing
<1>3. numberOfWorkers' = numberOfWorkers /\ Workers' = Workers
  BY <1>1, ArgsStay
<1>4. printer.pc = "off"
  BY <1>1 DEF IInv, CallInv
<1>5. TypeOK'
  BY <1>1, <1>2, <1>3 DEF IInv, TypeOK, WorkerRecord, args
<1>6. CallInv'
  BY <1>1, <1>3, <1>4 DEF CallInv, Returned
<1>7. ErrorInv'
  BY <1>1, <1>3 DEF IInv, ErrorInv
<1>8. PrinterInv' /\ LastInv'
  BY <1>1, <1>4 DEF PrinterInv, LastInv, Again
<1> QED
  BY <1>2, <1>5, <1>6, <1>7, <1>8 DEF IInv

LEMMA StartPrinterKeeps ==
  ASSUME IInv, StartPrinter
  PROVE  IInv'
<1>1. /\ phase = "create" /\ phase' = "wait" /\ created = numberOfWorkers
      /\ printer' = [pc |-> "next", at |-> 1, cursor |-> 0,
                     indexes |-> [i \in 1..numberOfWorkers |-> i - 1]]
      /\ UNCHANGED <<args, created, worker, cancelled, interrupted, err, out, result,
                     started, failures, lost, resumed>>
  BY DEF StartPrinter, history
<1>2. /\ numberOfWorkers' = numberOfWorkers /\ Workers' = Workers
      /\ (\A v : Share(v)' = Share(v)) /\ (\A v, i : Start(v, i)' = Start(v, i))
  BY <1>1, ArgsStay
<1>3. result = "none" /\ ~Again'
  BY <1>1 DEF IInv, CallInv, Again
<1>4. /\ numberOfWorkers \in Nat
      /\ printer'.indexes \in [1..numberOfWorkers -> Workers]
      /\ \A i \in 1..numberOfWorkers : printer'.indexes[i] = i - 1
      /\ printer'.pc = "next" /\ printer'.at = 1
  BY <1>1, Typing, NumberOfWorkers DEF IInv, Workers
<1>5. printer'.indexes \in Seq(Workers)
  BY <1>4
<1>6. printer' \in Printer
  BY <1>1, <1>4, <1>5 DEF Printer
<1>7. TypeOK'
  BY <1>1, <1>2, <1>6 DEF IInv, TypeOK, Printer, args
<1>8. CallInv'
  BY <1>1, <1>2, <1>3, <1>4 DEF IInv, CallInv, Returned
<1>9. ErrorInv'
  BY <1>1, <1>2 DEF IInv, ErrorInv
<1>10. \A w \in Workers' : WorkerInv(w)'
  BY <1>1, <1>2 DEF IInv, WorkerInv
<1>11. StartedInv'
  BY <1>1, <1>2 DEF IInv, StartedInv
<1>12. PrinterInv'
  <2>1. \A i : IndexAt(i)' = i - 1
    BY <1>3 DEF IndexAt
  <2> QED
    BY <2>1, <1>2, <1>4 DEF PrinterInv
<1>13. LastInv'
  BY <1>3 DEF LastInv
<1> QED
  BY <1>7, <1>8, <1>9, <1>10, <1>11, <1>12, <1>13 DEF IInv

LEMMA InterruptKeeps ==
  ASSUME IInv, Interrupt
  PROVE  IInv'
<1>1. /\ phase # "returned" /\ interrupted' = TRUE /\ cancelled' = TRUE
      /\ UNCHANGED <<args, phase, created, worker, printer, err, out, result, started,
                     failures, lost, resumed>>
  BY DEF Interrupt, history
<1>2. /\ numberOfWorkers' = numberOfWorkers /\ Workers' = Workers
      /\ (\A v : Share(v)' = Share(v)) /\ (\A v, i : Start(v, i)' = Start(v, i))
  BY <1>1, ArgsStay
<1>3. /\ Again' = Again /\ FailedLast' = FailedLast /\ \A i : IndexAt(i)' = IndexAt(i)
      /\ \A w : Readable(w)' = Readable(w)
  BY <1>1, <1>2 DEF Again, FailedLast, IndexAt, Readable
<1>4. TypeOK'
  BY <1>1, <1>2 DEF IInv, TypeOK, args
<1>5. CallInv'
  BY <1>1, <1>2 DEF IInv, CallInv, Returned
<1>6. ErrorInv'
  BY <1>1, <1>2 DEF IInv, ErrorInv
<1>7. \A w \in Workers' : WorkerInv(w)'
  BY <1>1, <1>2 DEF IInv, WorkerInv
<1>8. StartedInv'
  BY <1>1, <1>2 DEF IInv, StartedInv
<1>9. PrinterInv'
  BY <1>1, <1>2, <1>3 DEF IInv, PrinterInv
<1>10. LastInv'
  BY <1>1, <1>2, <1>3 DEF IInv, LastInv
<1> QED
  BY <1>4, <1>5, <1>6, <1>7, <1>8, <1>9, <1>10 DEF IInv

LEMMA WaitKeeps ==
  ASSUME IInv, Wait
  PROVE  IInv'
<1>1. /\ phase = "wait" /\ printer.pc = "ended"
      /\ \A w \in Workers : worker[w].pc = "ended"
      /\ UNCHANGED <<args, created, cancelled, interrupted, err, out, started, failures, lost>>
  BY DEF Wait, AllEnded
<1>2. /\ numberOfWorkers' = numberOfWorkers /\ Workers' = Workers
      /\ (\A v : Share(v)' = Share(v)) /\ (\A v, i : Start(v, i)' = Start(v, i))
  BY <1>1, ArgsStay
<1>3. /\ printer \in Printer /\ numberOfWorkers \in Nat
      /\ \A i \in 1..numberOfWorkers :
           IndexAt(i) \in Workers /\ printer.indexes[i] = IndexAt(i)
  BY <1>1, PrinterForms
<1>4. ~Again /\ result = "none" /\ created = numberOfWorkers
  BY <1>1 DEF IInv, CallInv, Again
<1>5. \A i : IndexAt(i) = i - 1
  BY <1>4 DEF IndexAt
<1>6. printer.indexes \in [1..numberOfWorkers -> Workers] /\ printer.indexes \in Seq(Workers)
  BY <1>1, <1>3 DEF IInv, PrinterInv, Printer
<1>7. ErrorInv'
  BY <1>1, <1>2 DEF IInv, ErrorInv
<1>8. CASE err = NoErr /\ Return("ok")
  <2>1. phase' = "returned" /\ result' = "ok" /\ worker' = Closed /\ UNCHANGED <<printer, resumed>>
    BY <1>8 DEF Return
  <2>2. /\ worker' \in [AnyWorker -> WorkerRecord]
        /\ \A w \in Workers' : WorkerInv(w)'
        /\ StartedInv'
        /\ \A w \in Workers : worker'[w].pc = worker[w].pc
        /\ \A w \in Workers : ~Readable(w) => ~Readable(w)'
    BY <1>1, <2>1, Closing
  <2>3. TypeOK'
    BY <1>1, <1>2, <2>1, <2>2 DEF IInv, TypeOK, WorkerRecord, args
  <2>4. CallInv'
    BY <1>1, <1>2, <1>4, <1>8, <2>1, <2>2 DEF CallInv, Returned
  <2>5. ~Again' /\ \A i : IndexAt(i)' = i - 1
    BY <2>1 DEF Again, IndexAt
  <2>6. \A i \in 1..numberOfWorkers : i < printer.at => ~Readable(i - 1)'
    <3>1. SUFFICES ASSUME NEW i \in 1..numberOfWorkers, i < printer.at
                   PROVE  ~Readable(i - 1)'
      OBVIOUS
    <3>2. ~Readable(i - 1) /\ i - 1 \in Workers
      BY <3>1, <1>1, <1>3, <1>5 DEF IInv, PrinterInv
    <3> QED
      BY <3>2, <2>2
  <2>7. PrinterInv'
    <3>1. \A i \in 1..numberOfWorkers : i < printer.at => ~Readable(IndexAt(i))'
      BY <2>5, <2>6 DEF Readable
    <3> QED
      BY <3>1, <1>1, <1>2, <1>3, <1>4, <1>5, <1>6, <2>1, <2>5 DEF IInv, PrinterInv
  <2>8. LastInv'
    BY <2>5 DEF LastInv
  <2> QED
    BY <1>7, <2>2, <2>3, <2>4, <2>7, <2>8 DEF IInv
<1>9. CASE err # NoErr /\ PrintAgain
  <2>1. /\ phase' = "print" /\ UNCHANGED <<worker, result>>
        /\ resumed' = [lines |-> Len(out), active |-> printer.cursor]
        /\ printer' = [printer EXCEPT !.pc = "next", !.at = 1,
                          !.indexes = IF err.kind = "failed" /\ printer.cursor # err.id
                                      THEN Swap(printer.indexes, numberOfWorkers, err.id + 1)
                                      ELSE printer.indexes]
    BY <1>9 DEF PrintAgain
  <2>2. /\ Again' /\ FailedLast' <=> (err.kind = "failed" /\ printer.cursor # err.id)
    BY <1>1, <2>1 DEF Again, FailedLast
  <2>3. err.kind = "failed" => err.id \in 0..(numberOfWorkers - 1)
    BY DEF IInv, ErrorInv, Workers
  <2>4. /\ printer'.indexes \in [1..numberOfWorkers -> Workers]
        /\ \A i \in 1..numberOfWorkers : printer'.indexes[i] = IndexAt(i)'
    <3>1. CASE err.kind = "failed" /\ printer.cursor # err.id
      <4>1. printer'.indexes = Swap(printer.indexes, numberOfWorkers, err.id + 1)
        BY <3>1, <2>1, <1>3 DEF Printer
      <4>2. numberOfWorkers \in 1..numberOfWorkers /\ err.id + 1 \in 1..numberOfWorkers
        BY <3>1, <2>3, <1>3
      <4>3. printer'.indexes \in [1..numberOfWorkers -> Workers]
        BY <4>1, <4>2, <1>6 DEF Swap
      <4>4. \A i \in 1..numberOfWorkers : printer.indexes[i] = i - 1
        BY <1>3, <1>5
      <4>5. ASSUME NEW i \in 1..numberOfWorkers
            PROVE  printer'.indexes[i] =
                     IF i = numberOfWorkers THEN err.id
                     ELSE IF i = err.id + 1 THEN numberOfWorkers - 1 ELSE i - 1
        <5>1. CASE i = err.id + 1
          BY <5>1, <4>1, <4>2, <4>4, <1>3, <1>6, <2>3, <3>1 DEF Swap
        <5>2. CASE i # err.id + 1 /\ i = numberOfWorkers
          BY <5>2, <4>1, <4>2, <4>4, <1>3, <1>6, <2>3, <3>1 DEF Swap
        <5>3. CASE i # err.id + 1 /\ i # numberOfWorkers
          BY <5>3, <4>1, <4>2, <4>4, <1>3, <1>6 DEF Swap
        <5> QED
          BY <5>1, <5>2, <5>3
      <4>6. \A i : IndexAt(i)' = IF i = numberOfWorkers THEN err.id
                     ELSE IF i = err.id + 1 THEN numberOfWorkers - 1 ELSE i - 1
        BY <2>2, <3>1, <1>1, <1>2 DEF IndexAt
      <4> QED
        BY <4>3, <4>5, <4>6
    <3>2. CASE ~(err.kind = "failed" /\ printer.cursor # err.id)
      <4>1. printer'.indexes = printer.indexes
        BY <3>2, <2>1, <1>3 DEF Printer
      <4>2. \A i : IndexAt(i)' = i - 1
        BY <2>2, <3>2 DEF IndexAt
      <4> QED
        BY <4>1, <4>2, <1>3, <1>5, <1>6
    <3> QED
      BY <3>1, <3>2
  <2>5. printer'.indexes \in Seq(Workers) /\ Len(out) \in Nat /\ out \in Seq(Workers)
    BY <2>4, <1>3 DEF IInv, TypeOK
  <2>6. /\ printer' \in Printer /\ printer'.pc = "next" /\ printer'.at = 1
    <3> DEFINE x == printer'.indexes
    <3>1. printer' = [printer EXCEPT !.pc = "next", !.at = 1, !.indexes = x]
      BY <2>1, <1>3 DEF Printer
    <3>2. x \in Seq(Workers) /\ 1 \in 1..(numberOfWorkers + 1)
      BY <2>5, <1>3
    <3> HIDE DEF x
    <3> QED
      BY <3>1, <3>2, <1>3 DEF Printer
  <2>7. resumed' \in [lines : Nat, active : -1..MaxTasks]
    BY <2>1, <2>5, <1>3, ParallelAssumption DEF Printer, AnyWorker
  <2>8. TypeOK'
    BY <1>1, <1>2, <2>1, <2>6, <2>7 DEF IInv, TypeOK, Printer, args
  <2>9. CallInv'
    BY <1>1, <1>2, <1>4, <1>9, <2>1, <2>6 DEF CallInv, Returned
  <2>10. (\A w \in Workers' : WorkerInv(w)') /\ StartedInv'
    BY <1>1, <1>2, <2>1 DEF IInv, WorkerInv, StartedInv
  <2>11. PrinterInv'
    BY <1>2, <1>3, <2>4, <2>6 DEF PrinterInv
  <2>12. LastInv'
    <3>1. resumed'.lines = Len(out) /\ out' = out
      BY <1>1, <2>1
    <3> QED
      BY <3>1, <2>5 DEF LastInv
  <2> QED
    BY <1>7, <2>8, <2>9, <2>10, <2>11, <2>12 DEF IInv
<1> QED
  BY <1>8, <1>9 DEF Wait

LEMMA ReturnErrorKeeps ==
  ASSUME IInv, ReturnError
  PROVE  IInv'
<1>1. /\ phase = "print" /\ printer.pc = "ended" /\ phase' = "returned" /\ result' = "error"
      /\ worker' = Closed
      /\ UNCHANGED <<args, created, printer, cancelled, interrupted, err, out, started,
                     failures, lost, resumed>>
  BY DEF ReturnError, Return
<1>2. /\ worker' \in [AnyWorker -> WorkerRecord]
      /\ \A w \in Workers' : WorkerInv(w)'
      /\ StartedInv'
      /\ \A w \in Workers : worker'[w].pc = worker[w].pc
      /\ \A w \in Workers : ~Readable(w) => ~Readable(w)'
  BY <1>1, Closing
<1>3. numberOfWorkers' = numberOfWorkers /\ Workers' = Workers
  BY <1>1, ArgsStay
<1>4. /\ Again /\ Again' /\ FailedLast' = FailedLast /\ \A i : IndexAt(i)' = IndexAt(i)
  BY <1>1, <1>3 DEF Again, FailedLast, IndexAt
<1>5. TypeOK'
  BY <1>1, <1>2, <1>3 DEF IInv, TypeOK, WorkerRecord, args
<1>6. CallInv'
  BY <1>1, <1>2, <1>3 DEF IInv, CallInv, Returned
<1>7. ErrorInv'
  BY <1>1, <1>3 DEF IInv, ErrorInv
<1>8. PrinterInv'
  <2>1. \A i \in 1..numberOfWorkers : IndexAt(i) \in Workers
    BY <1>1, PrinterForms
  <2>2. \A i \in 1..numberOfWorkers : i < printer.at => ~Readable(IndexAt(i))'
    <3>1. SUFFICES ASSUME NEW i \in 1..numberOfWorkers, i < printer.at
                   PROVE  ~Readable(IndexAt(i))'
      OBVIOUS
    <3>2. ~Readable(IndexAt(i)) /\ IndexAt(i) \in Workers /\ IndexAt(i)' = IndexAt(i)
      BY <3>1, <2>1, <1>1, <1>4 DEF IInv, PrinterInv
    <3> QED
      BY <3>2, <1>2 DEF Readable
  <2> QED
    BY <2>2, <1>1, <1>3, <1>4 DEF IInv, PrinterInv
<1>9. LastInv'
  BY <1>1, <1>3, <1>4 DEF IInv, LastInv
<1> QED
  BY <1>2, <1>5, <1>6, <1>7, <1>8, <1>9 DEF IInv

-----------------------------------------------------------------------------
(* Theorems.                                                               *)

LEMMA InitKeeps ==
  ASSUME Init
  PROVE  IInv
<1>1. ArgsTyped
  BY DEF Init, ArgsTyped
<1>2. numberOfWorkers \in Nat /\ Workers \subseteq Nat /\ Workers \subseteq AnyWorker
  BY <1>1, NumberOfWorkers
<1>3. NewWorkerRecord \in WorkerRecord
  <2>1. MaxTasks * MaxLines \in Nat
    BY ParallelAssumption
  <2> QED
    BY <2>1, ParallelAssumption DEF NewWorkerRecord, WorkerRecord, Kinds
<1>4. worker \in [AnyWorker -> WorkerRecord] /\ \A w \in Workers : worker[w] = NewWorkerRecord
  BY <1>2, <1>3 DEF Init
<1>5. NoErr \in [id : -1..MaxTasks, kind : Kinds] /\ NoErr.kind = "none"
      /\ NotResumed \in [lines : Nat, active : -1..MaxTasks]
  BY ParallelAssumption DEF NoErr, NotResumed, Kinds
<1>6. printer \in Printer /\ printer.pc = "off"
  BY <1>2 DEF Init, Printer
<1>7. TypeOK
  <2>1. /\ numberOfTasks \in 0..MaxTasks /\ limit \in Limits /\ phase = "create"
        /\ cancelled = FALSE /\ interrupted = FALSE /\ lost = FALSE
        /\ err = NoErr /\ result = "none" /\ resumed = NotResumed
    BY DEF Init
  <2>2. created \in 0..numberOfWorkers /\ out \in Seq(Workers)
    BY <1>2 DEF Init
  <2>3. started = {} /\ failures = {}
    BY DEF Init
  <2> QED
    BY <2>1, <2>2, <2>3, <1>4, <1>5, <1>6 DEF TypeOK, WorkerRecord, Printer
<1>8. CallInv /\ ErrorInv /\ PrinterInv /\ LastInv /\ ~Again
  BY <1>5, <1>6 DEF Init, CallInv, ErrorInv, PrinterInv, LastInv, Again, Returned
<1>9. ASSUME NEW w \in Workers PROVE WorkerInv(w)
  <2>1. Share(w) \in Nat /\ w \in Nat
    BY <1>1, <1>2, ShareTypes
  <2> QED
    <3>1. /\ worker[w].pc = "none" /\ worker[w].no = 0 /\ worker[w].ret = "none"
          /\ worker[w].read = 0 /\ worker[w].written = 0
      BY <1>4 DEF NewWorkerRecord
    <3>2. created = 0 /\ failures = {}
      BY DEF Init
    <3> QED
      BY <2>1, <3>1, <3>2 DEF WorkerInv
<1>10. StartedInv
  <2>1. started = {}
    BY DEF Init
  <2>2. \A w \in Workers : worker[w].no = 0 /\ worker[w].pc = "none"
    BY <1>4 DEF NewWorkerRecord
  <2> QED
    BY <2>1, <2>2 DEF StartedInv
<1> QED
  BY <1>7, <1>8, <1>9, <1>10 DEF IInv

\* Every state of every call of DoTasks satisfies the inductive invariant.
THEOREM Invariance == Spec => []IInv
<1>1. Init => IInv
  BY InitKeeps
<1>2. IInv /\ [Next]_vars => IInv'
  <2> SUFFICES ASSUME IInv, [Next]_vars PROVE IInv'
    OBVIOUS
  <2>1. CASE \E w \in Workers : WorkerStep(w)
    BY <2>1, SelectKeeps, WriteKeeps, TaskEndsKeeps, HalfCloseKeeps, ReportKeeps
       DEF WorkerStep
  <2>2. CASE PrinterStep
    BY <2>2, PrintNextKeeps, CopyKeeps, CopyFailsKeeps DEF PrinterStep
  <2>3. CASE DoTasksStep
    BY <2>3, NewWorkerKeeps, NewWorkerFailsKeeps, StartPrinterKeeps, WaitKeeps,
       ReturnErrorKeeps DEF DoTasksStep
  <2>4. CASE Interrupt
    BY <2>4, InterruptKeeps
  <2>5. CASE UNCHANGED vars
    <3>1. UNCHANGED <<args, phase, created, worker, printer, cancelled, interrupted, err, out,
                      result, started, failures, lost, resumed>>
      BY <2>5 DEF vars, history
    <3>2. /\ numberOfWorkers' = numberOfWorkers /\ Workers' = Workers
          /\ (\A v : Share(v)' = Share(v)) /\ (\A v, i : Start(v, i)' = Start(v, i))
      BY <3>1, ArgsStay
    <3>3. /\ Again' = Again /\ FailedLast' = FailedLast /\ \A i : IndexAt(i)' = IndexAt(i)
          /\ \A w : Readable(w)' = Readable(w)
      BY <3>1, <3>2 DEF Again, FailedLast, IndexAt, Readable
    <3>4. TypeOK' /\ CallInv' /\ ErrorInv'
      BY <3>1, <3>2 DEF IInv, TypeOK, CallInv, ErrorInv, Returned, args
    <3>5. (\A w \in Workers' : WorkerInv(w)') /\ StartedInv'
      BY <3>1, <3>2 DEF IInv, WorkerInv, StartedInv
    <3>6. PrinterInv' /\ LastInv'
      BY <3>1, <3>2, <3>3 DEF IInv, PrinterInv, LastInv
    <3> QED
      BY <3>4, <3>5, <3>6 DEF IInv
  <2> QED
    BY <2>1, <2>2, <2>3, <2>4, <2>5 DEF Next, Finished
<1> QED
  BY <1>1, <1>2, PTL DEF Spec

LEMMA TasksOnceHolds ==
  ASSUME IInv
  PROVE  TasksOnce
<1>1. ArgsTyped
  BY Typing DEF IInv
<1>2. /\ Workers \subseteq Nat /\ numberOfWorkers \in Nat
      /\ started \subseteq [task : 0..(numberOfTasks - 1), by : Workers, no : 0..MaxTasks]
  BY <1>1, NumberOfWorkers DEF IInv, TypeOK
<1>3. ASSUME NEW r \in started, NEW s \in started, r.task = s.task
      PROVE  r = s
  <2>1. /\ r.by \in Workers /\ r.no \in Nat /\ r.no < Share(r.by) /\ r = Start(r.by, r.no)
        /\ s.by \in Workers /\ s.no \in Nat /\ s.no < Share(s.by) /\ s = Start(s.by, s.no)
    BY <1>2 DEF IInv, StartedInv
  <2>2. calculateTaskId(r.by, r.no) = calculateTaskId(s.by, s.no)
    BY <2>1, <1>3 DEF Start
  <2>3. r.by = s.by /\ r.no = s.no
    BY <2>1, <2>2, <1>1, TaskIdsDiffer
  <2> QED
    BY <2>1, <2>3
<1>4. ASSUME result = "ok", NEW t \in 0..(numberOfTasks - 1)
      PROVE  \E r \in started : r.task = t
  <2>1. PICK w \in Workers : \E i \in Nat : i < Share(w) /\ calculateTaskId(w, i) = t
    BY <1>1, TaskIdsCover
  <2>2. PICK i \in Nat : i < Share(w) /\ calculateTaskId(w, i) = t
    BY <2>1
  <2>3. /\ worker[w].pc = "ended" /\ err = NoErr /\ WorkerInv(w)
    BY <1>4 DEF IInv, CallInv, Returned
  <2>4. worker[w].no = Share(w)
    BY <2>3 DEF WorkerInv
  <2>5. i \in 0..MaxTasks
    BY <1>1, <2>2, TaskIds
  <2>6. Start(w, i) \in started /\ Start(w, i).task = t
    BY <2>2, <2>4, <2>5 DEF IInv, StartedInv, Start
  <2> QED
    BY <2>6
<1>5. result = "ok" => {r.task : r \in started} = 0..(numberOfTasks - 1)
  BY <1>2, <1>4
<1>6. limit > 0 => Cardinality({w \in Workers : worker[w].pc = "task"}) <= limit
  <2> DEFINE T == {w \in Workers : worker[w].pc = "task"}
  <2>1. SUFFICES ASSUME limit > 0 PROVE Cardinality(T) <= limit
    OBVIOUS
  <2>2. numberOfWorkers <= limit /\ limit \in Int
    BY <1>1, <2>1, NumberOfWorkers, ParallelAssumption DEF ArgsTyped
  <2>3. IsFiniteSet(Workers) /\ Cardinality(Workers) = numberOfWorkers
    BY <1>2, FS_Interval DEF Workers
  <2>4. T \in SUBSET Workers
    OBVIOUS
  <2>5. IsFiniteSet(T) /\ Cardinality(T) <= numberOfWorkers
    BY <2>3, <2>4, FS_Subset
  <2>6. Cardinality(T) \in Nat
    BY <2>5, FS_CardinalityType
  <2> QED
    BY <1>2, <2>2, <2>5, <2>6
<1> QED
  BY <1>3, <1>5, <1>6 DEF TasksOnce

LEMMA ErrorsSurfaceHolds ==
  ASSUME IInv
  PROVE  ErrorsSurface
<1> SUFFICES ASSUME Returned
             PROVE  /\ failures # {} => result = "error"
                    /\ \A w \in Workers : worker[w].pc = "ended"
  BY DEF ErrorsSurface
<1>1. \A w \in Workers : worker[w].pc = "ended"
  BY DEF IInv, CallInv
<1>2. ASSUME failures # {} PROVE result = "error"
  <2>1. PICK w \in failures : TRUE
    BY <1>2
  <2>2. w \in Workers
    BY <2>1 DEF IInv, TypeOK
  <2>3. worker[w].ret = "failed" /\ worker[w].pc = "ended" /\ WorkerInv(w)
    BY <2>1, <2>2, <1>1 DEF IInv, WorkerInv
  <2>4. err # NoErr
    BY <2>3 DEF WorkerInv
  <2> QED
    BY <2>4 DEF IInv, CallInv, TypeOK, Returned
<1> QED
  BY <1>1, <1>2

LEMMA AllPrintedHolds ==
  ASSUME IInv
  PROVE  AllPrinted
<1>1. ASSUME Returned, ~lost, ~(interrupted /\ result = "ok"), NEW w \in Workers
      PROVE  worker[w].read = worker[w].written
  <2>1. printer.pc = "ended"
    BY <1>1 DEF IInv, CallInv
  <2>2. result = "ok" => ~cancelled /\ ~Again
    BY <1>1 DEF IInv, CallInv, ErrorInv, Again, Returned
  <2>3. result = "ok" \/ Again
    BY <1>1 DEF IInv, CallInv, TypeOK, Again, Returned
  <2>4. printer.at > numberOfWorkers
    BY <2>1, <2>2, <2>3, <1>1 DEF IInv, PrinterInv
  <2>5. PICK i \in 1..numberOfWorkers : IndexAt(i) = w
    BY IndexesCover
  <2>6. i < printer.at
    BY <2>1, <2>4, <2>5, PrinterForms DEF Printer
  <2>7. ~Readable(w)
    BY <2>1, <2>5, <2>6 DEF IInv, PrinterInv
  <2> QED
    BY <2>7, WorkerForms DEF Readable, WorkerInv, WorkerRecord
<1>2. ASSUME Returned, err.kind = "failed", resumed.active # err.id,
             NEW i \in (resumed.lines + 1)..Len(out), out[i] = err.id,
             NEW j \in i..Len(out)
      PROVE  out[j] = err.id
  <2>1. Again /\ FailedLast
    <3>1. err # NoErr
      BY <1>2 DEF IInv, ErrorInv
    <3> QED
      BY <3>1, <1>2 DEF IInv, CallInv, TypeOK, Again, FailedLast, Returned
  <2>2. resumed.lines \in Nat /\ Len(out) \in Nat
    BY DEF IInv, TypeOK
  <2>3. i \in 1..Len(out) /\ j \in 1..Len(out) /\ i > resumed.lines /\ j >= i
    BY <1>2, <2>2
  <2> QED
    BY <1>2, <2>1, <2>3 DEF IInv, LastInv
<1> QED
  BY <1>1, <1>2 DEF AllPrinted

\* For any number of tasks and any limit, the shares of the workers neither
\* overlap nor leave a task out (calculateTaskId, numberOfTasksPerWorker), and a
\* call that succeeds has started every task.
THEOREM EachTaskOnce == Spec => []TasksOnce
BY Invariance, TasksOnceHolds, PTL

\* DoTasks does not succeed when a task has failed, nor return while one runs,
\* unless it could not create a worker.
THEOREM FailuresReported == Spec => []ErrorsSurface
BY Invariance, ErrorsSurfaceHolds, PTL

\* The two runs of the printer show everything, and what a failed worker has
\* left to show comes last.
THEOREM EverythingPrinted == Spec => []AllPrinted
BY Invariance, AllPrintedHolds, PTL

-----------------------------------------------------------------------------
(* ClientElection: the choice of a client ID.                              *)

(* The hypothesis: between the second read of p and its post lies more     *)
(* time than the post of another process q may take, also by q's clock.    *)
SleepsLongEnough ==
    \A p, q \in Procs : Skew[p] + PostTime < Skew[q] + Sleep

-----------------------------------------------------------------------------
(* The inductive invariant.                                                *)

\* The times of a record on its way, and of one that has been posted.
RecordTimesInv ==
    \A p \in Procs :
        /\ pc[p] = "post" => /\ ts[p] = at[p] + Skew[p]
                             /\ at[p] <= now /\ now <= at[p] + PostTime
        /\ pc[p] = "sleep" => /\ [id |-> p, ts |-> ts[p]] \in records
                              /\ ts[p] <= at[p] + Skew[p]
                              /\ at[p] <= now

\* A process has a client ID only after its reads, and a record only after its
\* post; the client ID is that of a record.
ClientInv ==
    \A p \in Procs :
        /\ pc[p] \in {"read", "new", "post", "sleep"} => clientID[p] = NoID
        /\ pc[p] \in {"read", "new", "post"} => \A r \in records : r.id # p
        /\ pc[p] \in {"lock", "locked", "done"} => clientID[p] \in Procs
        /\ p \in settled => clientID[p] \in Procs

\* The processes that Agreement is about.
Counts(p) == p \in settled \/ \E r \in records : r.id = p

\* Nothing is older than r, nor will be.
Oldest(r) ==
    /\ \A s \in records : r.ts < s.ts \/ (r.ts = s.ts /\ Rank[r.id] <= Rank[s.id])
    /\ \A q \in Procs : /\ pc[q] = "post" => r.ts < ts[q]
                        /\ pc[q] = "new" => r.ts < now + Skew[q]

DecidedInv ==
    \A p \in Procs :
        (Counts(p) /\ clientID[p] # NoID)
            => \E r \in records : r.id = clientID[p] /\ Oldest(r)

\* Who is in the critical part holds the lock of its client ID.
HolderInv == \A p \in Procs : pc[p] = "locked" => held[clientID[p]] = p

ElectionInv ==
    /\ ElectionTypeOK
    /\ RecordTimesInv
    /\ ClientInv
    /\ DecidedInv
    /\ HolderInv

-----------------------------------------------------------------------------
(* The oldest record.                                                      *)

LEMMA LeastNatural ==
    ASSUME NEW S \in SUBSET Nat, S # {}
    PROVE  \E n \in S : \A m \in S : n <= m
<1> DEFINE Less == {p \in Nat \X Nat : p[1] < p[2]}
<1>1. IsWellFoundedOn(Less, Nat)
  BY NatLessThanWellFounded, Zenon DEF OpToRel
<1>2. PICK n \in S : \A m \in S : ~(<<m, n>> \in Less)
  BY <1>1, WFMin, Zenon
<1>3. \A m \in S : ~(m < n)
  BY <1>2
<1> QED
  BY <1>3

\* A record that no other precedes exists, so the CHOOSE finds one.
LEMMA OldestExists ==
    ASSUME NEW recs \in SUBSET Record, recs # {}
    PROVE  /\ selectOldestClientIDRecord(recs) \in recs
           /\ \A s \in recs :
                LET r == selectOldestClientIDRecord(recs)
                IN  r.ts < s.ts \/ (r.ts = s.ts /\ Rank[r.id] <= Rank[s.id])
<1> DEFINE T == {r.ts : r \in recs}
<1>1. PICK t \in T : \A u \in T : t <= u
  <2>1. T \in SUBSET Nat /\ T # {}
    BY DEF Record
  <2> QED
    BY <2>1, LeastNatural
<1> DEFINE K == {Rank[r.id] : r \in {s \in recs : s.ts = t}}
<1>2. PICK k \in K : \A l \in K : k <= l
  <2>1. K \in SUBSET Nat /\ K # {}
    BY ElectionAssumption DEF Record
  <2> QED
    BY <2>1, LeastNatural
<1>3. PICK r \in recs : r.ts = t /\ Rank[r.id] = k
  BY <1>2
<1>4. \A s \in recs : r.ts < s.ts \/ (r.ts = s.ts /\ Rank[r.id] <= Rank[s.id])
  <2> SUFFICES ASSUME NEW s \in recs
               PROVE  r.ts < s.ts \/ (r.ts = s.ts /\ Rank[r.id] <= Rank[s.id])
    OBVIOUS
  <2>1. s.ts \in T /\ t <= s.ts /\ s.ts \in Nat /\ t \in Nat
    BY <1>1 DEF Record
  <2>2. CASE s.ts = t
    BY <2>2, <1>2, <1>3
  <2>3. CASE s.ts # t
    BY <2>1, <2>3, <1>3
  <2> QED
    BY <2>2, <2>3
<1> QED
  BY <1>3, <1>4 DEF selectOldestClientIDRecord

-----------------------------------------------------------------------------
(* The invariant is kept.                                                  *)

LEMMA InitElection == ElectionInit => ElectionInv
  BY ElectionAssumption
  DEF ElectionInit, ElectionInv, ElectionTypeOK, RecordTimesInv, ClientInv, DecidedInv, HolderInv, Ended

LEMMA ElectionTypeStep == ElectionTypeOK /\ RecordTimesInv /\ [ElectionNext]_electionVars => ElectionTypeOK'
<1> SUFFICES ASSUME ElectionTypeOK, RecordTimesInv, [ElectionNext]_electionVars PROVE ElectionTypeOK'
  OBVIOUS
<1> USE ElectionAssumption DEF ElectionTypeOK, Ended, Goto
<1>1. ASSUME NEW p \in Procs, FirstRead(p) PROVE ElectionTypeOK'
  BY <1>1, OldestExists DEF FirstRead, UseOldest, Record
<1>2. ASSUME NEW p \in Procs, NewClientID(p) PROVE ElectionTypeOK'
  BY <1>2 DEF NewClientID
<1>3. ASSUME NEW p \in Procs, PostClientIDRecord(p) PROVE ElectionTypeOK'
  BY <1>3 DEF PostClientIDRecord, Record
<1>4. ASSUME NEW p \in Procs, SecondRead(p) PROVE ElectionTypeOK'
  <2>1. records \in SUBSET Record /\ records # {}
    BY <1>4 DEF SecondRead, RecordTimesInv
  <2>2. selectOldestClientIDRecord(records).id \in Procs
    BY <2>1, OldestExists DEF Record
  <2> QED
    BY <1>4, <2>2 DEF SecondRead, UseOldest
<1>5. ASSUME NEW p \in Procs, LockStage(p) PROVE ElectionTypeOK'
  BY <1>5 DEF LockStage
<1>6. ASSUME NEW p \in Procs, Unlock(p) PROVE ElectionTypeOK'
  BY <1>6 DEF Unlock
<1>7. ASSUME NEW p \in Procs, Fails(p) PROVE ElectionTypeOK'
  BY <1>7 DEF Fails
<1>8. ASSUME Tick PROVE ElectionTypeOK'
  BY <1>8 DEF Tick
<1>9. ASSUME UNCHANGED electionVars PROVE ElectionTypeOK'
  BY <1>9 DEF electionVars
<1> QED
  BY <1>1, <1>2, <1>3, <1>4, <1>5, <1>6, <1>7, <1>8, <1>9 DEF ElectionNext, Step, ElectionOver

LEMMA RecordTimesStep == ElectionTypeOK /\ RecordTimesInv /\ [ElectionNext]_electionVars => RecordTimesInv'
<1> SUFFICES ASSUME ElectionTypeOK, RecordTimesInv, [ElectionNext]_electionVars PROVE RecordTimesInv'
  OBVIOUS
<1> USE ElectionAssumption DEF ElectionTypeOK, RecordTimesInv, Goto
<1>1. ASSUME NEW p \in Procs, FirstRead(p) PROVE RecordTimesInv'
  BY <1>1 DEF FirstRead, UseOldest
<1>2. ASSUME NEW p \in Procs, NewClientID(p) PROVE RecordTimesInv'
  BY <1>2 DEF NewClientID
<1>3. ASSUME NEW p \in Procs, PostClientIDRecord(p) PROVE RecordTimesInv'
  BY <1>3 DEF PostClientIDRecord
<1>4. ASSUME NEW p \in Procs, SecondRead(p) PROVE RecordTimesInv'
  BY <1>4 DEF SecondRead, UseOldest
<1>5. ASSUME NEW p \in Procs, LockStage(p) PROVE RecordTimesInv'
  BY <1>5 DEF LockStage
<1>6. ASSUME NEW p \in Procs, Unlock(p) PROVE RecordTimesInv'
  BY <1>6 DEF Unlock
<1>7. ASSUME NEW p \in Procs, Fails(p) PROVE RecordTimesInv'
  BY <1>7 DEF Fails
<1>8. ASSUME Tick PROVE RecordTimesInv'
  BY <1>8 DEF Tick
<1>9. ASSUME UNCHANGED electionVars PROVE RecordTimesInv'
  BY <1>9 DEF electionVars
<1> QED
  BY <1>1, <1>2, <1>3, <1>4, <1>5, <1>6, <1>7, <1>8, <1>9 DEF ElectionNext, Step, ElectionOver

\* The first read of a process is settled only if it finds records.
LEMMA ClientStep == ElectionTypeOK /\ RecordTimesInv /\ ClientInv /\ [ElectionNext]_electionVars => ClientInv'
<1> SUFFICES ASSUME ElectionTypeOK, RecordTimesInv, ClientInv, [ElectionNext]_electionVars PROVE ClientInv'
  OBVIOUS
<1> USE ElectionAssumption DEF ElectionTypeOK, ClientInv, Goto
<1>1. ASSUME NEW p \in Procs, FirstRead(p) PROVE ClientInv'
  BY <1>1, OldestExists DEF FirstRead, UseOldest, Record
<1>2. ASSUME NEW p \in Procs, NewClientID(p) PROVE ClientInv'
  BY <1>2 DEF NewClientID
<1>3. ASSUME NEW p \in Procs, PostClientIDRecord(p) PROVE ClientInv'
  BY <1>3 DEF PostClientIDRecord
<1>4. ASSUME NEW p \in Procs, SecondRead(p) PROVE ClientInv'
  <2>1. records \in SUBSET Record /\ records # {}
    BY <1>4 DEF SecondRead, RecordTimesInv
  <2>2. selectOldestClientIDRecord(records).id \in Procs
    BY <2>1, OldestExists DEF Record
  <2> QED
    BY <1>4, <2>2 DEF SecondRead, UseOldest
<1>5. ASSUME NEW p \in Procs, LockStage(p) PROVE ClientInv'
  BY <1>5 DEF LockStage
<1>6. ASSUME NEW p \in Procs, Unlock(p) PROVE ClientInv'
  BY <1>6 DEF Unlock
<1>7. ASSUME NEW p \in Procs, Fails(p) PROVE ClientInv'
  BY <1>7 DEF Fails
<1>8. ASSUME Tick PROVE ClientInv'
  BY <1>8 DEF Tick
<1>9. ASSUME UNCHANGED electionVars PROVE ClientInv'
  BY <1>9 DEF electionVars
<1> QED
  BY <1>1, <1>2, <1>3, <1>4, <1>5, <1>6, <1>7, <1>8, <1>9 DEF ElectionNext, Step, ElectionOver

LEMMA HolderStep == ElectionTypeOK /\ ClientInv /\ HolderInv /\ [ElectionNext]_electionVars => HolderInv'
<1> SUFFICES ASSUME ElectionTypeOK, ClientInv, HolderInv, [ElectionNext]_electionVars PROVE HolderInv'
  OBVIOUS
<1> USE ElectionAssumption DEF ElectionTypeOK, HolderInv, ClientInv, Goto
<1>1. ASSUME NEW p \in Procs, FirstRead(p) PROVE HolderInv'
  BY <1>1 DEF FirstRead, UseOldest
<1>2. ASSUME NEW p \in Procs, NewClientID(p) PROVE HolderInv'
  BY <1>2 DEF NewClientID
<1>3. ASSUME NEW p \in Procs, PostClientIDRecord(p) PROVE HolderInv'
  BY <1>3 DEF PostClientIDRecord
<1>4. ASSUME NEW p \in Procs, SecondRead(p) PROVE HolderInv'
  BY <1>4 DEF SecondRead, UseOldest
<1>5. ASSUME NEW p \in Procs, LockStage(p) PROVE HolderInv'
  BY <1>5 DEF LockStage
<1>6. ASSUME NEW p \in Procs, Unlock(p) PROVE HolderInv'
  BY <1>6 DEF Unlock
<1>7. ASSUME NEW p \in Procs, Fails(p) PROVE HolderInv'
  BY <1>7 DEF Fails, Ended
<1>8. ASSUME Tick PROVE HolderInv'
  BY <1>8 DEF Tick
<1>9. ASSUME UNCHANGED electionVars PROVE HolderInv'
  BY <1>9 DEF electionVars
<1> QED
  BY <1>1, <1>2, <1>3, <1>4, <1>5, <1>6, <1>7, <1>8, <1>9 DEF ElectionNext, Step, ElectionOver

\* Who has a client ID and counts keeps it as the one of the oldest record: a
\* record that appears later has been given its timestamp after the second read
\* of whoever has posted, and none is on its way when a settled one reads.
LEMMA DecidedStep ==
    SleepsLongEnough /\ ElectionTypeOK /\ RecordTimesInv /\ ClientInv /\ DecidedInv /\ [ElectionNext]_electionVars
        => DecidedInv'
<1> SUFFICES ASSUME SleepsLongEnough, ElectionTypeOK, RecordTimesInv, ClientInv, DecidedInv, [ElectionNext]_electionVars
             PROVE  DecidedInv'
  OBVIOUS
<1> USE ElectionAssumption DEF ElectionTypeOK, Goto, Counts, Oldest
<1>1. ASSUME NEW p \in Procs, FirstRead(p) PROVE DecidedInv'
  <2>1. CASE records = {}
    BY <1>1, <2>1 DEF FirstRead, DecidedInv, ClientInv
  <2>2. CASE records # {}
    <3> DEFINE r == selectOldestClientIDRecord(records)
    <3>1. /\ r \in records
          /\ \A s \in records : r.ts < s.ts \/ (r.ts = s.ts /\ Rank[r.id] <= Rank[s.id])
      BY <2>2, OldestExists
    <3> HIDE DEF r
    <3>2. /\ clientID' = [clientID EXCEPT ![p] = r.id]
          /\ pc' = [pc EXCEPT ![p] = "lock"]
          /\ pc[p] = "read"
          /\ p \in settled' => p \in settled \/ \A q \in Procs : pc[q] \notin {"new", "post"}
          /\ settled' \subseteq settled \cup {p}
          /\ UNCHANGED <<records, now, ts>>
      BY <1>1, <2>2 DEF FirstRead, UseOldest, r
    <3>3. p \notin settled /\ \A s \in records : s.id # p
      BY <3>2 DEF ClientInv
    <3> SUFFICES ASSUME NEW q \in Procs, Counts(q)', clientID'[q] # NoID
                 PROVE  \E s \in records' : s.id = clientID'[q] /\ Oldest(s)'
      BY DEF DecidedInv
    <3>4. CASE q = p
      BY <3>1, <3>2, <3>3, <3>4
    <3>5. CASE q # p
      BY <3>2, <3>5 DEF DecidedInv
    <3> QED
      BY <3>4, <3>5
  <2> QED
    BY <2>1, <2>2
<1>2. ASSUME NEW p \in Procs, NewClientID(p) PROVE DecidedInv'
  BY <1>2 DEF NewClientID, DecidedInv
<1>3. ASSUME NEW p \in Procs, PostClientIDRecord(p) PROVE DecidedInv'
  <2> DEFINE new == [id |-> p, ts |-> ts[p]]
  <2>1. /\ records' = records \cup {new}
        /\ pc[p] = "post" /\ pc' = [pc EXCEPT ![p] = "sleep"]
        /\ clientID[p] = NoID
        /\ UNCHANGED <<now, ts, clientID, settled>>
    BY <1>3 DEF PostClientIDRecord, ClientInv
  <2> SUFFICES ASSUME NEW q \in Procs, Counts(q)', clientID'[q] # NoID
               PROVE  \E s \in records' : s.id = clientID'[q] /\ Oldest(s)'
    BY DEF DecidedInv
  <2>2. Counts(q) /\ clientID[q] # NoID
    BY <2>1
  <2>3. PICK r \in records : r.id = clientID[q] /\ Oldest(r)
    BY <2>2 DEF DecidedInv
  <2>4. r.ts < new.ts
    BY <2>1, <2>3
  <2> QED
    BY <2>1, <2>3, <2>4
<1>4. ASSUME NEW p \in Procs, SecondRead(p) PROVE DecidedInv'
  <2> DEFINE r == selectOldestClientIDRecord(records)
             own == [id |-> p, ts |-> ts[p]]
  <2>1. /\ pc[p] = "sleep" /\ own \in records
        /\ ts[p] <= at[p] + Skew[p] /\ at[p] + Sleep <= now
    BY <1>4 DEF SecondRead, RecordTimesInv
  <2>2. /\ r \in records
        /\ \A s \in records : r.ts < s.ts \/ (r.ts = s.ts /\ Rank[r.id] <= Rank[s.id])
    BY <2>1, OldestExists
  <2>3. /\ clientID' = [clientID EXCEPT ![p] = r.id]
        /\ pc' = [pc EXCEPT ![p] = "lock"]
        /\ UNCHANGED <<records, now, ts, settled>>
    BY <1>4 DEF SecondRead, UseOldest
  <2> HIDE DEF r
  <2>4. r.ts <= ts[p] /\ r.ts \in Nat
    BY <2>1, <2>2 DEF Record
  <2>5. ASSUME NEW q \in Procs
        PROVE  /\ pc[q] = "post" => r.ts < ts[q]
               /\ pc[q] = "new" => r.ts < now + Skew[q]
    <3>1. Skew[p] + PostTime < Skew[q] + Sleep
      BY DEF SleepsLongEnough
    <3>2. /\ Skew[p] \in Nat /\ Skew[q] \in Nat /\ at[p] \in Nat /\ at[q] \in Nat
          /\ ts[p] \in Nat /\ ts[q] \in Nat
      OBVIOUS
    <3>3. pc[q] = "post" => ts[q] = at[q] + Skew[q] /\ now <= at[q] + PostTime
      BY DEF RecordTimesInv
    <3> QED
      BY <2>1, <2>4, <3>1, <3>2, <3>3
  <2> SUFFICES ASSUME NEW q \in Procs, Counts(q)', clientID'[q] # NoID
               PROVE  \E s \in records' : s.id = clientID'[q] /\ Oldest(s)'
    BY DEF DecidedInv
  <2>6. CASE q = p
    BY <2>2, <2>3, <2>5, <2>6
  <2>7. CASE q # p
    BY <2>3, <2>7 DEF DecidedInv
  <2> QED
    BY <2>6, <2>7
<1>5. ASSUME NEW p \in Procs, LockStage(p) PROVE DecidedInv'
  BY <1>5 DEF LockStage, DecidedInv
<1>6. ASSUME NEW p \in Procs, Unlock(p) PROVE DecidedInv'
  BY <1>6 DEF Unlock, DecidedInv
<1>7. ASSUME NEW p \in Procs, Fails(p) PROVE DecidedInv'
  BY <1>7 DEF Fails, DecidedInv
<1>8. ASSUME Tick PROVE DecidedInv'
  BY <1>8 DEF Tick, DecidedInv, Record
<1>9. ASSUME UNCHANGED electionVars PROVE DecidedInv'
  BY <1>9 DEF electionVars, DecidedInv
<1> QED
  BY <1>1, <1>2, <1>3, <1>4, <1>5, <1>6, <1>7, <1>8, <1>9 DEF ElectionNext, Step, ElectionOver

-----------------------------------------------------------------------------
(* Theorems.                                                               *)

(* What GetHttpClientID returns, if anything, is the ID of a process, and  *)
(* the variables have their types, however long posts take.                *)
THEOREM ElectionTypes == ElectionSpec => [](ElectionTypeOK /\ RecordTimesInv /\ ClientInv)
<1>1. ElectionInit => ElectionTypeOK /\ RecordTimesInv /\ ClientInv
  BY InitElection DEF ElectionInv
<1>2. (ElectionTypeOK /\ RecordTimesInv /\ ClientInv) /\ [ElectionNext]_electionVars => (ElectionTypeOK /\ RecordTimesInv /\ ClientInv)'
  BY ElectionTypeStep, RecordTimesStep, ClientStep
<1> QED
  BY <1>1, <1>2, PTL DEF ElectionSpec

(* If processes sleep longer than a post takes, whoever counts holds the   *)
(* client ID of a record that nothing precedes or will precede.            *)
THEOREM ElectionInvariance == ASSUME SleepsLongEnough PROVE ElectionSpec => []ElectionInv
<1>1. ElectionInv /\ [ElectionNext]_electionVars => ElectionInv'
  BY ElectionTypeStep, RecordTimesStep, ClientStep, DecidedStep, HolderStep DEF ElectionInv
<1> QED
  BY InitElection, <1>1, PTL DEF ElectionSpec

(* GetHttpClientID gives everybody who counts the same client ID, for any  *)
(* number of processes, in whatever order they read and post.              *)
THEOREM AllAgree == ASSUME SleepsLongEnough PROVE ElectionSpec => []Agreement
<1>1. ElectionInv => Agreement
  <2> SUFFICES ASSUME ElectionInv, NEW p \in Procs, NEW q \in Procs,
                      clientID[p] \in Procs, clientID[q] \in Procs,
                      Counts(p), Counts(q)
               PROVE  clientID[p] = clientID[q]
    BY DEF Agreement, Counts
  <2>1. PICK r \in records : r.id = clientID[p] /\ Oldest(r)
    BY ElectionAssumption DEF ElectionInv, DecidedInv
  <2>2. PICK s \in records : s.id = clientID[q] /\ Oldest(s)
    BY ElectionAssumption DEF ElectionInv, DecidedInv
  <2>3. r \in Record /\ s \in Record
    BY DEF ElectionInv, ElectionTypeOK
  <2>4. r.ts = s.ts /\ Rank[r.id] = Rank[s.id]
    BY <2>1, <2>2, <2>3, ElectionAssumption DEF Oldest, Record
  <2> QED
    BY <2>1, <2>2, <2>3, <2>4, ElectionAssumption DEF Record
<1> QED
  BY <1>1, ElectionInvariance, PTL

(* Hence the server, which keeps locks by client ID, lets one of them hold *)
(* the lock of a stage.                                                    *)
THEOREM Exclusion == ASSUME SleepsLongEnough PROVE ElectionSpec => []ExclusiveOnceSettled
<1>1. ElectionInv /\ Agreement => ExclusiveOnceSettled
  <2> SUFFICES ASSUME ElectionInv, Agreement, NEW p \in Procs, NEW q \in Procs,
                      pc[p] = "locked", pc[q] = "locked", Counts(p), Counts(q)
               PROVE  p = q
    BY DEF ExclusiveOnceSettled, Counts
  <2>1. clientID[p] \in Procs /\ clientID[q] \in Procs
    BY DEF ElectionInv, ClientInv
  <2>2. clientID[p] = clientID[q]
    BY <2>1 DEF Agreement, Counts
  <2>3. held[clientID[p]] = p /\ held[clientID[q]] = q
    BY DEF ElectionInv, HolderInv
  <2> QED
    BY <2>2, <2>3
<1> QED
  BY <1>1, AllAgree, ElectionInvariance, PTL
=============================================================================
