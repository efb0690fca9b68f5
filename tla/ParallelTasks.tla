---------------------------- MODULE ParallelTasks ----------------------------
(***************************************************************************)
(* parallel.DoTasks: numbered tasks are shared out among workers, and one  *)
(* printer shows what the workers write, one worker after another.         *)
(*                                                                         *)
(* Workers and the printer are goroutines of an errgroup: the first error  *)
(* cancels the context of all.  A worker writes to a file of its own; the  *)
(* printer follows the file until the worker has closed it for writing.    *)
(* After an error the printer runs a second time to show what is left.     *)
(* A line of output stands for the worker that wrote it.                   *)
(***************************************************************************)
EXTENDS Integers, Sequences, FiniteSets

CONSTANTS
    MaxTasks,     \* bound on numberOfTasks
    Limits,       \* values of MaxNumberOfWorkers
    MaxLines      \* bound on the lines that a task writes

ASSUME ParallelAssumption ==
    /\ MaxTasks \in Nat
    /\ Limits \subseteq Int
    /\ MaxLines \in Nat

VARIABLES
    numberOfTasks, limit, \* the arguments of the call
    phase,                \* how far DoTasks is
    created,              \* workers that run
    worker,               \* worker[w]: its goroutine and its file
    printer,
    cancelled,            \* the context of the group is done
    interrupted,          \* ... because the caller's context is
    err,                  \* the first error of the group
    out,                  \* lines printed
    result,
    started,              \* history: the tasks started, and by whom
    failures,             \* history: workers whose task has failed
    lost,                 \* history: the output stream has failed
    resumed               \* history: lines printed, and the worker the printer
                          \* was at, when the second Print began

args == <<numberOfTasks, limit>>
history == <<started, failures, lost, resumed>>
vars == <<args, phase, created, worker, printer, cancelled, interrupted, err, out,
          result, history>>

-----------------------------------------------------------------------------
(* Distribution of tasks.                                                  *)

numberOfWorkers ==
    IF limit <= 0 \/ limit > numberOfTasks THEN numberOfTasks ELSE limit

Workers == 0..(numberOfWorkers - 1)
AnyWorker == 0..(MaxTasks - 1)

rest == numberOfTasks % numberOfWorkers

numberOfTasksPerWorker(w) ==
    numberOfTasks \div numberOfWorkers + (IF rest > w THEN 1 ELSE 0)

\* Mutant: the larger shares of the workers before are forgotten.
TaskIdOfEqualShares(w, i) == w * (numberOfTasks \div numberOfWorkers) + i

calculateTaskId(w, i) ==
    w * (numberOfTasks \div numberOfWorkers) + i + (IF rest > w THEN w ELSE rest)

-----------------------------------------------------------------------------

NoErr == [id |-> -1, kind |-> "none"]
Kinds == {"none", "failed", "canceled", "print"}
NotResumed == [lines |-> 0, active |-> -1]

\* Types of the variables.
TypeOK ==
    /\ numberOfTasks \in 0..MaxTasks
    /\ limit \in Limits
    /\ phase \in {"create", "wait", "print", "returned"}
    /\ created \in 0..numberOfWorkers
    /\ worker \in [AnyWorker ->
          [pc : {"none", "select", "task", "return", "closed", "ended"},
           no : 0..MaxTasks, ret : Kinds, halfClosed : BOOLEAN,
           written : 0..(MaxTasks * MaxLines), read : 0..(MaxTasks * MaxLines)]]
    /\ printer \in [pc : {"off", "next", "copy", "ended"}, indexes : Seq(Workers),
                    at : 1..(numberOfWorkers + 1), cursor : AnyWorker \cup {0}]
    /\ cancelled \in BOOLEAN /\ interrupted \in BOOLEAN /\ lost \in BOOLEAN
    /\ err \in [id : -1..MaxTasks, kind : Kinds]
    /\ out \in Seq(Workers)
    /\ result \in {"none", "ok", "error", "notCreated"}
    /\ started \subseteq [task : 0..(numberOfTasks - 1), by : Workers,
                          no : 0..MaxTasks]
    /\ failures \subseteq Workers
    /\ resumed \in [lines : Nat, active : -1..MaxTasks]

NewWorkerRecord ==
    [pc |-> "none", no |-> 0, ret |-> "none", halfClosed |-> FALSE,
     written |-> 0, read |-> 0]

Init ==
    /\ numberOfTasks \in 0..MaxTasks
    /\ limit \in Limits
    /\ phase = "create"
    /\ created = 0
    /\ worker = [w \in AnyWorker |-> NewWorkerRecord]
    /\ printer = [pc |-> "off", indexes |-> <<>>, at |-> 1, cursor |-> 0]
    /\ cancelled = FALSE /\ interrupted = FALSE
    /\ err = NoErr
    /\ out = <<>>
    /\ result = "none"
    /\ started = {} /\ failures = {} /\ lost = FALSE
    /\ resumed = NotResumed

-----------------------------------------------------------------------------
(* Worker.                                                                 *)

\* Mutant: a worker is done with as soon as it is closed for writing.
StillOpen(w) == ~worker[w].halfClosed

Readable(w) == ~worker[w].halfClosed \/ worker[w].read < worker[w].written

\* The loop over the tasks of the worker.
Select(w) ==
    /\ worker[w].pc = "select"
    /\ \/ /\ worker[w].no = numberOfTasksPerWorker(w)
          /\ worker' = [worker EXCEPT ![w].pc = "return"]
          /\ UNCHANGED started
       \/ /\ worker[w].no < numberOfTasksPerWorker(w)
          /\ cancelled
          /\ worker' = [worker EXCEPT ![w].pc = "return", ![w].ret = "canceled"]
          /\ UNCHANGED started
       \/ /\ worker[w].no < numberOfTasksPerWorker(w)
          /\ ~cancelled
          /\ worker' = [worker EXCEPT ![w].pc = "task"]
          /\ started' = started \cup {[task |-> calculateTaskId(w, worker[w].no),
                                     by |-> w, no |-> worker[w].no]}
    /\ UNCHANGED <<args, phase, created, printer, cancelled, interrupted, err, out,
                   result, failures, lost, resumed>>

\* The task logs a line.
Write(w) ==
    /\ worker[w].pc = "task"
    /\ ~worker[w].halfClosed
    /\ worker[w].written < (worker[w].no + 1) * MaxLines
    /\ worker' = [worker EXCEPT ![w].written = @ + 1]
    /\ UNCHANGED <<args, phase, created, printer, cancelled, interrupted, err, out,
                   result, history>>

\* taskFunc returns: no error, an error, or that it has been cancelled.
TaskEnds(w) ==
    /\ worker[w].pc = "task"
    /\ \/ /\ worker' = [worker EXCEPT ![w].pc = "select", ![w].no = @ + 1]
          /\ UNCHANGED failures
       \/ /\ worker' = [worker EXCEPT ![w].pc = "return", ![w].ret = "failed"]
          /\ failures' = failures \cup {w}
       \/ /\ cancelled
          /\ worker' = [worker EXCEPT ![w].pc = "return", ![w].ret = "canceled"]
          /\ UNCHANGED failures
    /\ UNCHANGED <<args, phase, created, printer, cancelled, interrupted, err, out,
                   result, started, lost, resumed>>

\* Mutant: only a worker that succeeds closes its file.
HalfCloseOnSuccess(w) ==
    /\ worker[w].pc = "return"
    /\ worker' = [worker EXCEPT ![w].pc = "closed",
                                ![w].halfClosed = worker[w].ret = "none"]
    /\ UNCHANGED <<args, phase, created, printer, cancelled, interrupted, err, out,
                   result, history>>

\* The deferred call when the goroutine's function returns.
HalfClose(w) ==
    /\ worker[w].pc = "return"
    /\ worker' = [worker EXCEPT ![w].pc = "closed", ![w].halfClosed = TRUE]
    /\ UNCHANGED <<args, phase, created, printer, cancelled, interrupted, err, out,
                   result, history>>

\* What errgroup does with an error of a goroutine.
SetErr(id, kind) ==
    IF err = NoErr THEN err' = [id |-> id, kind |-> kind] /\ cancelled' = TRUE
    ELSE UNCHANGED <<err, cancelled>>

\* Mutant: errors after the cancellation are left out.
ReportUnlessCancelled(w) ==
    /\ worker[w].pc = "closed"
    /\ worker' = [worker EXCEPT ![w].pc = "ended"]
    /\ IF worker[w].ret = "none" \/ cancelled THEN UNCHANGED <<err, cancelled>>
       ELSE SetErr(w, worker[w].ret)
    /\ UNCHANGED <<args, phase, created, printer, interrupted, out, result, history>>

\* The goroutine ends and the group takes its error.
Report(w) ==
    /\ worker[w].pc = "closed"
    /\ worker' = [worker EXCEPT ![w].pc = "ended"]
    /\ IF worker[w].ret = "none" THEN UNCHANGED <<err, cancelled>>
       ELSE SetErr(w, worker[w].ret)
    /\ UNCHANGED <<args, phase, created, printer, interrupted, out, result, history>>

-----------------------------------------------------------------------------
(* Printer.                                                                *)

\* Only the first Print can be cancelled.
PrintCancelled == phase = "wait" /\ cancelled

PrintNext ==
    /\ printer.pc = "next"
    /\ \/ /\ printer.at > Len(printer.indexes)
          /\ printer' = [printer EXCEPT !.pc = "ended"]
       \/ /\ printer.at <= Len(printer.indexes)
          /\ printer' = [printer EXCEPT
                           !.cursor = printer.indexes[printer.at],
                           !.pc = IF PrintCancelled THEN "ended" ELSE "copy"]
    /\ UNCHANGED <<args, phase, created, worker, cancelled, interrupted, err, out,
                   result, history>>

\* printWorkerOutput: all that the worker has written so far is copied; if
\* that is nothing the printer sleeps and looks again.
Copy ==
    /\ printer.pc = "copy"
    /\ LET w == printer.cursor
           unread == worker[w].written - worker[w].read
       IN \/ /\ ~Readable(w)
             /\ printer' = [printer EXCEPT !.pc = "next", !.at = @ + 1]
             /\ UNCHANGED <<worker, out>>
          \/ /\ Readable(w) /\ PrintCancelled
             /\ printer' = [printer EXCEPT !.pc = "ended"]
             /\ UNCHANGED <<worker, out>>
          \/ /\ Readable(w) /\ ~PrintCancelled
             /\ out' = out \o [i \in 1..unread |-> w]
             /\ worker' = [worker EXCEPT ![w].read = worker[w].written]
             /\ UNCHANGED printer
    /\ UNCHANGED <<args, phase, created, cancelled, interrupted, err, result, history>>

\* The output stream fails: what has been read is not shown.
CopyFails ==
    /\ printer.pc = "copy"
    /\ LET w == printer.cursor IN
       /\ ~PrintCancelled
       /\ worker[w].read < worker[w].written
       /\ worker' = [worker EXCEPT ![w].read = worker[w].written]
    /\ printer' = [printer EXCEPT !.pc = "ended"]
    /\ lost' = TRUE
    /\ SetErr(-1, "print")
    /\ UNCHANGED <<args, phase, created, interrupted, out, result, started, failures,
                   resumed>>

-----------------------------------------------------------------------------
(* DoTasks.                                                                *)

NewWorker ==
    /\ phase = "create"
    /\ created < numberOfWorkers
    /\ worker' = [worker EXCEPT ![created].pc = "select"]
    /\ created' = created + 1
    /\ UNCHANGED <<args, phase, printer, cancelled, interrupted, err, out, result,
                   history>>

\* The deferred Close of the workers.
Closed == [w \in AnyWorker |->
             [worker[w] EXCEPT !.halfClosed = @ \/ w < created]]

\* The file or the docker context of a worker cannot be had: DoTasks returns
\* at once, without waiting for the workers that run already.
NewWorkerFails ==
    /\ phase = "create"
    /\ created < numberOfWorkers
    /\ phase' = "returned"
    /\ result' = "notCreated"
    /\ worker' = Closed
    /\ UNCHANGED <<args, created, printer, cancelled, interrupted, err, out, history>>

StartPrinter ==
    /\ phase = "create"
    /\ created = numberOfWorkers
    /\ phase' = "wait"
    /\ printer' = [pc |-> "next", at |-> 1, cursor |-> 0,
                   indexes |-> [i \in 1..numberOfWorkers |-> i - 1]]
    /\ UNCHANGED <<args, created, worker, cancelled, interrupted, err, out, result,
                   history>>

\* SIGINT or SIGTERM.
Interrupt ==
    /\ phase # "returned"
    /\ ~interrupted
    /\ interrupted' = TRUE
    /\ cancelled' = TRUE
    /\ UNCHANGED <<args, phase, created, worker, printer, err, out, result, history>>

AllEnded == printer.pc = "ended" /\ \A w \in Workers : worker[w].pc = "ended"

Return(res) ==
    /\ phase' = "returned"
    /\ result' = res
    /\ worker' = Closed
    /\ UNCHANGED <<printer, resumed>>

\* The second Print; a failed worker goes to the end of the list unless the
\* printer is at it.
Swap(seq, i, j) == [seq EXCEPT ![i] = seq[j], ![j] = seq[i]]

PrintAgain ==
    /\ phase' = "print"
    /\ printer' = [printer EXCEPT
         !.pc = "next", !.at = 1,
         !.indexes = IF err.kind = "failed" /\ printer.cursor # err.id
                     THEN Swap(@, numberOfWorkers, err.id + 1) ELSE @]
    /\ resumed' = [lines |-> Len(out), active |-> printer.cursor]
    /\ UNCHANGED <<worker, result>>

\* g.Wait.
Wait ==
    /\ phase = "wait"
    /\ AllEnded
    /\ \/ err = NoErr /\ Return("ok")
       \/ err # NoErr /\ PrintAgain
    /\ UNCHANGED <<args, created, cancelled, interrupted, err, out, started, failures,
                   lost>>

ReturnError ==
    /\ phase = "print"
    /\ printer.pc = "ended"
    /\ Return("error")
    /\ UNCHANGED <<args, created, cancelled, interrupted, err, out, started, failures,
                   lost>>

Finished ==
    /\ phase = "returned"
    /\ \A w \in AnyWorker : worker[w].pc \in {"none", "ended"}
    /\ UNCHANGED vars

WorkerStep(w) ==
    Select(w) \/ Write(w) \/ TaskEnds(w) \/ HalfClose(w) \/ Report(w)
PrinterStep == PrintNext \/ Copy \/ CopyFails
DoTasksStep == NewWorker \/ NewWorkerFails \/ StartPrinter \/ Wait \/ ReturnError

Next ==
    \/ \E w \in Workers : WorkerStep(w)
    \/ PrinterStep
    \/ DoTasksStep
    \/ Interrupt
    \/ Finished

\* Goroutines are scheduled, and tasks come to an end.
Fairness ==
    /\ \A w \in AnyWorker : WF_vars(w \in Workers /\ WorkerStep(w))
    /\ WF_vars(PrinterStep)
    /\ WF_vars(DoTasksStep)

Spec == Init /\ [][Next]_vars /\ Fairness

-----------------------------------------------------------------------------
(* Properties.                                                             *)

Returned == phase = "returned" /\ result # "notCreated"

\* Every task is started at most once, whatever the numbers of tasks and
\* workers, each of them has been when DoTasks succeeds, and no more of them run
\* at the same time than the caller allows.
TasksOnce ==
    /\ \A r, s \in started : r.task = s.task => r = s
    /\ result = "ok" => {r.task : r \in started} = 0..(numberOfTasks - 1)
    /\ limit > 0 => Cardinality({w \in Workers : worker[w].pc = "task"}) <= limit

\* A failed task makes DoTasks fail, in whatever order failures, successes
\* and the caller's cancellation come; and when it returns no task is running,
\* so the caller may dispose of what the tasks use.
ErrorsSurface ==
    Returned => /\ failures # {} => result = "error"
                /\ \A w \in Workers : worker[w].pc = "ended"

\* Every line of every worker is shown before DoTasks returns, except that a
\* call which succeeds although the caller cancelled it shows what it can.
\* This is what DoTasks does also when the printer stood at the worker that
\* failed, where its comment says that it discards the logs of the rest.
\* After a failure the printer did not stand at, nothing follows the lines of
\* the failed worker that were left for the second Print.
AllPrinted ==
    /\ (Returned /\ ~lost /\ ~(interrupted /\ result = "ok"))
          => \A w \in Workers : worker[w].read = worker[w].written
    /\ (Returned /\ err.kind = "failed" /\ resumed.active # err.id)
          => \A i \in (resumed.lines + 1)..Len(out) :
                out[i] = err.id => \A j \in i..Len(out) : out[j] = err.id

\* DoTasks returns.
DoTasksReturns == <>(phase = "returned")

=============================================================================
