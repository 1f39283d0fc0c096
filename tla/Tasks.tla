------------------------------- MODULE Tasks -------------------------------
(***************************************************************************)
(* The life of acid's tasks and threads: the queue of tasks and their      *)
(* count (task.c), the workers that run them (worker.c), and the one       *)
(* thread that calls acid_start, acid_stop and acid_stop_nonblocking       *)
(* (acid.c).  What a task does is left open but for the tasks it starts    *)
(* and whether it asks to be run again.                                    *)
(*                                                                         *)
(* A step is one section under task_count_mutex or work_sychro_mutex, or   *)
(* one access to endtime.                                                  *)
(***************************************************************************)
EXTENDS Integers, Sequences, FiniteSets

CONSTANTS
  Tasks,        \* tasks that task_create may return, each used once
  Workers,      \* the threads of workers_setup
  NULL,         \* no task
  MaxSessions   \* bound on the calls of acid_start

ASSUME TasksAssumption ==
  /\ NULL \notin Tasks
  /\ IsFiniteSet(Tasks)
  /\ MaxSessions \in Nat

VARIABLES
  task_count,   \* tasks started and not finished
  work,         \* the queue
  endtime,      \* tells the workers to return
  status,       \* status[t]: what has become of task t
  thr,          \* thr[w]: where worker w is, its task, a task it starts
  main,         \* the same of the main thread, what follows its wait, and
                \* whether the last wait ended by the count or by itself
  sessions      \* calls of acid_start so far

taskvars == <<task_count, work, endtime, status, thr, main, sessions>>

Thread ==
  [pc: {"off", "loop", "take", "run", "queue"},
   task: Tasks \cup {NULL},
   child: Tasks \cup {NULL}]

Main ==
  [pc: {"down", "up", "queue", "waiting", "woken", "teardown", "join"},
   child: Tasks \cup {NULL},
   then: {"up", "teardown", "none"},
   wake: {"count", "itself"}]

TypeOK ==
  /\ task_count \in Nat
  /\ work \in Seq(Tasks)
  /\ endtime \in BOOLEAN
  /\ status \in [Tasks -> {"none", "started", "done"}]
  /\ thr \in [Workers -> Thread]
  /\ main \in Main
  /\ sessions \in Nat

NoThread == [pc |-> "off", task |-> NULL, child |-> NULL]

Init ==
  /\ task_count = 0
  /\ work = <<>>
  /\ endtime = FALSE
  /\ status = [t \in Tasks |-> "none"]
  /\ thr = [w \in Workers |-> NoThread]
  /\ main = [pc |-> "down", child |-> NULL, then |-> "none", wake |-> "count"]
  /\ sessions = 0

-----------------------------------------------------------------------------

\* The first section of task_start; worker_add_task is the second one.
task_start(t) ==
  /\ status[t] = "none"
  /\ status' = [status EXCEPT ![t] = "started"]
  /\ task_count' = task_count + 1

worker_add_task(t) == work' = Append(work, t)

\* The main thread

acid_start ==
  /\ main.pc = "down"
  /\ sessions < MaxSessions
  /\ sessions' = sessions + 1
  /\ thr' = [w \in Workers |-> [NoThread EXCEPT !.pc = "loop"]]
  /\ main' = [main EXCEPT !.pc = "up", !.then = "none"]
  /\ UNCHANGED <<task_count, work, endtime, status>>

MainStarts(t) ==
  /\ main.pc = "up"
  /\ task_start(t)
  /\ main' = [main EXCEPT !.pc = "queue", !.child = t]
  /\ UNCHANGED <<work, endtime, thr, sessions>>

MainQueues ==
  /\ main.pc = "queue"
  /\ worker_add_task(main.child)
  /\ main' = [main EXCEPT !.pc = "up", !.child = NULL]
  /\ UNCHANGED <<task_count, endtime, status, thr, sessions>>

\* Mutant: what is waited for is an empty queue.
WaitForEmptyQueue(then) ==
  /\ main.pc = "up"
  /\ main' = IF work # <<>>
               THEN [main EXCEPT !.pc = "waiting", !.then = then, !.wake = "count"]
               ELSE [main EXCEPT !.pc = then, !.then = then, !.wake = "count"]
  /\ UNCHANGED <<task_count, work, endtime, status, thr, sessions>>

\* Called by the program itself, and by acid_stop before it tears down.
task_wait_for_zero_threads(then) ==
  /\ main.pc = "up"
  /\ main' = IF task_count > 0
               THEN [main EXCEPT !.pc = "waiting", !.then = then, !.wake = "count"]
               ELSE [main EXCEPT !.pc = then, !.then = then, !.wake = "count"]
  /\ UNCHANGED <<task_count, work, endtime, status, thr, sessions>>

\* cnd_wait wakes up without a broadcast.
SpuriousWakeup ==
  /\ main.pc = "waiting"
  /\ main' = [main EXCEPT !.pc = "woken", !.wake = "itself"]
  /\ UNCHANGED <<task_count, work, endtime, status, thr, sessions>>

\* cnd_wait returns; the count is not looked at again.
WaitReturns ==
  /\ main.pc = "woken"
  /\ main' = [main EXCEPT !.pc = main.then]
  /\ UNCHANGED <<task_count, work, endtime, status, thr, sessions>>

acid_stop_nonblocking ==
  /\ main.pc = "up"
  /\ main' = [main EXCEPT !.pc = "teardown", !.then = "none"]
  /\ UNCHANGED <<task_count, work, endtime, status, thr, sessions>>

\* workers_teardown: the signal, then the joins and the end of the queue.
workers_teardown ==
  /\ main.pc = "teardown"
  /\ endtime' = TRUE
  /\ main' = [main EXCEPT !.pc = "join"]
  /\ UNCHANGED <<task_count, work, status, thr, sessions>>

WorkersJoined ==
  /\ main.pc = "join"
  /\ \A w \in Workers : thr[w].pc = "off"
  /\ work' = <<>>
  /\ main' = [main EXCEPT !.pc = "down"]
  /\ UNCHANGED <<task_count, endtime, status, thr, sessions>>

-----------------------------------------------------------------------------
(* The workers *)

\* The condition of the loop in worker_run.
WorkerLoops(w) ==
  /\ thr[w].pc = "loop"
  /\ thr' = [thr EXCEPT ![w].pc = IF endtime THEN "off" ELSE "take"]
  /\ UNCHANGED <<task_count, work, endtime, status, main, sessions>>

\* Mutant: the task stays in the queue.
TakesWithoutRemoving(w) ==
  /\ thr[w].pc = "take"
  /\ thr' = IF work = <<>>
              THEN [thr EXCEPT ![w].pc = "loop"]
              ELSE [thr EXCEPT ![w].pc = "run", ![w].task = Head(work)]
  /\ UNCHANGED <<task_count, work, endtime, status, main, sessions>>

worker_get_next_task(w) ==
  /\ thr[w].pc = "take"
  /\ IF work = <<>>
       THEN /\ thr' = [thr EXCEPT ![w].pc = "loop"]
            /\ UNCHANGED work
       ELSE /\ thr' = [thr EXCEPT ![w].pc = "run", ![w].task = Head(work)]
            /\ work' = Tail(work)
  /\ UNCHANGED <<task_count, endtime, status, main, sessions>>

\* The task starts another one.
TaskStarts(w, t) ==
  /\ thr[w].pc = "run"
  /\ task_start(t)
  /\ thr' = [thr EXCEPT ![w].pc = "queue", ![w].child = t]
  /\ UNCHANGED <<work, endtime, main, sessions>>

TaskQueues(w) ==
  /\ thr[w].pc = "queue"
  /\ worker_add_task(thr[w].child)
  /\ thr' = [thr EXCEPT ![w].pc = "run", ![w].child = NULL]
  /\ UNCHANGED <<task_count, endtime, status, main, sessions>>

\* Mutant: a task that runs again is counted again.
RunAgainCounts(w) ==
  /\ thr[w].pc = "run"
  /\ worker_add_task(thr[w].task)
  /\ task_count' = task_count + 1
  /\ thr' = [thr EXCEPT ![w].pc = "loop", ![w].task = NULL]
  /\ UNCHANGED <<endtime, status, main, sessions>>

\* task_run when the task asks to be run again, and when it does not.
RunAgain(w) ==
  /\ thr[w].pc = "run"
  /\ worker_add_task(thr[w].task)
  /\ thr' = [thr EXCEPT ![w].pc = "loop", ![w].task = NULL]
  /\ UNCHANGED <<task_count, endtime, status, main, sessions>>

\* Mutant: nobody is told that the count is zero.
RunDoneSilently(w) ==
  /\ thr[w].pc = "run"
  /\ status' = [status EXCEPT ![thr[w].task] = "done"]
  /\ task_count' = task_count - 1
  /\ thr' = [thr EXCEPT ![w].pc = "loop", ![w].task = NULL]
  /\ UNCHANGED <<work, endtime, main, sessions>>

RunDone(w) ==
  /\ thr[w].pc = "run"
  /\ status' = [status EXCEPT ![thr[w].task] = "done"]
  /\ task_count' = task_count - 1
  /\ main' = IF task_count = 1 /\ main.pc = "waiting"
               THEN [main EXCEPT !.pc = "woken"] ELSE main
  /\ thr' = [thr EXCEPT ![w].pc = "loop", ![w].task = NULL]
  /\ UNCHANGED <<work, endtime, sessions>>

-----------------------------------------------------------------------------

MainStops == WaitReturns \/ workers_teardown \/ WorkersJoined

MainNext ==
  \/ acid_start \/ (\E t \in Tasks : MainStarts(t)) \/ MainQueues
  \/ (\E then \in {"up", "teardown"} : task_wait_for_zero_threads(then))
  \/ SpuriousWakeup \/ acid_stop_nonblocking \/ MainStops

WorkerNext(w) ==
  \/ WorkerLoops(w) \/ worker_get_next_task(w)
  \/ (\E t \in Tasks : TaskStarts(w, t)) \/ TaskQueues(w)
  \/ RunAgain(w) \/ RunDone(w)

Next == MainNext \/ \E w \in Workers : WorkerNext(w)

Spec == Init /\ [][Next]_taskvars

\* Every thread is scheduled, a thread in cnd_wait excepted, and no task asks
\* to be run again for ever: what a collector waits for comes to an end.
Fairness ==
  /\ WF_taskvars(MainStops)
  /\ \A w \in Workers : WF_taskvars(WorkerNext(w)) /\ SF_taskvars(RunDone(w))

FairSpec == Spec /\ Fairness

-----------------------------------------------------------------------------

Started == {t \in Tasks : status[t] = "started"}

\* The count is the number of tasks started and not finished, between the
\* two sections of task_start as well (task.c:34-38, 57-71).
CountExact == task_count = Cardinality(Started)

\* In how many places task t is: the queue, workers' hands, a thread that has
\* counted it and not queued it yet.
Places(t) ==
  Cardinality({i \in DOMAIN work : work[i] = t})
    + Cardinality({w \in Workers : thr[w].task = t})
    + Cardinality({w \in Workers : thr[w].child = t})
    + Cardinality({c \in {main.child} : c = t})

\* No task that is not finished is in two places, to be run by two workers,
\* and in the first session, until the queue is destroyed, none is lost
\* (worker.c:47-65, task.c:57-71).
OnePlace ==
  \A t \in Tasks :
    /\ Places(t) <= IF t \in Started THEN 1 ELSE 0
    /\ t \in Started /\ sessions = 1 /\ main.pc # "down" => Places(t) = 1

\* README.md:36-38: acid_stop waits on any remaining tasks to complete before
\* it joins the workers.
StopComplete ==
  main.then = "teardown" /\ main.pc \in {"teardown", "join", "down"}
    => Started = {}

\* What the code keeps of it: with tasks left the workers are joined only
\* where cnd_wait woke up by itself (task.c:49-55).
StopWaits == main.wake = "count" => StopComplete

\* README.md:36-38: acid_stop returns, as soon as the tasks are complete.
StopReturns ==
  main.then = "teardown" /\ main.pc \in {"waiting", "woken", "teardown"}
    ~> main.pc = "down"
=============================================================================
