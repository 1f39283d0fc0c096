---------------------------- MODULE TasksProofs ----------------------------
(***************************************************************************)
(* The count of tasks is exact, and acid_stop waits for all of them unless *)
(* cnd_wait wakes up by itself, for every number of tasks, workers and     *)
(* sessions.  Tasks in a bounded memory are tasks: whatever is proved of   *)
(* module Tasks holds of module Memory, and the program is not given up    *)
(* while a task is left.                                                   *)
(***************************************************************************)
EXTENDS Memory, FiniteSetTheorems, SequenceTheorems, TLAPS

\* The tasks in a queue.
Elems(q) == {q[i] : i \in DOMAIN q}

\* No task is in the queue twice.
Distinct(q) == \A i, j \in DOMAIN q : q[i] = q[j] => i = j

\* The tasks that worker w holds.
Hand(w) == {thr[w].task, thr[w].child} \ {NULL}

\* A worker holds a task while it runs one, and a second one while it
\* starts it; so does the main thread.
PlaceOK ==
  /\ \A w \in Workers : /\ thr[w].task # NULL <=> thr[w].pc \in {"run", "queue"}
                        /\ thr[w].child # NULL <=> thr[w].pc = "queue"
  /\ main.child # NULL <=> main.pc = "queue"
  /\ main.pc \in {"waiting", "woken"} => main.then # "none"

\* Whatever is queued or held has been started and is not finished.
HeldStarted ==
  /\ Elems(work) \subseteq Started
  /\ \A w \in Workers : Hand(w) \subseteq Started
  /\ main.child # NULL => main.child \in Started

\* Nothing is queued or held twice.
HeldOnce ==
  /\ Distinct(work)
  /\ main.child \notin Elems(work)
  /\ \A w \in Workers :
       /\ Hand(w) \cap Elems(work) = {}
       /\ main.child \notin Hand(w)
       /\ thr[w].task # NULL => thr[w].task # thr[w].child
       /\ \A v \in Workers : v # w => Hand(v) \cap Hand(w) = {}

\* Once the broadcast has been made no task is left, and none starts.
NoneLeft ==
  /\ main.pc = "woken" /\ main.wake = "count" => Started = {}
  /\ StopWaits

\* The inductive invariant.
IInv ==
  TypeOK /\ PlaceOK /\ HeldStarted /\ HeldOnce /\ CountExact /\ NoneLeft

-----------------------------------------------------------------------------

\* worker_add_task puts a task behind those that are queued.
LEMMA Queued ==
  ASSUME NEW q \in Seq(Tasks), NEW t \in Tasks
  PROVE  /\ Append(q, t) \in Seq(Tasks)
         /\ Elems(Append(q, t)) = Elems(q) \cup {t}
         /\ Distinct(q) /\ t \notin Elems(q) => Distinct(Append(q, t))
<1>1. /\ Append(q, t) \in Seq(Tasks)
      /\ Len(q) \in Nat /\ DOMAIN q = 1..Len(q)
      /\ DOMAIN Append(q, t) = 1..(Len(q) + 1)
      /\ Append(q, t)[Len(q) + 1] = t
      /\ \A i \in 1..Len(q) : Append(q, t)[i] = q[i]
  BY AppendProperties
<1>2. 1..(Len(q) + 1) = (1..Len(q)) \cup {Len(q) + 1}
  BY <1>1
<1> QED
  BY <1>1, <1>2 DEF Elems, Distinct

\* worker_get_next_task takes the first task out of the queue.
LEMMA Taken ==
  ASSUME NEW q \in Seq(Tasks), q # <<>>, Distinct(q)
  PROVE  /\ Tail(q) \in Seq(Tasks) /\ Head(q) \in Tasks
         /\ Head(q) \in Elems(q)
         /\ Elems(Tail(q)) \subseteq Elems(q) \ {Head(q)}
         /\ Distinct(Tail(q))
<1>1. /\ Head(q) \in Tasks /\ Tail(q) \in Seq(Tasks)
      /\ Len(Tail(q)) = Len(q) - 1
      /\ \A i \in 1..Len(Tail(q)) : Tail(q)[i] = q[i + 1]
  BY HeadTailProperties
<1>2. Len(q) \in Nat \ {0} /\ DOMAIN q = 1..Len(q) /\ Head(q) = q[1]
  BY EmptySeq
<1>3. DOMAIN Tail(q) = 1..(Len(q) - 1)
  BY <1>1
<1>4. \A i \in DOMAIN Tail(q) : /\ Tail(q)[i] = q[i + 1]
                                /\ i + 1 \in DOMAIN q /\ i + 1 # 1
  BY <1>1, <1>2, <1>3
<1>5. 1 \in DOMAIN q
  BY <1>2
<1>6. Distinct(Tail(q))
  <2> SUFFICES ASSUME NEW i \in DOMAIN Tail(q), NEW j \in DOMAIN Tail(q),
                      Tail(q)[i] = Tail(q)[j]
               PROVE  i = j
    BY DEF Distinct
  <2>1. i + 1 = j + 1
    BY <1>4 DEF Distinct
  <2> QED
    BY <1>2, <1>3, <2>1
<1>7. Elems(Tail(q)) \subseteq Elems(q) \ {Head(q)}
  BY <1>2, <1>4, <1>5 DEF Elems, Distinct
<1> QED
  BY <1>1, <1>2, <1>5, <1>6, <1>7 DEF Elems

\* The first section of task_start counts one more task.
LEMMA StartCounts ==
  ASSUME TypeOK, CountExact, NEW t \in Tasks, task_start(t)
  PROVE  /\ status' \in [Tasks -> {"none", "started", "done"}]
         /\ task_count' \in Nat
         /\ Started' = Started \cup {t} /\ t \notin Started
         /\ CountExact'
<1>1. /\ status' = [status EXCEPT ![t] = "started"]
      /\ task_count' = task_count + 1 /\ status[t] = "none"
      /\ status \in [Tasks -> {"none", "started", "done"}]
      /\ task_count \in Nat
  BY DEF task_start, TypeOK
<1>2. Started' = Started \cup {t} /\ t \notin Started
  BY <1>1 DEF Started
<1>3. IsFiniteSet(Started)
  BY TasksAssumption, FS_Subset DEF Started
<1>4. Cardinality(Started') = Cardinality(Started) + 1
  BY <1>2, <1>3, FS_AddElement
<1> QED
  BY <1>1, <1>2, <1>4 DEF CountExact

\* The section at the end of task_run counts one task less.
LEMMA DoneCounts ==
  ASSUME TypeOK, CountExact, NEW t \in Started,
         status' = [status EXCEPT ![t] = "done"],
         task_count' = task_count - 1
  PROVE  /\ status' \in [Tasks -> {"none", "started", "done"}]
         /\ task_count' \in Nat
         /\ Started' = Started \ {t}
         /\ CountExact'
         /\ task_count = 1 => Started' = {}
<1>1. /\ status \in [Tasks -> {"none", "started", "done"}]
      /\ task_count \in Nat /\ t \in Tasks
  BY DEF TypeOK, Started
<1>2. Started' = Started \ {t}
  BY <1>1 DEF Started
<1>3. IsFiniteSet(Started)
  BY TasksAssumption, FS_Subset DEF Started
<1>4. Cardinality(Started') = Cardinality(Started) - 1 /\ IsFiniteSet(Started')
  BY <1>2, <1>3, FS_RemoveElement
<1>5. Cardinality(Started') \in Nat
  BY <1>4, FS_CardinalityType
<1>6. task_count = 1 => Started' = {}
  BY <1>4, FS_EmptySet DEF CountExact
<1> QED
  BY <1>1, <1>2, <1>4, <1>5, <1>6 DEF CountExact

\* The invariant holds before acid_start.
LEMMA InitIInv == Init => IInv
<1> SUFFICES ASSUME Init PROVE IInv
  OBVIOUS
<1>1. Started = {} /\ Elems(work) = {} /\ Distinct(work)
  BY DEF Init, Started, Elems, Distinct
<1>2. TypeOK
  <2>1. /\ NoThread \in Thread
        /\ [pc |-> "down", child |-> NULL, then |-> "none",
            wake |-> "count"] \in Main
    BY DEF NoThread, Thread, Main
  <2>2. work \in Seq(Tasks)
    BY EmptySeq DEF Init
  <2> QED
    BY <2>1, <2>2 DEF Init, TypeOK
<1>3. PlaceOK /\ HeldStarted /\ HeldOnce
  BY <1>1 DEF Init, PlaceOK, HeldStarted, HeldOnce, Hand, NoThread
<1>4. CountExact /\ NoneLeft
  BY <1>1, FS_EmptySet DEF Init, CountExact, NoneLeft, StopWaits, StopComplete
<1> QED
  BY <1>2, <1>3, <1>4 DEF IInv

\* Steps of the main thread that move it between waiting, stopping and
\* starting again, and move no task but out of the queue it destroys.
LEMMA MainMoves ==
  ASSUME IInv,
         \/ \E then \in {"up", "teardown"} : task_wait_for_zero_threads(then)
         \/ SpuriousWakeup \/ acid_stop_nonblocking \/ MainStops
  PROVE  IInv'
<1>1. /\ UNCHANGED <<task_count, status, thr, sessions>>
      /\ main' \in Main /\ main'.child = main.child /\ endtime' \in BOOLEAN
      /\ main.pc # "queue" /\ main'.pc # "queue"
      /\ main'.pc \in {"waiting", "woken"} => main'.then # "none"
  <2>1. /\ main \in Main /\ endtime \in BOOLEAN
        /\ main.pc \in {"waiting", "woken"} => main.then # "none"
    BY DEF IInv, TypeOK, PlaceOK
  <2>2. ASSUME NEW then \in {"up", "teardown"}, task_wait_for_zero_threads(then)
        PROVE  <1>1
    BY <2>1, <2>2 DEF Main, task_wait_for_zero_threads
  <2>3. CASE SpuriousWakeup
    BY <2>1, <2>3 DEF Main, SpuriousWakeup
  <2>4. CASE acid_stop_nonblocking
    BY <2>1, <2>4 DEF Main, acid_stop_nonblocking
  <2>5. CASE MainStops
    BY <2>1, <2>5
       DEF Main, MainStops, WaitReturns, workers_teardown, WorkersJoined
  <2> QED
    BY <2>2, <2>3, <2>4, <2>5
<1>2. work' = work \/ work' = <<>>
  BY DEF task_wait_for_zero_threads, MainStops, SpuriousWakeup,
     acid_stop_nonblocking, WaitReturns, workers_teardown, WorkersJoined
<1>3. /\ work' \in Seq(Tasks) /\ Elems(work') \subseteq Elems(work)
      /\ Distinct(work')
  <2>1. /\ work \in Seq(Tasks) /\ Distinct(work)
        /\ <<>> \in Seq(Tasks) /\ DOMAIN <<>> = {}
    BY EmptySeq DEF IInv, TypeOK, HeldOnce
  <2>2. CASE work' = work
    BY <2>1, <2>2 DEF Distinct
  <2>3. CASE work' = <<>>
    BY <2>1, <2>3 DEF Elems, Distinct
  <2> QED
    BY <1>2, <2>2, <2>3
<1>4. Started' = Started
  BY <1>1 DEF Started
<1>5. TypeOK'
  BY <1>1, <1>3 DEF IInv, TypeOK
<1>6. PlaceOK'
  BY <1>1 DEF IInv, PlaceOK
<1>7. HeldStarted' /\ HeldOnce'
  BY <1>1, <1>3, <1>4 DEF IInv, HeldStarted, HeldOnce, Hand, Elems
<1>8. CountExact'
  BY <1>1, <1>4 DEF IInv, CountExact
<1>9. NoneLeft'
  <2>1. task_count > 0 \/ Started = {}
    <3>1. IsFiniteSet(Started)
      BY TasksAssumption, FS_Subset DEF Started
    <3>2. Cardinality(Started) \in Nat
          /\ (Cardinality(Started) = 0 <=> Started = {})
      BY <3>1, FS_CardinalityType, FS_EmptySet
    <3> QED
      BY <3>2 DEF IInv, CountExact
  <2> QED
    BY <1>4, <2>1 DEF IInv, TypeOK, Main, NoneLeft, StopWaits, StopComplete,
       MainStops,
       task_wait_for_zero_threads, SpuriousWakeup, acid_stop_nonblocking,
       WaitReturns, workers_teardown, WorkersJoined
<1> QED
  BY <1>5, <1>6, <1>7, <1>8, <1>9 DEF IInv

\* acid_start brings up workers that hold nothing.
LEMMA StartStep ==
  ASSUME IInv, acid_start
  PROVE  IInv'
<1>1. /\ UNCHANGED <<task_count, work, endtime, status>>
      /\ thr' = [w \in Workers |-> [NoThread EXCEPT !.pc = "loop"]]
      /\ main' = [main EXCEPT !.pc = "up", !.then = "none"]
      /\ main.pc = "down" /\ main \in Main /\ sessions' \in Nat
  BY DEF acid_start, IInv, TypeOK
<1>2. /\ main' \in Main /\ main'.pc = "up" /\ main'.then = "none"
      /\ main'.child = main.child
  BY <1>1 DEF Main
<1>3. /\ thr' \in [Workers -> Thread]
      /\ \A w \in Workers : /\ thr'[w].pc = "loop" /\ thr'[w].task = NULL
                            /\ thr'[w].child = NULL
  BY <1>1 DEF NoThread, Thread
<1>4. Started' = Started
  BY <1>1 DEF Started
<1>5. TypeOK' /\ PlaceOK'
  BY <1>1, <1>2, <1>3 DEF IInv, TypeOK, PlaceOK
<1>6. HeldStarted' /\ HeldOnce'
  BY <1>1, <1>2, <1>3, <1>4
     DEF IInv, HeldStarted, HeldOnce, Hand, Elems, Distinct
<1>7. CountExact' /\ NoneLeft'
  BY <1>1, <1>2, <1>4 DEF IInv, CountExact, NoneLeft, StopWaits, StopComplete
<1> QED
  BY <1>5, <1>6, <1>7 DEF IInv

\* The main thread starts a task, in two sections.
LEMMA MainStartStep ==
  ASSUME IInv, NEW t \in Tasks, MainStarts(t)
  PROVE  IInv'
<1>1. /\ task_start(t) /\ UNCHANGED <<work, endtime, thr, sessions>>
      /\ main.pc = "up" /\ main' = [main EXCEPT !.pc = "queue", !.child = t]
      /\ main \in Main /\ t # NULL
  BY TasksAssumption DEF MainStarts, IInv, TypeOK
<1>2. /\ status' \in [Tasks -> {"none", "started", "done"}]
      /\ task_count' \in Nat /\ CountExact'
      /\ Started' = Started \cup {t} /\ t \notin Started
  BY <1>1, StartCounts DEF IInv
<1>3. main' \in Main /\ main'.pc = "queue" /\ main'.child = t
  BY <1>1 DEF Main
<1>4. TypeOK' /\ PlaceOK' /\ NoneLeft'
  BY <1>1, <1>2, <1>3 DEF IInv, TypeOK, PlaceOK, NoneLeft, StopWaits, StopComplete
<1>5. /\ Elems(work)' = Elems(work) /\ Distinct(work)' = Distinct(work)
      /\ \A w \in Workers : Hand(w)' = Hand(w) /\ thr'[w] = thr[w]
  BY <1>1 DEF Elems, Distinct, Hand
<1>6. HeldStarted'
  BY <1>2, <1>3, <1>5 DEF IInv, HeldStarted
<1>7. HeldOnce'
  <2>1. t \notin Elems(work) /\ \A w \in Workers : t \notin Hand(w)
    BY <1>2 DEF IInv, HeldStarted
  <2> QED
    BY <1>3, <1>5, <2>1 DEF IInv, HeldOnce
<1> QED
  BY <1>2, <1>4, <1>6, <1>7 DEF IInv

\* The second of them.
LEMMA MainQueueStep ==
  ASSUME IInv, MainQueues
  PROVE  IInv'
<1> DEFINE t == main.child
<1>1. /\ work' = Append(work, t)
      /\ UNCHANGED <<task_count, endtime, status, thr, sessions>>
      /\ main.pc = "queue" /\ main' = [main EXCEPT !.pc = "up", !.child = NULL]
      /\ main \in Main /\ work \in Seq(Tasks)
  BY DEF MainQueues, worker_add_task, IInv, TypeOK
<1>2. t \in Started /\ t \in Tasks /\ t \notin Elems(work) /\ t # NULL
  BY <1>1 DEF IInv, PlaceOK, HeldStarted, HeldOnce, Started
<1>3. /\ work' \in Seq(Tasks) /\ Elems(work') = Elems(work) \cup {t}
      /\ Distinct(work')
  BY <1>1, <1>2, Queued DEF IInv, HeldOnce
<1>4. main' \in Main /\ main'.pc = "up" /\ main'.child = NULL
  BY <1>1 DEF Main
<1>5. Started' = Started /\ Elems(work)' = Elems(work')
  BY <1>1 DEF Started, Elems
<1>6. TypeOK' /\ PlaceOK' /\ NoneLeft'
  BY <1>1, <1>3, <1>4 DEF IInv, TypeOK, PlaceOK, NoneLeft, StopWaits, StopComplete
<1>7. HeldStarted'
  BY <1>1, <1>2, <1>3, <1>4, <1>5 DEF IInv, HeldStarted, Hand
<1>8. HeldOnce'
  <2>1. NULL \notin Elems(work')
    BY <1>3, <1>5, TasksAssumption DEF Elems
  <2>2. \A w \in Workers : t \notin Hand(w) /\ Hand(w)' = Hand(w)
    BY <1>1, <1>2 DEF IInv, HeldOnce, Hand
  <2>3. Distinct(work)'
    BY <1>3 DEF Distinct
  <2> QED
    BY <1>1, <1>3, <1>4, <1>5, <2>1, <2>2, <2>3 DEF IInv, HeldOnce, Hand
<1>9. CountExact'
  BY <1>1, <1>5 DEF IInv, CountExact
<1> QED
  BY <1>6, <1>7, <1>8, <1>9 DEF IInv


\* What a step of worker w must see to, whatever the others hold: it finishes
\* no task but one it held, and what it queues or holds afterwards it queued
\* or held before, or has just started.
LEMMA OneWorker ==
  ASSUME IInv, NEW w \in Workers,
         UNCHANGED main.child, main'.pc = "queue" <=> main.pc = "queue",
         main'.pc \in {"waiting", "woken"} => main'.then # "none",
         \A v \in Workers : v # w => thr'[v] = thr[v],
         thr'[w].task # NULL <=> thr'[w].pc \in {"run", "queue"},
         thr'[w].child # NULL <=> thr'[w].pc = "queue",
         thr'[w].task # NULL => thr'[w].task # thr'[w].child,
         Distinct(work'),
         Elems(work') \cap Hand(w)' = {},
         Elems(work') \cup Hand(w)' \subseteq Started',
         \A t \in Elems(work') \cup Hand(w)' :
           t \in Elems(work) \cup Hand(w) \/ t \notin Started,
         Started \ Hand(w) \subseteq Started'
  PROVE  PlaceOK' /\ HeldStarted' /\ HeldOnce'
<1>1. /\ Elems(work)' = Elems(work') /\ Distinct(work)' = Distinct(work')
      /\ \A v \in Workers : v # w => Hand(v)' = Hand(v)
  BY DEF Elems, Distinct, Hand
<1>2. PlaceOK'
  BY DEF IInv, PlaceOK
<1>3. NULL \notin Started'
  BY TasksAssumption DEF Started
<1>4. /\ \A v \in Workers : Hand(v) \subseteq Started
      /\ main.child # NULL => main.child \in Started
      /\ \A v \in Workers : v # w => Hand(v) \cap Hand(w) = {}
      /\ \A v \in Workers : Hand(v) \cap Elems(work) = {}
      /\ main.child \notin Elems(work)
      /\ \A v \in Workers : main.child \notin Hand(v)
  BY DEF IInv, HeldStarted, HeldOnce
<1>5. \A v \in Workers : NULL \notin Hand(v) /\ NULL \notin Hand(v)'
  BY DEF Hand
<1>6. HeldStarted'
  <2>1. \A v \in Workers : v # w => Hand(v)' \subseteq Started'
    BY <1>1, <1>4
  <2>2. main.child # NULL => main.child \in Started'
    BY <1>4
  <2> QED
    BY <1>1, <2>1, <2>2 DEF HeldStarted
<1>7. HeldOnce'
  <2>1. main.child \notin Elems(work') /\ main.child \notin Hand(w)'
    BY <1>3, <1>4, <1>5
  <2>2. \A v \in Workers : v # w => /\ Hand(v)' \cap Elems(work') = {}
                                    /\ Hand(v)' \cap Hand(w)' = {}
    BY <1>1, <1>4
  <2>3. \A v \in Workers : main.child \notin Hand(v)'
    BY <1>1, <1>4, <2>1
  <2>4. ASSUME NEW u \in Workers, NEW v \in Workers, u # v
        PROVE  Hand(v)' \cap Hand(u)' = {}
    BY <1>1, <2>2, <2>4 DEF IInv, HeldOnce
  <2>5. \A v \in Workers : thr'[v].task # NULL => thr'[v].task # thr'[v].child
    BY DEF IInv, HeldOnce
  <2> QED
    BY <1>1, <2>1, <2>2, <2>3, <2>4, <2>5 DEF HeldOnce
<1> QED
  BY <1>2, <1>6, <1>7

\* A step that finishes no task and starts none leaves the wait as it is.
LEMMA NothingChanges ==
  ASSUME IInv, UNCHANGED <<task_count, status, main>>
  PROVE  /\ Started' = Started /\ CountExact'
         /\ NoneLeft'
         /\ UNCHANGED main.child
         /\ main'.pc = "queue" <=> main.pc = "queue"
         /\ main'.pc \in {"waiting", "woken"} => main'.then # "none"
<1>1. Started' = Started
  BY DEF Started
<1> QED
  BY <1>1 DEF IInv, CountExact, NoneLeft, StopWaits, StopComplete, PlaceOK

\* Where a worker is, what it holds, and that all of it is started.
LEMMA AtWorker ==
  ASSUME IInv, NEW w \in Workers
  PROVE  /\ thr[w] \in Thread /\ work \in Seq(Tasks) /\ Distinct(work)
         /\ Hand(w) \subseteq Started /\ Elems(work) \subseteq Started
         /\ Hand(w) \cap Elems(work) = {} /\ Started \subseteq Tasks
         /\ thr[w].task # NULL <=> thr[w].pc \in {"run", "queue"}
         /\ thr[w].child # NULL <=> thr[w].pc = "queue"
         /\ thr[w].task # NULL => thr[w].task # thr[w].child
BY DEF IInv, TypeOK, PlaceOK, HeldStarted, HeldOnce, Started


\* The condition of a worker's loop.
LEMMA LoopStep ==
  ASSUME IInv, NEW w \in Workers, WorkerLoops(w)
  PROVE  IInv'
<1>1. /\ UNCHANGED <<task_count, work, endtime, status, main, sessions>>
      /\ thr' = [thr EXCEPT ![w].pc = IF endtime THEN "off" ELSE "take"]
      /\ thr[w].pc = "loop" /\ thr \in [Workers -> Thread]
  BY DEF WorkerLoops, IInv, TypeOK
<1>2. /\ thr' \in [Workers -> Thread] /\ thr'[w].pc \in {"off", "take"}
      /\ thr'[w].task = thr[w].task /\ thr'[w].child = thr[w].child
      /\ \A v \in Workers : v # w => thr'[v] = thr[v]
  BY <1>1 DEF Thread
<1>3. Hand(w)' = Hand(w)
  BY <1>2 DEF Hand
<1>4. TypeOK'
  BY <1>1, <1>2 DEF IInv, TypeOK
<1>5. PlaceOK' /\ HeldStarted' /\ HeldOnce'
  BY <1>1, <1>2, <1>3, NothingChanges, AtWorker, OneWorker
<1> QED
  BY <1>1, <1>4, <1>5, NothingChanges DEF IInv

\* The first task of the queue, if there is one, goes to the worker.
LEMMA TakeStep ==
  ASSUME IInv, NEW w \in Workers, worker_get_next_task(w)
  PROVE  IInv'
<1>1. /\ UNCHANGED <<task_count, endtime, status, main, sessions>>
      /\ thr[w].pc = "take" /\ thr \in [Workers -> Thread]
  BY DEF worker_get_next_task, IInv, TypeOK
<1>2. thr[w].task = NULL /\ thr[w].child = NULL /\ Hand(w) = {}
  BY <1>1, AtWorker DEF Hand
<1>3. CASE work = <<>>
  <2>1. thr' = [thr EXCEPT ![w].pc = "loop"] /\ work' = work
    BY <1>3 DEF worker_get_next_task
  <2>2. /\ thr' \in [Workers -> Thread] /\ thr'[w].pc = "loop"
        /\ thr'[w].task = NULL /\ thr'[w].child = NULL
        /\ \A v \in Workers : v # w => thr'[v] = thr[v]
    BY <1>1, <1>2, <2>1 DEF Thread
  <2>3. Hand(w)' = {}
    BY <2>2 DEF Hand
  <2>4. TypeOK'
    BY <1>1, <2>1, <2>2 DEF IInv, TypeOK
  <2>5. PlaceOK' /\ HeldStarted' /\ HeldOnce'
    BY <1>1, <1>2, <2>1, <2>2, <2>3, NothingChanges, AtWorker, OneWorker
  <2> QED
    BY <1>1, <2>4, <2>5, NothingChanges DEF IInv
<1>4. CASE work # <<>>
  <2> DEFINE t == Head(work)
  <2>1. /\ thr' = [thr EXCEPT ![w].pc = "run", ![w].task = t]
        /\ work' = Tail(work)
    BY <1>4 DEF worker_get_next_task
  <2>2. /\ Tail(work) \in Seq(Tasks) /\ t \in Tasks /\ t \in Elems(work)
        /\ Elems(Tail(work)) \subseteq Elems(work) \ {t}
        /\ Distinct(Tail(work))
    BY <1>4, AtWorker, Taken
  <2>3. t # NULL
    BY <2>2, TasksAssumption
  <2>4. /\ thr' \in [Workers -> Thread] /\ thr'[w].pc = "run"
        /\ thr'[w].task = t /\ thr'[w].child = NULL
        /\ \A v \in Workers : v # w => thr'[v] = thr[v]
    BY <1>1, <1>2, <2>1, <2>2 DEF Thread
  <2>5. Hand(w)' = {t}
    BY <2>3, <2>4 DEF Hand
  <2>6. TypeOK'
    BY <1>1, <2>1, <2>2, <2>4 DEF IInv, TypeOK
  <2>7. PlaceOK' /\ HeldStarted' /\ HeldOnce'
    <3> HIDE DEF t
    <3> QED
      BY <1>1, <1>2, <2>1, <2>2, <2>3, <2>4, <2>5,
         NothingChanges, AtWorker, OneWorker
  <2> QED
    BY <1>1, <2>6, <2>7, NothingChanges DEF IInv
<1> QED
  BY <1>3, <1>4


\* A task starts another one: the first section.
LEMMA TaskStartStep ==
  ASSUME IInv, NEW w \in Workers, NEW t \in Tasks, TaskStarts(w, t)
  PROVE  IInv'
<1>1. /\ UNCHANGED <<work, endtime, main, sessions>> /\ task_start(t)
      /\ thr' = [thr EXCEPT ![w].pc = "queue", ![w].child = t]
      /\ thr[w].pc = "run" /\ thr \in [Workers -> Thread] /\ t # NULL
  BY TasksAssumption DEF TaskStarts, IInv, TypeOK
<1>2. /\ status' \in [Tasks -> {"none", "started", "done"}]
      /\ task_count' \in Nat /\ CountExact'
      /\ Started' = Started \cup {t} /\ t \notin Started
  BY <1>1, StartCounts DEF IInv
<1>3. /\ thr' \in [Workers -> Thread] /\ thr'[w].pc = "queue"
      /\ thr'[w].task = thr[w].task /\ thr'[w].child = t
      /\ \A v \in Workers : v # w => thr'[v] = thr[v]
  BY <1>1 DEF Thread
<1>4. /\ thr[w].task # NULL /\ thr[w].child = NULL
      /\ Hand(w) = {thr[w].task} /\ thr[w].task \in Started
  BY <1>1, AtWorker DEF Hand
<1>5. Hand(w)' = Hand(w) \cup {t}
  BY <1>1, <1>3, <1>4 DEF Hand
<1>6. TypeOK'
  BY <1>1, <1>2, <1>3 DEF IInv, TypeOK
<1>7. PlaceOK' /\ HeldStarted' /\ HeldOnce'
  <2>1. /\ main'.pc \in {"waiting", "woken"} => main'.then # "none"
        /\ UNCHANGED main.child
    BY <1>1 DEF IInv, PlaceOK
  <2> QED
    BY <1>1, <1>2, <1>3, <1>4, <1>5, <2>1, AtWorker, OneWorker
<1>8. NoneLeft'
  BY <1>1, <1>4 DEF IInv, NoneLeft, StopWaits, StopComplete
<1> QED
  BY <1>2, <1>6, <1>7, <1>8 DEF IInv

\* The second section.
LEMMA TaskQueueStep ==
  ASSUME IInv, NEW w \in Workers, TaskQueues(w)
  PROVE  IInv'
<1> DEFINE t == thr[w].child
<1>1. /\ UNCHANGED <<task_count, endtime, status, main, sessions>>
      /\ work' = Append(work, t)
      /\ thr' = [thr EXCEPT ![w].pc = "run", ![w].child = NULL]
      /\ thr[w].pc = "queue" /\ thr \in [Workers -> Thread]
  BY DEF TaskQueues, worker_add_task, IInv, TypeOK
<1>2. /\ t # NULL /\ t \in Hand(w) /\ t \in Started /\ t \in Tasks
      /\ thr[w].task # NULL /\ thr[w].task # t /\ t \notin Elems(work)
  BY <1>1, AtWorker DEF Hand
<1>3. /\ Append(work, t) \in Seq(Tasks)
      /\ Elems(Append(work, t)) = Elems(work) \cup {t}
      /\ Distinct(Append(work, t))
  BY <1>2, AtWorker, Queued
<1>4. /\ thr' \in [Workers -> Thread] /\ thr'[w].pc = "run"
      /\ thr'[w].task = thr[w].task /\ thr'[w].child = NULL
      /\ \A v \in Workers : v # w => thr'[v] = thr[v]
  BY <1>1 DEF Thread
<1>5. Hand(w)' = Hand(w) \ {t}
  BY <1>1, <1>2, <1>4 DEF Hand
<1>6. TypeOK'
  BY <1>1, <1>3, <1>4 DEF IInv, TypeOK
<1>7. PlaceOK' /\ HeldStarted' /\ HeldOnce'
  <2> HIDE DEF t
  <2> QED
    BY <1>1, <1>2, <1>3, <1>4, <1>5, NothingChanges, AtWorker, OneWorker
<1> QED
  BY <1>1, <1>6, <1>7, NothingChanges DEF IInv

\* A task that asks to be run again goes back to the queue.
LEMMA AgainStep ==
  ASSUME IInv, NEW w \in Workers, RunAgain(w)
  PROVE  IInv'
<1> DEFINE t == thr[w].task
<1>1. /\ UNCHANGED <<task_count, endtime, status, main, sessions>>
      /\ work' = Append(work, t)
      /\ thr' = [thr EXCEPT ![w].pc = "loop", ![w].task = NULL]
      /\ thr[w].pc = "run" /\ thr \in [Workers -> Thread]
  BY DEF RunAgain, worker_add_task, IInv, TypeOK
<1>2. /\ t # NULL /\ Hand(w) = {t} /\ t \in Started /\ t \in Tasks
      /\ thr[w].child = NULL /\ t \notin Elems(work)
  BY <1>1, AtWorker DEF Hand
<1>3. /\ Append(work, t) \in Seq(Tasks)
      /\ Elems(Append(work, t)) = Elems(work) \cup {t}
      /\ Distinct(Append(work, t))
  BY <1>2, AtWorker, Queued
<1>4. /\ thr' \in [Workers -> Thread] /\ thr'[w].pc = "loop"
      /\ thr'[w].task = NULL /\ thr'[w].child = NULL
      /\ \A v \in Workers : v # w => thr'[v] = thr[v]
  BY <1>1, <1>2 DEF Thread
<1>5. Hand(w)' = {}
  BY <1>4 DEF Hand
<1>6. TypeOK'
  BY <1>1, <1>3, <1>4 DEF IInv, TypeOK
<1>7. PlaceOK' /\ HeldStarted' /\ HeldOnce'
  <2> HIDE DEF t
  <2> QED
    BY <1>1, <1>2, <1>3, <1>4, <1>5, NothingChanges, AtWorker, OneWorker
<1> QED
  BY <1>1, <1>6, <1>7, NothingChanges DEF IInv

\* A task is finished; the last one wakes the main thread.
LEMMA DoneStep ==
  ASSUME IInv, NEW w \in Workers, RunDone(w)
  PROVE  IInv'
<1> DEFINE t == thr[w].task
<1>1. /\ UNCHANGED <<work, endtime, sessions>>
      /\ status' = [status EXCEPT ![t] = "done"]
      /\ task_count' = task_count - 1
      /\ main' = IF task_count = 1 /\ main.pc = "waiting"
                   THEN [main EXCEPT !.pc = "woken"] ELSE main
      /\ thr' = [thr EXCEPT ![w].pc = "loop", ![w].task = NULL]
      /\ thr[w].pc = "run" /\ thr \in [Workers -> Thread] /\ main \in Main
  BY DEF RunDone, IInv, TypeOK
<1>2. /\ t # NULL /\ Hand(w) = {t} /\ t \in Started
      /\ thr[w].child = NULL /\ t \notin Elems(work)
  BY <1>1, AtWorker DEF Hand
<1>3. /\ status' \in [Tasks -> {"none", "started", "done"}]
      /\ task_count' \in Nat /\ CountExact'
      /\ Started' = Started \ {t}
      /\ task_count = 1 => Started' = {}
  BY <1>1, <1>2, DoneCounts DEF IInv
<1>4. /\ thr' \in [Workers -> Thread] /\ thr'[w].pc = "loop"
      /\ thr'[w].task = NULL /\ thr'[w].child = NULL
      /\ \A v \in Workers : v # w => thr'[v] = thr[v]
  BY <1>1, <1>2 DEF Thread
<1>5. Hand(w)' = {}
  BY <1>4 DEF Hand
<1>6. /\ main' \in Main /\ main'.child = main.child
      /\ main'.then = main.then /\ main'.wake = main.wake
      /\ \/ main'.pc = main.pc
         \/ main'.pc = "woken" /\ main.pc = "waiting" /\ task_count = 1
  BY <1>1 DEF Main
<1>7. TypeOK'
  BY <1>1, <1>3, <1>4, <1>6 DEF IInv, TypeOK
<1>8. PlaceOK' /\ HeldStarted' /\ HeldOnce'
  <2>1. /\ main'.pc \in {"waiting", "woken"} => main'.then # "none"
        /\ main'.pc = "queue" <=> main.pc = "queue"
    BY <1>6 DEF IInv, PlaceOK
  <2> HIDE DEF t
  <2> QED
    BY <1>1, <1>2, <1>3, <1>4, <1>5, <1>6, <2>1, AtWorker, OneWorker
<1>9. NoneLeft'
  BY <1>3, <1>6 DEF IInv, NoneLeft, StopWaits, StopComplete
<1> QED
  BY <1>3, <1>7, <1>8, <1>9 DEF IInv


-----------------------------------------------------------------------------

\* Every step of the main thread and of the workers keeps the invariant.
LEMMA NextIInv == IInv /\ [Next]_taskvars => IInv'
<1> SUFFICES ASSUME IInv, [Next]_taskvars PROVE IInv'
  OBVIOUS
<1>1. CASE acid_start
  BY <1>1, StartStep
<1>2. ASSUME NEW t \in Tasks, MainStarts(t) PROVE IInv'
  BY <1>2, MainStartStep
<1>3. CASE MainQueues
  BY <1>3, MainQueueStep
<1>4. CASE \/ \E then \in {"up", "teardown"} : task_wait_for_zero_threads(then)
           \/ SpuriousWakeup \/ acid_stop_nonblocking \/ MainStops
  BY <1>4, MainMoves
<1>5. ASSUME NEW w \in Workers, WorkerNext(w) PROVE IInv'
  <2>1. CASE WorkerLoops(w)
    BY <2>1, LoopStep
  <2>2. CASE worker_get_next_task(w)
    BY <2>2, TakeStep
  <2>3. ASSUME NEW t \in Tasks, TaskStarts(w, t) PROVE IInv'
    BY <2>3, TaskStartStep
  <2>4. CASE TaskQueues(w)
    BY <2>4, TaskQueueStep
  <2>5. CASE RunAgain(w)
    BY <2>5, AgainStep
  <2>6. CASE RunDone(w)
    BY <2>6, DoneStep
  <2> QED
    BY <1>5, <2>1, <2>2, <2>3, <2>4, <2>5, <2>6 DEF WorkerNext
<1>6. CASE UNCHANGED taskvars
  <2>1. UNCHANGED <<task_count, work, endtime, status, thr, main, sessions>>
    BY <1>6 DEF taskvars
  <2>2. TypeOK' /\ PlaceOK'
    BY <2>1 DEF IInv, TypeOK, PlaceOK
  <2>3. /\ Elems(work)' = Elems(work) /\ Distinct(work)' = Distinct(work)
        /\ \A w \in Workers : Hand(w)' = Hand(w)
    BY <2>1 DEF Elems, Distinct, Hand
  <2>4. HeldStarted' /\ HeldOnce' /\ CountExact'
    BY <2>1, <2>3, NothingChanges DEF IInv, HeldStarted, HeldOnce
  <2> QED
    BY <2>1, <2>2, <2>4, NothingChanges DEF IInv
<1> QED
  BY <1>1, <1>2, <1>3, <1>4, <1>5, <1>6 DEF Next, MainNext

\* The inductive invariant holds whatever the program starts and stops.
THEOREM TasksInvariant == Spec => []IInv
<1>1. Init => IInv
  BY InitIInv
<1>2. IInv /\ [Next]_taskvars => IInv'
  BY NextIInv
<1> QED
  BY <1>1, <1>2, PTL DEF Spec

\* The queue, the threads and the count keep their types; in particular the
\* count, an unsigned number, never goes below zero (task.c:13, 65).
THEOREM TasksTypeCorrect == Spec => []TypeOK
<1>1. IInv => TypeOK
  BY DEF IInv
<1> QED
  BY <1>1, TasksInvariant, PTL

\* The count is the number of the tasks started and not finished, wherever
\* the threads are in task_start and task_run (task.c:34-38, 57-71).
THEOREM TaskCountExact == Spec => []CountExact
<1>1. IInv => CountExact
  BY DEF IInv
<1> QED
  BY <1>1, TasksInvariant, PTL

\* Unless cnd_wait woke up by itself, acid_stop tears nothing down before
\* every task is complete (task.c:49-55, acid.c:21-24).
THEOREM StopWaitsForAll == Spec => []StopWaits
<1>1. IInv => StopWaits
  BY DEF IInv, NoneLeft
<1> QED
  BY <1>1, TasksInvariant, PTL

\* No task that is queued or in a worker's hands is anywhere else, so no two
\* workers ever run the same task (worker.c:47-65, task.c:57-71).
THEOREM NoTaskRunTwice ==
  Spec => [](\A v, w \in Workers :
               v # w /\ thr[v].task # NULL => thr[v].task # thr[w].task)
<1>1. IInv => \A v, w \in Workers :
                v # w /\ thr[v].task # NULL => thr[v].task # thr[w].task
  BY DEF IInv, HeldOnce, Hand
<1> QED
  BY <1>1, TasksInvariant, PTL

-----------------------------------------------------------------------------

\* Where a task is that somebody will run.
Held ==
  Elems(work) \cup (UNION {Hand(w) : w \in Workers}) \cup {main.child}

\* Nothing is started before the first session, and in the first session
\* whatever is started is held: only the end of a session drops tasks.
NoneLost ==
  /\ sessions = 0 => main.pc = "down" /\ Started = {}
  /\ sessions = 1 /\ main.pc # "down" => Started \subseteq Held

\* All that is in a queue is at its head or behind it.
LEMMA HeadOrTail ==
  ASSUME NEW q \in Seq(Tasks), q # <<>>
  PROVE  Elems(q) \subseteq Elems(Tail(q)) \cup {Head(q)}
<1>1. /\ Len(q) \in Nat \ {0} /\ DOMAIN q = 1..Len(q) /\ Head(q) = q[1]
      /\ Tail(q) \in Seq(Tasks) /\ Len(Tail(q)) = Len(q) - 1
      /\ \A i \in 1..Len(Tail(q)) : Tail(q)[i] = q[i + 1]
  BY EmptySeq, HeadTailProperties
<1>2. DOMAIN Tail(q) = 1..(Len(q) - 1)
  BY <1>1
<1> SUFFICES ASSUME NEW i \in DOMAIN q, i # 1
             PROVE  q[i] \in Elems(Tail(q))
  BY <1>1 DEF Elems
<1>3. i - 1 \in DOMAIN Tail(q) /\ (i - 1) + 1 = i
  BY <1>1, <1>2
<1>4. Tail(q)[i - 1] = q[i]
  BY <1>1, <1>2, <1>3
<1> QED
  BY <1>3, <1>4 DEF Elems

\* A step of a thread other than acid_start loses nothing, if what is started
\* afterwards was just started or held, and is held still.
LEMMA KeepsHeld ==
  ASSUME NoneLost, UNCHANGED sessions,
         main.pc = "down" => main'.pc = "down" /\ Started' \subseteq Started,
         main'.pc # "down" =>
           /\ Started' \subseteq Started \cup Held'
           /\ \A t \in Held : t \in Started' => t \in Held'
  PROVE  NoneLost'
BY DEF NoneLost

\* Steps that move no task from where it is.
LEMMA NothingMoves ==
  ASSUME NoneLost,
         UNCHANGED <<work, status, sessions>>, main'.child = main.child,
         main.pc = "down" => main'.pc = "down",
         \A w \in Workers : Hand(w)' = Hand(w)
  PROVE  NoneLost'
<1>1. Elems(work)' = Elems(work) /\ Started' = Started
  BY DEF Elems, Started
<1>2. Held' = Held
  BY <1>1 DEF Held
<1> QED
  BY <1>1, <1>2 DEF NoneLost

\* The steps of the main thread lose nothing but at the end of a session.
LEMMA MainKeeps ==
  ASSUME IInv, NoneLost, MainNext
  PROVE  NoneLost'
<1>1. CASE acid_start
  <2>1. sessions' = sessions + 1 /\ sessions \in Nat /\ UNCHANGED status
    BY <1>1 DEF acid_start, IInv, TypeOK
  <2>2. Started' = Started
    BY <2>1 DEF Started
  <2> QED
    BY <1>1, <2>1, <2>2 DEF acid_start, NoneLost
<1>2. ASSUME NEW t \in Tasks, MainStarts(t)
      PROVE  NoneLost'
  <2>1. /\ task_start(t) /\ UNCHANGED <<work, thr, sessions>>
        /\ main.pc = "up" /\ main' = [main EXCEPT !.pc = "queue", !.child = t]
        /\ main \in Main
    BY <1>2 DEF MainStarts, IInv, TypeOK
  <2>2. Started' = Started \cup {t} /\ main.child = NULL
    BY <2>1, StartCounts DEF IInv, PlaceOK
  <2>3. main'.child = t /\ NULL \notin Started'
    BY <2>1, TasksAssumption DEF Main, Started
  <2>4. Elems(work)' = Elems(work) /\ \A w \in Workers : Hand(w)' = Hand(w)
    BY <2>1 DEF Elems, Hand
  <2>5. /\ Held \subseteq Held' \cup {NULL}
        /\ t \in Held'
    BY <2>2, <2>3, <2>4 DEF Held
  <2> QED
    BY <2>1, <2>2, <2>3, <2>5, KeepsHeld
<1>3. CASE MainQueues
  <2>1. /\ work' = Append(work, main.child)
        /\ UNCHANGED <<status, thr, sessions>>
        /\ main.pc = "queue" /\ main' = [main EXCEPT !.pc = "up", !.child = NULL]
        /\ work \in Seq(Tasks)
    BY <1>3 DEF MainQueues, worker_add_task, IInv, TypeOK
  <2>2. main.child \in Tasks
    BY <2>1 DEF IInv, PlaceOK, HeldStarted, Started
  <2>3. Elems(work)' = Elems(work) \cup {main.child}
    BY <2>1, <2>2, Queued DEF Elems
  <2>4. Started' = Started /\ \A w \in Workers : Hand(w)' = Hand(w)
    BY <2>1 DEF Started, Hand
  <2>5. Held \subseteq Held'
    BY <2>3, <2>4 DEF Held
  <2> QED
    BY <2>1, <2>4, <2>5, KeepsHeld
<1>4. CASE WorkersJoined
  <2>1. /\ UNCHANGED <<status, sessions>> /\ main.pc = "join"
        /\ main' = [main EXCEPT !.pc = "down"] /\ main \in Main
    BY <1>4 DEF WorkersJoined, IInv, TypeOK
  <2>2. main'.pc = "down" /\ Started' = Started
    BY <2>1 DEF Main, Started
  <2> QED
    BY <2>1, <2>2, KeepsHeld
<1>5. CASE \/ \E then \in {"up", "teardown"} : task_wait_for_zero_threads(then)
           \/ SpuriousWakeup \/ acid_stop_nonblocking
           \/ WaitReturns \/ workers_teardown
  <2>1. /\ UNCHANGED <<work, status, thr, sessions>>
        /\ main.pc # "down" /\ main'.child = main.child
    <3>1. main \in Main
      BY DEF IInv, TypeOK
    <3>2. ASSUME NEW then \in {"up", "teardown"}, task_wait_for_zero_threads(then)
          PROVE  <2>1
      BY <3>1, <3>2 DEF Main, task_wait_for_zero_threads
    <3>3. CASE SpuriousWakeup \/ acid_stop_nonblocking
      BY <3>1, <3>3 DEF Main, SpuriousWakeup, acid_stop_nonblocking
    <3>4. CASE WaitReturns \/ workers_teardown
      BY <3>1, <3>4 DEF Main, WaitReturns, workers_teardown
    <3> QED
      BY <1>5, <3>2, <3>3, <3>4
  <2>2. \A w \in Workers : Hand(w)' = Hand(w)
    BY <2>1 DEF Hand
  <2> QED
    BY <2>1, <2>2, NothingMoves
<1> QED
  BY <1>1, <1>2, <1>3, <1>4, <1>5 DEF MainNext, MainStops

\* A worker holds, queues or finishes what it took.
LEMMA WorkerMoves ==
  ASSUME IInv, NoneLost, NEW w \in Workers,
         UNCHANGED sessions, main'.child = main.child,
         main'.pc = "down" <=> main.pc = "down",
         \A v \in Workers : v # w => thr'[v] = thr[v],
         Started # {} => Started' \subseteq Started \cup Hand(w)',
         Started = {} => Started' = {},
         \A t \in Elems(work) \cup Hand(w) :
           t \in Started' => t \in Elems(work') \cup Hand(w)'
  PROVE  NoneLost'
<1>1. \A v \in Workers : v # w => Hand(v)' = Hand(v)
  BY DEF Hand
<1>2. Elems(work)' = Elems(work')
  BY DEF Elems
<1>3. ASSUME NEW t \in Held, t \in Started'
      PROVE  t \in Held'
  <2>1. CASE t \in Elems(work) \cup Hand(w)
    BY <1>2, <1>3, <2>1 DEF Held
  <2>2. ASSUME NEW v \in Workers, v # w, t \in Hand(v)
        PROVE  t \in Held'
    BY <1>1, <2>2 DEF Held
  <2>3. CASE t = main.child
    BY <2>3 DEF Held
  <2> QED
    BY <1>3, <2>1, <2>2, <2>3 DEF Held
<1>4. Hand(w)' \subseteq Held'
  BY DEF Held
<1> QED
  BY <1>3, <1>4 DEF NoneLost

\* No step of a worker loses a task.
LEMMA WorkersKeep ==
  ASSUME IInv, NoneLost, NEW w \in Workers, WorkerNext(w)
  PROVE  NoneLost'
<1>0. /\ thr \in [Workers -> Thread] /\ main \in Main /\ work \in Seq(Tasks)
      /\ Hand(w) \subseteq Started /\ Elems(work) \subseteq Started
      /\ thr[w].task # NULL <=> thr[w].pc \in {"run", "queue"}
      /\ thr[w].child # NULL <=> thr[w].pc = "queue"
  BY AtWorker DEF IInv, TypeOK
<1>1. CASE WorkerLoops(w)
  <2>1. /\ UNCHANGED <<work, status, main, sessions>>
        /\ thr' = [thr EXCEPT ![w].pc = IF endtime THEN "off" ELSE "take"]
    BY <1>1 DEF WorkerLoops
  <2>2. \A v \in Workers : Hand(v)' = Hand(v)
    BY <1>0, <2>1 DEF Hand, Thread
  <2> QED
    BY <2>1, <2>2, NothingMoves
<1>2. CASE worker_get_next_task(w)
  <2>1. /\ UNCHANGED <<status, main, sessions>> /\ thr[w].pc = "take"
    BY <1>2 DEF worker_get_next_task
  <2>2. Started' = Started
    BY <2>1 DEF Started
  <2>3. CASE work = <<>>
    <3>1. /\ thr' = [thr EXCEPT ![w].pc = "loop"] /\ work' = work
      BY <1>2, <2>3 DEF worker_get_next_task
    <3>2. \A v \in Workers : Hand(v)' = Hand(v)
      BY <1>0, <3>1 DEF Hand, Thread
    <3> QED
      BY <2>1, <3>1, <3>2, NothingMoves
  <2>4. CASE work # <<>>
    <3>1. /\ thr' = [thr EXCEPT ![w].pc = "run", ![w].task = Head(work)]
          /\ work' = Tail(work)
      BY <1>2, <2>4 DEF worker_get_next_task
    <3>2. /\ thr'[w].task = Head(work)
          /\ \A v \in Workers : v # w => thr'[v] = thr[v]
      BY <1>0, <3>1 DEF Thread
    <3>3. Elems(work) \subseteq Elems(work') \cup {Head(work)}
      BY <1>0, <2>4, <3>1, HeadOrTail
    <3>4. Head(work) \in Tasks
      BY <1>0, <2>4, HeadTailProperties
    <3>5. Head(work) \in Hand(w)' /\ Hand(w) = {}
      BY <1>0, <2>1, <3>2, <3>4, TasksAssumption DEF Hand
    <3> QED
      BY <2>1, <2>2, <3>2, <3>3, <3>5, WorkerMoves
  <2> QED
    BY <2>3, <2>4
<1>3. ASSUME NEW t \in Tasks, TaskStarts(w, t)
      PROVE  NoneLost'
  <2>1. /\ UNCHANGED <<work, main, sessions>> /\ task_start(t)
        /\ thr' = [thr EXCEPT ![w].pc = "queue", ![w].child = t]
        /\ thr[w].pc = "run"
    BY <1>3 DEF TaskStarts
  <2>2. Started' = Started \cup {t}
    BY <2>1, StartCounts DEF IInv
  <2>3. /\ thr'[w].task = thr[w].task /\ thr'[w].child = t
        /\ \A v \in Workers : v # w => thr'[v] = thr[v]
    BY <1>0, <2>1 DEF Thread
  <2>4. /\ Hand(w)' = Hand(w) \cup {t} /\ Started # {}
    BY <1>0, <2>1, <2>3, TasksAssumption DEF Hand
  <2> QED
    BY <2>1, <2>2, <2>3, <2>4, WorkerMoves
<1>4. CASE TaskQueues(w)
  <2>1. /\ UNCHANGED <<status, main, sessions>>
        /\ work' = Append(work, thr[w].child)
        /\ thr' = [thr EXCEPT ![w].pc = "run", ![w].child = NULL]
        /\ thr[w].pc = "queue"
    BY <1>4 DEF TaskQueues, worker_add_task
  <2>2. /\ thr'[w].task = thr[w].task /\ thr'[w].child = NULL
        /\ \A v \in Workers : v # w => thr'[v] = thr[v]
    BY <1>0, <2>1 DEF Thread
  <2>3. thr[w].child \in Tasks
    BY <1>0, <2>1 DEF Thread
  <2>4. Elems(work') = Elems(work) \cup {thr[w].child}
    BY <1>0, <2>1, <2>3, Queued
  <2>5. Hand(w) \subseteq Hand(w)' \cup {thr[w].child}
    BY <2>2 DEF Hand
  <2>6. Started' = Started
    BY <2>1 DEF Started
  <2> QED
    BY <2>1, <2>2, <2>4, <2>5, <2>6, WorkerMoves
<1>5. CASE RunAgain(w)
  <2>1. /\ UNCHANGED <<status, main, sessions>>
        /\ work' = Append(work, thr[w].task)
        /\ thr' = [thr EXCEPT ![w].pc = "loop", ![w].task = NULL]
        /\ thr[w].pc = "run"
    BY <1>5 DEF RunAgain, worker_add_task
  <2>2. \A v \in Workers : v # w => thr'[v] = thr[v]
    BY <1>0, <2>1
  <2>3. thr[w].task \in Tasks /\ Hand(w) = {thr[w].task}
    BY <1>0, <2>1 DEF Thread, Hand
  <2>4. Elems(work') = Elems(work) \cup {thr[w].task}
    BY <1>0, <2>1, <2>3, Queued
  <2>5. Started' = Started
    BY <2>1 DEF Started
  <2> QED
    BY <2>1, <2>2, <2>3, <2>4, <2>5, WorkerMoves
<1>6. CASE RunDone(w)
  <2>1. /\ UNCHANGED <<work, sessions>>
        /\ status' = [status EXCEPT ![thr[w].task] = "done"]
        /\ main' = IF task_count = 1 /\ main.pc = "waiting"
                     THEN [main EXCEPT !.pc = "woken"] ELSE main
        /\ thr' = [thr EXCEPT ![w].pc = "loop", ![w].task = NULL]
        /\ thr[w].pc = "run" /\ task_count' = task_count - 1
    BY <1>6 DEF RunDone
  <2>2. \A v \in Workers : v # w => thr'[v] = thr[v]
    BY <1>0, <2>1
  <2>3. Hand(w) = {thr[w].task} /\ thr[w].task \in Started
    BY <1>0, <2>1 DEF Hand
  <2>4. Started' = Started \ {thr[w].task}
    BY <2>1, <2>3, DoneCounts DEF IInv
  <2>5. main'.child = main.child /\ (main'.pc = "down" <=> main.pc = "down")
    BY <1>0, <2>1 DEF Main
  <2> QED
    BY <2>1, <2>2, <2>3, <2>4, <2>5, WorkerMoves
<1> QED
  BY <1>1, <1>2, <1>3, <1>4, <1>5, <1>6 DEF WorkerNext

\* In the first session no task is lost: each that is not finished is queued,
\* in the hands of a worker, or about to be queued by the main thread.
THEOREM NoTaskLost == Spec => [](IInv /\ NoneLost)
<1>1. Init => IInv /\ NoneLost
  BY InitIInv DEF Init, NoneLost, Started
<1>2. IInv /\ NoneLost /\ [Next]_taskvars => IInv' /\ NoneLost'
  <2> SUFFICES ASSUME IInv, NoneLost, [Next]_taskvars
               PROVE  IInv' /\ NoneLost'
    OBVIOUS
  <2>1. IInv'
    BY NextIInv
  <2>2. ASSUME UNCHANGED taskvars PROVE NoneLost'
    <3>1. \A w \in Workers : Hand(w)' = Hand(w)
      BY <2>2 DEF taskvars, Hand
    <3> QED
      BY <2>2, <3>1, NothingMoves DEF taskvars
  <2> QED
    BY <2>1, <2>2, MainKeeps, WorkersKeep DEF Next
<1> QED
  BY <1>1, <1>2, PTL DEF Spec

\* How many there are of what there is at most one of.
LEMMA AtMostOne ==
  ASSUME NEW S, \A x, y \in S : x = y
  PROVE  Cardinality(S) = IF S = {} THEN 0 ELSE 1
<1>1. CASE S = {}
  BY <1>1, FS_EmptySet
<1>2. ASSUME NEW x \in S PROVE Cardinality(S) = 1
  <2>1. S = {x}
    BY <1>2
  <2> QED
    BY <2>1, FS_Singleton
<1> QED
  BY <1>1, <1>2

\* A task is in as many places as hold it, and no two of them do.
LEMMA PlacesOfTask ==
  ASSUME IInv, NEW t \in Tasks
  PROVE  /\ Places(t) \in {0, 1}
         /\ Places(t) = 1 <=> t \in Held
<1> DEFINE Q == {i \in DOMAIN work : work[i] = t}
           T == {w \in Workers : thr[w].task = t}
           C == {w \in Workers : thr[w].child = t}
           M == {c \in {main.child} : c = t}
<1>1. t # NULL
  BY TasksAssumption
<1>2. /\ \A w \in Workers : t \in Hand(w) <=> w \in T \cup C
      /\ T \cap C = {}
      /\ \A v, w \in T \cup C : v = w
  BY <1>1 DEF IInv, HeldOnce, Hand
<1>3. \A i, j \in Q : i = j
  BY DEF IInv, HeldOnce, Distinct
<1>4. /\ Q # {} <=> t \in Elems(work)
      /\ M # {} <=> t = main.child
  BY DEF Elems
<1>5. /\ Q # {} => T = {} /\ C = {} /\ M = {}
      /\ M # {} => T = {} /\ C = {}
      /\ T # {} => C = {}
  BY <1>2, <1>4 DEF IInv, HeldOnce
<1>6. t \in Held <=> Q # {} \/ T # {} \/ C # {} \/ M # {}
  BY <1>2, <1>4 DEF Held
<1>7. /\ Cardinality(Q) = IF Q = {} THEN 0 ELSE 1
      /\ Cardinality(T) = IF T = {} THEN 0 ELSE 1
      /\ Cardinality(C) = IF C = {} THEN 0 ELSE 1
      /\ Cardinality(M) = IF M = {} THEN 0 ELSE 1
  <2>1. \A v, w \in T : v = w
    BY <1>2
  <2>2. \A v, w \in C : v = w
    BY <1>2
  <2>3. \A c, d \in M : c = d
    OBVIOUS
  <2> HIDE DEF Q, T, C, M
  <2> QED
    BY <1>3, <2>1, <2>2, <2>3, AtMostOne
<1>8. Places(t) = Cardinality(Q) + Cardinality(T) + Cardinality(C)
                    + Cardinality(M)
  BY DEF Places
<1> HIDE DEF Q, T, C, M
<1> QED
  BY <1>5, <1>6, <1>7, <1>8

\* No task that is not finished is in two places, to be run by two workers,
\* and in the first session, until the queue is destroyed, none is lost
\* (worker.c:47-65, task.c:57-71).
THEOREM TasksInOnePlace == Spec => []OnePlace
<1>1. ASSUME IInv, NoneLost PROVE OnePlace
  <2> SUFFICES ASSUME NEW t \in Tasks
               PROVE  /\ Places(t) <= IF t \in Started THEN 1 ELSE 0
                      /\ t \in Started /\ sessions = 1 /\ main.pc # "down"
                           => Places(t) = 1
    BY DEF OnePlace
  <2>1. t \in Held => t \in Started
    BY <1>1, TasksAssumption DEF IInv, HeldStarted, Held
  <2>2. t \in Started /\ sessions = 1 /\ main.pc # "down" => t \in Held
    BY <1>1 DEF NoneLost
  <2> QED
    BY <1>1, <2>1, <2>2, PlacesOfTask
<1> QED
  BY <1>1, NoTaskLost, PTL

-----------------------------------------------------------------------------
(* Tasks in a bounded memory *)

\* Waiting in xmalloc delays a thread and changes nothing of the tasks.
LEMMA MemStepIsTaskStep == [MemNext]_memvars => [Next]_taskvars
<1> SUFFICES ASSUME [MemNext]_memvars
             PROVE  [Next]_taskvars
  OBVIOUS
<1>1. CASE OutOf("main", MainNext)
  BY <1>1 DEF OutOf, Next
<1>2. CASE \E w \in Workers : OutOf(w, WorkerNext(w))
  BY <1>2 DEF OutOf, Next
<1>3. CASE UNCHANGED taskvars
  BY <1>3
<1>4. ASSUME NEW h, malloc(h) \/ CheckCount(h) \/ Frees(h)
      PROVE  UNCHANGED taskvars
  BY <1>4 DEF malloc, CheckCount, Frees
<1>5. CASE UNCHANGED memvars
  BY <1>3, <1>5 DEF memvars
<1>6. CASE MemNext
  BY <1>1, <1>2, <1>3, <1>4, <1>6 DEF MemNext, MemWorkerNext
<1> QED
  BY <1>5, <1>6

\* Memory implements module Tasks: an xmalloc that waits in between is a
\* stuttering step of the tasks (memory.c:8-19).
THEOREM MemoryImplementsTasks == MemSpec => Spec
<1>1. MemInit => Init
  BY DEF MemInit
<1> QED
  BY <1>1, MemStepIsTaskStep, PTL DEF MemSpec, Spec

\* A block is only taken while one is free, and given back while one is out.
LEMMA MemTypeStep ==
  ASSUME MemTypeOK, TypeOK', [MemNext]_memvars
  PROVE  MemTypeOK'
<1> USE DEF MemTypeOK
<1>1. CASE UNCHANGED memvars
  BY <1>1 DEF memvars
<1>2. CASE UNCHANGED <<free, xmalloc, exited>>
  BY <1>2
<1>3. ASSUME NEW h \in Threads, malloc(h)
      PROVE  MemTypeOK'
  <2>1. free' \in 0 .. Blocks /\ exited' = exited
    BY <1>3, MemoryAssumption DEF malloc
  <2>2. xmalloc' \in [Threads -> {"out", "null", "asleep"}]
    BY <1>3 DEF malloc
  <2> QED
    BY <2>1, <2>2
<1>4. ASSUME NEW h \in Threads, CheckCount(h)
      PROVE  MemTypeOK'
  <2>1. free' = free /\ exited' \in BOOLEAN
    BY <1>4 DEF CheckCount
  <2>2. xmalloc' \in [Threads -> {"out", "null", "asleep"}]
    BY <1>4 DEF CheckCount
  <2> QED
    BY <2>1, <2>2
<1>5. ASSUME NEW w \in Workers, Frees(w)
      PROVE  MemTypeOK'
  BY <1>5, MemoryAssumption DEF Frees
<1>6. CASE MemNext
  <2>1. CASE OutOf("main", MainNext)
    BY <2>1, <1>2 DEF OutOf
  <2>2. CASE malloc("main") \/ CheckCount("main")
    BY <2>2, <1>3, <1>4 DEF Threads
  <2>3. ASSUME NEW w \in Workers, MemWorkerNext(w)
        PROVE  MemTypeOK'
    BY <2>3, <1>2, <1>3, <1>4, <1>5 DEF MemWorkerNext, OutOf, Threads
  <2> QED
    BY <1>6, <2>1, <2>2, <2>3 DEF MemNext
<1> QED
  BY <1>1, <1>6

\* Memory never gives more blocks than it has, and the tasks keep their types
\* whatever waits for memory (memory.c:7-19, task.c:57-71).
THEOREM MemTypeCorrect == MemSpec => []MemTypeOK
<1>1. ASSUME MemInit
      PROVE  MemTypeOK
  <2>1. TypeOK
    BY <1>1, InitIInv DEF MemInit, IInv
  <2>2. free \in 0 .. Blocks
    <3>1. free = Blocks
      BY <1>1 DEF MemInit
    <3> QED
      BY <3>1, MemoryAssumption
  <2>3. xmalloc \in [Threads -> {"out", "null", "asleep"}]
    BY <1>1 DEF MemInit
  <2>4. exited \in BOOLEAN
    BY <1>1 DEF MemInit
  <2> QED
    BY <2>1, <2>2, <2>3, <2>4 DEF MemTypeOK
<1>2. MemTypeOK /\ TypeOK' /\ [MemNext]_memvars => MemTypeOK'
  BY MemTypeStep
<1>3. MemSpec => []TypeOK
  BY MemoryImplementsTasks, TasksTypeCorrect, PTL
<1> QED
  BY <1>1, <1>2, <1>3, PTL DEF MemSpec

\* A count of zero is the count of no tasks.
LEMMA NoneCounted ==
  ASSUME IInv, task_count = 0
  PROVE  Started = {}
<1>1. IsFiniteSet(Started)
  BY FS_Subset, TasksAssumption DEF Started
<1>2. Cardinality(Started) = 0
  BY DEF IInv, CountExact
<1> QED
  BY <1>1, <1>2, FS_EmptySet

\* Nothing happens after exit, and the thread that exits has read a count of
\* zero.
LEMMA ExitStep ==
  ASSUME IInv, NoTaskLeftAtExit, [MemNext]_memvars
  PROVE  NoTaskLeftAtExit'
<1>1. CASE UNCHANGED memvars
  BY <1>1 DEF memvars, taskvars, NoTaskLeftAtExit, Started
<1>2. CASE ~exited /\ exited' = exited
  BY <1>2 DEF NoTaskLeftAtExit
<1>3. ASSUME NEW h, ~exited, CheckCount(h)
      PROVE  NoTaskLeftAtExit'
  <2>1. CASE task_count = 0
    <3>1. Started = {}
      BY <2>1, NoneCounted
    <3>2. status' = status
      BY <1>3 DEF CheckCount, taskvars
    <3> QED
      BY <3>1, <3>2 DEF NoTaskLeftAtExit, Started
  <2>2. CASE task_count # 0
    BY <2>2, <1>2, <1>3 DEF CheckCount
  <2> QED
    BY <2>1, <2>2
<1>4. CASE MemNext
  <2>1. ~exited
    BY <1>4 DEF MemNext
  <2>2. CASE \E h \in Threads : CheckCount(h)
    BY <2>1, <2>2, <1>3
  <2>3. CASE OutOf("main", MainNext) \/ malloc("main")
    BY <2>1, <2>3, <1>2 DEF OutOf, malloc
  <2>4. ASSUME NEW w \in Workers, OutOf(w, WorkerNext(w)) \/ malloc(w) \/ Frees(w)
        PROVE  NoTaskLeftAtExit'
    BY <2>1, <2>4, <1>2 DEF OutOf, malloc, Frees
  <2> QED
    BY <1>4, <2>2, <2>3, <2>4 DEF MemNext, MemWorkerNext, Threads
<1> QED
  BY <1>1, <1>4

\* xmalloc ends the program only when no task that might free memory is left,
\* for every number of threads, tasks and blocks (memory.c:9).
THEOREM GivenUpWithoutTasks == MemSpec => []NoTaskLeftAtExit
<1>1. MemInit => NoTaskLeftAtExit
  BY DEF MemInit, NoTaskLeftAtExit
<1>2. IInv /\ NoTaskLeftAtExit /\ [MemNext]_memvars => NoTaskLeftAtExit'
  BY ExitStep
<1>3. MemSpec => []IInv
  BY MemoryImplementsTasks, TasksInvariant, PTL
<1> QED
  BY <1>1, <1>2, <1>3, PTL DEF MemSpec

=============================================================================
