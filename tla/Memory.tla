------------------------------- MODULE Memory -------------------------------
(***************************************************************************)
(* The tasks and threads of module Tasks in a memory of a few blocks:      *)
(* where xmalloc finds none it waits for the tasks to free some, and ends  *)
(* the program when there are no tasks (memory.c).  Which of the program's *)
(* calls allocate is left open: the main thread may at any time between    *)
(* two other calls, and so may a task while it runs, and free a block.     *)
(***************************************************************************)
EXTENDS Tasks

CONSTANT Blocks   \* the memory that malloc has to give

ASSUME MemoryAssumption == Blocks \in Nat /\ "main" \notin Workers

VARIABLES
  free,      \* blocks that malloc can return
  xmalloc,   \* xmalloc[h]: what thread h does in xmalloc, "out" if it is not there
  exited     \* exit(-1) has been called

memvars == <<taskvars, free, xmalloc, exited>>

Threads == Workers \cup {"main"}

MemTypeOK ==
  /\ TypeOK
  /\ free \in 0 .. Blocks
  /\ xmalloc \in [Threads -> {"out", "null", "asleep"}]
  /\ exited \in BOOLEAN

MemInit ==
  /\ Init
  /\ free = Blocks
  /\ xmalloc = [h \in Threads |-> "out"]
  /\ exited = FALSE

\* A thread that may call xmalloc next.
MayCall(h) ==
  /\ xmalloc[h] = "out"
  /\ IF h = "main" THEN main.pc = "up" ELSE thr[h].pc = "run"

\* malloc, when xmalloc is called and after each sleep.
malloc(h) ==
  /\ MayCall(h) \/ xmalloc[h] = "asleep"
  /\ IF free > 0
     THEN free' = free - 1 /\ xmalloc' = [xmalloc EXCEPT ![h] = "out"]
     ELSE xmalloc' = [xmalloc EXCEPT ![h] = "null"] /\ UNCHANGED free
  /\ UNCHANGED <<taskvars, exited>>

\* Mutant: xmalloc does not give up once it has waited.
CheckCountOnce(h) ==
  /\ xmalloc[h] = "null"
  /\ xmalloc' = [xmalloc EXCEPT ![h] = "asleep"]
  /\ exited' = exited
  /\ UNCHANGED <<taskvars, free>>

\* Mutant: what tells that nothing will be freed is an empty queue.
CheckQueue(h) ==
  /\ xmalloc[h] = "null"
  /\ IF work = <<>>
     THEN exited' = TRUE /\ UNCHANGED xmalloc
     ELSE xmalloc' = [xmalloc EXCEPT ![h] = "asleep"] /\ UNCHANGED exited
  /\ UNCHANGED <<taskvars, free>>

\* The loop of xmalloc, after malloc returned null.
CheckCount(h) ==
  /\ xmalloc[h] = "null"
  /\ IF task_count = 0
     THEN exited' = TRUE /\ UNCHANGED xmalloc
     ELSE xmalloc' = [xmalloc EXCEPT ![h] = "asleep"] /\ UNCHANGED exited
  /\ UNCHANGED <<taskvars, free>>

\* A task frees what it collects.
Frees(w) ==
  /\ thr[w].pc = "run" /\ xmalloc[w] = "out"
  /\ free < Blocks
  /\ free' = free + 1
  /\ UNCHANGED <<taskvars, xmalloc, exited>>

OutOf(h, A) == xmalloc[h] = "out" /\ A /\ UNCHANGED <<free, xmalloc, exited>>

MemWorkerNext(w) ==
  OutOf(w, WorkerNext(w)) \/ malloc(w) \/ CheckCount(w) \/ Frees(w)

MemNext ==
  /\ ~exited
  /\ \/ OutOf("main", MainNext) \/ malloc("main") \/ CheckCount("main")
     \/ \E w \in Workers : MemWorkerNext(w)

\* The fairness of module Tasks, and of threads in xmalloc: 10 ms pass.
MemFairness ==
  /\ WF_memvars(OutOf("main", MainStops))
  /\ \A h \in Threads : WF_memvars(~exited /\ xmalloc[h] # "out" /\ (malloc(h) \/ CheckCount(h)))
  /\ \A w \in Workers :
       /\ WF_memvars(~exited /\ OutOf(w, WorkerNext(w)))
       /\ SF_memvars(~exited /\ OutOf(w, RunDone(w)))

MemSpec == MemInit /\ [][MemNext]_memvars /\ MemFairness

-----------------------------------------------------------------------------

\* The program is given up for lack of memory only when no task is left that
\* might free some, one that a thread has counted and not queued included
\* (memory.c:9, task.c:34-38).
NoTaskLeftAtExit == exited => Started = {}

\* A task waits in xmalloc.
TaskWaits == \E w \in Workers : xmalloc[w] # "out"

\* In the first session the program's wait for memory ends, with a block or with
\* exit, once the tasks are complete: only a task that waits for memory itself,
\* and is counted as long as it does, makes it last for ever (memory.c:8-19).
ProgramWaitEnds ==
  sessions = 1 /\ xmalloc["main"] # "out"
    ~> (xmalloc["main"] = "out" \/ exited \/ []TaskWaits)

\* The first acid_stop returns: it does not miss the broadcast, and no worker
\* keeps it from joining the others (task.c:57-71, worker.c:30-34), unless the
\* program is given up or a task waits for memory for ever.
StopReturnsOrWaits ==
  sessions = 1 /\ main.then = "teardown"
      /\ main.pc \in {"waiting", "woken", "teardown"}
    ~> (main.pc = "down" \/ exited \/ []TaskWaits)
=============================================================================
