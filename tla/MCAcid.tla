------------------------------- MODULE MCAcid -------------------------------
(***************************************************************************)
(* Acid driven by one of a few fixed mutator programs, most of them those  *)
(* of examples/main.c and README.md at a small size.  The workers          *)
(* interleave with the program freely.                                     *)
(***************************************************************************)
EXTENDS Acid

CONSTANTS
  A, B, C, D, \* the objects a program allocates
  X, Y,       \* their fields
  Programs,   \* names of the programs to run with any number of workers
  Alone       \* and of those to run with one worker

VARIABLES
  active,     \* the workers that acid_start brings up
  program,    \* the program chosen, as a sequence of operations
  at          \* index in it of the mutator's next operation

mcvars == <<vars, active, program, at>>

malloc(o)          == [fn |-> "malloc", o |-> o]
harden(o)          == [fn |-> "harden", o |-> o]
dissolve(o)        == [fn |-> "dissolve", o |-> o]
assign(from, o)    == [fn |-> "set", from |-> from, o |-> o]
set_field(o, f, t) == [fn |-> "set_field", o |-> o, f |-> f, t |-> t]
clear(o, f)        == [fn |-> "clear", o |-> o, f |-> f]

Source == [
  \* examples/main.c:20
  simplecycle |->
    <<malloc(A), malloc(B), set_field(A, X, B), set_field(B, X, A),
      set_field(A, Y, A), dissolve(B), dissolve(A)>>,
  \* examples/main.c:29
  simplecycle2 |->
    <<malloc(A), malloc(B), set_field(A, X, B), set_field(B, X, A),
      dissolve(B), clear(A, Y), dissolve(A)>>,
  \* examples/main.c:46, a wheel of three
  wheel |->
    <<malloc(A), assign(NULL, A),
      malloc(B), set_field(A, X, B), assign(A, B), dissolve(B),
      malloc(C), set_field(B, X, C), assign(B, C), set_field(C, X, A),
      dissolve(C), dissolve(C), dissolve(A)>>,
  \* examples/main.c:65, chains of two and one
  multi_collect |->
    <<malloc(A), assign(NULL, A), malloc(B), set_field(A, X, B),
      assign(A, B), dissolve(B), malloc(C), assign(NULL, C),
      set_field(B, X, C), set_field(B, Y, A), dissolve(A), dissolve(C),
      dissolve(C), dissolve(B)>>,
  \* examples/main.c:104, three vertices
  clique |->
    <<malloc(A), malloc(B), malloc(C),
      set_field(A, X, B), set_field(A, Y, C), set_field(B, X, A),
      set_field(B, Y, C), set_field(C, X, A), set_field(C, Y, B),
      dissolve(C), dissolve(B), dissolve(A)>>,
  \* examples/main.c:281 and 298, a doubly linked list of three, walked back
  doubly_linked_list |->
    <<malloc(A), malloc(B), set_field(A, X, B), set_field(B, Y, A),
      malloc(C), set_field(B, X, C), set_field(C, Y, B),
      dissolve(B), dissolve(A), assign(C, B), assign(B, A), dissolve(A)>>,
  \* examples/main.c:309, a list of three
  slist_create |->
    <<malloc(A), malloc(B), set_field(A, X, B), dissolve(B),
      malloc(C), set_field(B, X, C), dissolve(C), dissolve(A)>>,
  \* README.md:123 and README.md:98: the program keeps a hardened reference
  \* into a cycle that loses its other one
  harden |->
    <<malloc(A), malloc(B), set_field(B, Y, A), set_field(A, X, B),
      harden(A), dissolve(B), dissolve(A)>>,
  \* a field redirected, then cleared, while the program holds its object
  redirect |->
    <<malloc(A), malloc(B), malloc(C), set_field(A, X, B), dissolve(B),
      set_field(A, X, C), dissolve(C), clear(A, X), dissolve(A)>>,
  \* a cycle entered from outside loses a variable and is kept by the weak
  \* link of another object
  weakly_held |->
    <<malloc(A), malloc(B), malloc(C), set_field(A, X, B), set_field(C, Y, A),
      dissolve(B), dissolve(A)>>,
  \* the same, and the program clears a field of the object that recovers
  cleared |->
    <<malloc(A), malloc(B), malloc(C), set_field(A, X, B), set_field(C, Y, A),
      dissolve(A), clear(A, X), dissolve(B)>>,
  \* C keeps A and, by A, B, which has a field of its own, when the variables
  \* of B and A are dropped
  kept |->
    <<malloc(A), malloc(B), malloc(C), set_field(A, X, B), set_field(B, X, C),
      set_field(C, Y, A), dissolve(B), dissolve(A)>>,
  \* A keeps B and D, B keeps C; B, D and C lose their variables, in this order,
  \* and get a collector each.  The first merges with C's as it finds the link
  \* to C; the program links B to D while D's is at work
  merged |->
    <<malloc(A), malloc(B), malloc(C), malloc(D), set_field(C, X, C),
      set_field(B, X, C), set_field(D, X, D), set_field(A, X, B),
      set_field(A, Y, D), dissolve(B), dissolve(D), dissolve(C),
      set_field(B, Y, D)>>]

\* acid_set_field when the field already holds what it is given.
NothingToDo(op) ==
  LET l == heap.obj[op.o].links[op.f]
  IN  \/ op.fn = "clear" /\ l = NULL
      \/ op.fn = "set_field" /\ l # NULL /\ heap.link[l].target = op.t

Do(op) ==
  \/ op.fn = "malloc" /\ acid_malloc(op.o)
  \/ op.fn = "harden" /\ acid_harden(op.o)
  \/ op.fn = "dissolve" /\ acid_dissolve(op.o)
  \/ op.fn = "set" /\ acid_set(op.from, op.o)
  \/ op.fn = "set_field" /\ object_set(op.o, op.f, op.t)
  \/ op.fn = "clear" /\ object_set_null(op.o, op.f)
  \/ NothingToDo(op) /\ old = NULL /\ UNCHANGED vars

Finished == at > Len(program) /\ old = NULL

MCInit ==
  /\ Init
  /\ active \in (SUBSET Workers) \ {{}}
  /\ program \in {Source[name] : name \in Programs}
                \cup {Source[name] : name \in Alone}
  /\ \/ \E name \in Programs : program = Source[name]
     \/ Cardinality(active) = 1
  /\ at = 1

Operation ==
  /\ Running
  /\ at <= Len(program)
  /\ Do(program[at])
  /\ at' = at + 1
  /\ UNCHANGED <<active, program>>

Cleanup == Running /\ object_set_cleanup /\ UNCHANGED <<active, program, at>>

Work(w) ==
  w \in active /\ Running /\ WorkerNext(w) /\ UNCHANGED <<active, program, at>>

\* The program is over and every worker polls an empty queue, or an assertion
\* has failed.
Ended == ((Finished /\ Quiet) \/ ~Running) /\ UNCHANGED mcvars

MCNext == Operation \/ Cleanup \/ (\E w \in Workers : Work(w)) \/ Ended

MCSpec == MCInit /\ [][MCNext]_mcvars

-----------------------------------------------------------------------------
(* Fairness and liveness *)

\* Where worker w can take a step.
Ready(w) ==
  /\ w \in active
  /\ \/ thr[w].pc \notin {"idle", "await"}
     \/ At(w, "idle") /\ heap.work # <<>>
     \/ At(w, "await") /\ ~BeingPhantomized(heap, thr[w].obj)

\* Weak fairness of each thread, its enabling condition written out: the
\* system schedules every thread, and none blocks outside a locked section.
Fairness ==
  /\ []<>Finished \/ []<><<Operation \/ Cleanup>>_mcvars
  /\ \A w \in Workers : []<>~Ready(w) \/ []<><<Work(w)>>_mcvars

MCFair == MCSpec /\ Fairness

\* Once the program is over, every object it cannot reach is freed, what it
\* can reach is not, and the tasks come to an end, which is what acid_stop
\* waits for (README.md:35, task.c:49).
AllCollected ==
  <>[](/\ Quiet
       /\ \A o \in Objects : heap.obj[o].state = "live" => o \in Accessible)
=============================================================================
