---------------------------- MODULE PthreadLocks ----------------------------
(***************************************************************************)
(* The lock comparison of src/linux/pthread_locks.c, built with the mutex  *)
(* or the spinlock: threads double the elements of a[], taking turns at    *)
(* the shared index iter, which they test for the end of the array without *)
(* the lock.  A step is one access to shared memory.                       *)
(***************************************************************************)
EXTENDS Integers, FiniteSets

CONSTANTS
  Thread,   \* consumers: the program creates two
  NoOne,    \* owner of a free lock
  LOOPS     \* elements of a[]

ASSUME ConstantsAssumption ==
  /\ IsFiniteSet(Thread) /\ Thread # {} /\ NoOne \notin Thread
  /\ LOOPS \in Nat \ {0}

N == Cardinality(Thread)
Slot == 0 .. LOOPS + N - 1     \* a[] and the memory behind it

VARIABLES
  pc,       \* where each thread is
  owner,    \* external: the thread that holds the mutex or spinlock
  iter,     \* the shared index
  loaded,   \* per thread: iter as loaded by iter++
  doubled,  \* how often each slot has been doubled
  main      \* "run" until both joins are done, then "end"

vars == <<pc, owner, iter, loaded, doubled, main>>

Init ==
  /\ pc = [t \in Thread |-> "none"]
  /\ owner = NoOne
  /\ iter = 0
  /\ loaded = [t \in Thread |-> 0]
  /\ doubled = [i \in Slot |-> 0]
  /\ main = "run"

Goto(t, from, to) == pc[t] = from /\ pc' = [pc EXCEPT ![t] = to]

(* Plausible bugs: each stands for one definition below in a mutation run. *)
LockUnguarded(t) ==
  /\ Goto(t, "lock", "double")
  /\ owner' = t
  /\ UNCHANGED <<iter, loaded, doubled, main>>
UnlockUnlessLast(t) ==
  /\ Goto(t, "unlock", "check")
  /\ owner' = IF iter >= LOOPS THEN owner ELSE NoOne
  /\ UNCHANGED <<iter, loaded, doubled, main>>
CheckOneLate(t) ==
  /\ \/ iter > LOOPS /\ Goto(t, "check", "done")
     \/ iter <= LOOPS /\ Goto(t, "check", "lock")
  /\ UNCHANGED <<owner, iter, loaded, doubled, main>>
CheckOneEarly(t) ==
  /\ \/ iter >= LOOPS - 1 /\ Goto(t, "check", "done")
     \/ iter < LOOPS - 1 /\ Goto(t, "check", "lock")
  /\ UNCHANGED <<owner, iter, loaded, doubled, main>>

(* pthread_create by main.                                                 *)
Create(t) ==
  /\ Goto(t, "none", "lock")
  /\ UNCHANGED <<owner, iter, loaded, doubled, main>>

(* The loop of consumer().                                                 *)
Lock(t) ==
  /\ owner = NoOne
  /\ Goto(t, "lock", "double")
  /\ owner' = t
  /\ UNCHANGED <<iter, loaded, doubled, main>>

Double(t) ==                               \* a[iter] = a[iter]*2
  /\ Goto(t, "double", "load")
  /\ doubled' = [doubled EXCEPT ![iter] = @ + 1]
  /\ UNCHANGED <<owner, iter, loaded, main>>

Load(t) ==                                 \* iter++
  /\ Goto(t, "load", "store")
  /\ loaded' = [loaded EXCEPT ![t] = iter]
  /\ UNCHANGED <<owner, iter, doubled, main>>
Store(t) ==
  /\ Goto(t, "store", "unlock")
  /\ iter' = loaded[t] + 1
  /\ UNCHANGED <<owner, loaded, doubled, main>>

Unlock(t) ==
  /\ Goto(t, "unlock", "check")
  /\ owner' = NoOne
  /\ UNCHANGED <<iter, loaded, doubled, main>>

Check(t) ==                                \* if (iter >= LOOPS) break
  /\ \/ iter >= LOOPS /\ Goto(t, "check", "done")
     \/ iter < LOOPS /\ Goto(t, "check", "lock")
  /\ UNCHANGED <<owner, iter, loaded, doubled, main>>

(* main joins every thread and prints the time.                            *)
Join ==
  /\ main = "run" /\ \A t \in Thread : pc[t] = "done"
  /\ main' = "end"
  /\ UNCHANGED <<pc, owner, iter, loaded, doubled>>

Step(t) ==
  Create(t) \/ Lock(t) \/ Double(t) \/ Load(t) \/ Store(t) \/ Unlock(t) \/ Check(t)
Next == Join \/ \E t \in Thread : Step(t)

(* Every thread is scheduled; neither lock promises who gets it next.      *)
Spec == Init /\ [][Next]_vars /\ WF_vars(Join) /\ \A t \in Thread : WF_vars(Step(t))

-----------------------------------------------------------------------------
PC == {"none", "lock", "double", "load", "store", "unlock", "check", "done"}

(* Types of the shared memory and of the threads' registers.               *)
TypeOK ==
  /\ pc \in [Thread -> PC]
  /\ owner \in Thread \cup {NoOne}
  /\ iter \in Slot
  /\ loaded \in [Thread -> Slot]
  /\ doubled \in [Slot -> Nat]
  /\ main \in {"run", "end"}

(* The unlocked test lets every other thread go once more past the end,    *)
(* and no more: iter overruns a[] by less than the number of threads.      *)
Inside == {t \in Thread : pc[t] \in {"none", "lock", "double", "load", "store"}}
OverrunBounded == iter + Cardinality(Inside) <= LOOPS + N - 1

(* No update is lost or done twice: slots below iter are doubled exactly   *)
(* once, slots above it never, that at iter once iff its holder got there. *)
Behind == \E t \in Thread : pc[t] \in {"load", "store"}
EachDoubledOnce ==
  \A i \in Slot :
    doubled[i] = IF i < iter \/ (i = iter /\ Behind) THEN 1 ELSE 0

(* When main has joined both threads and prints the elapsed time, the work  *)
(* that time measures is whole: every element of a[] has been doubled once.  *)
ResultComplete == main = "end" => iter >= LOOPS /\ \A i \in 0 .. LOOPS - 1 : doubled[i] = 1

(* a[] has LOOPS elements: no thread is about to double one behind it.     *)
IndexInBounds == \A t \in Thread : pc[t] = "double" => iter < LOOPS

(* The three accesses of an iteration are one to an observer, and the      *)
(* program does what a sequential loop over a[] would, at most N-1         *)
(* elements too far: it implements AtomicDoubling.                         *)
Atomic == INSTANCE AtomicDoubling WITH
  count <- IF Behind THEN iter + 1 ELSE iter,
  ended <- main = "end",
  Extra <- N - 1
ImplementsAtomicDoubling == Atomic!Spec

(* The program ends, however unfair the lock is to one thread.             *)
Termination == <>(main = "end")
=============================================================================
