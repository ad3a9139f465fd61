------------------------- MODULE PthreadLocksProofs -------------------------
(* Safety of PthreadLocks, for every number of threads and size of a[].    *)
EXTENDS PthreadLocks, FiniteSetTheorems, TLAPS

Holding == {"double", "load", "store", "unlock"}

(* Where the threads are, the lock and the index fit together.             *)
LockHeldInside == \A t \in Thread : pc[t] \in Holding <=> owner = t
LoadedIsFresh == \A t \in Thread : pc[t] = "store" => loaded[t] = iter
DoneIsPastEnd == \A t \in Thread : pc[t] = "done" => iter >= LOOPS
EndIsAllDone == main = "end" => \A t \in Thread : pc[t] = "done"

IInv ==
  /\ TypeOK
  /\ LockHeldInside
  /\ LoadedIsFresh
  /\ DoneIsPastEnd
  /\ EndIsAllDone
  /\ OverrunBounded
  /\ EachDoubledOnce

-----------------------------------------------------------------------------
(* The number of threads is a positive natural, that of those inside at    *)
(* most as large.                                                          *)
LEMMA Counts ==
  ASSUME NEW S, S \subseteq Thread
  PROVE  /\ IsFiniteSet(S) /\ Cardinality(S) \in Nat
         /\ N \in Nat \ {0} /\ Cardinality(S) <= N
<1>1. IsFiniteSet(Thread) /\ Thread # {}
  BY ConstantsAssumption
<1>2. IsFiniteSet(S) /\ Cardinality(S) <= Cardinality(Thread)
  BY <1>1, FS_Subset
<1>3. Cardinality(S) \in Nat /\ Cardinality(Thread) \in Nat
  BY <1>1, <1>2, FS_CardinalityType
<1>4. Cardinality(Thread) # 0
  BY <1>1, FS_EmptySet
<1> QED
  BY <1>2, <1>3, <1>4 DEF N

(* A thread that leaves Inside makes it one smaller.                       *)
LEMMA Leave ==
  ASSUME NEW S, S \subseteq Thread, NEW t \in S
  PROVE  Cardinality(S \ {t}) = Cardinality(S) - 1
BY Counts, FS_RemoveElement

(* The initial state satisfies the invariant.                              *)
LEMMA InitIInv == Init => IInv
<1> SUFFICES ASSUME Init PROVE IInv
  OBVIOUS
<1> USE ConstantsAssumption DEF Init
<1>1. Inside \subseteq Thread
  BY DEF Inside
<1>2. Cardinality(Inside) \in Nat /\ N \in Nat \ {0} /\ Cardinality(Inside) <= N
  BY <1>1, Counts
<1>3. 0 \in Slot
  BY <1>2 DEF Slot
<1>4. TypeOK
  BY <1>3 DEF TypeOK, PC
<1>5. OverrunBounded
  BY <1>2 DEF OverrunBounded
<1>6. EachDoubledOnce
  BY <1>2 DEF EachDoubledOnce, Behind, Slot
<1>7. LockHeldInside /\ LoadedIsFresh /\ DoneIsPastEnd /\ EndIsAllDone
  BY DEF LockHeldInside, Holding, LoadedIsFresh, DoneIsPastEnd, EndIsAllDone
<1> QED
  BY <1>4, <1>5, <1>6, <1>7 DEF IInv

(* A step of thread t that leaves Inside and the index alone.              *)
LEMMA SameInside ==
  ASSUME OverrunBounded, iter' = iter, Inside' = Inside
  PROVE  OverrunBounded'
BY DEF OverrunBounded

(* A loop that goes on is counted as inside again: it saw iter < LOOPS.    *)
LEMMA CheckBounded ==
  ASSUME IInv, NEW t \in Thread, Check(t)
  PROVE  OverrunBounded'
<1>1. iter' = iter /\ iter \in Nat /\ LOOPS \in Nat
  <2>1. N \in Nat
    BY Counts
  <2> QED
    BY <2>1, ConstantsAssumption DEF Check, IInv, TypeOK, Slot
<1>2. CASE iter >= LOOPS
  <2>1. Inside' = Inside
    BY <1>1, <1>2 DEF Check, Goto, Inside, IInv, TypeOK
  <2> QED
    BY <1>1, <2>1, SameInside DEF IInv
<1>3. CASE iter < LOOPS
  <2>1. Inside' \subseteq Thread
    BY DEF Inside
  <2>2. Cardinality(Inside') <= N /\ Cardinality(Inside') \in Nat /\ N \in Nat
    BY <2>1, Counts
  <2> QED
    BY <1>1, <1>3, <2>2 DEF OverrunBounded
<1> QED
  BY <1>1, <1>2, <1>3

(* Storing the index moves the thread from the inside to the index.        *)
LEMMA StoreBounded ==
  ASSUME IInv, NEW t \in Thread, Store(t)
  PROVE  /\ OverrunBounded'
         /\ iter' = iter + 1
         /\ iter' \in Slot
<1>1. iter' = iter + 1
  BY DEF Store, Goto, IInv, LoadedIsFresh
<1>2. Inside \subseteq Thread /\ t \in Inside /\ Inside' = Inside \ {t}
  BY DEF Store, Goto, Inside, IInv, TypeOK
<1>3. Cardinality(Inside') = Cardinality(Inside) - 1
  BY <1>2, Leave
<1>4. Cardinality(Inside) \in Nat /\ Cardinality(Inside') \in Nat /\ N \in Nat
  BY <1>2, Counts
<1>5. iter \in Nat /\ LOOPS \in Nat
  BY <1>4, ConstantsAssumption DEF IInv, TypeOK, Slot
<1>6. iter + Cardinality(Inside) <= LOOPS + N - 1
  BY DEF IInv, OverrunBounded
<1>7. iter' + Cardinality(Inside') <= LOOPS + N - 1
  BY <1>1, <1>3, <1>4, <1>5, <1>6
<1> QED
  BY <1>1, <1>4, <1>5, <1>7 DEF OverrunBounded, Slot

(* One step of one thread preserves the invariant.                         *)
LEMMA StepIInv ==
  ASSUME IInv, NEW t \in Thread, Step(t)
  PROVE  IInv'
<1> USE DEF Goto
<1>0. N \in Nat \ {0} /\ LOOPS \in Nat \ {0}
  BY Counts, ConstantsAssumption
<1>1. iter \in Slot /\ iter \in Nat
  BY <1>0 DEF IInv, TypeOK, Slot
<1>2. OverrunBounded'
  <2>1. CASE Store(t)
    BY <2>1, StoreBounded
  <2>2. CASE Check(t)
    BY <2>2, CheckBounded
  <2>3. CASE Create(t) \/ Lock(t) \/ Double(t) \/ Load(t) \/ Unlock(t)
    <3>1. iter' = iter /\ Inside' = Inside
      BY <2>3 DEF Create, Lock, Double, Load, Unlock, Inside, IInv, TypeOK
    <3> QED
      BY <3>1, SameInside DEF IInv
  <2> QED
    BY <2>1, <2>2, <2>3 DEF Step
<1>3. TypeOK'
  <2>1. iter' \in Slot
    BY <1>1, StoreBounded DEF Step, Create, Lock, Double, Load, Unlock, Check
  <2>2. loaded' \in [Thread -> Slot]
    BY <1>1 DEF Step, Create, Lock, Double, Load, Store, Unlock, Check, IInv, TypeOK
  <2>3. doubled' \in [Slot -> Nat]
    BY <1>1 DEF Step, Create, Lock, Double, Load, Store, Unlock, Check, IInv, TypeOK
  <2>4. pc' \in [Thread -> PC]
    BY DEF Step, Create, Lock, Double, Load, Store, Unlock, Check, IInv, TypeOK, PC
  <2>5. owner' \in Thread \cup {NoOne} /\ main' \in {"run", "end"}
    BY DEF Step, Create, Lock, Double, Load, Store, Unlock, Check, IInv, TypeOK
  <2> QED
    BY <2>1, <2>2, <2>3, <2>4, <2>5 DEF TypeOK
<1>4. LockHeldInside'
  BY ConstantsAssumption
     DEF Step, Create, Lock, Double, Load, Store, Unlock, Check, IInv, TypeOK,
         LockHeldInside, Holding
<1>5. iter' >= iter
  BY <1>1, StoreBounded DEF Step, Create, Lock, Double, Load, Unlock, Check
<1>6. LoadedIsFresh'
  <2>1. CASE Store(t)
    BY <2>1 DEF Store, IInv, TypeOK, LockHeldInside, Holding, LoadedIsFresh
  <2>2. CASE ~Store(t)
    BY <2>2 DEF Step, Create, Lock, Double, Load, Unlock, Check, IInv, TypeOK,
         LoadedIsFresh
  <2> QED
    BY <2>1, <2>2
<1>7. DoneIsPastEnd'
  <2>1. iter' \in Nat
    BY <1>3, <1>0 DEF TypeOK, Slot
  <2>2. \A s \in Thread : pc'[s] = "done" => pc[s] = "done" \/ iter >= LOOPS
    BY DEF Step, Create, Lock, Double, Load, Store, Unlock, Check, IInv, TypeOK
  <2> QED
    BY <1>0, <1>1, <1>5, <2>1, <2>2 DEF IInv, DoneIsPastEnd
<1>8. EndIsAllDone'
  BY DEF Step, Create, Lock, Double, Load, Store, Unlock, Check, IInv, TypeOK,
         EndIsAllDone
<1>9. EachDoubledOnce'
  <2>1. CASE Double(t)
    <3>1. \A s \in Thread : pc[s] \notin {"load", "store"}
      BY <2>1 DEF Double, IInv, LockHeldInside, Holding
    <3>2. pc'[t] = "load" /\ iter' = iter
      BY <2>1 DEF Double, IInv, TypeOK
    <3>3. \A i \in Slot : doubled'[i] = IF i = iter THEN doubled[i] + 1 ELSE doubled[i]
      BY <2>1 DEF Double, IInv, TypeOK
    <3> QED
      BY <1>0, <1>1, <3>1, <3>2, <3>3 DEF IInv, EachDoubledOnce, Behind, Slot
  <2>2. CASE Store(t)
    <3>1. pc[t] = "store" /\ doubled' = doubled
      BY <2>2 DEF Store
    <3>2. \A s \in Thread : pc'[s] \notin {"load", "store"}
      BY <2>2 DEF Store, IInv, TypeOK, LockHeldInside, Holding
    <3>3. iter' = iter + 1
      BY <2>2, StoreBounded
    <3> QED
      BY <1>0, <1>1, <3>1, <3>2, <3>3 DEF IInv, EachDoubledOnce, Behind, Slot
  <2>3. CASE Create(t) \/ Lock(t) \/ Load(t) \/ Unlock(t) \/ Check(t)
    <3>1. iter' = iter /\ doubled' = doubled
      BY <2>3 DEF Create, Lock, Load, Unlock, Check
    <3>2. \A s \in Thread : pc'[s] \in {"load", "store"} <=> pc[s] \in {"load", "store"}
      BY <2>3 DEF Create, Lock, Load, Unlock, Check, IInv, TypeOK
    <3> QED
      BY <3>1, <3>2 DEF IInv, EachDoubledOnce, Behind
  <2> QED
    BY <2>1, <2>2, <2>3 DEF Step
<1> QED
  BY <1>2, <1>3, <1>4, <1>6, <1>7, <1>8, <1>9 DEF IInv

(* Every step preserves the invariant.                                     *)
LEMMA NextIInv == IInv /\ [Next]_vars => IInv'
<1> SUFFICES ASSUME IInv, [Next]_vars PROVE IInv'
  OBVIOUS
<1>1. CASE UNCHANGED vars
  BY <1>1 DEF vars, IInv, TypeOK, LockHeldInside, LoadedIsFresh, DoneIsPastEnd,
     EndIsAllDone, OverrunBounded, Inside, EachDoubledOnce, Behind
<1>2. CASE Join
  BY <1>2 DEF Join, IInv, TypeOK, LockHeldInside, LoadedIsFresh, DoneIsPastEnd,
     EndIsAllDone, OverrunBounded, Inside, EachDoubledOnce, Behind
<1>3. CASE \E t \in Thread : Step(t)
  BY <1>3, StepIInv
<1> QED
  BY <1>1, <1>2, <1>3 DEF Next

(* The lock makes the three accesses of an iteration one: the invariant    *)
(* the other theorems follow from.                                         *)
THEOREM Invariant == Spec => []IInv
BY InitIInv, NextIInv, PTL DEF Spec

(* Types of the threads and of the shared memory, for every number of      *)
(* threads.                                                                *)
THEOREM TypeCorrect == Spec => []TypeOK
<1>1. IInv => TypeOK
  BY DEF IInv
<1> QED
  BY Invariant, <1>1, PTL

(* However many threads test iter outside the lock, together they overrun  *)
(* a[] by fewer elements than there are threads.                           *)
THEOREM OverrunIsBounded == Spec => []OverrunBounded
<1>1. IInv => OverrunBounded
  BY DEF IInv
<1> QED
  BY Invariant, <1>1, PTL

(* No doubling is lost or repeated.                                        *)
THEOREM NoUpdateLost == Spec => []EachDoubledOnce
<1>1. IInv => EachDoubledOnce
  BY DEF IInv
<1> QED
  BY Invariant, <1>1, PTL

(* The elapsed time main prints is that of a whole array doubled once.     *)
THEOREM ResultIsComplete == Spec => []ResultComplete
<1>1. IInv => ResultComplete
  <2> SUFFICES ASSUME IInv, main = "end"
               PROVE  iter >= LOOPS /\ \A i \in 0 .. LOOPS - 1 : doubled[i] = 1
    BY DEF ResultComplete
  <2>1. N \in Nat \ {0} /\ LOOPS \in Nat \ {0}
    BY Counts, ConstantsAssumption
  <2>2. iter >= LOOPS /\ iter \in Nat
    BY <2>1, ConstantsAssumption
       DEF IInv, EndIsAllDone, DoneIsPastEnd, TypeOK, Slot
  <2>3. \A i \in 0 .. LOOPS - 1 : i \in Slot /\ i < iter
    BY <2>1, <2>2 DEF Slot
  <2> QED
    BY <2>2, <2>3 DEF IInv, EachDoubledOnce
<1> QED
  BY Invariant, <1>1, PTL

-----------------------------------------------------------------------------
(* The initial state is one of the sequential loop.                        *)
LEMMA InitAtomic == Init => Atomic!Init
<1> SUFFICES ASSUME Init PROVE Atomic!Init
  OBVIOUS
<1>1. N \in Nat \ {0} /\ LOOPS \in Nat \ {0}
  BY Counts, ConstantsAssumption
<1>2. 0 .. LOOPS + (N - 1) = Slot
  BY <1>1 DEF Slot
<1>3. ~Behind
  BY DEF Init, Behind
<1> QED
  BY <1>2, <1>3 DEF Init, Atomic!Init

(* A step of a thread is the doubling of the next element or invisible.    *)
LEMMA StepAtomic ==
  ASSUME IInv, NEW t \in Thread, Step(t)
  PROVE  \/ Atomic!DoubleNext
         \/ /\ doubled' = doubled /\ main' = main
            /\ (IF Behind THEN iter + 1 ELSE iter)' = IF Behind THEN iter + 1 ELSE iter
<1> USE DEF Goto
<1>1. main' = main
  BY DEF Step, Create, Lock, Double, Load, Store, Unlock, Check
<1>2. CASE Double(t)
  <2>1. pc[t] = "double" /\ pc' = [pc EXCEPT ![t] = "load"] /\ iter' = iter
    BY <1>2 DEF Double
  <2>2. ~Behind
    BY <2>1 DEF IInv, LockHeldInside, Holding, Behind
  <2>3. Behind'
    BY <2>1 DEF IInv, TypeOK, Behind
  <2>4. main # "end"
    BY <2>1 DEF IInv, EndIsAllDone
  <2>5. iter < LOOPS + (N - 1)
    <3>1. Inside \subseteq Thread /\ t \in Inside
      BY <2>1 DEF Inside
    <3>2. Cardinality(Inside) \in Nat /\ Cardinality(Inside \ {t}) \in Nat
      BY <3>1, Counts
    <3>3. Cardinality(Inside) >= 1
      BY <3>1, <3>2, Leave
    <3>4. N \in Nat /\ LOOPS \in Nat /\ iter \in Int
      BY <3>1, Counts, ConstantsAssumption DEF IInv, TypeOK, Slot
    <3> QED
      BY <3>2, <3>3, <3>4 DEF IInv, OverrunBounded
  <2>6. doubled' = [doubled EXCEPT ![iter] = @ + 1]
    BY <1>2 DEF Double
  <2> QED
    BY <1>1, <2>1, <2>2, <2>3, <2>4, <2>5, <2>6 DEF Atomic!DoubleNext
<1>3. CASE Store(t)
  <2>1. pc[t] = "store" /\ pc' = [pc EXCEPT ![t] = "unlock"] /\ doubled' = doubled
    BY <1>3 DEF Store
  <2>2. Behind /\ ~Behind'
    BY <2>1 DEF IInv, TypeOK, LockHeldInside, Holding, Behind
  <2>3. iter' = iter + 1
    BY <1>3, StoreBounded
  <2> QED
    BY <1>1, <2>1, <2>2, <2>3
<1>4. CASE Create(t) \/ Lock(t) \/ Load(t) \/ Unlock(t) \/ Check(t)
  <2>1. iter' = iter /\ doubled' = doubled
    BY <1>4 DEF Create, Lock, Load, Unlock, Check
  <2>2. \A s \in Thread : pc'[s] \in {"load", "store"} <=> pc[s] \in {"load", "store"}
    BY <1>4 DEF Create, Lock, Load, Unlock, Check, IInv, TypeOK
  <2>3. Behind' <=> Behind
    BY <2>2 DEF Behind
  <2> QED
    BY <1>1, <2>1, <2>3
<1> QED
  BY <1>2, <1>3, <1>4 DEF Step

(* The end of main is the end of the sequential loop.                      *)
LEMMA JoinAtomic == IInv /\ Join => Atomic!End
<1> SUFFICES ASSUME IInv, Join PROVE Atomic!End
  OBVIOUS
<1>1. PICK t \in Thread : pc[t] = "done"
  BY ConstantsAssumption DEF Join
<1>2. N \in Nat \ {0} /\ LOOPS \in Nat
  BY Counts, ConstantsAssumption
<1>3. iter >= LOOPS /\ iter \in Int
  BY <1>1, <1>2 DEF IInv, DoneIsPastEnd, TypeOK, Slot
<1>4. Behind' <=> Behind
  BY DEF Join, Behind
<1> QED
  BY <1>2, <1>3, <1>4 DEF Join, Atomic!End

(* Whatever the number of threads, the locked program behaves as a         *)
(* sequential loop that doubles element after element and goes at most     *)
(* N - 1 too far.                                                          *)
THEOREM LockedLoopIsAtomic == Spec => ImplementsAtomicDoubling
<1>1. IInv /\ [Next]_vars
        => [Atomic!Next]_<<doubled, IF Behind THEN iter + 1 ELSE iter, main = "end">>
  <2> SUFFICES ASSUME IInv, [Next]_vars
      PROVE [Atomic!Next]_<<doubled, IF Behind THEN iter + 1 ELSE iter, main = "end">>
    OBVIOUS
  <2>1. CASE UNCHANGED vars
    BY <2>1 DEF vars, Behind
  <2>2. CASE Join
    BY <2>2, JoinAtomic DEF Atomic!Next
  <2>3. CASE \E t \in Thread : Step(t)
    BY <2>3, StepAtomic DEF Atomic!Next
  <2> QED
    BY <2>1, <2>2, <2>3 DEF Next
<1> QED
  BY InitAtomic, Invariant, <1>1, PTL DEF Spec, ImplementsAtomicDoubling, Atomic!Spec
=============================================================================
