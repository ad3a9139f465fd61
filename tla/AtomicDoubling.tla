--------------------------- MODULE AtomicDoubling ---------------------------
(***************************************************************************)
(* What the lock of src/linux/pthread_locks.c is there for: seen from      *)
(* outside, the elements of a[] are doubled one after the other, each in a *)
(* single step, by at most Extra steps too many, until the program prints  *)
(* its result.                                                             *)
(***************************************************************************)
EXTENDS Naturals

CONSTANTS
  LOOPS,   \* elements of a[]
  Extra    \* doublings behind the end that are put up with

VARIABLES
  doubled,   \* how often each element has been doubled
  count,     \* elements doubled so far
  ended      \* has the result been printed?

Init ==
  /\ doubled = [i \in 0 .. LOOPS + Extra |-> 0]
  /\ count = 0
  /\ ended = FALSE

DoubleNext ==
  /\ ~ended /\ count < LOOPS + Extra
  /\ doubled' = [doubled EXCEPT ![count] = @ + 1]
  /\ count' = count + 1
  /\ UNCHANGED ended

End ==
  /\ ~ended /\ count >= LOOPS
  /\ ended' = TRUE
  /\ UNCHANGED <<doubled, count>>

Next == DoubleNext \/ End

Spec == Init /\ [][Next]_<<doubled, count, ended>>
=============================================================================
