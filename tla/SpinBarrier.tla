------------------------------ MODULE SpinBarrier ------------------------------
(***************************************************************************)
(* The spinning barrier of src/core/spin_barrier.cpp.                      *)
(*                                                                         *)
(* A thread that calls wait() takes a ticket from a counter that only      *)
(* grows, computes from it the count at which its round is complete, and   *)
(* spins until the counter is there.  Nobody resets the counter, so a fast *)
(* thread may take its ticket of the next round while a slow one has not   *)
(* yet seen that this round is over.                                       *)
(*                                                                         *)
(* The counter is a size_t that would need centuries to wrap, hence Nat.   *)
(***************************************************************************)
EXTENDS Integers, FiniteSets

CONSTANT Threads  \* the threads that share the barrier, `width' of them

ASSUME ThreadsAssumption == IsFiniteSet(Threads) /\ Threads # {}

VARIABLES count,      \* tickets taken
          target,     \* the count each thread spins for
          entered,    \* calls of wait() each thread has taken its ticket in
          returned    \* calls of wait() each thread has returned from

vars == <<count, target, entered, returned>>

Width == Cardinality(Threads)

Waiting(p) == entered[p] > returned[p]

----------------------------------------------------------------------------

\* (broken variant: the last thread of a round waits for the next round)
RoundEndLate(current) == ((current + 1) \div Width + 1) * Width

\* (broken variant: the round is complete before it has begun)
RoundEndEarly(current) == (current \div Width) * Width

\* The count that completes the round of the ticket `current'
RoundEnd(current) == (current \div Width + 1) * Width

\* fetch_add and the computation of target
Arrive(p) ==
  /\ ~Waiting(p)
  /\ count' = count + 1
  /\ target' = [target EXCEPT ![p] = RoundEnd(count)]
  /\ entered' = [entered EXCEPT ![p] = @ + 1]
  /\ UNCHANGED returned

\* The load that ends the spinning
Leave(p) ==
  /\ Waiting(p) /\ count >= target[p]
  /\ returned' = [returned EXCEPT ![p] = @ + 1]
  /\ UNCHANGED <<count, target, entered>>

Init ==
  /\ count = 0
  /\ target = [p \in Threads |-> 0]
  /\ entered = [p \in Threads |-> 0]
  /\ returned = [p \in Threads |-> 0]

Next == \E p \in Threads : Arrive(p) \/ Leave(p)

Spec == Init /\ [][Next]_vars

----------------------------------------------------------------------------
(* Properties *)

\* Each thread is in at most one call of wait().
TypeOK ==
  /\ count \in Nat
  /\ target \in [Threads -> Nat]
  /\ entered \in [Threads -> Nat]
  /\ returned \in [Threads -> Nat]
  /\ \A p \in Threads : entered[p] - returned[p] \in {0, 1}

\* No thread returns from its n-th wait() before every thread has called wait()
\* n times, whatever rounds the others are in (SpinBarrier::wait).
Together == \A p, q \in Threads : returned[p] <= entered[q]
=============================================================================
