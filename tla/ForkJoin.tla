-------------------------------- MODULE ForkJoin --------------------------------
(***************************************************************************)
(* What ThreadPool::run promises: "Run a task using all threads            *)
(* simultaneously. This method is blocking" (src/core/thread_pool.hpp).    *)
(* Tasks come one after the other; each is executed exactly once by every  *)
(* worker, and the call returns when all of them are done with it.         *)
(***************************************************************************)
EXTENDS Integers

CONSTANT Workers

VARIABLES calls,    \* calls of run() so far
          busy,     \* whether the last of them has not returned
          done      \* the workers that have executed its task

vars == <<calls, busy, done>>

Init == calls = 0 /\ busy = FALSE /\ done = Workers

Submit == ~busy /\ calls' = calls + 1 /\ busy' = TRUE /\ done' = {}

Execute(w) == busy /\ w \notin done /\ done' = done \cup {w} /\ UNCHANGED <<calls, busy>>

Return == busy /\ done = Workers /\ busy' = FALSE /\ UNCHANGED <<calls, done>>

Next == Submit \/ (\E w \in Workers : Execute(w)) \/ Return

Spec == Init /\ [][Next]_vars
=============================================================================
