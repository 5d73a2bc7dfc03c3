-------------------------- MODULE ThreadPoolProofs --------------------------
(***************************************************************************)
(* Proofs about ThreadPool, for any number of workers, of barriers in a    *)
(* task and of calls, in the builds where a relaxed load acquires.  In the *)
(* other one the pool loses tasks.                                         *)
(***************************************************************************)
EXTENDS ThreadPool, SpinRounds

\* The tasks a worker has executed
Turns(w) == Len(finished[w])

\* Where main has a task, and where it is destroying the pool
HasTask == pc[Main] \in {"kick", "kicking", "running", "waiting", "clear"}
Destroying == pc[Main] \in {"close", "closing", "joining", "gone"}

\* Where a worker executes a task
InTask(w) == pc[w] \in {"task", "sync"}

Types ==
  /\ pc \in [Threads -> MainPlaces \cup WorkerPlaces]
  /\ pc[Main] \in MainPlaces /\ \A w \in Workers : pc[w] \in WorkerPlaces
  /\ task \in Tasks \cup {NoTask} /\ exited \in BOOLEAN /\ calls \in 0..MaxTasks
  /\ doing \in [Workers -> Tasks \cup {NoTask}] /\ syncsLeft \in [Workers -> 0..Syncs]
  /\ finished \in [Workers -> Seq(Tasks)]
  /\ published \subseteq Tasks \cup {NoTask}
  /\ readable \in [Workers -> SUBSET (Tasks \cup {NoTask})]

\* The calls of wait() main has entered and returned from, two for each task and
\* one for the end
MainTurn ==
  LET e == runEntered[Main]
      r == runReturned[Main]
  IN /\ pc[Main] \in {"idle", "clear", "close"} => e = 2 * calls /\ r = 2 * calls
     /\ pc[Main] = "kick" => e = 2 * calls - 2 /\ r = 2 * calls - 2
     /\ pc[Main] = "kicking" => e = 2 * calls - 1 /\ r = 2 * calls - 2
     /\ pc[Main] = "running" => e = 2 * calls - 1 /\ r = 2 * calls - 1
     /\ pc[Main] = "waiting" => e = 2 * calls /\ r = 2 * calls - 1
     /\ pc[Main] = "closing" => e = 2 * calls + 1 /\ r = 2 * calls
     /\ pc[Main] \in {"joining", "gone"} => e = 2 * calls + 1 /\ r = 2 * calls + 1

\* Those of a worker
WorkerTurn(w) ==
  LET e == runEntered[w]
      r == runReturned[w]
      k == Turns(w)
  IN /\ pc[w] = "check" => \/ e = 2 * k /\ r = 2 * k
                           \/ exited /\ e = 2 * k + 1 /\ r = 2 * k + 1
     /\ pc[w] = "arrive" => e = 2 * k /\ r = 2 * k
     /\ pc[w] = "arrived" => e = 2 * k + 1 /\ r = 2 * k
     /\ pc[w] \in {"read", "task", "sync"} => e = 2 * k + 1 /\ r = 2 * k + 1
     /\ pc[w] = "finished" => e = 2 * k /\ r = 2 * k - 1
     /\ pc[w] = "exited" => e = r /\ e \in {2 * k, 2 * k + 1}

\* What main has written
TaskOfCall ==
  /\ task = IF HasTask THEN calls ELSE NoTask
  /\ HasTask => calls > 0
  /\ exited <=> Destroying

\* A worker executes the tasks of the calls one after the other.
TaskOfTurn(w) ==
  /\ Turns(w) <= calls
  /\ InTask(w) => doing[w] = Turns(w) + 1 /\ doing[w] <= calls

\* Its calls of barrier(), Syncs for each task
SyncTurn(w) ==
  /\ syncEntered[w] = Syncs * Turns(w) + (IF InTask(w) THEN Syncs - syncsLeft[w] ELSE 0)
  /\ syncReturned[w] = IF pc[w] = "sync" THEN syncEntered[w] - 1 ELSE syncEntered[w]

RunRounds == Rounds(Threads, runCount, runTarget, runEntered, runReturned)
SyncRounds == Rounds(Workers, syncCount, syncTarget, syncEntered, syncReturned)

Turn ==
  /\ Types /\ MainTurn /\ TaskOfCall
  /\ \A w \in Workers : WorkerTurn(w) /\ TaskOfTurn(w) /\ SyncTurn(w)

PoolInv == Turn /\ RunRounds /\ SyncRounds

----------------------------------------------------------------------------
(* Threads and barriers *)

LEMMA Pool ==
  /\ IsFiniteSet(Threads) /\ Threads # {} /\ IsFiniteSet(Workers) /\ Workers # {}
  /\ Main \in Threads /\ Workers \subseteq Threads /\ Main \notin Workers
<1>1. IsFiniteSet(Threads)
  BY PoolAssumption, FS_AddElement DEF Threads
<1> QED
  BY <1>1, PoolAssumption DEF Threads

\* The calls of wait() are counted, and a thread is in at most one of each.
LEMMA Counted ==
  ASSUME PoolInv
  PROVE  /\ runEntered \in [Threads -> Nat] /\ runReturned \in [Threads -> Nat]
         /\ \A p \in Threads : runEntered[p] - runReturned[p] \in {0, 1}
         /\ syncEntered \in [Workers -> Nat] /\ syncReturned \in [Workers -> Nat]
         /\ \A w \in Workers : syncEntered[w] - syncReturned[w] \in {0, 1}
         /\ calls \in Nat /\ \A w \in Workers : Turns(w) \in Nat
<1>1. \A w \in Workers : Turns(w) \in Nat
  BY DEF PoolInv, Turn, Types, Turns
<1>2. /\ runEntered \in [Threads -> Nat] /\ runReturned \in [Threads -> Nat]
      /\ \A p \in Threads : runEntered[p] - runReturned[p] \in {0, 1}
  BY DEF PoolInv, RunRounds, Rounds, RoundTypes
<1>3. /\ syncEntered \in [Workers -> Nat] /\ syncReturned \in [Workers -> Nat]
      /\ \A w \in Workers : syncEntered[w] - syncReturned[w] \in {0, 1}
  BY DEF PoolInv, SyncRounds, Rounds, RoundTypes
<1>4. calls \in Nat
  BY PoolAssumption DEF PoolInv, Turn, Types
<1> QED
  BY <1>1, <1>2, <1>3, <1>4

LEMMA RunTogether ==
  ASSUME PoolInv, NEW p \in Threads, NEW q \in Threads
  PROVE  runReturned[p] <= runEntered[q]
  BY RoundsTogether DEF PoolInv, RunRounds

\* Each barrier is as wide as its threads; an instance has its own Cardinality.
LEMMA Widths == run!Width = Cardinality(Threads) /\ sync!Width = Cardinality(Workers)
  BY DEF run!Width, run!Cardinality, sync!Width, sync!Cardinality, Cardinality

\* A thread takes its ticket of the run barrier.
LEMMA RunTicket ==
  ASSUME PoolInv, NEW p \in Threads, run!Arrive(p)
  PROVE  /\ RunRounds'
         /\ runEntered' = [runEntered EXCEPT ![p] = @ + 1] /\ runReturned' = runReturned
  BY Pool, RoundsTicket, Widths
     DEF PoolInv, RunRounds, run!Arrive, run!Waiting, run!RoundEnd

\* A thread leaves the run barrier: everybody has come to it.
LEMMA RunRelease ==
  ASSUME PoolInv, NEW p \in Threads, run!Leave(p)
  PROVE  /\ RunRounds'
         /\ runReturned' = [runReturned EXCEPT ![p] = @ + 1] /\ runEntered' = runEntered
         /\ \A q \in Threads : runReturned[p] + 1 <= runEntered[q]
<1>1. runReturned' = [runReturned EXCEPT ![p] = @ + 1] /\ runEntered' = runEntered
  BY DEF run!Leave
<1>2. RunRounds'
  BY Pool, RoundsRelease DEF PoolInv, RunRounds, run!Leave, run!Waiting
<1>3. ASSUME NEW q \in Threads PROVE runReturned'[p] <= runEntered'[q]
  BY <1>2, RoundsTogether DEF RunRounds
<1>4. runReturned'[p] = runReturned[p] + 1
  BY <1>1, Counted
<1> QED
  BY <1>1, <1>2, <1>3, <1>4

LEMMA SyncTicket ==
  ASSUME PoolInv, NEW w \in Workers, sync!Arrive(w)
  PROVE  /\ SyncRounds'
         /\ syncEntered' = [syncEntered EXCEPT ![w] = @ + 1] /\ syncReturned' = syncReturned
  BY Pool, RoundsTicket, Widths
     DEF PoolInv, SyncRounds, sync!Arrive, sync!Waiting, sync!RoundEnd

LEMMA SyncRelease ==
  ASSUME PoolInv, NEW w \in Workers, sync!Leave(w)
  PROVE  /\ SyncRounds'
         /\ syncReturned' = [syncReturned EXCEPT ![w] = @ + 1] /\ syncEntered' = syncEntered
  BY Pool, RoundsRelease DEF PoolInv, SyncRounds, sync!Leave, sync!Waiting

LEMMA RunUnchanged == PoolInv /\ UNCHANGED runVars => RunRounds'
  BY DEF PoolInv, RunRounds, runVars

LEMMA SyncUnchanged == PoolInv /\ UNCHANGED syncVars => SyncRounds'
  BY DEF PoolInv, SyncRounds, syncVars

----------------------------------------------------------------------------
(* Where main is *)

\* While a worker executes its task, main is between the two passages of the run
\* barrier, and it is main's task.
LEMMA WhileExecuting ==
  ASSUME PoolInv, NEW w \in Workers, InTask(w)
  PROVE  /\ pc[Main] \in {"kicking", "running", "waiting"}
         /\ calls = Turns(w) + 1 /\ task = calls /\ doing[w] = calls
<1>1. runEntered[w] = 2 * Turns(w) + 1 /\ runReturned[w] = 2 * Turns(w) + 1
  BY DEF PoolInv, Turn, WorkerTurn, InTask
<1>2. runReturned[w] <= runEntered[Main] /\ runReturned[Main] <= runEntered[w]
  BY Pool, RunTogether
<1>3. doing[w] = Turns(w) + 1 /\ Turns(w) + 1 <= calls
  BY DEF PoolInv, Turn, TaskOfTurn
<1>4. calls \in Nat /\ Turns(w) \in Nat /\ pc[Main] \in MainPlaces
  BY Counted DEF PoolInv, Turn, Types
<1>5. pc[Main] \in {"kicking", "running", "waiting"} /\ calls = Turns(w) + 1
  BY <1>1, <1>2, <1>3, <1>4 DEF PoolInv, Turn, MainTurn, MainPlaces
<1> QED
  BY <1>3, <1>5 DEF PoolInv, Turn, TaskOfCall, HasTask

\* When a worker is about to read the task, main is there, too, or it is at the
\* last passage, which has no task.
LEMMA WhileReading ==
  ASSUME PoolInv, NEW w \in Workers, pc[w] = "read"
  PROVE  \/ task = calls /\ calls = Turns(w) + 1 /\ task # NoTask
         \/ task = NoTask /\ exited
<1>1. runEntered[w] = 2 * Turns(w) + 1 /\ runReturned[w] = 2 * Turns(w) + 1
  BY DEF PoolInv, Turn, WorkerTurn
<1>2. runReturned[w] <= runEntered[Main] /\ runReturned[Main] <= runEntered[w]
  BY Pool, RunTogether
<1>3. calls \in Nat /\ Turns(w) \in Nat /\ pc[Main] \in MainPlaces
  BY Counted DEF PoolInv, Turn, Types
<1>4. \/ pc[Main] \in {"kicking", "running", "waiting"} /\ calls = Turns(w) + 1
      \/ pc[Main] \in {"closing", "joining", "gone"}
  BY <1>1, <1>2, <1>3 DEF PoolInv, Turn, MainTurn, MainPlaces
<1> QED
  BY <1>3, <1>4 DEF PoolInv, Turn, TaskOfCall, HasTask, Destroying, NoTask

\* No worker is more than one turn behind main in a call, and none ahead.
LEMMA TurnsOfCall ==
  ASSUME PoolInv, NEW w \in Workers
  PROVE  Turns(w) <= calls /\ (InRun => Turns(w) >= calls - 1)
<1>1. Turns(w) <= calls /\ runReturned[Main] <= runEntered[w]
  BY Pool, RunTogether DEF PoolInv, Turn, TaskOfTurn
<1>2. /\ calls \in Nat /\ Turns(w) \in Nat /\ runReturned[Main] \in Nat
      /\ pc[Main] \in MainPlaces /\ pc[w] \in WorkerPlaces
  BY Counted, Pool DEF PoolInv, Turn, Types
<1>3. InRun => runReturned[Main] >= 2 * calls - 2
  BY <1>2 DEF PoolInv, Turn, MainTurn, MainPlaces, InRun
<1>4. runEntered[w] \in {2 * Turns(w), 2 * Turns(w) + 1}
  BY <1>2 DEF PoolInv, Turn, WorkerTurn, WorkerPlaces
<1> QED
  BY <1>1, <1>2, <1>3, <1>4

----------------------------------------------------------------------------
(* What a step leaves alone *)

\* A worker does not notice the steps of the others.
LEMMA Undisturbed ==
  ASSUME PoolInv, NEW v \in Workers, pc'[v] = pc[v],
         doing'[v] = doing[v], syncsLeft'[v] = syncsLeft[v], finished'[v] = finished[v],
         runEntered'[v] = runEntered[v], runReturned'[v] = runReturned[v],
         syncEntered'[v] = syncEntered[v], syncReturned'[v] = syncReturned[v],
         calls' \in Nat, calls' >= calls, exited => exited'
  PROVE  (WorkerTurn(v) /\ TaskOfTurn(v) /\ SyncTurn(v))'
<1>1. WorkerTurn(v) /\ TaskOfTurn(v) /\ SyncTurn(v)
  BY DEF PoolInv, Turn
<1>2. Turns(v)' = Turns(v) /\ InTask(v)' = InTask(v)
  BY DEF Turns, InTask
<1>3. WorkerTurn(v)'
  BY <1>1, <1>2 DEF WorkerTurn
<1>4. TaskOfTurn(v)'
  BY <1>1, <1>2, Counted DEF TaskOfTurn
<1>5. SyncTurn(v)'
  BY <1>1, <1>2 DEF SyncTurn
<1> QED
  BY <1>3, <1>4, <1>5

\* Nor does main notice those of the workers.
LEMMA MainUndisturbed ==
  ASSUME PoolInv, UNCHANGED <<calls, task, exited>>, pc'[Main] = pc[Main],
         runEntered'[Main] = runEntered[Main], runReturned'[Main] = runReturned[Main]
  PROVE  (MainTurn /\ TaskOfCall)'
  BY DEF PoolInv, Turn, MainTurn, TaskOfCall, HasTask, Destroying

----------------------------------------------------------------------------
(* Steps of main *)

LEMMA InitInvariant == Init => PoolInv
<1> SUFFICES ASSUME Init PROVE PoolInv
  OBVIOUS
<1>1. Types
  <2>1. /\ pc \in [Threads -> MainPlaces \cup WorkerPlaces]
        /\ pc[Main] \in MainPlaces /\ \A w \in Workers : pc[w] \in WorkerPlaces
    BY Pool DEF Init, MainPlaces, WorkerPlaces
  <2>2. calls \in 0..MaxTasks /\ syncsLeft \in [Workers -> 0..Syncs]
    BY PoolAssumption DEF Init
  <2>3. task \in Tasks \cup {NoTask} /\ doing \in [Workers -> Tasks \cup {NoTask}]
    BY DEF Init
  <2>4. exited \in BOOLEAN
    BY DEF Init
  <2>5. finished \in [Workers -> Seq(Tasks)]
    BY DEF Init
  <2>6. /\ published \subseteq Tasks \cup {NoTask}
        /\ readable \in [Workers -> SUBSET (Tasks \cup {NoTask})]
    BY DEF Init
  <2> QED
    BY <2>1, <2>2, <2>3, <2>4, <2>5, <2>6 DEF Types
<1>2. MainTurn /\ TaskOfCall
  BY Pool DEF Init, MainTurn, TaskOfCall, HasTask, Destroying, run!Init
<1>3. ASSUME NEW w \in Workers PROVE WorkerTurn(w) /\ TaskOfTurn(w) /\ SyncTurn(w)
  <2>1. pc[w] = "check" /\ Turns(w) = 0
    BY <1>3, Pool DEF Init, Turns
  <2> QED
    BY <2>1, Pool, PoolAssumption
       DEF Init, WorkerTurn, TaskOfTurn, SyncTurn, InTask, run!Init, sync!Init
<1>4. RunRounds /\ SyncRounds
  BY Pool, RoundsBegin DEF Init, RunRounds, SyncRounds, run!Init, sync!Init
<1> QED
  BY <1>1, <1>2, <1>3, <1>4 DEF PoolInv, Turn

\* Main changes nothing of the workers.
LEMMA MainKeepsWorkers ==
  ASSUME PoolInv, NEW to, pc' = [pc EXCEPT ![Main] = to], UNCHANGED <<workVars, syncVars>>,
         \A w \in Workers : runEntered'[w] = runEntered[w] /\ runReturned'[w] = runReturned[w],
         calls' \in Nat, calls' >= calls, exited => exited'
  PROVE  \A w \in Workers : (WorkerTurn(w) /\ TaskOfTurn(w) /\ SyncTurn(w))'
<1>1. \A w \in Workers : pc'[w] = pc[w]
  BY Pool DEF PoolInv, Turn, Types
<1> QED
  BY <1>1, Undisturbed DEF workVars, syncVars

\* A step of main that takes no ticket and leaves no barrier
LEMMA MainWrites ==
  ASSUME PoolInv,
         AsyncRun \/ ClearTask \/ Destroy \/ Join
  PROVE  PoolInv'
<1>1. /\ UNCHANGED <<workVars, runVars, syncVars>>
      /\ calls' \in Nat /\ calls' >= calls /\ (exited => exited')
      /\ \E to \in MainPlaces : pc' = [pc EXCEPT ![Main] = to]
  BY Counted DEF AsyncRun, ClearTask, Destroy, Join, Go, memoryVars, MainPlaces
<1>2. RunRounds' /\ SyncRounds'
  BY <1>1, RunUnchanged, SyncUnchanged
<1>3. \A w \in Workers : (WorkerTurn(w) /\ TaskOfTurn(w) /\ SyncTurn(w))'
  BY <1>1, MainKeepsWorkers DEF runVars
<1>4. Types /\ MainTurn /\ TaskOfCall
  BY DEF PoolInv, Turn
<1>5. Types'
  <2>1. \A w \in Workers : pc'[w] = pc[w]
    BY <1>1, <1>4, Pool DEF Types
  <2>2. pc' \in [Threads -> MainPlaces \cup WorkerPlaces] /\ pc'[Main] \in MainPlaces
    BY <1>1, <1>4, Pool DEF Types
  <2>3. exited' \in BOOLEAN /\ calls' \in 0..MaxTasks
    <3>1. CASE AsyncRun
      BY <3>1, <1>4, PoolAssumption DEF Types, AsyncRun
    <3>2. CASE ClearTask \/ Destroy \/ Join
      BY <3>2, <1>4 DEF Types, ClearTask, Destroy, Join, memoryVars
    <3> QED
      BY <3>1, <3>2
  <2>4. CASE \E v \in Tasks \cup {NoTask} : WriteTask(v)
    BY <2>4, <1>1, <1>4, <2>1, <2>2, <2>3 DEF Types, workVars, WriteTask
  <2>5. CASE UNCHANGED <<task, published, readable>>
    BY <2>5, <1>1, <1>4, <2>1, <2>2, <2>3 DEF Types, workVars
  <2>6. \/ \E v \in Tasks \cup {NoTask} : WriteTask(v)
        \/ UNCHANGED <<task, published, readable>>
    <3>1. calls < MaxTasks => calls + 1 \in Tasks
      BY Counted, PoolAssumption DEF Tasks
    <3> QED
      BY <3>1 DEF AsyncRun, ClearTask, Destroy, Join, memoryVars
  <2> QED
    BY <2>4, <2>5, <2>6
<1>6. (MainTurn /\ TaskOfCall)'
  <2>1. CASE AsyncRun
    BY <2>1, <1>1, <1>4, Pool, Counted
       DEF AsyncRun, Go, WriteTask, Types, MainTurn, TaskOfCall, HasTask, Destroying, runVars
  <2>2. CASE ClearTask
    BY <2>2, <1>1, <1>4, Pool, Counted
       DEF ClearTask, Go, WriteTask, Types, MainTurn, TaskOfCall, HasTask, Destroying, runVars
  <2>3. CASE Destroy
    BY <2>3, <1>1, <1>4, Pool, Counted
       DEF Destroy, Go, Types, MainTurn, TaskOfCall, HasTask, Destroying, runVars
  <2>4. CASE Join
    BY <2>4, <1>1, <1>4, Pool, Counted
       DEF Join, Go, Types, MainTurn, TaskOfCall, HasTask, Destroying, runVars, memoryVars
  <2> QED
    BY <2>1, <2>2, <2>3, <2>4
<1> QED
  BY <1>2, <1>3, <1>5, <1>6 DEF PoolInv, Turn

\* A step of main that takes a ticket
LEMMA MainEnters ==
  ASSUME PoolInv, Kick \/ Wait \/ Close
  PROVE  PoolInv'
<1>1. /\ UNCHANGED <<calls, task, exited, readable, workVars, syncVars>> /\ published' = {task}
      /\ run!Arrive(Main)
      /\ \E to \in MainPlaces : pc' = [pc EXCEPT ![Main] = to]
  BY DEF Kick, Wait, Close, Go, MainTicket, MainPlaces
<1>2. /\ RunRounds'
      /\ runEntered' = [runEntered EXCEPT ![Main] = @ + 1] /\ runReturned' = runReturned
  BY <1>1, Pool, RunTicket
<1>3. SyncRounds'
  BY <1>1, SyncUnchanged
<1>4. \A w \in Workers : (WorkerTurn(w) /\ TaskOfTurn(w) /\ SyncTurn(w))'
  <2>1. \A w \in Workers : runEntered'[w] = runEntered[w] /\ runReturned'[w] = runReturned[w]
    BY <1>2, Pool, Counted
  <2>2. calls' \in Nat /\ calls' >= calls /\ (exited => exited')
    BY <1>1, Counted
  <2> QED
    BY <1>1, <2>1, <2>2, MainKeepsWorkers
<1>5. Types /\ MainTurn /\ TaskOfCall
  BY DEF PoolInv, Turn
<1>6. Types'
  BY <1>1, <1>5, Pool DEF Types, workVars
<1>7. (MainTurn /\ TaskOfCall)'
  <2>1. runEntered'[Main] = runEntered[Main] + 1 /\ runReturned'[Main] = runReturned[Main]
    BY <1>2, Pool, Counted
  <2>2. CASE Kick
    BY <2>1, <2>2, <1>1, <1>5, Pool, Counted
       DEF Kick, Go, Types, MainTurn, TaskOfCall, HasTask, Destroying
  <2>3. CASE Wait
    BY <2>1, <2>3, <1>1, <1>5, Pool, Counted
       DEF Wait, Go, Types, MainTurn, TaskOfCall, HasTask, Destroying
  <2>4. CASE Close
    BY <2>1, <2>4, <1>1, <1>5, Pool, Counted
       DEF Close, Go, Types, MainTurn, TaskOfCall, HasTask, Destroying
  <2> QED
    BY <2>2, <2>3, <2>4
<1> QED
  BY <1>2, <1>3, <1>4, <1>6, <1>7 DEF PoolInv, Turn

\* A step of main that leaves the barrier
LEMMA MainReturns ==
  ASSUME PoolInv, Kicked \/ Waited \/ Closed
  PROVE  PoolInv'
<1>1. /\ UNCHANGED <<calls, memoryVars, workVars, syncVars>>
      /\ run!Leave(Main)
      /\ \E to \in MainPlaces : pc' = [pc EXCEPT ![Main] = to]
  BY DEF Kicked, Waited, Closed, Go, MainPlaces
<1>2. /\ RunRounds'
      /\ runReturned' = [runReturned EXCEPT ![Main] = @ + 1] /\ runEntered' = runEntered
  BY <1>1, Pool, RunRelease
<1>3. SyncRounds'
  BY <1>1, SyncUnchanged
<1>4. \A w \in Workers : (WorkerTurn(w) /\ TaskOfTurn(w) /\ SyncTurn(w))'
  <2>1. \A w \in Workers : runEntered'[w] = runEntered[w] /\ runReturned'[w] = runReturned[w]
    BY <1>2, Pool, Counted
  <2>2. calls' \in Nat /\ calls' >= calls /\ (exited => exited')
    BY <1>1, Counted DEF memoryVars
  <2> QED
    BY <1>1, <2>1, <2>2, MainKeepsWorkers DEF memoryVars
<1>5. Types /\ MainTurn /\ TaskOfCall
  BY DEF PoolInv, Turn
<1>6. Types'
  BY <1>1, <1>5, Pool DEF Types, workVars, memoryVars
<1>7. (MainTurn /\ TaskOfCall)'
  <2>1. runReturned'[Main] = runReturned[Main] + 1 /\ runEntered'[Main] = runEntered[Main]
    BY <1>2, Pool, Counted
  <2>2. CASE Kicked
    BY <2>1, <2>2, <1>1, <1>5, Pool, Counted
       DEF Kicked, Go, Types, MainTurn, TaskOfCall, HasTask, Destroying, memoryVars
  <2>3. CASE Waited
    BY <2>1, <2>3, <1>1, <1>5, Pool, Counted
       DEF Waited, Go, Types, MainTurn, TaskOfCall, HasTask, Destroying, memoryVars
  <2>4. CASE Closed
    BY <2>1, <2>4, <1>1, <1>5, Pool, Counted
       DEF Closed, Go, Types, MainTurn, TaskOfCall, HasTask, Destroying, memoryVars
  <2> QED
    BY <2>2, <2>3, <2>4
<1> QED
  BY <1>2, <1>3, <1>4, <1>6, <1>7 DEF PoolInv, Turn

----------------------------------------------------------------------------
(* Steps of a worker *)

\* A step of a worker leaves main and the other workers alone.
WorkerOnly(w) ==
  /\ UNCHANGED <<calls, task, exited>>
  /\ \A p \in Threads : p # w =>
       pc'[p] = pc[p] /\ runEntered'[p] = runEntered[p] /\ runReturned'[p] = runReturned[p]
  /\ \A v \in Workers : v # w =>
       /\ doing'[v] = doing[v] /\ syncsLeft'[v] = syncsLeft[v] /\ finished'[v] = finished[v]
       /\ syncEntered'[v] = syncEntered[v] /\ syncReturned'[v] = syncReturned[v]

\* What is left to show of its steps
LEMMA WorkerKeepsRest ==
  ASSUME PoolInv, NEW w \in Workers, WorkerOnly(w), Types', RunRounds', SyncRounds',
         (WorkerTurn(w) /\ TaskOfTurn(w) /\ SyncTurn(w))'
  PROVE  PoolInv'
<1>1. (MainTurn /\ TaskOfCall)'
  BY Pool, MainUndisturbed DEF WorkerOnly
<1>2. ASSUME NEW v \in Workers PROVE (WorkerTurn(v) /\ TaskOfTurn(v) /\ SyncTurn(v))'
  <2>1. CASE v # w
    <3>1. v \in Threads /\ calls' \in Nat /\ calls' >= calls /\ (exited => exited')
      BY Pool, Counted DEF WorkerOnly
    <3> QED
      BY <2>1, <3>1, Undisturbed DEF WorkerOnly
  <2> QED
    BY <2>1
<1> QED
  BY <1>1, <1>2 DEF PoolInv, Turn

\* The pc of the worker is all that changes of the types.
LEMMA Goes ==
  ASSUME PoolInv, NEW w \in Workers, NEW to \in WorkerPlaces, pc' = [pc EXCEPT ![w] = to]
  PROVE  /\ pc' \in [Threads -> MainPlaces \cup WorkerPlaces] /\ pc'[Main] \in MainPlaces
         /\ \A v \in Workers : pc'[v] \in WorkerPlaces
         /\ pc'[w] = to /\ \A p \in Threads : p # w => pc'[p] = pc[p]
  BY Pool DEF PoolInv, Turn, Types

\* A worker looks at m_exited.
LEMMA CheckInvariant ==
  ASSUME PoolInv, NEW w \in Workers, Check(w)
  PROVE  PoolInv'
<1> DEFINE to == IF exited THEN "exited" ELSE "arrive"
<1>1. Types /\ WorkerTurn(w) /\ TaskOfTurn(w) /\ SyncTurn(w)
  BY DEF PoolInv, Turn
<1>2. /\ pc[w] = "check" /\ pc' = [pc EXCEPT ![w] = to]
      /\ UNCHANGED <<calls, memoryVars, workVars, runVars, syncVars>>
  BY DEF Check, Go
<1>3. to \in WorkerPlaces
  BY DEF WorkerPlaces
<1>4. RunRounds' /\ SyncRounds'
  BY <1>2, RunUnchanged, SyncUnchanged
<1>5. Types'
  BY <1>1, <1>2, <1>3, Goes DEF Types, memoryVars, workVars
<1>6. WorkerOnly(w)
  BY <1>2, <1>3, Goes DEF WorkerOnly, memoryVars, workVars, runVars, syncVars
<1>7. pc'[w] = to /\ Turns(w)' = Turns(w) /\ Turns(w) \in Nat
  BY <1>2, <1>3, Goes, Counted DEF Turns, workVars
<1>8. WorkerTurn(w)'
  BY <1>1, <1>2, <1>7 DEF WorkerTurn, memoryVars, runVars
<1>9. TaskOfTurn(w)' /\ SyncTurn(w)'
  BY <1>1, <1>2, <1>7 DEF TaskOfTurn, SyncTurn, InTask, workVars, syncVars
<1> QED
  BY <1>4, <1>5, <1>6, <1>8, <1>9, WorkerKeepsRest

\* A worker takes the ticket that lets it read the task.
LEMMA ArriveInvariant ==
  ASSUME PoolInv, NEW w \in Workers, Arrive(w)
  PROVE  PoolInv'
<1>1. Types /\ WorkerTurn(w) /\ TaskOfTurn(w) /\ SyncTurn(w) /\ w \in Threads
  BY Pool DEF PoolInv, Turn
<1>2. /\ pc[w] = "arrive" /\ pc' = [pc EXCEPT ![w] = "arrived"] /\ run!Arrive(w)
      /\ readable' = [readable EXCEPT ![w] = published]
      /\ UNCHANGED <<calls, task, exited, published, workVars, syncVars>>
  BY DEF Arrive, Go, WorkerTicket
<1>3. "arrived" \in WorkerPlaces
  BY DEF WorkerPlaces
<1>4. /\ RunRounds' /\ SyncRounds'
      /\ runEntered' = [runEntered EXCEPT ![w] = @ + 1] /\ runReturned' = runReturned
  BY <1>1, <1>2, RunTicket, SyncUnchanged
<1>5. Types'
  BY <1>1, <1>2, <1>3, Goes DEF Types, workVars
<1>6. WorkerOnly(w)
  BY <1>2, <1>3, <1>4, Goes, Counted DEF WorkerOnly, workVars, syncVars
<1>7. pc'[w] = "arrived" /\ Turns(w)' = Turns(w) /\ Turns(w) \in Nat
  BY <1>2, <1>3, Goes, Counted DEF Turns, workVars
<1>8. WorkerTurn(w)'
  BY <1>1, <1>2, <1>4, <1>7, Counted DEF WorkerTurn
<1>9. TaskOfTurn(w)' /\ SyncTurn(w)'
  BY <1>1, <1>2, <1>7 DEF TaskOfTurn, SyncTurn, InTask, workVars, syncVars
<1> QED
  BY <1>4, <1>5, <1>6, <1>8, <1>9, WorkerKeepsRest

\* Both places where a worker leaves the run barrier
LEMMA LeaveInvariant ==
  ASSUME PoolInv, NEW w \in Workers, Leave(w) \/ LeaveTask(w)
  PROVE  PoolInv'
<1> DEFINE to == IF pc[w] = "arrived" THEN "read" ELSE "check"
<1>1. Types /\ WorkerTurn(w) /\ TaskOfTurn(w) /\ SyncTurn(w) /\ w \in Threads
  BY Pool DEF PoolInv, Turn
<1>2. /\ pc[w] \in {"arrived", "finished"} /\ pc' = [pc EXCEPT ![w] = to] /\ run!Leave(w)
      /\ UNCHANGED <<calls, memoryVars, workVars, syncVars>>
  BY DEF Leave, LeaveTask, Go
<1>3. to \in WorkerPlaces
  BY DEF WorkerPlaces
<1>4. /\ RunRounds' /\ SyncRounds'
      /\ runReturned' = [runReturned EXCEPT ![w] = @ + 1] /\ runEntered' = runEntered
  BY <1>1, <1>2, RunRelease, SyncUnchanged
<1>5. Types'
  BY <1>1, <1>2, <1>3, Goes DEF Types, memoryVars, workVars
<1>6. WorkerOnly(w)
  BY <1>2, <1>3, <1>4, Goes, Counted DEF WorkerOnly, memoryVars, workVars, syncVars
<1>7. pc'[w] = to /\ Turns(w)' = Turns(w) /\ Turns(w) \in Nat
  BY <1>2, <1>3, Goes, Counted DEF Turns, workVars
<1>8. WorkerTurn(w)'
  BY <1>1, <1>2, <1>4, <1>7, Counted DEF WorkerTurn
<1>9. TaskOfTurn(w)' /\ SyncTurn(w)'
  BY <1>1, <1>2, <1>7 DEF TaskOfTurn, SyncTurn, InTask, workVars, syncVars
<1> QED
  BY <1>4, <1>5, <1>6, <1>8, <1>9, WorkerKeepsRest

\* A worker reads the task: it gets the one main has in hand, or none when the
\* pool is being destroyed.
LEMMA ReadTaskInvariant ==
  ASSUME LoadsAcquire, PoolInv, NEW w \in Workers, ReadTask(w)
  PROVE  PoolInv'
<1> DEFINE to == IF task = NoTask THEN "check" ELSE "task"
           n == IF task = NoTask THEN 0 ELSE Syncs
<1>1. Types /\ WorkerTurn(w) /\ TaskOfTurn(w) /\ SyncTurn(w) /\ w \in Threads
  BY Pool DEF PoolInv, Turn
<1>2. /\ pc[w] = "read" /\ pc' = [pc EXCEPT ![w] = to]
      /\ doing' = [doing EXCEPT ![w] = task] /\ syncsLeft' = [syncsLeft EXCEPT ![w] = n]
      /\ UNCHANGED <<calls, finished, memoryVars, runVars, syncVars>>
  BY LoadsAcquire DEF ReadTask, Go
<1>3. to \in WorkerPlaces /\ n \in 0..Syncs
  BY PoolAssumption DEF WorkerPlaces
<1>4. RunRounds' /\ SyncRounds'
  BY <1>2, RunUnchanged, SyncUnchanged
<1>5. Types'
  BY <1>1, <1>2, <1>3, Goes DEF Types, memoryVars
<1>6. WorkerOnly(w)
  BY <1>1, <1>2, <1>3, Goes DEF Types, WorkerOnly, memoryVars, runVars, syncVars
<1>7. /\ pc'[w] = to /\ Turns(w)' = Turns(w) /\ Turns(w) \in Nat /\ Syncs \in Nat
      /\ doing'[w] = task /\ syncsLeft'[w] = n
  BY <1>1, <1>2, <1>3, Goes, Counted, PoolAssumption DEF Types, Turns
<1>8. CASE task = calls /\ calls = Turns(w) + 1 /\ task # NoTask
  <2>1. WorkerTurn(w)'
    BY <1>8, <1>1, <1>2, <1>7 DEF WorkerTurn, runVars
  <2>2. TaskOfTurn(w)'
    BY <1>8, <1>1, <1>2, <1>7 DEF TaskOfTurn, InTask
  <2>3. SyncTurn(w)'
    BY <1>8, <1>1, <1>2, <1>7 DEF SyncTurn, InTask, syncVars
  <2> QED
    BY <1>4, <1>5, <1>6, <2>1, <2>2, <2>3, WorkerKeepsRest
<1>9. CASE task = NoTask /\ exited
  <2>1. WorkerTurn(w)'
    BY <1>9, <1>1, <1>2, <1>7 DEF WorkerTurn, runVars, memoryVars
  <2>2. TaskOfTurn(w)' /\ SyncTurn(w)'
    BY <1>9, <1>1, <1>2, <1>7 DEF TaskOfTurn, SyncTurn, InTask, syncVars
  <2> QED
    BY <1>4, <1>5, <1>6, <2>1, <2>2, WorkerKeepsRest
<1> QED
  BY <1>2, <1>8, <1>9, WhileReading

\* A task calls barrier().
LEMMA BarrierInvariant ==
  ASSUME PoolInv, NEW w \in Workers, Barrier(w)
  PROVE  PoolInv'
<1>1. Types /\ WorkerTurn(w) /\ TaskOfTurn(w) /\ SyncTurn(w) /\ w \in Threads
  BY Pool DEF PoolInv, Turn
<1>2. /\ pc[w] = "task" /\ pc' = [pc EXCEPT ![w] = "sync"] /\ sync!Arrive(w)
      /\ syncsLeft[w] > 0 /\ syncsLeft' = [syncsLeft EXCEPT ![w] = @ - 1]
      /\ UNCHANGED <<calls, doing, finished, memoryVars, runVars>>
  BY DEF Barrier, Go
<1>3. "sync" \in WorkerPlaces /\ syncsLeft[w] \in 0..Syncs /\ syncsLeft[w] - 1 \in 0..Syncs
  BY <1>1, <1>2, PoolAssumption DEF WorkerPlaces, Types
<1>4. /\ RunRounds' /\ SyncRounds'
      /\ syncEntered' = [syncEntered EXCEPT ![w] = @ + 1] /\ syncReturned' = syncReturned
  BY <1>2, RunUnchanged, SyncTicket
<1>5. Types'
  BY <1>1, <1>2, <1>3, Goes DEF Types, memoryVars
<1>6. WorkerOnly(w)
  BY <1>1, <1>2, <1>3, <1>4, Goes, Counted DEF Types, WorkerOnly, memoryVars, runVars
<1>7. /\ pc'[w] = "sync" /\ Turns(w)' = Turns(w) /\ Turns(w) \in Nat /\ Syncs \in Nat
      /\ syncsLeft'[w] = syncsLeft[w] - 1 /\ syncEntered'[w] = syncEntered[w] + 1
      /\ syncEntered[w] \in Nat
  BY <1>1, <1>2, <1>3, <1>4, Goes, Counted, PoolAssumption DEF Types, Turns
<1>8. WorkerTurn(w)' /\ TaskOfTurn(w)'
  BY <1>1, <1>2, <1>7 DEF WorkerTurn, TaskOfTurn, InTask, runVars
<1>9. SyncTurn(w)'
  <2> DEFINE before == Syncs * Turns(w)
  <2>1. before \in Nat
    BY <1>7
  <2>2. syncEntered[w] = before + (Syncs - syncsLeft[w]) /\ syncReturned[w] = syncEntered[w]
    BY <1>1, <1>2 DEF SyncTurn, InTask
  <2>3. syncEntered'[w] = before + (Syncs - syncsLeft'[w])
    <3> HIDE DEF before
    <3> QED
      BY <2>1, <2>2, <1>3, <1>7
  <2>4. syncReturned'[w] = syncEntered'[w] - 1
    BY <2>2, <1>4, <1>7
  <2> QED
    BY <2>3, <2>4, <1>7 DEF SyncTurn, InTask
<1> QED
  BY <1>4, <1>5, <1>6, <1>8, <1>9, WorkerKeepsRest

\* barrier() returns.
LEMMA PassBarrierInvariant ==
  ASSUME PoolInv, NEW w \in Workers, PassBarrier(w)
  PROVE  PoolInv'
<1>1. Types /\ WorkerTurn(w) /\ TaskOfTurn(w) /\ SyncTurn(w) /\ w \in Threads
  BY Pool DEF PoolInv, Turn
<1>2. /\ pc[w] = "sync" /\ pc' = [pc EXCEPT ![w] = "task"] /\ sync!Leave(w)
      /\ UNCHANGED <<calls, memoryVars, workVars, runVars>>
  BY DEF PassBarrier, Go
<1>3. "task" \in WorkerPlaces
  BY DEF WorkerPlaces
<1>4. /\ RunRounds' /\ SyncRounds'
      /\ syncReturned' = [syncReturned EXCEPT ![w] = @ + 1] /\ syncEntered' = syncEntered
  BY <1>2, RunUnchanged, SyncRelease
<1>5. Types'
  BY <1>1, <1>2, <1>3, Goes DEF Types, memoryVars, workVars
<1>6. WorkerOnly(w)
  BY <1>2, <1>3, <1>4, Goes, Counted DEF WorkerOnly, memoryVars, workVars, runVars
<1>7. pc'[w] = "task" /\ Turns(w)' = Turns(w) /\ syncReturned'[w] = syncReturned[w] + 1
  BY <1>2, <1>3, <1>4, Goes, Counted DEF Turns, workVars
<1>8. WorkerTurn(w)' /\ TaskOfTurn(w)'
  BY <1>1, <1>2, <1>7 DEF WorkerTurn, TaskOfTurn, InTask, runVars, workVars
<1>9. SyncTurn(w)'
  <2>1. syncReturned[w] = syncEntered[w] - 1 /\ syncEntered[w] \in Nat
    BY <1>1, <1>2, Counted DEF SyncTurn
  <2>2. syncReturned'[w] = syncEntered'[w]
    BY <2>1, <1>4, <1>7
  <2> QED
    BY <2>2, <1>1, <1>2, <1>4, <1>7 DEF SyncTurn, InTask, workVars
<1> QED
  BY <1>4, <1>5, <1>6, <1>8, <1>9, WorkerKeepsRest

\* The end of a task and the ticket that says so
LEMMA FinishTaskInvariant ==
  ASSUME PoolInv, NEW w \in Workers, FinishTask(w)
  PROVE  PoolInv' /\ Turns(w)' = Turns(w) + 1 /\ \A v \in Workers : v # w => Turns(v)' = Turns(v)
<1>1. Types /\ WorkerTurn(w) /\ TaskOfTurn(w) /\ SyncTurn(w) /\ w \in Threads
  BY Pool DEF PoolInv, Turn
<1>2. /\ pc[w] = "task" /\ pc' = [pc EXCEPT ![w] = "finished"] /\ run!Arrive(w)
      /\ readable' = [readable EXCEPT ![w] = published] /\ syncsLeft[w] = 0
      /\ finished' = [finished EXCEPT ![w] = Append(@, doing[w])]
      /\ doing' = [doing EXCEPT ![w] = NoTask]
      /\ UNCHANGED <<calls, task, exited, published, syncsLeft, syncVars>>
  BY DEF FinishTask, Go, WorkerTicket
<1>3. "finished" \in WorkerPlaces
  BY DEF WorkerPlaces
<1>4. /\ RunRounds' /\ SyncRounds'
      /\ runEntered' = [runEntered EXCEPT ![w] = @ + 1] /\ runReturned' = runReturned
  BY <1>1, <1>2, RunTicket, SyncUnchanged
<1>5. doing[w] \in Tasks /\ calls = Turns(w) + 1 /\ Turns(w) \in Nat /\ calls \in Nat
  <2>1. calls = Turns(w) + 1 /\ doing[w] = calls /\ Turns(w) \in Nat /\ calls \in 0..MaxTasks
    BY <1>1, <1>2, WhileExecuting, Counted DEF InTask, Types
  <2> QED
    BY <2>1, PoolAssumption DEF Tasks
<1>6. finished' \in [Workers -> Seq(Tasks)] /\ Len(finished'[w]) = Len(finished[w]) + 1
  BY <1>1, <1>2, <1>5 DEF Types
<1>7. Types'
  BY <1>1, <1>2, <1>3, <1>6, Goes DEF Types
<1>8. WorkerOnly(w)
  BY <1>1, <1>2, <1>3, <1>4, Goes, Counted DEF Types, WorkerOnly, syncVars
<1>9. /\ pc'[w] = "finished" /\ Turns(w)' = Turns(w) + 1
      /\ runEntered'[w] = runEntered[w] + 1 /\ runReturned'[w] = runReturned[w]
  BY <1>1, <1>2, <1>3, <1>4, <1>6, Goes, Counted DEF Turns
<1>10. WorkerTurn(w)' /\ TaskOfTurn(w)'
  BY <1>1, <1>2, <1>5, <1>9 DEF WorkerTurn, TaskOfTurn, InTask
<1>11. SyncTurn(w)'
  <2>1. syncEntered[w] = Syncs * Turns(w) + Syncs /\ syncReturned[w] = syncEntered[w]
    BY <1>1, <1>2, PoolAssumption DEF SyncTurn, InTask
  <2>2. Syncs * (Turns(w) + 1) = Syncs * Turns(w) + Syncs /\ Syncs * (Turns(w) + 1) \in Nat
    BY <1>5, PoolAssumption
  <2> QED
    BY <2>1, <2>2, <1>2, <1>9 DEF SyncTurn, InTask, syncVars
<1>12. \A v \in Workers : v # w => Turns(v)' = Turns(v)
  BY <1>8 DEF WorkerOnly, Turns
<1> QED
  BY <1>4, <1>7, <1>8, <1>9, <1>10, <1>11, <1>12, WorkerKeepsRest

LEMMA StepInvariant ==
  ASSUME LoadsAcquire, PoolInv, [Next]_vars
  PROVE  PoolInv'
<1>1. CASE MainStep
  BY <1>1, MainWrites, MainEnters, MainReturns DEF MainStep
<1>2. ASSUME NEW w \in Workers, WorkerStep(w) PROVE PoolInv'
  BY <1>2, CheckInvariant, ArriveInvariant, LeaveInvariant, LoadsAcquire, ReadTaskInvariant,
     BarrierInvariant, PassBarrierInvariant, FinishTaskInvariant DEF WorkerStep
<1>3. CASE UNCHANGED vars
  <2>1. RunRounds' /\ SyncRounds'
    BY <1>3, RunUnchanged, SyncUnchanged DEF vars
  <2>2. Types'
    BY <1>3 DEF PoolInv, Turn, Types, vars, memoryVars, workVars
  <2>3. (MainTurn /\ TaskOfCall)'
    BY <1>3, MainUndisturbed DEF vars, memoryVars, runVars
  <2>4. \A w \in Workers : (WorkerTurn(w) /\ TaskOfTurn(w) /\ SyncTurn(w))'
    BY <1>3, Counted, Undisturbed DEF vars, memoryVars, workVars, runVars, syncVars
  <2> QED
    BY <2>1, <2>2, <2>3, <2>4 DEF PoolInv, Turn
<1> QED
  BY <1>1, <1>2, <1>3 DEF Next

\* The invariant of the pool holds throughout.
THEOREM PoolInvariant == ASSUME LoadsAcquire PROVE Spec => []PoolInv
<1>1. PoolInv /\ [Next]_vars => PoolInv'
  BY LoadsAcquire, StepInvariant
<1> QED
  BY <1>1, InitInvariant, PTL DEF Spec

----------------------------------------------------------------------------
(* What follows from it *)

\* Every variable of the pool has its type, and a thread is in a barrier exactly
\* where its pc says so.
THEOREM PoolTypes == ASSUME LoadsAcquire PROVE Spec => []TypeOK
<1>1. ASSUME PoolInv PROVE TypeOK
  <2>1. Types
    BY <1>1 DEF PoolInv, Turn
  <2>2. run!TypeOK /\ sync!TypeOK
    BY <1>1 DEF PoolInv, RunRounds, SyncRounds, Rounds, RoundTypes, run!TypeOK, sync!TypeOK
  <2>3. ASSUME NEW w \in Workers
        PROVE  /\ run!Waiting(w) <=> pc[w] \in {"arrived", "finished"}
               /\ sync!Waiting(w) <=> pc[w] = "sync"
    <3>1. /\ runEntered[w] \in Nat /\ syncEntered[w] \in Nat /\ Turns(w) \in Nat
          /\ pc[w] \in WorkerPlaces /\ WorkerTurn(w) /\ SyncTurn(w)
      BY <1>1, <2>1, Pool, Counted DEF PoolInv, Turn, Types
    <3>2. runEntered[w] > runReturned[w] <=> pc[w] \in {"arrived", "finished"}
      BY <3>1 DEF WorkerTurn, WorkerPlaces
    <3>3. syncEntered[w] > syncReturned[w] <=> pc[w] = "sync"
      BY <3>1 DEF SyncTurn
    <3> QED
      BY <3>2, <3>3 DEF run!Waiting, sync!Waiting
  <2> QED
    BY <2>1, <2>2, <2>3 DEF Types, TypeOK
<1> QED
  BY <1>1, PoolInvariant, LoadsAcquire, PTL

\* While a worker executes a task m_current_task is that task, and it is empty
\* when run() may be called: async_run never asserts.
THEOREM TaskOutlivesWork == ASSUME LoadsAcquire PROVE Spec => []TaskStaysValid
<1>1. ASSUME PoolInv PROVE TaskStaysValid
  <2>1. \A w \in Workers : pc[w] \in {"task", "sync"} => task = doing[w]
    BY <1>1, WhileExecuting DEF InTask
  <2>2. pc[Main] = "idle" => task = NoTask
    BY <1>1 DEF PoolInv, Turn, TaskOfCall, HasTask
  <2> QED
    BY <2>1, <2>2 DEF TaskStaysValid
<1> QED
  BY <1>1, PoolInvariant, LoadsAcquire, PTL

\* No worker gets past a barrier() of a task that another has not reached, and
\* barriers of different tasks are not mixed up, for any number of them.
THEOREM PhasesNeverMix == ASSUME LoadsAcquire PROVE Spec => []PhasesAligned
<1>1. ASSUME PoolInv PROVE PhasesAligned
  <2>1. SUFFICES ASSUME InRun, NEW v \in Workers, NEW w \in Workers PROVE Passed(v) <= Begun(w)
    BY DEF PhasesAligned
  <2> DEFINE before == Syncs * (calls - 1)
  <2>2. calls \in Nat /\ calls > 0 /\ Syncs \in Nat /\ before \in Nat
    <3>1. calls \in Nat /\ calls > 0
      BY <1>1, <2>1, Counted DEF PoolInv, Turn, TaskOfCall, HasTask, InRun
    <3> QED
      BY <3>1, PoolAssumption
  <2>3. ASSUME NEW u \in Workers
        PROVE  /\ syncEntered[u] = before + Begun(u) /\ syncReturned[u] = before + Passed(u)
               /\ Begun(u) \in Int /\ Passed(u) \in Int
    <3>1. /\ Turns(u) \in {calls - 1, calls} /\ (InTask(u) => Turns(u) = calls - 1)
          /\ syncsLeft[u] \in Int
      <4>1. Turns(u) \in Nat /\ Turns(u) <= calls /\ Turns(u) >= calls - 1
        BY <1>1, <2>1, TurnsOfCall, Counted
      <4>2. InTask(u) => calls = Turns(u) + 1
        BY <1>1, WhileExecuting
      <4>3. syncsLeft[u] \in 0..Syncs
        BY <1>1 DEF PoolInv, Turn, Types
      <4> QED
        BY <4>1, <4>2, <4>3, <2>2
    <3>2. SyncTurn(u)
      BY <1>1 DEF PoolInv, Turn
    <3>3. syncEntered[u] = before + Begun(u) /\ Begun(u) \in Int
      <4>1. CASE Turns(u) = calls
        <5>1. ~InTask(u) /\ Begun(u) = Syncs
          BY <4>1, <3>1, <2>2 DEF Begun, Turns
        <5>2. syncEntered[u] = Syncs * calls
          BY <4>1, <5>1, <3>2, <2>2 DEF SyncTurn
        <5> QED
          BY <5>1, <5>2, <2>2
      <4>2. CASE Turns(u) = calls - 1
        <5>1. Begun(u) = IF InTask(u) THEN Syncs - syncsLeft[u] ELSE 0
          BY <4>2, <2>2 DEF Begun, Turns, InTask
        <5> QED
          BY <5>1, <4>2, <3>1, <3>2, <2>2 DEF SyncTurn
      <4> QED
        BY <4>1, <4>2, <3>1
    <3>4. syncReturned[u] = before + Passed(u) /\ Passed(u) \in Int
      <4> HIDE DEF before
      <4> QED
        BY <3>2, <3>3, <2>2 DEF SyncTurn, Passed
    <3> QED
      BY <3>3, <3>4
  <2>4. syncReturned[v] <= syncEntered[w]
    BY <1>1, RoundsTogether DEF PoolInv, SyncRounds
  <2> HIDE DEF before
  <2> QED
    BY <2>2, <2>3, <2>4
<1> QED
  BY <1>1, PoolInvariant, LoadsAcquire, PTL

----------------------------------------------------------------------------
(* The pool implements ForkJoin *)

Done == {w \in Workers : Len(finished[w]) = calls}

\* A step that changes no variable of ForkJoin
LEMMA Stutter ==
  ASSUME calls' = calls, finished' = finished, InRun' = InRun
  PROVE  UNCHANGED Promise!vars
  BY DEF Promise!vars

LEMMA MainImplements ==
  ASSUME PoolInv, PoolInv', MainStep
  PROVE  [Promise!Next]_(Promise!vars)
<1>1. DOMAIN pc = Threads /\ Main \in Threads /\ calls \in Nat
  BY Pool, Counted DEF PoolInv, Turn, Types
<1>2. CASE AsyncRun
  <2>1. ~InRun /\ InRun' /\ calls' = calls + 1 /\ finished' = finished
    BY <1>1, <1>2, Pool DEF AsyncRun, Go, InRun, workVars, PoolInv, Turn, Types
  <2>2. Done' = {}
    <3>1. \A w \in Workers : Turns(w) \in Nat /\ Turns(w) <= calls
      BY Counted, TurnsOfCall
    <3> QED
      BY <1>1, <2>1, <3>1 DEF Done, Turns
  <2> QED
    BY <2>1, <2>2 DEF Promise!Next, Promise!Submit, Done
<1>3. CASE Waited
  <2>1. InRun /\ ~InRun' /\ calls' = calls /\ finished' = finished
    BY <1>1, <1>3, Pool DEF Waited, Go, InRun, workVars, PoolInv, Turn, Types
  <2>2. Done = Workers
    <3>1. ASSUME NEW w \in Workers PROVE Turns(w) = calls
      <4>1. runReturned[Main] + 1 <= runEntered[w]
        BY <1>3, Pool, RunRelease DEF Waited
      <4>2. runReturned[Main] = 2 * calls - 1
        BY <1>3 DEF Waited, Go, PoolInv, Turn, MainTurn
      <4>3. /\ Turns(w) \in Nat /\ Turns(w) <= calls
            /\ pc[w] \in WorkerPlaces /\ WorkerTurn(w)
        BY Counted, TurnsOfCall DEF PoolInv, Turn, Types
      <4>4. runEntered[w] \in {2 * Turns(w), 2 * Turns(w) + 1}
        BY <4>3 DEF WorkerTurn, WorkerPlaces
      <4> QED
        BY <1>1, <4>1, <4>2, <4>3, <4>4
    <3> QED
      BY <3>1 DEF Done, Turns
  <2> QED
    BY <2>1, <2>2 DEF Promise!Next, Promise!Return, Done
<1>4. CASE Kick \/ Kicked \/ Wait \/ ClearTask \/ Destroy \/ Close \/ Closed \/ Join
  <2>1. calls' = calls /\ finished' = finished /\ InRun' = InRun
    BY <1>4, <1>1, Pool
       DEF Kick, Kicked, Wait, ClearTask, Destroy, Close, Closed, Join, Go, InRun, workVars,
           PoolInv, Turn, Types
  <2> QED
    BY <2>1, Stutter
<1> QED
  BY <1>2, <1>3, <1>4 DEF MainStep

LEMMA WorkerImplements ==
  ASSUME PoolInv, NEW w \in Workers, WorkerStep(w)
  PROVE  [Promise!Next]_(Promise!vars)
<1>1. calls' = calls /\ InRun' = InRun
  <2>1. calls' = calls
    BY DEF WorkerStep, Check, Arrive, Leave, ReadTask, Barrier, PassBarrier, FinishTask, LeaveTask
  <2>2. \E to : pc' = [pc EXCEPT ![w] = to]
    BY DEF WorkerStep, Check, Arrive, Leave, ReadTask, Barrier, PassBarrier, FinishTask,
           LeaveTask, Go
  <2>3. pc'[Main] = pc[Main]
    BY <2>2, Pool DEF PoolInv, Turn, Types
  <2> QED
    BY <2>1, <2>3 DEF InRun
<1>2. CASE FinishTask(w)
  <2>1. /\ Turns(w)' = Turns(w) + 1
        /\ \A v \in Workers : v # w => Turns(v)' = Turns(v)
    BY <1>2, FinishTaskInvariant
  <2>2. /\ pc[Main] \in {"kicking", "running", "waiting"} /\ calls = Turns(w) + 1
        /\ Turns(w) \in Nat
    BY <1>2, WhileExecuting, Counted DEF FinishTask, Go, InTask
  <2>3. InRun /\ w \notin Done /\ Done' = Done \cup {w}
    BY <1>1, <2>1, <2>2 DEF InRun, Done, Turns
  <2> QED
    BY <1>1, <2>3 DEF Promise!Next, Promise!Execute, Done
<1>3. CASE ~FinishTask(w)
  <2>1. finished' = finished
    BY <1>3 DEF WorkerStep, Check, Arrive, Leave, ReadTask, Barrier, PassBarrier, LeaveTask,
                workVars
  <2> QED
    BY <1>1, <2>1, Stutter
<1> QED
  BY <1>2, <1>3

\* run() is blocking and has every worker execute its task exactly once: the pool
\* with its two barriers implements ForkJoin.
THEOREM PoolImplementsForkJoin == ASSUME LoadsAcquire PROVE Spec => RunsOnEveryWorker
<1>1. Init => Promise!Init
  BY Pool DEF Init, Promise!Init, InRun, NoTask
<1>2. PoolInv /\ PoolInv' /\ [Next]_vars => [Promise!Next]_(Promise!vars)
  <2>1. CASE UNCHANGED vars
    BY <2>1, Stutter DEF vars, workVars, InRun
  <2> QED
    BY <2>1, MainImplements, WorkerImplements DEF Next
<1> QED
  BY <1>1, <1>2, PoolInvariant, LoadsAcquire, PTL DEF Spec, RunsOnEveryWorker, Promise!Spec
=============================================================================
