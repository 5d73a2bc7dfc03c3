------------------------------ MODULE ThreadPool ------------------------------
(***************************************************************************)
(* The worker pool of src/core/thread_pool.cpp, which executes the         *)
(* operators of the GGML backend.  Main is the thread that owns the pool   *)
(* and calls run(); it never executes a task itself.                       *)
(*                                                                         *)
(* Everything is synchronised by two spinning barriers: the run barrier,   *)
(* which main and all workers pass twice per task, and the sync barrier,   *)
(* on which the workers meet inside a task.  m_current_task and m_exited   *)
(* are read and written between them without a lock.                       *)
(*                                                                         *)
(* m_current_task is not atomic, and the load that ends the spinning of a  *)
(* barrier is relaxed.  On x86-64 every load acquires.  On AArch64, the    *)
(* other build, a worker that took its ticket before main did is not       *)
(* ordered after main's write, and may read any value m_current_task has   *)
(* had since the write its own ticket made visible to it.                  *)
(***************************************************************************)
EXTENDS Integers, Sequences, FiniteSets

CONSTANTS Workers,        \* the threads of the pool
          Main,           \* the thread that owns it
          Syncs,          \* calls of barrier() in a task
          LoadsAcquire,   \* whether a relaxed load acquires: the build
          MaxTasks        \* bound: calls of run()

Threads == Workers \cup {Main}

ASSUME PoolAssumption ==
  /\ IsFiniteSet(Workers) /\ Workers # {} /\ Main \notin Workers
  /\ Syncs \in Nat /\ LoadsAcquire \in BOOLEAN /\ MaxTasks \in Nat

VARIABLES
  pc,          \* where each thread is
  task,        \* m_current_task
  exited,      \* m_exited
  calls,       \* calls of run() so far; the last one runs task number `calls'
  doing,       \* the task each worker executes
  syncsLeft,   \* calls of barrier() each worker has left in it
  finished,    \* history: the tasks each worker has executed
  published,   \* values of task since main's last ticket
  readable,    \* values of task each worker may read
  runCount, runTarget, runEntered, runReturned,      \* m_run_barrier
  syncCount, syncTarget, syncEntered, syncReturned   \* m_sync_barrier

memoryVars == <<task, exited, published, readable>>
workVars == <<doing, syncsLeft, finished>>
runVars == <<runCount, runTarget, runEntered, runReturned>>
syncVars == <<syncCount, syncTarget, syncEntered, syncReturned>>
vars == <<pc, calls, memoryVars, workVars, runVars, syncVars>>

run == INSTANCE SpinBarrier WITH
  Threads <- Threads, count <- runCount, target <- runTarget,
  entered <- runEntered, returned <- runReturned

sync == INSTANCE SpinBarrier WITH
  Threads <- Workers, count <- syncCount, target <- syncTarget,
  entered <- syncEntered, returned <- syncReturned

NoTask == 0
Tasks == 1..MaxTasks

Go(p, from, to) == pc[p] = from /\ pc' = [pc EXCEPT ![p] = to]

WriteTask(v) ==
  /\ task' = v
  /\ published' = published \cup {v}
  /\ readable' = [w \in Workers |-> readable[w] \cup {v}]

\* A ticket releases what its thread wrote and acquires what others released.
MainTicket ==
  /\ run!Arrive(Main)
  /\ published' = {task}
  /\ UNCHANGED <<task, exited, readable>>

WorkerTicket(w) ==
  /\ run!Arrive(w)
  /\ readable' = [readable EXCEPT ![w] = published]
  /\ UNCHANGED <<task, exited, published>>

----------------------------------------------------------------------------
(* Main: async_run, wait, and the destructor *)

\* (broken variant: the task is set after the workers have been kicked off)
AsyncRunLate ==
  /\ calls < MaxTasks /\ task = NoTask
  /\ Go(Main, "idle", "kick")
  /\ calls' = calls + 1
  /\ UNCHANGED <<memoryVars, workVars, runVars, syncVars>>

AsyncRun ==
  /\ calls < MaxTasks /\ task = NoTask
  /\ Go(Main, "idle", "kick")
  /\ calls' = calls + 1
  /\ WriteTask(calls + 1)
  /\ UNCHANGED <<exited, workVars, runVars, syncVars>>

Kick ==
  /\ Go(Main, "kick", "kicking") /\ MainTicket
  /\ UNCHANGED <<calls, workVars, syncVars>>

Kicked ==
  /\ Go(Main, "kicking", "running") /\ run!Leave(Main)
  /\ UNCHANGED <<calls, memoryVars, workVars, syncVars>>

\* (broken variant: clears the task before the workers are done with it)
WaitClearsEarly ==
  /\ Go(Main, "running", "waiting")
  /\ run!Arrive(Main)
  /\ task' = NoTask /\ published' = {NoTask}
  /\ UNCHANGED <<exited, readable, calls, workVars, syncVars>>

Wait ==
  /\ Go(Main, "running", "waiting") /\ MainTicket
  /\ UNCHANGED <<calls, workVars, syncVars>>

Waited ==
  /\ Go(Main, "waiting", "clear") /\ run!Leave(Main)
  /\ UNCHANGED <<calls, memoryVars, workVars, syncVars>>

ClearTask ==
  /\ Go(Main, "clear", "idle")
  /\ WriteTask(NoTask)
  /\ UNCHANGED <<exited, calls, workVars, runVars, syncVars>>

Destroy ==
  /\ Go(Main, "idle", "close")
  /\ exited' = TRUE
  /\ UNCHANGED <<task, published, readable, calls, workVars, runVars, syncVars>>

Close ==
  /\ Go(Main, "close", "closing") /\ MainTicket
  /\ UNCHANGED <<calls, workVars, syncVars>>

Closed ==
  /\ Go(Main, "closing", "joining") /\ run!Leave(Main)
  /\ UNCHANGED <<calls, memoryVars, workVars, syncVars>>

Join ==
  /\ Go(Main, "joining", "gone")
  /\ \A w \in Workers : pc[w] = "exited"
  /\ UNCHANGED <<calls, memoryVars, workVars, runVars, syncVars>>

MainStep ==
  \/ AsyncRun \/ Kick \/ Kicked \/ Wait \/ Waited \/ ClearTask
  \/ Destroy \/ Close \/ Closed \/ Join

----------------------------------------------------------------------------
(* Workers: thread_main and the tasks it calls *)

Check(w) ==
  /\ Go(w, "check", IF exited THEN "exited" ELSE "arrive")
  /\ UNCHANGED <<calls, memoryVars, workVars, runVars, syncVars>>

Arrive(w) ==
  /\ Go(w, "arrive", "arrived") /\ WorkerTicket(w)
  /\ UNCHANGED <<calls, workVars, syncVars>>

Leave(w) ==
  /\ Go(w, "arrived", "read") /\ run!Leave(w)
  /\ UNCHANGED <<calls, memoryVars, workVars, syncVars>>

ReadTask(w) ==
  \E seen \in IF LoadsAcquire THEN {task} ELSE readable[w] :
    /\ Go(w, "read", IF seen = NoTask THEN "check" ELSE "task")
    /\ doing' = [doing EXCEPT ![w] = seen]
    /\ syncsLeft' = [syncsLeft EXCEPT ![w] = IF seen = NoTask THEN 0 ELSE Syncs]
    /\ UNCHANGED <<calls, finished, memoryVars, runVars, syncVars>>

Barrier(w) ==
  /\ syncsLeft[w] > 0
  /\ Go(w, "task", "sync") /\ sync!Arrive(w)
  /\ syncsLeft' = [syncsLeft EXCEPT ![w] = @ - 1]
  /\ UNCHANGED <<calls, doing, finished, memoryVars, runVars>>

\* (broken variant: does not wait for the other workers)
PassBarrierAlone(w) ==
  /\ Go(w, "sync", "task")
  /\ syncReturned' = [syncReturned EXCEPT ![w] = @ + 1]
  /\ UNCHANGED <<calls, memoryVars, workVars, runVars, syncCount, syncTarget, syncEntered>>

PassBarrier(w) ==
  /\ Go(w, "sync", "task") /\ sync!Leave(w)
  /\ UNCHANGED <<calls, memoryVars, workVars, runVars>>

\* (broken variant: takes no ticket)
FinishQuietly(w) ==
  /\ syncsLeft[w] = 0
  /\ Go(w, "task", "finished")
  /\ finished' = [finished EXCEPT ![w] = Append(@, doing[w])]
  /\ doing' = [doing EXCEPT ![w] = NoTask]
  /\ UNCHANGED <<calls, syncsLeft, memoryVars, runVars, syncVars>>

\* The end of the task and the ticket that says so
FinishTask(w) ==
  /\ syncsLeft[w] = 0
  /\ Go(w, "task", "finished") /\ WorkerTicket(w)
  /\ finished' = [finished EXCEPT ![w] = Append(@, doing[w])]
  /\ doing' = [doing EXCEPT ![w] = NoTask]
  /\ UNCHANGED <<calls, syncsLeft, syncVars>>

LeaveTask(w) ==
  /\ Go(w, "finished", "check") /\ run!Leave(w)
  /\ UNCHANGED <<calls, memoryVars, workVars, syncVars>>

WorkerStep(w) ==
  \/ Check(w) \/ Arrive(w) \/ Leave(w) \/ ReadTask(w)
  \/ Barrier(w) \/ PassBarrier(w) \/ FinishTask(w) \/ LeaveTask(w)

----------------------------------------------------------------------------
Init ==
  /\ pc = [p \in Threads |-> IF p = Main THEN "idle" ELSE "check"]
  /\ task = NoTask /\ exited = FALSE /\ calls = 0
  /\ doing = [w \in Workers |-> NoTask]
  /\ syncsLeft = [w \in Workers |-> 0]
  /\ finished = [w \in Workers |-> <<>>]
  /\ published = {NoTask} /\ readable = [w \in Workers |-> {NoTask}]
  /\ run!Init /\ sync!Init

Next == MainStep \/ (\E w \in Workers : WorkerStep(w))

Spec == Init /\ [][Next]_vars

\* Main's steps inside run() and inside the destructor; it is free to call
\* neither.
InCall == pc[Main] # "idle" /\ MainStep

\* The operating system runs every thread.
FairSpec == Spec /\ WF_vars(InCall) /\ \A w \in Workers : WF_vars(WorkerStep(w))

----------------------------------------------------------------------------
(* Properties *)

MainPlaces == {"idle", "kick", "kicking", "running", "waiting", "clear",
               "close", "closing", "joining", "gone"}
WorkerPlaces == {"check", "arrive", "arrived", "read", "task", "sync", "finished", "exited"}

\* Every variable has its type; a worker is in a barrier exactly where its pc
\* says so.
TypeOK ==
  /\ pc[Main] \in MainPlaces /\ \A w \in Workers : pc[w] \in WorkerPlaces
  /\ task \in Tasks \cup {NoTask} /\ exited \in BOOLEAN /\ calls \in 0..MaxTasks
  /\ doing \in [Workers -> Tasks \cup {NoTask}] /\ syncsLeft \in [Workers -> 0..Syncs]
  /\ finished \in [Workers -> Seq(Tasks)]
  /\ published \subseteq Tasks \cup {NoTask}
  /\ readable \in [Workers -> SUBSET (Tasks \cup {NoTask})]
  /\ run!TypeOK /\ sync!TypeOK
  /\ \A w \in Workers : run!Waiting(w) <=> pc[w] \in {"arrived", "finished"}
  /\ \A w \in Workers : sync!Waiting(w) <=> pc[w] = "sync"

\* run() is blocking and uses every worker once (thread_pool.hpp:42): the pool
\* implements ForkJoin. A call counts as returned when main is past the barrier
\* of wait().
InRun == pc[Main] \in {"kick", "kicking", "running", "waiting"}
Promise == INSTANCE ForkJoin WITH
  busy <- InRun, done <- {w \in Workers : Len(finished[w]) = calls}
RunsOnEveryWorker == Promise!Spec

\* m_current_task is not touched while a worker executes it, though main writes
\* it without a lock (async_run, wait), and it is empty when run() may be called.
TaskStaysValid ==
  /\ \A w \in Workers : pc[w] \in {"task", "sync"} => task = doing[w]
  /\ pc[Main] = "idle" => task = NoTask

\* Calls of barrier() in the current task that w has made, or returned from
Begun(w) ==
  IF Len(finished[w]) = calls THEN Syncs
  ELSE IF pc[w] \in {"task", "sync"} THEN Syncs - syncsLeft[w] ELSE 0
Passed(w) == IF pc[w] = "sync" THEN Begun(w) - 1 ELSE Begun(w)

\* Inside a task no worker gets past a barrier() that another has not reached,
\* and the barriers of one task are never mixed up with those of another.
PhasesAligned == InRun => \A v, w \in Workers : Passed(v) <= Begun(w)

\* Every call of run() returns.
RunReturns == pc[Main] = "kick" ~> pc[Main] = "idle"

\* The destructor returns: its barrier completes and every worker exits.
DestructorReturns == pc[Main] = "close" ~> pc[Main] = "gone"
=============================================================================
