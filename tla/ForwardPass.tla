------------------------------ MODULE ForwardPass ------------------------------
(***************************************************************************)
(* Forward passes on the CPU: LlamaModel::forward makes a graph, Executor  *)
(* runs its operators in order, GGMLBackend runs the expensive ones on     *)
(* all threads of the pool, and advance() adds the batch to the KV cache.  *)
(*                                                                         *)
(* Numbers are abstracted to whether they are right: a tensor is, when     *)
(* everything it was computed from was, and all of it has been computed.   *)
(* Products go through the steps of MulMat.  In the other operators the    *)
(* threads share nothing but the work buffer, so each does its part in one *)
(* step; what runs on the calling thread alone is one step.                *)
(***************************************************************************)
EXTENDS MulMat, ModelGraph

CONSTANTS Ctx,        \* n_ctx, entries of the KV cache
          Calls,      \* forward() is called with a batch of this size, with or without lm_head
          MaxPasses,  \* bound: forward passes
          FloatSize,  \* bytes
          Line,       \* bytes of a cache line
          QuantSize   \* bytes of a number in the type that activations are converted to

ASSUME PassAssumption ==
  /\ Ctx \in Nat \ {0} /\ MaxPasses \in Nat
  /\ Calls \subseteq [batch : Nat \ {0}, lmHead : BOOLEAN]
  /\ FloatSize \in Nat \ {0} /\ QuantSize \in Nat \ {0}
  /\ Line \in Nat \ {0} /\ Line % FloatSize = 0

VARIABLES
  status,    \* "running", or "overrun" when a thread has left the work buffer
  ops,       \* m_graph.ops of the pass, empty between two passes
  batch,     \* its size
  next,      \* the operator that runs
  doneBy,    \* threads that have done their part of it
  written,   \* the units of its output that are computed
  right,     \* tensors of this pass that hold what they should
  cache,     \* entries <<layer, "k" or "v", position>> that hold what they should
  position,  \* of the KV cache
  wsize,     \* bytes of the work buffer
  passes     \* forward passes so far

executorVars == <<status, ops, batch, next, doneBy, written, right, cache, position, wsize, passes>>
passVars == <<mulMatVars, executorVars>>

Current == ops[next]
Running == ops # <<>>
Executes(kind) == status = "running" /\ next <= Len(ops) /\ Current.op = kind

----------------------------------------------------------------------------
(* The work buffer *)

Larger(a, b) == IF a >= b THEN a ELSE b
Smaller(a, b) == IF a <= b THEN a ELSE b

\* Bytes that plan() asks for an operator
Work(op) ==
  CASE op.op = "MAT_MUL" /\ op.convert -> QuantSize * op.depth * op.units
    [] op.op = "SOFTMAX_EXT"           -> FloatSize * op.len * Smaller(Width, op.units)
    [] op.op = "ROPE"                  -> FloatSize * op.len * Width
    [] OTHER                           -> 0

\* (broken variant: the last operator decides)
PlanLast(s) == IF s = <<>> THEN 0 ELSE Work(Last(s))

\* plan() forgets what it has collected whenever it meets one of these.
Plan(s) ==
  LET size[i \in 0..Len(s)] ==
        IF i = 0 \/ s[i].op \in {"PERMUTE", "CONT", "GET_MASK", "GET_EMBEDDING"}
        THEN 0 ELSE Larger(size[i-1], Work(s[i]))
  IN  size[Len(s)]

\* (broken variant: no gaps between the areas of the threads)
SetupWorkDataTight(size, asked) == IF asked <= size THEN size ELSE asked

\* setup_work_data: the buffer only grows.
SetupWorkData(size, asked) == IF asked <= size THEN size ELSE asked + Line * Width

\* The end of the area of thread p, for operators where each has one of len floats
AreaEnd(p, len) == (len * FloatSize + Line) * p + len * FloatSize

----------------------------------------------------------------------------
(* One pass *)

\* Entries of layer L from one position up to another
Entries(L, kind, from, to) == {<<L, kind, i>> : i \in from..to-1}

\* The half of the cache that a view is of
Kind(view) == IF view[1] \in {"k_cache", "k_cache_view"} THEN "k" ELSE "v"

\* The entries that an operator reads through a view of the whole cache
Reads(op) ==
  UNION {Entries(t[2], Kind(t), 0, position + batch) :
           t \in {view \in op.ins : view[1] \in {"k_cache", "v_cache"}}}

\* What an operator reads is there and right.
Operands(op) == op.ins \subseteq right /\ Reads(op) \subseteq cache

\* allocate_buffers, plan() and the start of run()
StartPass(call) ==
  /\ status = "running" /\ ~Running
  /\ passes < MaxPasses
  /\ position + call.batch <= Ctx     \* TokenIterator shows what happens otherwise.
  /\ ops' = ForwardGraph(position, call.batch, call.lmHead)
  /\ batch' = call.batch /\ next' = 1
  /\ wsize' = SetupWorkData(wsize, Plan(ForwardGraph(position, call.batch, call.lmHead)))
  /\ passes' = passes + 1
  /\ UNCHANGED <<mulMatVars, status, doneBy, written, right, cache, position>>

\* The operator is over; its output is right if `complete' and made from what is.
Conclude(complete) ==
  /\ right' = IF complete /\ Operands(Current) THEN right \cup {Current.out} ELSE right
  /\ next' = next + 1
  /\ doneBy' = {} /\ written' = {}

\* Operators on the calling thread. They are pointers and strides, or a loop.
MainThread ==
  /\ \E kind \in {"GET_EMBEDDING", "GET_MASK", "VIEW", "PERMUTE", "TRANSPOSE", "SILU_HADAMARD"} :
       Executes(kind)
  /\ Conclude(TRUE)
  /\ UNCHANGED <<mulMatVars, status, ops, batch, cache, position, wsize, passes>>

\* A thread does its part of an operator and needs the work buffer up to `area'.
Kernel(kind, p, part, area) ==
  /\ Executes(kind) /\ p \notin doneBy
  /\ doneBy' = doneBy \cup {p}
  /\ written' = written \cup part
  /\ status' = IF area <= wsize THEN status ELSE "overrun"
  /\ UNCHANGED <<mulMatVars, ops, batch, next, right, cache, position, wsize, passes>>

\* Rows p, p + nth, p + 2 nth and so on
RowsOf(p) == {i \in 0..Current.units-1 : i % Width = p}

\* (nr + nth - 1) / nth rows in a row
BlockOf(p) == Part(p, Width, Current.units)

RmsNorm(p) == Kernel("RMS_NORM", p, RowsOf(p), 0)

Add(p) == Kernel("ADD", p, BlockOf(p), 0)

\* The angles of a token go to the work buffer, whether a thread has rows or not.
Rope(p) == Kernel("ROPE", p, BlockOf(p), AreaEnd(p, Current.len))

\* A row at a time is prepared in the work buffer.
SoftmaxExt(p) ==
  Kernel("SOFTMAX_EXT", p, BlockOf(p), IF BlockOf(p) = {} THEN 0 ELSE AreaEnd(p, Current.len))

Cont(p) == Kernel("CONT", p, BlockOf(p), 0)

Copy(p) == Kernel("COPY", p, BlockOf(p), 0)

\* run() returns when all threads are through the task.
Returns == status = "running" /\ doneBy = Threads

Complete == written = 0..Current.units-1

EndKernel ==
  /\ Returns /\ Current.op # "COPY"
  /\ Conclude(Complete)
  /\ UNCHANGED <<mulMatVars, status, ops, batch, cache, position, wsize, passes>>

\* A COPY has written the entries that its view points to: the first ones of the
\* cache as long as the VIEW has not been executed.
EndCopy ==
  /\ Returns /\ Current.op = "COPY"
  /\ Conclude(Complete)
  /\ \E view \in Current.ins :
       /\ view[1] \in {"k_cache_view", "v_cache_view"}
       /\ LET to  == IF view \in right THEN position ELSE 0
              new == Entries(view[2], Kind(view), to, to + batch)
          IN  cache' = IF Complete /\ Operands(Current) THEN cache \cup new ELSE cache \ new
  /\ UNCHANGED <<mulMatVars, status, ops, batch, position, wsize, passes>>

StartProduct ==
  /\ Executes("MAT_MUL")
  /\ Begin([rows |-> Current.len, cols |-> Current.units, convert |-> Current.convert])
  /\ UNCHANGED executorVars

Product(p) ==
  /\ status = "running" /\ MulMatThread(p)
  /\ UNCHANGED executorVars

EndProduct ==
  /\ status = "running" /\ End
  /\ Conclude(/\ converted = Columns(shape)
              /\ Elements(shape) = UNION {Output(p) : p \in Threads})
  /\ UNCHANGED <<status, ops, batch, cache, position, wsize, passes>>

\* (broken variant: the token that has been sampled is counted as well)
EndPassOneMore ==
  /\ status = "running" /\ Running /\ next > Len(ops)
  /\ position' = position + batch + 1
  /\ ops' = <<>> /\ batch' = 0 /\ next' = 1 /\ right' = {}
  /\ UNCHANGED <<mulMatVars, status, doneBy, written, cache, wsize, passes>>

\* advance(), and the graph goes.
EndPass ==
  /\ status = "running" /\ Running /\ next > Len(ops)
  /\ position' = position + batch
  /\ ops' = <<>> /\ batch' = 0 /\ next' = 1 /\ right' = {}
  /\ UNCHANGED <<mulMatVars, status, doneBy, written, cache, wsize, passes>>

\* reset_kv_cache() before another text
NewGeneration ==
  /\ status = "running" /\ ~Running
  /\ position > 0 /\ passes < MaxPasses
  /\ position' = 0
  /\ cache' = {}
  /\ UNCHANGED <<mulMatVars, status, ops, batch, next, doneBy, written, right, wsize, passes>>

PoolThread(p) ==
  \/ Product(p)
  \/ RmsNorm(p) \/ Add(p) \/ Rope(p) \/ SoftmaxExt(p) \/ Cont(p) \/ Copy(p)

Execute == MainThread \/ StartProduct \/ EndProduct \/ EndKernel \/ EndCopy \/ EndPass

PassInit ==
  /\ MulMatInit
  /\ status = "running"
  /\ ops = <<>> /\ batch = 0 /\ next = 1
  /\ doneBy = {} /\ written = {} /\ right = {}
  /\ cache = {} /\ position = 0
  /\ wsize = 0 /\ passes = 0

PassNext ==
  \/ \E call \in Calls : StartPass(call)
  \/ NewGeneration
  \/ Execute
  \/ \E p \in Threads : PoolThread(p)

PassSpec == PassInit /\ [][PassNext]_passVars

\* As long as a thread of the pool or the calling thread can go on, one does.
PassFairSpec == PassSpec /\ WF_passVars(Execute \/ \E p \in Threads : PoolThread(p))

----------------------------------------------------------------------------
(* Properties *)

\* Types; a product is under way only in a MAT_MUL, and threads have done their
\* parts and written their units only of the operator that runs.
PassTypeOK ==
  /\ MulMatTypeOK
  /\ status \in {"running", "overrun"}
  /\ batch \in Nat /\ next \in 1..Len(ops)+1
  /\ cache \subseteq (1..Layers) \X {"k", "v"} \X (0..Ctx-1)
  /\ position \in 0..Ctx /\ wsize \in Nat /\ passes \in 0..MaxPasses
  /\ (\E p \in Threads : at[p] # "idle") => Executes("MAT_MUL")
  /\ doneBy \subseteq Threads
  /\ doneBy # {} => Running /\ next <= Len(ops)
  /\ \A i \in written : doneBy # {} /\ i \in 0..Current.units-1

\* Every operator computes what it should from what it should, in spite of the
\* work being divided among threads and of the cache having no edges in the graph:
\* what the operators before this one have made is right, and so is what it reads.
ComputesRight ==
  /\ \A i \in 1..next-1 : ops[i].out \in right \cup {NoTensor}
  /\ Running /\ next <= Len(ops) => Operands(Current)

\* The cache has the keys and values of all layers for every position that
\* advance() has passed, also while the next batch is being written.
CacheComplete ==
  \A L \in 1..Layers, kind \in {"k", "v"} : Entries(L, kind, 0, position) \subseteq cache

\* The assertion of powerserve_compute_forward_mul_mat: the converted activations
\* fit into the work buffer, although plan() forgets sizes on its way.
RowsFit ==
  Executes("MAT_MUL") /\ Current.convert => QuantSize * Current.depth * Current.units <= wsize

\* No thread leaves the "work buffer for all threads" (ggml.h).
AreasFit == status # "overrun"

\* A forward pass comes to its end.
PassEnds == Running ~> ~Running
=============================================================================
