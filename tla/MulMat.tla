-------------------------------- MODULE MulMat --------------------------------
(***************************************************************************)
(* Matrix multiplication on all threads of the pool,                       *)
(* powerserve_compute_forward_mul_mat in libs/ggml/src/ggml.c, called by   *)
(* GGMLBackend::matmul.                                                    *)
(*                                                                         *)
(* Every thread converts its share of the activations into the work        *)
(* buffer; thread 0 sets the shared counter of chunks; all meet at the     *)
(* barrier of the pool.  Then each computes the chunk of its own number    *)
(* and goes on with what the counter hands out.  The calls come one after  *)
(* the other, because ThreadPool::run returns when all threads are done    *)
(* (ForkJoin).                                                             *)
(*                                                                         *)
(* An element of the result is <<row, column>>, a row of the weights and a *)
(* column of the activations (src0 and src1 in the code).                  *)
(***************************************************************************)
EXTENDS SpinBarrier

CONSTANTS ChunkSize,        \* 16 in the code
          VectorChunkSize,  \* 64 in the code, when a matrix is a vector
          RowsPerDot        \* columns that a dot kernel computes at once: the build

ASSUME MulMatAssumption ==
  /\ Threads = 0..Cardinality(Threads)-1
  /\ ChunkSize \in Nat \ {0} /\ VectorChunkSize \in Nat \ {0}
  /\ RowsPerDot \in {1, 2}

\* Rows and columns of the result, and whether the activations have to be converted
Shapes == [rows : Nat \ {0}, cols : Nat \ {0}, convert : BOOLEAN]

VARIABLES
  shape,         \* of the current product
  at,            \* where each thread is
  chunk,         \* the local current_chunk of each thread
  currentChunk,  \* the shared counter
  converted,     \* columns of the activations that are in the work buffer
  taken          \* the chunks each thread has computed

barrierVars == <<count, target, entered, returned>>
mulMatVars == <<barrierVars, shape, at, chunk, currentChunk, converted, taken>>

----------------------------------------------------------------------------
(* How the result is cut into chunks *)

CeilDiv(n, d) == (n + d - 1) \div d

\* The numbers of chunks along the rows and along the columns
Grid(s) ==
  LET len  == IF s.rows = 1 \/ s.cols = 1 THEN VectorChunkSize ELSE ChunkSize
      fine == [rows |-> CeilDiv(s.rows, len), cols |-> CeilDiv(s.cols, len)]
  IN  IF fine.rows * fine.cols >= Width * 4 THEN fine
      ELSE IF s.rows > s.cols THEN [rows |-> Width, cols |-> 1]
      ELSE [rows |-> 1, cols |-> Width]

\* Part i of 0..n-1, of so many; the last ones may be short or empty.
Part(i, parts, n) ==
  {x \in 0..n-1 : CeilDiv(n, parts) * i <= x /\ x < CeilDiv(n, parts) * (i + 1)}

Chunks(s) == Grid(s).rows * Grid(s).cols

\* A kernel that computes two columns at once computes one too many when the
\* chunk has an odd number of them. Only the whole matrix is checked for that.
\* Such kernels are for quantised weights.
Overhang(columns, s) ==
  IF /\ RowsPerDot = 2 /\ s.convert
     /\ s.rows % 2 = 0 /\ s.cols % 2 = 0 /\ Cardinality(columns) % 2 = 1
  THEN {x + 1 : x \in columns}
  ELSE {}

\* The elements that are written for chunk c
Written(c, s) ==
  LET grid    == Grid(s)
      columns == Part(c \div grid.rows, grid.cols, s.cols)
  IN  Part(c % grid.rows, grid.rows, s.rows) \X (columns \cup Overhang(columns, s))

Columns(s) == 0..s.cols-1
Elements(s) == (0..s.rows-1) \X Columns(s)

----------------------------------------------------------------------------
(* The threads *)

Step(p, from, to) == at[p] = from /\ at' = [at EXCEPT ![p] = to]

\* GGMLBackend::matmul: run() starts the threads. What the work buffer holds from
\* earlier products is of no use.
Begin(s) ==
  /\ s \in Shapes
  /\ \A p \in Threads : at[p] = "idle"
  /\ shape' = s
  /\ at' = [p \in Threads |-> "start"]
  /\ converted' = IF s.convert THEN {} ELSE Columns(s)
  /\ UNCHANGED <<barrierVars, chunk, currentChunk, taken>>

\* The conversion, columns p, p + nth, p + 2 nth and so on
Convert(p) ==
  /\ Step(p, "start", IF p = 0 THEN "store" ELSE "meet")
  /\ converted' = converted \cup {j \in Columns(shape) : j % Width = p}
  /\ UNCHANGED <<barrierVars, shape, chunk, currentChunk, taken>>

\* (broken variant: counts from the first chunk)
StoreZero ==
  /\ Step(0, "store", "meet")
  /\ currentChunk' = 0
  /\ UNCHANGED <<barrierVars, shape, chunk, converted, taken>>

\* The first chunk nobody starts with
Store ==
  /\ Step(0, "store", "meet")
  /\ currentChunk' = Width
  /\ UNCHANGED <<barrierVars, shape, chunk, converted, taken>>

Meet(p) ==
  /\ Step(p, "meet", "met") /\ Arrive(p)
  /\ UNCHANGED <<shape, chunk, currentChunk, converted, taken>>

\* Out of the barrier, to the chunk of one's own number
Met(p) ==
  /\ Step(p, "met", "multiply") /\ Leave(p)
  /\ chunk' = [chunk EXCEPT ![p] = p]
  /\ UNCHANGED <<shape, currentChunk, converted, taken>>

\* One chunk; no second one when everybody has had one
Multiply(p) ==
  /\ chunk[p] < Chunks(shape)
  /\ Step(p, "multiply", IF Width >= Chunks(shape) THEN "done" ELSE "fetch")
  /\ taken' = [taken EXCEPT ![p] = @ \cup {chunk[p]}]
  /\ UNCHANGED <<barrierVars, shape, chunk, currentChunk, converted>>

NoChunkLeft(p) ==
  /\ chunk[p] >= Chunks(shape)
  /\ Step(p, "multiply", "done")
  /\ UNCHANGED <<barrierVars, shape, chunk, currentChunk, converted, taken>>

\* fetch_add on the counter
Fetch(p) ==
  /\ Step(p, "fetch", "multiply")
  /\ chunk' = [chunk EXCEPT ![p] = currentChunk]
  /\ currentChunk' = currentChunk + 1
  /\ UNCHANGED <<barrierVars, shape, converted, taken>>

AllDone == \A p \in Threads : at[p] = "done"

\* run() returns, and what the threads had of their own is gone.
End ==
  /\ AllDone
  /\ at' = [p \in Threads |-> "idle"]
  /\ chunk' = [p \in Threads |-> 0]
  /\ taken' = [p \in Threads |-> {}]
  /\ UNCHANGED <<barrierVars, shape, currentChunk, converted>>

MulMatThread(p) ==
  \/ Convert(p) \/ (p = 0 /\ Store) \/ Meet(p) \/ Met(p)
  \/ Multiply(p) \/ NoChunkLeft(p) \/ Fetch(p)

MulMatInit ==
  /\ Init
  /\ shape = [rows |-> 1, cols |-> 1, convert |-> FALSE]
  /\ at = [p \in Threads |-> "idle"]
  /\ chunk = [p \in Threads |-> 0]
  /\ currentChunk = 0
  /\ converted = {}
  /\ taken = [p \in Threads |-> {}]

MulMatNext ==
  \/ \E s \in Shapes : Begin(s)
  \/ \E p \in Threads : MulMatThread(p)
  \/ End

MulMatSpec == MulMatInit /\ [][MulMatNext]_mulMatVars

----------------------------------------------------------------------------
(* Properties *)

Places == {"idle", "start", "store", "meet", "met", "multiply", "fetch", "done"}

\* Types, and a thread is in the barrier where its place says so.
MulMatTypeOK ==
  /\ TypeOK
  /\ shape \in Shapes
  /\ at \in [Threads -> Places]
  /\ chunk \in [Threads -> Nat] /\ currentChunk \in Nat
  /\ taken \in [Threads -> SUBSET Nat]
  /\ converted \subseteq Nat
  /\ \A p \in Threads : Waiting(p) <=> at[p] = "met"

\* What a thread has written
Output(p) == UNION {Written(c, shape) : c \in taken[p]}

\* No element is computed by two threads, or outside the result, or twice, and
\* when the threads are done there is none left, although nothing but a relaxed
\* counter divides the work between them.
EveryElementOnce ==
  LET out == [p \in Threads |-> Output(p)]
  IN  /\ \A p \in Threads : out[p] \subseteq Elements(shape)
      /\ \A p, q \in Threads : p # q => out[p] \cap out[q] = {}
      /\ AllDone => Elements(shape) = UNION {out[p] : p \in Threads}

\* When a thread multiplies, all threads have converted their columns, and none
\* of the next product is being converted: the work buffer is shared.
ConvertedBeforeUse ==
  \A p \in Threads : at[p] \in {"multiply", "fetch", "done"} => converted = Columns(shape)
=============================================================================
