-------------------------- MODULE ForwardPassProofs --------------------------
(***************************************************************************)
(* Proofs about SpinBarrier, for any finite set of threads and any number  *)
(* of rounds, about MulMat, for any number of threads, any shapes and any  *)
(* chunk sizes, and about ForwardPass, for any sizes of the model, any     *)
(* batches, any length of the cache and any number of threads.             *)
(*                                                                         *)
(* The proofs about ForwardPass are of two kinds.  About the graph: Flow   *)
(* says that every operator finds what it needs among what those before it *)
(* give, the cache included, and is shown operator by operator, layer by   *)
(* layer and for the graph; PlanCovers says that plan() asks for enough.   *)
(* About the steps: PassInv says where the pass is in such a graph, and    *)
(* RightInv that what the operators so far give is there.                  *)
(***************************************************************************)
EXTENDS ForwardPass, SpinRounds, SequenceTheorems, WellFoundedInduction

----------------------------------------------------------------------------
(* The barrier *)

\* The counter and the targets match the rounds the threads are in.
IInv == Rounds(Threads, count, target, entered, returned)

\* The barrier has a positive width.
LEMMA PositiveWidth == Width \in Nat \ {0}
  BY ThreadsAssumption, WidthPositive DEF Width

\* What the invariant says of the threads
LEMMA InvariantSays == IInv => TypeOK /\ Together
<1> SUFFICES ASSUME IInv PROVE TypeOK /\ Together
  OBVIOUS
<1>1. TypeOK
  BY DEF IInv, Rounds, RoundTypes, TypeOK
<1>2. Together
  BY RoundsTogether DEF IInv, Together
<1> QED
  BY <1>1, <1>2

LEMMA InitInvariant == Init => IInv
  BY ThreadsAssumption, RoundsBegin DEF Init, IInv

LEMMA ArriveInvariant ==
  ASSUME IInv, NEW p \in Threads, Arrive(p)
  PROVE  IInv'
  BY ThreadsAssumption, RoundsTicket DEF IInv, Arrive, Waiting, RoundEnd, Width

LEMMA LeaveInvariant ==
  ASSUME IInv, NEW p \in Threads, Leave(p)
  PROVE  IInv'
  BY ThreadsAssumption, RoundsRelease DEF IInv, Leave, Waiting

\* Every step preserves the invariant.
LEMMA StepInvariant == IInv /\ [Next]_vars => IInv'
<1> SUFFICES ASSUME IInv, [Next]_vars PROVE IInv'
  OBVIOUS
<1>1. ASSUME NEW p \in Threads, Arrive(p) \/ Leave(p) PROVE IInv'
  BY <1>1, ArriveInvariant, LeaveInvariant
<1>2. CASE UNCHANGED vars
  BY <1>2 DEF IInv, vars
<1> QED
  BY <1>1, <1>2 DEF Next

\* The counter and the targets always match the rounds the threads are in.
THEOREM BarrierInvariant == Spec => []IInv
<1> QED
  BY InitInvariant, StepInvariant, PTL DEF Spec

\* Every variable of the barrier has its type, and no thread is in two calls.
THEOREM BarrierTypes == Spec => []TypeOK
<1> QED
  BY InvariantSays, BarrierInvariant, PTL

\* Nobody returns from the n-th wait() before everybody has called it n times,
\* for any number of threads and rounds.
THEOREM BarrierKeepsTogether == Spec => []Together
<1> QED
  BY InvariantSays, BarrierInvariant, PTL

----------------------------------------------------------------------------
(* The invariant of a product *)

\* Where a thread has taken its ticket of the barrier, and where it is through
Past == {"met", "multiply", "fetch", "done"}
Through == {"multiply", "fetch", "done"}

Types ==
  /\ shape \in Shapes
  /\ at \in [Threads -> Places]
  /\ chunk \in [Threads -> Nat] /\ currentChunk \in Nat
  /\ taken \in [Threads -> SUBSET Nat]
  /\ converted \subseteq Columns(shape)

\* The threads begin and end a product together.
OneProduct == (\A p \in Threads : at[p] = "idle") \/ (\A p \in Threads : at[p] # "idle")

\* Every product is a round of the barrier.
InThisRound(n) ==
  \A p \in Threads : /\ entered[p] = IF at[p] \in Past THEN n + 1 ELSE n
                     /\ returned[p] = IF at[p] \in Through THEN n + 1 ELSE n

RoundPerProduct == \E n \in Nat : InThisRound(n)

\* A thread that is at the barrier or further has converted its columns.
ColumnsConverted ==
  \A p \in Threads : at[p] \notin {"idle", "start"} =>
    \A j \in Columns(shape) : j % Width = p => j \in converted

BarrierInv == IInv /\ Types /\ OneProduct /\ RoundPerProduct /\ ColumnsConverted

----------------------------------------------------------------------------
(* Threads, barrier and conversion *)

LEMMA ThreadNumbers == Width \in Nat \ {0} /\ Threads = 0..Width-1
  BY PositiveWidth, MulMatAssumption DEF Width

\* When one thread is through the barrier, all have come to it.
LEMMA ThroughIsPast ==
  ASSUME BarrierInv, NEW p \in Threads, at[p] \in Through, NEW q \in Threads
  PROVE  at[q] \in Past
<1>1. PICK n \in Nat : InThisRound(n)
  BY DEF BarrierInv, RoundPerProduct
<1>2. returned[p] <= entered[q]
  BY InvariantSays DEF BarrierInv, Together
<1> QED
  BY <1>1, <1>2 DEF InThisRound

\* Then all columns are converted.
LEMMA AllConverted ==
  ASSUME BarrierInv, NEW p \in Threads, at[p] \in Through
  PROVE  converted = Columns(shape)
<1>1. ASSUME NEW j \in Columns(shape) PROVE j \in converted
  <2>1. j \in Nat
    BY DEF Columns, BarrierInv, Types, Shapes
  <2>2. j % Width \in Threads
    BY <2>1, ThreadNumbers
  <2>3. at[j % Width] \notin {"idle", "start"}
    BY <2>2, ThroughIsPast DEF Past
  <2> QED
    BY <2>2, <2>3 DEF BarrierInv, ColumnsConverted
<1> QED
  BY <1>1 DEF BarrierInv, Types

LEMMA MulMatInitBarrier == MulMatInit => BarrierInv
<1> SUFFICES ASSUME MulMatInit PROVE BarrierInv
  OBVIOUS
<1>1. IInv
  BY InitInvariant DEF MulMatInit
<1>2. Types /\ OneProduct
  BY DEF MulMatInit, Types, OneProduct, Shapes, Places
<1>3. InThisRound(0)
  BY DEF MulMatInit, Init, InThisRound, Past, Through
<1>4. ColumnsConverted
  BY DEF MulMatInit, ColumnsConverted
<1> QED
  BY <1>1, <1>2, <1>3, <1>4 DEF BarrierInv, RoundPerProduct

\* The barrier itself does not care what the threads do between two rounds.
LEMMA BarrierUnchanged ==
  ASSUME IInv, UNCHANGED barrierVars
  PROVE  IInv'
  BY DEF IInv, barrierVars

LEMMA StepBarrier == BarrierInv /\ [MulMatNext]_mulMatVars => BarrierInv'
<1> SUFFICES ASSUME BarrierInv, [MulMatNext]_mulMatVars PROVE BarrierInv'
  OBVIOUS
<1> USE DEF BarrierInv
<1>0. PICK n \in Nat : InThisRound(n)
  BY DEF RoundPerProduct
<1>1. ASSUME NEW s \in Shapes, Begin(s) PROVE BarrierInv'
  <2>1. IInv'
    BY <1>1, BarrierUnchanged DEF Begin
  <2>2. Types' /\ OneProduct'
    BY <1>1 DEF Begin, Types, OneProduct, Places, Columns, Shapes
  <2>3. InThisRound(n)'
    BY <1>0, <1>1 DEF Begin, InThisRound, Past, Through, barrierVars
  <2>4. ColumnsConverted'
    BY <1>1 DEF Begin, ColumnsConverted
  <2> QED
    BY <2>1, <2>2, <2>3, <2>4 DEF RoundPerProduct
<1>2. ASSUME NEW p \in Threads, Convert(p) PROVE BarrierInv'
  <2>1. IInv'
    BY <1>2, BarrierUnchanged DEF Convert
  <2>2. Types' /\ OneProduct'
    BY <1>2 DEF Convert, Step, Types, OneProduct, Places, Columns
  <2>3. InThisRound(n)'
    BY <1>0, <1>2 DEF Convert, Step, InThisRound, Past, Through, barrierVars, Types
  <2>4. ColumnsConverted'
    BY <1>2 DEF Convert, Step, ColumnsConverted, Types, Columns
  <2> QED
    BY <2>1, <2>2, <2>3, <2>4 DEF RoundPerProduct
<1>3. ASSUME NEW p \in Threads, p = 0, Store PROVE BarrierInv'
  <2>1. IInv'
    BY <1>3, BarrierUnchanged DEF Store
  <2>2. Types' /\ OneProduct'
    BY <1>3, ThreadNumbers DEF Store, Step, Types, OneProduct, Places, Columns
  <2>3. InThisRound(n)'
    BY <1>0, <1>3 DEF Store, Step, InThisRound, Past, Through, barrierVars, Types
  <2>4. ColumnsConverted'
    BY <1>3 DEF Store, Step, ColumnsConverted, Types, Columns
  <2> QED
    BY <2>1, <2>2, <2>3, <2>4 DEF RoundPerProduct
<1>4. ASSUME NEW p \in Threads, Meet(p) PROVE BarrierInv'
  <2>1. IInv'
    BY <1>4, ArriveInvariant DEF Meet
  <2>2. Types' /\ OneProduct'
    BY <1>4 DEF Meet, Step, Types, OneProduct, Places, Columns
  <2>3. InThisRound(n)'
    BY <1>0, <1>4, InvariantSays DEF Meet, Step, Arrive, InThisRound, Past, Through, Types, TypeOK
  <2>4. ColumnsConverted'
    BY <1>4 DEF Meet, Step, ColumnsConverted, Types, Columns
  <2> QED
    BY <2>1, <2>2, <2>3, <2>4 DEF RoundPerProduct
<1>5. ASSUME NEW p \in Threads, Met(p) PROVE BarrierInv'
  <2>1. IInv'
    BY <1>5, LeaveInvariant DEF Met
  <2>2. Types' /\ OneProduct'
    BY <1>5, ThreadNumbers DEF Met, Step, Types, OneProduct, Places, Columns
  <2>3. InThisRound(n)'
    BY <1>0, <1>5, InvariantSays DEF Met, Step, Leave, InThisRound, Past, Through, Types, TypeOK
  <2>4. ColumnsConverted'
    BY <1>5 DEF Met, Step, ColumnsConverted, Types, Columns
  <2> QED
    BY <2>1, <2>2, <2>3, <2>4 DEF RoundPerProduct
<1>6. ASSUME NEW p \in Threads, Multiply(p) \/ NoChunkLeft(p) \/ Fetch(p) PROVE BarrierInv'
  <2>1. IInv'
    BY <1>6, BarrierUnchanged DEF Multiply, NoChunkLeft, Fetch
  <2>2. /\ at[p] \in {"multiply", "fetch"}
        /\ \E to \in Through : at' = [at EXCEPT ![p] = to]
        /\ UNCHANGED <<barrierVars, shape, converted>>
    BY <1>6 DEF Multiply, NoChunkLeft, Fetch, Step, Through
  <2>3. Types'
    BY <1>6, <2>2 DEF Multiply, NoChunkLeft, Fetch, Types, Places, Columns, Through
  <2>4. OneProduct'
    BY <2>2 DEF OneProduct, Types, Through
  <2>5. InThisRound(n)'
    BY <1>0, <2>2 DEF InThisRound, Past, Through, barrierVars, Types
  <2>6. ColumnsConverted'
    BY <2>2 DEF ColumnsConverted, Types, Columns, Through
  <2> QED
    BY <2>1, <2>3, <2>4, <2>5, <2>6 DEF RoundPerProduct
<1>7. CASE End
  <2>1. IInv'
    BY <1>7, BarrierUnchanged DEF End
  <2>2. Types' /\ OneProduct' /\ ColumnsConverted'
    BY <1>7 DEF End, Types, OneProduct, Places, Columns, ColumnsConverted
  <2>3. InThisRound(n + 1)'
    BY <1>0, <1>7 DEF End, AllDone, InThisRound, Past, Through, barrierVars
  <2> QED
    BY <2>1, <2>2, <2>3 DEF RoundPerProduct
<1>8. CASE UNCHANGED mulMatVars
  <2>1. IInv'
    BY <1>8, BarrierUnchanged DEF mulMatVars
  <2>2. Types' /\ OneProduct' /\ ColumnsConverted'
    BY <1>8 DEF mulMatVars, Types, OneProduct, ColumnsConverted, Columns
  <2>3. InThisRound(n)'
    BY <1>0, <1>8 DEF mulMatVars, barrierVars, InThisRound
  <2> QED
    BY <2>1, <2>2, <2>3 DEF RoundPerProduct
<1> QED
  BY <1>1, <1>2, <1>3, <1>4, <1>5, <1>6, <1>7, <1>8 DEF MulMatNext, MulMatThread

LEMMA MulMatBarrier == MulMatSpec => []BarrierInv
<1> QED
  BY MulMatInitBarrier, StepBarrier, PTL DEF MulMatSpec

\* Nobody leaves the barrier of a product before all have come to it.
THEOREM ProductsMeet == MulMatSpec => []Together
<1>1. BarrierInv => Together
  BY InvariantSays DEF BarrierInv
<1> QED
  BY <1>1, MulMatBarrier, PTL

\* No thread multiplies before all activations are converted (the barrier in
\* powerserve_compute_forward_mul_mat).
THEOREM ConversionIsOver == MulMatSpec => []ConvertedBeforeUse
<1>1. BarrierInv => ConvertedBeforeUse
  BY AllConverted DEF ConvertedBeforeUse, Through
<1> QED
  BY <1>1, MulMatBarrier, PTL

----------------------------------------------------------------------------
(* The division into chunks *)

\* Rounding up: so many parts of this length are enough.
LEMMA CeilDivCovers ==
  ASSUME NEW n \in Nat \ {0}, NEW d \in Nat \ {0}
  PROVE  CeilDiv(n, d) \in Nat \ {0} /\ CeilDiv(n, d) * d >= n
<1> DEFINE q == (n + d - 1) \div d
<1>1. q \in Int /\ d * q <= n + d - 1 /\ n + d - 1 < d * q + d
  OBVIOUS
<1>2. ~(q <= 0)
  <2>1. ASSUME q <= 0 PROVE d * q <= 0
    BY <2>1, <1>1
  <2> QED
    BY <2>1, <1>1
<1>3. q * d = d * q
  BY <1>1
<1> QED
  BY <1>1, <1>2, <1>3 DEF CeilDiv

\* The parts of a dimension do not meet.
LEMMA PartsDisjoint ==
  ASSUME NEW n \in Nat \ {0}, NEW parts \in Nat \ {0},
         NEW i \in Nat, NEW j \in Nat, i < j
  PROVE  Part(i, parts, n) \cap Part(j, parts, n) = {}
<1> DEFINE d == CeilDiv(n, parts)
<1>1. d \in Nat \ {0}
  BY CeilDivCovers
<1> HIDE DEF d
<1>2. d * (i + 1) <= d * j
  BY <1>1
<1>3. ASSUME NEW x \in 0..n-1, x < d * (i + 1), d * j <= x PROVE FALSE
  BY <1>1, <1>2, <1>3
<1> QED
  BY <1>3 DEF Part, d

\* Every number is in one of the parts.
LEMMA PartsCover ==
  ASSUME NEW n \in Nat \ {0}, NEW parts \in Nat \ {0}, NEW x \in 0..n-1
  PROVE  \E i \in 0..parts-1 : x \in Part(i, parts, n)
<1> DEFINE d == CeilDiv(n, parts)
           i == x \div d
<1>1. d \in Nat \ {0} /\ d * parts >= n
  BY CeilDivCovers
<1> HIDE DEF d
<1>2. i \in Int /\ d * i <= x /\ x < d * i + d
  BY <1>1
<1>3. ~(i <= -1)
  <2>1. ASSUME i <= -1 PROVE d * i <= -d
    BY <2>1, <1>1, <1>2
  <2> QED
    BY <2>1, <1>1, <1>2
<1>4. ~(i >= parts)
  <2>1. ASSUME i >= parts PROVE d * i >= d * parts
    BY <2>1, <1>1, <1>2
  <2> QED
    BY <2>1, <1>1, <1>2
<1>5. d * (i + 1) = d * i + d
  BY <1>1, <1>2
<1>6. x \in Part(i, parts, n)
  BY <1>2, <1>5 DEF Part, d
<1> QED
  BY <1>2, <1>3, <1>4, <1>6

\* A chunk has a row and a column of the grid, and it is the only one there.
LEMMA ChunkPlace ==
  ASSUME NEW r \in Nat \ {0}, NEW k \in Nat \ {0}, NEW c \in 0..r*k-1
  PROVE  c % r \in 0..r-1 /\ c \div r \in 0..k-1 /\ c = r * (c \div r) + (c % r)
<1> DEFINE q == c \div r
           m == c % r
<1>1. q \in Int /\ m \in 0..r-1 /\ c = r * q + m
  OBVIOUS
<1>2. ~(q <= -1)
  <2>1. ASSUME q <= -1 PROVE r * q <= -r
    BY <2>1, <1>1
  <2> QED
    BY <2>1, <1>1
<1>3. ~(q >= k)
  <2>1. ASSUME q >= k PROVE r * q >= r * k
    BY <2>1, <1>1
  <2> QED
    BY <2>1, <1>1
<1> QED
  BY <1>1, <1>2, <1>3

LEMMA PlaceChunk ==
  ASSUME NEW r \in Nat \ {0}, NEW k \in Nat \ {0}, NEW i \in 0..r-1, NEW j \in 0..k-1
  PROVE  r * j + i \in 0..r*k-1 /\ (r * j + i) % r = i /\ (r * j + i) \div r = j
<1> DEFINE c == r * j + i
<1>1. r * j <= r * (k - 1) /\ r * (k - 1) = r * k - r
  OBVIOUS
<1>2. c \in 0..r*k-1
  BY <1>1
<1>3. c \div r = j
  <2>1. c = j * r + i
    OBVIOUS
  <2> QED
    BY <2>1, RoundOfTicket
<1>4. c = r * (c \div r) + (c % r)
  BY <1>2, ChunkPlace
<1>5. c % r = i
  BY <1>2, <1>3, <1>4
<1> QED
  BY <1>2, <1>3, <1>5

\* The grid of a result has chunks.
LEMMA GridPositive ==
  ASSUME NEW s \in Shapes
  PROVE  Grid(s).rows \in Nat \ {0} /\ Grid(s).cols \in Nat \ {0}
<1> DEFINE len == IF s.rows = 1 \/ s.cols = 1 THEN VectorChunkSize ELSE ChunkSize
<1>1. len \in Nat \ {0} /\ s.rows \in Nat \ {0} /\ s.cols \in Nat \ {0}
  BY MulMatAssumption DEF Shapes
<1>2. CeilDiv(s.rows, len) \in Nat \ {0} /\ CeilDiv(s.cols, len) \in Nat \ {0}
  BY <1>1, CeilDivCovers
<1> QED
  BY <1>2, ThreadNumbers DEF Grid

\* Two chunks have no element in common.
LEMMA ChunksDisjoint ==
  ASSUME RowsPerDot = 1, NEW s \in Shapes,
         NEW c \in 0..Chunks(s)-1, NEW d \in 0..Chunks(s)-1, c # d
  PROVE  Written(c, s) \cap Written(d, s) = {}
<1> DEFINE r == Grid(s).rows
           k == Grid(s).cols
<1>1. r \in Nat \ {0} /\ k \in Nat \ {0} /\ c \in 0..r*k-1 /\ d \in 0..r*k-1
  BY GridPositive DEF Chunks
<1>2. s.rows \in Nat \ {0} /\ s.cols \in Nat \ {0}
  BY DEF Shapes
<1> HIDE DEF r, k
<1>3. /\ c % r \in Nat /\ d % r \in Nat /\ c \div r \in Nat /\ d \div r \in Nat
      /\ c % r # d % r \/ c \div r # d \div r
  BY <1>1, ChunkPlace
<1>4. Part(c % r, r, s.rows) \cap Part(d % r, r, s.rows) = {} \/ c % r = d % r
  BY <1>1, <1>2, <1>3, PartsDisjoint
<1>5. Part(c \div r, k, s.cols) \cap Part(d \div r, k, s.cols) = {} \/ c \div r = d \div r
  BY <1>1, <1>2, <1>3, PartsDisjoint
<1>6. /\ Written(c, s) = Part(c % r, r, s.rows) \X Part(c \div r, k, s.cols)
      /\ Written(d, s) = Part(d % r, r, s.rows) \X Part(d \div r, k, s.cols)
  BY DEF Written, Overhang, r, k
<1> QED
  BY <1>3, <1>4, <1>5, <1>6

\* All chunks together are the result.
LEMMA ChunksCover ==
  ASSUME RowsPerDot = 1, NEW s \in Shapes
  PROVE  Elements(s) = UNION {Written(c, s) : c \in 0..Chunks(s)-1}
<1> DEFINE r == Grid(s).rows
           k == Grid(s).cols
<1>1. r \in Nat \ {0} /\ k \in Nat \ {0} /\ Chunks(s) = r * k
  BY GridPositive DEF Chunks
<1>2. s.rows \in Nat \ {0} /\ s.cols \in Nat \ {0}
  BY DEF Shapes
<1>3. \A c : Written(c, s) = Part(c % r, r, s.rows) \X Part(c \div r, k, s.cols)
  BY DEF Written, Overhang
<1> HIDE DEF r, k
<1>4. ASSUME NEW c \in 0..Chunks(s)-1 PROVE Written(c, s) \subseteq Elements(s)
  BY <1>3 DEF Part, Elements, Columns
<1>5. ASSUME NEW x \in 0..s.rows-1, NEW y \in 0..s.cols-1
      PROVE  \E c \in 0..Chunks(s)-1 : <<x, y>> \in Written(c, s)
  <2>1. PICK i \in 0..r-1 : x \in Part(i, r, s.rows)
    BY <1>1, <1>2, PartsCover
  <2>2. PICK j \in 0..k-1 : y \in Part(j, k, s.cols)
    BY <1>1, <1>2, PartsCover
  <2> DEFINE c == r * j + i
  <2>3. c \in 0..r*k-1 /\ c % r = i /\ c \div r = j
    BY <1>1, PlaceChunk
  <2> QED
    BY <1>1, <1>3, <2>1, <2>2, <2>3
<1> QED
  BY <1>4, <1>5 DEF Elements, Columns

----------------------------------------------------------------------------
(* Who computes which chunk *)

\* The chunks of a thread: its own number, and what the counter gave it
Claimed(p) == IF at[p] \in Through THEN taken[p] \cup {chunk[p]} ELSE {p}

\* The counter is set when thread 0 is at the barrier or further.
CounterSet == at[0] \notin {"idle", "start", "store"}

\* Chunks in hand are the thread's own number or from below the counter; no two
\* threads have the same, and what the counter has given out somebody has.
ClaimsApart ==
  /\ CounterSet => currentChunk >= Width
  /\ \A p \in Threads : \A c \in Claimed(p) : c = p \/ (CounterSet /\ Width <= c /\ c < currentChunk)
  /\ \A p, q \in Threads : p # q => Claimed(p) \cap Claimed(q) = {}
  /\ \A p \in Threads : p \in Claimed(p)
  /\ CounterSet => \A c \in Width..currentChunk-1 : \E p \in Threads : c \in Claimed(p)

\* What is in hand is computed before the next is fetched, and a thread is done
\* when there is nothing left.
ClaimsComputed ==
  \A p \in Threads :
    /\ at[p] \notin Through => taken[p] = {}
    /\ taken[p] \subseteq 0..Chunks(shape)-1
    /\ at[p] = "fetch" => chunk[p] \in taken[p]
    /\ at[p] = "done" => chunk[p] \in taken[p] \/ chunk[p] >= Chunks(shape)
    /\ at[p] = "done" => Width >= Chunks(shape) \/ chunk[p] >= Chunks(shape)

ChunkInv == BarrierInv /\ ClaimsApart /\ ClaimsComputed

\* A grid has chunks.
LEMMA ChunksPositive ==
  ASSUME NEW s \in Shapes
  PROVE  Chunks(s) \in Nat \ {0}
<1>1. \A a, b \in Nat \ {0} : a * b \in Nat \ {0}
  OBVIOUS
<1> QED
  BY <1>1, GridPositive DEF Chunks

LEMMA MulMatInitChunks == MulMatInit => ChunkInv
<1> SUFFICES ASSUME MulMatInit PROVE ChunkInv
  OBVIOUS
<1>1. BarrierInv
  BY MulMatInitBarrier
<1>2. ~CounterSet /\ \A p \in Threads : Claimed(p) = {p}
  BY ThreadNumbers DEF MulMatInit, CounterSet, Claimed, Through
<1>3. ClaimsApart
  BY <1>2 DEF ClaimsApart
<1>4. ClaimsComputed
  BY DEF MulMatInit, ClaimsComputed, Through
<1> QED
  BY <1>1, <1>3, <1>4 DEF ChunkInv

\* A step that leaves all claims and the counter alone leaves them apart.
LEMMA SameClaims ==
  ASSUME ClaimsApart, UNCHANGED currentChunk, CounterSet' <=> CounterSet,
         \A p \in Threads : Claimed(p)' = Claimed(p)
  PROVE  ClaimsApart'
  BY DEF ClaimsApart

LEMMA StepChunks == ChunkInv /\ [MulMatNext]_mulMatVars => ChunkInv'
<1> SUFFICES ASSUME ChunkInv, [MulMatNext]_mulMatVars PROVE ChunkInv'
  OBVIOUS
<1> USE ThreadNumbers DEF ChunkInv
<1>0. BarrierInv' /\ Types /\ 0 \in Threads
  BY StepBarrier DEF BarrierInv
<1>1. ASSUME NEW s \in Shapes, Begin(s) PROVE ChunkInv'
  <2>1. ~CounterSet' /\ \A p \in Threads : Claimed(p)' = {p}
    BY <1>1 DEF Begin, CounterSet, Claimed, Through
  <2>2. ClaimsApart'
    BY <2>1 DEF ClaimsApart
  <2>3. ClaimsComputed'
    BY <1>1 DEF Begin, ClaimsComputed, Through
  <2> QED
    BY <1>0, <2>2, <2>3
<1>2. ASSUME NEW p \in Threads, Convert(p) \/ Meet(p) PROVE ChunkInv'
  <2>1. /\ at[p] \in {"start", "meet"} /\ at'[p] \in {"store", "meet", "met"}
        /\ \A q \in Threads : q # p => at'[q] = at[q]
        /\ at[p] = "start" => at'[p] = IF p = 0 THEN "store" ELSE "meet"
        /\ at[p] = "meet" => at'[p] = "met"
        /\ UNCHANGED <<shape, chunk, currentChunk, taken>>
    BY <1>0, <1>2 DEF Convert, Meet, Step, Types
  <2>2. \A q \in Threads : Claimed(q)' = Claimed(q)
    BY <2>1 DEF Claimed, Through
  <2>3. CounterSet' <=> CounterSet
    BY <1>0, <2>1 DEF CounterSet
  <2>4. ClaimsComputed'
    BY <2>1 DEF ClaimsComputed, Through
  <2> QED
    BY <1>0, <2>1, <2>2, <2>3, <2>4, SameClaims
<1>3. ASSUME Store PROVE ChunkInv'
  <2>1. at[0] = "store" /\ at' = [at EXCEPT ![0] = "meet"] /\ currentChunk' = Width
    BY <1>3 DEF Store, Step
  <2>2. \A q \in Threads : Claimed(q)' = Claimed(q)
    BY <1>0, <1>3, <2>1 DEF Store, Claimed, Through, Types
  <2>3. ~CounterSet /\ CounterSet'
    BY <1>0, <2>1 DEF CounterSet, Types
  <2>4. ClaimsApart'
    BY <2>1, <2>2, <2>3 DEF ClaimsApart
  <2>5. ClaimsComputed'
    BY <1>0, <1>3, <2>1 DEF Store, ClaimsComputed, Through, Types
  <2> QED
    BY <1>0, <2>4, <2>5
<1>4. ASSUME NEW p \in Threads, Met(p) PROVE ChunkInv'
  <2>1. /\ at[p] = "met" /\ at' = [at EXCEPT ![p] = "multiply"] /\ chunk' = [chunk EXCEPT ![p] = p]
        /\ UNCHANGED <<shape, currentChunk, taken>>
    BY <1>4 DEF Met, Step
  <2>2. taken[p] = {}
    BY <2>1 DEF ClaimsComputed, Through
  <2>3. \A q \in Threads : Claimed(q)' = Claimed(q)
    BY <1>0, <2>1, <2>2 DEF Claimed, Through, Types
  <2>4. CounterSet' <=> CounterSet
    BY <1>0, <2>1 DEF CounterSet, Types
  <2>5. ClaimsComputed'
    BY <1>0, <2>1 DEF ClaimsComputed, Through, Types
  <2> QED
    BY <1>0, <2>1, <2>3, <2>4, <2>5, SameClaims
<1>5. ASSUME NEW p \in Threads, Multiply(p) \/ NoChunkLeft(p) PROVE ChunkInv'
  <2>1. /\ at[p] = "multiply" /\ at'[p] \in {"fetch", "done"}
        /\ at' = [at EXCEPT ![p] = at'[p]]
        /\ at'[p] = "done" => Width >= Chunks(shape) \/ chunk[p] >= Chunks(shape)
        /\ UNCHANGED <<shape, chunk, currentChunk>>
    BY <1>0, <1>5 DEF Multiply, NoChunkLeft, Step, Types
  <2>2. \/ taken' = [taken EXCEPT ![p] = @ \cup {chunk[p]}] /\ chunk[p] < Chunks(shape)
        \/ taken' = taken /\ chunk[p] >= Chunks(shape) /\ at'[p] = "done"
    BY <1>0, <1>5 DEF Multiply, NoChunkLeft, Step, Types
  <2>3. \A q \in Threads : Claimed(q)' = Claimed(q)
    BY <1>0, <2>1, <2>2 DEF Claimed, Through, Types
  <2>4. CounterSet' <=> CounterSet
    BY <1>0, <2>1 DEF CounterSet, Types
  <2>5. Chunks(shape) \in Nat /\ chunk[p] \in Nat
    BY <1>0, ChunksPositive DEF Types
  <2>6. ClaimsComputed'
    BY <1>0, <2>1, <2>2, <2>5 DEF ClaimsComputed, Through, Types
  <2> QED
    BY <1>0, <2>1, <2>3, <2>4, <2>6, SameClaims
<1>6. ASSUME NEW p \in Threads, Fetch(p) PROVE ChunkInv'
  <2>1. /\ at[p] = "fetch" /\ at' = [at EXCEPT ![p] = "multiply"]
        /\ chunk' = [chunk EXCEPT ![p] = currentChunk] /\ currentChunk' = currentChunk + 1
        /\ UNCHANGED <<shape, taken>>
    BY <1>6 DEF Fetch, Step
  <2>2. CounterSet /\ CounterSet'
    <3>1. at[0] \in Past
      BY <1>0, <2>1, ThroughIsPast DEF Through
    <3> QED
      BY <1>0, <2>1, <3>1 DEF CounterSet, Past, Types
  <2>3. currentChunk \in Nat /\ currentChunk >= Width
    BY <1>0, <2>2 DEF ClaimsApart, Types
  <2>4. Claimed(p)' = taken[p] \cup {currentChunk}
    BY <1>0, <2>1 DEF Claimed, Through, Types
  <2>5. \A q \in Threads : q # p => Claimed(q)' = Claimed(q)
    BY <1>0, <2>1 DEF Claimed, Through, Types
  <2>6. Claimed(p) = taken[p]
    BY <2>1 DEF Claimed, Through, ClaimsComputed
  <2>7. ClaimsApart'
    <3>1. \A q \in Threads : currentChunk \notin Claimed(q)
      BY <2>3 DEF ClaimsApart
    <3>2. \A q \in Threads : Claimed(q)' = IF q = p THEN Claimed(q) \cup {currentChunk} ELSE Claimed(q)
      BY <2>4, <2>5, <2>6
    <3>3. ASSUME NEW q \in Threads, NEW c \in Claimed(q)'
          PROVE  c = q \/ (CounterSet' /\ Width <= c /\ c < currentChunk')
      <4>1. CASE c \in Claimed(q)
        <5>1. c = q \/ (Width <= c /\ c < currentChunk)
          BY <4>1 DEF ClaimsApart
        <5>2. c \in Nat
          BY <1>0, <4>1 DEF Claimed, Types
        <5> QED
          BY <5>1, <5>2, <2>1, <2>2, <2>3
      <4>2. CASE c = currentChunk
        BY <4>2, <2>1, <2>2, <2>3
      <4> QED
        BY <4>1, <4>2, <3>2
    <3>4. \A q, r \in Threads : q # r => Claimed(q)' \cap Claimed(r)' = {}
      BY <3>1, <3>2 DEF ClaimsApart
    <3>5. \A c \in Width..currentChunk'-1 : \E q \in Threads : c \in Claimed(q)'
      <4>1. ASSUME NEW c \in Width..currentChunk'-1 PROVE \E q \in Threads : c \in Claimed(q)'
        <5>1. CASE c = currentChunk
          BY <5>1, <3>2
        <5>2. CASE c # currentChunk
          <6>1. c \in Width..currentChunk-1
            BY <5>2, <2>1, <2>3
          <6>2. PICK q \in Threads : c \in Claimed(q)
            BY <6>1, <2>2 DEF ClaimsApart
          <6> QED
            BY <6>2, <3>2
        <5> QED
          BY <5>1, <5>2
      <4> QED
        BY <4>1
    <3> QED
      BY <2>1, <2>2, <2>3, <3>2, <3>3, <3>4, <3>5 DEF ClaimsApart
  <2>8. ClaimsComputed'
    BY <1>0, <2>1 DEF ClaimsComputed, Through, Types
  <2> QED
    BY <1>0, <2>7, <2>8
<1>7. CASE End
  <2>1. ~CounterSet' /\ \A p \in Threads : Claimed(p)' = {p}
    BY <1>0, <1>7 DEF End, CounterSet, Claimed, Through
  <2>2. ClaimsApart'
    BY <2>1 DEF ClaimsApart
  <2>3. ClaimsComputed'
    BY <1>7 DEF End, ClaimsComputed, Through
  <2> QED
    BY <1>0, <2>2, <2>3
<1>8. CASE UNCHANGED mulMatVars
  <2>1. /\ \A q \in Threads : Claimed(q)' = Claimed(q)
        /\ CounterSet' <=> CounterSet
    BY <1>8 DEF mulMatVars, Claimed, CounterSet
  <2>2. ClaimsComputed'
    BY <1>8 DEF mulMatVars, ClaimsComputed
  <2> QED
    BY <1>0, <1>8, <2>1, <2>2, SameClaims DEF mulMatVars
<1> QED
  BY <1>1, <1>2, <1>3, <1>4, <1>5, <1>6, <1>7, <1>8 DEF MulMatNext, MulMatThread

LEMMA MulMatChunks == MulMatSpec => []ChunkInv
<1> QED
  BY MulMatInitChunks, StepChunks, PTL DEF MulMatSpec

----------------------------------------------------------------------------
(* The result *)

\* What a thread has computed was its own.
LEMMA TakenIsClaimed ==
  ASSUME ChunkInv, NEW p \in Threads
  PROVE  taken[p] \subseteq Claimed(p) /\ taken[p] \subseteq 0..Chunks(shape)-1
  BY DEF ChunkInv, ClaimsComputed, Claimed

\* A thread that is done has no chunk in hand that it has not computed.
LEMMA ClaimIsTaken ==
  ASSUME ChunkInv, NEW p \in Threads, at[p] = "done",
         NEW c \in 0..Chunks(shape)-1, c \in Claimed(p)
  PROVE  c \in taken[p]
<1>1. Chunks(shape) \in Nat /\ chunk[p] \in Nat
  BY ChunksPositive DEF ChunkInv, BarrierInv, Types
<1>2. c \in taken[p] \/ c = chunk[p]
  BY DEF Claimed, Through
<1> QED
  BY <1>1, <1>2 DEF ChunkInv, ClaimsComputed

\* When all are done every chunk has been computed.
LEMMA AllTaken ==
  ASSUME ChunkInv, AllDone, NEW c \in 0..Chunks(shape)-1
  PROVE  \E p \in Threads : c \in taken[p]
<1>1. c \in Nat /\ Chunks(shape) \in Nat /\ c < Chunks(shape)
  BY ChunksPositive DEF ChunkInv, BarrierInv, Types
<1>2. 0 \in Threads /\ Width \in Nat \ {0} /\ CounterSet
  BY ThreadNumbers DEF AllDone, CounterSet
<1>3. \E p \in Threads : c \in Claimed(p)
  <2>1. CASE c < Width
    <3>1. c \in Threads
      BY <2>1, <1>1, <1>2, ThreadNumbers
    <3> QED
      BY <3>1 DEF ChunkInv, ClaimsApart
  <2>2. CASE c >= Width
    <3>1. chunk[0] >= Chunks(shape) /\ chunk[0] \in Nat
      BY <2>2, <1>1, <1>2 DEF AllDone, ChunkInv, ClaimsComputed, BarrierInv, Types
    <3>2. chunk[0] \in Claimed(0)
      BY <1>2 DEF AllDone, Claimed, Through
    <3>3. chunk[0] < currentChunk /\ currentChunk \in Nat
      BY <1>1, <1>2, <2>2, <3>1, <3>2 DEF ChunkInv, ClaimsApart, BarrierInv, Types
    <3>4. c \in Width..currentChunk-1
      BY <1>1, <1>2, <2>2, <3>1, <3>3
    <3> QED
      BY <1>2, <3>4 DEF ChunkInv, ClaimsApart
  <2> QED
    BY <1>1, <1>2, <2>1, <2>2
<1> QED
  BY <1>3, ClaimIsTaken DEF AllDone

LEMMA OutputOnce ==
  ASSUME RowsPerDot = 1, ChunkInv
  PROVE  EveryElementOnce
<1> USE DEF Output
<1>0. shape \in Shapes
  BY DEF ChunkInv, BarrierInv, Types
<1>1. Elements(shape) = UNION {Written(c, shape) : c \in 0..Chunks(shape)-1}
  BY <1>0, ChunksCover
<1>2. ASSUME NEW p \in Threads PROVE Output(p) \subseteq Elements(shape)
  BY <1>1, TakenIsClaimed
<1>3. ASSUME NEW p \in Threads, NEW q \in Threads, p # q
      PROVE  Output(p) \cap Output(q) = {}
  <2>1. ASSUME NEW c \in taken[p], NEW d \in taken[q]
        PROVE  Written(c, shape) \cap Written(d, shape) = {}
    <3>1. c # d
      BY <1>3, TakenIsClaimed DEF ChunkInv, ClaimsApart
    <3>2. c \in 0..Chunks(shape)-1 /\ d \in 0..Chunks(shape)-1
      BY TakenIsClaimed
    <3> QED
      BY <1>0, <3>1, <3>2, ChunksDisjoint
  <2> QED
    BY <2>1
<1>4. ASSUME AllDone PROVE Elements(shape) = UNION {Output(p) : p \in Threads}
  <2>1. \A c \in 0..Chunks(shape)-1 : \E p \in Threads : c \in taken[p]
    BY <1>4, AllTaken
  <2> QED
    BY <1>1, <1>2, <2>1
<1> QED
  BY <1>2, <1>3, <1>4 DEF EveryElementOnce

\* Every element is computed by exactly one thread and none is left, for any
\* number of threads and any shape, when a kernel computes one column at a time
\* (the loop over chunks in powerserve_compute_forward_mul_mat).
THEOREM ElementsOnce == RowsPerDot = 1 => (MulMatSpec => []EveryElementOnce)
<1>1. ASSUME RowsPerDot = 1 PROVE MulMatSpec => []EveryElementOnce
  <2>1. ChunkInv => EveryElementOnce
    BY <1>1, OutputOnce
  <2> QED
    BY <2>1, MulMatChunks, PTL
<1> QED
  BY <1>1

----------------------------------------------------------------------------
(* A forward pass *)

LEMMA PassStepIsMulMatStep == [PassNext]_passVars => [MulMatNext]_mulMatVars
<1> SUFFICES ASSUME [PassNext]_passVars PROVE [MulMatNext]_mulMatVars
  OBVIOUS
<1>1. ASSUME NEW call \in Calls, StartPass(call) PROVE UNCHANGED mulMatVars
  BY <1>1 DEF StartPass
<1>2. CASE NewGeneration
  BY <1>2 DEF NewGeneration
<1>3. CASE MainThread
  BY <1>3 DEF MainThread
<1>4. CASE StartProduct
  <2>1. \E s \in Shapes : Begin(s)
    BY <1>4 DEF StartProduct, Begin
  <2> QED
    BY <2>1 DEF MulMatNext
<1>5. CASE EndProduct
  BY <1>5 DEF EndProduct, MulMatNext
<1>6. CASE EndKernel \/ EndCopy \/ EndPass
  BY <1>6 DEF EndKernel, EndCopy, EndPass
<1>7. ASSUME NEW p \in Threads, Product(p) PROVE MulMatNext
  BY <1>7 DEF Product, MulMatNext
<1>8. ASSUME NEW p \in Threads,
             RmsNorm(p) \/ Add(p) \/ Rope(p) \/ SoftmaxExt(p) \/ Cont(p) \/ Copy(p)
      PROVE  UNCHANGED mulMatVars
  BY <1>8 DEF RmsNorm, Add, Rope, SoftmaxExt, Cont, Copy, Kernel
<1>9. CASE UNCHANGED passVars
  BY <1>9 DEF passVars
<1> QED
  BY <1>1, <1>2, <1>3, <1>4, <1>5, <1>6, <1>7, <1>8, <1>9 DEF PassNext, Execute, PoolThread

\* The products of a forward pass are products of MulMat (GGMLBackend::matmul
\* is the only place that runs powerserve_compute_forward_mul_mat).
THEOREM PassImplementsMulMat == PassSpec => MulMatSpec
<1>1. PassInit => MulMatInit
  BY DEF PassInit
<1> QED
  BY <1>1, PassStepIsMulMatStep, PTL DEF PassSpec, MulMatSpec

\* In a forward pass nobody leaves the barrier of a product before all threads
\* have come to it (SpinBarrier::wait).
THEOREM PassKeepsTogether == PassSpec => []Together
<1> QED
  BY PassImplementsMulMat, ProductsMeet, PTL

\* In a forward pass no thread multiplies activations of another operator, or such
\* as are still being converted.
THEOREM PassConvertsBeforeUse == PassSpec => []ConvertedBeforeUse
<1> QED
  BY PassImplementsMulMat, ConversionIsOver, PTL

\* Every element of every product of a forward pass is computed by one thread.
THEOREM PassComputesElementsOnce == RowsPerDot = 1 => (PassSpec => []EveryElementOnce)
<1> QED
  BY PassImplementsMulMat, ElementsOnce, PTL

----------------------------------------------------------------------------
(* What flows through a graph *)

Kinds == {"GET_EMBEDDING", "GET_MASK", "VIEW", "PERMUTE", "TRANSPOSE", "SILU_HADAMARD",
          "RMS_NORM", "ADD", "ROPE", "SOFTMAX_EXT", "CONT", "COPY", "MAT_MUL"}

\* A view of the whole cache of a layer, and one of the entries of the batch
IsCache(t) == t[1] \in {"k_cache", "v_cache"}
IsPlace(t) == t[1] \in {"k_cache_view", "v_cache_view"}
Plain(t) == ~IsCache(t) /\ ~IsPlace(t)

\* The graph has no edge from a COPY to what reads the cache. In these proofs it
\* has one: the entries of the batch in the half of a layer that a view is of.
Names == {"none", "embedding", "att_norm", "q", "q_product", "k", "k_product", "v", "v_product",
          "rope_q", "rope_k", "v_transposed", "k_cache_view", "v_cache_view", "q_heads",
          "k_cache", "kq", "mask", "kq_soft", "v_cache", "kqv", "kqv_merged", "att_scores",
          "att_o", "att_out", "ffn_norm", "gate", "up", "silu", "down", "ffn_out",
          "final_norm", "logits"}
Tensors == Names \X Nat
Stored(t) == <<IF Kind(t) = "k" THEN "k_stored" ELSE "v_stored", t[2]>>

Needs(op) == op.ins \cup {Stored(t) : t \in {u \in op.ins : IsCache(u)}}
Gives(op) == IF op.op = "COPY" THEN {Stored(t) : t \in {u \in op.ins : IsPlace(u)}}
             ELSE {op.out}

\* Operators whose threads have areas in the work buffer, and what the areas are of:
\* the angles of a token, the scores of a row
Buffered == {"ROPE", "SOFTMAX_EXT"}
AreaLengths == {HeadSize} \cup 1..Ctx

\* Operators of a pass with a batch of b tokens
Operators(b) ==
  {op \in [op : Kinds, out : Tensors, ins : SUBSET Tensors, units : Nat \ {0}, len : Nat,
           depth : Nat, convert : BOOLEAN] :
     /\ op.op = "MAT_MUL" => op.len # 0
     /\ op.convert => op.op = "MAT_MUL" /\ op.units = b /\ op.depth \in {Dim, Hidden}
     /\ op.op = "COPY" => op.out = NoTensor
     /\ op.op \in Buffered => op.len \in AreaLengths
     /\ \A t \in op.ins : IsCache(t) \/ IsPlace(t) => t[2] \in 1..Layers
     /\ \A t, u \in op.ins : IsPlace(t) /\ IsPlace(u) => t = u}

\* What the first n operators give
Made(s, n) == UNION {Gives(s[j]) : j \in 1..n}

\* Given `have', every operator finds what it needs, and `got' is there at the end.
Flow(b, s, have, got) ==
  /\ s \in Seq(Operators(b))
  /\ \A i \in 1..Len(s) : Needs(s[i]) \subseteq have \cup Made(s, i - 1)
  /\ got \subseteq have \cup Made(s, Len(s))

LEMMA MadeJoins ==
  ASSUME NEW S, NEW s \in Seq(S), NEW t \in Seq(S)
  PROVE  /\ \A i \in 0..Len(s) : Made(s \o t, i) = Made(s, i)
         /\ \A i \in 0..Len(t) : Made(s \o t, Len(s) + i) = Made(s, Len(s)) \cup Made(t, i)
<1> DEFINE n == Len(s)
           m == Len(t)
           st == s \o t
<1>1. /\ n \in Nat /\ m \in Nat
      /\ \A j \in 1..n+m : st[j] = IF j <= n THEN s[j] ELSE t[j - n]
  BY ConcatProperties, LenProperties
<1> HIDE DEF n, m, st
<1>2. \A j \in 1..n : st[j] = s[j]
  BY <1>1
<1>3. \A j \in 1..m : st[n + j] = t[j]
  <2>1. ASSUME NEW j \in 1..m PROVE st[n + j] = t[j]
    <3>1. n + j \in 1..n+m /\ ~(n + j <= n) /\ (n + j) - n = j
      BY <1>1
    <3> QED
      BY <1>1, <3>1
  <2> QED
    BY <2>1
<1>4. ASSUME NEW i \in 0..n PROVE Made(st, i) = Made(s, i)
  <2>1. \A j \in 1..i : j \in 1..n
    BY <1>1
  <2> QED
    BY <1>2, <2>1 DEF Made
<1>5. ASSUME NEW i \in 0..m PROVE Made(st, n + i) = Made(s, n) \cup Made(t, i)
  <2>1. ASSUME NEW x \in Made(st, n + i) PROVE x \in Made(s, n) \cup Made(t, i)
    <3>1. PICK j \in 1..n+i : x \in Gives(st[j])
      BY DEF Made
    <3>2. CASE j <= n
      <4>1. j \in 1..n
        BY <1>1, <3>2
      <4> QED
        BY <1>2, <3>1, <4>1 DEF Made
    <3>3. CASE ~(j <= n)
      <4>1. j - n \in 1..i /\ j - n \in 1..m /\ n + (j - n) = j
        BY <1>1, <3>3
      <4>2. st[j] = t[j - n]
        BY <1>3, <4>1
      <4> QED
        BY <3>1, <4>1, <4>2 DEF Made
    <3> QED
      BY <3>2, <3>3
  <2>2. ASSUME NEW x \in Made(s, n) PROVE x \in Made(st, n + i)
    <3>1. PICK j \in 1..n : x \in Gives(s[j])
      BY <2>2 DEF Made
    <3>2. j \in 1..n+i
      BY <1>1
    <3> QED
      BY <1>2, <3>1, <3>2 DEF Made
  <2>3. ASSUME NEW x \in Made(t, i) PROVE x \in Made(st, n + i)
    <3>1. PICK j \in 1..i : x \in Gives(t[j])
      BY <2>3 DEF Made
    <3>2. n + j \in 1..n+i /\ j \in 1..m
      BY <1>1
    <3> QED
      BY <1>3, <3>1, <3>2 DEF Made
  <2> QED
    BY <2>1, <2>2, <2>3
<1> QED
  BY <1>4, <1>5 DEF n, m, st

\* One operator
LEMMA FlowOne ==
  ASSUME NEW b, NEW op \in Operators(b), NEW have, NEW got,
         Needs(op) \subseteq have, got \subseteq have \cup Gives(op)
  PROVE  Flow(b, <<op>>, have, got)
<1> DEFINE s == <<op>>
<1>1. s \in Seq(Operators(b)) /\ Len(s) = 1 /\ s[1] = op
  OBVIOUS
<1> HIDE DEF s
<1>2. \A x : x \in Made(s, 1) <=> x \in Gives(op)
  <2>1. \A j \in 1..1 : j = 1
    OBVIOUS
  <2> QED
    BY <1>1, <2>1 DEF Made
<1>3. \A i \in 1..Len(s) : i = 1
  BY <1>1
<1>4. Flow(b, s, have, got)
  BY <1>1, <1>2, <1>3 DEF Flow
<1> QED
  BY <1>4 DEF s

\* One sequence after another
LEMMA FlowJoins ==
  ASSUME NEW b, NEW s, NEW t, NEW have, NEW mid, NEW got,
         Flow(b, s, have, mid), Flow(b, t, mid, got)
  PROVE  Flow(b, s \o t, have, got)
<1> DEFINE n == Len(s)
           m == Len(t)
           st == s \o t
<1>1. s \in Seq(Operators(b)) /\ t \in Seq(Operators(b))
  BY DEF Flow
<1>2. /\ \A i \in 0..n : Made(st, i) = Made(s, i)
      /\ \A i \in 0..m : Made(st, n + i) = Made(s, n) \cup Made(t, i)
  BY <1>1, MadeJoins
<1>3. /\ n \in Nat /\ m \in Nat /\ st \in Seq(Operators(b)) /\ Len(st) = n + m
      /\ \A j \in 1..n+m : st[j] = IF j <= n THEN s[j] ELSE t[j - n]
  BY <1>1, ConcatProperties, LenProperties
<1>4. /\ \A i \in 1..n : Needs(s[i]) \subseteq have \cup Made(s, i - 1)
      /\ mid \subseteq have \cup Made(s, n)
      /\ \A i \in 1..m : Needs(t[i]) \subseteq mid \cup Made(t, i - 1)
      /\ got \subseteq mid \cup Made(t, m)
  BY DEF Flow
<1> HIDE DEF n, m, st
<1>5. ASSUME NEW i \in 1..n+m PROVE Needs(st[i]) \subseteq have \cup Made(st, i - 1)
  <2>1. CASE i <= n
    <3>1. i \in 1..n /\ i - 1 \in 0..n
      BY <1>3, <2>1
    <3> QED
      BY <1>2, <1>3, <1>4, <2>1, <3>1
  <2>2. CASE ~(i <= n)
    <3>1. i - n \in 1..m /\ (i - n) - 1 \in 0..m /\ n + ((i - n) - 1) = i - 1
      BY <1>3, <2>2
    <3>2. Made(st, i - 1) = Made(s, n) \cup Made(t, (i - n) - 1)
      BY <1>2, <3>1
    <3>3. Needs(st[i]) \subseteq mid \cup Made(t, (i - n) - 1)
      BY <1>3, <1>4, <2>2, <3>1
    <3> QED
      BY <1>4, <3>2, <3>3
  <2> QED
    BY <2>1, <2>2
<1>6. got \subseteq have \cup Made(st, n + m)
  <2>1. m \in 0..m
    BY <1>3
  <2> QED
    BY <1>2, <1>4, <2>1
<1>7. Flow(b, st, have, got)
  BY <1>3, <1>5, <1>6 DEF Flow
<1> QED
  BY <1>7 DEF st

\* One operator more
LEMMA FlowNext ==
  ASSUME NEW b, NEW s, NEW op \in Operators(b), NEW have, NEW mid, NEW got,
         Flow(b, s, have, mid), Needs(op) \subseteq mid, got \subseteq mid \cup Gives(op)
  PROVE  Flow(b, Append(s, op), have, got)
<1>1. Flow(b, <<op>>, mid, got)
  BY FlowOne
<1>2. Flow(b, s \o <<op>>, have, got)
  BY <1>1, FlowJoins
<1>3. s \o <<op>> = Append(s, op)
  BY AppendIsConcat DEF Flow
<1> QED
  BY <1>2, <1>3

\* What else is there stays.
LEMMA FlowMore ==
  ASSUME NEW b, NEW s, NEW have, NEW got, NEW more, Flow(b, s, have, got)
  PROVE  Flow(b, s, have \cup more, got \cup more)
  BY DEF Flow

----------------------------------------------------------------------------
(* The operators of a layer *)

LEMMA Sizes ==
  /\ Layers \in Nat \ {0} /\ Heads \in Nat \ {0} /\ KvHeads \in Nat \ {0}
  /\ HeadSize \in Nat \ {0} /\ Hidden \in Nat \ {0} /\ Vocab \in Nat \ {0}
  /\ Dim \in Nat \ {0} /\ KvDim \in Nat \ {0}
<1>1. /\ Layers \in Nat \ {0} /\ Heads \in Nat \ {0} /\ KvHeads \in Nat \ {0}
      /\ HeadSize \in Nat \ {0} /\ Hidden \in Nat \ {0} /\ Vocab \in Nat \ {0}
  BY ModelAssumption
<1>2. \A m, n \in Nat \ {0} : m * n \in Nat \ {0}
  OBVIOUS
<1> QED
  BY <1>1, <1>2 DEF Dim, KvDim

\* What an operator needs, and the one thing it gives
Makes(b, op, needs, out) == op \in Operators(b) /\ Needs(op) = needs /\ Gives(op) = {out}

LEMMA TensorIs == \A name \in Names, L \in Nat : <<name, L>> \in Tensors
  BY DEF Tensors

\* Operators that neither multiply nor copy and do not look at the cache
LEMMA OperatorIs ==
  ASSUME NEW b, NEW kind \in Kinds \ {"MAT_MUL", "COPY"}, NEW out \in Tensors,
         NEW ins \in SUBSET Tensors, NEW units \in Nat \ {0}, NEW len \in Nat,
         kind \in Buffered => len \in AreaLengths, \A t \in ins : Plain(t)
  PROVE  Makes(b, Operator(kind, out, ins, units, len), ins, out)
<1> DEFINE op == Operator(kind, out, ins, units, len)
<1>1. /\ op.op = kind /\ op.out = out /\ op.ins = ins /\ op.units = units /\ op.len = len
      /\ op.depth = 0 /\ op.convert = FALSE
      /\ op \in [op : Kinds, out : Tensors, ins : SUBSET Tensors, units : Nat \ {0}, len : Nat,
                 depth : Nat, convert : BOOLEAN]
  BY DEF Operator
<1> HIDE DEF op
<1>2. op \in Operators(b)
  BY <1>1 DEF Operators, Plain
<1>3. Needs(op) = ins
  BY <1>1 DEF Needs, Plain
<1>4. Gives(op) = {out}
  BY <1>1 DEF Gives
<1> QED
  BY <1>2, <1>3, <1>4 DEF op, Makes

\* Those of them that need no work buffer
Simple == Kinds \ ({"MAT_MUL", "COPY"} \cup Buffered)

LEMMA SimpleIs ==
  ASSUME NEW b, NEW kind \in Simple, NEW out \in Tensors,
         NEW ins \in SUBSET Tensors, NEW units \in Nat \ {0}, NEW len \in Nat,
         \A t \in ins : Plain(t)
  PROVE  Makes(b, Operator(kind, out, ins, units, len), ins, out)
  BY OperatorIs DEF Simple

\* Those that need it
LEMMA BufferedIs ==
  ASSUME NEW b, NEW kind \in Buffered, NEW out \in Tensors,
         NEW ins \in SUBSET Tensors, NEW units \in Nat \ {0}, NEW len \in AreaLengths,
         \A t \in ins : Plain(t)
  PROVE  Makes(b, Operator(kind, out, ins, units, len), ins, out)
<1>1. len \in Nat
  BY Sizes DEF AreaLengths
<1>2. kind \in Kinds \ {"MAT_MUL", "COPY"}
  BY DEF Buffered, Kinds
<1> QED
  BY <1>1, <1>2, OperatorIs

\* A product of converted activations
LEMMA PlainProductIs ==
  ASSUME NEW b \in Nat \ {0}, NEW out \in Tensors, NEW ins \in SUBSET Tensors,
         NEW depth \in {Dim, Hidden}, NEW rows \in Nat \ {0}, \A t \in ins : Plain(t)
  PROVE  Makes(b, MatMul(out, ins, depth, rows, b, TRUE), ins, out)
<1> DEFINE op == MatMul(out, ins, depth, rows, b, TRUE)
<1>1. depth \in Nat
  BY Sizes
<1>2. /\ op.op = "MAT_MUL" /\ op.out = out /\ op.ins = ins /\ op.units = b /\ op.len = rows
      /\ op.depth = depth
      /\ op \in [op : Kinds, out : Tensors, ins : SUBSET Tensors, units : Nat \ {0}, len : Nat,
                 depth : Nat, convert : BOOLEAN]
  BY <1>1 DEF MatMul, Kinds
<1>3. {u \in ins : IsCache(u)} = {}
  BY DEF Plain
<1> HIDE DEF op
<1>4. op \in Operators(b)
  BY <1>2 DEF Operators, Plain, Buffered
<1>5. Needs(op) = ins /\ Gives(op) = {out}
  BY <1>2, <1>3 DEF Needs, Gives
<1> QED
  BY <1>4, <1>5 DEF op, Makes

\* A product with one half of the cache of a layer
LEMMA CacheProductIs ==
  ASSUME NEW b, NEW out \in Tensors, NEW v \in Tensors, NEW x \in Tensors, NEW depth \in Nat,
         NEW ins, NEW rows \in Nat \ {0}, NEW columns \in Nat \ {0},
         ins = {v, x}, Plain(x), IsCache(v), ~IsPlace(v), v[2] \in 1..Layers
  PROVE  Makes(b, MatMul(out, ins, depth, rows, columns, FALSE), ins \cup {Stored(v)}, out)
<1> DEFINE op == MatMul(out, ins, depth, rows, columns, FALSE)
<1>1. /\ op.op = "MAT_MUL" /\ op.out = out /\ op.ins = ins /\ op.units = columns /\ op.len = rows
      /\ op.depth = depth /\ ~op.convert
      /\ op \in [op : Kinds, out : Tensors, ins : SUBSET Tensors, units : Nat \ {0}, len : Nat,
                 depth : Nat, convert : BOOLEAN]
  BY DEF MatMul, Kinds
<1>2. {u \in ins : IsCache(u)} = {v}
  BY DEF Plain
<1> HIDE DEF op
<1>3. op \in Operators(b)
  BY <1>1 DEF Operators, Plain, Buffered
<1>4. Needs(op) = ins \cup {Stored(v)}
  BY <1>1, <1>2 DEF Needs
<1>5. Gives(op) = {out}
  BY <1>1 DEF Gives
<1> QED
  BY <1>3, <1>4, <1>5 DEF op, Makes

\* A copy has one view of the cache, to which it writes.
LEMMA CopyIs ==
  ASSUME NEW b, NEW v \in Tensors, NEW x \in Tensors, NEW ins, NEW units \in Nat \ {0},
         ins = {v, x}, Plain(x), IsPlace(v), ~IsCache(v), v[2] \in 1..Layers
  PROVE  Makes(b, Operator("COPY", NoTensor, ins, units, 0), ins, Stored(v))
<1> DEFINE op == Operator("COPY", NoTensor, ins, units, 0)
<1>1. NoTensor \in Tensors
  <2>1. "none" \in Names
    BY DEF Names
  <2> QED
    BY <2>1, TensorIs DEF NoTensor
<1>2. /\ op.op = "COPY" /\ op.out = NoTensor /\ op.ins = ins /\ op.units = units /\ op.len = 0
      /\ op.depth = 0 /\ op.convert = FALSE
      /\ op \in [op : Kinds, out : Tensors, ins : SUBSET Tensors, units : Nat \ {0}, len : Nat,
                 depth : Nat, convert : BOOLEAN]
  BY <1>1 DEF Operator, Kinds
<1>3. {u \in ins : IsCache(u)} = {} /\ {u \in ins : IsPlace(u)} = {v}
  BY DEF Plain
<1> HIDE DEF op
<1>4. op \in Operators(b)
  BY <1>2, <1>3 DEF Operators, Plain, Buffered
<1>5. Needs(op) = ins
  BY <1>2, <1>3 DEF Needs
<1>6. Gives(op) = {Stored(v)}
  BY <1>2, <1>3 DEF Gives
<1> QED
  BY <1>4, <1>5, <1>6 DEF op, Makes

----------------------------------------------------------------------------
(* The flow through a layer *)

PlainNames == Names \ {"k_cache", "v_cache", "k_cache_view", "v_cache_view"}

LEMMA PlainTensor ==
  ASSUME NEW name \in PlainNames, NEW L \in Nat
  PROVE  <<name, L>> \in Tensors /\ Plain(<<name, L>>)
<1>1. name \in Names /\ name \notin {"k_cache", "v_cache", "k_cache_view", "v_cache_view"}
  BY DEF PlainNames
<1>2. <<name, L>> \in Tensors
  BY <1>1, TensorIs
<1>3. Plain(<<name, L>>)
  BY <1>1 DEF Plain, IsCache, IsPlace
<1> QED
  BY <1>2, <1>3

LEMMA InputTensor ==
  ASSUME NEW L \in 1..Layers
  PROVE  LayerInput(L) \in Tensors /\ Plain(LayerInput(L))
<1>1. L \in Nat /\ L - 1 \in Nat /\ 0 \in Nat
  BY Sizes
<1>2. "embedding" \in PlainNames /\ "ffn_out" \in PlainNames
  BY DEF PlainNames, Names
<1>3. CASE L = 1
  BY <1>1, <1>2, <1>3, PlainTensor DEF LayerInput
<1>4. CASE L # 1
  BY <1>1, <1>2, <1>4, PlainTensor DEF LayerInput
<1> QED
  BY <1>3, <1>4

LEMMA ProjectionFlow ==
  ASSUME NEW b \in Nat \ {0}, NEW out \in Tensors, NEW product \in Tensors, NEW x \in Tensors,
         NEW rows \in Nat \ {0}, NEW have, Plain(x), Plain(product), x \in have
  PROVE  Flow(b, Projection(out, product, x, rows, b), have, have \cup {out})
<1> DEFINE xs == {x}
           ys == {product}
           mid == have \cup {product}
<1>1. xs \in SUBSET Tensors /\ ys \in SUBSET Tensors /\ \A t \in xs \cup ys : Plain(t)
  OBVIOUS
<1>2. Dim \in {Dim, Hidden} /\ rows \in Nat /\ "ADD" \in Simple
  BY DEF Kinds, Simple, Buffered, AreaLengths
<1>3. CASE NeedBias
  <2> DEFINE p == MatMul(product, xs, Dim, rows, b, TRUE)
             a == Operator("ADD", out, ys, b, rows)
  <2>1. Projection(out, product, x, rows, b) = <<p, a>>
    BY <1>3 DEF Projection
  <2> HIDE DEF xs, ys
  <2>2. Makes(b, p, xs, product)
    BY <1>1, <1>2, PlainProductIs
  <2>3. Makes(b, a, ys, out)
    BY <1>1, <1>2, SimpleIs
  <2> HIDE DEF p, a
  <2>4. <<p, a>> = Append(<<p>>, a)
    OBVIOUS
  <2>5. Flow(b, <<p>>, have, mid)
    BY <2>2, FlowOne DEF Makes, xs
  <2>6. Flow(b, Append(<<p>>, a), have, have \cup {out})
    BY <2>3, <2>5, FlowNext DEF Makes, ys
  <2> QED
    BY <2>1, <2>4, <2>6
<1>4. CASE ~NeedBias
  <2> DEFINE p == MatMul(out, xs, Dim, rows, b, TRUE)
  <2>1. Projection(out, product, x, rows, b) = <<p>>
    BY <1>4 DEF Projection
  <2> HIDE DEF xs
  <2>2. Makes(b, p, xs, out)
    BY <1>1, <1>2, PlainProductIs
  <2> HIDE DEF p
  <2> QED
    BY <2>1, <2>2, FlowOne DEF Makes, xs
<1> QED
  BY <1>3, <1>4

LEMMA HeadFlow ==
  ASSUME NEW b \in Nat \ {0}, NEW L \in 1..Layers
  PROVE  Flow(b, AttentionHead(L, b), {LayerInput(L)},
              {LayerInput(L), <<"rope_q", L>>, <<"rope_k", L>>, <<"v_transposed", L>>})
<1> DEFINE T(name) == <<name, L>>
           One(name) == {T(name)}
           in == {LayerInput(L)}
           heads == b * Heads
           kvHeads == b * KvHeads
           norm == Operator("RMS_NORM", T("att_norm"), in, b, Dim)
           q == Projection(T("q"), T("q_product"), T("att_norm"), Dim, b)
           k == Projection(T("k"), T("k_product"), T("att_norm"), KvDim, b)
           v == Projection(T("v"), T("v_product"), T("att_norm"), KvDim, b)
           ropeQ == Operator("ROPE", T("rope_q"), One("q"), heads, HeadSize)
           ropeK == Operator("ROPE", T("rope_k"), One("k"), kvHeads, HeadSize)
           turn == Operator("TRANSPOSE", T("v_transposed"), One("v"), 1, b)
           m0 == {LayerInput(L), T("att_norm")}
           m1 == m0 \cup {T("q")}
           m2 == m1 \cup {T("k")}
           m3 == m2 \cup {T("v")}
           m4 == m3 \cup {T("rope_q")}
           m5 == m4 \cup {T("rope_k")}
           m6 == m5 \cup {T("v_transposed")}
<1>1. L \in Nat /\ heads \in Nat \ {0} /\ kvHeads \in Nat \ {0} /\ 1 \in Nat \ {0} /\ b \in Nat
  BY Sizes
<1>2. \A name \in {"att_norm", "q", "q_product", "k", "k_product", "v", "v_product",
                   "rope_q", "rope_k", "v_transposed"} :
        /\ T(name) \in Tensors /\ Plain(T(name))
        /\ One(name) \in SUBSET Tensors /\ \A t \in One(name) : Plain(t)
  <2>1. {"att_norm", "q", "q_product", "k", "k_product", "v", "v_product",
         "rope_q", "rope_k", "v_transposed"} \subseteq PlainNames
    BY DEF PlainNames, Names
  <2> QED
    BY <1>1, <2>1, PlainTensor
<1>3. in \in SUBSET Tensors /\ \A t \in in : Plain(t)
  BY InputTensor
<1>4. /\ "RMS_NORM" \in Simple /\ "ROPE" \in Buffered /\ HeadSize \in AreaLengths
      /\ "TRANSPOSE" \in Simple
  BY DEF Kinds, Simple, Buffered, AreaLengths
<1>5. Dim \in Nat \ {0} /\ KvDim \in Nat \ {0} /\ HeadSize \in Nat \ {0} /\ Dim \in Nat /\ HeadSize \in Nat
  BY Sizes
<1>6. AttentionHead(L, b) = <<norm>> \o q \o k \o v \o <<ropeQ, ropeK, turn>>
  BY DEF AttentionHead
<1>7. {LayerInput(L), T("rope_q"), T("rope_k"), T("v_transposed")} \subseteq m6
  OBVIOUS
<1>8. T("att_norm") \in m0 /\ m0 \subseteq m1 /\ m1 \subseteq m2 /\ m2 \subseteq m3
  OBVIOUS
<1> HIDE DEF T, One, in, heads, kvHeads
<1>9. Makes(b, norm, in, T("att_norm"))
  <2>1. T("att_norm") \in Tensors
    BY <1>2
  <2> QED
    BY <2>1, <1>3, <1>4, <1>5, SimpleIs
<1>10. Makes(b, ropeQ, One("q"), T("rope_q"))
  BY <1>1, <1>2, <1>4, <1>5, BufferedIs
<1>11. Makes(b, ropeK, One("k"), T("rope_k"))
  BY <1>1, <1>2, <1>4, <1>5, BufferedIs
<1>12. Makes(b, turn, One("v"), T("v_transposed"))
  BY <1>1, <1>2, <1>4, <1>5, SimpleIs
<1>13. Flow(b, q, m0, m1)
  <2> HIDE DEF m0
  <2> QED
    BY <1>2, <1>5, <1>8, ProjectionFlow
<1>14. Flow(b, k, m1, m2)
  <2> HIDE DEF m0, m1
  <2> QED
    BY <1>2, <1>5, <1>8, ProjectionFlow
<1>15. Flow(b, v, m2, m3)
  <2> HIDE DEF m0, m1, m2
  <2> QED
    BY <1>2, <1>5, <1>8, ProjectionFlow
<1>16. <<ropeQ, ropeK, turn>> = Append(Append(<<ropeQ>>, ropeK), turn)
  OBVIOUS
<1> HIDE DEF norm, q, k, v, ropeQ, ropeK, turn
<1>17. Flow(b, <<norm>>, {LayerInput(L)}, m0)
  BY <1>9, FlowOne DEF Makes, in
<1>18. Flow(b, <<ropeQ>>, m3, m4)
  BY <1>10, FlowOne DEF Makes, One
<1>19. Flow(b, Append(<<ropeQ>>, ropeK), m3, m5)
  BY <1>11, <1>18, FlowNext DEF Makes, One
<1>20. Flow(b, Append(Append(<<ropeQ>>, ropeK), turn), m3, m6)
  BY <1>12, <1>19, FlowNext DEF Makes, One
<1> HIDE DEF m0, m1, m2, m3, m4, m5, m6
<1>21. Flow(b, AttentionHead(L, b), {LayerInput(L)}, m6)
  BY <1>6, <1>13, <1>14, <1>15, <1>16, <1>17, <1>20, FlowJoins
<1> QED
  BY <1>7, <1>21 DEF Flow, T

\* The halves of the cache of a layer
LEMMA CacheTensors ==
  ASSUME NEW L \in 1..Layers
  PROVE  /\ \A name \in {"k_cache", "v_cache"} :
              <<name, L>> \in Tensors /\ IsCache(<<name, L>>) /\ ~IsPlace(<<name, L>>)
         /\ \A name \in {"k_cache_view", "v_cache_view"} :
              <<name, L>> \in Tensors /\ IsPlace(<<name, L>>) /\ ~IsCache(<<name, L>>)
         /\ Stored(<<"k_cache", L>>) = <<"k_stored", L>>
         /\ Stored(<<"v_cache", L>>) = <<"v_stored", L>>
         /\ Stored(<<"k_cache_view", L>>) = <<"k_stored", L>>
         /\ Stored(<<"v_cache_view", L>>) = <<"v_stored", L>>
<1>1. L \in Nat
  BY Sizes
<1>2. {"k_cache", "v_cache", "k_cache_view", "v_cache_view"} \subseteq Names
  BY DEF Names
<1>3. \A name \in {"k_cache", "v_cache", "k_cache_view", "v_cache_view"} : <<name, L>> \in Tensors
  BY <1>1, <1>2, TensorIs
<1>4. /\ \A name \in {"k_cache", "v_cache"} : IsCache(<<name, L>>) /\ ~IsPlace(<<name, L>>)
      /\ \A name \in {"k_cache_view", "v_cache_view"} : IsPlace(<<name, L>>) /\ ~IsCache(<<name, L>>)
  BY DEF IsCache, IsPlace
<1>5. /\ Stored(<<"k_cache", L>>) = <<"k_stored", L>>
      /\ Stored(<<"v_cache", L>>) = <<"v_stored", L>>
      /\ Stored(<<"k_cache_view", L>>) = <<"k_stored", L>>
      /\ Stored(<<"v_cache_view", L>>) = <<"v_stored", L>>
  BY DEF Stored, Kind
<1> QED
  BY <1>3, <1>4, <1>5

LEMMA StoreFlow ==
  ASSUME NEW b \in Nat \ {0}, NEW L \in 1..Layers
  PROVE  Flow(b, StoreKV(L, b), {<<"rope_k", L>>, <<"v_transposed", L>>},
              {<<"k_stored", L>>, <<"v_stored", L>>})
<1> DEFINE T(name) == <<name, L>>
           none == {}
           kIns == {T("k_cache_view"), T("rope_k")}
           vIns == {T("v_cache_view"), T("v_transposed")}
           units == b * KvDim
           kView == Operator("VIEW", T("k_cache_view"), none, 1, units)
           kCopy == Operator("COPY", NoTensor, kIns, units, 0)
           vView == Operator("VIEW", T("v_cache_view"), none, 1, b)
           vCopy == Operator("COPY", NoTensor, vIns, KvDim, 0)
           m0 == {T("rope_k"), T("v_transposed")}
           m1 == m0 \cup {T("k_cache_view")}
           m2 == m1 \cup {T("k_stored")}
           m3 == m2 \cup {T("v_cache_view")}
           m4 == m3 \cup {T("v_stored")}
<1>1. /\ L \in Nat /\ units \in Nat \ {0} /\ units \in Nat /\ 1 \in Nat \ {0} /\ b \in Nat
      /\ KvDim \in Nat \ {0} /\ L \in 1..Layers
  BY Sizes
<1>2. \A name \in {"rope_k", "v_transposed"} : T(name) \in Tensors /\ Plain(T(name))
  <2>1. {"rope_k", "v_transposed"} \subseteq PlainNames
    BY DEF PlainNames, Names
  <2> QED
    BY <1>1, <2>1, PlainTensor
<1>3. \A name \in {"k_cache_view", "v_cache_view"} :
        T(name) \in Tensors /\ IsPlace(T(name)) /\ ~IsCache(T(name)) /\ T(name)[2] \in 1..Layers
  BY CacheTensors
<1>4. Stored(T("k_cache_view")) = T("k_stored") /\ Stored(T("v_cache_view")) = T("v_stored")
  BY CacheTensors
<1>5. "VIEW" \in Simple /\ none \in SUBSET Tensors /\ \A t \in none : Plain(t)
  BY DEF Kinds, Simple, Buffered, AreaLengths
<1>6. StoreKV(L, b) = <<kView, kCopy, vView, vCopy>>
  BY DEF StoreKV
<1>7. {<<"k_stored", L>>, <<"v_stored", L>>} \subseteq m4
  OBVIOUS
<1>8. <<kView, kCopy, vView, vCopy>> = Append(Append(Append(<<kView>>, kCopy), vView), vCopy)
  <2> HIDE DEF kView, kCopy, vView, vCopy
  <2> QED
    OBVIOUS
<1> HIDE DEF T, units, none
<1>9. Makes(b, kView, none, T("k_cache_view"))
  BY <1>1, <1>3, <1>5, SimpleIs
<1>10. Makes(b, vView, none, T("v_cache_view"))
  BY <1>1, <1>3, <1>5, SimpleIs
<1>11. Makes(b, kCopy, kIns, T("k_stored"))
  <2>1. kIns = {T("k_cache_view"), T("rope_k")}
    OBVIOUS
  <2> HIDE DEF kIns
  <2>2. Makes(b, kCopy, kIns, Stored(T("k_cache_view")))
    BY <1>1, <1>2, <1>3, <2>1, CopyIs
  <2> QED
    BY <1>4, <2>2
<1>12. Makes(b, vCopy, vIns, T("v_stored"))
  <2>1. vIns = {T("v_cache_view"), T("v_transposed")}
    OBVIOUS
  <2> HIDE DEF vIns
  <2>2. Makes(b, vCopy, vIns, Stored(T("v_cache_view")))
    BY <1>1, <1>2, <1>3, <2>1, CopyIs
  <2> QED
    BY <1>4, <2>2
<1> HIDE DEF kView, kCopy, vView, vCopy
<1>13. Flow(b, <<kView>>, m0, m1)
  BY <1>9, FlowOne DEF Makes, none
<1>14. Flow(b, Append(<<kView>>, kCopy), m0, m2)
  BY <1>11, <1>13, FlowNext DEF Makes
<1>15. Flow(b, Append(Append(<<kView>>, kCopy), vView), m0, m3)
  BY <1>10, <1>14, FlowNext DEF Makes, none
<1>16. Flow(b, Append(Append(Append(<<kView>>, kCopy), vView), vCopy), m0, m4)
  BY <1>12, <1>15, FlowNext DEF Makes
<1> QED
  BY <1>6, <1>7, <1>8, <1>16 DEF Flow, T

LEMMA ScoresFlow ==
  ASSUME NEW b \in Nat \ {0}, NEW L \in 1..Layers, NEW nKv \in Nat \ {0}, nKv <= Ctx
  PROVE  Flow(b, Scores(L, nKv, b),
              {LayerInput(L), <<"rope_q", L>>, <<"k_stored", L>>, <<"v_stored", L>>},
              {<<"att_out", L>>})
<1> DEFINE T(name) == <<name, L>>
           One(name) == {T(name)}
           none == {}
           kq == {T("k_cache"), T("q_heads")}
           soft == {T("kq"), T("mask")}
           kqv == {T("v_cache"), T("kq_soft")}
           sum == {LayerInput(L), T("att_o")}
           columns == b * Heads
           units == IF b = 1 THEN Dim ELSE Heads
           o1 == Operator("PERMUTE", T("q_heads"), One("rope_q"), 1, HeadSize)
           o2 == Operator("VIEW", T("k_cache"), none, 1, HeadSize)
           o3 == MatMul(T("kq"), kq, HeadSize, nKv, columns, FALSE)
           o4 == Operator("GET_MASK", T("mask"), none, 1, nKv)
           o5 == Operator("SOFTMAX_EXT", T("kq_soft"), soft, columns, nKv)
           o6 == Operator("VIEW", T("v_cache"), none, 1, nKv)
           o7 == MatMul(T("kqv"), kqv, nKv, HeadSize, columns, FALSE)
           o8 == Operator("PERMUTE", T("kqv_merged"), One("kqv"), 1, HeadSize)
           o9 == Operator("CONT", T("att_scores"), One("kqv_merged"), units, Dim)
           o10 == MatMul(T("att_o"), One("att_scores"), Dim, Dim, b, TRUE)
           o11 == Operator("ADD", T("att_out"), sum, b, Dim)
           m0 == {LayerInput(L), T("rope_q"), T("k_stored"), T("v_stored")}
           m1 == m0 \cup {T("q_heads")}
           m2 == m1 \cup {T("k_cache")}
           m3 == m2 \cup {T("kq")}
           m4 == m3 \cup {T("mask")}
           m5 == m4 \cup {T("kq_soft")}
           m6 == m5 \cup {T("v_cache")}
           m7 == m6 \cup {T("kqv")}
           m8 == m7 \cup {T("kqv_merged")}
           m9 == m8 \cup {T("att_scores")}
           m10 == m9 \cup {T("att_o")}
           m11 == m10 \cup {T("att_out")}
           s1 == <<o1>>
           s2 == <<o1, o2>>
           s3 == <<o1, o2, o3>>
           s4 == <<o1, o2, o3, o4>>
           s5 == <<o1, o2, o3, o4, o5>>
           s6 == <<o1, o2, o3, o4, o5, o6>>
           s7 == <<o1, o2, o3, o4, o5, o6, o7>>
           s8 == <<o1, o2, o3, o4, o5, o6, o7, o8>>
           s9 == <<o1, o2, o3, o4, o5, o6, o7, o8, o9>>
           s10 == <<o1, o2, o3, o4, o5, o6, o7, o8, o9, o10>>
           s11 == <<o1, o2, o3, o4, o5, o6, o7, o8, o9, o10, o11>>
<1>1. /\ L \in Nat /\ columns \in Nat \ {0} /\ units \in Nat \ {0} /\ 1 \in Nat \ {0} /\ b \in Nat
      /\ nKv \in Nat /\ nKv \in AreaLengths /\ HeadSize \in Nat \ {0} /\ HeadSize \in Nat /\ Dim \in Nat \ {0} /\ Dim \in Nat
  BY Sizes, PassAssumption DEF AreaLengths
<1>2. \A name \in {"rope_q", "q_heads", "kq", "mask", "kq_soft", "kqv", "kqv_merged",
                   "att_scores", "att_o", "att_out"} :
        /\ T(name) \in Tensors /\ Plain(T(name))
        /\ One(name) \in SUBSET Tensors /\ \A t \in One(name) : Plain(t)
  <2>1. {"rope_q", "q_heads", "kq", "mask", "kq_soft", "kqv", "kqv_merged",
         "att_scores", "att_o", "att_out"} \subseteq PlainNames
    BY DEF PlainNames, Names
  <2> QED
    BY <1>1, <2>1, PlainTensor
<1>3. \A name \in {"k_cache", "v_cache"} :
        T(name) \in Tensors /\ IsCache(T(name)) /\ ~IsPlace(T(name)) /\ T(name)[2] \in 1..Layers
  BY CacheTensors
<1>4. Stored(T("k_cache")) = T("k_stored") /\ Stored(T("v_cache")) = T("v_stored")
  BY CacheTensors
<1>5. /\ "PERMUTE" \in Simple /\ "VIEW" \in Simple
      /\ "GET_MASK" \in Simple /\ "SOFTMAX_EXT" \in Buffered
      /\ "CONT" \in Simple /\ "ADD" \in Simple
  BY DEF Kinds, Simple, Buffered, AreaLengths
<1>6. /\ none \in SUBSET Tensors /\ \A t \in none : Plain(t)
      /\ soft \in SUBSET Tensors /\ \A t \in soft : Plain(t)
      /\ sum \in SUBSET Tensors /\ \A t \in sum : Plain(t)
  <2>1. T("kq") \in Tensors /\ Plain(T("kq")) /\ T("mask") \in Tensors /\ Plain(T("mask"))
        /\ T("att_o") \in Tensors /\ Plain(T("att_o"))
    BY <1>2
  <2>2. LayerInput(L) \in Tensors /\ Plain(LayerInput(L))
    BY InputTensor
  <2> HIDE DEF T
  <2> QED
    BY <2>1, <2>2
<1>7. Scores(L, nKv, b) = s11
  BY DEF Scores
<1>8. /\ s2 = Append(s1, o2) /\ s3 = Append(s2, o3) /\ s4 = Append(s3, o4) /\ s5 = Append(s4, o5)
      /\ s6 = Append(s5, o6) /\ s7 = Append(s6, o7) /\ s8 = Append(s7, o8) /\ s9 = Append(s8, o9)
      /\ s10 = Append(s9, o10) /\ s11 = Append(s10, o11)
  <2> HIDE DEF o1, o2, o3, o4, o5, o6, o7, o8, o9, o10, o11
  <2>1. s2 = Append(s1, o2)
    OBVIOUS
  <2>2. s3 = Append(s2, o3)
    OBVIOUS
  <2>3. s4 = Append(s3, o4)
    OBVIOUS
  <2>4. s5 = Append(s4, o5)
    OBVIOUS
  <2>5. s6 = Append(s5, o6)
    OBVIOUS
  <2>6. s7 = Append(s6, o7)
    OBVIOUS
  <2>7. s8 = Append(s7, o8)
    OBVIOUS
  <2>8. s9 = Append(s8, o9)
    OBVIOUS
  <2>9. s10 = Append(s9, o10)
    OBVIOUS
  <2>10. s11 = Append(s10, o11)
    OBVIOUS
  <2> QED
    BY <2>1, <2>2, <2>3, <2>4, <2>5, <2>6, <2>7, <2>8, <2>9, <2>10
<1>9. <<"att_out", L>> \in m11
  OBVIOUS
<1> HIDE DEF T, One, none, soft, sum, columns, units
<1>10. Makes(b, o1, One("rope_q"), T("q_heads"))
  BY <1>1, <1>2, <1>5, SimpleIs
<1>11. Makes(b, o2, none, T("k_cache"))
  BY <1>1, <1>3, <1>5, <1>6, SimpleIs
<1>12. Makes(b, o3, kq \cup {T("k_stored")}, T("kq"))
  <2>1. kq = {T("k_cache"), T("q_heads")}
    OBVIOUS
  <2> HIDE DEF kq
  <2>2. Makes(b, o3, kq \cup {Stored(T("k_cache"))}, T("kq"))
    BY <1>1, <1>2, <1>3, <2>1, CacheProductIs
  <2> QED
    BY <1>4, <2>2
<1>13. Makes(b, o4, none, T("mask"))
  BY <1>1, <1>2, <1>5, <1>6, SimpleIs
<1>14. Makes(b, o5, soft, T("kq_soft"))
  BY <1>1, <1>2, <1>5, <1>6, BufferedIs
<1>15. Makes(b, o6, none, T("v_cache"))
  BY <1>1, <1>3, <1>5, <1>6, SimpleIs
<1>16. Makes(b, o7, kqv \cup {T("v_stored")}, T("kqv"))
  <2>1. kqv = {T("v_cache"), T("kq_soft")}
    OBVIOUS
  <2> HIDE DEF kqv
  <2>2. Makes(b, o7, kqv \cup {Stored(T("v_cache"))}, T("kqv"))
    BY <1>1, <1>2, <1>3, <2>1, CacheProductIs
  <2> QED
    BY <1>4, <2>2
<1>17. Makes(b, o8, One("kqv"), T("kqv_merged"))
  BY <1>1, <1>2, <1>5, SimpleIs
<1>18. Makes(b, o9, One("kqv_merged"), T("att_scores"))
  BY <1>1, <1>2, <1>5, SimpleIs
<1>19. Makes(b, o10, One("att_scores"), T("att_o"))
  BY <1>1, <1>2, PlainProductIs
<1>20. Makes(b, o11, sum, T("att_out"))
  BY <1>1, <1>2, <1>5, <1>6, SimpleIs
<1> HIDE DEF o1, o2, o3, o4, o5, o6, o7, o8, o9, o10, o11
<1>21. Flow(b, s1, m0, m1)
  BY <1>10, FlowOne DEF Makes, One
<1> HIDE DEF s1, s2, s3, s4, s5, s6, s7, s8, s9, s10, s11
<1>22. Flow(b, s2, m0, m2)
  <2>1. Needs(o2) \subseteq m1 /\ m2 \subseteq m1 \cup Gives(o2)
    BY <1>11 DEF Makes, none
  <2>2. o2 \in Operators(b)
    BY <1>11 DEF Makes
  <2> HIDE DEF m0, m1, m2
  <2>3. Flow(b, Append(s1, o2), m0, m2)
    BY <1>21, <2>1, <2>2, FlowNext
  <2> QED
    BY <1>8, <2>3
<1>23. Flow(b, s3, m0, m3)
  <2>1. Needs(o3) \subseteq m2 /\ m3 \subseteq m2 \cup Gives(o3)
    BY <1>12 DEF Makes
  <2>2. o3 \in Operators(b)
    BY <1>12 DEF Makes
  <2> HIDE DEF m0, m2, m3
  <2>3. Flow(b, Append(s2, o3), m0, m3)
    BY <1>22, <2>1, <2>2, FlowNext
  <2> QED
    BY <1>8, <2>3
<1>24. Flow(b, s4, m0, m4)
  <2>1. Needs(o4) \subseteq m3 /\ m4 \subseteq m3 \cup Gives(o4)
    BY <1>13 DEF Makes, none
  <2>2. o4 \in Operators(b)
    BY <1>13 DEF Makes
  <2> HIDE DEF m0, m3, m4
  <2>3. Flow(b, Append(s3, o4), m0, m4)
    BY <1>23, <2>1, <2>2, FlowNext
  <2> QED
    BY <1>8, <2>3
<1>25. Flow(b, s5, m0, m5)
  <2>1. Needs(o5) \subseteq m4 /\ m5 \subseteq m4 \cup Gives(o5)
    BY <1>14 DEF Makes, soft
  <2>2. o5 \in Operators(b)
    BY <1>14 DEF Makes
  <2> HIDE DEF m0, m4, m5
  <2>3. Flow(b, Append(s4, o5), m0, m5)
    BY <1>24, <2>1, <2>2, FlowNext
  <2> QED
    BY <1>8, <2>3
<1>26. Flow(b, s6, m0, m6)
  <2>1. Needs(o6) \subseteq m5 /\ m6 \subseteq m5 \cup Gives(o6)
    BY <1>15 DEF Makes, none
  <2>2. o6 \in Operators(b)
    BY <1>15 DEF Makes
  <2> HIDE DEF m0, m5, m6
  <2>3. Flow(b, Append(s5, o6), m0, m6)
    BY <1>25, <2>1, <2>2, FlowNext
  <2> QED
    BY <1>8, <2>3
<1>27. Flow(b, s7, m0, m7)
  <2>1. Needs(o7) \subseteq m6 /\ m7 \subseteq m6 \cup Gives(o7)
    BY <1>16 DEF Makes
  <2>2. o7 \in Operators(b)
    BY <1>16 DEF Makes
  <2> HIDE DEF m0, m6, m7
  <2>3. Flow(b, Append(s6, o7), m0, m7)
    BY <1>26, <2>1, <2>2, FlowNext
  <2> QED
    BY <1>8, <2>3
<1>28. Flow(b, s8, m0, m8)
  <2>1. Needs(o8) \subseteq m7 /\ m8 \subseteq m7 \cup Gives(o8)
    BY <1>17 DEF Makes, One
  <2>2. o8 \in Operators(b)
    BY <1>17 DEF Makes
  <2> HIDE DEF m0, m7, m8
  <2>3. Flow(b, Append(s7, o8), m0, m8)
    BY <1>27, <2>1, <2>2, FlowNext
  <2> QED
    BY <1>8, <2>3
<1>29. Flow(b, s9, m0, m9)
  <2>1. Needs(o9) \subseteq m8 /\ m9 \subseteq m8 \cup Gives(o9)
    BY <1>18 DEF Makes, One
  <2>2. o9 \in Operators(b)
    BY <1>18 DEF Makes
  <2> HIDE DEF m0, m8, m9
  <2>3. Flow(b, Append(s8, o9), m0, m9)
    BY <1>28, <2>1, <2>2, FlowNext
  <2> QED
    BY <1>8, <2>3
<1>30. Flow(b, s10, m0, m10)
  <2>1. Needs(o10) \subseteq m9 /\ m10 \subseteq m9 \cup Gives(o10)
    BY <1>19 DEF Makes, One
  <2>2. o10 \in Operators(b)
    BY <1>19 DEF Makes
  <2> HIDE DEF m0, m9, m10
  <2>3. Flow(b, Append(s9, o10), m0, m10)
    BY <1>29, <2>1, <2>2, FlowNext
  <2> QED
    BY <1>8, <2>3
<1>31. Flow(b, s11, m0, m11)
  <2>1. Needs(o11) \subseteq m10 /\ m11 \subseteq m10 \cup Gives(o11)
    BY <1>20 DEF Makes, sum
  <2>2. o11 \in Operators(b)
    BY <1>20 DEF Makes
  <2> HIDE DEF m0, m10, m11
  <2>3. Flow(b, Append(s10, o11), m0, m11)
    BY <1>30, <2>1, <2>2, FlowNext
  <2> QED
    BY <1>8, <2>3
<1> QED
  BY <1>7, <1>9, <1>31 DEF Flow, T

LEMMA FeedForwardFlow ==
  ASSUME NEW b \in Nat \ {0}, NEW L \in 1..Layers
  PROVE  Flow(b, FeedForward(L, b), {<<"att_out", L>>}, {<<"ffn_out", L>>})
<1> DEFINE T(name) == <<name, L>>
           One(name) == {T(name)}
           both == {T("gate"), T("up")}
           sum == {T("att_out"), T("down")}
           o1 == Operator("RMS_NORM", T("ffn_norm"), One("att_out"), b, Dim)
           o2 == MatMul(T("gate"), One("ffn_norm"), Dim, Hidden, b, TRUE)
           o3 == MatMul(T("up"), One("ffn_norm"), Dim, Hidden, b, TRUE)
           o4 == Operator("SILU_HADAMARD", T("silu"), both, 1, Hidden)
           o5 == MatMul(T("down"), One("silu"), Hidden, Dim, b, TRUE)
           o6 == Operator("ADD", T("ffn_out"), sum, b, Dim)
           m0 == {T("att_out")}
           m1 == m0 \cup {T("ffn_norm")}
           m2 == m1 \cup {T("gate")}
           m3 == m2 \cup {T("up")}
           m4 == m3 \cup {T("silu")}
           m5 == m4 \cup {T("down")}
           m6 == m5 \cup {T("ffn_out")}
           s1 == <<o1>>
           s2 == <<o1, o2>>
           s3 == <<o1, o2, o3>>
           s4 == <<o1, o2, o3, o4>>
           s5 == <<o1, o2, o3, o4, o5>>
           s6 == <<o1, o2, o3, o4, o5, o6>>
<1>1. /\ L \in Nat /\ 1 \in Nat \ {0} /\ Dim \in Nat \ {0} /\ Dim \in Nat
      /\ Hidden \in Nat \ {0} /\ Hidden \in Nat
  BY Sizes
<1>2. \A name \in {"att_out", "ffn_norm", "gate", "up", "silu", "down", "ffn_out"} :
        /\ T(name) \in Tensors /\ Plain(T(name))
        /\ One(name) \in SUBSET Tensors /\ \A t \in One(name) : Plain(t)
  <2>1. {"att_out", "ffn_norm", "gate", "up", "silu", "down", "ffn_out"} \subseteq PlainNames
    BY DEF PlainNames, Names
  <2> QED
    BY <1>1, <2>1, PlainTensor
<1>3. /\ "RMS_NORM" \in Simple /\ "ADD" \in Simple
      /\ "SILU_HADAMARD" \in Simple
  BY DEF Kinds, Simple, Buffered, AreaLengths
<1>4. /\ both \in SUBSET Tensors /\ \A t \in both : Plain(t)
      /\ sum \in SUBSET Tensors /\ \A t \in sum : Plain(t)
  <2> HIDE DEF T
  <2> QED
    BY <1>2
<1>5. FeedForward(L, b) = s6
  BY DEF FeedForward
<1>6. /\ s2 = Append(s1, o2) /\ s3 = Append(s2, o3) /\ s4 = Append(s3, o4)
      /\ s5 = Append(s4, o5) /\ s6 = Append(s5, o6)
  <2> HIDE DEF o1, o2, o3, o4, o5, o6
  <2>1. s2 = Append(s1, o2)
    OBVIOUS
  <2>2. s3 = Append(s2, o3)
    OBVIOUS
  <2>3. s4 = Append(s3, o4)
    OBVIOUS
  <2>4. s5 = Append(s4, o5)
    OBVIOUS
  <2>5. s6 = Append(s5, o6)
    OBVIOUS
  <2> QED
    BY <2>1, <2>2, <2>3, <2>4, <2>5
<1>7. <<"ffn_out", L>> \in m6
  OBVIOUS
<1> HIDE DEF T, One, both, sum
<1>8. Makes(b, o1, One("att_out"), T("ffn_norm"))
  BY <1>1, <1>2, <1>3, SimpleIs
<1>9. Makes(b, o2, One("ffn_norm"), T("gate")) /\ Makes(b, o3, One("ffn_norm"), T("up"))
  BY <1>1, <1>2, PlainProductIs
<1>10. Makes(b, o4, both, T("silu"))
  BY <1>1, <1>2, <1>3, <1>4, SimpleIs
<1>11. Makes(b, o5, One("silu"), T("down"))
  BY <1>1, <1>2, PlainProductIs
<1>12. Makes(b, o6, sum, T("ffn_out"))
  BY <1>1, <1>2, <1>3, <1>4, SimpleIs
<1> HIDE DEF o1, o2, o3, o4, o5, o6
<1>13. Flow(b, s1, m0, m1)
  BY <1>8, FlowOne DEF Makes, One
<1> HIDE DEF s1, s2, s3, s4, s5, s6
<1>14. Flow(b, s2, m0, m2)
  <2>1. Needs(o2) \subseteq m1 /\ m2 \subseteq m1 \cup Gives(o2)
    BY <1>9 DEF Makes, One
  <2>2. o2 \in Operators(b)
    BY <1>9 DEF Makes
  <2> HIDE DEF m0, m1, m2
  <2>3. Flow(b, Append(s1, o2), m0, m2)
    BY <1>13, <2>1, <2>2, FlowNext
  <2> QED
    BY <1>6, <2>3
<1>15. Flow(b, s3, m0, m3)
  <2>1. Needs(o3) \subseteq m2 /\ m3 \subseteq m2 \cup Gives(o3)
    BY <1>9 DEF Makes, One
  <2>2. o3 \in Operators(b)
    BY <1>9 DEF Makes
  <2> HIDE DEF m0, m2, m3
  <2>3. Flow(b, Append(s2, o3), m0, m3)
    BY <1>14, <2>1, <2>2, FlowNext
  <2> QED
    BY <1>6, <2>3
<1>16. Flow(b, s4, m0, m4)
  <2>1. Needs(o4) \subseteq m3 /\ m4 \subseteq m3 \cup Gives(o4)
    BY <1>10 DEF Makes, both
  <2>2. o4 \in Operators(b)
    BY <1>10 DEF Makes
  <2> HIDE DEF m0, m3, m4
  <2>3. Flow(b, Append(s3, o4), m0, m4)
    BY <1>15, <2>1, <2>2, FlowNext
  <2> QED
    BY <1>6, <2>3
<1>17. Flow(b, s5, m0, m5)
  <2>1. Needs(o5) \subseteq m4 /\ m5 \subseteq m4 \cup Gives(o5)
    BY <1>11 DEF Makes, One
  <2>2. o5 \in Operators(b)
    BY <1>11 DEF Makes
  <2> HIDE DEF m0, m4, m5
  <2>3. Flow(b, Append(s4, o5), m0, m5)
    BY <1>16, <2>1, <2>2, FlowNext
  <2> QED
    BY <1>6, <2>3
<1>18. Flow(b, s6, m0, m6)
  <2>1. Needs(o6) \subseteq m5 /\ m6 \subseteq m5 \cup Gives(o6)
    BY <1>12 DEF Makes, sum
  <2>2. o6 \in Operators(b)
    BY <1>12 DEF Makes
  <2> HIDE DEF m0, m5, m6
  <2>3. Flow(b, Append(s5, o6), m0, m6)
    BY <1>17, <2>1, <2>2, FlowNext
  <2> QED
    BY <1>6, <2>3
<1> QED
  BY <1>5, <1>7, <1>18 DEF Flow, T

\* Every set of numbers that is not empty has a least element.
LEMMA LeastNumber ==
  ASSUME NEW T, T \subseteq Nat, T # {}
  PROVE  \E x \in T : \A y \in T : x <= y
<1>1. IsWellFoundedOn(OpToRel(<, Nat), Nat)
  BY NatLessThanWellFounded
<1>2. PICK x \in T : \A y \in T : ~(<<y, x>> \in OpToRel(<, Nat))
  BY <1>1, WFMin
<1>3. \A y \in T : ~(y < x)
  BY <1>2 DEF OpToRel
<1> QED
  BY <1>3

\* One sequence after another that needs less
LEMMA FlowThen ==
  ASSUME NEW b, NEW s, NEW t, NEW have, NEW mid, NEW need, NEW gain, NEW got,
         Flow(b, s, have, mid), Flow(b, t, need, gain), need \subseteq mid, got \subseteq mid \cup gain
  PROVE  Flow(b, s \o t, have, got)
<1>1. Flow(b, t, need \cup mid, gain \cup mid)
  BY FlowMore
<1>2. need \cup mid = mid
  OBVIOUS
<1>3. Flow(b, s \o t, have, gain \cup mid)
  BY <1>1, <1>2, FlowJoins
<1> DEFINE st == s \o t
<1> HIDE DEF st
<1>4. Flow(b, st, have, got)
  BY <1>3 DEF Flow, st
<1> QED
  BY <1>4 DEF st

\* One layer of the graph for a pass that begins at position p
Layer(L, p, b) == Attention(L, p, b) \o FeedForward(L, b)

LEMMA AttentionFlow ==
  ASSUME NEW b \in Nat \ {0}, NEW L \in 1..Layers, NEW p \in Nat, p + b <= Ctx
  PROVE  Flow(b, Attention(L, p, b), {LayerInput(L)},
              {<<"att_out", L>>, <<"k_stored", L>>, <<"v_stored", L>>})
<1> DEFINE T(name) == <<name, L>>
           x == LayerInput(L)
           head == AttentionHead(L, b)
           store == StoreKV(L, b)
           n == p + b
           scores == Scores(L, n, b)
           m0 == {x}
           m1 == {x, T("rope_q"), T("rope_k"), T("v_transposed")}
           need2 == {T("rope_k"), T("v_transposed")}
           gain2 == {T("k_stored"), T("v_stored")}
           m2 == {x, T("rope_q"), T("k_stored"), T("v_stored")}
           gain3 == {T("att_out")}
           m3 == {T("att_out"), T("k_stored"), T("v_stored")}
<1>1. n \in Nat \ {0} /\ n <= Ctx
  OBVIOUS
<1>2. Attention(L, p, b) = (head \o store) \o scores
  BY DEF Attention
<1>3. Flow(b, head, m0, m1)
  BY HeadFlow
<1>4. Flow(b, store, need2, gain2)
  BY StoreFlow
<1>5. Flow(b, scores, m2, gain3)
  BY <1>1, ScoresFlow
<1>6. need2 \subseteq m1 /\ m2 \subseteq m1 \cup gain2 /\ m3 \subseteq m2 \cup gain3
  OBVIOUS
<1> HIDE DEF T, x, head, store, n, scores, m0, m1, need2, gain2, m2, gain3
<1>7. Flow(b, head \o store, m0, m2)
  BY <1>3, <1>4, <1>6, FlowThen
<1>8. Flow(b, (head \o store) \o scores, m0, m3)
  <2> HIDE DEF m3
  <2> DEFINE hs == head \o store
  <2> HIDE DEF hs
  <2>1. Flow(b, hs, m0, m2)
    BY <1>7 DEF hs
  <2>2. m2 \subseteq m2
    OBVIOUS
  <2>3. Flow(b, hs \o scores, m0, m3)
    BY <2>1, <2>2, <1>5, <1>6, FlowThen
  <2> QED
    BY <2>3 DEF hs
<1> QED
  BY <1>2, <1>8 DEF m0, x, m3, T

LEMMA LayerFlow ==
  ASSUME NEW b \in Nat \ {0}, NEW L \in 1..Layers, NEW p \in Nat, p + b <= Ctx
  PROVE  Flow(b, Layer(L, p, b), {LayerInput(L)},
              {<<"ffn_out", L>>, <<"k_stored", L>>, <<"v_stored", L>>})
<1> DEFINE T(name) == <<name, L>>
           attention == Attention(L, p, b)
           ffn == FeedForward(L, b)
           m0 == {LayerInput(L)}
           m1 == {T("att_out"), T("k_stored"), T("v_stored")}
           need == {T("att_out")}
           gain == {T("ffn_out")}
           m2 == {T("ffn_out"), T("k_stored"), T("v_stored")}
<1>1. Flow(b, attention, m0, m1)
  BY AttentionFlow
<1>2. Flow(b, ffn, need, gain)
  BY FeedForwardFlow
<1>3. need \subseteq m1 /\ m2 \subseteq m1 \cup gain
  OBVIOUS
<1> HIDE DEF attention, ffn, m0, m1, need, gain
<1>4. Flow(b, attention \o ffn, m0, m2)
  <2> HIDE DEF m2
  <2> QED
    BY <1>1, <1>2, <1>3, FlowThen
<1> QED
  BY <1>4 DEF Layer, attention, ffn, m0, m2, T

----------------------------------------------------------------------------
(* The layers one after the other *)

\* The equation of the table that FlattenSeq fills
Flattens(q, n, f) == f = [i \in 1..n |-> IF i = 1 THEN q[i] ELSE f[i - 1] \o q[i]]

LEMMA FlattenSolves ==
  ASSUME NEW q, NEW n \in Nat \ {0}
  PROVE  \E f : Flattens(q, n, f)
<1> DEFINE unsolved == {m \in 1..n : ~\E f : Flattens(q, m, f)}
<1>1. ASSUME unsolved # {} PROVE FALSE
  <2>0. unsolved \subseteq Nat
    OBVIOUS
  <2>1. PICK m \in unsolved : \A j \in unsolved : m <= j
    <3> HIDE DEF unsolved
    <3> QED
      BY <1>1, <2>0, LeastNumber
  <2>2. CASE m = 1
    <3> DEFINE f == [i \in 1..1 |-> q[i]]
    <3>1. \A i \in 1..1 : i = 1
      OBVIOUS
    <3>2. f = [i \in 1..1 |-> IF i = 1 THEN q[i] ELSE f[i - 1] \o q[i]]
      BY <3>1
    <3> HIDE DEF f
    <3>3. Flattens(q, 1, f)
      BY <3>2 DEF Flattens
    <3> QED
      BY <2>1, <2>2, <3>3
  <2>3. CASE m # 1
    <3>1. m - 1 \in 1..n /\ m - 1 \notin unsolved /\ m \in 1..n
      BY <2>1, <2>3
    <3>2. PICK f : Flattens(q, m - 1, f)
      BY <3>1
    <3> DEFINE g == [i \in 1..m |-> IF i = m THEN f[i - 1] \o q[i] ELSE f[i]]
    <3>3. ASSUME NEW i \in 1..m PROVE g[i] = IF i = 1 THEN q[i] ELSE g[i - 1] \o q[i]
      <4>1. i # 1 => i - 1 \in 1..m /\ i - 1 # m
        BY <3>1
      <4>2. i # 1 => g[i - 1] = f[i - 1]
        BY <4>1
      <4>3. CASE i = m
        BY <2>3, <4>2, <4>3
      <4>4. CASE i # m
        <5>1. i \in 1..m-1
          BY <3>1, <4>4
        <5>2. f[i] = IF i = 1 THEN q[i] ELSE f[i - 1] \o q[i]
          BY <3>2, <5>1 DEF Flattens
        <5>3. g[i] = f[i]
          BY <4>4
        <5> HIDE DEF g
        <5> QED
          BY <4>2, <5>2, <5>3
      <4> QED
        BY <4>3, <4>4
    <3>4. g = [i \in 1..m |-> g[i]]
      OBVIOUS
    <3> HIDE DEF g
    <3>5. Flattens(q, m, g)
      BY <3>3, <3>4 DEF Flattens
    <3> QED
      BY <2>1, <3>5
  <2> QED
    BY <2>2, <2>3
<1>2. n \in 1..n
  OBVIOUS
<1> QED
  BY <1>1, <1>2

LEMMA FlattenIs ==
  ASSUME NEW q, NEW n \in Nat \ {0}, Len(q) = n
  PROVE  \E f : Flattens(q, n, f) /\ FlattenSeq(q) = f[n]
<1> DEFINE g == CHOOSE f : Flattens(q, n, f)
<1>1. FlattenSeq(q) = g[n]
  BY DEF FlattenSeq, Flattens
<1>2. Flattens(q, n, g)
  BY FlattenSolves
<1> QED
  BY <1>1, <1>2

\* Of every layer up to n the keys and the values of the batch are stored.
StoredTo(n) == {<<"k_stored", L>> : L \in 1..n} \cup {<<"v_stored", L>> : L \in 1..n}

Token == <<"embedding", 0>>

\* All layers: what the last one makes and what the cache has to get is there,
\* and the feed forward network of the last layer comes last.
LEMMA LayersFlow ==
  ASSUME NEW b \in Nat \ {0}, NEW p \in Nat, p + b <= Ctx
  PROVE  \E s, a :
           /\ FlattenSeq([L \in 1..Layers |-> Attention(L, p, b) \o FeedForward(L, b)]) = s
           /\ Flow(b, s, {Token}, {<<"ffn_out", Layers>>} \cup StoredTo(Layers))
           /\ a \in Seq(Operators(b)) /\ s = a \o FeedForward(Layers, b)
<1> DEFINE n == Layers
           q == [L \in 1..n |-> Attention(L, p, b) \o FeedForward(L, b)]
           got(i) == {<<"ffn_out", i>>} \cup StoredTo(i)
           fine(f, i) == Flow(b, f[i], {Token}, got(i))
<1>1. n \in Nat \ {0} /\ Len(q) = n
  <2>1. n \in Nat \ {0}
    BY Sizes
  <2> QED
    BY <2>1, LenProperties
<1>2. PICK f : Flattens(q, n, f) /\ FlattenSeq(q) = f[n]
  <2> HIDE DEF q, n
  <2> QED
    BY <1>1, FlattenIs
<1>3. \A L \in 1..n : q[L] = Layer(L, p, b)
  BY DEF Layer
<1>4. \A i \in 1..n : f[i] = IF i = 1 THEN q[i] ELSE f[i - 1] \o q[i]
  <2> HIDE DEF q
  <2> QED
    BY <1>2 DEF Flattens
<1> HIDE DEF q
<1>5. \A i \in 1..n : f[i] = IF i = 1 THEN Layer(i, p, b) ELSE f[i - 1] \o Layer(i, p, b)
  BY <1>3, <1>4
<1>6. fine(f, 1)
  <2>1. 1 \in 1..n /\ 1 \in 1..Layers
    BY <1>1
  <2>2. Flow(b, Layer(1, p, b), {LayerInput(1)}, {<<"ffn_out", 1>>, <<"k_stored", 1>>, <<"v_stored", 1>>})
    BY <2>1, LayerFlow
  <2>3. LayerInput(1) = Token
    BY DEF LayerInput, Token
  <2>4. got(1) = {<<"ffn_out", 1>>, <<"k_stored", 1>>, <<"v_stored", 1>>}
    <3>1. \A L : L \in 1..1 <=> L = 1
      OBVIOUS
    <3>2. StoredTo(1) = {<<"k_stored", 1>>} \cup {<<"v_stored", 1>>}
      BY <3>1 DEF StoredTo
    <3> QED
      BY <3>2
  <2>5. f[1] = Layer(1, p, b)
    BY <1>5, <2>1
  <2> QED
    BY <2>2, <2>3, <2>4, <2>5
<1>7. ASSUME NEW i \in 1..n, i # 1, fine(f, i - 1) PROVE fine(f, i)
  <2> DEFINE s == f[i - 1]
             t == Layer(i, p, b)
             mid == got(i - 1)
             need == {LayerInput(i)}
             gain == {<<"ffn_out", i>>, <<"k_stored", i>>, <<"v_stored", i>>}
             all == got(i)
             have == {Token}
  <2>1. Flow(b, t, need, gain)
    BY LayerFlow
  <2>2. Flow(b, s, have, mid)
    BY <1>7
  <2>3. need \subseteq mid
    BY <1>7 DEF LayerInput
  <2>4. all \subseteq mid \cup gain
    <3>1. \A L \in 1..i : L = i \/ L \in 1..i-1
      OBVIOUS
    <3>2. StoredTo(i) \subseteq StoredTo(i - 1) \cup {<<"k_stored", i>>, <<"v_stored", i>>}
      BY <3>1 DEF StoredTo
    <3> QED
      BY <3>2
  <2>5. f[i] = s \o t
    BY <1>5, <1>7
  <2> HIDE DEF s, t, mid, need, gain, all, have
  <2>6. Flow(b, s \o t, have, all)
    BY <2>1, <2>2, <2>3, <2>4, FlowThen
  <2> QED
    BY <2>5, <2>6 DEF have, all
<1> DEFINE wrong == {i \in 1..n : ~fine(f, i)}
<1>8. ASSUME wrong # {} PROVE FALSE
  <2>0. wrong \subseteq Nat
    BY <1>1
  <2>1. PICK i \in wrong : \A j \in wrong : i <= j
    <3> HIDE DEF wrong
    <3> QED
      BY <1>8, <2>0, LeastNumber
  <2>2. i \in 1..n /\ ~fine(f, i) /\ i # 1
    BY <1>6, <2>1
  <2>3. i - 1 \in 1..n /\ ~(i <= i - 1)
    BY <1>1, <2>2
  <2>4. fine(f, i - 1)
    <3> HIDE DEF fine
    <3> QED
      BY <2>1, <2>3
  <2> QED
    BY <1>7, <2>2, <2>4
<1>9. fine(f, n)
  <2> HIDE DEF fine
  <2>1. n \in 1..n
    BY <1>1
  <2> QED
    BY <1>8, <2>1
<1>10. \E a : a \in Seq(Operators(b)) /\ f[n] = a \o FeedForward(n, b)
  <2> DEFINE attention == Attention(n, p, b)
             ffn == FeedForward(n, b)
  <2>1. n \in 1..Layers
    BY <1>1
  <2>2. attention \in Seq(Operators(b))
    BY <2>1, AttentionFlow DEF Flow
  <2>3. ffn \in Seq(Operators(b))
    BY <2>1, FeedForwardFlow DEF Flow
  <2>4. Layer(n, p, b) = attention \o ffn
    BY DEF Layer
  <2> HIDE DEF attention
  <2>5. CASE n = 1
    <3>1. f[n] = Layer(n, p, b)
      BY <1>5, <2>1, <2>5
    <3> QED
      BY <2>2, <2>4, <3>1
  <2>6. CASE n # 1
    <3> DEFINE before == f[n - 1]
    <3>1. n - 1 \in 1..n /\ n \in 1..n
      BY <1>1, <2>6
    <3>2. f[n] = before \o Layer(n, p, b)
      BY <1>5, <2>6, <3>1
    <3>3. before \in Seq(Operators(b))
      <4>1. fine(f, n - 1)
        <5> HIDE DEF fine
        <5> QED
          BY <1>8, <3>1
      <4> QED
        BY <4>1 DEF Flow
    <3> DEFINE S == Operators(b)
    <3> HIDE DEF before, ffn, S
    <3>6. before \in Seq(S) /\ attention \in Seq(S) /\ ffn \in Seq(S)
      BY <2>2, <2>3, <3>3 DEF S
    <3>4. (before \o attention) \o ffn = before \o (attention \o ffn)
      BY ONLY <3>6, ConcatAssociative
    <3>5. before \o attention \in Seq(Operators(b))
      BY <2>2, <3>3, ConcatProperties
    <3> QED
      BY <2>4, <3>2, <3>4, <3>5 DEF ffn
  <2> QED
    BY <2>5, <2>6
<1>11. FlattenSeq(q) = f[n]
  BY <1>2
<1> QED
  BY <1>9, <1>10, <1>11 DEF q

----------------------------------------------------------------------------
(* The graph of a pass *)

\* The feed forward network of the last layer, and behind it nothing but the head of
\* the language model
NetworkLast(b, g) ==
  \E a, t \in Seq(Operators(b)) :
    /\ g = (a \o FeedForward(Layers, b)) \o t
    /\ \A i \in 1..Len(t) : t[i].op \in {"RMS_NORM", "MAT_MUL"}

\* Every operator finds what it needs, the cache included, all layers store the
\* entries of the batch, and behind the feed forward network of the last layer comes
\* nothing but the head of the language model.
LEMMA GraphIs ==
  ASSUME NEW b \in Nat \ {0}, NEW p \in Nat, NEW lmHead \in BOOLEAN, p + b <= Ctx
  PROVE  /\ Flow(b, ForwardGraph(p, b, lmHead), {}, StoredTo(Layers))
         /\ NetworkLast(b, ForwardGraph(p, b, lmHead))
<1> DEFINE none == {}
           one == 1
           embed == Operator("GET_EMBEDDING", Token, none, one, Dim)
           last == <<"ffn_out", Layers>>
           lastIn == {last}
           normed == <<"final_norm", 0>>
           normedIn == {normed}
           out == <<"logits", 0>>
           norm == Operator("RMS_NORM", normed, lastIn, b, Dim)
           head == MatMul(out, normedIn, Dim, Vocab, b, TRUE)
           t == IF lmHead THEN <<norm, head>> ELSE <<>>
           ffn == FeedForward(Layers, b)
           m0 == {Token}
           m1 == {last} \cup StoredTo(Layers)
           m2 == m1 \cup {normed}
           m3 == m2 \cup {out}
<1>1. /\ 0 \in Nat /\ one \in Nat \ {0} /\ b \in Nat /\ Layers \in Nat /\ Layers \in 1..Layers
      /\ Dim \in Nat /\ Dim \in Nat \ {0} /\ Vocab \in Nat \ {0}
  BY Sizes
<1>2. PICK s, a :
        /\ FlattenSeq([L \in 1..Layers |-> Attention(L, p, b) \o FeedForward(L, b)]) = s
        /\ Flow(b, s, {Token}, {<<"ffn_out", Layers>>} \cup StoredTo(Layers))
        /\ a \in Seq(Operators(b)) /\ s = a \o FeedForward(Layers, b)
  BY LayersFlow
<1>3. ForwardGraph(p, b, lmHead) = (<<embed>> \o s) \o t
  <2>1. \A flat : flat = s => (<<embed>> \o flat) \o t = (<<embed>> \o s) \o t
    OBVIOUS
  <2> QED
    BY ONLY <1>2, <2>1 DEF ForwardGraph, Token, embed, t, none, one, norm, head, normed, lastIn, last, out, normedIn
<1>4. /\ Token \in Tensors /\ Plain(Token) /\ normed \in Tensors /\ Plain(normed)
      /\ last \in Tensors /\ Plain(last) /\ out \in Tensors
  <2>1. {"embedding", "ffn_out", "final_norm", "logits"} \subseteq PlainNames
    BY DEF PlainNames, Names
  <2> QED
    BY <1>1, <2>1, PlainTensor DEF Token
<1>5. /\ "GET_EMBEDDING" \in Simple /\ "RMS_NORM" \in Simple
      /\ Dim \in {Dim, Hidden}
  BY DEF Kinds, Simple, Buffered, AreaLengths
<1>6. none \in SUBSET Tensors /\ \A x \in none : Plain(x)
  OBVIOUS
<1>7. /\ lastIn \in SUBSET Tensors /\ \A x \in lastIn : Plain(x)
      /\ normedIn \in SUBSET Tensors /\ \A x \in normedIn : Plain(x)
  <2> HIDE DEF last, normed
  <2> QED
    BY <1>4
<1>8. norm.op = "RMS_NORM" /\ head.op = "MAT_MUL"
  BY DEF Operator, MatMul
<1>9. last \in m1
  OBVIOUS
<1>10. ffn \in Seq(Operators(b)) /\ s = a \o ffn
  BY <1>1, <1>2, FeedForwardFlow DEF Flow
<1>11. Flow(b, s, m0, m1)
  BY <1>2
<1>12. StoredTo(Layers) \subseteq m1
  OBVIOUS
<1> HIDE DEF none, one, last, normed, out, lastIn, normedIn, ffn
<1>13. Makes(b, embed, none, Token)
  BY <1>1, <1>4, <1>5, <1>6, SimpleIs
<1>14. Makes(b, norm, lastIn, normed)
  BY <1>1, <1>4, <1>5, <1>7, SimpleIs
<1>15. Makes(b, head, normedIn, out)
  BY <1>1, <1>4, <1>5, <1>7, PlainProductIs
<1>16. <<norm, head>> = Append(<<norm>>, head)
  <2> HIDE DEF norm, head
  <2> QED
    OBVIOUS
<1> HIDE DEF embed, norm, head
<1>17. Flow(b, <<embed>>, none, m0)
  <2>1. Needs(embed) \subseteq none /\ m0 \subseteq none \cup Gives(embed)
    BY <1>13 DEF Makes
  <2> QED
    BY <1>13, <2>1, FlowOne DEF Makes
<1>18. Flow(b, <<embed>> \o s, none, m1)
  <2> DEFINE es == <<embed>>
  <2> HIDE DEF es, m0, m1
  <2>1. Flow(b, es, none, m0)
    BY <1>17 DEF es
  <2>2. Flow(b, es \o s, none, m1)
    BY <1>11, <2>1, FlowJoins
  <2> QED
    BY <2>2 DEF es
<1> DEFINE before == <<embed>> \o s
<1>19. /\ Flow(b, before \o t, none, StoredTo(Layers))
       /\ t \in Seq(Operators(b)) /\ \A i \in 1..Len(t) : t[i].op \in {"RMS_NORM", "MAT_MUL"}
  <2>1. CASE lmHead
    <3>1. t = <<norm, head>>
      BY <2>1
    <3>2. Flow(b, <<norm>>, m1, m2)
      <4>1. Needs(norm) \subseteq m1 /\ m2 \subseteq m1 \cup Gives(norm)
        BY <1>9, <1>14 DEF Makes, lastIn
      <4> HIDE DEF m1, m2
      <4> QED
        BY <1>14, <4>1, FlowOne DEF Makes
    <3>3. Flow(b, <<norm, head>>, m1, m3)
      <4>1. Needs(head) \subseteq m2 /\ m3 \subseteq m2 \cup Gives(head)
        BY <1>15 DEF Makes, normedIn
      <4> DEFINE ns == <<norm>>
      <4> HIDE DEF m1, m2, m3, ns
      <4>2. Flow(b, ns, m1, m2)
        BY <3>2 DEF ns
      <4>3. Flow(b, Append(ns, head), m1, m3)
        BY <1>15, <4>1, <4>2, FlowNext DEF Makes
      <4> QED
        BY <1>16, <4>3 DEF ns
    <3>4. StoredTo(Layers) \subseteq m1 \cup m3 /\ m1 \subseteq m1
      OBVIOUS
    <3>5. Len(<<norm, head>>) = 2 /\ \A i \in 1..2 : <<norm, head>>[i].op \in {"RMS_NORM", "MAT_MUL"}
      BY <1>8
    <3> DEFINE goal == StoredTo(Layers)
    <3> HIDE DEF before, t, m1, m3, goal
    <3>6. Flow(b, before, none, m1) /\ Flow(b, t, m1, m3)
      BY <1>18, <3>1, <3>3 DEF before
    <3>7. Flow(b, before \o t, none, goal)
      BY <3>4, <3>6, FlowThen DEF goal
    <3> QED
      BY <3>1, <3>5, <3>6, <3>7 DEF Flow, goal
  <2>2. CASE ~lmHead
    <3>1. t = <<>> /\ Len(t) = 0 /\ t \in Seq(Operators(b))
      BY <2>2
    <3> HIDE DEF t
    <3>2. before \in Seq(Operators(b)) /\ StoredTo(Layers) \subseteq m1
      BY <1>12, <1>18 DEF Flow
    <3> DEFINE goal == StoredTo(Layers)
    <3> HIDE DEF before, m1
    <3>3. Flow(b, before, none, m1)
      BY <1>18 DEF before
    <3>4. before \o t = before
      BY <3>1, <3>2, ConcatEmptySeq
    <3>5. Flow(b, before, none, goal)
      BY <3>2, <3>3 DEF Flow
    <3> QED
      BY <3>1, <3>4, <3>5
  <2> QED
    BY <2>1, <2>2
<1>20. \E x \in Seq(Operators(b)) : before = x \o ffn
  <2> DEFINE es == <<embed>>
  <2>1. es \in Seq(Operators(b))
    BY <1>13 DEF Makes
  <2> DEFINE S == Operators(b)
  <2> HIDE DEF es, S
  <2>4. es \in Seq(S) /\ a \in Seq(S) /\ ffn \in Seq(S)
    BY <1>2, <1>10, <2>1 DEF S
  <2>2. (es \o a) \o ffn = es \o (a \o ffn)
    BY ONLY <2>4, ConcatAssociative
  <2>5. es \o a \in Seq(S)
    BY ONLY <2>4, ConcatProperties
  <2>3. es \o a \in Seq(Operators(b))
    BY <2>5 DEF S
  <2> QED
    BY <1>10, <2>2, <2>3 DEF es
<1> HIDE DEF before, t
<1> QED
  BY <1>3, <1>19, <1>20 DEF before, ffn, none, NetworkLast

----------------------------------------------------------------------------
(* What plan() asks for *)

Resets == {"PERMUTE", "CONT", "GET_MASK", "GET_EMBEDDING"}

\* The equation of the table of the sizes after each operator
Planned(s, n, f) ==
  f = [i \in 0..n |-> IF i = 0 \/ s[i].op \in Resets THEN 0 ELSE Larger(f[i - 1], Work(s[i]))]

LEMMA PlanSolves ==
  ASSUME NEW s, NEW n \in Nat
  PROVE  \E f : Planned(s, n, f)
<1> DEFINE value(f, i) == IF i = 0 \/ s[i].op \in Resets THEN 0 ELSE Larger(f[i - 1], Work(s[i]))
           unsolved == {m \in 0..n : ~\E f : Planned(s, m, f)}
<1>0. \A f, g, i : (i # 0 => f[i - 1] = g[i - 1]) => value(f, i) = value(g, i)
  OBVIOUS
<1>1. ASSUME unsolved # {} PROVE FALSE
  <2>0. unsolved \subseteq Nat
    OBVIOUS
  <2>1. PICK m \in unsolved : \A j \in unsolved : m <= j
    <3> HIDE DEF unsolved
    <3> QED
      BY <1>1, <2>0, LeastNumber
  <2>2. CASE m = 0
    <3> DEFINE f == [i \in 0..0 |-> 0]
    <3>1. \A i \in 0..0 : i = 0
      OBVIOUS
    <3>2. f = [i \in 0..0 |-> value(f, i)]
      BY <3>1
    <3> HIDE DEF f
    <3>3. Planned(s, 0, f)
      BY <3>2 DEF Planned
    <3> QED
      BY <2>1, <2>2, <3>3
  <2>3. CASE m # 0
    <3>1. m - 1 \in 0..n /\ m - 1 \notin unsolved /\ m \in 0..n
      BY <2>1, <2>3
    <3>2. PICK f : Planned(s, m - 1, f)
      BY <3>1
    <3> DEFINE g == [i \in 0..m |-> IF i = m THEN value(f, i) ELSE f[i]]
    <3> HIDE DEF value
    <3>3. ASSUME NEW i \in 0..m PROVE g[i] = value(g, i)
      <4>1. i # 0 => i - 1 \in 0..m /\ i - 1 # m
        BY <3>1
      <4>2. i # 0 => f[i - 1] = g[i - 1]
        BY <4>1
      <4>3. value(f, i) = value(g, i)
        <5> HIDE DEF g
        <5> QED
          BY <1>0, <4>2
      <4>4. CASE i = m
        BY <4>3, <4>4
      <4>5. CASE i # m
        <5>1. i \in 0..m-1
          BY <3>1, <4>5
        <5>2. f[i] = value(f, i)
          BY <3>2, <5>1 DEF Planned, value
        <5> QED
          BY <4>3, <4>5, <5>2
      <4> QED
        BY <4>4, <4>5
    <3>4. g = [i \in 0..m |-> g[i]]
      OBVIOUS
    <3> HIDE DEF g
    <3>5. g = [i \in 0..m |-> value(g, i)]
      BY <3>3, <3>4
    <3>6. Planned(s, m, g)
      BY <3>5 DEF Planned, value
    <3> QED
      BY <2>1, <3>6
  <2> QED
    BY <2>2, <2>3
<1>2. n \in 0..n
  OBVIOUS
<1> QED
  BY <1>1, <1>2

LEMMA PlanIs ==
  ASSUME NEW s, Len(s) \in Nat
  PROVE  \E f : Planned(s, Len(s), f) /\ Plan(s) = f[Len(s)]
<1> DEFINE g == CHOOSE f : Planned(s, Len(s), f)
<1>1. Plan(s) = g[Len(s)]
  BY DEF Plan, Planned, Resets
<1>2. Planned(s, Len(s), g)
  BY PlanSolves
<1> QED
  BY <1>1, <1>2

LEMMA WorkIs ==
  ASSUME NEW b \in Nat \ {0}, NEW op \in Operators(b)
  PROVE  /\ Work(op) \in Nat
         /\ op.convert => Work(op) = QuantSize * op.depth * op.units
<1>1. /\ op.units \in Nat /\ op.len \in Nat /\ op.depth \in Nat
      /\ op.convert => op.op = "MAT_MUL"
  BY DEF Operators
<1>2. QuantSize \in Nat /\ FloatSize \in Nat /\ Width \in Nat
  BY PassAssumption, ThreadNumbers
<1>3. \A m, n \in Nat : m * n \in Nat
  OBVIOUS
<1>4. Smaller(Width, op.units) \in Nat
  BY <1>1, <1>2 DEF Smaller
<1> DEFINE asked == QuantSize * op.depth * op.units
           rows == FloatSize * op.len * Smaller(Width, op.units)
           angles == FloatSize * op.len * Width
<1>5. asked \in Nat /\ rows \in Nat /\ angles \in Nat
  <2> DEFINE least == Smaller(Width, op.units)
  <2>1. least \in Nat
    BY <1>4
  <2> HIDE DEF least
  <2>2. QuantSize * op.depth \in Nat /\ FloatSize * op.len \in Nat
    BY <1>1, <1>2, <1>3
  <2>3. FloatSize * op.len * least \in Nat
    BY <1>3, <2>1, <2>2
  <2> QED
    BY <1>1, <1>2, <1>3, <2>2, <2>3 DEF least
<1>6. /\ op.op = "MAT_MUL" /\ op.convert => Work(op) = asked
      /\ Work(op) \in {asked, rows, angles, 0}
  BY DEF Work
<1> HIDE DEF asked, rows, angles
<1>7. Work(op) \in Nat
  BY <1>5, <1>6
<1>8. op.convert => Work(op) = asked
  BY <1>1, <1>6
<1> QED
  BY <1>7, <1>8 DEF asked

\* plan() does not forget an operator when none comes after it that makes it forget.
LEMMA PlanKeeps ==
  ASSUME NEW b \in Nat \ {0}, NEW s \in Seq(Operators(b))
  PROVE  /\ Plan(s) \in Nat
         /\ \A i \in 1..Len(s) :
              (\A j \in i..Len(s) : s[j].op \notin Resets) => Work(s[i]) <= Plan(s)
<1> DEFINE n == Len(s)
<1>1. n \in Nat /\ \A i \in 1..n : s[i] \in Operators(b)
  BY LenProperties, ElementOfSeq
<1>2. PICK f : Planned(s, n, f) /\ Plan(s) = f[n]
  BY <1>1, PlanIs
<1> HIDE DEF n
<1>3. \A i \in 0..n : f[i] = IF i = 0 \/ s[i].op \in Resets THEN 0 ELSE Larger(f[i - 1], Work(s[i]))
  BY <1>2 DEF Planned
<1>4. \A i \in 1..n : Work(s[i]) \in Nat
  BY <1>1, WorkIs
<1> DEFINE wrong == {i \in 0..n : f[i] \notin Nat}
<1>5. ASSUME wrong # {} PROVE FALSE
  <2>0. wrong \subseteq Nat
    BY <1>1
  <2>1. PICK i \in wrong : \A j \in wrong : i <= j
    <3> HIDE DEF wrong
    <3> QED
      BY <1>5, <2>0, LeastNumber
  <2>2. i \in 0..n /\ f[i] \notin Nat
    BY <2>1
  <2>3. i # 0 /\ f[i] = Larger(f[i - 1], Work(s[i]))
    BY <1>3, <2>2
  <2>4. i - 1 \in 0..n /\ i \in 1..n /\ ~(i <= i - 1)
    BY <1>1, <2>2, <2>3
  <2>5. f[i - 1] \in Nat
    BY <2>1, <2>4
  <2> QED
    BY <1>4, <2>2, <2>3, <2>4, <2>5 DEF Larger
<1>6. \A i \in 0..n : f[i] \in Nat
  BY <1>5
<1>7. ASSUME NEW i \in 1..n, \A j \in i..n : s[j].op \notin Resets
      PROVE  Work(s[i]) <= f[n]
  <2> DEFINE less == {j \in i..n : ~(Work(s[i]) <= f[j])}
  <2>1. \A j \in i..n : /\ f[j] = Larger(f[j - 1], Work(s[j])) /\ j \in 1..n /\ j - 1 \in 0..n
    <3>1. ASSUME NEW j \in i..n PROVE f[j] = Larger(f[j - 1], Work(s[j])) /\ j \in 1..n /\ j - 1 \in 0..n
      <4>1. j \in 1..n /\ j \in 0..n /\ j - 1 \in 0..n /\ j # 0
        BY <1>1
      <4>2. s[j].op \notin Resets
        BY <1>7
      <4> QED
        BY <1>3, <4>1, <4>2
    <3> QED
      BY <3>1
  <2>2. ASSUME less # {} PROVE FALSE
    <3>0. less \subseteq Nat
      BY <1>1
    <3>1. PICK j \in less : \A k \in less : j <= k
      <4> HIDE DEF less
      <4> QED
        BY <2>2, <3>0, LeastNumber
    <3>2. j \in i..n /\ ~(Work(s[i]) <= f[j])
      BY <3>1
    <3>3. /\ f[j] = Larger(f[j - 1], Work(s[j])) /\ j \in 1..n
          /\ f[j - 1] \in Nat /\ Work(s[j]) \in Nat /\ Work(s[i]) \in Nat
      BY <1>4, <1>6, <2>1, <3>2
    <3>4. f[j - 1] <= f[j] /\ Work(s[j]) <= f[j] /\ f[j] \in Nat
      BY <3>3 DEF Larger
    <3>5. j # i
      BY <3>2, <3>4
    <3>6. j - 1 \in i..n /\ ~(j <= j - 1)
      BY <1>1, <3>2, <3>5
    <3>7. Work(s[i]) <= f[j - 1]
      BY <3>1, <3>6
    <3> QED
      BY <3>2, <3>3, <3>4, <3>7
  <2>3. n \in i..n
    BY <1>1
  <2> QED
    BY <2>2, <2>3
<1>8. n \in 0..n
  BY <1>1
<1> QED
  BY <1>2, <1>6, <1>7, <1>8 DEF n

\* Where the elements of two sequences are in the joined one
Joins(s, t, st) ==
  /\ Len(s) \in Nat /\ Len(t) \in Nat /\ Len(st) = Len(s) + Len(t)
  /\ \A j \in 1..Len(s) : st[j] = s[j]
  /\ \A j \in 1..Len(t) : st[Len(s) + j] = t[j]

LEMMA Joined ==
  ASSUME NEW S, NEW s \in Seq(S), NEW t \in Seq(S)
  PROVE  Joins(s, t, s \o t)
<1> DEFINE st == s \o t
           n == Len(s)
           m == Len(t)
<1>1. /\ n \in Nat /\ m \in Nat /\ Len(st) = n + m
      /\ \A j \in 1..n+m : st[j] = IF j <= n THEN s[j] ELSE t[j - n]
  BY ConcatProperties, LenProperties
<1> HIDE DEF st, n, m
<1>2. \A j \in 1..n : st[j] = s[j]
  BY <1>1
<1>3. \A j \in 1..m : st[n + j] = t[j]
  <2>1. ASSUME NEW j \in 1..m PROVE st[n + j] = t[j]
    <3>1. n + j \in 1..n+m /\ ~(n + j <= n) /\ (n + j) - n = j
      BY <1>1
    <3> QED
      BY <1>1, <3>1
  <2> QED
    BY <2>1
<1> QED
  BY <1>1, <1>2, <1>3 DEF st, n, m, Joins

\* A feed forward network with nothing behind it that makes plan() forget covers all
\* conversions of the graph: it has both sizes there are.
LEMMA NetworkCovers ==
  ASSUME NEW b \in Nat \ {0}, NEW a \in Seq(Operators(b)), NEW t \in Seq(Operators(b)), NEW g,
         g = (a \o FeedForward(Layers, b)) \o t,
         \A j \in 1..Len(t) : t[j].op \in {"RMS_NORM", "MAT_MUL"}
  PROVE  /\ \A i \in 1..Len(g) :
              g[i].convert => QuantSize * g[i].depth * g[i].units <= Plan(g)
         /\ QuantSize * Dim * b <= Plan(g) /\ QuantSize * Hidden * b <= Plan(g)
<1> DEFINE ffn == FeedForward(Layers, b)
<1>1. g = (a \o ffn) \o t /\ \A j \in 1..Len(t) : t[j].op \in {"RMS_NORM", "MAT_MUL"}
  OBVIOUS
<1>3. ffn \in Seq(Operators(b)) /\ Len(ffn) = 6
  <2>1. Layers \in 1..Layers
    BY Sizes
  <2>2. ffn \in Seq(Operators(b))
    BY <2>1, FeedForwardFlow DEF Flow
  <2>3. Len(ffn) = 6
    BY DEF FeedForward
  <2> QED
    BY <2>2, <2>3
<1>4. /\ ffn[2].op = "MAT_MUL" /\ ffn[2].convert /\ ffn[2].depth = Dim /\ ffn[2].units = b
      /\ ffn[5].op = "MAT_MUL" /\ ffn[5].convert /\ ffn[5].depth = Hidden /\ ffn[5].units = b
      /\ \A j \in 1..6 : ffn[j].op \in {"RMS_NORM", "MAT_MUL", "SILU_HADAMARD", "ADD"}
  <2> DEFINE T(name) == <<name, Layers>>
             o1 == Operator("RMS_NORM", T("ffn_norm"), {T("att_out")}, b, Dim)
             o2 == MatMul(T("gate"), {T("ffn_norm")}, Dim, Hidden, b, TRUE)
             o3 == MatMul(T("up"), {T("ffn_norm")}, Dim, Hidden, b, TRUE)
             o4 == Operator("SILU_HADAMARD", T("silu"), {T("gate"), T("up")}, 1, Hidden)
             o5 == MatMul(T("down"), {T("silu")}, Hidden, Dim, b, TRUE)
             o6 == Operator("ADD", T("ffn_out"), {T("att_out"), T("down")}, b, Dim)
  <2>1. ffn = <<o1, o2, o3, o4, o5, o6>>
    BY DEF FeedForward
  <2>2. /\ o1.op = "RMS_NORM" /\ o2.op = "MAT_MUL" /\ o3.op = "MAT_MUL" /\ o4.op = "SILU_HADAMARD"
        /\ o5.op = "MAT_MUL" /\ o6.op = "ADD"
        /\ o2.convert /\ o2.depth = Dim /\ o2.units = b
        /\ o5.convert /\ o5.depth = Hidden /\ o5.units = b
    BY DEF Operator, MatMul
  <2> HIDE DEF ffn, o1, o2, o3, o4, o5, o6
  <2>3. /\ ffn[1] = o1 /\ ffn[2] = o2 /\ ffn[3] = o3 /\ ffn[4] = o4 /\ ffn[5] = o5 /\ ffn[6] = o6
    BY <2>1
  <2>4. \A j \in 1..6 : j = 1 \/ j = 2 \/ j = 3 \/ j = 4 \/ j = 5 \/ j = 6
    OBVIOUS
  <2>5. \A j \in 1..6 : ffn[j].op \in {"RMS_NORM", "MAT_MUL", "SILU_HADAMARD", "ADD"}
    BY <2>2, <2>3, <2>4
  <2> QED
    BY <2>2, <2>3, <2>5
<1> HIDE DEF ffn
<1> DEFINE m == Len(a)
           k == Len(t)
           af == a \o ffn
<1>2. g = af \o t /\ af \in Seq(Operators(b)) /\ g \in Seq(Operators(b))
  BY <1>1, <1>3, ConcatProperties
<1>5. /\ m \in Nat /\ Len(af) = m + 6
      /\ \A j \in 1..6 : af[m + j] = ffn[j]
  <2>1. Joins(a, ffn, af)
    BY <1>3, Joined
  <2> HIDE DEF af
  <2> QED
    BY <1>3, <2>1 DEF Joins
<1>6. /\ k \in Nat /\ Len(g) = (m + 6) + k
      /\ \A j \in 1..m+6 : g[j] = af[j]
      /\ \A j \in 1..k : g[(m + 6) + j] = t[j]
  <2> HIDE DEF af
  <2>1. Joins(af, t, g)
    BY <1>2, Joined
  <2> QED
    BY <1>5, <2>1 DEF Joins
<1> HIDE DEF m, k, af
<1>7. \A j \in 1..6 : g[m + j] = ffn[j] /\ m + j \in 1..Len(g)
  <2>1. ASSUME NEW j \in 1..6 PROVE g[m + j] = ffn[j] /\ m + j \in 1..Len(g)
    <3>1. m + j \in 1..m+6 /\ m + j \in 1..(m+6)+k
      BY <1>5, <1>6
    <3> QED
      BY <1>5, <1>6, <3>1
  <2> QED
    BY <2>1
<1>8. \A j \in m+1..Len(g) : g[j].op \notin Resets
  <2>1. ASSUME NEW j \in m+1..Len(g) PROVE g[j].op \in {"RMS_NORM", "MAT_MUL", "SILU_HADAMARD", "ADD"}
    <3>1. CASE j <= m + 6
      <4>1. j - m \in 1..6 /\ m + (j - m) = j
        <5>1. m \in Nat /\ Len(g) \in Nat /\ j \in m+1..Len(g) /\ j <= m + 6
          BY <1>5, <1>6, <3>1
        <5> QED
          BY ONLY <5>1
      <4>2. g[j] = ffn[j - m]
        BY <1>7, <4>1
      <4> QED
        BY <1>4, <4>1, <4>2
    <3>2. CASE ~(j <= m + 6)
      <4>1. j - (m + 6) \in 1..k /\ (m + 6) + (j - (m + 6)) = j
        <5>1. m \in Nat /\ k \in Nat /\ j \in m+1..(m+6)+k /\ ~(j <= m + 6)
          BY <1>5, <1>6, <3>2
        <5> QED
          BY ONLY <5>1
      <4>2. g[j] = t[j - (m + 6)]
        BY <1>6, <4>1
      <4>3. t[j - (m + 6)].op \in {"RMS_NORM", "MAT_MUL"}
        BY <1>1, <4>1 DEF k
      <4> QED
        BY <4>2, <4>3
    <3> QED
      BY <3>1, <3>2
  <2> QED
    BY <2>1 DEF Resets
<1>9. ASSUME NEW c \in {2, 5} PROVE Work(g[m + c]) <= Plan(g)
  <2>1. c \in 1..6 /\ m + c \in 1..Len(g) /\ \A j \in m+c..Len(g) : j \in m+1..Len(g)
    <3>1. c \in 1..6 /\ c \in Nat /\ c >= 1
      OBVIOUS
    <3>2. Len(g) \in Nat /\ m \in Nat
      BY <1>5, <1>6
    <3>3. m + c \in 1..Len(g)
      BY ONLY <1>7, <3>1
    <3>4. \A j \in m+c..Len(g) : j \in m+1..Len(g)
      BY ONLY <3>1, <3>2
    <3> QED
      BY <3>1, <3>3, <3>4
  <2> QED
    BY <1>2, <1>8, <2>1, PlanKeeps
<1>10. /\ Work(g[m + 2]) = QuantSize * Dim * b
       /\ Work(g[m + 5]) = QuantSize * Hidden * b
  <2>1. ffn[2] \in Operators(b) /\ ffn[5] \in Operators(b)
    <3>1. 2 \in 1..Len(ffn) /\ 5 \in 1..Len(ffn)
      BY <1>3
    <3> QED
      BY <1>3, <3>1, ElementOfSeq
  <2>2. /\ Work(ffn[2]) = QuantSize * ffn[2].depth * ffn[2].units
        /\ Work(ffn[5]) = QuantSize * ffn[5].depth * ffn[5].units
    BY <1>4, <2>1, WorkIs
  <2>3. g[m + 2] = ffn[2] /\ g[m + 5] = ffn[5]
    BY ONLY <1>7
  <2> QED
    BY <1>4, <2>2, <2>3
<1>11. ASSUME NEW i \in 1..Len(g), g[i].convert
       PROVE  QuantSize * g[i].depth * g[i].units <= Plan(g)
  <2>1. g[i].depth \in {Dim, Hidden} /\ g[i].units = b
    <3>1. g[i] \in Operators(b)
      BY <1>2, ElementOfSeq
    <3> QED
      BY <1>11, <3>1 DEF Operators
  <2>2. CASE g[i].depth = Dim
    BY <1>9, <1>10, <2>1, <2>2
  <2>3. CASE g[i].depth = Hidden
    BY <1>9, <1>10, <2>1, <2>3
  <2> QED
    BY <2>1, <2>2, <2>3
<1>12. QuantSize * Dim * b <= Plan(g) /\ QuantSize * Hidden * b <= Plan(g)
  <2>1. Work(g[m + 2]) <= Plan(g) /\ Work(g[m + 5]) <= Plan(g)
    BY <1>9
  <2> QED
    BY <1>10, <2>1
<1> QED
  BY <1>11, <1>12

\* plan() asks for enough for the conversions of all products.
PlanFits(b, g) == \A i \in 1..Len(g) :
                    g[i].convert => QuantSize * g[i].depth * g[i].units <= Plan(g)

LEMMA PlanCovers ==
  ASSUME NEW b \in Nat \ {0}, NEW p \in Nat, NEW lmHead \in BOOLEAN, p + b <= Ctx
  PROVE  PlanFits(b, ForwardGraph(p, b, lmHead))
<1> DEFINE g == ForwardGraph(p, b, lmHead)
<1>1. NetworkLast(b, g)
  BY GraphIs
<1> HIDE DEF g
<1>2. PlanFits(b, g)
  BY <1>1, NetworkCovers DEF PlanFits, NetworkLast
<1> QED
  BY <1>2 DEF g

----------------------------------------------------------------------------
(* The invariant of a forward pass *)

Kernels == {"RMS_NORM", "ADD", "ROPE", "SOFTMAX_EXT", "CONT", "COPY"}

\* The units of a thread
PartOf(p) == IF Current.op = "RMS_NORM" THEN RowsOf(p) ELSE BlockOf(p)

PassValues ==
  /\ status \in {"running", "overrun"}
  /\ batch \in Nat /\ next \in Nat \ {0} /\ position \in 0..Ctx
  /\ wsize \in Nat /\ passes \in 0..MaxPasses
  /\ cache \subseteq (1..Layers) \X {"k", "v"} \X (0..Ctx-1)

\* The graph is one that forward() makes for the batch, the batch has room in the
\* cache, and the work buffer has been set up for the graph.
GraphInv ==
  IF Running
  THEN /\ batch # 0 /\ position + batch <= Ctx
       /\ Flow(batch, ops, {}, StoredTo(Layers))
       /\ PlanFits(batch, ops) /\ Plan(ops) <= wsize
       /\ next <= Len(ops) + 1
  ELSE batch = 0 /\ next = 1

\* What is written of the output are the parts of the threads that are through.
KernelInv ==
  /\ doneBy \subseteq Threads
  /\ doneBy # {} => Running /\ next <= Len(ops) /\ Current.op \in Kernels
  /\ written = UNION {PartOf(p) : p \in doneBy}

\* Threads are in a product only while the operator that runs is one.
ProductInv == (\E p \in Threads : at[p] # "idle") => Executes("MAT_MUL")

PassInv == ChunkInv /\ PassValues /\ GraphInv /\ KernelInv /\ ProductInv

\* The operator that runs
LEMMA CurrentIs ==
  ASSUME PassInv, next <= Len(ops)
  PROVE  /\ Running /\ ops \in Seq(Operators(batch)) /\ Len(ops) \in Nat /\ next \in 1..Len(ops)
         /\ Current \in Operators(batch) /\ batch \in Nat \ {0}
<1>1. Running
  BY DEF PassInv, GraphInv, Running
<1>2. ops \in Seq(Operators(batch)) /\ batch # 0
  BY <1>1 DEF PassInv, GraphInv, Flow
<1>3. Len(ops) \in Nat
  BY <1>2, LenProperties
<1>4. next \in 1..Len(ops)
  BY <1>3 DEF PassInv, PassValues
<1>5. Current \in Operators(batch)
  BY <1>2, <1>4, ElementOfSeq DEF Current
<1> QED
  BY <1>1, <1>2, <1>3, <1>4, <1>5 DEF PassInv, PassValues

\* Where no graph is there is no operator.
LEMMA NothingRuns ==
  ASSUME PassInv, ~Running
  PROVE  /\ ~(next <= Len(ops)) /\ doneBy = {} /\ written = {} /\ batch = 0 /\ next = 1
         /\ \A p \in Threads : at[p] = "idle"
<1>1. next = 1 /\ batch = 0
  BY DEF PassInv, GraphInv
<1>2. ~(next <= Len(ops))
  BY CurrentIs
<1>3. doneBy = {} /\ written = {}
  BY DEF PassInv, KernelInv
<1>4. \A p \in Threads : at[p] = "idle"
  BY <1>2 DEF PassInv, ProductInv, Executes
<1> QED
  BY <1>1, <1>2, <1>3, <1>4

LEMMA PassInitInv == PassInit => PassInv
<1> SUFFICES ASSUME PassInit PROVE PassInv
  OBVIOUS
<1>1. ChunkInv
  BY MulMatInitChunks DEF PassInit
<1>2. PassValues
  BY PassAssumption DEF PassInit, PassValues
<1>3. GraphInv /\ KernelInv
  BY DEF PassInit, GraphInv, Running, KernelInv
<1>4. ProductInv
  BY DEF PassInit, MulMatInit, ProductInv
<1> QED
  BY <1>1, <1>2, <1>3, <1>4 DEF PassInv

----------------------------------------------------------------------------
(* Its consequences *)

LEMMA PassTypesFollow == PassInv => PassTypeOK
<1> SUFFICES ASSUME PassInv PROVE PassTypeOK
  OBVIOUS
<1>1. Types /\ IInv /\ RoundPerProduct
  BY DEF PassInv, ChunkInv, BarrierInv
<1>2. TypeOK
  BY <1>1, InvariantSays
<1>3. converted \subseteq Nat
  <2>1. Columns(shape) \subseteq Nat
    BY <1>1 DEF Types, Shapes, Columns
  <2> QED
    BY <1>1, <2>1 DEF Types
<1>4. \A p \in Threads : Waiting(p) <=> at[p] = "met"
  <2>1. PICK n \in Nat : InThisRound(n)
    BY <1>1 DEF RoundPerProduct
  <2> QED
    BY <2>1 DEF InThisRound, Past, Through, Waiting
<1>5. MulMatTypeOK
  BY <1>1, <1>2, <1>3, <1>4 DEF MulMatTypeOK, Types
<1>6. next \in 1..Len(ops)+1
  <2>1. CASE Running
    <3>1. ops \in Seq(Operators(batch)) /\ next <= Len(ops) + 1
      BY <2>1 DEF PassInv, GraphInv, Flow
    <3>2. Len(ops) \in Nat
      BY <3>1, LenProperties
    <3> QED
      BY <3>1, <3>2 DEF PassInv, PassValues
  <2>2. CASE ~Running
    <3>1. Len(ops) = 0
      BY <2>2 DEF Running
    <3>2. next = 1
      BY <2>2, NothingRuns
    <3> QED
      BY <3>1, <3>2
  <2> QED
    BY <2>1, <2>2
<1>7. /\ (\E p \in Threads : at[p] # "idle") => Executes("MAT_MUL")
      /\ doneBy \subseteq Threads
      /\ doneBy # {} => Running /\ next <= Len(ops)
  BY DEF PassInv, ProductInv, KernelInv
<1>8. \A i \in written : doneBy # {} /\ i \in 0..Current.units-1
  <2>1. \A p : PartOf(p) \subseteq 0..Current.units-1
    BY DEF PartOf, RowsOf, BlockOf, Part
  <2> QED
    BY <2>1 DEF PassInv, KernelInv
<1> QED
  BY <1>5, <1>6, <1>7, <1>8 DEF PassInv, PassValues, PassTypeOK

LEMMA PassFits == PassInv => RowsFit
<1> SUFFICES ASSUME PassInv, Executes("MAT_MUL"), Current.convert
             PROVE  QuantSize * Current.depth * Current.units <= wsize
  BY DEF RowsFit
<1>1. next <= Len(ops)
  BY DEF Executes
<1>2. next \in 1..Len(ops) /\ Running /\ ops \in Seq(Operators(batch)) /\ Current \in Operators(batch)
      /\ batch \in Nat \ {0}
  BY <1>1, CurrentIs
<1>3. PlanFits(batch, ops) /\ Plan(ops) <= wsize
  BY <1>2 DEF PassInv, GraphInv
<1> DEFINE bytes == QuantSize * Current.depth * Current.units
<1>4. bytes <= Plan(ops)
  BY <1>2, <1>3 DEF PlanFits, Current
<1>5. Plan(ops) \in Nat /\ wsize \in Nat
  BY <1>2, PlanKeeps DEF PassInv, PassValues
<1>6. bytes \in Nat
  <2>1. Work(Current) = bytes /\ Work(Current) \in Nat
    BY <1>2, WorkIs
  <2> QED
    BY <2>1
<1> HIDE DEF bytes
<1>7. bytes <= wsize
  BY <1>3, <1>4, <1>5, <1>6
<1> QED
  BY <1>7 DEF bytes

----------------------------------------------------------------------------
(* Its preservation *)

LEMMA SameGraph ==
  ASSUME GraphInv, UNCHANGED <<ops, batch, next, position, wsize>>
  PROVE  GraphInv'
  BY DEF GraphInv, Running

LEMMA SameKernel ==
  ASSUME KernelInv, UNCHANGED <<ops, next, doneBy, written>>
  PROVE  KernelInv'
  BY DEF KernelInv, PartOf, RowsOf, BlockOf, Current, Running

\* The next operator
LEMMA ConcludeInv ==
  ASSUME PassInv, next <= Len(ops), NEW complete, Conclude(complete),
         UNCHANGED <<ops, batch, position, wsize>>
  PROVE  GraphInv' /\ KernelInv'
<1>1. Running /\ Len(ops) \in Nat /\ next \in 1..Len(ops)
  BY CurrentIs
<1>2. next' = next + 1 /\ next' <= Len(ops) + 1
  BY <1>1 DEF Conclude
<1>3. GraphInv'
  BY <1>1, <1>2 DEF PassInv, GraphInv, Running
<1>4. KernelInv'
  BY DEF Conclude, KernelInv
<1> QED
  BY <1>3, <1>4

LEMMA SameChunks ==
  ASSUME ChunkInv, UNCHANGED mulMatVars
  PROVE  ChunkInv'
  BY StepChunks

LEMMA SetupCovers ==
  ASSUME NEW asked \in Nat, wsize \in Nat
  PROVE  SetupWorkData(wsize, asked) \in Nat /\ asked <= SetupWorkData(wsize, asked)
<1>1. Line * Width \in Nat
  <2>1. Line \in Nat /\ Width \in Nat
    BY PassAssumption, ThreadNumbers
  <2>2. \A m, n \in Nat : m * n \in Nat
    OBVIOUS
  <2> QED
    BY <2>1, <2>2
<1> DEFINE more == Line * Width
<1> HIDE DEF more
<1>2. more \in Nat
  BY <1>1 DEF more
<1> QED
  BY <1>2 DEF SetupWorkData, more

LEMMA StartPassInv ==
  ASSUME PassInv, NEW call \in Calls, StartPass(call)
  PROVE  PassInv'
<1> DEFINE b == call.batch
           g == ForwardGraph(position, b, call.lmHead)
<1>1. b \in Nat \ {0} /\ call.lmHead \in BOOLEAN
  BY PassAssumption
<1>2. /\ ops' = g /\ batch' = b /\ next' = 1 /\ position + b <= Ctx
      /\ wsize' = SetupWorkData(wsize, Plan(g)) /\ ~Running
      /\ passes' = passes + 1 /\ passes < MaxPasses
      /\ UNCHANGED <<mulMatVars, status, doneBy, written, right, cache, position>>
  BY DEF StartPass
<1>3. position \in Nat /\ wsize \in Nat /\ Ctx \in Nat
  BY PassAssumption DEF PassInv, PassValues
<1>4. Flow(b, g, {}, StoredTo(Layers)) /\ PlanFits(b, g)
  BY <1>1, <1>2, <1>3, GraphIs, PlanCovers
<1> HIDE DEF b, g
<1>5. g \in Seq(Operators(b))
  BY <1>4 DEF Flow
<1>6. g # <<>>
  <2>1. 1 \in 1..Layers
    BY Sizes
  <2>2. StoredTo(Layers) # {}
    BY <2>1 DEF StoredTo
  <2>3. Len(g) # 0
    <3>1. ASSUME Len(g) = 0 PROVE FALSE
      <4>1. Made(g, Len(g)) = {}
        BY <3>1 DEF Made
      <4> QED
        BY <1>4, <2>2, <4>1 DEF Flow
    <3> QED
      BY <3>1
  <2> QED
    BY <2>3
<1>7. Plan(g) \in Nat /\ Len(g) \in Nat
  BY <1>1, <1>5, PlanKeeps, LenProperties
<1>8. wsize' \in Nat /\ Plan(g) <= wsize'
  BY <1>2, <1>3, <1>7, SetupCovers
<1>9. GraphInv'
  <2>1. Running'
    BY <1>2, <1>6 DEF Running
  <2>2. batch' # 0 /\ position' + batch' <= Ctx
    BY <1>1, <1>2
  <2>3. next' <= Len(ops') + 1
    BY <1>2, <1>7
  <2> QED
    BY <1>2, <1>4, <1>8, <2>1, <2>2, <2>3 DEF GraphInv
<1>10. doneBy = {} /\ written = {} /\ \A p \in Threads : at[p] = "idle"
  BY <1>2, NothingRuns
<1>11. KernelInv'
  BY <1>2, <1>10 DEF KernelInv
<1>12. ProductInv'
  BY <1>2, <1>10 DEF ProductInv, mulMatVars
<1>13. PassValues'
  BY <1>1, <1>2, <1>8, PassAssumption DEF PassInv, PassValues
<1>14. ChunkInv'
  BY <1>2, SameChunks DEF PassInv
<1> QED
  BY <1>9, <1>11, <1>12, <1>13, <1>14 DEF PassInv

LEMMA NewGenerationInv ==
  ASSUME PassInv, NewGeneration
  PROVE  PassInv'
<1>1. /\ ~Running /\ position' = 0 /\ cache' = {}
      /\ UNCHANGED <<mulMatVars, status, ops, batch, next, doneBy, written, right, wsize, passes>>
  BY DEF NewGeneration
<1>2. GraphInv'
  BY <1>1 DEF PassInv, GraphInv, Running
<1>3. KernelInv'
  BY <1>1, SameKernel DEF PassInv
<1>4. ProductInv'
  BY <1>1, NothingRuns DEF ProductInv, mulMatVars
<1>5. PassValues'
  BY <1>1, PassAssumption DEF PassInv, PassValues
<1>6. ChunkInv'
  BY <1>1, SameChunks DEF PassInv
<1> QED
  BY <1>2, <1>3, <1>4, <1>5, <1>6 DEF PassInv

LEMMA MainThreadInv ==
  ASSUME PassInv, MainThread
  PROVE  PassInv'
<1>1. /\ next <= Len(ops) /\ ~Executes("MAT_MUL") /\ Conclude(TRUE)
      /\ UNCHANGED <<mulMatVars, status, ops, batch, cache, position, wsize, passes>>
  BY DEF MainThread, Executes
<1>2. GraphInv' /\ KernelInv'
  BY <1>1, ConcludeInv
<1>3. ProductInv'
  BY <1>1 DEF PassInv, ProductInv, mulMatVars
<1>4. PassValues'
  BY <1>1 DEF PassInv, PassValues, Conclude
<1>5. ChunkInv'
  BY <1>1, SameChunks DEF PassInv
<1> QED
  BY <1>2, <1>3, <1>4, <1>5 DEF PassInv

LEMMA KernelStepInv ==
  ASSUME PassInv, NEW p \in Threads, NEW kind \in Kernels, NEW part, NEW area,
         Kernel(kind, p, part, area), part = PartOf(p)
  PROVE  PassInv'
<1>1. /\ Executes(kind) /\ doneBy' = doneBy \cup {p} /\ written' = written \cup part
      /\ status' \in {status, "overrun"}
      /\ UNCHANGED <<mulMatVars, ops, batch, next, right, cache, position, wsize, passes>>
  BY DEF Kernel
<1>2. next <= Len(ops) /\ Current.op = kind /\ Running /\ kind # "MAT_MUL"
  BY <1>1, CurrentIs DEF Executes, Kernels
<1>3. GraphInv'
  BY <1>1, SameGraph DEF PassInv
<1>4. KernelInv'
  <2>1. Current' = Current /\ Running' /\ next' <= Len(ops') /\ \A q : PartOf(q)' = PartOf(q)
    BY <1>1, <1>2 DEF Current, Running, PartOf, RowsOf, BlockOf
  <2>2. written' = UNION {PartOf(q) : q \in doneBy'}
    BY <1>1 DEF PassInv, KernelInv
  <2> QED
    BY <1>1, <1>2, <2>1, <2>2 DEF PassInv, KernelInv
<1>5. ProductInv'
  BY <1>1, <1>2 DEF PassInv, ProductInv, Executes, mulMatVars
<1>6. PassValues'
  BY <1>1 DEF PassInv, PassValues
<1>7. ChunkInv'
  BY <1>1, SameChunks DEF PassInv
<1> QED
  BY <1>3, <1>4, <1>5, <1>6, <1>7 DEF PassInv

\* The threads do the parts that are theirs.
LEMMA ThreadsDoParts ==
  ASSUME NEW p, RmsNorm(p) \/ Add(p) \/ Rope(p) \/ SoftmaxExt(p) \/ Cont(p) \/ Copy(p)
  PROVE  \E kind \in Kernels : \E area : Kernel(kind, p, PartOf(p), area)
<1> USE DEF PartOf, Kernels
<1>1. CASE RmsNorm(p)
  <2>1. Current.op = "RMS_NORM"
    BY <1>1 DEF RmsNorm, Kernel, Executes
  <2> QED
    BY <1>1, <2>1 DEF RmsNorm
<1>2. CASE Add(p)
  <2>1. Current.op = "ADD"
    BY <1>2 DEF Add, Kernel, Executes
  <2> QED
    BY <1>2, <2>1 DEF Add
<1>3. CASE Rope(p)
  <2>1. Current.op = "ROPE"
    BY <1>3 DEF Rope, Kernel, Executes
  <2> QED
    BY <1>3, <2>1 DEF Rope
<1>4. CASE SoftmaxExt(p)
  <2>1. Current.op = "SOFTMAX_EXT"
    BY <1>4 DEF SoftmaxExt, Kernel, Executes
  <2> QED
    BY <1>4, <2>1 DEF SoftmaxExt
<1>5. CASE Cont(p)
  <2>1. Current.op = "CONT"
    BY <1>5 DEF Cont, Kernel, Executes
  <2> QED
    BY <1>5, <2>1 DEF Cont
<1>6. CASE Copy(p)
  <2>1. Current.op = "COPY"
    BY <1>6 DEF Copy, Kernel, Executes
  <2> QED
    BY <1>6, <2>1 DEF Copy
<1> QED
  BY <1>1, <1>2, <1>3, <1>4, <1>5, <1>6

\* A kernel is over only when it has run.
LEMMA ReturnsRuns ==
  ASSUME PassInv, Returns
  PROVE  next <= Len(ops) /\ Current.op \in Kernels /\ ~Executes("MAT_MUL")
<1>1. doneBy # {}
  BY ThreadsAssumption DEF Returns
<1> QED
  BY <1>1 DEF PassInv, KernelInv, Executes, Kernels

LEMMA EndKernelInv ==
  ASSUME PassInv, EndKernel
  PROVE  PassInv'
<1>1. /\ Returns /\ Conclude(Complete)
      /\ UNCHANGED <<mulMatVars, status, ops, batch, cache, position, wsize, passes>>
  BY DEF EndKernel
<1>2. next <= Len(ops) /\ ~Executes("MAT_MUL")
  BY <1>1, ReturnsRuns
<1>3. GraphInv' /\ KernelInv'
  BY <1>1, <1>2, ConcludeInv
<1>4. ProductInv'
  BY <1>1, <1>2 DEF PassInv, ProductInv, mulMatVars
<1>5. PassValues'
  BY <1>1 DEF PassInv, PassValues, Conclude
<1>6. ChunkInv'
  BY <1>1, SameChunks DEF PassInv
<1> QED
  BY <1>3, <1>4, <1>5, <1>6 DEF PassInv

\* What the cache has room for
Room == (1..Layers) \X {"k", "v"} \X (0..Ctx-1)

LEMMA EntriesIn ==
  ASSUME NEW L \in 1..Layers, NEW kind \in {"k", "v"}, NEW from, NEW to,
         \A i \in from..to-1 : i \in 0..Ctx-1
  PROVE  Entries(L, kind, from, to) \subseteq Room
<1> DEFINE kinds == {"k", "v"}
<1>1. kind \in kinds
  OBVIOUS
<1> HIDE DEF kinds
<1>2. \A i \in from..to-1 : <<L, kind, i>> \in (1..Layers) \X kinds \X (0..Ctx-1)
  BY <1>1
<1>3. Entries(L, kind, from, to) \subseteq (1..Layers) \X kinds \X (0..Ctx-1)
  BY <1>2 DEF Entries
<1> QED
  BY <1>3 DEF kinds, Room

\* Entries of a view of the batch are entries of the cache.
LEMMA EntriesAre ==
  ASSUME PassInv, next <= Len(ops), NEW view \in Current.ins, IsPlace(view),
         NEW to \in {position, 0}
  PROVE  Entries(view[2], Kind(view), to, to + batch) \subseteq Room
<1>1. view[2] \in 1..Layers
  BY CurrentIs DEF Operators
<1>2. Kind(view) \in {"k", "v"}
  BY DEF Kind
<1>3. position + batch <= Ctx /\ position \in Nat /\ batch \in Nat /\ Ctx \in Nat
  BY CurrentIs, PassAssumption DEF PassInv, GraphInv, PassValues
<1>4. \A i \in to..(to+batch)-1 : i \in 0..Ctx-1
  BY <1>3
<1> DEFINE end == to + batch
           L == view[2]
           kind == Kind(view)
<1>5. L \in 1..Layers /\ kind \in {"k", "v"} /\ \A i \in to..end-1 : i \in 0..Ctx-1
  BY <1>1, <1>2, <1>4
<1> HIDE DEF end, L, kind
<1>6. Entries(L, kind, to, end) \subseteq Room
  BY <1>5, EntriesIn
<1> QED
  BY <1>6 DEF end, L, kind

LEMMA EndCopyInv ==
  ASSUME PassInv, EndCopy
  PROVE  PassInv'
<1>1. /\ Returns /\ Conclude(Complete)
      /\ UNCHANGED <<mulMatVars, status, ops, batch, position, wsize, passes>>
  BY DEF EndCopy
<1>2. next <= Len(ops) /\ ~Executes("MAT_MUL")
  BY <1>1, ReturnsRuns
<1>3. GraphInv' /\ KernelInv'
  BY <1>1, <1>2, ConcludeInv
<1>4. ProductInv'
  BY <1>1, <1>2 DEF PassInv, ProductInv, mulMatVars
<1>5. cache' \subseteq Room
  <2>1. PICK view \in Current.ins :
          /\ IsPlace(view)
          /\ LET to  == IF view \in right THEN position ELSE 0
                 new == Entries(view[2], Kind(view), to, to + batch)
             IN  cache' = IF Complete /\ Operands(Current) THEN cache \cup new ELSE cache \ new
    BY DEF EndCopy, IsPlace
  <2> DEFINE to  == IF view \in right THEN position ELSE 0
             new == Entries(view[2], Kind(view), to, to + batch)
  <2>2. new \subseteq Room
    <3>1. to \in {position, 0}
      OBVIOUS
    <3> HIDE DEF to
    <3> QED
      BY <1>2, <2>1, <3>1, EntriesAre
  <2>3. cache' \subseteq cache \cup new
    <3> HIDE DEF to
    <3> QED
      BY <2>1 DEF to
  <2> HIDE DEF new
  <2> QED
    BY <2>2, <2>3 DEF PassInv, PassValues, Room
<1>6. PassValues'
  BY <1>1, <1>5 DEF PassInv, PassValues, Conclude, Room
<1>7. ChunkInv'
  BY <1>1, SameChunks DEF PassInv
<1> QED
  BY <1>3, <1>4, <1>6, <1>7 DEF PassInv

LEMMA StartProductInv ==
  ASSUME PassInv, StartProduct
  PROVE  PassInv'
<1>1. /\ Executes("MAT_MUL") /\ \E s \in Shapes : Begin(s)
      /\ UNCHANGED executorVars
  BY DEF StartProduct, Begin
<1>2. ChunkInv'
  BY <1>1, StepChunks DEF PassInv, MulMatNext
<1>3. ProductInv'
  BY <1>1 DEF ProductInv, Executes, Current, executorVars
<1>4. GraphInv' /\ KernelInv'
  BY <1>1, SameGraph, SameKernel DEF PassInv, executorVars
<1>5. PassValues'
  BY <1>1 DEF PassInv, PassValues, executorVars
<1> QED
  BY <1>2, <1>3, <1>4, <1>5 DEF PassInv

LEMMA ProductStepInv ==
  ASSUME PassInv, NEW p \in Threads, Product(p)
  PROVE  PassInv'
<1>1. MulMatThread(p) /\ UNCHANGED executorVars
  BY DEF Product
<1>2. ChunkInv'
  BY <1>1, StepChunks DEF PassInv, MulMatNext
<1>3. Executes("MAT_MUL")
  <2>1. \E q \in Threads : at[q] # "idle"
    BY <1>1 DEF MulMatThread, Convert, Store, Meet, Met, Multiply, NoChunkLeft, Fetch, Step
  <2> QED
    BY <2>1 DEF PassInv, ProductInv
<1>4. ProductInv'
  BY <1>1, <1>3 DEF ProductInv, Executes, Current, executorVars
<1>5. GraphInv' /\ KernelInv'
  BY <1>1, SameGraph, SameKernel DEF PassInv, executorVars
<1>6. PassValues'
  BY <1>1 DEF PassInv, PassValues, executorVars
<1> QED
  BY <1>2, <1>4, <1>5, <1>6 DEF PassInv

LEMMA EndProductInv ==
  ASSUME PassInv, EndProduct
  PROVE  PassInv'
<1>1. /\ End /\ \E complete : Conclude(complete)
      /\ UNCHANGED <<status, ops, batch, cache, position, wsize, passes>>
  BY DEF EndProduct
<1>2. Executes("MAT_MUL")
  <2>1. \E q \in Threads : at[q] = "done"
    BY <1>1, ThreadsAssumption DEF End, AllDone
  <2> QED
    BY <2>1 DEF PassInv, ProductInv
<1>3. ChunkInv'
  BY <1>1, StepChunks DEF PassInv, MulMatNext
<1>4. ProductInv'
  BY <1>1 DEF End, ProductInv
<1>5. GraphInv' /\ KernelInv'
  BY <1>1, <1>2, ConcludeInv DEF Executes
<1>6. PassValues'
  BY <1>1 DEF PassInv, PassValues, Conclude
<1> QED
  BY <1>3, <1>4, <1>5, <1>6 DEF PassInv

LEMMA EndPassInv ==
  ASSUME PassInv, EndPass
  PROVE  PassInv'
<1>1. /\ Running /\ next > Len(ops) /\ position' = position + batch
      /\ ops' = <<>> /\ batch' = 0 /\ next' = 1
      /\ UNCHANGED <<mulMatVars, status, doneBy, written, cache, wsize, passes>>
  BY DEF EndPass
<1>2. ~(next <= Len(ops))
  <2>1. Len(ops) \in Nat
    BY <1>1, LenProperties DEF PassInv, GraphInv, Flow
  <2> QED
    BY <1>1, <2>1 DEF PassInv, PassValues
<1>3. doneBy = {} /\ written = {} /\ \A p \in Threads : at[p] = "idle"
  BY <1>2 DEF PassInv, KernelInv, ProductInv, Executes
<1>4. GraphInv'
  BY <1>1 DEF GraphInv, Running
<1>5. KernelInv'
  BY <1>1, <1>3 DEF KernelInv
<1>6. ProductInv'
  BY <1>1, <1>3 DEF ProductInv, mulMatVars
<1>7. PassValues'
  <2>1. position + batch <= Ctx
    BY <1>1 DEF PassInv, GraphInv
  <2> QED
    BY <1>1, <2>1, PassAssumption DEF PassInv, PassValues
<1>8. ChunkInv'
  BY <1>1, SameChunks DEF PassInv
<1> QED
  BY <1>4, <1>5, <1>6, <1>7, <1>8 DEF PassInv

LEMMA PassStepInv == PassInv /\ [PassNext]_passVars => PassInv'
<1> SUFFICES ASSUME PassInv, [PassNext]_passVars PROVE PassInv'
  OBVIOUS
<1>1. ASSUME NEW call \in Calls, StartPass(call) PROVE PassInv'
  BY <1>1, StartPassInv
<1>2. CASE NewGeneration
  BY <1>2, NewGenerationInv
<1>3. CASE MainThread
  BY <1>3, MainThreadInv
<1>4. CASE StartProduct
  BY <1>4, StartProductInv
<1>5. CASE EndProduct
  BY <1>5, EndProductInv
<1>6. CASE EndKernel
  BY <1>6, EndKernelInv
<1>7. CASE EndCopy
  BY <1>7, EndCopyInv
<1>8. CASE EndPass
  BY <1>8, EndPassInv
<1>9. ASSUME NEW p \in Threads, Product(p) PROVE PassInv'
  BY <1>9, ProductStepInv
<1>10. ASSUME NEW p \in Threads,
              RmsNorm(p) \/ Add(p) \/ Rope(p) \/ SoftmaxExt(p) \/ Cont(p) \/ Copy(p)
       PROVE  PassInv'
  <2>1. PICK kind \in Kernels : \E area : Kernel(kind, p, PartOf(p), area)
    BY <1>10, ThreadsDoParts
  <2>2. PICK area : Kernel(kind, p, PartOf(p), area)
    BY <2>1
  <2> QED
    BY <2>2, KernelStepInv
<1>11. CASE UNCHANGED passVars
  <2>1. UNCHANGED <<mulMatVars, executorVars>>
    BY <1>11 DEF passVars
  <2>2. ChunkInv'
    BY <2>1, SameChunks DEF PassInv
  <2>3. GraphInv' /\ KernelInv'
    BY <2>1, SameGraph, SameKernel DEF PassInv, executorVars
  <2>4. ProductInv' /\ PassValues'
    BY <2>1 DEF PassInv, ProductInv, Executes, Current, PassValues, executorVars, mulMatVars
  <2> QED
    BY <2>2, <2>3, <2>4 DEF PassInv
<1> QED
  BY <1>1, <1>2, <1>3, <1>4, <1>5, <1>6, <1>7, <1>8, <1>9, <1>10, <1>11
  DEF PassNext, Execute, PoolThread

LEMMA PassInvariant == PassSpec => []PassInv
<1> QED
  BY PassInitInv, PassStepInv, PTL DEF PassSpec

\* In a forward pass threads are in a product only in a MAT_MUL, they have done their
\* parts and written their units only of the operator that runs, and what is cached
\* is within the cache (Executor::run, GGMLBackend::matmul, ThreadPool::run).
THEOREM ForwardPassTypes == PassSpec => []PassTypeOK
<1> QED
  BY PassInvariant, PassTypesFollow, PTL

\* The activations a product converts fit into the work buffer, although plan()
\* forgets what it has collected on its way (GGMLBackend::plan and the assertion of
\* powerserve_compute_forward_mul_mat): for every size of the model, batch and length.
THEOREM ConversionsFit == PassSpec => []RowsFit
<1> QED
  BY PassInvariant, PassFits, PTL

----------------------------------------------------------------------------
(* The areas of the threads in the work buffer *)

\* What every graph asks for, however short its batch: the feed forward network of
\* the last layer has both sizes.
Asked == QuantSize * Larger(Dim, Hidden)

\* Texts, and heads, are short enough for the areas of all threads.
AreasSmall == \A len \in AreaLengths : AreaEnd(Width - 1, len) <= Asked + Line * Width

\* The buffer has been set up with a gap for every thread, and never shrinks.
AreaInv ==
  /\ status = "running"
  /\ (~Running /\ wsize = 0) \/ Asked + Line * Width <= wsize

LEMMA AskedIs == Asked \in Nat \ {0} /\ Line * Width \in Nat
<1>1. Larger(Dim, Hidden) \in Nat \ {0}
  BY Sizes DEF Larger
<1>2. QuantSize \in Nat \ {0} /\ Line \in Nat /\ Width \in Nat
  BY PassAssumption, ThreadNumbers
<1>3. (\A m, n \in Nat \ {0} : m * n \in Nat \ {0}) /\ \A m, n \in Nat : m * n \in Nat
  OBVIOUS
<1> QED
  BY <1>1, <1>2, <1>3 DEF Asked

LEMMA PlanAsks ==
  ASSUME NEW b \in Nat \ {0}, NEW p \in Nat, NEW lmHead \in BOOLEAN, p + b <= Ctx
  PROVE  Asked <= Plan(ForwardGraph(p, b, lmHead)) /\ Plan(ForwardGraph(p, b, lmHead)) \in Nat
<1> DEFINE g == ForwardGraph(p, b, lmHead)
<1>1. NetworkLast(b, g) /\ g \in Seq(Operators(b))
  BY GraphIs DEF Flow
<1> HIDE DEF g
<1>2. QuantSize * Dim * b <= Plan(g) /\ QuantSize * Hidden * b <= Plan(g)
  BY <1>1, NetworkCovers DEF NetworkLast
<1>3. Plan(g) \in Nat
  BY <1>1, PlanKeeps
<1>4. \A n \in Nat : n <= n * b
  OBVIOUS
<1>5. QuantSize * Dim \in Nat /\ QuantSize * Hidden \in Nat
  <2>1. QuantSize \in Nat /\ Dim \in Nat /\ Hidden \in Nat
    BY Sizes, PassAssumption
  <2>2. \A m, n \in Nat : m * n \in Nat
    OBVIOUS
  <2> QED
    BY <2>1, <2>2
<1> DEFINE small == QuantSize * Dim
           large == QuantSize * Hidden
<1>6. Asked \in {small, large}
  BY DEF Asked, Larger
<1> HIDE DEF small, large
<1>7. small \in Nat /\ large \in Nat /\ small * b <= Plan(g) /\ large * b <= Plan(g)
  BY <1>2, <1>5 DEF small, large
<1>8. small <= small * b /\ large <= large * b
  BY <1>4, <1>7
<1>9. small * b \in Nat /\ large * b \in Nat
  BY <1>7
<1>10. small <= Plan(g) /\ large <= Plan(g)
  BY <1>3, <1>7, <1>8, <1>9
<1> QED
  BY <1>3, <1>6, <1>10 DEF g

\* The first pass sets the buffer up, later ones may make it larger.
LEMMA StartPassAreas ==
  ASSUME PassInv, AreaInv, NEW call \in Calls, StartPass(call)
  PROVE  AreaInv'
<1> DEFINE asked == Plan(ForwardGraph(position, call.batch, call.lmHead))
           gaps == Line * Width
<1>1. status' = status /\ wsize' = SetupWorkData(wsize, asked)
  BY DEF StartPass
<1>2. Asked <= asked /\ asked \in Nat
  <2>1. /\ call.batch \in Nat \ {0} /\ call.lmHead \in BOOLEAN /\ position \in Nat
        /\ position + call.batch <= Ctx
    BY PassAssumption DEF PassInv, PassValues, StartPass
  <2> QED
    BY <2>1, PlanAsks
<1>3. gaps \in Nat /\ Asked \in Nat \ {0} /\ wsize \in Nat
  BY AskedIs DEF PassInv, PassValues
<1>4. (wsize = 0 \/ Asked + gaps <= wsize) /\ status = "running"
  BY DEF AreaInv
<1>5. wsize' = IF asked <= wsize THEN wsize ELSE asked + gaps
  BY <1>1 DEF SetupWorkData
<1> HIDE DEF asked, gaps
<1>6. Asked + gaps <= wsize'
  BY <1>2, <1>3, <1>4, <1>5
<1> QED
  BY <1>1, <1>4, <1>6 DEF AreaInv, gaps

\* A shorter area, or that of an earlier thread, ends earlier.
LEMMA AreaFits ==
  ASSUME AreasSmall, PassInv, AreaInv, NEW p \in Threads, next <= Len(ops), Current.op \in Buffered
  PROVE  AreaEnd(p, Current.len) <= wsize
<1> DEFINE len == Current.len
           one == len * FloatSize
           gap == one + Line
           n == Width - 1
           room == Asked + Line * Width
<1>1. Running /\ len \in AreaLengths
  BY CurrentIs DEF Operators
<1>2. one \in Nat /\ gap \in Nat /\ n \in Nat /\ p \in Nat /\ p <= n
  <2>1. len \in Nat
    BY <1>1, Sizes DEF AreaLengths
  <2>2. FloatSize \in Nat /\ Line \in Nat /\ Width \in Nat \ {0} /\ p \in 0..Width-1
    BY PassAssumption, ThreadNumbers
  <2>3. \A i, j \in Nat : i * j \in Nat
    OBVIOUS
  <2> HIDE DEF len
  <2>4. one \in Nat
    BY <2>1, <2>2, <2>3
  <2> HIDE DEF one
  <2> QED
    BY <2>2, <2>4
<1>3. AreaEnd(p, len) = gap * p + one /\ AreaEnd(Width - 1, len) = gap * n + one
  BY DEF AreaEnd
<1>4. AreaEnd(Width - 1, len) <= room
  BY <1>1 DEF AreasSmall
<1>5. room <= wsize /\ room \in Nat /\ wsize \in Nat
  BY <1>1, AskedIs DEF AreaInv, PassInv, PassValues
<1> HIDE DEF len, one, gap, n, room
<1>6. gap * p <= gap * n /\ gap * p \in Nat /\ gap * n \in Nat
  <2>1. \A g, i, j \in Nat : i <= j => g * i <= g * j /\ g * i \in Nat /\ g * j \in Nat
    <3> SUFFICES ASSUME NEW g \in Nat, NEW i \in Nat, NEW j \in Nat, i <= j
                 PROVE  g * i <= g * j /\ g * i \in Nat /\ g * j \in Nat
      OBVIOUS
    <3>1. g * (j - i) \in Nat /\ g * i \in Nat /\ g * j = g * i + g * (j - i)
      OBVIOUS
    <3> QED
      BY <3>1
  <2> QED
    BY <1>2, <2>1
<1>7. AreaEnd(p, len) <= wsize
  BY <1>2, <1>3, <1>4, <1>5, <1>6
<1> QED
  BY <1>7 DEF len

LEMMA PartsStayInside ==
  ASSUME AreasSmall, PassInv, AreaInv, NEW p \in Threads,
         RmsNorm(p) \/ Add(p) \/ Rope(p) \/ SoftmaxExt(p) \/ Cont(p) \/ Copy(p)
  PROVE  AreaInv'
<1>1. UNCHANGED <<ops, wsize>> /\ wsize \in Nat
  BY DEF RmsNorm, Add, Rope, SoftmaxExt, Cont, Copy, Kernel, PassInv, PassValues
<1>2. status' = status
  <2>1. CASE Rope(p)
    <3>1. next <= Len(ops) /\ Current.op \in Buffered
      BY <2>1 DEF Rope, Kernel, Executes, Buffered
    <3>2. AreaEnd(p, Current.len) <= wsize
      BY <3>1, AreaFits
    <3> QED
      BY <2>1, <3>2 DEF Rope, Kernel
  <2>2. CASE SoftmaxExt(p)
    <3>1. next <= Len(ops) /\ Current.op \in Buffered
      BY <2>2 DEF SoftmaxExt, Kernel, Executes, Buffered
    <3>2. AreaEnd(p, Current.len) <= wsize /\ 0 <= wsize
      BY <1>1, <3>1, AreaFits
    <3> QED
      BY <2>2, <3>2 DEF SoftmaxExt, Kernel
  <2>3. CASE RmsNorm(p) \/ Add(p) \/ Cont(p) \/ Copy(p)
    <3>1. 0 <= wsize
      BY <1>1
    <3> QED
      BY <2>3, <3>1 DEF RmsNorm, Add, Cont, Copy, Kernel
  <2> QED
    BY <2>1, <2>2, <2>3
<1> QED
  BY <1>1, <1>2 DEF AreaInv, Running

LEMMA AreasStep ==
  ASSUME AreasSmall, PassInv, AreaInv, [PassNext]_passVars
  PROVE  AreaInv'
<1>1. ASSUME NEW call \in Calls, StartPass(call) PROVE AreaInv'
  BY <1>1, StartPassAreas
<1>2. ASSUME NEW p \in Threads,
             RmsNorm(p) \/ Add(p) \/ Rope(p) \/ SoftmaxExt(p) \/ Cont(p) \/ Copy(p)
      PROVE  AreaInv'
  BY <1>2, PartsStayInside
<1>3. CASE EndPass
  <2>1. ~Running' /\ Running /\ UNCHANGED <<status, wsize>>
    BY <1>3 DEF EndPass, Running
  <2> QED
    BY <2>1 DEF AreaInv
<1>4. CASE NewGeneration \/ MainThread \/ StartProduct \/ EndProduct \/ EndKernel \/ EndCopy
           \/ (\E p \in Threads : Product(p)) \/ UNCHANGED passVars
  <2>1. UNCHANGED <<status, ops, wsize>>
    BY <1>4 DEF NewGeneration, MainThread, StartProduct, EndProduct, EndKernel, EndCopy,
                Product, passVars, executorVars
  <2> QED
    BY <2>1 DEF AreaInv, Running
<1> QED
  BY <1>1, <1>2, <1>3, <1>4 DEF PassNext, Execute, PoolThread

\* While texts are short the threads stay inside the work buffer, although plan()
\* has forgotten what the rotation and the softmax need: what it asks for the last
\* products, and the gaps setup_work_data adds, is enough for AreasSmall. With longer
\* texts the softmax writes past its end (work_buffer).
THEOREM ShortTextsFit == AreasSmall => (PassSpec => []AreasFit)
<1>1. ASSUME AreasSmall PROVE PassSpec => []AreasFit
  <2>1. PassInit => AreaInv
    BY DEF PassInit, AreaInv, Running
  <2>2. PassInv /\ AreaInv /\ [PassNext]_passVars => AreaInv'
    BY <1>1, AreasStep
  <2>3. AreaInv => AreasFit
    BY DEF AreaInv, AreasFit
  <2> QED
    BY <2>1, <2>2, <2>3, PassInvariant, PTL DEF PassSpec
<1> QED
  BY <1>1

----------------------------------------------------------------------------
(* What the operators make is right *)

\* What an operator gives is there: a tensor of the pass, or the entries of the batch
Holds(x) ==
  IF x[1] = "k_stored" THEN Entries(x[2], "k", position, position + batch) \subseteq cache
  ELSE IF x[1] = "v_stored" THEN Entries(x[2], "v", position, position + batch) \subseteq cache
  ELSE x \in right

MadeRight == \A i \in 1..next-1 : \A x \in Gives(ops[i]) : Holds(x)

RightInv == PassInv /\ MadeRight /\ CacheComplete

LEMMA TensorHolds ==
  ASSUME NEW t \in Tensors
  PROVE  /\ Holds(t) <=> t \in right
         /\ Holds(t)' <=> t \in right'
<1>1. t[1] \in Names
  BY DEF Tensors
<1>2. t[1] # "k_stored" /\ t[1] # "v_stored"
  BY <1>1 DEF Names
<1> QED
  BY <1>2 DEF Holds

LEMMA StoredHolds ==
  ASSUME NEW t
  PROVE  /\ Holds(Stored(t)) <=> Entries(t[2], Kind(t), position, position + batch) \subseteq cache
         /\ Holds(Stored(t))' <=> Entries(t[2], Kind(t), position', position' + batch') \subseteq cache'
<1> DEFINE x == Stored(t)
           L == t[2]
<1>1. x[2] = L
  BY DEF Stored
<1>2. \/ Kind(t) = "k" /\ x[1] = "k_stored"
      \/ Kind(t) = "v" /\ x[1] = "v_stored"
  BY DEF Stored, Kind
<1> HIDE DEF x, L
<1>3. CASE Kind(t) = "k" /\ x[1] = "k_stored"
  <2>1. /\ Holds(x) <=> Entries(L, "k", position, position + batch) \subseteq cache
        /\ Holds(x)' <=> Entries(L, "k", position', position' + batch') \subseteq cache'
    BY <1>1, <1>3 DEF Holds, Entries
  <2> QED
    BY <1>3, <2>1 DEF x, L
<1>4. CASE Kind(t) = "v" /\ x[1] = "v_stored"
  <2>1. /\ Holds(x) <=> Entries(L, "v", position, position + batch) \subseteq cache
        /\ Holds(x)' <=> Entries(L, "v", position', position' + batch') \subseteq cache'
    BY <1>1, <1>4 DEF Holds, Entries
  <2> QED
    BY <1>4, <2>1 DEF x, L
<1> QED
  BY <1>2, <1>3, <1>4

\* What the operator that runs needs is there.
LEMMA NeedsHold ==
  ASSUME RightInv, next <= Len(ops), NEW x \in Needs(Current)
  PROVE  Holds(x)
<1>1. Running /\ next \in 1..Len(ops) /\ Len(ops) \in Nat
  BY CurrentIs DEF RightInv
<1>2. Flow(batch, ops, {}, StoredTo(Layers))
  BY <1>1 DEF RightInv, PassInv, GraphInv
<1>3. x \in Made(ops, next - 1)
  BY <1>1, <1>2 DEF Flow, Current
<1>4. PICK j \in 1..next-1 : x \in Gives(ops[j])
  BY <1>3 DEF Made
<1> QED
  BY <1>4 DEF RightInv, MadeRight

LEMMA OperandsThere ==
  ASSUME RightInv, next <= Len(ops)
  PROVE  Operands(Current)
<1>1. Current \in Operators(batch) /\ batch \in Nat \ {0} /\ position \in Nat
  BY CurrentIs DEF RightInv, PassInv, PassValues
<1>2. Current.ins \in SUBSET Tensors
  BY <1>1 DEF Operators
<1>3. Current.ins \subseteq right
  <2>1. ASSUME NEW t \in Current.ins PROVE t \in right
    <3>1. Holds(t) /\ t \in Tensors
      BY <1>2, NeedsHold DEF Needs
    <3> QED
      BY <3>1, TensorHolds
  <2> QED
    BY <2>1
<1>4. ASSUME NEW t \in Current.ins, IsCache(t)
      PROVE  Entries(t[2], Kind(t), 0, position + batch) \subseteq cache
  <2> DEFINE L == t[2]
             kind == Kind(t)
             to == position + batch
  <2>1. L \in 1..Layers
    BY <1>1, <1>4 DEF Operators
  <2>2. kind \in {"k", "v"}
    BY DEF Kind
  <2>3. Entries(L, kind, position, to) \subseteq cache
    <3>1. Stored(t) \in Needs(Current)
      BY <1>4 DEF Needs
    <3>2. Holds(Stored(t))
      BY <3>1, NeedsHold
    <3> QED
      BY <3>2, StoredHolds
  <2>4. to \in Nat
    BY <1>1
  <2> HIDE DEF L, kind, to
  <2>5. Entries(L, kind, 0, position) \subseteq cache
    BY <2>1, <2>2 DEF RightInv, CacheComplete
  <2>6. \A i \in 0..to-1 : i \in 0..position-1 \/ i \in position..to-1
    BY <1>1, <2>4
  <2>7. Entries(L, kind, 0, to) \subseteq cache
    BY <2>3, <2>5, <2>6 DEF Entries
  <2> QED
    BY <2>7 DEF L, kind, to
<1>5. Reads(Current) \subseteq cache
  BY <1>4 DEF Reads, IsCache
<1> QED
  BY <1>3, <1>5 DEF Operands

\* When an operator that is complete is over, what it gives holds.
LEMMA ConcludeRight ==
  ASSUME RightInv, next <= Len(ops), Conclude(TRUE),
         UNCHANGED <<ops, batch, position>>, cache \subseteq cache',
         \A x \in Gives(Current) : Holds(x)'
  PROVE  MadeRight' /\ CacheComplete'
<1>1. next' = next + 1 /\ right \subseteq right' /\ next \in Nat \ {0}
  BY DEF Conclude, RightInv, PassInv, PassValues
<1>2. ASSUME NEW x, Holds(x) PROVE Holds(x)'
  BY <1>1, <1>2 DEF Holds
<1>3. ASSUME NEW i \in 1..next'-1, NEW x \in Gives(ops'[i]) PROVE Holds(x)'
  <2>1. CASE i = next
    BY <1>3, <2>1 DEF Current
  <2>2. CASE i # next
    <3>1. i \in 1..next-1
      BY <1>1, <2>2
    <3>2. Holds(x)
      BY <3>1, <1>3 DEF RightInv, MadeRight
    <3> QED
      BY <1>2, <3>2
  <2> QED
    BY <2>1, <2>2
<1>4. MadeRight'
  BY <1>3 DEF MadeRight
<1>5. CacheComplete'
  BY DEF RightInv, CacheComplete
<1> QED
  BY <1>4, <1>5

\* The same for an operator that makes a tensor
LEMMA ConcludeTensor ==
  ASSUME RightInv, next <= Len(ops), Current.op # "COPY", Conclude(TRUE),
         UNCHANGED <<ops, batch, position, cache>>
  PROVE  MadeRight' /\ CacheComplete'
<1>1. Operands(Current) /\ Current \in Operators(batch)
  BY OperandsThere, CurrentIs DEF RightInv
<1>2. Current.out \in Tensors /\ Current.out \in right'
  BY <1>1 DEF Operators, Conclude
<1>3. Gives(Current) = {Current.out}
  BY DEF Gives
<1>4. \A x \in Gives(Current) : Holds(x)'
  BY <1>2, <1>3, TensorHolds
<1> QED
  BY <1>4, ConcludeRight

\* A step that is no end of an operator
LEMMA SameRight ==
  ASSUME RightInv, UNCHANGED <<ops, batch, next, right, cache, position>>
  PROVE  MadeRight' /\ CacheComplete'
  BY DEF RightInv, MadeRight, Holds, CacheComplete

----------------------------------------------------------------------------
(* It stays so *)

\* When all threads are through, the output is complete.
LEMMA KernelComplete ==
  ASSUME PassInv, Returns
  PROVE  Complete
<1> DEFINE n == Current.units
<1>1. next <= Len(ops) /\ doneBy = Threads
  BY ReturnsRuns DEF Returns
<1>2. n \in Nat \ {0}
  BY <1>1, CurrentIs DEF Operators
<1>3. Width \in Nat \ {0} /\ Threads = 0..Width-1
  BY ThreadNumbers
<1>4. written = UNION {PartOf(p) : p \in Threads}
  BY <1>1 DEF PassInv, KernelInv
<1>5. \A p : PartOf(p) \subseteq 0..n-1
  BY DEF PartOf, RowsOf, BlockOf, Part
<1>6. ASSUME NEW x \in 0..n-1 PROVE \E p \in Threads : x \in PartOf(p)
  <2>1. CASE Current.op = "RMS_NORM"
    <3>1. x \in Nat /\ x % Width \in Threads
      BY <1>2, <1>3
    <3>2. x \in RowsOf(x % Width)
      BY DEF RowsOf
    <3> QED
      BY <2>1, <3>1, <3>2 DEF PartOf
  <2>2. CASE Current.op # "RMS_NORM"
    <3>1. PICK p \in 0..Width-1 : x \in Part(p, Width, n)
      BY <1>2, <1>3, PartsCover
    <3> QED
      BY <1>3, <2>2, <3>1 DEF PartOf, BlockOf
  <2> QED
    BY <2>1, <2>2
<1> HIDE DEF n
<1>7. written = 0..n-1
  BY <1>4, <1>5, <1>6
<1> QED
  BY <1>7 DEF Complete, n

LEMMA EndCopyRight ==
  ASSUME RightInv, EndCopy
  PROVE  MadeRight' /\ CacheComplete'
<1>1. /\ Returns /\ Conclude(Complete) /\ Current.op = "COPY"
      /\ UNCHANGED <<mulMatVars, status, ops, batch, position, wsize, passes>>
  BY DEF EndCopy
<1>2. next <= Len(ops) /\ Complete
  BY <1>1, ReturnsRuns, KernelComplete DEF RightInv
<1>3. Operands(Current) /\ Current \in Operators(batch)
  BY <1>2, OperandsThere, CurrentIs DEF RightInv
<1>4. PICK view \in Current.ins :
        /\ IsPlace(view)
        /\ LET to  == IF view \in right THEN position ELSE 0
               new == Entries(view[2], Kind(view), to, to + batch)
           IN  cache' = IF Complete /\ Operands(Current) THEN cache \cup new ELSE cache \ new
  BY DEF EndCopy, IsPlace
<1> DEFINE new == Entries(view[2], Kind(view), position, position + batch)
<1>5. view \in right
  BY <1>3, <1>4 DEF Operands
<1>6. cache' = cache \cup new
  BY <1>2, <1>3, <1>4, <1>5
<1>7. Conclude(TRUE)
  BY <1>1, <1>2 DEF Conclude
<1>8. ASSUME NEW x \in Gives(Current) PROVE Holds(x)'
  <2>1. PICK t \in Current.ins : IsPlace(t) /\ x = Stored(t)
    BY <1>1 DEF Gives
  <2>2. t = view
    BY <1>3, <1>4, <2>1 DEF Operators
  <2>3. Entries(view[2], Kind(view), position', position' + batch') \subseteq cache'
    BY <1>1, <1>6
  <2>4. Holds(Stored(view))'
    BY <2>3, StoredHolds
  <2>5. x = Stored(view) /\ UNCHANGED Stored(view)
    BY <2>1, <2>2
  <2> QED
    BY <2>4, <2>5 DEF Holds
<1> HIDE DEF new
<1> QED
  BY <1>1, <1>2, <1>6, <1>7, <1>8, ConcludeRight

LEMMA EndKernelRight ==
  ASSUME RightInv, EndKernel
  PROVE  MadeRight' /\ CacheComplete'
<1>1. /\ Returns /\ Conclude(Complete) /\ Current.op # "COPY"
      /\ UNCHANGED <<mulMatVars, status, ops, batch, cache, position, wsize, passes>>
  BY DEF EndKernel
<1>2. next <= Len(ops) /\ Complete
  BY <1>1, ReturnsRuns, KernelComplete DEF RightInv
<1>3. Conclude(TRUE)
  BY <1>1, <1>2 DEF Conclude
<1> QED
  BY <1>1, <1>2, <1>3, ConcludeTensor

LEMMA MainThreadRight ==
  ASSUME RightInv, MainThread
  PROVE  MadeRight' /\ CacheComplete'
<1>1. /\ next <= Len(ops) /\ Current.op # "COPY" /\ Conclude(TRUE)
      /\ UNCHANGED <<mulMatVars, status, ops, batch, cache, position, wsize, passes>>
  BY DEF MainThread, Executes
<1> QED
  BY <1>1, ConcludeTensor

\* A product is complete, when its kernel computes a column at a time.
LEMMA EndProductRight ==
  ASSUME RowsPerDot = 1, RightInv, EndProduct
  PROVE  MadeRight' /\ CacheComplete'
<1>1. /\ End
      /\ Conclude(/\ converted = Columns(shape)
                  /\ Elements(shape) = UNION {Output(p) : p \in Threads})
      /\ UNCHANGED <<status, ops, batch, cache, position, wsize, passes>>
  BY DEF EndProduct
<1>2. AllDone /\ ChunkInv
  BY <1>1 DEF End, RightInv, PassInv
<1>3. PICK p \in Threads : at[p] = "done"
  BY <1>2, ThreadsAssumption DEF AllDone
<1>4. converted = Columns(shape)
  BY <1>2, <1>3, AllConverted DEF ChunkInv, Through
<1>5. EveryElementOnce
  BY <1>2, OutputOnce
<1>6. Elements(shape) = UNION {Output(q) : q \in Threads}
  BY <1>2, <1>5 DEF EveryElementOnce
<1>7. Conclude(TRUE)
  BY <1>1, <1>4, <1>6 DEF Conclude
<1>8. Executes("MAT_MUL")
  BY <1>3 DEF RightInv, PassInv, ProductInv
<1> QED
  BY <1>1, <1>7, <1>8, ConcludeTensor DEF Executes

\* advance(): all layers have stored the entries of the batch.
LEMMA EndPassRight ==
  ASSUME RightInv, EndPass
  PROVE  MadeRight' /\ CacheComplete'
<1>1. /\ Running /\ next > Len(ops) /\ position' = position + batch
      /\ ops' = <<>> /\ batch' = 0 /\ next' = 1 /\ cache' = cache
  BY DEF EndPass
<1>2. /\ Flow(batch, ops, {}, StoredTo(Layers)) /\ next <= Len(ops) + 1
      /\ next \in Nat /\ position \in Nat /\ batch \in Nat
  BY <1>1 DEF RightInv, PassInv, GraphInv, PassValues
<1>3. next - 1 = Len(ops)
  <2>1. Len(ops) \in Nat
    BY <1>2, LenProperties DEF Flow
  <2> QED
    BY <1>1, <1>2, <2>1
<1>4. ASSUME NEW x \in StoredTo(Layers) PROVE Holds(x)
  <2>1. x \in Made(ops, Len(ops))
    BY <1>2 DEF Flow
  <2>2. PICK j \in 1..next-1 : x \in Gives(ops[j])
    BY <1>3, <2>1 DEF Made
  <2> QED
    BY <2>2 DEF RightInv, MadeRight
<1>5. ASSUME NEW L \in 1..Layers, NEW kind \in {"k", "v"}
      PROVE  Entries(L, kind, 0, position + batch) \subseteq cache
  <2> DEFINE to == position + batch
  <2>1. Entries(L, kind, 0, position) \subseteq cache
    BY DEF RightInv, CacheComplete
  <2>2. Entries(L, kind, position, to) \subseteq cache
    <3>1. Holds(<<"k_stored", L>>) /\ Holds(<<"v_stored", L>>)
      BY <1>4 DEF StoredTo
    <3>2. /\ Entries(L, "k", position, to) \subseteq cache
          /\ Entries(L, "v", position, to) \subseteq cache
      BY <3>1 DEF Holds
    <3> QED
      BY <3>2
  <2>3. to \in Nat
    BY <1>2
  <2> HIDE DEF to
  <2>4. \A i \in 0..to-1 : i \in 0..position-1 \/ i \in position..to-1
    BY <1>2, <2>3
  <2>5. Entries(L, kind, 0, to) \subseteq cache
    BY <2>1, <2>2, <2>4 DEF Entries
  <2> QED
    BY <2>5 DEF to
<1>6. CacheComplete'
  BY <1>1, <1>5 DEF CacheComplete
<1>7. MadeRight'
  BY <1>1 DEF MadeRight
<1> QED
  BY <1>6, <1>7

LEMMA PassStepRight ==
  ASSUME RowsPerDot = 1, RightInv, [PassNext]_passVars
  PROVE  RightInv'
<1>0. PassInv'
  BY PassStepInv DEF RightInv
<1> SUFFICES MadeRight' /\ CacheComplete'
  BY <1>0 DEF RightInv
<1>1. ASSUME NEW call \in Calls, StartPass(call) PROVE MadeRight' /\ CacheComplete'
  BY <1>1 DEF StartPass, MadeRight, RightInv, CacheComplete
<1>2. CASE NewGeneration
  <2>1. position' = 0 /\ next' = next /\ ~Running
    BY <1>2 DEF NewGeneration
  <2>2. next = 1
    BY <2>1, NothingRuns DEF RightInv
  <2>3. \A i : i \notin 0..0-1 /\ i \notin 1..1-1
    OBVIOUS
  <2>4. MadeRight'
    BY <2>1, <2>2, <2>3 DEF MadeRight
  <2>5. CacheComplete'
    BY <2>1, <2>3 DEF CacheComplete, Entries
  <2> QED
    BY <2>4, <2>5
<1>3. CASE MainThread
  BY <1>3, MainThreadRight
<1>4. CASE StartProduct
  BY <1>4, SameRight DEF StartProduct, executorVars
<1>5. CASE EndProduct
  BY <1>5, EndProductRight
<1>6. CASE EndKernel
  BY <1>6, EndKernelRight
<1>7. CASE EndCopy
  BY <1>7, EndCopyRight
<1>8. CASE EndPass
  BY <1>8, EndPassRight
<1>9. ASSUME NEW p \in Threads, Product(p) PROVE MadeRight' /\ CacheComplete'
  BY <1>9, SameRight DEF Product, executorVars
<1>10. ASSUME NEW p \in Threads,
              RmsNorm(p) \/ Add(p) \/ Rope(p) \/ SoftmaxExt(p) \/ Cont(p) \/ Copy(p)
       PROVE  MadeRight' /\ CacheComplete'
  <2>1. PICK kind \in Kernels : \E area : Kernel(kind, p, PartOf(p), area)
    BY <1>10, ThreadsDoParts
  <2>2. PICK area : Kernel(kind, p, PartOf(p), area)
    BY <2>1
  <2> QED
    BY <2>2, SameRight DEF Kernel
<1>11. CASE UNCHANGED passVars
  BY <1>11, SameRight DEF passVars, executorVars
<1> QED
  BY <1>1, <1>2, <1>3, <1>4, <1>5, <1>6, <1>7, <1>8, <1>9, <1>10, <1>11
  DEF PassNext, Execute, PoolThread

LEMMA PassInitRight == PassInit => RightInv
<1> SUFFICES ASSUME PassInit PROVE RightInv
  OBVIOUS
<1>1. next = 1 /\ position = 0
  BY DEF PassInit
<1>2. \A i : i \notin 0..0-1 /\ i \notin 1..1-1
  OBVIOUS
<1>3. MadeRight
  BY <1>1, <1>2 DEF MadeRight
<1>4. CacheComplete
  BY <1>1, <1>2 DEF CacheComplete, Entries
<1> QED
  BY <1>3, <1>4, PassInitInv DEF RightInv

LEMMA RightFollows == RightInv => ComputesRight
<1> SUFFICES ASSUME RightInv PROVE ComputesRight
  OBVIOUS
<1>1. ASSUME NEW i \in 1..next-1 PROVE ops[i].out \in right \cup {NoTensor}
  <2>1. Running
    <3>1. next # 1
      BY <1>1 DEF RightInv, PassInv, PassValues
    <3> QED
      BY <3>1, NothingRuns DEF RightInv
  <2>2. ops \in Seq(Operators(batch)) /\ next <= Len(ops) + 1 /\ Len(ops) \in Nat
    BY <2>1, LenProperties DEF RightInv, PassInv, GraphInv, Flow
  <2>3. i \in 1..Len(ops)
    BY <2>2 DEF RightInv, PassInv, PassValues
  <2>4. ops[i] \in Operators(batch)
    BY <2>2, <2>3, ElementOfSeq
  <2>5. CASE ops[i].op = "COPY"
    BY <2>4, <2>5 DEF Operators
  <2>6. CASE ops[i].op # "COPY"
    <3>1. ops[i].out \in Gives(ops[i]) /\ ops[i].out \in Tensors
      BY <2>4, <2>6 DEF Gives, Operators
    <3>2. Holds(ops[i].out)
      BY <1>1, <3>1 DEF RightInv, MadeRight
    <3> QED
      BY <3>1, <3>2, TensorHolds
  <2> QED
    BY <2>5, <2>6
<1> QED
  BY <1>1, OperandsThere DEF ComputesRight

LEMMA RightInvariant == RowsPerDot = 1 => (PassSpec => []RightInv)
<1>1. ASSUME RowsPerDot = 1 PROVE PassSpec => []RightInv
  <2>1. RightInv /\ [PassNext]_passVars => RightInv'
    BY <1>1, PassStepRight
  <2> QED
    BY <2>1, PassInitRight, PTL DEF PassSpec
<1> QED
  BY <1>1

\* Every operator of a forward pass computes what it should from what it should: for
\* any sizes of the model, any batches and any number of threads, when a kernel
\* computes one column at a time (LlamaModel::forward, Executor::run, GGMLBackend).
THEOREM OperatorsComputeRight == RowsPerDot = 1 => (PassSpec => []ComputesRight)
<1> QED
  BY RightInvariant, RightFollows, PTL

\* The cache has the keys and values of all layers for every position that has been
\* passed (GGMLKV::advance behind the copies of all layers).
THEOREM CacheIsComplete == RowsPerDot = 1 => (PassSpec => []CacheComplete)
<1>1. RightInv => CacheComplete
  BY DEF RightInv
<1> QED
  BY <1>1, RightInvariant, PTL
=============================================================================
