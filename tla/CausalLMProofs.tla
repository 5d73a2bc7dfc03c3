---------------------------- MODULE CausalLMProofs ----------------------------
(***************************************************************************)
(* Proofs about CausalLM, for any vocabulary, system prompt, size of the   *)
(* cache, number of chunks, batch sizes, texts, trees and number of calls. *)
(*                                                                         *)
(* The invariant says what the cache, the mask and the buffers hold for    *)
(* the rows of the batch at hand; nothing is said about the other rows.    *)
(***************************************************************************)
EXTENDS CausalLM, KVCacheProofs

Calling == pc \in {"fill", "run", "save"}

\* The tokens of the batch at hand that token u of it sees, and its text
Sees(u) == {v \in Rows : NotMasked(request, TokenAt(u), TokenAt(v))}
RowText(u) == TextOf(TokenAt(u))
RowToken(u) == request.tokens[TokenAt(u) + 1]

\* A request: parents come before their children, and only a text is cut.
WellFormed(r) ==
  /\ r.tokens \in Content /\ r.tokens # <<>> /\ r.logits \in BOOLEAN /\ r.start \in Nat
  /\ r.parent \in [0..Len(r.tokens)-1 -> Int]
  /\ \A u \in 0..Len(r.tokens)-1 : r.parent[u] < u
  /\ IsText(r) \/ Len(r.tokens) <= MaxBatch

\* A batch fits into its graphs and into the output layer.
BatchOk(b, n) ==
  /\ b.index \in Nat /\ b.step \in Nat \ {0} /\ b.size \in Nat /\ b.head \in Nat
  /\ b.index + b.step <= n /\ b.step <= b.size /\ b.size <= MaxBatch
  /\ HeadSizes = {} \/ b.step <= b.head

\* Batches follow each other up to the last of n tokens.
Consecutive(bs, n) ==
  \A j \in 1..Len(bs) :
    /\ BatchOk(bs[j], n)
    /\ bs[j].index + bs[j].step = IF j = Len(bs) THEN n ELSE bs[j+1].index

Types == TypeOK

\* Before the model is loaded nothing is shown that has been loaded.
LoadInv ==
  pc = "load" =>
    /\ position = 0 /\ loose = 0 /\ text = SystemPrompt
    /\ \A c \in Chunks, i \in Past :
         cache[c][i] = IF c < stage /\ i < Len(SystemPrompt) THEN Take(SystemPrompt, i+1)
                                                             ELSE Garbage
    /\ \A c \in Chunks, u \in Row : c < stage => bias[c][u] = {}

\* The text is in every chunk, and every row is shown what is below position.
HoldInv ==
  pc # "load" =>
    /\ position = Len(text) + loose /\ Len(SystemPrompt) <= Len(text)
    /\ \A c \in Chunks, u \in Row : bias[c][u] \cap Past = 0..position-1
    /\ \A c \in Chunks : \A i \in 0..Len(text)-1 : cache[c][i] = Take(text, i+1)

\* The batches that are left continue the text.
CallInv ==
  Calling =>
    /\ WellFormed(request) /\ batches \in Seq([index : Nat, step : Nat, size : Nat, head : Nat])
    /\ batches # <<>> /\ Consecutive(batches, Len(request.tokens))
    /\ loose = 0 /\ position = request.start + Batch.index
    /\ IsText(request) \/ (Batch.index = 0 /\ Batch.step = Len(request.tokens))
    /\ Batch.index > 0 => text = TextOf(Batch.index - 1)

\* The rows of the batch at hand, while it goes through the chunks
RowInv ==
  /\ pc = "run" =>
       /\ \A u \in Rows : rope[u] = PositionOf(request, TokenAt(u)) /\ x[1][u] = <<RowToken(u)>>
       /\ \A c \in Chunks, u \in Rows : \A v \in Row : ColumnOf(v) \in bias[c][u] <=> v \in Sees(u)
       /\ \A k \in 2..stage, u \in Rows : x[k][u] = RowText(u)
  /\ pc \in {"run", "save"} => \A c \in 1..stage-1, u \in Rows : keys[c][u] = RowText(u)
  /\ pc = "save" => stage = NChunks + 1

\* The rows of the result so far
ResultInv ==
  Calling =>
    /\ \A u \in 1..Len(dst) : dst[u] = TextOf(u - 1)
    /\ Len(dst) = IF ~request.logits THEN 0
                  ELSE IF pc = "save" THEN Batch.index + Batch.step ELSE Batch.index

PassInv == Types /\ LoadInv /\ HoldInv /\ CallInv /\ RowInv /\ ResultInv

----------------------------------------------------------------------------
(* The largest and the least of a set of numbers *)

IsLargest(m, S) == m \in S /\ \A y \in S : y <= m

LEMMA LargestExists ==
  ASSUME NEW S \in SUBSET Nat, S # {}, IsFiniteSet(S)
  PROVE  \E m \in S : IsLargest(m, S)
<1> DEFINE without(T) == T # {} /\ IsFiniteSet(T) /\ ~\E m \in T : IsLargest(m, T)
           sizes == {n \in Nat : \E T \in SUBSET Nat : without(T) /\ Cardinality(T) = n}
<1>1. ASSUME sizes # {} PROVE FALSE
  <2>1. PICK n \in sizes : \A k \in sizes : n <= k
    BY <1>1, LeastElement
  <2>2. PICK T \in SUBSET Nat : without(T) /\ Cardinality(T) = n
    BY <2>1
  <2>3. PICK t : t \in T
    BY <2>2
  <2> DEFINE U == T \ {t}
  <2>4. IsFiniteSet(U) /\ Cardinality(U) = n - 1 /\ n \in Nat
    BY <2>1, <2>2, <2>3, FS_RemoveElement
  <2>5. ~without(U)
    <3> HIDE DEF without
    <3>1. ASSUME without(U) PROVE FALSE
      <4>1. Cardinality(U) \in Nat
        BY <2>4, FS_CardinalityType
      <4>2. U \in SUBSET Nat
        OBVIOUS
      <4> HIDE DEF U
      <4>3. n - 1 \in sizes
        BY <2>4, <3>1, <4>1, <4>2
      <4> QED
        BY <2>1, <2>4, <4>3
    <3> QED
      BY <3>1
  <2>6. CASE U = {}
    <3>1. T = {t}
      <4>1. \A y \in T : y = t
        BY <2>6
      <4> QED
        BY <2>3, <4>1
    <3>2. t \in Nat /\ t <= t
      BY <2>3
    <3>3. IsLargest(t, T)
      BY <3>1, <3>2 DEF IsLargest
    <3> QED
      BY <2>2, <2>3, <3>3
  <2>7. CASE U # {}
    <3>1. PICK m \in U : IsLargest(m, U)
      BY <2>4, <2>5, <2>7
    <3>2. IsLargest(IF m <= t THEN t ELSE m, T)
      BY <2>3, <3>1 DEF IsLargest
    <3> QED
      BY <2>2, <3>2 DEF IsLargest
  <2> QED
    BY <2>6, <2>7
<1>2. Cardinality(S) \in Nat
  BY FS_CardinalityType
<1>3. without(S) => Cardinality(S) \in sizes
  BY <1>2
<1> HIDE DEF sizes
<1> QED
  BY <1>1, <1>3

\* Max and Min of the community modules
LEMMA MaxIs ==
  ASSUME NEW S \in SUBSET Nat, S # {}, IsFiniteSet(S)
  PROVE  Max(S) \in S /\ \A y \in S : y <= Max(S)
<1>1. PICK m \in S : IsLargest(m, S)
  BY LargestExists
<1>2. m \in S /\ \A y \in S : m >= y
  BY <1>1 DEF IsLargest
<1>3. Max(S) \in S /\ \A y \in S : Max(S) >= y
  BY <1>2 DEF Max
<1> QED
  BY <1>3

LEMMA MinIs ==
  ASSUME NEW S \in SUBSET Nat, S # {}
  PROVE  Min(S) \in S /\ \A y \in S : Min(S) <= y
<1>1. PICK m \in S : \A y \in S : m <= y
  BY LeastElement
<1> QED
  BY <1>1 DEF Min

\* The types of the constants
LEMMA ConstantTypes ==
  /\ MaxBatch \in Nat \ {0} /\ \A b \in BatchSizes : b \in 1..MaxBatch
  /\ Row \subseteq Nat /\ 0 \in Row /\ 1 \in Chunks /\ Chunks \subseteq Nat
  /\ NChunks \in Nat \ {0} /\ CacheSize \in Nat /\ MaxCalls \in Nat
  /\ SystemPrompt \in Content /\ Len(SystemPrompt) \in Nat /\ Len(SystemPrompt) <= CacheSize
<1>1. BatchSizes \in SUBSET Nat /\ BatchSizes # {} /\ IsFiniteSet(BatchSizes)
      /\ 0 \notin BatchSizes
  BY ModelAssumption
<1>2. MaxBatch \in BatchSizes /\ \A b \in BatchSizes : b <= MaxBatch
  BY <1>1, MaxIs DEF MaxBatch
<1>3. MaxBatch \in Nat \ {0} /\ \A b \in BatchSizes : b \in 1..MaxBatch
  <2>1. MaxBatch \in Nat \ {0}
    BY <1>1, <1>2
  <2> QED
    BY <1>1, <1>2, <2>1
<1>4. Row \subseteq Nat /\ 0 \in Row /\ 1 \in Chunks /\ Chunks \subseteq Nat
  BY <1>3, ModelAssumption DEF Row, Chunks
<1>5. SystemPrompt \in Content /\ Len(SystemPrompt) \in Nat /\ Len(SystemPrompt) <= CacheSize
  BY ModelAssumption, LenProperties DEF Content
<1> QED
  BY <1>3, <1>4, <1>5, ModelAssumption

\* Columns of the cache and of the batch are apart.
LEMMA ColumnsApart ==
  /\ \A u, v \in Row : ColumnOf(u) = ColumnOf(v) => u = v
  /\ \A u \in Row : ColumnOf(u) \notin Past /\ ColumnOf(u) \in Column
  BY ConstantTypes DEF ColumnOf, Past, Column, Row

----------------------------------------------------------------------------
(* split_batch *)

\* The smallest size that is enough, or the largest
LEMMA FittingIs ==
  ASSUME NEW S \in SUBSET (Nat \ {0}), S # {}, IsFiniteSet(S), NEW n \in Nat
  PROVE  /\ Fitting(S, n) \in S
         /\ n <= Fitting(S, n) \/ Fitting(S, n) = Max(S)
         /\ n <= Max(S) => n <= Fitting(S, n)
<1> DEFINE enough == {b \in S : b >= n}
<1>1. Max(S) \in S /\ \A y \in S : y <= Max(S)
  BY MaxIs
<1>2. CASE enough = {}
  BY <1>1, <1>2 DEF Fitting
<1>3. CASE enough # {}
  <2>1. Min(enough) \in enough
    BY <1>3, MinIs
  <2>2. Fitting(S, n) = Min(enough)
    BY <1>3 DEF Fitting
  <2> HIDE DEF enough
  <2> QED
    BY <2>1, <2>2 DEF enough
<1> QED
  BY <1>2, <1>3

BatchRecord == [index : Nat, step : Nat, size : Nat, head : Nat]

\* The batch of the tokens from i on, of n
BatchFrom(n, i) ==
  [index |-> i, step |-> Min({n - i, Fitting(BatchSizes, n - i)}),
   size |-> Fitting(BatchSizes, n - i),
   head |-> IF HeadSizes = {} THEN 0 ELSE Fitting(HeadSizes, n - i)]

LEMMA BatchFromIs ==
  ASSUME NEW n \in Nat, NEW i \in 0..n-1
  PROVE  /\ BatchFrom(n, i) \in BatchRecord /\ BatchOk(BatchFrom(n, i), n)
         /\ BatchFrom(n, i).index = i
         /\ n - i <= MaxBatch => BatchFrom(n, i).step = n - i
<1> DEFINE k == n - i
           size == Fitting(BatchSizes, k)
           step == Min({k, size})
           head == IF HeadSizes = {} THEN 0 ELSE Fitting(HeadSizes, k)
<1>1. k \in Nat \ {0}
  OBVIOUS
<1>2. /\ size \in BatchSizes
      /\ k <= MaxBatch => k <= size
      /\ k <= size \/ size = MaxBatch
  <2>1. BatchSizes \in SUBSET (Nat \ {0}) /\ BatchSizes # {} /\ IsFiniteSet(BatchSizes)
    BY ModelAssumption
  <2> HIDE DEF k
  <2> QED
    BY <1>1, <2>1, FittingIs DEF MaxBatch
<1>3. size \in 1..MaxBatch /\ MaxBatch \in Nat
  BY <1>2, ConstantTypes
<1> HIDE DEF k, size
<1>4. step \in {k, size} /\ step <= k /\ step <= size
  <2>1. {k, size} \in SUBSET Nat /\ {k, size} # {}
    BY <1>1, <1>3
  <2> QED
    BY <2>1, MinIs
<1> HIDE DEF step
<1>5. step \in 1..MaxBatch /\ i + step <= n
  BY <1>1, <1>3, <1>4 DEF k
<1>6. head \in Nat /\ (HeadSizes = {} \/ step <= head)
  <2>1. CASE HeadSizes = {}
    BY <2>1
  <2>2. CASE HeadSizes # {}
    <3>1. /\ HeadSizes \in SUBSET (Nat \ {0}) /\ IsFiniteSet(HeadSizes)
          /\ Max(HeadSizes) = MaxBatch
      BY <2>2, ModelAssumption
    <3>2. /\ Fitting(HeadSizes, k) \in HeadSizes
          /\ k <= Fitting(HeadSizes, k) \/ Fitting(HeadSizes, k) = MaxBatch
      BY <1>1, <2>2, <3>1, FittingIs
    <3>3. head = Fitting(HeadSizes, k) /\ head \in Nat
      BY <2>2, <3>1, <3>2
    <3> HIDE DEF head
    <3> QED
      BY <1>1, <1>3, <1>4, <1>5, <3>2, <3>3
  <2> QED
    BY <2>1, <2>2
<1> HIDE DEF head
<1>7. BatchFrom(n, i) = [index |-> i, step |-> step, size |-> size, head |-> head]
  BY DEF BatchFrom, k, step, size, head
<1>8. k <= MaxBatch => step = k
  BY <1>1, <1>2, <1>3, <1>4
<1> QED
  BY <1>3, <1>4, <1>5, <1>6, <1>7, <1>8 DEF BatchRecord, BatchOk, k

\* The equation of the table that split_batch() fills, from token m on
SplitAt(n, f, i) == IF i = n THEN <<>> ELSE <<BatchFrom(n, i)>> \o f[i + BatchFrom(n, i).step]
Splits(n, m, f) == f = [i \in m..n |-> SplitAt(n, f, i)]
SplitTable(n) == CHOOSE f : Splits(n, 0, f)

LEMMA SplitBatchIs == ASSUME NEW n PROVE SplitBatch(n) = SplitTable(n)[0]
  BY DEF SplitBatch, SplitTable, Splits, SplitAt, BatchFrom

\* It can be filled, the last entries first.
LEMMA SplitOneMore ==
  ASSUME NEW n \in Nat, NEW m \in 0..n-1, NEW f, Splits(n, m + 1, f)
  PROVE  \E g : Splits(n, m, g)
<1> DEFINE g == [i \in m..n |-> IF i = m THEN SplitAt(n, f, i) ELSE f[i]]
<1>1. ASSUME NEW i \in m..n PROVE g[i] = SplitAt(n, g, i)
  <2>1. CASE i = n
    BY <2>1 DEF Splits, SplitAt
  <2>2. CASE i # n
    <3> DEFINE j == i + BatchFrom(n, i).step
    <3>1. j \in m+1..n
      BY <2>2, BatchFromIs DEF BatchOk
    <3>2. g[j] = f[j]
      BY <3>1
    <3>3. SplitAt(n, f, i) = SplitAt(n, g, i)
      BY <3>2, <2>2 DEF SplitAt
    <3>4. CASE i = m
      BY <3>3, <3>4
    <3>5. CASE i # m
      <4>1. i \in m+1..n
        BY <3>5
      <4> QED
        BY <3>3, <3>5, <4>1 DEF Splits
    <3> QED
      BY <3>4, <3>5
  <2> QED
    BY <2>1, <2>2
<1>2. g = [i \in m..n |-> g[i]]
  OBVIOUS
<1> HIDE DEF g
<1>3. Splits(n, m, g)
  BY <1>1, <1>2 DEF Splits
<1> QED
  BY <1>3

LEMMA SplitTableSolves == ASSUME NEW n \in Nat PROVE Splits(n, 0, SplitTable(n))
<1> DEFINE unsolved == {k \in 0..n : ~\E f : Splits(n, n - k, f)}
<1>1. ASSUME unsolved # {} PROVE FALSE
  <2>0. unsolved \subseteq Nat
    OBVIOUS
  <2>1. PICK k \in unsolved : \A j \in unsolved : k <= j
    <3> HIDE DEF unsolved
    <3> QED
      BY <1>1, <2>0, LeastElement
  <2>2. CASE k = 0
    <3>1. Splits(n, n, [i \in n..n |-> <<>>])
      BY DEF Splits, SplitAt
    <3> QED
      BY <2>1, <2>2, <3>1
  <2>3. CASE k # 0
    <3>1. k - 1 \in 0..n /\ k - 1 \notin unsolved
      BY <2>1, <2>3
    <3>2. PICK f : Splits(n, n - (k - 1), f)
      BY <3>1
    <3>3. n - k \in 0..n-1 /\ n - (k - 1) = (n - k) + 1
      BY <2>3
    <3>4. \E g : Splits(n, n - k, g)
      BY <3>2, <3>3, SplitOneMore
    <3> QED
      BY <3>4
  <2> QED
    BY <2>2, <2>3
<1>2. PICK f : Splits(n, n - n, f)
  BY <1>1
<1>3. n - n = 0
  OBVIOUS
<1> QED
  BY <1>2, <1>3 DEF SplitTable

\* One batch put before others
LEMMA Consed ==
  ASSUME NEW S, NEW b \in S, NEW t \in Seq(S)
  PROVE  /\ <<b>> \o t \in Seq(S) /\ Len(<<b>> \o t) = Len(t) + 1 /\ <<b>> \o t # <<>>
         /\ (<<b>> \o t)[1] = b /\ \A j \in 1..Len(t) : (<<b>> \o t)[j + 1] = t[j]
<1> DEFINE h == <<b>>
<1>1. h \in Seq(S) /\ Len(h) = 1 /\ h[1] = b /\ Len(t) \in Nat
  BY LenProperties
<1> HIDE DEF h
<1>2. /\ h \o t \in Seq(S) /\ Len(h \o t) = Len(h) + Len(t)
      /\ \A i \in 1..Len(h) + Len(t) :
           (h \o t)[i] = IF i <= Len(h) THEN h[i] ELSE t[i - Len(h)]
  BY <1>1, ConcatProperties
<1>3. ASSUME NEW j \in 1..Len(t) PROVE (h \o t)[j + 1] = t[j]
  <2>1. j + 1 \in 1..Len(h) + Len(t) /\ ~(j + 1 <= Len(h)) /\ (j + 1) - Len(h) = j
    BY <1>1
  <2> QED
    BY <1>2, <2>1
<1>4. h \o t # <<>>
  BY <1>1, <1>2, EmptySeq
<1> QED
  BY <1>1, <1>2, <1>3, <1>4 DEF h

\* The tokens are cut without a gap, and a short request is not cut at all.
LEMMA SplitBatchOk ==
  ASSUME NEW n \in Nat \ {0}
  PROVE  /\ SplitBatch(n) \in Seq(BatchRecord) /\ SplitBatch(n) # <<>>
         /\ Consecutive(SplitBatch(n), n) /\ SplitBatch(n)[1].index = 0
         /\ n <= MaxBatch => SplitBatch(n)[1].step = n
<1> DEFINE f == SplitTable(n)
           fine(i) == /\ f[i] \in Seq(BatchRecord) /\ Consecutive(f[i], n)
                      /\ i < n => f[i] # <<>> /\ f[i][1] = BatchFrom(n, i)
           wrong == {k \in 0..n : ~fine(n - k)}
<1>1. f = [i \in 0..n |-> SplitAt(n, f, i)]
  BY SplitTableSolves DEF Splits
<1> HIDE DEF f
<1>2. ASSUME wrong # {} PROVE FALSE
  <2>0. wrong \subseteq Nat
    OBVIOUS
  <2>1. PICK k \in wrong : \A j \in wrong : k <= j
    <3> HIDE DEF wrong
    <3> QED
      BY <1>2, <2>0, LeastElement
  <2> DEFINE i == n - k
  <2>2. i \in 0..n /\ ~fine(i)
    BY <2>1
  <2>3. f[i] = SplitAt(n, f, i)
    BY <1>1, <2>2
  <2>4. CASE i = n
    <3>1. f[i] = <<>>
      BY <2>3, <2>4 DEF SplitAt
    <3>2. Consecutive(<<>>, n)
      BY EmptySeq DEF Consecutive
    <3>3. <<>> \in Seq(BatchRecord)
      BY EmptySeq
    <3> QED
      BY <2>2, <2>4, <3>1, <3>2, <3>3
  <2>5. CASE i # n
    <3> DEFINE b == BatchFrom(n, i)
               j == i + b.step
               t == f[j]
    <3>1. b \in BatchRecord /\ BatchOk(b, n) /\ b.index = i
      BY <2>2, <2>5, BatchFromIs
    <3>2. j \in i+1..n
      BY <2>2, <3>1 DEF BatchOk
    <3>3. fine(j)
      <4>1. n - j \in 0..n /\ n - j < k /\ n - (n - j) = j /\ k \in Nat
        BY <2>2, <3>2
      <4> HIDE DEF fine, j
      <4> QED
        BY <2>1, <4>1
    <3>4. f[i] = <<b>> \o t
      BY <2>3, <2>5 DEF SplitAt
    <3>5. t \in Seq(BatchRecord) /\ Consecutive(t, n) /\ Len(t) \in Nat
      BY <3>3, LenProperties
    <3>6. j < n => t # <<>> /\ t[1].index = j
      BY <3>2, <3>3, BatchFromIs
    <3>7. j = n => t = <<>>
      BY <1>1, <3>2 DEF SplitAt
    <3> DEFINE s == f[i]
    <3>8. /\ s \in Seq(BatchRecord) /\ Len(s) = Len(t) + 1 /\ s # <<>> /\ s[1] = b
          /\ \A m \in 1..Len(t) : s[m + 1] = t[m]
      <4> HIDE DEF b, t, s
      <4>1. s = <<b>> \o t
        BY <3>4 DEF s
      <4> QED
        BY <3>1, <3>5, <4>1, Consed
    <3>9. t = <<>> <=> Len(t) = 0
      BY <3>5, EmptySeq
    <3> HIDE DEF b, t, s
    <3>10. ASSUME NEW m \in 1..Len(s)
           PROVE  /\ BatchOk(s[m], n)
                  /\ s[m].index + s[m].step = IF m = Len(s) THEN n ELSE s[m+1].index
      <4>1. CASE m = 1
        <5>1. s[m] = b /\ b.index + b.step = j
          BY <3>1, <3>8, <4>1
        <5>2. CASE Len(t) = 0
          BY <3>1, <3>2, <3>6, <3>8, <3>9, <4>1, <5>1, <5>2
        <5>3. CASE Len(t) # 0
          <6>1. 1 \in 1..Len(t) /\ s[1 + 1] = t[1] /\ j # n /\ m # Len(s)
            BY <3>5, <3>7, <3>8, <3>9, <4>1, <5>3
          <6>2. j < n
            BY <3>2, <6>1
          <6> QED
            BY <3>1, <3>6, <4>1, <5>1, <6>1, <6>2
        <5> QED
          BY <5>2, <5>3
      <4>2. CASE m # 1
        <5>1. m - 1 \in 1..Len(t) /\ (m - 1) + 1 = m /\ s[m] = t[m - 1]
          BY <3>5, <3>8, <4>2
        <5>2. m # Len(s) => m \in 1..Len(t) /\ s[m + 1] = t[m]
          BY <3>5, <3>8, <4>2
        <5>3. m = Len(s) <=> m - 1 = Len(t)
          BY <3>5, <3>8
        <5>4. /\ BatchOk(t[m - 1], n)
              /\ t[m - 1].index + t[m - 1].step = IF m - 1 = Len(t) THEN n ELSE t[(m - 1) + 1].index
          BY <3>5, <5>1 DEF Consecutive
        <5> QED
          BY <5>1, <5>2, <5>3, <5>4
      <4> QED
        BY <4>1, <4>2
    <3>11. Consecutive(s, n)
      BY <3>10 DEF Consecutive
    <3>12. fine(i)
      BY <3>8, <3>11 DEF s, b
    <3> QED
      BY <2>2, <3>12
  <2> QED
    BY <2>4, <2>5
<1>3. fine(0)
  <2>1. n \in 0..n /\ n - n = 0
    OBVIOUS
  <2> HIDE DEF fine
  <2> QED
    BY <1>2, <2>1
<1>4. SplitBatch(n) = f[0]
  BY SplitBatchIs DEF f
<1> QED
  BY <1>3, <1>4, BatchFromIs

----------------------------------------------------------------------------
(* The way to a token *)

\* The first n tokens of a request come after their parents.
Rooted(r, n) ==
  r.parent \in [0..n-1 -> Int] /\ \A u \in 0..n-1 : r.parent[u] < u

\* The equation of Path, up to token n
PathAt(r, f, v) == IF r.parent[v] < 0 THEN <<v>> ELSE Append(f[r.parent[v]], v)
Paths(r, n, f) == f = [v \in 0..n |-> PathAt(r, f, v)]
PathTable(r, n) == CHOOSE f : Paths(r, n, f)

LEMMA PathIsTable == ASSUME NEW r, NEW u PROVE Path(r, u) = PathTable(r, u)[u]
  BY DEF Path, PathTable, Paths, PathAt

\* One more token
LEMMA PathsOneMore ==
  ASSUME NEW n \in Nat, NEW r, Rooted(r, n), NEW m \in Nat, m + 1 < n, NEW f, Paths(r, m, f)
  PROVE  \E g : Paths(r, m + 1, g)
<1> DEFINE g == [v \in 0..m+1 |-> IF v = m + 1 THEN PathAt(r, f, v) ELSE f[v]]
<1>1. ASSUME NEW v \in 0..m+1 PROVE g[v] = PathAt(r, g, v)
  <2> DEFINE p == r.parent[v]
  <2>1. p \in Int /\ p < v
    BY DEF Rooted
  <2>2. p >= 0 => p \in 0..m /\ g[p] = f[p]
    BY <2>1
  <2>3. PathAt(r, f, v) = PathAt(r, g, v)
    <3> HIDE DEF g
    <3> QED
      BY <2>1, <2>2 DEF PathAt
  <2>4. CASE v = m + 1
    BY <2>3, <2>4
  <2>5. CASE v # m + 1
    <3>1. v \in 0..m
      BY <2>5
    <3> QED
      BY <2>3, <2>5, <3>1 DEF Paths
  <2> QED
    BY <2>4, <2>5
<1>2. g = [v \in 0..m+1 |-> g[v]]
  OBVIOUS
<1> HIDE DEF g
<1>3. Paths(r, m + 1, g)
  BY <1>1, <1>2 DEF Paths
<1> QED
  BY <1>3

LEMMA PathTableSolves ==
  ASSUME NEW n \in Nat, NEW r, Rooted(r, n), NEW u \in 0..n-1
  PROVE  Paths(r, u, PathTable(r, u))
<1> DEFINE unsolved == {k \in 0..n-1 : ~\E f : Paths(r, k, f)}
<1>0. unsolved \subseteq Nat
  OBVIOUS
<1>1. ASSUME unsolved # {} PROVE FALSE
  <2>1. PICK k \in unsolved : \A j \in unsolved : k <= j
    <3> HIDE DEF unsolved
    <3> QED
      BY <1>0, <1>1, LeastElement
  <2>2. CASE k = 0
    <3>1. ~(r.parent[0] >= 0) /\ r.parent[0] < 0
      BY <2>1, <2>2 DEF Rooted
    <3>2. Paths(r, 0, [v \in 0..0 |-> <<v>>])
      BY <3>1 DEF Paths, PathAt
    <3> QED
      BY <2>1, <2>2, <3>2
  <2>3. CASE k # 0
    <3>1. k - 1 \in 0..n-1 /\ k - 1 \notin unsolved /\ (k - 1) + 1 = k /\ k < n /\ k - 1 \in Nat
      BY <2>1, <2>3
    <3>2. PICK f : Paths(r, k - 1, f)
      BY <3>1
    <3>3. \E g : Paths(r, (k - 1) + 1, g)
      <4> HIDE DEF unsolved
      <4> QED
        BY <3>1, <3>2, PathsOneMore
    <3> QED
      BY <2>1, <3>1, <3>3
  <2> QED
    BY <2>2, <2>3
<1>2. \E f : Paths(r, u, f)
  BY <1>1
<1> QED
  BY <1>2 DEF PathTable

\* The way to a token does not depend on the tokens behind it.
LEMMA PathTablesAgree ==
  ASSUME NEW n \in Nat, NEW r, Rooted(r, n), NEW u \in 0..n-1, NEW w \in u..n-1
  PROVE  PathTable(r, w)[u] = Path(r, u)
<1> DEFINE f == PathTable(r, u)
           g == PathTable(r, w)
           differ == {v \in 0..u : f[v] # g[v]}
<1>0. w \in 0..n-1
  OBVIOUS
<1>1. f = [v \in 0..u |-> PathAt(r, f, v)] /\ g = [v \in 0..w |-> PathAt(r, g, v)]
  <2>1. Paths(r, u, f) /\ Paths(r, w, g)
    BY <1>0, PathTableSolves
  <2> HIDE DEF f, g
  <2> QED
    BY <2>1 DEF Paths
<1> HIDE DEF f, g
<1>2. differ \subseteq Nat
  OBVIOUS
<1>3. ASSUME differ # {} PROVE FALSE
  <2>1. PICK v \in differ : \A k \in differ : v <= k
    <3> HIDE DEF differ
    <3> QED
      BY <1>2, <1>3, LeastElement
  <2> DEFINE p == r.parent[v]
  <2>2. v \in 0..u /\ v \in 0..w /\ f[v] # g[v]
    BY <2>1
  <2>3. p \in Int /\ p < v
    BY <2>2 DEF Rooted
  <2>4. p >= 0 => f[p] = g[p]
    BY <2>1, <2>2, <2>3
  <2>5. f[v] = PathAt(r, f, v) /\ g[v] = PathAt(r, g, v)
    BY <1>1, <2>2
  <2> QED
    BY <2>2, <2>3, <2>4, <2>5 DEF PathAt
<1>4. g[u] = f[u]
  BY <1>3
<1> QED
  BY <1>4, PathIsTable DEF f, g

LEMMA PathIs ==
  ASSUME NEW n \in Nat, NEW r, Rooted(r, n), NEW u \in 0..n-1
  PROVE  Path(r, u) = IF r.parent[u] < 0 THEN <<u>> ELSE Append(Path(r, r.parent[u]), u)
<1> DEFINE p == r.parent[u]
           f == PathTable(r, u)
<1>1. f[u] = PathAt(r, f, u)
  <2>1. Paths(r, u, f) /\ u \in 0..u
    BY PathTableSolves
  <2> HIDE DEF f
  <2>2. f = [v \in 0..u |-> PathAt(r, f, v)]
    BY <2>1 DEF Paths
  <2> QED
    BY <2>1, <2>2
<1>2. p \in Int /\ p < u
  BY DEF Rooted
<1>3. p >= 0 => f[p] = Path(r, p)
  BY <1>2, PathTablesAgree
<1>4. Path(r, u) = f[u]
  BY PathIsTable
<1> HIDE DEF f
<1> QED
  BY <1>1, <1>2, <1>3, <1>4 DEF PathAt

\* Its tokens are of the request, as many as come before, and one or more.
LEMMA PathTypes ==
  ASSUME NEW n \in Nat, NEW r, Rooted(r, n), NEW u \in 0..n-1
  PROVE  Path(r, u) \in Seq(0..n-1) /\ Len(Path(r, u)) \in 1..u+1
<1> DEFINE fine(v) == Path(r, v) \in Seq(0..n-1) /\ Len(Path(r, v)) \in 1..v+1
           wrong == {v \in 0..n-1 : ~fine(v)}
<1>1. wrong \subseteq Nat
  OBVIOUS
<1>2. ASSUME wrong # {} PROVE FALSE
  <2>1. PICK v \in wrong : \A k \in wrong : v <= k
    <3> HIDE DEF wrong
    <3> QED
      BY <1>1, <1>2, LeastElement
  <2> DEFINE p == r.parent[v]
  <2>2. v \in 0..n-1 /\ ~fine(v) /\ p \in Int /\ p < v
    BY <2>1 DEF Rooted
  <2>3. p >= 0 => p \in 0..n-1 /\ fine(p)
    BY <2>1, <2>2
  <2>4. Path(r, v) = IF p < 0 THEN <<v>> ELSE Append(Path(r, p), v)
    BY <2>2, PathIs
  <2>5. CASE p < 0
    <3>1. Path(r, v) = <<v>>
      BY <2>4, <2>5
    <3> QED
      BY <2>2, <3>1
  <2>6. CASE p >= 0
    <3>1. Path(r, v) = Append(Path(r, p), v) /\ fine(p)
      <4> HIDE DEF fine
      <4>1. ~(p < 0)
        BY <2>2, <2>6
      <4> HIDE DEF p
      <4> QED
        BY <2>3, <2>4, <2>6, <4>1
    <3>2. Append(Path(r, p), v) \in Seq(0..n-1) /\ Len(Append(Path(r, p), v)) = Len(Path(r, p)) + 1
      BY <2>2, <3>1, AppendProperties
    <3> QED
      BY <2>2, <3>1, <3>2
  <2> QED
    BY <2>2, <2>5, <2>6
<1> QED
  BY <1>2

\* A token sees itself and what its parent sees.
LEMMA NotMaskedIs ==
  ASSUME NEW n \in Nat, NEW r, Rooted(r, n), NEW u \in 0..n-1, NEW v
  PROVE  NotMasked(r, u, v) <=>
           v = u \/ (r.parent[u] >= 0 /\ NotMasked(r, r.parent[u], v))
<1> DEFINE p == r.parent[u]
<1>1. p \in Int /\ p < u /\ Path(r, u) = IF p < 0 THEN <<u>> ELSE Append(Path(r, p), u)
  BY PathIs DEF Rooted
<1>2. CASE p < 0
  <2>1. Path(r, u) = <<u>> /\ ~(p >= 0)
    BY <1>1, <1>2
  <2>2. NotMasked(r, u, v) <=> v = u
    BY <2>1 DEF NotMasked
  <2> QED
    BY <2>1, <2>2
<1>3. CASE p >= 0
  <2> DEFINE s == Path(r, p)
             w == Append(s, u)
  <2>1. Path(r, u) = w /\ s \in Seq(0..n-1) /\ p \in 0..n-1
    <3>1. p \in 0..n-1 /\ ~(p < 0)
      BY <1>1, <1>3
    <3>2. s \in Seq(0..n-1)
      BY <3>1, PathTypes
    <3> QED
      BY <1>1, <3>1, <3>2
  <2> HIDE DEF s
  <2>2. Len(s) \in Nat /\ Len(w) = Len(s) + 1 /\ \A i \in 1..Len(s) : w[i] = s[i]
    BY <2>1, AppendProperties, LenProperties
  <2>3. w[Len(s) + 1] = u /\ DOMAIN w = 1..Len(s)+1 /\ DOMAIN s = 1..Len(s)
    BY <2>1, <2>2, AppendProperties
  <2> HIDE DEF w
  <2>4. (\E i \in 1..Len(s)+1 : w[i] = v) <=> v = u \/ \E i \in 1..Len(s) : s[i] = v
    BY <2>2, <2>3
  <2>5. (\E i \in DOMAIN w : w[i] = v) <=> NotMasked(r, u, v)
    BY <2>1 DEF NotMasked
  <2>6. (\E i \in DOMAIN s : s[i] = v) <=> NotMasked(r, p, v)
    BY DEF NotMasked, s
  <2> QED
    BY <1>3, <2>3, <2>4, <2>5, <2>6
<1> QED
  BY <1>1, <1>2, <1>3

LEMMA NotMaskedBelow ==
  ASSUME NEW n \in Nat, NEW r, Rooted(r, n), NEW u \in 0..n-1, NEW v, NotMasked(r, u, v)
  PROVE  v \in 0..u
<1> DEFINE wrong == {k \in 0..n-1 : \E w : NotMasked(r, k, w) /\ w \notin 0..k}
<1>1. wrong \subseteq Nat
  OBVIOUS
<1>2. ASSUME wrong # {} PROVE FALSE
  <2>1. PICK k \in wrong : \A j \in wrong : k <= j
    <3> HIDE DEF wrong
    <3> QED
      BY <1>1, <1>2, LeastElement
  <2>2. PICK w : NotMasked(r, k, w) /\ w \notin 0..k
    BY <2>1
  <2> DEFINE p == r.parent[k]
  <2>3. k \in 0..n-1 /\ p \in Int /\ p < k
    BY <2>1 DEF Rooted
  <2>4. p >= 0 /\ NotMasked(r, p, w)
    BY <2>2, <2>3, NotMaskedIs
  <2>5. p \in 0..n-1 /\ p \notin wrong
    BY <2>1, <2>3, <2>4
  <2>6. w \in 0..p
    BY <2>4, <2>5
  <2> QED
    BY <2>2, <2>3, <2>4, <2>6
<1> QED
  BY <1>2

----------------------------------------------------------------------------
(* The text of a token *)

\* TextOf, for any request and any text it began with
TokensOf(r, s) == [i \in DOMAIN s |-> r.tokens[s[i] + 1]]
Along(began, r, u) == began \o TokensOf(r, Path(r, u))

LEMMA TextOfIs == ASSUME NEW u PROVE TextOf(u) = Along(BeganWith, request, u)
  BY DEF TextOf, Along, TokensOf

LEMMA TokensOfTypes ==
  ASSUME NEW r, r.tokens \in Content, NEW s \in Seq(0..Len(r.tokens)-1)
  PROVE  TokensOf(r, s) \in Content /\ Len(TokensOf(r, s)) = Len(s)
<1> DEFINE n == Len(s)
           t == r.tokens
<1>1. n \in Nat /\ DOMAIN s = 1..n /\ \A i \in 1..n : s[i] \in 0..Len(t)-1
  BY LenProperties, ElementOfSeq
<1>2. \A k \in 1..Len(t) : t[k] \in Token
  BY ElementOfSeq DEF Content
<1>3. Len(t) \in Nat
  BY LenProperties DEF Content
<1> HIDE DEF t, n
<1>4. \A i \in 1..n : t[s[i] + 1] \in Token
  BY <1>1, <1>2, <1>3
<1>5. [i \in 1..n |-> t[s[i] + 1]] \in Seq(Token) /\ Len([i \in 1..n |-> t[s[i] + 1]]) = n
  <2> DEFINE f == [i \in 1..n |-> t[s[i] + 1]]
  <2>1. f \in [1..n -> Token] /\ DOMAIN f = 1..n
    BY <1>4
  <2> HIDE DEF f
  <2>2. f \in Seq(Token)
    BY <1>1, <2>1, SeqDef
  <2>3. Len(f) = n
    BY <1>1, <2>1, <2>2, LenProperties
  <2> QED
    BY <2>2, <2>3 DEF f
<1> QED
  BY <1>1, <1>5 DEF TokensOf, Content, t, n

LEMMA TokensOfAppend ==
  ASSUME NEW r, r.tokens \in Content, NEW s \in Seq(0..Len(r.tokens)-1),
         NEW u \in 0..Len(r.tokens)-1
  PROVE  TokensOf(r, Append(s, u)) = Append(TokensOf(r, s), r.tokens[u + 1])
<1> DEFINE w == Append(s, u)
           a == TokensOf(r, w)
           b == TokensOf(r, s)
           c == Append(b, r.tokens[u + 1])
<1>1. w \in Seq(0..Len(r.tokens)-1) /\ Len(w) = Len(s) + 1 /\ w[Len(s) + 1] = u
      /\ \A i \in 1..Len(s) : w[i] = s[i]
  BY AppendProperties
<1>2. a \in Content /\ Len(a) = Len(s) + 1 /\ b \in Content /\ Len(b) = Len(s)
  BY <1>1, TokensOfTypes
<1>3. r.tokens[u + 1] \in Token
  <2>1. Len(r.tokens) \in Nat
    BY LenProperties DEF Content
  <2>2. u + 1 \in 1..Len(r.tokens)
    BY <2>1
  <2> QED
    BY <2>2, ElementOfSeq DEF Content
<1>4. c \in Content /\ Len(c) = Len(s) + 1 /\ c[Len(s) + 1] = r.tokens[u + 1]
      /\ \A i \in 1..Len(s) : c[i] = b[i]
  BY <1>2, <1>3, AppendProperties DEF Content
<1>5. Len(s) \in Nat /\ DOMAIN s = 1..Len(s) /\ DOMAIN w = 1..Len(s)+1
  BY <1>1, LenProperties
<1>6. a[Len(s) + 1] = r.tokens[u + 1] /\ \A i \in 1..Len(s) : a[i] = b[i]
  <2> HIDE DEF w
  <2>1. Len(s) + 1 \in DOMAIN w
    BY <1>5
  <2>2. a[Len(s) + 1] = r.tokens[u + 1]
    BY <1>1, <2>1 DEF TokensOf
  <2>3. ASSUME NEW i \in 1..Len(s) PROVE a[i] = b[i]
    <3>1. i \in DOMAIN w /\ i \in DOMAIN s /\ w[i] = s[i]
      BY <1>1, <1>5
    <3> QED
      BY <3>1 DEF TokensOf
  <2> QED
    BY <2>2, <2>3
<1> HIDE DEF a, b, c, w
<1>7. \A i \in 1..Len(a) : a[i] = c[i]
  BY <1>2, <1>4, <1>5, <1>6
<1>8. a = c
  BY <1>2, <1>4, <1>7, SeqEqual DEF Content
<1> QED
  BY <1>8 DEF a, b, c, w

\* A token comes behind the text of its parent.
LEMMA AlongIs ==
  ASSUME NEW began \in Content, NEW r, r.tokens \in Content, Rooted(r, Len(r.tokens)),
         NEW u \in 0..Len(r.tokens)-1
  PROVE  /\ Along(began, r, u) \in Content
         /\ Len(Along(began, r, u)) = Len(began) + Len(Path(r, u))
         /\ r.tokens[u + 1] \in Token
         /\ Along(began, r, u) =
              Append(IF r.parent[u] < 0 THEN began ELSE Along(began, r, r.parent[u]), r.tokens[u + 1])
<1> DEFINE n == Len(r.tokens)
           p == r.parent[u]
           t == r.tokens[u + 1]
<1>1. n \in Nat /\ t \in Token
  <2>1. n \in Nat
    BY LenProperties DEF Content
  <2>2. u + 1 \in 1..n
    BY <2>1
  <2> QED
    BY <2>1, <2>2, ElementOfSeq DEF Content
<1>2. \A v \in 0..n-1 : TokensOf(r, Path(r, v)) \in Content
                        /\ Len(TokensOf(r, Path(r, v))) = Len(Path(r, v))
  BY <1>1, PathTypes, TokensOfTypes
<1>3. Along(began, r, u) \in Content /\ Len(Along(began, r, u)) = Len(began) + Len(Path(r, u))
  <2> DEFINE m == TokensOf(r, Path(r, u))
  <2>1. m \in Seq(Token) /\ Len(m) = Len(Path(r, u))
    BY <1>2 DEF Content
  <2> HIDE DEF m
  <2>2. began \o m \in Seq(Token) /\ Len(began \o m) = Len(began) + Len(m)
    BY <2>1, ConcatProperties DEF Content
  <2> QED
    BY <2>1, <2>2 DEF Along, Content, m
<1>4. p \in Int /\ p < u
  BY DEF Rooted
<1>5. Path(r, u) = IF p < 0 THEN <<u>> ELSE Append(Path(r, p), u)
  BY <1>1, PathIs
<1>6. CASE p < 0
  <2>1. <<>> \in Seq(0..n-1) /\ <<>> \in Seq(Token)
    BY EmptySeq
  <2>2. Path(r, u) = Append(<<>>, u)
    BY <1>5, <1>6
  <2>3. TokensOf(r, Path(r, u)) = Append(TokensOf(r, <<>>), t)
    BY <2>1, <2>2, TokensOfAppend
  <2>4. TokensOf(r, <<>>) = <<>>
    <3>1. TokensOf(r, <<>>) \in Seq(Token) /\ Len(TokensOf(r, <<>>)) = 0
      BY <2>1, TokensOfTypes, EmptySeq DEF Content
    <3> QED
      BY <3>1, EmptySeq
  <2>5. began \o Append(<<>>, t) = Append(began \o <<>>, t) /\ began \o <<>> = began
    BY <1>1, <2>1, ConcatAppend, ConcatEmptySeq DEF Content
  <2> QED
    BY <1>1, <1>3, <1>6, <2>3, <2>4, <2>5 DEF Along
<1>7. CASE ~(p < 0)
  <2>1. p \in 0..n-1
    BY <1>1, <1>4, <1>7
  <2>2. Path(r, p) \in Seq(0..n-1)
    BY <1>1, <2>1, PathTypes
  <2>3. TokensOf(r, Path(r, u)) = Append(TokensOf(r, Path(r, p)), t)
    BY <1>5, <1>7, <2>2, TokensOfAppend
  <2>4. began \o Append(TokensOf(r, Path(r, p)), t) = Append(Along(began, r, p), t)
    BY <1>1, <1>2, <2>1, ConcatAppend DEF Along, Content
  <2> QED
    BY <1>1, <1>3, <1>7, <2>3, <2>4 DEF Along
<1> QED
  BY <1>6, <1>7

\* A text goes on token by token.
LEMMA TextAlong ==
  ASSUME NEW began \in Content, NEW r, r.tokens \in Content, IsText(r),
         NEW u \in 0..Len(r.tokens)-1
  PROVE  Along(began, r, u) = began \o Take(r.tokens, u + 1)
<1> DEFINE n == Len(r.tokens)
           t == r.tokens
           fine(v) == Along(began, r, v) = began \o Take(t, v + 1)
           wrong == {v \in 0..n-1 : ~fine(v)}
<1>1. wrong \subseteq Nat
  OBVIOUS
<1>2. n \in Nat /\ t \in Seq(Token) /\ began \in Seq(Token)
  BY LenProperties DEF Content
<1>3. Rooted(r, n) /\ \A v \in 0..n-1 : r.parent[v] = v - 1
  BY <1>2 DEF Rooted, IsText, Before
<1>4. ASSUME wrong # {} PROVE FALSE
  <2>1. PICK v \in wrong : \A k \in wrong : v <= k
    <3> HIDE DEF wrong
    <3> QED
      BY <1>1, <1>4, LeastElement
  <2>2. v \in 0..n-1 /\ ~fine(v)
    BY <2>1
  <2>3. v # 0 => Along(began, r, v - 1) = began \o Take(t, v)
    <3>1. ASSUME v # 0 PROVE fine(v - 1) /\ (v - 1) + 1 = v
      <4>1. v - 1 \in 0..n-1 /\ v - 1 < v /\ v \in Nat /\ (v - 1) + 1 = v
        BY <1>2, <2>2, <3>1
      <4> HIDE DEF fine
      <4> QED
        BY <2>1, <4>1
    <3> QED
      BY <3>1
  <2>4. Along(began, r, v) =
          Append(IF v - 1 < 0 THEN began ELSE Along(began, r, v - 1), t[v + 1])
    <3>1. v \in 0..Len(r.tokens)-1 /\ r.parent[v] = v - 1 /\ Rooted(r, Len(r.tokens))
      BY <1>3, <2>2
    <3> DEFINE q == v - 1
    <3> HIDE DEF wrong, fine, q
    <3>2. Along(began, r, v) =
            Append(IF r.parent[v] < 0 THEN began ELSE Along(began, r, r.parent[v]), r.tokens[v + 1])
      BY <3>1, AlongIs
    <3>3. r.parent[v] = q
      BY <3>1 DEF q
    <3>4. Along(began, r, v) = Append(IF q < 0 THEN began ELSE Along(began, r, q), r.tokens[v + 1])
      BY <3>2, <3>3, Zenon
    <3> QED
      BY <3>4 DEF q
  <2>5. Take(t, v + 1) = Append(Take(t, v), t[v + 1]) /\ Take(t, v) \in Seq(Token) /\ t[v + 1] \in Token
    <3>1. v \in 0..n-1 /\ v \in 0..n /\ v + 1 \in 1..n
      BY <1>2, <2>2
    <3> QED
      BY <1>2, <3>1, TakeOneMore, TakeProperties, ElementOfSeq
  <2>6. began \o Append(Take(t, v), t[v + 1]) = Append(began \o Take(t, v), t[v + 1])
    <3> DEFINE w == Take(t, v)
               e == t[v + 1]
    <3>1. w \in Seq(Token) /\ e \in Token
      BY <2>5
    <3> HIDE DEF w, e
    <3>2. began \in Seq(Token)
      BY <1>2
    <3>3. began \o Append(w, e) = Append(began \o w, e)
      BY ONLY <3>1, <3>2, ConcatAppend
    <3> QED
      BY <3>3 DEF w, e
  <2>7. Take(t, 0) = <<>> /\ began \o <<>> = began
    BY <1>2, SubSeqEmpty, ConcatEmptySeq DEF Take
  <2>8. v \in Nat
    BY <2>2
  <2> HIDE DEF n, t
  <2>9. Along(began, r, v) = began \o Take(t, v + 1)
    <3>1. CASE v = 0
      <4>1. Along(began, r, v) = Append(began, t[v + 1])
        BY <2>4, <3>1
      <4>2. Append(began, t[v + 1]) = Append(began \o Take(t, v), t[v + 1])
        BY <2>7, <3>1
      <4> QED
        BY <2>5, <2>6, <4>1, <4>2
    <3>2. CASE v # 0
      <4>1. ~(v - 1 < 0)
        BY <2>8, <3>2
      <4>2. Along(began, r, v) = Append(Along(began, r, v - 1), t[v + 1])
        BY <2>4, <4>1, Zenon
      <4>3. Along(began, r, v) = Append(began \o Take(t, v), t[v + 1])
        BY <2>3, <3>2, <4>2
      <4> QED
        BY <2>5, <2>6, <4>3
    <3> QED
      BY <3>1, <3>2
  <2> QED
    BY <2>2, <2>9 DEF t
<1> QED
  BY <1>4

\* What a batch of a text adds to it
LEMMA TakeFurther ==
  ASSUME NEW began \in Content, NEW t \in Content, NEW i \in Nat, NEW n \in Nat, i + n <= Len(t)
  PROVE  (began \o Take(t, i)) \o SubSeq(t, i + 1, i + n) = began \o Take(t, i + n)
<1> DEFINE a == Take(t, i)
           b == SubSeq(t, i + 1, i + n)
<1>1. Len(t) \in Nat /\ \A k \in i+1..i+n : t[k] \in Token
  BY LenProperties, ElementOfSeq DEF Content
<1>2. a \in Seq(Token) /\ Len(a) = i
  BY <1>1, TakeProperties DEF Content
<1>3. b \in Seq(Token)
  BY <1>1, SubSeqProperties
<1>4. a \o b = Take(t, i + n)
  <2>1. 1 \in 1..Len(t)+1 /\ i \in 1-1..Len(t) /\ i + n \in i..Len(t)
    BY <1>1
  <2> QED
    BY <2>1, ConcatAdjacentSubSeq DEF Take, Content
<1>5. (began \o a) \o b = began \o (a \o b)
  <2>1. began \in Seq(Token) /\ a \in Seq(Token) /\ b \in Seq(Token)
    BY <1>2, <1>3 DEF Content
  <2> HIDE DEF a, b
  <2> QED
    BY ONLY <2>1, ConcatAssociative
<1> QED
  BY <1>4, <1>5

----------------------------------------------------------------------------
(* The rows of the batch at hand *)

\* What the parts of the invariant say of the call, put together
LEMMA CallFacts ==
  ASSUME Types, HoldInv, CallInv, Calling
  PROVE  /\ Len(request.tokens) \in Nat \ {0} /\ Rooted(request, Len(request.tokens))
         /\ Batch = batches[1] /\ Batch \in BatchRecord /\ BatchOk(Batch, Len(request.tokens))
         /\ Rows \subseteq Row /\ 0 \in Rows
         /\ \A u \in Rows : u \in Nat /\ TokenAt(u) \in 0..Len(request.tokens)-1
         /\ BeganWith \in Content /\ Len(BeganWith) = request.start
         /\ text \in Content /\ Len(text) = position /\ position = request.start + Batch.index
         /\ Batch.index = 0 => BeganWith = text
<1> DEFINE n == Len(request.tokens)
<1>1. pc # "load"
  BY DEF Calling
<1>2. /\ WellFormed(request) /\ batches \in Seq(BatchRecord) /\ batches # <<>>
      /\ Consecutive(batches, n) /\ loose = 0 /\ position = request.start + Batch.index
  BY DEF CallInv, BatchRecord
<1>3. n \in Nat \ {0} /\ Rooted(request, n)
  <2>1. request.tokens \in Seq(Token) /\ request.tokens # <<>>
    BY <1>2 DEF WellFormed, Content
  <2>2. n \in Nat \ {0}
    BY <2>1, EmptySeq
  <2> QED
    BY <1>2, <2>2 DEF WellFormed, Rooted
<1>4. Batch = batches[1] /\ Batch \in BatchRecord /\ BatchOk(Batch, n)
  <2>1. Len(batches) \in Nat \ {0}
    BY <1>2, EmptySeq
  <2>2. 1 \in 1..Len(batches)
    BY <2>1
  <2>3. Head(batches) = batches[1]
    OBVIOUS
  <2> QED
    BY <1>2, <2>2, <2>3, ElementOfSeq DEF Batch, Consecutive
<1>5. MaxBatch \in Nat
  BY ConstantTypes
<1>6. Rows \subseteq Row /\ 0 \in Rows /\ \A u \in Rows : u \in Nat /\ TokenAt(u) \in 0..n-1
  <2>1. Batch.index \in Nat /\ Batch.step \in Nat \ {0} /\ Batch.index + Batch.step <= n
        /\ Batch.step <= MaxBatch
    BY <1>4, <1>5 DEF BatchOk
  <2> HIDE DEF n
  <2> QED
    BY <1>3, <1>5, <2>1 DEF Rows, Row, TokenAt
<1>7. text \in Content /\ Len(text) = position /\ position \in Nat /\ Len(text) \in Nat
  <2>1. text \in Content /\ position \in Nat
    BY ConstantTypes DEF Types, TypeOK
  <2>2. position = Len(text) + loose
    BY <1>1 DEF HoldInv
  <2>3. Len(text) \in Nat
    BY <2>1, LenProperties DEF Content
  <2> QED
    BY <1>2, <2>1, <2>2, <2>3
<1>8. request.start \in Nat /\ Batch.index \in Nat
  BY <1>2, <1>4 DEF WellFormed, BatchOk
<1>9. BeganWith \in Content /\ Len(BeganWith) = request.start
  <2>1. request.start \in 0..Len(text)
    BY <1>2, <1>7, <1>8
  <2>2. Take(text, request.start) \in Seq(Token) /\ Len(Take(text, request.start)) = request.start
    BY <1>7, <2>1, TakeProperties DEF Content
  <2> QED
    BY <2>2 DEF BeganWith, Take, Content
<1>10. ASSUME Batch.index = 0 PROVE BeganWith = text
  <2>1. request.start = Len(text)
    BY <1>2, <1>7, <1>8, <1>10
  <2> QED
    BY <1>7, <2>1, TakeAll DEF BeganWith, Take, Content
<1> QED
  BY <1>2, <1>3, <1>4, <1>6, <1>7, <1>9, <1>10

\* The text of a row without its token: that of the row of its parent, or what is
\* in the cache
Base(u) ==
  LET p == request.parent[TokenAt(u)] IN IF p < 0 THEN BeganWith ELSE TextOf(p)

LEMMA RowIs ==
  ASSUME Types, HoldInv, CallInv, Calling, NEW u \in Rows
  PROVE  /\ RowText(u) \in Content /\ Base(u) \in Content /\ RowToken(u) \in Token
         /\ RowText(u) = Append(Base(u), RowToken(u))
         /\ Len(Base(u)) = PositionOf(request, TokenAt(u)) /\ Len(Base(u)) \in Nat
<1> DEFINE r == request
           n == Len(r.tokens)
           v == TokenAt(u)
           p == r.parent[v]
<1>1. r.tokens \in Content
  BY DEF CallInv, WellFormed
<1>2. Rooted(r, n) /\ v \in 0..n-1 /\ BeganWith \in Content /\ Len(BeganWith) = r.start /\ n \in Nat
  BY CallFacts
<1>3. p \in Int /\ p < v
  BY <1>2 DEF Rooted
<1>4. Base(u) = IF p < 0 THEN BeganWith ELSE Along(BeganWith, r, p)
  BY TextOfIs DEF Base
<1>5. RowText(u) = Along(BeganWith, r, v)
  BY TextOfIs DEF RowText
<1>6. /\ Along(BeganWith, r, v) \in Content
      /\ Len(Along(BeganWith, r, v)) = Len(BeganWith) + Len(Path(r, v))
      /\ r.tokens[v + 1] \in Token
      /\ Along(BeganWith, r, v) =
           Append(IF p < 0 THEN BeganWith ELSE Along(BeganWith, r, p), r.tokens[v + 1])
  BY <1>1, <1>2, AlongIs
<1>7. Base(u) \in Content
  <2>1. CASE p < 0
    BY <1>2, <1>4, <2>1
  <2>2. CASE ~(p < 0)
    <3>1. p \in 0..n-1
      BY <1>2, <1>3, <2>2
    <3> QED
      BY <1>1, <1>2, <1>4, <2>2, <3>1, AlongIs
  <2> QED
    BY <2>1, <2>2
<1>8. RowText(u) = Append(Base(u), RowToken(u)) /\ RowToken(u) \in Token
  BY <1>4, <1>5, <1>6, Zenon DEF RowToken
<1>9. Len(RowText(u)) = Len(Base(u)) + 1 /\ Len(Base(u)) \in Nat
  BY <1>7, <1>8, AppendProperties, LenProperties DEF Content
<1>10. Len(Path(r, v)) \in Nat /\ r.start \in Nat
  <2>1. Len(BeganWith) \in Nat
    BY <1>2, LenProperties DEF Content
  <2> QED
    BY <1>2, <2>1, PathTypes
<1>11. PositionOf(r, v) = Len(Base(u))
  BY <1>2, <1>5, <1>6, <1>9, <1>10 DEF PositionOf
<1> QED
  BY <1>5, <1>6, <1>7, <1>8, <1>9, <1>11

\* A row sees itself and rows before it.
LEMMA SeesBelow ==
  ASSUME Types, HoldInv, CallInv, Calling, NEW u \in Rows
  PROVE  u \in Sees(u) /\ Sees(u) \subseteq Rows /\ \A v \in Sees(u) : v \in 0..u
<1> DEFINE n == Len(request.tokens)
<1>1. Rooted(request, n) /\ n \in Nat /\ TokenAt(u) \in 0..n-1 /\ Batch.index \in Nat /\ u \in Nat
  BY CallFacts DEF BatchOk
<1>2. NotMasked(request, TokenAt(u), TokenAt(u))
  BY <1>1, NotMaskedIs
<1>3. ASSUME NEW v \in Sees(u) PROVE v \in 0..u
  <2>1. v \in Rows /\ NotMasked(request, TokenAt(u), TokenAt(v))
    BY DEF Sees
  <2>2. v \in Nat
    BY <2>1, CallFacts
  <2>3. TokenAt(v) \in 0..TokenAt(u)
    BY <1>1, <2>1, NotMaskedBelow
  <2> QED
    BY <1>1, <2>2, <2>3 DEF TokenAt
<1> QED
  BY <1>2, <1>3 DEF Sees

\* Its parent is a row of the batch, or the last token of the text in the cache.
FollowsRow(u, q) ==
  /\ q \in Rows /\ q < u /\ Base(u) = RowText(q)
  /\ u \notin Sees(q) /\ Sees(u) = Sees(q) \cup {u}
FollowsText(u) == Base(u) = text /\ Sees(u) = {u}

LEMMA RowFollows ==
  ASSUME Types, HoldInv, CallInv, Calling, NEW u \in Rows
  PROVE  FollowsText(u) \/ \E q \in Rows : FollowsRow(u, q)
<1> DEFINE n == Len(request.tokens)
           i == Batch.index
           t == TokenAt(u)
           p == request.parent[t]
<1>1. Rooted(request, n) /\ n \in Nat /\ t \in 0..n-1 /\ i \in Nat /\ u \in Nat /\ t = i + u
  BY CallFacts DEF BatchOk, TokenAt
<1>2. p \in Int /\ p < t
  BY <1>1 DEF Rooted
<1>3. u \in Sees(u) /\ \A v \in Rows : v \in Nat /\ TokenAt(v) = i + v /\ TokenAt(v) \in 0..n-1
  BY SeesBelow, CallFacts DEF TokenAt
<1>4. \A v : NotMasked(request, t, v) <=> v = t \/ (p >= 0 /\ NotMasked(request, p, v))
  BY <1>1, NotMaskedIs
<1>5. CASE p >= i
  <2> DEFINE q == p - i
  <2>1. q \in Nat /\ q < u /\ TokenAt(q) = p /\ p >= 0 /\ ~(p < 0)
    BY <1>1, <1>2, <1>5 DEF TokenAt
  <2>2. q \in Rows
    BY <1>1, <2>1, CallFacts DEF Rows, BatchOk
  <2>3. Base(u) = RowText(q)
    BY <2>1, Zenon DEF Base, RowText
  <2>4. u \notin Sees(q)
    BY <1>1, <2>1, <2>2, SeesBelow
  <2>5. Sees(u) = Sees(q) \cup {u}
    <3>1. ASSUME NEW v \in Rows
          PROVE  NotMasked(request, t, TokenAt(v)) <=> v = u \/ NotMasked(request, TokenAt(q), TokenAt(v))
      <4>1. TokenAt(v) = t <=> v = u
        BY <1>1, <1>3
      <4> HIDE DEF t, p, q
      <4> QED
        BY <1>4, <2>1, <4>1
    <3> HIDE DEF q
    <3> QED
      BY <3>1 DEF Sees
  <2> QED
    BY <2>1, <2>2, <2>3, <2>4, <2>5 DEF FollowsRow
<1>6. CASE p < i
  <2>1. Sees(u) = {u}
    <3>1. ASSUME NEW v \in Rows, NotMasked(request, t, TokenAt(v)), v # u PROVE FALSE
      <4>1. TokenAt(v) # t /\ TokenAt(v) = i + v /\ v \in Nat
        BY <1>1, <1>3, <3>1
      <4>2. p >= 0 /\ NotMasked(request, p, TokenAt(v))
        BY <1>4, <3>1, <4>1
      <4>3. p \in 0..n-1
        BY <1>1, <1>2, <4>2
      <4>4. TokenAt(v) \in 0..p
        BY <1>1, <4>2, <4>3, NotMaskedBelow
      <4> QED
        BY <1>1, <1>2, <1>6, <4>1, <4>4
    <3> QED
      BY <1>3, <3>1 DEF Sees
  <2>2. IsText(request) => p = t - 1
    BY <1>1 DEF IsText, Before
  <2>3. IsText(request) \/ i = 0
    BY DEF CallInv
  <2>4. CASE p < 0
    <3>1. i = 0
      BY <1>1, <2>2, <2>3, <2>4
    <3>2. BeganWith = text
      BY <3>1, CallFacts
    <3>3. Base(u) = BeganWith
      BY <2>4, Zenon DEF Base
    <3> QED
      BY <2>1, <3>2, <3>3 DEF FollowsText
  <2>5. CASE ~(p < 0)
    <3>1. i > 0 /\ p = i - 1
      BY <1>1, <1>2, <1>6, <2>2, <2>3, <2>5
    <3>2. text = TextOf(i - 1)
      BY <3>1 DEF CallInv
    <3>3. Base(u) = TextOf(p)
      BY <2>5, Zenon DEF Base
    <3> QED
      BY <2>1, <3>1, <3>2, <3>3 DEF FollowsText
  <2> QED
    BY <2>4, <2>5
<1> QED
  BY <1>1, <1>2, <1>5, <1>6

\* What a row sees of the cache and of its batch is its own text, each token once.
LEMMA RowSeesItsText ==
  ASSUME Types, HoldInv, CallInv, Calling, NEW u \in Rows
  PROVE  /\ Prefixes(Base(u)) = Prefixes(text) \cup {RowText(v) : v \in Sees(u) \ {u}}
         /\ IsFiniteSet(Sees(u)) /\ Len(Base(u)) = Len(text) + Cardinality(Sees(u)) - 1
         /\ Cardinality(Sees(u)) \in 1..u+1
<1> DEFINE fine(v) == /\ Prefixes(Base(v)) = Prefixes(text) \cup {RowText(w) : w \in Sees(v) \ {v}}
                      /\ IsFiniteSet(Sees(v)) /\ Len(Base(v)) = Len(text) + Cardinality(Sees(v)) - 1
                      /\ Cardinality(Sees(v)) \in 1..v+1
           wrong == {v \in Rows : ~fine(v)}
<1>1. \A v \in Rows : v \in Nat
  BY CallFacts
<1>2. wrong \subseteq Nat
  BY <1>1
<1>3. Len(text) \in Nat
  BY CallFacts, LenProperties DEF Content
<1>4. ASSUME wrong # {} PROVE FALSE
  <2>1. PICK v \in wrong : \A k \in wrong : v <= k
    <3> HIDE DEF wrong
    <3> QED
      BY <1>2, <1>4, LeastElement
  <2>2. v \in Rows /\ ~fine(v) /\ v \in Nat
    BY <1>1, <2>1
  <2>3. CASE FollowsText(v)
    <3>1. Base(v) = text /\ Sees(v) = {v} /\ Sees(v) \ {v} = {}
      BY <2>3 DEF FollowsText
    <3>2. IsFiniteSet({v}) /\ Cardinality({v}) = 1
      BY FS_Singleton
    <3> QED
      BY <1>3, <2>2, <3>1, <3>2
  <2>4. ASSUME NEW q \in Rows, FollowsRow(v, q) PROVE FALSE
    <3>1. q < v /\ Base(v) = RowText(q) /\ v \notin Sees(q) /\ Sees(v) = Sees(q) \cup {v} /\ q \in Nat
      BY <1>1, <2>4 DEF FollowsRow
    <3>2. fine(q)
      <4> HIDE DEF fine
      <4> QED
        BY <2>1, <2>2, <3>1
    <3>3. RowText(q) = Append(Base(q), RowToken(q)) /\ Base(q) \in Seq(Token) /\ RowToken(q) \in Token
      BY RowIs DEF Content
    <3>4. Prefixes(Base(v)) = Prefixes(Base(q)) \cup {RowText(q)} /\ Len(Base(v)) = Len(Base(q)) + 1
      BY <3>1, <3>3, PrefixesOfAppend, AppendProperties
    <3>5. q \in Sees(q) /\ Sees(v) \ {v} = (Sees(q) \ {q}) \cup {q}
      BY <3>1, SeesBelow
    <3>6. Prefixes(Base(v)) = Prefixes(text) \cup {RowText(w) : w \in Sees(v) \ {v}}
      <4>1. {RowText(w) : w \in Sees(v) \ {v}} = {RowText(w) : w \in Sees(q) \ {q}} \cup {RowText(q)}
        BY <3>5
      <4> QED
        BY <3>2, <3>4, <4>1
    <3>7. IsFiniteSet(Sees(v)) /\ Cardinality(Sees(v)) = Cardinality(Sees(q)) + 1
      BY <3>1, <3>2, FS_AddElement
    <3> QED
      BY <1>3, <2>2, <3>1, <3>2, <3>4, <3>6, <3>7
  <2> QED
    BY <2>2, <2>3, <2>4, RowFollows
<1> HIDE DEF fine
<1>5. fine(u)
  BY <1>4
<1> QED
  BY <1>5 DEF fine

----------------------------------------------------------------------------
(* What a chunk computes *)

\* The equation of Attended, up to row m
Shown(c, u) == {v \in Row : ColumnOf(v) \in bias[c][u]}
AttendedAt(c, f, u) ==
  LET past == {cache[c][i] : i \in bias[c][u] \cap Past}
      own  == {IF v < u THEN f[v] ELSE Garbage : v \in Shown(c, u) \ {u}}
  IN  IF u \in Shown(c, u)
      THEN Computed(c, x[c][u], past \cup own,
             Cardinality(bias[c][u] \cap Past) + Cardinality(Shown(c, u)) - 1, rope[u])
      ELSE Garbage
Attends(c, m, f) == f = [u \in 0..m-1 |-> AttendedAt(c, f, u)]
AttendedTable(c, m) == CHOOSE f : Attends(c, m, f)

LEMMA AttendedIsTable ==
  ASSUME NEW c, NEW m PROVE Attended(c, m) = AttendedTable(c, m)
  BY DEF Attended, AttendedTable, Attends, AttendedAt, Shown

\* A row depends on the rows before it only.
LEMMA AttendedAtAgree ==
  ASSUME NEW c, NEW u \in Nat, NEW f, NEW g, \A v \in 0..u-1 : f[v] = g[v]
  PROVE  AttendedAt(c, f, u) = AttendedAt(c, g, u)
<1>1. Row \subseteq Nat
  BY ConstantTypes
<1>2. ASSUME NEW v \in Shown(c, u)
      PROVE  (IF v < u THEN f[v] ELSE Garbage) = (IF v < u THEN g[v] ELSE Garbage)
  <2>1. v \in Nat
    BY <1>1 DEF Shown
  <2> QED
    BY <2>1
<1>3. {IF v < u THEN f[v] ELSE Garbage : v \in Shown(c, u) \ {u}} =
        {IF v < u THEN g[v] ELSE Garbage : v \in Shown(c, u) \ {u}}
  BY <1>2
<1> QED
  BY <1>3, Zenon DEF AttendedAt

LEMMA AttendedSolves == ASSUME NEW c, NEW m \in Nat PROVE Attends(c, m, Attended(c, m))
<1> DEFINE unsolved == {k \in Nat : ~\E f : Attends(c, k, f)}
<1>1. ASSUME unsolved # {} PROVE FALSE
  <2>1. PICK k \in unsolved : \A j \in unsolved : k <= j
    <3>1. unsolved \subseteq Nat
      OBVIOUS
    <3> HIDE DEF unsolved
    <3> QED
      BY <1>1, <3>1, LeastElement
  <2>2. CASE k = 0
    <3>1. Attends(c, 0, [u \in 0..0-1 |-> Garbage])
      BY DEF Attends
    <3> QED
      BY <2>1, <2>2, <3>1
  <2>3. CASE k # 0
    <3>1. k - 1 \in Nat /\ k - 1 \notin unsolved /\ k \in Nat
      BY <2>1, <2>3
    <3>2. PICK f : Attends(c, k - 1, f)
      BY <3>1
    <3> DEFINE g == [u \in 0..k-1 |-> IF u = k - 1 THEN AttendedAt(c, f, u) ELSE f[u]]
    <3>3. ASSUME NEW u \in 0..k-1 PROVE g[u] = AttendedAt(c, g, u)
      <4>1. u \in Nat /\ \A v \in 0..u-1 : g[v] = f[v]
        BY <3>1
      <4>2. AttendedAt(c, g, u) = AttendedAt(c, f, u)
        <5> HIDE DEF g
        <5> QED
          BY <4>1, AttendedAtAgree
      <4>3. CASE u = k - 1
        BY <4>2, <4>3
      <4>4. CASE u # k - 1
        <5>1. u \in 0..(k-1)-1
          BY <3>1, <4>4
        <5>2. f[u] = AttendedAt(c, f, u)
          BY <3>2, <5>1 DEF Attends
        <5> QED
          BY <4>2, <4>4, <5>2
      <4> QED
        BY <4>3, <4>4
    <3>4. g = [u \in 0..k-1 |-> g[u]]
      OBVIOUS
    <3> HIDE DEF g
    <3>5. Attends(c, k, g)
      BY <3>3, <3>4 DEF Attends
    <3> QED
      BY <2>1, <3>5
  <2> QED
    BY <2>2, <2>3
<1>2. \E f : Attends(c, m, f)
  BY <1>1
<1> QED
  BY <1>2, AttendedIsTable DEF AttendedTable

\* Whatever the other rows hold, it is a text or garbage.
LEMMA AttendedTypes ==
  ASSUME Types, NEW c \in Chunks, NEW m \in 0..MaxBatch
  PROVE  /\ \A u \in 0..m-1 : Attended(c, m)[u] \in Content
         /\ \A u \in 0..m-1 : Attended(c, m)[u] = AttendedAt(c, Attended(c, m), u)
<1> DEFINE f == Attended(c, m)
           wrong == {u \in 0..m-1 : f[u] \notin Content}
<1>1. f = [u \in 0..m-1 |-> AttendedAt(c, f, u)]
  BY AttendedSolves, ConstantTypes DEF Attends
<1> HIDE DEF f
<1>2. MaxBatch \in Nat /\ 0..m-1 \subseteq Row /\ Row \subseteq Nat /\ Garbage \in Content
  <2>1. Garbage \in Content
    BY EmptySeq DEF Garbage, Content
  <2> QED
    BY <2>1, ConstantTypes DEF Row
<1>3. ASSUME wrong # {} PROVE FALSE
  <2>1. PICK u \in wrong : \A k \in wrong : u <= k
    <3>1. wrong \subseteq Nat
      OBVIOUS
    <3> HIDE DEF wrong
    <3> QED
      BY <1>3, <3>1, LeastElement
  <2>2. u \in 0..m-1 /\ u \in Row /\ f[u] \notin Content
    BY <1>2, <2>1
  <2> DEFINE past == {cache[c][i] : i \in bias[c][u] \cap Past}
             own  == {IF v < u THEN f[v] ELSE Garbage : v \in Shown(c, u) \ {u}}
             k    == Cardinality(bias[c][u] \cap Past) + Cardinality(Shown(c, u)) - 1
             s    == x[c][u]
             e    == Encode(past \cup own, k, s[Len(s)], rope[u])
  <2>3. f[u] = IF u \in Shown(c, u) THEN Computed(c, s, past \cup own, k, rope[u]) ELSE Garbage
    BY <1>1, <2>2, Zenon DEF AttendedAt
  <2>4. past \subseteq Content
    BY DEF Types, TypeOK
  <2>5. own \subseteq Content
    <3>1. \A v \in 0..u-1 : f[v] \in Content
      BY <2>1, <2>2
    <3>2. \A v \in Shown(c, u) : v \in Nat
      BY <1>2 DEF Shown
    <3> QED
      BY <1>2, <2>2, <3>1, <3>2
  <2>6. s \in Content
    <3>1. c \in 1..NChunks+1
      BY ConstantTypes DEF Chunks
    <3> QED
      BY <2>2, <3>1 DEF Types, TypeOK
  <2>7. s # Garbage => e \in Content
    <3>1. ASSUME s # Garbage PROVE s[Len(s)] \in Token
      <4>1. Len(s) \in Nat \ {0} /\ s \in Seq(Token)
        BY <2>6, <3>1, EmptySeq DEF Garbage, Content
      <4>2. Len(s) \in 1..Len(s)
        BY <4>1
      <4> QED
        BY <4>1, <4>2, ElementOfSeq
    <3>2. past \cup own \in SUBSET Content
      BY <2>4, <2>5
    <3> HIDE DEF past, own, k, s
    <3> QED
      BY <3>1, <3>2, EncodeType
  <2>8. Computed(c, s, past \cup own, k, rope[u]) \in {Garbage, e} \/ s = Garbage
    BY Zenon DEF Computed
  <2>9. s = Garbage => Computed(c, s, past \cup own, k, rope[u]) = Garbage
    BY Zenon DEF Computed
  <2> HIDE DEF past, own, k, s, e
  <2>10. s # Garbage => Computed(c, s, past \cup own, k, rope[u]) \in Content
    BY <1>2, <2>7, <2>8
  <2> QED
    BY <1>2, <2>2, <2>3, <2>9, <2>10
<1>4. \A u \in 0..m-1 : f[u] = AttendedAt(c, f, u)
  BY <1>1
<1> QED
  BY <1>3, <1>4 DEF f

\* Every row of the batch computes its own text, whatever is left in the others.
LEMMA RowsAttended ==
  ASSUME PassInv, pc = "run", stage <= NChunks
  PROVE  \A u \in Rows : Attended(stage, Batch.size)[u] = RowText(u)
<1> DEFINE c == stage
           m == Batch.size
           f == Attended(c, m)
           wrong == {u \in Rows : f[u] # RowText(u)}
<1>1. Types /\ HoldInv /\ CallInv /\ RowInv /\ Calling /\ pc # "load"
  BY DEF PassInv, Calling
<1>2. c \in Chunks /\ c \in Nat
  BY <1>1, ConstantTypes DEF Types, TypeOK, Chunks
<1>3. m \in 0..MaxBatch /\ Rows \subseteq 0..m-1 /\ Rows \subseteq Nat /\ Rows \subseteq Row
  <2>1. BatchOk(Batch, Len(request.tokens)) /\ Rows \subseteq Row
    BY <1>1, CallFacts
  <2> QED
    BY <2>1, ConstantTypes DEF BatchOk, Rows
<1>4. \A u \in Rows : f[u] = AttendedAt(c, f, u)
  BY <1>1, <1>2, <1>3, AttendedTypes
<1>5. text \in Content /\ Len(text) = position /\ position \in Nat
  BY <1>1, CallFacts, LenProperties DEF Content
<1> HIDE DEF f
<1>6. ASSUME wrong # {} PROVE FALSE
  <2>1. PICK u \in wrong : \A k \in wrong : u <= k
    <3>1. wrong \subseteq Nat
      BY <1>3
    <3> HIDE DEF wrong
    <3> QED
      BY <1>6, <3>1, LeastElement
  <2>2. u \in Rows /\ u \in Nat /\ u \in Row /\ f[u] # RowText(u) /\ f[u] = AttendedAt(c, f, u)
    BY <1>3, <1>4, <2>1
  <2>3. Shown(c, u) = Sees(u) /\ u \in Sees(u)
    <3>1. \A v \in Row : ColumnOf(v) \in bias[c][u] <=> v \in Sees(u)
      BY <1>1, <1>2, <2>2 DEF RowInv
    <3>2. u \in Sees(u) /\ Sees(u) \subseteq Row
      BY <1>1, <1>3, <2>2, SeesBelow
    <3> QED
      BY <3>1, <3>2 DEF Shown
  <2> DEFINE past == {cache[c][i] : i \in bias[c][u] \cap Past}
             own  == {IF v < u THEN f[v] ELSE Garbage : v \in Shown(c, u) \ {u}}
             k    == Cardinality(bias[c][u] \cap Past) + Cardinality(Shown(c, u)) - 1
             s    == x[c][u]
             b    == Base(u)
             e    == RowToken(u)
  <2>4. past = Prefixes(text) /\ Cardinality(bias[c][u] \cap Past) = Len(text)
    <3>1. bias[c][u] \cap Past = 0..position-1 /\ position = Len(text) + loose
          /\ \A i \in 0..Len(text)-1 : cache[c][i] = Take(text, i+1)
      BY <1>1, <1>2, <2>2 DEF HoldInv
    <3>2. past = {Take(text, i+1) : i \in 0..Len(text)-1}
      BY <1>5, <3>1
    <3>3. {Take(text, i+1) : i \in 0..Len(text)-1} = {Take(text, i) : i \in 1..Len(text)}
      <4>1. \A i \in 1..Len(text) : i - 1 \in 0..Len(text)-1 /\ (i - 1) + 1 = i
        BY <1>5
      <4>2. \A i \in 0..Len(text)-1 : i + 1 \in 1..Len(text)
        BY <1>5
      <4> QED
        BY <4>1, <4>2
    <3>4. Prefixes(text) = {Take(text, i) : i \in 1..Len(text)}
      BY DEF Prefixes, Take
    <3>5. Cardinality(0..position-1) = position
      BY <1>5, IntervalSize
    <3> QED
      BY <1>5, <3>1, <3>2, <3>3, <3>4, <3>5
  <2>5. own = {RowText(v) : v \in Sees(u) \ {u}}
    <3>1. ASSUME NEW v \in Sees(u) \ {u}
          PROVE  (IF v < u THEN f[v] ELSE Garbage) = RowText(v)
      <4>1. v \in Rows /\ v \in Nat /\ v < u
        BY <1>1, <1>3, <2>2, <3>1, SeesBelow
      <4>2. f[v] = RowText(v)
        BY <2>1, <2>2, <4>1
      <4> QED
        BY <4>1, <4>2
    <3> QED
      BY <2>3, <3>1
  <2>6. /\ b \in Seq(Token) /\ Len(b) \in Nat /\ e \in Token
        /\ RowText(u) = Append(b, e) /\ Len(b) = PositionOf(request, TokenAt(u))
    BY <1>1, <2>2, RowIs DEF Content
  <2>7. past \cup own = Prefixes(b) /\ k = Len(b)
    <3>1. Prefixes(b) = Prefixes(text) \cup {RowText(v) : v \in Sees(u) \ {u}}
          /\ Len(b) = Len(text) + Cardinality(Sees(u)) - 1
      BY <1>1, <2>2, RowSeesItsText
    <3> QED
      BY <2>3, <2>4, <2>5, <3>1
  <2>8. rope[u] = Len(b)
    BY <1>1, <2>2, <2>6 DEF RowInv
  <2>9. s \in {<<e>>, Append(b, e)} /\ (c # 1 => s = Append(b, e))
    <3>1. CASE c = 1
      BY <1>1, <2>2, <3>1 DEF RowInv
    <3>2. CASE c # 1
      <4>1. c \in 2..stage
        BY <1>2, <3>2 DEF Chunks
      <4>2. s = RowText(u)
        BY <1>1, <2>2, <4>1 DEF RowInv
      <4> QED
        BY <2>6, <4>2
    <3> QED
      BY <3>1, <3>2
  <2>10. s # Garbage /\ s[Len(s)] = e
    <3>1. Append(b, e) \in Seq(Token) /\ Len(Append(b, e)) = Len(b) + 1 /\ Append(b, e)[Len(b) + 1] = e
      BY <2>6, AppendProperties
    <3>2. Append(b, e) # <<>>
      BY <2>6, <3>1, EmptySeq
    <3>3. <<e>> # <<>> /\ Len(<<e>>) = 1 /\ <<e>>[1] = e
      OBVIOUS
    <3> HIDE DEF s
    <3> QED
      BY <2>9, <3>1, <3>2, <3>3 DEF Garbage
  <2>11. Encode(Prefixes(b), Len(b), e, Len(b)) = Append(b, e)
    BY <2>6, EncodeText
  <2>12. f[u] = Computed(c, s, past \cup own, k, rope[u])
    BY <2>2, <2>3, Zenon DEF AttendedAt
  <2> HIDE DEF past, own, k, s, b, e
  <2>13. f[u] = Computed(c, s, Prefixes(b), Len(b), Len(b))
    BY <2>7, <2>8, <2>12
  <2>14. Computed(c, s, Prefixes(b), Len(b), Len(b)) =
           IF c = 1 \/ Append(b, e) = s THEN Append(b, e) ELSE Garbage
    BY <2>10, <2>11, Zenon DEF Computed
  <2> QED
    BY <2>2, <2>6, <2>9, <2>13, <2>14
<1> QED
  BY <1>6 DEF f

----------------------------------------------------------------------------
(* The steps keep the invariant. *)

\* A call is the same as long as request, batches and text are.
LEMMA SameCall ==
  ASSUME UNCHANGED <<request, batches, text>>
  PROVE  /\ Batch' = Batch /\ Rows' = Rows /\ BeganWith' = BeganWith
         /\ \A u : /\ TokenAt(u)' = TokenAt(u) /\ TextOf(u)' = TextOf(u) /\ RowText(u)' = RowText(u)
                   /\ RowToken(u)' = RowToken(u) /\ Sees(u)' = Sees(u)
                   /\ PositionOf(request, TokenAt(u))' = PositionOf(request, TokenAt(u))
<1>1. Batch' = Batch /\ BeganWith' = BeganWith
  BY DEF Batch, BeganWith
<1>2. Rows' = Rows /\ \A u : TokenAt(u)' = TokenAt(u)
  BY <1>1 DEF Rows, TokenAt
<1>3. \A u : TextOf(u)' = TextOf(u)
  BY <1>1 DEF TextOf
<1> QED
  BY <1>1, <1>2, <1>3 DEF RowText, RowToken, Sees, PositionOf

LEMMA CallInvSame ==
  ASSUME CallInv, Calling, UNCHANGED <<request, batches, text, loose, position>> PROVE CallInv'
<1>1. Batch' = Batch /\ \A u : TextOf(u)' = TextOf(u)
  BY SameCall
<1> QED
  BY <1>1 DEF CallInv, IsText

LEMMA InitInv == ASSUME Init PROVE PassInv
<1>1. MaxBatch \in Nat \ {0} /\ CacheSize \in Nat /\ MaxCalls \in Nat /\ NChunks \in Nat \ {0}
      /\ SystemPrompt \in Content /\ Garbage \in Content /\ Chunks \subseteq Nat
  BY ConstantTypes, EmptySeq DEF Garbage, Content
<1>2. Types
  <2>1. bias \in [Chunks -> [Row -> SUBSET Column]]
    BY DEF Init, AnyBias
  <2>2. /\ x \in [1..NChunks+1 -> [Row -> Content]] /\ keys \in [Chunks -> [Row -> Content]]
        /\ cache \in [Chunks -> [Past -> Content]]
    BY <1>1 DEF Init
  <2>3. rope \in [Row -> 0..CacheSize+MaxBatch-1]
    BY <1>1 DEF Init
  <2>4. dst \in Seq(Content) /\ stage \in 1..NChunks+1 /\ position \in 0..CacheSize
        /\ loose \in 0..position /\ text \in Content /\ calls \in 0..MaxCalls
    BY <1>1, EmptySeq DEF Init
  <2>5. pc = "load" /\ batches = <<>>
    BY DEF Init
  <2> QED
    BY <2>1, <2>2, <2>3, <2>4, <2>5 DEF Types, TypeOK
<1>3. LoadInv
  <2>1. \A c \in Chunks : ~(c < stage)
    BY <1>1 DEF Init, Chunks
  <2> QED
    BY <2>1 DEF Init, LoadInv
<1> QED
  BY <1>2, <1>3 DEF Init, PassInv, HoldInv, CallInv, RowInv, ResultInv, Calling

\* The graphs of a chunk mask all the rows of the buffer.
LEMMA AllMasked == ASSUME NEW rows PROVE \A u \in Row : MaskedByAll(rows)[u] = {}
<1>1. MaxBatch \in BatchSizes
  BY ModelAssumption, MaxIs DEF MaxBatch
<1>2. \A u \in Row : u < MaxBatch
  BY ConstantTypes DEF Row
<1> QED
  BY <1>1, <1>2 DEF MaskedByAll

LEMMA LoadChunkKeeps == ASSUME PassInv, LoadChunk PROVE PassInv'
<1>1. Types /\ LoadInv /\ pc = "load" /\ pc' = "load" /\ stage \in Chunks /\ stage' = stage + 1
      /\ stage \in Nat
  BY DEF PassInv, LoadChunk, Types, TypeOK, Chunks
<1>2. \A i \in Past : i < Len(SystemPrompt) => Take(SystemPrompt, i+1) \in Content
  BY ConstantTypes, TakeProperties DEF Past, Content
<1>3. /\ cache' \in [Chunks -> [Past -> Content]]
      /\ \A c \in Chunks, i \in Past :
           cache'[c][i] = IF c = stage /\ i < Len(SystemPrompt) THEN Take(SystemPrompt, i+1)
                                                              ELSE cache[c][i]
  <2>1. cache \in [Chunks -> [Past -> Content]]
    BY <1>1 DEF Types, TypeOK
  <2>2. cache' = [cache EXCEPT ![stage] =
          [i \in Past |-> IF i < Len(SystemPrompt) THEN Take(SystemPrompt, i+1) ELSE @[i]]]
    BY DEF LoadChunk, Take
  <2> QED
    BY <1>1, <1>2, <2>1, <2>2
<1>4. /\ bias' \in [Chunks -> [Row -> SUBSET Column]]
      /\ \A c \in Chunks : c # stage => bias'[c] = bias[c]
      /\ \A u \in Row : bias'[stage][u] = {}
  <2>1. bias \in [Chunks -> [Row -> SUBSET Column]]
    BY <1>1 DEF Types, TypeOK
  <2>2. bias' = [bias EXCEPT ![stage] = MaskedByAll(bias[stage])]
    BY DEF LoadChunk
  <2>3. MaskedByAll(bias[stage]) \in [Row -> SUBSET Column]
        /\ \A u \in Row : MaskedByAll(bias[stage])[u] = {}
    <3>1. \A u \in Row : MaskedByAll(bias[stage])[u] = {}
      BY AllMasked
    <3>2. MaskedByAll(bias[stage]) = [u \in Row |-> MaskedByAll(bias[stage])[u]]
      BY DEF MaskedByAll
    <3> QED
      BY <3>1, <3>2
  <2> QED
    BY <1>1, <2>1, <2>2, <2>3
<1>5. Types'
  BY <1>1, <1>3, <1>4, ConstantTypes
     DEF Types, TypeOK, LoadChunk, bufferVars, callVars, Chunks
<1>6. LoadInv'
  <2>1. position' = 0 /\ loose' = 0 /\ text' = SystemPrompt
    BY <1>1 DEF LoadInv, LoadChunk
  <2>2. ASSUME NEW c \in Chunks
        PROVE  /\ \A i \in Past :
                    cache'[c][i] = IF c < stage' /\ i < Len(SystemPrompt) THEN Take(SystemPrompt, i+1)
                                                                        ELSE Garbage
               /\ \A u \in Row : c < stage' => bias'[c][u] = {}
    <3>1. c \in Nat /\ (c < stage' <=> c < stage \/ c = stage)
      BY <1>1 DEF Chunks
    <3>2. \A i \in Past :
            cache[c][i] = IF c < stage /\ i < Len(SystemPrompt) THEN Take(SystemPrompt, i+1)
                                                              ELSE Garbage
      BY <1>1 DEF LoadInv
    <3>3. \A u \in Row : c < stage => bias[c][u] = {}
      BY <1>1 DEF LoadInv
    <3> QED
      BY <1>3, <1>4, <3>1, <3>2, <3>3
  <2> QED
    BY <2>1, <2>2 DEF LoadInv
<1> QED
  BY <1>1, <1>5, <1>6 DEF PassInv, HoldInv, CallInv, RowInv, ResultInv, Calling

\* Opening or closing columns of the cache, in all rows
LEMMA OpenedIs ==
  ASSUME Types, NEW I \in SUBSET Past
  PROVE  /\ Opened(I) \in [Chunks -> [Row -> SUBSET Column]]
         /\ Closed(I) \in [Chunks -> [Row -> SUBSET Column]]
         /\ \A c \in Chunks, u \in Row :
              /\ Opened(I)[c][u] \cap Past = (bias[c][u] \cap Past) \cup I
              /\ Closed(I)[c][u] \cap Past = (bias[c][u] \cap Past) \ I
  BY DEF Types, TypeOK, Opened, Closed, Column

LEMMA LoadedKeeps == ASSUME PassInv, Loaded PROVE PassInv'
<1> DEFINE n == Len(SystemPrompt)
<1>1. /\ Types /\ LoadInv /\ pc = "load" /\ pc' = "idle" /\ stage = NChunks + 1 /\ position' = n
      /\ UNCHANGED <<stage, cache, text, loose, bufferVars, callVars>> /\ bias' = Opened(0..n-1)
  BY DEF PassInv, Loaded
<1>2. /\ position = 0 /\ loose = 0 /\ text = SystemPrompt
      /\ \A c \in Chunks, i \in Past : i < n => cache[c][i] = Take(SystemPrompt, i+1)
      /\ \A c \in Chunks, u \in Row : bias[c][u] = {}
  <2>1. \A c \in Chunks : c < stage
    BY <1>1, ConstantTypes DEF Chunks
  <2> QED
    BY <1>1, <2>1 DEF LoadInv
<1>3. n \in Nat /\ n <= CacheSize /\ CacheSize \in Nat /\ 0..n-1 \in SUBSET Past
      /\ \A i \in 0..n-1 : i < n
  BY ConstantTypes DEF Past
<1> HIDE DEF n
<1>4. /\ bias' \in [Chunks -> [Row -> SUBSET Column]]
      /\ \A c \in Chunks, u \in Row : bias'[c][u] \cap Past = 0..n-1
  BY <1>1, <1>2, <1>3, OpenedIs
<1>5. Types'
  BY <1>1, <1>2, <1>3, <1>4 DEF Types, TypeOK, bufferVars, callVars
<1>6. HoldInv'
  <2>1. position' = Len(text') + loose' /\ Len(SystemPrompt) <= Len(text')
    BY <1>1, <1>2, <1>3 DEF n
  <2>2. \A c \in Chunks : \A i \in 0..n-1 : cache'[c][i] = Take(text', i+1)
    BY <1>1, <1>2, <1>3
  <2> QED
    BY <1>1, <1>2, <1>4, <2>1, <2>2 DEF HoldInv, n
<1> QED
  BY <1>1, <1>5, <1>6 DEF PassInv, LoadInv, CallInv, RowInv, ResultInv, Calling

\* What is asked for: a text, which is cut where it must be, or a tree that fits
LEMMA AskIs ==
  ASSUME PassInv, Ask
  PROVE  \E r : Call(r) /\ WellFormed(r) /\ r.start = position
<1>1. position \in Nat
  BY ConstantTypes DEF PassInv, Types, TypeOK
<1>2. ASSUME NEW logits \in BOOLEAN, NEW t \in Texts, Call(Request(t, Before(Len(t)), logits))
      PROVE  \E r : Call(r) /\ WellFormed(r) /\ r.start = position
  <2> DEFINE r == Request(t, Before(Len(t)), logits)
  <2>1. t \in Content /\ t # <<>> /\ Len(t) \in Nat
    BY ModelAssumption, LenProperties DEF Content
  <2>2. r.tokens = t /\ r.parent = Before(Len(t)) /\ r.logits = logits /\ r.start = position
    BY DEF Request
  <2>3. Before(Len(t)) \in [0..Len(t)-1 -> Int] /\ \A u \in 0..Len(t)-1 : Before(Len(t))[u] < u
    BY <2>1 DEF Before
  <2> HIDE DEF r
  <2>4. WellFormed(r)
    BY <1>1, <2>1, <2>2, <2>3 DEF WellFormed, IsText
  <2> QED
    BY <1>2, <2>2, <2>4 DEF r
<1>3. ASSUME NEW tree \in Trees, Call(Request(tree.tokens, tree.parent, TRUE))
      PROVE  \E r : Call(r) /\ WellFormed(r) /\ r.start = position
  <2> DEFINE r == Request(tree.tokens, tree.parent, TRUE)
             n == Len(tree.tokens)
  <2>1. /\ tree.tokens \in Content /\ n \in 1..MaxBatch /\ MaxBatch \in Nat
        /\ tree.parent \in [0..n-1 -> Int] /\ \A u \in DOMAIN tree.parent : tree.parent[u] < u
    BY ModelAssumption, ConstantTypes
  <2>2. tree.tokens # <<>> /\ n <= MaxBatch /\ \A u \in 0..n-1 : tree.parent[u] < u
    BY <2>1, EmptySeq
  <2>3. r.tokens = tree.tokens /\ r.parent = tree.parent /\ r.logits = TRUE /\ r.start = position
    BY DEF Request
  <2> HIDE DEF r
  <2>4. WellFormed(r)
    <3>1. r.logits \in BOOLEAN
      BY <2>3
    <3> QED
      BY <1>1, <2>1, <2>2, <2>3, <3>1, Zenon DEF WellFormed
  <2> QED
    BY <1>3, <2>3, <2>4 DEF r
<1> QED
  BY <1>2, <1>3 DEF Ask

LEMMA CallKeeps == ASSUME PassInv, Ask PROVE PassInv'
<1>1. PICK r : Call(r) /\ WellFormed(r) /\ r.start = position
  BY AskIs
<1> DEFINE n == Len(r.tokens)
<1>2. /\ Types /\ HoldInv /\ pc = "idle" /\ pc' = "fill" /\ loose = 0 /\ request' = r
      /\ batches' = SplitBatch(n) /\ dst' = <<>> /\ calls' = calls + 1 /\ calls < MaxCalls
      /\ UNCHANGED <<stage, bias, x, rope, keys, cache, position, text, loose>>
  BY <1>1 DEF PassInv, Call, bufferVars, cacheVars
<1>3. n \in Nat \ {0}
  <2>1. r.tokens \in Seq(Token) /\ r.tokens # <<>>
    BY <1>1 DEF WellFormed, Content
  <2> QED
    BY <2>1, EmptySeq
<1> HIDE DEF n
<1>4. /\ batches' \in Seq(BatchRecord) /\ batches' # <<>> /\ Consecutive(batches', n)
      /\ batches'[1].index = 0 /\ (n <= MaxBatch => batches'[1].step = n)
  BY <1>2, <1>3, SplitBatchOk
<1>5. Batch' = batches'[1]
  BY DEF Batch
<1>6. Types'
  <2>1. calls' \in 0..MaxCalls /\ dst' \in Seq(Content)
    BY <1>2, ConstantTypes, EmptySeq DEF Types, TypeOK
  <2> QED
    BY <1>2, <1>4, <2>1 DEF Types, TypeOK
<1>7. HoldInv'
  BY <1>2 DEF HoldInv
<1>8. CallInv'
  <2>1. IsText(request)' \/ n <= MaxBatch
    BY <1>1, <1>2 DEF WellFormed, IsText, n
  <2>2. position' = request'.start + Batch'.index
    <3>1. position \in Nat
      BY <1>2, ConstantTypes DEF Types, TypeOK
    <3> QED
      BY <1>1, <1>2, <1>4, <1>5, <3>1
  <2>3. ~(Batch'.index > 0)
    BY <1>4, <1>5
  <2> QED
    BY <1>1, <1>2, <1>4, <1>5, <2>1, <2>2, <2>3 DEF CallInv, BatchRecord, n
<1>9. ResultInv'
  <2>1. Len(dst') = 0 /\ \A u \in 1..Len(dst') : FALSE
    BY <1>2
  <2> QED
    BY <1>2, <1>4, <1>5, <2>1 DEF ResultInv
<1> QED
  BY <1>2, <1>6, <1>7, <1>8, <1>9 DEF PassInv, LoadInv, RowInv

\* What the rows of the batch see of it
LEMMA BatchColumnsAre ==
  ASSUME Types, HoldInv, CallInv, Calling, NEW c \in Chunks, NEW u \in Rows
  PROVE  /\ BatchColumns(bias[c][u], u) \in SUBSET Column
         /\ BatchColumns(bias[c][u], u) \cap Past = bias[c][u] \cap Past
         /\ \A v \in Row : ColumnOf(v) \in BatchColumns(bias[c][u], u) <=> v \in Sees(u)
<1>1. Rows \subseteq Row /\ Sees(u) \subseteq Rows
  BY CallFacts, SeesBelow
<1>2. BatchColumns(bias[c][u], u) = (bias[c][u] \cap Past) \cup {ColumnOf(v) : v \in Sees(u)}
  BY DEF BatchColumns, Sees
<1>3. Past \subseteq Column
  BY DEF Column
<1> QED
  BY <1>1, <1>2, <1>3, ColumnsApart

LEMMA FillKeeps == ASSUME PassInv, Fill PROVE PassInv'
<1>1. /\ Types /\ HoldInv /\ CallInv /\ ResultInv /\ Calling /\ pc = "fill" /\ pc' = "run" /\ stage' = 1
      /\ UNCHANGED <<keys, cache, position, text, loose, request, batches, dst, calls>>
      /\ x' = [x EXCEPT ![1] = [u \in Row |-> IF u \in Rows THEN <<RowToken(u)>> ELSE x[1][u]]]
      /\ rope' = [u \in Row |-> IF u \in Rows THEN PositionOf(request, TokenAt(u)) ELSE rope[u]]
      /\ bias' = [c \in Chunks |-> [u \in Row |->
                    IF u \in Rows THEN BatchColumns(bias[c][u], u) ELSE bias[c][u]]]
  BY DEF PassInv, Fill, cacheVars, callVars, Calling, RowToken
<1>2. /\ Rows \subseteq Row /\ Row \subseteq Nat /\ 1 \in 1..NChunks+1 /\ 1 \in Chunks
      /\ NChunks \in Nat /\ MaxBatch \in Nat /\ CacheSize \in Nat
  BY <1>1, CallFacts, ConstantTypes
<1>3. x' \in [1..NChunks+1 -> [Row -> Content]] /\ \A u \in Rows : x'[1][u] = <<RowToken(u)>>
  <2>1. x \in [1..NChunks+1 -> [Row -> Content]]
    BY <1>1 DEF Types, TypeOK
  <2>2. ASSUME NEW u \in Rows PROVE <<RowToken(u)>> \in Content
    <3>1. RowToken(u) \in Token
      BY <1>1, RowIs
    <3> QED
      BY <3>1 DEF Content
  <2>3. [u \in Row |-> IF u \in Rows THEN <<RowToken(u)>> ELSE x[1][u]] \in [Row -> Content]
    BY <1>2, <2>1, <2>2
  <2> QED
    BY <1>1, <1>2, <2>1, <2>3
<1>4. rope' \in [Row -> 0..CacheSize+MaxBatch-1]
  <2>1. rope \in [Row -> 0..CacheSize+MaxBatch-1]
    BY <1>1 DEF Types, TypeOK
  <2>2. ASSUME NEW u \in Rows PROVE PositionOf(request, TokenAt(u)) \in 0..CacheSize+MaxBatch-1
    <3>1. /\ Len(Base(u)) = PositionOf(request, TokenAt(u)) /\ Len(Base(u)) \in Nat
          /\ Len(Base(u)) = Len(text) + Cardinality(Sees(u)) - 1 /\ Cardinality(Sees(u)) \in 1..u+1
      BY <1>1, RowIs, RowSeesItsText
    <3>2. Len(text) = position /\ position \in 0..CacheSize
      BY <1>1, CallFacts DEF Types, TypeOK
    <3>3. u \in 0..MaxBatch-1
      BY <1>2 DEF Row
    <3> QED
      BY <1>2, <3>1, <3>2, <3>3
  <2> QED
    BY <1>1, <2>1, <2>2
<1>5. /\ bias' \in [Chunks -> [Row -> SUBSET Column]]
      /\ \A c \in Chunks, u \in Row : bias'[c][u] \cap Past = bias[c][u] \cap Past
      /\ \A c \in Chunks, u \in Rows : \A v \in Row : ColumnOf(v) \in bias'[c][u] <=> v \in Sees(u)
  <2>1. ASSUME NEW c \in Chunks, NEW u \in Row
        PROVE  /\ bias'[c][u] \in SUBSET Column /\ bias'[c][u] \cap Past = bias[c][u] \cap Past
               /\ u \in Rows => \A v \in Row : ColumnOf(v) \in bias'[c][u] <=> v \in Sees(u)
    <3>1. bias'[c][u] = IF u \in Rows THEN BatchColumns(bias[c][u], u) ELSE bias[c][u]
      BY <1>1
    <3>2. bias[c][u] \in SUBSET Column
      BY <1>1 DEF Types, TypeOK
    <3>3. CASE u \in Rows
      <4>1. bias'[c][u] = BatchColumns(bias[c][u], u)
        BY <3>1, <3>3
      <4> QED
        BY <1>1, <3>3, <4>1, BatchColumnsAre
    <3>4. CASE u \notin Rows
      BY <3>1, <3>2, <3>4
    <3> QED
      BY <3>3, <3>4
  <2>2. bias' = [c \in Chunks |-> [u \in Row |-> bias'[c][u]]]
    BY <1>1
  <2>3. bias' \in [Chunks -> [Row -> SUBSET Column]]
    <3>1. \A c \in Chunks : [u \in Row |-> bias'[c][u]] \in [Row -> SUBSET Column]
      BY <2>1
    <3> QED
      BY <2>2, <3>1
  <2> QED
    BY <1>2, <2>1, <2>3
<1>6. Types'
  BY <1>1, <1>2, <1>3, <1>4, <1>5 DEF Types, TypeOK
<1>7. HoldInv'
  BY <1>1, <1>5 DEF HoldInv
<1>8. CallInv'
  BY <1>1, CallInvSame
<1>9. RowInv'
  <2>1. Rows' = Rows /\ \A u : Sees(u)' = Sees(u) /\ RowToken(u)' = RowToken(u)
        /\ PositionOf(request, TokenAt(u))' = PositionOf(request, TokenAt(u))
    BY <1>1, SameCall
  <2>2. \A u \in Rows : rope'[u] = PositionOf(request, TokenAt(u))
    BY <1>1, <1>2
  <2>3. (\A k \in 2..stage' : FALSE) /\ (\A k \in 1..stage'-1 : FALSE)
    BY <1>1
  <2> QED
    BY <1>1, <1>3, <1>5, <2>1, <2>2, <2>3 DEF RowInv
<1>10. ResultInv'
  <2>1. Batch' = Batch /\ \A u : TextOf(u)' = TextOf(u)
    BY <1>1, SameCall
  <2> QED
    BY <1>1, <2>1 DEF ResultInv, Calling
<1> QED
  BY <1>1, <1>6, <1>7, <1>8, <1>9, <1>10 DEF PassInv, LoadInv

LEMMA ExecuteKeeps == ASSUME PassInv, Execute PROVE PassInv'
<1> DEFINE f == Attended(stage, Batch.size)
           m == Batch.size
<1>1. /\ Types /\ HoldInv /\ CallInv /\ RowInv /\ ResultInv /\ Calling /\ pc = "run" /\ pc' = "run"
      /\ stage <= NChunks /\ stage' = stage + 1
      /\ UNCHANGED <<rope, bias, cache, position, text, loose, request, batches, dst, calls>>
      /\ keys' = [keys EXCEPT ![stage] = [u \in Row |-> IF u < m THEN f[u] ELSE keys[stage][u]]]
      /\ x' = [x EXCEPT ![stage + 1] = [u \in Row |-> IF u \in Rows THEN f[u] ELSE x[stage + 1][u]]]
  BY DEF PassInv, Execute, PassedOn, cacheVars, callVars, Calling
<1>2. /\ stage \in Chunks /\ stage \in Nat /\ stage + 1 \in 1..NChunks+1 /\ NChunks \in Nat
      /\ m \in 0..MaxBatch /\ Rows \subseteq Row /\ Rows \subseteq 0..m-1 /\ Row \subseteq Nat
  <2>1. BatchOk(Batch, Len(request.tokens)) /\ Rows \subseteq Row
    BY <1>1, CallFacts
  <2>2. stage \in Nat \ {0} /\ NChunks \in Nat
    BY <1>1, ConstantTypes DEF Types, TypeOK
  <2> QED
    BY <1>1, <2>1, <2>2, ConstantTypes DEF BatchOk, Rows, Chunks
<1>3. /\ \A u \in 0..m-1 : f[u] \in Content
      /\ \A u \in Rows : f[u] = RowText(u)
  BY <1>1, <1>2, AttendedTypes, RowsAttended
<1> HIDE DEF f, m
<1>4. /\ keys' \in [Chunks -> [Row -> Content]]
      /\ \A c \in Chunks : c # stage => keys'[c] = keys[c]
      /\ \A u \in Rows : keys'[stage][u] = RowText(u)
  <2>1. keys \in [Chunks -> [Row -> Content]]
    BY <1>1 DEF Types, TypeOK
  <2> DEFINE row == [u \in Row |-> IF u < m THEN f[u] ELSE keys[stage][u]]
  <2>2. \A u \in Row : u < m => u \in 0..m-1
    BY <1>2
  <2>3. row \in [Row -> Content]
    BY <1>2, <1>3, <2>1, <2>2
  <2>4. \A u \in Rows : row[u] = RowText(u)
    <3>1. \A u \in Rows : u < m /\ u \in Row
      BY <1>2
    <3> QED
      BY <1>3, <3>1
  <2>5. keys' = [keys EXCEPT ![stage] = row]
    BY <1>1
  <2> HIDE DEF row
  <2> QED
    BY <1>2, <2>1, <2>3, <2>4, <2>5
<1>5. /\ x' \in [1..NChunks+1 -> [Row -> Content]]
      /\ \A k \in 1..NChunks+1 : k # stage + 1 => x'[k] = x[k]
      /\ \A u \in Rows : x'[stage + 1][u] = RowText(u)
  <2>1. x \in [1..NChunks+1 -> [Row -> Content]]
    BY <1>1 DEF Types, TypeOK
  <2> DEFINE row == [u \in Row |-> IF u \in Rows THEN f[u] ELSE x[stage + 1][u]]
  <2>2. row \in [Row -> Content] /\ \A u \in Rows : row[u] = RowText(u)
    BY <1>2, <1>3, <2>1
  <2>3. x' = [x EXCEPT ![stage + 1] = row]
    BY <1>1
  <2> HIDE DEF row
  <2> QED
    BY <1>2, <2>1, <2>2, <2>3
<1>6. Types'
  BY <1>1, <1>2, <1>4, <1>5 DEF Types, TypeOK
<1>7. HoldInv' /\ CallInv'
  BY <1>1, CallInvSame DEF HoldInv
<1>8. RowInv'
  <2>1. Rows' = Rows /\ \A u : Sees(u)' = Sees(u) /\ RowToken(u)' = RowToken(u)
        /\ RowText(u)' = RowText(u)
        /\ PositionOf(request, TokenAt(u))' = PositionOf(request, TokenAt(u))
    BY <1>1, SameCall
  <2>2. \A u \in Rows : rope'[u] = PositionOf(request, TokenAt(u)) /\ x'[1][u] = <<RowToken(u)>>
    <3>1. 1 \in 1..NChunks+1 /\ stage + 1 # 1
      BY <1>2 DEF Chunks
    <3>2. x'[1] = x[1]
      BY <1>5, <3>1
    <3> QED
      BY <1>1, <3>2 DEF RowInv
  <2>3. ASSUME NEW k \in 2..stage', NEW u \in Rows PROVE x'[k][u] = RowText(u)
    <3>1. CASE k = stage + 1
      BY <1>5, <3>1
    <3>2. CASE k # stage + 1
      <4>1. k \in 2..stage /\ k \in 1..NChunks+1
        BY <1>1, <1>2, <3>2
      <4> QED
        BY <1>1, <1>5, <3>2, <4>1 DEF RowInv
    <3> QED
      BY <3>1, <3>2
  <2>4. ASSUME NEW c \in 1..stage'-1, NEW u \in Rows PROVE keys'[c][u] = RowText(u)
    <3>1. CASE c = stage
      BY <1>4, <3>1
    <3>2. CASE c # stage
      <4>1. c \in 1..stage-1 /\ c \in Chunks
        BY <1>1, <1>2, <3>2 DEF Chunks
      <4> QED
        BY <1>1, <1>4, <3>2, <4>1 DEF RowInv
    <3> QED
      BY <3>1, <3>2
  <2>5. \A c \in Chunks, u \in Rows : \A v \in Row : ColumnOf(v) \in bias'[c][u] <=> v \in Sees(u)
    BY <1>1 DEF RowInv
  <2> QED
    BY <1>1, <2>1, <2>2, <2>3, <2>4, <2>5 DEF RowInv
<1>9. ResultInv'
  <2>1. Batch' = Batch /\ \A u : TextOf(u)' = TextOf(u)
    BY <1>1, SameCall
  <2> QED
    BY <1>1, <2>1 DEF ResultInv, Calling
<1> QED
  BY <1>1, <1>6, <1>7, <1>8, <1>9 DEF PassInv, LoadInv

LEMMA ThrowKeeps == ASSUME PassInv, Throw, pc # "load" PROVE PassInv'
<1>1. /\ Types /\ HoldInv /\ pc' = "idle" /\ batches' = <<>> /\ dst' = <<>>
      /\ UNCHANGED <<stage, bias, x, rope, keys, cache, position, text, loose, request, calls>>
  BY DEF PassInv, Throw, bufferVars, cacheVars
<1>2. Types'
  BY <1>1, EmptySeq DEF Types, TypeOK
<1>3. HoldInv'
  BY <1>1 DEF HoldInv
<1> QED
  BY <1>1, <1>2, <1>3 DEF PassInv, LoadInv, CallInv, RowInv, ResultInv, Calling

LEMMA ComputeLogitsKeeps == ASSUME PassInv, ComputeLogits PROVE PassInv'
<1> DEFINE n == Batch.step
           rows == [i \in 1..n |-> IF HeadSizes = {} \/ i <= Batch.head THEN x[stage][i - 1] ELSE Garbage]
<1>1. /\ Types /\ HoldInv /\ CallInv /\ RowInv /\ ResultInv /\ Calling /\ pc = "run" /\ pc' = "save"
      /\ stage = NChunks + 1 /\ dst' = (IF request.logits THEN dst \o rows ELSE dst)
      /\ UNCHANGED <<stage, x, rope, keys, bias, cache, position, text, loose, request, batches, calls>>
  BY DEF PassInv, ComputeLogits, bufferVars, cacheVars, Calling
<1>2. n \in Nat /\ Batch.index \in Nat /\ Rows = 0..n-1 /\ (HeadSizes = {} \/ n <= Batch.head)
      /\ Batch.head \in Nat /\ stage \in 2..stage /\ request.logits \in BOOLEAN
  <2>1. BatchOk(Batch, Len(request.tokens)) /\ NChunks \in Nat \ {0}
    BY <1>1, CallFacts, ConstantTypes
  <2> QED
    BY <1>1, <2>1 DEF BatchOk, Rows, CallInv, WellFormed
<1>3. /\ rows \in Seq(Content) /\ Len(rows) = n
      /\ \A i \in 1..n : rows[i] = TextOf(Batch.index + i - 1)
  <2>1. ASSUME NEW i \in 1..n
        PROVE  rows[i] = TextOf(Batch.index + i - 1) /\ rows[i] \in Content
    <3>1. i - 1 \in Rows /\ (HeadSizes = {} \/ i <= Batch.head)
      BY <1>2
    <3>2. x[stage][i - 1] = RowText(i - 1) /\ RowText(i - 1) \in Content
      BY <1>1, <1>2, <3>1, RowIs DEF RowInv
    <3>3. TokenAt(i - 1) = Batch.index + i - 1
      BY <1>2 DEF TokenAt
    <3>4. rows[i] = x[stage][i - 1]
      BY <3>1
    <3> QED
      BY <3>2, <3>3, <3>4 DEF RowText
  <2>2. rows \in [1..n -> Content] /\ DOMAIN rows = 1..n
    BY <2>1
  <2> HIDE DEF rows, n
  <2>3. rows \in Seq(Content)
    BY <1>2, <2>2, SeqDef
  <2> QED
    BY <1>2, <2>1, <2>2, <2>3, LenProperties
<1> HIDE DEF rows, n
<1>4. dst \in Seq(Content) /\ Len(dst) \in Nat
      /\ Len(dst) = (IF ~request.logits THEN 0 ELSE Batch.index)
      /\ \A u \in 1..Len(dst) : dst[u] = TextOf(u - 1)
  BY <1>1, LenProperties DEF Types, TypeOK, ResultInv
<1>5. /\ dst' \in Seq(Content) /\ Len(dst') = (IF ~request.logits THEN 0 ELSE Batch.index + n)
      /\ \A u \in 1..Len(dst') : dst'[u] = TextOf(u - 1)
  <2>1. CASE ~request.logits
    BY <1>1, <1>4, <2>1
  <2>2. CASE request.logits
    <3>1. dst' = dst \o rows /\ Len(dst) = Batch.index
      BY <1>1, <1>4, <2>2
    <3>2. /\ dst' \in Seq(Content) /\ Len(dst') = Len(dst) + n
          /\ \A u \in 1..Len(dst) + n : dst'[u] = IF u <= Len(dst) THEN dst[u] ELSE rows[u - Len(dst)]
      BY <1>3, <1>4, <3>1, ConcatProperties
    <3>3. ASSUME NEW u \in 1..Len(dst') PROVE dst'[u] = TextOf(u - 1)
      <4>1. CASE u <= Len(dst)
        BY <1>4, <3>2, <4>1
      <4>2. CASE ~(u <= Len(dst))
        <5>1. u - Len(dst) \in 1..n /\ Batch.index + (u - Len(dst)) - 1 = u - 1
          <6> DEFINE l == Len(dst)
          <6>1. l \in Nat /\ n \in Nat /\ u \in 1..l+n /\ ~(u <= l) /\ Batch.index = l
            BY <1>2, <1>4, <3>1, <3>2, <4>2
          <6> HIDE DEF l
          <6>2. u - l \in 1..n /\ l + (u - l) - 1 = u - 1
            BY ONLY <6>1
          <6> QED
            BY <6>1, <6>2 DEF l
        <5>2. dst'[u] = rows[u - Len(dst)]
          BY <3>2, <4>2
        <5>3. rows[u - Len(dst)] = TextOf(Batch.index + (u - Len(dst)) - 1)
          BY <1>3, <5>1
        <5> QED
          BY <5>1, <5>2, <5>3
      <4> QED
        BY <4>1, <4>2
    <3> QED
      BY <2>2, <3>1, <3>2, <3>3
  <2> QED
    BY <2>1, <2>2
<1>6. Types'
  BY <1>1, <1>5 DEF Types, TypeOK
<1>7. HoldInv' /\ CallInv'
  BY <1>1, CallInvSame DEF HoldInv
<1>8. Batch' = Batch /\ Rows' = Rows /\ \A u : TextOf(u)' = TextOf(u) /\ RowText(u)' = RowText(u)
  BY <1>1, SameCall
<1>9. RowInv'
  BY <1>1, <1>8 DEF RowInv
<1>10. ResultInv'
  BY <1>1, <1>5, <1>8 DEF ResultInv, n
<1> QED
  BY <1>1, <1>6, <1>7, <1>9, <1>10 DEF PassInv, LoadInv

\* The beginnings of two sequences put together
LEMMA TakeOfConcat ==
  ASSUME NEW s \in Content, NEW t \in Content
  PROVE  /\ s \o t \in Content /\ Len(s \o t) = Len(s) + Len(t) /\ Len(s) \in Nat /\ Len(t) \in Nat
         /\ \A i \in 0..Len(s) : Take(s \o t, i) = Take(s, i)
         /\ \A i \in 0..Len(t) : Take(s \o t, Len(s) + i) = s \o Take(t, i)
<1>1. s \in Seq(Token) /\ t \in Seq(Token) /\ Len(s) \in Nat /\ Len(t) \in Nat
  BY LenProperties DEF Content
<1> DEFINE w == s \o t
<1>2. w \in Seq(Token) /\ Len(w) = Len(s) + Len(t)
      /\ \A i \in 1..Len(s) + Len(t) : w[i] = IF i <= Len(s) THEN s[i] ELSE t[i - Len(s)]
  BY <1>1, ConcatProperties
<1> HIDE DEF w
<1>3. ASSUME NEW i \in 0..Len(s) PROVE Take(w, i) = Take(s, i)
  <2> DEFINE a == Take(w, i)
             b == Take(s, i)
  <2>1. a \in Seq(Token) /\ Len(a) = i /\ \A j \in 1..i : a[j] = w[j]
    <3>1. i \in 0..Len(w)
      BY <1>1, <1>2
    <3> QED
      BY <1>2, <3>1, TakeProperties
  <2>2. b \in Seq(Token) /\ Len(b) = i /\ \A j \in 1..i : b[j] = s[j]
    BY <1>1, TakeProperties
  <2> HIDE DEF a, b
  <2>3. \A j \in 1..Len(a) : a[j] = b[j]
    BY <1>1, <1>2, <2>1, <2>2
  <2>4. a = b
    BY <2>1, <2>2, <2>3, SeqEqual
  <2> QED
    BY <2>4 DEF a, b
<1>4. ASSUME NEW i \in 0..Len(t) PROVE Take(w, Len(s) + i) = s \o Take(t, i)
  <2> DEFINE a == Take(w, Len(s) + i)
             b == Take(t, i)
             c == s \o b
  <2>1. a \in Seq(Token) /\ Len(a) = Len(s) + i /\ \A j \in 1..Len(s) + i : a[j] = w[j]
    <3>1. Len(s) + i \in 0..Len(w)
      BY <1>1, <1>2
    <3> QED
      BY <1>2, <3>1, TakeProperties
  <2>2. b \in Seq(Token) /\ Len(b) = i /\ \A j \in 1..i : b[j] = t[j]
    BY <1>1, TakeProperties
  <2> HIDE DEF a, b
  <2>3. c \in Seq(Token) /\ Len(c) = Len(s) + i
        /\ \A j \in 1..Len(s) + i : c[j] = IF j <= Len(s) THEN s[j] ELSE b[j - Len(s)]
    BY <1>1, <2>2, ConcatProperties
  <2> HIDE DEF c
  <2>4. ASSUME NEW j \in 1..Len(a) PROVE a[j] = c[j]
    <3>1. j \in 1..Len(s) + i /\ j \in 1..Len(s) + Len(t)
      BY <1>1, <2>1
    <3>2. ~(j <= Len(s)) => j - Len(s) \in 1..i
      BY <1>1, <3>1
    <3> QED
      BY <1>2, <2>1, <2>2, <2>3, <3>1, <3>2
  <2>5. a = c
    BY <2>1, <2>3, <2>4, SeqEqual
  <2> QED
    BY <2>5 DEF a, b, c
<1> QED
  BY <1>1, <1>2, <1>3, <1>4 DEF w, Content

\* What a batch of a text adds to the text in the cache is what its rows computed.
Kept == text \o SubSeq(request.tokens, TokenAt(1), TokenAt(Batch.step))

LEMMA KeptIs ==
  ASSUME Types, HoldInv, CallInv, Calling, IsText(request)
  PROVE  /\ Kept \in Content /\ Len(Kept) = position + Batch.step
         /\ Kept = TextOf(Batch.index + Batch.step - 1)
         /\ \A i \in 0..position : Take(Kept, i) = Take(text, i)
         /\ \A u \in Rows : Take(Kept, position + u + 1) = RowText(u)
<1> DEFINE b == BeganWith
           t == request.tokens
           i == Batch.index
           n == Batch.step
           added == SubSeq(t, i + 1, i + n)
<1>1. /\ b \in Content /\ t \in Content /\ text \in Content /\ Len(t) \in Nat
      /\ i \in Nat /\ n \in Nat \ {0} /\ i + n <= Len(t)
      /\ Len(text) = position /\ position = Len(b) + i /\ Len(b) \in Nat
  <2>1. t \in Content
    BY DEF CallInv, WellFormed
  <2> QED
    BY <2>1, CallFacts, LenProperties DEF BatchOk, Content
<1>2. \A u \in 0..Len(t)-1 : TextOf(u) = b \o Take(t, u + 1)
  <2> HIDE DEF b
  <2>1. \A u \in 0..Len(t)-1 : Along(b, request, u) = b \o Take(t, u + 1)
    BY <1>1, TextAlong
  <2> QED
    BY <2>1, TextOfIs DEF b
<1>3. text = b \o Take(t, i)
  <2>1. CASE i = 0
    <3>1. Take(t, 0) = <<>> /\ b \o <<>> = b
      BY <1>1, SubSeqEmpty, ConcatEmptySeq DEF Take, Content
    <3> QED
      BY <2>1, <3>1, CallFacts
  <2>2. CASE i # 0
    <3>1. i - 1 \in 0..Len(t)-1 /\ (i - 1) + 1 = i /\ i > 0
      <4> HIDE DEF i, n, t, b
      <4> QED
        BY <1>1, <2>2
    <3>2. text = TextOf(i - 1)
      BY <3>1 DEF CallInv
    <3>3. TextOf(i - 1) = b \o Take(t, (i - 1) + 1)
      BY <1>2, <3>1
    <3> QED
      BY <3>1, <3>2, <3>3
  <2> QED
    BY <2>1, <2>2
<1>4. Kept = text \o added
  BY DEF Kept, TokenAt
<1>5. added \in Content /\ Len(added) = n
  <2>1. \A k \in i+1..i+n : t[k] \in Token
    BY <1>1, ElementOfSeq DEF Content
  <2>2. i + 1 \in Int /\ i + n \in Int /\ i + 1 <= i + n /\ (i + n) - (i + 1) + 1 = n
    BY <1>1
  <2> HIDE DEF i, n, t
  <2> QED
    BY <2>1, <2>2, SubSeqProperties DEF Content
<1>6. Kept \in Content /\ Len(Kept) = position + n /\ \A k \in 0..position : Take(Kept, k) = Take(text, k)
  <2> HIDE DEF added, n
  <2>1. /\ text \o added \in Content /\ Len(text \o added) = Len(text) + Len(added)
        /\ \A k \in 0..Len(text) : Take(text \o added, k) = Take(text, k)
    BY <1>1, <1>5, TakeOfConcat
  <2> QED
    BY <1>1, <1>4, <1>5, <2>1
<1>7. Kept = b \o Take(t, i + n)
  <2> HIDE DEF b, t, i, n
  <2>0. b \in Content /\ t \in Content /\ i \in Nat /\ n \in Nat /\ i + n <= Len(t)
    BY <1>1
  <2>1. (b \o Take(t, i)) \o SubSeq(t, i + 1, i + n) = b \o Take(t, i + n)
    BY ONLY <2>0, TakeFurther
  <2> QED
    BY <1>3, <1>4, <2>1 DEF added
<1>8. Kept = TextOf(i + n - 1)
  <2>1. i + n - 1 \in 0..Len(t)-1 /\ (i + n - 1) + 1 = i + n
    <3> HIDE DEF b, t, i, n
    <3> QED
      BY <1>1
  <2>2. TextOf(i + n - 1) = b \o Take(t, (i + n - 1) + 1)
    BY <1>2, <2>1
  <2> QED
    BY <1>7, <2>1, <2>2
<1>9. ASSUME NEW u \in Rows PROVE Take(Kept, position + u + 1) = RowText(u)
  <2> DEFINE k == i + u + 1
  <2>1. u \in Nat /\ k \in 0..i+n /\ i + u \in 0..Len(t)-1 /\ k = (i + u) + 1 /\ TokenAt(u) = i + u
    <3>1. u \in 0..n-1 /\ TokenAt(u) = i + u
      BY DEF Rows, TokenAt
    <3> HIDE DEF b, t, i, n
    <3> QED
      BY <1>1, <3>1
  <2>2. RowText(u) = b \o Take(t, k)
    BY <1>2, <2>1 DEF RowText
  <2> DEFINE w == Take(t, i + n)
  <2>3. w \in Content /\ Len(w) = i + n /\ Take(w, k) = Take(t, k)
    <3>1. i + n \in 0..Len(t)
      BY <1>1
    <3> HIDE DEF k, i, n
    <3> QED
      BY <1>1, <2>1, <3>1, TakeProperties, TakeTake DEF Content
  <2>4. Take(b \o w, Len(b) + k) = b \o Take(w, k)
    <3>1. k \in 0..Len(w)
      BY <2>1, <2>3
    <3> HIDE DEF w, b, k
    <3> QED
      BY <1>1, <2>3, <3>1, TakeOfConcat
  <2>5. position + u + 1 = Len(b) + k
    <3> HIDE DEF b, i
    <3> QED
      BY <1>1, <2>1
  <2> QED
    BY <1>7, <2>2, <2>3, <2>4, <2>5
<1> QED
  BY <1>6, <1>8, <1>9

\* The batches behind the first one
LEMMA OthersFollow ==
  ASSUME CallInv, Calling, Len(batches) # 1
  PROVE  /\ Tail(batches) \in Seq(BatchRecord) /\ Tail(batches) # <<>>
         /\ Consecutive(Tail(batches), Len(request.tokens)) /\ IsText(request)
         /\ Tail(batches)[1].index = Batch.index + Batch.step
<1> DEFINE n == Len(request.tokens)
           t == Tail(batches)
<1>1. batches \in Seq(BatchRecord) /\ batches # <<>> /\ Consecutive(batches, n)
  BY DEF CallInv, BatchRecord
<1>2. Len(batches) \in Nat /\ Len(batches) >= 2 /\ Batch = batches[1]
  <2>1. Len(batches) \in Nat \ {0}
    BY <1>1, EmptySeq
  <2>2. \A k \in Nat \ {0} : k # 1 => k >= 2
    OBVIOUS
  <2>3. Len(batches) \in Nat /\ Len(batches) >= 2
    BY <2>1, <2>2
  <2> QED
    BY <2>3 DEF Batch
<1>3. /\ t \in Seq(BatchRecord) /\ Len(t) = Len(batches) - 1
      /\ \A j \in 1..Len(t) : t[j] = batches[j + 1]
  BY <1>1, HeadTailProperties
<1> HIDE DEF t, n
<1>4. ASSUME NEW j \in 1..Len(t)
      PROVE  /\ BatchOk(t[j], n)
             /\ t[j].index + t[j].step = IF j = Len(t) THEN n ELSE t[j + 1].index
  <2>1. j + 1 \in 1..Len(batches) /\ t[j] = batches[j + 1] /\ (j = Len(t) <=> j + 1 = Len(batches))
    BY <1>2, <1>3
  <2>2. j # Len(t) => t[j + 1] = batches[(j + 1) + 1]
    BY <1>2, <1>3
  <2>3. /\ BatchOk(batches[j + 1], n)
        /\ batches[j + 1].index + batches[j + 1].step =
             IF j + 1 = Len(batches) THEN n ELSE batches[(j + 1) + 1].index
    BY <1>1, <2>1 DEF Consecutive
  <2> QED
    BY <2>1, <2>2, <2>3
<1>5. t # <<>> /\ t[1] = batches[2]
  BY <1>2, <1>3, EmptySeq
<1>6. 1 \in 1..Len(batches) /\ 1 # Len(batches) /\ 1 + 1 = 2 /\ 2 \in 1..Len(batches)
  BY <1>2
<1>7. Batch.index + Batch.step = batches[2].index /\ BatchOk(batches[2], n)
  BY <1>1, <1>2, <1>6 DEF Consecutive
<1>8. IsText(request)
  <2>1. ASSUME Batch.index = 0, Batch.step = n PROVE FALSE
    <3>1. batches[2].index = 0 + n
      BY <1>7, <2>1
    <3>2. n \in Nat
      BY LenProperties DEF CallInv, WellFormed, Content, n
    <3> QED
      BY <1>7, <3>1, <3>2 DEF BatchOk
  <2> QED
    BY <2>1 DEF CallInv, n
<1>9. Consecutive(t, n)
  BY <1>4 DEF Consecutive
<1> QED
  BY <1>3, <1>5, <1>7, <1>8, <1>9 DEF t, n

LEMMA NoneFollows ==
  ASSUME CallInv, Calling, Len(batches) = 1 PROVE Tail(batches) = <<>>
<1>1. batches \in Seq(BatchRecord) /\ batches # <<>>
  BY DEF CallInv, BatchRecord
<1>2. Tail(batches) \in Seq(BatchRecord) /\ Len(Tail(batches)) = 0
  BY <1>1, HeadTailProperties
<1> QED
  BY <1>2, EmptySeq

LEMMA KeepKeeps == ASSUME PassInv, Keep PROVE PassInv'
<1> DEFINE n == Batch.step
<1>1. /\ Types /\ HoldInv /\ CallInv /\ RowInv /\ ResultInv /\ Calling
      /\ pc = "save" /\ position + n <= CacheSize
      /\ cache' = [c \in Chunks |-> [i \in Past |-> IF i \in position .. position + n - 1
                                                     THEN keys[c][i - position] ELSE cache[c][i]]]
      /\ bias' = Opened(position .. position + n - 1) /\ position' = position + n
      /\ batches' = Tail(batches) /\ pc' = (IF Len(batches) = 1 THEN "idle" ELSE "fill")
      /\ UNCHANGED <<stage, x, rope, keys, request, dst, calls>>
  BY DEF PassInv, Keep, HasRoom, bufferVars, Calling
<1>2. /\ IsText(request) => text' = Kept /\ loose' = loose
      /\ ~IsText(request) => text' = text /\ loose' = n
  BY DEF Keep, Kept
<1>3. /\ n \in Nat \ {0} /\ Rows = 0..n-1 /\ Rows \subseteq Row /\ position \in Nat /\ CacheSize \in Nat
      /\ Len(text) = position /\ text \in Content /\ loose = 0 /\ position = request.start + Batch.index
      /\ request.start \in Nat /\ Batch.index \in Nat /\ Len(SystemPrompt) <= Len(text)
  <2>0. BatchOk(Batch, Len(request.tokens)) /\ Rows \subseteq Row
    BY <1>1, CallFacts
  <2>1. BatchOk(Batch, Len(request.tokens)) /\ Rows \subseteq Row /\ position \in Nat
    BY <1>1, <2>0, ConstantTypes DEF Types, TypeOK
  <2> QED
    BY <1>1, <2>1, CallFacts, ConstantTypes DEF BatchOk, Rows, CallInv, WellFormed, HoldInv, Calling
<1> DEFINE I == position .. position + n - 1
<1>4. I \in SUBSET Past /\ \A i \in I : i - position \in Rows /\ position + (i - position) = i
  <2>1. n \in Nat \ {0} /\ Rows = 0..n-1 /\ position \in Nat /\ CacheSize \in Nat /\ position + n <= CacheSize
    BY <1>1, <1>3
  <2> HIDE DEF n
  <2>2. \A i \in position .. position + n - 1 :
          i \in 0..CacheSize-1 /\ i - position \in 0..n-1 /\ position + (i - position) = i
    BY ONLY <2>1
  <2> QED
    BY <2>1, <2>2 DEF Past
<1>5. \A c \in Chunks, u \in Rows : keys[c][u] = RowText(u)
  <2>1. stage = NChunks + 1 /\ NChunks \in Nat
    BY <1>1, ConstantTypes DEF RowInv
  <2>2. \A c \in Chunks : c \in 1..stage-1
    BY <2>1 DEF Chunks
  <2> QED
    BY <1>1, <2>2 DEF RowInv
<1>6. /\ cache' \in [Chunks -> [Past -> Content]]
      /\ \A c \in Chunks, i \in Past :
           cache'[c][i] = IF i \in I THEN RowText(i - position) ELSE cache[c][i]
  <2>1. /\ keys \in [Chunks -> [Row -> Content]] /\ cache \in [Chunks -> [Past -> Content]]
    BY <1>1 DEF Types, TypeOK
  <2> HIDE DEF I
  <2>2. cache' = [c \in Chunks |-> [i \in Past |-> IF i \in I THEN keys[c][i - position] ELSE cache[c][i]]]
    BY <1>1 DEF I
  <2>3. \A c \in Chunks, i \in Past : i \in I =>
          keys[c][i - position] \in Content /\ keys[c][i - position] = RowText(i - position)
    BY <1>3, <1>4, <1>5, <2>1
  <2>4. \A c \in Chunks, i \in Past :
          (IF i \in I THEN keys[c][i - position] ELSE cache[c][i]) \in Content
    BY <2>1, <2>3
  <2> QED
    BY <2>2, <2>3, <2>4
<1>7. /\ bias' \in [Chunks -> [Row -> SUBSET Column]]
      /\ \A c \in Chunks, u \in Row : bias'[c][u] \cap Past = 0..position'-1
  <2>1. /\ bias' \in [Chunks -> [Row -> SUBSET Column]]
        /\ \A c \in Chunks, u \in Row : bias'[c][u] \cap Past = (bias[c][u] \cap Past) \cup I
    <3> HIDE DEF I
    <3>1. bias' = Opened(I)
      BY <1>1 DEF I
    <3> QED
      BY <1>1, <1>4, <3>1, OpenedIs
  <2>2. \A c \in Chunks, u \in Row : bias[c][u] \cap Past = 0..position-1
    BY <1>1 DEF HoldInv, Calling
  <2>3. 0..position'-1 = (0..position-1) \cup I
    BY <1>1, <1>3
  <2> QED
    BY <2>1, <2>2, <2>3
<1> HIDE DEF n
<1>8. IsText(request) =>
        /\ text' \in Content /\ Len(text') = position + n /\ text' = TextOf(Batch.index + n - 1)
        /\ \A i \in 0..position : Take(text', i) = Take(text, i)
        /\ \A u \in Rows : Take(text', position + u + 1) = RowText(u)
  BY <1>1, <1>2, KeptIs DEF n
<1>9. text' \in Content /\ Len(text') + loose' = position' /\ Len(SystemPrompt) <= Len(text')
      /\ loose' \in 0..position' /\ \A i \in 0..position : Take(text', i) = Take(text, i)
  <2>1. CASE IsText(request)
    <3>1. Len(SystemPrompt) \in Nat
      BY ConstantTypes
    <3> QED
      BY <1>1, <1>2, <1>3, <1>8, <2>1, <3>1
  <2>2. CASE ~IsText(request)
    BY <1>1, <1>2, <1>3, <2>2
  <2> QED
    BY <2>1, <2>2
<1>10. BeganWith' = BeganWith
  <2>1. request.start \in 0..position
    BY <1>3
  <2> QED
    BY <1>1, <1>9, <2>1 DEF BeganWith, Take
<1>11. /\ Len(batches) = 1 => batches' = <<>>
       /\ Len(batches) # 1 => batches' # <<>>
  BY <1>1, OthersFollow, NoneFollows
<1>12. Types'
  <2>1. position' \in 0..CacheSize
    BY <1>1, <1>3 DEF n
  <2> QED
    BY <1>1, <1>6, <1>7, <1>9, <1>11, <2>1 DEF Types, TypeOK
<1>13. HoldInv'
  <2>1. ASSUME NEW c \in Chunks, NEW i \in 0..Len(text')-1 PROVE cache'[c][i] = Take(text', i+1)
    <3>1. i \in Past /\ i \in Nat
      <4>1. Len(text') \in Nat /\ loose' \in Nat /\ position' \in 0..CacheSize
        BY <1>9, <1>12, LenProperties DEF Content, Types, TypeOK
      <4> QED
        BY <1>3, <1>9, <4>1 DEF Past
    <3>2. CASE i < position
      <4>1. i \notin I /\ i \in 0..Len(text)-1 /\ i + 1 \in 0..position
        BY <1>3, <3>1, <3>2
      <4>2. cache'[c][i] = cache[c][i]
        BY <1>6, <3>1, <4>1
      <4>3. cache[c][i] = Take(text, i+1)
        BY <1>1, <4>1 DEF HoldInv, Calling
      <4> QED
        BY <1>9, <4>1, <4>2, <4>3
    <3>3. CASE ~(i < position)
      <4>1. IsText(request) /\ Len(text') = position + n
        <5>1. Len(text') > position
          BY <1>3, <1>9, <3>1, <3>3, LenProperties DEF Content
        <5> QED
          BY <1>2, <1>3, <1>8, <5>1
      <4>2. i \in I
        BY <1>3, <3>1, <3>3, <4>1
      <4>3. i - position \in Rows /\ position + (i - position) + 1 = i + 1
        BY <1>3, <1>4, <4>2
      <4>4. Take(text', position + (i - position) + 1) = RowText(i - position)
        BY <1>8, <4>1, <4>3
      <4> QED
        BY <1>6, <3>1, <4>2, <4>3, <4>4
    <3> QED
      BY <3>2, <3>3
  <2> QED
    BY <1>7, <1>9, <2>1 DEF HoldInv
<1>14. CASE Len(batches) = 1
  <2>1. pc' = "idle"
    BY <1>1, <1>14
  <2> QED
    BY <1>12, <1>13, <2>1 DEF PassInv, LoadInv, CallInv, RowInv, ResultInv, Calling
<1>15. CASE Len(batches) # 1
  <2>1. pc' = "fill"
    BY <1>1, <1>15
  <2>2. /\ batches' \in Seq(BatchRecord) /\ batches' # <<>>
        /\ Consecutive(batches', Len(request.tokens)) /\ IsText(request)
        /\ batches'[1].index = Batch.index + n
    BY <1>1, <1>15, OthersFollow DEF n
  <2>3. Batch'.index = Batch.index + n
    BY <2>2 DEF Batch
  <2>4. text' = TextOf(Batch.index - 1)'
    <3> DEFINE k == Batch.index + n - 1
    <3>1. (Batch.index - 1)' = k
      BY <1>3, <2>3 DEF n
    <3>2. text' = TextOf(k)
      BY <1>8, <2>2
    <3> HIDE DEF k
    <3>3. TextOf(Batch.index - 1)' = TextOf(k)
      BY <1>1, <1>10, <3>1 DEF TextOf
    <3> QED
      BY <3>2, <3>3
  <2>5. position' = request.start + Batch'.index /\ loose' = 0
    <3>1. Batch'.index = Batch.index + n /\ position' = position + n
      BY <1>1, <2>3 DEF n
    <3>2. loose' = 0
      BY <1>2, <1>3, <2>2
    <3> DEFINE d == Batch.index
               e == Batch'.index
    <3> HIDE DEF n, d, e
    <3>3. position' = request.start + e
      BY <1>3, <3>1 DEF d, e
    <3> QED
      BY <3>2, <3>3 DEF e
  <2>6. CallInv'
    BY <1>1, <2>1, <2>2, <2>4, <2>5 DEF CallInv, WellFormed, IsText, BatchRecord
  <2>7. ResultInv'
    <3>1. \A u : TextOf(u)' = TextOf(u)
      BY <1>1, <1>10 DEF TextOf
    <3> QED
      BY <1>1, <2>1, <2>3, <3>1 DEF ResultInv, n
  <2> QED
    BY <1>12, <1>13, <2>1, <2>6, <2>7 DEF PassInv, LoadInv, RowInv
<1> QED
  BY <1>14, <1>15

LEMMA GiveBackKeeps ==
  ASSUME PassInv, NEW n \in 1..position, n <= position - Len(SystemPrompt),
         position - n <= Len(text), GiveBack(n)
  PROVE  PassInv'
<1> DEFINE P == position - n
           I == position - n .. position - 1
<1>1. /\ Types /\ HoldInv /\ pc = "idle" /\ pc' = "idle" /\ position' = P /\ bias' = Closed(I)
      /\ text' = Take(text, Len(text) + loose - n) /\ loose' = 0
      /\ UNCHANGED <<stage, x, rope, keys, cache, request, batches, dst, calls>>
  BY DEF PassInv, GiveBack, Take, bufferVars, callVars
<1>2. /\ position \in 0..CacheSize /\ CacheSize \in Nat /\ text \in Content /\ Len(text) \in Nat
      /\ position = Len(text) + loose /\ loose \in Nat /\ Len(SystemPrompt) \in Nat
      /\ Len(SystemPrompt) <= P /\ P \in 0..Len(text) /\ n \in Nat
  <2>1. text \in Content /\ position \in 0..CacheSize /\ loose \in 0..position
    BY <1>1 DEF Types, TypeOK
  <2>2. Len(SystemPrompt) \in Nat /\ Len(text) \in Nat /\ CacheSize \in Nat
    BY <2>1, ConstantTypes, LenProperties DEF Content
  <2>3. position = Len(text) + loose
    BY <1>1 DEF HoldInv
  <2> QED
    BY <2>1, <2>2, <2>3
<1>3. text' = Take(text, P) /\ text' \in Content /\ Len(text') = P
      /\ \A i \in 0..P : Take(text', i) = Take(text, i)
  <2>1. Len(text) + loose - n = P
    BY <1>2
  <2>2. text' = Take(text, P)
    BY <1>1, <2>1
  <2> HIDE DEF P
  <2> QED
    BY <1>2, <2>2, TakeProperties, TakeTake DEF Content
<1>4. /\ bias' \in [Chunks -> [Row -> SUBSET Column]]
      /\ \A c \in Chunks, u \in Row : bias'[c][u] \cap Past = 0..P-1
  <2>1. I \in SUBSET Past /\ 0..P-1 = (0..position-1) \ I
    BY <1>2 DEF Past
  <2>2. \A c \in Chunks, u \in Row : bias[c][u] \cap Past = 0..position-1
    BY <1>1 DEF HoldInv
  <2> HIDE DEF I, P
  <2> QED
    BY <1>1, <2>1, <2>2, OpenedIs
<1>5. Types'
  <2>1. P \in 0..CacheSize /\ 0 \in 0..P
    BY <1>2
  <2> QED
    BY <1>1, <1>3, <1>4, <2>1 DEF Types, TypeOK
<1>6. HoldInv'
  <2>1. \A c \in Chunks : \A i \in 0..Len(text)-1 : cache[c][i] = Take(text, i+1)
    BY <1>1 DEF HoldInv
  <2>2. \A i \in 0..P-1 : i \in 0..Len(text)-1 /\ i + 1 \in 0..P
    BY <1>2
  <2>3. \A c \in Chunks : \A i \in 0..P-1 : cache'[c][i] = Take(text', i+1)
    BY <1>1, <1>3, <2>1, <2>2
  <2>4. position' = Len(text') + loose' /\ Len(SystemPrompt) <= Len(text')
    BY <1>1, <1>2, <1>3
  <2> QED
    BY <1>1, <1>3, <1>4, <2>3, <2>4 DEF HoldInv
<1> QED
  BY <1>1, <1>5, <1>6 DEF PassInv, LoadInv, CallInv, RowInv, ResultInv, Calling

\* Both ways to give back leave the system prompt, and whole trees.
LEMMA GivesBack ==
  ASSUME PassInv, Reset \/ \E n \in 1..position : Rollback(n)
  PROVE  /\ pc = "idle"
         /\ \E n \in 1..position : n <= position - Len(SystemPrompt) /\ position - n <= Len(text)
                                   /\ GiveBack(n)
<1>1. pc = "idle"
  BY DEF Reset, Rollback, GiveBack
<1>2. /\ position \in Nat /\ Len(text) \in Nat /\ loose \in Nat /\ Len(SystemPrompt) \in Nat
      /\ position = Len(text) + loose /\ Len(SystemPrompt) <= Len(text)
  BY <1>1, ConstantTypes, LenProperties DEF PassInv, Types, TypeOK, HoldInv, Content
<1>3. CASE Reset
  <2> DEFINE n == position - Len(SystemPrompt)
  <2>1. n \in 1..position /\ n <= position - Len(SystemPrompt) /\ position - n <= Len(text)
    BY <1>2, <1>3 DEF Reset
  <2>2. GiveBack(n)
    BY <1>3 DEF Reset
  <2> HIDE DEF n
  <2> QED
    BY <1>1, <2>1, <2>2
<1>4. ASSUME NEW n \in 1..position, Rollback(n)
      PROVE  n <= position - Len(SystemPrompt) /\ position - n <= Len(text) /\ GiveBack(n)
  BY <1>2, <1>4 DEF Rollback
<1> QED
  BY <1>1, <1>3, <1>4

LEMMA NextKeeps == ASSUME PassInv, [Next]_vars PROVE PassInv'
<1>1. CASE Load
  BY <1>1, LoadChunkKeeps, LoadedKeeps DEF Load
<1>2. CASE Ask
  BY <1>2, CallKeeps
<1>3. CASE Evaluate
  <2>1. CASE Fill
    BY <2>1, FillKeeps
  <2>2. CASE Execute
    BY <2>2, ExecuteKeeps
  <2>3. CASE ComputeLogits
    BY <2>3, ComputeLogitsKeeps
  <2>4. CASE Keep
    BY <2>4, KeepKeeps
  <2>5. CASE ExecuteFails \/ KeepFails
    <3>1. Throw /\ pc # "load"
      BY <2>5 DEF ExecuteFails, KeepFails
    <3> QED
      BY <3>1, ThrowKeeps
  <2> QED
    BY <1>3, <2>1, <2>2, <2>3, <2>4, <2>5 DEF Evaluate
<1>4. CASE Reset \/ \E n \in 1..position : Rollback(n)
  BY <1>4, GivesBack, GiveBackKeeps
<1>5. CASE UNCHANGED vars
  <2>1. UNCHANGED <<pc, stage, bias, x, rope, keys, cache, position, text, loose,
                    request, batches, dst, calls>>
    BY <1>5 DEF vars, bufferVars, cacheVars, callVars
  <2>2. Types' /\ LoadInv' /\ HoldInv'
    BY <2>1 DEF PassInv, Types, TypeOK, LoadInv, HoldInv
  <2>3. Batch' = Batch /\ Rows' = Rows
        /\ \A u : /\ TextOf(u)' = TextOf(u) /\ RowText(u)' = RowText(u)
                  /\ RowToken(u)' = RowToken(u) /\ Sees(u)' = Sees(u)
                  /\ PositionOf(request, TokenAt(u))' = PositionOf(request, TokenAt(u))
    BY <2>1, SameCall
  <2>4. CallInv' /\ ResultInv'
    BY <2>1, <2>3, CallInvSame DEF PassInv, CallInv, ResultInv, Calling
  <2>5. RowInv'
    BY <2>1, <2>3 DEF PassInv, RowInv
  <2> QED
    BY <2>2, <2>4, <2>5 DEF PassInv
<1> QED
  BY <1>1, <1>2, <1>3, <1>4, <1>5 DEF Next

LEMMA PassInvariant == Spec => []PassInv
BY InitInv, NextKeeps, PTL DEF Spec

\* The types hold, at every step of every run: the rope embedding has a row for
\* every position, and only a tree leaves loose entries (fill_rope_embeds).
THEOREM PassTypes == Spec => []TypeOK
<1>1. PassInv => TypeOK
  BY DEF PassInv, Types
<1> QED
  BY <1>1, PassInvariant, PTL

\* Every row of the result is computed from exactly its own text, in whichever
\* graphs and batches (QNNBackend::forward, fill_attention_mask).
THEOREM ResultsOfOwnText == Spec => []LogitsOfOwnText
<1>1. ASSUME PassInv PROVE LogitsOfOwnText
  <2>1. ResultInv /\ \A s : (pc = "save" /\ request.logits) => Calling
    BY <1>1 DEF PassInv, Calling
  <2> QED
    BY <2>1 DEF ResultInv, Calling, LogitsOfOwnText
<1> QED
  BY <1>1, PassInvariant, PTL

\* Between two calls, failed or not, the caches of all chunks hold the text, and
\* their masks show what is below position (save_kv, advance, set_mask).
THEOREM CachesHoldText == Spec => []CachesFollowText
<1>1. ASSUME PassInv PROVE CachesFollowText
  <2>1. HoldInv
    BY <1>1 DEF PassInv
  <2> QED
    BY <2>1 DEF HoldInv, CachesFollowText, Take
<1> QED
  BY <1>1, PassInvariant, PTL

----------------------------------------------------------------------------
(* The backend implements the cache its callers know. *)

\* The operators of KVCache are the same there.
LEMMA SameOperators ==
  /\ \A c, n : Store!Fits(c, n) <=> Fits(c, n)
  /\ \A c, b, n : Store!SaveTokens(c, b, n) = SaveTokens(c, b, n)
  /\ \A c, n : Store!AdvanceTokens(c, n) = AdvanceTokens(c, n)
  /\ \A c, n : Store!RollbackTokens(c, n) = RollbackTokens(c, n)
  /\ \A s, n, t, p : Store!Encode(s, n, t, p) = Encode(s, n, t, p)
  /\ \A S : Store!Cardinality(S) = Cardinality(S)
<1>1. \A c, n : Store!Fits(c, n) <=> Fits(c, n)
  BY DEF Store!Fits, Fits
<1>2. \A c, b, n : Store!SaveTokens(c, b, n) = SaveTokens(c, b, n)
  BY DEF Store!SaveTokens, SaveTokens
<1>3. \A c, n : Store!AdvanceTokens(c, n) = AdvanceTokens(c, n)
  BY DEF Store!AdvanceTokens, Store!UnmaskTokens, AdvanceTokens, UnmaskTokens
<1>4. \A c, n : Store!RollbackTokens(c, n) = RollbackTokens(c, n)
  BY DEF Store!RollbackTokens, RollbackTokens
<1>5. \A s, n, t, p : Store!Encode(s, n, t, p) = Encode(s, n, t, p)
  BY DEF Store!Encode, Encode, Store!Prefixes, Prefixes, Store!Garbage, Garbage
<1>6. \A S : Store!Cardinality(S) = Cardinality(S)
  BY DEF Store!Cardinality, Cardinality
<1> QED
  BY <1>1, <1>2, <1>3, <1>4, <1>5, <1>6

StoreEntries(c, toks, positions, sees, f) ==
  [u \in DOMAIN toks |->
     Store!Encode({c.entry[i] : i \in c.open} \cup {f[v] : v \in sees[u]},
                  Store!Cardinality(c.open) + Store!Cardinality(sees[u]), toks[u], positions[u])]

LEMMA StoreForwardIs ==
  ASSUME NEW c, NEW toks, NEW positions, NEW sees, NEW D \in SUBSET Nat, DOMAIN toks = D,
         \A u \in D : sees[u] \subseteq D /\ \A v \in sees[u] : v < u,
         NEW f, f = Entries(c, toks, positions, sees, f)
  PROVE  Store!Forward(c, toks, positions, sees) = f
<1> DEFINE g == CHOOSE g : g = StoreEntries(c, toks, positions, sees, g)
<1>1. Store!Forward(c, toks, positions, sees) = g
  BY DEF Store!Forward, StoreEntries
<1>2. \A h : StoreEntries(c, toks, positions, sees, h) = Entries(c, toks, positions, sees, h)
  BY SameOperators DEF StoreEntries, Entries
<1>3. f = StoreEntries(c, toks, positions, sees, f)
  BY <1>2
<1>4. g = StoreEntries(c, toks, positions, sees, g)
  BY <1>3
<1> HIDE DEF g
<1>5. g = Entries(c, toks, positions, sees, g)
  BY <1>2, <1>4
<1>6. Forward(c, toks, positions, sees) = g
  BY <1>5, ForwardIs
<1>7. Forward(c, toks, positions, sees) = f
  BY ForwardIs
<1> QED
  BY <1>1, <1>6, <1>7

\* What every row of every chunk is shown
LEMMA OpenIs ==
  ASSUME NEW p \in 0..CacheSize, NEW B, \A c \in Chunks, u \in Row : B[c][u] \cap Past = 0..p-1
  PROVE  {i \in Past : \A c \in Chunks, u \in Row : i \in B[c][u]} = 0..p-1
<1>1. 0 \in Row /\ 1 \in Chunks /\ CacheSize \in Nat
  BY ConstantTypes
<1>2. 0..p-1 \subseteq Past
  BY <1>1 DEF Past
<1> QED
  BY <1>1, <1>2

StoredAt(p, entry) == [size |-> CacheSize, position |-> p, open |-> 0..p-1, entry |-> entry]

LEMMA StoredIs ==
  ASSUME Types, HoldInv, pc # "load"
  PROVE  Stored = StoredAt(position, [i \in Past |-> EntryOf(i)])
<1>1. position \in 0..CacheSize /\ \A c \in Chunks, u \in Row : bias[c][u] \cap Past = 0..position-1
  BY DEF Types, TypeOK, HoldInv
<1>2. {i \in Past : \A c \in Chunks, u \in Row : i \in bias[c][u]} = 0..position-1
  BY <1>1, OpenIs
<1> QED
  BY <1>2 DEF Stored, StoredAt

LEMMA StoredNext ==
  ASSUME Types', HoldInv', pc' # "load"
  PROVE  Stored' = StoredAt(position', [i \in Past |-> EntryOf(i)'])
<1>1. /\ position' \in 0..CacheSize
      /\ \A c \in Chunks, u \in Row : bias'[c][u] \cap Past = 0..position'-1
  BY DEF Types, TypeOK, HoldInv
<1>2. {i \in Past : \A c \in Chunks, u \in Row : i \in bias'[c][u]} = 0..position'-1
  BY <1>1, OpenIs
<1> QED
  BY <1>2 DEF Stored, StoredAt

\* The calls that only compute leave it as it is.
LEMMA ComputingIsStuttering ==
  ASSUME PassInv, PassInv', pc # "load", pc' # "load", UNCHANGED <<cache, position>>
  PROVE  Stored' = Stored
<1>1. \A i : EntryOf(i)' = EntryOf(i)
  BY DEF EntryOf
<1>2. Stored = StoredAt(position, [i \in Past |-> EntryOf(i)])
  BY StoredIs DEF PassInv
<1>3. Stored' = StoredAt(position', [i \in Past |-> EntryOf(i)'])
  BY StoredNext DEF PassInv
<1> QED
  BY <1>1, <1>2, <1>3

\* So does loading: nobody knows the cache before.
LEMMA LoadingIsStuttering ==
  ASSUME PassInv, PassInv', Load PROVE Stored' = Stored
<1> DEFINE n == Len(SystemPrompt)
           entry == [i \in Past |-> IF i < n THEN Take(SystemPrompt, i+1) ELSE Garbage]
<1>1. pc = "load" /\ Stored = StoredAt(n, entry)
  BY DEF Load, LoadChunk, Loaded, Stored, StoredAt, Take
<1>2. CASE LoadChunk
  BY <1>1, <1>2 DEF LoadChunk, Stored
<1>3. CASE Loaded
  <2>1. pc' = "idle" /\ position' = n /\ cache' = cache /\ stage = NChunks + 1
    BY <1>3 DEF Loaded
  <2>2. \A c \in Chunks, i \in Past : cache[c][i] = entry[i]
    <3>1. \A c \in Chunks : c < stage
      BY <2>1, ConstantTypes DEF Chunks
    <3> QED
      BY <1>1, <3>1 DEF PassInv, LoadInv
  <2> HIDE DEF entry
  <2>3. \A i \in Past : EntryOf(i)' = entry[i]
    BY <2>1, <2>2, ConstantTypes DEF EntryOf
  <2>4. entry = [i \in Past |-> entry[i]]
    BY DEF entry
  <2>5. Stored' = StoredAt(position', [i \in Past |-> EntryOf(i)'])
    BY <2>1, StoredNext DEF PassInv
  <2> QED
    BY <1>1, <2>1, <2>3, <2>4, <2>5 DEF entry
<1> QED
  BY <1>2, <1>3 DEF Load

\* A cache of the shape of Stored
LEMMA StoredSound ==
  ASSUME NEW p \in 0..CacheSize, NEW entry \in Entry(CacheSize)
  PROVE  /\ Sound(StoredAt(p, entry), CacheSize) /\ StoredAt(p, entry).entry = entry
         /\ StoredAt(p, entry).open = 0..p-1 /\ StoredAt(p, entry).position = p
         /\ StoredAt(p, entry).size = CacheSize
<1>1. /\ StoredAt(p, entry).entry = entry /\ StoredAt(p, entry).open = 0..p-1
      /\ StoredAt(p, entry).position = p /\ StoredAt(p, entry).size = CacheSize
  BY DEF StoredAt
<1>2. 0..p-1 \subseteq 0..CacheSize-1
  BY ConstantTypes
<1>3. StoredAt(p, entry) = [size |-> CacheSize, position |-> p, open |-> 0..p-1, entry |-> entry]
  BY DEF StoredAt
<1>4. StoredAt(p, entry) \in
        [size : {CacheSize}, position : 0..CacheSize, open : SUBSET Nat, entry : {entry}]
  <2> DEFINE o == 0..p-1
  <2>1. o \in SUBSET Nat
    OBVIOUS
  <2> HIDE DEF o
  <2>2. [size |-> CacheSize, position |-> p, open |-> o, entry |-> entry] \in
          [size : {CacheSize}, position : 0..CacheSize, open : SUBSET Nat, entry : {entry}]
    BY <2>1
  <2> QED
    BY <1>3, <2>2 DEF o
<1> QED
  BY <1>1, <1>4 DEF Sound

LEMMA StoredAppended ==
  ASSUME NEW p \in 0..CacheSize, NEW entry \in [Past -> Content], NEW b, NEW n \in Nat
  PROVE  AdvanceTokens(SaveTokens(StoredAt(p, entry), b, n), n) =
           StoredAt(p + n, [i \in Past |-> IF i \in p..p+n-1 THEN b[i - p] ELSE entry[i]])
<1> DEFINE new == [i \in Past |-> IF i \in p..p+n-1 THEN b[i - p] ELSE entry[i]]
<1>1. SaveTokens(StoredAt(p, entry), b, n) = StoredAt(p, new)
  <2> DEFINE c == StoredAt(p, entry)
             filled == [i \in DOMAIN c.entry |-> IF i \in c.position .. c.position + n - 1
                                                 THEN b[i - c.position] ELSE c.entry[i]]
  <2>1. c.position = p /\ c.entry = entry /\ DOMAIN c.entry = Past
    BY DEF StoredAt
  <2>2. SaveTokens(c, b, n) = [c EXCEPT !.entry = filled]
    BY DEF SaveTokens
  <2>3. filled = new
    <3> HIDE DEF c
    <3> QED
      BY <2>1
  <2> HIDE DEF new, filled
  <2>4. [c EXCEPT !.entry = new] = StoredAt(p, new)
    <3> DEFINE o == 0..p-1
    <3> HIDE DEF o
    <3>1. [[size |-> CacheSize, position |-> p, open |-> o, entry |-> entry] EXCEPT !.entry = new]
            = [size |-> CacheSize, position |-> p, open |-> o, entry |-> new]
      OBVIOUS
    <3> QED
      BY <3>1 DEF StoredAt, o
  <2> QED
    BY <2>2, <2>3, <2>4
<1>2. AdvanceTokens(StoredAt(p, new), n) = StoredAt(p + n, new)
  <2> HIDE DEF new
  <2> DEFINE c == StoredAt(p, new)
             opened == 0..(p+n)-1
             d == [size |-> CacheSize, position |-> p, open |-> opened, entry |-> new]
  <2>1. (0..p-1) \cup (p..p+n-1) = opened
    BY ConstantTypes
  <2>2. c.open = 0..p-1 /\ c.position = p
    BY DEF StoredAt
  <2>3. c.open \cup (c.position .. c.position + n - 1) = opened
    <3> HIDE DEF c, opened
    <3> QED
      BY <2>1, <2>2
  <2>4. [c EXCEPT !.open = opened] = d
    <3> HIDE DEF opened
    <3> QED
      BY DEF StoredAt
  <2>5. UnmaskTokens(c, n) = d
    <3>1. UnmaskTokens(c, n) = [c EXCEPT !.open = c.open \cup (c.position .. c.position + n - 1)]
      BY DEF UnmaskTokens
    <3> HIDE DEF c, d, opened
    <3> QED
      BY <2>3, <2>4, <3>1
  <2>6. [d EXCEPT !.position = @ + n] = StoredAt(p + n, new)
    <3>1. StoredAt(p + n, new) = [size |-> CacheSize, position |-> p + n, open |-> opened, entry |-> new]
      BY DEF StoredAt
    <3> HIDE DEF opened
    <3> QED
      BY <3>1
  <2> HIDE DEF c, d
  <2>7. AdvanceTokens(c, n) = StoredAt(p + n, new)
    BY <2>5, <2>6 DEF AdvanceTokens
  <2> QED
    BY <2>7 DEF c
<1> QED
  BY <1>1, <1>2

LEMMA StoredShortened ==
  ASSUME NEW p \in 0..CacheSize, NEW entry, NEW n \in 1..p
  PROVE  RollbackTokens(StoredAt(p, entry), n) = StoredAt(p - n, entry)
<1> DEFINE c == StoredAt(p, entry)
           opened == 0..(p-n)-1
           d == [c EXCEPT !.position = p - n]
<1>1. (0..p-1) \ (p-n..p-1) = opened
  BY ConstantTypes
<1>2. c.open = 0..p-1 /\ c.position = p
  BY DEF StoredAt
<1>3. c.open \ (c.position - n .. c.position - 1) = opened
  <2> HIDE DEF c, opened
  <2> QED
    BY <1>1, <1>2
<1>4. [d EXCEPT !.open = opened] = StoredAt(p - n, entry)
  <2> DEFINE o == 0..p-1
             q == p - n
             g == [size |-> CacheSize, position |-> q, open |-> o, entry |-> entry]
             e == [size |-> CacheSize, position |-> q, open |-> opened, entry |-> entry]
  <2>1. p \in Int /\ n \in Int
    BY ConstantTypes
  <2>2. d = g
    <3> HIDE DEF o
    <3> QED
      BY <2>1, ConstantTypes DEF StoredAt, o
  <2>3. [g EXCEPT !.open = opened] = e
    <3> HIDE DEF opened, o, q
    <3> QED
      OBVIOUS
  <2>4. StoredAt(p - n, entry) = e
    BY DEF StoredAt
  <2> HIDE DEF d, e, g
  <2> QED
    BY <2>2, <2>3, <2>4
<1>5. d.open = c.open
  <2> HIDE DEF opened
  <2> QED
    BY DEF StoredAt
<1>6. RollbackTokens(c, n) = [d EXCEPT !.open = opened]
  <2>1. RollbackTokens(c, n) =
          [[c EXCEPT !.position = c.position - n] EXCEPT
             !.open = @ \ (c.position - n .. c.position - 1)]
    BY DEF RollbackTokens
  <2>2. [c EXCEPT !.position = c.position - n] = d
    BY <1>2
  <2> HIDE DEF c, d, opened
  <2> QED
    BY <1>3, <1>5, <2>1, <2>2
<1> HIDE DEF c, d, opened
<1>7. RollbackTokens(c, n) = StoredAt(p - n, entry)
  BY <1>4, <1>6
<1> QED
  BY <1>7 DEF c

\* What the chunks compute for the batch is what KVCache says a forward pass does.
LEMMA BatchForward ==
  ASSUME PassInv, Calling
  PROVE  Store!Forward(Stored, BatchAtHand.tokens, BatchAtHand.positions, BatchAtHand.sees)
           = [u \in Rows |-> RowText(u)]
<1> DEFINE c == Stored
           toks == [u \in Rows |-> RowToken(u)]
           positions == [u \in Rows |-> PositionOf(request, TokenAt(u))]
           sees == [u \in Rows |-> Sees(u) \ {u}]
           f == [u \in Rows |-> RowText(u)]
<1>1. /\ Types /\ HoldInv /\ CallInv /\ pc # "load" /\ batches # <<>> /\ loose = 0
      /\ Rows \subseteq Nat /\ text \in Content /\ Len(text) = position /\ position \in 0..CacheSize
      /\ CacheSize \in Nat /\ 1 \in Chunks
  BY CallFacts, ConstantTypes DEF PassInv, Calling, CallInv, Types, TypeOK
<1>2. BatchAtHand.tokens = toks /\ BatchAtHand.positions = positions /\ BatchAtHand.sees = sees
  <2>1. \A u \in Rows : {v \in Rows \ {u} : NotMasked(request, TokenAt(u), TokenAt(v))} = Sees(u) \ {u}
    BY DEF Sees
  <2> QED
    BY <1>1, <2>1 DEF BatchAtHand, RowToken
<1>3. c.open = 0..position-1 /\ \A i \in 0..position-1 : c.entry[i] = Take(text, i+1)
  <2>1. c = StoredAt(position, [i \in Past |-> EntryOf(i)])
    BY <1>1, StoredIs
  <2>2. ASSUME NEW i \in 0..position-1 PROVE EntryOf(i) = Take(text, i+1) /\ i \in Past
    <3>1. i \in 0..Len(text)-1 /\ i \in Past
      BY <1>1 DEF Past
    <3>2. \A d \in Chunks : cache[d][i] = Take(text, i+1)
      BY <1>1, <3>1 DEF HoldInv
    <3> QED
      BY <1>1, <3>1, <3>2 DEF EntryOf
  <2> QED
    BY <2>1, <2>2 DEF StoredAt
<1>4. {c.entry[i] : i \in c.open} = Prefixes(text) /\ Cardinality(c.open) = Len(text)
  <2>1. {c.entry[i] : i \in c.open} = {Take(text, i+1) : i \in 0..Len(text)-1}
    BY <1>1, <1>3
  <2>2. {Take(text, i+1) : i \in 0..Len(text)-1} = {Take(text, i) : i \in 1..Len(text)}
    <3>1. Len(text) \in Nat
      BY <1>1
    <3>2. \A i \in 1..Len(text) : i - 1 \in 0..Len(text)-1 /\ (i - 1) + 1 = i
      BY <3>1
    <3>3. \A i \in 0..Len(text)-1 : i + 1 \in 1..Len(text)
      BY <3>1
    <3> QED
      BY <3>2, <3>3
  <2>3. Prefixes(text) = {Take(text, i) : i \in 1..Len(text)}
    BY DEF Prefixes, Take
  <2>4. position \in Nat
    BY <1>1
  <2>5. Cardinality(0..position-1) = position
    BY <2>4, IntervalSize
  <2> HIDE DEF c
  <2> QED
    BY <1>1, <1>3, <2>1, <2>2, <2>3, <2>5
<1>5. ASSUME NEW u \in Rows
      PROVE  f[u] = Encode({c.entry[i] : i \in c.open} \cup {f[v] : v \in sees[u]},
                           Cardinality(c.open) + Cardinality(sees[u]), toks[u], positions[u])
  <2> DEFINE b == Base(u)
             k == Cardinality(Sees(u) \ {u})
  <2>1. /\ Prefixes(b) = Prefixes(text) \cup {RowText(v) : v \in Sees(u) \ {u}}
        /\ IsFiniteSet(Sees(u)) /\ Len(b) = Len(text) + Cardinality(Sees(u)) - 1
        /\ Cardinality(Sees(u)) \in 1..u+1
    BY <1>1, RowSeesItsText
  <2>2. u \in Sees(u) /\ Sees(u) \subseteq Rows
    BY <1>1, SeesBelow
  <2>3. k = Cardinality(Sees(u)) - 1
    BY <2>1, <2>2, FS_RemoveElement
  <2>4. Len(text) + k = Len(b)
    BY <1>1, <2>1, <2>3
  <2>5. {f[v] : v \in sees[u]} = {RowText(v) : v \in Sees(u) \ {u}}
    BY <2>2
  <2>6. b \in Seq(Token) /\ RowText(u) = Append(b, RowToken(u)) /\ Len(b) = PositionOf(request, TokenAt(u))
    BY <1>1, RowIs DEF Content
  <2>7. Encode(Prefixes(b), Len(b), RowToken(u), Len(b)) = RowText(u)
    BY <2>6, EncodeText
  <2>8. toks[u] = RowToken(u) /\ positions[u] = Len(b) /\ f[u] = RowText(u) /\ sees[u] = Sees(u) \ {u}
    BY <2>6
  <2> HIDE DEF b, k, c, toks, positions, sees, f
  <2>9. {c.entry[i] : i \in c.open} \cup {f[v] : v \in sees[u]} = Prefixes(b)
    BY <1>4, <2>1, <2>5
  <2>10. Cardinality(c.open) + Cardinality(sees[u]) = Len(b)
    BY <1>4, <2>4, <2>8 DEF k
  <2> QED
    BY <2>7, <2>8, <2>9, <2>10
<1>6. DOMAIN toks = Rows
  OBVIOUS
<1>7. ASSUME NEW u \in Rows PROVE sees[u] \subseteq Rows /\ \A v \in sees[u] : v < u
  <2>1. Sees(u) \subseteq Rows /\ \A v \in Sees(u) : v \in 0..u
    BY <1>1, SeesBelow
  <2>2. u \in Nat /\ sees[u] = Sees(u) \ {u}
    BY <1>1
  <2> QED
    BY <2>1, <2>2
<1>8. f = [u \in Rows |-> f[u]]
  OBVIOUS
<1> HIDE DEF c, toks, positions, sees, f
<1>9. f = Entries(c, toks, positions, sees, f)
  BY <1>5, <1>6, <1>8 DEF Entries
<1>10. Store!Forward(c, toks, positions, sees) = f
  BY <1>1, <1>6, <1>7, <1>9, StoreForwardIs
<1> QED
  BY <1>2, <1>10 DEF c, f

\* What the cache holds has its type.
LEMMA StoredEntries == ASSUME Types PROVE [i \in Past |-> EntryOf(i)] \in [Past -> Content]
<1>1. 1 \in Chunks /\ Garbage \in Content
  BY ConstantTypes, EmptySeq DEF Garbage, Content
<1>2. \A i \in Past : EntryOf(i) \in {cache[1][i], Garbage}
  BY DEF EntryOf
<1>3. \A i \in Past : cache[1][i] \in Content
  BY <1>1 DEF Types, TypeOK
<1> QED
  BY <1>1, <1>2, <1>3

LEMMA KeepIsEvaluate == ASSUME PassInv, PassInv', Keep PROVE Store!Evaluate
<1> DEFINE n == Batch.step
           I == position .. position + n - 1
           entry == [i \in Past |-> EntryOf(i)]
           row == [u \in Rows |-> RowText(u)]
           new == [i \in Past |-> IF i \in I THEN row[i - position] ELSE entry[i]]
<1>1. /\ Types /\ HoldInv /\ CallInv /\ RowInv /\ Calling /\ pc # "load" /\ pc' # "load"
      /\ stage = NChunks + 1 /\ position + n <= CacheSize /\ position' = position + n
      /\ cache' = [c \in Chunks |-> [i \in Past |-> IF i \in I THEN keys[c][i - position]
                                                             ELSE cache[c][i]]]
  BY DEF PassInv, RowInv, Keep, HasRoom, Calling
<1>2. /\ n \in Nat \ {0} /\ Rows = 0..n-1 /\ position \in 0..CacheSize /\ CacheSize \in Nat
      /\ batches # <<>> /\ 1 \in Chunks
  <2>1. BatchOk(Batch, Len(request.tokens))
    BY <1>1, CallFacts
  <2> QED
    BY <1>1, <2>1, ConstantTypes DEF BatchOk, Rows, CallInv, Types, TypeOK
<1>3. Stored = StoredAt(position, entry) /\ entry \in [Past -> Content]
  BY <1>1, StoredIs, StoredEntries
<1>4. Cardinality(DOMAIN BatchAtHand.tokens) = n
  <2>1. DOMAIN BatchAtHand.tokens = Rows
    BY <1>2 DEF BatchAtHand
  <2>2. Cardinality(0..n-1) = n
    BY <1>2, IntervalSize
  <2> QED
    BY <1>2, <2>1, <2>2
<1>5. Fits(Stored, n)
  BY <1>1, <1>3 DEF Fits, StoredAt
<1>6. Stored' = StoredAt(position + n, new)
  <2>1. \A c \in Chunks, u \in Rows : keys[c][u] = RowText(u)
    <3>1. \A c \in Chunks : c \in 1..stage-1
      BY <1>1, ConstantTypes DEF Chunks
    <3>2. pc = "save"
      BY DEF Keep
    <3> QED
      BY <1>1, <3>1, <3>2 DEF RowInv
  <2>2. \A i \in I : i - position \in Rows
    BY <1>2
  <2> HIDE DEF I
  <2>3. ASSUME NEW i \in Past PROVE EntryOf(i)' = new[i]
    <3>1. CASE i \in I
      <4>1. \A c \in Chunks : cache'[c][i] = row[i - position]
        BY <1>1, <2>1, <2>2, <3>1
      <4>2. EntryOf(i)' = row[i - position]
        BY <1>2, <4>1 DEF EntryOf
      <4> QED
        BY <3>1, <4>2
    <3>2. CASE i \notin I
      <4>1. \A c \in Chunks : cache'[c][i] = cache[c][i]
        BY <1>1, <3>2
      <4>2. EntryOf(i)' = EntryOf(i)
        BY <1>2, <4>1 DEF EntryOf
      <4> QED
        BY <3>2, <4>2
    <3> QED
      BY <3>1, <3>2
  <2>4. Stored' = StoredAt(position', [i \in Past |-> EntryOf(i)'])
    BY <1>1, StoredNext DEF PassInv
  <2>5. new = [i \in Past |-> new[i]]
    OBVIOUS
  <2> HIDE DEF new
  <2>6. [i \in Past |-> EntryOf(i)'] = new
    BY <2>3, <2>5
  <2> QED
    BY <1>1, <2>4, <2>6
<1>7. Store!Forward(Stored, BatchAtHand.tokens, BatchAtHand.positions, BatchAtHand.sees) = row
  BY <1>1, BatchForward
<1> HIDE DEF row, entry
<1>8. AdvanceTokens(SaveTokens(Stored, row, n), n) = StoredAt(position + n, new)
  <2>1. n \in Nat
    BY <1>2
  <2> HIDE DEF n
  <2> QED
    BY <1>2, <1>3, <2>1, StoredAppended
<1> HIDE DEF new, n
<1>9. Stored' = AdvanceTokens(SaveTokens(Stored, row, n), n) /\ Fits(Stored, n)
  BY <1>5, <1>6, <1>8
<1> QED
  BY <1>4, <1>7, <1>9, SameOperators DEF Store!Evaluate

LEMMA GivingBackIsRollback ==
  ASSUME PassInv, PassInv', Reset \/ \E n \in 1..position : Rollback(n)
  PROVE  Store!Rollback
<1> DEFINE entry == [i \in Past |-> EntryOf(i)]
<1>1. PICK n \in 1..position : GiveBack(n)
  BY GivesBack
<1>2. pc = "idle" /\ pc' = "idle" /\ cache' = cache /\ position' = position - n
  BY <1>1 DEF GiveBack
<1>3. position \in 0..CacheSize
  BY DEF PassInv, Types, TypeOK
<1>4. Stored = StoredAt(position, entry)
  BY <1>2, StoredIs DEF PassInv
<1>5. \A i : EntryOf(i)' = EntryOf(i)
  BY <1>2 DEF EntryOf
<1>6. Stored' = StoredAt(position', [i \in Past |-> EntryOf(i)'])
  BY <1>2, StoredNext DEF PassInv
<1>7. Stored' = StoredAt(position - n, entry)
  BY <1>2, <1>5, <1>6
<1> HIDE DEF entry
<1>8. RollbackTokens(Stored, n) = StoredAt(position - n, entry)
  BY <1>3, <1>4, StoredShortened
<1>9. Stored.position = position
  BY <1>4 DEF StoredAt
<1> QED
  BY <1>7, <1>8, <1>9, SameOperators DEF Store!Rollback

LEMMA LoadedFirst == ASSUME Init PROVE Store!Preloaded(SystemPrompt)
<1>1. Stored.position = Len(SystemPrompt) /\ Stored.open = 0..Len(SystemPrompt)-1
  BY DEF Init, Stored
<1>2. \A i \in 0..Len(SystemPrompt)-1 : Stored.entry[i] = SubSeq(SystemPrompt, 1, i+1)
  <2>1. \A i \in 0..Len(SystemPrompt)-1 : i \in Past /\ i < Len(SystemPrompt)
    BY ConstantTypes DEF Past
  <2>2. Stored.entry = [i \in Past |-> IF i < Len(SystemPrompt)
                                       THEN SubSeq(SystemPrompt, 1, i+1) ELSE Garbage]
    BY DEF Init, Stored
  <2> QED
    BY <2>1, <2>2
<1> QED
  BY <1>1, <1>2 DEF Store!Preloaded

\* The chunks, the graphs of several sizes and the buffers they share do not show:
\* to its callers the backend is one cache, and forward() does to it what a pass over
\* the batches does (QNNBackend::forward, save_kv, rollback_tokens).
THEOREM BackendImplementsStore == Spec => ImplementsCacheStore
<1>1. Init => Store!Preloaded(SystemPrompt)
  BY LoadedFirst
<1>2. PassInv /\ PassInv' /\ [Next]_vars => [Store!Evaluate \/ Store!Rollback]_Stored
  <2> SUFFICES ASSUME PassInv, PassInv', [Next]_vars
               PROVE  Store!Evaluate \/ Store!Rollback \/ Stored' = Stored
    OBVIOUS
  <2>1. CASE Load
    BY <2>1, LoadingIsStuttering
  <2>2. CASE Keep
    BY <2>2, KeepIsEvaluate
  <2>3. CASE Reset \/ \E n \in 1..position : Rollback(n)
    BY <2>3, GivingBackIsRollback
  <2>4. CASE Ask \/ Fill \/ Execute \/ ExecuteFails \/ ComputeLogits \/ KeepFails
    <3>1. pc # "load" /\ pc' # "load" /\ UNCHANGED <<cache, position>>
      BY <2>4 DEF Ask, Call, Fill, Execute, ExecuteFails, ComputeLogits, KeepFails, Throw, cacheVars
    <3> QED
      BY <3>1, ComputingIsStuttering
  <2>5. CASE UNCHANGED vars
    <3>1. UNCHANGED <<pc, cache, position, bias>>
      BY <2>5 DEF vars, cacheVars
    <3> QED
      BY <3>1 DEF Stored, EntryOf
  <2> QED
    BY <2>1, <2>2, <2>3, <2>4, <2>5 DEF Next, Evaluate
<1> QED
  BY <1>1, <1>2, PassInvariant, PTL DEF Spec, ImplementsCacheStore
=============================================================================
