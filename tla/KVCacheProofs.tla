----------------------------- MODULE KVCacheProofs -----------------------------
(***************************************************************************)
(* Lemmas about KVCache, for caches of any size: what its operations do to *)
(* the position and the attention mask, what a forward pass computes from  *)
(* a cache and a batch, and when a cache holds a text. A forward pass is a *)
(* recursive function over its batch; that it computes what it should is   *)
(* shown by the least token for which it would not.                        *)
(***************************************************************************)
EXTENDS KVCache, SequenceTheorems, FiniteSetTheorems, WellFoundedInduction, TLAPS

\* A cache of the given size that shows attention nothing at or after position.
\* What the entries hold is of no concern here.
Sound(kv, size) ==
  /\ kv \in [size : {size}, position : 0..size, open : SUBSET Nat, entry : {kv.entry}]
  /\ kv.open \subseteq 0..kv.position-1

\* Writing entries changes neither position nor mask.
LEMMA SaveTokensSound ==
  ASSUME NEW size \in Nat, NEW kv, Sound(kv, size), NEW batch, NEW n
  PROVE  /\ Sound(SaveTokens(kv, batch, n), size)
         /\ SaveTokens(kv, batch, n).position = kv.position
  BY DEF Sound, SaveTokens

LEMMA MoveSound ==
  ASSUME NEW size \in Nat, NEW kv, Sound(kv, size), NEW dst, NEW src
  PROVE  /\ Sound(Move(kv, dst, src), size)
         /\ Move(kv, dst, src).position = kv.position
  BY DEF Sound, Move

LEMMA CopySound ==
  ASSUME NEW size \in Nat, NEW kv, Sound(kv, size), NEW dst, NEW batch, NEW u
  PROVE  /\ Sound(Copy(kv, dst, batch, u), size)
         /\ Copy(kv, dst, batch, u).position = kv.position
  BY DEF Sound, Copy

\* Advancing opens what it passes, as long as it fits.
LEMMA AdvanceTokensSound ==
  ASSUME NEW size \in Nat, NEW kv, Sound(kv, size), NEW n \in Nat, Fits(kv, n)
  PROVE  /\ Sound(AdvanceTokens(kv, n), size)
         /\ AdvanceTokens(kv, n).position = kv.position + n
<1> DEFINE open == kv.open \cup (kv.position .. kv.position + n - 1)
           position == kv.position + n
<1>1. AdvanceTokens(kv, n) = [[kv EXCEPT !.open = open] EXCEPT !.position = position]
  BY DEF Sound, AdvanceTokens, UnmaskTokens
<1>2. open \subseteq 0..position-1 /\ open \subseteq Nat
  BY DEF Sound
<1>3. position \in 0..size
  BY DEF Sound, Fits
<1> HIDE DEF open, position
<1>4. Sound(AdvanceTokens(kv, n), size) /\ AdvanceTokens(kv, n).position = position
  BY <1>1, <1>2, <1>3 DEF Sound
<1> QED
  BY <1>4 DEF position

\* Rolling back closes all it gives back.
LEMMA RollbackTokensSound ==
  ASSUME NEW size \in Nat, NEW kv, Sound(kv, size), NEW n \in 0..kv.position
  PROVE  /\ Sound(RollbackTokens(kv, n), size)
         /\ RollbackTokens(kv, n).position = kv.position - n
<1> DEFINE open == kv.open \ (kv.position - n .. kv.position - 1)
           position == kv.position - n
<1>1. RollbackTokens(kv, n) = [kv EXCEPT !.position = position, !.open = open]
  BY DEF RollbackTokens
<1>2. open \subseteq 0..position-1 /\ open \subseteq Nat
  BY DEF Sound
<1>3. position \in 0..size
  BY DEF Sound
<1> HIDE DEF open, position
<1>4. Sound(RollbackTokens(kv, n), size) /\ RollbackTokens(kv, n).position = position
  BY <1>1, <1>2, <1>3 DEF Sound
<1> QED
  BY <1>4 DEF position

LEMMA TruncateTokensSound ==
  ASSUME NEW size \in Nat, NEW kv, Sound(kv, size), NEW n \in Nat
  PROVE  Sound(TruncateTokens(kv, n), size)
<1>1. CASE n < kv.position
  <2>1. kv.position - n \in 0..kv.position
    BY <1>1 DEF Sound
  <2> QED
    BY <2>1, <1>1, RollbackTokensSound DEF TruncateTokens
<1>2. CASE ~(n < kv.position)
  BY <1>2 DEF TruncateTokens
<1> QED
  BY <1>1, <1>2

\* unmask() refuses an entry at or after position.
LEMMA MaskSound ==
  ASSUME NEW size \in Nat, NEW kv, Sound(kv, size), NEW I
  PROVE  Sound(Mask(kv, I), size) /\ Mask(kv, I).position = kv.position
<1>1. Mask(kv, I) =
        [size |-> size, position |-> kv.position, open |-> kv.open \ I, entry |-> kv.entry]
  BY DEF Sound, Mask
<1>2. kv.open \ I \subseteq 0..kv.position-1
  BY DEF Sound
<1> QED
  BY <1>1, <1>2 DEF Sound

LEMMA UnmaskSound ==
  ASSUME NEW size \in Nat, NEW kv, Sound(kv, size), NEW I, \A i \in I : InUse(kv, i)
  PROVE  Sound(Unmask(kv, I), size) /\ Unmask(kv, I).position = kv.position
<1>1. Unmask(kv, I) =
        [size |-> size, position |-> kv.position, open |-> kv.open \cup I, entry |-> kv.entry]
  BY DEF Sound, Unmask
<1>2. kv.open \cup I \subseteq 0..kv.position-1
  BY DEF Sound, InUse
<1> QED
  BY <1>1, <1>2 DEF Sound

\* A one-token forward pass on a cache that has room
LEMMA ForwardOneSound ==
  ASSUME NEW size \in Nat, NEW kv, Sound(kv, size), Fits(kv, 1), NEW t, NEW position
  PROVE  /\ Sound(ForwardOne(kv, t, position), size)
         /\ ForwardOne(kv, t, position).position = kv.position + 1
<1> DEFINE content == Forward(kv, [u \in {0} |-> t], [u \in {0} |-> position], Causal(1))
           saved == SaveTokens(kv, content, 1)
<1>1. Sound(saved, size) /\ saved.position = kv.position
  BY SaveTokensSound
<1>2. Fits(saved, 1)
  BY <1>1 DEF Fits, Sound
<1> HIDE DEF saved
<1>3. /\ Sound(AdvanceTokens(saved, 1), size)
      /\ AdvanceTokens(saved, 1).position = kv.position + 1
  BY <1>1, <1>2, AdvanceTokensSound
<1> QED
  BY <1>3 DEF ForwardOne, saved

\* A whole batch saved and advanced over
LEMMA AppendBatchSound ==
  ASSUME NEW size \in Nat, NEW c, Sound(c, size), NEW n \in Nat, Fits(c, n), NEW b
  PROVE  /\ Sound(AdvanceTokens(SaveTokens(c, b, n), n), size)
         /\ AdvanceTokens(SaveTokens(c, b, n), n).position = c.position + n
<1> DEFINE saved == SaveTokens(c, b, n)
<1>1. Sound(saved, size) /\ saved.position = c.position
  BY SaveTokensSound
<1>2. Fits(saved, n)
  BY <1>1 DEF Fits, Sound
<1> HIDE DEF saved
<1>3. /\ Sound(AdvanceTokens(saved, n), size)
      /\ AdvanceTokens(saved, n).position = c.position + n
  BY <1>1, <1>2, AdvanceTokensSound
<1> QED
  BY <1>3 DEF saved

----------------------------------------------------------------------------
(* Induction over numbers: what fails, fails first for the least of them. *)

\* Every set of numbers that is not empty has a least element.
LEMMA LeastElement ==
  ASSUME NEW T, T \subseteq Nat, T # {}
  PROVE  \E x \in T : \A y \in T : x <= y
<1>1. IsWellFoundedOn(OpToRel(<, Nat), Nat)
  BY NatLessThanWellFounded
<1>2. PICK x \in T : \A y \in T : ~(<<y, x>> \in OpToRel(<, Nat))
  BY <1>1, WFMin
<1>3. \A y \in T : ~(y < x)
  BY <1>2 DEF OpToRel
<1> QED
  BY <1>3

----------------------------------------------------------------------------
(* Sequences *)

LEMMA ConcatAppend ==
  ASSUME NEW S, NEW s \in Seq(S), NEW u \in Seq(S), NEW t \in S
  PROVE  s \o Append(u, t) = Append(s \o u, t)
<1>1. <<t>> \in Seq(S)
  OBVIOUS
<1>2. s \o Append(u, t) = s \o (u \o <<t>>)
  BY AppendIsConcat
<1>3. Append(s \o u, t) = (s \o u) \o <<t>>
  BY ConcatProperties, AppendIsConcat
<1> QED
  BY <1>1, <1>2, <1>3, ConcatAssociative

LEMMA HeadThenTail ==
  ASSUME NEW S, NEW u \in Seq(S), u # <<>>
  PROVE  Head(u) \in S /\ Tail(u) \in Seq(S) /\ <<Head(u)>> \o Tail(u) = u
<1>1. /\ Head(u) \in S /\ Tail(u) \in Seq(S) /\ Len(Tail(u)) = Len(u) - 1
      /\ \A i \in 1..Len(Tail(u)) : Tail(u)[i] = u[i+1]
  BY HeadTailProperties
<1>2. Len(u) \in Nat \ {0} /\ Head(u) = u[1]
  <2>1. Len(u) \in Nat \ {0}
    BY EmptySeq
  <2> QED
    BY <2>1
<1> DEFINE h == <<Head(u)>>
<1>3. h \in Seq(S) /\ Len(h) = 1 /\ h[1] = u[1]
  BY <1>1, <1>2
<1> HIDE DEF h
<1>4. /\ h \o Tail(u) \in Seq(S) /\ Len(h \o Tail(u)) = Len(u)
      /\ \A i \in 1..Len(u) : (h \o Tail(u))[i] = IF i <= 1 THEN h[i] ELSE Tail(u)[i - 1]
  <2>1. /\ h \o Tail(u) \in Seq(S) /\ Len(h \o Tail(u)) = Len(h) + Len(Tail(u))
        /\ \A i \in 1..Len(h) + Len(Tail(u)) :
             (h \o Tail(u))[i] = IF i <= Len(h) THEN h[i] ELSE Tail(u)[i - Len(h)]
    <3> DEFINE v == Tail(u)
    <3>1. h \in Seq(S) /\ v \in Seq(S)
      BY <1>1, <1>3
    <3> HIDE DEF v
    <3>2. /\ h \o v \in Seq(S) /\ Len(h \o v) = Len(h) + Len(v)
          /\ \A i \in 1..Len(h) + Len(v) :
               (h \o v)[i] = IF i <= Len(h) THEN h[i] ELSE v[i - Len(h)]
      BY <3>1, ConcatProperties
    <3> QED
      BY <3>2 DEF v
  <2>2. Len(h) + Len(Tail(u)) = Len(u)
    BY <1>1, <1>2, <1>3
  <2> QED
    BY <2>1, <2>2, <1>3
<1>5. ASSUME NEW i \in 1..Len(u) PROVE (h \o Tail(u))[i] = u[i]
  <2>1. CASE i = 1
    BY <2>1, <1>2, <1>3, <1>4
  <2>2. CASE i # 1
    <3>1. i - 1 \in 1..Len(Tail(u)) /\ (i - 1) + 1 = i
      BY <2>2, <1>1, <1>2
    <3>2. Tail(u)[i - 1] = u[i]
      BY <3>1, <1>1
    <3> QED
      BY <3>2, <2>2, <1>2, <1>4
  <2> QED
    BY <2>1, <2>2
<1>6. h \o Tail(u) = u
  BY <1>4, <1>5, SeqEqual
<1> QED
  BY <1>1, <1>6 DEF h

\* Moving the head of one sequence to the end of another
LEMMA PassOn ==
  ASSUME NEW S, NEW s \in Seq(S), NEW u \in Seq(S), u # <<>>
  PROVE  Append(s, Head(u)) \o Tail(u) = s \o u
<1>1. Head(u) \in S /\ Tail(u) \in Seq(S) /\ <<Head(u)>> \o Tail(u) = u
  BY HeadThenTail
<1>2. <<Head(u)>> \in Seq(S)
  BY <1>1
<1>3. Append(s, Head(u)) = s \o <<Head(u)>>
  BY <1>1, AppendIsConcat
<1>4. (s \o <<Head(u)>>) \o Tail(u) = s \o (<<Head(u)>> \o Tail(u))
  BY <1>1, <1>2, ConcatAssociative
<1> QED
  BY <1>1, <1>3, <1>4

----------------------------------------------------------------------------
(* Beginnings of sequences *)

\* The first n elements of s
Take(s, n) == SubSeq(s, 1, n)

\* What Take() returns
LEMMA TakeProperties ==
  ASSUME NEW S, NEW s \in Seq(S), NEW n \in 0..Len(s)
  PROVE  /\ Take(s, n) \in Seq(S) /\ Len(Take(s, n)) = n
         /\ \A i \in 1..n : Take(s, n)[i] = s[i]
<1>1. Len(s) \in Nat /\ \A i \in 1..n : s[i] \in S
  BY ElementOfSeq, LenProperties
<1>2. n \in Int /\ 1 \in Int
  BY <1>1
<1>3. /\ SubSeq(s, 1, n) \in Seq(S)
      /\ Len(SubSeq(s, 1, n)) = IF 1 <= n THEN n-1+1 ELSE 0
      /\ \A i \in 1 .. n-1+1 : SubSeq(s, 1, n)[i] = s[1+i-1]
  BY <1>1, <1>2, SubSeqProperties
<1> DEFINE taken == SubSeq(s, 1, n)
<1> HIDE DEF taken
<1>4. taken \in Seq(S) /\ Len(taken) = n /\ \A i \in 1..n : taken[i] = s[i]
  BY <1>1, <1>3 DEF taken
<1> QED
  BY <1>4 DEF taken, Take

\* A beginning of a beginning
LEMMA TakeTake ==
  ASSUME NEW S, NEW s \in Seq(S), NEW n \in 0..Len(s), NEW m \in 0..n
  PROVE  Take(Take(s, n), m) = Take(s, m)
<1>1. Len(s) \in Nat /\ m \in 0..Len(s)
  BY LenProperties
<1>2. /\ Take(s, n) \in Seq(S) /\ Len(Take(s, n)) = n
      /\ \A i \in 1..n : Take(s, n)[i] = s[i]
  BY TakeProperties
<1>3. /\ Take(s, m) \in Seq(S) /\ Len(Take(s, m)) = m
      /\ \A i \in 1..m : Take(s, m)[i] = s[i]
  BY <1>1, TakeProperties
<1> DEFINE u == Take(s, n)
           v == Take(u, m)
<1>4. v \in Seq(S) /\ Len(v) = m /\ \A i \in 1..m : v[i] = u[i]
  <2> HIDE DEF u
  <2> QED
    BY <1>2, TakeProperties DEF u
<1> HIDE DEF u, v
<1>5. \A i \in 1..m : v[i] = Take(s, m)[i]
  BY <1>1, <1>2, <1>3, <1>4 DEF u
<1> QED
  BY <1>3, <1>4, <1>5, SeqEqual DEF u, v

LEMMA TakeAll ==
  ASSUME NEW S, NEW s \in Seq(S) PROVE Take(s, Len(s)) = s
  BY SubSeqFull DEF Take

\* What is appended does not change a beginning.
LEMMA TakeAppend ==
  ASSUME NEW S, NEW s \in Seq(S), NEW t \in S, NEW n \in 0..Len(s)
  PROVE  Take(Append(s, t), n) = Take(s, n)
<1>1. /\ Append(s, t) \in Seq(S) /\ Len(Append(s, t)) = Len(s) + 1 /\ Len(s) \in Nat
      /\ \A i \in 1..Len(s) : Append(s, t)[i] = s[i]
  BY AppendProperties, LenProperties
<1> DEFINE u == Append(s, t)
<1> HIDE DEF u
<1>2. n \in 0..Len(u)
  BY <1>1 DEF u
<1>3. /\ Take(u, n) \in Seq(S) /\ Len(Take(u, n)) = n /\ \A i \in 1..n : Take(u, n)[i] = u[i]
  BY <1>1, <1>2, TakeProperties DEF u
<1>4. /\ Take(s, n) \in Seq(S) /\ Len(Take(s, n)) = n /\ \A i \in 1..n : Take(s, n)[i] = s[i]
  BY TakeProperties
<1>5. \A i \in 1..n : Take(u, n)[i] = Take(s, n)[i]
  BY <1>1, <1>3, <1>4 DEF u
<1>6. Take(u, n) = Take(s, n)
  BY <1>3, <1>4, <1>5, SeqEqual
<1> QED
  BY <1>6 DEF u

LEMMA TakeOneMore ==
  ASSUME NEW S, NEW s \in Seq(S), NEW n \in 0..Len(s)-1
  PROVE  Take(s, n+1) = Append(Take(s, n), s[n+1])
<1>1. Len(s) \in Nat /\ n \in 0..Len(s) /\ n+1 \in 1..Len(s) /\ n+1 \in 0..Len(s) /\ n \in Nat
  BY LenProperties
<1> DEFINE u == Take(s, n)
           v == Take(s, n+1)
<1>2. u \in Seq(S) /\ Len(u) = n /\ \A i \in 1..n : u[i] = s[i]
  BY <1>1, TakeProperties
<1>3. v \in Seq(S) /\ Len(v) = n+1 /\ \A i \in 1..n+1 : v[i] = s[i]
  BY <1>1, TakeProperties
<1>4. s[n+1] \in S
  BY <1>1, ElementOfSeq
<1> HIDE DEF u, v
<1> DEFINE w == Append(u, s[n+1])
<1>5. w \in Seq(S) /\ Len(w) = n+1 /\ \A i \in 1..n : w[i] = u[i]
  BY <1>2, <1>4, AppendProperties
<1>6. w[n+1] = s[n+1]
  BY <1>2, <1>4, AppendProperties
<1> HIDE DEF w
<1>7. \A i \in 1..n+1 : v[i] = w[i]
  BY <1>1, <1>2, <1>3, <1>5, <1>6
<1>8. v = w
  BY <1>3, <1>5, <1>7, SeqEqual
<1> QED
  BY <1>8 DEF u, v, w

\* The prefixes of a beginning, and of a sequence one longer
LEMMA PrefixesOfTake ==
  ASSUME NEW S, NEW s \in Seq(S), NEW n \in 0..Len(s)
  PROVE  Prefixes(Take(s, n)) = {Take(s, i) : i \in 1..n}
<1>1. Len(Take(s, n)) = n /\ Len(s) \in Nat
  BY TakeProperties, LenProperties
<1>2. \A i \in 1..n : SubSeq(Take(s, n), 1, i) = Take(s, i)
  BY <1>1, TakeTake DEF Take
<1> QED
  BY <1>1, <1>2 DEF Prefixes

LEMMA PrefixesOfAppend ==
  ASSUME NEW S, NEW s \in Seq(S), NEW t \in S
  PROVE  Prefixes(Append(s, t)) = Prefixes(s) \cup {Append(s, t)}
<1> DEFINE u == Append(s, t)
<1>1. u \in Seq(S) /\ Len(u) = Len(s) + 1 /\ Len(s) \in Nat
  BY AppendProperties, LenProperties
<1>2. \A i \in 1..Len(s) : Take(u, i) = Take(s, i)
  BY <1>1, TakeAppend
<1>3. Take(u, Len(u)) = u
  BY <1>1, TakeAll
<1> HIDE DEF u
<1>4. 1..Len(u) = 1..Len(s) \cup {Len(u)}
  BY <1>1
<1>5. Prefixes(u) = {Take(u, i) : i \in 1..Len(u)} /\ Prefixes(s) = {Take(s, i) : i \in 1..Len(s)}
  BY DEF Prefixes, Take
<1>6. Prefixes(u) = Prefixes(s) \cup {u}
  BY <1>2, <1>3, <1>4, <1>5
<1> QED
  BY <1>6 DEF u

----------------------------------------------------------------------------
(* Forward passes *)

\* A token that sees exactly the prefixes of s gets an entry for s and itself.
LEMMA EncodeText ==
  ASSUME NEW S, NEW s \in Seq(S), NEW t
  PROVE  Encode(Prefixes(s), Len(s), t, Len(s)) = Append(s, t)
<1> DEFINE complete ==
             {u \in Prefixes(s) \cup {Garbage} : Len(u) = Len(s) /\ Prefixes(s) = Prefixes(u)}
<1>1. Len(s) \in Nat
  BY LenProperties
<1>2. \A u \in Prefixes(s) : u \in Seq(S) /\ (Len(u) = Len(s) => u = s)
  <2>1. \A i \in 1..Len(s) : Len(Take(s, i)) = i /\ Take(s, i) \in Seq(S)
    BY <1>1, TakeProperties
  <2>2. Take(s, Len(s)) = s
    BY TakeAll
  <2>3. Prefixes(s) = {Take(s, i) : i \in 1..Len(s)}
    BY DEF Prefixes, Take
  <2> QED
    BY <2>1, <2>2, <2>3
<1>3. complete = {s}
  <2>1. s \in complete
    <3>1. CASE Len(s) = 0
      BY <3>1, EmptySeq DEF Garbage
    <3>2. CASE Len(s) # 0
      <4>1. Len(s) \in 1..Len(s)
        BY <1>1, <3>2
      <4>2. SubSeq(s, 1, Len(s)) = s
        BY TakeAll, Zenon DEF Take
      <4>3. s \in Prefixes(s)
        BY <4>1, <4>2, Zenon DEF Prefixes
      <4> QED
        BY <4>3
    <3> QED
      BY <3>1, <3>2
  <2>2. ASSUME NEW u \in complete PROVE u = s
    <3>1. CASE u \in Prefixes(s)
      BY <1>2, <2>2, <3>1
    <3>2. CASE u = Garbage
      <4>1. Len(s) = 0
        BY <2>2, <3>2, EmptySeq DEF Garbage
      <4> QED
        BY <3>2, <4>1, EmptySeq DEF Garbage
    <3> QED
      BY <2>2, <3>1, <3>2
  <2> QED
    BY <2>1, <2>2
<1>4. Encode(Prefixes(s), Len(s), t, Len(s)) =
        CHOOSE e \in {IF Len(s) = Len(s) /\ complete # {}
                      THEN Append(CHOOSE u \in complete : TRUE, t) ELSE Garbage} : TRUE
  BY DEF Encode
<1>5. complete # {} /\ (CHOOSE u \in complete : TRUE) = s
  BY <1>3
<1> HIDE DEF complete
<1> QED
  BY <1>4, <1>5

\* Whatever a token sees, its entry is a sequence of tokens.
LEMMA EncodeType ==
  ASSUME NEW seen \in SUBSET Content, NEW n, NEW t \in Token, NEW position
  PROVE  Encode(seen, n, t, position) \in Content
<1> DEFINE complete == {s \in seen \cup {Garbage} : Len(s) = position /\ seen = Prefixes(s)}
           entry == IF n = position /\ complete # {}
                    THEN Append(CHOOSE s \in complete : TRUE, t) ELSE Garbage
<1>1. Garbage \in Content
  BY EmptySeq DEF Garbage, Content
<1>2. complete \subseteq Content
  BY <1>1
<1>3. entry \in Content
  <2>1. ASSUME complete # {} PROVE Append(CHOOSE s \in complete : TRUE, t) \in Content
    <3> DEFINE s == CHOOSE s \in complete : TRUE
    <3>1. s \in Content
      BY <1>2, <2>1
    <3> HIDE DEF s
    <3>2. Append(s, t) \in Content
      BY <3>1, AppendProperties DEF Content
    <3> QED
      BY <3>2 DEF s
  <2> HIDE DEF complete
  <2> QED
    BY <1>1, <2>1
<1>4. Encode(seen, n, t, position) = CHOOSE e \in {entry} : TRUE
  BY DEF Encode
<1> HIDE DEF entry
<1> QED
  BY <1>3, <1>4

\* The entries of a batch, as one equation
Entries(cache, toks, positions, sees, f) ==
  [u \in DOMAIN toks |->
     Encode({cache.entry[i] : i \in cache.open} \cup {f[v] : v \in sees[u]},
            Cardinality(cache.open) + Cardinality(sees[u]), toks[u], positions[u])]

\* Forward() computes the only solution.
LEMMA ForwardIs ==
  ASSUME NEW cache, NEW toks, NEW positions, NEW sees, NEW D \in SUBSET Nat, DOMAIN toks = D,
         \A u \in D : sees[u] \subseteq D /\ \A v \in sees[u] : v < u,
         NEW f, f = Entries(cache, toks, positions, sees, f)
  PROVE  Forward(cache, toks, positions, sees) = f
<1> DEFINE g == CHOOSE g : g = Entries(cache, toks, positions, sees, g)
<1>1. Forward(cache, toks, positions, sees) = g
  BY DEF Forward, Entries
<1>2. g = Entries(cache, toks, positions, sees, g)
  OBVIOUS
<1> HIDE DEF g
<1>3. ASSUME NEW u \in D, \A v \in D : v < u => g[v] = f[v] PROVE g[u] = f[u]
  <2>1. {g[v] : v \in sees[u]} = {f[v] : v \in sees[u]}
    BY <1>3
  <2>2. /\ g[u] = Entries(cache, toks, positions, sees, g)[u]
        /\ f[u] = Entries(cache, toks, positions, sees, f)[u]
    BY <1>2
  <2> QED
    BY <2>1, <2>2 DEF Entries
<1> DEFINE differ == {u \in D : g[u] # f[u]}
<1>4. ASSUME differ # {} PROVE FALSE
  <2>1. differ \subseteq Nat
    OBVIOUS
  <2>2. PICK u \in differ : \A v \in differ : u <= v
    BY <1>4, <2>1, LeastElement
  <2>3. ASSUME NEW v \in D, v < u PROVE g[v] = f[v]
    <3>1. v \in Nat /\ u \in Nat /\ ~(u <= v)
      BY <2>1, <2>3
    <3>2. v \notin differ
      BY <2>2, <3>1
    <3> QED
      BY <3>2
  <2>4. u \in D /\ g[u] # f[u]
    OBVIOUS
  <2> HIDE DEF differ
  <2> QED
    BY <1>3, <2>3, <2>4
<1>5. g = [u \in D |-> g[u]] /\ f = [u \in D |-> f[u]]
  BY <1>2 DEF Entries
<1>6. \A u \in D : g[u] = f[u]
  BY <1>4
<1> QED
  BY <1>1, <1>5, <1>6

----------------------------------------------------------------------------
(* What the operations of a cache leave in it *)

Entry(size) == [0..size-1 -> Content]

\* A batch goes into the entries after the position; the others stay.
LEMMA SaveTokensEntries ==
  ASSUME NEW size \in Nat, NEW c, Sound(c, size), c.entry \in Entry(size), NEW b, NEW n \in Nat,
         Fits(c, n), \A u \in 0..n-1 : b[u] \in Content
  PROVE  /\ SaveTokens(c, b, n).entry \in Entry(size) /\ SaveTokens(c, b, n).open = c.open
         /\ \A i \in 0..size-1 :
              SaveTokens(c, b, n).entry[i] =
                IF i \in c.position..c.position + n - 1 THEN b[i - c.position] ELSE c.entry[i]
<1> DEFINE entry == [i \in DOMAIN c.entry |-> IF i \in c.position..c.position + n - 1
                                              THEN b[i - c.position] ELSE c.entry[i]]
<1>1. SaveTokens(c, b, n) = [c EXCEPT !.entry = entry]
  BY DEF SaveTokens
<1>2. entry = [i \in 0..size-1 |-> IF i \in c.position..c.position + n - 1
                                   THEN b[i - c.position] ELSE c.entry[i]]
  BY DEF Entry
<1>3. entry \in Entry(size)
  <2>1. ASSUME NEW i \in 0..size-1
        PROVE  (IF i \in c.position..c.position + n - 1
                THEN b[i - c.position] ELSE c.entry[i]) \in Content
    <3>1. i \in c.position..c.position + n - 1 => i - c.position \in 0..n-1
      BY DEF Sound
    <3> QED
      BY <3>1 DEF Entry
  <2> QED
    BY <1>2, <2>1 DEF Entry
<1> HIDE DEF entry
<1>4. SaveTokens(c, b, n).entry = entry /\ SaveTokens(c, b, n).open = c.open
  BY <1>1 DEF Sound
<1> QED
  BY <1>2, <1>3, <1>4

\* Advancing, rolling back and masking move no entry.
LEMMA AdvanceTokensEntries ==
  ASSUME NEW size \in Nat, NEW c, Sound(c, size), NEW n \in Nat
  PROVE  /\ AdvanceTokens(c, n).entry = c.entry
         /\ AdvanceTokens(c, n).open = c.open \cup (c.position..c.position + n - 1)
  BY DEF Sound, AdvanceTokens, UnmaskTokens

LEMMA RollbackTokensEntries ==
  ASSUME NEW size \in Nat, NEW c, Sound(c, size), NEW n \in 0..c.position
  PROVE  /\ RollbackTokens(c, n).entry = c.entry
         /\ RollbackTokens(c, n).open = c.open \ (c.position - n .. c.position - 1)
  BY DEF Sound, RollbackTokens

LEMMA MaskEntries ==
  ASSUME NEW size \in Nat, NEW c, Sound(c, size), NEW I
  PROVE  /\ Mask(c, I).entry = c.entry /\ Mask(c, I).open = c.open \ I
         /\ Unmask(c, I).entry = c.entry /\ Unmask(c, I).open = c.open \cup I
  BY DEF Sound, Mask, Unmask

\* One entry is replaced, as by move() and copy().
LEMMA PutEntry ==
  ASSUME NEW size \in Nat, NEW c, Sound(c, size), c.entry \in Entry(size),
         NEW d \in 0..size-1, NEW e \in Content
  PROVE  /\ [c EXCEPT !.entry[d] = e].entry \in Entry(size)
         /\ [c EXCEPT !.entry[d] = e].open = c.open
         /\ \A i \in 0..size-1 :
              [c EXCEPT !.entry[d] = e].entry[i] = IF i = d THEN e ELSE c.entry[i]
<1> DEFINE entry == [c.entry EXCEPT ![d] = e]
<1>1. entry \in Entry(size) /\ \A i \in 0..size-1 : entry[i] = IF i = d THEN e ELSE c.entry[i]
  BY DEF Entry
<1>2. [c EXCEPT !.entry[d] = e] = [c EXCEPT !.entry = entry]
  OBVIOUS
<1> HIDE DEF entry
<1> QED
  BY <1>1, <1>2 DEF Sound

\* One token after a forward pass of its own
Alone(c, t, position) ==
  Encode({c.entry[i] : i \in c.open}, Cardinality(c.open), t, position)

\* A forward pass of one token adds its entry and shows it.
LEMMA ForwardOneEntries ==
  ASSUME NEW size \in Nat, NEW c, Sound(c, size), c.entry \in Entry(size), Fits(c, 1),
         NEW t \in Token, NEW position
  PROVE  /\ ForwardOne(c, t, position).entry \in Entry(size)
         /\ ForwardOne(c, t, position).open = c.open \cup {c.position}
         /\ \A i \in 0..size-1 :
              ForwardOne(c, t, position).entry[i] =
                IF i = c.position THEN Alone(c, t, position) ELSE c.entry[i]
<1> DEFINE toks == [u \in {0} |-> t]
           positions == [u \in {0} |-> position]
           content == Forward(c, toks, positions, Causal(1))
           f == [u \in {0} |-> Alone(c, t, position)]
           saved == SaveTokens(c, content, 1)
<1>1. content = f
  <2>1. {0} \in SUBSET Nat /\ DOMAIN toks = {0} /\ Causal(1)[0] = {}
    BY DEF Causal
  <2>2. Cardinality({}) = 0 /\ Cardinality(c.open) \in Nat
    <3>1. c.open \subseteq 0..c.position-1 /\ c.position \in Nat
      BY DEF Sound
    <3>2. IsFiniteSet(0..c.position-1)
      BY <3>1, FS_Interval
    <3>3. IsFiniteSet(c.open)
      BY <3>1, <3>2, FS_Subset
    <3> QED
      BY <3>3, FS_EmptySet, FS_CardinalityType
  <2>3. f = Entries(c, toks, positions, Causal(1), f)
    <3> DEFINE none == {f[v] : v \in Causal(1)[0]}
    <3>1. none = {}
      BY <2>1
    <3>2. Entries(c, toks, positions, Causal(1), f) =
            [u \in {0} |-> Encode({c.entry[i] : i \in c.open} \cup none,
                                  Cardinality(c.open) + Cardinality(Causal(1)[0]), t, position)]
      BY <2>1 DEF Entries
    <3>3. Cardinality(c.open) + Cardinality(Causal(1)[0]) = Cardinality(c.open)
      BY <2>1, <2>2
    <3>4. {c.entry[i] : i \in c.open} \cup none = {c.entry[i] : i \in c.open}
      BY <3>1
    <3> HIDE DEF none
    <3> QED
      BY <3>2, <3>3, <3>4 DEF Alone
  <2> HIDE DEF f, toks, positions
  <2>4. \A u \in {0} : Causal(1)[u] \subseteq {0} /\ \A v \in Causal(1)[u] : v < u
    BY <2>1
  <2> QED
    BY <2>1, <2>3, <2>4, ForwardIs
<1>2. Alone(c, t, position) \in Content
  <2>1. {c.entry[i] : i \in c.open} \in SUBSET Content
    BY DEF Sound, Entry
  <2> QED
    BY <2>1, EncodeType DEF Alone
<1>3. \A u \in 0..1-1 : content[u] \in Content /\ content[u] = Alone(c, t, position)
  BY <1>1, <1>2
<1> HIDE DEF content
<1>4. Sound(saved, size) /\ saved.position = c.position
  BY SaveTokensSound
<1>5. /\ saved.entry \in Entry(size) /\ saved.open = c.open
      /\ \A i \in 0..size-1 :
           saved.entry[i] = IF i \in c.position..c.position + 1 - 1
                            THEN content[i - c.position] ELSE c.entry[i]
  BY <1>3, SaveTokensEntries
<1>6. c.position \in Nat
  BY DEF Sound
<1> HIDE DEF saved
<1>7. /\ AdvanceTokens(saved, 1).entry = saved.entry
      /\ AdvanceTokens(saved, 1).open = saved.open \cup (saved.position..saved.position + 1 - 1)
  BY <1>4, AdvanceTokensEntries
<1>8. ForwardOne(c, t, position) = AdvanceTokens(saved, 1)
  BY DEF ForwardOne, saved, content
<1>9. \A i \in 0..size-1 :
        saved.entry[i] = IF i = c.position THEN Alone(c, t, position) ELSE c.entry[i]
  BY <1>3, <1>5, <1>6
<1>10. saved.position..saved.position + 1 - 1 = {c.position}
  BY <1>4, <1>6
<1> QED
  BY <1>5, <1>7, <1>8, <1>9, <1>10

\* What attention shows of the cache is exactly the text s.
Shows(c, s) ==
  /\ {c.entry[i] : i \in c.open} = Prefixes(s)
  /\ Cardinality(c.open) = Len(s)

\* A token evaluated behind a text gets the entry of the text and itself.
LEMMA AloneText ==
  ASSUME NEW c, NEW s \in Content, NEW t, Shows(c, s)
  PROVE  Alone(c, t, Len(s)) = Append(s, t)
  BY EncodeText DEF Shows, Alone, Content

\* A cache that shows the first k entries of a text, and nothing else
LEMMA ShowsText ==
  ASSUME NEW c, NEW s \in Content, NEW k \in 0..Len(s), c.open = 0..k-1,
         \A i \in 0..k-1 : c.entry[i] = Take(s, i+1)
  PROVE  Shows(c, Take(s, k))
<1>1. k \in Nat /\ Len(s) \in Nat
  BY LenProperties DEF Content
<1>2. {c.entry[i] : i \in 0..k-1} = {Take(s, i) : i \in 1..k}
  <2> DEFINE held == {c.entry[i] : i \in 0..k-1}
             taken == {Take(s, i) : i \in 1..k}
  <2>1. ASSUME NEW i \in 1..k PROVE Take(s, i) \in held
    <3>1. i-1 \in 0..k-1 /\ (i-1)+1 = i
      BY <1>1
    <3>2. c.entry[i-1] = Take(s, i)
      BY <3>1
    <3> QED
      BY <3>1, <3>2
  <2>2. ASSUME NEW i \in 0..k-1 PROVE c.entry[i] \in taken
    <3>1. i+1 \in 1..k /\ c.entry[i] = Take(s, i+1)
      BY <1>1
    <3> QED
      BY <3>1
  <2>3. taken \subseteq held
    BY <2>1
  <2>4. held \subseteq taken
    BY <2>2
  <2> HIDE DEF held, taken
  <2>5. held = taken
    BY <2>3, <2>4
  <2> QED
    BY <2>5 DEF held, taken
<1>3. Prefixes(Take(s, k)) = {Take(s, i) : i \in 1..k} /\ Len(Take(s, k)) = k
  <2>1. s \in Seq(Token)
    BY DEF Content
  <2>2. Prefixes(Take(s, k)) = {Take(s, i) : i \in 1..k}
    BY <2>1, PrefixesOfTake
  <2>3. Len(Take(s, k)) = k
    BY <2>1, TakeProperties
  <2> QED
    BY <2>2, <2>3
<1>4. Cardinality(0..k-1) = k
  BY <1>1, FS_Interval
<1> QED
  BY <1>2, <1>3, <1>4 DEF Shows

----------------------------------------------------------------------------
(* A text in three parts: system prompt, prompt, and what was generated *)

Joined(s, p, e) == s \o p \o e

\* Where the parts of three joined sequences are
LEMMA JoinedProperties ==
  ASSUME NEW s \in Content, NEW p \in Content, NEW e \in Content
  PROVE  /\ Joined(s, p, e) \in Content
         /\ Len(Joined(s, p, e)) = Len(s) + Len(p) + Len(e)
         /\ Len(p) \in Nat /\ Len(e) \in Nat
         /\ \A i \in 0..Len(s) : Take(Joined(s, p, e), i) = Take(s, i)
         /\ \A i \in 1..Len(p) : Joined(s, p, e)[Len(s) + i] = p[i]
         /\ \A i \in 1..Len(e) : Joined(s, p, e)[Len(s) + Len(p) + i] = e[i]
<1> DEFINE n == Len(s)
           front == s \o p
           all == front \o e
<1>1. /\ s \in Seq(Token) /\ p \in Seq(Token) /\ e \in Seq(Token)
      /\ n \in Nat /\ Len(p) \in Nat /\ Len(e) \in Nat
  BY LenProperties DEF Content
<1>2. /\ front \in Seq(Token) /\ Len(front) = n + Len(p)
      /\ \A i \in 1..n + Len(p) : front[i] = IF i <= n THEN s[i] ELSE p[i - n]
  BY <1>1, ConcatProperties
<1> HIDE DEF front
<1>3. /\ all \in Seq(Token) /\ Len(all) = Len(front) + Len(e)
      /\ \A i \in 1..Len(front) + Len(e) :
           all[i] = IF i <= Len(front) THEN front[i] ELSE e[i - Len(front)]
  <2>1. front \in Seq(Token) /\ e \in Seq(Token)
    BY <1>1, <1>2
  <2> QED
    BY <2>1, ConcatProperties
<1> HIDE DEF all
<1>4. ASSUME NEW i \in 0..n PROVE Take(all, i) = Take(s, i)
  <2>1. /\ Take(all, i) \in Seq(Token) /\ Len(Take(all, i)) = i
        /\ \A j \in 1..i : Take(all, i)[j] = all[j]
    <3>1. i \in 0..Len(all)
      BY <1>1, <1>2, <1>3
    <3> QED
      BY <1>3, <3>1, TakeProperties
  <2>2. /\ Take(s, i) \in Seq(Token) /\ Len(Take(s, i)) = i
        /\ \A j \in 1..i : Take(s, i)[j] = s[j]
    BY <1>1, TakeProperties
  <2>3. \A j \in 1..i : all[j] = s[j]
    BY <1>1, <1>2, <1>3
  <2>4. \A j \in 1..i : Take(all, i)[j] = Take(s, i)[j]
    BY <2>1, <2>2, <2>3
  <2> QED
    BY <2>1, <2>2, <2>4, SeqEqual
<1>5. \A i \in 1..Len(p) : all[n + i] = p[i]
  <2>1. ASSUME NEW i \in 1..Len(p) PROVE all[n + i] = p[i]
    <3>1. n + i \in 1..Len(front) + Len(e) /\ n + i <= Len(front) /\ n + i \in 1..n + Len(p)
          /\ ~(n + i <= n) /\ (n + i) - n = i
      BY <1>1, <1>2
    <3> QED
      BY <1>2, <1>3, <3>1
  <2> QED
    BY <2>1
<1>6. \A i \in 1..Len(e) : all[n + Len(p) + i] = e[i]
  <2>1. ASSUME NEW i \in 1..Len(e) PROVE all[n + Len(p) + i] = e[i]
    <3>1. n + Len(p) + i \in 1..Len(front) + Len(e) /\ ~(n + Len(p) + i <= Len(front))
          /\ (n + Len(p) + i) - Len(front) = i
      BY <1>1, <1>2
    <3> QED
      BY <1>3, <3>1
  <2> QED
    BY <2>1
<1>7. Joined(s, p, e) = all
  BY DEF Joined, all, front
<1> QED
  BY <1>1, <1>2, <1>3, <1>4, <1>5, <1>6, <1>7 DEF Content

\* A token appended to the last is appended to the whole.
LEMMA JoinedGrows ==
  ASSUME NEW s \in Content, NEW p \in Content, NEW e \in Content, NEW t \in Token
  PROVE  Joined(s, p, Append(e, t)) = Append(Joined(s, p, e), t)
<1>1. s \o p \in Seq(Token)
  BY ConcatProperties DEF Content
<1> QED
  BY <1>1, ConcatAppend DEF Joined, Content

\* The token that waits behind those delivered is the last of the text.
LEMMA JoinedLast ==
  ASSUME NEW s \in Content, NEW p \in Content, p # <<>>, NEW e \in Content,
         NEW d \in Content, NEW t \in Token,
         d \o <<t>> \o <<>> = <<p[Len(p)]>> \o e
  PROVE  Joined(s, p, e)[Len(Joined(s, p, e))] = t
<1>1. /\ Len(p) \in Nat \ {0} /\ Len(e) \in Nat /\ Len(d) \in Nat /\ p[Len(p)] \in Token
      /\ Len(s) \in Nat
  BY EmptySeq, ElementOfSeq, LenProperties DEF Content
<1> DEFINE last == <<p[Len(p)]>>
           one == <<t>>
           left == d \o one
           right == last \o e
<1>2. /\ last \in Seq(Token) /\ Len(last) = 1 /\ last[1] = p[Len(p)]
      /\ one \in Seq(Token) /\ Len(one) = 1 /\ one[1] = t
  BY <1>1
<1> HIDE DEF last, one
<1>3. /\ left \in Seq(Token) /\ Len(left) = Len(d) + 1 /\ left[Len(d) + 1] = t
  <2>1. /\ left \in Seq(Token) /\ Len(left) = Len(d) + Len(one)
        /\ \A i \in 1..Len(d) + Len(one) :
             left[i] = IF i <= Len(d) THEN d[i] ELSE one[i - Len(d)]
    BY <1>2, ConcatProperties DEF Content
  <2> HIDE DEF left
  <2> QED
    BY <1>1, <1>2, <2>1
<1>4. /\ Len(right) = 1 + Len(e)
      /\ \A i \in 1..1 + Len(e) : right[i] = IF i <= 1 THEN p[Len(p)] ELSE e[i - 1]
  <2>1. /\ right \in Seq(Token) /\ Len(right) = Len(last) + Len(e)
        /\ \A i \in 1..Len(last) + Len(e) :
             right[i] = IF i <= Len(last) THEN last[i] ELSE e[i - Len(last)]
    BY <1>2, ConcatProperties DEF Content
  <2> HIDE DEF right
  <2> QED
    BY <1>1, <1>2, <2>1
<1>5. left = right
  BY <1>3, ConcatEmptySeq DEF last, one
<1> HIDE DEF left, right
<1>6. t = IF Len(e) = 0 THEN p[Len(p)] ELSE e[Len(e)]
  BY <1>1, <1>3, <1>4, <1>5
<1>7. /\ Len(Joined(s, p, e)) = Len(s) + Len(p) + Len(e)
      /\ \A i \in 1..Len(p) : Joined(s, p, e)[Len(s) + i] = p[i]
      /\ \A i \in 1..Len(e) : Joined(s, p, e)[Len(s) + Len(p) + i] = e[i]
  <2>1. Len(Joined(s, p, e)) = Len(s) + Len(p) + Len(e)
    BY JoinedProperties
  <2>2. ASSUME NEW i \in 1..Len(p) PROVE Joined(s, p, e)[Len(s) + i] = p[i]
    BY <2>2, JoinedProperties
  <2>3. ASSUME NEW i \in 1..Len(e) PROVE Joined(s, p, e)[Len(s) + Len(p) + i] = e[i]
    BY <2>3, JoinedProperties
  <2> QED
    BY <2>1, <2>2, <2>3
<1>8. CASE Len(e) = 0
  BY <1>1, <1>6, <1>7, <1>8
<1>9. CASE Len(e) # 0
  BY <1>1, <1>6, <1>7, <1>9
<1> QED
  BY <1>8, <1>9
----------------------------------------------------------------------------
(* A run of tokens is evaluated *)

LEMMA InRange ==
  ASSUME NEW n \in Nat, NEW d \in Nat, NEW l \in Nat, n <= l - 1 - d, NEW u \in 0..n-1
  PROVE  d + u + 1 \in 1..l
  OBVIOUS

LEMMA IntervalSize ==
  ASSUME NEW k \in Nat PROVE IsFiniteSet(0..k-1) /\ Cardinality(0..k-1) = k
  BY FS_Interval

\* The prefixes of s that end in one of the n elements after the first P
PrefixRun(s, P, n) == {Take(s, P + v + 1) : v \in 0..n-1}

Image(g, S) == {g[i] : i \in S}

\* The entries of a batch, or of a part of the cache, as a run of prefixes
LEMMA RunOf ==
  ASSUME NEW s, NEW P \in Nat, NEW n \in Nat, NEW g, \A v \in 0..n-1 : g[v] = Take(s, P + v + 1)
  PROVE  Image(g, 0..n-1) = PrefixRun(s, P, n)
<1>1. ASSUME NEW v \in 0..n-1 PROVE Take(s, P + v + 1) \in Image(g, 0..n-1)
  <2>1. g[v] \in Image(g, 0..n-1)
    BY DEF Image
  <2> QED
    BY <2>1
<1>2. ASSUME NEW v \in 0..n-1 PROVE g[v] \in PrefixRun(s, P, n)
  <2>1. Take(s, P + v + 1) \in PrefixRun(s, P, n)
    BY DEF PrefixRun
  <2> QED
    BY <2>1
<1>3. PrefixRun(s, P, n) \subseteq Image(g, 0..n-1)
  BY <1>1 DEF PrefixRun
<1>4. Image(g, 0..n-1) \subseteq PrefixRun(s, P, n)
  BY <1>2 DEF Image
<1> QED
  BY <1>3, <1>4

\* Two runs make up the prefixes of a text.
LEMMA RunPrefixes ==
  ASSUME NEW s \in Content, NEW P \in Nat, NEW u \in Nat, P + u <= Len(s)
  PROVE  PrefixRun(s, 0, P) \cup PrefixRun(s, P, u) = Prefixes(Take(s, P + u))
<1> DEFINE low == {Take(s, 0 + i + 1) : i \in 0..P-1}
           high == {Take(s, P + v + 1) : v \in 0..u-1}
           all == {Take(s, i) : i \in 1..P + u}
<1>1. Prefixes(Take(s, P + u)) = all
  <2>1. Len(s) \in Nat /\ P + u \in 0..Len(s)
    BY LenProperties DEF Content
  <2> QED
    BY <2>1, PrefixesOfTake DEF Content
<1>2. ASSUME NEW i \in 1..P + u PROVE Take(s, i) \in low \cup high
  <2>1. CASE i <= P
    <3>1. i - 1 \in 0..P-1 /\ i = 0 + (i - 1) + 1
      BY <2>1
    <3> QED
      BY <3>1
  <2>2. CASE ~(i <= P)
    <3>1. i - P - 1 \in 0..u-1 /\ i = P + (i - P - 1) + 1
      BY <2>2
    <3> QED
      BY <3>1
  <2> QED
    BY <2>1, <2>2
<1>3. ASSUME NEW i \in 0..P-1 PROVE Take(s, 0 + i + 1) \in all
  <2>1. 0 + i + 1 \in 1..P + u
    OBVIOUS
  <2> QED
    BY <2>1
<1>4. ASSUME NEW v \in 0..u-1 PROVE Take(s, P + v + 1) \in all
  <2>1. P + v + 1 \in 1..P + u
    OBVIOUS
  <2> QED
    BY <2>1
<1>5. all \subseteq low \cup high
  BY <1>2
<1>6. low \subseteq all
  BY <1>3
<1>7. high \subseteq all
  BY <1>4
<1> HIDE DEF low, high, all
<1>8. low \cup high = all
  BY <1>5, <1>6, <1>7
<1> QED
  BY <1>1, <1>8 DEF PrefixRun, low, high, all

\* The cache shows the first P entries of s, and nothing else.
HoldsText(c, s, P) == c.open = 0..P-1 /\ \A i \in 0..P-1 : c.entry[i] = Take(s, i+1)

\* The batch is that of the n tokens of s after the first P.
Continues(toks, positions, s, P, n) ==
  DOMAIN toks = 0..n-1 /\ \A u \in 0..n-1 : toks[u] = s[P + u + 1] /\ positions[u] = P + u

RunEntries(f, s, P, n) == \A u \in 0..n-1 : f[u] = Take(s, P + u + 1)

\* A run of tokens of a text, evaluated behind the cached part of the text
LEMMA ForwardRun ==
  ASSUME NEW c, NEW s \in Content, NEW P \in Nat, NEW n \in Nat, P + n <= Len(s),
         HoldsText(c, s, P), NEW toks, NEW positions, Continues(toks, positions, s, P, n)
  PROVE  RunEntries(Forward(c, toks, positions, Causal(n)), s, P, n)
<1> USE DEF HoldsText, Continues
<1> DEFINE f == [u \in 0..n-1 |-> Take(s, P + u + 1)]
           seen(u) == {c.entry[i] : i \in c.open} \cup {f[v] : v \in Causal(n)[u]}
<1>1. Len(s) \in Nat /\ s \in Seq(Token)
  BY LenProperties DEF Content
<1>2. \A u \in 0..n-1 : Causal(n)[u] = 0..u-1 /\ 0..u-1 \subseteq 0..n-1 /\ \A v \in 0..u-1 : v < u
  BY DEF Causal
<1>3. ASSUME NEW u \in 0..n-1
      PROVE  Encode(seen(u), Cardinality(c.open) + Cardinality(Causal(n)[u]), toks[u], positions[u])
               = f[u]
  <2> DEFINE base == Take(s, P + u)
  <2>1. P + u \in 0..Len(s)-1 /\ P + u \in 0..Len(s) /\ u \in Nat
    BY <1>1
  <2>2. base \in Seq(Token) /\ Len(base) = P + u
        /\ Prefixes(base) = {Take(s, i) : i \in 1..P + u}
    <3>1. Take(s, P + u) \in Seq(Token) /\ Len(Take(s, P + u)) = P + u
      BY <1>1, <2>1, TakeProperties
    <3>2. Prefixes(Take(s, P + u)) = {Take(s, i) : i \in 1..P + u}
      BY <1>1, <2>1, PrefixesOfTake
    <3> QED
      BY <3>1, <3>2
  <2>3. seen(u) = Prefixes(base)
    <3>1. Image(f, 0..u-1) = PrefixRun(s, P, u)
      <4>1. \A v \in 0..u-1 : f[v] = Take(s, P + v + 1)
        BY <1>2
      <4> HIDE DEF f
      <4> QED
        BY <2>1, <4>1, RunOf
    <3>2. Image(c.entry, 0..P-1) = PrefixRun(s, 0, P)
      <4>1. \A v \in 0..P-1 : c.entry[v] = Take(s, 0 + v + 1)
        OBVIOUS
      <4> QED
        BY <4>1, RunOf
    <3>3. seen(u) = Image(c.entry, 0..P-1) \cup Image(f, 0..u-1)
      BY <1>2 DEF Image
    <3> HIDE DEF f, seen
    <3>4. PrefixRun(s, 0, P) \cup PrefixRun(s, P, u) = Prefixes(Take(s, P + u))
      <4>1. P + u <= Len(s)
        BY <1>1, <2>1
      <4> QED
        BY <2>1, <4>1, RunPrefixes
    <3> HIDE DEF base
    <3> QED
      BY <3>1, <3>2, <3>3, <3>4 DEF base
  <2>4. Cardinality(c.open) + Cardinality(Causal(n)[u]) = Len(base)
    <3>1. Cardinality(0..P-1) = P /\ Cardinality(0..u-1) = u
      BY <2>1, IntervalSize
    <3>2. c.open = 0..P-1 /\ Causal(n)[u] = 0..u-1 /\ Len(base) = P + u
      BY <1>2, <2>2
    <3> HIDE DEF base
    <3> QED
      BY <3>1, <3>2
  <2>5. toks[u] = s[P + u + 1] /\ positions[u] = Len(base)
    BY <2>2
  <2>6. Encode(Prefixes(base), Len(base), toks[u], Len(base)) = Append(base, toks[u])
    BY <2>2, EncodeText
  <2>7. Take(s, P + u + 1) = Append(base, s[P + u + 1])
    BY <1>1, <2>1, TakeOneMore
  <2> HIDE DEF base, seen
  <2> QED
    BY <2>3, <2>4, <2>5, <2>6, <2>7
<1>4. f = Entries(c, toks, positions, Causal(n), f)
  <2>1. Entries(c, toks, positions, Causal(n), f) =
          [u \in 0..n-1 |-> Encode(seen(u), Cardinality(c.open) + Cardinality(Causal(n)[u]),
                                   toks[u], positions[u])]
    BY DEF Entries
  <2> HIDE DEF seen
  <2>2. f = [u \in 0..n-1 |-> f[u]]
    OBVIOUS
  <2> HIDE DEF f
  <2> QED
    BY <1>3, <2>1, <2>2
<1> HIDE DEF f
<1>5. DOMAIN toks = 0..n-1 /\ 0..n-1 \in SUBSET Nat
  OBVIOUS
<1>6. \A u \in 0..n-1 : Causal(n)[u] \subseteq 0..n-1 /\ \A v \in Causal(n)[u] : v < u
  BY <1>2
<1>7. Forward(c, toks, positions, Causal(n)) = f
  BY <1>4, <1>5, <1>6, ForwardIs
<1>8. \A u \in 0..n-1 : f[u] = Take(s, P + u + 1)
  BY DEF f
<1> QED
  BY <1>7, <1>8 DEF RunEntries

\* Such a run, saved and advanced over, leaves a cache that holds more of the text.
LEMMA RunAppended ==
  ASSUME NEW size \in Nat, NEW c, Sound(c, size), c.entry \in Entry(size),
         NEW s \in Content, NEW n \in Nat, Fits(c, n), c.position + n <= Len(s),
         NEW b, RunEntries(b, s, c.position, n), HoldsText(c, s, c.position)
  PROVE  LET after == AdvanceTokens(SaveTokens(c, b, n), n)
         IN  /\ Sound(after, size) /\ after.entry \in Entry(size)
             /\ after.position = c.position + n
             /\ HoldsText(after, s, after.position)
<1> DEFINE P == c.position
           saved == SaveTokens(c, b, n)
           after == AdvanceTokens(saved, n)
<1>1. P \in Nat /\ P + n <= size /\ Len(s) \in Nat
  BY LenProperties DEF Sound, Fits, Content
<1>2. \A u \in 0..n-1 : b[u] = Take(s, P + u + 1) /\ b[u] \in Content
  <2>1. \A u \in 0..n-1 : P + u + 1 \in 0..Len(s)
    BY <1>1
  <2>2. \A i \in 0..Len(s) : Take(s, i) \in Content
    BY TakeProperties DEF Content
  <2> QED
    BY <2>1, <2>2 DEF RunEntries
<1>3. /\ saved.entry \in Entry(size) /\ saved.open = c.open
      /\ \A i \in 0..size-1 : saved.entry[i] = IF i \in P..P+n-1 THEN b[i - P] ELSE c.entry[i]
  BY <1>2, SaveTokensEntries
<1>4. Sound(saved, size) /\ saved.position = P
  BY SaveTokensSound
<1>5. Sound(after, size) /\ after.position = P + n
  BY AppendBatchSound
<1> HIDE DEF saved
<1>6. after.entry = saved.entry /\ after.open = saved.open \cup (P..P + n - 1)
  BY <1>4, AdvanceTokensEntries
<1> HIDE DEF after, P
<1>7. c.open = 0..P-1 /\ \A i \in 0..P-1 : c.entry[i] = Take(s, i+1)
  BY DEF HoldsText, P
<1>8. after.open = 0..P+n-1
  <2>1. 0..P+n-1 = 0..P-1 \cup P..P+n-1
    BY <1>1
  <2> QED
    BY <1>3, <1>6, <1>7, <2>1
<1>9. ASSUME NEW i \in 0..P+n-1 PROVE after.entry[i] = Take(s, i+1)
  <2>1. i \in 0..size-1
    BY <1>1
  <2>2. CASE i < P
    <3>1. i \in 0..P-1 /\ i \notin P..P+n-1
      BY <1>1, <2>2
    <3> QED
      BY <1>3, <1>6, <1>7, <2>1, <3>1
  <2>3. CASE ~(i < P)
    <3>1. i \in P..P+n-1 /\ i - P \in 0..n-1 /\ P + (i - P) + 1 = i + 1
      BY <1>1, <2>3
    <3> QED
      BY <1>2, <1>3, <1>6, <2>1, <3>1
  <2> QED
    BY <2>2, <2>3
<1>10. HoldsText(after, s, after.position)
  <2>1. PICK q : q = after.position
    OBVIOUS
  <2>2. q = P + n /\ q - 1 = P + n - 1
    BY <1>1, <1>5, <2>1
  <2>3. after.open = 0..q-1 /\ \A i \in 0..q-1 : after.entry[i] = Take(s, i+1)
    BY <1>8, <1>9, <2>2
  <2> QED
    BY <2>1, <2>3 DEF HoldsText
<1>11. Sound(after, size) /\ after.entry \in Entry(size) /\ after.position = P + n
  BY <1>3, <1>5, <1>6
<1> QED
  BY <1>10, <1>11 DEF after, saved, P

=============================================================================
