------------------------------ MODULE SpinRounds ------------------------------
(***************************************************************************)
(* The rounds of a spinning barrier, with its state as parameters, because *)
(* a thread pool has two barriers: S are its threads, c is the counter,    *)
(* t are the targets, e the calls entered and r the calls returned from,   *)
(* as in SpinBarrier.                                                      *)
(***************************************************************************)
EXTENDS Integers, FiniteSets, FiniteSetTheorems, TLAPS

\* The threads that have taken their ticket of round g+1
Ahead(S, e, g) == {p \in S : e[p] = g + 1}

\* In round g+1: somebody has not taken a ticket yet, nobody is further ahead,
\* the counter is the tickets of g full rounds and those of the threads ahead,
\* and nobody has returned from this round.
InRound(S, c, e, r, g) ==
  /\ \A p \in S : e[p] \in {g, g + 1} /\ r[p] <= g
  /\ Ahead(S, e, g) # S
  /\ c = g * Cardinality(S) + Cardinality(Ahead(S, e, g))

\* A thread waits for the end of the round it has its ticket of.
TargetsOfRound(S, t, e, r) == \A p \in S : e[p] > r[p] => t[p] = e[p] * Cardinality(S)

RoundTypes(S, c, t, e, r) ==
  /\ c \in Nat /\ t \in [S -> Nat] /\ e \in [S -> Nat] /\ r \in [S -> Nat]
  /\ \A p \in S : e[p] - r[p] \in {0, 1}

Rounds(S, c, t, e, r) ==
  /\ RoundTypes(S, c, t, e, r) /\ TargetsOfRound(S, t, e, r)
  /\ \E g \in Nat : InRound(S, c, e, r, g)

----------------------------------------------------------------------------

\* A barrier has a positive width.
LEMMA WidthPositive ==
  ASSUME NEW S, IsFiniteSet(S), S # {}
  PROVE  Cardinality(S) \in Nat \ {0}
<1>1. Cardinality(S) \in Nat
  BY FS_CardinalityType
<1>2. Cardinality(S) # 0
  BY FS_EmptySet
<1> QED
  BY <1>1, <1>2

\* Whole rounds of width w, and less than one more, count as whole rounds.
LEMMA RoundOfTicket ==
  ASSUME NEW w \in Nat \ {0}, NEW g \in Nat, NEW n \in Nat, n < w
  PROVE  (g * w + n) \div w = g
<1> DEFINE m == g * w + n
           q == m \div w
<1>1. m \in Nat /\ q \in Int
  OBVIOUS
<1>2. w * q <= m /\ m < w * q + w
  OBVIOUS
<1>3. ~(q >= g + 1)
  <2>1. ASSUME q >= g + 1 PROVE w * q >= w * g + w
    BY <2>1, <1>1
  <2> QED
    BY <2>1, <1>2
<1>4. ~(q <= g - 1)
  <2>1. ASSUME q <= g - 1 PROVE w * q <= w * g - w
    BY <2>1, <1>1
  <2> QED
    BY <2>1, <1>2
<1> QED
  BY <1>1, <1>3, <1>4

\* A round that goes on has fewer tickets than the barrier is wide.
LEMMA AheadFinite ==
  ASSUME NEW S, IsFiniteSet(S), NEW e, NEW g, Ahead(S, e, g) # S
  PROVE  /\ IsFiniteSet(Ahead(S, e, g))
         /\ Cardinality(Ahead(S, e, g)) \in Nat
         /\ Cardinality(Ahead(S, e, g)) < Cardinality(S)
<1>1. Ahead(S, e, g) \in SUBSET S
  BY DEF Ahead
<1>2. /\ IsFiniteSet(Ahead(S, e, g))
      /\ Cardinality(Ahead(S, e, g)) <= Cardinality(S)
      /\ Cardinality(Ahead(S, e, g)) # Cardinality(S)
  BY <1>1, FS_Subset
<1> QED
  BY <1>2, FS_CardinalityType

----------------------------------------------------------------------------

\* The counter starts at the beginning of the first round.
LEMMA RoundsBegin ==
  ASSUME NEW S, IsFiniteSet(S), S # {}
  PROVE  Rounds(S, 0, [p \in S |-> 0], [p \in S |-> 0], [p \in S |-> 0])
<1> DEFINE z == [p \in S |-> 0]
<1>1. RoundTypes(S, 0, z, z, z) /\ TargetsOfRound(S, z, z, z)
  BY DEF RoundTypes, TargetsOfRound
<1>2. Ahead(S, z, 0) = {}
  BY DEF Ahead
<1>3. Cardinality(Ahead(S, z, 0)) = 0
  BY <1>2, FS_EmptySet
<1>4. InRound(S, 0, z, z, 0)
  BY <1>2, <1>3, WidthPositive DEF InRound
<1> QED
  BY <1>1, <1>4 DEF Rounds

\* A thread of a round that is not complete takes the next ticket, and it gets
\* the end of this very round as its target. When it is the last, the next round
\* begins.
LEMMA RoundsTicket ==
  ASSUME NEW S, IsFiniteSet(S), S # {}, NEW c, NEW t, NEW e, NEW r,
         Rounds(S, c, t, e, r), NEW p \in S, ~(e[p] > r[p]),
         NEW c1, c1 = c + 1,
         NEW t1, t1 = [t EXCEPT ![p] = (c \div Cardinality(S) + 1) * Cardinality(S)],
         NEW e1, e1 = [e EXCEPT ![p] = @ + 1]
  PROVE  Rounds(S, c1, t1, e1, r)
<1> DEFINE w == Cardinality(S)
<1>w. w \in Nat \ {0}
  BY WidthPositive
<1>1. PICK g \in Nat : InRound(S, c, e, r, g)
  BY DEF Rounds
<1> DEFINE n == Cardinality(Ahead(S, e, g))
<1>2. e[p] = g /\ r[p] = g
  BY <1>1 DEF Rounds, RoundTypes, InRound
<1>3. IsFiniteSet(Ahead(S, e, g)) /\ n \in Nat /\ n < w
  BY <1>1, AheadFinite DEF InRound
<1>c. c = g * w + n
  BY <1>1 DEF InRound
<1> HIDE DEF w, n
<1>4. (c \div w + 1) * w = (g + 1) * w /\ (g + 1) * w \in Nat
  <2>1. c \div w = g
    BY <1>w, <1>3, <1>c, RoundOfTicket
  <2> QED
    BY <2>1, <1>w
<1>5. t1 = [t EXCEPT ![p] = (g + 1) * w]
  BY <1>4 DEF w
<1>6. RoundTypes(S, c1, t1, e1, r)
  BY <1>4, <1>5, <1>2 DEF Rounds, RoundTypes
<1>7. TargetsOfRound(S, t1, e1, r)
  BY <1>2, <1>5 DEF Rounds, RoundTypes, TargetsOfRound, w
<1>8. Ahead(S, e1, g) = Ahead(S, e, g) \cup {p} /\ p \notin Ahead(S, e, g)
  BY <1>2 DEF Rounds, RoundTypes, Ahead
<1>9. Cardinality(Ahead(S, e1, g)) = n + 1
  BY <1>8, <1>3, FS_AddElement DEF n
<1>10. \A q \in S : e1[q] \in {g, g + 1} /\ r[q] <= g
  BY <1>1, <1>2 DEF Rounds, RoundTypes, InRound
<1>11. c1 = g * w + (n + 1)
  BY <1>c, <1>w, <1>3
<1>12. CASE Ahead(S, e1, g) # S
  <2>1. InRound(S, c1, e1, r, g)
    BY <1>12, <1>9, <1>10, <1>11 DEF InRound, w
  <2> QED
    BY <1>6, <1>7, <2>1 DEF Rounds
<1>13. CASE Ahead(S, e1, g) = S
  <2>1. \A q \in S : e1[q] = g + 1
    BY <1>13 DEF Ahead
  <2>2. Ahead(S, e1, g + 1) = {}
    BY <2>1 DEF Ahead
  <2>3. c1 = (g + 1) * w
    <3>1. n + 1 = w
      BY <1>9, <1>13 DEF w
    <3> QED
      BY <3>1, <1>11, <1>3, <1>w
  <2>4. \A q \in S : e1[q] \in {g + 1, (g + 1) + 1} /\ r[q] <= g + 1
    BY <2>1, <1>10, <1>6 DEF RoundTypes
  <2>5. Ahead(S, e1, g + 1) # S /\ Cardinality(Ahead(S, e1, g + 1)) = 0
    BY <2>2, FS_EmptySet
  <2>6. c1 = (g + 1) * w + Cardinality(Ahead(S, e1, g + 1))
    BY <2>3, <2>5, <1>4
  <2>7. g + 1 \in Nat /\ InRound(S, c1, e1, r, g + 1)
    BY <2>4, <2>5, <2>6 DEF InRound, w
  <2> QED
    BY <1>6, <1>7, <2>7 DEF Rounds
<1> QED
  BY <1>12, <1>13

\* Only a thread of the previous round can see its target reached.
LEMMA RoundsRelease ==
  ASSUME NEW S, IsFiniteSet(S), S # {}, NEW c, NEW t, NEW e, NEW r,
         Rounds(S, c, t, e, r), NEW p \in S, e[p] > r[p], c >= t[p],
         NEW r1, r1 = [r EXCEPT ![p] = @ + 1]
  PROVE  Rounds(S, c, t, e, r1)
<1> DEFINE w == Cardinality(S)
<1>w. w \in Nat \ {0}
  BY WidthPositive
<1>1. PICK g \in Nat : InRound(S, c, e, r, g)
  BY DEF Rounds
<1> DEFINE n == Cardinality(Ahead(S, e, g))
<1>2. t[p] = e[p] * w /\ e[p] = r[p] + 1
  BY DEF Rounds, RoundTypes, TargetsOfRound
<1>3. n \in Nat /\ n < w /\ c = g * w + n
  BY <1>1, AheadFinite DEF InRound
<1> HIDE DEF w, n
<1>4. e[p] = g
  <2>1. c < (g + 1) * w
    BY <1>3, <1>w
  <2>2. e[p] # g + 1
    BY <2>1, <1>2, <1>3, <1>w
  <2> QED
    BY <2>2, <1>1 DEF InRound
<1>5. RoundTypes(S, c, t, e, r1) /\ TargetsOfRound(S, t, e, r1)
  BY <1>2 DEF Rounds, RoundTypes, TargetsOfRound
<1>6. \A q \in S : e[q] \in {g, g + 1} /\ r1[q] <= g
  BY <1>1, <1>2, <1>4 DEF Rounds, RoundTypes, InRound
<1>7. InRound(S, c, e, r1, g)
  BY <1>1, <1>6 DEF InRound
<1> QED
  BY <1>5, <1>7 DEF Rounds

\* Nobody returns from a round before everybody has entered it.
LEMMA RoundsTogether ==
  ASSUME NEW S, NEW c, NEW t, NEW e, NEW r, Rounds(S, c, t, e, r),
         NEW p \in S, NEW q \in S
  PROVE  r[p] <= e[q]
  BY DEF Rounds, RoundTypes, InRound
=============================================================================
