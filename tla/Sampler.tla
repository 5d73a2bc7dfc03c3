-------------------------------- MODULE Sampler --------------------------------
(***************************************************************************)
(* SamplerChain: from the logits of a token to the token that follows it,  *)
(* with a penalty on the tokens before (src/sampler).                      *)
(*                                                                         *)
(* Logits are small numbers of which only the order counts.  How far a     *)
(* penalty lowers one depends on three factors, which are taken not to be  *)
(* the neutral ones, and is abstracted to the number of times the token    *)
(* was counted.                                                            *)
(***************************************************************************)
EXTENDS Integers, Sequences, FiniteSets

CONSTANTS FirstToken,   \* the token whose number is 0
          Eos,          \* special_eos_id
          Linefeed,     \* linefeed_id, or something that is no token
          LastN,        \* penalty_last_n
          PenalizeNl,   \* penalize_nl
          TopK          \* top_k

ASSUME SamplerAssumption == LastN \in Nat /\ TopK \in Nat \ {0} /\ PenalizeNl \in BOOLEAN

\* The state of a chain is that of its RepeatPenaltySampler: m_prev, created
\* with LastN zeros, and m_ignore_eos.
NewSampler(ignore_eos) == [prev |-> [i \in 1..LastN |-> FirstToken], ignore_eos |-> ignore_eos]

\* A deque from which nothing is ever taken.
accept(s, t) == IF LastN > 0 THEN [s EXCEPT !.prev = Append(@, t)] ELSE s

\* What apply() counts: the first LastN tokens of the deque.
Window(s) == SubSeq(s.prev, 1, IF LastN < Len(s.prev) THEN LastN ELSE Len(s.prev))

Count(seq, t) == Cardinality({i \in DOMAIN seq : seq[i] = t})

----------------------------------------------------------------------------
(* ProbArray: the candidates and their values, those whose value is minus  *)
(* infinity, and its two flags.                                            *)

ProbArray(logits) == [prob |-> logits, never |-> {}, sorted |-> FALSE, normalized |-> FALSE]

Candidates(p) == DOMAIN p.prob

\* t is not above u.
AtMost(p, t, u) == t \in p.never \/ (u \notin p.never /\ p.prob[t] <= p.prob[u])

\* The n first candidates of a sorted array: one set, but for ties.
First(p, n) == {K \in SUBSET Candidates(p) :
                  /\ Cardinality(K) = n
                  /\ \A t \in Candidates(p) \ K, u \in K : AtMost(p, t, u)}

\* A sorted array without its tail
Cut(p, K) == [prob |-> [t \in K |-> p.prob[t]], never |-> p.never, sorted |-> TRUE,
              normalized |-> p.normalized /\ K = Candidates(p)]

----------------------------------------------------------------------------
(* The samplers of the chain.  An assertion that fails leaves no result.   *)

\* (broken variant: the ignored token is not ruled out, only made unlikely)
RepeatPenaltyMild(p, s) ==
  [p EXCEPT !.prob = [t \in Candidates(p) |-> IF s.ignore_eos /\ t = Eos THEN 0 ELSE @[t]]]

RepeatPenalty(p, s) ==
  [prob |-> [t \in Candidates(p) |->
               IF t = Linefeed /\ ~PenalizeNl THEN p.prob[t]
               ELSE p.prob[t] - Count(Window(s), t)],
   never |-> IF s.ignore_eos THEN {Eos} \cap Candidates(p) ELSE {},
   sorted |-> p.sorted /\ LastN = 0,
   normalized |-> p.normalized]

TopKSampler(p) ==
  LET n == Cardinality(Candidates(p))
  IN  {Cut(p, K) : K \in First(p, IF TopK < n THEN TopK ELSE n)}

\* TemperatureSampler keeps the order, SoftmaxSampler sorts and normalises.
Softmax(p) == [prob |-> p.prob, never |-> p.never, sorted |-> TRUE, normalized |-> TRUE]

TopPSampler(p) ==
  {Cut(p, K) : K \in IF p.sorted /\ p.normalized
                     THEN UNION {First(p, n) : n \in 1..Cardinality(Candidates(p))} ELSE {}}

Normalize(p) == [prob |-> p.prob, never |-> p.never, sorted |-> p.sorted, normalized |-> TRUE]

\* A value of minus infinity is a probability of 0.
Stochastic(p) == IF p.normalized THEN Candidates(p) \ p.never ELSE {}

\* apply() of the chain and greedy_sample() of what it leaves: the tokens that
\* may come out.
Sampled(logits, s) ==
  LET penalised == RepeatPenalty(ProbArray(logits), s)
  IN  UNION {UNION {Stochastic(Normalize(q)) : q \in TopPSampler(Softmax(p))} :
                p \in TopKSampler(penalised)}
=============================================================================
