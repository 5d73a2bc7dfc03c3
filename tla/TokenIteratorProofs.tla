------------------------- MODULE TokenIteratorProofs -------------------------
(***************************************************************************)
(* Proofs about TokenIterator and the samplers it uses, for any vocabulary *)
(* and any values of the logits: an ignored end of text is never sampled;  *)
(* the cache holds the text, whatever batches the prompt was cut into and  *)
(* on whichever backend; plain decoding implements Decode; and who stays   *)
(* inside the cache.                                                       *)
(***************************************************************************)
EXTENDS TokenIterator, KVCacheProofs

----------------------------------------------------------------------------
(* The chain of samplers.                                                  *)

\* q is what a sampler may leave of p: fewer candidates, the same ruled out.
Narrows(p, q) == Candidates(q) \subseteq Candidates(p) /\ q.never = p.never

\* The first candidates of a sorted array are candidates.
LEMMA CutNarrows ==
  ASSUME NEW p, NEW n, NEW K \in First(p, n)
  PROVE  Narrows(p, Cut(p, K))
<1> QED
  BY DEF First, Cut, Candidates, Narrows

\* TopKSampler only takes candidates away.
LEMMA TopKNarrows ==
  ASSUME NEW p, NEW q \in TopKSampler(p)
  PROVE  Narrows(p, q)
<1>1. \E n : \E K \in First(p, n) : q = Cut(p, K)
  BY Zenon DEF TopKSampler
<1> QED
  BY <1>1, CutNarrows, Zenon

\* So does TopPSampler.
LEMMA TopPNarrows ==
  ASSUME NEW p, NEW q \in TopPSampler(p)
  PROVE  Narrows(p, q)
<1>1. \E n : \E K \in First(p, n) : q = Cut(p, K)
  BY Zenon DEF TopPSampler
<1> QED
  BY <1>1, CutNarrows, Zenon

\* What comes out of the chain went in, and is not an ignored end of the text.
LEMMA SampledIsCandidate ==
  ASSUME NEW logits, NEW s, NEW t \in Sampled(logits, s)
  PROVE  /\ t \in DOMAIN logits
         /\ s.ignore_eos => t # Eos
<1> DEFINE penalised == RepeatPenalty(ProbArray(logits), s)
<1>0. PICK p \in TopKSampler(penalised) :
         t \in UNION {Stochastic(Normalize(r)) : r \in TopPSampler(Softmax(p))}
  BY Zenon DEF Sampled
<1>1. PICK q \in TopPSampler(Softmax(p)) : t \in Stochastic(Normalize(q))
  BY <1>0, Zenon
<1>2. Narrows(penalised, p) /\ Narrows(Softmax(p), q)
  BY <1>0, <1>1, TopKNarrows, TopPNarrows, Zenon
<1>3. Candidates(Softmax(p)) = Candidates(p) /\ Softmax(p).never = p.never
  BY DEF Softmax, Candidates
<1>4. Candidates(Normalize(q)) = Candidates(q) /\ Normalize(q).never = q.never
  BY DEF Normalize, Candidates
<1>5. t \in Candidates(q) /\ t \notin q.never
  BY <1>1, <1>4 DEF Stochastic
<1>6. t \in Candidates(penalised) /\ t \notin penalised.never
  BY <1>2, <1>3, <1>5, Zenon DEF Narrows
<1>7. Candidates(penalised) = DOMAIN logits
  BY DEF RepeatPenalty, Candidates, ProbArray
<1>8. s.ignore_eos => penalised.never = {Eos} \cap DOMAIN logits
  BY DEF RepeatPenalty, Candidates, ProbArray
<1> QED
  BY <1>6, <1>7, <1>8, Zenon

----------------------------------------------------------------------------
(* An ignored end of the text.                                             *)

NoEos == \A i \in DOMAIN emitted : emitted[i] # Eos

\* next() is only called on an iterator that has something to say, and a new
\* sampler comes with a new, empty text.
EosInv ==
  /\ emitted \in Content
  /\ tokens \in Content
  /\ sampler \in [prev : Content, ignore_eos : BOOLEAN]
  /\ nRest \in Nat
  /\ pc = "serve" /\ nRest > 0 => tokens # <<>>
  /\ pc = "prefill" => emitted = <<>> /\ prompt \in Prompts
  /\ Generating /\ sampler.ignore_eos => NoEos

\* The types of a new sampler ...
LEMMA NewSamplerType ==
  ASSUME NEW e \in BOOLEAN, FirstToken \in Token, LastN \in Nat
  PROVE  NewSampler(e) \in [prev : Content, ignore_eos : BOOLEAN]
<1> QED
  BY DEF NewSampler, Content

\* ... and of one that has accepted a token.
LEMMA AcceptType ==
  ASSUME NEW s \in [prev : Content, ignore_eos : BOOLEAN], NEW t \in Token
  PROVE  /\ accept(s, t) \in [prev : Content, ignore_eos : BOOLEAN]
         /\ accept(s, t).ignore_eos = s.ignore_eos
<1> QED
  BY DEF accept, Content

\* EosInv holds at the start.
LEMMA EosInvInit == ASSUME Init PROVE EosInv
<1>1. NewSampler(FALSE) \in [prev : Content, ignore_eos : BOOLEAN]
  BY NewSamplerType, IteratorAssumption, SamplerAssumption
<1>2. pc = "ready" /\ nRest = 0 /\ tokens = <<>> /\ emitted = <<>> /\ sampler = NewSampler(FALSE)
  BY Zenon DEF Init
<1>3. <<>> \in Content
  BY DEF Content
<1> QED
  BY <1>1, <1>2, <1>3 DEF EosInv, Generating

\* A new iterator has said nothing.
LEMMA EosInvConstruct ==
  ASSUME EosInv, NEW p \in Prompts, NEW n \in 0..MaxSteps, Construct(p, n)
  PROVE  EosInv'
<1>1. sampler' \in [prev : Content, ignore_eos : BOOLEAN]
  BY NewSamplerType, IteratorAssumption, SamplerAssumption DEF Construct
<1>2. nRest' = n /\ n \in Nat /\ tokens' = <<>> /\ tokens' \in Content
  BY IteratorAssumption DEF Construct, Content
<1>3. CASE n = 0
  <2>1. pc' = "serve" /\ emitted' = emitted
    BY <1>3 DEF Construct
  <2> QED
    BY <1>1, <1>2, <1>3, <2>1 DEF EosInv, Generating
<1>4. CASE n > 0
  <2>1. pc' = "prefill" /\ emitted' = <<>> /\ prompt' = p
    <3>1. n # 0
      BY <1>4
    <3> QED
      BY <3>1, Zenon DEF Construct
  <2>2. <<>> \in Content
    BY DEF Content
  <2> QED
    BY <1>1, <1>2, <2>1, <2>2 DEF EosInv, Generating
<1> QED
  BY <1>2, <1>3, <1>4

\* A sequence that was appended to is not empty.
LEMMA AppendIsMore ==
  ASSUME NEW S, NEW q \in Seq(S), NEW e \in S
  PROVE  Append(q, e) \in Seq(S) /\ Append(q, e) # <<>>
<1>1. Append(q, e) \in Seq(S)
  OBVIOUS
<1>2. Len(Append(q, e)) = Len(q) + 1 /\ Len(q) \in Nat
  OBVIOUS
<1>3. Len(<<>>) = 0
  OBVIOUS
<1>4. Append(q, e) # <<>>
  <2> SUFFICES ASSUME Append(q, e) = <<>> PROVE FALSE
    OBVIOUS
  <2>1. Len(Append(q, e)) = 0
    BY <1>3, Zenon
  <2> QED
    BY <2>1, <1>2
<1> QED
  BY <1>1, <1>4

\* What next() adds to the text comes out of the sampler.
LEMMA EosInvNextToken ==
  ASSUME EosInv, NEW t \in Token, NextToken(t)
  PROVE  EosInv'
<1>1. CASE ~Fits(kv, 1)
  <2>1. UNCHANGED <<nRest, tokens, sampler, histVars>> /\ NoRoom(FALSE) /\ pc' # "serve" /\ pc' # "prefill"
    BY <1>1 DEF NextToken, NoRoom
  <2> QED
    BY <2>1 DEF EosInv, Generating, NoEos, histVars
<1>2. CASE Fits(kv, 1)
  <2>1. /\ pc = "serve" /\ pc' = "serve" /\ nRest # 0 /\ nRest' = nRest - 1
        /\ tokens' = Append(Tail(tokens), t)
        /\ emitted' = Append(emitted, t)
        /\ sampler' = accept(sampler, t)
    BY <1>2 DEF NextToken, Stopped
  <2>2. PICK logits : t \in Sampled(logits, sampler)
    BY <1>2, Zenon DEF NextToken
  <2>3. tokens # <<>> /\ Generating
    BY <2>1 DEF EosInv, Generating
  <2>4. sampler.ignore_eos => t # Eos
    BY <2>2, SampledIsCandidate
  <2>5. tokens' \in Content /\ tokens' # <<>> /\ emitted' \in Content
    <3>1. tokens \in Seq(Token) /\ tokens # <<>> /\ emitted \in Seq(Token)
      BY <2>3 DEF EosInv, Content
    <3> DEFINE rest == Tail(tokens)
    <3>2. rest \in Seq(Token)
      BY <3>1
    <3> HIDE DEF rest
    <3>3. Append(rest, t) \in Seq(Token) /\ Append(rest, t) # <<>>
      BY <3>2, AppendIsMore
    <3> QED
      BY <2>1, <3>1, <3>3 DEF Content, rest
  <2>6. /\ sampler' \in [prev : Content, ignore_eos : BOOLEAN]
        /\ sampler'.ignore_eos = sampler.ignore_eos
    BY <2>1, AcceptType DEF EosInv
  <2>7. sampler.ignore_eos => NoEos'
    BY <2>1, <2>3, <2>4 DEF EosInv, NoEos, Content
  <2>8. nRest' \in Nat
    BY <2>1 DEF EosInv
  <2> QED
    BY <2>1, <2>5, <2>6, <2>7, <2>8 DEF EosInv
<1> QED
  BY <1>1, <1>2

\* Every step keeps EosInv.
LEMMA EosInvStep == ASSUME EosInv, [Next]_vars PROVE EosInv'
<1>1. ASSUME NEW p \in Prompts, NEW n \in 0..MaxSteps, Construct(p, n) PROVE EosInv'
  BY <1>1, EosInvConstruct
<1>2. ASSUME PrefillBatch PROVE EosInv'
  <2>1. /\ UNCHANGED <<nRest, tokens, sampler, emitted, prompt>>
        /\ pc = "prefill" /\ pc' # "serve"
    BY <1>2 DEF PrefillBatch, NoRoom, histVars, promptVars
  <2> QED
    BY <2>1 DEF EosInv, Generating
<1>3. ASSUME PrefillDone PROVE EosInv'
  <2>1. UNCHANGED <<nRest, sampler, emitted>> /\ pc = "prefill" /\ pc' = "serve"
    BY <1>3 DEF PrefillDone, histVars
  <2>2. tokens' = <<prompt[Len(prompt)]>>
    BY <1>3 DEF PrefillDone
  <2>3. tokens' \in Content
    BY <2>1, <2>2, IteratorAssumption DEF EosInv, Content
  <2>4. tokens' # <<>> /\ NoEos'
    BY <2>1, <2>2 DEF EosInv, NoEos
  <2> QED
    BY <2>1, <2>3, <2>4 DEF EosInv
<1>4. ASSUME NEW t \in Token, NextToken(t) PROVE EosInv'
  BY <1>4, EosInvNextToken
<1>5. ASSUME Destruct PROVE EosInv'
  BY <1>5 DEF Destruct, EosInv, Generating, histVars
<1>6. ASSUME UNCHANGED vars PROVE EosInv'
  BY <1>6 DEF vars, histVars, promptVars, EosInv, Generating, NoEos
<1> QED
  BY <1>1, <1>2, <1>3, <1>4, <1>5, <1>6 DEF Next, Ask, Generate

\* A sampler that ignores the end of the text never samples it, for any
\* vocabulary, any logits and any settings of the other samplers.
THEOREM EosStaysIgnored == Spec => []IgnoredEosNeverSampled
<1>1. Init => EosInv
  BY EosInvInit
<1>2. EosInv /\ [Next]_vars => EosInv'
  BY EosInvStep
<1>3. EosInv => IgnoredEosNeverSampled
  BY DEF EosInv, IgnoredEosNeverSampled, NoEos
<1> QED
  BY <1>1, <1>2, <1>3, PTL DEF Spec

----------------------------------------------------------------------------
(* The text in the cache.                                                  *)

\* Up to its position the cache holds the text, whatever the last generation has
\* come to; so what the next one leaves of it is the system prompt.
CacheHolds ==
  /\ Sound(kv, CacheSize) /\ kv.entry \in Entry(CacheSize)
  /\ kv.position \in Len(System)..Len(Text)
  /\ HoldsText(kv, Text, kv.position)

RestTypes ==
  /\ npu \in BOOLEAN /\ pool \in BOOLEAN
  /\ pc \in {"ready", "prefill", "serve", "undefined"}
  /\ prompt \in Content /\ delivered \in Content /\ sampledFrom \in Content
  /\ prefilled \in Nat /\ position \in 0..CacheSize
  /\ nRest \in 0..MaxSteps /\ nRuns \in 0..MaxRuns
  /\ pc = "prefill" \/ (pc = "serve" /\ nRest > 0) => pool

\* While there is more of the prompt to evaluate, the iterator's own position is
\* where the current batch of batch_size tokens began.
PrefillInv ==
  pc = "prefill" =>
    /\ prefilled <= Len(prompt) - 1 /\ kv.position = Len(System) + prefilled
    /\ delivered = <<>>
    /\ prefilled < Len(prompt) - 1 => position + InBatch = kv.position

\* One token waits: the last of the text.
ServeInv ==
  Generating =>
    /\ prompt # <<>> /\ kv.position = Len(Text) - 1
    /\ tokens = <<tokens[1]>> /\ tokens[1] \in Token
    /\ delivered \o tokens = <<prompt[Len(prompt)]>> \o emitted

IteratorInv == EosInv /\ CacheHolds /\ RestTypes /\ PrefillInv /\ ServeInv

LEMMA SystemType ==
  System \in Content /\ Len(System) \in Nat /\ Len(System) <= CacheSize /\ CacheSize \in Nat
<1>1. <<>> \in Content /\ Len(<<>>) = 0
  BY EmptySeq DEF Content
<1>2. SystemPrompt \in Content /\ Len(SystemPrompt) \in Nat
  BY IteratorAssumption, LenProperties DEF Content
<1> QED
  BY <1>1, <1>2, IteratorAssumption DEF System

LEMMA TextFacts ==
  ASSUME IteratorInv
  PROVE  /\ Text \in Content /\ Text = Joined(System, prompt, emitted)
         /\ Len(Text) = Len(System) + Len(prompt) + Len(emitted)
         /\ Len(Text) \in Nat /\ Len(prompt) \in Nat /\ Len(emitted) \in Nat
         /\ prompt \in Content /\ emitted \in Content
         /\ \A i \in 1..Len(prompt) : Text[Len(System) + i] = prompt[i]
         /\ kv.position \in Nat /\ Sound(kv, CacheSize)
<1>1. PICK s, p, e : s = System /\ p = prompt /\ e = emitted
  OBVIOUS
<1>2. s \in Content /\ p \in Content /\ e \in Content
  BY <1>1, SystemType DEF IteratorInv, RestTypes, EosInv
<1>3. /\ Joined(s, p, e) \in Content /\ Len(Joined(s, p, e)) = Len(s) + Len(p) + Len(e)
      /\ Len(p) \in Nat /\ Len(e) \in Nat
      /\ \A i \in 1..Len(p) : Joined(s, p, e)[Len(s) + i] = p[i]
  BY <1>2, JoinedProperties
<1>4. Text = Joined(s, p, e)
  BY <1>1 DEF Text, Joined
<1>5. kv.position \in Nat
  BY SystemType DEF IteratorInv, CacheHolds, Sound
<1>6. Len(s) + Len(p) + Len(e) \in Nat
  BY <1>1, <1>3, SystemType
<1> QED
  BY <1>1, <1>2, <1>3, <1>4, <1>5, <1>6 DEF IteratorInv, CacheHolds

\* What attention shows a run of tokens is the text before it, on both backends.
LEMMA PassEntries ==
  ASSUME IteratorInv, NEW input, NEW n \in Nat, Len(input) = n, kv.position + n <= Len(Text),
         \A u \in 0..n-1 : input[u + 1] = Text[kv.position + u + 1]
  PROVE  RunEntries(Run(input, kv.position), Text, kv.position, n)
<1> DEFINE toks == [u \in 0..n-1 |-> input[u + 1]]
           positions == [u \in 0..n-1 |-> kv.position + u]
<1>1. PICK c, s, P : c = Visible(kv.position) /\ s = Text /\ P = kv.position
  OBVIOUS
<1>2. s \in Content /\ P \in Nat /\ P + n <= Len(s)
  BY <1>1, TextFacts
<1>3. HoldsText(c, s, P)
  <2>1. HoldsText(kv, s, P)
    BY <1>1 DEF IteratorInv, CacheHolds
  <2>2. c.open = 0..P-1 /\ c.entry = kv.entry
    <3>1. CASE npu
      BY <1>1, <2>1, <3>1 DEF Visible, HoldsText
    <3>2. CASE ~npu
      BY <1>1, <3>2, TextFacts DEF Visible, CpuSeen, Sound
    <3> QED
      BY <3>1, <3>2
  <2> QED
    BY <2>1, <2>2 DEF HoldsText
<1>4. Continues(toks, positions, s, P, n)
  BY <1>1 DEF Continues
<1>5. Run(input, kv.position) = Forward(c, toks, positions, Causal(n))
  BY <1>1 DEF Run
<1> HIDE DEF toks, positions
<1>6. RunEntries(Forward(c, toks, positions, Causal(n)), s, P, n)
  BY <1>2, <1>3, <1>4, ForwardRun
<1> QED
  BY <1>1, <1>5, <1>6

\* Both backends put the run behind the text.
LEMMA EvaluatedAppends ==
  ASSUME IteratorInv, NEW content, NEW n \in Nat
  PROVE  Evaluated(content, kv.position, n) = AdvanceTokens(SaveTokens(kv, content, n), n)
<1>1. PICK c : c = kv
  OBVIOUS
<1>2. Sound(c, CacheSize) /\ CacheSize \in Nat
  BY <1>1, SystemType DEF IteratorInv, CacheHolds
<1>3. [c EXCEPT !.position = c.position] = c
  BY <1>2 DEF Sound
<1> DEFINE saved == SaveTokens(c, content, n)
<1>4. Sound(saved, CacheSize) /\ saved.position = c.position
  BY <1>2, SaveTokensSound
<1> HIDE DEF saved
<1>5. [saved EXCEPT !.position = c.position] = saved
  BY <1>4 DEF Sound
<1>6. Evaluated(content, c.position, n)
        = AdvanceTokens([SaveTokens([c EXCEPT !.position = c.position], content, n)
                           EXCEPT !.position = c.position], n)
  BY <1>1 DEF Evaluated
<1> QED
  BY <1>1, <1>3, <1>5, <1>6 DEF saved

\* After a pass over the next n tokens of the text, the cache holds them too.
LEMMA PassHolds ==
  ASSUME IteratorInv, NEW input, NEW n \in Nat, Len(input) = n, kv.position + n <= Len(Text),
         \A u \in 0..n-1 : input[u + 1] = Text[kv.position + u + 1],
         Fits(kv, n), kv' = Evaluated(Run(input, kv.position), kv.position, n)
  PROVE  /\ Sound(kv', CacheSize) /\ kv'.entry \in Entry(CacheSize)
         /\ kv'.position = kv.position + n
         /\ HoldsText(kv', Text, kv'.position)
<1>1. PICK c, s, b, after : /\ c = kv /\ s = Text /\ b = Run(input, kv.position)
                            /\ after = AdvanceTokens(SaveTokens(c, b, n), n)
  OBVIOUS
<1>2. kv' = after
  BY <1>1, EvaluatedAppends
<1>3. RunEntries(b, s, c.position, n)
  BY <1>1, PassEntries
<1>4. /\ CacheSize \in Nat /\ Sound(c, CacheSize) /\ c.entry \in Entry(CacheSize)
      /\ s \in Content /\ Fits(c, n) /\ c.position + n <= Len(s)
      /\ HoldsText(c, s, c.position)
  BY <1>1, SystemType, TextFacts DEF IteratorInv, CacheHolds
<1>5. /\ Sound(after, CacheSize) /\ after.entry \in Entry(CacheSize)
      /\ HoldsText(after, s, after.position)
  BY <1>1, <1>3, <1>4, RunAppended
<1>6. after.position = c.position + n
  BY <1>1, <1>4, AppendBatchSound
<1> QED
  BY <1>1, <1>2, <1>5, <1>6

\* At the start there is nothing but the preloaded system prompt.
LEMMA IteratorInit == ASSUME Init PROVE IteratorInv
<1> DEFINE filled == [i \in 0..CacheSize-1 |->
                        IF i < Len(System) THEN SubSeq(System, 1, i+1) ELSE Garbage]
<1>1. /\ npu \in BOOLEAN /\ pc = "ready" /\ pool = FALSE /\ prompt = <<>> /\ prefilled = 0
      /\ position = 0 /\ nRest = 0 /\ tokens = <<>> /\ emitted = <<>> /\ sampledFrom = <<>>
      /\ delivered = <<>> /\ nRuns = 0
      /\ kv = [size |-> CacheSize, position |-> Len(System), open |-> 0..Len(System)-1,
               entry |-> filled]
  BY DEF Init
<1>2. Text = System
  <2>1. System \o <<>> = System /\ System \in Seq(Token)
    BY SystemType, ConcatEmptySeq DEF Content
  <2> QED
    BY <1>1, <2>1 DEF Text
<1>3. filled \in Entry(CacheSize) /\ \A i \in 0..Len(System)-1 : filled[i] = Take(System, i+1)
  <2>1. ASSUME NEW i \in 0..CacheSize-1, i < Len(System) PROVE Take(System, i+1) \in Content
    <3>1. i+1 \in 0..Len(System) /\ System \in Seq(Token)
      BY <2>1, SystemType DEF Content
    <3> QED
      BY <3>1, TakeProperties DEF Content
  <2>2. Garbage \in Content
    BY EmptySeq DEF Garbage, Content
  <2>3. 0..Len(System)-1 \subseteq 0..CacheSize-1
    BY SystemType
  <2>4. \A i \in 0..CacheSize-1 : filled[i] \in Content
    BY <2>1, <2>2, SystemType DEF Take
  <2> QED
    BY <2>3, <2>4, SystemType DEF Take, Entry
<1> HIDE DEF filled
<1>4. CacheHolds
  <2>1. 0..Len(System)-1 \in SUBSET Nat /\ Len(System) \in 0..CacheSize
    BY SystemType
  <2>2. Sound(kv, CacheSize)
    BY <1>1, <2>1 DEF Sound
  <2>3. kv.position = Len(System) /\ kv.open = 0..Len(System)-1 /\ kv.entry = filled
    BY <1>1
  <2>4. kv.position \in Len(System)..Len(Text)
    BY <1>2, <2>3, SystemType
  <2> QED
    BY <1>2, <1>3, <2>2, <2>3, <2>4 DEF CacheHolds, HoldsText
<1>5. RestTypes
  <2>1. <<>> \in Content
    BY EmptySeq DEF Content
  <2>2. 0 \in 0..CacheSize /\ 0 \in 0..MaxSteps /\ 0 \in 0..MaxRuns
    BY IteratorAssumption
  <2> QED
    BY <1>1, <2>1, <2>2 DEF RestTypes
<1> QED
  BY <1>1, <1>4, <1>5, EosInvInit DEF IteratorInv, PrefillInv, ServeInv, Generating

\* A step that leaves the text and the cache alone
LEMMA CacheHoldsStill ==
  ASSUME IteratorInv, UNCHANGED <<kv, npu, prompt, emitted>> PROVE CacheHolds'
  BY DEF IteratorInv, CacheHolds, Text, System, HoldsText

\* A new iterator keeps of the cache what every text begins with.
LEMMA ConstructHolds ==
  ASSUME IteratorInv, NEW p \in Prompts, NEW n \in 0..MaxSteps, Construct(p, n)
  PROVE  CacheHolds' /\ RestTypes' /\ PrefillInv' /\ ServeInv'
<1>1. /\ nRest' = n /\ tokens' = <<>> /\ npu' = npu /\ nRuns' = nRuns + 1 /\ nRuns < MaxRuns
      /\ nRuns' \in 0..MaxRuns
  BY IteratorAssumption DEF Construct, IteratorInv, RestTypes
<1>2. CASE n = 0
  <2>1. /\ pc' = "serve" /\ nRest' = 0
        /\ UNCHANGED <<kv, pool, prompt, prefilled, position, emitted, sampledFrom, delivered>>
    BY <1>2 DEF Construct, promptVars
  <2>2. RestTypes'
    BY <1>1, <2>1 DEF RestTypes, IteratorInv
  <2> QED
    BY <1>1, <2>1, <2>2, CacheHoldsStill DEF PrefillInv, ServeInv, Generating
<1>3. CASE n # 0
  <2>1. /\ kv' = TruncateTokens(kv, Len(System)) /\ pool' = TRUE /\ prompt' = p /\ prefilled' = 0
        /\ position' = kv'.position /\ emitted' = <<>> /\ sampledFrom' = <<>>
        /\ delivered' = <<>> /\ pc' = "prefill"
    BY <1>3 DEF Construct
  <2>2. PICK c, s, k : c = kv /\ s = Text /\ k = Len(System)
    OBVIOUS
  <2>3. /\ Sound(c, CacheSize) /\ c.entry \in Entry(CacheSize) /\ HoldsText(c, s, c.position)
        /\ c.position \in Nat /\ k \in Nat /\ k <= c.position /\ CacheSize \in Nat
    BY <2>2, TextFacts, SystemType DEF IteratorInv, CacheHolds
  <2>4. /\ Sound(kv', CacheSize) /\ kv'.entry = c.entry
        /\ kv'.position = k /\ kv'.open = 0..k-1
    <3>1. CASE k < c.position
      <4>1. c.position - k \in 0..c.position /\ c.position - (c.position - k) = k
        BY <2>3
      <4>2. kv' = RollbackTokens(c, c.position - k)
        BY <2>1, <2>2, <3>1 DEF TruncateTokens
      <4>3. PICK m : m = c.position - k
        OBVIOUS
      <4>4. /\ Sound(kv', CacheSize) /\ kv'.position = c.position - m
            /\ kv'.entry = c.entry /\ kv'.open = c.open \ (c.position - m .. c.position - 1)
        <5>1. m \in 0..c.position /\ kv' = RollbackTokens(c, m)
          BY <4>1, <4>2, <4>3
        <5> QED
          BY <2>3, <5>1, RollbackTokensSound, RollbackTokensEntries
      <4>5. c.position - m = k
        BY <2>3, <4>3
      <4>6. (0..c.position-1) \ (k..c.position-1) = 0..k-1
        BY <2>3
      <4> QED
        BY <2>3, <4>4, <4>5, <4>6 DEF HoldsText
    <3>2. CASE ~(k < c.position)
      <4>1. kv' = c /\ k = c.position
        BY <2>1, <2>2, <2>3, <3>2 DEF TruncateTokens
      <4> QED
        BY <2>3, <4>1 DEF HoldsText
    <3> QED
      BY <3>1, <3>2
  <2>5. PICK now : now = Text'
    OBVIOUS
  <2>6. now = Joined(System, p, <<>>)
    BY <1>1, <2>1, <2>5 DEF Text, System, Joined
  <2>7. p \in Content /\ p # <<>> /\ <<>> \in Content
    BY IteratorAssumption, EmptySeq DEF Content
  <2>8. /\ Len(now) = k + Len(p) + 0 /\ Len(p) \in Nat \ {0}
        /\ \A i \in 0..k : Take(now, i) = Take(System, i)
    <3>1. /\ Len(now) = Len(System) + Len(p) + Len(<<>>) /\ Len(p) \in Nat
          /\ \A i \in 0..Len(System) : Take(now, i) = Take(System, i)
      <4>1. PICK y, z : y = System /\ z = <<>>
        OBVIOUS
      <4>2. y \in Content /\ z \in Content /\ now = Joined(y, p, z)
        BY <2>6, <2>7, <4>1, SystemType
      <4>3. /\ Len(now) = Len(y) + Len(p) + Len(z) /\ Len(p) \in Nat
            /\ \A i \in 0..Len(y) : Take(now, i) = Take(y, i)
        BY <2>7, <4>2, JoinedProperties
      <4> QED
        BY <4>1, <4>3
    <3>2. Len(<<>>) = 0 /\ Len(p) # 0
      BY <2>7, EmptySeq DEF Content
    <3> QED
      BY <2>2, <3>1, <3>2
  <2>9. \A i \in 0..k : Take(s, i) = Take(System, i)
    <3>1. PICK e : e = emitted
      OBVIOUS
    <3>2. PICK q : q = prompt
      OBVIOUS
    <3>3. s = Joined(System, q, e) /\ q \in Content /\ e \in Content
      BY <2>2, <3>1, <3>2, TextFacts
    <3> QED
      BY <2>2, <3>3, SystemType, JoinedProperties
  <2>10. CacheHolds'
    <3>1. \A i \in 0..k-1 : c.entry[i] = Take(now, i+1)
      <4>1. \A i \in 0..k-1 : c.entry[i] = Take(s, i+1) /\ i+1 \in 0..k
        BY <2>3 DEF HoldsText
      <4> QED
        BY <2>8, <2>9, <4>1
    <3>2. HoldsText(kv', now, kv'.position)
      BY <2>4, <3>1 DEF HoldsText
    <3>3. System' = System /\ k \in k..Len(now)
      BY <1>1, <2>3, <2>8 DEF System
    <3> QED
      BY <2>2, <2>3, <2>4, <2>5, <3>2, <3>3 DEF CacheHolds
  <2>11. RestTypes'
    <3>1. k \in 0..CacheSize
      BY <2>2, SystemType
    <3> QED
      BY <1>1, <2>1, <2>4, <2>7, <3>1 DEF RestTypes, IteratorInv
  <2>12. PrefillInv'
    <3>1. System' = System /\ InBatch' = 0
      BY <1>1, <2>1, IteratorAssumption DEF System, InBatch
    <3>2. 0 <= Len(p) - 1 /\ k = k + 0
      BY <2>3, <2>8
    <3> QED
      BY <2>1, <2>2, <2>3, <2>4, <3>1, <3>2 DEF PrefillInv
  <2> QED
    BY <1>1, <2>1, <2>10, <2>11, <2>12 DEF ServeInv, Generating
<1> QED
  BY <1>2, <1>3

\* Counting on by n, at most to the next multiple of b
LEMMA CountOn ==
  ASSUME NEW b \in Nat \ {0}, NEW a \in Nat, NEW n \in Nat, (a % b) + n <= b
  PROVE  (a + n) % b = IF (a % b) + n < b THEN (a % b) + n ELSE 0
<1> DEFINE q == a \div b
           r == a % b
<1>1. q \in Nat /\ r \in 0..b-1 /\ a = b * q + r
  OBVIOUS
<1> HIDE DEF q, r
<1>2. ASSUME NEW x \in Nat, NEW k \in Nat, NEW t \in 0..b-1, x = b * k + t PROVE x % b = t
  <2>1. /\ x \div b \in Nat /\ x % b \in 0..b-1 /\ x = b * (x \div b) + (x % b)
    OBVIOUS
  <2> DEFINE m == x \div b
             u == x % b
  <2>2. m \in Nat /\ u \in 0..b-1 /\ b * m + u = b * k + t
    BY <1>2, <2>1
  <2> HIDE DEF m, u
  <2>3. m = k
    <3>1. CASE m < k
      <4>1. b * m + b <= b * k
        BY <2>2, <3>1
      <4> QED
        BY <2>2, <4>1
    <3>2. CASE m > k
      <4>1. b * k + b <= b * m
        BY <2>2, <3>2
      <4> QED
        BY <2>2, <4>1
    <3> QED
      BY <2>2, <3>1, <3>2
  <2> QED
    BY <2>2, <2>3 DEF u
<1>3. CASE r + n < b
  <2>1. a + n \in Nat /\ r + n \in 0..b-1 /\ a + n = b * q + (r + n)
    BY <1>1, <1>3
  <2>2. (a + n) % b = r + n
    BY <1>1, <1>2, <2>1
  <2> QED
    BY <1>3, <2>2 DEF r
<1>4. CASE r + n = b
  <2>1. a + n \in Nat /\ 0 \in 0..b-1 /\ q + 1 \in Nat /\ a + n = b * (q + 1) + 0
    BY <1>1, <1>4
  <2>2. (a + n) % b = 0
    BY <1>2, <2>1
  <2> QED
    BY <1>4, <2>2 DEF r
<1>5. r + n <= b
  BY DEF r
<1> QED
  BY <1>1, <1>3, <1>4, <1>5

\* A piece is no longer than the rest of the batch and the rest of the prompt.
LEMMA PieceFits ==
  ASSUME IteratorInv, PrefillBatch
  PROVE  /\ PieceSize \in Nat \ {0} /\ PieceSize <= Len(prompt) - 1 - prefilled
         /\ PieceSize <= BatchSize - InBatch
         /\ prefilled < Len(prompt) - 1 /\ position + InBatch = kv.position /\ InBatch \in Nat
<1> DEFINE sizes == {BatchSize - InBatch, Len(prompt) - 1 - prefilled}
                      \cup IF npu THEN {MaxBatch} ELSE {}
<1>1. /\ pc = "prefill" /\ PieceSize > 0 /\ PieceSize = Least(sizes)
      /\ prefilled \in Nat /\ prefilled <= Len(prompt) - 1 /\ Len(prompt) \in Nat
      /\ prefilled < Len(prompt) - 1 => position + InBatch = kv.position
  BY TextFacts DEF PrefillBatch, IteratorInv, RestTypes, PrefillInv, PieceSize
<1>2. BatchSize \in Nat \ {0} /\ MaxBatch \in Nat
  BY IteratorAssumption
<1>3. InBatch \in 0..BatchSize-1
  BY <1>1, <1>2 DEF InBatch
<1>4. sizes \subseteq Nat /\ sizes # {}
  BY <1>1, <1>2, <1>3
<1>5. /\ BatchSize - InBatch \in sizes /\ Len(prompt) - 1 - prefilled \in sizes
  OBVIOUS
<1> HIDE DEF sizes
<1>6. Least(sizes) \in sizes /\ \A m \in sizes : Least(sizes) <= m
  <2>1. \E n \in sizes : \A m \in sizes : n <= m
    BY <1>4, LeastElement
  <2> QED
    BY <2>1 DEF Least
<1>7. PieceSize \in Nat \ {0}
  <2>1. PICK least : least = PieceSize
    OBVIOUS
  <2>2. least \in Nat /\ least > 0
    BY <1>1, <1>4, <1>6, <2>1
  <2> QED
    BY <2>1, <2>2
<1> QED
  BY <1>1, <1>3, <1>5, <1>6, <1>7

\* A batch of the prompt, or the exception in its place
LEMMA PrefillBatchHolds ==
  ASSUME IteratorInv, PrefillBatch
  PROVE  CacheHolds' /\ RestTypes' /\ PrefillInv' /\ ServeInv'
<1>1. PICK n, done, first : n = PieceSize /\ done = prefilled /\ first = position + InBatch
  OBVIOUS
<1>2. /\ n \in Nat \ {0} /\ n <= Len(prompt) - 1 - done /\ n <= BatchSize - InBatch
      /\ first = kv.position /\ done \in Nat /\ Len(prompt) \in Nat /\ InBatch \in Nat
  BY <1>1, PieceFits, TextFacts DEF IteratorInv, RestTypes
<1>3. CASE Fits(kv, n)
  <2> DEFINE input == SubSeq(prompt, done + 1, done + n)
             isLast == InBatch + n = BatchSize \/ done + n = Len(prompt) - 1
  <2>1. /\ kv' = Evaluated(Run(input, first), first, n)
        /\ prefilled' = done + n
        /\ position' = IF isLast THEN kv'.position ELSE position
        /\ UNCHANGED <<npu, pc, pool, prompt, nRest, tokens, sampler, histVars>>
        /\ pc = "prefill"
    BY <1>1, <1>3 DEF PrefillBatch
  <2>2. Len(input) = n /\ \A u \in 0..n-1 : input[u + 1] = prompt[done + u + 1]
    <3>1. prompt \in Seq(Token) /\ done + n <= Len(prompt)
      BY <1>2, TextFacts DEF Content
    <3>2. done + 1 \in Int /\ done + n \in Int
      BY <1>2
    <3>3. \A i \in (done + 1)..(done + n) : prompt[i] \in Token
      BY <1>2, <3>1, ElementOfSeq
    <3>4. /\ Len(input) = (done + n) - (done + 1) + 1
          /\ \A i \in 1..(done + n) - (done + 1) + 1 : input[i] = prompt[(done + 1) + i - 1]
      <4>1. PICK p, a, b : p = prompt /\ a = done + 1 /\ b = done + n
        OBVIOUS
      <4>2. a \in Int /\ b \in Int /\ a <= b /\ \A i \in a..b : p[i] \in Token
        BY <1>2, <3>2, <3>3, <4>1
      <4>3. /\ Len(SubSeq(p, a, b)) = IF a <= b THEN b - a + 1 ELSE 0
            /\ \A i \in 1..b-a+1 : SubSeq(p, a, b)[i] = p[a + i - 1]
        BY <4>2, SubSeqProperties
      <4> QED
        BY <4>1, <4>2, <4>3
    <3>5. (done + n) - (done + 1) + 1 = n
      BY <1>2
    <3> HIDE DEF input
    <3>6. ASSUME NEW u \in 0..n-1 PROVE input[u + 1] = prompt[done + u + 1]
      <4>1. u + 1 \in 1..n /\ (done + 1) + (u + 1) - 1 = done + u + 1
        BY <1>2
      <4> QED
        BY <3>4, <3>5, <4>1
    <3> QED
      BY <3>4, <3>5, <3>6
  <2> HIDE DEF input
  <2>3. kv.position = Len(System) + done /\ delivered = <<>> /\ emitted = <<>>
    BY <1>1, <2>1 DEF IteratorInv, PrefillInv, EosInv
  <2>4. kv.position + n <= Len(Text) /\ Len(Text) \in Nat /\ kv.position \in Nat
    BY <1>2, <2>3, TextFacts, SystemType
  <2>5. \A u \in 0..n-1 : input[u + 1] = Text[kv.position + u + 1]
    <3>1. ASSUME NEW u \in 0..n-1 PROVE prompt[done + u + 1] = Text[kv.position + u + 1]
      <4>1. done + u + 1 \in 1..Len(prompt)
            /\ kv.position + u + 1 = Len(System) + (done + u + 1)
        BY <1>2, <2>3, SystemType
      <4> QED
        BY <4>1, TextFacts
    <3> QED
      BY <2>2, <3>1
  <2>6. /\ Sound(kv', CacheSize) /\ kv'.entry \in Entry(CacheSize)
        /\ kv'.position = kv.position + n
        /\ HoldsText(kv', Text, kv'.position)
    BY <1>2, <1>3, <2>1, <2>2, <2>4, <2>5, PassHolds
  <2>7. UNCHANGED <<System, Text, delivered, emitted, sampledFrom, nRuns>>
    BY <2>1 DEF System, Text, histVars
  <2>8. CacheHolds'
    <3>1. kv'.position \in Len(System)..Len(Text)
      BY <1>2, <2>3, <2>4, <2>6, SystemType
    <3> QED
      BY <2>6, <2>7, <3>1 DEF CacheHolds
  <2>9. RestTypes'
    <3>1. kv'.position \in 0..CacheSize
      BY <2>6, SystemType DEF Sound
    <3>2. prefilled' \in Nat
      BY <1>2, <2>1
    <3> QED
      BY <2>1, <2>7, <3>1, <3>2 DEF RestTypes, IteratorInv
  <2>10. PrefillInv'
    <3>1. prefilled' <= Len(prompt) - 1 /\ kv'.position = Len(System) + prefilled'
      BY <1>2, <2>1, <2>3, <2>6, SystemType
    <3>2. ASSUME prefilled' < Len(prompt) - 1 PROVE position' + InBatch' = kv'.position
      <4>1. InBatch' = IF InBatch + n < BatchSize THEN InBatch + n ELSE 0
        <5>1. InBatch = done % BatchSize /\ InBatch' = (done + n) % BatchSize
          BY <1>1, <2>1 DEF InBatch
        <5>2. BatchSize \in Nat \ {0}
          BY IteratorAssumption
        <5>3. (done % BatchSize) + n <= BatchSize
          BY <1>2, <5>1, <5>2
        <5> QED
          BY <1>2, <5>1, <5>2, <5>3, CountOn
      <4>2. isLast <=> InBatch + n = BatchSize
        BY <1>2, <2>1, <3>2
      <4>3. BatchSize \in Nat /\ position \in Nat
        BY IteratorAssumption DEF IteratorInv, RestTypes
      <4>4. CASE InBatch + n = BatchSize
        <5>1. InBatch' = 0 /\ position' = kv'.position
          BY <2>1, <4>1, <4>2, <4>3, <4>4
        <5>2. kv'.position \in Nat
          BY <1>2, <2>4, <2>6
        <5> QED
          BY <5>1, <5>2
      <4>5. CASE InBatch + n # BatchSize
        <5>1. InBatch' = InBatch + n /\ position' = position
          BY <1>2, <2>1, <4>1, <4>2, <4>3, <4>5
        <5> QED
          BY <1>1, <1>2, <2>6, <4>3, <5>1
      <4> QED
        BY <4>4, <4>5
    <3> QED
      BY <2>1, <2>3, <2>7, <3>1, <3>2 DEF PrefillInv
  <2>11. ServeInv'
    BY <2>1 DEF ServeInv, Generating
  <2> QED
    BY <2>8, <2>9, <2>10, <2>11
<1>4. CASE ~Fits(kv, n)
  <2>1. NoRoom(pool) /\ UNCHANGED <<npu, kv, promptVars, nRest, tokens, sampler, histVars>>
    BY <1>1, <1>4 DEF PrefillBatch
  <2>2. pc' \in {"ready", "undefined"} /\ pool' = pool
    BY <2>1 DEF NoRoom
  <2>3. RestTypes'
    BY <2>1, <2>2 DEF RestTypes, IteratorInv, promptVars, histVars
  <2>4. CacheHolds'
    BY <2>1, CacheHoldsStill DEF promptVars, histVars
  <2> QED
    BY <2>2, <2>3, <2>4 DEF PrefillInv, ServeInv, Generating
<1> QED
  BY <1>3, <1>4

\* After the prefill only the last token of the prompt is missing.
LEMMA PrefillDoneHolds ==
  ASSUME IteratorInv, EosInv', PrefillDone
  PROVE  CacheHolds' /\ RestTypes' /\ PrefillInv' /\ ServeInv'
<1>1. /\ pc = "prefill" /\ prefilled = Len(prompt) - 1 /\ tokens' = <<prompt[Len(prompt)]>>
      /\ pc' = "serve"
      /\ UNCHANGED <<npu, kv, pool, promptVars, nRest, sampler, histVars>>
  BY DEF PrefillDone
<1>2. UNCHANGED <<npu, kv, pool, prompt, prefilled, position, nRest, emitted, sampledFrom,
                  delivered, nRuns, System, Text>>
  BY <1>1 DEF promptVars, histVars, System, Text
<1>3. RestTypes'
  BY <1>1, <1>2 DEF RestTypes, IteratorInv
<1>4. ServeInv'
  <2>1. /\ prompt \in Prompts /\ emitted = <<>> /\ delivered = <<>>
        /\ kv.position = Len(System) + prefilled
    BY <1>1 DEF IteratorInv, EosInv, PrefillInv
  <2>2. prompt # <<>> /\ prompt \in Seq(Token) /\ Len(emitted) = 0
    BY <2>1, IteratorAssumption, EmptySeq DEF Content
  <2>3. prompt[Len(prompt)] \in Token /\ tokens'[1] = prompt[Len(prompt)]
    BY <1>1, <2>2, EmptySeq, ElementOfSeq, LenProperties
  <2>4. kv.position = Len(Text) - 1
    BY <1>1, <2>1, <2>2, TextFacts, SystemType
  <2>5. delivered' \o tokens' = <<prompt[Len(prompt)]>> \o emitted
    <3> DEFINE last == <<prompt[Len(prompt)]>>
    <3>1. last \in Seq(Token)
      BY <2>3
    <3> HIDE DEF last
    <3>2. <<>> \o last = last /\ last \o <<>> = last
      BY <3>1, ConcatEmptySeq
    <3>3. tokens' = last /\ delivered' = <<>>
      BY <1>1, <1>2, <2>1 DEF last
    <3> QED
      BY <2>1, <3>2, <3>3 DEF last
  <2> QED
    BY <1>1, <1>2, <2>2, <2>3, <2>4, <2>5 DEF ServeInv
<1> QED
  BY <1>1, <1>2, <1>3, <1>4, CacheHoldsStill DEF PrefillInv

\* A token is evaluated and the next one sampled.
LEMMA NextTokenSamples ==
  ASSUME IteratorInv, NEW t \in Token, NextToken(t), Fits(kv, 1)
  PROVE  /\ CacheHolds' /\ RestTypes' /\ PrefillInv' /\ ServeInv'
         /\ Text' = Append(Text, t) /\ sampledFrom' = Text
<1>1. /\ pc = "serve" /\ nRest # 0
      /\ kv' = Evaluated(Run(tokens, kv.position), kv.position, 1)
      /\ delivered' = Append(delivered, Head(tokens))
      /\ tokens' = Append(Tail(tokens), t)
      /\ nRest' = nRest - 1
      /\ emitted' = Append(emitted, t)
      /\ sampledFrom' = Run(tokens, kv.position)[0]
      /\ UNCHANGED <<npu, pc, pool, promptVars, nRuns>>
  BY DEF NextToken, Stopped
<1>2. Generating
  BY <1>1 DEF IteratorInv, EosInv, Generating
<1>3. PICK d, e, p, w : d = delivered /\ e = emitted /\ p = prompt /\ w = tokens[1]
  OBVIOUS
<1>4. /\ p # <<>> /\ p \in Content /\ e \in Content /\ d \in Content /\ w \in Token
      /\ tokens = <<w>> /\ kv.position = Len(Text) - 1
      /\ d \o <<w>> = <<p[Len(p)]>> \o e
  BY <1>2, <1>3 DEF IteratorInv, ServeInv, RestTypes, EosInv
<1>5. PICK s : s = Text
  OBVIOUS
<1>6. /\ s \in Content /\ s \in Seq(Token) /\ Len(s) \in Nat /\ kv.position = Len(s) - 1
      /\ kv.position \in Nat /\ s = Joined(System, p, e) /\ System \in Content
  BY <1>3, <1>4, <1>5, TextFacts, SystemType DEF Content
<1>7. /\ <<w>> \in Seq(Token) /\ Len(<<w>>) = 1 /\ <<w>>[1] = w
      /\ Head(<<w>>) = w /\ Tail(<<w>>) = <<>>
  BY <1>4
<1>8. w = s[Len(s)]
  <2>1. d \o <<w>> \in Seq(Token)
    BY <1>4, <1>7, ConcatProperties DEF Content
  <2>2. d \o <<w>> \o <<>> = <<p[Len(p)]>> \o e
    BY <1>4, <2>1, ConcatEmptySeq
  <2>3. PICK y : y = System
    OBVIOUS
  <2>4. y \in Content /\ p \in Content /\ p # <<>> /\ e \in Content /\ d \in Content /\ w \in Token
    BY <1>4, <1>6, <2>3
  <2>5. Joined(y, p, e)[Len(Joined(y, p, e))] = w
    BY <2>2, <2>4, JoinedLast DEF Joined
  <2> QED
    BY <1>6, <2>3, <2>5
<1>9. /\ Len(tokens) = 1 /\ kv.position + 1 <= Len(Text)
      /\ \A u \in 0..1-1 : tokens[u + 1] = Text[kv.position + u + 1]
  <2>1. Len(tokens) = 1 /\ tokens[1] = w
    BY <1>4, <1>7
  <2>2. kv.position + 0 + 1 = Len(s) /\ 0..1-1 = {0}
    BY <1>6
  <2> QED
    BY <1>5, <1>6, <1>8, <2>1, <2>2
<1>10. /\ Sound(kv', CacheSize) /\ kv'.entry \in Entry(CacheSize)
       /\ kv'.position = kv.position + 1
       /\ HoldsText(kv', Text, kv'.position)
  <2>1. PICK n : n = 1
    OBVIOUS
  <2>2. /\ n \in Nat /\ Len(tokens) = n /\ kv.position + n <= Len(Text)
        /\ \A u \in 0..n-1 : tokens[u + 1] = Text[kv.position + u + 1]
        /\ Fits(kv, n) /\ kv' = Evaluated(Run(tokens, kv.position), kv.position, n)
    BY <1>1, <1>9, <2>1
  <2>3. /\ Sound(kv', CacheSize) /\ kv'.entry \in Entry(CacheSize)
        /\ kv'.position = kv.position + n
        /\ HoldsText(kv', Text, kv'.position)
    BY <2>2, PassHolds
  <2> QED
    BY <2>1, <2>3
<1>11. sampledFrom' = s
  <2>1. RunEntries(Run(tokens, kv.position), Text, kv.position, 1)
    BY <1>9, PassEntries
  <2>2. Run(tokens, kv.position)[0] = Take(Text, kv.position + 0 + 1)
    <3>1. 0 \in 0..1-1
      OBVIOUS
    <3> QED
      BY <2>1, <3>1 DEF RunEntries
  <2>3. kv.position + 0 + 1 = Len(s)
    BY <1>6
  <2> QED
    BY <1>1, <1>5, <1>6, <2>2, <2>3, TakeAll
<1>12. Text' = Append(s, t)
  <2>1. Text' = Joined(System, p, Append(e, t))
    BY <1>1, <1>3 DEF Text, System, Joined, promptVars
  <2>2. PICK y : y = System
    OBVIOUS
  <2>3. Joined(y, p, Append(e, t)) = Append(Joined(y, p, e), t)
    <3>1. y \in Content /\ p \in Content /\ e \in Content /\ t \in Token
      BY <1>4, <1>6, <2>2
    <3> QED
      BY <3>1, JoinedGrows DEF Joined
  <2> QED
    BY <1>6, <2>1, <2>2, <2>3
<1>13. CacheHolds'
  <2>1. PICK c, now : c = kv' /\ now = Append(s, t)
    OBVIOUS
  <2>2. Len(now) = Len(s) + 1 /\ \A i \in 0..Len(s) : Take(now, i) = Take(s, i)
    BY <1>6, <2>1, AppendProperties, TakeAppend
  <2>3. c.position = Len(s)
    BY <1>6, <1>10, <2>1
  <2>4. c.open = 0..c.position-1 /\ \A i \in 0..c.position-1 : c.entry[i] = Take(s, i+1)
    BY <1>5, <1>10, <2>1 DEF HoldsText
  <2>5. \A i \in 0..c.position-1 : i+1 \in 0..Len(s)
    BY <1>6, <2>3
  <2>6. HoldsText(c, now, c.position)
    BY <2>2, <2>4, <2>5 DEF HoldsText
  <2>7. System' = System
    BY <1>1 DEF System
  <2>8. c.position \in Len(System)..Len(now)
    <3>1. kv.position >= Len(System)
      BY DEF IteratorInv, CacheHolds
    <3> QED
      BY <1>6, <2>2, <2>3, <3>1, SystemType
  <2> QED
    BY <1>10, <1>12, <2>1, <2>6, <2>7, <2>8 DEF CacheHolds
<1>14. delivered' = Append(d, w) /\ tokens' = <<t>> /\ delivered' \in Content
  <2>1. Append(<<>>, t) = <<t>>
    OBVIOUS
  <2>2. Append(d, w) \in Content
    BY <1>4, AppendProperties DEF Content
  <2> QED
    BY <1>1, <1>3, <1>4, <1>7, <2>1, <2>2
<1>15. RestTypes'
  <2>1. nRest' \in 0..MaxSteps /\ (nRest' > 0 => nRest > 0)
    BY <1>1, IteratorAssumption DEF IteratorInv, RestTypes
  <2>2. sampledFrom' \in Content
    BY <1>6, <1>11
  <2> QED
    BY <1>1, <1>14, <2>1, <2>2 DEF IteratorInv, RestTypes, promptVars
<1>16. ServeInv'
  <2>1. kv'.position = Len(Text') - 1
    BY <1>6, <1>10, <1>12, AppendProperties
  <2>2. tokens' = <<tokens'[1]>> /\ tokens'[1] \in Token
    BY <1>14
  <2>3. delivered' \o tokens' = <<p[Len(p)]>> \o Append(e, t)
    <3> DEFINE last == <<p[Len(p)]>>
               one == <<w>>
               new == <<t>>
    <3>1. last \in Seq(Token) /\ one \in Seq(Token) /\ new \in Seq(Token)
      <4>1. p[Len(p)] \in Token
        BY <1>4, EmptySeq, ElementOfSeq, LenProperties DEF Content
      <4> QED
        BY <4>1, <1>4
    <3>2. Append(d, w) = d \o one /\ Append(e, t) = e \o new
      BY <1>4, AppendIsConcat DEF Content
    <3> HIDE DEF last, one, new
    <3>3. d \o one = last \o e
      BY <1>4 DEF last, one
    <3>4. (last \o e) \o new = last \o (e \o new)
      <4>1. e \in Seq(Token)
        BY <1>4 DEF Content
      <4> QED
        BY <3>1, <4>1, ConcatAssociative
    <3> QED
      BY <1>14, <3>2, <3>3, <3>4 DEF last, new
  <2>4. prompt' = p /\ emitted' = Append(e, t)
    BY <1>1, <1>3 DEF promptVars
  <2> QED
    BY <1>4, <2>1, <2>2, <2>3, <2>4 DEF ServeInv
<1> QED
  BY <1>1, <1>5, <1>11, <1>12, <1>13, <1>15, <1>16 DEF PrefillInv

\* Steps that end a generation, and those that change nothing
LEMMA EndHolds ==
  ASSUME IteratorInv, UNCHANGED <<npu, kv, promptVars, nRest, tokens, histVars>>,
         \/ pc' \in {"ready", "undefined"} /\ pool' \in BOOLEAN
         \/ UNCHANGED <<pc, pool>>
  PROVE  CacheHolds' /\ RestTypes' /\ PrefillInv' /\ ServeInv'
<1>1. UNCHANGED <<npu, kv, prompt, prefilled, position, nRest, tokens, emitted, sampledFrom,
                  delivered, nRuns, System, Text>>
  BY DEF promptVars, histVars, System, Text
<1>2. CacheHolds'
  BY <1>1, CacheHoldsStill
<1>3. RestTypes'
  BY <1>1 DEF IteratorInv, RestTypes
<1>4. PrefillInv'
  BY <1>1 DEF IteratorInv, PrefillInv, InBatch
<1>5. ServeInv'
  BY <1>1 DEF IteratorInv, ServeInv, Generating
<1> QED
  BY <1>2, <1>3, <1>4, <1>5

LEMMA IteratorStep == IteratorInv /\ [Next]_vars => IteratorInv'
<1> SUFFICES ASSUME IteratorInv, [Next]_vars PROVE IteratorInv'
  OBVIOUS
<1> DEFINE Others == CacheHolds' /\ RestTypes' /\ PrefillInv' /\ ServeInv'
<1>1. EosInv'
  BY EosInvStep DEF IteratorInv
<1>2. ASSUME Ask PROVE Others
  BY <1>2, ConstructHolds DEF Ask
<1>3. ASSUME PrefillBatch \/ PrefillDone PROVE Others
  BY <1>1, <1>3, PrefillBatchHolds, PrefillDoneHolds
<1>4. ASSUME NEW t \in Token, NextToken(t) PROVE Others
  <2>1. CASE Fits(kv, 1)
    BY <1>4, <2>1, NextTokenSamples
  <2>2. CASE ~Fits(kv, 1)
    <3>1. NoRoom(FALSE) /\ UNCHANGED <<npu, kv, promptVars, nRest, tokens, sampler, histVars>>
      BY <1>4, <2>2 DEF NextToken
    <3>2. pc' \in {"ready", "undefined"} /\ pool' \in BOOLEAN
      BY <3>1 DEF NoRoom, IteratorInv, RestTypes
    <3> QED
      BY <3>1, <3>2, EndHolds
  <2> QED
    BY <2>1, <2>2
<1>5. ASSUME Destruct \/ UNCHANGED vars PROVE Others
  BY <1>5, EndHolds DEF Destruct, vars
<1>6. Others
  BY <1>2, <1>3, <1>4, <1>5 DEF Next, Generate
<1> QED
  BY <1>1, <1>6 DEF IteratorInv

LEMMA IteratorInvariant == Spec => []IteratorInv
  BY IteratorInit, IteratorStep, PTL DEF Spec

\* Between two calls of next() the cache is that of the text so far, however the
\* prompt was cut into batches, on both backends and whatever the generations
\* before have come to.
THEOREM CacheAlwaysFollows == Spec => []CacheFollowsText
<1>1. IteratorInv => CacheFollowsText
  BY DEF IteratorInv, CacheHolds, ServeInv, CacheFollowsText, HoldsText, Take
<1> QED
  BY <1>1, IteratorInvariant, PTL

\* Every variable of the iterator has its type, and there is a thread pool
\* whenever something is evaluated.
THEOREM IteratorTypes == Spec => []TypeOK
<1>1. ASSUME IteratorInv PROVE TypeOK
  <2>1. kv \in Cache(CacheSize)
    <3>1. /\ kv = [size |-> kv.size, position |-> kv.position, open |-> kv.open, entry |-> kv.entry]
          /\ kv.size = CacheSize /\ kv.position \in 0..CacheSize
          /\ kv.open \subseteq 0..kv.position-1 /\ kv.entry \in [0..CacheSize-1 -> Content]
      BY <1>1 DEF IteratorInv, CacheHolds, Sound, Entry
    <3>2. kv.open \in SUBSET (0..CacheSize-1)
      BY <3>1, SystemType
    <3> QED
      BY <3>1, <3>2 DEF Cache
  <2> QED
    BY <1>1, <2>1 DEF IteratorInv, EosInv, RestTypes, TypeOK
<1> QED
  BY <1>1, IteratorInvariant, PTL

\* A step of plain decoding submits a prompt, samples one token behind the text,
\* or leaves both as they are.
LEMMA StepFaithful ==
  ASSUME IteratorInv, [Next]_vars
  PROVE  [Autoregressive!Next]_(Autoregressive!vars)
<1> DEFINE same == UNCHANGED <<System, Text, sampledFrom>>
<1>1. ASSUME same PROVE UNCHANGED Autoregressive!vars
  BY <1>1 DEF Autoregressive!vars
<1>2. ASSUME NEW p \in Prompts, NEW n \in 0..MaxSteps, Construct(p, n)
      PROVE  same \/ Autoregressive!Next
  <2>1. CASE n = 0
    BY <1>2, <2>1 DEF Construct, System, Text, promptVars
  <2>2. CASE n # 0
    <3>1. npu' = npu /\ prompt' = p /\ emitted' = <<>> /\ sampledFrom' = <<>>
      BY <1>2, <2>2 DEF Construct
    <3>2. System' = System /\ System \in Seq(Token) /\ p \in Seq(Token)
      BY <3>1, SystemType, IteratorAssumption DEF System, Content
    <3>3. Text' = System \o p
      <4>1. System \o p \in Seq(Token)
        BY <3>2, ConcatProperties
      <4>2. (System \o p) \o <<>> = System \o p
        BY <4>1, ConcatEmptySeq
      <4> QED
        BY <3>1, <3>2, <4>2 DEF Text
    <3>4. Autoregressive!Submit(p)
      BY <3>1, <3>3 DEF Autoregressive!Submit
    <3> QED
      BY <3>2, <3>4 DEF Autoregressive!Next
  <2> QED
    BY <2>1, <2>2
<1>3. ASSUME NEW t \in Token, NextToken(t) PROVE same \/ Autoregressive!Next
  <2>1. CASE Fits(kv, 1)
    <3>1. Text' = Append(Text, t) /\ sampledFrom' = Text
      BY <1>3, <2>1, NextTokenSamples
    <3>2. Autoregressive!Sample(t)
      BY <3>1 DEF Autoregressive!Sample
    <3>3. System' = System
      <4>1. npu' = npu
        BY <1>3, <2>1 DEF NextToken
      <4> QED
        BY <4>1 DEF System
    <3> QED
      BY <3>2, <3>3 DEF Autoregressive!Next
  <2>2. CASE ~Fits(kv, 1)
    <3>1. UNCHANGED <<npu, prompt, emitted, sampledFrom>>
      BY <1>3, <2>2 DEF NextToken, promptVars, histVars
    <3> QED
      BY <3>1 DEF System, Text
  <2> QED
    BY <2>1, <2>2
<1>4. ASSUME PrefillBatch \/ PrefillDone \/ Destruct \/ UNCHANGED vars PROVE same
  <2>1. UNCHANGED <<npu, prompt, emitted, sampledFrom>>
    <3>1. CASE PrefillBatch
      BY <3>1 DEF PrefillBatch, promptVars, histVars
    <3>2. CASE PrefillDone \/ Destruct \/ UNCHANGED vars
      BY <3>2 DEF PrefillDone, Destruct, vars, promptVars, histVars
    <3> QED
      BY <1>4, <3>1, <3>2
  <2> QED
    BY <2>1 DEF System, Text
<1> QED
  BY <1>1, <1>2, <1>3, <1>4 DEF Next, Ask, Generate

\* Plain decoding implements Decode: each token is sampled from the output for
\* exactly the text before it, on both backends.
THEOREM DecodingIsFaithful == Spec => Faithful
<1>1. Init => Autoregressive!Init
  <2> SUFFICES ASSUME Init PROVE Autoregressive!Init
    OBVIOUS
  <2>1. prompt = <<>> /\ emitted = <<>> /\ sampledFrom = <<>> /\ System \in Seq(Token)
    BY SystemType DEF Init, Content
  <2>2. Text = System
    BY <2>1, ConcatEmptySeq DEF Text
  <2> QED
    BY <2>1, <2>2 DEF Autoregressive!Init
<1>2. IteratorInv /\ [Next]_vars => [Autoregressive!Next]_(Autoregressive!vars)
  BY StepFaithful
<1> QED
  BY <1>1, <1>2, IteratorInvariant, PTL DEF Spec, Faithful, Autoregressive!Spec


----------------------------------------------------------------------------
(* Room in the cache.                                                      *)

\* The NPU looks for room before it writes, so it never writes past the end of the
\* cache, whatever is asked for (KVCache::save_tokens and the CPU's advance_tokens).
THEOREM NpuNeverOverruns == Spec => [](npu => NeverOverruns)
<1> DEFINE Room == npu => pc # "undefined"
<1>1. Init => Room
  BY DEF Init
<1>2. ASSUME Room, [Next]_vars PROVE Room'
  <2>1. npu' = npu
    BY <1>2 DEF Next, Ask, Construct, Generate, PrefillBatch, PrefillDone, NextToken, Destruct, vars
  <2>2. npu => pc' # "undefined"
    BY <1>2 DEF Next, Ask, Construct, Generate, PrefillBatch, PrefillDone, NextToken, Destruct,
                NoRoom, vars
  <2> QED
    BY <2>1, <2>2
<1>3. Room => (npu => NeverOverruns)
  BY DEF NeverOverruns
<1> QED
  BY <1>1, <1>2, <1>3, PTL DEF Spec

\* The entries a generation needs, its last token is not evaluated.
RequestsFit == \A p \in Prompts : Len(p) - 1 + MaxSteps <= CacheSize

\* What is left to generate is not more than what was asked for.
StepsInv ==
  /\ pc # "undefined"
  /\ pc = "prefill" => nRest <= MaxSteps
  /\ Generating => prompt \in Prompts /\ nRest + Len(emitted) <= MaxSteps

\* A batch of a prompt that fits has room.
LEMMA BatchHasRoom ==
  ASSUME IteratorInv, RequestsFit, PrefillBatch
  PROVE  npu \/ Fits(kv, PieceSize)
<1> DEFINE n == PieceSize
<1>1. pc = "prefill" /\ prompt \in Prompts
  BY DEF PrefillBatch, IteratorInv, EosInv
<1>2. n \in Nat /\ prefilled + n <= Len(prompt) - 1 /\ prefilled \in Nat /\ Len(prompt) \in Nat
  <2>1. n \in Nat /\ n <= Len(prompt) - 1 - prefilled
    BY PieceFits
  <2>2. prefilled \in Nat
    BY DEF IteratorInv, RestTypes
  <2>3. Len(prompt) \in Nat
    BY TextFacts
  <2> HIDE DEF n
  <2> QED
    BY <2>1, <2>2, <2>3
<1> HIDE DEF n
<1>3. CASE ~npu
  <2>1. Len(System) = 0
    BY <1>3, EmptySeq DEF System
  <2>2. kv.position = prefilled /\ kv.size = CacheSize
    BY <1>1, <1>2, <2>1 DEF IteratorInv, PrefillInv, CacheHolds, Sound
  <2>3. Len(prompt) - 1 + MaxSteps <= CacheSize /\ MaxSteps \in Nat /\ CacheSize \in Nat
    BY <1>1, IteratorAssumption DEF RequestsFit
  <2>4. prefilled + n <= CacheSize
    BY <1>2, <2>3
  <2> QED
    BY <2>2, <2>4 DEF Fits, n
<1> QED
  BY <1>3

\* So has a token that was asked for.
LEMMA TokenHasRoom ==
  ASSUME IteratorInv, RequestsFit, StepsInv, NEW t \in Token, NextToken(t)
  PROVE  npu \/ Fits(kv, 1)
<1>1. pc = "serve" /\ nRest \in Nat /\ nRest > 0
  BY DEF NextToken, Stopped, IteratorInv, EosInv
<1>2. Generating
  BY <1>1 DEF IteratorInv, EosInv, Generating
<1>3. prompt \in Prompts /\ nRest + Len(emitted) <= MaxSteps
  BY <1>2 DEF StepsInv
<1>4. CASE ~npu
  <2>1. Len(System) = 0
    BY <1>4, EmptySeq DEF System
  <2>2. kv.position = Len(prompt) + Len(emitted) - 1 /\ kv.size = CacheSize
    <3>1. kv.position = Len(Text) - 1
      BY <1>2 DEF IteratorInv, ServeInv
    <3>2. /\ Len(Text) = Len(System) + Len(prompt) + Len(emitted) /\ Sound(kv, CacheSize)
          /\ Len(prompt) \in Nat /\ Len(emitted) \in Nat
      BY TextFacts
    <3>3. kv.size = CacheSize
      BY <3>2 DEF Sound
    <3> QED
      BY <2>1, <3>1, <3>2, <3>3
  <2>3. Len(prompt) - 1 + MaxSteps <= CacheSize /\ MaxSteps \in Nat /\ CacheSize \in Nat
    BY <1>3, IteratorAssumption DEF RequestsFit
  <2>4. Len(prompt) \in Nat /\ Len(emitted) \in Nat
    BY TextFacts
  <2>5. kv.position + 1 <= kv.size
    BY <1>1, <1>3, <2>2, <2>3, <2>4
  <2> QED
    BY <2>5 DEF Fits
<1> QED
  BY <1>4

LEMMA StepsKept ==
  ASSUME IteratorInv, RequestsFit, StepsInv, [Next]_vars
  PROVE  StepsInv'
<1>1. ASSUME NEW p \in Prompts, NEW n \in 0..MaxSteps, Construct(p, n) PROVE StepsInv'
  <2>1. nRest' = n /\ tokens' = <<>> /\ pc' # "undefined"
    BY <1>1 DEF Construct
  <2>2. n <= MaxSteps
    BY IteratorAssumption
  <2> QED
    BY <2>1, <2>2 DEF StepsInv, Generating
<1>2. CASE PrefillBatch
  <2>1. pc = "prefill" /\ nRest' = nRest /\ pc' \in {"prefill", "ready"}
    BY <1>2, BatchHasRoom DEF PrefillBatch, NoRoom
  <2> QED
    BY <2>1 DEF StepsInv, Generating
<1>3. CASE PrefillDone
  <2>1. /\ pc = "prefill" /\ pc' = "serve"
        /\ UNCHANGED <<nRest, prompt, emitted>>
    BY <1>3 DEF PrefillDone, promptVars, histVars
  <2>2. emitted = <<>> /\ prompt \in Prompts /\ nRest \in Nat
    BY <2>1 DEF IteratorInv, EosInv
  <2>3. nRest + Len(emitted) <= MaxSteps
    BY <2>1, <2>2, EmptySeq DEF StepsInv
  <2> QED
    BY <2>1, <2>2, <2>3 DEF StepsInv
<1>4. ASSUME NEW t \in Token, NextToken(t) PROVE StepsInv'
  <2>1. CASE Fits(kv, 1)
    <3>1. /\ pc = "serve" /\ pc' = pc /\ prompt' = prompt
          /\ nRest' = nRest - 1 /\ nRest # 0 /\ emitted' = Append(emitted, t)
      BY <1>4, <2>1 DEF NextToken, Stopped, promptVars
    <3>2. Generating /\ nRest \in Nat
      BY <3>1 DEF IteratorInv, EosInv, Generating
    <3>3. emitted \in Seq(Token) /\ Len(emitted) \in Nat
      BY TextFacts DEF Content
    <3>4. Len(emitted') = Len(emitted) + 1
      BY <3>1, <3>3, AppendProperties
    <3>5. nRest' + Len(emitted') <= MaxSteps /\ prompt' \in Prompts
      BY <3>1, <3>2, <3>3, <3>4, IteratorAssumption DEF StepsInv
    <3> QED
      BY <3>1, <3>5 DEF StepsInv
  <2>2. CASE ~Fits(kv, 1)
    <3>1. pc' = "ready"
      BY <1>4, <2>2, TokenHasRoom DEF NextToken, NoRoom
    <3> QED
      BY <3>1 DEF StepsInv, Generating
  <2> QED
    BY <2>1, <2>2
<1>5. CASE Destruct
  BY <1>5 DEF Destruct, StepsInv, Generating
<1>6. CASE UNCHANGED vars
  BY <1>6 DEF vars, promptVars, histVars, StepsInv, Generating
<1> QED
  BY <1>1, <1>2, <1>3, <1>4, <1>5, <1>6 DEF Next, Ask, Generate

\* The CPU, which looks for room only when it has written, is safe with requests
\* that fit into the cache, whatever the generations before have left there. It is
\* left to the callers to see to that, and none does (token_iterator_overrun).
THEOREM FittingRequestsStayInside == RequestsFit => (Spec => []NeverOverruns)
<1>1. ASSUME RequestsFit PROVE Spec => []NeverOverruns
  <2>1. Init => StepsInv
    BY DEF Init, StepsInv, Generating
  <2>2. IteratorInv /\ StepsInv /\ [Next]_vars => StepsInv'
    BY <1>1, StepsKept
  <2>3. StepsInv => NeverOverruns
    BY DEF StepsInv, NeverOverruns
  <2> QED
    BY <2>1, <2>2, <2>3, IteratorInvariant, PTL DEF Spec
<1> QED
  BY <1>1

=============================================================================
