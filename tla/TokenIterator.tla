----------------------------- MODULE TokenIterator -----------------------------
(***************************************************************************)
(* Plain decoding: ModelTokenIterator (src/model/model.hpp) over the key/  *)
(* value cache of one model, on the NPU or on the CPU.                     *)
(*                                                                         *)
(* The constructor evaluates the prompt, all but its last token, in        *)
(* batches; every call of next() evaluates one more token and samples the  *)
(* one after it.  The two backends treat the cache differently.  The NPU   *)
(* splits a batch, computes, checks for room, saves and advances; what it  *)
(* attends to is what the attention bias leaves open.  The graph of the    *)
(* CPU writes the entries first and looks for room only when it advances,  *)
(* and it attends to every entry up to the token's position, ignoring the  *)
(* bias.                                                                   *)
(*                                                                         *)
(* The logits are any at all; SamplerChain makes a token of them and       *)
(* remembers it.                                                           *)
(***************************************************************************)
EXTENDS KVCache, Sampler

CONSTANTS StopTokens,     \* Tokenizer::should_stop
          SystemPrompt,   \* tokens preloaded into the NPU's cache
          Prompts,        \* tokenised prompts a caller may submit
          CacheSize,      \* entries of the cache
          BatchSize,      \* batch_size
          MaxBatch,       \* max_batch_size of the NPU
          Logits,         \* the values of logits
          MaxSteps,       \* bound: tokens asked of one iterator
          MaxRuns         \* bound: generations

ASSUME IteratorAssumption ==
  /\ StopTokens \subseteq Token
  /\ SystemPrompt \in Content
  /\ Prompts \subseteq Content \ {<<>>}
  /\ CacheSize \in Nat /\ Len(SystemPrompt) <= CacheSize
  /\ BatchSize \in Nat \ {0} /\ MaxBatch \in Nat \ {0}
  /\ MaxSteps \in Nat /\ MaxRuns \in Nat
  /\ FirstToken \in Token /\ Eos \in StopTokens /\ Logits \subseteq Int

VARIABLES
  npu,          \* whether the platform has a QNN backend
  pc,           \* where the caller's thread is
  kv,           \* the cache
  pool,         \* whether the CPU backend has a thread pool
  prompt,       \* prompt_tokens
  prefilled,    \* prompt tokens evaluated so far
  position,     \* position
  nRest,        \* n_rest
  tokens,       \* m_tokens
  sampler,      \* m_sampler, which the caller makes for each generation
  emitted,      \* history: tokens sampled in this generation
  sampledFrom,  \* history: the text behind the logits of the last of them
  delivered,    \* history: tokens next() has returned in this generation
  nRuns         \* generations started

promptVars == <<prompt, prefilled, position>>
histVars == <<emitted, sampledFrom, delivered, nRuns>>
vars == <<npu, pc, kv, pool, promptVars, nRest, tokens, sampler, histVars>>

\* Only the NPU's cache is preloaded; kv_size of the CPU's cache is 0.
System == IF npu THEN SystemPrompt ELSE <<>>

----------------------------------------------------------------------------
(* One forward pass *)

\* (broken variant: attends to one entry too many)
CpuSeenOneMore(first) == 0..first

\* The entries n_kv and get_mask() leave to a batch that starts at `first',
\* besides the batch itself: the bias plays no part.
CpuSeen(first) == 0..first-1

\* The cache as attention sees it
Visible(first) == IF npu THEN kv ELSE [kv EXCEPT !.open = CpuSeen(first)]

\* The entries of a run of n tokens, the first of which is at `first'.
Run(input, first) ==
  LET n == Len(input)
  IN  Forward(Visible(first), [u \in 0..n-1 |-> input[u + 1]],
              [u \in 0..n-1 |-> first + u], Causal(n))

\* The CPU writes at the position of the first token, the NPU at the end of the
\* cache; both then advance.
Evaluated(content, first, n) ==
  LET start == IF npu THEN kv.position ELSE first
      saved == SaveTokens([kv EXCEPT !.position = start], content, n)
  IN  AdvanceTokens([saved EXCEPT !.position = kv.position], n)

\* Without room the NPU throws before anything is written. The CPU has written
\* past the end by the time it looks, and anything may happen.
NoRoom(poolAfter) ==
  IF npu THEN pc' = "ready" /\ pool' = poolAfter ELSE pc' = "undefined" /\ UNCHANGED pool

----------------------------------------------------------------------------
(* The constructor *)

\* (broken variant: continues after the last generation)
ConstructKeepsCache(p, steps) ==
  /\ pc = "ready" /\ nRuns < MaxRuns /\ steps > 0
  /\ pool' = TRUE
  /\ prompt' = p /\ prefilled' = 0 /\ position' = kv.position
  /\ tokens' = <<>>
  /\ emitted' = <<>> /\ sampledFrom' = <<>> /\ delivered' = <<>>
  /\ pc' = "prefill"
  /\ nRest' = steps /\ nRuns' = nRuns + 1
  /\ \E ignore_eos \in BOOLEAN : sampler' = NewSampler(ignore_eos)
  /\ UNCHANGED <<npu, kv>>

\* Without steps the constructor returns at once.
Construct(p, steps) ==
  /\ pc = "ready" /\ nRuns < MaxRuns
  /\ nRest' = steps /\ nRuns' = nRuns + 1
  /\ tokens' = <<>>
  /\ \E ignore_eos \in BOOLEAN : sampler' = NewSampler(ignore_eos)
  /\ \/ /\ steps = 0
        /\ pc' = "serve"
        /\ UNCHANGED <<kv, pool, promptVars, emitted, sampledFrom, delivered>>
     \/ /\ steps > 0
        /\ kv' = TruncateTokens(kv, Len(System))
        /\ pool' = TRUE
        /\ prompt' = p /\ prefilled' = 0 /\ position' = kv'.position
        /\ emitted' = <<>> /\ sampledFrom' = <<>> /\ delivered' = <<>>
        /\ pc' = "prefill"
  /\ UNCHANGED npu

Least(S) == CHOOSE n \in S : \A m \in S : n <= m

\* (broken variant: forgets that batches repeat)
PieceSizeOnce ==
  Least({BatchSize - prefilled, Len(prompt) - 1 - prefilled} \cup IF npu THEN {MaxBatch} ELSE {})

\* Tokens evaluated by one batch already, counting from the last batch_size ones
InBatch == prefilled % BatchSize

\* The prompt is cut in batches of batch_size, and each of those by the NPU in
\* batches of its own size.
PieceSize ==
  Least({BatchSize - InBatch, Len(prompt) - 1 - prefilled} \cup IF npu THEN {MaxBatch} ELSE {})

PrefillBatch ==
  LET n       == PieceSize
      first   == position + InBatch
      content == Run(SubSeq(prompt, prefilled + 1, prefilled + n), first)
      isLast  == InBatch + n = BatchSize \/ prefilled + n = Len(prompt) - 1
  IN  /\ pc = "prefill" /\ n > 0
      /\ \/ /\ Fits(kv, n)
            /\ kv' = Evaluated(content, first, n)
            /\ prefilled' = prefilled + n
            /\ position' = IF isLast THEN kv'.position ELSE position
            /\ UNCHANGED <<npu, pc, pool, prompt, nRest, tokens, sampler, histVars>>
         \/ /\ ~Fits(kv, n)
            /\ NoRoom(pool)
            /\ UNCHANGED <<npu, kv, promptVars, nRest, tokens, sampler, histVars>>

PrefillDone ==
  /\ pc = "prefill" /\ prefilled = Len(prompt) - 1
  /\ tokens' = <<prompt[Len(prompt)]>>
  /\ pc' = "serve"
  /\ UNCHANGED <<npu, kv, pool, promptVars, nRest, sampler, histVars>>

----------------------------------------------------------------------------
(* end(), next() and the destructor *)

\* The caller stops at end(), or at a stop token after the first token, which
\* is the last of the prompt.
Stopped ==
  \/ nRest = 0
  \/ Len(delivered) > 1 /\ delivered[Len(delivered)] \in StopTokens

\* next() evaluates the front token, samples t from its logits, drops the front
\* token and returns it. An exception leaves next(), and the caller drops the
\* iterator, whose destructor takes the thread pool down.
NextToken(t) ==
  LET content == Run(tokens, kv.position)
  IN  /\ pc = "serve" /\ ~Stopped
      /\ \/ /\ Fits(kv, 1)
            /\ \E logits \in [Token -> Logits] : t \in Sampled(logits, sampler)
            /\ sampler' = accept(sampler, t)
            /\ kv' = Evaluated(content, kv.position, 1)
            /\ delivered' = Append(delivered, Head(tokens))
            /\ tokens' = Append(Tail(tokens), t)
            /\ nRest' = nRest - 1
            /\ emitted' = Append(emitted, t)
            /\ sampledFrom' = content[0]
            /\ UNCHANGED <<npu, pc, pool, promptVars, nRuns>>
         \/ /\ ~Fits(kv, 1)
            /\ NoRoom(FALSE)
            /\ UNCHANGED <<npu, kv, promptVars, nRest, tokens, sampler, histVars>>

Destruct ==
  /\ pc = "serve" /\ Stopped
  /\ pool' = FALSE
  /\ pc' = "ready"
  /\ UNCHANGED <<npu, kv, promptVars, nRest, tokens, sampler, histVars>>

----------------------------------------------------------------------------
Init ==
  /\ npu \in BOOLEAN
  /\ pc = "ready"
  /\ kv = [size |-> CacheSize, position |-> Len(System), open |-> 0..Len(System)-1,
           entry |-> [i \in 0..CacheSize-1 |->
                        IF i < Len(System) THEN SubSeq(System, 1, i+1) ELSE Garbage]]
  /\ pool = FALSE
  /\ prompt = <<>> /\ prefilled = 0 /\ position = 0
  /\ nRest = 0 /\ tokens = <<>> /\ sampler = NewSampler(FALSE)
  /\ emitted = <<>> /\ sampledFrom = <<>> /\ delivered = <<>> /\ nRuns = 0

Ask == \E p \in Prompts, n \in 0..MaxSteps : Construct(p, n)
Generate == PrefillBatch \/ PrefillDone \/ (\E t \in Token : NextToken(t)) \/ Destruct

Next == Ask \/ Generate

Spec == Init /\ [][Next]_vars

\* The caller's loop keeps calling next(); nobody is obliged to ask for a
\* generation.
FairSpec == Spec /\ WF_vars(Generate)

----------------------------------------------------------------------------
(* Properties *)

\* Every variable has its type; while a prompt or a token is evaluated there is a
\* thread pool to do it.
TypeOK ==
  /\ npu \in BOOLEAN
  /\ pc \in {"ready", "prefill", "serve", "undefined"}
  /\ kv \in Cache(CacheSize)
  /\ pool \in BOOLEAN
  /\ pc = "prefill" \/ (pc = "serve" /\ nRest > 0) => pool
  /\ prompt \in Content /\ tokens \in Content
  /\ prefilled \in Nat /\ position \in 0..CacheSize /\ nRest \in 0..MaxSteps
  /\ emitted \in Content /\ sampledFrom \in Content /\ delivered \in Content
  /\ nRuns \in 0..MaxRuns
  /\ sampler \in [prev : Content, ignore_eos : BOOLEAN]

\* The text generated so far. Its last token is not in the cache yet.
Text == System \o prompt \o emitted

\* An iterator that has something to say
Generating == pc = "serve" /\ tokens # <<>>

\* Between two calls of next() the cache is that of the text without its last
\* token, whatever batches the prompt was cut into and whatever was left in the
\* cache by earlier generations, ended or failed (ModelTokenIterator, forward()).
CacheFollowsText ==
  Generating =>
    /\ kv.position = Len(Text) - 1
    /\ \A i \in 0..kv.position-1 : kv.entry[i] = SubSeq(Text, 1, i+1)
    /\ delivered \o tokens = <<prompt[Len(prompt)]>> \o emitted

\* Each token is sampled from the logits of exactly the text before it, on both
\* backends.
Autoregressive == INSTANCE Decode WITH system <- System, text <- Text
Faithful == Autoregressive!Spec

\* A sampler that ignores the end of the text never samples it, whatever else it
\* adds to and takes from the logits (RepeatPenaltySampler::apply).
IgnoredEosNeverSampled ==
  Generating /\ sampler.ignore_eos => \A i \in DOMAIN emitted : emitted[i] # Eos

\* Every generation comes to its end, by its count, a stop token, an exception,
\* or an overrun of the CPU's cache.  This is about the loop: the destructor of
\* the thread pool, which comes behind it, may not return (ThreadPool.tla).
GenerationEnds == pc \in {"prefill", "serve"} ~> pc \in {"ready", "undefined"}

\* "the length of kvcache is up to the preset threshold" (kv_cache.hpp:242) is
\* noticed before an entry is written past the end.
NeverOverruns == pc # "undefined"
=============================================================================
