--------------------------- MODULE SpecDecodeProofs ---------------------------
(***************************************************************************)
(* Proofs about SpecDecode, for any vocabulary, prompts, cache and batch   *)
(* sizes, tree width and number of generations.                            *)
(***************************************************************************)
EXTENDS SpecDecode, KVCacheProofs

\* Both caches stay within their size and hide what is not committed, and the
\* draft model can give back all it has saved in this round.
SoundCaches ==
  /\ kv = [m \in Models |-> kv[m]]
  /\ \A m \in Models : Sound(kv[m], CacheSize[m])
DraftCanRollBack == pc = "draft" => nSaved \in 0..kv["draft"].position
CacheInv == SoundCaches /\ DraftCanRollBack
PromptTypes == prompt \in Content /\ prefilled \in [Models -> Nat]
IInv == CacheInv /\ PromptTypes

LEMMA ConstantTypes ==
  /\ \A m \in Models : CacheSize[m] \in Nat /\ MaxBatch[m] \in Nat \ {0}
  /\ \A m \in Models : Len(SystemPrompt) <= CacheSize[m]
  /\ Len(SystemPrompt) \in Nat
  /\ DraftBatch \in Nat \ {0}
  /\ \A p \in Prompts : Len(p) \in Nat
  BY SpecAssumption DEF Content, Models

----------------------------------------------------------------------------
(* Composite operations *)

\* switch_parent() only opens entries before position.
LEMMA SwitchParentSound ==
  ASSUME NEW size \in Nat, NEW c, Sound(c, size), NEW old, NEW new, CanSwitch(c, old, new)
  PROVE  /\ Sound(SwitchParent(c, old, new), size)
         /\ SwitchParent(c, old, new).position = c.position
<1> DEFINE closed == {nodes[u].cacheIndex : u \in Branch(old) \ Branch(new)}
           opened == {nodes[u].cacheIndex : u \in Branch(new) \ Branch(old)}
           masked == Mask(c, closed)
<1>1. Sound(masked, size) /\ masked.position = c.position
  BY MaskSound
<1>2. \A i \in opened : InUse(masked, i)
  BY <1>1 DEF CanSwitch, InUse
<1>3. SwitchParent(c, old, new) = Unmask(masked, opened)
  BY DEF SwitchParent
<1> HIDE DEF masked, opened
<1> QED
  BY <1>1, <1>2, <1>3, UnmaskSound

----------------------------------------------------------------------------
(* The initial state and the steps *)

\* The caches start with the system prompt, all of it visible and nothing else.
LEMMA InitInvariant == Init => IInv
<1> SUFFICES ASSUME Init PROVE IInv
  OBVIOUS
<1>1. SoundCaches
  <2>1. ASSUME NEW m \in Models PROVE Sound(kv[m], CacheSize[m])
    <3> DEFINE n == Len(SystemPrompt)
               entry == [i \in 0..CacheSize[m]-1 |->
                           IF i < n THEN SubSeq(SystemPrompt, 1, i+1) ELSE Garbage]
    <3>1. kv[m] = [size |-> CacheSize[m], position |-> n, open |-> 0..n-1, entry |-> entry]
      BY DEF Init
    <3>2. n \in 0..CacheSize[m]
      BY ConstantTypes
    <3> HIDE DEF n, entry
    <3> QED
      BY <3>1, <3>2 DEF Sound
  <2> QED
    BY <2>1 DEF Init, SoundCaches
<1> QED
  BY <1>1 DEF Init, IInv, CacheInv, DraftCanRollBack, PromptTypes, Content

\* A step that leaves the caches alone and does not go on drafting
LEMMA CachesUnchanged ==
  ASSUME IInv, kv' = kv, pc' # "draft" PROVE CacheInv'
  BY DEF IInv, CacheInv, SoundCaches, DraftCanRollBack

\* A step that replaces the caches by sound ones and does not go on drafting
LEMMA CachesReplaced ==
  ASSUME SoundCaches', pc' # "draft" PROVE CacheInv'
  BY DEF CacheInv, DraftCanRollBack

\* Updating one of the caches
LEMMA OneCacheReplaced ==
  ASSUME IInv, NEW m \in Models, NEW c, Sound(c, CacheSize[m]), kv' = [kv EXCEPT ![m] = c]
  PROVE  SoundCaches' /\ kv'[m] = c
<1>1. kv' = [i \in Models |-> IF i = m THEN c ELSE kv[i]]
  BY DEF IInv, CacheInv, SoundCaches
<1> QED
  BY <1>1 DEF IInv, CacheInv, SoundCaches

LEMMA StartInvariant ==
  ASSUME IInv, NEW p \in Prompts, NEW n, Start(p, n) PROVE CacheInv'
<1>1. CASE kv' = kv
  BY <1>1, CachesUnchanged DEF Start, Abort
<1>2. CASE kv' = [m \in Models |-> TruncateTokens(kv[m], Len(SystemPrompt))] /\ pc' = "prefill"
  <2>1. \A m \in Models : Sound(TruncateTokens(kv[m], Len(SystemPrompt)), CacheSize[m])
    BY TruncateTokensSound, ConstantTypes DEF IInv, CacheInv, SoundCaches
  <2>2. SoundCaches'
    BY <1>2, <2>1 DEF SoundCaches
  <2> QED
    BY <1>2, <2>2, CachesReplaced
<1> QED
  BY <1>1, <1>2 DEF Start, Abort

LEMMA PrefillInvariant ==
  ASSUME IInv, NEW m \in Models, PrefillBatch(m) PROVE CacheInv'
<1> DEFINE done  == prefilled[m]
           n     == IF Len(prompt) - 1 - done < MaxBatch[m]
                    THEN Len(prompt) - 1 - done ELSE MaxBatch[m]
           pos   == BatchPositions(m, n)
           input == [u \in 0..n-1 |-> prompt[done + u + 1]]
           content == Forward(kv[m], input, pos, Causal(n))
<1>1. CASE Throw /\ UNCHANGED kv
  BY <1>1, CachesUnchanged DEF Throw
<1>2. CASE /\ Fits(kv[m], n) /\ n > 0 /\ pc = "prefill" /\ pc' = pc
           /\ kv' = [kv EXCEPT ![m] = AdvanceTokens(SaveTokens(kv[m], content, n), n)]
  <2> HIDE DEF content
  <2>1. n \in Nat
    BY <1>2, ConstantTypes DEF IInv, PromptTypes, Content
  <2>2. Sound(AdvanceTokens(SaveTokens(kv[m], content, n), n), CacheSize[m])
    BY <1>2, <2>1, AppendBatchSound, ConstantTypes DEF IInv, CacheInv, SoundCaches
  <2>3. SoundCaches'
    BY <1>2, <2>2, OneCacheReplaced
  <2> QED
    BY <1>2, <2>3, CachesReplaced
<1> QED
  BY <1>1, <1>2 DEF PrefillBatch

\* Taking a candidate off a heap
LEMMA DraftLeafInvariant ==
  ASSUME IInv, NEW c, NEW low, DraftLeaf(c, low) PROVE CacheInv'
  BY DEF IInv, CacheInv, SoundCaches, DraftCanRollBack, DraftLeaf

\* The draft cache gains one token per expanded node.
LEMMA DraftExpandInvariant ==
  ASSUME IInv, NEW c, NEW top, NEW wide, DraftExpand(c, top, wide) PROVE CacheInv'
<1> DEFINE draft  == kv["draft"]
           switch == lastParent # NoParent /\ c.parent # lastParent
           cache  == IF switch THEN SwitchParent(draft, lastParent, c.parent) ELSE draft
           size   == CacheSize["draft"]
<1>1. size \in Nat /\ Sound(draft, size)
  BY ConstantTypes DEF IInv, CacheInv, SoundCaches, Models
<1>2. CASE Abort
  BY <1>2, CachesUnchanged DEF Abort
<1>3. CASE ~switch \/ CanSwitch(draft, lastParent, c.parent)
  <2>1. Sound(cache, size) /\ cache.position = draft.position
    BY <1>1, <1>3, SwitchParentSound
  <2>2. CASE Throw /\ kv' = [kv EXCEPT !["draft"] = cache]
    <3>1. SoundCaches'
      BY <2>1, <2>2, OneCacheReplaced DEF Models
    <3> QED
      BY <3>1, <2>2, CachesReplaced DEF Throw
  <2>3. CASE /\ Fits(cache, 1) /\ pc = "draft" /\ pc' = pc /\ nSaved' = nSaved + 1
             /\ \E position :
                  kv' = [kv EXCEPT !["draft"] = ForwardOne(cache, c.token, position)]
    <3> HIDE DEF cache
    <3>1. PICK position : kv' = [kv EXCEPT !["draft"] = ForwardOne(cache, c.token, position)]
      BY <2>3
    <3>2. /\ Sound(ForwardOne(cache, c.token, position), size)
          /\ ForwardOne(cache, c.token, position).position = draft.position + 1
      BY <1>1, <2>1, <2>3, ForwardOneSound
    <3>3. SoundCaches' /\ kv'["draft"] = ForwardOne(cache, c.token, position)
      BY <3>1, <3>2, OneCacheReplaced DEF Models
    <3>4. DraftCanRollBack'
      BY <2>3, <3>2, <3>3, <1>1 DEF IInv, CacheInv, DraftCanRollBack, Sound
    <3> QED
      BY <3>3, <3>4 DEF CacheInv
  <2> QED
    BY <1>3, <2>2, <2>3 DEF DraftExpand
<1> QED
  BY <1>2, <1>3 DEF DraftExpand

\* The draft cache gives back what the round saved.
LEMMA DraftDoneInvariant ==
  ASSUME IInv, DraftDone PROVE CacheInv'
<1>1. Sound(RollbackTokens(kv["draft"], nSaved), CacheSize["draft"])
  BY ConstantTypes, RollbackTokensSound
     DEF IInv, CacheInv, SoundCaches, DraftCanRollBack, DraftDone, Models
<1>2. SoundCaches'
  BY <1>1, OneCacheReplaced DEF DraftDone, Models
<1> QED
  BY <1>2, CachesReplaced DEF DraftDone

\* The target cache takes the whole tree and gives it back.
LEMMA TargetForwardInvariant ==
  ASSUME IInv, TargetForward PROVE CacheInv'
<1>1. CASE Throw /\ UNCHANGED kv
  BY <1>1, CachesUnchanged DEF Throw
<1>2. CASE /\ Fits(kv["target"], DraftBatch) /\ pc' = "verify"
           /\ kv' = [kv EXCEPT !["target"] =
                RollbackTokens(AdvanceTokens(SaveTokens(kv["target"], batch', DraftBatch),
                                             DraftBatch), DraftBatch)]
  <2> DEFINE size == CacheSize["target"]
             full == AdvanceTokens(SaveTokens(kv["target"], batch', DraftBatch), DraftBatch)
  <2>1. size \in Nat /\ Sound(kv["target"], size) /\ DraftBatch \in Nat
    BY ConstantTypes DEF IInv, CacheInv, SoundCaches, Models
  <2>2. Sound(full, size) /\ full.position = kv["target"].position + DraftBatch
    BY <1>2, <2>1, AppendBatchSound
  <2> HIDE DEF full
  <2>3. DraftBatch \in 0..full.position
    BY <2>1, <2>2 DEF Sound
  <2>4. Sound(RollbackTokens(full, DraftBatch), size)
    BY <2>1, <2>2, <2>3, RollbackTokensSound
  <2>5. SoundCaches'
    BY <1>2, <2>4, OneCacheReplaced DEF Models, full
  <2> QED
    BY <1>2, <2>5, CachesReplaced
<1> QED
  BY <1>1, <1>2 DEF TargetForward

\* Accepting a node advances both caches by one.
LEMMA VerifyInvariant ==
  ASSUME IInv, NEW t, VerifyNode(t) PROVE CacheInv'
<1> DEFINE node   == nodes[current]
           copied == Copy(kv["target"], node.position, batch, current)
           target == AdvanceTokens(copied, 1)
<1>1. /\ CacheSize["target"] \in Nat /\ Sound(kv["target"], CacheSize["target"])
      /\ CacheSize["draft"] \in Nat /\ Sound(kv["draft"], CacheSize["draft"])
  BY ConstantTypes DEF IInv, CacheInv, SoundCaches, Models
<1>2. ASSUME Fits(kv["target"], 1) PROVE Sound(target, CacheSize["target"])
  <2>1. Sound(copied, CacheSize["target"]) /\ copied.position = kv["target"].position
    BY <1>1, CopySound
  <2>2. Fits(copied, 1)
    BY <1>1, <1>2, <2>1 DEF Fits, Sound
  <2> HIDE DEF copied
  <2> QED
    BY <1>1, <2>1, <2>2, AdvanceTokensSound
<1>3. ASSUME Fits(kv["draft"], 1) PROVE Sound(DraftAccept(node), CacheSize["draft"])
  <2> DEFINE moved == Move(kv["draft"], node.position, node.cacheIndex)
  <2>1. Sound(moved, CacheSize["draft"]) /\ moved.position = kv["draft"].position
    BY <1>1, MoveSound
  <2>2. Fits(moved, 1)
    BY <1>1, <1>3, <2>1 DEF Fits, Sound
  <2> HIDE DEF moved
  <2>3. Sound(AdvanceTokens(moved, 1), CacheSize["draft"])
    BY <1>1, <2>1, <2>2, AdvanceTokensSound
  <2>4. Sound(ForwardOne(kv["draft"], node.token, node.position), CacheSize["draft"])
    BY <1>1, <1>3, ForwardOneSound
  <2> QED
    BY <2>3, <2>4 DEF DraftAccept, moved
<1> HIDE DEF target, copied
<1>4. CASE Abort
  BY <1>4, CachesUnchanged DEF Abort
<1>5. CASE /\ pc' # "draft"
           /\ \A m \in Models : Fits(kv[m], 1)
           /\ kv' = [target |-> target, draft |-> DraftAccept(node)]
  <2>1. SoundCaches'
    <3> DEFINE draft == DraftAccept(node)
    <3>1. Sound(target, CacheSize["target"]) /\ Sound(draft, CacheSize["draft"])
      BY <1>2, <1>3, <1>5 DEF Models
    <3> HIDE DEF draft
    <3>2. kv' = [target |-> target, draft |-> draft]
      BY <1>5 DEF draft
    <3>3. kv' = [m \in Models |-> kv'[m]] /\ kv'["target"] = target /\ kv'["draft"] = draft
      BY <3>2 DEF Models
    <3> QED
      BY <3>1, <3>3 DEF SoundCaches, Models
  <2> QED
    BY <1>5, <2>1, CachesReplaced
<1>6. CASE /\ Throw
           /\ kv' = IF Fits(kv["target"], 1) THEN [kv EXCEPT !["target"] = target] ELSE kv
  <2>1. CASE kv' = kv
    BY <1>6, <2>1, CachesUnchanged DEF Throw
  <2>2. CASE Fits(kv["target"], 1) /\ kv' = [kv EXCEPT !["target"] = target]
    <3>1. SoundCaches'
      BY <1>2, <2>2, OneCacheReplaced DEF Models
    <3> QED
      BY <1>6, <3>1, CachesReplaced DEF Throw
  <2> QED
    BY <1>6, <2>1, <2>2
<1> QED
  BY <1>4, <1>5, <1>6 DEF VerifyNode, target, copied

\* No other step touches the caches, and only BeginRound starts to draft.
LEMMA OtherStepsInvariant ==
  ASSUME IInv, PrefillDone \/ Serve \/ Deliver PROVE CacheInv'
<1>1. CASE PrefillDone
  BY <1>1, CachesUnchanged DEF PrefillDone
<1>2. CASE NextQueued
  BY <1>2, CachesUnchanged DEF NextQueued
<1>3. CASE Finish
  BY <1>3, CachesUnchanged DEF Finish
<1>4. CASE BeginRound
  <2>1. SoundCaches' /\ nSaved' = 0 /\ kv' = kv
    BY <1>4 DEF IInv, CacheInv, SoundCaches, BeginRound, ResetTree
  <2>2. kv["draft"].position \in Nat
    BY ConstantTypes DEF IInv, CacheInv, SoundCaches, Sound, Models
  <2> QED
    BY <2>1, <2>2 DEF CacheInv, DraftCanRollBack
<1>5. CASE Deliver
  BY <1>5, CachesUnchanged DEF Deliver, Abort
<1> QED
  BY <1>1, <1>2, <1>3, <1>4, <1>5 DEF Serve

\* Only a new generation changes the prompt, only prefill its progress.
LEMMA PromptTypesStep == IInv /\ [Next]_vars => PromptTypes'
<1> SUFFICES ASSUME IInv, [Next]_vars PROVE PromptTypes'
  OBVIOUS
<1>1. ASSUME NEW p \in Prompts, NEW n \in 1..MaxSteps, Start(p, n) PROVE PromptTypes'
  <2>1. CASE Abort
    BY <2>1 DEF IInv, PromptTypes, Abort, iterVars
  <2>2. CASE prompt' = p /\ prefilled' = [m \in Models |-> 0]
    BY <2>2, SpecAssumption DEF PromptTypes
  <2> QED
    BY <1>1, <2>1, <2>2 DEF Start
<1>2. ASSUME NEW m \in Models, PrefillBatch(m) PROVE PromptTypes'
  <2> DEFINE n == IF Len(prompt) - 1 - prefilled[m] < MaxBatch[m]
                  THEN Len(prompt) - 1 - prefilled[m] ELSE MaxBatch[m]
  <2>1. CASE Throw
    BY <2>1 DEF IInv, PromptTypes, Throw, iterVars
  <2>2. CASE n > 0 /\ prompt' = prompt /\ prefilled' = [prefilled EXCEPT ![m] = @ + n]
    <3>1. n \in Nat
      BY <2>2, ConstantTypes DEF IInv, PromptTypes, Content
    <3> QED
      BY <2>2, <3>1 DEF IInv, PromptTypes
  <2> QED
    BY <1>2, <2>1, <2>2 DEF PrefillBatch
<1>3. CASE PrefillDone \/ Serve \/ Deliver
  BY <1>3 DEF IInv, PromptTypes, PrefillDone, Serve, NextQueued, BeginRound, Finish,
              Deliver, Abort, iterVars
<1>4. CASE Draft
  BY <1>4 DEF IInv, PromptTypes, Draft, DraftLeaf, Expand, DraftExpand, DraftDone,
              Throw, Abort, iterVars
<1>5. CASE TargetForward \/ Verify
  BY <1>5 DEF IInv, PromptTypes, TargetForward, Verify, VerifyNode, Throw, Abort, iterVars
<1>6. CASE UNCHANGED vars
  BY <1>6 DEF IInv, PromptTypes, vars, iterVars
<1> QED
  BY <1>1, <1>2, <1>3, <1>4, <1>5, <1>6 DEF Next, Construct, Generate, Prefill

\* Every step preserves the invariant.
LEMMA StepInvariant == IInv /\ [Next]_vars => IInv'
<1> SUFFICES ASSUME IInv, [Next]_vars PROVE CacheInv'
  BY PromptTypesStep DEF IInv
<1>1. CASE Construct
  BY <1>1, StartInvariant DEF Construct
<1>2. CASE Prefill
  BY <1>2, PrefillInvariant DEF Prefill
<1>3. CASE Draft
  BY <1>3, DraftLeafInvariant, DraftExpandInvariant, DraftDoneInvariant DEF Draft, Expand
<1>4. CASE TargetForward \/ Verify
  BY <1>4, TargetForwardInvariant, VerifyInvariant DEF Verify
<1>5. CASE PrefillDone \/ Serve \/ Deliver
  BY <1>5, OtherStepsInvariant
<1>6. CASE UNCHANGED vars
  BY <1>6 DEF IInv, CacheInv, SoundCaches, DraftCanRollBack, vars, treeVars
<1> QED
  BY <1>1, <1>2, <1>3, <1>4, <1>5, <1>6 DEF Next, Generate

\* Both caches stay within their size, and a round of drafting can always be
\* taken back.
THEOREM CachesSound == Spec => []IInv
<1> QED
  BY InitInvariant, StepInvariant, PTL DEF Spec

\* Whatever rounds, exceptions and new generations follow each other, attention
\* never sees what a rollback has left in a cache.
THEOREM NothingLeaks == Spec => []NothingOpenPastPosition
<1>1. IInv => NothingOpenPastPosition
  BY DEF IInv, CacheInv, SoundCaches, Sound, NothingOpenPastPosition
<1> QED
  BY <1>1, CachesSound, PTL

----------------------------------------------------------------------------
(* The order of the tokens: a proof about m_tokens and token_queue alone *)

TextTypes ==
  /\ prompt \in Content /\ tokens \in Content /\ queue \in Content
  /\ emitted \in Content /\ delivered \in Content

\* There is a prompt, and nothing has been sampled before it is evaluated.
FreshStart ==
  /\ pc = "prefill" \/ Generating => prompt # <<>>
  /\ pc = "prefill" => tokens = <<>> /\ queue = <<>> /\ emitted = <<>> /\ delivered = <<>>

\* A round has a token to start from, and decode() one to drop.
RootToken == pc \in {"draft", "target", "verify", "deliver"} => tokens # <<>>

OrderInv == TextTypes /\ FreshStart /\ RootToken /\ TokensInOrder

----------------------------------------------------------------------------
(* The initial state and the steps *)

LEMMA InitOrder == Init => OrderInv
  BY DEF Init, OrderInv, TextTypes, FreshStart, RootToken, TokensInOrder, Generating, Content

LEMMA LastOfPrompt ==
  ASSUME prompt \in Content, prompt # <<>> PROVE <<prompt[Len(prompt)]>> \in Seq(Token)
<1>1. prompt[Len(prompt)] \in Token
  BY EmptySeq, ElementOfSeq DEF Content
<1> QED
  BY <1>1

\* A step that leaves the sequences alone
LEMMA SequencesUnchanged ==
  ASSUME OrderInv,
         UNCHANGED <<prompt, tokens, queue, emitted, delivered>>,
         \/ pc' = pc
         \/ pc' \in {"ready", "aborted"}
         \/ pc # "prefill" /\ Generating /\ tokens # <<>>
               /\ pc' \in {"serve", "draft", "target", "verify"}
  PROVE  OrderInv'
  BY DEF OrderInv, TextTypes, FreshStart, RootToken, TokensInOrder, Generating

\* A new generation starts with empty sequences.
LEMMA StartOrder ==
  ASSUME OrderInv, NEW p \in Prompts, NEW n, Start(p, n) PROVE OrderInv'
<1>1. CASE Abort
  BY <1>1, SequencesUnchanged DEF Abort, iterVars, histVars
<1>2. CASE /\ prompt' = p /\ tokens' = <<>> /\ queue' = <<>>
           /\ emitted' = <<>> /\ delivered' = <<>> /\ pc' = "prefill"
  <2>1. p \in Content /\ p # <<>> /\ <<>> \in Content
    BY SpecAssumption DEF Content
  <2> QED
    BY <1>2, <2>1
       DEF OrderInv, TextTypes, FreshStart, RootToken, TokensInOrder, Generating
<1> QED
  BY <1>1, <1>2 DEF Start

\* The last token of the prompt is the first to be delivered.
LEMMA PrefillDoneOrder ==
  ASSUME OrderInv, PrefillDone PROVE OrderInv'
<1> DEFINE last == prompt[Len(prompt)]
<1>2. /\ tokens' = <<last>> /\ queue' = <<>> /\ emitted' = <<>> /\ delivered' = <<>>
      /\ prompt' = prompt /\ pc' = "serve"
  BY DEF OrderInv, FreshStart, PrefillDone, histVars
<1>3. <<last>> \in Seq(Token)
  BY LastOfPrompt DEF OrderInv, TextTypes, FreshStart, PrefillDone
<1>4. <<>> \o <<last>> \o <<>> = <<last>> \o <<>>
  BY <1>3, ConcatEmptySeq
<1> QED
  BY <1>2, <1>3, <1>4
     DEF OrderInv, TextTypes, FreshStart, RootToken, TokensInOrder, Generating, Content,
         PrefillDone

\* next() passes on the front of m_tokens.
LEMMA NextQueuedOrder ==
  ASSUME OrderInv, NextQueued PROVE OrderInv'
<1>1. tokens # <<>>
  BY EmptySeq DEF NextQueued, OrderInv, TextTypes, Content
<1>2. Head(tokens) \in Token /\ Tail(tokens) \in Content
  BY <1>1, HeadThenTail DEF OrderInv, TextTypes, Content
<1>3. delivered' \in Content
  BY <1>2, AppendProperties DEF NextQueued, Pop, OrderInv, TextTypes, Content
<1>4. delivered' \o tokens' = delivered \o tokens
  BY <1>1, PassOn DEF NextQueued, Pop, OrderInv, TextTypes, Content
<1>5. UNCHANGED <<prompt, queue, emitted, pc>> /\ pc = "serve"
  BY DEF NextQueued
<1> QED
  BY <1>2, <1>3, <1>4, <1>5
     DEF OrderInv, TextTypes, FreshStart, RootToken, TokensInOrder, Generating, NextQueued, Pop

\* verify() enqueues the token it samples.
LEMMA VerifyOrder ==
  ASSUME OrderInv, NEW t \in Token, VerifyNode(t) PROVE OrderInv'
<1>1. CASE Abort
  BY <1>1, SequencesUnchanged DEF Abort, iterVars, histVars
<1>2. CASE Throw
  BY <1>2, SequencesUnchanged DEF Throw, iterVars, histVars
<1>3. CASE /\ queue' = Append(queue, t) /\ emitted' = Append(emitted, t)
           /\ UNCHANGED <<prompt, tokens, delivered>>
           /\ pc = "verify" /\ pc' \in {"verify", "deliver"}
  <2> DEFINE front == delivered \o tokens
             last  == <<prompt[Len(prompt)]>>
  <2>1. queue' \in Content /\ emitted' \in Content
    BY <1>3, AppendProperties DEF OrderInv, TextTypes, Content
  <2>2. front \in Seq(Token)
    BY ConcatProperties DEF OrderInv, TextTypes, Content
  <2>3. front \o queue = last \o emitted
    BY <1>3 DEF OrderInv, TokensInOrder, Generating
  <2>4. front \o Append(queue, t) = Append(front \o queue, t)
    BY <2>2, ConcatAppend DEF OrderInv, TextTypes, Content
  <2>5. last \o Append(emitted, t) = Append(last \o emitted, t)
    BY <1>3, LastOfPrompt, ConcatAppend
       DEF OrderInv, TextTypes, FreshStart, Generating, Content
  <2> QED
    BY <1>3, <2>1, <2>3, <2>4, <2>5
       DEF OrderInv, TextTypes, FreshStart, RootToken, TokensInOrder, Generating
<1> QED
  BY <1>1, <1>2, <1>3 DEF VerifyNode

\* decode() takes over the queue and drops the token the round started from.
LEMMA DeliverOrder ==
  ASSUME OrderInv, Deliver PROVE OrderInv'
<1>1. CASE Abort
  BY <1>1, SequencesUnchanged DEF Abort, iterVars, histVars
<1>2. CASE /\ Pop(Tail(tokens \o queue)) /\ queue' = <<>> /\ pc' = "serve"
           /\ UNCHANGED <<prompt, emitted>>
  <2> DEFINE all == tokens \o queue
  <2>1. all \in Content /\ tokens # <<>> /\ all # <<>> /\ Head(all) = Head(tokens)
    <3>1. tokens # <<>> /\ tokens \in Seq(Token) /\ queue \in Seq(Token)
      BY DEF OrderInv, TextTypes, RootToken, Deliver, Content
    <3>2. Len(tokens) \in Nat \ {0}
      BY <3>1, EmptySeq
    <3>3. /\ all \in Seq(Token) /\ Len(all) = Len(tokens) + Len(queue)
          /\ Len(queue) \in Nat /\ all[1] = tokens[1]
      BY <3>1, <3>2, ConcatProperties, LenProperties
    <3> HIDE DEF all
    <3>4. all # <<>>
      BY <3>2, <3>3
    <3> QED
      BY <3>1, <3>2, <3>3, <3>4 DEF Content
  <2> HIDE DEF all
  <2>2. Head(all) \in Token /\ Tail(all) \in Content
    BY <2>1, HeadThenTail DEF Content
  <2>3. delivered' \in Content
    BY <1>2, <2>1, <2>2, AppendProperties DEF Pop, OrderInv, TextTypes, Content
  <2>4. delivered' \o tokens' = delivered \o all
    BY <1>2, <2>1, PassOn DEF Pop, OrderInv, TextTypes, Content, all
  <2>5. delivered \o all = delivered \o tokens \o queue
    <3>1. delivered \in Seq(Token) /\ tokens \in Seq(Token) /\ queue \in Seq(Token)
      BY DEF OrderInv, TextTypes, Content
    <3> QED
      BY <3>1, ConcatAssociative DEF all
  <2>6. delivered' \o tokens' \o queue' = delivered' \o tokens'
    <3>1. delivered' \o tokens' \in Seq(Token)
      BY <1>2, <2>2, <2>3, ConcatProperties DEF Pop, Content, all
    <3> QED
      BY <1>2, <3>1, ConcatEmptySeq
  <2>7. delivered' \o tokens' \o queue' = <<prompt[Len(prompt)]>> \o emitted
    BY <2>4, <2>5, <2>6 DEF OrderInv, TokensInOrder, Generating, Deliver
  <2>8. tokens' \in Content /\ queue' \in Content
    BY <1>2, <2>2 DEF Pop, Content, all
  <2> QED
    BY <1>2, <2>3, <2>7, <2>8
       DEF OrderInv, TextTypes, FreshStart, RootToken, TokensInOrder, Generating, Deliver
<1> QED
  BY <1>1, <1>2 DEF Deliver

\* Every step preserves the invariant.
LEMMA StepOrder == OrderInv /\ [Next]_vars => OrderInv'
<1> SUFFICES ASSUME OrderInv, [Next]_vars PROVE OrderInv'
  OBVIOUS
<1>1. CASE Construct
  BY <1>1, StartOrder DEF Construct
<1>2. CASE Prefill
  BY <1>2, SequencesUnchanged DEF Prefill, PrefillBatch, Throw, iterVars, histVars
<1>3. CASE PrefillDone
  BY <1>3, PrefillDoneOrder
<1>4. CASE NextQueued
  BY <1>4, NextQueuedOrder
<1>5. CASE Finish
  BY <1>5, SequencesUnchanged DEF Finish, iterVars, histVars
<1>6. CASE BeginRound
  <2>1. tokens # <<>>
    <3>1. Len(tokens) = 1
      BY <1>6 DEF BeginRound
    <3> QED
      BY <3>1, EmptySeq
  <2> QED
    BY <1>6, <2>1, SequencesUnchanged DEF BeginRound, iterVars, histVars, Generating
<1>7. ASSUME NEW c, NEW low, DraftLeaf(c, low) PROVE OrderInv'
  BY <1>7, SequencesUnchanged DEF DraftLeaf, iterVars, histVars
<1>8. ASSUME NEW c, NEW top, NEW wide, DraftExpand(c, top, wide) PROVE OrderInv'
  BY <1>8, SequencesUnchanged DEF DraftExpand, Throw, Abort, iterVars, histVars
<1>9. CASE DraftDone
  BY <1>9, SequencesUnchanged DEF DraftDone, OrderInv, RootToken, iterVars, histVars, Generating
<1>10. CASE TargetForward
  BY <1>10, SequencesUnchanged
     DEF TargetForward, OrderInv, RootToken, Throw, iterVars, histVars, Generating
<1>11. CASE Verify
  BY <1>11, VerifyOrder DEF Verify
<1>12. CASE Deliver
  BY <1>12, DeliverOrder
<1>13. CASE UNCHANGED vars
  BY <1>13, SequencesUnchanged DEF vars, iterVars, histVars
<1> QED
  BY <1>1, <1>2, <1>3, <1>4, <1>5, <1>6, <1>7, <1>8, <1>9, <1>10, <1>11, <1>12, <1>13
     DEF Next, Generate, Serve, Draft, Expand

\* Over all rounds of a generation, the caller gets the last token of the prompt
\* and then every token verify() has enqueued, once and in order.
THEOREM DeliveredInOrder == Spec => []TokensInOrder
<1>1. OrderInv => TokensInOrder
  BY DEF OrderInv
<1> QED
  BY <1>1, InitOrder, StepOrder, PTL DEF Spec

----------------------------------------------------------------------------
(* Assertions. The branch of a node is a recursive function over the tree;  *)
(* what it contains is shown by looking at the least node for which it      *)
(* would not hold, whose parent is smaller.                                 *)

\* The vector of nodes
NodeTypes == nodes \in [NodeIds -> Node]

\* Going up from v in the nodes ns, one step
AndUp(ns, f, v) == {v} \cup IF ns[v].parent = NoParent THEN {} ELSE f[ns[v].parent]
IsBranches(ns, f) == f = [v \in NodeIds |-> AndUp(ns, f, v)]
Branches(ns) == CHOOSE f : IsBranches(ns, f)

\* Branch is the recursive function that solves that equation, now and after a
\* step.
LEMMA BranchIs ==
  ASSUME NEW u PROVE Branch(u) = Branches(nodes)[u] /\ Branch(u)' = Branches(nodes')[u]
  BY DEF Branch, Branches, IsBranches, AndUp

\* A set with the parents of its nodes
UpClosed(ns, S) == \A v \in S : ns[v].parent # NoParent => ns[v].parent \in S

\* The sets of nodes that can be reached going up solve the equation of Branch.
LEMMA BranchesExist == ASSUME NEW ns \in [NodeIds -> Node] PROVE IsBranches(ns, Branches(ns))
<1> DEFINE above(v) ==
             {w \in NodeIds : \A S \in SUBSET NodeIds : v \in S /\ UpClosed(ns, S) => w \in S}
           f == [v \in NodeIds |-> above(v)]
<1>1. ASSUME NEW v \in NodeIds PROVE above(v) = AndUp(ns, f, v)
  <2> DEFINE p == ns[v].parent
  <2>1. p \in NodeIds \cup {NoParent}
    BY DEF Node
  <2>2. ASSUME p = NoParent PROVE above(v) = {v}
    <3>1. UpClosed(ns, {v})
      BY <2>2 DEF UpClosed
    <3> QED
      BY <3>1
  <2>3. ASSUME p # NoParent PROVE above(v) = {v} \cup above(p)
    <3>1. p \in NodeIds
      BY <2>1, <2>3
    <3>2. ASSUME NEW w \in above(p) PROVE w \in above(v)
      BY <2>3, <3>2 DEF UpClosed
    <3>3. UpClosed(ns, {v} \cup above(p))
      <4>1. ASSUME NEW w \in above(p), ns[w].parent # NoParent
            PROVE  ns[w].parent \in above(p)
        <5>1. ns[w].parent \in NodeIds
          BY <4>1 DEF Node
        <5> QED
          BY <4>1, <5>1 DEF UpClosed
      <4>2. p \in above(p)
        BY <3>1
      <4> HIDE DEF above
      <4> QED
        BY <4>1, <4>2 DEF UpClosed
    <3>4. ASSUME NEW w \in above(v) PROVE w \in {v} \cup above(p)
      <4>1. {v} \cup above(p) \in SUBSET NodeIds
        OBVIOUS
      <4> QED
        BY <3>3, <3>4, <4>1
    <3>5. v \in above(v)
      OBVIOUS
    <3> HIDE DEF above
    <3> QED
      BY <3>2, <3>4, <3>5
  <2>4. p # NoParent => f[p] = above(p)
    BY <2>1
  <2> HIDE DEF above, f
  <2> QED
    BY <2>2, <2>3, <2>4 DEF AndUp
<1>2. IsBranches(ns, f)
  <2> HIDE DEF above
  <2>1. f = [v \in NodeIds |-> above(v)]
    OBVIOUS
  <2> HIDE DEF f
  <2> QED
    BY <1>1, <2>1 DEF IsBranches
<1> QED
  BY <1>2 DEF Branches

\* A branch stays in any set of nodes that has the parents of its nodes.
LEMMA BranchesWithin ==
  ASSUME NEW ns \in [NodeIds -> Node], NEW S \in SUBSET NodeIds, UpClosed(ns, S),
         \A v \in S : ns[v].parent # NoParent => ns[v].parent < v,
         NEW u \in S
  PROVE  Branches(ns)[u] \subseteq S
<1> DEFINE f == Branches(ns)
           Outside == {v \in S : ~(f[v] \subseteq S)}
<1>1. IsBranches(ns, f)
  BY BranchesExist
<1> HIDE DEF f
<1>2. ASSUME Outside # {} PROVE FALSE
  <2>1. Outside \subseteq Nat /\ S \subseteq Nat
    <3>1. NodeIds \subseteq Nat
      BY ConstantTypes DEF NodeIds
    <3> QED
      BY <3>1
  <2>2. PICK x \in Outside : \A y \in Outside : x <= y
    BY <1>2, <2>1, LeastElement
  <2> DEFINE p == ns[x].parent
  <2>3. f[x] = AndUp(ns, f, x)
    BY <1>1 DEF IsBranches
  <2>4. p # NoParent => p \in S /\ p < x /\ p \in Nat /\ x \in Nat
    BY <2>1 DEF UpClosed
  <2>5. p # NoParent => f[p] \subseteq S
    BY <2>2, <2>4
  <2> QED
    BY <2>3, <2>5 DEF AndUp
<1> QED
  BY <1>2 DEF f

\* New nodes elsewhere leave the branches in such a set as they are.
LEMMA BranchesKept ==
  ASSUME NEW ns \in [NodeIds -> Node], NEW ms \in [NodeIds -> Node],
         NEW S \in SUBSET NodeIds, UpClosed(ns, S),
         \A v \in S : ns[v].parent # NoParent => ns[v].parent < v,
         \A v \in S : ms[v].parent = ns[v].parent,
         NEW u \in S
  PROVE  Branches(ms)[u] = Branches(ns)[u]
<1> DEFINE f == Branches(ns)
           g == Branches(ms)
           differ == {v \in S : g[v] # f[v]}
<1>1. IsBranches(ns, f) /\ IsBranches(ms, g)
  BY BranchesExist
<1> HIDE DEF f, g
<1>2. ASSUME differ # {} PROVE FALSE
  <2>1. differ \subseteq Nat /\ S \subseteq Nat
    <3>1. NodeIds \subseteq Nat
      BY ConstantTypes DEF NodeIds
    <3> QED
      BY <3>1
  <2>2. PICK x \in differ : \A y \in differ : x <= y
    BY <1>2, <2>1, LeastElement
  <2> DEFINE p == ns[x].parent
  <2>3. f[x] = AndUp(ns, f, x) /\ g[x] = AndUp(ms, g, x) /\ ms[x].parent = p
    BY <1>1 DEF IsBranches
  <2>4. p # NoParent => p \in S /\ p < x /\ p \in Nat /\ x \in Nat
    BY <2>1 DEF UpClosed
  <2>5. p # NoParent => f[p] = g[p]
    BY <2>2, <2>4
  <2> QED
    BY <2>3, <2>5 DEF AndUp
<1> QED
  BY <1>2 DEF f, g

----------------------------------------------------------------------------

\* The nodes the draft model has evaluated
Expanded == {u \in 0..nNodes-1 : nodes[u].cacheIndex # NotInCache}

TreeTypes ==
  /\ NodeTypes
  /\ nNodes \in 0..DraftBatch
  /\ mainHeap \subseteq Candidate /\ leafHeap \subseteq Candidate
  /\ current \in NodeIds

\* Only the root has no parent; any other node comes after its parent, one
\* position further, and the parent has been evaluated.
BelowParent(u) ==
  IF u = 0 THEN nodes[u].parent = NoParent
  ELSE /\ nodes[u].parent \in Expanded /\ nodes[u].parent < u
       /\ nodes[u].position = nodes[nodes[u].parent].position + 1
Parented == \A u \in 0..nNodes-1 : BelowParent(u)

\* A node is drafted into the cache at or after the place it is accepted to.
DraftedAhead == \A u \in Expanded : nodes[u].cacheIndex >= nodes[u].position

\* The candidates wait for a node that has been evaluated, at first for none.
HeapsParented ==
  IF nNodes = 0
  THEN \E root \in mainHeap : mainHeap = {root} /\ leafHeap = {} /\ root.parent = NoParent
  ELSE \A c \in mainHeap \cup leafHeap : c.parent \in Expanded

\* What holds of the tree in each phase of a round: its root stands at the
\* position of the target's cache, and so does the node verify() is at.
RoundInv ==
  /\ pc \in {"draft", "target", "verify"} => Parented /\ DraftedAhead
  /\ pc = "draft" =>
       /\ HeapsParented
       /\ lastParent = NoParent \/ lastParent \in Expanded
       /\ nNodes = 0 => nSaved = 0 /\ lastParent = NoParent
       /\ nNodes # 0 => nodes[0].position = kv["target"].position
       /\ \A u \in Expanded : nodes[u].cacheIndex < kv["draft"].position
       /\ \A u \in NodeIds : u >= nNodes => nodes[u].cacheIndex = NotInCache
  /\ pc = "target" => nNodes # 0 /\ nodes[0].position = kv["target"].position
  /\ pc = "verify" => current < nNodes /\ nodes[current].position = kv["target"].position
  /\ pc = "deliver" => queue # <<>>

\* Outside a round both caches stand at the same position, behind the system
\* prompt.
Positions ==
  /\ kv["target"].position >= Len(SystemPrompt)
  /\ Committed("draft") >= Len(SystemPrompt)
  /\ pc = "prefill" =>
       \A m \in Models : /\ kv[m].position = Len(SystemPrompt) + prefilled[m]
                         /\ prefilled[m] <= Len(prompt) - 1
  /\ Generating => kv["target"].position = Committed("draft")

AbortInv == NoAssertionFails /\ TreeTypes /\ RoundInv /\ Positions

AllInv == IInv /\ OrderInv /\ AbortInv

\* No tree, no prompt, and two caches that hold the system prompt
LEMMA InitAbort == Init => AbortInv
<1> SUFFICES ASSUME Init PROVE AbortInv
  OBVIOUS
<1>1. NodeIds \subseteq Nat /\ 0 \in NodeIds /\ DraftBatch \in Nat
  BY ConstantTypes DEF NodeIds
<1>2. BlankNode \in Node
  <2>1. (CHOOSE t \in Token : TRUE) \in Token
    BY SpecAssumption
  <2> QED
    BY <2>1 DEF BlankNode, Node
<1>3. TreeTypes
  BY <1>1, <1>2 DEF Init, TreeTypes, NodeTypes
<1>4. kv["target"].position = Len(SystemPrompt) /\ kv["draft"].position = Len(SystemPrompt)
  BY DEF Init, Models
<1>5. Positions
  BY <1>4, ConstantTypes DEF Init, Positions, Committed, Generating
<1> QED
  BY <1>3, <1>5 DEF Init, AbortInv, NoAssertionFails, RoundInv

PositionsNatural == \A m \in Models : kv[m].position \in Nat

\* The part of the first invariant that arithmetic asks for
LEMMA NaturalPositions == IInv => PositionsNatural
  BY ConstantTypes DEF IInv, CacheInv, SoundCaches, Sound, PositionsNatural

LEMMA NextNaturalPositions == IInv' => PositionsNatural'
  BY ConstantTypes DEF IInv, CacheInv, SoundCaches, Sound, PositionsNatural

\* Updating one of the caches leaves the other.
LEMMA OtherCacheStays ==
  ASSUME IInv, NEW m \in Models, NEW c, kv' = [kv EXCEPT ![m] = c]
  PROVE  \A o \in Models : kv'[o] = IF o = m THEN c ELSE kv[o]
<1>1. kv' = [i \in Models |-> IF i = m THEN c ELSE kv[i]]
  BY DEF IInv, CacheInv, SoundCaches
<1> QED
  BY <1>1

\* A step that ends in a state without a tree
LEMMA NoTree ==
  ASSUME AllInv, UNCHANGED <<treeVars, current>>, Positions', pc' \in {"ready", "prefill", "serve"}
  PROVE  AbortInv'
  BY DEF AllInv, AbortInv, NoAssertionFails, TreeTypes, NodeTypes, RoundInv, treeVars

LEMMA Leaving ==
  ASSUME AllInv, IInv', Throw, UNCHANGED current,
         kv'["target"].position >= Len(SystemPrompt), kv'["draft"].position >= Len(SystemPrompt)
  PROVE  AbortInv'
<1>1. Positions'
  BY NextNaturalPositions DEF Throw, Positions, Committed, Generating, PositionsNatural, Models
<1> QED
  BY <1>1, NoTree DEF Throw

LEMMA StartAbort ==
  ASSUME AllInv, NEW p \in Prompts, NEW n, Start(p, n), IInv' PROVE AbortInv'
<1> DEFINE cut(m) == TruncateTokens(kv[m], Len(SystemPrompt))
           cleared == [m \in Models |-> cut(m)]
<1>1. \A m \in Models : kv[m].position >= Len(SystemPrompt)
  BY NaturalPositions
     DEF Start, AllInv, AbortInv, Positions, Committed, PositionsNatural, Models
<1>2. ASSUME NEW m \in Models PROVE cut(m).position = Len(SystemPrompt)
  <2>1. kv[m].position \in Nat /\ kv[m] = [size |-> kv[m].size, position |-> kv[m].position,
                                           open |-> kv[m].open, entry |-> kv[m].entry]
    BY NaturalPositions DEF PositionsNatural, AllInv, IInv, CacheInv, SoundCaches, Sound
  <2>2. CASE Len(SystemPrompt) < kv[m].position
    <3>1. cut(m) = RollbackTokens(kv[m], kv[m].position - Len(SystemPrompt))
      BY <2>2 DEF TruncateTokens
    <3>2. kv[m].position - Len(SystemPrompt) \in 0..kv[m].position
      BY <2>1, <2>2, ConstantTypes
    <3>3. cut(m).position = kv[m].position - (kv[m].position - Len(SystemPrompt))
      BY <3>1, <3>2, RollbackTokensSound, ConstantTypes DEF AllInv, IInv, CacheInv, SoundCaches
    <3> HIDE DEF cut
    <3> QED
      BY <3>3, <2>1, ConstantTypes
  <2>3. CASE ~(Len(SystemPrompt) < kv[m].position)
    BY <2>1, <2>3, <1>1, ConstantTypes DEF TruncateTokens
  <2> QED
    BY <2>2, <2>3
<1> HIDE DEF cut
<1>3. cleared["target"].position = cleared["draft"].position
  BY <1>2 DEF Models
<1>4. /\ kv' = cleared /\ prompt' = p /\ prefilled' = [m \in Models |-> 0] /\ pc' = "prefill"
      /\ UNCHANGED <<treeVars, verifyVars>>
  BY <1>3 DEF Start, cut
<1>5. Positions'
  <2>1. Len(p) \in Nat \ {0}
    BY SpecAssumption, EmptySeq DEF Content
  <2> QED
    BY <1>2, <1>4, <2>1, ConstantTypes DEF Positions, Committed, Generating, Models
<1> QED
  BY <1>4, <1>5, NoTree DEF verifyVars

LEMMA PrefillAbort ==
  ASSUME AllInv, NEW m \in Models, PrefillBatch(m), IInv' PROVE AbortInv'
<1> DEFINE done  == prefilled[m]
           n     == IF Len(prompt) - 1 - done < MaxBatch[m]
                    THEN Len(prompt) - 1 - done ELSE MaxBatch[m]
           pos   == BatchPositions(m, n)
           input == [u \in 0..n-1 |-> prompt[done + u + 1]]
           content == Forward(kv[m], input, pos, Causal(n))
           after == AdvanceTokens(SaveTokens(kv[m], content, n), n)
<1>1. CASE Throw /\ UNCHANGED kv
  BY <1>1, Leaving, NaturalPositions
     DEF Throw, PrefillBatch, verifyVars, AllInv, AbortInv, Positions, Committed,
         PositionsNatural, Models
<1>2. CASE /\ Fits(kv[m], n) /\ n > 0 /\ pc = "prefill" /\ pc' = pc
           /\ kv' = [kv EXCEPT ![m] = after]
           /\ prefilled' = [prefilled EXCEPT ![m] = @ + n]
           /\ UNCHANGED <<prompt, treeVars, verifyVars>>
  <2> HIDE DEF content
  <2>1. /\ n \in Nat /\ n <= Len(prompt) - 1 - done
        /\ prefilled \in [Models -> Nat] /\ Len(prompt) \in Nat
    BY <1>2, ConstantTypes DEF AllInv, IInv, PromptTypes, Content
  <2> HIDE DEF n
  <2>2. after.position = kv[m].position + n
    <3>1. CacheSize[m] \in Nat /\ Sound(kv[m], CacheSize[m])
      BY ConstantTypes DEF AllInv, IInv, CacheInv, SoundCaches
    <3> QED
      BY <1>2, <2>1, <3>1, AppendBatchSound
  <2> HIDE DEF after
  <2>3. \A o \in Models : kv'[o] = IF o = m THEN after ELSE kv[o]
    BY <1>2, OtherCacheStays DEF AllInv
  <2>4. \A o \in Models : kv[o].position \in Nat
    BY NaturalPositions DEF AllInv, PositionsNatural
  <2>5. Positions'
    <3>1. \A o \in Models : /\ kv'[o].position = Len(SystemPrompt) + prefilled'[o]
                            /\ prefilled'[o] <= Len(prompt) - 1
                            /\ prefilled'[o] \in Nat
      <4>1. \A o \in Models : /\ kv[o].position = Len(SystemPrompt) + prefilled[o]
                              /\ prefilled[o] <= Len(prompt) - 1 /\ prefilled[o] \in Nat
        BY <1>2, <2>1 DEF AllInv, AbortInv, Positions
      <4>2. \A o \in Models : prefilled'[o] = IF o = m THEN done + n ELSE prefilled[o]
        BY <1>2, <2>1
      <4>3. Len(SystemPrompt) \in Nat
        BY ConstantTypes
      <4>4. ASSUME NEW o \in Models
            PROVE  /\ kv'[o].position = Len(SystemPrompt) + prefilled'[o]
                   /\ prefilled'[o] <= Len(prompt) - 1 /\ prefilled'[o] \in Nat
        <5>1. CASE o = m
          <6>1. kv'[o].position = kv[m].position + n /\ prefilled'[o] = prefilled[m] + n
            BY <5>1, <2>2, <2>3, <4>2
          <6>2. n \in Nat /\ n <= Len(prompt) - 1 - prefilled[m]
            BY <2>1
          <6> QED
            BY <6>1, <6>2, <2>1, <4>1, <4>3
        <5>2. CASE o # m
          BY <5>2, <2>3, <4>1, <4>2
        <5> QED
          BY <5>1, <5>2
      <4> QED
        BY <4>4
    <3> QED
      BY <3>1, <1>2, ConstantTypes DEF Positions, Committed, Generating, Models
  <2> QED
    BY <1>2, <2>5, NoTree DEF verifyVars
<1> QED
  BY <1>1, <1>2 DEF PrefillBatch

LEMMA PrefillDoneAbort ==
  ASSUME AllInv, PrefillDone PROVE AbortInv'
<1>1. kv["target"].position = kv["draft"].position
  BY DEF AllInv, AbortInv, Positions, PrefillDone, Models
<1>2. Positions'
  BY <1>1, NaturalPositions
     DEF AllInv, AbortInv, Positions, PrefillDone, Committed, Generating, PositionsNatural, Models
<1> QED
  BY <1>2, NoTree DEF PrefillDone, verifyVars

LEMMA ServeAbort ==
  ASSUME AllInv, NextQueued \/ Finish PROVE AbortInv'
<1>1. /\ pc = "serve" /\ pc' \in {"serve", "ready"}
      /\ UNCHANGED <<kv, treeVars, current>>
  BY DEF NextQueued, Finish, verifyVars
<1>2. Positions'
  BY <1>1 DEF AllInv, AbortInv, Positions, Committed, Generating
<1> QED
  BY <1>1, <1>2, NoTree

\* A round starts with an empty tree and a candidate for its root.
LEMMA BeginRoundAbort ==
  ASSUME AllInv, BeginRound PROVE AbortInv'
<1>1. BlankNode \in Node
  <2>1. (CHOOSE t \in Token : TRUE) \in Token
    BY SpecAssumption
  <2> QED
    BY <2>1 DEF BlankNode, Node
<1>2. tokens[1] \in Token
  <2>1. tokens \in Seq(Token) /\ Len(tokens) = 1
    BY DEF BeginRound, AllInv, OrderInv, TextTypes, Content
  <2> QED
    BY <2>1
<1>3. TreeTypes'
  <2> DEFINE root == [token |-> tokens[1], parent |-> NoParent]
  <2>1. root \in Candidate
    BY <1>2 DEF Candidate
  <2>2. mainHeap' = {root} /\ leafHeap' = {}
    BY DEF BeginRound, ResetTree
  <2> HIDE DEF root
  <2> QED
    BY <1>1, <2>1, <2>2, ConstantTypes
       DEF BeginRound, ResetTree, verifyVars, AllInv, AbortInv, TreeTypes, NodeTypes
<1>4. RoundInv'
  <2>1. pc' = "draft" /\ nNodes' = 0 /\ Expanded' = {} /\ Parented' /\ DraftedAhead'
    BY DEF BeginRound, ResetTree, Parented, DraftedAhead, Expanded
  <2>2. HeapsParented'
    <3> DEFINE root == [token |-> tokens[1], parent |-> NoParent]
    <3>1. mainHeap' = {root} /\ leafHeap' = {} /\ root.parent = NoParent
      BY DEF BeginRound, ResetTree
    <3> HIDE DEF root
    <3> QED
      BY <2>1, <3>1 DEF HeapsParented
  <2>3. lastParent' = NoParent /\ nSaved' = 0
    BY DEF BeginRound, ResetTree
  <2>4. \A u \in NodeIds : nodes'[u].cacheIndex = NotInCache
    BY DEF BeginRound, ResetTree, BlankNode
  <2> QED
    BY <2>1, <2>2, <2>3, <2>4 DEF RoundInv
<1>5. Positions'
  <2>1. kv["draft"].position \in Nat
    BY NaturalPositions DEF AllInv, PositionsNatural, Models
  <2> QED
    BY <2>1 DEF BeginRound, ResetTree, AllInv, AbortInv, Positions, Committed, Generating
<1> QED
  BY <1>3, <1>4, <1>5 DEF BeginRound, AbortInv, NoAssertionFails

----------------------------------------------------------------------------
(* The tree grows *)

\* A node for a candidate
LEMMA NodeAdded ==
  ASSUME AllInv, pc = "draft", nNodes < DraftBatch, NEW node \in Node,
         node.parent = IF nNodes = 0 THEN NoParent ELSE node.parent,
         nNodes # 0 => /\ node.parent \in Expanded
                       /\ node.position = nodes[node.parent].position + 1,
         node.cacheIndex # NotInCache => node.cacheIndex >= node.position,
         nodes' = [nodes EXCEPT ![nNodes] = node], nNodes' = nNodes + 1
  PROVE  /\ nNodes \in NodeIds /\ nodes'[nNodes] = node
         /\ \A u \in NodeIds \ {nNodes} : nodes'[u] = nodes[u]
         /\ NodeTypes' /\ nNodes' \in 1..DraftBatch
         /\ Expanded' = Expanded \cup IF node.cacheIndex = NotInCache THEN {} ELSE {nNodes}
         /\ Parented' /\ DraftedAhead'
<1>1. /\ nNodes \in NodeIds /\ nNodes \in Nat /\ DraftBatch \in Nat
      /\ nodes \in [NodeIds -> Node] /\ 0..nNodes-1 \subseteq NodeIds \ {nNodes}
      /\ NodeIds \subseteq Nat
  BY ConstantTypes DEF AllInv, AbortInv, TreeTypes, NodeTypes, NodeIds
<1>2. /\ nodes'[nNodes] = node /\ \A u \in NodeIds \ {nNodes} : nodes'[u] = nodes[u]
      /\ NodeTypes'
  BY <1>1 DEF NodeTypes
<1>3. nNodes' \in 1..DraftBatch /\ 0..nNodes'-1 = (0..nNodes-1) \cup {nNodes}
  BY <1>1
<1>4. Expanded' = Expanded \cup IF node.cacheIndex = NotInCache THEN {} ELSE {nNodes}
  BY <1>1, <1>2, <1>3 DEF Expanded
<1>5. Parented'
  <2>1. Parented
    BY DEF AllInv, AbortInv, RoundInv
  <2>2. ASSUME NEW u \in 0..nNodes-1 PROVE BelowParent(u)'
    <3>1. nodes'[u] = nodes[u] /\ Expanded \subseteq Expanded'
      BY <1>1, <1>2, <1>4
    <3>2. \A v \in Expanded : nodes'[v] = nodes[v]
      BY <1>1, <1>2 DEF Expanded
    <3> QED
      BY <2>1, <3>1, <3>2 DEF Parented, BelowParent
  <2>3. ASSUME NEW u, u = nNodes PROVE BelowParent(u)'
    <3>1. \A v \in Expanded : nodes'[v] = nodes[v] /\ v < nNodes /\ v \in Expanded'
      BY <1>1, <1>2, <1>4 DEF Expanded
    <3> QED
      BY <1>2, <2>3, <3>1 DEF BelowParent
  <2> QED
    BY <1>3, <2>2, <2>3 DEF Parented
<1>6. DraftedAhead'
  <2>1. DraftedAhead /\ \A v \in Expanded : nodes'[v] = nodes[v]
    BY <1>1, <1>2 DEF AllInv, AbortInv, RoundInv, Expanded
  <2> QED
    BY <1>2, <1>4, <2>1 DEF DraftedAhead
<1> QED
  BY <1>1, <1>2, <1>3, <1>4, <1>5, <1>6

\* A candidate on the heap waits for an expanded node, the first one for none.
LEMMA CandidateParented ==
  ASSUME AllInv, pc = "draft", NEW c \in Heap
  PROVE  /\ c \in Candidate
         /\ IF nNodes = 0 THEN c.parent = NoParent ELSE c.parent \in Expanded
         /\ c.parent # NoParent => nNodes # 0 /\ nodes[c.parent].position \in Nat
<1>1. c \in mainHeap \cup leafHeap
  BY DEF Heap, Leaves
<1>2. c \in Candidate /\ IF nNodes = 0 THEN c.parent = NoParent ELSE c.parent \in Expanded
  BY <1>1 DEF AllInv, AbortInv, TreeTypes, RoundInv, HeapsParented
<1>3. \A u \in Expanded : u \in NodeIds /\ nodes[u].position \in Nat
  BY ConstantTypes DEF AllInv, AbortInv, TreeTypes, NodeTypes, Node, Expanded, NodeIds
<1> QED
  BY <1>2, <1>3

LEMMA DraftLeafAbort ==
  ASSUME AllInv, NEW c, NEW low, DraftLeaf(c, low) PROVE AbortInv'
<1> DEFINE node == [nodes[nNodes] EXCEPT
                      !.parent = c.parent, !.token = c.token,
                      !.position = IF c.parent = NoParent THEN kv["draft"].position
                                   ELSE nodes[c.parent].position + 1]
<1>1. /\ pc = "draft" /\ nNodes < DraftBatch /\ c \in Heap
      /\ nodes' = [nodes EXCEPT ![nNodes] = node] /\ nNodes' = nNodes + 1
      /\ UNCHANGED <<pc, kv, lastParent, nSaved, current>>
      /\ mainHeap' \subseteq mainHeap /\ leafHeap' \subseteq leafHeap
  BY DEF DraftLeaf, AddNode, verifyVars
<1>2. /\ c \in Candidate
      /\ IF nNodes = 0 THEN c.parent = NoParent ELSE c.parent \in Expanded
      /\ c.parent # NoParent => nNodes # 0 /\ nodes[c.parent].position \in Nat
  BY <1>1, CandidateParented
<1>3. kv["draft"].position \in Nat
  BY NaturalPositions DEF AllInv, PositionsNatural, Models
<1>4. nNodes \in NodeIds /\ nodes[nNodes] \in Node /\ nodes[nNodes].cacheIndex = NotInCache
  BY <1>1, ConstantTypes DEF AllInv, AbortInv, TreeTypes, NodeTypes, NodeIds, RoundInv
<1>5. /\ node \in Node /\ node.parent = c.parent /\ node.cacheIndex = NotInCache
      /\ node.position = IF c.parent = NoParent THEN kv["draft"].position
                         ELSE nodes[c.parent].position + 1
  <2> DEFINE position == IF c.parent = NoParent THEN kv["draft"].position
                         ELSE nodes[c.parent].position + 1
             old == nodes[nNodes]
  <2>1. position \in Nat
    BY <1>2, <1>3
  <2>2. c.token \in Token /\ c.parent \in NodeIds \cup {NoParent}
    BY <1>2 DEF Candidate
  <2>3. old \in Node /\ old.cacheIndex = NotInCache
    BY <1>4
  <2>4. node = [old EXCEPT !.parent = c.parent, !.token = c.token, !.position = position]
    OBVIOUS
  <2> HIDE DEF position, old, node
  <2>5. node \in Node /\ node.parent = c.parent /\ node.cacheIndex = NotInCache
        /\ node.position = position
    BY <2>1, <2>2, <2>3, <2>4 DEF Node
  <2> QED
    BY <2>5 DEF position
<1> HIDE DEF node
<1>6. \A u \in Expanded : u \in 0..nNodes-1 /\ u # NoParent
  BY DEF Expanded, NoParent
<1>7. /\ nodes'[nNodes] = node /\ \A u \in NodeIds \ {nNodes} : nodes'[u] = nodes[u]
      /\ NodeTypes' /\ nNodes' \in 1..DraftBatch
      /\ Expanded' = Expanded /\ Parented' /\ DraftedAhead'
  BY <1>1, <1>2, <1>5, <1>6, NodeAdded
<1>8. TreeTypes'
  BY <1>1, <1>7 DEF AllInv, AbortInv, TreeTypes
<1>9. HeapsParented'
  <2>1. nNodes # 0 => HeapsParented'
    BY <1>1, <1>7 DEF AllInv, AbortInv, RoundInv, HeapsParented
  <2>2. nNodes = 0 => mainHeap' = {} /\ leafHeap' = {}
    BY <1>1 DEF DraftLeaf, Heap, Leaves, AllInv, AbortInv, RoundInv, HeapsParented
  <2> QED
    BY <1>7, <2>1, <2>2 DEF HeapsParented
<1>10. RoundInv'
  <2>1. \A u \in Expanded : nodes'[u] = nodes[u]
    BY <1>6, <1>7, ConstantTypes DEF AllInv, AbortInv, TreeTypes, NodeIds
  <2>2. nodes'[0].position = kv["target"].position
    <3>1. CASE nNodes = 0
      <4>1. nodes'[0].position = kv["draft"].position
        BY <1>2, <1>5, <1>7, <3>1
      <4>2. nSaved = 0
        BY <1>1, <3>1 DEF AllInv, AbortInv, RoundInv
      <4> QED
        BY <1>1, <1>3, <4>1, <4>2 DEF AllInv, AbortInv, Positions, Committed, Generating
    <3>2. CASE nNodes # 0
      <4>1. nodes[0].position = kv["target"].position
        BY <1>1, <3>2 DEF AllInv, AbortInv, RoundInv
      <4>2. 0 \in NodeIds \ {nNodes}
        BY <3>2, ConstantTypes DEF NodeIds
      <4> QED
        BY <1>7, <4>1, <4>2
    <3> QED
      BY <3>1, <3>2
  <2>3. \A u \in NodeIds : u >= nNodes' => nodes'[u].cacheIndex = NotInCache
    BY <1>1, <1>4, <1>7, ConstantTypes DEF AllInv, AbortInv, RoundInv, NodeIds
  <2> QED
    BY <1>1, <1>7, <1>9, <2>1, <2>2, <2>3 DEF AllInv, AbortInv, RoundInv
<1>11. Positions'
  BY <1>1 DEF AllInv, AbortInv, Positions, Committed, Generating
<1> QED
  BY <1>1, <1>8, <1>10, <1>11 DEF AbortInv, NoAssertionFails

\* switch_parent() is only called between evaluated nodes, and these are in use.
LEMMA SwitchIsSafe ==
  ASSUME AllInv, pc = "draft", NEW old \in Expanded, NEW new \in Expanded
  PROVE  CanSwitch(kv["draft"], old, new)
<1>1. /\ NodeTypes /\ NodeIds \subseteq Nat /\ nNodes \in 0..DraftBatch
      /\ Parented /\ DraftedAhead
      /\ \A u \in Expanded : nodes[u].cacheIndex < kv["draft"].position
  BY ConstantTypes DEF AllInv, AbortInv, TreeTypes, RoundInv, NodeIds
<1>2. Expanded \in SUBSET NodeIds
  BY <1>1, ConstantTypes DEF Expanded, NodeIds
<1>3. /\ UpClosed(nodes, Expanded)
      /\ \A v \in Expanded : nodes[v].parent # NoParent => nodes[v].parent < v
  BY <1>1 DEF UpClosed, Parented, BelowParent, Expanded
<1>4. Branch(old) \subseteq Expanded /\ Branch(new) \subseteq Expanded
  BY <1>1, <1>2, <1>3, BranchesWithin, BranchIs DEF NodeTypes
<1>5. ASSUME NEW u \in Expanded
      PROVE  nodes[u].cacheIndex # NotInCache /\ InUse(kv["draft"], nodes[u].cacheIndex)
  <2>1. nodes[u].cacheIndex \in Nat
    BY <1>2 DEF Expanded, AllInv, AbortInv, TreeTypes, NodeTypes, Node
  <2>2. kv["draft"].position \in Nat
    BY NaturalPositions DEF AllInv, PositionsNatural, Models
  <2> QED
    BY <1>1, <2>1, <2>2 DEF Expanded, InUse
<1> QED
  BY <1>4, <1>5 DEF CanSwitch

LEMMA DraftExpandAbort ==
  ASSUME AllInv, NEW c \in Heap, NEW top \in SUBSET Token, NEW wide \in SUBSET top,
         DraftExpand(c, top, wide), IInv'
  PROVE  AbortInv'
<1> DEFINE draft  == kv["draft"]
           switch == lastParent # NoParent /\ c.parent # lastParent
           cache  == IF switch THEN SwitchParent(draft, lastParent, c.parent) ELSE draft
           node   == [parent |-> c.parent, token |-> c.token, cacheIndex |-> cache.position,
                      position |-> IF c.parent = NoParent THEN cache.position
                                   ELSE nodes[c.parent].position + 1]
           cands(S) == {[token |-> t, parent |-> nNodes] : t \in S}
<1>1. /\ c \in Candidate
      /\ IF nNodes = 0 THEN c.parent = NoParent ELSE c.parent \in Expanded
      /\ c.parent # NoParent => nNodes # 0 /\ nodes[c.parent].position \in Nat
  BY CandidateParented DEF DraftExpand
<1>2. pc = "draft" /\ nNodes < DraftBatch
  BY DEF DraftExpand
<1>3. switch => CanSwitch(draft, lastParent, c.parent)
  <2>1. ASSUME switch PROVE lastParent \in Expanded /\ c.parent \in Expanded
    BY <1>1, <1>2, <2>1 DEF AllInv, AbortInv, RoundInv
  <2> QED
    BY <1>2, <2>1, SwitchIsSafe
<1>4. draft.position \in Nat /\ cache.position = draft.position
  <2>1. CacheSize["draft"] \in Nat /\ Sound(draft, CacheSize["draft"])
    BY ConstantTypes DEF AllInv, IInv, CacheInv, SoundCaches, Models
  <2>2. draft.position \in Nat
    BY NaturalPositions DEF AllInv, PositionsNatural, Models
  <2> QED
    BY <1>3, <2>1, <2>2, SwitchParentSound
<1>5. CASE Throw /\ kv' = [kv EXCEPT !["draft"] = cache]
  <2> HIDE DEF cache
  <2>1. kv'["target"] = kv["target"] /\ kv'["draft"] = cache
    BY <1>5, OtherCacheStays DEF Models, AllInv
  <2>2. draft.position >= Len(SystemPrompt)
    <3>1. nSaved \in 0..draft.position
      BY <1>2 DEF AllInv, IInv, CacheInv, DraftCanRollBack
    <3> QED
      BY <1>2, <1>4, <3>1, ConstantTypes DEF AllInv, AbortInv, Positions, Committed
  <2> QED
    BY <1>4, <1>5, <2>1, <2>2, Leaving DEF Throw, verifyVars, AllInv, AbortInv, Positions
<1>6. CASE /\ Fits(cache, 1)
           /\ nodes' = [nodes EXCEPT ![nNodes] = node]
           /\ kv' = [kv EXCEPT !["draft"] = ForwardOne(cache, c.token, nodes'[nNodes].position)]
           /\ nNodes' = nNodes + 1
           /\ mainHeap' = (mainHeap \ {c}) \cup cands(wide)
           /\ leafHeap' = leafHeap \cup cands(top \ wide)
           /\ lastParent' = nNodes /\ nSaved' = nSaved + 1
           /\ UNCHANGED <<pc, verifyVars>>
  <2>1. kv'["target"] = kv["target"] /\ kv'["draft"].position = draft.position + 1
    <3>1. /\ CacheSize["draft"] \in Nat /\ Sound(cache, CacheSize["draft"])
      BY <1>3, ConstantTypes, SwitchParentSound DEF AllInv, IInv, CacheInv, SoundCaches, Models
    <3> HIDE DEF cache
    <3> DEFINE after == ForwardOne(cache, c.token, nodes'[nNodes].position)
    <3>2. after.position = cache.position + 1
      BY <1>6, <3>1, ForwardOneSound
    <3>3. kv' = [kv EXCEPT !["draft"] = after]
      BY <1>6
    <3> HIDE DEF after
    <3>4. kv'["target"] = kv["target"] /\ kv'["draft"] = after
      BY <3>3, OtherCacheStays DEF Models, AllInv
    <3> QED
      BY <1>4, <3>2, <3>4
  <2> DEFINE position == IF c.parent = NoParent THEN cache.position
                         ELSE nodes[c.parent].position + 1
  <2>2. /\ node \in Node /\ node.parent = c.parent /\ node.cacheIndex = draft.position
        /\ node.position = position /\ draft.position \in Nat /\ draft.position >= position
    <3>1. position \in Nat
      BY <1>1, <1>4
    <3>2. draft.position >= position
      <4>1. CASE c.parent = NoParent
        BY <1>4, <4>1
      <4>2. CASE c.parent # NoParent
        <5>1. /\ nodes[c.parent].cacheIndex < draft.position
              /\ nodes[c.parent].cacheIndex >= nodes[c.parent].position
              /\ nodes[c.parent].position \in Nat
          BY <1>1, <1>2, <4>2 DEF AllInv, AbortInv, RoundInv, DraftedAhead
        <5>2. nodes[c.parent].cacheIndex \in Int
          BY <1>1, <4>2 DEF Candidate, AllInv, AbortInv, TreeTypes, NodeTypes, Node, NotInCache
        <5> QED
          BY <1>4, <4>2, <5>1, <5>2
      <4> QED
        BY <4>1, <4>2
    <3> HIDE DEF position
    <3>3. c.token \in Token /\ c.parent \in NodeIds \cup {NoParent}
      BY <1>1 DEF Candidate
    <3>4. node = [parent |-> c.parent, token |-> c.token, cacheIndex |-> draft.position,
                  position |-> position]
      BY <1>4 DEF position
    <3> HIDE DEF node
    <3> QED
      BY <1>4, <3>1, <3>2, <3>3, <3>4 DEF Node
  <2> HIDE DEF node
  <2>3. \A u \in Expanded : u \in 0..nNodes-1 /\ u # NoParent
    BY DEF Expanded, NoParent
  <2>4. /\ nNodes \in NodeIds /\ nodes'[nNodes] = node
        /\ \A u \in NodeIds \ {nNodes} : nodes'[u] = nodes[u]
        /\ NodeTypes' /\ nNodes' \in 1..DraftBatch
        /\ Expanded' = Expanded \cup {nNodes} /\ Parented' /\ DraftedAhead'
    <3>1. nodes' = [nodes EXCEPT ![nNodes] = node] /\ nNodes' = nNodes + 1
      BY <1>6
    <3>2. node.cacheIndex # NotInCache /\ node.cacheIndex >= node.position
      BY <2>2 DEF NotInCache
    <3>3. node.parent = IF nNodes = 0 THEN NoParent ELSE node.parent
      BY <1>1, <2>2
    <3>4. nNodes # 0 => /\ node.parent \in Expanded
                        /\ node.position = nodes[node.parent].position + 1
      BY <1>1, <2>2, <2>3
    <3> QED
      BY <1>2, <2>2, <3>1, <3>2, <3>3, <3>4, NodeAdded
  <2>5. \A S \in SUBSET Token : cands(S) \subseteq Candidate
                             /\ \A d \in cands(S) : d.parent = nNodes
    BY <2>4 DEF Candidate
  <2>6. TreeTypes'
    <3>1. mainHeap' \subseteq Candidate /\ leafHeap' \subseteq Candidate
      <4>1. /\ cands(wide) \subseteq Candidate /\ cands(top \ wide) \subseteq Candidate
        BY <2>5
      <4> QED
        BY <1>6, <4>1 DEF AllInv, AbortInv, TreeTypes
    <3>2. current' = current
      BY <1>6 DEF verifyVars
    <3> QED
      BY <2>4, <3>1, <3>2 DEF AllInv, AbortInv, TreeTypes
  <2>7. HeapsParented'
    <3>1. \A d \in mainHeap' \cup leafHeap' :
             d \in (mainHeap \cup leafHeap) \ {c} \/ d.parent = nNodes \/ d \in leafHeap
      BY <1>6, <2>5
    <3>2. nNodes # 0 => \A d \in mainHeap \cup leafHeap : d.parent \in Expanded
      BY <1>2 DEF AllInv, AbortInv, RoundInv, HeapsParented
    <3>3. nNodes = 0 => (mainHeap \cup leafHeap) \ {c} = {} /\ leafHeap = {}
      <4>1. nNodes = 0 => \E root \in mainHeap : mainHeap = {root} /\ leafHeap = {}
        BY <1>2 DEF AllInv, AbortInv, RoundInv, HeapsParented
      <4> QED
        BY <4>1 DEF Heap, Leaves
    <3>4. \A d \in mainHeap' \cup leafHeap' : d.parent \in Expanded'
      BY <2>4, <3>1, <3>2, <3>3
    <3> QED
      BY <2>4, <3>4 DEF HeapsParented
  <2>8. nodes'[0].position = kv["target"].position
    <3>1. CASE nNodes = 0
      <4>1. nodes'[0].position = draft.position
        BY <1>1, <1>4, <2>2, <2>4, <3>1
      <4>2. nSaved = 0
        BY <1>2, <3>1 DEF AllInv, AbortInv, RoundInv
      <4> QED
        BY <1>2, <1>4, <4>1, <4>2 DEF AllInv, AbortInv, Positions, Committed, Generating
    <3>2. CASE nNodes # 0
      <4>1. nodes[0].position = kv["target"].position
        BY <1>2, <3>2 DEF AllInv, AbortInv, RoundInv
      <4>2. 0 \in NodeIds \ {nNodes}
        BY <3>2, ConstantTypes DEF NodeIds
      <4> QED
        BY <2>4, <4>1, <4>2
    <3> QED
      BY <3>1, <3>2
  <2>9. \A u \in Expanded' : nodes'[u].cacheIndex < draft.position + 1
    <3>1. ASSUME NEW u \in Expanded PROVE nodes'[u].cacheIndex < draft.position + 1
      <4>1. u \in NodeIds \ {nNodes}
        BY <2>3, <2>4, ConstantTypes DEF NodeIds
      <4>2. nodes[u].cacheIndex < draft.position
        BY <1>2 DEF AllInv, AbortInv, RoundInv
      <4>3. nodes[u].cacheIndex \in Int
        BY <4>1 DEF AllInv, AbortInv, TreeTypes, NodeTypes, Node, NotInCache
      <4> QED
        BY <1>4, <2>4, <4>1, <4>2, <4>3
    <3> QED
      BY <1>4, <2>2, <2>4, <3>1
  <2>10. \A u \in NodeIds : u >= nNodes' => nodes'[u].cacheIndex = NotInCache
    <3>1. \A u \in NodeIds : u >= nNodes => nodes[u].cacheIndex = NotInCache
      BY <1>2 DEF AllInv, AbortInv, RoundInv
    <3> QED
      BY <1>6, <2>4, <3>1, ConstantTypes DEF NodeIds
  <2>11. RoundInv'
    BY <1>2, <1>6, <2>1, <2>4, <2>7, <2>8, <2>9, <2>10 DEF RoundInv
  <2>12. Positions'
    <3>1. nSaved \in 0..draft.position
      BY <1>2 DEF AllInv, IInv, CacheInv, DraftCanRollBack
    <3> QED
      BY <1>2, <1>4, <1>6, <2>1, <3>1 DEF AllInv, AbortInv, Positions, Committed, Generating
  <2> QED
    BY <1>2, <1>6, <2>6, <2>11, <2>12 DEF AbortInv, NoAssertionFails
<1> QED
  BY <1>3, <1>5, <1>6 DEF DraftExpand

----------------------------------------------------------------------------
(* The tree is evaluated and walked down *)

\* What follows from the nodes alone still holds.
LEMMA TreeUnchanged ==
  ASSUME AllInv, UNCHANGED treeVars, current' \in NodeIds,
         pc \in {"draft", "target", "verify"}
  PROVE  TreeTypes' /\ Parented' /\ DraftedAhead'
BY DEF AllInv, AbortInv, TreeTypes, NodeTypes, RoundInv, Parented, BelowParent, DraftedAhead,
       Expanded, treeVars

\* There is a root, because its candidate was the first.
LEMMA DraftDoneAbort ==
  ASSUME AllInv, DraftDone, IInv' PROVE AbortInv'
<1>1. /\ pc = "draft" /\ pc' = "target" /\ UNCHANGED <<treeVars, current, nNodes, nodes>>
      /\ nNodes = DraftBatch \/ Heap = {}
  BY DEF DraftDone, treeVars, verifyVars
<1>2. nNodes # 0
  <2>1. nNodes = 0 => mainHeap # {}
    BY <1>1 DEF AllInv, AbortInv, RoundInv, HeapsParented
  <2> QED
    BY <1>1, <2>1, ConstantTypes DEF Heap, Leaves
<1>3. kv'["target"] = kv["target"] /\ kv'["draft"].position = kv["draft"].position - nSaved
  <2> DEFINE back == RollbackTokens(kv["draft"], nSaved)
  <2>1. back.position = kv["draft"].position - nSaved
    BY <1>1, ConstantTypes, RollbackTokensSound
       DEF AllInv, IInv, CacheInv, SoundCaches, DraftCanRollBack, Models
  <2>2. kv' = [kv EXCEPT !["draft"] = back]
    BY DEF DraftDone
  <2> HIDE DEF back
  <2> QED
    BY <2>1, <2>2, OtherCacheStays DEF AllInv, Models
<1>4. TreeTypes' /\ Parented' /\ DraftedAhead'
  BY <1>1, TreeUnchanged DEF AllInv, AbortInv, TreeTypes
<1>5. nodes[0].position = kv["target"].position
  BY <1>1, <1>2 DEF AllInv, AbortInv, RoundInv
<1>6. RoundInv'
  BY <1>1, <1>2, <1>3, <1>4, <1>5 DEF RoundInv
<1>7. Positions'
  <2>1. kv'["draft"].position \in Nat
    BY NextNaturalPositions DEF PositionsNatural, Models
  <2> QED
    BY <1>1, <1>3, <2>1 DEF AllInv, AbortInv, Positions, Committed, Generating
<1> QED
  BY <1>1, <1>4, <1>6, <1>7 DEF AbortInv, NoAssertionFails

LEMMA TargetForwardAbort ==
  ASSUME AllInv, TargetForward, IInv' PROVE AbortInv'
<1>1. CASE Throw /\ UNCHANGED kv
  BY <1>1, Leaving, NaturalPositions
     DEF Throw, TargetForward, verifyVars, AllInv, AbortInv, Positions, Committed,
         PositionsNatural, Models
<1>2. CASE /\ Fits(kv["target"], DraftBatch) /\ pc = "target" /\ pc' = "verify" /\ current' = 0
           /\ UNCHANGED treeVars
           /\ kv' = [kv EXCEPT !["target"] =
                RollbackTokens(AdvanceTokens(SaveTokens(kv["target"], batch', DraftBatch),
                                             DraftBatch), DraftBatch)]
  <2> DEFINE size == CacheSize["target"]
             full == AdvanceTokens(SaveTokens(kv["target"], batch', DraftBatch), DraftBatch)
             back == RollbackTokens(full, DraftBatch)
  <2>1. size \in Nat /\ Sound(kv["target"], size) /\ DraftBatch \in Nat \ {0}
    BY ConstantTypes DEF AllInv, IInv, CacheInv, SoundCaches, Models
  <2>2. Sound(full, size) /\ full.position = kv["target"].position + DraftBatch
    BY <1>2, <2>1, AppendBatchSound
  <2>3. kv["target"].position \in Nat /\ kv["draft"].position \in Nat
    BY NaturalPositions DEF AllInv, PositionsNatural, Models
  <2> HIDE DEF full
  <2>4. back.position = kv["target"].position
    <3>1. DraftBatch \in 0..full.position
      BY <2>1, <2>2, <2>3
    <3>2. back.position = full.position - DraftBatch
      BY <2>1, <2>2, <3>1, RollbackTokensSound
    <3> QED
      BY <2>1, <2>2, <2>3, <3>2
  <2>5. kv' = [kv EXCEPT !["target"] = back]
    BY <1>2 DEF full
  <2> HIDE DEF back
  <2>6. kv'["draft"] = kv["draft"] /\ kv'["target"].position = kv["target"].position
    BY <2>4, <2>5, OtherCacheStays DEF AllInv, Models
  <2>7. TreeTypes' /\ Parented' /\ DraftedAhead'
    <3>1. 0 \in NodeIds
      BY <2>1 DEF NodeIds
    <3> QED
      BY <1>2, <3>1, TreeUnchanged
  <2>8. nNodes # 0 /\ nNodes \in Nat /\ nodes[0].position = kv["target"].position
    BY <1>2 DEF AllInv, AbortInv, RoundInv, TreeTypes
  <2>9. RoundInv'
    BY <1>2, <2>6, <2>7, <2>8 DEF RoundInv, treeVars
  <2>10. Positions'
    BY <1>2, <2>3, <2>6 DEF AllInv, AbortInv, Positions, Committed, Generating
  <2> QED
    BY <1>2, <2>7, <2>9, <2>10 DEF AbortInv, NoAssertionFails
<1> QED
  BY <1>1, <1>2 DEF TargetForward

\* Both caches stand at the current node, and a child is one further.
LEMMA VerifyAbort ==
  ASSUME AllInv, NEW t \in Token, VerifyNode(t), IInv' PROVE AbortInv'
<1> DEFINE node   == nodes[current]
           copied == Copy(kv["target"], node.position, batch, current)
           target == AdvanceTokens(copied, 1)
           next   == {v \in Children(current) : nodes[v].token = t}
<1>1. /\ CacheSize["target"] \in Nat /\ Sound(kv["target"], CacheSize["target"])
      /\ CacheSize["draft"] \in Nat /\ Sound(kv["draft"], CacheSize["draft"])
      /\ kv["target"].position \in Nat /\ kv["draft"].position \in Nat
  BY ConstantTypes, NaturalPositions
     DEF AllInv, IInv, CacheInv, SoundCaches, PositionsNatural, Models
<1>2. pc = "verify"
  BY DEF VerifyNode
<1>3. /\ current \in 0..nNodes-1 /\ nNodes \in 0..DraftBatch
      /\ node.position = kv["target"].position
      /\ kv["draft"].position = kv["target"].position
  <2>1. current \in NodeIds /\ nNodes \in 0..DraftBatch /\ current < nNodes
    BY <1>2 DEF AllInv, AbortInv, TreeTypes, RoundInv
  <2>2. node.position = kv["target"].position
    BY <1>2 DEF AllInv, AbortInv, RoundInv
  <2>3. kv["draft"].position = kv["target"].position
    BY <1>1, <1>2 DEF AllInv, AbortInv, Positions, Committed, Generating
  <2> QED
    BY <2>1, <2>2, <2>3, ConstantTypes DEF NodeIds
<1>4. /\ \A m \in Models : kv[m].position = node.position
      /\ node.cacheIndex # NotInCache => ~(node.cacheIndex < node.position)
  <2>1. current \in NodeIds /\ node \in Node
    BY DEF AllInv, AbortInv, TreeTypes, NodeTypes
  <2>2. node.cacheIndex # NotInCache => node.cacheIndex >= node.position
    BY <1>2, <1>3 DEF AllInv, AbortInv, RoundInv, DraftedAhead, Expanded
  <2>3. node.position \in Nat /\ node.cacheIndex \in Int
    BY <2>1 DEF Node, NotInCache
  <2> HIDE DEF node
  <2> QED
    BY <1>3, <2>2, <2>3 DEF Models
<1>5. ASSUME Fits(kv["target"], 1) PROVE target.position = kv["target"].position + 1
  <2>1. Sound(copied, CacheSize["target"]) /\ copied.position = kv["target"].position
    BY <1>1, CopySound
  <2>2. Fits(copied, 1)
    BY <1>1, <1>5, <2>1 DEF Fits, Sound
  <2> HIDE DEF copied
  <2> QED
    BY <1>1, <2>1, <2>2, AdvanceTokensSound
<1>6. ASSUME Fits(kv["draft"], 1) PROVE DraftAccept(node).position = kv["draft"].position + 1
  <2> DEFINE moved == Move(kv["draft"], node.position, node.cacheIndex)
  <2>1. Sound(moved, CacheSize["draft"]) /\ moved.position = kv["draft"].position
    BY <1>1, MoveSound
  <2>2. Fits(moved, 1)
    BY <1>1, <1>6, <2>1 DEF Fits, Sound
  <2> HIDE DEF moved
  <2>3. AdvanceTokens(moved, 1).position = kv["draft"].position + 1
    BY <1>1, <2>1, <2>2, AdvanceTokensSound
  <2>4. ForwardOne(kv["draft"], node.token, node.position).position = kv["draft"].position + 1
    BY <1>1, <1>6, ForwardOneSound
  <2> QED
    BY <2>3, <2>4 DEF DraftAccept, moved
<1> HIDE DEF target, copied
<1>7. CASE /\ \A m \in Models : Fits(kv[m], 1)
           /\ kv' = [target |-> target, draft |-> DraftAccept(node)]
           /\ queue' = Append(queue, t)
           /\ IF next = {} THEN pc' = "deliver" /\ current' = 0
              ELSE current' \in next /\ UNCHANGED pc
           /\ UNCHANGED treeVars
  <2>1. /\ kv'["target"].position = kv["target"].position + 1
        /\ kv'["draft"].position = kv["target"].position + 1
    <3> DEFINE draft == DraftAccept(node)
    <3>1. /\ target.position = kv["target"].position + 1
          /\ draft.position = kv["draft"].position + 1
      BY <1>5, <1>6, <1>7 DEF Models
    <3>2. kv' = [target |-> target, draft |-> draft]
      BY <1>7
    <3> HIDE DEF draft
    <3> QED
      BY <1>3, <3>1, <3>2
  <2>2. ASSUME NEW v \in next
        PROVE  v \in 0..nNodes-1 /\ nodes[v].position = kv["target"].position + 1
    <3>1. v \in 0..nNodes-1 /\ nodes[v].parent = current
      BY DEF Children
    <3>2. BelowParent(v)
      BY <1>2, <3>1 DEF AllInv, AbortInv, RoundInv, Parented
    <3>3. current # NoParent
      BY <1>3 DEF NoParent
    <3> QED
      BY <1>3, <3>1, <3>2, <3>3 DEF BelowParent
  <2>3. current' \in NodeIds
    BY <1>3, <1>7, <2>2, ConstantTypes DEF NodeIds
  <2>4. TreeTypes' /\ Parented' /\ DraftedAhead'
    BY <1>2, <1>7, <2>3, TreeUnchanged
  <2>5. queue' # <<>>
    <3>1. queue \in Seq(Token)
      BY DEF AllInv, OrderInv, TextTypes, Content
    <3>2. queue' \in Seq(Token) /\ Len(queue') = Len(queue) + 1 /\ Len(queue) \in Nat
      BY <1>7, <3>1, AppendProperties
    <3> QED
      BY <3>2, EmptySeq
  <2>6. pc' = "verify" => current' < nNodes /\ nodes[current'].position = kv["target"].position + 1
    BY <1>3, <1>7, <2>2
  <2>7. pc' \in {"verify", "deliver"}
    BY <1>2, <1>7
  <2>8. RoundInv'
    BY <1>7, <2>1, <2>4, <2>5, <2>6, <2>7 DEF RoundInv, treeVars
  <2>9. Positions'
    BY <1>1, <1>2, <2>1, <2>7, ConstantTypes
       DEF AllInv, AbortInv, Positions, Committed, Generating
  <2> QED
    BY <2>4, <2>7, <2>8, <2>9 DEF AbortInv, NoAssertionFails
<1>8. CASE /\ Throw /\ UNCHANGED current
           /\ kv' = IF Fits(kv["target"], 1) THEN [kv EXCEPT !["target"] = target] ELSE kv
  <2>1. kv'["draft"] = kv["draft"] /\ kv'["target"].position >= kv["target"].position
    <3>1. CASE Fits(kv["target"], 1)
      <4>1. kv' = [kv EXCEPT !["target"] = target]
        BY <1>8, <3>1
      <4>2. kv'["draft"] = kv["draft"] /\ kv'["target"] = target
        BY <4>1, OtherCacheStays DEF AllInv, Models
      <4> QED
        BY <1>1, <1>5, <3>1, <4>2
    <3>2. CASE ~Fits(kv["target"], 1)
      BY <1>1, <1>8, <3>2
    <3> QED
      BY <3>1, <3>2
  <2>2. kv'["target"].position \in Nat
    BY NextNaturalPositions DEF PositionsNatural, Models
  <2>3. kv["target"].position >= Len(SystemPrompt)
    BY DEF AllInv, AbortInv, Positions
  <2> QED
    BY <1>1, <1>3, <1>8, <2>1, <2>2, <2>3, Leaving, ConstantTypes
<1> QED
  BY <1>4, <1>7, <1>8 DEF VerifyNode, Throw, verifyVars, target, copied

\* verify() has enqueued at least one token.
LEMMA DeliverAbort ==
  ASSUME AllInv, Deliver PROVE AbortInv'
<1>1. /\ pc = "deliver" /\ pc' = "serve" /\ UNCHANGED <<kv, treeVars, current>>
  BY DEF Deliver, verifyVars, AllInv, AbortInv, RoundInv
<1>2. Positions'
  BY <1>1 DEF AllInv, AbortInv, Positions, Committed, Generating
<1> QED
  BY <1>1, <1>2, NoTree

\* Every step preserves the invariant.
LEMMA StepAbort == AllInv /\ [Next]_vars => AllInv'
<1> SUFFICES ASSUME AllInv, [Next]_vars PROVE AbortInv'
  BY StepInvariant, StepOrder DEF AllInv
<1>1. IInv'
  BY StepInvariant DEF AllInv
<1>2. CASE Construct
  BY <1>1, <1>2, StartAbort DEF Construct
<1>3. CASE Prefill
  BY <1>1, <1>3, PrefillAbort DEF Prefill
<1>4. CASE PrefillDone \/ Serve
  BY <1>4, PrefillDoneAbort, ServeAbort, BeginRoundAbort DEF Serve
<1>5. CASE Draft
  <2>1. ASSUME Expand PROVE AbortInv'
    <3>1. PICK c \in Heap, top \in Proposals(TopK) :
            \E wide \in SUBSET top \ {{}} : DraftExpand(c, top, wide)
      BY <2>1 DEF Expand
    <3>2. PICK wide \in SUBSET top : DraftExpand(c, top, wide)
      BY <3>1
    <3>3. top \in SUBSET Token
      BY DEF Proposals
    <3> QED
      BY <1>1, <3>2, <3>3, DraftExpandAbort
  <2> QED
    BY <1>1, <1>5, <2>1, DraftLeafAbort, DraftDoneAbort DEF Draft
<1>6. CASE TargetForward
  BY <1>1, <1>6, TargetForwardAbort
<1>7. CASE Verify
  BY <1>1, <1>7, VerifyAbort DEF Verify
<1>8. CASE Deliver
  BY <1>8, DeliverAbort
<1>9. CASE UNCHANGED vars
  BY <1>9 DEF AllInv, AbortInv, NoAssertionFails, TreeTypes, NodeTypes, RoundInv, Positions,
              Parented, BelowParent, DraftedAhead, Expanded, HeapsParented, Committed,
              Generating, vars, iterVars, treeVars, verifyVars
<1> QED
  BY <1>2, <1>3, <1>4, <1>5, <1>6, <1>7, <1>8, <1>9 DEF Next, Generate

\* No assertion of SpecTokenIterator, draft(), verify() or switch_parent() can
\* fail, whatever exceptions ended the generations before.
THEOREM NeverAborts == Spec => []NoAssertionFails
<1>1. AllInv => NoAssertionFails
  BY DEF AllInv, AbortInv
<1>2. Init => AllInv
  BY InitInvariant, InitOrder, InitAbort DEF AllInv
<1> QED
  BY <1>1, <1>2, StepAbort, PTL DEF Spec

----------------------------------------------------------------------------
(***************************************************************************)
(* Speculative decoding generates what plain decoding would.               *)
(*                                                                         *)
(* The invariant TextInv says where the entries of the text are in both    *)
(* caches, what the tree and the batch of the target hold in each phase of *)
(* a round, and what attention shows the draft model.                      *)
(***************************************************************************)


----------------------------------------------------------------------------
(* The text *)

TextOf(p, e) == SystemPrompt \o p \o e

\* Where the parts of the text are
LEMMA TextProperties ==
  ASSUME NEW p \in Content, NEW e \in Content
  PROVE  /\ TextOf(p, e) \in Content
         /\ Len(TextOf(p, e)) = Len(SystemPrompt) + Len(p) + Len(e)
         /\ Len(p) \in Nat /\ Len(e) \in Nat
         /\ \A i \in 0..Len(SystemPrompt) : Take(TextOf(p, e), i) = Take(SystemPrompt, i)
         /\ \A i \in 1..Len(p) : TextOf(p, e)[Len(SystemPrompt) + i] = p[i]
         /\ \A i \in 1..Len(e) : TextOf(p, e)[Len(SystemPrompt) + Len(p) + i] = e[i]
<1>1. SystemPrompt \in Content
  BY SpecAssumption
<1> QED
  BY <1>1, JoinedProperties DEF Joined, TextOf

LEMMA TextNow == Text = TextOf(prompt, emitted) /\ Text' = TextOf(prompt', emitted')
  BY DEF Text, TextOf

\* Sampling a token makes the text one longer.
LEMMA TextGrows ==
  ASSUME NEW p \in Content, NEW e \in Content, NEW t \in Token
  PROVE  TextOf(p, Append(e, t)) = Append(TextOf(p, e), t)
<1>1. SystemPrompt \in Content
  BY SpecAssumption
<1> QED
  BY <1>1, JoinedGrows DEF Joined, TextOf

\* The token that waits for the next round is the last one of the text.
LEMMA RootIsLast ==
  ASSUME NEW p \in Content, p # <<>>, NEW e \in Content, NEW d \in Content, NEW t \in Token,
         d \o <<t>> \o <<>> = <<p[Len(p)]>> \o e
  PROVE  TextOf(p, e)[Len(TextOf(p, e))] = t
<1>1. SystemPrompt \in Content
  BY SpecAssumption
<1> QED
  BY <1>1, JoinedLast DEF Joined, TextOf


----------------------------------------------------------------------------
(* The text in the caches *)

LastToken == Text[Len(Text)]
Drafted(u) == kv["draft"].entry[nodes[u].cacheIndex]
Indices(U) == {nodes[u].cacheIndex : u \in U}
Shown == IF lastParent = NoParent THEN {} ELSE Branch(lastParent)

\* Of each cache, the entries up to here are those of the text so far. A
\* generation that is over only leaves the system prompt to rely on.
Held(m) == IF pc \in {"ready", "aborted"} THEN Len(SystemPrompt) ELSE Committed(m)

EntryTypes ==
  /\ \A m \in Models : kv[m].entry \in Entry(CacheSize[m])
  /\ batch \in [NodeIds -> Content] /\ sampledFrom \in Content

\* Both caches follow the text.
TextHeld ==
  /\ \A m \in Models : \A i \in 0..Held(m)-1 :
       i \in kv[m].open /\ kv[m].entry[i] = Take(Text, i+1)
  /\ Generating => kv["target"].position = Len(Text) - 1
  /\ pc = "serve" => queue = <<>>

\* The tree hangs under the last token of the text, its entries lie in the order
\* of its nodes behind those of the text, and each is that of its parent's text
\* and its own token.
Rooted ==
  IF nNodes = 0 THEN \A c \in mainHeap : c.token = LastToken ELSE nodes[0].token = LastToken
Ordered == \A u, v \in Expanded : u < v => nodes[u].cacheIndex < nodes[v].cacheIndex
BehindText == \A u \in Expanded : nodes[u].cacheIndex >= kv["target"].position
OwnBranch ==
  \A u \in Expanded :
    Drafted(u) = IF u = 0 THEN Text ELSE Append(Drafted(nodes[u].parent), nodes[u].token)
UnusedBlank == \A u \in NodeIds : u >= nNodes => nodes[u].parent = NoParent

\* Attention sees the text without its last token, and the branch in hand.
BranchShown ==
  /\ kv["draft"].open = (0..kv["target"].position-1) \cup Indices(Shown)
  /\ Expanded # {} => lastParent # NoParent

\* What is left of the tree still continues the text.
Walked ==
  /\ batch[current] = Text /\ nodes[current].token = LastToken
  /\ \A u \in 1..nNodes-1 : batch[u] = Append(batch[nodes[u].parent], nodes[u].token)
  /\ \A u \in Expanded : u >= current => Drafted(u) = batch[u]

TreeText ==
  /\ pc \in {"draft", "target"} => Rooted /\ BehindText /\ OwnBranch /\ UnusedBlank
  /\ pc \in {"draft", "target", "verify"} => Ordered
  /\ pc = "draft" => BranchShown
  /\ pc = "verify" => Walked

TextInv == EntryTypes /\ TextHeld /\ TreeText

\* What the other invariants say of the tree
LEMMA TreeFacts ==
  ASSUME AllInv, pc \in {"draft", "target", "verify"}
  PROVE  /\ nodes \in [NodeIds -> Node] /\ nNodes \in 0..DraftBatch /\ DraftBatch \in Nat
         /\ Expanded \in SUBSET NodeIds /\ NodeIds \subseteq Nat
         /\ \A u \in Expanded : u \in 0..nNodes-1 /\ u # NoParent /\ u \in Nat
         /\ \A u \in 0..nNodes-1 :
              /\ u = 0 <=> nodes[u].parent = NoParent
              /\ u # 0 => /\ nodes[u].parent \in Expanded /\ nodes[u].parent < u
                          /\ nodes[u].position = nodes[nodes[u].parent].position + 1
         /\ \A u \in NodeIds : nodes[u].position \in Nat /\ nodes[u].token \in Token
                               /\ nodes[u].cacheIndex \in Int
         /\ \A u \in Expanded : nodes[u].cacheIndex \in Nat
         /\ UpClosed(nodes, Expanded)
<1>1. /\ nodes \in [NodeIds -> Node] /\ nNodes \in 0..DraftBatch /\ DraftBatch \in Nat
      /\ NodeIds \subseteq Nat /\ 0..nNodes-1 \subseteq NodeIds /\ Parented
  BY ConstantTypes DEF AllInv, AbortInv, TreeTypes, NodeTypes, NodeIds, RoundInv
<1>2. /\ Expanded \in SUBSET NodeIds
      /\ \A u \in Expanded : u \in 0..nNodes-1 /\ u # NoParent /\ u \in Nat
  BY <1>1 DEF Expanded, NoParent
<1>3. \A u \in 0..nNodes-1 :
        /\ u = 0 <=> nodes[u].parent = NoParent
        /\ u # 0 => /\ nodes[u].parent \in Expanded /\ nodes[u].parent < u
                    /\ nodes[u].position = nodes[nodes[u].parent].position + 1
  BY <1>1, <1>2 DEF Parented, BelowParent
<1>4. \A u \in NodeIds : nodes[u].position \in Nat /\ nodes[u].token \in Token
                         /\ nodes[u].cacheIndex \in Int
  BY <1>1 DEF Node, NotInCache
<1>5. \A u \in Expanded : nodes[u].cacheIndex \in Nat
  BY <1>1, <1>2 DEF Node, Expanded
<1>6. UpClosed(nodes, Expanded)
  BY <1>2, <1>3 DEF UpClosed
<1> QED
  BY <1>1, <1>2, <1>3, <1>4, <1>5, <1>6

\* A branch is a node and the branch of its parent.
LEMMA BranchEquation ==
  ASSUME AllInv, pc \in {"draft", "target", "verify"}, NEW u \in NodeIds
  PROVE  Branch(u) = {u} \cup IF nodes[u].parent = NoParent THEN {} ELSE Branch(nodes[u].parent)
<1> DEFINE f == Branches(nodes)
<1>1. IsBranches(nodes, f)
  BY TreeFacts, BranchesExist
<1>2. \A v : Branch(v) = f[v]
  BY BranchIs
<1> HIDE DEF f
<1> QED
  BY <1>1, <1>2 DEF IsBranches, AndUp

\* A branch consists of evaluated nodes that come one after the other.
LEMMA BranchUpTo ==
  ASSUME AllInv, pc \in {"draft", "target", "verify"}, NEW u \in Expanded
  PROVE  Branch(u) \subseteq Expanded /\ \A v \in Branch(u) : v <= u
<1> DEFINE S == {v \in Expanded : v <= u}
<1>1. S \in SUBSET NodeIds /\ u \in S
  BY TreeFacts
<1>2. \A v \in S : nodes[v].parent # NoParent =>
        nodes[v].parent \in Expanded /\ nodes[v].parent < v /\ nodes[v].parent <= u
  BY TreeFacts
<1>3. UpClosed(nodes, S)
  BY <1>2 DEF UpClosed
<1> HIDE DEF S
<1>4. Branches(nodes)[u] \subseteq S
  <2>1. nodes \in [NodeIds -> Node]
    BY TreeFacts
  <2>2. \A v \in S : nodes[v].parent # NoParent => nodes[v].parent < v
    BY <1>2
  <2> QED
    BY <1>1, <1>3, <2>1, <2>2, BranchesWithin
<1> QED
  BY <1>4, BranchIs DEF S

LEMMA TextType ==
  ASSUME AllInv
  PROVE  /\ Text \in Content /\ Len(Text) \in Nat /\ prompt \in Content /\ emitted \in Content
         /\ Len(SystemPrompt) <= Len(Text) /\ Len(SystemPrompt) \in Nat
<1>1. prompt \in Content /\ emitted \in Content
  BY DEF AllInv, OrderInv, TextTypes
<1> QED
  BY <1>1, TextNow, TextProperties, ConstantTypes

\* While there is a tree
LEMMA TextFacts ==
  ASSUME AllInv, TextInv, pc \in {"draft", "target", "verify"}
  PROVE  /\ kv["target"].position \in Nat /\ Len(Text) = kv["target"].position + 1
         /\ LastToken \in Token
         /\ Take(Text, kv["target"].position) \in Content
         /\ Text = Append(Take(Text, kv["target"].position), LastToken)
<1> DEFINE C == kv["target"].position
<1>1. C \in Nat /\ Text \in Seq(Token) /\ Len(Text) \in Nat
  BY NaturalPositions, TextType DEF AllInv, PositionsNatural, Models, Content
<1>2. Len(Text) = C + 1
  BY <1>1 DEF TextInv, TextHeld, Generating
<1> HIDE DEF C
<1>3. LastToken \in Token
  BY <1>1, <1>2, ElementOfSeq DEF LastToken
<1>4. Take(Text, C) \in Content
  <2>1. C \in 0..Len(Text)
    BY <1>1, <1>2
  <2> QED
    BY <1>1, <2>1, TakeProperties DEF Content
<1>5. Text = Append(Take(Text, C), LastToken)
  <2>1. C \in 0..Len(Text)-1
    BY <1>1, <1>2
  <2>2. Take(Text, C+1) = Append(Take(Text, C), Text[C+1])
    BY <1>1, <2>1, TakeOneMore
  <2>3. Take(Text, C+1) = Text
    BY <1>1, <1>2, TakeAll
  <2> QED
    BY <1>2, <2>2, <2>3 DEF LastToken
<1> QED
  BY <1>1, <1>2, <1>3, <1>4, <1>5 DEF C

\* The text of a node is that without the root's token and of its branch.
BranchHolds(u) ==
  /\ IsFiniteSet(Branch(u))
  /\ Cardinality(Branch(u)) = nodes[u].position + 1 - kv["target"].position
  /\ Prefixes(Take(Text, kv["target"].position)) \cup {Drafted(v) : v \in Branch(u)}
       = Prefixes(Drafted(u))
  /\ Drafted(u) \in Content /\ Len(Drafted(u)) = nodes[u].position + 1

\* By the order of the nodes: a parent comes before its children.
LEMMA BranchContents ==
  ASSUME AllInv, TextInv, pc \in {"draft", "target"} PROVE \A u \in Expanded : BranchHolds(u)
<1> DEFINE C == kv["target"].position
           front == Prefixes(Take(Text, C))
<1>1. ASSUME NEW u \in Expanded, \A v \in Expanded : v < u => BranchHolds(v)
      PROVE  BranchHolds(u)
  <2> DEFINE p == nodes[u].parent
  <2>1. u \in 0..nNodes-1 /\ u \in NodeIds /\ u \in Nat
    BY TreeFacts
  <2>2. Branch(u) = {u} \cup IF p = NoParent THEN {} ELSE Branch(p)
    BY <2>1, BranchEquation
  <2>3. C \in Nat /\ Len(Text) = C + 1 /\ Text \in Content
    BY TextFacts, TextType
  <2>4. CASE u = 0
    <3>1. p = NoParent
      BY <2>1, <2>4, TreeFacts
    <3>2. Branch(u) = {u}
      BY <2>2, <3>1
    <3>3. Drafted(u) = Text
      BY <2>4 DEF TextInv, TreeText, OwnBranch
    <3>4. Prefixes(Text) = front \cup {Text}
      <4>1. \A b \in Seq(Token), l \in Token :
              Prefixes(Append(b, l)) = Prefixes(b) \cup {Append(b, l)}
        BY PrefixesOfAppend
      <4>2. /\ Take(Text, C) \in Seq(Token) /\ LastToken \in Token
            /\ Text = Append(Take(Text, C), LastToken)
        BY TextFacts DEF Content
      <4> DEFINE base == Take(Text, C)
      <4>3. Prefixes(Append(base, LastToken)) = Prefixes(base) \cup {Append(base, LastToken)}
        BY <4>1, <4>2
      <4> QED
        BY <4>2, <4>3
    <3>5. nodes[u].position = C
      <4>1. nNodes # 0
        BY <2>1, TreeFacts
      <4> QED
        BY <2>4, <4>1 DEF AllInv, AbortInv, RoundInv
    <3>6. IsFiniteSet({u}) /\ Cardinality({u}) = 1
      BY FS_Singleton
    <3>7. Cardinality(Branch(u)) = nodes[u].position + 1 - C
      BY <2>3, <3>2, <3>5, <3>6
    <3>8. front \cup {Drafted(v) : v \in Branch(u)} = Prefixes(Drafted(u))
      BY <3>2, <3>3, <3>4
    <3> QED
      BY <2>3, <3>2, <3>3, <3>5, <3>6, <3>7, <3>8 DEF BranchHolds
  <2>5. CASE u # 0
    <3>1. p # NoParent /\ p \in Expanded /\ p < u /\ nodes[u].position = nodes[p].position + 1
      BY <2>1, <2>5, TreeFacts
    <3>2. BranchHolds(p) /\ p \in NodeIds /\ nodes[p].position \in Nat /\ p \in Nat
      BY <1>1, <3>1, TreeFacts
    <3>3. Branch(u) = Branch(p) \cup {u} /\ u \notin Branch(p)
      <4>1. \A v \in Branch(p) : v <= p
        BY <3>1, BranchUpTo
      <4> QED
        BY <2>1, <2>2, <3>1, <3>2, <4>1
    <3>4. Drafted(u) = Append(Drafted(p), nodes[u].token) /\ nodes[u].token \in Token
      BY <2>1, <2>5, TreeFacts DEF TextInv, TreeText, OwnBranch
    <3>5. IsFiniteSet(Branch(u)) /\ Cardinality(Branch(u)) = Cardinality(Branch(p)) + 1
      BY <3>2, <3>3, FS_AddElement DEF BranchHolds
    <3>6. Cardinality(Branch(u)) = nodes[u].position + 1 - C
      <4>1. Cardinality(Branch(p)) = nodes[p].position + 1 - C
        BY <3>2 DEF BranchHolds
      <4>2. C \in Nat /\ nodes[p].position \in Nat /\ nodes[u].position = nodes[p].position + 1
        BY <2>3, <3>1, <3>2
      <4>3. Cardinality(Branch(u)) = Cardinality(Branch(p)) + 1
        BY <3>5
      <4> HIDE DEF C, p
      <4> QED
        BY <4>1, <4>2, <4>3
    <3>7. front \cup {Drafted(v) : v \in Branch(u)} = Prefixes(Drafted(u))
      <4>1. Prefixes(Drafted(u)) = Prefixes(Drafted(p)) \cup {Drafted(u)}
        BY <3>2, <3>4, PrefixesOfAppend DEF BranchHolds, Content
      <4>2. {Drafted(v) : v \in Branch(u)} = {Drafted(v) : v \in Branch(p)} \cup {Drafted(u)}
        BY <3>3
      <4>3. front \cup {Drafted(v) : v \in Branch(p)} = Prefixes(Drafted(p))
        BY <3>2 DEF BranchHolds
      <4> HIDE DEF front
      <4> QED
        BY <4>1, <4>2, <4>3
    <3>8. Drafted(u) \in Content /\ Len(Drafted(u)) = nodes[u].position + 1
      <4>1. Drafted(p) \in Seq(Token) /\ Len(Drafted(p)) = nodes[p].position + 1
        BY <3>2 DEF BranchHolds, Content
      <4> QED
        BY <3>1, <3>2, <3>4, <4>1, AppendProperties DEF Content
    <3> QED
      BY <3>5, <3>6, <3>7, <3>8 DEF BranchHolds
  <2> QED
    BY <2>4, <2>5
<1> DEFINE bad == {u \in Expanded : ~BranchHolds(u)}
<1>2. ASSUME bad # {} PROVE FALSE
  <2>1. bad \subseteq Nat
    BY TreeFacts
  <2>2. PICK u \in bad : \A v \in bad : u <= v
    BY <1>2, <2>1, LeastElement
  <2>3. \A v \in Expanded : v < u => BranchHolds(v)
    BY <2>1, <2>2, TreeFacts
  <2> QED
    BY <1>1, <2>2, <2>3
<1> QED
  BY <1>2

\* A cache that shows the text without its last token and the branch of a node
\* shows the node's text.
LEMMA ShowsBranch ==
  ASSUME AllInv, TextInv, pc = "draft", NEW u \in Expanded, NEW c,
         c.open = (0..kv["target"].position-1) \cup Indices(Branch(u)),
         c.entry = kv["draft"].entry
  PROVE  Shows(c, Drafted(u))
<1> DEFINE C == kv["target"].position
           B == Branch(u)
           low == 0..C-1
           place == [v \in B |-> nodes[v].cacheIndex]
<1>1. C \in Nat /\ Len(Text) = C + 1 /\ Text \in Content
  BY TextFacts, TextType
<1>2. /\ B \subseteq Expanded /\ BranchHolds(u)
      /\ \A v \in Expanded : nodes[v].cacheIndex \in Nat /\ v \in Nat
  BY BranchUpTo, BranchContents, TreeFacts
<1>3. \A v \in B : nodes[v].cacheIndex >= C
  BY <1>2 DEF TextInv, TreeText, BehindText
<1>4. \A v, w \in B : nodes[v].cacheIndex = nodes[w].cacheIndex => v = w
  <2>1. Ordered
    BY DEF TextInv, TreeText
  <2>2. \A v, w \in Expanded : v < w => nodes[v].cacheIndex < nodes[w].cacheIndex
    BY <2>1 DEF Ordered
  <2> QED
    BY <1>2, <2>2
<1>5. IsFiniteSet(Indices(B)) /\ Cardinality(Indices(B)) = Cardinality(B)
  <2>1. place \in Bijection(B, Indices(B))
    BY <1>4 DEF Bijection, Injection, Surjection, IsInjective, Indices
  <2>2. ExistsBijection(B, Indices(B)) /\ IsFiniteSet(B)
    BY <1>2, <2>1 DEF ExistsBijection, BranchHolds
  <2> QED
    BY <2>2, FS_Bijection
<1>6. low \cap Indices(B) = {}
  BY <1>1, <1>2, <1>3 DEF Indices
<1>7. Cardinality(c.open) = nodes[u].position + 1
  <2>1. IsFiniteSet(low) /\ Cardinality(low) = C
    <3>1. \A k \in Nat : IsFiniteSet(0..k-1) /\ Cardinality(0..k-1) = k
      BY FS_Interval
    <3> QED
      BY <1>1, <3>1
  <2>2. Cardinality(low \cup Indices(B))
          = Cardinality(low) + Cardinality(Indices(B)) - Cardinality(low \cap Indices(B))
    BY <1>5, <2>1, FS_Union
  <2>3. Cardinality(low \cap Indices(B)) = 0
    BY <1>6, FS_EmptySet
  <2>4. Cardinality(B) = nodes[u].position + 1 - C
    BY <1>2 DEF BranchHolds
  <2>5. nodes[u].position \in Nat
    BY TreeFacts
  <2> QED
    BY <1>1, <1>5, <2>1, <2>2, <2>3, <2>4, <2>5
<1>8. {c.entry[i] : i \in low} = Prefixes(Take(Text, C))
  <2>1. \A i \in low : c.entry[i] = Take(Text, i+1)
    <3>1. kv["draft"].entry = c.entry /\ Held("draft") = C
      BY DEF Held, AllInv, AbortInv, Positions, Generating
    <3> QED
      BY <3>1 DEF TextInv, TextHeld, Models
  <2>2. Shows([open |-> low, entry |-> c.entry], Take(Text, C))
    <3> DEFINE d == [open |-> low, entry |-> c.entry]
    <3>1. d.open = 0..C-1 /\ \A i \in 0..C-1 : d.entry[i] = Take(Text, i+1)
      BY <2>1
    <3>2. C \in 0..Len(Text)
      BY <1>1
    <3> HIDE DEF d
    <3> QED
      BY <1>1, <3>1, <3>2, ShowsText DEF d
  <2> QED
    BY <2>2 DEF Shows
<1>9. {c.entry[i] : i \in Indices(B)} = {Drafted(v) : v \in B}
  BY DEF Indices, Drafted
<1>10. {c.entry[i] : i \in c.open} = Prefixes(Drafted(u))
  <2>1. {c.entry[i] : i \in c.open} = {c.entry[i] : i \in low} \cup {c.entry[i] : i \in Indices(B)}
    OBVIOUS
  <2> QED
    BY <1>2, <1>8, <1>9, <2>1 DEF BranchHolds
<1> QED
  BY <1>2, <1>7, <1>10 DEF Shows, BranchHolds

----------------------------------------------------------------------------
(* Between the rounds *)

Caches == \A m \in Models : /\ Sound(kv[m], CacheSize[m]) /\ CacheSize[m] \in Nat
                            /\ kv[m].position \in Nat /\ kv[m].open \subseteq 0..kv[m].position-1

\* What the invariant says of the caches, before and after a step
LEMMA CacheFacts == AllInv => Caches
  BY ConstantTypes, NaturalPositions
     DEF AllInv, IInv, CacheInv, SoundCaches, Caches, Sound, PositionsNatural

LEMMA NextCacheFacts == AllInv' => Caches'
  BY ConstantTypes, NextNaturalPositions
     DEF AllInv, IInv, CacheInv, SoundCaches, Caches, Sound, PositionsNatural

\* The system prompt is always held.
LEMMA HeldFacts ==
  ASSUME AllInv PROVE \A m \in Models : Held(m) \in Nat /\ Len(SystemPrompt) \in 0..Held(m)
<1>1. /\ kv["target"].position >= Len(SystemPrompt) /\ Committed("draft") >= Len(SystemPrompt)
      /\ kv["target"].position \in Nat /\ Len(SystemPrompt) \in Nat
  BY CacheFacts, ConstantTypes DEF AllInv, AbortInv, Positions, Caches, Models
<1>2. Committed("draft") \in Nat
  <2>1. kv["draft"].position \in Nat /\ (pc = "draft" => nSaved \in 0..kv["draft"].position)
    BY CacheFacts DEF Caches, Models, AllInv, IInv, CacheInv, DraftCanRollBack
  <2> QED
    BY <2>1 DEF Committed
<1>3. Committed("target") = kv["target"].position
  BY <1>1 DEF Committed
<1> QED
  BY <1>1, <1>2, <1>3 DEF Held, Models

\* At first the caches hold the system prompt and nothing else.
LEMMA InitText == Init => TextInv
<1> SUFFICES ASSUME Init PROVE TextInv
  OBVIOUS
<1> DEFINE n == Len(SystemPrompt)
           entry(m) == [i \in 0..CacheSize[m]-1 |->
                          IF i < n THEN SubSeq(SystemPrompt, 1, i+1) ELSE Garbage]
<1>1. \A m \in Models : kv[m].open = 0..n-1 /\ kv[m].entry = entry(m)
  BY DEF Init
<1>2. Garbage \in Content
  BY EmptySeq DEF Garbage, Content
<1>3. \A i \in 0..n-1 : SubSeq(SystemPrompt, 1, i+1) \in Content
  <2>1. \A i \in 0..n-1 : i+1 \in 0..n
    BY ConstantTypes
  <2>2. SystemPrompt \in Seq(Token)
    BY SpecAssumption DEF Content
  <2> QED
    BY <2>1, <2>2, TakeProperties DEF Take, Content
<1>4. EntryTypes
  <2>1. \A m \in Models : kv[m].entry \in Entry(CacheSize[m])
    <3>1. ASSUME NEW m \in Models PROVE entry(m) \in Entry(CacheSize[m])
      <4>1. \A i \in 0..CacheSize[m]-1 :
              (IF i < n THEN SubSeq(SystemPrompt, 1, i+1) ELSE Garbage) \in Content
        <5>1. \A i \in 0..CacheSize[m]-1 : i < n => i \in 0..n-1
          BY ConstantTypes
        <5> QED
          BY <1>2, <1>3, <5>1
      <4> QED
        BY <4>1 DEF Entry
    <3> QED
      BY <1>1, <3>1
  <2>2. batch \in [NodeIds -> Content] /\ sampledFrom \in Content
    BY <1>2 DEF Init, NoBatch, Garbage
  <2> QED
    BY <2>1, <2>2 DEF EntryTypes
<1>5. TextHeld
  <2>1. ASSUME NEW m \in Models, NEW i \in 0..Held(m)-1
        PROVE  i \in kv[m].open /\ kv[m].entry[i] = Take(Text, i+1)
    <3>1. Held(m) = n /\ n \in Nat /\ n <= CacheSize[m] /\ CacheSize[m] \in Nat
      BY ConstantTypes DEF Init, Held
    <3>2. i \in 0..n-1 /\ i \in 0..CacheSize[m]-1 /\ i+1 \in 0..n /\ i < n
      BY <3>1
    <3>3. Take(Text, i+1) = Take(SystemPrompt, i+1)
      <4>1. <<>> \in Content /\ prompt = <<>> /\ emitted = <<>>
        BY EmptySeq DEF Init, Content
      <4> QED
        BY <3>2, <4>1, TextNow, TextProperties
    <3> QED
      BY <1>1, <3>2, <3>3 DEF Take
  <2> QED
    BY <2>1 DEF TextHeld, Init, Generating
<1> QED
  BY <1>4, <1>5 DEF Init, TextInv, TreeText

\* Away from the tree, all that counts is what the caches hold.
LEMMA NoTreeText ==
  ASSUME EntryTypes', TextHeld', pc' \in {"ready", "prefill", "serve", "deliver"} PROVE TextInv'
  BY DEF TextInv, TreeText

\* An exception leaves the system prompt where it is.
LEMMA LeavingText ==
  ASSUME AllInv, TextInv, Throw, UNCHANGED verifyVars,
         \A m \in Models :
           /\ kv'[m].entry \in Entry(CacheSize[m])
           /\ \A i \in 0..Len(SystemPrompt)-1 :
                kv'[m].entry[i] = kv[m].entry[i] /\ (i \in kv[m].open => i \in kv'[m].open)
  PROVE  TextInv'
<1>1. Text' = Text /\ pc' = "ready" /\ batch' = batch /\ sampledFrom' = sampledFrom
  BY DEF Throw, Text, iterVars, histVars, verifyVars
<1>2. \A m \in Models : \A i \in 0..Len(SystemPrompt)-1 :
        i \in kv[m].open /\ kv[m].entry[i] = Take(Text, i+1)
  BY HeldFacts, ConstantTypes DEF TextInv, TextHeld
<1>3. EntryTypes'
  BY <1>1 DEF TextInv, EntryTypes
<1>4. TextHeld'
  BY <1>1, <1>2 DEF TextHeld, Held, Generating
<1> QED
  BY <1>1, <1>3, <1>4, NoTreeText

\* A new generation keeps the system prompt and drops what follows it.
LEMMA StartText ==
  ASSUME AllInv, AllInv', TextInv, NEW p \in Prompts, NEW n, Start(p, n) PROVE TextInv'
<1> DEFINE cut(m) == TruncateTokens(kv[m], Len(SystemPrompt))
           S0 == Len(SystemPrompt)
<1>1. /\ kv' = [m \in Models |-> cut(m)] /\ prompt' = p /\ emitted' = <<>> /\ pc' = "prefill"
      /\ sampledFrom' = <<>> /\ batch' = batch /\ p \in Content /\ <<>> \in Content
  <2>1. pc' # "aborted"
    BY DEF AllInv, AbortInv, NoAssertionFails
  <2>2. p \in Content /\ <<>> \in Content
    BY SpecAssumption, EmptySeq DEF Content
  <2> QED
    BY <2>1, <2>2 DEF Start, Abort, verifyVars
<1>2. \A m \in Models : kv'[m] = cut(m)
  BY <1>1
<1>3. ASSUME NEW m \in Models
      PROVE  /\ kv'[m].entry = kv[m].entry
             /\ \A i \in 0..S0-1 : i \in kv[m].open => i \in kv'[m].open
  <2>1. /\ Sound(kv[m], CacheSize[m]) /\ CacheSize[m] \in Nat /\ S0 \in Nat
        /\ kv[m].position \in Nat
    BY CacheFacts, ConstantTypes DEF Caches
  <2>2. CASE S0 < kv[m].position
    <3> DEFINE k == kv[m].position - S0
    <3>1. k \in 0..kv[m].position /\ kv[m].position - k = S0
      BY <2>1, <2>2
    <3>2. cut(m) = RollbackTokens(kv[m], k)
      BY <2>2 DEF TruncateTokens
    <3> HIDE DEF k, cut
    <3>3. cut(m).entry = kv[m].entry
          /\ cut(m).open = kv[m].open \ (kv[m].position - k .. kv[m].position - 1)
      BY <2>1, <3>1, <3>2, RollbackTokensEntries
    <3> QED
      BY <1>2, <2>1, <3>1, <3>3
  <2>3. CASE ~(S0 < kv[m].position)
    BY <1>2, <2>3 DEF TruncateTokens
  <2> QED
    BY <2>2, <2>3
<1> HIDE DEF cut
<1>4. \A m \in Models : Held(m)' = S0
  <2>1. \A m \in Models : kv'[m].position = S0 + prefilled'[m] /\ prefilled'[m] = 0
    BY <1>1 DEF Start, Abort, AllInv, AbortInv, Positions, NoAssertionFails
  <2>2. \A m \in Models : Held(m)' = kv'[m].position - 0
    BY <1>1 DEF Held, Committed
  <2> QED
    BY <2>1, <2>2, ConstantTypes
<1>5. \A i \in 0..S0-1 : Take(Text', i+1) = Take(Text, i+1)
  <2>1. \A i \in 0..S0-1 : i+1 \in 0..S0
    BY ConstantTypes
  <2>2. prompt \in Content /\ emitted \in Content
    BY TextType
  <2>3. Text' = TextOf(p, <<>>) /\ Text = TextOf(prompt, emitted)
    BY <1>1, TextNow
  <2> QED
    BY <1>1, <2>1, <2>2, <2>3, TextProperties
<1>6. \A m \in Models : \A i \in 0..S0-1 :
        i \in kv[m].open /\ kv[m].entry[i] = Take(Text, i+1)
  BY HeldFacts, ConstantTypes DEF TextInv, TextHeld
<1>7. TextHeld'
  BY <1>1, <1>3, <1>4, <1>5, <1>6 DEF TextHeld, Generating
<1>8. EntryTypes'
  BY <1>1, <1>3 DEF TextInv, EntryTypes
<1> QED
  BY <1>1, <1>7, <1>8, NoTreeText

----------------------------------------------------------------------------
(* A run of the prompt is evaluated *)

\* A cache whose position is what is held shows just that.
LEMMA OpenIsHeld ==
  ASSUME AllInv, TextInv, NEW m \in Models, kv[m].position = Held(m)
  PROVE  kv[m].open = 0..kv[m].position-1
<1>1. kv[m].open \subseteq 0..kv[m].position-1
  BY CacheFacts DEF Caches
<1> QED
  BY <1>1 DEF TextInv, TextHeld

\* A batch of the prompt, behind the part that has been evaluated
LEMMA BatchText ==
  ASSUME AllInv, AllInv', TextInv, NEW m \in Models, NEW n \in Nat, NEW done \in Nat,
         done = prefilled[m], n <= Len(prompt) - 1 - done, pc = "prefill", Fits(kv[m], n),
         NEW pos, pos = [u \in 0..n-1 |-> Len(SystemPrompt) + done + u],
         NEW input, input = [u \in 0..n-1 |-> prompt[done + u + 1]],
         kv' = [kv EXCEPT ![m] =
                  AdvanceTokens(SaveTokens(kv[m], Forward(kv[m], input, pos, Causal(n)), n), n)],
         UNCHANGED <<pc, prompt, verifyVars, histVars>>
  PROVE  TextInv'
<1>1. PICK P, c, size : P = kv[m].position /\ c = kv[m] /\ size = CacheSize[m]
  OBVIOUS
<1> DEFINE content == Forward(c, input, pos, Causal(n))
<1>2. /\ size \in Nat /\ Sound(c, size) /\ P \in Nat /\ c.position = P
      /\ c.entry \in Entry(size)
  BY <1>1, CacheFacts DEF Caches, TextInv, EntryTypes
<1>3. /\ Len(prompt) \in Nat /\ Len(SystemPrompt) \in Nat /\ Len(Text) \in Nat
      /\ prompt \in Content /\ emitted \in Content /\ Text \in Content
  BY TextType, LenProperties DEF Content
<1>4. P = Len(SystemPrompt) + done /\ P = Held(m)
  <2>1. kv[m].position = Len(SystemPrompt) + prefilled[m]
    BY DEF AllInv, AbortInv, Positions
  <2>2. Held(m) = kv[m].position - 0
    BY DEF Held, Committed
  <2> QED
    BY <1>1, <1>2, <2>1, <2>2
<1>5. c.open = 0..P-1 /\ \A i \in 0..P-1 : c.entry[i] = Take(Text, i+1)
  BY <1>1, <1>4, OpenIsHeld DEF TextInv, TextHeld
<1>6. P + n <= Len(Text) /\ \A u \in 0..n-1 : Text[P + u + 1] = prompt[done + u + 1]
  <2>1. /\ Len(Text) = Len(SystemPrompt) + Len(prompt) + Len(emitted) /\ Len(emitted) \in Nat
        /\ \A i \in 1..Len(prompt) : Text[Len(SystemPrompt) + i] = prompt[i]
    <3>1. PICK p, e : p = prompt /\ e = emitted
      OBVIOUS
    <3>2. p \in Content /\ e \in Content
      BY <1>3, <3>1
    <3>3. /\ Len(TextOf(p, e)) = Len(SystemPrompt) + Len(p) + Len(e) /\ Len(e) \in Nat
          /\ \A i \in 1..Len(p) : TextOf(p, e)[Len(SystemPrompt) + i] = p[i]
      BY <3>2, TextProperties
    <3>4. Text = TextOf(p, e)
      BY <3>1, TextNow
    <3> QED
      BY <3>1, <3>3, <3>4
  <2>2. ASSUME NEW u \in 0..n-1 PROVE Text[P + u + 1] = prompt[done + u + 1]
    <3>1. done + u + 1 \in 1..Len(prompt)
      BY <1>3, InRange
    <3>2. P + u + 1 = Len(SystemPrompt) + (done + u + 1)
      BY <1>3, <1>4
    <3> QED
      BY <2>1, <3>1, <3>2
  <2>3. P + n <= Len(Text)
    BY <1>3, <1>4, <2>1
  <2> QED
    BY <2>2, <2>3
<1>7. RunEntries(content, Text, P, n)
  <2>1. Continues(input, pos, Text, P, n)
    <3>1. DOMAIN input = 0..n-1 /\ \A u \in 0..n-1 : input[u] = Text[P + u + 1]
      BY <1>6
    <3>2. \A u \in 0..n-1 : pos[u] = P + u
      BY <1>4
    <3> QED
      BY <3>1, <3>2 DEF Continues
  <2>2. HoldsText(c, Text, P)
    BY <1>5 DEF HoldsText
  <2>3. Text \in Content /\ P \in Nat /\ P + n <= Len(Text)
    BY <1>2, <1>3, <1>6
  <2> QED
    BY <2>1, <2>2, <2>3, ForwardRun
<1>8. Fits(c, n)
  BY <1>1
<1>9. PICK b, text, after : /\ b = content /\ text = Text
                           /\ after = AdvanceTokens(SaveTokens(c, b, n), n)
  OBVIOUS
<1>10. kv' = [kv EXCEPT ![m] = after]
  BY <1>1, <1>9
<1> HIDE DEF content
<1>11. Sound(after, size) /\ after.entry \in Entry(size) /\ HoldsText(after, text, after.position)
  <2>1. RunEntries(b, text, c.position, n) /\ HoldsText(c, text, c.position)
    BY <1>2, <1>5, <1>7, <1>9 DEF HoldsText
  <2>2. text \in Content /\ c.position + n <= Len(text)
    BY <1>2, <1>3, <1>6, <1>9
  <2> QED
    BY <1>2, <1>8, <1>9, <2>1, <2>2, RunAppended
<1>12. after.position = P + n
  BY <1>2, <1>8, <1>9, AppendBatchSound
<1>13. \A o \in Models : kv'[o] = IF o = m THEN after ELSE kv[o]
  BY <1>10, OtherCacheStays DEF AllInv
<1>14. ASSUME NEW i \in 0..P+n-1 PROVE i \in after.open /\ after.entry[i] = Take(Text, i+1)
  <2>1. /\ after.open = 0..after.position-1
        /\ \A j \in 0..after.position-1 : after.entry[j] = Take(text, j+1)
    BY <1>11 DEF HoldsText
  <2>2. i \in 0..after.position-1
    BY <1>2, <1>12
  <2> QED
    BY <1>9, <2>1, <2>2
<1>15. Text' = Text /\ batch' = batch /\ sampledFrom' = sampledFrom
  BY DEF Text, verifyVars, histVars
<1>16. EntryTypes'
  <2>1. after.entry \in Entry(CacheSize[m])
    BY <1>1, <1>11
  <2> QED
    BY <1>13, <1>15, <2>1 DEF TextInv, EntryTypes
<1>17. TextHeld'
  <2>1. ASSUME NEW o \in Models, NEW i \in 0..Held(o)'-1
        PROVE  i \in kv'[o].open /\ kv'[o].entry[i] = Take(Text, i+1)
    <3>1. Held(o)' = kv'[o].position - 0 /\ Held(o) = kv[o].position - 0
      BY DEF Held, Committed
    <3>2. CASE o = m
      <4>1. Held(o)' = after.position - 0
        BY <1>13, <3>1, <3>2
      <4>2. Held(o)' = P + n
        BY <1>2, <1>12, <4>1
      <4>3. i \in 0..P+n-1
        BY <1>2, <4>2
      <4> QED
        BY <1>13, <1>14, <3>2, <4>3
    <3>3. CASE o # m
      BY <1>13, <3>1, <3>3 DEF TextInv, TextHeld
    <3> QED
      BY <3>2, <3>3
  <2> QED
    BY <1>15, <2>1 DEF TextHeld, Generating
<1> QED
  BY <1>16, <1>17, NoTreeText

\* Prefilling extends what the cache holds of the text.
LEMMA PrefillText ==
  ASSUME AllInv, AllInv', TextInv, NEW m \in Models, PrefillBatch(m) PROVE TextInv'
<1> DEFINE done  == prefilled[m]
           n     == IF Len(prompt) - 1 - done < MaxBatch[m]
                    THEN Len(prompt) - 1 - done ELSE MaxBatch[m]
           pos   == BatchPositions(m, n)
           input == [u \in 0..n-1 |-> prompt[done + u + 1]]
<1>1. CASE Throw /\ UNCHANGED kv
  BY <1>1, LeavingText DEF PrefillBatch, Throw, TextInv, EntryTypes
<1>2. CASE /\ Fits(kv[m], n) /\ n > 0 /\ pc = "prefill"
           /\ kv' = [kv EXCEPT ![m] =
                AdvanceTokens(SaveTokens(kv[m], Forward(kv[m], input, pos, Causal(n)), n), n)]
           /\ UNCHANGED <<pc, prompt, verifyVars, histVars>>
  <2>1. n \in Nat /\ n <= Len(prompt) - 1 - done /\ done \in Nat
    BY <1>2, ConstantTypes, TextType, LenProperties DEF AllInv, IInv, PromptTypes, Content
  <2>2. pos = [u \in 0..n-1 |-> Len(SystemPrompt) + done + u]
    BY DEF BatchPositions
  <2>3. input = [u \in 0..n-1 |-> prompt[done + u + 1]]
    OBVIOUS
  <2> HIDE DEF n, pos, input
  <2> QED
    BY <1>2, <2>1, <2>2, <2>3, BatchText
<1> QED
  BY <1>1, <1>2 DEF PrefillBatch

\* After the prefill only the last token of the prompt is missing.
LEMMA PrefillDoneText ==
  ASSUME AllInv, AllInv', TextInv, PrefillDone PROVE TextInv'
<1>1. /\ pc = "prefill" /\ pc' = "serve" /\ kv' = kv /\ Text' = Text
      /\ batch' = batch /\ sampledFrom' = sampledFrom /\ queue' = queue
  BY DEF PrefillDone, Text, verifyVars, histVars
<1>2. \A m \in Models : Held(m)' = Held(m)
  BY <1>1 DEF Held, Committed
<1>3. kv["target"].position = Len(Text) - 1 /\ queue = <<>>
  <2>1. queue = <<>> /\ emitted = <<>>
    BY <1>1 DEF AllInv, OrderInv, FreshStart
  <2>2. kv["target"].position = Len(SystemPrompt) + (Len(prompt) - 1)
    BY DEF PrefillDone, AllInv, AbortInv, Positions, Models
  <2>3. Len(Text) = Len(SystemPrompt) + Len(prompt) + Len(emitted) /\ Len(prompt) \in Nat
    BY TextType, TextNow, TextProperties
  <2>4. Len(emitted) = 0
    BY <2>1, EmptySeq
  <2> QED
    BY <2>1, <2>2, <2>3, <2>4, ConstantTypes
<1>4. TextHeld'
  BY <1>1, <1>2, <1>3 DEF TextInv, TextHeld
<1>5. EntryTypes'
  BY <1>1 DEF TextInv, EntryTypes
<1> QED
  BY <1>1, <1>4, <1>5, NoTreeText

\* next(), the end of a generation and the rest of decode() leave the caches alone.
LEMMA ServeText ==
  ASSUME AllInv, AllInv', TextInv, NextQueued \/ Finish \/ Deliver PROVE TextInv'
<1>1. /\ pc \in {"serve", "deliver"} /\ pc' \in {"serve", "ready"} /\ kv' = kv /\ Text' = Text
      /\ batch' = batch /\ sampledFrom' = sampledFrom
      /\ pc' = "serve" => queue' = <<>>
  <2>1. CASE NextQueued
    BY <2>1 DEF NextQueued, Text, verifyVars, TextInv, TextHeld
  <2>2. CASE Finish
    BY <2>2 DEF Finish, Text, verifyVars, iterVars, histVars
  <2>3. CASE Deliver
    <3>1. pc' # "aborted"
      BY DEF AllInv, AbortInv, NoAssertionFails
    <3> QED
      BY <2>3, <3>1 DEF Deliver, Abort, Text, verifyVars
  <2> QED
    BY <2>1, <2>2, <2>3
<1>2. \A m \in Models : /\ Held(m) \in Nat /\ Len(SystemPrompt) \in 0..Held(m)
                        /\ Held(m)' = IF pc' = "ready" THEN Len(SystemPrompt) ELSE Held(m)
  BY <1>1, HeldFacts DEF Held, Committed
<1>3. TextHeld'
  <2>1. \A m \in Models : 0..Held(m)'-1 \subseteq 0..Held(m)-1
    BY <1>2
  <2> QED
    BY <1>1, <2>1 DEF TextInv, TextHeld, Generating
<1>4. EntryTypes'
  BY <1>1 DEF TextInv, EntryTypes
<1> QED
  BY <1>1, <1>3, <1>4, NoTreeText

----------------------------------------------------------------------------
(* The tree grows, each node under the text of its parent *)

\* A round starts with an empty tree under the last token of the text.
LEMMA BeginRoundText ==
  ASSUME AllInv, AllInv', TextInv, BeginRound PROVE TextInv'
<1>1. /\ pc = "serve" /\ pc' = "draft" /\ kv' = kv /\ Text' = Text
      /\ batch' = batch /\ sampledFrom' = sampledFrom /\ tokens = <<tokens[1]>>
      /\ tokens \in Content /\ Len(tokens) = 1 /\ queue = <<>>
  <2>1. tokens \in Content /\ Len(tokens) = 1
    BY DEF BeginRound, AllInv, OrderInv, TextTypes
  <2>2. tokens = <<tokens[1]>>
    BY <2>1 DEF Content
  <2> QED
    BY <2>1, <2>2 DEF BeginRound, Text, iterVars, verifyVars, histVars, TextInv, TextHeld
<1>2. /\ nNodes' = 0 /\ lastParent' = NoParent /\ nSaved' = 0
      /\ mainHeap' = {[token |-> tokens[1], parent |-> NoParent]}
      /\ nodes' = [u \in NodeIds |-> BlankNode]
  BY DEF BeginRound, ResetTree
<1>3. Expanded' = {} /\ \A u \in NodeIds : nodes'[u].parent = NoParent
  BY <1>2 DEF Expanded, BlankNode
<1>4. LastToken = tokens[1]
  <2>1. PICK t : t = tokens[1]
    OBVIOUS
  <2>2. t \in Token /\ tokens = <<t>>
    BY <1>1, <2>1, ElementOfSeq DEF Content
  <2>3. /\ prompt \in Content /\ emitted \in Content /\ delivered \in Content /\ prompt # <<>>
        /\ delivered \o tokens \o queue = <<prompt[Len(prompt)]>> \o emitted
    BY <1>1 DEF AllInv, OrderInv, TextTypes, FreshStart, TokensInOrder, Generating
  <2>4. delivered \o <<t>> \o <<>> = <<prompt[Len(prompt)]>> \o emitted
    BY <1>1, <2>2, <2>3
  <2>5. TextOf(prompt, emitted)[Len(TextOf(prompt, emitted))] = t
    BY <2>2, <2>3, <2>4, RootIsLast
  <2> QED
    BY <2>1, <2>5, TextNow DEF LastToken
<1>5. LastToken' = LastToken
  BY <1>1 DEF LastToken
<1>6. Rooted' /\ BehindText' /\ OwnBranch' /\ UnusedBlank' /\ Ordered'
  <2>1. Rooted'
    BY <1>2, <1>4, <1>5 DEF Rooted
  <2> QED
    BY <1>3, <2>1 DEF BehindText, OwnBranch, UnusedBlank, Ordered
<1>7. kv["draft"].position = kv["target"].position /\ Held("draft") = kv["draft"].position
      /\ kv["draft"].position \in Nat
  <2>1. kv["draft"].position \in Nat
    BY CacheFacts DEF Caches, Models
  <2> QED
    BY <1>1, <2>1 DEF Held, Committed, AllInv, AbortInv, Positions, Generating
<1>8. BranchShown'
  <2>1. kv["draft"].open = 0..kv["draft"].position-1
    BY <1>7, OpenIsHeld DEF Models
  <2>2. Indices(Shown)' = {}
    BY <1>2 DEF Indices, Shown
  <2> QED
    BY <1>1, <1>3, <1>7, <2>1, <2>2 DEF BranchShown
<1>9. TextHeld'
  <2>1. \A m \in Models : Held(m)' = Held(m)
    <3>1. Held("draft")' = kv["draft"].position - 0 /\ Held("draft") = kv["draft"].position - 0
      BY <1>1, <1>2 DEF Held, Committed
    <3>2. Held("target")' = Held("target")
      BY <1>1 DEF Held, Committed
    <3> QED
      BY <3>1, <3>2 DEF Models
  <2> QED
    BY <1>1, <2>1 DEF TextInv, TextHeld, Generating
<1>10. EntryTypes'
  BY <1>1 DEF TextInv, EntryTypes
<1> QED
  BY <1>1, <1>6, <1>8, <1>9, <1>10 DEF TextInv, TreeText

\* A new node leaves the others, their branches and their entries as they are.
LEMMA OldNodesStay ==
  ASSUME AllInv, AllInv', pc = "draft", pc' = "draft", nNodes \in NodeIds, nNodes' = nNodes + 1,
         \A u \in NodeIds \ {nNodes} : nodes'[u] = nodes[u]
  PROVE  /\ \A u \in Expanded : nodes'[u] = nodes[u] /\ Branch(u)' = Branch(u)
         /\ Expanded' \subseteq Expanded \cup {nNodes}
         /\ Expanded \subseteq Expanded'
<1>1. /\ nodes \in [NodeIds -> Node] /\ nodes' \in [NodeIds -> Node]
      /\ Expanded \in SUBSET NodeIds /\ UpClosed(nodes, Expanded)
      /\ NodeIds \subseteq Nat
  BY TreeFacts DEF AllInv, AbortInv, TreeTypes, NodeTypes
<1>2. \A u \in Expanded : u \in 0..nNodes-1 /\ u \in NodeIds \ {nNodes} /\ nodes'[u] = nodes[u]
  BY <1>1, TreeFacts
<1>3. \A u \in Expanded : nodes[u].parent # NoParent => nodes[u].parent < u
  BY <1>2, TreeFacts
<1>4. ASSUME NEW u \in Expanded PROVE Branch(u)' = Branch(u)
  <2>1. \A v \in Expanded : nodes'[v].parent = nodes[v].parent
    BY <1>2
  <2>2. Branches(nodes')[u] = Branches(nodes)[u]
    BY <1>1, <1>3, <2>1, BranchesKept
  <2> QED
    BY <2>2, BranchIs
<1>5. 0..nNodes'-1 = (0..nNodes-1) \cup {nNodes}
  BY <1>1
<1>6. \A u \in 0..nNodes-1 : u \in NodeIds \ {nNodes}
  BY <1>1, ConstantTypes DEF NodeIds
<1>7. Expanded' \subseteq Expanded \cup {nNodes} /\ Expanded \subseteq Expanded'
  BY <1>5, <1>6 DEF Expanded
<1> QED
  BY <1>2, <1>4, <1>7

\* A leaf has no entry.
LEMMA DraftLeafText ==
  ASSUME AllInv, AllInv', TextInv, NEW c, NEW low, DraftLeaf(c, low) PROVE TextInv'
<1>1. /\ pc = "draft" /\ pc' = "draft" /\ nNodes < DraftBatch /\ c \in Heap
      /\ nNodes' = nNodes + 1 /\ mainHeap' \subseteq mainHeap
      /\ kv' = kv /\ Text' = Text /\ batch' = batch /\ sampledFrom' = sampledFrom /\ queue' = queue
      /\ lastParent' = lastParent /\ nSaved' = nSaved
  BY DEF DraftLeaf, Text, iterVars, verifyVars, histVars
<1>2. nNodes \in NodeIds /\ nodes \in [NodeIds -> Node] /\ nNodes \in Nat
  BY <1>1, TreeFacts, ConstantTypes DEF NodeIds
<1>3. /\ \A u \in NodeIds \ {nNodes} : nodes'[u] = nodes[u]
      /\ nodes'[nNodes].token = c.token /\ nodes'[nNodes].cacheIndex = nodes[nNodes].cacheIndex
  <2> DEFINE old == nodes[nNodes]
             node == [old EXCEPT !.parent = c.parent, !.token = c.token,
                        !.position = IF c.parent = NoParent THEN kv["draft"].position
                                     ELSE nodes[c.parent].position + 1]
  <2>1. nodes' = [nodes EXCEPT ![nNodes] = node]
    BY DEF DraftLeaf, AddNode
  <2>2. old \in Node
    BY <1>2
  <2> HIDE DEF old
  <2>3. node.token = c.token /\ node.cacheIndex = old.cacheIndex
    BY <2>2 DEF Node
  <2> HIDE DEF node
  <2> QED
    BY <1>2, <2>1, <2>3 DEF old
<1>4. nodes[nNodes].cacheIndex = NotInCache
  BY <1>1, <1>2 DEF AllInv, AbortInv, RoundInv
<1>5. /\ \A u \in Expanded : nodes'[u] = nodes[u] /\ Branch(u)' = Branch(u)
      /\ Expanded' = Expanded
  <2>1. nNodes \notin Expanded'
    BY <1>3, <1>4 DEF Expanded
  <2> QED
    BY <1>1, <1>2, <1>3, <2>1, OldNodesStay
<1>6. \A u \in Expanded : Drafted(u)' = Drafted(u)
  BY <1>1, <1>5 DEF Drafted
<1>7. LastToken' = LastToken
  BY <1>1 DEF LastToken
<1>8. Rooted'
  <2>1. CASE nNodes = 0
    <3>1. c \in mainHeap
      BY <1>1, <2>1 DEF Heap, Leaves, AllInv, AbortInv, RoundInv, HeapsParented
    <3>2. c.token = LastToken
      BY <1>1, <2>1, <3>1 DEF TextInv, TreeText, Rooted
    <3> QED
      BY <1>1, <1>3, <1>7, <2>1, <3>2 DEF Rooted
  <2>2. CASE nNodes # 0
    <3>1. 0 \in NodeIds \ {nNodes} /\ nNodes' # 0
      BY <1>1, <1>2, <2>2, ConstantTypes DEF NodeIds
    <3>2. nodes[0].token = LastToken
      BY <1>1, <2>2 DEF TextInv, TreeText, Rooted
    <3> QED
      BY <1>3, <1>7, <3>1, <3>2 DEF Rooted
  <2> QED
    BY <2>1, <2>2
<1>9. BehindText' /\ Ordered'
  <2>1. BehindText /\ Ordered
    BY <1>1 DEF TextInv, TreeText
  <2> QED
    BY <1>1, <1>5, <2>1 DEF BehindText, Ordered
<1>10. OwnBranch'
  <2>1. OwnBranch
    BY <1>1 DEF TextInv, TreeText
  <2>2. \A u \in Expanded : u # 0 => nodes[u].parent \in Expanded
    BY <1>1, TreeFacts
  <2> QED
    BY <1>1, <1>5, <1>6, <2>1, <2>2 DEF OwnBranch
<1>11. UnusedBlank'
  <2>1. UnusedBlank
    BY <1>1 DEF TextInv, TreeText
  <2>2. \A u \in NodeIds : u >= nNodes' => u >= nNodes /\ u # nNodes
    BY <1>1, <1>2, TreeFacts
  <2> QED
    BY <1>3, <2>1, <2>2 DEF UnusedBlank
<1>12. BranchShown'
  <2>1. BranchShown
    BY <1>1 DEF TextInv, TreeText
  <2>2. lastParent = NoParent \/ lastParent \in Expanded
    BY <1>1 DEF AllInv, AbortInv, RoundInv
  <2>3. Shown' = Shown /\ Shown \subseteq Expanded
    <3>1. CASE lastParent = NoParent
      BY <1>1, <3>1 DEF Shown
    <3>2. CASE lastParent # NoParent
      <4>1. Branch(lastParent)' = Branch(lastParent) /\ Branch(lastParent) \subseteq Expanded
        BY <1>1, <1>5, <2>2, <3>2, BranchUpTo
      <4> QED
        BY <1>1, <3>2, <4>1 DEF Shown
    <3> QED
      BY <3>1, <3>2
  <2>4. Indices(Shown)' = Indices(Shown)
    BY <1>5, <2>3 DEF Indices
  <2> QED
    BY <1>1, <1>5, <2>1, <2>4 DEF BranchShown
<1>13. TextHeld'
  <2>1. \A m \in Models : Held(m)' = Held(m)
    BY <1>1 DEF Held, Committed
  <2> QED
    BY <1>1, <2>1 DEF TextInv, TextHeld, Generating
<1>14. EntryTypes'
  BY <1>1 DEF TextInv, EntryTypes
<1> QED
  BY <1>1, <1>8, <1>9, <1>10, <1>11, <1>12, <1>13, <1>14 DEF TextInv, TreeText

\* switch_parent() replaces one branch by the other.
LEMMA SwitchShows ==
  ASSUME AllInv, TextInv, pc = "draft", NEW old \in Expanded, NEW new \in Expanded,
         kv["draft"].open = (0..kv["target"].position-1) \cup Indices(Branch(old))
  PROVE  /\ SwitchParent(kv["draft"], old, new).entry = kv["draft"].entry
         /\ SwitchParent(kv["draft"], old, new).open
              = (0..kv["target"].position-1) \cup Indices(Branch(new))
<1> DEFINE draft == kv["draft"]
           low == 0..kv["target"].position-1
           A == Branch(old)
           B == Branch(new)
           masked == Mask(draft, Indices(A \ B))
<1>1. CacheSize["draft"] \in Nat /\ Sound(draft, CacheSize["draft"])
  BY CacheFacts DEF Caches, Models
<1>2. A \subseteq Expanded /\ B \subseteq Expanded
  BY BranchUpTo
<1>3. \A u, v \in Expanded : nodes[u].cacheIndex = nodes[v].cacheIndex => u = v
  <2>1. \A u, v \in Expanded : u < v => nodes[u].cacheIndex < nodes[v].cacheIndex
    BY DEF TextInv, TreeText, Ordered
  <2>2. \A u \in Expanded : u \in Nat /\ nodes[u].cacheIndex \in Nat
    BY TreeFacts
  <2> QED
    BY <2>1, <2>2
<1>4. \A u \in Expanded : nodes[u].cacheIndex \notin low
  <2>1. \A u \in Expanded : nodes[u].cacheIndex >= kv["target"].position
    BY DEF TextInv, TreeText, BehindText
  <2>2. \A u \in Expanded : nodes[u].cacheIndex \in Nat
    BY TreeFacts
  <2>3. kv["target"].position \in Nat
    BY TextFacts
  <2> QED
    BY <2>1, <2>2, <2>3
<1>5. masked.entry = draft.entry /\ masked.open = draft.open \ Indices(A \ B)
  BY <1>1, MaskEntries
<1>6. Sound(masked, CacheSize["draft"])
  BY <1>1, MaskSound
<1>7. /\ Unmask(masked, Indices(B \ A)).entry = masked.entry
      /\ Unmask(masked, Indices(B \ A)).open = masked.open \cup Indices(B \ A)
  <2> HIDE DEF masked
  <2> QED
    BY <1>1, <1>6, MaskEntries
<1>8. SwitchParent(draft, old, new) = Unmask(masked, Indices(B \ A))
  BY DEF SwitchParent, Indices
<1>9. ((low \cup Indices(A)) \ Indices(A \ B)) \cup Indices(B \ A) = low \cup Indices(B)
  <2> DEFINE lhs == ((low \cup Indices(A)) \ Indices(A \ B)) \cup Indices(B \ A)
  <2>1. ASSUME NEW i \in lhs PROVE i \in low \cup Indices(B)
    <3>1. CASE i \in Indices(A) \ Indices(A \ B)
      <4>1. PICK u \in A : i = nodes[u].cacheIndex
        BY <3>1 DEF Indices
      <4>2. u \in B
        BY <3>1, <4>1 DEF Indices
      <4> QED
        BY <4>1, <4>2 DEF Indices
    <3>2. CASE i \in Indices(B \ A)
      BY <3>2 DEF Indices
    <3> QED
      BY <3>1, <3>2
  <2>2. ASSUME NEW i \in low PROVE i \in lhs
    <3>1. i \notin Indices(A \ B)
      BY <1>2, <1>4 DEF Indices
    <3> HIDE DEF low
    <3> QED
      BY <3>1
  <2>3. ASSUME NEW i \in Indices(B) PROVE i \in lhs
    <3>1. PICK u \in B : i = nodes[u].cacheIndex
      BY DEF Indices
    <3>2. CASE u \in A
      <4>1. i \in Indices(A)
        BY <3>1, <3>2 DEF Indices
      <4>2. i \notin Indices(A \ B)
        BY <1>2, <1>3, <3>1 DEF Indices
      <4> QED
        BY <4>1, <4>2
    <3>3. CASE u \notin A
      BY <3>1, <3>3 DEF Indices
    <3> QED
      BY <3>2, <3>3
  <2> HIDE DEF low
  <2> QED
    BY <2>1, <2>2, <2>3
<1> HIDE DEF masked
<1> QED
  BY <1>5, <1>7, <1>8, <1>9

\* Before a node is evaluated, attention sees the text before it.
LEMMA ReadyToExpand ==
  ASSUME AllInv, TextInv, pc = "draft", NEW c \in Heap, NEW switch \in BOOLEAN, NEW cache,
         switch <=> lastParent # NoParent /\ c.parent # lastParent,
         cache = IF switch THEN SwitchParent(kv["draft"], lastParent, c.parent) ELSE kv["draft"]
  PROVE  /\ cache.entry = kv["draft"].entry
         /\ cache.open = (0..kv["target"].position-1)
                           \cup IF c.parent = NoParent THEN {} ELSE Indices(Branch(c.parent))
         /\ Shows(cache, IF c.parent = NoParent THEN Take(Text, kv["target"].position)
                         ELSE Drafted(c.parent))
<1> DEFINE low == 0..kv["target"].position-1
<1>1. /\ IF nNodes = 0 THEN c.parent = NoParent ELSE c.parent \in Expanded
      /\ c.parent # NoParent => nNodes # 0
  BY CandidateParented
<1>2. lastParent = NoParent \/ lastParent \in Expanded
  BY DEF AllInv, AbortInv, RoundInv
<1>3. nNodes = 0 => lastParent = NoParent
  BY DEF AllInv, AbortInv, RoundInv
<1>4. /\ kv["draft"].open = low \cup Indices(Shown)
      /\ Expanded # {} => lastParent # NoParent
  BY DEF TextInv, TreeText, BranchShown
<1>5. CASE c.parent = NoParent
  <2>1. nNodes = 0
    BY <1>1, <1>5 DEF Expanded, NoParent
  <2>2. lastParent = NoParent /\ ~switch /\ cache = kv["draft"]
    BY <1>3, <2>1
  <2>3. cache.open = low
    BY <1>4, <2>2 DEF Shown, Indices
  <2>4. Shows(cache, Take(Text, kv["target"].position))
    <3>1. PICK s, k : s = Text /\ k = kv["target"].position
      OBVIOUS
    <3>2. s \in Content /\ k \in 0..Len(s)
      BY <3>1, TextFacts, TextType
    <3>3. \A i \in 0..k-1 : cache.entry[i] = Take(s, i+1)
      <4>1. Held("draft") = k
        BY <3>1 DEF Held, AllInv, AbortInv, Positions, Generating
      <4> QED
        BY <2>2, <3>1, <4>1 DEF TextInv, TextHeld, Models
    <3>4. Shows(cache, Take(s, k))
      BY <2>3, <3>1, <3>2, <3>3, ShowsText
    <3> QED
      BY <3>1, <3>4
  <2> QED
    BY <1>5, <2>2, <2>3, <2>4
<1>6. CASE c.parent # NoParent
  <2>1. c.parent \in Expanded /\ lastParent \in Expanded /\ lastParent # NoParent
    BY <1>1, <1>2, <1>4, <1>6
  <2>2. kv["draft"].open = low \cup Indices(Branch(lastParent))
    BY <1>4, <2>1 DEF Shown
  <2>3. cache.entry = kv["draft"].entry /\ cache.open = low \cup Indices(Branch(c.parent))
    <3>1. CASE switch
      BY <2>1, <2>2, <3>1, SwitchShows
    <3>2. CASE ~switch
      BY <2>1, <2>2, <3>2
    <3> QED
      BY <3>1, <3>2
  <2>4. Shows(cache, Drafted(c.parent))
    BY <2>1, <2>3, ShowsBranch
  <2> QED
    BY <1>6, <2>3, <2>4
<1> QED
  BY <1>5, <1>6

\* The entry of a new node is that of its parent's text and its own token.
LEMMA EntryOfNode ==
  ASSUME AllInv, TextInv, pc = "draft", nNodes < DraftBatch, NEW c \in Heap,
         NEW cache, NEW position,
         Shows(cache, IF c.parent = NoParent THEN Take(Text, kv["target"].position)
                      ELSE Drafted(c.parent)),
         position = IF c.parent = NoParent THEN kv["draft"].position
                    ELSE nodes[c.parent].position + 1
  PROVE  /\ Alone(cache, c.token, position)
              = IF c.parent = NoParent THEN Text ELSE Append(Drafted(c.parent), c.token)
         /\ c.parent = NoParent => c.token = LastToken /\ nNodes = 0
         /\ c.parent # NoParent => c.parent \in Expanded /\ nNodes # 0
<1>1. /\ c \in Candidate
      /\ IF nNodes = 0 THEN c.parent = NoParent ELSE c.parent \in Expanded
      /\ c.parent # NoParent => nNodes # 0
  BY CandidateParented
<1>2. CASE c.parent = NoParent
  <2>1. nNodes = 0
    BY <1>1, <1>2 DEF Expanded, NoParent
  <2>2. c \in mainHeap
    BY <2>1 DEF Heap, Leaves, AllInv, AbortInv, RoundInv, HeapsParented
  <2>3. c.token = LastToken
    BY <2>1, <2>2 DEF TextInv, TreeText, Rooted
  <2>4. PICK s : s = Take(Text, kv["target"].position)
    OBVIOUS
  <2>5. s \in Content /\ Text = Append(s, LastToken) /\ Len(s) = kv["target"].position
    <3>1. kv["target"].position \in 0..Len(Text) /\ Text \in Content
      BY TextFacts, TextType
    <3> QED
      BY <2>4, <3>1, TextFacts, TakeProperties DEF Content
  <2>6. position = Len(s)
    <3>1. nSaved = 0
      BY <2>1 DEF AllInv, AbortInv, RoundInv
    <3>2. kv["draft"].position = kv["target"].position
      <4>1. kv["draft"].position \in Nat
        BY CacheFacts DEF Caches, Models
      <4> QED
        BY <3>1, <4>1 DEF AllInv, AbortInv, Positions, Committed, Generating
    <3> QED
      BY <1>2, <2>5, <3>2
  <2>7. Shows(cache, s)
    BY <1>2, <2>4
  <2>8. Alone(cache, c.token, position) = Append(s, c.token)
    BY <2>5, <2>6, <2>7, AloneText
  <2> QED
    BY <1>2, <2>1, <2>3, <2>5, <2>8
<1>3. CASE c.parent # NoParent
  <2>1. c.parent \in Expanded /\ nNodes # 0
    BY <1>1, <1>3
  <2>2. BranchHolds(c.parent)
    BY <2>1, BranchContents
  <2>3. PICK s : s = Drafted(c.parent)
    OBVIOUS
  <2>4. s \in Content /\ position = Len(s) /\ Shows(cache, s)
    BY <1>3, <2>2, <2>3 DEF BranchHolds
  <2>5. Alone(cache, c.token, position) = Append(s, c.token)
    BY <2>4, AloneText
  <2> QED
    BY <1>3, <2>1, <2>3, <2>5
<1> QED
  BY <1>2, <1>3

\* The draft model has evaluated a node.
LEMMA NodeEvaluated ==
  ASSUME AllInv, AllInv', TextInv, pc = "draft", pc' = "draft", nNodes < DraftBatch, NEW c \in Heap,
         NEW cache, cache.entry = kv["draft"].entry, cache.position = kv["draft"].position,
         Sound(cache, CacheSize["draft"]), Fits(cache, 1),
         cache.open = (0..kv["target"].position-1)
                        \cup IF c.parent = NoParent THEN {} ELSE Indices(Branch(c.parent)),
         NEW position,
         Alone(cache, c.token, position)
           = IF c.parent = NoParent THEN Text ELSE Append(Drafted(c.parent), c.token),
         c.parent = NoParent => c.token = LastToken /\ nNodes = 0,
         c.parent # NoParent => c.parent \in Expanded /\ nNodes # 0,
         nodes' = [nodes EXCEPT ![nNodes] =
                     [parent |-> c.parent, token |-> c.token, cacheIndex |-> cache.position,
                      position |-> position]],
         kv' = [kv EXCEPT !["draft"] = ForwardOne(cache, c.token, position)],
         nNodes' = nNodes + 1, lastParent' = nNodes, nSaved' = nSaved + 1,
         UNCHANGED <<verifyVars, histVars, prompt>>
  PROVE  TextInv'
<1> DEFINE C == kv["target"].position
           D == kv["draft"].position
           low == 0..C-1
           size == CacheSize["draft"]
           after == ForwardOne(cache, c.token, position)
           drafted(u) == kv'["draft"].entry[nodes'[u].cacheIndex]
<1>1. /\ Text' = Text /\ LastToken' = LastToken /\ batch' = batch /\ sampledFrom' = sampledFrom
      /\ size \in Nat /\ C \in Nat /\ D \in Nat /\ c \in Candidate
      /\ kv["draft"].entry \in Entry(size)
  <2>1. Text' = Text /\ batch' = batch /\ sampledFrom' = sampledFrom
    BY DEF Text, verifyVars, histVars
  <2> QED
    BY <2>1, CacheFacts, CandidateParented
       DEF Caches, Models, LastToken, TextInv, EntryTypes
<1>0. PICK n : n = nNodes
  OBVIOUS
<1>2. /\ n = nNodes /\ n \in NodeIds /\ n \in Nat /\ nodes \in [NodeIds -> Node]
  BY <1>0, TreeFacts, ConstantTypes DEF NodeIds
<1>3. /\ \A u \in NodeIds \ {n} : nodes'[u] = nodes[u]
      /\ nodes'[n].parent = c.parent /\ nodes'[n].token = c.token
      /\ nodes'[n].cacheIndex = D
  BY <1>2
<1>4. /\ after.entry \in Entry(size) /\ after.open = cache.open \cup {D}
      /\ \A i \in 0..size-1 :
           after.entry[i] = IF i = D THEN Alone(cache, c.token, position) ELSE kv["draft"].entry[i]
  <2>1. c.token \in Token
    BY <1>1 DEF Candidate
  <2> QED
    BY <1>1, <2>1, ForwardOneEntries
<1>5. D \in 0..size-1
  BY <1>1 DEF Fits, Sound
<1> HIDE DEF after
<1>6. kv'["draft"] = after /\ kv'["target"] = kv["target"]
  <2>1. kv' = [kv EXCEPT !["draft"] = after]
    BY DEF after
  <2> QED
    BY <2>1, OtherCacheStays DEF AllInv, Models
<1>7. /\ \A u \in Expanded : nodes'[u] = nodes[u] /\ Branch(u)' = Branch(u)
      /\ Expanded' = Expanded \cup {n} /\ n \notin Expanded
      /\ \A u \in Expanded : u \in 0..n-1 /\ u \in Nat /\ u # NoParent
  <2>1. /\ \A u \in Expanded : nodes'[u] = nodes[u] /\ Branch(u)' = Branch(u)
        /\ Expanded' \subseteq Expanded \cup {n} /\ Expanded \subseteq Expanded'
    BY <1>2, <1>3, OldNodesStay
  <2>2. n \in Expanded'
    BY <1>1, <1>2, <1>3 DEF Expanded, NotInCache
  <2>3. \A u \in Expanded : u \in 0..n-1 /\ u \in Nat /\ u # NoParent
    BY <1>2, TreeFacts
  <2>4. n \notin Expanded
    BY <1>2, <2>3
  <2>5. Expanded' = Expanded \cup {n}
    BY <2>1, <2>2
  <2> QED
    BY <2>1, <2>3, <2>4, <2>5
<1>8. \A u \in Expanded : nodes[u].cacheIndex \in Nat /\ nodes[u].cacheIndex < D
                          /\ nodes[u].cacheIndex \in 0..size-1
  <2>1. \A u \in Expanded : nodes[u].cacheIndex \in Nat /\ nodes[u].cacheIndex < D
    BY TreeFacts DEF AllInv, AbortInv, RoundInv
  <2> QED
    BY <1>1, <1>5, <2>1
<1>9. \A u \in Expanded : drafted(u) = Drafted(u)
  <2>1. ASSUME NEW u \in Expanded PROVE drafted(u) = Drafted(u)
    <3>1. nodes[u].cacheIndex \in 0..size-1 /\ nodes[u].cacheIndex # D
      BY <1>1, <1>8
    <3>2. after.entry[nodes[u].cacheIndex] = kv["draft"].entry[nodes[u].cacheIndex]
      BY <1>4, <3>1
    <3> QED
      BY <1>6, <1>7, <3>2 DEF Drafted
  <2> QED
    BY <2>1
<1>10. drafted(n) = IF c.parent = NoParent THEN Text ELSE Append(Drafted(c.parent), c.token)
  BY <1>3, <1>4, <1>5, <1>6
<1>11. Rooted'
  <2>1. CASE n = 0
    BY <1>1, <1>2, <1>3, <1>7, <2>1 DEF Rooted
  <2>2. CASE n # 0
    <3>1. 0 \in NodeIds \ {n} /\ nNodes' # 0
      BY <1>2, <2>2, ConstantTypes DEF NodeIds
    <3>2. nodes[0].token = LastToken
      BY <1>2, <2>2 DEF TextInv, TreeText, Rooted
    <3> QED
      BY <1>1, <1>3, <3>1, <3>2 DEF Rooted
  <2> QED
    BY <2>1, <2>2
<1>12. D >= C
  <2>1. nSaved \in 0..D
    BY DEF AllInv, IInv, CacheInv, DraftCanRollBack
  <2>2. C = D - nSaved
    BY DEF AllInv, AbortInv, Positions, Committed, Generating
  <2> QED
    BY <1>1, <2>1, <2>2
<1>13. BehindText'
  <2>1. BehindText
    BY DEF TextInv, TreeText
  <2> QED
    BY <1>3, <1>6, <1>7, <1>12, <2>1 DEF BehindText
<1>14. Ordered'
  <2>1. Ordered
    BY DEF TextInv, TreeText
  <2>2. ASSUME NEW u \in Expanded', NEW v \in Expanded', u < v
        PROVE  nodes'[u].cacheIndex < nodes'[v].cacheIndex
    <3>1. CASE v = n
      <4>1. u \in Expanded
        BY <1>2, <1>7, <2>2, <3>1
      <4> QED
        BY <1>3, <1>7, <1>8, <3>1, <4>1
    <3>2. CASE v # n
      <4>1. v \in Expanded /\ u \in Expanded
        BY <1>2, <1>7, <2>2, <3>2
      <4>2. nodes[u].cacheIndex < nodes[v].cacheIndex
        BY <2>1, <2>2, <4>1 DEF Ordered
      <4> QED
        BY <1>7, <4>1, <4>2
    <3> QED
      BY <3>1, <3>2
  <2> QED
    BY <2>2 DEF Ordered
<1>15. OwnBranch'
  <2>1. OwnBranch
    BY DEF TextInv, TreeText
  <2>2. ASSUME NEW u \in Expanded
        PROVE  drafted(u) = IF u = 0 THEN Text
                            ELSE Append(drafted(nodes'[u].parent), nodes'[u].token)
    <3>1. Drafted(u) = IF u = 0 THEN Text ELSE Append(Drafted(nodes[u].parent), nodes[u].token)
      BY <2>1 DEF OwnBranch
    <3>2. nodes'[u] = nodes[u] /\ drafted(u) = Drafted(u)
      BY <1>7, <1>9
    <3>3. u # 0 => drafted(nodes[u].parent) = Drafted(nodes[u].parent)
      BY <1>9, TreeFacts
    <3> HIDE DEF drafted
    <3> QED
      BY <3>1, <3>2, <3>3
  <2>3. drafted(n) = IF n = 0 THEN Text ELSE Append(drafted(nodes'[n].parent), nodes'[n].token)
    <3>1. c.parent # NoParent => drafted(c.parent) = Drafted(c.parent)
      BY <1>9
    <3> HIDE DEF drafted
    <3> QED
      BY <1>2, <1>3, <1>10, <3>1
  <2>4. \A u \in Expanded' :
          drafted(u) = IF u = 0 THEN Text ELSE Append(drafted(nodes'[u].parent), nodes'[u].token)
    <3> HIDE DEF drafted
    <3> QED
      BY <1>7, <2>2, <2>3
  <2>5. Text' = Text /\ \A u : Drafted(u)' = drafted(u)
    BY <1>1 DEF Drafted
  <2> HIDE DEF drafted
  <2> QED
    BY <2>4, <2>5 DEF OwnBranch
<1>16. UnusedBlank'
  <2>1. UnusedBlank
    BY DEF TextInv, TreeText
  <2>2. \A u \in NodeIds : u >= nNodes' => u >= n /\ u # n
    BY <1>2, TreeFacts
  <2> QED
    BY <1>2, <1>3, <2>1, <2>2 DEF UnusedBlank
<1>17. Indices(Shown)' = {D} \cup IF c.parent = NoParent THEN {} ELSE Indices(Branch(c.parent))
  <2> DEFINE above == IF c.parent = NoParent THEN {} ELSE Branch(c.parent)
  <2>1. Shown' = {n} \cup above
    <3>1. Shown' = Branches(nodes')[n]
      <4>1. Branch(n)' = Branches(nodes')[n]
        BY BranchIs
      <4>2. lastParent' = n /\ n # NoParent
        BY <1>2 DEF NoParent
      <4> QED
        BY <4>1, <4>2 DEF Shown
    <3>2. IsBranches(nodes', Branches(nodes'))
      BY BranchesExist DEF AllInv, AbortInv, TreeTypes, NodeTypes
    <3>3. Shown' = {n} \cup IF c.parent = NoParent THEN {} ELSE Branches(nodes')[c.parent]
      <4>1. PICK f : f = Branches(nodes')
        OBVIOUS
      <4>2. f[n] = {n} \cup IF c.parent = NoParent THEN {} ELSE f[c.parent]
        BY <1>2, <1>3, <3>2, <4>1 DEF IsBranches, AndUp
      <4> QED
        BY <3>1, <4>1, <4>2
    <3>4. c.parent # NoParent => Branches(nodes')[c.parent] = Branch(c.parent)
      BY <1>7, BranchIs
    <3> QED
      BY <3>3, <3>4
  <2>2. \A u \in above : nodes'[u] = nodes[u]
    <3>1. c.parent # NoParent => Branch(c.parent) \subseteq Expanded
      BY BranchUpTo
    <3> QED
      BY <1>7, <3>1
  <2>3. Indices(Shown)' = {D} \cup {nodes[u].cacheIndex : u \in above}
    <3> DEFINE new == {nodes'[u].cacheIndex : u \in {n} \cup above}
               old == {nodes[u].cacheIndex : u \in above}
    <3>1. Indices(Shown)' = new
      BY <2>1 DEF Indices
    <3> HIDE DEF above
    <3>2. ASSUME NEW u \in {n} \cup above PROVE nodes'[u].cacheIndex \in {D} \cup old
      BY <1>3, <2>2
    <3>3. ASSUME NEW u \in above PROVE nodes[u].cacheIndex \in new
      BY <2>2
    <3>4. D \in new
      BY <1>3
    <3>5. new \subseteq {D} \cup old
      BY <3>2
    <3>6. old \subseteq new
      BY <3>3
    <3> HIDE DEF new, old
    <3>7. new = {D} \cup old
      BY <3>4, <3>5, <3>6
    <3> QED
      BY <3>1, <3>7 DEF old
  <2> QED
    BY <2>3 DEF Indices
<1>18. BranchShown'
  <2>1. kv'["draft"].open = low \cup Indices(Shown)'
    BY <1>4, <1>6, <1>17
  <2>2. lastParent' # NoParent
    BY <1>2 DEF NoParent
  <2> QED
    BY <1>6, <2>1, <2>2 DEF BranchShown
<1>19. TextHeld'
  <2>1. Held("draft") = C /\ Held("target") = C
    <3>1. Held("draft") = Committed("draft") /\ Held("target") = C - 0
      BY DEF Held, Committed
    <3> QED
      BY <1>1, <3>1 DEF AllInv, AbortInv, Positions, Generating
  <2>2. Held("draft")' = C /\ Held("target")' = C
    <3>1. Held("draft")' = Committed("draft")' /\ Held("target")' = kv'["target"].position - 0
      BY DEF Held, Committed
    <3> QED
      BY <1>1, <1>6, <3>1 DEF AllInv, AbortInv, Positions, Generating
  <2>3. ASSUME NEW i \in 0..C-1
        PROVE  i \in kv'["draft"].open /\ kv'["draft"].entry[i] = Take(Text', i+1)
    <3>1. kv["draft"].entry[i] = Take(Text, i+1)
      BY <2>1 DEF TextInv, TextHeld, Models
    <3>2. i \in 0..size-1 /\ i # D
      BY <1>1, <1>5, <1>12
    <3> QED
      BY <1>1, <1>4, <1>6, <3>1, <3>2
  <2>4. ASSUME NEW i \in 0..C-1
        PROVE  i \in kv'["target"].open /\ kv'["target"].entry[i] = Take(Text', i+1)
    BY <1>1, <1>6, <2>1 DEF TextInv, TextHeld, Models
  <2>5. \A m \in Models : \A i \in 0..Held(m)'-1 :
          i \in kv'[m].open /\ kv'[m].entry[i] = Take(Text', i+1)
    BY <2>2, <2>3, <2>4 DEF Models
  <2>6. kv'["target"].position = Len(Text') - 1
    BY <1>1, <1>6 DEF TextInv, TextHeld, Generating
  <2> QED
    BY <2>5, <2>6 DEF TextHeld
<1>20. EntryTypes'
  BY <1>1, <1>4, <1>6 DEF TextInv, EntryTypes, Models
<1> QED
  BY <1>11, <1>13, <1>14, <1>15, <1>16, <1>18, <1>19, <1>20 DEF TextInv, TreeText

\* An expanded node gets the entry of its branch, or the pass throws.
LEMMA DraftExpandText ==
  ASSUME AllInv, AllInv', TextInv,
         NEW c \in Heap, NEW top \in SUBSET Token, NEW wide \in SUBSET top,
         DraftExpand(c, top, wide)
  PROVE  TextInv'
<1> DEFINE draft  == kv["draft"]
           switch == lastParent # NoParent /\ c.parent # lastParent
           cache  == IF switch THEN SwitchParent(draft, lastParent, c.parent) ELSE draft
           position == IF c.parent = NoParent THEN cache.position
                       ELSE nodes[c.parent].position + 1
<1>1. pc = "draft" /\ nNodes < DraftBatch /\ pc' # "aborted"
  BY DEF DraftExpand, AllInv, AbortInv, NoAssertionFails
<1>2. /\ cache.entry = draft.entry
      /\ cache.open = (0..kv["target"].position-1)
                        \cup IF c.parent = NoParent THEN {} ELSE Indices(Branch(c.parent))
      /\ Shows(cache, IF c.parent = NoParent THEN Take(Text, kv["target"].position)
                      ELSE Drafted(c.parent))
  <2>1. PICK b \in BOOLEAN : b <=> switch
    OBVIOUS
  <2>2. cache = IF b THEN SwitchParent(draft, lastParent, c.parent) ELSE draft
    BY <2>1
  <2> HIDE DEF cache
  <2> QED
    BY <1>1, <2>1, <2>2, ReadyToExpand
<1>3. Sound(cache, CacheSize["draft"]) /\ cache.position = draft.position
  <2>1. switch => CanSwitch(draft, lastParent, c.parent)
    <3>1. ASSUME switch PROVE lastParent \in Expanded /\ c.parent \in Expanded
      <4>1. lastParent \in Expanded /\ (nNodes = 0 => lastParent = NoParent)
        BY <1>1, <3>1 DEF AllInv, AbortInv, RoundInv
      <4> QED
        BY <1>1, <3>1, <4>1, CandidateParented
    <3> QED
      BY <1>1, <3>1, SwitchIsSafe
  <2>2. CacheSize["draft"] \in Nat /\ Sound(draft, CacheSize["draft"])
    BY CacheFacts DEF Caches, Models
  <2> QED
    BY <2>1, <2>2, SwitchParentSound
<1>4. CASE Throw /\ kv' = [kv EXCEPT !["draft"] = cache]
  <2> HIDE DEF cache
  <2>1. kv'["draft"] = cache /\ kv'["target"] = kv["target"]
    BY <1>4, OtherCacheStays DEF AllInv, Models
  <2>2. \A i \in 0..Len(SystemPrompt)-1 : i \in cache.open
    <3>1. kv["target"].position >= Len(SystemPrompt) /\ kv["target"].position \in Nat
      BY CacheFacts DEF AllInv, AbortInv, Positions, Caches, Models
    <3> QED
      BY <1>2, <3>1, ConstantTypes
  <2>3. ASSUME NEW m \in Models
        PROVE  /\ kv'[m].entry \in Entry(CacheSize[m])
               /\ \A i \in 0..Len(SystemPrompt)-1 :
                    kv'[m].entry[i] = kv[m].entry[i] /\ (i \in kv[m].open => i \in kv'[m].open)
    <3>1. kv[m].entry \in Entry(CacheSize[m])
      BY DEF TextInv, EntryTypes
    <3> QED
      BY <1>2, <2>1, <2>2, <3>1 DEF Models
  <2> QED
    BY <1>4, <2>3, LeavingText DEF Throw
<1>5. CASE /\ Fits(cache, 1)
           /\ nodes' = [nodes EXCEPT ![nNodes] =
                [parent |-> c.parent, token |-> c.token, cacheIndex |-> cache.position,
                 position |-> position]]
           /\ kv' = [kv EXCEPT !["draft"] = ForwardOne(cache, c.token, nodes'[nNodes].position)]
           /\ nNodes' = nNodes + 1 /\ lastParent' = nNodes /\ nSaved' = nSaved + 1
           /\ UNCHANGED <<pc, iterVars, verifyVars, histVars>>
  <2>1. nodes'[nNodes].position = position
    <3>1. nNodes \in NodeIds /\ nodes \in [NodeIds -> Node]
      BY <1>1, TreeFacts, ConstantTypes DEF NodeIds
    <3> QED
      BY <1>5, <3>1
  <2>2. position = IF c.parent = NoParent THEN draft.position ELSE nodes[c.parent].position + 1
    BY <1>3
  <2> HIDE DEF cache, position
  <2>3. /\ Alone(cache, c.token, position)
             = IF c.parent = NoParent THEN Text ELSE Append(Drafted(c.parent), c.token)
        /\ c.parent = NoParent => c.token = LastToken /\ nNodes = 0
        /\ c.parent # NoParent => c.parent \in Expanded /\ nNodes # 0
    BY <1>1, <1>2, <2>2, EntryOfNode
  <2>4. kv' = [kv EXCEPT !["draft"] = ForwardOne(cache, c.token, position)]
    BY <1>5, <2>1
  <2>5. pc' = "draft" /\ UNCHANGED <<verifyVars, histVars, prompt>>
    BY <1>1, <1>5 DEF iterVars
  <2>6. /\ Fits(cache, 1) /\ nNodes' = nNodes + 1 /\ lastParent' = nNodes /\ nSaved' = nSaved + 1
        /\ nodes' = [nodes EXCEPT ![nNodes] =
             [parent |-> c.parent, token |-> c.token, cacheIndex |-> cache.position,
              position |-> position]]
    BY <1>5
  <2>7. /\ cache.entry = draft.entry /\ cache.position = draft.position
        /\ Sound(cache, CacheSize["draft"])
        /\ cache.open = (0..kv["target"].position-1)
                          \cup IF c.parent = NoParent THEN {} ELSE Indices(Branch(c.parent))
    BY <1>2, <1>3
  <2> QED
    BY <1>1, <2>3, <2>4, <2>5, <2>6, <2>7, NodeEvaluated
<1> QED
  BY <1>1, <1>4, <1>5 DEF DraftExpand, Abort

----------------------------------------------------------------------------
(* The tree is evaluated *)

\* With the drafted entries given back, the draft cache shows the text again.
LEMMA DraftDoneText ==
  ASSUME AllInv, AllInv', TextInv, DraftDone PROVE TextInv'
<1> DEFINE draft == kv["draft"]
           C == kv["target"].position
           back == RollbackTokens(draft, nSaved)
<1>1. /\ pc = "draft" /\ pc' = "target" /\ Text' = Text
      /\ nodes' = nodes /\ nNodes' = nNodes /\ mainHeap' = mainHeap
      /\ batch' = batch /\ sampledFrom' = sampledFrom
  BY DEF DraftDone, Text, iterVars, treeVars, verifyVars, histVars
<1>2. /\ CacheSize["draft"] \in Nat /\ Sound(draft, CacheSize["draft"]) /\ draft.position \in Nat
      /\ C \in Nat /\ nSaved \in 0..draft.position /\ draft.position - nSaved = C
  <2>1. /\ CacheSize["draft"] \in Nat /\ Sound(draft, CacheSize["draft"]) /\ draft.position \in Nat
        /\ C \in Nat
    BY CacheFacts DEF Caches, Models
  <2>2. nSaved \in 0..draft.position /\ draft.position - nSaved = C
    BY <1>1, <2>1 DEF AllInv, IInv, CacheInv, DraftCanRollBack, AbortInv, Positions, Committed,
                      Generating
  <2> QED
    BY <2>1, <2>2
<1>3. /\ back.entry = draft.entry
      /\ back.open = draft.open \ (draft.position - nSaved .. draft.position - 1)
  BY <1>2, RollbackTokensEntries
<1> HIDE DEF back
<1>4. kv'["draft"] = back /\ kv'["target"] = kv["target"]
  <2>1. kv' = [kv EXCEPT !["draft"] = back]
    BY DEF DraftDone, back
  <2> QED
    BY <2>1, OtherCacheStays DEF AllInv, Models
<1>5. Held("draft") = C /\ Held("target") = C /\ Held("draft")' = C /\ Held("target")' = C
  <2>1. Held("draft") = draft.position - nSaved /\ Held("target") = C - 0
    BY <1>1 DEF Held, Committed
  <2>2. Held("draft")' = Committed("draft")' /\ Held("target")' = kv'["target"].position - 0
    BY <1>1 DEF Held, Committed
  <2>3. Committed("draft")' = kv'["target"].position
    BY <1>1 DEF AllInv, AbortInv, Positions, Generating
  <2> QED
    BY <1>2, <1>4, <2>1, <2>2, <2>3
<1>6. \A m \in Models : \A i \in 0..C-1 : i \in kv[m].open /\ kv[m].entry[i] = Take(Text, i+1)
  BY <1>5 DEF TextInv, TextHeld, Models
<1>7. \A i \in 0..C-1 : i \in back.open /\ back.entry[i] = Take(Text, i+1)
  <2>1. \A i \in 0..C-1 : i \in draft.open /\ draft.entry[i] = Take(Text, i+1)
    BY <1>6 DEF Models
  <2> QED
    BY <1>2, <1>3, <2>1
<1>8. TextHeld'
  <2>1. \A m \in Models : \A i \in 0..C-1 : i \in kv'[m].open /\ kv'[m].entry[i] = Take(Text, i+1)
    BY <1>4, <1>6, <1>7 DEF Models
  <2>2. \A m \in Models : Held(m)' = C
    BY <1>5 DEF Models
  <2> QED
    BY <1>1, <1>4, <2>1, <2>2 DEF TextInv, TextHeld, Generating
<1>9. EntryTypes'
  BY <1>1, <1>3, <1>4 DEF TextInv, EntryTypes, Models
<1>10. Rooted /\ BehindText /\ OwnBranch /\ UnusedBlank /\ Ordered
  BY <1>1 DEF TextInv, TreeText
<1>11. Expanded' = Expanded /\ LastToken' = LastToken
  BY <1>1 DEF Expanded, LastToken
<1>12. Rooted' /\ BehindText' /\ UnusedBlank' /\ Ordered'
  BY <1>1, <1>4, <1>10, <1>11 DEF Rooted, BehindText, UnusedBlank, Ordered
<1>13. OwnBranch'
  BY <1>1, <1>3, <1>4, <1>10, <1>11 DEF OwnBranch, Drafted
<1> QED
  BY <1>1, <1>8, <1>9, <1>12, <1>13 DEF TextInv, TreeText

\* What the batch of the tree holds: for each node its parent's text and its own
\* token; the unused slots see only the cache.
NodeText(u) ==
  IF u < nNodes
  THEN IF u = 0 THEN Text ELSE Append(Drafted(nodes[u].parent), nodes[u].token)
  ELSE Alone(kv["target"], nodes[u].token, nodes[u].position)

\* A node sees the branch of its parent.
LEMMA SeesItsBranch ==
  ASSUME AllInv, TextInv, pc = "target", NEW u \in NodeIds
  PROVE  /\ TreeMask[u] = IF u < nNodes /\ u # 0 THEN Branch(nodes[u].parent) ELSE {}
         /\ TreeMask[u] \subseteq Expanded /\ \A v \in TreeMask[u] : v < u /\ v \in NodeIds
<1>1. TreeMask[u] = Branch(u) \ {u}
  BY DEF TreeMask
<1>2. Branch(u) = {u} \cup IF nodes[u].parent = NoParent THEN {} ELSE Branch(nodes[u].parent)
  BY BranchEquation
<1>3. nNodes \in Nat /\ u \in Nat /\ Expanded \subseteq NodeIds /\ NodeIds \subseteq Nat
  BY TreeFacts
<1>4. CASE u < nNodes /\ u # 0
  <2>1. PICK p : p = nodes[u].parent
    OBVIOUS
  <2>2. p \in Expanded /\ p < u /\ p # NoParent /\ p \in Nat
    <3>1. u \in 0..nNodes-1
      BY <1>3, <1>4
    <3>2. p \in Expanded /\ p < u
      BY <1>4, <2>1, <3>1, TreeFacts
    <3> QED
      BY <3>2, TreeFacts
  <2>3. Branch(p) \subseteq Expanded /\ \A v \in Branch(p) : v <= p
    BY <2>2, BranchUpTo
  <2>4. ASSUME NEW v \in Branch(p) PROVE v < u /\ v \in NodeIds
    <3>1. v \in NodeIds /\ v <= p /\ v \in Nat
      BY <1>3, <2>3
    <3> QED
      BY <1>3, <2>2, <3>1
  <2>5. TreeMask[u] = Branch(p)
    <3>1. TreeMask[u] = ({u} \cup Branch(p)) \ {u}
      BY <1>1, <1>2, <2>1, <2>2
    <3>2. u \notin Branch(p)
      BY <1>3, <2>4
    <3> QED
      BY <3>1, <3>2
  <2> QED
    BY <1>4, <2>1, <2>3, <2>4, <2>5
<1>5. CASE ~(u < nNodes /\ u # 0)
  <2>1. nodes[u].parent = NoParent
    <3>1. CASE u < nNodes
      <4>1. u \in 0..nNodes-1 /\ u = 0
        BY <1>3, <1>5, <3>1
      <4> QED
        BY <4>1, TreeFacts
    <3>2. CASE ~(u < nNodes)
      <4>1. u >= nNodes
        BY <1>3, <3>2
      <4> QED
        BY <4>1 DEF TextInv, TreeText, UnusedBlank
    <3> QED
      BY <3>1, <3>2
  <2>2. TreeMask[u] = {}
    BY <1>1, <1>2, <2>1
  <2> QED
    BY <1>5, <2>2
<1> QED
  BY <1>4, <1>5

\* A node is evaluated behind the text of its parent.
LEMMA EncodeNode ==
  ASSUME AllInv, TextInv, pc = "target", NEW u \in NodeIds,
         NEW f, \A v \in Expanded : f[v] = Drafted(v)
  PROVE  Encode({kv["target"].entry[i] : i \in kv["target"].open} \cup {f[v] : v \in TreeMask[u]},
                Cardinality(kv["target"].open) + Cardinality(TreeMask[u]),
                nodes[u].token, nodes[u].position)
           = NodeText(u)
<1> DEFINE C == kv["target"].position
           base == Take(Text, C)
           cached == {kv["target"].entry[i] : i \in kv["target"].open}
           seen == {f[v] : v \in TreeMask[u]}
           count == Cardinality(kv["target"].open) + Cardinality(TreeMask[u])
<1>1. C \in Nat /\ Text \in Content /\ C \in 0..Len(Text) /\ base \in Content
      /\ Text = Append(base, LastToken) /\ Len(base) = C
  <2>1. C \in Nat /\ Text \in Content /\ C \in 0..Len(Text)
    BY TextFacts, TextType
  <2>2. Len(Take(Text, C)) = C
    BY <2>1, TakeProperties DEF Content
  <2> QED
    BY <2>1, <2>2, TextFacts
<1>2. kv["target"].open = 0..C-1 /\ \A i \in 0..C-1 : kv["target"].entry[i] = Take(Text, i+1)
  <2>1. Held("target") = C - 0
    BY DEF Held, Committed
  <2>2. Held("target") = C
    BY <1>1, <2>1
  <2> QED
    BY <2>2, OpenIsHeld DEF TextInv, TextHeld, Models
<1>3. Shows(kv["target"], base)
  <2>1. PICK s, k : s = Text /\ k = C
    OBVIOUS
  <2>2. Shows(kv["target"], Take(s, k))
    BY <1>1, <1>2, <2>1, ShowsText
  <2> QED
    BY <2>1, <2>2
<1>4. cached = Prefixes(base) /\ Cardinality(kv["target"].open) = Len(base)
  BY <1>3 DEF Shows
<1>5. /\ TreeMask[u] = IF u < nNodes /\ u # 0 THEN Branch(nodes[u].parent) ELSE {}
      /\ TreeMask[u] \subseteq Expanded
  BY SeesItsBranch
<1>6. nNodes \in Nat /\ u \in Nat
  BY TreeFacts
<1>7. Cardinality({}) = 0 /\ Cardinality(kv["target"].open) = C
  BY <1>1, <1>4, FS_EmptySet
<1>8. CASE ~(u < nNodes /\ u # 0)
  <2>1. TreeMask[u] = {}
    BY <1>5, <1>8
  <2>2. seen = {} /\ count = Cardinality(kv["target"].open)
    BY <1>1, <1>7, <2>1
  <2>3. cached \cup seen = cached
    BY <2>2
  <2>4. CASE u < nNodes
    <3>1. u = 0 /\ nNodes # 0
      BY <1>6, <1>8, <2>4
    <3>2. nodes[u].position = C /\ nodes[u].token = LastToken
      BY <3>1 DEF AllInv, AbortInv, RoundInv, TextInv, TreeText, Rooted
    <3>3. PICK s : s = base
      OBVIOUS
    <3>4. Alone(kv["target"], LastToken, Len(s)) = Append(s, LastToken)
      BY <1>1, <1>3, <3>3, AloneText
    <3>5. Alone(kv["target"], nodes[u].token, nodes[u].position) = Text
      BY <1>1, <3>2, <3>3, <3>4
    <3>6. Alone(kv["target"], nodes[u].token, nodes[u].position)
            = Encode(cached \cup seen, count, nodes[u].token, nodes[u].position)
      BY <2>2, <2>3 DEF Alone
    <3> QED
      BY <2>4, <3>1, <3>5, <3>6 DEF NodeText
  <2>5. CASE ~(u < nNodes)
    <3>1. Alone(kv["target"], nodes[u].token, nodes[u].position)
            = Encode(cached \cup seen, count, nodes[u].token, nodes[u].position)
      BY <2>2, <2>3 DEF Alone
    <3> QED
      BY <2>5, <3>1 DEF NodeText
  <2> QED
    BY <2>4, <2>5
<1>9. CASE u < nNodes /\ u # 0
  <2>1. PICK p : p = nodes[u].parent
    OBVIOUS
  <2>2. /\ p \in Expanded /\ nodes[u].position = nodes[p].position + 1
        /\ nodes[p].position \in Nat
    <3>1. u \in 0..nNodes-1
      BY <1>6, <1>9
    <3> QED
      BY <1>9, <2>1, <3>1, TreeFacts
  <2>3. BranchHolds(p)
    BY <2>2, BranchContents
  <2>4. PICK s : s = Drafted(p)
    OBVIOUS
  <2>5. s \in Content /\ Len(s) = nodes[u].position
    BY <2>2, <2>3, <2>4 DEF BranchHolds
  <2>6. TreeMask[u] = Branch(p)
    BY <1>5, <1>9, <2>1
  <2>7. seen = {Drafted(v) : v \in Branch(p)}
    BY <1>5, <2>6
  <2>8. cached \cup seen = Prefixes(s)
    BY <1>4, <2>3, <2>4, <2>7 DEF BranchHolds
  <2>9. count = Len(s)
    <3>1. Cardinality(Branch(p)) = nodes[p].position + 1 - C
      BY <2>3 DEF BranchHolds
    <3> QED
      BY <1>1, <1>7, <2>2, <2>5, <2>6, <3>1
  <2>10. Encode(Prefixes(s), Len(s), nodes[u].token, Len(s)) = Append(s, nodes[u].token)
    BY <2>5, EncodeText DEF Content
  <2>11. NodeText(u) = Append(s, nodes[u].token)
    BY <1>9, <2>1, <2>4 DEF NodeText
  <2> HIDE DEF cached, seen, count
  <2>12. Encode(cached \cup seen, count, nodes[u].token, nodes[u].position) = NodeText(u)
    BY <2>5, <2>8, <2>9, <2>10, <2>11
  <2> QED
    BY <2>12 DEF cached, seen, count
<1> QED
  BY <1>8, <1>9

\* An evaluated node already holds in the draft cache what the target computes.
LEMMA NodeTextIs ==
  ASSUME AllInv, TextInv, pc = "target"
  PROVE  /\ \A u \in Expanded : NodeText(u) = Drafted(u)
         /\ \A u \in NodeIds : NodeText(u) \in Content
<1>1. ASSUME NEW u \in Expanded PROVE NodeText(u) = Drafted(u)
  <2>1. u < nNodes
    <3>1. u \in 0..nNodes-1 /\ nNodes \in 0..DraftBatch
      BY TreeFacts
    <3> QED
      BY <3>1
  <2>2. Drafted(u) = IF u = 0 THEN Text ELSE Append(Drafted(nodes[u].parent), nodes[u].token)
    BY DEF TextInv, TreeText, OwnBranch
  <2> QED
    BY <2>1, <2>2 DEF NodeText
<1>2. ASSUME NEW u \in NodeIds PROVE NodeText(u) \in Content
  <2>1. CASE u < nNodes /\ u = 0
    BY <2>1, TextType DEF NodeText
  <2>2. CASE u < nNodes /\ u # 0
    <3>1. PICK p : p = nodes[u].parent
      OBVIOUS
    <3>2. p \in Expanded /\ nodes[u].token \in Token
      <4>1. u \in 0..nNodes-1
        BY <2>2, TreeFacts
      <4> QED
        BY <2>2, <3>1, <4>1, TreeFacts
    <3>3. Drafted(p) \in Seq(Token)
      BY <3>2, BranchContents DEF BranchHolds, Content
    <3>4. Append(Drafted(p), nodes[u].token) \in Content
      BY <3>2, <3>3, AppendProperties DEF Content
    <3> QED
      BY <2>2, <3>1, <3>4 DEF NodeText
  <2>3. CASE ~(u < nNodes)
    <3>1. {kv["target"].entry[i] : i \in kv["target"].open} \in SUBSET Content
      <4>1. kv["target"].entry \in Entry(CacheSize["target"])
        BY DEF TextInv, EntryTypes, Models
      <4>2. Sound(kv["target"], CacheSize["target"]) /\ CacheSize["target"] \in Nat
        BY CacheFacts DEF Caches, Models
      <4> QED
        BY <4>1, <4>2 DEF Sound, Entry
    <3>2. nodes[u].token \in Token
      BY TreeFacts
    <3>3. Alone(kv["target"], nodes[u].token, nodes[u].position) \in Content
      BY <3>1, <3>2, EncodeType DEF Alone
    <3> QED
      BY <2>3, <3>3 DEF NodeText
  <2> QED
    BY <2>1, <2>2, <2>3
<1> QED
  BY <1>1, <1>2

\* The batch of the tree
LEMMA TreeBatch ==
  ASSUME AllInv, TextInv, pc = "target"
  PROVE  Forward(kv["target"], [u \in NodeIds |-> nodes[u].token],
                 [u \in NodeIds |-> nodes[u].position], TreeMask)
           = [u \in NodeIds |-> NodeText(u)]
<1> DEFINE f == [u \in NodeIds |-> NodeText(u)]
           toks == [u \in NodeIds |-> nodes[u].token]
           positions == [u \in NodeIds |-> nodes[u].position]
<1>1. \A v \in Expanded : f[v] = Drafted(v)
  BY NodeTextIs, TreeFacts
<1>2. f = [u \in NodeIds |-> NodeText(u)]
  OBVIOUS
<1> HIDE DEF f
<1>3. ASSUME NEW u \in NodeIds
      PROVE  Encode({kv["target"].entry[i] : i \in kv["target"].open}
                      \cup {f[v] : v \in TreeMask[u]},
                    Cardinality(kv["target"].open) + Cardinality(TreeMask[u]),
                    toks[u], positions[u]) = NodeText(u)
  <2>1. Encode({kv["target"].entry[i] : i \in kv["target"].open} \cup {f[v] : v \in TreeMask[u]},
               Cardinality(kv["target"].open) + Cardinality(TreeMask[u]),
               nodes[u].token, nodes[u].position) = NodeText(u)
    BY <1>1, EncodeNode
  <2>2. toks[u] = nodes[u].token /\ positions[u] = nodes[u].position
    OBVIOUS
  <2> HIDE DEF toks, positions
  <2> QED
    BY <2>1, <2>2
<1>4. DOMAIN toks = NodeIds /\ NodeIds \in SUBSET Nat
  BY TreeFacts
<1> HIDE DEF toks, positions
<1>5. f = Entries(kv["target"], toks, positions, TreeMask, f)
  BY <1>2, <1>3, <1>4 DEF Entries
<1>6. \A u \in NodeIds : TreeMask[u] \subseteq NodeIds /\ \A v \in TreeMask[u] : v < u
  BY SeesItsBranch
<1>7. Forward(kv["target"], toks, positions, TreeMask) = f
  BY <1>4, <1>5, <1>6, ForwardIs
<1> QED
  BY <1>2, <1>7 DEF toks, positions

\* The batch is saved behind the text and taken back.
LEMMA SaveAndTakeBack ==
  ASSUME NEW size \in Nat, NEW c, Sound(c, size), c.entry \in Entry(size), NEW b, NEW n \in Nat,
         Fits(c, n), \A u \in 0..n-1 : b[u] \in Content
  PROVE  LET back == RollbackTokens(AdvanceTokens(SaveTokens(c, b, n), n), n)
         IN  /\ back.entry \in Entry(size) /\ back.open = c.open /\ back.position = c.position
             /\ \A i \in 0..c.position-1 : back.entry[i] = c.entry[i]
<1> DEFINE saved == SaveTokens(c, b, n)
           full == AdvanceTokens(saved, n)
           back == RollbackTokens(full, n)
<1>1. c.position \in Nat /\ c.open \subseteq 0..c.position-1 /\ c.position + n <= size
  BY DEF Sound, Fits
<1>2. Sound(saved, size) /\ saved.position = c.position
  BY SaveTokensSound
<1>3. /\ saved.entry \in Entry(size) /\ saved.open = c.open
      /\ \A i \in 0..size-1 :
           saved.entry[i] = IF i \in c.position..c.position + n - 1
                            THEN b[i - c.position] ELSE c.entry[i]
  BY SaveTokensEntries
<1> HIDE DEF saved
<1>4. Fits(saved, n)
  BY <1>1, <1>2 DEF Fits, Sound
<1>5. Sound(full, size) /\ full.position = c.position + n
  BY <1>2, <1>4, AdvanceTokensSound
<1>6. full.entry = saved.entry /\ full.open = c.open \cup (c.position..c.position + n - 1)
  BY <1>2, <1>3, AdvanceTokensEntries
<1> HIDE DEF full
<1>7. n \in 0..full.position
  BY <1>1, <1>5
<1>8. back.position = full.position - n
  BY <1>5, <1>7, RollbackTokensSound
<1>9. /\ back.entry = full.entry
      /\ back.open = full.open \ (full.position - n .. full.position - 1)
  BY <1>5, <1>7, RollbackTokensEntries
<1> HIDE DEF back
<1>10. back.position = c.position /\ full.position - n = c.position
  BY <1>1, <1>5, <1>8
<1>11. back.open = c.open
  BY <1>1, <1>5, <1>6, <1>9, <1>10
<1>12. \A i \in 0..c.position-1 : back.entry[i] = c.entry[i]
  <2>1. ASSUME NEW i \in 0..c.position-1 PROVE back.entry[i] = c.entry[i]
    <3>1. i \in 0..size-1 /\ ~(i \in c.position..c.position + n - 1)
      BY <1>1
    <3> QED
      BY <1>3, <1>6, <1>9, <3>1
  <2> QED
    BY <2>1
<1> QED
  BY <1>3, <1>6, <1>9, <1>10, <1>11, <1>12 DEF back, full, saved

\* The target computes the text of every node and keeps none of it.
LEMMA TargetForwardText ==
  ASSUME AllInv, AllInv', TextInv, TargetForward PROVE TextInv'
<1>1. CASE Throw /\ UNCHANGED kv
  BY <1>1, LeavingText DEF Throw, TextInv, EntryTypes
<1>2. CASE ~(Throw /\ UNCHANGED kv)
  <2> DEFINE c == kv["target"]
             C == c.position
             back == RollbackTokens(AdvanceTokens(SaveTokens(c, batch', DraftBatch), DraftBatch),
                                    DraftBatch)
  <2>1. /\ pc = "target" /\ pc' = "verify" /\ current' = 0 /\ nodes' = nodes /\ nNodes' = nNodes
        /\ Text' = Text /\ sampledFrom' = sampledFrom
        /\ Fits(c, DraftBatch) /\ kv' = [kv EXCEPT !["target"] = back]
        /\ batch' = Forward(c, [u \in NodeIds |-> nodes[u].token],
                            [u \in NodeIds |-> nodes[u].position], TreeMask)
    BY <1>2 DEF TargetForward, Text, iterVars, treeVars, histVars
  <2>2. batch' = [u \in NodeIds |-> NodeText(u)]
    BY <2>1, TreeBatch
  <2>3. /\ \A u \in NodeIds : batch'[u] = NodeText(u) /\ batch'[u] \in Content
        /\ \A u \in Expanded : batch'[u] = Drafted(u)
        /\ batch' \in [NodeIds -> Content]
    BY <2>1, <2>2, NodeTextIs, TreeFacts
  <2>4. /\ CacheSize["target"] \in Nat /\ Sound(c, CacheSize["target"]) /\ C \in Nat
        /\ c.entry \in Entry(CacheSize["target"]) /\ DraftBatch \in Nat
    BY CacheFacts, ConstantTypes DEF Caches, Models, TextInv, EntryTypes
  <2>5. /\ back.entry \in Entry(CacheSize["target"]) /\ back.open = c.open /\ back.position = C
        /\ \A i \in 0..C-1 : back.entry[i] = c.entry[i]
    <3>1. \A u \in 0..DraftBatch-1 : batch'[u] \in Content
      BY <2>3 DEF NodeIds
    <3> QED
      BY <2>1, <2>4, <3>1, SaveAndTakeBack
  <2> HIDE DEF back
  <2>6. kv'["target"] = back /\ kv'["draft"] = kv["draft"]
    BY <2>1, OtherCacheStays DEF AllInv, Models
  <2>7. Held("target")' = C /\ Held("target") = C /\ Held("draft")' = Held("draft")
    <3>1. Held("target")' = kv'["target"].position - 0 /\ Held("target") = C - 0
      BY <2>1 DEF Held, Committed
    <3>2. Held("draft")' = kv'["draft"].position - 0 /\ Held("draft") = kv["draft"].position - 0
      BY <2>1 DEF Held, Committed
    <3> QED
      BY <2>4, <2>5, <2>6, <3>1, <3>2
  <2>8. TextHeld'
    <3>1. \A i \in 0..C-1 : i \in c.open /\ c.entry[i] = Take(Text, i+1)
      BY <2>7 DEF TextInv, TextHeld, Models
    <3>2. \A i \in 0..C-1 : i \in back.open /\ back.entry[i] = Take(Text, i+1)
      BY <2>5, <3>1
    <3>3. \A i \in 0..Held("draft")-1 :
            i \in kv["draft"].open /\ kv["draft"].entry[i] = Take(Text, i+1)
      BY DEF TextInv, TextHeld, Models
    <3>4. \A m \in Models : \A i \in 0..Held(m)'-1 :
            i \in kv'[m].open /\ kv'[m].entry[i] = Take(Text, i+1)
      BY <2>6, <2>7, <3>2, <3>3 DEF Models
    <3>5. kv'["target"].position = Len(Text) - 1
      BY <2>1, <2>5, <2>6 DEF TextInv, TextHeld, Generating
    <3> QED
      BY <2>1, <3>4, <3>5 DEF TextHeld
  <2>9. EntryTypes'
    BY <2>1, <2>3, <2>5, <2>6 DEF TextInv, EntryTypes, Models
  <2>10. Expanded' = Expanded /\ LastToken' = LastToken /\ nNodes # 0 /\ nNodes \in Nat
    BY <2>1, TreeFacts DEF Expanded, LastToken, AllInv, AbortInv, RoundInv
  <2>11. Ordered'
    BY <2>1, <2>10 DEF TextInv, TreeText, Ordered
  <2>12. Walked'
    <3>1. 0 \in NodeIds /\ 0 < nNodes
      BY <2>4, <2>10, TreeFacts, ConstantTypes DEF NodeIds
    <3>2. batch'[0] = Text /\ nodes[0].token = LastToken
      BY <2>1, <2>3, <2>10, <3>1 DEF NodeText, TextInv, TreeText, Rooted
    <3>3. ASSUME NEW u \in 1..nNodes-1
          PROVE  batch'[u] = Append(batch'[nodes[u].parent], nodes[u].token)
      <4>1. PICK p : p = nodes[u].parent
        OBVIOUS
      <4>2. u \in 0..nNodes-1 /\ u # 0 /\ u < nNodes /\ u \in NodeIds
        <5>1. nNodes \in 0..DraftBatch
          BY <2>1, TreeFacts
        <5> QED
          BY <2>4, <2>10, <5>1 DEF NodeIds
      <4>3. p \in Expanded
        BY <2>1, <4>1, <4>2, TreeFacts
      <4>4. batch'[u] = Append(Drafted(p), nodes[u].token)
        BY <2>3, <4>1, <4>2 DEF NodeText
      <4> QED
        BY <2>3, <4>1, <4>3, <4>4
    <3>4. \A u \in Expanded : Drafted(u)' = batch'[u]
      BY <2>1, <2>3, <2>6, <2>10 DEF Drafted
    <3> QED
      BY <2>1, <2>10, <3>2, <3>3, <3>4 DEF Walked
  <2> QED
    BY <2>1, <2>8, <2>9, <2>11, <2>12 DEF TextInv, TreeText
<1> QED
  BY <1>1, <1>2

----------------------------------------------------------------------------
(* A node is accepted *)

\* What is drafted lies inside the cache.
DraftedInCache ==
  pc \in {"draft", "target", "verify"} =>
    \A u \in Expanded : nodes[u].cacheIndex < CacheSize["draft"]

LEMMA StepInCache ==
  ASSUME AllInv, AllInv', DraftedInCache, [Next]_vars PROVE DraftedInCache'
<1>1. CASE pc' = "draft"
  <2>1. \A u \in Expanded' : nodes'[u].cacheIndex < kv'["draft"].position
    BY <1>1 DEF AllInv, AbortInv, RoundInv
  <2>2. kv'["draft"].position \in Nat /\ kv'["draft"].position <= CacheSize["draft"]
        /\ CacheSize["draft"] \in Nat
    BY NextCacheFacts DEF Caches, Models, Sound
  <2>3. \A u \in Expanded' : u \in NodeIds /\ nodes'[u] \in Node
    <3>1. /\ nodes' \in [NodeIds -> Node] /\ nNodes' \in 0..DraftBatch
      BY DEF AllInv, AbortInv, TreeTypes, NodeTypes
    <3> QED
      BY <3>1, ConstantTypes DEF Expanded, NodeIds
  <2>4. \A u \in Expanded' : nodes'[u].cacheIndex \in Int
    BY <2>3 DEF Node, NotInCache
  <2> QED
    BY <2>1, <2>2, <2>4 DEF DraftedInCache
<1>2. CASE pc' \in {"target", "verify"}
  <2>1. pc \in {"draft", "target", "verify"} /\ nodes' = nodes /\ nNodes' = nNodes
    BY <1>2 DEF Next, Construct, Generate, Prefill, Serve, Draft, Expand, Verify, Start,
                PrefillBatch, PrefillDone, NextQueued, BeginRound, Finish, DraftLeaf,
                DraftExpand, DraftDone, TargetForward, VerifyNode, Deliver, Throw, Abort, vars,
                treeVars
  <2> QED
    BY <2>1 DEF DraftedInCache, Expanded
<1> QED
  BY <1>1, <1>2 DEF DraftedInCache

\* An entry is put where the cache stands.
LEMMA AcceptEntry ==
  ASSUME NEW size \in Nat, NEW c, Sound(c, size), c.entry \in Entry(size), Fits(c, 1),
         NEW e \in Content, NEW d, d = c.position
  PROVE  LET after == AdvanceTokens([c EXCEPT !.entry[d] = e], 1)
         IN  /\ after.entry \in Entry(size) /\ after.open = c.open \cup {c.position}
             /\ after.position = c.position + 1
             /\ \A i \in 0..size-1 : after.entry[i] = IF i = c.position THEN e ELSE c.entry[i]
<1> DEFINE put == [c EXCEPT !.entry[d] = e]
           after == AdvanceTokens(put, 1)
<1>1. c.position \in Nat /\ d \in 0..size-1
  BY DEF Sound, Fits
<1>2. /\ put.entry \in Entry(size) /\ put.open = c.open
      /\ \A i \in 0..size-1 : put.entry[i] = IF i = d THEN e ELSE c.entry[i]
  BY <1>1, PutEntry
<1>3. Sound(put, size) /\ put.position = c.position
  <2>1. put = Copy(c, d, [u \in {0} |-> e], 0)
    BY DEF Copy
  <2> HIDE DEF put
  <2> QED
    BY <2>1, CopySound
<1> HIDE DEF put
<1>4. Fits(put, 1)
  BY <1>1, <1>3 DEF Fits, Sound
<1>5. after.position = c.position + 1
  BY <1>3, <1>4, AdvanceTokensSound
<1>6. after.entry = put.entry /\ after.open = put.open \cup (put.position..put.position + 1 - 1)
  BY <1>3, AdvanceTokensEntries
<1>7. put.position..put.position + 1 - 1 = {c.position}
  BY <1>1, <1>3
<1> HIDE DEF after
<1> QED
  BY <1>2, <1>5, <1>6, <1>7 DEF after, put

\* What verify() knows of the node it is at
LEMMA CurrentFacts ==
  ASSUME AllInv, TextInv, pc = "verify"
  PROVE  /\ current \in 0..nNodes-1 /\ current \in NodeIds /\ current \in Nat /\ nNodes \in Nat
         /\ nodes[current].position = kv["target"].position
         /\ kv["draft"].position = kv["target"].position
         /\ \A m \in Models : /\ kv[m].open = 0..kv["target"].position-1
                              /\ \A i \in 0..kv["target"].position-1 :
                                   kv[m].entry[i] = Take(Text, i+1)
         /\ batch[current] = Text /\ nodes[current].token = LastToken
         /\ nodes[current].cacheIndex # NotInCache =>
              /\ current \in Expanded /\ Drafted(current) = Text
              /\ nodes[current].cacheIndex >= kv["target"].position
<1> DEFINE C == kv["target"].position
<1>1. current \in NodeIds /\ nNodes \in 0..DraftBatch /\ current < nNodes /\ NodeIds \subseteq Nat
  BY TreeFacts DEF AllInv, AbortInv, TreeTypes, RoundInv
<1>2. current \in 0..nNodes-1 /\ current \in Nat /\ nNodes \in Nat
  BY <1>1, TreeFacts
<1>3. C \in Nat /\ kv["draft"].position \in Nat
  BY CacheFacts DEF Caches, Models
<1>4. nodes[current].position = C /\ kv["draft"].position = C
  BY <1>3 DEF AllInv, AbortInv, RoundInv, Positions, Committed, Generating
<1>5. \A m \in Models : kv[m].position = C /\ Held(m) = C
  BY <1>3, <1>4 DEF Models, Held, Committed
<1>6. \A m \in Models : kv[m].open = 0..C-1 /\ \A i \in 0..C-1 : kv[m].entry[i] = Take(Text, i+1)
  BY <1>5, OpenIsHeld DEF TextInv, TextHeld
<1>7. /\ batch[current] = Text /\ nodes[current].token = LastToken
      /\ \A u \in Expanded : u >= current => Drafted(u) = batch[u]
  BY DEF TextInv, TreeText, Walked
<1>8. ASSUME nodes[current].cacheIndex # NotInCache
      PROVE  current \in Expanded /\ Drafted(current) = Text /\ nodes[current].cacheIndex >= C
  <2>1. current \in Expanded
    BY <1>2, <1>8 DEF Expanded
  <2>2. nodes[current].cacheIndex >= nodes[current].position
    BY <2>1 DEF AllInv, AbortInv, RoundInv, DraftedAhead
  <2> QED
    BY <1>2, <1>4, <1>7, <2>1, <2>2
<1> QED
  BY <1>1, <1>2, <1>4, <1>6, <1>7, <1>8

\* Both caches get the entry of the text.
LEMMA AcceptText ==
  ASSUME AllInv, TextInv, pc = "verify"
  PROVE  LET node == nodes[current]
             C == kv["target"].position
             target == AdvanceTokens(Copy(kv["target"], node.position, batch, current), 1)
             draft == DraftAccept(node)
         IN  /\ Fits(kv["target"], 1) =>
                  /\ target.entry \in Entry(CacheSize["target"])
                  /\ target.open = kv["target"].open \cup {C} /\ target.position = C + 1
                  /\ \A i \in 0..CacheSize["target"]-1 :
                       target.entry[i] = IF i = C THEN Text ELSE kv["target"].entry[i]
             /\ Fits(kv["draft"], 1) =>
                  /\ draft.entry \in Entry(CacheSize["draft"])
                  /\ draft.open = kv["draft"].open \cup {C}
                  /\ \A i \in 0..CacheSize["draft"]-1 :
                       draft.entry[i] = IF i = C THEN Text ELSE kv["draft"].entry[i]
<1> DEFINE node == nodes[current]
           C == kv["target"].position
           target == AdvanceTokens(Copy(kv["target"], node.position, batch, current), 1)
           draft == DraftAccept(node)
<1>1. /\ \A m \in Models : /\ CacheSize[m] \in Nat /\ Sound(kv[m], CacheSize[m])
                           /\ kv[m].entry \in Entry(CacheSize[m])
      /\ Text \in Content
  BY CacheFacts, TextType DEF Caches, TextInv, EntryTypes
<1>2. node.position = C /\ kv["draft"].position = C /\ batch[current] = Text
  BY CurrentFacts
<1>3. ASSUME Fits(kv["target"], 1)
      PROVE  /\ target.entry \in Entry(CacheSize["target"])
             /\ target.open = kv["target"].open \cup {C} /\ target.position = C + 1
             /\ \A i \in 0..CacheSize["target"]-1 :
                  target.entry[i] = IF i = C THEN Text ELSE kv["target"].entry[i]
  <2>1. PICK c, size, e, d : c = kv["target"] /\ size = CacheSize["target"] /\ e = Text /\ d = C
    OBVIOUS
  <2>2. target = AdvanceTokens([c EXCEPT !.entry[d] = e], 1)
    BY <1>2, <2>1 DEF Copy
  <2> HIDE DEF target
  <2>3. size \in Nat /\ Sound(c, size) /\ c.entry \in Entry(size) /\ e \in Content
        /\ Fits(c, 1) /\ d = c.position
    BY <1>1, <1>3, <2>1 DEF Models
  <2> QED
    BY <2>1, <2>2, <2>3, AcceptEntry
<1>4. ASSUME Fits(kv["draft"], 1)
      PROVE  /\ draft.entry \in Entry(CacheSize["draft"])
             /\ draft.open = kv["draft"].open \cup {C}
             /\ \A i \in 0..CacheSize["draft"]-1 :
                  draft.entry[i] = IF i = C THEN Text ELSE kv["draft"].entry[i]
  <2>1. PICK c, size : c = kv["draft"] /\ size = CacheSize["draft"]
    OBVIOUS
  <2>2. size \in Nat /\ Sound(c, size) /\ c.entry \in Entry(size) /\ Fits(c, 1) /\ C = c.position
    BY <1>1, <1>2, <1>4, <2>1 DEF Models
  <2>3. CASE node.cacheIndex = NotInCache
    <3>1. draft = ForwardOne(c, node.token, C)
      BY <1>2, <2>1, <2>3 DEF DraftAccept
    <3>2. node.token \in Token /\ node.token = LastToken
      BY CurrentFacts, TreeFacts
    <3>3. /\ ForwardOne(c, node.token, C).entry \in Entry(size)
          /\ ForwardOne(c, node.token, C).open = c.open \cup {c.position}
          /\ \A i \in 0..size-1 :
               ForwardOne(c, node.token, C).entry[i] =
                 IF i = c.position THEN Alone(c, node.token, C) ELSE c.entry[i]
      BY <2>2, <3>2, ForwardOneEntries
    <3>4. Alone(c, node.token, C) = Text
      <4>1. /\ C \in Nat /\ Len(Text) = C + 1 /\ Take(Text, C) \in Content
            /\ Text = Append(Take(Text, C), LastToken)
        BY TextFacts
      <4>2. C \in 0..Len(Text)
        BY <4>1
      <4>3. Len(Take(Text, C)) = C
        BY <1>1, <4>2, TakeProperties DEF Content
      <4>4. c.open = 0..C-1 /\ \A i \in 0..C-1 : c.entry[i] = Take(Text, i+1)
        BY <2>1, CurrentFacts DEF Models
      <4>5. PICK s, k : s = Text /\ k = C
        OBVIOUS
      <4>6. Shows(c, Take(s, k))
        BY <1>1, <4>2, <4>4, <4>5, ShowsText
      <4>7. PICK base : base = Take(s, k)
        OBVIOUS
      <4>8. Alone(c, LastToken, Len(base)) = Append(base, LastToken)
        BY <4>1, <4>5, <4>6, <4>7, AloneText
      <4> QED
        BY <3>2, <4>1, <4>3, <4>5, <4>7, <4>8
    <3> HIDE DEF draft
    <3> QED
      BY <2>1, <2>2, <3>1, <3>3, <3>4
  <2>4. CASE node.cacheIndex # NotInCache
    <3>1. PICK e, d : e = Text /\ d = C
      OBVIOUS
    <3>2. draft = AdvanceTokens([c EXCEPT !.entry[d] = e], 1)
      <4>1. c.entry[node.cacheIndex] = e
        BY <2>1, <2>4, <3>1, CurrentFacts DEF Drafted
      <4> QED
        BY <1>2, <2>1, <2>4, <3>1, <4>1 DEF DraftAccept, Move
    <3> HIDE DEF draft
    <3>3. e \in Content /\ d = c.position
      BY <1>1, <2>2, <3>1
    <3> QED
      BY <2>1, <2>2, <3>1, <3>2, <3>3, AcceptEntry
  <2> QED
    BY <2>3, <2>4
<1> QED
  BY <1>3, <1>4

\* An accepted node extends the text by the sampled token and both caches by
\* the entry that was missing.
LEMMA VerifyNodeText ==
  ASSUME AllInv, AllInv', TextInv, DraftedInCache, NEW t \in Token, VerifyNode(t) PROVE TextInv'
<1> DEFINE C == kv["target"].position
           node == nodes[current]
           next == {v \in Children(current) : nodes[v].token = t}
           target == AdvanceTokens(Copy(kv["target"], node.position, batch, current), 1)
           draft == DraftAccept(node)
<1>1. pc = "verify" /\ pc' # "aborted"
  BY DEF VerifyNode, AllInv, AbortInv, NoAssertionFails
<1>2. /\ C \in Nat /\ Text \in Content /\ Len(Text) = C + 1 /\ LastToken \in Token
      /\ \A m \in Models : /\ CacheSize[m] \in Nat /\ Sound(kv[m], CacheSize[m])
                           /\ kv[m].entry \in Entry(CacheSize[m])
  BY <1>1, CacheFacts, TextFacts, TextType DEF Caches, TextInv, EntryTypes
<1>3. /\ current \in 0..nNodes-1 /\ current \in Nat /\ nNodes \in Nat
      /\ kv["draft"].position = C /\ batch[current] = Text
      /\ \A m \in Models : /\ kv[m].open = 0..C-1
                           /\ \A i \in 0..C-1 : kv[m].entry[i] = Take(Text, i+1)
  BY <1>1, CurrentFacts
<1>4. /\ Fits(kv["target"], 1) =>
           /\ target.entry \in Entry(CacheSize["target"])
           /\ target.open = kv["target"].open \cup {C} /\ target.position = C + 1
           /\ \A i \in 0..CacheSize["target"]-1 :
                target.entry[i] = IF i = C THEN Text ELSE kv["target"].entry[i]
      /\ Fits(kv["draft"], 1) =>
           /\ draft.entry \in Entry(CacheSize["draft"])
           /\ draft.open = kv["draft"].open \cup {C}
           /\ \A i \in 0..CacheSize["draft"]-1 :
                draft.entry[i] = IF i = C THEN Text ELSE kv["draft"].entry[i]
  BY <1>1, AcceptText
<1>5. /\ Fits(kv["target"], 1) => C + 1 <= CacheSize["target"]
      /\ Fits(kv["draft"], 1) => C + 1 <= CacheSize["draft"]
  BY <1>2, <1>3 DEF Fits, Sound, Models
<1> HIDE DEF target, draft
<1>6. CASE /\ Throw /\ UNCHANGED verifyVars
           /\ kv' = IF Fits(kv["target"], 1) THEN [kv EXCEPT !["target"] = target] ELSE kv
  <2>1. CASE Fits(kv["target"], 1)
    <3>1. kv' = [kv EXCEPT !["target"] = target]
      BY <1>6, <2>1
    <3>2. kv'["draft"] = kv["draft"] /\ kv'["target"] = target
      BY <3>1, OtherCacheStays DEF AllInv, Models
    <3>3. \A i \in 0..Len(SystemPrompt)-1 : i \in 0..CacheSize["target"]-1 /\ i # C
      <4>1. C >= Len(SystemPrompt)
        BY DEF AllInv, AbortInv, Positions
      <4> QED
        BY <1>2, <1>5, <2>1, <4>1, ConstantTypes DEF Models
    <3>4. \A i \in 0..Len(SystemPrompt)-1 :
            target.entry[i] = kv["target"].entry[i]
            /\ (i \in kv["target"].open => i \in target.open)
      BY <1>4, <2>1, <3>3
    <3>5. ASSUME NEW m \in Models
          PROVE  /\ kv'[m].entry \in Entry(CacheSize[m])
                 /\ \A i \in 0..Len(SystemPrompt)-1 :
                      kv'[m].entry[i] = kv[m].entry[i] /\ (i \in kv[m].open => i \in kv'[m].open)
      BY <1>2, <1>4, <2>1, <3>2, <3>4 DEF Models
    <3> QED
      BY <1>6, <3>5, LeavingText
  <2>2. CASE ~Fits(kv["target"], 1)
    BY <1>2, <1>6, <2>2, LeavingText
  <2> QED
    BY <2>1, <2>2
<1>7. CASE /\ \A m \in Models : Fits(kv[m], 1)
           /\ kv' = [target |-> target, draft |-> draft]
           /\ emitted' = Append(emitted, t) /\ prompt' = prompt
           /\ sampledFrom' = batch[current] /\ UNCHANGED treeVars
           /\ IF next = {} THEN pc' = "deliver" /\ batch' = NoBatch
              ELSE current' \in next /\ UNCHANGED <<pc, batch>>
  <2>1. /\ Fits(kv["target"], 1) /\ Fits(kv["draft"], 1)
        /\ kv'["target"] = target /\ kv'["draft"] = draft
    BY <1>7 DEF Models
  <2>2. Text' = Append(Text, t)
    BY <1>7, TextType, TextNow, TextGrows
  <2>3. /\ Text' \in Content /\ Len(Text') = C + 2 /\ LastToken' = t
        /\ \A i \in 0..C+1 : Take(Text', i) = Take(Text, i)
        /\ Take(Text, C + 1) = Text
    <3>1. PICK s : s = Text
      OBVIOUS
    <3>2. s \in Seq(Token) /\ Len(s) = C + 1
      BY <1>2, <3>1 DEF Content
    <3>3. /\ Append(s, t) \in Seq(Token) /\ Len(Append(s, t)) = Len(s) + 1
          /\ Append(s, t)[Len(s) + 1] = t
      BY <3>2, AppendProperties
    <3>4. Take(s, Len(s)) = s /\ \A i \in 0..Len(s) : Take(Append(s, t), i) = Take(s, i)
      BY <3>2, TakeAll, TakeAppend
    <3>5. PICK r : r = Append(s, t)
      OBVIOUS
    <3>6. Text' = r
      BY <2>2, <3>1, <3>5
    <3>7. Text'[Len(Text')] = t
      BY <1>2, <3>2, <3>3, <3>5, <3>6
    <3> QED
      BY <1>2, <3>1, <3>2, <3>3, <3>4, <3>5, <3>6, <3>7 DEF Content, LastToken
  <2>4. ASSUME NEW m \in Models, NEW i \in 0..C
        PROVE  i \in kv'[m].open /\ kv'[m].entry[i] = Take(Text', i+1)
    <3>1. /\ kv'[m].open = kv[m].open \cup {C}
          /\ \A j \in 0..CacheSize[m]-1 : kv'[m].entry[j] = IF j = C THEN Text ELSE kv[m].entry[j]
          /\ C + 1 <= CacheSize[m] /\ CacheSize[m] \in Nat
      BY <1>2, <1>4, <1>5, <2>1 DEF Models
    <3>2. i \in 0..CacheSize[m]-1 /\ i + 1 \in 0..C+1
      BY <1>2, <3>1
    <3>3. CASE i = C
      BY <2>3, <3>1, <3>2, <3>3
    <3>4. CASE i # C
      <4>1. i \in 0..C-1
        BY <1>2, <3>4
      <4> QED
        BY <1>3, <2>3, <3>1, <3>2, <3>4, <4>1
    <3> QED
      BY <3>3, <3>4
  <2>5. pc' \in {"verify", "deliver"}
    BY <1>1, <1>7
  <2>6. kv'["target"].position = C + 1 /\ \A m \in Models : Held(m)' = C + 1
    <3>1. kv'["target"].position = C + 1 /\ C + 1 \in Nat
      BY <1>2, <1>4, <2>1
    <3>2. \A m \in Models : Held(m)' = Committed(m)'
      BY <2>5 DEF Held
    <3>3. Committed("target")' = kv'["target"].position - 0
      BY DEF Committed
    <3>4. Committed("draft")' = kv'["target"].position
      BY <2>5 DEF AllInv, AbortInv, Positions, Generating
    <3> QED
      BY <3>1, <3>2, <3>3, <3>4 DEF Models
  <2>7. TextHeld'
    <3>1. \A m \in Models : \A i \in 0..Held(m)'-1 :
            i \in kv'[m].open /\ kv'[m].entry[i] = Take(Text', i+1)
      <4>1. 0..(C+1)-1 = 0..C
        BY <1>2
      <4> QED
        BY <2>4, <2>6, <4>1
    <3>2. kv'["target"].position = Len(Text') - 1
      BY <1>2, <2>3, <2>6
    <3> QED
      BY <2>5, <3>1, <3>2 DEF TextHeld
  <2>8. EntryTypes'
    <3>1. \A m \in Models : kv'[m].entry \in Entry(CacheSize[m])
      BY <1>4, <2>1 DEF Models
    <3>2. sampledFrom' \in Content
      BY <1>2, <1>3, <1>7
    <3>3. batch' \in [NodeIds -> Content]
      <4>1. Garbage \in Content
        BY EmptySeq DEF Garbage, Content
      <4>2. NoBatch \in [NodeIds -> Content] /\ batch \in [NodeIds -> Content]
        BY <4>1 DEF NoBatch, TextInv, EntryTypes
      <4> QED
        BY <1>7, <4>2
    <3> QED
      BY <3>1, <3>2, <3>3 DEF EntryTypes
  <2>9. CASE next = {}
    BY <1>7, <2>7, <2>8, <2>9, NoTreeText
  <2>10. CASE next # {}
    <3>1. /\ current' \in next /\ pc' = "verify" /\ batch' = batch
          /\ nodes' = nodes /\ nNodes' = nNodes
      BY <1>1, <1>7, <2>10 DEF treeVars
    <3>2. PICK v : v = current'
      OBVIOUS
    <3>3. v \in 0..nNodes-1 /\ nodes[v].parent = current /\ nodes[v].token = t
      BY <3>1, <3>2 DEF Children
    <3>4. current \in Expanded /\ current < v /\ v \in 1..nNodes-1
      <4>1. current # NoParent
        BY <1>3 DEF NoParent
      <4>2. v # 0
        BY <1>1, <3>3, <4>1, TreeFacts
      <4>3. current \in Expanded /\ current < v
        BY <1>1, <3>3, <4>2, TreeFacts
      <4> QED
        BY <1>3, <3>3, <4>2, <4>3
    <3>5. Expanded' = Expanded
      BY <3>1 DEF Expanded
    <3>6. ASSUME NEW u \in Expanded, u >= v PROVE Drafted(u)' = batch[u]
      <4>1. u \in Nat /\ nodes[u].cacheIndex \in Nat /\ nodes[current].cacheIndex \in Nat
        BY <1>1, <3>4, TreeFacts
      <4>2. current < u /\ u >= current
        BY <1>3, <3>4, <3>6, <4>1
      <4>3. nodes[current].cacheIndex < nodes[u].cacheIndex
        BY <1>1, <3>4, <4>2 DEF TextInv, TreeText, Ordered
      <4>4. nodes[current].cacheIndex >= C
        BY <1>1, <3>4, CurrentFacts DEF Expanded
      <4>5. nodes[u].cacheIndex < CacheSize["draft"]
        BY <1>1 DEF DraftedInCache
      <4>6. nodes[u].cacheIndex \in 0..CacheSize["draft"]-1 /\ nodes[u].cacheIndex # C
        BY <1>2, <4>1, <4>3, <4>4, <4>5 DEF Models
      <4>7. draft.entry[nodes[u].cacheIndex] = kv["draft"].entry[nodes[u].cacheIndex]
        BY <1>4, <2>1, <4>6
      <4>8. Drafted(u) = batch[u]
        BY <1>1, <4>2 DEF TextInv, TreeText, Walked
      <4> QED
        BY <2>1, <3>1, <4>7, <4>8 DEF Drafted
    <3>7. Walked'
      <4>1. batch[v] = Text' /\ nodes[v].token = LastToken'
        BY <1>1, <1>3, <2>2, <2>3, <3>3, <3>4 DEF TextInv, TreeText, Walked
      <4>2. \A u \in 1..nNodes-1 : batch[u] = Append(batch[nodes[u].parent], nodes[u].token)
        BY <1>1 DEF TextInv, TreeText, Walked
      <4> QED
        BY <3>1, <3>2, <3>5, <3>6, <4>1, <4>2 DEF Walked
    <3>8. Ordered'
      BY <1>1, <3>1, <3>5 DEF TextInv, TreeText, Ordered
    <3> QED
      BY <2>7, <2>8, <3>1, <3>7, <3>8 DEF TextInv, TreeText
  <2> QED
    BY <2>9, <2>10
<1> QED
  BY <1>1, <1>6, <1>7 DEF VerifyNode, Abort, Throw, target, draft, iterVars

\* Every step keeps the caches and the tree with the text.
LEMMA StepText ==
  ASSUME AllInv, AllInv', TextInv, DraftedInCache, [Next]_vars PROVE TextInv'
<1>1. CASE UNCHANGED vars
  <2>1. /\ pc' = pc /\ kv' = kv /\ Text' = Text /\ queue' = queue /\ nodes' = nodes
        /\ nNodes' = nNodes /\ mainHeap' = mainHeap /\ lastParent' = lastParent
        /\ nSaved' = nSaved /\ batch' = batch /\ current' = current /\ sampledFrom' = sampledFrom
    BY <1>1 DEF vars, iterVars, treeVars, verifyVars, histVars, Text
  <2>2. Expanded' = Expanded /\ LastToken' = LastToken /\ Shown' = Shown
    BY <2>1 DEF Expanded, LastToken, Shown, Branch
  <2>3. EntryTypes' = EntryTypes /\ TextHeld' = TextHeld
    BY <2>1 DEF EntryTypes, TextHeld, Held, Committed, Generating
  <2>4. TreeText' = TreeText
    BY <2>1, <2>2 DEF TreeText, Rooted, Ordered, BehindText, OwnBranch, UnusedBlank, BranchShown,
                      Walked, Drafted, Indices
  <2> QED
    BY <2>3, <2>4 DEF TextInv
<1>2. CASE Construct
  BY <1>2, StartText DEF Construct
<1>3. CASE Prefill
  BY <1>3, PrefillText DEF Prefill
<1>4. CASE PrefillDone
  BY <1>4, PrefillDoneText
<1>5. CASE Serve
  BY <1>5, ServeText, BeginRoundText DEF Serve
<1>6. CASE \E c \in Heap, low \in BOOLEAN : DraftLeaf(c, low)
  BY <1>6, DraftLeafText
<1>7. CASE Expand
  <2>1. PICK c \in Heap, top \in SUBSET Token : \E wide \in SUBSET top : DraftExpand(c, top, wide)
    BY <1>7 DEF Expand, Proposals
  <2> QED
    BY <2>1, DraftExpandText
<1>8. CASE DraftDone
  BY <1>8, DraftDoneText
<1>9. CASE TargetForward
  BY <1>9, TargetForwardText
<1>10. CASE Verify
  BY <1>10, VerifyNodeText DEF Verify
<1>11. CASE Deliver
  BY <1>11, ServeText
<1> QED
  BY <1>1, <1>2, <1>3, <1>4, <1>5, <1>6, <1>7, <1>8, <1>9, <1>10, <1>11 DEF Next, Generate, Draft

----------------------------------------------------------------------------
(* What follows from it *)

FollowInv == AllInv /\ TextInv /\ DraftedInCache

LEMMA FollowInvariant == Spec => []FollowInv
<1>1. Init => FollowInv
  <2> SUFFICES ASSUME Init PROVE FollowInv
    OBVIOUS
  <2>1. AllInv
    BY InitInvariant, InitOrder, InitAbort DEF AllInv
  <2>2. DraftedInCache
    BY DEF Init, DraftedInCache
  <2> QED
    BY <2>1, <2>2, InitText DEF FollowInv
<1>2. FollowInv /\ [Next]_vars => FollowInv'
  <2> SUFFICES ASSUME FollowInv, [Next]_vars PROVE FollowInv'
    OBVIOUS
  <2>1. AllInv'
    BY StepAbort DEF FollowInv
  <2> QED
    BY <2>1, StepText, StepInCache DEF FollowInv
<1> QED
  BY <1>1, <1>2, PTL DEF Spec

\* In every generation, after any number of rounds and of generations before it,
\* both caches hold the text so far without its last token, entry by entry and
\* visible (generate_tokens(), verify(), and every exception in between).
THEOREM CachesFollow == Spec => []CachesFollowText
<1>1. FollowInv => CachesFollowText
  <2> SUFFICES ASSUME FollowInv, Generating, NEW m \in Models
               PROVE  /\ Committed(m) = Len(Text) - 1
                      /\ \A i \in 0..Committed(m)-1 :
                           i \in kv[m].open /\ kv[m].entry[i] = SubSeq(Text, 1, i+1)
    BY DEF CachesFollowText
  <2>1. kv["target"].position = Len(Text) - 1 /\ kv["target"].position \in Nat
    BY CacheFacts DEF FollowInv, TextInv, TextHeld, Caches, Models
  <2>2. Committed("draft") = kv["target"].position
    BY DEF FollowInv, AllInv, AbortInv, Positions
  <2>3. Committed("target") = kv["target"].position
    BY <2>1 DEF Committed
  <2>4. Held(m) = Committed(m)
    BY DEF Held, Generating
  <2>5. \A i \in 0..Held(m)-1 : i \in kv[m].open /\ kv[m].entry[i] = SubSeq(Text, 1, i+1)
    BY DEF FollowInv, TextInv, TextHeld, Take
  <2> QED
    BY <2>1, <2>2, <2>3, <2>4, <2>5 DEF Models
<1> QED
  BY <1>1, FollowInvariant, PTL

\* The recursion of BranchText(u)
IsBranchText(f) ==
  f = [v \in NodeIds |->
         IF nodes[v].parent = NoParent THEN Text ELSE Append(f[nodes[v].parent], nodes[v].token)]

\* Every drafted entry was computed from its own branch alone, whatever the tree:
\* switch_parent() keeps the other branches from attention.
THEOREM OwnBranches == Spec => []DraftedFromOwnBranch
<1>1. FollowInv => DraftedFromOwnBranch
  <2> SUFFICES ASSUME FollowInv, pc \in {"draft", "target"}
               PROVE  \A u \in Expanded : Drafted(u) = BranchText(u)
    BY DEF DraftedFromOwnBranch, Expanded, Drafted
  <2> DEFINE f == [v \in NodeIds |->
                     IF v = 0 \/ v >= nNodes THEN Text
                     ELSE Append(Drafted(nodes[v].parent), nodes[v].token)]
             g == CHOOSE g : IsBranchText(g)
  <2>1. AllInv /\ OwnBranch /\ UnusedBlank
    BY DEF FollowInv, TextInv, TreeText
  <2>2. \A v \in Expanded :
          Drafted(v) = IF v = 0 THEN Text ELSE Append(Drafted(nodes[v].parent), nodes[v].token)
    BY <2>1 DEF OwnBranch
  <2>3. \A v \in Expanded : v \in 0..nNodes-1 /\ v \in NodeIds /\ v \in Nat
    BY <2>1, TreeFacts
  <2>4. nNodes \in Nat /\ NodeIds \subseteq Nat
    BY <2>1, TreeFacts
  <2>5. \A v \in Expanded : f[v] = Drafted(v)
    BY <2>2, <2>3, <2>4
  <2>6. IsBranchText(f)
    <3>1. ASSUME NEW v \in NodeIds
          PROVE  f[v] = IF nodes[v].parent = NoParent THEN Text
                        ELSE Append(f[nodes[v].parent], nodes[v].token)
      <4>1. CASE v >= nNodes
        BY <2>1, <4>1 DEF UnusedBlank
      <4>2. CASE ~(v >= nNodes) /\ v = 0
        <5>1. v \in 0..nNodes-1
          BY <2>4, <4>2
        <5>2. nodes[v].parent = NoParent
          BY <2>1, <4>2, <5>1, TreeFacts
        <5> QED
          BY <4>2, <5>2
      <4>3. CASE ~(v >= nNodes) /\ v # 0
        <5>1. PICK p : p = nodes[v].parent
          OBVIOUS
        <5>2. v \in 0..nNodes-1
          BY <2>4, <4>3
        <5>3. p # NoParent /\ p \in Expanded
          BY <2>1, <4>3, <5>1, <5>2, TreeFacts
        <5>4. f[v] = Append(Drafted(p), nodes[v].token)
          BY <4>3, <5>1
        <5>5. f[p] = Drafted(p)
          BY <2>5, <5>3
        <5> HIDE DEF f
        <5> QED
          BY <5>1, <5>3, <5>4, <5>5
      <4> QED
        BY <4>1, <4>2, <4>3
    <3>2. f = [v \in NodeIds |-> f[v]]
      OBVIOUS
    <3> HIDE DEF f
    <3> QED
      BY <3>1, <3>2 DEF IsBranchText
  <2> HIDE DEF f
  <2>7. IsBranchText(g)
    BY <2>6
  <2>8. \A u : BranchText(u) = g[u]
    BY DEF BranchText, IsBranchText
  <2> HIDE DEF g
  <2>9. ASSUME NEW u \in Expanded, \A v \in Expanded : v < u => g[v] = Drafted(v)
        PROVE  g[u] = Drafted(u)
    <3>1. g[u] = IF nodes[u].parent = NoParent THEN Text
                 ELSE Append(g[nodes[u].parent], nodes[u].token)
      BY <2>3, <2>7 DEF IsBranchText
    <3>2. /\ u = 0 <=> nodes[u].parent = NoParent
          /\ u # 0 => nodes[u].parent \in Expanded /\ nodes[u].parent < u
      BY <2>1, <2>3, TreeFacts
    <3> QED
      BY <2>2, <2>9, <3>1, <3>2
  <2> DEFINE wrong == {u \in Expanded : g[u] # Drafted(u)}
  <2>10. ASSUME wrong # {} PROVE FALSE
    <3>1. wrong \subseteq Nat
      BY <2>3
    <3>2. PICK u \in wrong : \A v \in wrong : u <= v
      BY <2>10, <3>1, LeastElement
    <3>3. \A v \in Expanded : v < u => g[v] = Drafted(v)
      BY <2>3, <3>2
    <3> QED
      BY <2>9, <3>2, <3>3
  <2> QED
    BY <2>8, <2>10
<1> QED
  BY <1>1, FollowInvariant, PTL

\* A step of speculative decoding submits a prompt, samples one token behind the
\* text, or leaves both text and logits as they are.
LEMMA StepLossless ==
  ASSUME FollowInv, FollowInv', [Next]_vars
  PROVE  [Autoregressive!Next]_(Autoregressive!vars)
<1> DEFINE same == Text' = Text /\ sampledFrom' = sampledFrom
<1>1. ASSUME same PROVE UNCHANGED Autoregressive!vars
  BY <1>1 DEF Autoregressive!vars
<1>2. pc' # "aborted"
  BY DEF FollowInv, AllInv, AbortInv, NoAssertionFails
<1>3. CASE Construct
  <2>1. PICK p \in Prompts, n \in 1..MaxSteps : Start(p, n)
    BY <1>3 DEF Construct
  <2>2. prompt' = p /\ emitted' = <<>> /\ sampledFrom' = <<>> /\ p \in Seq(Token)
    BY <1>2, <2>1, SpecAssumption DEF Start, Abort, Content
  <2>3. SystemPrompt \o p \in Seq(Token)
    BY <2>2, SpecAssumption, ConcatProperties DEF Content
  <2>4. Text' = SystemPrompt \o p
    BY <2>2, <2>3, ConcatEmptySeq DEF Text
  <2>5. Autoregressive!Submit(p)
    BY <2>2, <2>4 DEF Autoregressive!Submit
  <2> QED
    BY <2>1, <2>5 DEF Autoregressive!Next
<1>4. CASE Verify
  <2>1. PICK t \in Token : VerifyNode(t)
    BY <1>4 DEF Verify
  <2>2. pc = "verify" /\ batch[current] = Text
    BY <2>1, CurrentFacts DEF VerifyNode, FollowInv
  <2>3. CASE emitted' = Append(emitted, t) /\ sampledFrom' = batch[current] /\ prompt' = prompt
    <3>1. Text' = Append(Text, t)
      BY <2>3, TextType, TextNow, TextGrows DEF FollowInv
    <3>2. Autoregressive!Sample(t)
      BY <2>2, <2>3, <3>1 DEF Autoregressive!Sample
    <3> QED
      BY <3>2 DEF Autoregressive!Next
  <2>4. CASE same
    BY <1>1, <2>4
  <2>5. CASE pc' = "ready"
    <3>1. same
      BY <2>1, <2>2, <2>5 DEF VerifyNode, Abort, Throw, iterVars, histVars, Text
    <3> QED
      BY <2>4, <3>1
  <2>6. CASE pc' # "ready"
    <3>1. emitted' = Append(emitted, t) /\ sampledFrom' = batch[current] /\ prompt' = prompt
      BY <1>2, <2>1, <2>6 DEF VerifyNode, Abort, Throw
    <3> QED
      BY <2>3, <3>1
  <2> QED
    BY <2>5, <2>6
<1>5. CASE ~Construct /\ ~Verify
  <2>1. ASSUME Prefill \/ PrefillDone \/ Serve PROVE same
    BY <2>1 DEF Prefill, Serve, PrefillBatch, PrefillDone, NextQueued, BeginRound, Finish,
                Throw, Abort, vars, iterVars, histVars, Text
  <2>2. ASSUME Draft PROVE same
    BY <2>2 DEF Draft, Expand, DraftLeaf, DraftExpand, DraftDone, Throw, Abort,
                vars, iterVars, histVars, Text
  <2>3. ASSUME TargetForward \/ Deliver PROVE same
    BY <2>3 DEF TargetForward, Deliver, Throw, Abort, vars, iterVars, histVars, Text
  <2>4. ASSUME UNCHANGED vars PROVE same
    BY <2>4 DEF vars, iterVars, histVars, Text
  <2>5. same
    <3> HIDE DEF same
    <3> QED
      BY <1>5, <2>1, <2>2, <2>3, <2>4 DEF Next, Generate
  <2> QED
    BY <1>1, <2>5
<1> QED
  BY <1>3, <1>4, <1>5

\* Speculation is lossless: every token verify() takes over is sampled from the
\* target's output for exactly the text before it, as if it had been decoded one
\* token at a time.
THEOREM LosslessDecoding == Spec => Lossless
<1>1. Init => Autoregressive!Init
  <2> SUFFICES ASSUME Init PROVE Autoregressive!Init
    OBVIOUS
  <2>1. prompt = <<>> /\ emitted = <<>> /\ sampledFrom = <<>> /\ SystemPrompt \in Seq(Token)
    BY SpecAssumption DEF Init, Content
  <2>2. Text = SystemPrompt
    BY <2>1, ConcatEmptySeq DEF Text
  <2> QED
    BY <2>1, <2>2 DEF Autoregressive!Init
<1>2. FollowInv /\ FollowInv' /\ [Next]_vars => [Autoregressive!Next]_(Autoregressive!vars)
  BY StepLossless
<1> QED
  BY <1>1, <1>2, FollowInvariant, PTL DEF Spec, Lossless, Autoregressive!Spec

----------------------------------------------------------------------------
(* Types *)

\* What TypeOK says beyond the invariants above; a round is begun with tokens
\* still to deliver.
RestTypes ==
  /\ pc \in {"ready", "prefill", "serve", "draft", "target", "verify", "deliver", "aborted"}
  /\ nRest \in 0..MaxSteps /\ nRuns \in 0..MaxRuns
  /\ pc \in {"draft", "target", "verify", "deliver"} => nRest # 0
  /\ lastParent \in NodeIds \cup {NoParent} /\ nSaved \in 0..nNodes /\ belowMin \in BOOLEAN

LEMMA InitRest == Init => RestTypes
<1> SUFFICES ASSUME Init PROVE RestTypes
  OBVIOUS
<1>1. pc = "ready" /\ nRest = 0 /\ nRuns = 0 /\ lastParent = NoParent /\ nSaved = 0 /\ nNodes = 0
  BY DEF Init
<1>2. belowMin \in BOOLEAN
  BY DEF Init
<1>3. 0 \in 0..MaxSteps /\ 0 \in 0..MaxRuns /\ 0 \in 0..0
  BY SpecAssumption
<1> QED
  BY <1>1, <1>2, <1>3 DEF RestTypes

LEMMA StepRest ==
  ASSUME AllInv, AllInv', RestTypes, [Next]_vars PROVE RestTypes'
<1>1. /\ nNodes \in 0..DraftBatch /\ DraftBatch \in Nat /\ MaxSteps \in Nat /\ MaxRuns \in Nat
      /\ nNodes \in Nat /\ nRest \in Nat
  BY ConstantTypes, SpecAssumption DEF AllInv, AbortInv, TreeTypes, RestTypes
<1>2. CASE UNCHANGED vars
  BY <1>2 DEF vars, iterVars, treeVars, histVars, RestTypes
<1>3. CASE Construct
  BY <1>1, <1>3 DEF Construct, Start, Abort, RestTypes, iterVars, treeVars, histVars
<1>4. CASE Prefill \/ PrefillDone \/ Finish
  BY <1>4 DEF Prefill, PrefillBatch, PrefillDone, Finish, Throw, RestTypes, iterVars, treeVars,
              histVars
<1>5. CASE NextQueued
  <2>1. nRest # 0
    BY <1>5 DEF NextQueued, Stopped
  <2> QED
    BY <1>1, <1>5, <2>1 DEF NextQueued, Pop, RestTypes, treeVars
<1>6. CASE BeginRound
  <2>1. nRest # 0 /\ nRest' = nRest /\ nRuns' = nRuns /\ pc' = "draft"
    BY <1>6 DEF BeginRound, Stopped, iterVars, histVars
  <2>2. lastParent' = NoParent /\ nSaved' = 0 /\ nNodes' = 0
    BY <1>6 DEF BeginRound, ResetTree
  <2>3. belowMin' \in BOOLEAN
    BY <1>6 DEF BeginRound, ResetTree
  <2>4. nSaved' \in 0..nNodes'
    BY <2>2
  <2> QED
    BY <2>1, <2>2, <2>3, <2>4 DEF RestTypes
<1>7. ASSUME NEW c, NEW low, DraftLeaf(c, low) PROVE RestTypes'
  <2>1. /\ pc' = pc /\ nRest' = nRest /\ nRuns' = nRuns /\ lastParent' = lastParent
        /\ nSaved' = nSaved /\ nNodes' = nNodes + 1
    BY <1>7 DEF DraftLeaf, iterVars, histVars
  <2>2. nSaved' \in 0..nNodes'
    BY <1>1, <2>1 DEF RestTypes
  <2>3. belowMin' \in BOOLEAN
    BY <1>7 DEF DraftLeaf, CutOptions, RestTypes
  <2> QED
    BY <2>1, <2>2, <2>3 DEF RestTypes
<1>8. ASSUME NEW c, NEW top, NEW wide, DraftExpand(c, top, wide) PROVE RestTypes'
  <2>1. CASE pc' = "ready" \/ pc' = "aborted"
    BY <1>8, <2>1 DEF DraftExpand, Throw, Abort, RestTypes, iterVars, treeVars, histVars
  <2>2. CASE ~(pc' = "ready" \/ pc' = "aborted")
    <3>1. /\ pc' = pc /\ nRest' = nRest /\ nRuns' = nRuns /\ belowMin' = belowMin
          /\ nNodes' = nNodes + 1 /\ lastParent' = nNodes /\ nSaved' = nSaved + 1
          /\ nNodes < DraftBatch
      BY <1>8, <2>2 DEF DraftExpand, Throw, Abort, iterVars, histVars
    <3>2. nNodes \in NodeIds /\ nSaved + 1 \in 0..nNodes+1
      BY <1>1, <3>1 DEF NodeIds, RestTypes
    <3> QED
      BY <3>1, <3>2 DEF RestTypes
  <2> QED
    BY <2>1, <2>2
<1>9. CASE DraftDone \/ TargetForward
  BY <1>9 DEF DraftDone, TargetForward, Throw, RestTypes, iterVars, treeVars, histVars
<1>10. ASSUME NEW t, VerifyNode(t) PROVE RestTypes'
  BY <1>10 DEF VerifyNode, Throw, Abort, RestTypes, iterVars, treeVars, histVars
<1>11. CASE Deliver
  <2>1. pc' # "aborted"
    BY DEF AllInv, AbortInv, NoAssertionFails
  <2> QED
    BY <1>1, <1>11, <2>1 DEF Deliver, Pop, Abort, RestTypes, treeVars
<1> QED
  BY <1>2, <1>3, <1>4, <1>5, <1>6, <1>7, <1>8, <1>9, <1>10, <1>11
     DEF Next, Generate, Serve, Draft, Expand, Verify

\* Every variable has its type: no cache runs past its size, no tree past its
\* vector.
THEOREM TypesCorrect == Spec => []TypeOK
<1>1. FollowInv /\ RestTypes => TypeOK
  <2> SUFFICES ASSUME FollowInv, RestTypes PROVE TypeOK
    OBVIOUS
  <2>1. AllInv /\ EntryTypes /\ DraftBatch \in Nat
    BY ConstantTypes DEF FollowInv, TextInv
  <2>2. DOMAIN kv = Models
    BY <2>1 DEF AllInv, IInv, CacheInv, SoundCaches
  <2>3. ASSUME NEW m \in Models PROVE kv[m] \in Cache(CacheSize[m])
    <3>1. PICK c, size : c = kv[m] /\ size = CacheSize[m]
      OBVIOUS
    <3>2. Sound(c, size) /\ c.entry \in [0..size-1 -> Content] /\ size \in Nat
      BY <2>1, <3>1, CacheFacts DEF Caches, EntryTypes, Entry
    <3>3. c.open \in SUBSET (0..size-1)
      BY <3>2 DEF Sound
    <3>4. c \in [size : {size}, position : 0..size, open : SUBSET Nat, entry : {c.entry}]
      BY <3>2 DEF Sound
    <3>5. c \in [size : {size}, position : 0..size, open : SUBSET (0..size-1),
                 entry : [0..size-1 -> Content]]
      BY <3>2, <3>3, <3>4
    <3> QED
      BY <3>1, <3>5 DEF Cache
  <2>4. /\ prompt \in Content /\ tokens \in Content /\ queue \in Content
        /\ prefilled \in [Models -> Nat]
        /\ emitted \in Content /\ delivered \in Content
    BY <2>1 DEF AllInv, OrderInv, TextTypes, IInv, PromptTypes
  <2>5. /\ nodes \in [NodeIds -> Node] /\ nNodes \in 0..DraftBatch /\ current \in NodeIds
        /\ mainHeap \subseteq Candidate /\ leafHeap \subseteq Candidate
    BY <2>1 DEF AllInv, AbortInv, TreeTypes, NodeTypes
  <2>6. batch \in [NodeIds -> Content] /\ sampledFrom \in Content
    BY <2>1 DEF EntryTypes
  <2>7. nSaved \in 0..DraftBatch
    BY <2>1, <2>5 DEF RestTypes
  <2> QED
    BY <2>2, <2>3, <2>4, <2>5, <2>6, <2>7 DEF TypeOK, RestTypes
<1>2. FollowInv /\ FollowInv' /\ RestTypes /\ [Next]_vars => RestTypes'
  BY StepRest DEF FollowInv
<1> QED
  BY <1>1, <1>2, InitRest, FollowInvariant, PTL DEF Spec
=============================================================================
