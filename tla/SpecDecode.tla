------------------------------ MODULE SpecDecode ------------------------------
(***************************************************************************)
(* Speculative decoding: SpecTokenIterator (src/speculative/spec_model)    *)
(* drives TokenTree (src/speculative/token_tree) over the key/value caches *)
(* of a target and a draft model on the QNN backend.                       *)
(*                                                                         *)
(* One round drafts a tree of candidate tokens with the small model,       *)
(* evaluates the whole tree in one batch of the big model, and walks down  *)
(* the tree as long as the sampled token is a child of the current node.   *)
(* Everything runs in the caller's thread; what makes it hard is that the  *)
(* two caches are advanced, masked, rolled back and patched separately and *)
(* must stay the cache of one and the same text.                           *)
(*                                                                         *)
(* Probabilities are abstracted to the choices they decide: which top_k    *)
(* tokens the draft proposes, how many of them may be expanded, which      *)
(* candidate leads its heap, and when the min_prob cut sets in.            *)
(***************************************************************************)
EXTENDS KVCache

CONSTANTS StopTokens,     \* Tokenizer::should_stop
          SystemPrompt,   \* tokens whose entries are preloaded (kv_size of them)
          Prompts,        \* tokenised prompts a caller may submit
          CacheSize,      \* cache_size of each model
          MaxBatch,       \* max_batch_size of each model
          DraftBatch,     \* draft_batch_size
          TopK,           \* draft_sampler.top_k
          MaxFanOut,      \* token_tree.max_fan_out
          EarlyStop,      \* token_tree.early_stop
          MaxSteps,       \* bound: tokens asked of one iterator
          MaxRuns         \* bound: generations

Models == {"target", "draft"}

ASSUME SpecAssumption ==
  /\ Token # {} /\ StopTokens \subseteq Token
  /\ SystemPrompt \in Content
  /\ Prompts \subseteq Content \ {<<>>}
  /\ CacheSize \in [Models -> Nat] /\ MaxBatch \in [Models -> Nat \ {0}]
  /\ \A m \in Models : Len(SystemPrompt) <= CacheSize[m]
  \* split_batch would cut a larger tree in pieces that do not see each other,
  \* and nothing in the code checks the configuration for it
  /\ DraftBatch \in 1..MaxBatch["target"]
  /\ TopK \in Nat \ {0} /\ MaxFanOut \in Nat \ {0} /\ EarlyStop \in BOOLEAN
  /\ MaxSteps \in Nat /\ MaxRuns \in Nat

VARIABLES
  pc,           \* where the caller's thread is
  kv,           \* the key/value cache of each model
  prompt,       \* tokens of the prompt of the current generation
  prefilled,    \* prompt tokens each model has evaluated
  nRest,        \* n_rest
  tokens,       \* m_tokens
  queue,        \* token_queue
  nodes,        \* the token tree, a vector of DraftBatch nodes
  nNodes,       \* n_nodes
  mainHeap, leafHeap,
  lastParent,   \* last_parent
  nSaved,       \* n_saved_tokens
  belowMin,     \* a candidate under min_prob has been popped
  batch,        \* the target's evaluation of the tree
  current,      \* the node verify() is at
  emitted,      \* history: tokens enqueued by verify() in this generation
  sampledFrom,  \* history: the text behind the logits of the last of them
  delivered,    \* history: tokens next() has returned in this generation
  nRuns         \* generations started

iterVars == <<prompt, prefilled, nRest, tokens, queue>>
treeVars == <<nodes, nNodes, mainHeap, leafHeap, lastParent, nSaved, belowMin>>
verifyVars == <<batch, current>>
histVars == <<emitted, sampledFrom, delivered, nRuns>>
vars == <<pc, kv, iterVars, treeVars, verifyVars, histVars>>

----------------------------------------------------------------------------
(* The tree *)

NodeIds == 0..DraftBatch-1
NoParent == -1
NotInCache == -1

BlankNode == [parent |-> NoParent, token |-> CHOOSE t \in Token : TRUE,
              position |-> 0, cacheIndex |-> NotInCache]

\* The evaluation of the tree and the place in it live as long as verify() runs.
NoBatch == [u \in NodeIds |-> Garbage]

\* A node and its ancestors: the walk to the root in attention_mask() and lca().
Branch(u) ==
  LET up[v \in NodeIds] ==
        {v} \cup IF nodes[v].parent = NoParent THEN {} ELSE up[nodes[v].parent]
  IN  up[u]

\* (broken variant: siblings see each other)
CausalTreeMask == Causal(DraftBatch)

\* attention_mask(): a node sees its ancestors, and itself
TreeMask == [u \in NodeIds |-> Branch(u) \ {u}]

Children(u) == {v \in 0..nNodes-1 : nodes[v].parent = u}

\* reset() and the push of the root
ResetTree(root) ==
  /\ nodes' = [u \in NodeIds |-> BlankNode]
  /\ mainHeap' = {[token |-> root, parent |-> NoParent]}
  /\ leafHeap' = {}
  /\ nNodes' = 0 /\ lastParent' = NoParent /\ nSaved' = 0 /\ belowMin' = FALSE

\* (broken variant: the old branch stays visible)
SwitchWithoutMask(cache, old, new) ==
  Unmask(cache, {nodes[u].cacheIndex : u \in Branch(new) \ Branch(old)})

\* switch_parent(): close the entries of the old branch, open those of the new
SwitchParent(cache, old, new) ==
  LET indices(U) == {nodes[u].cacheIndex : u \in U}
  IN  Unmask(Mask(cache, indices(Branch(old) \ Branch(new))),
             indices(Branch(new) \ Branch(old)))

\* The assertions of switch_parent(), and those of mask() and unmask() under it
\* which would throw. Neither kind may fail, so a failure counts as an Abort.
CanSwitch(cache, old, new) ==
  \A u \in (Branch(old) \ Branch(new)) \cup (Branch(new) \ Branch(old)) :
     nodes[u].cacheIndex # NotInCache /\ InUse(cache, nodes[u].cacheIndex)

----------------------------------------------------------------------------
(* Exceptions and failed assertions *)

\* A ModuleException of the cache leaves next() or the constructor; the caller
\* drops the iterator and may start another generation on the same models.
Throw ==
  /\ pc' = "ready"
  /\ UNCHANGED <<iterVars, treeVars, verifyVars, histVars>>

\* POWERSERVE_ASSERT ends the process.
Abort ==
  /\ pc' = "aborted"
  /\ UNCHANGED <<kv, iterVars, treeVars, verifyVars, histVars>>

----------------------------------------------------------------------------
(* SpecTokenIterator: construction *)

Start(p, steps) ==
  LET cleared == [m \in Models |-> TruncateTokens(kv[m], Len(SystemPrompt))]
  IN  /\ pc = "ready" /\ nRuns < MaxRuns
      /\ IF cleared["target"].position = cleared["draft"].position
         THEN /\ kv' = cleared
              /\ prompt' = p /\ prefilled' = [m \in Models |-> 0]
              /\ nRest' = steps /\ tokens' = <<>> /\ queue' = <<>>
              /\ emitted' = <<>> /\ sampledFrom' = <<>> /\ delivered' = <<>>
              /\ nRuns' = nRuns + 1
              /\ pc' = "prefill"
              /\ UNCHANGED <<treeVars, verifyVars>>
         ELSE Abort

\* Positions are numbered from the position after the system prompt.
BatchPositions(m, n) == [u \in 0..n-1 |-> Len(SystemPrompt) + prefilled[m] + u]

\* One batch of QNNBackend::forward() over the prompt without its last token.
PrefillBatch(m) ==
  LET done  == prefilled[m]
      n     == IF Len(prompt) - 1 - done < MaxBatch[m]
               THEN Len(prompt) - 1 - done ELSE MaxBatch[m]
      pos   == BatchPositions(m, n)
      input == [u \in 0..n-1 |-> prompt[done + u + 1]]
  IN  /\ pc = "prefill" /\ n > 0
      /\ m = "draft" => prefilled["target"] = Len(prompt) - 1
      /\ \/ /\ Fits(kv[m], n)
            /\ kv' = [kv EXCEPT ![m] =
                 AdvanceTokens(SaveTokens(@, Forward(@, input, pos, Causal(n)), n), n)]
            /\ prefilled' = [prefilled EXCEPT ![m] = @ + n]
            /\ UNCHANGED <<pc, prompt, nRest, tokens, queue, treeVars, verifyVars, histVars>>
         \/ ~Fits(kv[m], n) /\ Throw /\ UNCHANGED kv

PrefillDone ==
  /\ pc = "prefill"
  /\ \A m \in Models : prefilled[m] = Len(prompt) - 1
  /\ tokens' = <<prompt[Len(prompt)]>>
  /\ pc' = "serve"
  /\ UNCHANGED <<kv, prompt, prefilled, nRest, queue, treeVars, verifyVars, histVars>>

----------------------------------------------------------------------------
(* TokenIterator: next() and end() *)

\* The caller stops at end(), or at a stop token after the first token, which
\* is the last of the prompt.
Stopped ==
  \/ nRest = 0
  \/ Len(delivered) > 1 /\ delivered[Len(delivered)] \in StopTokens

Finish ==
  /\ pc = "serve" /\ Stopped
  /\ pc' = "ready"
  /\ UNCHANGED <<kv, iterVars, treeVars, verifyVars, histVars>>

\* next() returns the front and decode() drops it.
Pop(rest) ==
  /\ delivered' = Append(delivered, Head(tokens))
  /\ tokens' = rest
  /\ nRest' = nRest - 1

NextQueued ==
  /\ pc = "serve" /\ ~Stopped /\ Len(tokens) > 1
  /\ Pop(Tail(tokens))
  /\ UNCHANGED <<pc, kv, prompt, prefilled, queue, treeVars, verifyVars,
                 emitted, sampledFrom, nRuns>>

\* decode() with one token left starts a round from it.
BeginRound ==
  /\ pc = "serve" /\ ~Stopped /\ Len(tokens) = 1
  /\ ResetTree(tokens[1])
  /\ pc' = "draft"
  /\ UNCHANGED <<kv, iterVars, verifyVars, histVars>>

----------------------------------------------------------------------------
(* TokenTree::draft *)

\* The next node comes from the main heap, from the leaf heap when that is empty.
Leaves == mainHeap = {}
Heap == IF Leaves THEN leafHeap ELSE mainHeap

AddNode(c) ==
  nodes' = [nodes EXCEPT ![nNodes] =
    [@ EXCEPT !.parent = c.parent, !.token = c.token,
              !.position = IF c.parent = NoParent THEN kv["draft"].position
                           ELSE nodes[c.parent].position + 1]]

\* cumulative_prob < min_prob: never for the root, and once true true for the rest
CutOptions(c) ==
  IF Leaves \/ belowMin \/ c.parent = NoParent THEN {belowMin} ELSE BOOLEAN

\* The early termination test that is not about probability
Unexpandable(c) ==
  \/ Leaves
  \/ c.token \in StopTokens
  \/ nNodes + 1 + (IF EarlyStop THEN Cardinality(mainHeap \ {c}) \div 2 ELSE 0) >= DraftBatch

DraftLeaf(c, low) ==
  /\ pc = "draft" /\ nNodes < DraftBatch /\ c \in Heap /\ low \in CutOptions(c)
  /\ Unexpandable(c) \/ low
  /\ AddNode(c)
  /\ nNodes' = nNodes + 1
  /\ mainHeap' = mainHeap \ {c}
  /\ leafHeap' = IF Leaves THEN leafHeap \ {c} ELSE leafHeap
  /\ belowMin' = low
  /\ UNCHANGED <<pc, kv, iterVars, lastParent, nSaved, verifyVars, histVars>>

\* The draft model evaluates the node and proposes the tokens of `top'; those in
\* `wide' go to the main heap, the others may only become leaves.
DraftExpand(c, top, wide) ==
  LET u      == nNodes
      switch == lastParent # NoParent /\ c.parent # lastParent
      cache  == IF switch THEN SwitchParent(kv["draft"], lastParent, c.parent) ELSE kv["draft"]
      cands(S) == {[token |-> t, parent |-> u] : t \in S}
  IN  /\ pc = "draft" /\ nNodes < DraftBatch /\ c \in Heap /\ FALSE \in CutOptions(c)
      /\ ~Unexpandable(c)
      /\ IF switch /\ ~CanSwitch(kv["draft"], lastParent, c.parent) THEN Abort
         ELSE
         \/ /\ Fits(cache, 1)
            /\ nodes' = [nodes EXCEPT ![u] =
                 [parent |-> c.parent, token |-> c.token, cacheIndex |-> cache.position,
                  position |-> IF c.parent = NoParent THEN cache.position
                               ELSE nodes[c.parent].position + 1]]
            /\ kv' = [kv EXCEPT !["draft"] = ForwardOne(cache, c.token, nodes'[u].position)]
            /\ nNodes' = nNodes + 1
            /\ mainHeap' = (mainHeap \ {c}) \cup cands(wide)
            /\ leafHeap' = leafHeap \cup cands(top \ wide)
            /\ lastParent' = u
            /\ nSaved' = nSaved + 1
            /\ UNCHANGED <<pc, iterVars, belowMin, verifyVars, histVars>>
         \/ ~Fits(cache, 1) /\ Throw /\ kv' = [kv EXCEPT !["draft"] = cache]

\* (broken variant: waits for a full tree)
DraftDoneWhenFull ==
  /\ pc = "draft"
  /\ nNodes = DraftBatch
  /\ kv' = [kv EXCEPT !["draft"] = RollbackTokens(@, nSaved)]
  /\ pc' = "target"
  /\ UNCHANGED <<iterVars, treeVars, verifyVars, histVars>>

\* (broken variant: keeps the drafted tokens in the cache)
DraftDoneKeeps ==
  /\ pc = "draft"
  /\ nNodes = DraftBatch \/ Heap = {}
  /\ pc' = "target"
  /\ UNCHANGED <<kv, iterVars, treeVars, verifyVars, histVars>>

\* The tree is full or both heaps are empty.
DraftDone ==
  /\ pc = "draft"
  /\ nNodes = DraftBatch \/ Heap = {}
  /\ kv' = [kv EXCEPT !["draft"] = RollbackTokens(@, nSaved)]
  /\ pc' = "target"
  /\ UNCHANGED <<iterVars, treeVars, verifyVars, histVars>>

----------------------------------------------------------------------------
(* SpecTokenIterator::generate_tokens and TokenTree::verify *)

\* The target evaluates every slot of the tree, unused ones too, in one batch,
\* and takes the batch back out of its cache. (Bound to saved, TLC evaluates the
\* batch only once.)
TargetForward ==
  /\ pc = "target"
  /\ \/ /\ Fits(kv["target"], DraftBatch)
        /\ batch' = Forward(kv["target"],
                            [u \in NodeIds |-> nodes[u].token],
                            [u \in NodeIds |-> nodes[u].position],
                            TreeMask)
        /\ \E saved \in {SaveTokens(kv["target"], batch', DraftBatch)} :
             kv' = [kv EXCEPT !["target"] =
                      RollbackTokens(AdvanceTokens(saved, DraftBatch), DraftBatch)]
        /\ current' = 0
        /\ pc' = "verify"
        /\ UNCHANGED <<iterVars, treeVars, histVars>>
     \/ ~Fits(kv["target"], DraftBatch) /\ Throw /\ UNCHANGED kv

\* (broken variant: takes the entry at position for the accepted one)
DraftAcceptInPlace(node) ==
  IF node.cacheIndex = NotInCache
  THEN ForwardOne(kv["draft"], node.token, node.position)
  ELSE AdvanceTokens(kv["draft"], 1)

\* The draft cache after a node is accepted: the entry drafted for it, or a
\* forward pass to catch up.
DraftAccept(node) ==
  IF node.cacheIndex = NotInCache
  THEN ForwardOne(kv["draft"], node.token, node.position)
  ELSE AdvanceTokens(Move(kv["draft"], node.position, node.cacheIndex), 1)

\* One turn of the loop of verify(): accept the current node in both caches,
\* sample t from its logits, and go on from the child that guessed t.
VerifyNode(t) ==
  LET node == nodes[current]
      next == {v \in Children(current) : nodes[v].token = t}
  IN  /\ pc = "verify"
      /\ IF \/ \E m \in Models : kv[m].position # node.position
            \/ node.cacheIndex # NotInCache /\ node.cacheIndex < node.position
         THEN Abort
         ELSE LET target == AdvanceTokens(Copy(kv["target"], node.position, batch, current), 1)
              IN
              \/ /\ \A m \in Models : Fits(kv[m], 1)
                 /\ kv' = [target |-> target, draft |-> DraftAccept(node)]
                 /\ queue' = Append(queue, t)
                 /\ emitted' = Append(emitted, t)
                 /\ sampledFrom' = batch[current]
                 /\ IF next = {} THEN pc' = "deliver" /\ current' = 0 /\ batch' = NoBatch
                    ELSE current' \in next /\ UNCHANGED <<pc, batch>>
                 /\ UNCHANGED <<prompt, prefilled, nRest, tokens, treeVars, delivered, nRuns>>
              \/ /\ \E m \in Models : ~Fits(kv[m], 1)
                 /\ kv' = IF Fits(kv["target"], 1) THEN [kv EXCEPT !["target"] = target] ELSE kv
                 /\ Throw

\* (broken variant: token_queue is not cleared)
DeliverKeepsQueue ==
  /\ pc = "deliver"
  /\ Pop(Tail(tokens \o queue))
  /\ pc' = "serve"
  /\ UNCHANGED <<kv, prompt, prefilled, queue, treeVars, verifyVars,
                 emitted, sampledFrom, nRuns>>

\* The rest of decode(): take over the queue, then drop the root token.
Deliver ==
  /\ pc = "deliver"
  /\ IF queue = <<>> THEN Abort
     ELSE /\ Pop(Tail(tokens \o queue))
          /\ queue' = <<>>
          /\ pc' = "serve"
          /\ UNCHANGED <<kv, prompt, prefilled, treeVars, verifyVars,
                         emitted, sampledFrom, nRuns>>

----------------------------------------------------------------------------
Init ==
  /\ pc = "ready"
  /\ kv = [m \in Models |->
       [size |-> CacheSize[m], position |-> Len(SystemPrompt),
        open |-> 0..Len(SystemPrompt)-1,
        entry |-> [i \in 0..CacheSize[m]-1 |->
                     IF i < Len(SystemPrompt) THEN SubSeq(SystemPrompt, 1, i+1) ELSE Garbage]]]
  /\ prompt = <<>> /\ prefilled = [m \in Models |-> 0]
  /\ nRest = 0 /\ tokens = <<>> /\ queue = <<>>
  /\ nodes = [u \in NodeIds |-> BlankNode] /\ nNodes = 0
  /\ mainHeap = {} /\ leafHeap = {}
  /\ lastParent = NoParent /\ nSaved = 0 /\ belowMin = FALSE
  /\ batch = NoBatch /\ current = 0
  /\ emitted = <<>> /\ sampledFrom = <<>> /\ delivered = <<>> /\ nRuns = 0

Construct == (\E p \in Prompts, n \in 1..MaxSteps : Start(p, n))
Prefill == \E m \in Models : PrefillBatch(m)
\* Proposals(n) are the sets of n tokens, or all tokens when there are fewer.
Proposals(n) ==
  {S \in SUBSET Token : Cardinality(S) = IF Cardinality(Token) < n THEN Cardinality(Token) ELSE n}
Expand ==
  \E c \in Heap, top \in Proposals(TopK) :
    \E wide \in SUBSET top \ {{}} :
      Cardinality(wide) <= MaxFanOut /\ DraftExpand(c, top, wide)
Draft == (\E c \in Heap, low \in BOOLEAN : DraftLeaf(c, low)) \/ Expand \/ DraftDone
Verify == \E t \in Token : VerifyNode(t)
Serve == NextQueued \/ BeginRound \/ Finish

\* Work that the caller's thread does once a generation has been asked for
Generate == Prefill \/ PrefillDone \/ Serve \/ Draft \/ TargetForward \/ Verify \/ Deliver

Next == Construct \/ Generate

Spec == Init /\ [][Next]_vars

\* The caller's loop keeps calling next(); nobody is obliged to ask for a
\* generation.
FairSpec == Spec /\ WF_vars(Generate)

----------------------------------------------------------------------------
(* Properties *)

Node == [parent : NodeIds \cup {NoParent}, token : Token, position : Nat,
         cacheIndex : Nat \cup {NotInCache}]
Candidate == [token : Token, parent : NodeIds \cup {NoParent}]

\* Every variable has its type: caches keep their size and never run past it,
\* the tree stays inside its vector.
TypeOK ==
  /\ pc \in {"ready", "prefill", "serve", "draft", "target", "verify", "deliver", "aborted"}
  /\ DOMAIN kv = Models /\ \A m \in Models : kv[m] \in Cache(CacheSize[m])
  /\ prompt \in Content /\ tokens \in Content /\ queue \in Content
  /\ prefilled \in [Models -> Nat] /\ nRest \in 0..MaxSteps
  /\ nodes \in [NodeIds -> Node] /\ nNodes \in 0..DraftBatch
  /\ mainHeap \subseteq Candidate /\ leafHeap \subseteq Candidate
  /\ lastParent \in NodeIds \cup {NoParent} /\ nSaved \in 0..DraftBatch
  /\ belowMin \in BOOLEAN
  /\ batch \in [NodeIds -> Content] /\ current \in NodeIds
  /\ emitted \in Content /\ sampledFrom \in Content /\ delivered \in Content
  /\ nRuns \in 0..MaxRuns

\* The text generated so far. Its last token is not in the caches yet.
Text == SystemPrompt \o prompt \o emitted

Generating == pc \in {"serve", "draft", "target", "verify", "deliver"}

\* No entry at or after position is ever visible to attention, so what a
\* rollback leaves behind (rollback_tokens, kv_cache.hpp:256) cannot leak into a
\* later forward pass, whichever exception ended the round that wrote it.
NothingOpenPastPosition ==
  \A m \in Models : kv[m].open \subseteq 0..kv[m].position-1

\* What a round added to the draft cache is not committed before verify().
Committed(m) == kv[m].position - (IF m = "draft" /\ pc = "draft" THEN nSaved ELSE 0)

\* After every step of a round both caches are the caches of the same text: all
\* its tokens but the last, each entry computed from exactly the tokens before
\* it and visible (SpecTokenIterator::generate_tokens, TokenTree::verify).
CachesFollowText ==
  Generating =>
    \A m \in Models :
      /\ Committed(m) = Len(Text) - 1
      /\ \A i \in 0..Committed(m)-1 : i \in kv[m].open /\ kv[m].entry[i] = SubSeq(Text, 1, i+1)

\* The text that a node of the tree stands for.
BranchText(u) ==
  LET text[v \in NodeIds] ==
        IF nodes[v].parent = NoParent THEN Text ELSE Append(text[nodes[v].parent], nodes[v].token)
  IN  text[u]

\* Every entry drafted in this round was computed from its own branch alone:
\* switch_parent() closed the other branches before each forward pass, and no
\* later pass overwrote an entry that verify() may still move into place.
DraftedFromOwnBranch ==
  pc \in {"draft", "target"} =>
    \A u \in 0..nNodes-1 : nodes[u].cacheIndex # NotInCache =>
      kv["draft"].entry[nodes[u].cacheIndex] = BranchText(u)

\* None of the assertions in SpecTokenIterator, draft(), verify() and
\* switch_parent() can fail, in spite of exceptions in earlier generations.
NoAssertionFails == pc # "aborted"

\* The caller gets the last prompt token and then every token verify() enqueued,
\* once and in order, over all rounds (m_tokens and token_queue in decode()).
TokensInOrder ==
  Generating => delivered \o tokens \o queue = <<prompt[Len(prompt)]>> \o emitted

\* Speculation is lossless: the emitted tokens are an autoregressive generation
\* of the target, each sampled from the logits of exactly the text before it.
Autoregressive == INSTANCE Decode WITH system <- SystemPrompt, text <- Text
Lossless == Autoregressive!Spec

\* Every generation comes to its end: no round drafts or verifies for ever, and
\* each one yields at least one token.
GenerationEnds == pc # "ready" ~> pc = "ready"
=============================================================================
