------------------------------- MODULE CausalLM -------------------------------
(***************************************************************************)
(* The backend of the NPU, src/backend/qnn: how one language model is      *)
(* loaded and how QNNBackend::forward evaluates tokens with it.            *)
(*                                                                         *)
(* The layers of a model are compiled in chunks, and every chunk for       *)
(* several batch sizes.  The graphs of one chunk share one set of buffers, *)
(* that of the largest; a smaller graph works on the first rows.  A pass   *)
(* is cut into batches, a batch runs on the smallest graphs it fits into,  *)
(* and what a batch does not overwrite is still there from earlier ones.   *)
(* So is the attention bias, which tells each row what it may see of the   *)
(* cache and of its own batch.                                             *)
(*                                                                         *)
(* Numbers are abstracted as in KVCache: a row, a key/value pair and an    *)
(* entry are the text they were computed from.  Before the first chunk a   *)
(* row holds its token alone.                                              *)
(***************************************************************************)
EXTENDS KVCache, FiniteSetsExt

CONSTANTS SystemPrompt,   \* tokens loaded from files, kv_size of them
          CacheSize,      \* cache_size
          NChunks,        \* chunks of layers
          BatchSizes,     \* batch sizes each of them is compiled for
          HeadSizes,      \* batch sizes of the output layer, if it is compiled
          Texts,          \* texts a caller may submit
          Trees,          \* token trees it may submit
          MaxCalls        \* bound: calls of forward()

MaxBatch == Max(BatchSizes)
Chunks == 1..NChunks
Row == 0..MaxBatch-1

\* Columns of the attention bias: the cache, the batch
Past == 0..CacheSize-1
ColumnOf(u) == CacheSize + u
Column == Past \cup {ColumnOf(u) : u \in Row}

ASSUME ModelAssumption ==
  /\ SystemPrompt \in Content /\ CacheSize \in Nat /\ Len(SystemPrompt) <= CacheSize
  /\ NChunks \in Nat \ {0} /\ MaxCalls \in Nat
  /\ IsFiniteSet(BatchSizes) /\ BatchSizes # {} /\ BatchSizes \subseteq Nat \ {0}
  /\ IsFiniteSet(HeadSizes) /\ HeadSizes \subseteq Nat \ {0}
  /\ HeadSizes # {} => MaxBatch = Max(HeadSizes)
  /\ Texts \subseteq Content \ {<<>>}
  /\ \A tree \in Trees :
       /\ tree.tokens \in Content /\ Len(tree.tokens) \in 1..MaxBatch
       /\ tree.parent \in [0..Len(tree.tokens)-1 -> Int]
       /\ \A u \in DOMAIN tree.parent : tree.parent[u] < u

VARIABLES
  pc,         \* where the thread is
  stage,      \* the chunk it is at
  x,          \* input of each chunk; the last is the output of all
  rope,       \* rope_embed_cos, rope_embed_sin: the position of each row
  bias,       \* attn_bias of each chunk: the columns each row sees
  keys,       \* key and value of each row, for each chunk
  cache,      \* key_t_cache and value_cache, for each chunk
  position,   \* position of the cache
  request,    \* arguments of forward(), and the position they start at
  batches,    \* batches that are left, the one at hand first
  dst,        \* rows of the result so far
  text,       \* history: the tokens the cache is for
  loose,      \* history: entries of a tree, which the caller gives back
  calls       \* calls of forward()

bufferVars == <<x, rope, keys>>
cacheVars == <<cache, position, text, loose>>
callVars == <<request, batches, dst, calls>>
vars == <<pc, stage, bias, bufferVars, cacheVars, callVars>>

----------------------------------------------------------------------------
(* The request *)

\* A request is tokens, each with its parent, and whether logits are asked for.
\* In a text the parent is the token before.
Request(tokens, parent, logits) ==
  [tokens |-> tokens, parent |-> parent, logits |-> logits, start |-> position]

Before(n) == [u \in 0..n-1 |-> u - 1]
IsText(r) == r.parent = Before(Len(r.tokens))

\* The tokens on the way to token u, with u
Path(r, u) ==
  LET path[v \in 0..u] == IF r.parent[v] < 0 THEN <<v>> ELSE Append(path[r.parent[v]], v)
  IN  path[u]

\* not_masked(u, v)
NotMasked(r, u, v) == \E i \in DOMAIN Path(r, u) : Path(r, u)[i] = v

PositionOf(r, u) == r.start + Len(Path(r, u)) - 1

----------------------------------------------------------------------------
(* split_batch *)

\* lower_bound(), or the largest
Fitting(sizes, n) ==
  LET enough == {b \in sizes : b >= n}
  IN  IF enough = {} THEN Max(sizes) ELSE Min(enough)

\* n tokens in batches: the first token of each, how many there are, the size of
\* the graphs and of the output layer that evaluate them
SplitBatch(n) ==
  LET from[i \in 0..n] ==
        IF i = n THEN <<>>
        ELSE LET size == Fitting(BatchSizes, n - i)
                 head == IF HeadSizes = {} THEN 0 ELSE Fitting(HeadSizes, n - i)
                 step == Min({n - i, size})
             IN  <<[index |-> i, step |-> step, size |-> size, head |-> head]>>
                   \o from[i + step]
  IN  from[0]

Batch == Head(batches)
Rows == 0..Batch.step-1

\* Token u of the batch in the whole request
TokenAt(u) == Batch.index + u

----------------------------------------------------------------------------
(* Loading: load_model_chunks and initialize *)

\* Shared memory comes with anything in it.
AnyBias == {[u \in Row |-> {}], [u \in Row |-> Column]}

\* (broken variant: masks the rows of the smallest graph only)
MaskedBySmallest(rows) == [u \in Row |-> IF u < Min(BatchSizes) THEN {} ELSE rows[u]]

\* Every graph of a chunk masks its rows of the one buffer.
MaskedByAll(rows) == [u \in Row |-> IF \E size \in BatchSizes : u < size THEN {} ELSE rows[u]]

\* The largest graph of a chunk gets the buffers and loads the system prompt.
LoadChunk ==
  /\ pc = "load" /\ stage <= NChunks
  /\ stage' = stage + 1
  /\ cache' = [cache EXCEPT ![stage] =
       [i \in Past |-> IF i < Len(SystemPrompt) THEN SubSeq(SystemPrompt, 1, i+1) ELSE @[i]]]
  /\ bias' = [bias EXCEPT ![stage] = MaskedByAll(@)]
  /\ UNCHANGED <<pc, bufferVars, position, text, loose, callVars>>

\* set_mask: opens or closes columns in every row of every chunk
Opened(columns) == [c \in Chunks |-> [u \in Row |-> bias[c][u] \cup columns]]
Closed(columns) == [c \in Chunks |-> [u \in Row |-> bias[c][u] \ columns]]

\* advance_tokens(kv_size)
Loaded ==
  /\ pc = "load" /\ stage = NChunks + 1
  /\ pc' = "idle"
  /\ position' = Len(SystemPrompt)
  /\ bias' = Opened(0..Len(SystemPrompt)-1)
  /\ UNCHANGED <<stage, bufferVars, cache, text, loose, callVars>>

----------------------------------------------------------------------------
(* forward *)

\* Whoever asks numbers the tokens from the position of the cache, and has given
\* back what an earlier tree left there.
Call(r) ==
  /\ pc = "idle" /\ loose = 0 /\ calls < MaxCalls
  /\ calls' = calls + 1
  /\ request' = r
  /\ batches' = SplitBatch(Len(r.tokens))
  /\ dst' = <<>>
  /\ pc' = "fill"
  /\ UNCHANGED <<stage, bias, bufferVars, cacheVars>>

\* (broken variant: leaves the columns of the batch before)
BatchColumnsAdded(old, u) ==
  old \cup {ColumnOf(v) : v \in {v \in Rows : NotMasked(request, TokenAt(u), TokenAt(v))}}

\* What row u sees of its batch: the rest of the batch's columns is masked.
BatchColumns(old, u) ==
  (old \cap Past) \cup
    {ColumnOf(v) : v \in {v \in Rows : NotMasked(request, TokenAt(u), TokenAt(v))}}

\* The tokens of the batch, their positions and their masks
Fill ==
  /\ pc = "fill"
  /\ pc' = "run" /\ stage' = 1
  /\ x' = [x EXCEPT ![1] =
       [u \in Row |-> IF u \in Rows THEN <<request.tokens[TokenAt(u) + 1]>> ELSE @[u]]]
  /\ rope' = [u \in Row |-> IF u \in Rows THEN PositionOf(request, TokenAt(u)) ELSE rope[u]]
  /\ bias' = [c \in Chunks |-> [u \in Row |->
                IF u \in Rows THEN BatchColumns(bias[c][u], u) ELSE bias[c][u]]]
  /\ UNCHANGED <<keys, cacheVars, callVars>>

\* What chunk c computes for a row at `place' that holds `own', when it sees n
\* pairs that hold the contents `seen'.
Computed(c, own, seen, n, place) ==
  IF own = Garbage THEN Garbage
  ELSE LET content == Encode(seen, n, own[Len(own)], place)
       IN  IF c = 1 \/ content = own THEN content ELSE Garbage

\* The first `size' rows of chunk c, leftovers of earlier batches included. Rows
\* from `size' on are padding.
Attended(c, size) ==
  LET content[u \in 0..size-1] ==
        LET shown == {v \in Row : ColumnOf(v) \in bias[c][u]}
            past  == {cache[c][i] : i \in bias[c][u] \cap Past}
            own   == {IF v < u THEN content[v] ELSE Garbage : v \in shown \ {u}}
        IN  IF u \in shown
            THEN Computed(c, x[c][u], past \cup own,
                   Cardinality(bias[c][u] \cap Past) + Cardinality(shown) - 1, rope[u])
            ELSE Garbage
  IN  content

\* An exception leaves forward() where it is.
Throw ==
  /\ pc' = "idle" /\ batches' = <<>> /\ dst' = <<>>
  /\ UNCHANGED <<stage, bias, bufferVars, cacheVars, request, calls>>

\* (broken variant: a chunk goes on with the rows of the batch before)
PassedOnLate(content) == x[stage + 1]

\* The rows of the batch go on to the next chunk.
PassedOn(content) == [u \in Row |-> IF u \in Rows THEN content[u] ELSE x[stage + 1][u]]

Execute ==
  LET content == Attended(stage, Batch.size)
  IN  /\ pc = "run" /\ stage <= NChunks
      /\ keys' = [keys EXCEPT ![stage] =
           [u \in Row |-> IF u < Batch.size THEN content[u] ELSE @[u]]]
      /\ x' = [x EXCEPT ![stage + 1] = PassedOn(content)]
      /\ stage' = stage + 1
      /\ UNCHANGED <<pc, rope, bias, cacheVars, callVars>>

\* Logits, or, without an output layer of its own, what the CPU makes them of
ComputeLogits ==
  /\ pc = "run" /\ stage = NChunks + 1
  /\ pc' = "save"
  /\ dst' = IF request.logits
             THEN dst \o [i \in 1..Batch.step |->
                    IF HeadSizes = {} \/ i <= Batch.head THEN x[stage][i - 1] ELSE Garbage]
             ELSE dst
  /\ UNCHANGED <<stage, bias, bufferVars, cacheVars, request, batches, calls>>

\* A graph fails: of a chunk, or of the output layer
ExecuteFails == pc = "run" /\ (stage <= NChunks \/ request.logits) /\ Throw

\* (broken variant: allows one entry too many)
HasRoomForMore(n) == position + n <= CacheSize + 1

\* The assertion of save_tokens_for_layers and unmask_tokens
HasRoom(n) == position + n <= CacheSize

\* save_kv and advance
Keep ==
  LET n == Batch.step
  IN  /\ pc = "save" /\ HasRoom(n)
      /\ cache' = [c \in Chunks |->
           [i \in Past |-> IF i \in position .. position + n - 1
                            THEN keys[c][i - position] ELSE cache[c][i]]]
      /\ bias' = Opened(position .. position + n - 1)
      /\ position' = position + n
      /\ IF IsText(request)
         THEN text' = text \o SubSeq(request.tokens, TokenAt(1), TokenAt(n)) /\ UNCHANGED loose
         ELSE loose' = n /\ UNCHANGED text
      /\ batches' = Tail(batches)
      /\ pc' = IF Len(batches) = 1 THEN "idle" ELSE "fill"
      /\ UNCHANGED <<stage, bufferVars, request, dst, calls>>

KeepFails == pc = "save" /\ ~HasRoom(Batch.step) /\ Throw

----------------------------------------------------------------------------
(* What the decoders do between two calls *)

GiveBack(n) ==
  /\ pc = "idle"
  /\ position' = position - n
  /\ bias' = Closed(position - n .. position - 1)
  /\ text' = SubSeq(text, 1, Len(text) + loose - n)
  /\ loose' = 0
  /\ UNCHANGED <<pc, stage, bufferVars, cache, callVars>>

\* rollback_tokens(n); a tree is given back as a whole.
Rollback(n) == loose \in {0, n} /\ n <= position - Len(SystemPrompt) /\ GiveBack(n)

\* reset_kv_cache
Reset == position > Len(SystemPrompt) /\ GiveBack(position - Len(SystemPrompt))

Init ==
  /\ pc = "load" /\ stage = 1
  /\ x = [c \in 1..NChunks+1 |-> [u \in Row |-> Garbage]]
  /\ rope = [u \in Row |-> 0]
  /\ \E rows \in AnyBias : bias = [c \in Chunks |-> rows]
  /\ keys = [c \in Chunks |-> [u \in Row |-> Garbage]]
  /\ cache = [c \in Chunks |-> [i \in Past |-> Garbage]]
  /\ position = 0 /\ text = SystemPrompt /\ loose = 0
  /\ request = Request(<<>>, Before(0), FALSE)
  /\ batches = <<>> /\ dst = <<>> /\ calls = 0

Ask ==
  \E logits \in BOOLEAN :
    \/ \E t \in Texts : Call(Request(t, Before(Len(t)), logits))
    \/ \E tree \in Trees : Call(Request(tree.tokens, tree.parent, TRUE))

Load == LoadChunk \/ Loaded

Evaluate == Fill \/ Execute \/ ExecuteFails \/ ComputeLogits \/ Keep \/ KeepFails

Next == Load \/ Ask \/ Evaluate \/ Reset \/ (\E n \in 1..position : Rollback(n))

Spec == Init /\ [][Next]_vars

----------------------------------------------------------------------------
(* Properties *)

\* Every variable has its type; positions have a rope embedding (the assertion of
\* fill_rope_embeds), and only a tree leaves loose entries.
TypeOK ==
  /\ pc \in {"load", "idle", "fill", "run", "save"} /\ stage \in 1..NChunks+1
  /\ x \in [1..NChunks+1 -> [Row -> Content]]
  /\ rope \in [Row -> 0..CacheSize+MaxBatch-1]
  /\ bias \in [Chunks -> [Row -> SUBSET Column]]
  /\ keys \in [Chunks -> [Row -> Content]]
  /\ cache \in [Chunks -> [Past -> Content]]
  /\ position \in 0..CacheSize /\ loose \in 0..position
  /\ dst \in Seq(Content) /\ text \in Content /\ calls \in 0..MaxCalls
  /\ batches # <<>> <=> pc \in {"fill", "run", "save"}

\* The text of the cache when the call began, and the tokens on the way to token u
BeganWith == SubSeq(text, 1, request.start)
TextOf(u) ==
  BeganWith \o [i \in DOMAIN Path(request, u) |-> request.tokens[Path(request, u)[i] + 1]]

\* Row u of the result is computed from exactly the text that ends with token u, on
\* its own branch: not of a sibling, nor a leftover of an earlier batch or call,
\* and not a row of another batch; and there is one for each token so far
\* (QNNBackend::forward, fill_attention_mask).
LogitsOfOwnText ==
  /\ pc \in {"fill", "run", "save"} => \A u \in 1..Len(dst) : dst[u] = TextOf(u - 1)
  /\ pc = "save" /\ request.logits => Len(dst) = Batch.index + Batch.step

\* Between two calls, failed or not, each row of each chunk is shown the entries
\* below position and no others, whichever graphs have run, and these hold the
\* text in every chunk.
CachesFollowText ==
  pc = "idle" =>
    /\ position = Len(text) + loose
    /\ \A c \in Chunks :
         /\ \A u \in Row : bias[c][u] \cap Past = 0..position-1
         /\ \A i \in 0..Len(text)-1 : cache[c][i] = SubSeq(text, 1, i+1)

\* The cache as its callers know it. Before it is loaded nobody does.
EntryOf(i) ==
  IF \A c \in Chunks : cache[c][i] = cache[1][i] THEN cache[1][i] ELSE Garbage

Stored ==
  IF pc = "load"
  THEN [size |-> CacheSize, position |-> Len(SystemPrompt), open |-> 0..Len(SystemPrompt)-1,
        entry |-> [i \in Past |-> IF i < Len(SystemPrompt)
                                  THEN SubSeq(SystemPrompt, 1, i+1) ELSE Garbage]]
  ELSE [size |-> CacheSize, position |-> position,
        open |-> {i \in Past : \A c \in Chunks, u \in Row : i \in bias[c][u]},
        entry |-> [i \in Past |-> EntryOf(i)]]

BatchAtHand ==
  IF batches = <<>> THEN [tokens |-> <<>>, positions |-> <<>>, sees |-> <<>>]
  ELSE [tokens    |-> [u \in Rows |-> request.tokens[TokenAt(u) + 1]],
        positions |-> [u \in Rows |-> PositionOf(request, TokenAt(u))],
        sees      |-> [u \in Rows |-> {v \in Rows \ {u} : NotMasked(request, TokenAt(u), TokenAt(v))}]]

\* Chunks, graphs of several sizes and shared buffers do not show: the backend does
\* to the cache what KVCache says a forward pass does.
Store == INSTANCE CacheStore WITH kv <- Stored, batch <- BatchAtHand
ImplementsCacheStore ==
  Store!Preloaded(SystemPrompt) /\ [][Store!Evaluate \/ Store!Rollback]_Stored
=============================================================================
