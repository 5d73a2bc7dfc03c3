------------------------------- MODULE KVCache -------------------------------
(***************************************************************************)
(* The key/value cache of one language model, src/core/kv_cache.hpp, with  *)
(* the QNN backing store of src/backend/qnn/causal_models.                 *)
(*                                                                         *)
(* A cache is a record:                                                    *)
(*   size      the number of entries                                       *)
(*   position  where the next token is saved                               *)
(*   open      the indices the attention bias does not mask                *)
(*   entry     what each entry holds                                       *)
(*                                                                         *)
(* The numbers inside an entry are abstracted to the only thing the        *)
(* decoders rely on: the sequence of tokens the entry was computed from.   *)
(* An entry computed under an attention mask that shows anything but a     *)
(* complete sequence of earlier tokens holds Garbage.                      *)
(*                                                                         *)
(* The operators are the methods; the caller checks the precondition the   *)
(* method asserts (Fits, InUse), because a failed one throws.              *)
(***************************************************************************)
EXTENDS Integers, Sequences, FiniteSets

CONSTANT Token

Content == Seq(Token)
Garbage == <<>>

Cache(size) ==
  [size : {size}, position : 0..size, open : SUBSET (0..size-1),
   entry : [0..size-1 -> Content]]

\* A broken variant of an operation stands before it, here and in the modules
\* that use this one: each shows that some property can fail.

----------------------------------------------------------------------------
(* Preconditions *)

\* (broken variant: allows one entry too many)
FitsOneMore(kv, n) == kv.position + n <= kv.size + 1

\* position + n_tokens <= size
Fits(kv, n) == kv.position + n <= kv.size

\* cache_index < position, where cache_index is unsigned
InUse(kv, i) == i \in 0..kv.position-1

----------------------------------------------------------------------------
(* Operations *)

\* The n entries after position get the key/values of a batch numbered from 0.
SaveTokens(kv, batch, n) ==
  [kv EXCEPT !.entry =
     [i \in DOMAIN @ |-> IF i \in kv.position .. kv.position + n - 1
                         THEN batch[i - kv.position] ELSE @[i]]]

UnmaskTokens(kv, n) ==
  [kv EXCEPT !.open = @ \cup (kv.position .. kv.position + n - 1)]

AdvanceTokens(kv, n) ==
  [UnmaskTokens(kv, n) EXCEPT !.position = @ + n]

\* (broken variant: gives the entries back without masking them)
RollbackUnmasked(kv, n) == [kv EXCEPT !.position = @ - n]

RollbackTokens(kv, n) ==
  [kv EXCEPT !.position = @ - n,
             !.open = @ \ (kv.position - n .. kv.position - 1)]

TruncateTokens(kv, n) ==
  IF n < kv.position THEN RollbackTokens(kv, kv.position - n) ELSE kv

\* mask() and unmask() of a set of entries, one call each
Mask(kv, I) == [kv EXCEPT !.open = @ \ I]
Unmask(kv, I) == [kv EXCEPT !.open = @ \cup I]

Move(kv, dst, src) == [kv EXCEPT !.entry[dst] = kv.entry[src]]

\* copy() of token u of the model's current batch
Copy(kv, dst, batch, u) == [kv EXCEPT !.entry[dst] = batch[u]]

----------------------------------------------------------------------------
(* What a forward pass computes *)

Prefixes(s) == {SubSeq(s, 1, i) : i \in 1..Len(s)}

\* The entry of token t, put at `position', when attention shows it n entries
\* that hold the contents `seen'. (Bound to S, TLC evaluates `seen' only once.)
Encode(seen, n, t, position) ==
  LET complete(S) == {s \in S \cup {Garbage} : Len(s) = position /\ S = Prefixes(s)}
      entry(S) == IF n = position /\ complete(S) # {}
                  THEN Append(CHOOSE s \in complete(S) : TRUE, t)
                  ELSE Garbage
  IN  CHOOSE e \in {entry(S) : S \in {seen}} : TRUE

\* The entries of a batch numbered from 0: token u sees the open entries of the
\* cache and the tokens sees[u] of the same batch, which all come before it.
Forward(kv, tokens, positions, sees) ==
  LET cached == {kv.entry[i] : i \in kv.open}
      content[u \in DOMAIN tokens] ==
        Encode(cached \cup {content[v] : v \in sees[u]},
               Cardinality(kv.open) + Cardinality(sees[u]),
               tokens[u], positions[u])
  IN  content

\* The causal mask of a run of n tokens
Causal(n) == [u \in 0..n-1 |-> 0..u-1]

\* A one-token forward pass: compute, save_kv, advance
ForwardOne(kv, t, position) ==
  LET content == Forward(kv, [u \in {0} |-> t], [u \in {0} |-> position], Causal(1))
  IN  AdvanceTokens(SaveTokens(kv, content, 1), 1)
=============================================================================
