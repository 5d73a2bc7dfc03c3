------------------------------ MODULE CacheStore ------------------------------
(***************************************************************************)
(* What the backend of the NPU promises its callers: the cache of a model  *)
(* is one list of entries, a forward pass over a batch computes the        *)
(* entries of all its tokens from exactly the entries that are open and    *)
(* the tokens of the batch that the mask shows, appends them and opens     *)
(* them; a rollback closes the last entries.  Chunks of layers, graphs of  *)
(* several batch sizes and the buffers they share do not show.             *)
(***************************************************************************)
EXTENDS KVCache

VARIABLES kv,      \* the cache
          batch    \* the tokens, positions and mask of the next pass

Evaluate ==
  LET n == Cardinality(DOMAIN batch.tokens)
  IN  /\ Fits(kv, n)
      /\ kv' = AdvanceTokens(
           SaveTokens(kv, Forward(kv, batch.tokens, batch.positions, batch.sees), n), n)

Rollback == \E n \in 1..kv.position : kv' = RollbackTokens(kv, n)

Preloaded(text) ==
  /\ kv.position = Len(text) /\ kv.open = 0..Len(text)-1
  /\ \A i \in kv.open : kv.entry[i] = SubSeq(text, 1, i+1)
=============================================================================
