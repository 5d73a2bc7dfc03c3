----------------------------- MODULE MCSpecDecode -----------------------------
(* Constants for checking SpecDecode with TLC. *)
EXTENDS SpecDecode

CONSTANTS a, b

MCSystemPrompt == <<a>>
MCPrompts == {<<b>>, <<a, b, a, b>>, <<a, b, a, b, a, b, a>>}
MCCacheSize == [target |-> 6, draft |-> 4]
MCMaxBatch == [target |-> 4, draft |-> 2]
=============================================================================
