--------------------------- MODULE MCTokenIterator ---------------------------
(* Constants for checking TokenIterator with TLC. *)
EXTENDS TokenIterator

CONSTANTS a, nl, stop

MCToken == {a, nl, stop}
MCSystemPrompt == <<a>>
MCPrompts == {<<stop>>, <<a, stop, a>>, <<stop, a, a, a, stop>>, <<a, a, stop, a, a, a, a>>}
==============================================================================
