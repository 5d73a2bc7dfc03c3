----------------------------- MODULE MCForwardPass -----------------------------
(* Values of constants of ForwardPass for TLC *)
EXTENDS ForwardPass

MCThreads == 0..1

\* A batch of a prompt, and the generation of a token
MCCalls == { [batch |-> 2, lmHead |-> FALSE], [batch |-> 1, lmHead |-> TRUE] }

MCTokens == { [batch |-> 1, lmHead |-> TRUE] }
=============================================================================
