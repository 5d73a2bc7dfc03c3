------------------------------ MODULE MCCausalLM ------------------------------
(* Values of the constants of CausalLM for TLC. *)
EXTENDS CausalLM, TLC

CONSTANTS a, b

MCSystemPrompt == <<b>>
MCTexts == {<<a>>, <<a, b>>, <<b, a, b, a>>, <<a, b, a, a, b>>}
MCTrees == {[tokens |-> <<a, b>>, parent |-> (0 :> -1) @@ (1 :> -1)],
            [tokens |-> <<a, b, a>>, parent |-> (0 :> -1) @@ (1 :> 0) @@ (2 :> 0)]}
=============================================================================
