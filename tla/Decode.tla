-------------------------------- MODULE Decode --------------------------------
(***************************************************************************)
(* What text generation promises, whatever the strategy behind the token   *)
(* iterator: after a prompt is accepted, tokens come one at a time and     *)
(* each is sampled from the model's output for exactly the text so far,    *)
(* the system prompt and the prompt and every earlier token.               *)
(***************************************************************************)
EXTENDS Sequences

CONSTANTS Token,          \* the vocabulary
          Prompts         \* the prompts a caller may submit

VARIABLES system,         \* tokens preloaded into the cache, once and for all
          text,           \* system prompt, prompt and generated tokens
          sampledFrom     \* the text behind the logits of the last sampled token

vars == <<system, text, sampledFrom>>

Init == text = system /\ sampledFrom = <<>>

\* A new generation starts from nothing but the system prompt and its prompt.
Submit(p) == text' = system \o p /\ sampledFrom' = <<>>

Sample(t) == text' = Append(text, t) /\ sampledFrom' = text

Next == UNCHANGED system /\ ((\E p \in Prompts : Submit(p)) \/ (\E t \in Token : Sample(t)))

Spec == Init /\ [][Next]_vars
=============================================================================
