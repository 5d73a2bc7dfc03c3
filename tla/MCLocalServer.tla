---------------------------- MODULE MCLocalServer ----------------------------
(* Two requests for one model, and for it with a draft model; characters of *)
(* two bytes, and text that is none.                                       *)
EXTENDS LocalServer

CONSTANTS r1, r2, a, b

MCNames == { << a >>, << a, b >> }
MCPieces == { << 2 >>, << 0 >> }

=============================================================================
