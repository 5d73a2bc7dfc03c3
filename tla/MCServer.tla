------------------------------ MODULE MCServer ------------------------------
(* Two requests for two models, alone and together, and for one that does  *)
(* not exist.                                                              *)
EXTENDS Server

CONSTANTS r1, r2, a, b, gone

MCNames == { << a >>, << a, b >>, << a, gone >> }
MCPieces == { << 1 >>, << 2 >>, << 0 >> }

=============================================================================
