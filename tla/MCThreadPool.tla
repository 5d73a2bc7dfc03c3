----------------------------- MODULE MCThreadPool -----------------------------
(* Constants for checking ThreadPool with TLC. *)
EXTENDS ThreadPool, TLC

CONSTANTS w1, w2, w3

TwoWorkers == {w1, w2}
ThreeWorkers == {w1, w2, w3}
=============================================================================
