------------------------------ MODULE MCChart ------------------------------
EXTENDS Chart

CONSTANT notANumber

(* Two values, one of them that of a missing signal, and NaN.              *)
MCValues == {0, 1, notANumber}
=============================================================================
