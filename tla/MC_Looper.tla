------------------------------ MODULE MC_Looper ------------------------------
(* Model-checking instance of Looper: the looper is the single caller.    *)
EXTENDS Looper, TLC
=============================================================================
