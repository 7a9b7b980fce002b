----------------------- MODULE MC_ValidatorWorker -----------------------
(* Model-checking instance of ValidatorWorker: callers and the empty slot  *)
(* are model values given in the cfg.                                     *)
EXTENDS ValidatorWorker, TLC

\* Callers are interchangeable: nothing in the Worker looks at who a caller is.
CallerSymmetry == Permutations(Callers)
=============================================================================
