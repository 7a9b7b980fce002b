-------------------------- MODULE MC_NetworkService --------------------------
EXTENDS NetworkService, TLC

CallerSymmetry == Permutations(Callers)
=============================================================================
