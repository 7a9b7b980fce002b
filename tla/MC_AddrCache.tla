--------------------------- MODULE MC_AddrCache ---------------------------
(* AddrCache on two validators and four addresses: a1 and a4 both carry    *)
(* peer p1, so dropping one of them keeps p1; a3 carries no peer id.       *)
EXTENDS AddrCache, TLC

CONSTANTS a1, a2, a3, a4, p1, p2

MCPeerOf == (a1 :> p1 @@ a2 :> p2 @@ a3 :> NoPeer @@ a4 :> p1)

ValidatorSymmetry == Permutations(Validators)
=============================================================================
