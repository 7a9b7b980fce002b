-------------------------- MODULE AddrCacheProofs --------------------------
(***************************************************************************)
(* Proofs about AddrCache for every set of validators, addresses and peer  *)
(* ids.  ReverseIndexIsHistory alone is not inductive: when add_validator  *)
(* skips a peer id because it was already in the old set, the proof needs *)
(* to know that this old peer id is in the history, which CurrentInHistory *)
(* says.                                                                   *)
(***************************************************************************)
EXTENDS AddrCache, TLAPS

IInv == TypeOK /\ ReverseIndexIsHistory /\ CurrentInHistory

\* The peer ids derived from a set of addresses are peer ids.
LEMMA PeerIdsTyped ==
  ASSUME NEW addrs \in SUBSET Addrs
  PROVE  AddressesToPeerIds(addrs) \subseteq PeerIds
BY PeerOfAssumption DEF AddressesToPeerIds

(* The initial cache is empty, so every part of IInv holds vacuously.     *)
LEMMA InitIInv == Init => IInv
BY DEF Init, IInv, TypeOK, ReverseIndexIsHistory, CurrentInHistory

(* One add_validator step preserves IInv.                                 *)
LEMMA NextIInv == IInv /\ [Next]_vars => IInv'
<1> SUFFICES ASSUME IInv, [Next]_vars PROVE IInv'
  OBVIOUS
<1>1. CASE UNCHANGED vars
  BY <1>1 DEF vars, IInv, TypeOK, ReverseIndexIsHistory, CurrentInHistory
<1>2. CASE Next
  <2>1. PICK v \in Validators, addresses \in SUBSET Addrs : AddValidator(v, addresses)
    BY <1>2 DEF Next
  <2> DEFINE new == AddressesToPeerIds(addresses)
             old == IF v \in known
                      THEN AddressesToPeerIds(authority_id_to_addresses[v])
                      ELSE {}
  <2>2. new \subseteq PeerIds
    BY PeerIdsTyped
  <2>3. old \subseteq seen[v]
    BY DEF IInv, CurrentInHistory
  <2>4. TypeOK'
    BY <2>1, <2>2 DEF IInv, TypeOK, AddValidator
  <2>5. ReverseIndexIsHistory'
    <3> SUFFICES ASSUME NEW p \in PeerIds, NEW w \in Validators
                 PROVE  w \in peer_id_to_authority_ids'[p] <=> p \in seen'[w]
      BY DEF ReverseIndexIsHistory
    <3>1. peer_id_to_authority_ids'[p] =
            IF p \in new \ old THEN peer_id_to_authority_ids[p] \cup {v}
                               ELSE peer_id_to_authority_ids[p]
      BY <2>1 DEF AddValidator
    <3>2. seen'[w] = IF w = v THEN seen[w] \cup new ELSE seen[w]
      BY <2>1 DEF AddValidator, IInv, TypeOK
    <3>3. w \in peer_id_to_authority_ids[p] <=> p \in seen[w]
      BY DEF IInv, ReverseIndexIsHistory
    <3> QED
      BY <2>3, <3>1, <3>2, <3>3
  <2>6. CurrentInHistory'
    <3> SUFFICES ASSUME NEW w \in known'
                 PROVE  AddressesToPeerIds(authority_id_to_addresses'[w]) \subseteq seen'[w]
      BY DEF CurrentInHistory
    <3>1. CASE w = v
      BY <2>1, <3>1 DEF AddValidator, IInv, TypeOK
    <3>2. CASE w # v
      BY <2>1, <3>2 DEF AddValidator, IInv, TypeOK, CurrentInHistory
    <3> QED
      BY <3>1, <3>2
  <2> QED
    BY <2>4, <2>5, <2>6 DEF IInv
<1> QED
  BY <1>1, <1>2

(* add_validator keeps both maps well typed.                              *)
THEOREM TypeCorrect == Spec => []TypeOK
BY InitIInv, NextIInv, PTL DEF Spec, IInv

(* For every configuration, the reverse map lists exactly the validators  *)
(* that were ever given an address with that peer id: complete for the    *)
(* current addresses, and stale only through add_validator's non-pruning. *)
THEOREM ReverseIndex == Spec => []ReverseIndexIsHistory
BY InitIInv, NextIInv, PTL DEF Spec, IInv
=============================================================================
