----------------------------- MODULE AddrCache -----------------------------
(***************************************************************************)
(* AddrCache of crates/rc-validator-network/src/discovery.rs: the forward  *)
(* map validator -> set of multiaddresses and the reverse map peer id ->   *)
(* set of validators.  A multiaddress is a model value; PeerOf gives the   *)
(* peer id carried by its last /p2p component, or NoPeer when it has none. *)
(* `seen` is a history variable, not program state: the peer ids each      *)
(* validator has ever been given, used to state what the reverse map is.  *)
(***************************************************************************)
EXTENDS FiniteSets

CONSTANTS
  Validators,   \* validator ids
  Addrs,        \* multiaddresses
  PeerIds,      \* peer ids
  NoPeer,       \* peer_id_from_multiaddr returned None
  PeerOf        \* [Addrs -> PeerIds \cup {NoPeer}]

ASSUME PeerOfAssumption ==
  /\ NoPeer \notin PeerIds
  /\ PeerOf \in [Addrs -> PeerIds \cup {NoPeer}]

VARIABLES
  known,                      \* DOMAIN of authority_id_to_addresses
  authority_id_to_addresses,  \* [Validators -> SUBSET Addrs], read on known only
  peer_id_to_authority_ids,   \* [PeerIds -> SUBSET Validators]; a missing entry is {}
  seen                        \* history: peer ids ever derived for each validator

vars == <<known, authority_id_to_addresses, peer_id_to_authority_ids, seen>>

\* Faulty variant of addresses_to_peer_ids: map instead of filter_map keeps
\* the addresses that carry no peer id.
AddressesToPeerIdsUnfiltered(addrs) == {PeerOf[a] : a \in addrs}

\* addresses_to_peer_ids: filter_map(peer_id_from_multiaddr).
AddressesToPeerIds(addrs) == {PeerOf[a] : a \in addrs} \ {NoPeer}

\* validator_addresses: None for an unknown validator, else its peer ids.
ValidatorAddresses(v) ==
  IF v \in known THEN {AddressesToPeerIds(authority_id_to_addresses[v])} ELSE {}

\* Faulty variant of add_validator: the old peer ids are read after the
\* insert, so they always equal the new ones.
AddValidatorOldAfterInsert(v, addresses) ==
  LET new_peer_ids == AddressesToPeerIds(addresses)
      old_peer_ids == new_peer_ids
  IN /\ known' = known \cup {v}
     /\ authority_id_to_addresses' = [authority_id_to_addresses EXCEPT ![v] = addresses]
     /\ peer_id_to_authority_ids' =
          [p \in PeerIds |->
             IF p \in new_peer_ids \ old_peer_ids
               THEN peer_id_to_authority_ids[p] \cup {v}
               ELSE peer_id_to_authority_ids[p]]
     /\ seen' = [seen EXCEPT ![v] = @ \cup new_peer_ids]

\* add_validator: replace the address set; the validator is added to the
\* reverse entry of every peer id that is new relative to the old set.
\* Nothing is ever removed from the reverse map.
AddValidator(v, addresses) ==
  LET new_peer_ids == AddressesToPeerIds(addresses)
      old_peer_ids == IF v \in known
                        THEN AddressesToPeerIds(authority_id_to_addresses[v])
                        ELSE {}
  IN /\ known' = known \cup {v}
     /\ authority_id_to_addresses' = [authority_id_to_addresses EXCEPT ![v] = addresses]
     /\ peer_id_to_authority_ids' =
          [p \in PeerIds |->
             IF p \in new_peer_ids \ old_peer_ids
               THEN peer_id_to_authority_ids[p] \cup {v}
               ELSE peer_id_to_authority_ids[p]]
     /\ seen' = [seen EXCEPT ![v] = @ \cup new_peer_ids]

Init ==
  /\ known = {}
  /\ authority_id_to_addresses = [v \in Validators |-> {}]
  /\ peer_id_to_authority_ids = [p \in PeerIds |-> {}]
  /\ seen = [v \in Validators |-> {}]

Next == \E v \in Validators, addresses \in SUBSET Addrs : AddValidator(v, addresses)

Spec == Init /\ [][Next]_vars

-----------------------------------------------------------------------------
TypeOK ==
  /\ known \subseteq Validators
  /\ authority_id_to_addresses \in [Validators -> SUBSET Addrs]
  /\ peer_id_to_authority_ids \in [PeerIds -> SUBSET Validators]
  /\ seen \in [Validators -> SUBSET PeerIds]

(* The reverse map is exactly the history of the forward map: a validator *)
(* is listed under a peer id iff that peer id was derived from some       *)
(* address set the validator was ever given.  So every current peer id of *)
(* a validator resolves back to it (completeness), and the stale entries  *)
(* left by add_validator's non-pruning (spec section 9) are the only      *)
(* entries that do not match the current forward map.                     *)
ReverseIndexIsHistory ==
  \A p \in PeerIds, v \in Validators :
    v \in peer_id_to_authority_ids[p] <=> p \in seen[v]

(* The peer ids a known validator currently has were all recorded in its *)
(* history: the strengthening that makes ReverseIndexIsHistory inductive. *)
CurrentInHistory ==
  \A v \in known : AddressesToPeerIds(authority_id_to_addresses[v]) \subseteq seen[v]
=============================================================================
