------------------------ MODULE SignedValidatorRecord ------------------------
(***************************************************************************)
(* SignedValidatorRecord of crates/rc-validator-network/src/discovery.rs:  *)
(* sign_record signs a serialized address record (a sequence of byte      *)
(* segments) with every authority key the keystore lists, and             *)
(* verify_signature checks a record received from a peer.                 *)
(*                                                                         *)
(* Signatures are abstract: the signature of key k over message m is the  *)
(* record [signer |-> k, msg |-> m]; only a holder of k makes one.  The   *)
(* signed message is the concatenation of the segments (Message).  An     *)
(* auth_signature that does not decode as a signature is Malformed.       *)
(*                                                                         *)
(* The keystore is shared with the rest of the node, so keys may be added *)
(* and removed while sign_record walks the list it enumerated.  Faulty    *)
(* peers hold FaultyKeys and send any record they can build from their   *)
(* own keys and the signatures they have seen in the DHT.                 *)
(***************************************************************************)
EXTENDS Naturals, Sequences, FiniteSets, SequencesExt

CONSTANTS
  HonestKeys,   \* authority keys this node's keystore may hold
  FaultyKeys,   \* keys held by faulty peers
  Payloads,     \* serialized records: sequences of byte segments
  Malformed     \* an auth_signature that does not decode

Keys == HonestKeys \cup FaultyKeys

\* The message that is signed and verified: the segments concatenated.
Message(record) == FlattenSeq(record)

Sig(k, m) == [signer |-> k, msg |-> m]

Signatures == {Sig(k, Message(p)) : k \in Keys, p \in Payloads}

ASSUME KeysAssumption ==
  /\ IsFiniteSet(HonestKeys)
  /\ HonestKeys \cap FaultyKeys = {}
  /\ Payloads \subseteq Seq(Seq(Nat))
  /\ Malformed \notin Signatures

VARIABLES
  keystore,   \* sr25519 public keys under AUTHORITY_DISCOVERY
  spc,        \* sign_record: "idle", "signing" or "done"
  payload,    \* serialized_record of the current call
  keys,       \* the keys it enumerated, in order
  signed,     \* signed_records pushed so far
  result,     \* "none", "ok" or "err": what the last call returned
  returned,   \* the records the last call returned
  dht,        \* records published under their Kademlia keys
  verifier,   \* "running", or "panicked" once verify_signature panics
  accepted    \* records a peer's verify_signature returned true for

vars == <<keystore, spc, payload, keys, signed, result, returned, dht,
          verifier, accepted>>

Records ==
  [record : Payloads, validator_id : Keys, auth_signature : Signatures \cup {Malformed}]

\* The orders in which sr25519_public_keys may list the set S.
Orderings(S) ==
  {s \in [1..Cardinality(S) -> S] : \A x \in S : \E i \in DOMAIN s : s[i] = x}

Init ==
  /\ keystore \in SUBSET HonestKeys
  /\ spc = "idle"
  /\ payload \in Payloads
  /\ keys = << >>
  /\ signed = << >>
  /\ result = "none"
  /\ returned = << >>
  /\ dht = {}
  /\ verifier = "running"
  /\ accepted = {}

\* The keystore is changed by the rest of the node (key rotation).
AddKey(k) ==
  /\ keystore' = keystore \cup {k}
  /\ UNCHANGED <<spc, payload, keys, signed, result, returned, dht, verifier, accepted>>

RemoveKey(k) ==
  /\ keystore' = keystore \ {k}
  /\ UNCHANGED <<spc, payload, keys, signed, result, returned, dht, verifier, accepted>>

\* sign_record is called: the keys are enumerated once, up front.
SignRecord(p) ==
  /\ spc # "signing"
  /\ spc' = "signing"
  /\ payload' = p
  /\ keys' \in Orderings(keystore)
  /\ signed' = << >>
  /\ result' = "none"
  /\ returned' = << >>
  /\ UNCHANGED <<keystore, dht, verifier, accepted>>

\* Faulty variant of the loop body: only the first segment is signed.
SignNextKeyFirstSegment ==
  LET k == keys[Len(signed) + 1] IN
  /\ spc = "signing"
  /\ Len(signed) < Len(keys)
  /\ \/ /\ k \in keystore
        /\ signed' = Append(signed, [record |-> payload, validator_id |-> k,
                                     auth_signature |-> Sig(k, Message(<<Head(payload)>>))])
        /\ UNCHANGED <<spc, result, returned>>
     \/ /\ spc' = "done"
        /\ result' = "err"
        /\ returned' = << >>
        /\ UNCHANGED signed
  /\ UNCHANGED <<keystore, payload, keys, dht, verifier, accepted>>

\* One iteration of the loop: sign with the next enumerated key.  The key
\* may have vanished (Ok(None)) or the keystore may fail (Err): either way
\* `?` returns the error and the records signed so far are dropped.
SignNextKey ==
  LET k == keys[Len(signed) + 1] IN
  /\ spc = "signing"
  /\ Len(signed) < Len(keys)
  /\ \/ /\ k \in keystore
        /\ signed' = Append(signed, [record |-> payload, validator_id |-> k,
                                     auth_signature |-> Sig(k, Message(payload))])
        /\ UNCHANGED <<spc, result, returned>>
     \/ /\ spc' = "done"
        /\ result' = "err"
        /\ returned' = << >>
        /\ UNCHANGED signed
  /\ UNCHANGED <<keystore, payload, keys, dht, verifier, accepted>>

\* Ok(signed_records); the caller puts every record into the DHT.
SignDone ==
  /\ spc = "signing"
  /\ Len(signed) = Len(keys)
  /\ spc' = "done"
  /\ result' = "ok"
  /\ returned' = signed
  /\ dht' = dht \cup {signed[i] : i \in DOMAIN signed}
  /\ UNCHANGED <<keystore, payload, keys, signed, verifier, accepted>>

\* The records a peer may be handed: what the DHT holds, and what faulty
\* peers build from their own keys and the signatures they have seen.
Seen == {d.auth_signature : d \in dht}

Forged ==
  [record : Payloads, validator_id : Keys,
   auth_signature : Seen \cup {Malformed}
                    \cup {Sig(k, Message(p)) : k \in FaultyKeys, p \in Payloads}]

\* The check verify_signature makes once both fields have decoded.
Valid(r) ==
  /\ r.auth_signature # Malformed
  /\ r.auth_signature.signer = r.validator_id
  /\ r.auth_signature.msg = Message(r.record)

\* Faulty variant of verify_signature: the signature is checked over the
\* message but not against validator_id.
VerifySignatureAnySigner(r) ==
  /\ verifier = "running"
  /\ r.auth_signature # Malformed
  /\ r.auth_signature.msg = Message(r.record)
  /\ accepted' = accepted \cup {r}
  /\ UNCHANGED <<keystore, spc, payload, keys, signed, result, returned, dht, verifier>>

\* verify_signature: decoding the signature is an expect, so a record whose
\* auth_signature does not decode panics the verifying task; otherwise the
\* record is accepted when the signature is validator_id's over the
\* concatenated segments (and rejected, with no change, when not).
VerifySignature(r) ==
  /\ verifier = "running"
  /\ \/ /\ r.auth_signature = Malformed
        /\ verifier' = "panicked"
        /\ UNCHANGED accepted
     \/ /\ Valid(r)
        /\ accepted' = accepted \cup {r}
        /\ UNCHANGED verifier
  /\ UNCHANGED <<keystore, spc, payload, keys, signed, result, returned, dht>>

Next ==
  \/ \E k \in HonestKeys : AddKey(k) \/ RemoveKey(k)
  \/ \E p \in Payloads : SignRecord(p)
  \/ SignNextKey
  \/ SignDone
  \/ \E r \in dht \cup Forged : VerifySignature(r)

Spec == Init /\ [][Next]_vars

-----------------------------------------------------------------------------
(* Properties *)

TypeOK ==
  /\ keystore \subseteq HonestKeys
  /\ spc \in {"idle", "signing", "done"}
  /\ payload \in Payloads
  /\ keys \in Seq(HonestKeys)
  /\ signed \in Seq(Records)
  /\ result \in {"none", "ok", "err"}
  /\ returned \in Seq(Records)
  /\ dht \subseteq Records
  /\ verifier \in {"running", "panicked"}
  /\ accepted \subseteq Records

(* sign_record is all or nothing (spec 4.2): a call that returns Ok has   *)
(* signed with every key it enumerated, in order, one record per key, and *)
(* every record it returns passes verify_signature, even when keys were   *)
(* added or removed while it ran.                                          *)
SignedRecordsComplete ==
  result = "ok" =>
    /\ Len(returned) = Len(keys)
    /\ \A i \in DOMAIN returned :
         /\ returned[i].validator_id = keys[i]
         /\ returned[i].record = payload
         /\ Valid(returned[i])

(* A record that verify_signature accepts for an honest key carries bytes *)
(* that key signed: some record of that key published in the DHT has the  *)
(* same concatenated message, whatever faulty peers send.                  *)
AcceptedIsAuthentic ==
  \A r \in accepted : r.validator_id \in HonestKeys =>
    \E d \in dht : d.validator_id = r.validator_id /\ Message(d.record) = Message(r.record)

(* What spec 8 asks of verify(): a record accepted for an honest key is a  *)
(* record that key published, segment for segment.  The signature covers   *)
(* only the concatenation, so a peer may move the segment boundaries.      *)
AcceptedWasPublished ==
  \A r \in accepted : r.validator_id \in HonestKeys =>
    \E d \in dht : d.validator_id = r.validator_id /\ d.record = r.record

(* verify_signature's doc comment: it returns true or false.  A record a   *)
(* peer sends with an auth_signature that does not decode must be          *)
(* rejected (spec 7e), never abort the task that verifies it.              *)
VerifyNeverAborts == verifier = "running"
=============================================================================
