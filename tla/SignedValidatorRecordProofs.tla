-------------------- MODULE SignedValidatorRecordProofs --------------------
(***************************************************************************)
(* Proofs about sign_record and verify_signature for every set of keys and *)
(* payloads.  The inductive invariant IInv says, besides the types:       *)
(*   - the records pushed so far are those of the first enumerated keys,  *)
(*     each over the current payload (SignedPrefix);                       *)
(*   - an Ok result returned them all (ReturnedAll);                       *)
(*   - every record in the DHT is valid and of an honest key (DhtValid).   *)
(* With DhtValid a forged record that verifies for an honest key can only *)
(* carry a signature seen in the DHT, since faulty peers hold no honest   *)
(* key; so AcceptedIsAuthentic is kept by every step.  Message is never   *)
(* expanded: the argument holds whatever the signed bytes are.            *)
(***************************************************************************)
EXTENDS SignedValidatorRecord, FiniteSetTheorems, TLAPS

SignedBy(k) ==
  [record |-> payload, validator_id |-> k, auth_signature |-> Sig(k, Message(payload))]

SignedPrefix ==
  /\ Len(signed) <= Len(keys)
  /\ \A i \in 1..Len(signed) : signed[i] = SignedBy(keys[i])

ReturnedAll == result = "ok" => returned = signed /\ Len(signed) = Len(keys)

DhtValid == \A d \in dht : Valid(d) /\ d.validator_id \in HonestKeys

IInv == TypeOK /\ SignedPrefix /\ ReturnedAll /\ DhtValid /\ AcceptedIsAuthentic

\* An enumeration of a part of the keystore is a sequence of honest keys.
LEMMA OrderingsTyped ==
  ASSUME NEW S \in SUBSET HonestKeys, NEW s \in Orderings(S)
  PROVE  s \in Seq(HonestKeys)
<1>1. Cardinality(S) \in Nat
  BY KeysAssumption, FS_Subset, FS_CardinalityType
<1> QED
  BY <1>1 DEF Orderings

\* The record a key signs is a well-typed, valid record.
LEMMA SignedByFacts ==
  ASSUME NEW k \in HonestKeys, payload \in Payloads
  PROVE  SignedBy(k) \in Records /\ Valid(SignedBy(k))
BY KeysAssumption DEF SignedBy, Records, Signatures, Valid, Keys, Sig

LEMMA InitIInv == Init => IInv
BY DEF Init, IInv, TypeOK, SignedPrefix, ReturnedAll, DhtValid, AcceptedIsAuthentic

\* The keystore changes and sign_record's call touch no record.
LEMMA KeystoreStep ==
  ASSUME IInv, \E k \in HonestKeys : AddKey(k) \/ RemoveKey(k)
  PROVE  IInv'
BY DEF IInv, TypeOK, SignedPrefix, SignedBy, ReturnedAll, DhtValid, AcceptedIsAuthentic,
       AddKey, RemoveKey

LEMMA SignRecordStep ==
  ASSUME IInv, NEW p \in Payloads, SignRecord(p)
  PROVE  IInv'
<1>1. keys' \in Seq(HonestKeys)
  BY OrderingsTyped DEF SignRecord, IInv, TypeOK
<1> QED
  BY <1>1 DEF SignRecord, IInv, TypeOK, SignedPrefix, ReturnedAll, DhtValid,
              AcceptedIsAuthentic

LEMMA SignNextKeyStep ==
  ASSUME IInv, SignNextKey
  PROVE  IInv'
<1> DEFINE n == Len(signed) + 1
<1>1. n \in 1..Len(keys) /\ keys[n] \in HonestKeys
  BY DEF SignNextKey, IInv, TypeOK
<1>2. CASE signed' = Append(signed, SignedBy(keys[n])) /\ UNCHANGED <<spc, result, returned>>
  <2>1. SignedBy(keys[n]) \in Records
    BY <1>1, SignedByFacts DEF IInv, TypeOK
  <2>2. TypeOK'
    BY <1>2, <2>1 DEF SignNextKey, IInv, TypeOK
  <2>3. SignedPrefix'
    BY <1>1, <1>2 DEF SignNextKey, IInv, TypeOK, SignedPrefix, SignedBy
  <2>4. ReturnedAll'
    BY <1>1, <1>2 DEF SignNextKey, IInv, TypeOK, ReturnedAll
  <2> QED
    BY <2>2, <2>3, <2>4 DEF SignNextKey, IInv, DhtValid, AcceptedIsAuthentic
<1>3. CASE result' = "err" /\ returned' = << >> /\ spc' = "done" /\ UNCHANGED signed
  BY <1>3 DEF SignNextKey, IInv, TypeOK, SignedPrefix, SignedBy, ReturnedAll, DhtValid,
              AcceptedIsAuthentic
<1> QED
  BY <1>2, <1>3 DEF SignNextKey, SignedBy

LEMMA SignDoneStep ==
  ASSUME IInv, SignDone
  PROVE  IInv'
<1>1. \A i \in DOMAIN signed : Valid(signed[i]) /\ signed[i].validator_id \in HonestKeys
  <2> SUFFICES ASSUME NEW i \in DOMAIN signed
               PROVE  Valid(signed[i]) /\ signed[i].validator_id \in HonestKeys
    OBVIOUS
  <2>1. i \in 1..Len(keys) /\ signed[i] = SignedBy(keys[i])
    BY DEF IInv, TypeOK, SignedPrefix
  <2>2. keys[i] \in HonestKeys
    BY <2>1 DEF IInv, TypeOK
  <2> QED
    BY <2>1, <2>2, SignedByFacts DEF IInv, TypeOK, SignedBy
<1>2. DhtValid'
  BY <1>1 DEF SignDone, DhtValid, IInv
<1>3. AcceptedIsAuthentic'
  BY DEF SignDone, IInv, AcceptedIsAuthentic
<1>4. TypeOK'
  BY DEF SignDone, IInv, TypeOK
<1> QED
  BY <1>2, <1>3, <1>4 DEF SignDone, IInv, SignedPrefix, SignedBy, ReturnedAll

\* A signature that verifies for an honest key is one seen in the DHT, so
\* the DHT holds a record of that key over the same message.
LEMMA VerifyStep ==
  ASSUME IInv, NEW r \in dht \cup Forged, VerifySignature(r)
  PROVE  IInv'
<1>1. CASE r.auth_signature = Malformed /\ verifier' = "panicked" /\ UNCHANGED accepted
  BY <1>1 DEF VerifySignature, IInv, TypeOK, SignedPrefix, SignedBy, ReturnedAll,
              DhtValid, AcceptedIsAuthentic
<1>2. CASE Valid(r) /\ accepted' = accepted \cup {r} /\ UNCHANGED verifier
  <2>1. r \in Records
    <3>1. CASE r \in dht
      BY <3>1 DEF IInv, TypeOK
    <3>2. CASE r \in Forged
      <4>1. Seen \subseteq Signatures \cup {Malformed}
        BY DEF Seen, IInv, TypeOK, Records
      <4>2. {Sig(k, Message(p)) : k \in FaultyKeys, p \in Payloads} \subseteq Signatures
        BY DEF Signatures, Keys
      <4> QED
        BY <3>2, <4>1, <4>2 DEF Forged, Records
    <3> QED
      BY <3>1, <3>2
  <2>2. r.validator_id \in HonestKeys =>
          \E d \in dht : d.validator_id = r.validator_id /\ Message(d.record) = Message(r.record)
    <3> SUFFICES ASSUME r.validator_id \in HonestKeys
                 PROVE  \E d \in dht : /\ d.validator_id = r.validator_id
                                      /\ Message(d.record) = Message(r.record)
      OBVIOUS
    <3>1. PICK d \in dht : d.auth_signature = r.auth_signature
      <4>1. CASE r \in dht
        BY <4>1
      <4>2. CASE r \in Forged
        <5>1. r.auth_signature \notin {Sig(k, Message(p)) : k \in FaultyKeys, p \in Payloads}
          BY <1>2, KeysAssumption DEF Valid, Sig
        <5>2. r.auth_signature # Malformed
          BY <1>2 DEF Valid
        <5> QED
          BY <4>2, <5>1, <5>2 DEF Forged, Seen
      <4> QED
        BY <4>1, <4>2
    <3>2. Valid(d)
      BY DEF IInv, DhtValid
    <3> QED
      BY <1>2, <3>1, <3>2 DEF Valid
  <2> QED
    BY <1>2, <2>1, <2>2 DEF VerifySignature, IInv, TypeOK, SignedPrefix, SignedBy,
                           ReturnedAll, DhtValid, AcceptedIsAuthentic
<1> QED
  BY <1>1, <1>2 DEF VerifySignature

LEMMA NextStep == IInv /\ [Next]_vars => IInv'
<1> SUFFICES ASSUME IInv, [Next]_vars PROVE IInv'
  OBVIOUS
<1>1. CASE UNCHANGED vars
  BY <1>1 DEF vars, IInv, TypeOK, SignedPrefix, SignedBy, ReturnedAll, DhtValid,
              AcceptedIsAuthentic, Valid
<1> QED
  BY <1>1, KeystoreStep, SignRecordStep, SignNextKeyStep, SignDoneStep, VerifyStep DEF Next

LEMMA IInvHolds == Spec => []IInv
BY InitIInv, NextStep, PTL DEF Spec

(* For every set of keys and payloads, and whatever the rest of the node  *)
(* does to the keystore meanwhile: an Ok from sign_record holds one valid *)
(* record per enumerated key, in order, over the given payload.            *)
THEOREM SignedRecordsCompleteHolds == Spec => []SignedRecordsComplete
<1>1. IInv => SignedRecordsComplete
  <2> SUFFICES ASSUME IInv, result = "ok", NEW i \in DOMAIN returned
               PROVE  /\ returned[i].validator_id = keys[i]
                      /\ returned[i].record = payload
                      /\ Valid(returned[i])
    BY DEF SignedRecordsComplete, IInv, ReturnedAll
  <2>1. i \in 1..Len(keys) /\ returned[i] = SignedBy(keys[i])
    BY DEF IInv, TypeOK, ReturnedAll, SignedPrefix
  <2>2. keys[i] \in HonestKeys /\ payload \in Payloads
    BY <2>1 DEF IInv, TypeOK
  <2> QED
    BY <2>1, <2>2, SignedByFacts DEF SignedBy
<1> QED
  BY <1>1, IInvHolds, PTL

(* For every set of keys: verify_signature accepts a record for an honest *)
(* key only over bytes that key published, whatever faulty peers send.    *)
THEOREM AcceptedIsAuthenticHolds == Spec => []AcceptedIsAuthentic
BY IInvHolds, PTL DEF IInv

(* Every reachable state of sign_record and verify_signature is well      *)
(* typed, for every set of keys and payloads; in particular the keys      *)
(* sign_record enumerates are always keys of this node's keystore type.   *)
THEOREM TypeCorrect == Spec => []TypeOK
BY IInvHolds, PTL DEF IInv
=============================================================================
