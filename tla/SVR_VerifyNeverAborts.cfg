\* Two honest authority keys (a node across a key rotation), one faulty peer.
CONSTANTS
  HonestKeys = {k1, k2}
  FaultyKeys = {f1}
  Malformed = Malformed
  Payloads <- MCPayloads
SYMMETRY KeySymmetry
SPECIFICATION Spec
INVARIANT VerifyNeverAborts
