CONSTANTS
  a1 = a1  a2 = a2  a3 = a3  a4 = a4  p1 = p1  p2 = p2
  Validators = {v1, v2}
  Addrs = {a1, a2, a3, a4}
  PeerIds = {p1, p2}
  NoPeer = NoPeer
  PeerOf <- MCPeerOf
SPECIFICATION Spec
SYMMETRY ValidatorSymmetry
INVARIANTS
  TypeOK
  ReverseIndexIsHistory
