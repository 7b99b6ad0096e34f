\* Three processes start, stop and sign on one database, for two actors.
CONSTANTS
  Actors = {alice, bob}
  KeyPairs = {k1, k2, k3}
  Servers = {s1, s2, s3}
  NoKey = NoKey
SPECIFICATION Spec
SYMMETRY Symmetry
INVARIANTS
  TypeOK
  EverySignatureVerifies
  ProcessesAgreeWithTable
PROPERTY
  ImplementsIdentity
