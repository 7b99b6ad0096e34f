\* Each server follows the other's actor, while unsigned requests arrive.
CONSTANTS
  alice = alice  bob = bob
  f1 = f1  f2 = f2
  v1 = v1  v2 = v2
  t1 = t1  t2 = t2
  u1 = u1  u2 = u2
  Linked = Linked
  None = None
  Shared = Shared
  ActorsA = {alice}
  ActorsB = {bob}
  FollowIds = {f1, f2}
  Versions = {v1}
  HandlersA = {t1}
  CallersA = {t2}
  HandlersB = {u1}
  CallersB = {u2}
  RequestsA <- MCRequestsA
  RequestsB <- MCRequestsB
  IntentsA <- MCIntentsA
  IntentsB <- MCIntentsB
  SharedA = {alice}
  SharedB = {bob}
  KeyedA = {alice}
  KeyedB = {bob}
SPECIFICATION Spec
INVARIANTS
  TypeOK
  AcceptedOnBothSides
  FollowersAreRecorded
PROPERTY
  ImplementsHandshake
