\* alice's server retries until it is accepted; documents change at first.
CONSTANTS
  alice = alice  bob = bob
  f1 = f1  f2 = f2
  v1 = v1  v2 = v2
  t1 = t1  t2 = t2
  u1 = u1  u2 = u2
  Linked = Linked
  None = None
  Shared = Shared
  ActorsA = {alice}
  ActorsB = {bob}
  FollowIds = {f1}
  Versions = {v1, v2}
  HandlersA = {t1}
  CallersA = {t2}
  HandlersB = {u1}
  CallersB = {}
  RequestsA <- MCAccepts
  RequestsB <- MCFollows
  IntentsA <- MCIntentsA
  IntentsB = {}
  SharedA = {alice}
  SharedB = {bob}
  KeyedA = {alice}
  KeyedB = {bob}
SPECIFICATION FairSpec
PROPERTY
  RetriedFollowIsAccepted
