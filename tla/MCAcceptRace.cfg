\* Accepts race retries of follow_actor that reuse one Follow id.
CONSTANTS
  alice = alice  bob = bob
  rita = rita    sam = sam
  f1 = f1
  v1 = v1        v2 = v2
  t1 = t1        t2 = t2
  Locals = {alice, bob}
  Remotes = {rita, sam}
  FollowIds = {f1}
  Versions = {v1, v2}
  Linked = Linked
  None = None
  Shared = Shared
  Tasks = {t1, t2}
  Requests <- MCRaceRequests
  Intents <- MCRaceIntents
  Persistent = {}
  SharedInboxActors = {alice, bob}
  Keyed = {alice, bob}
  RequireSigned = TRUE
SPECIFICATION Spec
SYMMETRY Symmetry
INVARIANTS
  TypeOK
  ConsentBacksAccepted
PROPERTY
  ImplementsRelationships
