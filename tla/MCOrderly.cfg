\* Follows and Undos are repeated, fail and lose their Accept; documents change.
CONSTANTS
  alice = alice  bob = bob
  rita = rita    f1 = f1
  v1 = v1        v2 = v2
  t1 = t1        t2 = t2
  Linked = Linked
  None = None
  Shared = Shared
  Locals = {alice, bob}
  Remotes = {rita}
  FollowIds = {f1}
  Versions = {v1, v2}
  Tasks = {t1, t2}
  Requests <- MCRequests
  Intents = {}
  Persistent = {}
  SharedInboxActors = {bob}
  Keyed = {alice}
  RequireSigned = TRUE
SPECIFICATION OrderlySpec
SYMMETRY Symmetry
INVARIANTS
  LastWordStands
  FreshRow
  FollowerAsked
PROPERTY
  ImplementsFollowerList
