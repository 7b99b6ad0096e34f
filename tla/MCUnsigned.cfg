\* InboxAuthPolicy::AllowUnsignedInsecureDev: nothing is signed, documents are embedded.
CONSTANTS
  alice = alice  bob = bob
  rita = rita    sam = sam
  f1 = f1
  v1 = v1        v2 = v2
  t1 = t1        t2 = t2
  Linked = Linked
  None = None
  Shared = Shared
  Locals = {alice}
  Remotes = {rita}
  FollowIds = {f1}
  Versions = {v1, v2}
  Tasks = {t1, t2}
  Requests <- MCUnsigned
  Intents <- MCRetryIntents
  Persistent <- MCUnsignedAccept
  SharedInboxActors = {alice}
  Keyed = {alice}
  RequireSigned = FALSE
SPECIFICATION FairSpec
INVARIANTS
  SentFollowIsRecorded
  AcceptedFollowerIsStored
PROPERTIES
  ImplementsRelationships
  PersistentAcceptConfirms
