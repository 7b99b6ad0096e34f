\* A retry of follow_actor overtakes an Accept that is answered with 202.
CONSTANTS
  alice = alice  bob = bob
  rita = rita    sam = sam
  f1 = f1
  v1 = v1        v2 = v2
  t1 = t1        t2 = t2
  Linked = Linked
  None = None
  Shared = Shared
  Locals = {alice}
  Remotes = {rita}
  FollowIds = {f1}
  Versions = {v1, v2}
  Tasks = {t1, t2}
  Requests <- MCSingleAccept
  Intents <- MCRetryIntents
  Persistent = {}
  SharedInboxActors = {alice}
  Keyed = {alice}
  RequireSigned = TRUE
SPECIFICATION Spec
PROPERTY
  AcknowledgedAcceptIsConfirmed
