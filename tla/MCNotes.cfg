\* Two calls at a time, for two authors, while followers come and go.
CONSTANTS
  alice = alice  bob = bob
  rita = rita    sam = sam
  v1 = v1        v2 = v2
  t1 = t1        t2 = t2
  n1 = n1        n2 = n2
  public = public          collection = collection
  ritas1 = ritas1          ritas2 = ritas2
  sams = sams              shared = shared
  Remotes = {rita}
  FollowIds = {}
  Linked = Linked
  None = None
  NoteIds = {n1, n2}
  Addresses <- MCAddresses
  Public = public
  Collection <- MCCollection
  Inboxes <- MCInboxes
  Inbox <- MCInbox
  SharedInbox <- MCSharedInbox
  Keyed = {alice}
  Locals = {alice, bob}
  Versions = {v2}
  Tasks = {t1, t2}
  Calls <- MCCalls
SPECIFICATION FairSpec
INVARIANTS
  TypeOK
  DeliveredIsStored
  OnlyTheAudience
  OkMeansDelivered
  EveryRecipientAttempted
PROPERTY
  CallsAdvance
  EveryCallEnds
