\* alice rotates her keys while requests are verified.
CONSTANTS
  alice = alice  eve = eve
  ka1 = ka1      ke = ke     ka2 = ka2
  document = document   fragment = fragment   eves = eves
  hello = hello  bye = bye   evil = evil
  t1 = t1  t2 = t2
  Actors = {alice}
  Keys = {ka1, ka2}
  Owner <- MCOwner
  KeyIds = {document, fragment}
  Home <- MCHome
  OwnDocument = {document}
  ActorKeys <- MCActorKeys
  KeyDocuments <- MCKeyDocuments
  Bodies = {hello}
  Author <- MCAuthor
  Inboxes <- MCInboxes
  Arrivals <- MCRotated
  Offset <- MCOffset
  Tasks = {t1}
  None = None
  Garbled = Garbled
  MaxAge = 2
  MaxSkew = 1
  Timeout = 1
  Horizon = 2
  MaxSigned = 2
SPECIFICATION Spec
INVARIANTS
  SignedByPublishedKey
  GenuineIsHonoured
CHECK_DEADLOCK FALSE
