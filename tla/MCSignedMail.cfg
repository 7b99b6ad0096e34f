\* Documents stay; whatever was signed arrives, changed or late.
CONSTANTS
  alice = alice  eve = eve
  ka1 = ka1      ke = ke     ka2 = ka2
  document = document   fragment = fragment   eves = eves
  hello = hello  bye = bye   evil = evil
  t1 = t1  t2 = t2
  Actors = {alice, eve}
  Keys = {ka1, ke}
  Owner <- MCOwner
  KeyIds = {document, eves}
  Home <- MCHome
  OwnDocument = {document, eves}
  ActorKeys <- MCStillActorKeys
  KeyDocuments <- MCStillKeyDocuments
  Bodies = {hello, bye, evil}
  Author <- MCAuthor
  Inboxes <- MCInboxes
  Arrivals <- MCArrivals
  Offset <- MCOffset
  Tasks = {t1}
  None = None
  Garbled = Garbled
  MaxAge = 2
  MaxSkew = 1
  Timeout = 1
  Horizon = 6
  MaxSigned = 1
SPECIFICATION Spec
INVARIANTS
  TypeOK
PROPERTIES
  ImplementsSignedMail
CHECK_DEADLOCK FALSE
