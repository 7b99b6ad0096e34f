\* One request after the other, to names and addresses of every kind.
CONSTANTS
  rita = rita  sam = sam
  loop = loop  mapped = mapped  plain = plain
  feder = feder
  t1 = t1  t2 = t2
  Tasks = {t1}
  Calls <- MCCalls
  Ids = {rita, sam, loop, mapped, plain}
  UrlOf <- MCUrlOf
  Names = {feder}
  V4Bits = 1
  V6Bits = 2
  MappedBase = 2
  Networks <- MCNetworks
  PublicOnly = TRUE
  Answers <- MCAnswers
  Limit = 2
  MaxSize = 3
  MaxChunk = 2
  None = None
SPECIFICATION FairSpec
INVARIANTS
  TypeOK
  OnlyPublicPeers
  OwnDocuments
  AnswerDecides
PROPERTY
  EveryRequestEnds
