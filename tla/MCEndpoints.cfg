\* GET requests of every kind, among changes of the storage.
CONSTANTS
  empty = empty  alice = alice  home = home  server = server  SERVER = SERVER
  one = one  two = two
  plain = plain  escaped = escaped  text = text
  rita = rita
  None = None
  Ranges <- MCRanges
  Requests <- MCRequests
  Parts <- MCParts
  Empty = empty
  Fold <- MCFold
  handle_host = server
  Actors = {one, two}
  NameOf <- MCNameOf
  Listed = {one}
  Followers = {rita}
  Segments = {plain, escaped}
  Decode <- MCDecode
  Encode <- MCEncode
  Notes <- MCNotes
  OwnAccept <- MCOwnAccept
  MaxRanges = 3
SPECIFICATION Spec
INVARIANTS
  TypeOK
  ServesWhatIsPreferred
  HandleLeadsToActor
PROPERTY
  TellsNoMore
