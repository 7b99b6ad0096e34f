------------------------------ MODULE Endpoints ------------------------------
(***************************************************************************)
(* The endpoints that answer GET requests: an actor's document, its        *)
(* followers, its notes, and WebFinger.  A request's Accept header is read *)
(* first, range by range, as Negotiation does; then its handler runs, cut  *)
(* at its calls of the storage, which other requests change meanwhile.     *)
(*                                                                         *)
(* A name is a sequence of the parts that its @ signs separate.            *)
(***************************************************************************)
EXTENDS Negotiation, FiniteSets

CONSTANTS
  Requests,      \* the requests that are made
  Parts,         \* the parts of names: texts without @
  Empty,         \* the empty one
  Fold,          \* the lower-case form of each part
  handle_host,   \* the host of the server's handles
  Actors,        \* the ids of the server's actors
  NameOf,        \* the identifier of each of them
  Listed,        \* the actors that have a followers collection
  Followers,     \* remote actors
  Segments,      \* path segments
  Decode,        \* the text that a segment percent-decodes to
  Encode,        \* the segment that `push' makes of a text
  Notes,         \* the notes that may be stored: <<actor, segment>>
  OwnAccept,     \* ACTIVITYPUB_ACCEPT, as Feder's own resolver sends it
  MaxRanges      \* bound on the ranges of an Accept header

Names == Seq(Parts)

ASSUME NameAssumption ==
  /\ Empty \in Parts /\ Fold \in [Parts -> Parts]
  /\ handle_host \in Parts \ {Empty}
  /\ NameOf \in [Actors -> Names]
  /\ \A a \in Actors : NameOf[a] # <<>> /\ NameOf[a] # <<Empty>>
  /\ \A a, b \in Actors : NameOf[a] = NameOf[b] => a = b
  /\ \A p \in Parts : Fold[p] = Fold[handle_host] => p # Empty
  /\ Listed \subseteq Actors
  /\ None \notin Actors \cup Notes \cup {"public", "private"}

\* `push' may spell a segment in another way, but of the same text.
ASSUME SegmentAssumption ==
  /\ Notes \subseteq Actors \X Segments
  /\ \A s \in Segments : Encode[Decode[s]] \in Segments
  /\ \A s \in Segments : Decode[Encode[Decode[s]]] = Decode[s]

ASSUME OwnAssumption ==
  /\ OwnAccept \in Seq(Ranges)
  /\ OwnAccept # <<>>
  /\ \A i \in DOMAIN OwnAccept :
       OwnAccept[i].parses /\ OwnAccept[i].kind = "activitypub" /\ OwnAccept[i].q = None

\* The resource of a WebFinger query: None, or what stands behind its scheme.
ASSUME RequestAssumption ==
  /\ Requests \subseteq
       [route : {"actor", "followers"}, name : Names] \cup
       [route : {"note"}, name : Names, segment : Segments] \cup
       [route : {"webfinger"}, resource : [acct : BOOLEAN, account : Names] \cup {None}]
  /\ \A r \in Requests : r.route = "webfinger" /\ r.resource # None => r.resource.account # <<>>
  /\ None \notin Requests

VARIABLES
  stage,
  request,
  response,
  objects,    \* table objects: "public", "private", or None
  followers   \* table followers: <<follower, following>>

vars == <<header, order, best, stage, request, response, objects, followers>>

Answer(status, document) == [status |-> status, document |-> document]

Init ==
  /\ InitNegotiation
  /\ stage = "idle"
  /\ request = None
  /\ response = None
  /\ objects = [n \in Notes |-> None]
  /\ followers = {}

Respond(answer) ==
  /\ stage' = "answered"
  /\ response' = answer
  /\ UNCHANGED <<header, order, best, request, objects, followers>>

\* What an application answers whose actors are those of NameOf.
get_actor(name) ==
  IF \E a \in Actors : NameOf[a] = name THEN CHOOSE a \in Actors : NameOf[a] = name ELSE None

------------------------------------------------------------------------------
(* Receiving a request *)

Receive(r) ==
  /\ stage = "idle"
  /\ request' = r
  /\ stage' = "headers"
  /\ UNCHANGED <<header, order, best, response, objects, followers>>

\* The handler of WebFinger does not look at the Accept header.
ReceiveRange(range) ==
  /\ stage = "headers"
  /\ request.route # "webfinger"
  /\ Len(header) < MaxRanges
  /\ ReadRange(range)
  /\ UNCHANGED <<stage, request, response, objects, followers>>

Dispatch ==
  /\ stage = "headers"
  /\ stage' = request.route
  /\ UNCHANGED <<header, order, best, request, response, objects, followers>>

------------------------------------------------------------------------------
(* Handlers *)

\* A call of the application or of the storage fails.
Fail ==
  /\ stage \in {"actor", "followers", "note", "webfinger", "list", "load"}
  /\ Respond(Answer(500, None))

actor ==
  LET a == get_actor(request.name)
  IN  /\ stage = "actor"
      /\ Respond(IF ~ accepts_activitypub THEN Answer(406, None)
                 ELSE IF a = None THEN Answer(404, None)
                 ELSE Answer(200, a))

\* Mutant: the identifier ends at the first @.
webfinger_FirstAt ==
  LET resource == request.resource
      parts == resource.account
      a == get_actor(<<parts[1]>>)
  IN  /\ stage = "webfinger"
      /\ Respond(IF resource = None \/ ~ resource.acct \/ Len(parts) < 2 THEN Answer(400, None)
                 ELSE IF Fold[parts[Len(parts)]] # Fold[handle_host] \/ a = None
                   THEN Answer(404, None)
                 ELSE Answer(200, a))

\* The host of a handle stands behind its last @.
webfinger ==
  LET resource == request.resource
      parts == resource.account
      host == parts[Len(parts)]
      identifier == SubSeq(parts, 1, Len(parts) - 1)
      a == get_actor(identifier)
      well_formed == resource.acct /\ Len(parts) >= 2 /\ identifier # <<Empty>> /\ host # Empty
  IN  /\ stage = "webfinger"
      /\ Respond(IF resource = None \/ ~ well_formed THEN Answer(400, None)
                 ELSE IF Fold[host] # Fold[handle_host] \/ a = None THEN Answer(404, None)
                 ELSE Answer(200, a))

followers_lookup ==
  LET a == get_actor(request.name)
  IN  /\ stage = "followers"
      /\ \/ /\ a = None
            /\ Respond(Answer(404, None))
         \/ /\ a # None /\ ~ accepts_activitypub
            /\ Respond(Answer(406, None))
         \/ /\ a # None /\ accepts_activitypub
            /\ stage' = "list"
            /\ UNCHANGED <<header, order, best, request, response, objects, followers>>

list_followers(table, following) == {row[1] : row \in {r \in table : r[2] = following}}

followers_list ==
  LET a == get_actor(request.name)
      items == list_followers(followers, a)
  IN  /\ stage = "list"
      /\ Respond(IF a \notin Listed THEN Answer(500, None)
                 ELSE Answer(200, [id |-> a, total |-> Cardinality(items), items |-> items]))

note_lookup ==
  LET a == get_actor(request.name)
  IN  /\ stage = "note"
      /\ \/ /\ a = None
            /\ Respond(Answer(404, None))
         \/ /\ a # None
            /\ stage' = "load"
            /\ UNCHANGED <<header, order, best, request, response, objects, followers>>

\* The id that the note of this path would have.
note_id == <<get_actor(request.name), Encode[Decode[request.segment]]>>

load_note(id) == IF id \in Notes THEN objects[id] ELSE None

\* Mutant: the Accept header is looked at before the audience.
note_load_AcceptFirst ==
  /\ stage = "load"
  /\ Respond(IF load_note(note_id) = None THEN Answer(404, None)
             ELSE IF ~ accepts_activitypub THEN Answer(406, None)
             ELSE IF load_note(note_id) = "private" THEN Answer(404, None)
             ELSE Answer(200, note_id))

note_load ==
  /\ stage = "load"
  /\ Respond(IF load_note(note_id) # "public" THEN Answer(404, None)
             ELSE IF ~ accepts_activitypub THEN Answer(406, None)
             ELSE Answer(200, note_id))

------------------------------------------------------------------------------

\* The client has the answer.
End ==
  /\ stage = "answered"
  /\ stage' = "idle"
  /\ request' = None
  /\ response' = None
  /\ header' = <<>> /\ order' = 0 /\ best' = NoPreference
  /\ UNCHANGED <<objects, followers>>

\* Other requests and calls of the application.  A note may be stored again
\* with another audience.
StoreNote(id, audience) ==
  /\ stage # "headers"
  /\ objects' = [objects EXCEPT ![id] = audience]
  /\ UNCHANGED <<header, order, best, stage, request, response, followers>>

ChangeFollowers(row) ==
  /\ stage # "headers"
  /\ followers' = IF row \in followers THEN followers \ {row} ELSE followers \cup {row}
  /\ UNCHANGED <<header, order, best, stage, request, response, objects>>

Next ==
  \/ \E r \in Requests : Receive(r)
  \/ \E range \in Ranges : ReceiveRange(range)
  \/ Dispatch \/ Fail
  \/ actor \/ webfinger \/ followers_lookup \/ followers_list \/ note_lookup \/ note_load
  \/ End
  \/ \E id \in Notes, audience \in {"public", "private"} : StoreNote(id, audience)
  \/ \E row \in Followers \X Actors : ChangeFollowers(row)

Spec == Init /\ [][Next]_vars

------------------------------------------------------------------------------
(* Properties *)

Stages == {"idle", "headers", "actor", "webfinger", "followers", "list", "note", "load", "answered"}

(* Every variable is what it says; no quality is above 1, or 0.              *)
TypeOK ==
  /\ header \in Seq(Ranges)
  /\ order \in 0 .. Len(header)
  /\ best \in [Kinds -> [quality : 1 .. 1000, order : Nat] \cup {None}]
  /\ stage \in Stages
  /\ request \in Requests \cup {None}
  /\ objects \in [Notes -> {"public", "private", None}]
  /\ followers \subseteq Followers \X Actors

\* The resource is a handle of the actor: acct:<name>@<host>.
IsHandle(resource, a) ==
  /\ resource # None /\ resource.acct
  /\ \E host \in Parts :
       Fold[host] = Fold[handle_host] /\ resource.account = Append(NameOf[a], host)

(* A Feder server that looks up a handle of this server, in whichever case   *)
(* the host is written and also if the name has @ signs in it, is led to the *)
(* actor of that name and to nobody else; and if it then asks for the actor, *)
(* with the Accept header it sends, it is served the document.               *)
HandleLeadsToActor ==
  stage = "answered" /\ response.status # 500 =>
    /\ request.route = "webfinger" =>
         \A a \in Actors : response = Answer(200, a) <=> IsHandle(request.resource, a)
    /\ request.route = "actor" /\ header = OwnAccept =>
         \A a \in Actors : NameOf[a] = request.name => response = Answer(200, a)

TellsOnlyThat ==
  response' # response /\ response' # None =>
    /\ request.route = "note" /\ response'.status \in {200, 406} =>
         \E n \in Notes :
           /\ NameOf[n[1]] = request.name /\ Decode[n[2]] = Decode[request.segment]
           /\ objects[n] = "public"
           /\ response'.document \in {n, None}
    /\ request.route = "followers" /\ response'.status = 200 =>
         \A f \in response'.document.items :
           \E a \in Actors : NameOf[a] = request.name /\ <<f, a>> \in followers

(* What an answer tells of the tables: that there is a note at some path is  *)
(* only told, by serving it or by asking for another Accept header, while    *)
(* that note is public; a note that is not, and one that does not exist, are *)
(* answered alike.  A follower is named only in the collection of an actor   *)
(* it follows.                                                               *)
TellsNoMore == [][TellsOnlyThat]_vars
==============================================================================
