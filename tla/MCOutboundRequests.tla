-------------------------- MODULE MCOutboundRequests --------------------------
(***************************************************************************)
(* A small instance of OutboundRequests: IPv4 addresses of one bit, of     *)
(* which 0 is private, and IPv6 addresses of two, of which 2 and 3 are the *)
(* IPv4 addresses and 0 is private.                                        *)
(***************************************************************************)
EXTENDS OutboundRequests

CONSTANTS rita, sam,           \* an actor; an id whose URL has a user name
          loop, mapped, plain, \* ids with a literal host
          feder,               \* a domain name
          t1, t2

Url(host) == [scheme |-> "https", user |-> FALSE, host |-> host]

MCUrlOf ==
  [id \in Ids |->
     CASE id = rita   -> Url(feder)
       [] id = loop   -> Url([family |-> 4, value |-> 0])
       [] id = mapped -> Url([family |-> 6, value |-> 2])
       [] id = plain  -> [Url([family |-> 6, value |-> 1]) EXCEPT !.scheme = "http"]
       [] OTHER       -> [Url(feder) EXCEPT !.user = TRUE]]

MCNetworks == {[family |-> 4, first |-> 0, last |-> 0], [family |-> 6, first |-> 0, last |-> 0]}

MCCalls ==
  [kind : {"actor", "key"}, id : {rita}] \cup
  [kind : {"post"}, id : {loop, mapped, plain, sam}]

Document(key, actor, embedded) == [key |-> key, actor |-> actor, embedded |-> embedded]

Rita == Document(None, rita, rita)

\* A good answer, and what each part of it may be instead.
OK == [status |-> "success", location |-> rita, type |-> "activitypub",
       size |-> Limit, declared |-> FALSE, document |-> Rita]

MCAnswers ==
  [status : {"success"}, location : {rita}, type : {"activitypub"},
   size : {Limit, Limit + 1}, declared : BOOLEAN, document : {Rita}] \cup
  {[OK EXCEPT !.document = d] :
     d \in {Document(rita, None, None), Document(None, sam, rita), Document(None, None, None)}} \cup
  {[OK EXCEPT !.size = 0, !.document = Document(None, None, None)],
   [OK EXCEPT !.size = Endless],
   [OK EXCEPT !.type = "other"],
   [OK EXCEPT !.status = "failure"],
   [OK EXCEPT !.status = "redirect", !.location = loop],
   [OK EXCEPT !.status = "redirect", !.location = plain]}
==============================================================================
