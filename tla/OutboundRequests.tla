--------------------------- MODULE OutboundRequests ---------------------------
(***************************************************************************)
(* The HTTP requests the server makes: ActorResolver fetches the documents *)
(* of actors and keys, ActivitySender posts to inboxes.  Both use a client *)
(* that may only reach public addresses.  Neither what a name resolves to  *)
(* nor what a peer answers is in the server's hands, and both may be       *)
(* different every time.                                                   *)
(*                                                                         *)
(* A task is one request, cut where its client waits: for a name, for a    *)
(* connection, for the head of the response and for each chunk of its      *)
(* body.  Connections are kept and used again.                             *)
(***************************************************************************)
EXTENDS Integers

CONSTANTS
  Tasks,
  Calls,        \* the requests that are made
  Ids,          \* ids of actors and keys, and URLs of inboxes
  UrlOf,        \* the URL each of them is
  Names,        \* domain names
  V4Bits,       \* the width of an IPv4 address
  V6Bits,       \* the width of an IPv6 address
  MappedBase,   \* ::ffff:0:0
  Networks,     \* NON_PUBLIC_NETWORK_CIDRS
  PublicOnly,   \* OutboundAddressPolicy: PublicOnly, or AllowPrivateAddress
  Answers,      \* what peers answer
  Limit,        \* MAX_ACTOR_BODY_SIZE
  MaxSize,      \* bound on the size of a body that ends
  MaxChunk,     \* bound on the size of a chunk
  None

V4 == [family : {4}, value : 0 .. 2^V4Bits - 1]
V6 == [family : {6}, value : 0 .. 2^V6Bits - 1]
IpAddrs == V4 \cup V6
Hosts == IpAddrs \cup Names

Urls == [scheme : {"http", "https", "other"}, user : BOOLEAN, host : Hosts \cup {None}]

ASSUME AddressAssumption ==
  /\ V4Bits \in Nat /\ V6Bits \in Nat /\ MappedBase \in Nat
  /\ MappedBase + 2^V4Bits <= 2^V6Bits
  /\ Networks \subseteq [family : {4, 6}, first : Nat, last : Nat]
  /\ PublicOnly \in BOOLEAN

ASSUME RequestAssumption ==
  /\ UrlOf \in [Ids -> Urls]
  /\ Calls \subseteq [kind : {"actor", "key", "post"}, id : Ids]
  /\ None \notin Ids \cup Hosts \cup Calls \cup Answers
  /\ Names \cap IpAddrs = {}

ASSUME SizeAssumption ==
  Limit \in Nat /\ MaxSize \in Nat /\ MaxChunk \in Nat

Endless == -1   \* the size of a body that does not end

\* What a body may parse as: a key, or an actor that may embed a key.
Documents == [key : Ids \cup {None}, actor : Ids \cup {None}, embedded : Ids \cup {None}]

\* A response.  A declared length is that of the body: the client ends a body
\* there, and fails if it breaks off before.  `location' is where a redirect
\* points to.
ASSUME AnswerAssumption ==
  Answers \subseteq [status   : {"success", "redirect", "failure"},
                    location : Ids,
                    type     : {"activitypub", "other"},
                    size     : 0 .. MaxSize \cup {Endless},
                    declared : BOOLEAN,
                    document : Documents]

VARIABLES
  task,
  pool,       \* the open connections: <<host, address>>
  contacted   \* history: the addresses that were sent anything

vars == <<task, pool, contacted>>

Results ==
  {"Ok", "InvalidUrl", "PrivateAddress", "Request", "UnsuccessfulStatus",
   "UnsupportedContentType", "ResponseTooLarge", "Deserialize", "ActorIdMismatch",
   "KeyNotFound"}

Stages == {"lookup", "connect", "exchange", "read"}

TaskStates ==
  [stage      : Stages \cup {"idle", "returned"},
   call       : Calls \cup {None},
   host       : Hosts \cup {None},
   candidates : SUBSET IpAddrs,
   answer     : Answers \cup {None},
   body       : 0 .. Limit,
   result     : Results \cup {None},
   found      : Ids \cup {None}]   \* the id of the actor or key that is returned

Idle == [stage |-> "idle", call |-> None, host |-> None, candidates |-> {},
         answer |-> None, body |-> 0, result |-> None, found |-> None]

Init ==
  /\ task = [t \in Tasks |-> Idle]
  /\ pool = {}
  /\ contacted = {}

Return(t, result) ==
  task' = [task EXCEPT ![t].stage = "returned", ![t].result = result]

------------------------------------------------------------------------------
(* The address policy *)

contains(net, address) ==
  address.family = net.family /\ net.first <= address.value /\ address.value <= net.last

is_mapped(address) ==
  address.family = 6 /\ address.value - MappedBase \in 0 .. 2^V4Bits - 1

\* to_ipv4_mapped, or the address itself.
unmapped(address) ==
  IF is_mapped(address)
    THEN [family |-> 4, value |-> address.value - MappedBase]
    ELSE address

\* Mutant: an IPv4 address in IPv6 form is taken for an IPv6 address.
validate_public_address_AsWritten(address) ==
  ~ \E net \in Networks : contains(net, address)

validate_public_address(address) ==
  ~ \E net \in Networks : contains(net, unmapped(address))

\* Of a literal host only; a name is checked when it is resolved.
validate_literal_host(url) ==
  PublicOnly /\ url.host \in IpAddrs => validate_public_address(url.host)

valid_url(url) ==
  url.scheme \in {"http", "https"} /\ ~ url.user /\ url.host # None

------------------------------------------------------------------------------
(* Making a request *)

\* fetch_document and send_activity up to the client's send.
Begin(t, call) ==
  LET url == UrlOf[call.id]
  IN  /\ task[t].stage = "idle"
      /\ task' = [task EXCEPT ![t] =
           IF ~ valid_url(url)
             THEN [Idle EXCEPT !.stage = "returned", !.call = call, !.result = "InvalidUrl"]
           ELSE IF ~ validate_literal_host(url)
             THEN [Idle EXCEPT !.stage = "returned", !.call = call, !.result = "PrivateAddress"]
           ELSE [Idle EXCEPT !.stage = IF url.host \in Names THEN "lookup" ELSE "connect",
                             !.call = call,
                             !.host = url.host,
                             !.candidates = {url.host} \ Names]]
      /\ UNCHANGED <<pool, contacted>>

\* PublicDnsResolver::resolve.  One address that is not public spoils the answer.
Lookup(t) ==
  /\ task[t].stage = "lookup"
  /\ \E addresses \in SUBSET IpAddrs :
       IF addresses = {} \/ (PublicOnly /\ \E a \in addresses : ~ validate_public_address(a))
         THEN Return(t, "Request")
         ELSE task' = [task EXCEPT ![t].stage = "connect", ![t].candidates = addresses]
  /\ UNCHANGED <<pool, contacted>>

\* The client tries the addresses until one answers.
Connect(t, address) ==
  /\ task[t].stage = "connect"
  /\ address \in task[t].candidates
  /\ contacted' = contacted \cup {address}
  /\ \/ /\ task' = [task EXCEPT ![t].stage = "exchange", ![t].candidates = {}]
        /\ pool' = pool \cup {<<task[t].host, address>>}
     \/ /\ task' = [task EXCEPT ![t].candidates = @ \ {address}]
        /\ UNCHANGED pool

\* A connection that is still open saves the lookup and the connecting.
Reuse(t, address) ==
  /\ task[t].stage \in {"lookup", "connect"}
  /\ <<task[t].host, address>> \in pool
  /\ contacted' = contacted \cup {address}
  /\ task' = [task EXCEPT ![t].stage = "exchange", ![t].candidates = {}]
  /\ UNCHANGED pool

Close(connection) ==
  /\ connection \in pool
  /\ pool' = pool \ {connection}
  /\ UNCHANGED <<task, contacted>>

------------------------------------------------------------------------------
(* Its answer *)

\* Mutant: the client's default, which goes where a redirect points to.
Respond_FollowRedirect(t, answer) ==
  /\ task[t].stage = "exchange"
  /\ answer.status = "redirect"
  /\ LET host == UrlOf[answer.location].host
     IN  /\ host # None
         /\ task' = [task EXCEPT ![t].stage = IF host \in Names THEN "lookup" ELSE "connect",
                                 ![t].host = host,
                                 ![t].candidates = {host} \ Names]
  /\ UNCHANGED <<pool, contacted>>

\* The head of the response.  Redirects are not followed: Policy::none().
Respond(t, answer) ==
  LET post == task[t].call.kind = "post"
  IN  /\ task[t].stage = "exchange"
      /\ task' = [task EXCEPT ![t] =
           LET known == [task[t] EXCEPT !.answer = answer]
               Returned(result) == [known EXCEPT !.stage = "returned", !.result = result]
           IN  CASE answer.status # "success" -> Returned("UnsuccessfulStatus")
                 [] answer.status = "success" /\ post -> Returned("Ok")
                 [] answer.status = "success" /\ ~ post /\ answer.type = "other" ->
                      Returned("UnsupportedContentType")
                 [] answer.status = "success" /\ ~ post /\ answer.type # "other"
                      /\ answer.declared /\ answer.size > Limit -> Returned("ResponseTooLarge")
                 [] OTHER -> [known EXCEPT !.stage = "read"]]
      /\ UNCHANGED <<pool, contacted>>

\* Whether more of the body is to come than the task has read.
More(t, n) ==
  task[t].answer.size = Endless \/ (task[t].body + n <= task[t].answer.size)

\* Mutant: a body of exactly the limit is one too many.
ReadChunk_Short(t, n) ==
  /\ task[t].stage = "read"
  /\ n > 0 /\ More(t, n)
  /\ IF task[t].body + n >= Limit
       THEN Return(t, "ResponseTooLarge")
       ELSE task' = [task EXCEPT ![t].body = @ + n]
  /\ UNCHANGED <<pool, contacted>>

\* Mutant: only a declared length is checked.
ReadChunk_Unchecked(t, n) ==
  /\ task[t].stage = "read"
  /\ n > 0 /\ More(t, n)
  /\ task' = [task EXCEPT ![t].body = @ + n]
  /\ UNCHANGED <<pool, contacted>>

ReadChunk(t, n) ==
  /\ task[t].stage = "read"
  /\ n > 0 /\ More(t, n)
  /\ IF task[t].body + n > Limit
       THEN Return(t, "ResponseTooLarge")
       ELSE task' = [task EXCEPT ![t].body = @ + n]
  /\ UNCHANGED <<pool, contacted>>

\* Mutant: whichever actor a document describes is taken.
resolve_AnyId(id, document) ==
  IF document.actor = None THEN "Deserialize" ELSE "Ok"

\* resolve: the document describes the actor that was asked for.
resolve(id, document) ==
  IF document.actor = None THEN "Deserialize"
  ELSE IF document.actor # id THEN "ActorIdMismatch"
  ELSE "Ok"

\* resolve_key: the document is that key, or an actor that embeds it.
resolve_key(id, document) ==
  IF document.key = id \/ (document.actor # None /\ document.embedded = id)
    THEN "Ok" ELSE "KeyNotFound"

\* The end of the body, and what is made of it.
Complete(t) ==
  LET call == task[t].call
      document == task[t].answer.document
      result == IF call.kind = "actor" THEN resolve(call.id, document)
                                       ELSE resolve_key(call.id, document)
  IN  /\ task[t].stage = "read"
      /\ task[t].body = task[t].answer.size
      /\ task' = [task EXCEPT
           ![t].stage = "returned",
           ![t].result = result,
           ![t].found = CASE result # "Ok" -> None
                          [] result = "Ok" /\ call.kind = "actor" -> document.actor
                          [] OTHER -> call.id]
      /\ UNCHANGED <<pool, contacted>>

------------------------------------------------------------------------------

\* Mutant: only CONNECT_TIMEOUT is set.
Expire_ConnectOnly(t) ==
  /\ task[t].stage \in {"lookup", "connect"}
  /\ Return(t, "Request")
  /\ UNCHANGED <<pool, contacted>>

\* REQUEST_TIMEOUT runs from the lookup to the end of the body, and an error of
\* the transport may come at any time of it.
Expire(t) ==
  /\ task[t].stage \in Stages
  /\ Return(t, "Request")
  /\ UNCHANGED <<pool, contacted>>

\* The caller takes the result.
End(t) ==
  /\ task[t].stage = "returned"
  /\ task' = [task EXCEPT ![t] = Idle]
  /\ UNCHANGED <<pool, contacted>>

Next ==
  \/ \E t \in Tasks :
       \/ \E call \in Calls : Begin(t, call)
       \/ Lookup(t)
       \/ \E address \in IpAddrs : Connect(t, address) \/ Reuse(t, address)
       \/ \E answer \in Answers : Respond(t, answer)
       \/ \E n \in 1 .. MaxChunk : ReadChunk(t, n)
       \/ Complete(t)
       \/ Expire(t)
       \/ End(t)
  \/ \E connection \in pool : Close(connection)

Spec == Init /\ [][Next]_vars

\* Time passes: the client's timer fires unless the request is over.  Of names
\* and peers nothing is assumed.
FairSpec == Spec /\ \A t \in Tasks : WF_vars(Expire(t))

------------------------------------------------------------------------------
(* Properties *)

(* Every task, connection and contact is what it says. *)
TypeOK ==
  /\ task \in [Tasks -> TaskStates]
  /\ pool \subseteq Hosts \X IpAddrs
  /\ contacted \subseteq IpAddrs

(* The machine that a connection to an address ends at: an IPv4 address in   *)
(* IPv6 form is that IPv4 address.                                           *)
Endpoints(address) ==
  {e \in IpAddrs :
     \/ e = address /\ ~ is_mapped(address)
     \/ is_mapped(address) /\ e.family = 4 /\ e.value + MappedBase = address.value}

(* Under PublicOnly no request ends at a non-public network, whichever way   *)
(* its address was found: written in the URL, in either form; resolved, once *)
(* or again with another answer; tried after others failed; kept open from   *)
(* an earlier request; or pointed to by a redirect.                          *)
OnlyPublicPeers ==
  PublicOnly => \A c \in contacted : \A e \in Endpoints(c), net \in Networks :
    ~ (e.family = net.family /\ e.value \in net.first .. net.last)

(* The document of the id that was asked for. *)
Describes(document, call) ==
  IF call.kind = "actor" THEN document.actor = call.id
  ELSE document.key = call.id \/ (document.actor # None /\ document.embedded = call.id)

Good(call, answer) ==
  /\ answer.status = "success"
  /\ call.kind # "post" =>
       /\ answer.type = "activitypub"
       /\ answer.size # Endless /\ answer.size <= Limit
       /\ Describes(answer.document, call)

(* No server speaks for another: an actor or a key that is returned is the   *)
(* one that was asked for, and was read from a connection made for the host  *)
(* its id names.                                                             *)
OwnDocuments ==
  \A t \in Tasks :
    LET tk == task[t]
    IN  tk.found # None => tk.found = tk.call.id /\ tk.host = UrlOf[tk.found].host

(* The answer alone decides: a request that is not cut short returns Ok just *)
(* when its answer is a success, in size and kind as it should be, and about *)
(* the id that was asked for.  The limit is exact, however the body is cut   *)
(* into chunks and whether or not its length is declared.                    *)
AnswerDecides ==
  \A t \in Tasks :
    LET tk == task[t]
    IN  tk.stage = "returned" /\ tk.answer # None =>
          /\ tk.result = "Ok" => Good(tk.call, tk.answer)
          /\ Good(tk.call, tk.answer) => tk.result \in {"Ok", "Request"}

(* Every request ends, also when the peer sends its body without end.        *)
EveryRequestEnds ==
  \A t \in Tasks : task[t].stage \in Stages ~> task[t].stage = "returned"
==============================================================================
