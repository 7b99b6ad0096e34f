------------------------- MODULE RequestVerification -------------------------
(***************************************************************************)
(* Signed requests, from the sender that signs one to the inbox that       *)
(* verifies it.  On the way a request may be lost, repeated, delayed,      *)
(* posted to another inbox and changed in any part: what arrives is any    *)
(* request at all, under any signature that has been made.  Only nobody    *)
(* makes a signature without the key.                                      *)
(*                                                                         *)
(* verify_signed_request fetches the key first and the actor document      *)
(* afterwards, while the actor's server may publish new ones.  A task is   *)
(* one run of it, cut at these two awaits.  Time is counted in ticks; the  *)
(* client's timeout bounds each fetch.                                     *)
(***************************************************************************)
EXTENDS Integers, Sequences, FiniteSets

CONSTANTS
  Actors,
  Keys,          \* key pairs
  Owner,         \* whose key pair it is
  KeyIds,
  Home,          \* the actor on whose server the document of a key id is
  OwnDocument,   \* key ids with a document of their own; the other ones are
                 \* fragments of their home's actor document
  ActorKeys,     \* what each actor's document may have as its publicKey
  KeyDocuments,  \* what each document of a key id may be
  Bodies,
  Author,        \* the actor a body names
  Inboxes,       \* URLs of the inboxes
  Arrivals,      \* the requests that may be signed or arrive
  Offset,        \* how far each actor's clock is ahead of the server's
  Tasks,
  None,
  Garbled,       \* a header value its parser refuses
  MaxAge,        \* MAX_SIGNATURE_AGE
  MaxSkew,       \* MAX_CLOCK_SKEW
  Timeout,       \* REQUEST_TIMEOUT
  Horizon,       \* bound on the server's clock
  MaxSigned      \* bound on the number of signatures

CryptographicKeys == [id : KeyIds, owner : Actors, pem : Keys]

\* Reference<CryptographicKey>: an embedded key, or only the id of one.
KeyLinks == [id : KeyIds, owner : {None}, pem : {None}]

ASSUME KeyAssumption ==
  /\ Owner \in [Keys -> Actors]
  /\ Home \in [KeyIds -> Actors]
  /\ OwnDocument \subseteq KeyIds
  /\ ActorKeys \in [Actors -> SUBSET (CryptographicKeys \cup KeyLinks \cup {None})]
  /\ KeyDocuments \in [OwnDocument -> SUBSET (CryptographicKeys \cup {None})]
  /\ None \notin CryptographicKeys \cup KeyLinks \cup Keys \cup Actors \cup KeyIds

\* A server publishes keys whose private half it has, and an actor refers to a
\* key on its own server.  What a key document calls its owner is anybody.
ASSUME PublicationAssumption ==
  /\ \A a \in Actors : \A key \in ActorKeys[a] \ {None} :
       /\ Home[key.id] = a
       /\ key.pem # None => Owner[key.pem] = a
  /\ \A id \in OwnDocument : \A key \in KeyDocuments[id] \ {None} : Owner[key.pem] = Home[id]

Ports == {None} \cup Nat
Hosts == [name : STRING, port : Ports]
Urls == [scheme : {"http", "https"}, host : Hosts, path : STRING]

HeaderNames == {"content-type", "date", "digest", "host"}
RequestTarget == "(request-target)"

\* One entry of a Digest header: an algorithm, and the body it is the digest of.
Digests == [alg : {"sha-256", "other"}, of : Bodies]

\* Headers `twice' have a second value.  `list' is the `headers' parameter of the
\* Signature header; it is empty when that header is missing or does not parse.
IsRequest(q) ==
  /\ q.to \in Inboxes
  /\ q.body \in Bodies
  /\ DOMAIN q.headers \subseteq HeaderNames
  /\ "host" \in DOMAIN q.headers => q.headers["host"] = Garbled \/ q.headers["host"] \in Hosts
  /\ "date" \in DOMAIN q.headers => q.headers["date"] = Garbled \/ q.headers["date"] \in Int
  /\ "digest" \in DOMAIN q.headers => q.headers["digest"] = Garbled \/ q.headers["digest"] \subseteq Digests
  /\ q.twice \subseteq HeaderNames
  /\ q.keyId \in KeyIds
  /\ q.algorithm \in {None, "rsa-sha256", "hs2019", "other"}
  /\ q.list \in Seq(STRING)

ASSUME MailAssumption ==
  /\ Author \in [Bodies -> Actors]
  /\ Inboxes \subseteq Urls
  /\ \A q \in Arrivals : IsRequest(q)
  /\ Offset \in [Actors -> Int]
  /\ None \notin Nat
  /\ Garbled \notin Int /\ Garbled \notin Hosts
  /\ \A body \in Bodies : Garbled # {[alg |-> "sha-256", of |-> body]}

ASSUME TimeAssumption ==
  /\ MaxAge \in Nat /\ MaxSkew \in Nat /\ Timeout \in Nat
  /\ Horizon \in Nat /\ MaxSigned \in Nat

VARIABLES
  now,       \* the server's clock
  actorKey,  \* the publicKey in the document each actor's server now serves
  keyDoc,    \* the document now served for each key id that has one
  signed,    \* the signatures made: a key, and the text it was put to
  owed,      \* history: what send_activity sent and its receivers must honour
  task,      \* the runs of verify_signed_request
  accepted   \* history: the letters that were accepted

vars == <<now, actorKey, keyDoc, signed, owed, task, accepted>>

------------------------------------------------------------------------------
(* Signing *)

\* draft_cavage_signature_base.  The method is always POST.
draft_cavage_signature_base(q) ==
  [target  |-> q.to.path,
   list    |-> q.list,
   headers |-> [n \in {q.list[i] : i \in 2..Len(q.list)} \cap DOMAIN q.headers |-> q.headers[n]]]

sign_draft_cavage(key, q) == [key |-> key, base |-> draft_cavage_signature_base(q)]

DefaultPort(scheme) == IF scheme = "http" THEN 80 ELSE 443

\* Url::port is None for the default port of the scheme.
host_header(url) ==
  IF url.host.port = DefaultPort(url.scheme)
    THEN [url.host EXCEPT !.port = None]
    ELSE url.host

\* What resolve_key finds: the key's own document or the actor's that embeds it.
resolve_key(id) ==
  LET key == IF id \in OwnDocument THEN keyDoc[id] ELSE actorKey[Home[id]]
  IN  IF key # None /\ key \in CryptographicKeys /\ key.id = id THEN key ELSE None

\* Mutant: keys are compared by their ids.
actor_owns_key_ById(a, advertised, key) == advertised # None /\ advertised.id = key.id

\* The key `advertised' in the document of actor a, against the one resolved.
actor_owns_key(a, advertised, key) ==
  /\ advertised # None
  /\ advertised.id = key.id
  /\ advertised.pem # None => advertised.owner = a /\ advertised.pem = key.pem

\* The request send_activity makes of an actor's key id.
activity_request(a, keyId, body, url) ==
  [to        |-> url,
   body      |-> body,
   headers   |-> [n \in HeaderNames |->
                    CASE n = "content-type" -> "activity"
                      [] n = "date"         -> now + Offset[a]
                      [] n = "digest"       -> {[alg |-> "sha-256", of |-> body]}
                      [] n = "host"         -> host_header(url)],
   twice     |-> {},
   keyId     |-> keyId,
   algorithm |-> "rsa-sha256",
   list      |-> <<RequestTarget, "content-type", "date", "digest", "host">>]

\* Whether the documents of actor a vouch for its key k under the id it gives.
Vouched(a, k) ==
  LET key == resolve_key(actorKey[a].id)
  IN  /\ key # None /\ key.owner = a /\ key.pem = k
      /\ actor_owns_key(a, actorKey[a], key)

CanSign == Cardinality(signed) < MaxSigned

\* The code's own sender, on the server of actor a; errors send nothing.
send_activity(a, k, body, url) ==
  LET q == activity_request(a, actorKey[a].id, body, url)
  IN  /\ CanSign
      /\ Owner[k] = a /\ Author[body] = a
      /\ actorKey[a] # None
      /\ actorKey[a].pem # None => actorKey[a].owner = a /\ actorKey[a].pem = k
      /\ q \in Arrivals
      /\ signed' = signed \cup {sign_draft_cavage(k, q)}
      /\ owed' = owed \cup (IF Vouched(a, k)
                               THEN {[request |-> q, signature |-> sign_draft_cavage(k, q)]}
                               ELSE {})
      /\ UNCHANGED <<now, actorKey, keyDoc, task, accepted>>

\* Another implementation signs what it likes with a key it has.
Write(k, q) ==
  /\ CanSign
  /\ signed' = signed \cup {sign_draft_cavage(k, q)}
  /\ UNCHANGED <<now, actorKey, keyDoc, owed, task, accepted>>

------------------------------------------------------------------------------
(* Documents *)

Unhonour(a) ==
  /\ owed' = {o \in owed : Author[o.request.body] # a}
  /\ UNCHANGED <<now, signed, accepted>>

Fetching(tk) == tk.step \in {"fetchKey", "fetchActor"}

\* An actor's server changes what it publishes; the tasks remember what was shown.
PublishActor(a, key) ==
  /\ actorKey' = [actorKey EXCEPT ![a] = key]
  /\ task' = [t \in Tasks |->
                IF Fetching(task[t]) /\ Author[task[t].request.body] = a
                  THEN [task[t] EXCEPT !.owed = FALSE, !.actorShown = @ \cup {key}]
                  ELSE task[t]]
  /\ Unhonour(a)
  /\ UNCHANGED keyDoc

PublishKey(id, key) ==
  /\ id \in OwnDocument
  /\ keyDoc' = [keyDoc EXCEPT ![id] = key]
  /\ task' = [t \in Tasks |->
                IF Fetching(task[t]) /\ task[t].request.keyId = id
                  THEN [task[t] EXCEPT !.owed = FALSE, !.keyShown = @ \cup {key}]
                  ELSE task[t]]
  /\ Unhonour(Home[id])
  /\ UNCHANGED actorKey

------------------------------------------------------------------------------
(* verify_signed_request *)

\* Mutant: the digest need not be signed.
signed_headers_complete_NoDigest(q) ==
  /\ q.algorithm \in {None, "rsa-sha256", "hs2019"}
  /\ q.list # <<>> /\ q.list[1] = RequestTarget
  /\ \A i \in 2..Len(q.list) : q.list[i] \in DOMAIN q.headers \ q.twice
  /\ {"host", "date"} \subseteq {q.list[i] : i \in 2..Len(q.list)}

\* The algorithm, and each signed header named once and present once.
signed_headers_complete(q) ==
  /\ q.algorithm \in {None, "rsa-sha256", "hs2019"}
  /\ q.list # <<>> /\ q.list[1] = RequestTarget
  /\ \A i \in 2..Len(q.list) :
       /\ q.list[i] \in DOMAIN q.headers \ q.twice
       /\ \A j \in 2..Len(q.list) : q.list[i] = q.list[j] => i = j
  /\ {"host", "date", "digest"} \subseteq {q.list[i] : i \in 2..Len(q.list)}

\* Mutant: the port is compared as it is written.
effective_port_AsWritten(host, scheme) == host.port

effective_port(host, scheme) == IF host.port = None THEN DefaultPort(scheme) ELSE host.port

verify_request_host(q) ==
  LET host == q.headers["host"]
  IN  /\ host # Garbled
      /\ host.name = q.to.host.name
      /\ effective_port(host, q.to.scheme) = effective_port(q.to.host, q.to.scheme)

\* Mutant: a date that does not parse is not compared.
verify_request_date_Unparsed(q) ==
  LET date == q.headers["date"]
  IN  date = Garbled \/ (now - date <= MaxAge /\ date - now <= MaxSkew)

verify_request_date(q) ==
  LET date == q.headers["date"]
  IN  date # Garbled /\ now - date <= MaxAge /\ date - now <= MaxSkew

verify_request_digest(q) ==
  LET digest == q.headers["digest"]
  IN  digest # Garbled /\ [alg |-> "sha-256", of |-> q.body] \in digest

verify_draft_cavage(pem, q, signature) ==
  signature.key = pem /\ signature.base = draft_cavage_signature_base(q)

NoTask == [step |-> "none"]

Outcome(t, step) == task' = [task EXCEPT ![t].step = step]

Mail == UNCHANGED <<now, actorKey, keyDoc, signed, owed>>

\* Everything up to the first await.
Receive(t, q, s) ==
  LET ok == /\ signed_headers_complete(q)
            /\ verify_request_host(q)
            /\ verify_request_date(q)
            /\ verify_request_digest(q)
  IN  /\ task[t] = NoTask
      /\ task' = [task EXCEPT ![t] =
           [step       |-> IF ok THEN "fetchKey" ELSE "unauthorized",
            request    |-> q,
            signature  |-> s,
            arrived    |-> now,
            since      |-> now,
            key        |-> None,
            owed       |-> /\ [request |-> q, signature |-> s] \in owed
                           /\ now - q.headers["date"] <= MaxAge
                           /\ q.headers["date"] - now <= MaxSkew,
            keyShown   |-> {IF q.keyId \in OwnDocument THEN keyDoc[q.keyId] ELSE None},
            actorShown |-> {actorKey[Author[q.body]]}]]
      /\ Mail /\ UNCHANGED accepted

\* The key arrives and is checked; the second fetch begins at once.
FetchKey(t) ==
  LET q   == task[t].request
      key == resolve_key(q.keyId)
  IN  /\ task[t].step = "fetchKey"
      /\ IF key = None
           THEN Outcome(t, "keyNotFound")
           ELSE IF /\ key.owner = Author[q.body]
                   /\ verify_draft_cavage(key.pem, q, task[t].signature)
                  THEN task' = [task EXCEPT ![t].step = "fetchActor",
                                            ![t].since = now,
                                            ![t].key = key]
                  ELSE Outcome(t, "unauthorized")
      /\ Mail /\ UNCHANGED accepted

\* An inbox however its URL spells the port.
address(url) == [url EXCEPT !.host = host_header(url)]

letter(q) ==
  [by   |-> Author[q.body],
   body |-> q.body,
   to   |-> address(q.to),
   date |-> q.headers["date"]]

FetchActor(t) ==
  LET q == task[t].request
      a == Author[q.body]
  IN  /\ task[t].step = "fetchActor"
      /\ IF actor_owns_key(a, actorKey[a], task[t].key)
           THEN Outcome(t, "verified") /\ accepted' = accepted \cup {letter(q)}
           ELSE Outcome(t, "unauthorized") /\ UNCHANGED accepted
      /\ Mail

\* Either fetch fails or times out: 502.
FetchFails(t) ==
  /\ Fetching(task[t])
  /\ Outcome(t, "badGateway")
  /\ Mail /\ UNCHANGED accepted

\* The task has answered and is gone.
End(t) ==
  /\ task[t] # NoTask /\ ~Fetching(task[t])
  /\ task' = [task EXCEPT ![t] = NoTask]
  /\ Mail /\ UNCHANGED accepted

\* The client ends a fetch after Timeout, so no fetch outlasts it.
Tick ==
  /\ now < Horizon
  /\ \A t \in Tasks : Fetching(task[t]) => now < task[t].since + Timeout
  /\ now' = now + 1
  /\ UNCHANGED <<actorKey, keyDoc, signed, owed, task, accepted>>

------------------------------------------------------------------------------

Init ==
  /\ now = 0
  /\ actorKey \in [Actors -> CryptographicKeys \cup KeyLinks \cup {None}]
  /\ \A a \in Actors : actorKey[a] \in ActorKeys[a]
  /\ keyDoc \in [OwnDocument -> CryptographicKeys \cup {None}]
  /\ \A id \in OwnDocument : keyDoc[id] \in KeyDocuments[id]
  /\ signed = {}
  /\ owed = {}
  /\ task = [t \in Tasks |-> NoTask]
  /\ accepted = {}

SomeoneSigns ==
  \/ \E a \in Actors, k \in Keys, body \in Bodies, url \in Inboxes : send_activity(a, k, body, url)
  \/ \E k \in Keys, q \in Arrivals : Write(k, q)

SomeonePublishes ==
  \/ \E a \in Actors : \E key \in ActorKeys[a] : PublishActor(a, key)
  \/ \E id \in OwnDocument : \E key \in KeyDocuments[id] : PublishKey(id, key)

Verifies(t) ==
  \/ \E q \in Arrivals, s \in signed : Receive(t, q, s)
  \/ FetchKey(t)
  \/ FetchActor(t)
  \/ FetchFails(t)
  \/ End(t)

Next == SomeoneSigns \/ SomeonePublishes \/ Tick \/ \E t \in Tasks : Verifies(t)

Spec == Init /\ [][Next]_vars

------------------------------------------------------------------------------
(* Properties *)

Signatures == {sign_draft_cavage(k, q) : k \in Keys, q \in Arrivals}

Dates == {q.headers["date"] : q \in {p \in Arrivals : "date" \in DOMAIN p.headers}} \ {Garbled}

Letters == [by : Actors, body : Bodies, to : {address(u) : u \in Inboxes}, date : Dates]

Served == CryptographicKeys \cup KeyLinks \cup {None}

ActiveTasks ==
  [step       : {"fetchKey", "fetchActor", "verified", "unauthorized", "keyNotFound", "badGateway"},
   request    : Arrivals,
   signature  : signed,
   arrived    : Nat,
   since      : Nat,
   key        : CryptographicKeys \cup {None},
   owed       : BOOLEAN,
   keyShown   : SUBSET Served,
   actorShown : SUBSET Served]

(* Every variable keeps its type; a task works on a signature that was made. *)
TypeOK ==
  /\ now \in Nat
  /\ actorKey \in [Actors -> Served]
  /\ keyDoc \in [OwnDocument -> CryptographicKeys \cup {None}]
  /\ signed \subseteq Signatures
  /\ owed \subseteq [request : Arrivals, signature : signed]
  /\ task \in [Tasks -> ActiveTasks \cup {NoTask}]
  /\ accepted \subseteq Letters

\* The letters one signature stands for: any body it holds a digest of, to any
\* inbox its host and path name, at its date.
LettersOf(s) ==
  LET h == s.base.headers
  IN  IF {"host", "date", "digest"} \subseteq DOMAIN h /\ h["host"] # Garbled /\ h["digest"] # Garbled
        THEN {l \in Letters :
                /\ l.by = Owner[s.key]
                /\ l.date = h["date"]
                /\ l.to.path = s.base.target
                /\ l.to = address([l.to EXCEPT !.host = h["host"]])
                /\ [alg |-> "sha-256", of |-> l.body] \in h["digest"]}
        ELSE {}

\* Two fetches may pass between the check of the date and the answer.
Promise == INSTANCE SignedMail WITH
  Letters <- Letters,
  Window  <- MaxAge + 2 * Timeout,
  MaxSkew <- MaxSkew,
  clock   <- now,
  written <- UNION {LettersOf(s) : s \in signed},
  taken   <- accepted

(* Whatever arrives under whichever signature, verify_signed_request accepts *)
(* only what the actor named in the body signed with a key of its own, for   *)
(* this inbox, with this body, and dated within the window.                  *)
ImplementsSignedMail == Promise!Spec

(* Keys and actor document are fetched one after the other while both may be *)
(* replaced.  An accepted request is signed with a key that was served under *)
(* its id since the request arrived; and the actor's document named that id, *)
(* with that very key if it embeds one.  A key that was replaced before the  *)
(* request arrived vouches for nothing.                                      *)
SignedByPublishedKey ==
  \A t \in Tasks : task[t] # NoTask /\ task[t].step = "verified" =>
    LET tk    == task[t]
        id    == tk.request.keyId
        shown == IF id \in OwnDocument THEN tk.keyShown ELSE tk.actorShown
    IN  /\ \E key \in shown \ {None} : key.id = id /\ key.pem = tk.signature.key
        /\ \E advertised \in tk.actorShown \ {None} :
             advertised.id = id /\ advertised.pem \in {None, tk.signature.key}

(* A request of send_activity that arrives unchanged and in time, and whose  *)
(* signer's documents stay as they were, is not refused: it is verified or   *)
(* a fetch fails.                                                            *)
GenuineIsHonoured ==
  \A t \in Tasks : task[t] # NoTask /\ task[t].owed =>
    task[t].step \notin {"unauthorized", "keyNotFound"}
==============================================================================
