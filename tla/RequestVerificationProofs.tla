----------------------- MODULE RequestVerificationProofs -----------------------
(***************************************************************************)
(* Proofs about RequestVerification, for every set of actors, keys,        *)
(* documents, requests and tasks, and for all time bounds.                 *)
(***************************************************************************)
EXTENDS RequestVerification, TLAPS

(***************************************************************************)
(* The inductive invariant: what a task knows between its two fetches.     *)
(***************************************************************************)

\* Documents are among those their servers may publish.
PublishedOK ==
  /\ \A a \in Actors : actorKey[a] \in ActorKeys[a]
  /\ \A id \in OwnDocument : keyDoc[id] \in KeyDocuments[id]

HeadersOK(q) ==
  /\ signed_headers_complete(q)
  /\ verify_request_host(q)
  /\ verify_request_digest(q)
  /\ q.headers["date"] # Garbled

\* The key a task has fetched made the signature; its home has the private half.
KeyOK(tk) ==
  /\ tk.key \in CryptographicKeys
  /\ tk.key.id = tk.request.keyId
  /\ tk.key.owner = Author[tk.request.body]
  /\ verify_draft_cavage(tk.key.pem, tk.request, tk.signature)
  /\ Owner[tk.key.pem] = Home[tk.request.keyId]

\* How long ago the date was compared.
TimeOK(tk) ==
  /\ tk.arrived - tk.request.headers["date"] <= MaxAge
  /\ tk.request.headers["date"] - tk.arrived <= MaxSkew
  /\ tk.arrived <= tk.since /\ tk.since <= now /\ now <= tk.since + Timeout
  /\ tk.step = "fetchKey" => tk.since = tk.arrived
  /\ tk.step = "fetchActor" => tk.since <= tk.arrived + Timeout

FetchOK(tk) ==
  Fetching(tk) =>
    /\ HeadersOK(tk.request)
    /\ TimeOK(tk)
    /\ tk.step = "fetchActor" => KeyOK(tk)

ShownKeys(tk) == IF tk.request.keyId \in OwnDocument THEN tk.keyShown ELSE tk.actorShown

KeyShown(tk) ==
  \E key \in ShownKeys(tk) \ {None} :
    key.id = tk.request.keyId /\ key.pem = tk.signature.key

\* What is served now has been shown, and what was fetched was.
ShownOK(tk) ==
  Fetching(tk) =>
    /\ actorKey[Author[tk.request.body]] \in tk.actorShown
    /\ tk.request.keyId \in OwnDocument => keyDoc[tk.request.keyId] \in tk.keyShown
    /\ tk.step = "fetchActor" /\ Home[tk.request.keyId] = Author[tk.request.body] => KeyShown(tk)

VerifiedOK(tk) ==
  tk.step = "verified" =>
    /\ KeyShown(tk)
    /\ \E advertised \in tk.actorShown \ {None} :
         advertised.id = tk.request.keyId /\ advertised.pem \in {None, tk.signature.key}

\* What is served now vouches for the request.
Honourable(q, s) ==
  /\ HeadersOK(q)
  /\ Home[q.keyId] = Author[q.body]
  /\ resolve_key(q.keyId) # None
  /\ resolve_key(q.keyId).owner = Author[q.body]
  /\ verify_draft_cavage(resolve_key(q.keyId).pem, q, s)
  /\ actor_owns_key(Author[q.body], actorKey[Author[q.body]], resolve_key(q.keyId))

OwedOK == \A o \in owed : Honourable(o.request, o.signature)

OwedTaskOK(tk) ==
  tk.owed =>
    /\ tk.step \notin {"unauthorized", "keyNotFound"}
    /\ Fetching(tk) => Honourable(tk.request, tk.signature)
    /\ tk.step = "fetchActor" => tk.key = resolve_key(tk.request.keyId)

TaskOK(tk) ==
  /\ FetchOK(tk)
  /\ ShownOK(tk)
  /\ VerifiedOK(tk)
  /\ OwedTaskOK(tk)

TasksOK == \A t \in Tasks : task[t] # NoTask => TaskOK(task[t])

IInv ==
  /\ TypeOK
  /\ PublishedOK
  /\ OwedOK
  /\ TasksOK

(***************************************************************************)
(* Lemmas about the operators                                              *)
(***************************************************************************)

\* A task that has begun is not NoTask, which has no other field.
LEMMA Begun ==
  ASSUME NEW tk \in ActiveTasks
  PROVE  tk # NoTask
<1>1. DOMAIN tk # DOMAIN NoTask
  <2>1. "request" \in DOMAIN tk  BY DEF ActiveTasks
  <2>2. "request" \notin DOMAIN NoTask  BY DEF NoTask
  <2> QED  BY <2>1, <2>2
<1> QED  BY <1>1

LEMMA NotFetching == ~Fetching(NoTask)
BY DEF Fetching, NoTask

\* A key that is found has the id asked for, and a private half at its home.
LEMMA ResolvedKey ==
  ASSUME KeyAssumption, PublicationAssumption, TypeOK, PublishedOK, NEW id \in KeyIds,
         resolve_key(id) # None
  PROVE  /\ resolve_key(id) \in CryptographicKeys
         /\ resolve_key(id).id = id
         /\ Owner[resolve_key(id).pem] = Home[id]
         /\ resolve_key(id) = IF id \in OwnDocument THEN keyDoc[id] ELSE actorKey[Home[id]]
<1> DEFINE key == IF id \in OwnDocument THEN keyDoc[id] ELSE actorKey[Home[id]]
<1>1. key # None /\ key \in CryptographicKeys /\ key.id = id /\ resolve_key(id) = key
  BY DEF resolve_key
<1>2. key.pem \in Keys  BY <1>1 DEF CryptographicKeys
<1>3. Owner[key.pem] = Home[id]
  <2>1. CASE id \in OwnDocument
    BY <1>1, <2>1 DEF PublicationAssumption, PublishedOK
  <2>2. CASE id \notin OwnDocument
    <3>1. Home[id] \in Actors  BY DEF KeyAssumption
    <3>2. key \in ActorKeys[Home[id]] \ {None}  BY <1>1, <2>2, <3>1 DEF PublishedOK
    <3>3. key.pem # None  BY <1>2 DEF KeyAssumption
    <3> QED  BY <3>1, <3>2, <3>3 DEF PublicationAssumption
  <2> QED  BY <2>1, <2>2
<1> QED  BY <1>1, <1>3

\* The actor whose document vouches for a key is the one at whose server it is.
LEMMA VouchedAtHome ==
  ASSUME PublicationAssumption, PublishedOK, NEW a \in Actors, NEW key,
         actor_owns_key(a, actorKey[a], key)
  PROVE  Home[key.id] = a
BY DEF actor_owns_key, PublicationAssumption, PublishedOK

\* send_activity's request passes every check that needs no fetch but the date.
LEMMA SentHeaders ==
  ASSUME MailAssumption, TypeOK, NEW a \in Actors, NEW keyId, NEW body \in Bodies,
         NEW url \in Inboxes, NEW q, q = activity_request(a, keyId, body, url)
  PROVE  HeadersOK(q) /\ q.keyId = keyId /\ q.body = body
<1> DEFINE names == {"content-type", "date", "digest", "host"}
<1>1. /\ q.to = url /\ q.body = body /\ q.keyId = keyId /\ q.twice = {}
      /\ q.algorithm = "rsa-sha256"
      /\ q.list = <<"(request-target)", "content-type", "date", "digest", "host">>
      /\ DOMAIN q.headers = names
      /\ q.headers["date"] = now + Offset[a]
      /\ q.headers["digest"] = {[alg |-> "sha-256", of |-> body]}
      /\ q.headers["host"] = host_header(url)
  BY DEF activity_request, HeaderNames, RequestTarget
<1>2. Len(q.list) = 5 /\ q.list[1] = "(request-target)" /\ q.list[2] = "content-type"
      /\ q.list[3] = "date" /\ q.list[4] = "digest" /\ q.list[5] = "host"
  BY <1>1
<1>3. signed_headers_complete(q)
  <2>1. \A i \in 2..5 : q.list[i] \in names
    BY <1>2
  <2>2. \A i, j \in 2..5 : q.list[i] = q.list[j] => i = j
    BY <1>2
  <2>3. {"host", "date", "digest"} \subseteq {q.list[i] : i \in 2..5}
    <3>1. 3 \in 2..5 /\ 4 \in 2..5 /\ 5 \in 2..5  OBVIOUS
    <3> QED  BY <1>2, <3>1
  <2>4. q.list # <<>>  BY <1>2
  <2> QED  BY <1>1, <1>2, <2>1, <2>2, <2>3, <2>4 DEF signed_headers_complete, RequestTarget
<1>4. url.host \in Hosts /\ url.scheme \in {"http", "https"}
  BY DEF MailAssumption, Urls
<1>5. /\ host_header(url) \in Hosts
      /\ host_header(url).name = url.host.name
      /\ effective_port(host_header(url), url.scheme) = effective_port(url.host, url.scheme)
  BY <1>4 DEF host_header, effective_port, Hosts, Ports
<1>6. verify_request_host(q)
  BY <1>1, <1>5 DEF verify_request_host, MailAssumption
<1>7. verify_request_digest(q)
  BY <1>1 DEF verify_request_digest, MailAssumption
<1>8. q.headers["date"] # Garbled
  <2>1. now \in Nat /\ Offset[a] \in Int  BY DEF TypeOK, MailAssumption
  <2> QED  BY <1>1, <2>1 DEF MailAssumption
<1> QED  BY <1>1, <1>3, <1>6, <1>7, <1>8 DEF HeadersOK

\* Checks that read only the request, the clock and nothing that is published.
LEMMA LetterArrives ==
  ASSUME KeyAssumption, MailAssumption, NEW q \in Arrivals, NEW k \in Keys, NEW s \in Signatures,
         HeadersOK(q), Owner[k] = Author[q.body], verify_draft_cavage(k, q, s)
  PROVE  letter(q) \in Letters /\ letter(q) \in LettersOf(s)
<1> DEFINE l == letter(q)
           h == s.base.headers
           named == {q.list[i] : i \in 2..Len(q.list)}
<1>1. /\ q.to \in Inboxes /\ q.body \in Bodies
      /\ "host" \in DOMAIN q.headers => q.headers["host"] = Garbled \/ q.headers["host"] \in Hosts
      /\ "date" \in DOMAIN q.headers => q.headers["date"] = Garbled \/ q.headers["date"] \in Int
  BY DEF MailAssumption, IsRequest
<1>2. named \subseteq DOMAIN q.headers /\ {"host", "date", "digest"} \subseteq named
  BY DEF HeadersOK, signed_headers_complete
<1>3. s.key = k /\ s.base = draft_cavage_signature_base(q)
  BY DEF verify_draft_cavage
<1>4. s.base.target = q.to.path /\ h = [n \in named \cap DOMAIN q.headers |-> q.headers[n]]
  BY <1>3 DEF draft_cavage_signature_base
<1>5. /\ {"host", "date", "digest"} \subseteq DOMAIN h
      /\ h["host"] = q.headers["host"] /\ h["date"] = q.headers["date"]
      /\ h["digest"] = q.headers["digest"]
  BY <1>2, <1>4
<1>6. /\ l.by = Author[q.body] /\ l.body = q.body /\ l.to = address(q.to)
      /\ l.date = q.headers["date"]
  BY DEF letter
<1>7. q.headers["date"] \in Dates
  BY <1>2 DEF Dates, HeadersOK
<1>8. l \in Letters
  BY <1>1, <1>7 DEF letter, Letters, MailAssumption
<1>9. /\ q.headers["host"] \in Hosts /\ q.headers["host"] # Garbled
      /\ q.headers["host"].name = q.to.host.name
      /\ effective_port(q.headers["host"], q.to.scheme) = effective_port(q.to.host, q.to.scheme)
  BY <1>1, <1>2 DEF HeadersOK, verify_request_host
<1>10. q.to \in Urls  BY <1>1 DEF MailAssumption
<1>11. address(q.to).path = q.to.path
  BY <1>10 DEF address, Urls
<1>12. [address(q.to) EXCEPT !.host = q.headers["host"]] = [q.to EXCEPT !.host = q.headers["host"]]
  BY <1>10 DEF address, Urls
<1>13. host_header([q.to EXCEPT !.host = q.headers["host"]]) = host_header(q.to)
  <2>1. PICK host \in Hosts : host = q.headers["host"]  BY <1>9
  <2>2. PICK url \in Urls : url = q.to  BY <1>10
  <2>3. PICK other \in Urls : other = [url EXCEPT !.host = host]  BY DEF Urls
  <2>4. other.host = host /\ other.scheme = url.scheme  BY <2>3 DEF Urls
  <2>5. /\ host.name = url.host.name
        /\ effective_port(host, url.scheme) = effective_port(url.host, url.scheme)
    BY <1>9, <2>1, <2>2
  <2>6. DefaultPort(url.scheme) # None
    BY DEF MailAssumption, DefaultPort
  <2>7. url.host \in Hosts  BY DEF Urls
  <2>8. (IF host.port = DefaultPort(url.scheme) THEN [host EXCEPT !.port = None] ELSE host)
        = (IF url.host.port = DefaultPort(url.scheme) THEN [url.host EXCEPT !.port = None] ELSE url.host)
    BY <2>5, <2>6, <2>7 DEF effective_port, Hosts
  <2>9. host_header(other) = host_header(url)
    BY <2>4, <2>8 DEF host_header
  <2> QED  BY <2>1, <2>2, <2>3, <2>9
<1>14. address([l.to EXCEPT !.host = h["host"]]) = l.to
  <2>1. address([q.to EXCEPT !.host = q.headers["host"]]) = address(q.to)
    BY <1>9, <1>10, <1>13 DEF address, Urls
  <2> QED  BY <1>5, <1>6, <1>12, <2>1
<1>15. [alg |-> "sha-256", of |-> l.body] \in h["digest"] /\ h["digest"] # Garbled
  BY <1>5, <1>6 DEF HeadersOK, verify_request_digest
<1> QED  BY <1>3, <1>4, <1>5, <1>6, <1>8, <1>9, <1>11, <1>14, <1>15 DEF LettersOf

(***************************************************************************)
(* The invariant holds at first and is preserved.                          *)
(***************************************************************************)

LEMMA InitIInv ==
  ASSUME KeyAssumption, Init
  PROVE  IInv
BY NotFetching DEF Init, IInv, TypeOK, PublishedOK, OwedOK, TasksOK, Served, KeyAssumption

\* An action of one task need only answer for that task.
LEMMA OneTask ==
  ASSUME IInv, NEW t \in Tasks, NEW new,
         task' = [task EXCEPT ![t] = new],
         new # NoTask => new \in ActiveTasks /\ TaskOK(new),
         accepted' \subseteq Letters, Mail
  PROVE  IInv'
<1> USE DEF Mail
<1>1. task \in [Tasks -> ActiveTasks \cup {NoTask}]
  BY DEF IInv, TypeOK
<1>2. task'[t] = new /\ \A u \in Tasks \ {t} : task'[u] = task[u]
  BY <1>1
<1>3. ActiveTasks' = ActiveTasks
  BY DEF ActiveTasks
<1>4. task' \in [Tasks -> ActiveTasks \cup {NoTask}]
  BY <1>1
<1>5. TypeOK'
  BY <1>3, <1>4 DEF IInv, TypeOK
<1>6. PublishedOK'
  BY DEF IInv, PublishedOK
<1>7. \A q, s : Honourable(q, s)' <=> Honourable(q, s)
  BY DEF Honourable, resolve_key
<1>8. OwedOK'
  BY <1>7 DEF IInv, OwedOK
<1>9. \A tk : TaskOK(tk)' <=> TaskOK(tk)
  <2> TAKE tk
  <2>1. FetchOK(tk)' <=> FetchOK(tk)  BY DEF FetchOK, TimeOK
  <2>2. ShownOK(tk)' <=> ShownOK(tk)  BY DEF ShownOK
  <2>3. VerifiedOK(tk)' <=> VerifiedOK(tk)  BY DEF VerifiedOK
  <2>4. OwedTaskOK(tk)' <=> OwedTaskOK(tk)  BY <1>7 DEF OwedTaskOK, resolve_key
  <2> QED  BY <2>1, <2>2, <2>3, <2>4 DEF TaskOK
<1>10. \A u \in Tasks : task'[u] # NoTask => TaskOK(task'[u])
  BY <1>2 DEF IInv, TasksOK
<1>11. TasksOK'
  BY <1>9, <1>10 DEF TasksOK
<1> QED  BY <1>5, <1>6, <1>8, <1>11 DEF IInv

\* A task whose step alone changes to an answer.
LEMMA Answered ==
  ASSUME IInv, NEW t \in Tasks, NEW answer, Outcome(t, answer),
         answer \in {"unauthorized", "keyNotFound", "badGateway"},
         Fetching(task[t]),
         answer # "badGateway" => ~task[t].owed,
         UNCHANGED accepted, Mail
  PROVE  IInv'
<1> DEFINE new == [task[t] EXCEPT !.step = answer]
<1>1. task[t] \in ActiveTasks
  BY NotFetching DEF IInv, TypeOK
<1>2. task' = [task EXCEPT ![t] = new]
  BY DEF Outcome
<1>3. new \in ActiveTasks /\ new.step = answer /\ new.owed = task[t].owed
  BY <1>1 DEF ActiveTasks
<1> HIDE DEF new
<1>4. TaskOK(new)
  BY <1>3 DEF TaskOK, FetchOK, ShownOK, VerifiedOK, OwedTaskOK, Fetching
<1> QED  BY <1>2, <1>3, <1>4, OneTask DEF IInv, TypeOK

LEMMA ReceiveIInv ==
  ASSUME KeyAssumption, MailAssumption, TimeAssumption, IInv,
         NEW t \in Tasks, NEW q \in Arrivals, NEW s \in signed, Receive(t, q, s)
  PROVE  IInv'
<1> DEFINE ok == /\ signed_headers_complete(q)
                 /\ verify_request_host(q)
                 /\ verify_request_date(q)
                 /\ verify_request_digest(q)
           kept == /\ [request |-> q, signature |-> s] \in owed
                   /\ now - q.headers["date"] <= MaxAge
                   /\ q.headers["date"] - now <= MaxSkew
           shown == {IF q.keyId \in OwnDocument THEN keyDoc[q.keyId] ELSE None}
           new == [step       |-> IF ok THEN "fetchKey" ELSE "unauthorized",
                   request    |-> q,
                   signature  |-> s,
                   arrived    |-> now,
                   since      |-> now,
                   key        |-> None,
                   owed       |-> kept,
                   keyShown   |-> shown,
                   actorShown |-> {actorKey[Author[q.body]]}]
<1>1. task' = [task EXCEPT ![t] = new] /\ Mail /\ accepted' = accepted
  BY DEF Receive
<1>2. q.keyId \in KeyIds /\ q.body \in Bodies /\ Author[q.body] \in Actors
  BY DEF MailAssumption, IsRequest
<1>3. now \in Nat /\ shown \subseteq Served /\ actorKey[Author[q.body]] \in Served
  BY <1>2 DEF IInv, TypeOK, Served
<1>4. kept \in BOOLEAN
  OBVIOUS
<1>5. kept => ok /\ Honourable(q, s)
  <2> SUFFICES ASSUME kept PROVE ok /\ Honourable(q, s)  OBVIOUS
  <2>1. Honourable(q, s)
    <3>1. PICK o \in owed : o = [request |-> q, signature |-> s]  OBVIOUS
    <3>2. o.request = q /\ o.signature = s  BY <3>1
    <3> QED  BY <3>2 DEF IInv, OwedOK
  <2>2. HeadersOK(q)  BY <2>1 DEF Honourable
  <2> QED  BY <2>1, <2>2 DEF HeadersOK, verify_request_date
<1> HIDE DEF kept, shown
<1>6. new \in ActiveTasks
  BY <1>3, <1>4 DEF ActiveTasks
<1>7. /\ new.step = (IF ok THEN "fetchKey" ELSE "unauthorized")
      /\ new.request = q /\ new.signature = s /\ new.arrived = now /\ new.since = now
      /\ new.owed = kept /\ new.keyShown = shown
      /\ new.actorShown = {actorKey[Author[q.body]]}
  OBVIOUS
<1> HIDE DEF new, ok
<1>8. FetchOK(new)
  <2> SUFFICES ASSUME ok PROVE HeadersOK(q) /\ TimeOK(new)
    BY <1>7 DEF FetchOK, Fetching
  <2>1. HeadersOK(q)  BY DEF ok, HeadersOK, verify_request_date
  <2>2. "date" \in DOMAIN q.headers  BY <2>1 DEF HeadersOK, signed_headers_complete
  <2>3. q.headers["date"] \in Int  BY <2>1, <2>2 DEF HeadersOK, MailAssumption, IsRequest
  <2> QED  BY <1>3, <1>7, <2>1, <2>3 DEF TimeOK, ok, verify_request_date, TimeAssumption
<1>9. ShownOK(new)
  BY <1>7 DEF ShownOK, Fetching, shown
<1>10. VerifiedOK(new) /\ OwedTaskOK(new)
  BY <1>5, <1>7 DEF VerifiedOK, OwedTaskOK
<1>11. TaskOK(new)
  BY <1>8, <1>9, <1>10 DEF TaskOK
<1> QED  BY <1>1, <1>6, <1>11, OneTask DEF IInv, TypeOK

LEMMA FetchKeyIInv ==
  ASSUME KeyAssumption, PublicationAssumption, MailAssumption, TimeAssumption, IInv,
         NEW t \in Tasks, FetchKey(t)
  PROVE  IInv'
<1> DEFINE tk == task[t]
           q == tk.request
           key == resolve_key(q.keyId)
<1>1. tk.step = "fetchKey" /\ Fetching(tk) /\ Mail /\ accepted' = accepted
  BY DEF FetchKey, Fetching
<1>2. tk \in ActiveTasks /\ TaskOK(tk)
  BY <1>1, NotFetching DEF IInv, TypeOK, TasksOK
<1>3. q \in Arrivals /\ q.keyId \in KeyIds
  BY <1>2 DEF ActiveTasks, MailAssumption, IsRequest
<1>4. tk.owed => Honourable(q, tk.signature)
  BY <1>1, <1>2 DEF TaskOK, OwedTaskOK
<1>5. CASE key = None
  <2>1. Outcome(t, "keyNotFound")  BY <1>5 DEF FetchKey
  <2>2. ~tk.owed  BY <1>4, <1>5 DEF Honourable
  <2> QED  BY <1>1, <2>1, <2>2, Answered
<1>6. CASE key # None /\ ~(/\ key.owner = Author[q.body]
                         /\ verify_draft_cavage(key.pem, q, tk.signature))
  <2>1. Outcome(t, "unauthorized")  BY <1>6 DEF FetchKey
  <2>2. ~tk.owed  BY <1>4, <1>6 DEF Honourable
  <2> QED  BY <1>1, <2>1, <2>2, Answered
<1>7. CASE /\ key # None /\ key.owner = Author[q.body]
           /\ verify_draft_cavage(key.pem, q, tk.signature)
  <2> DEFINE new == [tk EXCEPT !.step = "fetchActor", !.since = now, !.key = key]
  <2>1. task' = [task EXCEPT ![t].step = "fetchActor", ![t].since = now, ![t].key = key]
    BY <1>7 DEF FetchKey
  <2>2. task' = [task EXCEPT ![t] = new]  BY <2>1
  <2>3. /\ key \in CryptographicKeys /\ key.id = q.keyId /\ Owner[key.pem] = Home[q.keyId]
        /\ key = IF q.keyId \in OwnDocument THEN keyDoc[q.keyId] ELSE actorKey[Home[q.keyId]]
    BY <1>3, <1>7, ResolvedKey DEF IInv
  <2>4. now \in Nat  BY DEF IInv, TypeOK
  <2> HIDE DEF key
  <2>5. /\ new \in ActiveTasks /\ new.step = "fetchActor" /\ new.since = now /\ new.key = key
        /\ new.request = q /\ new.signature = tk.signature /\ new.arrived = tk.arrived
        /\ new.owed = tk.owed /\ new.keyShown = tk.keyShown /\ new.actorShown = tk.actorShown
    BY <1>2, <2>3, <2>4 DEF ActiveTasks
  <2>6. tk.arrived \in Nat /\ tk.since \in Nat  BY <1>2 DEF ActiveTasks
  <2> HIDE DEF new
  <2>7. HeadersOK(q) /\ TimeOK(tk)
    BY <1>1, <1>2 DEF TaskOK, FetchOK
  <2>8. TimeOK(new)
    BY <1>1, <2>4, <2>5, <2>6, <2>7 DEF TimeOK, TimeAssumption
  <2>9. KeyOK(new)
    BY <1>7, <2>3, <2>5 DEF KeyOK
  <2>10. FetchOK(new)
    BY <2>5, <2>7, <2>8, <2>9 DEF FetchOK
  <2>11. ShownOK(new)
    <3>1. /\ actorKey[Author[q.body]] \in tk.actorShown
          /\ q.keyId \in OwnDocument => keyDoc[q.keyId] \in tk.keyShown
      BY <1>1, <1>2 DEF TaskOK, ShownOK
    <3>2. Home[q.keyId] = Author[q.body] => key \in ShownKeys(new)
      BY <2>3, <2>5, <3>1 DEF ShownKeys
    <3>3. key.pem = tk.signature.key  BY <1>7 DEF verify_draft_cavage
    <3>4. Home[q.keyId] = Author[q.body] => KeyShown(new)
      BY <1>7, <2>3, <2>5, <3>2, <3>3 DEF KeyShown
    <3> QED  BY <2>5, <3>1, <3>4 DEF ShownOK
  <2>12. VerifiedOK(new) /\ OwedTaskOK(new)
    BY <1>4, <2>5 DEF VerifiedOK, OwedTaskOK, key
  <2>13. TaskOK(new)
    BY <2>10, <2>11, <2>12 DEF TaskOK
  <2> QED  BY <1>1, <2>2, <2>5, <2>13, OneTask DEF IInv, TypeOK
<1> QED  BY <1>5, <1>6, <1>7

\* A task that awaits the actor document knows the key, and that its letter was
\* written and is not older than the two fetches allow.
LEMMA Acceptable ==
  ASSUME KeyAssumption, PublicationAssumption, MailAssumption, TimeAssumption, IInv,
         NEW t \in Tasks, task[t].step = "fetchActor",
         actor_owns_key(Author[task[t].request.body],
                        actorKey[Author[task[t].request.body]], task[t].key)
  PROVE  LET l == letter(task[t].request)
         IN  /\ Home[task[t].request.keyId] = Author[task[t].request.body]
             /\ l \in Letters
             /\ task[t].signature \in signed
             /\ l \in LettersOf(task[t].signature)
             /\ now - l.date <= MaxAge + 2 * Timeout
             /\ l.date - now <= MaxSkew
<1> DEFINE tk == task[t]
           q == tk.request
           a == Author[q.body]
           l == letter(q)
<1>1. Fetching(tk)  BY DEF Fetching
<1>2. tk \in ActiveTasks /\ TaskOK(tk)
  BY <1>1, NotFetching DEF IInv, TypeOK, TasksOK
<1>3. HeadersOK(q) /\ TimeOK(tk) /\ KeyOK(tk)
  BY <1>1, <1>2 DEF TaskOK, FetchOK
<1>4. q \in Arrivals /\ tk.signature \in signed /\ signed \subseteq Signatures
      /\ tk.arrived \in Nat /\ tk.since \in Nat /\ now \in Nat
  BY <1>2 DEF ActiveTasks, IInv, TypeOK
<1>5. a \in Actors
  BY <1>4 DEF MailAssumption, IsRequest
<1>6. Home[tk.key.id] = a
  BY <1>5, VouchedAtHome DEF IInv
<1>7. Owner[tk.key.pem] = a /\ tk.key.pem \in Keys /\ Home[q.keyId] = a
  BY <1>3, <1>6 DEF KeyOK, CryptographicKeys
<1>8. verify_draft_cavage(tk.key.pem, q, tk.signature)
  BY <1>3 DEF KeyOK
<1>9. l \in Letters /\ l \in LettersOf(tk.signature)
  BY <1>3, <1>4, <1>7, <1>8, LetterArrives
<1>10. l.date = q.headers["date"]
  BY DEF letter
<1>11. q.headers["date"] \in Int
  <2>1. "date" \in DOMAIN q.headers
    BY <1>3 DEF HeadersOK, signed_headers_complete
  <2>2. IsRequest(q)  BY <1>4 DEF MailAssumption
  <2> HIDE DEF q
  <2> QED  BY <1>3, <2>1, <2>2 DEF HeadersOK, IsRequest
<1>12. now - l.date <= MaxAge + 2 * Timeout /\ l.date - now <= MaxSkew
  BY <1>3, <1>4, <1>10, <1>11 DEF TimeOK, TimeAssumption
<1> QED  BY <1>4, <1>7, <1>9, <1>12

LEMMA FetchActorIInv ==
  ASSUME KeyAssumption, PublicationAssumption, MailAssumption, TimeAssumption, IInv,
         NEW t \in Tasks, FetchActor(t)
  PROVE  IInv'
<1> DEFINE tk == task[t]
           q == tk.request
           a == Author[q.body]
           owns == actor_owns_key(a, actorKey[a], tk.key)
<1>1. tk.step = "fetchActor" /\ Fetching(tk) /\ Mail
  BY DEF FetchActor, Fetching
<1>2. tk \in ActiveTasks /\ TaskOK(tk)
  BY <1>1, NotFetching DEF IInv, TypeOK, TasksOK
<1>3. CASE ~owns
  <2>1. Outcome(t, "unauthorized") /\ UNCHANGED accepted  BY <1>3 DEF FetchActor
  <2>2. ~tk.owed  BY <1>1, <1>2, <1>3 DEF TaskOK, OwedTaskOK, Honourable
  <2> QED  BY <1>1, <2>1, <2>2, Answered
<1>4. CASE owns
  <2> DEFINE new == [tk EXCEPT !.step = "verified"]
  <2>1. task' = [task EXCEPT ![t].step = "verified"] /\ accepted' = accepted \cup {letter(q)}
    BY <1>4 DEF FetchActor, Outcome
  <2>2. task' = [task EXCEPT ![t] = new]  BY <2>1
  <2>3. /\ new \in ActiveTasks /\ new.step = "verified"
        /\ new.request = q /\ new.signature = tk.signature
        /\ new.keyShown = tk.keyShown /\ new.actorShown = tk.actorShown
    BY <1>2 DEF ActiveTasks
  <2> HIDE DEF new
  <2>4. Home[q.keyId] = a /\ letter(q) \in Letters
    BY <1>1, <1>4, Acceptable
  <2>5. accepted' \subseteq Letters
    BY <2>1, <2>4 DEF IInv, TypeOK
  <2>6. KeyShown(tk) /\ actorKey[a] \in tk.actorShown /\ KeyOK(tk)
    BY <1>1, <1>2, <2>4 DEF TaskOK, ShownOK, FetchOK
  <2>7. KeyShown(new)
    BY <2>3, <2>6 DEF KeyShown, ShownKeys
  <2>8. /\ actorKey[a] # None /\ actorKey[a].id = q.keyId
        /\ actorKey[a].pem \in {None, tk.signature.key}
    BY <1>4, <2>6 DEF actor_owns_key, KeyOK, verify_draft_cavage
  <2>9. VerifiedOK(new)
    BY <2>3, <2>6, <2>7, <2>8 DEF VerifiedOK
  <2>10. TaskOK(new)
    BY <2>3, <2>9 DEF TaskOK, FetchOK, ShownOK, OwedTaskOK, Fetching
  <2> QED  BY <1>1, <2>2, <2>3, <2>5, <2>10, OneTask
<1> QED  BY <1>3, <1>4

LEMMA FetchFailsIInv ==
  ASSUME IInv, NEW t \in Tasks, FetchFails(t)
  PROVE  IInv'
BY Answered DEF FetchFails

LEMMA EndIInv ==
  ASSUME IInv, NEW t \in Tasks, End(t)
  PROVE  IInv'
<1>1. task' = [task EXCEPT ![t] = NoTask] /\ Mail /\ accepted' = accepted
  BY DEF End
<1> QED  BY <1>1, OneTask DEF IInv, TypeOK

LEMMA TickIInv ==
  ASSUME TimeAssumption, MailAssumption, IInv, Tick
  PROVE  IInv'
<1>1. now' = now + 1 /\ UNCHANGED <<actorKey, keyDoc, signed, owed, task, accepted>>
  BY DEF Tick
<1>2. ActiveTasks' = ActiveTasks  BY <1>1 DEF ActiveTasks
<1>3. TypeOK' /\ PublishedOK'
  BY <1>1, <1>2 DEF IInv, TypeOK, PublishedOK
<1>4. \A q, s : Honourable(q, s)' <=> Honourable(q, s)
  BY <1>1 DEF Honourable, resolve_key
<1>5. OwedOK'
  BY <1>1, <1>4 DEF IInv, OwedOK
<1>6. ASSUME NEW t \in Tasks, task[t] # NoTask PROVE TaskOK(task[t])'
  <2>1. task[t] \in ActiveTasks /\ TaskOK(task[t])
    BY <1>6 DEF IInv, TypeOK, TasksOK
  <2>2. ShownOK(task[t])' /\ VerifiedOK(task[t])'
    BY <1>1, <2>1 DEF TaskOK, ShownOK, VerifiedOK, ShownKeys, KeyShown
  <2>3. OwedTaskOK(task[t])'
    BY <1>1, <1>4, <2>1 DEF TaskOK, OwedTaskOK, resolve_key
  <2>4. FetchOK(task[t])'
    <3> SUFFICES ASSUME Fetching(task[t])
                 PROVE  TimeOK(task[t])'
      BY <1>1, <2>1 DEF TaskOK, FetchOK
    <3>1. TimeOK(task[t])  BY <2>1 DEF TaskOK, FetchOK
    <3>2. now < task[t].since + Timeout  BY DEF Tick
    <3>3. now \in Nat /\ task[t].since \in Nat  BY <2>1 DEF ActiveTasks, IInv, TypeOK
    <3> QED  BY <1>1, <3>1, <3>2, <3>3 DEF TimeOK, TimeAssumption
  <2> QED  BY <2>2, <2>3, <2>4 DEF TaskOK
<1>7. TasksOK'
  BY <1>1, <1>6 DEF TasksOK
<1> QED  BY <1>3, <1>5, <1>7 DEF IInv

\* A new signature gives the tasks nothing they did not have.
LEMMA SigningIInv ==
  ASSUME IInv, NEW k \in Keys, NEW q \in Arrivals,
         signed' = signed \cup {sign_draft_cavage(k, q)},
         owed' \subseteq owed \cup {[request |-> q, signature |-> sign_draft_cavage(k, q)]},
         owed' # owed => Honourable(q, sign_draft_cavage(k, q)),
         UNCHANGED <<now, actorKey, keyDoc, task, accepted>>
  PROVE  IInv'
<1> DEFINE s == sign_draft_cavage(k, q)
<1>1. s \in Signatures
  BY DEF Signatures
<1> HIDE DEF s
<1>2. signed \subseteq signed' /\ signed' \subseteq Signatures /\ s \in signed'
  BY <1>1 DEF IInv, TypeOK, s
<1>3. \A tk : tk \in ActiveTasks => tk \in ActiveTasks'
  BY <1>2 DEF ActiveTasks
<1>4. task' \in [Tasks -> ActiveTasks' \cup {NoTask}]
  BY <1>3 DEF IInv, TypeOK
<1>5. owed' \subseteq [request : Arrivals, signature : signed']
  BY <1>2 DEF IInv, TypeOK, s
<1>6. TypeOK' /\ PublishedOK'
  BY <1>2, <1>4, <1>5 DEF IInv, TypeOK, PublishedOK
<1>7. \A p, r : Honourable(p, r)' <=> Honourable(p, r)
  BY DEF Honourable, resolve_key
<1>8. OwedOK'
  <2> SUFFICES ASSUME NEW o \in owed' PROVE Honourable(o.request, o.signature)'
    BY DEF OwedOK
  <2>1. CASE o \in owed  BY <1>7, <2>1 DEF IInv, OwedOK
  <2>2. CASE o \notin owed
    <3>1. o = [request |-> q, signature |-> s] /\ owed' # owed  BY <2>2 DEF s
    <3>2. o.request = q /\ o.signature = s  BY <3>1
    <3> QED  BY <1>7, <3>1, <3>2 DEF s
  <2> QED  BY <2>1, <2>2
<1>9. TasksOK'
  BY <1>7 DEF IInv, TasksOK, TaskOK, FetchOK, TimeOK, ShownOK, VerifiedOK, OwedTaskOK, resolve_key
<1> QED  BY <1>6, <1>8, <1>9 DEF IInv

LEMMA SendIInv ==
  ASSUME KeyAssumption, PublicationAssumption, MailAssumption, IInv,
         NEW a \in Actors, NEW k \in Keys, NEW body \in Bodies, NEW url \in Inboxes,
         send_activity(a, k, body, url)
  PROVE  IInv'
<1> DEFINE q == activity_request(a, actorKey[a].id, body, url)
           s == sign_draft_cavage(k, q)
<1>1. /\ Author[body] = a /\ actorKey[a] # None /\ q \in Arrivals
      /\ signed' = signed \cup {s}
      /\ owed' = owed \cup (IF Vouched(a, k) THEN {[request |-> q, signature |-> s]} ELSE {})
      /\ UNCHANGED <<now, actorKey, keyDoc, task, accepted>>
  BY DEF send_activity
<1>2. HeadersOK(q) /\ q.keyId = actorKey[a].id /\ q.body = body
  BY SentHeaders DEF IInv
<1>3. Home[actorKey[a].id] = a
  BY <1>1 DEF IInv, PublishedOK, PublicationAssumption
<1> HIDE DEF q
<1>4. s.key = k /\ s.base = draft_cavage_signature_base(q)
  BY DEF sign_draft_cavage
<1> HIDE DEF s
<1>5. Vouched(a, k) => Honourable(q, s)
  BY <1>1, <1>2, <1>3, <1>4 DEF Vouched, Honourable, verify_draft_cavage
<1>6. owed' # owed => Honourable(q, s)
  BY <1>1, <1>5
<1>7. owed' \subseteq owed \cup {[request |-> q, signature |-> s]}
  BY <1>1
<1> QED  BY <1>1, <1>6, <1>7, SigningIInv DEF s

LEMMA WriteIInv ==
  ASSUME IInv, NEW k \in Keys, NEW q \in Arrivals, Write(k, q)
  PROVE  IInv'
BY SigningIInv DEF Write

LEMMA PublishActorIInv ==
  ASSUME KeyAssumption, PublicationAssumption, MailAssumption, IInv,
         NEW a \in Actors, NEW key \in ActorKeys[a], PublishActor(a, key)
  PROVE  IInv'
<1>1. /\ actorKey' = [actorKey EXCEPT ![a] = key]
      /\ UNCHANGED <<now, keyDoc, signed, accepted>>
      /\ owed' = {o \in owed : Author[o.request.body] # a}
  BY DEF PublishActor, Unhonour
<1>2. key \in Served /\ actorKey \in [Actors -> Served]
  BY DEF KeyAssumption, Served, IInv, TypeOK
<1>3. PublishedOK'
  BY <1>1, <1>2 DEF IInv, PublishedOK
<1>4. \A b \in Actors \ {a} : actorKey'[b] = actorKey[b]
  BY <1>1, <1>2
<1>5. ASSUME NEW q, NEW s, q.body \in Bodies, q.keyId \in KeyIds, Author[q.body] # a,
             Honourable(q, s)
      PROVE  Honourable(q, s)' /\ resolve_key(q.keyId)' = resolve_key(q.keyId)
  <2>1. Author[q.body] \in Actors \ {a} /\ Home[q.keyId] = Author[q.body]
    BY <1>5 DEF MailAssumption, Honourable
  <2>2. resolve_key(q.keyId)' = resolve_key(q.keyId)
    BY <1>1, <1>4, <2>1 DEF resolve_key
  <2> QED  BY <1>4, <1>5, <2>1, <2>2 DEF Honourable
<1>6. \A q \in Arrivals : q.body \in Bodies /\ q.keyId \in KeyIds
  BY DEF MailAssumption, IsRequest
<1>7. OwedOK'
  <2> SUFFICES ASSUME NEW o \in owed, Author[o.request.body] # a
               PROVE  Honourable(o.request, o.signature)'
    BY <1>1 DEF OwedOK
  <2>1. o.request \in Arrivals /\ Honourable(o.request, o.signature)
    BY DEF IInv, TypeOK, OwedOK
  <2> QED  BY <1>5, <1>6, <2>1
<1>8. ASSUME NEW t \in Tasks, NEW new, new = task'[t]
      PROVE  new \in ActiveTasks \cup {NoTask} /\ (new # NoTask => TaskOK(new)')
  <2>0. PICK tk : tk = task[t]  OBVIOUS
  <2>1. CASE ~(Fetching(tk) /\ Author[tk.request.body] = a)
    <3>1. new = tk  BY <1>8, <2>0, <2>1 DEF PublishActor
    <3> SUFFICES ASSUME tk # NoTask PROVE TaskOK(tk)'
      BY <2>0, <3>1 DEF IInv, TypeOK
    <3>2. tk \in ActiveTasks /\ TaskOK(tk)  BY <2>0 DEF IInv, TypeOK, TasksOK
    <3>3. tk.request \in Arrivals  BY <3>2 DEF ActiveTasks
    <3>4. FetchOK(tk)' /\ VerifiedOK(tk)'
      BY <1>1, <3>2 DEF TaskOK, FetchOK, TimeOK, VerifiedOK
    <3>5. ShownOK(tk)'
      <4>1. Fetching(tk) => Author[tk.request.body] \in Actors \ {a}
        BY <1>6, <2>1, <3>3 DEF MailAssumption
      <4> QED  BY <1>1, <1>4, <3>2, <4>1 DEF TaskOK, ShownOK
    <3>6. OwedTaskOK(tk)'
      <4>1. CASE Fetching(tk)
        BY <1>5, <1>6, <2>1, <3>2, <3>3, <4>1 DEF TaskOK, OwedTaskOK
      <4>2. CASE ~Fetching(tk)
        BY <3>2, <4>2 DEF TaskOK, OwedTaskOK, Fetching
      <4> QED  BY <4>1, <4>2
    <3> QED  BY <3>4, <3>5, <3>6 DEF TaskOK
  <2>2. CASE Fetching(tk) /\ Author[tk.request.body] = a
    <3>1. new = [tk EXCEPT !.owed = FALSE, !.actorShown = @ \cup {key}]
      BY <1>8, <2>0, <2>2 DEF PublishActor
    <3>2. tk \in ActiveTasks /\ TaskOK(tk)
      BY <2>0, <2>2, NotFetching DEF IInv, TypeOK, TasksOK
    <3>3. /\ new \in ActiveTasks /\ new.owed = FALSE /\ new.actorShown = tk.actorShown \cup {key}
          /\ new.step = tk.step /\ new.request = tk.request /\ new.signature = tk.signature
          /\ new.arrived = tk.arrived /\ new.since = tk.since /\ new.key = tk.key
          /\ new.keyShown = tk.keyShown
      <4>1. PICK shown : shown = tk.actorShown \cup {key}  OBVIOUS
      <4>2. shown \subseteq Served  BY <1>2, <3>2, <4>1 DEF ActiveTasks
      <4>3. new = [tk EXCEPT !.owed = FALSE, !.actorShown = shown]
        BY <3>1, <3>2, <4>1 DEF ActiveTasks
      <4> QED  BY <3>2, <4>1, <4>2, <4>3 DEF ActiveTasks
    <3>4. FetchOK(new)'
      BY <1>1, <3>2, <3>3 DEF TaskOK, FetchOK, TimeOK, KeyOK, Fetching
    <3>5. KeyShown(tk) => KeyShown(new)
      BY <3>3 DEF KeyShown, ShownKeys
    <3>6. actorKey'[a] \in new.actorShown
      BY <1>1, <1>2, <3>3
    <3>7. ShownOK(new)'
      BY <1>1, <2>2, <3>2, <3>3, <3>5, <3>6 DEF TaskOK, ShownOK, Fetching
    <3>8. new.step # "verified"  BY <2>2, <3>3 DEF Fetching
    <3>9. TaskOK(new)'
      BY <3>3, <3>4, <3>7, <3>8 DEF TaskOK, VerifiedOK, OwedTaskOK
    <3> QED  BY <3>3, <3>9
  <2> QED  BY <2>1, <2>2
<1>9. ActiveTasks' = ActiveTasks  BY <1>1 DEF ActiveTasks
<1>10. task' \in [Tasks -> ActiveTasks \cup {NoTask}]
  <2>1. task' = [t \in Tasks |-> task'[t]]  BY DEF PublishActor
  <2>2. \A t \in Tasks : task'[t] \in ActiveTasks \cup {NoTask}  BY <1>8
  <2> QED  BY <2>1, <2>2
<1>12. TasksOK'
  <2> SUFFICES ASSUME NEW t \in Tasks, task'[t] # NoTask PROVE TaskOK(task[t])'
    BY DEF TasksOK
  <2>1. PICK new : new = task'[t]  OBVIOUS
  <2>2. TaskOK(new)'  BY <1>8, <2>1
  <2> QED  BY <2>1, <2>2
<1>11. TypeOK'
  BY <1>1, <1>2, <1>9, <1>10 DEF IInv, TypeOK
<1> QED  BY <1>3, <1>7, <1>11, <1>12 DEF IInv

LEMMA PublishKeyIInv ==
  ASSUME KeyAssumption, PublicationAssumption, MailAssumption, IInv,
         NEW id \in OwnDocument, NEW key \in KeyDocuments[id], PublishKey(id, key)
  PROVE  IInv'
<1>1. /\ keyDoc' = [keyDoc EXCEPT ![id] = key]
      /\ UNCHANGED <<now, actorKey, signed, accepted>>
      /\ owed' = {o \in owed : Author[o.request.body] # Home[id]}
  BY DEF PublishKey, Unhonour
<1>2. key \in CryptographicKeys \cup {None} /\ key \in Served
      /\ keyDoc \in [OwnDocument -> CryptographicKeys \cup {None}]
  BY DEF KeyAssumption, Served, IInv, TypeOK
<1>3. PublishedOK'
  BY <1>1, <1>2 DEF IInv, PublishedOK
<1>4. \A other \in OwnDocument \ {id} : keyDoc'[other] = keyDoc[other]
  BY <1>1, <1>2
<1>5. ASSUME NEW q, NEW s, q.keyId # id, Honourable(q, s)
      PROVE  Honourable(q, s)' /\ resolve_key(q.keyId)' = resolve_key(q.keyId)
  <2>1. resolve_key(q.keyId)' = resolve_key(q.keyId)
    BY <1>1, <1>4, <1>5 DEF resolve_key
  <2> QED  BY <1>1, <1>5, <2>1 DEF Honourable
<1>7. OwedOK'
  <2> SUFFICES ASSUME NEW o \in owed, Author[o.request.body] # Home[id]
               PROVE  Honourable(o.request, o.signature)'
    BY <1>1 DEF OwedOK
  <2>1. Honourable(o.request, o.signature)  BY DEF IInv, OwedOK
  <2>2. o.request.keyId # id  BY <2>1 DEF Honourable
  <2> QED  BY <1>5, <2>1, <2>2
<1>8. ASSUME NEW t \in Tasks, NEW new, new = task'[t]
      PROVE  new \in ActiveTasks \cup {NoTask} /\ (new # NoTask => TaskOK(new)')
  <2>0. PICK tk : tk = task[t]  OBVIOUS
  <2>1. CASE ~(Fetching(tk) /\ tk.request.keyId = id)
    <3>1. new = tk  BY <1>8, <2>0, <2>1 DEF PublishKey
    <3> SUFFICES ASSUME tk # NoTask PROVE TaskOK(tk)'
      BY <2>0, <3>1 DEF IInv, TypeOK
    <3>2. tk \in ActiveTasks /\ TaskOK(tk)  BY <2>0 DEF IInv, TypeOK, TasksOK
    <3>4. FetchOK(tk)' /\ VerifiedOK(tk)'
      BY <1>1, <3>2 DEF TaskOK, FetchOK, TimeOK, VerifiedOK
    <3>5. ShownOK(tk)'
      BY <1>1, <1>4, <2>1, <3>2 DEF TaskOK, ShownOK
    <3>6. OwedTaskOK(tk)'
      <4>1. CASE Fetching(tk)
        BY <1>5, <2>1, <3>2, <4>1 DEF TaskOK, OwedTaskOK
      <4>2. CASE ~Fetching(tk)
        BY <3>2, <4>2 DEF TaskOK, OwedTaskOK, Fetching
      <4> QED  BY <4>1, <4>2
    <3> QED  BY <3>4, <3>5, <3>6 DEF TaskOK
  <2>2. CASE Fetching(tk) /\ tk.request.keyId = id
    <3>1. new = [tk EXCEPT !.owed = FALSE, !.keyShown = @ \cup {key}]
      BY <1>8, <2>0, <2>2 DEF PublishKey
    <3>2. tk \in ActiveTasks /\ TaskOK(tk)
      BY <2>0, <2>2, NotFetching DEF IInv, TypeOK, TasksOK
    <3>3. /\ new \in ActiveTasks /\ new.owed = FALSE /\ new.keyShown = tk.keyShown \cup {key}
          /\ new.step = tk.step /\ new.request = tk.request /\ new.signature = tk.signature
          /\ new.arrived = tk.arrived /\ new.since = tk.since /\ new.key = tk.key
          /\ new.actorShown = tk.actorShown
      <4>1. PICK shown : shown = tk.keyShown \cup {key}  OBVIOUS
      <4>2. shown \subseteq Served  BY <1>2, <3>2, <4>1 DEF ActiveTasks
      <4>3. new = [tk EXCEPT !.owed = FALSE, !.keyShown = shown]
        BY <3>1, <3>2, <4>1 DEF ActiveTasks
      <4> QED  BY <3>2, <4>1, <4>2, <4>3 DEF ActiveTasks
    <3>4. FetchOK(new)'
      BY <1>1, <3>2, <3>3 DEF TaskOK, FetchOK, TimeOK, KeyOK, Fetching
    <3>5. KeyShown(tk) => KeyShown(new)
      BY <3>3 DEF KeyShown, ShownKeys
    <3>6. keyDoc'[id] \in new.keyShown
      BY <1>1, <1>2, <3>3
    <3>7. ShownOK(new)'
      BY <1>1, <2>2, <3>2, <3>3, <3>5, <3>6 DEF TaskOK, ShownOK, Fetching
    <3>8. new.step # "verified"  BY <2>2, <3>3 DEF Fetching
    <3>9. TaskOK(new)'
      BY <3>3, <3>4, <3>7, <3>8 DEF TaskOK, VerifiedOK, OwedTaskOK
    <3> QED  BY <3>3, <3>9
  <2> QED  BY <2>1, <2>2
<1>9. ActiveTasks' = ActiveTasks  BY <1>1 DEF ActiveTasks
<1>10. task' \in [Tasks -> ActiveTasks \cup {NoTask}]
  <2>1. task' = [t \in Tasks |-> task'[t]]  BY DEF PublishKey
  <2>2. \A t \in Tasks : task'[t] \in ActiveTasks \cup {NoTask}  BY <1>8
  <2> QED  BY <2>1, <2>2
<1>12. TasksOK'
  <2> SUFFICES ASSUME NEW t \in Tasks, task'[t] # NoTask PROVE TaskOK(task[t])'
    BY DEF TasksOK
  <2>1. PICK new : new = task'[t]  OBVIOUS
  <2>2. TaskOK(new)'  BY <1>8, <2>1
  <2> QED  BY <2>1, <2>2
<1>11. TypeOK'
  BY <1>1, <1>2, <1>9, <1>10 DEF IInv, TypeOK
<1> QED  BY <1>3, <1>7, <1>11, <1>12 DEF IInv

LEMMA NextIInv ==
  ASSUME KeyAssumption, PublicationAssumption, MailAssumption, TimeAssumption,
         IInv, [Next]_vars
  PROVE  IInv'
<1>1. CASE SomeoneSigns
  BY <1>1, SendIInv, WriteIInv DEF SomeoneSigns
<1>2. CASE SomeonePublishes
  BY <1>2, PublishActorIInv, PublishKeyIInv DEF SomeonePublishes
<1>3. CASE Tick
  BY <1>3, TickIInv
<1>4. CASE \E t \in Tasks : Verifies(t)
  BY <1>4, ReceiveIInv, FetchKeyIInv, FetchActorIInv, FetchFailsIInv, EndIInv DEF Verifies
<1>5. CASE UNCHANGED vars
  <2>1. UNCHANGED <<now, actorKey, keyDoc, signed, owed, task, accepted>>
    BY <1>5 DEF vars
  <2>2. TypeOK' /\ PublishedOK'
    BY <2>1 DEF IInv, TypeOK, ActiveTasks, PublishedOK
  <2>3. \A id : resolve_key(id)' = resolve_key(id)
    BY <2>1 DEF resolve_key
  <2>4. OwedOK'
    BY <2>1, <2>3 DEF IInv, OwedOK, Honourable
  <2>5. TasksOK'
    BY <2>1, <2>3 DEF IInv, TasksOK, TaskOK, FetchOK, TimeOK, ShownOK, VerifiedOK, OwedTaskOK, Honourable
  <2> QED  BY <2>2, <2>4, <2>5 DEF IInv
<1> QED  BY <1>1, <1>2, <1>3, <1>4, <1>5 DEF Next

LEMMA Invariance == Spec => []IInv
<1>1. Init => IInv
  BY InitIInv, KeyAssumption
<1>2. IInv /\ [Next]_vars => IInv'
  BY NextIInv, KeyAssumption, PublicationAssumption, MailAssumption, TimeAssumption
<1> QED  BY <1>1, <1>2, PTL DEF Spec

(***************************************************************************)
(* The theorems                                                            *)
(***************************************************************************)

(* Every variable keeps its type, whatever arrives and is published. *)
THEOREM Typed == Spec => []TypeOK
<1>1. IInv => TypeOK  BY DEF IInv
<1> QED  BY <1>1, Invariance, PTL

(* verify_signed_request accepts no request under a key that was withdrawn    *)
(* before it arrived, however the documents change between its two fetches.   *)
THEOREM AcceptsPublishedKeys == Spec => []SignedByPublishedKey
<1>1. IInv => SignedByPublishedKey
  <2> SUFFICES ASSUME IInv, NEW t \in Tasks, task[t] # NoTask, task[t].step = "verified"
               PROVE  /\ KeyShown(task[t])
                      /\ \E advertised \in task[t].actorShown \ {None} :
                           /\ advertised.id = task[t].request.keyId
                           /\ advertised.pem \in {None, task[t].signature.key}
    BY DEF SignedByPublishedKey, KeyShown, ShownKeys
  <2> QED  BY DEF IInv, TasksOK, TaskOK, VerifiedOK
<1> QED  BY <1>1, Invariance, PTL

(* What send_activity posts passes verify_signed_request at the other end when *)
(* it arrives unchanged and in time and its signer's documents stay: the two   *)
(* sides agree on signature base, Host header and digest.                      *)
THEOREM HonoursGenuine == Spec => []GenuineIsHonoured
<1>1. IInv => GenuineIsHonoured
  BY DEF GenuineIsHonoured, IInv, TasksOK, TaskOK, OwedTaskOK
<1> QED  BY <1>1, Invariance, PTL

LEMMA StepTakesMail ==
  ASSUME KeyAssumption, PublicationAssumption, MailAssumption, TimeAssumption,
         IInv, [Next]_vars
  PROVE  [Promise!Next]_(Promise!vars)
<1> DEFINE W == UNION {LettersOf(s) : s \in signed}
           W1 == UNION {LettersOf(s) : s \in signed'}
<1>0. /\ \A s : LettersOf(s)' = LettersOf(s)
      /\ \A s : LettersOf(s) \subseteq Letters
  BY DEF LettersOf
<1>1. ASSUME UNCHANGED <<now, accepted>>, signed \subseteq signed'
      PROVE  Promise!Next
  <2>1. W1 \in SUBSET Letters /\ W \subseteq W1  BY <1>0, <1>1
  <2>2. (UNION {LettersOf(s) : s \in signed})' = W1  BY <1>0
  <2> QED  BY <1>1, <2>1, <2>2 DEF Promise!Next, Promise!Write
<1>2. ASSUME UNCHANGED <<now, signed, accepted>>
      PROVE  UNCHANGED Promise!vars
  BY <1>0, <1>2 DEF Promise!vars
<1>3. CASE SomeoneSigns
  BY <1>1, <1>3 DEF SomeoneSigns, send_activity, Write
<1>4. CASE SomeonePublishes
  BY <1>2, <1>4 DEF SomeonePublishes, PublishActor, PublishKey, Unhonour
<1>5. CASE Tick
  <2>1. now' = now + 1 /\ UNCHANGED <<signed, accepted>>  BY <1>5 DEF Tick
  <2> QED  BY <1>0, <2>1 DEF Promise!Next, Promise!Tick
<1>6. ASSUME NEW t \in Tasks, FetchActor(t)
      PROVE  [Promise!Next]_(Promise!vars)
  <2> DEFINE q == task[t].request
             l == letter(q)
             owns == actor_owns_key(Author[q.body], actorKey[Author[q.body]], task[t].key)
  <2>1. CASE ~owns
    <3>1. UNCHANGED <<now, signed, accepted>>  BY <1>6, <2>1 DEF FetchActor, Mail
    <3> QED  BY <1>2, <3>1
  <2>2. CASE owns
    <3>1. accepted' = accepted \cup {l} /\ UNCHANGED <<now, signed>>
      BY <1>6, <2>2 DEF FetchActor, Mail
    <3>2. /\ l \in Letters /\ task[t].signature \in signed
          /\ l \in LettersOf(task[t].signature)
          /\ now - l.date <= MaxAge + 2 * Timeout /\ l.date - now <= MaxSkew
      BY <1>6, <2>2, Acceptable DEF FetchActor
    <3> HIDE DEF l
    <3>3. l \in W  BY <3>2
    <3>4. (UNION {LettersOf(s) : s \in signed})' = W  BY <1>0, <3>1
    <3>5. Promise!InDate(l)  BY <3>2 DEF Promise!InDate
    <3>6. Promise!Take(l)  BY <3>1, <3>3, <3>4, <3>5 DEF Promise!Take
    <3> QED  BY <3>2, <3>6 DEF Promise!Next
  <2> QED  BY <2>1, <2>2
<1>7. ASSUME NEW t \in Tasks, Verifies(t)
      PROVE  [Promise!Next]_(Promise!vars)
  <2>1. CASE FetchActor(t)  BY <1>6, <2>1
  <2>2. CASE ~FetchActor(t)
    BY <1>2, <1>7, <2>2 DEF Verifies, Receive, FetchKey, FetchFails, End, Mail
  <2> QED  BY <2>1, <2>2
<1>8. CASE UNCHANGED vars
  BY <1>2, <1>8 DEF vars
<1> QED  BY <1>3, <1>4, <1>5, <1>7, <1>8 DEF Next

(* The inbox takes letters as SignedMail promises: from the actor they name, to *)
(* this inbox, with this body, and dated in the window.                         *)
THEOREM Refinement == Spec => ImplementsSignedMail
<1>1. Init => Promise!Init
  BY DEF Init, Promise!Init
<1>2. IInv /\ [Next]_vars => [Promise!Next]_(Promise!vars)
  BY StepTakesMail, KeyAssumption, PublicationAssumption, MailAssumption, TimeAssumption
<1> QED  BY <1>1, <1>2, Invariance, PTL DEF Spec, ImplementsSignedMail, Promise!Spec
(* A signature of send_activity is good for one letter only.  Whatever        *)
(* request p arrives under it - delayed, repeated, posted to another inbox,   *)
(* with other headers or another body - passes the checks of                  *)
(* verify_signed_request for the letter that was signed or for none, as long  *)
(* as it comes by the same scheme, which no signed header names.              *)
THEOREM OneSignatureOneLetter ==
  ASSUME NEW a \in Actors, NEW k \in Keys, NEW keyId, NEW body \in Bodies,
         NEW url \in Inboxes, NEW p \in Arrivals,
         HeadersOK(p), p.to.scheme = url.scheme,
         verify_draft_cavage(k, p, sign_draft_cavage(k, activity_request(a, keyId, body, url)))
  PROVE  letter(p) = letter(activity_request(a, keyId, body, url))
<1> DEFINE q == activity_request(a, keyId, body, url)
           names == {"content-type", "date", "digest", "host"}
           signing(r) == {r.list[i] : i \in 2..Len(r.list)} \cap DOMAIN r.headers
<1>1. /\ q.to = url /\ q.body = body
      /\ q.list = <<"(request-target)", "content-type", "date", "digest", "host">>
      /\ DOMAIN q.headers = names
      /\ q.headers["digest"] = {[alg |-> "sha-256", of |-> body]}
      /\ q.headers["host"] = host_header(url)
  BY DEF activity_request, HeaderNames, RequestTarget
<1>2. /\ p.to \in Urls /\ url \in Urls /\ p.to.scheme = url.scheme
  BY MailAssumption DEF IsRequest
<1> HIDE DEF q
<1>3. /\ p.to.path = url.path
      /\ [n \in signing(p) |-> p.headers[n]] = [n \in signing(q) |-> q.headers[n]]
  BY <1>1 DEF q, verify_draft_cavage, sign_draft_cavage, draft_cavage_signature_base
<1>4. signing(q) = names
  <2>1. Len(q.list) = 5 /\ q.list[2] = "content-type" /\ q.list[3] = "date"
        /\ q.list[4] = "digest" /\ q.list[5] = "host"
    BY <1>1
  <2>2. 2 \in 2..5 /\ 3 \in 2..5 /\ 4 \in 2..5 /\ 5 \in 2..5
    OBVIOUS
  <2>3. names \subseteq {q.list[i] : i \in 2..5}
    BY <2>1, <2>2
  <2> QED  BY <1>1, <2>1, <2>3
<1>5. \A n \in names : p.headers[n] = q.headers[n]
  <2>1. signing(p) = signing(q)
    BY <1>3
  <2> HIDE DEF signing, names
  <2>2. \A n \in signing(q) : p.headers[n] = q.headers[n]
    BY <1>3, <2>1
  <2> QED  BY <1>4, <2>2
<1>6. /\ p.headers["host"] = host_header(url)
      /\ p.headers["date"] = q.headers["date"]
      /\ p.headers["digest"] = {[alg |-> "sha-256", of |-> body]}
  BY <1>1, <1>5
<1>7. p.body = body
  BY <1>6 DEF HeadersOK, verify_request_digest
<1>8. host_header(p.to) = host_header(url)
  <2>1. PICK host \in Hosts : host = host_header(url)
    BY <1>2 DEF host_header, Urls, Hosts, Ports
  <2>2. /\ host.name = p.to.host.name
        /\ effective_port(host, url.scheme) = effective_port(p.to.host, url.scheme)
    BY <1>2, <1>6, <2>1 DEF HeadersOK, verify_request_host
  <2>3. DefaultPort(url.scheme) # None
    BY MailAssumption DEF DefaultPort
  <2>4. p.to.host \in Hosts /\ url.host \in Hosts
    BY <1>2 DEF Urls
  <2>5. host = IF url.host.port = DefaultPort(url.scheme)
                 THEN [url.host EXCEPT !.port = None] ELSE url.host
    BY <2>1 DEF host_header
  <2>6. host.port # DefaultPort(url.scheme)
    BY <2>3, <2>4, <2>5 DEF Hosts
  <2>7. host = IF p.to.host.port = DefaultPort(url.scheme)
                 THEN [p.to.host EXCEPT !.port = None] ELSE p.to.host
    BY <2>2, <2>3, <2>4, <2>6 DEF effective_port, Hosts
  <2> QED  BY <1>2, <2>1, <2>7 DEF host_header
<1>9. address(p.to) = address(url)
  BY <1>2, <1>3, <1>8 DEF address, Urls
<1> QED  BY <1>1, <1>6, <1>7, <1>9 DEF letter, q
==============================================================================
