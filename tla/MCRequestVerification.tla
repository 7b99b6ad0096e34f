------------------------- MODULE MCRequestVerification -------------------------
(***************************************************************************)
(* Small instances of RequestVerification.  alice posts with this code;    *)
(* eve has a server too.                                                   *)
(***************************************************************************)
EXTENDS RequestVerification, TLC

CONSTANTS alice, eve,
          ka1, ka2, ke,        \* key pairs of alice and of eve
          fragment, document,  \* alice's key ids, in her document and beside it
          eves,                \* eve's key id
          hello, bye, evil,    \* bodies
          t1, t2

MCOwner == [k \in Keys |-> IF k = ke THEN eve ELSE alice]
MCHome == [id \in KeyIds |-> IF id = eves THEN eve ELSE alice]
MCAuthor == [b \in Bodies |-> IF b = evil THEN eve ELSE alice]
MCOffset == [a \in Actors |-> IF a = alice THEN 1 ELSE 0]

Key(id, owner, pem) == [id : {id}, owner : {owner}, pem : {pem}]

\* Nothing is rotated; eve's key document says it is alice's.
MCStillActorKeys ==
  [a \in Actors |-> IF a = alice THEN Key(document, None, None) ELSE Key(eves, eve, ke)]
MCStillKeyDocuments ==
  [id \in OwnDocument |-> IF id = document THEN Key(document, alice, ka1) ELSE Key(eves, alice, ke)]

\* alice embeds one key or another, or links one that is rotated too, or
\* embeds a copy of what is served beside her document.
MCActorKeys ==
  [a \in Actors |->
    IF a = eve THEN Key(eves, eve, ke)
    ELSE UNION {Key(fragment, alice, ka1), Key(fragment, alice, ka2),
                Key(document, None, None), Key(document, alice, ka2), {None}}]
MCKeyDocuments ==
  [id \in OwnDocument |->
    IF id = document THEN Key(document, alice, ka1) \cup Key(document, alice, ka2) \cup {None}
    ELSE Key(eves, eve, ke)]

Host(name, port) == [name |-> name, port |-> port]
Url(name, port, path) == [scheme |-> "https", host |-> Host(name, port), path |-> path]

\* Two inboxes of one host, one of them with the default port written out, and
\* one on another port.
MCInboxes == {Url("feder", None, "/a"), Url("feder", 443, "/b"), Url("feder", 8443, "/a")}

AllHeaders == <<RequestTarget, "content-type", "date", "digest", "host">>

Digest(of) == [alg : {"sha-256"}, of : {of}]

\* A request as send_activity makes it.
Plain(keyId, body, url, date) ==
  [to        |-> url,
   body      |-> body,
   headers   |-> [n \in HeaderNames |->
                    CASE n = "content-type" -> "activity"
                      [] n = "date"         -> date
                      [] n = "digest"       -> Digest(body)
                      [] n = "host"         -> host_header(url)],
   twice     |-> {},
   keyId     |-> keyId,
   algorithm |-> "rsa-sha256",
   list      |-> AllHeaders]

MCPlain ==
  {Plain(document, hello, url, 1) : url \in MCInboxes} \cup
  {Plain(document, hello, Url("feder", None, "/a"), date) : date \in {2, 3}} \cup
  {Plain(eves, evil, Url("feder", None, "/a"), 1)}

\* With one part of it changed on the way, or left out by another implementation.
Changed(q) ==
  {[q EXCEPT !.to = url] : url \in MCInboxes} \cup
  {[q EXCEPT !.body = body] : body \in Bodies} \cup
  {[q EXCEPT !.body = bye, !.headers["digest"] = Digest(bye)]} \cup
  {[q EXCEPT !.body = bye, !.headers["digest"] = Digest(bye), !.list = list] :
     list \in {<<RequestTarget, "date", "host">>}} \cup
  {[q EXCEPT !.headers["digest"] = digest] :
     digest \in {Garbled, [alg : {"other"}, of : {q.body}], Digest(q.body) \cup Digest(bye)}} \cup
  {[q EXCEPT !.headers["date"] = date] : date \in {0, 1, Garbled}} \cup
  {[q EXCEPT !.headers["host"] = host] :
     host \in {Host("feder", 443), Host("feder", 8443), Host("other", None), Garbled}} \cup
  {[q EXCEPT !.headers = [n \in HeaderNames \ {"host"} |-> q.headers[n]]]} \cup
  {[q EXCEPT !.twice = {"digest"}], [q EXCEPT !.twice = {"content-type"}]} \cup
  {[q EXCEPT !.keyId = id] : id \in KeyIds} \cup
  {[q EXCEPT !.algorithm = algorithm] : algorithm \in {None, "other"}} \cup
  {[q EXCEPT !.list = list] :
     list \in {<<>>, <<RequestTarget, "date", "host">>, <<RequestTarget, "digest", "date", "host">>,
               <<"date", "digest", "host">>, <<RequestTarget, "date", "digest", "host", "date">>}}

MCArrivals == MCPlain \cup Changed(Plain(document, hello, Url("feder", None, "/a"), 1))

MCRotated ==
  {Plain(id, hello, Url("feder", 443, "/b"), 1) : id \in {fragment, document}}

==============================================================================
