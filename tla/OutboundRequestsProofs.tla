------------------------ MODULE OutboundRequestsProofs ------------------------
(***************************************************************************)
(* Proofs about OutboundRequests: however names resolve, whatever peers    *)
(* answer and however many requests share the connections, only public     *)
(* addresses are contacted, and what a request returns is decided by its   *)
(* answer.                                                                 *)
(***************************************************************************)
EXTENDS OutboundRequests, TLAPS

Public(address) == PublicOnly => validate_public_address(address)

(* An address is validated before it becomes a candidate; only a candidate  *)
(* is connected to, and only what was connected to is in the pool.          *)
OnlyValidated ==
  /\ \A t \in Tasks : \A a \in task[t].candidates : Public(a)
  /\ \A c \in pool : Public(c[2])
  /\ \A a \in contacted : Public(a)

(* A request under way is for the host of its call, and has an answer when   *)
(* its head was accepted.                                                    *)
UnderWay(tk) ==
  /\ tk.call \in Calls
  /\ tk.host \in Hosts /\ tk.host = UrlOf[tk.call.id].host
  /\ tk.found = None
  /\ tk.stage # "read" => tk.answer = None
  /\ tk.stage = "read" =>
       /\ tk.answer \in Answers
       /\ tk.answer.status = "success"
       /\ tk.answer.type = "activitypub"
       /\ tk.call.kind # "post"

(* What a request returns is what its answer calls for.                      *)
Decided(tk) ==
  /\ tk.answer # None =>
       /\ tk.result = "Ok" => Good(tk.call, tk.answer)
       /\ Good(tk.call, tk.answer) => tk.result \in {"Ok", "Request"}
  /\ tk.found # None => tk.found = tk.call.id /\ tk.host = UrlOf[tk.found].host

Sound(tk) ==
  /\ tk.stage = "idle" => tk.answer = None /\ tk.found = None
  /\ tk.stage \in Stages => UnderWay(tk)
  /\ tk.stage = "returned" => Decided(tk)

Inv ==
  /\ TypeOK
  /\ OnlyValidated
  /\ \A t \in Tasks : Sound(task[t])

------------------------------------------------------------------------------

(* A step of one task keeps the invariant when it leaves that task sound.    *)
LEMMA TaskStep ==
  ASSUME Inv, NEW t \in Tasks, NEW tk \in TaskStates, Sound(tk),
         \A a \in tk.candidates : Public(a),
         task' = [task EXCEPT ![t] = tk],
         pool' \subseteq Hosts \X IpAddrs, \A c \in pool' : Public(c[2]),
         contacted' \subseteq IpAddrs, \A a \in contacted' : Public(a)
  PROVE  Inv'
<1>1. \A u \in Tasks : task'[u] = IF u = t THEN tk ELSE task[u]
  BY DEF Inv, TypeOK
<1>2. TypeOK'
  BY <1>1 DEF Inv, TypeOK
<1>3. OnlyValidated'
  BY <1>1 DEF Inv, OnlyValidated, Public, validate_public_address
<1>4. (\A u \in Tasks : Sound(task[u]))'
  BY <1>1 DEF Inv, Sound, UnderWay, Decided, Good, Describes
<1> QED BY <1>2, <1>3, <1>4 DEF Inv

LEMMA IdleType == Idle \in TaskStates
BY SizeAssumption DEF Idle, TaskStates

LEMMA InitInv == Init => Inv
<1> SUFFICES ASSUME Init PROVE Inv OBVIOUS
<1>2. TypeOK
  BY IdleType DEF Init, TypeOK
<1>3. OnlyValidated
  BY DEF Init, OnlyValidated, Idle
<1>4. \A t \in Tasks : Sound(task[t])
  BY DEF Init, Idle, Sound, Stages
<1> QED BY <1>2, <1>3, <1>4 DEF Inv

LEMMA BeginInv ==
  ASSUME Inv, NEW t \in Tasks, NEW call \in Calls, Begin(t, call)
  PROVE  Inv'
<1> DEFINE url == UrlOf[call.id]
<1>1. url \in Urls
  BY RequestAssumption
<1>2. PICK tk : tk =
        IF ~ valid_url(url)
          THEN [Idle EXCEPT !.stage = "returned", !.call = call, !.result = "InvalidUrl"]
        ELSE IF ~ validate_literal_host(url)
          THEN [Idle EXCEPT !.stage = "returned", !.call = call, !.result = "PrivateAddress"]
        ELSE [Idle EXCEPT !.stage = IF url.host \in Names THEN "lookup" ELSE "connect",
                          !.call = call,
                          !.host = url.host,
                          !.candidates = {url.host} \ Names]
  OBVIOUS
<1>3. task' = [task EXCEPT ![t] = tk]
  BY <1>2 DEF Begin
<1>4. valid_url(url) => url.host \in Hosts
  BY <1>1 DEF Urls, valid_url
<1>5. tk \in TaskStates
  <2>1. valid_url(url) => {url.host} \ Names \in SUBSET IpAddrs
    BY <1>4 DEF Hosts
  <2>2. tk.candidates \in SUBSET IpAddrs
    BY <1>2, <2>1 DEF Idle
  <2>3. /\ tk.stage \in Stages \cup {"returned"} /\ tk.call = call
        /\ tk.host \in Hosts \cup {None} /\ tk.answer = None /\ tk.body = 0
        /\ tk.result \in Results \cup {None} /\ tk.found = None
    BY <1>2, <1>4 DEF Idle, Stages, Results
  <2>4. tk = [stage |-> tk.stage, call |-> tk.call, host |-> tk.host,
              candidates |-> tk.candidates, answer |-> tk.answer, body |-> tk.body,
              result |-> tk.result, found |-> tk.found]
    BY <1>2 DEF Idle
  <2> QED BY <2>2, <2>3, <2>4, SizeAssumption DEF TaskStates
<1>6. \A a \in tk.candidates : Public(a)
  BY <1>2, <1>4 DEF Idle, Hosts, validate_literal_host, Public
<1>7. Sound(tk)
  BY <1>2, <1>4 DEF Sound, UnderWay, Decided, Idle, Stages
<1>8. UNCHANGED <<pool, contacted>>
  BY DEF Begin
<1> QED BY <1>3, <1>5, <1>6, <1>7, <1>8, TaskStep DEF Inv, TypeOK, OnlyValidated

(* A task that returns without an answer, or fails, is sound.                *)
LEMMA FailInv ==
  ASSUME Inv, NEW t \in Tasks, NEW result \in Results, Return(t, result),
         task[t].stage \in Stages, UNCHANGED <<pool, contacted>>,
         result # "Ok",
         result # "Request" => task[t].answer = None \/ ~ Good(task[t].call, task[t].answer)
  PROVE  Inv'
<1>1. PICK tk : tk = [task[t] EXCEPT !.stage = "returned", !.result = result]
  OBVIOUS
<1>2. task[t] \in TaskStates
  BY DEF Inv, TypeOK
<1>3. task' = [task EXCEPT ![t] = tk]
  BY <1>1, <1>2 DEF Return, Inv, TypeOK
<1>4. tk \in TaskStates
  BY <1>1, <1>2 DEF TaskStates
<1>5. \A a \in tk.candidates : Public(a)
  BY <1>1, <1>2 DEF Inv, OnlyValidated, TaskStates
<1>6. Sound(tk)
  BY <1>1, <1>2 DEF Inv, Sound, UnderWay, Decided, TaskStates, Stages
<1> QED BY <1>3, <1>4, <1>5, <1>6, TaskStep DEF Inv, TypeOK, OnlyValidated

LEMMA LookupInv ==
  ASSUME Inv, NEW t \in Tasks, Lookup(t)
  PROVE  Inv'
<1>1. task[t] \in TaskStates /\ task[t].stage \in Stages
  BY DEF Lookup, Inv, TypeOK, Stages
<1>2. PICK addresses \in SUBSET IpAddrs :
        IF addresses = {} \/ (PublicOnly /\ \E a \in addresses : ~ validate_public_address(a))
          THEN Return(t, "Request")
          ELSE task' = [task EXCEPT ![t].stage = "connect", ![t].candidates = addresses]
  BY DEF Lookup
<1>3. CASE Return(t, "Request")
  BY <1>1, <1>3, FailInv DEF Lookup, Results
<1>4. CASE /\ \A a \in addresses : Public(a)
           /\ task' = [task EXCEPT ![t].stage = "connect", ![t].candidates = addresses]
  <2>1. PICK tk : tk = [task[t] EXCEPT !.stage = "connect", !.candidates = addresses]
    OBVIOUS
  <2>2. task' = [task EXCEPT ![t] = tk]
    BY <1>1, <1>4, <2>1 DEF Inv, TypeOK
  <2>3. tk \in TaskStates
    BY <1>1, <2>1 DEF TaskStates, Stages
  <2>4. \A a \in tk.candidates : Public(a)
    BY <1>1, <1>4, <2>1 DEF TaskStates
  <2>5. Sound(tk)
    BY <1>1, <2>1 DEF Inv, Lookup, Sound, UnderWay, Decided, TaskStates, Stages
  <2> QED BY <2>2, <2>3, <2>4, <2>5, TaskStep DEF Lookup, Inv, TypeOK, OnlyValidated
<1> QED BY <1>2, <1>3, <1>4 DEF Public

LEMMA ConnectInv ==
  ASSUME Inv, NEW t \in Tasks, NEW address \in IpAddrs,
         Connect(t, address) \/ Reuse(t, address)
  PROVE  Inv'
<1>1. /\ task[t] \in TaskStates
      /\ task[t].stage \in {"lookup", "connect"}
  BY DEF Connect, Reuse, Inv, TypeOK
<1>2. Sound(task[t]) /\ UnderWay(task[t]) /\ task[t].answer = None
  BY <1>1 DEF Inv, Sound, UnderWay, Stages
<1>3. \A c : c \in pool \cup {<<task[t].host, address>>} =>
        c \in Hosts \X IpAddrs /\ (Public(address) => Public(c[2]))
  BY <1>2 DEF UnderWay, Inv, TypeOK, OnlyValidated
<1>4. Public(address)
  BY <1>1 DEF Connect, Reuse, Inv, OnlyValidated
<1>5. /\ pool' \subseteq Hosts \X IpAddrs /\ \A c \in pool' : Public(c[2])
      /\ contacted' \subseteq IpAddrs /\ \A a \in contacted' : Public(a)
  BY <1>3, <1>4 DEF Connect, Reuse, Inv, TypeOK, OnlyValidated
<1>6. CASE task' = [task EXCEPT ![t].stage = "exchange", ![t].candidates = {}]
  <2>1. PICK tk : tk = [task[t] EXCEPT !.stage = "exchange", !.candidates = {}]
    OBVIOUS
  <2>2. task' = [task EXCEPT ![t] = tk]
    BY <1>6, <2>1 DEF Inv, TypeOK
  <2>3. tk \in TaskStates /\ tk.candidates = {}
    BY <1>1, <2>1 DEF TaskStates, Stages
  <2>4. Sound(tk)
    BY <1>1, <1>2, <2>1 DEF Sound, UnderWay, Decided, TaskStates, Stages
  <2> QED BY <1>5, <2>2, <2>3, <2>4, TaskStep
<1>7. CASE task' = [task EXCEPT ![t].candidates = @ \ {address}]
  <2>1. PICK tk : tk = [task[t] EXCEPT !.candidates = @ \ {address}]
    OBVIOUS
  <2>2. task' = [task EXCEPT ![t] = tk]
    BY <1>7, <2>1 DEF Inv, TypeOK
  <2>3. tk \in TaskStates
    BY <1>1, <2>1 DEF TaskStates
  <2>4. \A a \in tk.candidates : Public(a)
    BY <1>1, <2>1 DEF Inv, OnlyValidated, TaskStates
  <2>5. Sound(tk)
    BY <1>1, <1>2, <2>1 DEF Sound, UnderWay, Decided, TaskStates, Stages
  <2> QED BY <1>5, <2>2, <2>3, <2>4, <2>5, TaskStep
<1> QED BY <1>6, <1>7 DEF Connect, Reuse

LEMMA RespondInv ==
  ASSUME Inv, NEW t \in Tasks, NEW answer \in Answers, Respond(t, answer)
  PROVE  Inv'
<1>1. task[t] \in TaskStates /\ task[t].stage = "exchange"
  BY DEF Respond, Inv, TypeOK
<1>2. UnderWay(task[t])
  BY <1>1 DEF Inv, Sound, Stages
<1>3. PICK tk : /\ task' = [task EXCEPT ![t] = tk]
                /\ \/ /\ answer.status # "success"
                      /\ tk = [task[t] EXCEPT !.answer = answer, !.stage = "returned",
                                              !.result = "UnsuccessfulStatus"]
                   \/ /\ answer.status = "success" /\ task[t].call.kind = "post"
                      /\ tk = [task[t] EXCEPT !.answer = answer, !.stage = "returned",
                                              !.result = "Ok"]
                   \/ /\ task[t].call.kind # "post" /\ answer.type = "other"
                      /\ tk = [task[t] EXCEPT !.answer = answer, !.stage = "returned",
                                              !.result = "UnsupportedContentType"]
                   \/ /\ task[t].call.kind # "post" /\ answer.size > Limit
                      /\ tk = [task[t] EXCEPT !.answer = answer, !.stage = "returned",
                                              !.result = "ResponseTooLarge"]
                   \/ /\ answer.status = "success" /\ answer.type # "other"
                      /\ task[t].call.kind # "post"
                      /\ tk = [task[t] EXCEPT !.answer = answer, !.stage = "read"]
  BY <1>1 DEF Respond, TaskStates
<1>4. /\ answer.status \in {"success", "redirect", "failure"}
      /\ answer.type \in {"activitypub", "other"}
      /\ answer.size \in Int
  BY AnswerAssumption, SizeAssumption DEF Endless
<1>5. tk \in TaskStates /\ tk.candidates = task[t].candidates
  BY <1>1, <1>3 DEF TaskStates, Stages, Results
<1>6. \A a \in tk.candidates : Public(a)
  BY <1>5 DEF Inv, OnlyValidated
<1>7. Sound(tk)
  <2>1. /\ tk.call = task[t].call /\ tk.host = task[t].host /\ tk.found = None
        /\ tk.answer = answer /\ tk.stage \in {"returned", "read"}
    BY <1>1, <1>2, <1>3 DEF UnderWay, TaskStates
  <2>2. CASE tk.stage = "read"
    BY <1>1, <1>2, <1>3, <1>4, <2>1, <2>2 DEF Sound, UnderWay, TaskStates, Stages
  <2>3. CASE tk.stage = "returned"
    <3>1. \/ answer.status # "success" /\ tk.result = "UnsuccessfulStatus"
          \/ answer.status = "success" /\ tk.call.kind = "post" /\ tk.result = "Ok"
          \/ /\ tk.call.kind # "post" /\ answer.type = "other"
             /\ tk.result = "UnsupportedContentType"
          \/ /\ tk.call.kind # "post" /\ answer.size > Limit
             /\ tk.result = "ResponseTooLarge"
      BY <1>1, <1>3, <2>1, <2>3 DEF TaskStates
    <3>2. answer.size > Limit => ~ (answer.size <= Limit)
      BY <1>4, SizeAssumption
    <3>3. /\ tk.result = "Ok" => Good(tk.call, answer)
          /\ Good(tk.call, answer) => tk.result \in {"Ok", "Request"}
      BY <3>1, <3>2, Zenon DEF Good
    <3> QED BY <2>1, <2>3, <3>3 DEF Sound, Decided, Stages
  <2> QED BY <2>1, <2>2, <2>3
<1> QED BY <1>3, <1>5, <1>6, <1>7, TaskStep DEF Respond, Inv, TypeOK, OnlyValidated

LEMMA ReadChunkInv ==
  ASSUME Inv, NEW t \in Tasks, NEW n \in 1 .. MaxChunk, ReadChunk(t, n)
  PROVE  Inv'
<1>1. task[t] \in TaskStates /\ task[t].stage = "read"
  BY DEF ReadChunk, Inv, TypeOK
<1>2. UnderWay(task[t])
  BY <1>1 DEF Inv, Sound, Stages
<1>3. /\ task[t].answer \in Answers
      /\ task[t].answer.size \in Int
  BY <1>1, <1>2, AnswerAssumption, SizeAssumption DEF UnderWay, Endless
<1>4. n \in Nat /\ task[t].body \in Nat
  BY <1>1, SizeAssumption DEF TaskStates
<1>5. CASE task[t].body + n > Limit
  <2>1. task[t].answer.size = Endless \/ task[t].answer.size > Limit
    BY <1>3, <1>4, <1>5, SizeAssumption DEF ReadChunk, More
  <2>2. ~ Good(task[t].call, task[t].answer)
    BY <1>1, <1>2, <1>3, <2>1, SizeAssumption DEF Good, UnderWay
  <2> QED BY <1>1, <1>5, <2>2, FailInv DEF ReadChunk, Results, Stages
<1>6. CASE task[t].body + n <= Limit
  <2>1. PICK tk : tk = [task[t] EXCEPT !.body = @ + n]
    OBVIOUS
  <2>2. task' = [task EXCEPT ![t] = tk]
    BY <1>4, <1>6, <2>1, SizeAssumption DEF ReadChunk, Inv, TypeOK
  <2>3. tk \in TaskStates /\ tk.candidates = task[t].candidates
    BY <1>1, <1>4, <1>6, <2>1, SizeAssumption DEF TaskStates
  <2>4. Sound(tk)
    BY <1>1, <1>2, <2>1 DEF Sound, UnderWay, TaskStates, Stages
  <2> QED BY <2>2, <2>3, <2>4, TaskStep DEF ReadChunk, Inv, TypeOK, OnlyValidated
<1> QED BY <1>4, <1>5, <1>6, SizeAssumption

LEMMA CompleteInv ==
  ASSUME Inv, NEW t \in Tasks, Complete(t)
  PROVE  Inv'
<1>1. task[t] \in TaskStates /\ task[t].stage = "read"
  BY DEF Complete, Inv, TypeOK
<1>2. UnderWay(task[t])
  BY <1>1 DEF Inv, Sound, Stages
<1> DEFINE call == task[t].call
           answer == task[t].answer
           document == answer.document
           result == IF call.kind = "actor" THEN resolve(call.id, document)
                                            ELSE resolve_key(call.id, document)
<1>3. /\ call \in [kind : {"actor", "key", "post"}, id : Ids]
      /\ answer \in Answers /\ answer.size \in Int /\ document \in Documents
  BY <1>1, <1>2, AnswerAssumption, RequestAssumption, SizeAssumption DEF UnderWay, Endless
<1>4. result \in Results /\ result # "Request"
  BY DEF resolve, resolve_key, Results
<1>5. Good(call, answer) <=> result = "Ok"
  <2>1. answer.size # Endless /\ answer.size <= Limit
    BY <1>1, <1>3, SizeAssumption DEF Complete, TaskStates, Endless
  <2>2. Good(call, answer) <=> Describes(document, call)
    BY <1>1, <1>2, <2>1 DEF Good, UnderWay
  <2>3. call.id # None
    BY <1>3, RequestAssumption
  <2> QED BY <2>2, <2>3 DEF Describes, resolve, resolve_key
<1>6. PICK tk : tk = [task[t] EXCEPT
                        !.stage = "returned",
                        !.result = result,
                        !.found = CASE result # "Ok" -> None
                                    [] result = "Ok" /\ call.kind = "actor" -> document.actor
                                    [] OTHER -> call.id]
  OBVIOUS
<1>7. task' = [task EXCEPT ![t] = tk]
  BY <1>1, <1>6 DEF Complete, Inv, TypeOK
<1>8. tk.found \in {None, call.id}
  BY <1>1, <1>6 DEF resolve, TaskStates
<1>9. tk \in TaskStates /\ tk.candidates = task[t].candidates
  BY <1>1, <1>3, <1>4, <1>6, <1>8 DEF TaskStates
<1>10. Sound(tk)
  BY <1>1, <1>2, <1>4, <1>5, <1>6, <1>8 DEF Sound, UnderWay, Decided, TaskStates, Stages
<1> QED BY <1>7, <1>9, <1>10, TaskStep DEF Complete, Inv, TypeOK, OnlyValidated

LEMMA ExpireInv ==
  ASSUME Inv, NEW t \in Tasks, Expire(t)
  PROVE  Inv'
<1>1. task[t] \in TaskStates /\ task[t].stage \in Stages
  BY DEF Expire, Inv, TypeOK
<1>2. UnderWay(task[t])
  BY <1>1 DEF Inv, Sound
<1>3. PICK tk : tk = [task[t] EXCEPT !.stage = "returned", !.result = "Request"]
  OBVIOUS
<1>4. task' = [task EXCEPT ![t] = tk]
  BY <1>1, <1>3 DEF Expire, Return, Inv, TypeOK
<1>5. tk \in TaskStates /\ tk.candidates = task[t].candidates
  BY <1>1, <1>3 DEF TaskStates, Results
<1>6. Sound(tk)
  BY <1>1, <1>2, <1>3 DEF Sound, UnderWay, Decided, TaskStates, Stages
<1> QED BY <1>4, <1>5, <1>6, TaskStep DEF Expire, Inv, TypeOK, OnlyValidated

LEMMA EndInv ==
  ASSUME Inv, NEW t \in Tasks, End(t)
  PROVE  Inv'
<1>1. Sound(Idle) /\ Idle.candidates = {}
  BY DEF Sound, Idle, Stages
<1> QED BY <1>1, IdleType, TaskStep DEF End, Inv, TypeOK, OnlyValidated

LEMMA NextInv == Inv /\ [Next]_vars => Inv'
<1> SUFFICES ASSUME Inv, [Next]_vars PROVE Inv' OBVIOUS
<1>1. ASSUME NEW t \in Tasks, NEW call \in Calls, Begin(t, call) PROVE Inv'
  BY <1>1, BeginInv
<1>2. ASSUME NEW t \in Tasks, Lookup(t) PROVE Inv'
  BY <1>2, LookupInv
<1>3. ASSUME NEW t \in Tasks, NEW address \in IpAddrs, Connect(t, address) \/ Reuse(t, address)
      PROVE  Inv'
  BY <1>3, ConnectInv
<1>4. ASSUME NEW t \in Tasks, NEW answer \in Answers, Respond(t, answer) PROVE Inv'
  BY <1>4, RespondInv
<1>5. ASSUME NEW t \in Tasks, NEW n \in 1 .. MaxChunk, ReadChunk(t, n) PROVE Inv'
  BY <1>5, ReadChunkInv
<1>6. ASSUME NEW t \in Tasks, Complete(t) PROVE Inv'
  BY <1>6, CompleteInv
<1>7. ASSUME NEW t \in Tasks, Expire(t) PROVE Inv'
  BY <1>7, ExpireInv
<1>8. ASSUME NEW t \in Tasks, End(t) PROVE Inv'
  BY <1>8, EndInv
<1>9. ASSUME NEW connection \in pool, Close(connection) PROVE Inv'
  BY <1>9 DEF Close, Inv, TypeOK, OnlyValidated, Sound, UnderWay, Decided, Good, Describes,
              Public, validate_public_address
<1>10. CASE UNCHANGED vars
  BY <1>10 DEF vars, Inv, TypeOK, OnlyValidated, Sound, UnderWay, Decided, Good, Describes,
               Public, validate_public_address
<1> QED BY <1>1, <1>2, <1>3, <1>4, <1>5, <1>6, <1>7, <1>8, <1>9, <1>10 DEF Next

THEOREM Invariance == Spec => []Inv
BY InitInv, NextInv, PTL DEF Spec

(* Every task, connection and contact is what it says.                      *)
THEOREM TypeCorrect == Spec => []TypeOK
<1>1. Inv => TypeOK
  BY DEF Inv
<1> QED BY <1>1, Invariance, PTL

(* A validated address ends at no network of the list, in either form.      *)
LEMMA ValidatedIsPublic ==
  ASSUME NEW address \in IpAddrs, validate_public_address(address),
         NEW e \in Endpoints(address), NEW net \in Networks
  PROVE  ~ (e.family = net.family /\ e.value \in net.first .. net.last)
<1>1. /\ e.value \in Int /\ address.value \in Int /\ MappedBase \in Int
      /\ net.first \in Int /\ net.last \in Int
  BY AddressAssumption DEF Endpoints, IpAddrs, V4, V6
<1>2. CASE e = address /\ ~ is_mapped(address)
  BY <1>1, <1>2 DEF validate_public_address, unmapped, contains
<1>3. CASE /\ is_mapped(address) /\ e.family = 4
           /\ e.value + MappedBase = address.value
  <2>1. e.value = unmapped(address).value /\ e.family = unmapped(address).family
    BY <1>1, <1>3 DEF unmapped
  <2> QED BY <1>1, <2>1 DEF validate_public_address, contains
<1> QED BY <1>2, <1>3 DEF Endpoints

(* Under PublicOnly no request ends at a network of NON_PUBLIC_NETWORKS,    *)
(* whatever names resolve to, however often they are resolved, and whatever *)
(* peers answer.                                                            *)
THEOREM OnlyPublic == Spec => []OnlyPublicPeers
<1>1. Inv => OnlyPublicPeers
  BY ValidatedIsPublic DEF Inv, TypeOK, OnlyValidated, Public, OnlyPublicPeers
<1> QED BY <1>1, Invariance, PTL

(* An actor or a key that is returned is the one that was asked for, from a *)
(* connection made for the host of its id.                                  *)
THEOREM Own == Spec => []OwnDocuments
<1>1. Inv => OwnDocuments
  <2> SUFFICES ASSUME Inv, NEW t \in Tasks, task[t].found # None
               PROVE  /\ task[t].found = task[t].call.id
                      /\ task[t].host = UrlOf[task[t].found].host
    BY DEF OwnDocuments
  <2>1. task[t] \in TaskStates /\ Sound(task[t])
    BY DEF Inv, TypeOK
  <2>2. task[t].stage = "returned"
    BY <2>1 DEF Sound, UnderWay, TaskStates
  <2> QED BY <2>1, <2>2 DEF Sound, Decided
<1> QED BY <1>1, Invariance, PTL

(* A request that is not cut short returns Ok just when its answer is good: *)
(* for every limit, every size and every way to cut a body into chunks.     *)
THEOREM Decides == Spec => []AnswerDecides
<1>1. Inv => AnswerDecides
  BY DEF Inv, Sound, Decided, AnswerDecides
<1> QED BY <1>1, Invariance, PTL
(* The policy is exact: an address is refused just when the machine it ends  *)
(* at is in a network of NON_PUBLIC_NETWORKS, so that no public peer is shut *)
(* out in either form of its address (validate_public_address).             *)
THEOREM PolicyIsExact ==
  ASSUME NEW address \in IpAddrs
  PROVE  validate_public_address(address) <=>
           \A e \in Endpoints(address), net \in Networks :
             ~ (e.family = net.family /\ e.value \in net.first .. net.last)
<1>1. validate_public_address(address) =>
        \A e \in Endpoints(address), net \in Networks :
          ~ (e.family = net.family /\ e.value \in net.first .. net.last)
  BY ValidatedIsPublic
<1>2. ASSUME NEW net \in Networks, contains(net, unmapped(address))
      PROVE  \E e \in Endpoints(address) :
               e.family = net.family /\ e.value \in net.first .. net.last
  <2> DEFINE e == unmapped(address)
  <2>1. e \in Endpoints(address) /\ e.value \in Int
    <3>1. address.value \in Int /\ MappedBase \in Int
      BY AddressAssumption DEF IpAddrs, V4, V6
    <3>2. CASE ~ is_mapped(address)
      BY <3>1, <3>2 DEF unmapped, Endpoints
    <3>3. CASE is_mapped(address)
      <4>1. e = [family |-> 4, value |-> address.value - MappedBase]
        BY <3>3 DEF unmapped
      <4>2. address.value - MappedBase \in 0 .. 2^V4Bits - 1
        BY <3>3 DEF is_mapped
      <4>3. e \in IpAddrs
        BY <4>1, <4>2 DEF IpAddrs, V4
      <4>4. e.value + MappedBase = address.value
        BY <3>1, <4>1
      <4> QED BY <3>1, <3>3, <4>1, <4>3, <4>4 DEF Endpoints
    <3> QED BY <3>2, <3>3
  <2>2. /\ e.family = net.family /\ net.first <= e.value /\ e.value <= net.last
        /\ net.first \in Int /\ net.last \in Int
    BY <1>2, AddressAssumption DEF contains
  <2> HIDE DEF e
  <2> QED BY <2>1, <2>2
<1> QED BY <1>1, <1>2 DEF validate_public_address

(* Where a request is, and in its loops what is left: the addresses to try,  *)
(* the bytes it may still read.                                              *)
Order == [idle |-> 0, lookup |-> 1, connect |-> 2, exchange |-> 3, read |-> 4, returned |-> 5]

Advances(t) ==
  \/ Order[task[t].stage] < Order[task'[t].stage]
  \/ /\ task[t].stage = "connect" /\ task'[t].stage = "connect"
     /\ task'[t].candidates \subseteq task[t].candidates
     /\ task'[t].candidates # task[t].candidates
  \/ /\ task[t].stage = "read" /\ task'[t].stage = "read"
     /\ task[t].body < task'[t].body /\ task'[t].body <= Limit

LEMMA TaskAdvances ==
  ASSUME TypeOK, [Next]_vars, NEW t \in Tasks, task[t].stage \in Stages
  PROVE  Advances(t) \/ task'[t] = task[t]
<1>1. task \in [Tasks -> TaskStates] /\ task[t] \in TaskStates
  BY DEF TypeOK
<1>2. ASSUME NEW u \in Tasks, NEW call \in Calls, Begin(u, call)
      PROVE  task'[t] = task[t]
  <2>1. u # t
    BY <1>2 DEF Begin, Stages
  <2> QED BY <1>1, <1>2, <2>1 DEF Begin
<1>3. ASSUME NEW u \in Tasks, Lookup(u) \/ Expire(u) \/ Complete(u)
      PROVE  Advances(t) \/ task'[t] = task[t]
  <2>1. CASE u = t
    <3>1. task[t].stage \in Stages /\ Order[task[t].stage] < 5
      BY DEF Order, Stages
    <3>2. \/ task'[t].stage = "returned"
          \/ task[t].stage = "lookup" /\ task'[t].stage = "connect"
      BY <1>1, <1>3, <2>1 DEF Lookup, Expire, Complete, Return, TaskStates
    <3> QED BY <3>1, <3>2 DEF Advances, Order
  <2>2. CASE u # t
    BY <1>1, <1>3, <2>2 DEF Lookup, Expire, Complete, Return
  <2> QED BY <2>1, <2>2
<1>4. ASSUME NEW u \in Tasks, NEW address \in IpAddrs, Connect(u, address) \/ Reuse(u, address)
      PROVE  Advances(t) \/ task'[t] = task[t]
  <2>1. CASE u = t
    <3>1. \/ task[t].stage \in {"lookup", "connect"} /\ task'[t].stage = "exchange"
          \/ /\ task[t].stage = "connect" /\ task'[t].stage = "connect"
             /\ address \in task[t].candidates
             /\ task'[t].candidates = task[t].candidates \ {address}
      BY <1>1, <1>4, <2>1 DEF Connect, Reuse, TaskStates
    <3> QED BY <3>1 DEF Advances, Order
  <2>2. CASE u # t
    BY <1>1, <1>4, <2>2 DEF Connect, Reuse
  <2> QED BY <2>1, <2>2
<1>5. ASSUME NEW u \in Tasks, NEW answer \in Answers, Respond(u, answer)
      PROVE  Advances(t) \/ task'[t] = task[t]
  <2>1. CASE u = t
    <3>1. task[t].stage = "exchange" /\ task'[t].stage \in {"read", "returned"}
      BY <1>1, <1>5, <2>1 DEF Respond, TaskStates
    <3> QED BY <3>1 DEF Advances, Order
  <2>2. CASE u # t
    BY <1>1, <1>5, <2>2 DEF Respond
  <2> QED BY <2>1, <2>2
<1>6. ASSUME NEW u \in Tasks, NEW n \in 1 .. MaxChunk, ReadChunk(u, n)
      PROVE  Advances(t) \/ task'[t] = task[t]
  <2>1. CASE u = t
    <3>1. task[t].stage = "read" /\ task[t].body \in Int /\ n \in Int /\ n > 0
      BY <1>1, <1>6, <2>1, SizeAssumption DEF ReadChunk, TaskStates
    <3>2. \/ task'[t].stage = "returned"
          \/ /\ task'[t].stage = "read"
             /\ task'[t].body = task[t].body + n /\ ~ (task[t].body + n > Limit)
      BY <1>1, <1>6, <2>1 DEF ReadChunk, Return, TaskStates
    <3> QED BY <3>1, <3>2, SizeAssumption DEF Advances, Order
  <2>2. CASE u # t
    BY <1>1, <1>6, <2>2 DEF ReadChunk, Return
  <2> QED BY <2>1, <2>2
<1>7. ASSUME NEW u \in Tasks, End(u) PROVE task'[t] = task[t]
  <2>1. u # t
    BY <1>7 DEF End, Stages
  <2> QED BY <1>1, <1>7, <2>1 DEF End
<1>8. ASSUME NEW connection \in pool, Close(connection) PROVE task'[t] = task[t]
  BY <1>8 DEF Close
<1> QED BY <1>2, <1>3, <1>4, <1>5, <1>6, <1>7, <1>8 DEF Next, vars

(* No step takes a request back: no redirect is followed, no address tried   *)
(* twice, and no body makes it read more than the limit, declared or not     *)
(* (client, fetch_document).  So each step of a request brings it nearer to  *)
(* its end, and REQUEST_TIMEOUT is needed only when no step comes.           *)
THEOREM Forward ==
  Spec => [][\A t \in Tasks : task[t].stage \in Stages => Advances(t) \/ task'[t] = task[t]]_vars
<1>1. Inv /\ [Next]_vars =>
        [\A t \in Tasks : task[t].stage \in Stages => Advances(t) \/ task'[t] = task[t]]_vars
  BY TaskAdvances DEF Inv
<1> QED BY <1>1, Invariance, PTL DEF Spec
==============================================================================
