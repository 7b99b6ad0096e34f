------------------------------ MODULE Federation ------------------------------
(***************************************************************************)
(* Two FederServers that follow each other's actors.  What one of them     *)
(* posts is in the mail until it is lost, and may arrive any number of     *)
(* times and in any order.  Each server also gets requests of nobody       *)
(* knows whom; only what the other server posted carries the signature of  *)
(* an actor of it.  Either server may crash.                               *)
(***************************************************************************)
EXTENDS FiniteSets

CONSTANTS
  ActorsA, ActorsB,      \* whom each server hosts
  FollowIds, Versions, Linked, None, Shared,
  HandlersA, HandlersB,  \* slots for the requests each server handles at one time
  CallersA, CallersB,    \* slots for the calls of follow_actor at one time
  RequestsA, RequestsB,  \* what may arrive at the inboxes of each server
  IntentsA, IntentsB,    \* the calls of follow_actor at each server
  SharedA, SharedB,      \* actors whose document names the shared inbox
  KeyedA, KeyedB         \* actors with a key pair

VARIABLES
  profileA, followersA, outboundA, taskA, heardA, wireA,  \* server A, with the
  profileB, followersB, outboundB, taskB, heardB, wireB,  \* server B; see FederServer
  mail                                                    \* deliveries on their way

A == INSTANCE FederServer WITH
  Locals <- ActorsA, Remotes <- ActorsB, Tasks <- HandlersA \cup CallersA, Requests <- RequestsA,
  Intents <- IntentsA, SharedInboxActors <- SharedA, Keyed <- KeyedA,
  RequireSigned <- TRUE, Persistent <- {},
  profile <- profileA, followers <- followersA, outbound <- outboundA,
  task <- taskA, heard <- heardA, wire <- wireA

B == INSTANCE FederServer WITH
  Locals <- ActorsB, Remotes <- ActorsA, Tasks <- HandlersB \cup CallersB, Requests <- RequestsB,
  Intents <- IntentsB, SharedInboxActors <- SharedB, Keyed <- KeyedB,
  RequireSigned <- TRUE, Persistent <- {},
  profile <- profileB, followers <- followersB, outbound <- outboundB,
  task <- taskB, heard <- heardB, wire <- wireB

\* What may arrive and be called, as InputsAssumption of FederServer has it.
ASSUME FederationInputs ==
  /\ RequestsA \subseteq A!InboxRequests /\ IntentsA \subseteq A!FollowIntents
  /\ RequestsB \subseteq B!InboxRequests /\ IntentsB \subseteq B!FollowIntents
  /\ SharedA \subseteq ActorsA /\ SharedB \subseteq ActorsB

\* Each actor lives on one server, and nothing else is taken for an actor.
ASSUME FederationNames ==
  /\ ActorsA \cap ActorsB = {}
  /\ Shared \notin ActorsA \cup ActorsB
  /\ Linked \notin Versions
  /\ None \notin ActorsA \cup ActorsB \cup Versions
  /\ None \notin A!PendingFollows \cup B!PendingFollows

varsA == <<profileA, followersA, outboundA, taskA, heardA, wireA>>
varsB == <<profileB, followersB, outboundB, taskB, heardB, wireB>>
vars == <<varsA, varsB, mail>>

OnlyA == UNCHANGED <<varsB, mail>>
OnlyB == UNCHANGED <<varsA, mail>>

Init == A!Init /\ B!Init /\ mail = {}

\* The request a delivery becomes, at the inbox the actor's document names.  An
\* Accept embeds the Follow it answers.
request(m) ==
  [inbox  |-> m.to,
   signer |-> m.from,
   act    |-> [type   |-> m.type,
               actor  |-> m.from,
               ver    |-> Linked,
               object |-> "Follow",
               follow |-> IF m.type = "Follow"
                            THEN [id |-> m.follow, actor |-> m.from, object |-> m.to]
                            ELSE [id |-> m.follow, actor |-> m.to, object |-> m.from]]]

\* What is signed by the actor it names was posted by that actor's server.
MayArrive(q) == q.signer = q.act.actor => \E m \in mail : q = request(m)

\* The activity a task is about to post.
ActivityA(t) ==
  IF taskA[t].pc = "sendAccept"
    THEN A!follow_accept(taskA[t].local, taskA[t].remote, taskA[t].job.act)
    ELSE A!outcome(t).activity
ActivityB(t) ==
  IF taskB[t].pc = "sendAccept"
    THEN B!follow_accept(taskB[t].local, taskB[t].remote, taskB[t].job.act)
    ELSE B!outcome(t).activity

------------------------------------------------------------------------------
(* Server A *)

ReceiveA(t, q) ==
  /\ MayArrive(q)
  /\ A!ReceivePersonal(t, q) \/ A!ReceiveShared(t, q)
  /\ OnlyA

BeginFollowA(t, i) == A!BeginFollow(t, i) /\ OnlyA

\* A step between two awaits that posts nothing.
WorkA(t) ==
  /\ \/ A!Authenticate(t) \/ A!MatchAccept(t) \/ A!ConfirmPending(t) \/ A!RemoveFollower(t)
     \/ A!StoreFollower(t) \/ A!ResolveTarget(t) \/ A!StorePending(t)
  /\ OnlyA

PostA(t) ==
  /\ A!SendAccept(t) \/ A!SendFollow(t)
  /\ mail' = mail \cup {ActivityA(t)}
  /\ UNCHANGED varsB

EndA(t) == A!End(t) /\ OnlyA

WorldA ==
  /\ A!Crash \/ \E r \in ActorsB : A!Republish(r)
  /\ OnlyA

NextA ==
  \/ \E t \in HandlersA, q \in RequestsA : ReceiveA(t, q)
  \/ \E t \in CallersA, i \in IntentsA : BeginFollowA(t, i)
  \/ \E t \in HandlersA \cup CallersA : WorkA(t) \/ PostA(t) \/ EndA(t)
  \/ WorldA

------------------------------------------------------------------------------
(* Server B *)

ReceiveB(t, q) ==
  /\ MayArrive(q)
  /\ B!ReceivePersonal(t, q) \/ B!ReceiveShared(t, q)
  /\ OnlyB

BeginFollowB(t, i) == B!BeginFollow(t, i) /\ OnlyB

WorkB(t) ==
  /\ \/ B!Authenticate(t) \/ B!MatchAccept(t) \/ B!ConfirmPending(t) \/ B!RemoveFollower(t)
     \/ B!StoreFollower(t) \/ B!ResolveTarget(t) \/ B!StorePending(t)
  /\ OnlyB

PostB(t) ==
  /\ B!SendAccept(t) \/ B!SendFollow(t)
  /\ mail' = mail \cup {ActivityB(t)}
  /\ UNCHANGED varsA

EndB(t) == B!End(t) /\ OnlyB

WorldB ==
  /\ B!Crash \/ \E r \in ActorsA : B!Republish(r)
  /\ OnlyB

NextB ==
  \/ \E t \in HandlersB, q \in RequestsB : ReceiveB(t, q)
  \/ \E t \in CallersB, i \in IntentsB : BeginFollowB(t, i)
  \/ \E t \in HandlersB \cup CallersB : WorkB(t) \/ PostB(t) \/ EndB(t)
  \/ WorldB

------------------------------------------------------------------------------

Lose == \E m \in mail : mail' = mail \ {m} /\ UNCHANGED <<varsA, varsB>>

Next == NextA \/ NextB \/ Lose

Spec == Init /\ [][Next]_vars

(***************************************************************************)
(* The application at A calls follow_actor again and again until the       *)
(* Follow is accepted, and no stage of it, and none of handling its        *)
(* requests, fails for ever: what is posted without end arrives without    *)
(* end.  Nothing is assumed of a message that is posted once.  Every wait  *)
(* of a task is bounded by REQUEST_TIMEOUT.                                *)
(***************************************************************************)
follow_message(i) ==
  [type |-> "Follow", from |-> i.local, to |-> i.remote, follow |-> i.follow]
accept_message(i) ==
  [type |-> "Accept", from |-> i.remote, to |-> i.local, follow |-> i.follow]

Retried(i) ==
  LET MineA(t) == taskA[t].job = i
  IN  /\ WF_vars(\E t \in CallersA : outboundA[i.follow].state # "accepted" /\ BeginFollowA(t, i))
      /\ SF_vars(\E t \in CallersA : MineA(t) /\ A!ResolveTarget(t) /\ OnlyA)
      /\ SF_vars(\E t \in CallersA : MineA(t) /\ A!StorePending(t) /\ OnlyA)
      /\ SF_vars(\E t \in CallersA : MineA(t) /\ PostA(t))

Answered(i) ==
  LET q == request(follow_message(i))
      MineB(t) == taskB[t].job = q
  IN  /\ SF_vars(\E t \in HandlersB : ReceiveB(t, q))
      /\ SF_vars(\E t \in HandlersB : MineB(t) /\ B!Authenticate(t) /\ OnlyB)
      /\ SF_vars(\E t \in HandlersB : MineB(t) /\ B!StoreFollower(t) /\ OnlyB)
      /\ SF_vars(\E t \in HandlersB : MineB(t) /\ PostB(t))

Confirmed(i) ==
  LET q == request(accept_message(i))
      MineA(t) == taskA[t].job = q
  IN  /\ SF_vars(\E t \in HandlersA : ReceiveA(t, q))
      /\ SF_vars(\E t \in HandlersA : MineA(t) /\ A!Authenticate(t) /\ OnlyA)
      /\ SF_vars(\E t \in HandlersA : MineA(t) /\ A!MatchAccept(t) /\ OnlyA)
      /\ SF_vars(\E t \in HandlersA : MineA(t) /\ A!ConfirmPending(t) /\ OnlyA)

FairSpec ==
  /\ Spec
  /\ \A t \in HandlersA \cup CallersA : WF_vars(WorkA(t) \/ PostA(t) \/ EndA(t))
  /\ \A t \in HandlersB \cup CallersB : WF_vars(WorkB(t) \/ PostB(t) \/ EndB(t))
  /\ \A i \in IntentsA : Retried(i) /\ Answered(i) /\ Confirmed(i)

------------------------------------------------------------------------------
(* Properties *)

(* Each server's part of the state has its type, and only deliveries travel. *)
TypeOK == A!TypeOK /\ B!TypeOK /\ mail \subseteq wireA \cup wireB

(* A Follow that its own server has as accepted is a row of the followers    *)
(* table at the other end, and the other way round: the two databases never  *)
(* disagree in that direction, whatever is lost, repeated or restarted.      *)
AcceptedOnBothSides ==
  /\ \A f \in FollowIds : outboundA[f].state = "accepted" =>
       \E row \in followersB : /\ row.follower = outboundA[f].local
                               /\ row.following = outboundA[f].remote.id
  /\ \A f \in FollowIds : outboundB[f].state = "accepted" =>
       \E row \in followersA : /\ row.follower = outboundB[f].local
                               /\ row.following = outboundB[f].remote.id

(* Whom a server stores as a follower has, on its own server, a call of      *)
(* follow_actor behind it and a row that can be confirmed: no follower comes *)
(* from a Follow that its server never recorded, also after a crash.  The    *)
(* row is its own if the application used the id for no other target.        *)
FollowersAreRecorded ==
  /\ \A row \in followersB : \E i \in IntentsA :
       /\ i.local = row.follower /\ i.remote = row.following
       /\ outboundA[i.follow] # A!NoRow
       /\ A!OneTarget(i.follow) => /\ outboundA[i.follow].local = row.follower
                                   /\ outboundA[i.follow].remote.id = row.following
  /\ \A row \in followersA : \E i \in IntentsB :
       /\ i.local = row.follower /\ i.remote = row.following
       /\ outboundB[i.follow] # B!NoRow
       /\ B!OneTarget(i.follow) => /\ outboundB[i.follow].local = row.follower
                                   /\ outboundB[i.follow].remote.id = row.following

(* Seen from either end, the two servers, their mail and their crashes are   *)
(* the handshake of FollowHandshake: no stage of it is reached before the    *)
(* one before it is on disk or in the mail at the right end, and none of     *)
(* them is ever taken back.                                                  *)
AtoB ==
  INSTANCE FollowHandshake WITH
    Locals <- ActorsA, Remotes <- ActorsB,
    relation <- outboundA,
    posted <- {<<m.follow, m.from, m.to>> : m \in {n \in wireA : n.type = "Follow"}},
    listed <- {<<row.follower, row.following>> : row \in followersB},
    answered <- {<<m.follow, m.to, m.from>> : m \in {n \in wireB : n.type = "Accept"}}

BtoA ==
  INSTANCE FollowHandshake WITH
    Locals <- ActorsB, Remotes <- ActorsA,
    relation <- outboundB,
    posted <- {<<m.follow, m.from, m.to>> : m \in {n \in wireB : n.type = "Follow"}},
    listed <- {<<row.follower, row.following>> : row \in followersA},
    answered <- {<<m.follow, m.to, m.from>> : m \in {n \in wireA : n.type = "Accept"}}

ImplementsHandshake == AtoB!Spec /\ BtoA!Spec

(* The application that retries follow_actor until its Follow is accepted    *)
(* succeeds, through lost Follows and lost Accepts and crashes at both ends, *)
(* once the other actor's document stays as it is.                           *)
RetriedFollowIsAccepted ==
  (\A r \in ActorsB : <>[][profileA'[r] = profileA[r]]_vars) =>
    \A i \in IntentsA :
      A!OneTarget(i.follow) /\ i.local \in KeyedA /\ i.remote \in KeyedB =>
        <>(outboundA[i.follow].state = "accepted")
==============================================================================
