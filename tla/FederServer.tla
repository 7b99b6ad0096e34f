----------------------------- MODULE FederServer -----------------------------
(***************************************************************************)
(* Follow relationships in one running server: the inbox handlers and      *)
(* follow_actor, as concurrent tasks over the tables of the SQLite store.  *)
(*                                                                         *)
(* A task is one HTTP request to an inbox or one call of follow_actor.  It *)
(* is cut where another task can act in between: at each await and at each *)
(* storage call, which holds the connection's mutex only for itself.  Its  *)
(* record holds what its local variables hold at that point.  The tables   *)
(* survive a crash, the tasks do not.                                      *)
(***************************************************************************)
EXTENDS SqliteStore

CONSTANTS
  Tasks,              \* slots for the tasks that run at one time
  Requests,           \* the requests remote servers send to the inboxes
  Intents,            \* the arguments follow_actor is called with
  Shared,             \* the shared inbox, as against the inbox of one actor
  SharedInboxActors,  \* local actors whose document names the shared inbox
  Keyed,              \* local actors with a key pair in the store
  RequireSigned,      \* InboxAuthPolicy: RequireSigned, or unsigned for development
  Persistent          \* requests whose sender repeats them for ever

\* A request: where it is posted, whose key signs it (None: no valid
\* signature), and the activity in its body.
InboxRequests ==
  [inbox : Locals \cup {Shared}, signer : Remotes \cup {None}, act : Activities]

FollowIntents == [local : Locals, remote : Remotes, follow : FollowIds]

ASSUME InputsAssumption ==
  /\ Requests \subseteq InboxRequests
  /\ Intents \subseteq FollowIntents
  /\ Persistent \subseteq Requests
  /\ SharedInboxActors \subseteq Locals
  /\ RequireSigned \in BOOLEAN

\* The shared inbox is not the inbox of an actor.
ASSUME SharedAssumption == Shared \notin Locals

VARIABLES
  profile,    \* the version of the document each remote server now publishes
  followers,  \* table followers
  outbound,   \* table outbound_follows, a function on its primary key
  task,       \* the running tasks
  heard,      \* history: the requests that were authenticated
  wire        \* history: the activities handed to a remote server

store == <<followers, outbound>>
vars == <<profile, followers, outbound, task, heard, wire>>

InboxStages == {"authenticate", "dispatch", "confirm", "sendAccept"}
FollowStages == {"resolve", "storePending", "sendFollow"}

TaskStates ==
  [pc      : {"idle"} \cup InboxStages \cup FollowStages,
   job     : Requests \cup Intents \cup {None},
   local   : Locals \cup {None},
   remote  : ActorDocs \cup {None},
   pending : PendingFollows \cup {None}]

Idle == [pc |-> "idle", job |-> None, local |-> None, remote |-> None, pending |-> None]

Init ==
  /\ profile \in [Remotes -> Versions]
  /\ followers = {}
  /\ outbound = [f \in FollowIds |-> NoRow]
  /\ task = [t \in Tasks |-> Idle]
  /\ heard = {}
  /\ wire = {}

Published(r) == [id |-> r, ver |-> profile[r]]

------------------------------------------------------------------------------
(* The inbox handlers *)

\* POST /users/{identifier}/inbox
ReceivePersonal(t, q) ==
  /\ task[t].pc = "idle"
  /\ q.inbox \in Locals
  /\ task' = [task EXCEPT ![t] =
                [Idle EXCEPT !.pc = "authenticate", !.job = q, !.local = q.inbox]]
  /\ UNCHANGED <<profile, store, heard, wire>>

\* shared_inbox_target: the actor a shared request is for.  An Accept is for
\* the actor whose pending Follow it names, and that row travels on with it.
shared_inbox_target(act) ==
  LET pending == load_pending_follow(outbound, act.follow.id)
      Target(local, row) == [local |-> local, pending |-> row]
  IN  CASE act.object = "malformed" \/ act.type = "Other" -> None
        [] act.type = "Accept" ->
             IF pending = None THEN None ELSE Target(pending.local, pending)
        [] act.type = "Undo" /\ act.object = "link" -> None
        [] OTHER -> Target(act.follow.object, None)

\* POST /inbox.  A request for nobody here is answered at once.
ReceiveShared(t, q) ==
  LET target == shared_inbox_target(q.act)
  IN  /\ task[t].pc = "idle"
      /\ q.inbox = Shared
      /\ target # None
      /\ target.local \in SharedInboxActors
      /\ task' = [task EXCEPT ![t] =
                    [Idle EXCEPT !.pc = "authenticate", !.job = q,
                                 !.local = target.local,
                                 !.pending = target.pending]]
      /\ UNCHANGED <<profile, store, heard, wire>>

\* Any valid signature is taken, whoever made it.
verify_signed_request_AnyOwner(q) == q.signer # None

\* verify_signed_request: the key that verifies the signature belongs to the
\* actor the body names.
verify_signed_request(q) == q.signer = q.act.actor

\* The actor document the handler goes on with: the one fetched to verify the
\* signature, or without signatures the one resolve_actor_reference returns.
authenticated_actor(q) ==
  IF RequireSigned \/ q.act.ver = Linked
    THEN Published(q.act.actor)
    ELSE [id |-> q.act.actor, ver |-> q.act.ver]

Authenticate(t) ==
  LET q == task[t].job
  IN  /\ task[t].pc = "authenticate"
      /\ RequireSigned => verify_signed_request(q)
      /\ task' = [task EXCEPT ![t].pc = "dispatch",
                              ![t].remote = authenticated_actor(q)]
      /\ heard' = heard \cup {q}
      /\ UNCHANGED <<profile, store, wire>>

\* The pending Follow an Accept is matched with: the one the shared inbox
\* loaded when the request arrived, or else the one stored now.
pending_for(t) ==
  IF task[t].pending # None
    THEN task[t].pending
    ELSE load_pending_follow(outbound, task[t].job.act.follow.id)

\* The Accept branch of receive_activity, up to the decision of the core.
MatchAccept(t) ==
  LET act == task[t].job.act
      pending == pending_for(t)
  IN  /\ task[t].pc = "dispatch"
      /\ act.type = "Accept"
      /\ act.object \in {"link", "Follow"}
      /\ pending # None
      /\ receive_accept_follow(task[t].local, task[t].remote, pending, act)
      /\ task' = [task EXCEPT ![t].pc = "confirm", ![t].pending = pending]
      /\ UNCHANGED <<profile, store, heard, wire>>

\* The rest of it.  The answer is 202 whether or not a row was confirmed.
ConfirmPending(t) ==
  /\ task[t].pc = "confirm"
  /\ outbound' = confirm_pending_follow(outbound, task[t].pending)
  /\ task' = [task EXCEPT ![t] = Idle]
  /\ UNCHANGED <<profile, followers, heard, wire>>

\* The Undo branch of receive_activity.
RemoveFollower(t) ==
  LET act == task[t].job.act
  IN  /\ task[t].pc = "dispatch"
      /\ act.type = "Undo"
      /\ receive_undo_follow(task[t].local, task[t].remote, act)
      /\ followers' = remove_follower(followers, task[t].remote.id, task[t].local)
      /\ task' = [task EXCEPT ![t] = Idle]
      /\ UNCHANGED <<profile, outbound, heard, wire>>

\* The object of the Follow is not compared with the actor the inbox belongs to.
StoreFollower_AnyObject(t) ==
  LET act == task[t].job.act
  IN  /\ task[t].pc = "dispatch"
      /\ act.type = "Follow"
      /\ act.object # "malformed"
      /\ followers' = store_follower(followers, task[t].remote, task[t].local)
      /\ task' = [task EXCEPT ![t].pc = "sendAccept"]
      /\ UNCHANGED <<profile, outbound, heard, wire>>

\* The Accept is sent without the follower being stored, to be stored later.
StoreFollower_AfterSend(t) ==
  LET act == task[t].job.act
  IN  /\ task[t].pc = "dispatch"
      /\ act.type = "Follow"
      /\ act.object # "malformed"
      /\ receive_follow(task[t].local, task[t].remote, act)
      /\ task' = [task EXCEPT ![t].pc = "sendAccept"]
      /\ UNCHANGED <<profile, store, heard, wire>>

\* A Follow of someone who follows already ends without an answer.
StoreFollower_Once(t) ==
  LET job == task[t].job
      known == \E row \in followers : SameFollower(row, job.act.actor, task[t].local)
  IN  /\ task[t].pc = "dispatch"
      /\ job.act.type = "Follow"
      /\ job.act.object # "malformed"
      /\ receive_follow(task[t].local, task[t].remote, job.act)
      /\ followers' = store_follower(followers, task[t].remote, task[t].local)
      /\ task' = IF known THEN [task EXCEPT ![t] = Idle]
                          ELSE [task EXCEPT ![t].pc = "sendAccept"]
      /\ UNCHANGED <<profile, outbound, heard, wire>>

\* The Follow branch of receive_activity, up to the stored follower.
StoreFollower(t) ==
  LET act == task[t].job.act
  IN  /\ task[t].pc = "dispatch"
      /\ act.type = "Follow"
      /\ act.object # "malformed"
      /\ receive_follow(task[t].local, task[t].remote, act)
      /\ followers' = store_follower(followers, task[t].remote, task[t].local)
      /\ task' = [task EXCEPT ![t].pc = "sendAccept"]
      /\ UNCHANGED <<profile, outbound, heard, wire>>

\* Signed and posted, the activity is with the remote server, also when the
\* response is an error, is late or never comes.
send_activity(m) == wire' = wire \cup {m}

\* The rest of it: load the key, post the Accept.  The wait for the response
\* only decides the status of the answer.
SendAccept(t) ==
  /\ task[t].pc = "sendAccept"
  /\ task[t].local \in Keyed
  /\ send_activity(follow_accept(task[t].local, task[t].remote, task[t].job.act))
  /\ task' = [task EXCEPT ![t] = Idle]
  /\ UNCHANGED <<profile, store, heard>>

------------------------------------------------------------------------------
(* follow_actor *)

BeginFollow(t, i) ==
  /\ task[t].pc = "idle"
  /\ task' = [task EXCEPT ![t] =
                [Idle EXCEPT !.pc = "resolve", !.job = i, !.local = i.local]]
  /\ UNCHANGED <<profile, store, heard, wire>>

\* The Follow is delivered before it is recorded.
ResolveTarget_SendFirst(t) ==
  /\ task[t].pc = "resolve"
  /\ task' = [task EXCEPT ![t].pc = "sendFollow",
                          ![t].remote = Published(task[t].job.remote)]
  /\ UNCHANGED <<profile, store, heard, wire>>

ResolveTarget(t) ==
  /\ task[t].pc = "resolve"
  /\ task' = [task EXCEPT ![t].pc = "storePending",
                          ![t].remote = Published(task[t].job.remote)]
  /\ UNCHANGED <<profile, store, heard, wire>>

outcome(t) == create_follow(task[t].local, task[t].remote, task[t].job.follow)

StorePending(t) ==
  /\ task[t].pc = "storePending"
  /\ outbound' = store_pending_follow(outbound, outcome(t).relationship)
  /\ task' = [task EXCEPT ![t].pc = "sendFollow"]
  /\ UNCHANGED <<profile, followers, heard, wire>>

SendFollow(t) ==
  /\ task[t].pc = "sendFollow"
  /\ task[t].local \in Keyed
  /\ send_activity(outcome(t).activity)
  /\ task' = [task EXCEPT ![t] = Idle]
  /\ UNCHANGED <<profile, store, heard>>

------------------------------------------------------------------------------
(* What may befall a task, and the world around the server *)

\* A task ends without further effect: a branch that answers 202 and does
\* nothing, an error of the core, the resolver, the store or the sender, a
\* client that hangs up and so drops the handler's future.
End(t) ==
  /\ task[t].pc # "idle"
  /\ task' = [task EXCEPT ![t] = Idle]
  /\ UNCHANGED <<profile, store, heard, wire>>

\* The process stops and is started again on the same database file.
Crash ==
  /\ \E t \in Tasks : task[t].pc # "idle"
  /\ task' = [t \in Tasks |-> Idle]
  /\ UNCHANGED <<profile, store, heard, wire>>

\* A remote actor's document changes: new keys, another inbox.
Republish(r) ==
  /\ \E v \in Versions \ {profile[r]} : profile' = [profile EXCEPT ![r] = v]
  /\ UNCHANGED <<store, task, heard, wire>>

Arrive(t) ==
  \/ \E q \in Requests : ReceivePersonal(t, q) \/ ReceiveShared(t, q)
  \/ \E i \in Intents : BeginFollow(t, i)

Step(t) ==
  \/ Authenticate(t)
  \/ MatchAccept(t)
  \/ ConfirmPending(t)
  \/ RemoveFollower(t)
  \/ StoreFollower(t)
  \/ SendAccept(t)
  \/ ResolveTarget(t)
  \/ StorePending(t)
  \/ SendFollow(t)

Next ==
  \/ \E t \in Tasks : Arrive(t) \/ Step(t) \/ End(t)
  \/ Crash
  \/ \E r \in Remotes : Republish(r)

Spec == Init /\ [][Next]_vars

(***************************************************************************)
(* Every wait of a task is bounded by the client's REQUEST_TIMEOUT, so     *)
(* that no task stays where it is.  A sender that repeats a request finds  *)
(* a free slot again and again, and no stage of its handling fails for     *)
(* ever: a lookup, a storage call or a delivery tried without end succeeds *)
(* without end.  Nothing is assumed of follow_actor, of crashes, or of     *)
(* other requests.                                                         *)
(***************************************************************************)
Handling(q) ==
  /\ SF_vars(\E t \in Tasks : ReceivePersonal(t, q) \/ ReceiveShared(t, q))
  /\ SF_vars(\E t \in Tasks : task[t].job = q /\ Authenticate(t))
  /\ SF_vars(\E t \in Tasks : task[t].job = q /\ (MatchAccept(t) \/ StoreFollower(t)))
  /\ SF_vars(\E t \in Tasks : task[t].job = q /\ (ConfirmPending(t) \/ SendAccept(t)))

FairSpec ==
  /\ Spec
  /\ \A t \in Tasks : WF_vars(Step(t) \/ End(t))
  /\ \A q \in Persistent : Handling(q)

------------------------------------------------------------------------------
(* Properties *)

TypeOK ==
  /\ profile \in [Remotes -> Versions]
  /\ followers \subseteq FollowerRows
  /\ outbound \in [FollowIds -> OutboundRows \cup {NoRow}]
  /\ task \in [Tasks -> TaskStates]
  /\ heard \subseteq Requests
  /\ wire \subseteq Deliveries

\* A request reaches a local actor through its own inbox or the shared one.
Reaches(q, local) == q.inbox = local \/ (q.inbox = Shared /\ local \in SharedInboxActors)

\* Under RequireSigned, the actor the body names signed it.
Genuine(q) == RequireSigned => q.signer = q.act.actor

\* The request is the consent of the row's remote actor to that very Follow.
Consents(q, f) ==
  /\ q.act.type = "Accept"
  /\ q.act.object \in {"link", "Follow"}
  /\ Genuine(q)
  /\ q.act.follow.id = f
  /\ q.act.actor = outbound[f].remote.id
  /\ Reaches(q, outbound[f].local)
  /\ q.act.object = "Follow" =>
       /\ q.act.follow.actor = outbound[f].local
       /\ q.act.follow.object = outbound[f].remote.id

\* No relationship is established behind the back of its remote actor: to each
\* accepted row there was an authentic Accept of that Follow, by the actor the
\* row names, at an inbox of the actor that follows - although the row may have
\* been overwritten by retries of follow_actor while the Accept was looked up,
\* authenticated and matched (receive_activity, confirm_pending_follow).
ConsentBacksAccepted ==
  \A f \in FollowIds :
    outbound[f].state = "accepted" => \E q \in heard : Consents(q, f)

\* Whoever calls follow_actor with this id follows one and the same actor.
OneTarget(f) ==
  \A i, j \in Intents : i.follow = f /\ j.follow = f =>
    i.local = j.local /\ i.remote = j.remote

\* A Follow never leaves the server unrecorded, so that its Accept can always be
\* matched: whatever crashed or failed since, a Follow on the wire has its row
\* (the pending relationship is persisted before delivery, follow_actor), and
\* that row is its own unless the application used its id for another target.
SentFollowIsRecorded ==
  \A m \in wire : m.type = "Follow" =>
    /\ outbound[m.follow] # NoRow
    /\ OneTarget(m.follow) =>
         outbound[m.follow].local = m.from /\ outbound[m.follow].remote.id = m.to

\* The authentic activity of that type by an actor about a Follow of a local one.
Heard(type, actor, local) ==
  \E q \in heard :
    /\ q.act.type = type
    /\ q.act.actor = actor
    /\ q.act.follow.actor = actor
    /\ q.act.follow.object = local
    /\ type = "Undo" => q.act.object = "Follow"
    /\ Reaches(q, local)
    /\ Genuine(q)

\* Nobody becomes a follower, and so a recipient of followers-only notes,
\* unless it asked the very actor it follows (receive_follow, store_follower).
FollowerAsked ==
  \A row \in followers : Heard("Follow", row.follower, row.following)

\* A remote server that was told its Follow is accepted is on the followers list
\* for good, whatever other followers do, unless it has itself sent an Undo.
AcceptedFollowerIsStored ==
  \A m \in wire : m.type = "Accept" =>
    \/ \E row \in followers : SameFollower(row, m.to, m.from)
    \/ Heard("Undo", m.to, m.from)

\* The handlers, cut wherever they can be interleaved, repeated or crash, keep
\* the promise of FollowRelationships: a stale read is never written back, and
\* an established relationship is final.
Relationships ==
  INSTANCE FollowRelationships WITH
    relation <- outbound,
    consents <- {<<q.act.follow.id, q.act.actor>> : q \in {r \in heard : r.act.type = "Accept"}}

ImplementsRelationships == Relationships!Spec

\* The authentic request reached the local actor whose Follow it is about.
Addressed(q) ==
  /\ q.act.follow.object \in Locals
  /\ Reaches(q, q.act.follow.object)
  /\ Genuine(q)

\* The handlers keep the promise of FollowerList too.  However Follows and Undos
\* are interleaved, repeated, misdirected and cut off by crashes, each change of
\* the followers table and each Accept goes back to an authentic request of that
\* very follower, the Accept names a Follow it has sent, and none is sent before
\* the follower is stored (the Follow and Undo branches of receive_activity).
Followers ==
  INSTANCE FollowerList WITH
    asked <- {<<q.act.follow.id, q.act.actor, q.act.follow.object>> :
                q \in {r \in heard : r.act.type = "Follow" /\ Addressed(r)}},
    undone <- {<<q.act.actor, q.act.follow.object>> :
                 q \in {r \in heard : /\ r.act.type = "Undo" /\ r.act.object = "Follow"
                                      /\ r.act.follow.actor = r.act.actor
                                      /\ Addressed(r)}},
    listed <- {<<row.follower, row.following>> : row \in followers},
    answered <- {<<m.follow, m.to, m.from>> : m \in {n \in wire : n.type = "Accept"}}

ImplementsFollowerList == Followers!Spec

\* A remote actor that keeps sending its Accept gets the Follow confirmed, once
\* the application has stopped retrying it, however many attempts were lost to a
\* crash, a timeout, a new document of the actor or a retry that overtook them.
PersistentAcceptConfirms ==
  <>[](\A t \in Tasks : task[t].pc # "storePending") =>
    \A q \in Persistent :
      LET f == q.act.follow.id
      IN  [](outbound[f].state = "pending" /\ Consents(q, f)
               => <>(outbound[f].state = "accepted"))

\* What the inbox tests say of a valid Accept: answered with 202, its Follow is
\* no longer pending but confirmed (assert_valid_accept_is_confirmed).
AcknowledgedAcceptIsConfirmed ==
  [][\A t \in Tasks : ConfirmPending(t) =>
       outbound'[task[t].pending.follow].state = "accepted"]_vars
==============================================================================
