--------------------------- MODULE FederationProofs ---------------------------
(***************************************************************************)
(* Proofs about Federation.  Each server is a FederServer whatever the     *)
(* other does, so that all that FederServerProofs proves of one holds of   *)
(* both; what remains is to follow a message from one to the other.        *)
(***************************************************************************)
EXTENDS Federation, TLAPS

AP == INSTANCE FederServerProofs WITH
  Locals <- ActorsA, Remotes <- ActorsB, Tasks <- HandlersA \cup CallersA, Requests <- RequestsA,
  Intents <- IntentsA, SharedInboxActors <- SharedA, Keyed <- KeyedA,
  RequireSigned <- TRUE, Persistent <- {},
  profile <- profileA, followers <- followersA, outbound <- outboundA,
  task <- taskA, heard <- heardA, wire <- wireA

BP == INSTANCE FederServerProofs WITH
  Locals <- ActorsB, Remotes <- ActorsA, Tasks <- HandlersB \cup CallersB, Requests <- RequestsB,
  Intents <- IntentsB, SharedInboxActors <- SharedB, Keyed <- KeyedB,
  RequireSigned <- TRUE, Persistent <- {},
  profile <- profileB, followers <- followersB, outbound <- outboundB,
  task <- taskB, heard <- heardB, wire <- wireB

------------------------------------------------------------------------------
(* Server A is a FederServer *)

\* The assumptions of FederServer hold of server A.
LEMMA InputsA ==
  /\ RequestsA \subseteq AP!InboxRequests
  /\ IntentsA \subseteq AP!FollowIntents
  /\ {} \subseteq RequestsA
  /\ SharedA \subseteq ActorsA
  /\ TRUE \in BOOLEAN
BY FederationInputs
   DEF A!InboxRequests, AP!InboxRequests, A!FollowIntents, AP!FollowIntents, A!Activities,
       AP!Activities, A!FollowActivities, AP!FollowActivities

\* No name of server A is mistaken for another.
LEMMA NamesA ==
  /\ Linked \notin Versions
  /\ None \notin ActorsA \cup ActorsB \cup Versions
  /\ None \notin [local  : ActorsA,
                  remote : [id : ActorsB, ver : Versions],
                  follow : FollowIds]
  /\ Shared \notin ActorsA
BY FederationNames DEF A!PendingFollows, A!ActorDocs

\* It starts as FederServer does.
LEMMA InitOfA == A!Init => AP!IInv
<1>1. A!Init => AP!Init
  BY DEF A!Init, AP!Init, A!NoRow, AP!NoRow, A!Idle, AP!Idle
<1>2. AP!Init => AP!IInv
  BY AP!InitInv, InputsA, NamesA
<1> QED BY <1>1, <1>2

\* A request to server A is a step of FederServer.
LEMMA ReceiveOfA ==
  ASSUME NEW t \in HandlersA, NEW q \in RequestsA, ReceiveA(t, q)
  PROVE  AP!Next
<1>1. CASE A!ReceivePersonal(t, q)
  <2>1. AP!ReceivePersonal(t, q)
    BY <1>1 DEF A!ReceivePersonal, AP!ReceivePersonal, A!Idle, AP!Idle, A!store, AP!store
  <2> QED BY <2>1 DEF AP!Next, AP!Arrive
<1>2. CASE A!ReceiveShared(t, q)
  <2>1. AP!ReceiveShared(t, q)
    BY <1>2 DEF A!ReceiveShared, AP!ReceiveShared, A!Idle, AP!Idle, A!store, AP!store,
       A!shared_inbox_target, AP!shared_inbox_target, A!load_pending_follow,
       AP!load_pending_follow
  <2> QED BY <2>1 DEF AP!Next, AP!Arrive
<1> QED BY <1>1, <1>2 DEF ReceiveA

\* A call of follow_actor is one.
LEMMA BeginOfA ==
  ASSUME NEW t \in CallersA, NEW i \in IntentsA, BeginFollowA(t, i)
  PROVE  AP!Next
<1>1. AP!BeginFollow(t, i)
  BY DEF BeginFollowA, A!BeginFollow, AP!BeginFollow, A!Idle, AP!Idle, A!store, AP!store
<1> QED BY <1>1 DEF AP!Next, AP!Arrive

\* What a task does between two posts is a step of that task.
LEMMA WorkOfA ==
  ASSUME NEW t \in HandlersA \cup CallersA, WorkA(t)
  PROVE  AP!Step(t)
<1> USE DEF A!store, AP!store, A!Idle, AP!Idle
<1>1. CASE A!Authenticate(t)
  <2>1. AP!Authenticate(t)
    BY <1>1 DEF A!Authenticate, AP!Authenticate, A!verify_signed_request,
       AP!verify_signed_request, A!authenticated_actor, AP!authenticated_actor,
       A!Published, AP!Published
  <2> QED BY <2>1 DEF AP!Step
<1>2. CASE A!MatchAccept(t)
  <2>1. AP!MatchAccept(t)
    BY <1>2 DEF A!MatchAccept, AP!MatchAccept, A!pending_for, AP!pending_for,
       A!load_pending_follow, AP!load_pending_follow, A!receive_accept_follow,
       AP!receive_accept_follow
  <2> QED BY <2>1 DEF AP!Step
<1>3. CASE A!ConfirmPending(t)
  <2>1. AP!ConfirmPending(t)
    BY <1>3 DEF A!ConfirmPending, AP!ConfirmPending, A!confirm_pending_follow,
       AP!confirm_pending_follow, A!load_pending_follow, AP!load_pending_follow
  <2> QED BY <2>1 DEF AP!Step
<1>4. CASE A!RemoveFollower(t)
  <2>1. AP!RemoveFollower(t)
    BY <1>4 DEF A!RemoveFollower, AP!RemoveFollower, A!receive_undo_follow,
       AP!receive_undo_follow, A!remove_follower, AP!remove_follower, A!SameFollower,
       AP!SameFollower
  <2> QED BY <2>1 DEF AP!Step
<1>5. CASE A!StoreFollower(t)
  <2>1. AP!StoreFollower(t)
    BY <1>5 DEF A!StoreFollower, AP!StoreFollower, A!receive_follow, AP!receive_follow,
       A!store_follower, AP!store_follower, A!SameFollower, AP!SameFollower
  <2> QED BY <2>1 DEF AP!Step
<1>6. CASE A!ResolveTarget(t)
  <2>1. AP!ResolveTarget(t)
    BY <1>6 DEF A!ResolveTarget, AP!ResolveTarget, A!Published, AP!Published
  <2> QED BY <2>1 DEF AP!Step
<1>7. CASE A!StorePending(t)
  <2>1. AP!StorePending(t)
    BY <1>7 DEF A!StorePending, AP!StorePending, A!store_pending_follow,
       AP!store_pending_follow, A!outcome, AP!outcome, A!create_follow, AP!create_follow
  <2> QED BY <2>1 DEF AP!Step
<1> QED BY <1>1, <1>2, <1>3, <1>4, <1>5, <1>6, <1>7 DEF WorkA

\* What server A posts is its activity, and on its wire.
LEMMA PostOfA ==
  ASSUME NEW t \in HandlersA \cup CallersA, PostA(t)
  PROVE  AP!Step(t) /\ wireA' = wireA \cup {ActivityA(t)}
<1> USE DEF A!store, AP!store, A!Idle, AP!Idle, A!send_activity, AP!send_activity
<1>1. CASE A!SendAccept(t)
  <2>1. AP!SendAccept(t)
    BY <1>1 DEF A!SendAccept, AP!SendAccept, A!follow_accept, AP!follow_accept
  <2>2. wireA' = wireA \cup {ActivityA(t)}
    BY <1>1 DEF A!SendAccept, ActivityA
  <2> QED BY <2>1, <2>2 DEF AP!Step
<1>2. CASE A!SendFollow(t)
  <2>1. AP!SendFollow(t)
    BY <1>2 DEF A!SendFollow, AP!SendFollow, A!outcome, AP!outcome, A!create_follow,
       AP!create_follow
  <2>2. wireA' = wireA \cup {ActivityA(t)}
    BY <1>2 DEF A!SendFollow, ActivityA
  <2> QED BY <2>1, <2>2 DEF AP!Step
<1> QED BY <1>1, <1>2 DEF PostA

\* The end of a task is a step of FederServer.
LEMMA EndOfA ==
  ASSUME NEW t \in HandlersA \cup CallersA, EndA(t)
  PROVE  AP!Next
<1>1. AP!End(t)
  BY DEF EndA, A!End, AP!End, A!Idle, AP!Idle, A!store, AP!store
<1> QED BY <1>1 DEF AP!Next

\* Crashes and new documents are, too.
LEMMA WorldOfA ==
  ASSUME WorldA
  PROVE  AP!Next
<1>1. CASE A!Crash
  BY <1>1 DEF AP!Next, A!Crash, AP!Crash, A!Idle, AP!Idle, A!store, AP!store
<1>2. ASSUME NEW r \in ActorsB, A!Republish(r) PROVE AP!Next
  <2>1. AP!Republish(r)
    BY <1>2 DEF A!Republish, AP!Republish, A!store, AP!store
  <2> QED BY <2>1 DEF AP!Next
<1> QED BY <1>1, <1>2 DEF WorldA

\* Each step of the federation is a step of server A, or none.
LEMMA StepOfA == [Next]_vars => [AP!Next]_(AP!vars)
<1> SUFFICES ASSUME [Next]_vars PROVE [AP!Next]_(AP!vars)
  OBVIOUS
<1> USE DEF varsA, varsB, OnlyA, OnlyB
<1>1. CASE UNCHANGED varsA
  BY <1>1 DEF AP!vars, AP!store
<1>2. ASSUME NextB PROVE UNCHANGED varsA
  BY <1>2 DEF NextB, ReceiveB, BeginFollowB, WorkB, PostB, EndB, WorldB
<1>3. CASE NextA
  <2>1. ASSUME NEW t \in HandlersA \cup CallersA, AP!Step(t) PROVE AP!Next
    BY <2>1 DEF AP!Next
  <2> QED BY <1>3, <2>1, ReceiveOfA, BeginOfA, WorkOfA, PostOfA, EndOfA, WorldOfA DEF NextA
<1> QED BY <1>1, <1>2, <1>3 DEF Next, Lose, vars

\* So it keeps the invariant of FederServer.
LEMMA KeptByA == AP!IInv /\ [Next]_vars => AP!IInv'
<1>1. AP!IInv /\ [AP!Next]_(AP!vars) => AP!IInv'
  BY AP!NextInv, InputsA, NamesA
<1> QED BY <1>1, StepOfA

------------------------------------------------------------------------------
(* Server B is a FederServer *)

\* The assumptions of FederServer hold of server B.
LEMMA InputsB ==
  /\ RequestsB \subseteq BP!InboxRequests
  /\ IntentsB \subseteq BP!FollowIntents
  /\ {} \subseteq RequestsB
  /\ SharedB \subseteq ActorsB
  /\ TRUE \in BOOLEAN
BY FederationInputs
   DEF B!InboxRequests, BP!InboxRequests, B!FollowIntents, BP!FollowIntents, B!Activities,
       BP!Activities, B!FollowActivities, BP!FollowActivities

\* No name of server B is mistaken for another.
LEMMA NamesB ==
  /\ Linked \notin Versions
  /\ None \notin ActorsB \cup ActorsA \cup Versions
  /\ None \notin [local  : ActorsB,
                  remote : [id : ActorsA, ver : Versions],
                  follow : FollowIds]
  /\ Shared \notin ActorsB
BY FederationNames DEF B!PendingFollows, B!ActorDocs

\* It starts as FederServer does.
LEMMA InitOfB == B!Init => BP!IInv
<1>1. B!Init => BP!Init
  BY DEF B!Init, BP!Init, B!NoRow, BP!NoRow, B!Idle, BP!Idle
<1>2. BP!Init => BP!IInv
  BY BP!InitInv, InputsB, NamesB
<1> QED BY <1>1, <1>2

\* A request to server B is a step of FederServer.
LEMMA ReceiveOfB ==
  ASSUME NEW t \in HandlersB, NEW q \in RequestsB, ReceiveB(t, q)
  PROVE  BP!Next
<1>1. CASE B!ReceivePersonal(t, q)
  <2>1. BP!ReceivePersonal(t, q)
    BY <1>1 DEF B!ReceivePersonal, BP!ReceivePersonal, B!Idle, BP!Idle, B!store, BP!store
  <2> QED BY <2>1 DEF BP!Next, BP!Arrive
<1>2. CASE B!ReceiveShared(t, q)
  <2>1. BP!ReceiveShared(t, q)
    BY <1>2 DEF B!ReceiveShared, BP!ReceiveShared, B!Idle, BP!Idle, B!store, BP!store,
       B!shared_inbox_target, BP!shared_inbox_target, B!load_pending_follow,
       BP!load_pending_follow
  <2> QED BY <2>1 DEF BP!Next, BP!Arrive
<1> QED BY <1>1, <1>2 DEF ReceiveB

\* A call of follow_actor is one.
LEMMA BeginOfB ==
  ASSUME NEW t \in CallersB, NEW i \in IntentsB, BeginFollowB(t, i)
  PROVE  BP!Next
<1>1. BP!BeginFollow(t, i)
  BY DEF BeginFollowB, B!BeginFollow, BP!BeginFollow, B!Idle, BP!Idle, B!store, BP!store
<1> QED BY <1>1 DEF BP!Next, BP!Arrive

\* What a task does between two posts is a step of that task.
LEMMA WorkOfB ==
  ASSUME NEW t \in HandlersB \cup CallersB, WorkB(t)
  PROVE  BP!Step(t)
<1> USE DEF B!store, BP!store, B!Idle, BP!Idle
<1>1. CASE B!Authenticate(t)
  <2>1. BP!Authenticate(t)
    BY <1>1 DEF B!Authenticate, BP!Authenticate, B!verify_signed_request,
       BP!verify_signed_request, B!authenticated_actor, BP!authenticated_actor,
       B!Published, BP!Published
  <2> QED BY <2>1 DEF BP!Step
<1>2. CASE B!MatchAccept(t)
  <2>1. BP!MatchAccept(t)
    BY <1>2 DEF B!MatchAccept, BP!MatchAccept, B!pending_for, BP!pending_for,
       B!load_pending_follow, BP!load_pending_follow, B!receive_accept_follow,
       BP!receive_accept_follow
  <2> QED BY <2>1 DEF BP!Step
<1>3. CASE B!ConfirmPending(t)
  <2>1. BP!ConfirmPending(t)
    BY <1>3 DEF B!ConfirmPending, BP!ConfirmPending, B!confirm_pending_follow,
       BP!confirm_pending_follow, B!load_pending_follow, BP!load_pending_follow
  <2> QED BY <2>1 DEF BP!Step
<1>4. CASE B!RemoveFollower(t)
  <2>1. BP!RemoveFollower(t)
    BY <1>4 DEF B!RemoveFollower, BP!RemoveFollower, B!receive_undo_follow,
       BP!receive_undo_follow, B!remove_follower, BP!remove_follower, B!SameFollower,
       BP!SameFollower
  <2> QED BY <2>1 DEF BP!Step
<1>5. CASE B!StoreFollower(t)
  <2>1. BP!StoreFollower(t)
    BY <1>5 DEF B!StoreFollower, BP!StoreFollower, B!receive_follow, BP!receive_follow,
       B!store_follower, BP!store_follower, B!SameFollower, BP!SameFollower
  <2> QED BY <2>1 DEF BP!Step
<1>6. CASE B!ResolveTarget(t)
  <2>1. BP!ResolveTarget(t)
    BY <1>6 DEF B!ResolveTarget, BP!ResolveTarget, B!Published, BP!Published
  <2> QED BY <2>1 DEF BP!Step
<1>7. CASE B!StorePending(t)
  <2>1. BP!StorePending(t)
    BY <1>7 DEF B!StorePending, BP!StorePending, B!store_pending_follow,
       BP!store_pending_follow, B!outcome, BP!outcome, B!create_follow, BP!create_follow
  <2> QED BY <2>1 DEF BP!Step
<1> QED BY <1>1, <1>2, <1>3, <1>4, <1>5, <1>6, <1>7 DEF WorkB

\* What server B posts is its activity, and on its wire.
LEMMA PostOfB ==
  ASSUME NEW t \in HandlersB \cup CallersB, PostB(t)
  PROVE  BP!Step(t) /\ wireB' = wireB \cup {ActivityB(t)}
<1> USE DEF B!store, BP!store, B!Idle, BP!Idle, B!send_activity, BP!send_activity
<1>1. CASE B!SendAccept(t)
  <2>1. BP!SendAccept(t)
    BY <1>1 DEF B!SendAccept, BP!SendAccept, B!follow_accept, BP!follow_accept
  <2>2. wireB' = wireB \cup {ActivityB(t)}
    BY <1>1 DEF B!SendAccept, ActivityB
  <2> QED BY <2>1, <2>2 DEF BP!Step
<1>2. CASE B!SendFollow(t)
  <2>1. BP!SendFollow(t)
    BY <1>2 DEF B!SendFollow, BP!SendFollow, B!outcome, BP!outcome, B!create_follow,
       BP!create_follow
  <2>2. wireB' = wireB \cup {ActivityB(t)}
    BY <1>2 DEF B!SendFollow, ActivityB
  <2> QED BY <2>1, <2>2 DEF BP!Step
<1> QED BY <1>1, <1>2 DEF PostB

\* The end of a task is a step of FederServer.
LEMMA EndOfB ==
  ASSUME NEW t \in HandlersB \cup CallersB, EndB(t)
  PROVE  BP!Next
<1>1. BP!End(t)
  BY DEF EndB, B!End, BP!End, B!Idle, BP!Idle, B!store, BP!store
<1> QED BY <1>1 DEF BP!Next

\* Crashes and new documents are, too.
LEMMA WorldOfB ==
  ASSUME WorldB
  PROVE  BP!Next
<1>1. CASE B!Crash
  BY <1>1 DEF BP!Next, B!Crash, BP!Crash, B!Idle, BP!Idle, B!store, BP!store
<1>2. ASSUME NEW r \in ActorsA, B!Republish(r) PROVE BP!Next
  <2>1. BP!Republish(r)
    BY <1>2 DEF B!Republish, BP!Republish, B!store, BP!store
  <2> QED BY <2>1 DEF BP!Next
<1> QED BY <1>1, <1>2 DEF WorldB

\* Each step of the federation is a step of server B, or none.
LEMMA StepOfB == [Next]_vars => [BP!Next]_(BP!vars)
<1> SUFFICES ASSUME [Next]_vars PROVE [BP!Next]_(BP!vars)
  OBVIOUS
<1> USE DEF varsA, varsB, OnlyA, OnlyB
<1>1. CASE UNCHANGED varsB
  BY <1>1 DEF BP!vars, BP!store
<1>2. ASSUME NextA PROVE UNCHANGED varsB
  BY <1>2 DEF NextA, ReceiveA, BeginFollowA, WorkA, PostA, EndA, WorldA
<1>3. CASE NextB
  <2>1. ASSUME NEW t \in HandlersB \cup CallersB, BP!Step(t) PROVE BP!Next
    BY <2>1 DEF BP!Next
  <2> QED BY <1>3, <2>1, ReceiveOfB, BeginOfB, WorkOfB, PostOfB, EndOfB, WorldOfB DEF NextB
<1> QED BY <1>1, <1>2, <1>3 DEF Next, Lose, vars

\* So it keeps the invariant of FederServer.
LEMMA KeptByB == BP!IInv /\ [Next]_vars => BP!IInv'
<1>1. BP!IInv /\ [BP!Next]_(BP!vars) => BP!IInv'
  BY BP!NextInv, InputsB, NamesB
<1> QED BY <1>1, StepOfB

------------------------------------------------------------------------------
(* What server A hears was posted by server B *)

\* The request is what a delivery of server B became.
PostedToA(q) == \E m \in wireB : q = request(m)

DeliveredA ==
  /\ \A t \in HandlersA \cup CallersA :
       taskA[t].pc = "authenticate" /\ taskA[t].job.signer = taskA[t].job.act.actor
         => PostedToA(taskA[t].job)
  /\ \A q \in heardA : q.signer = q.act.actor => PostedToA(q)

\* Nothing posted is ever unposted.
LEMMA WireGrowsB == [Next]_vars => wireB \subseteq wireB'
<1> USE DEF varsA, varsB, OnlyA, OnlyB
<1>1. ASSUME NEW t \in HandlersB \cup CallersB, PostB(t) PROVE wireB \subseteq wireB'
  BY <1>1, PostOfB
<1>2. ASSUME NEW t \in HandlersB \cup CallersB, WorkB(t) PROVE wireB' = wireB
  BY <1>2 DEF WorkB, B!Authenticate, B!MatchAccept, B!ConfirmPending, B!RemoveFollower,
     B!StoreFollower, B!ResolveTarget, B!StorePending
<1>3. CASE NextB
  BY <1>1, <1>2, <1>3 DEF NextB, ReceiveB, BeginFollowB, EndB, WorldB, B!ReceivePersonal,
     B!ReceiveShared, B!BeginFollow, B!End, B!Crash, B!Republish
<1>4. CASE NextA
  BY <1>4 DEF NextA, ReceiveA, BeginFollowA, WorkA, PostA, EndA, WorldA
<1> QED BY <1>3, <1>4 DEF Next, Lose, vars

\* What arrives with the signature of its actor was posted by server B.
LEMMA ArrivalA ==
  ASSUME AP!IInv, mail \subseteq wireA \cup wireB, NEW q \in RequestsA, MayArrive(q),
         q.signer = q.act.actor
  PROVE  PostedToA(q)
<1>1. PICK m \in mail : q = request(m)
  BY DEF MayArrive
<1>2. q.act.actor \in ActorsB
  BY AP!RequestParts, InputsA, NamesA
<1>3. m.from \in ActorsB
  BY <1>1, <1>2 DEF request
<1>4. m \notin wireA
  BY <1>3, FederationNames DEF AP!IInv, AP!TypeOK, AP!Deliveries
<1> QED BY <1>1, <1>4 DEF PostedToA

\* So every step keeps DeliveredA: a request is looked at once more before it is heard.
LEMMA DeliveryA ==
  AP!IInv /\ mail \subseteq wireA \cup wireB /\ DeliveredA /\ [Next]_vars => DeliveredA'
<1> SUFFICES ASSUME AP!IInv, mail \subseteq wireA \cup wireB, DeliveredA, [Next]_vars
             PROVE  DeliveredA'
  OBVIOUS
<1> USE DEF varsA, varsB, OnlyA, OnlyB
<1>1. taskA \in [HandlersA \cup CallersA -> AP!TaskStates]
  BY DEF AP!IInv, AP!TypeOK
<1>2. ASSUME NEW t \in HandlersA \cup CallersA,
             \A s \in (HandlersA \cup CallersA) \ {t} : taskA'[s] = taskA[s],
             taskA'[t].pc # "authenticate" \/ PostedToA(taskA'[t].job),
             \A q \in heardA' \ heardA : PostedToA(q)
      PROVE  DeliveredA'
  BY <1>2, WireGrowsB DEF DeliveredA, PostedToA
<1>3. CASE UNCHANGED <<taskA, heardA>>
  BY <1>3, WireGrowsB DEF DeliveredA, PostedToA
<1>4. ASSUME NEW t \in HandlersA, NEW q \in RequestsA, ReceiveA(t, q)
      PROVE  DeliveredA'
  <2>1. /\ \A s \in (HandlersA \cup CallersA) \ {t} : taskA'[s] = taskA[s]
        /\ taskA'[t].job = q
    BY <1>1, <1>4 DEF ReceiveA, A!ReceivePersonal, A!ReceiveShared, A!Idle
  <2>2. heardA' = heardA /\ MayArrive(q)
    BY <1>4 DEF ReceiveA, A!ReceivePersonal, A!ReceiveShared
  <2>3. CASE q.signer = q.act.actor
    BY <1>2, <2>1, <2>2, <2>3, ArrivalA
  <2>4. CASE q.signer # q.act.actor
    BY <2>1, <2>2, <2>4, WireGrowsB DEF DeliveredA, PostedToA
  <2> QED BY <2>3, <2>4
<1>5. ASSUME NEW t \in CallersA, NEW i \in IntentsA, BeginFollowA(t, i)
      PROVE  DeliveredA'
  <2>1. /\ \A s \in (HandlersA \cup CallersA) \ {t} : taskA'[s] = taskA[s]
        /\ taskA'[t].pc # "authenticate"
        /\ heardA' = heardA
    BY <1>1, <1>5 DEF BeginFollowA, A!BeginFollow, A!Idle
  <2> QED BY <1>2, <2>1
<1>6. ASSUME NEW t \in HandlersA \cup CallersA, WorkA(t) \/ PostA(t) \/ EndA(t)
      PROVE  DeliveredA'
  <2>1. CASE A!Authenticate(t)
    <3>1. /\ \A s \in (HandlersA \cup CallersA) \ {t} : taskA'[s] = taskA[s]
          /\ taskA'[t].pc # "authenticate"
      BY <1>1, <2>1 DEF A!Authenticate, AP!TaskStates
    <3>2. heardA' = heardA \cup {taskA[t].job} /\ PostedToA(taskA[t].job)
      BY <2>1 DEF A!Authenticate, A!verify_signed_request, DeliveredA
    <3> QED BY <1>2, <3>1, <3>2
  <2>2. CASE ~ A!Authenticate(t)
    <3> USE <1>6, <2>2 DEF WorkA, PostA, EndA, A!MatchAccept, A!ConfirmPending,
          A!RemoveFollower, A!StoreFollower, A!ResolveTarget, A!StorePending,
          A!SendAccept, A!SendFollow, A!End
    <3>1. /\ \A s \in (HandlersA \cup CallersA) \ {t} : taskA'[s] = taskA[s]
          /\ taskA'[t].pc # "authenticate"
      BY <1>1 DEF A!Idle, AP!TaskStates
    <3>2. heardA' = heardA
      OBVIOUS
    <3> QED BY <1>2, <3>1, <3>2
  <2> QED BY <2>1, <2>2
<1>7. CASE WorldA
  <2>1. CASE A!Crash
    <3>1. \A t \in HandlersA \cup CallersA : taskA'[t].pc # "authenticate"
      BY <2>1 DEF A!Crash, A!Idle
    <3>2. heardA' = heardA
      BY <2>1 DEF A!Crash
    <3> QED BY <3>1, <3>2, WireGrowsB DEF DeliveredA, PostedToA
  <2> QED BY <1>3, <1>7, <2>1 DEF WorldA, A!Republish
<1>8. CASE NextA
  BY <1>4, <1>5, <1>6, <1>7, <1>8 DEF NextA
<1>9. CASE NextB
  BY <1>3, <1>9 DEF NextB, ReceiveB, BeginFollowB, WorkB, PostB, EndB, WorldB
<1> QED BY <1>3, <1>8, <1>9 DEF Next, Lose, vars

------------------------------------------------------------------------------
(* What server B hears was posted by server A *)

\* The request is what a delivery of server A became.
PostedToB(q) == \E m \in wireA : q = request(m)

DeliveredB ==
  /\ \A t \in HandlersB \cup CallersB :
       taskB[t].pc = "authenticate" /\ taskB[t].job.signer = taskB[t].job.act.actor
         => PostedToB(taskB[t].job)
  /\ \A q \in heardB : q.signer = q.act.actor => PostedToB(q)

\* Nothing posted is ever unposted.
LEMMA WireGrowsA == [Next]_vars => wireA \subseteq wireA'
<1> USE DEF varsA, varsB, OnlyA, OnlyB
<1>1. ASSUME NEW t \in HandlersA \cup CallersA, PostA(t) PROVE wireA \subseteq wireA'
  BY <1>1, PostOfA
<1>2. ASSUME NEW t \in HandlersA \cup CallersA, WorkA(t) PROVE wireA' = wireA
  BY <1>2 DEF WorkA, A!Authenticate, A!MatchAccept, A!ConfirmPending, A!RemoveFollower,
     A!StoreFollower, A!ResolveTarget, A!StorePending
<1>3. CASE NextA
  BY <1>1, <1>2, <1>3 DEF NextA, ReceiveA, BeginFollowA, EndA, WorldA, A!ReceivePersonal,
     A!ReceiveShared, A!BeginFollow, A!End, A!Crash, A!Republish
<1>4. CASE NextB
  BY <1>4 DEF NextB, ReceiveB, BeginFollowB, WorkB, PostB, EndB, WorldB
<1> QED BY <1>3, <1>4 DEF Next, Lose, vars

\* What arrives with the signature of its actor was posted by server A.
LEMMA ArrivalB ==
  ASSUME BP!IInv, mail \subseteq wireA \cup wireB, NEW q \in RequestsB, MayArrive(q),
         q.signer = q.act.actor
  PROVE  PostedToB(q)
<1>1. PICK m \in mail : q = request(m)
  BY DEF MayArrive
<1>2. q.act.actor \in ActorsA
  BY BP!RequestParts, InputsB, NamesB
<1>3. m.from \in ActorsA
  BY <1>1, <1>2 DEF request
<1>4. m \notin wireB
  BY <1>3, FederationNames DEF BP!IInv, BP!TypeOK, BP!Deliveries
<1> QED BY <1>1, <1>4 DEF PostedToB

\* So every step keeps DeliveredB: a request is looked at once more before it is heard.
LEMMA DeliveryB ==
  BP!IInv /\ mail \subseteq wireA \cup wireB /\ DeliveredB /\ [Next]_vars => DeliveredB'
<1> SUFFICES ASSUME BP!IInv, mail \subseteq wireA \cup wireB, DeliveredB, [Next]_vars
             PROVE  DeliveredB'
  OBVIOUS
<1> USE DEF varsA, varsB, OnlyA, OnlyB
<1>1. taskB \in [HandlersB \cup CallersB -> BP!TaskStates]
  BY DEF BP!IInv, BP!TypeOK
<1>2. ASSUME NEW t \in HandlersB \cup CallersB,
             \A s \in (HandlersB \cup CallersB) \ {t} : taskB'[s] = taskB[s],
             taskB'[t].pc # "authenticate" \/ PostedToB(taskB'[t].job),
             \A q \in heardB' \ heardB : PostedToB(q)
      PROVE  DeliveredB'
  BY <1>2, WireGrowsA DEF DeliveredB, PostedToB
<1>3. CASE UNCHANGED <<taskB, heardB>>
  BY <1>3, WireGrowsA DEF DeliveredB, PostedToB
<1>4. ASSUME NEW t \in HandlersB, NEW q \in RequestsB, ReceiveB(t, q)
      PROVE  DeliveredB'
  <2>1. /\ \A s \in (HandlersB \cup CallersB) \ {t} : taskB'[s] = taskB[s]
        /\ taskB'[t].job = q
    BY <1>1, <1>4 DEF ReceiveB, B!ReceivePersonal, B!ReceiveShared, B!Idle
  <2>2. heardB' = heardB /\ MayArrive(q)
    BY <1>4 DEF ReceiveB, B!ReceivePersonal, B!ReceiveShared
  <2>3. CASE q.signer = q.act.actor
    BY <1>2, <2>1, <2>2, <2>3, ArrivalB
  <2>4. CASE q.signer # q.act.actor
    BY <2>1, <2>2, <2>4, WireGrowsA DEF DeliveredB, PostedToB
  <2> QED BY <2>3, <2>4
<1>5. ASSUME NEW t \in CallersB, NEW i \in IntentsB, BeginFollowB(t, i)
      PROVE  DeliveredB'
  <2>1. /\ \A s \in (HandlersB \cup CallersB) \ {t} : taskB'[s] = taskB[s]
        /\ taskB'[t].pc # "authenticate"
        /\ heardB' = heardB
    BY <1>1, <1>5 DEF BeginFollowB, B!BeginFollow, B!Idle
  <2> QED BY <1>2, <2>1
<1>6. ASSUME NEW t \in HandlersB \cup CallersB, WorkB(t) \/ PostB(t) \/ EndB(t)
      PROVE  DeliveredB'
  <2>1. CASE B!Authenticate(t)
    <3>1. /\ \A s \in (HandlersB \cup CallersB) \ {t} : taskB'[s] = taskB[s]
          /\ taskB'[t].pc # "authenticate"
      BY <1>1, <2>1 DEF B!Authenticate, BP!TaskStates
    <3>2. heardB' = heardB \cup {taskB[t].job} /\ PostedToB(taskB[t].job)
      BY <2>1 DEF B!Authenticate, B!verify_signed_request, DeliveredB
    <3> QED BY <1>2, <3>1, <3>2
  <2>2. CASE ~ B!Authenticate(t)
    <3> USE <1>6, <2>2 DEF WorkB, PostB, EndB, B!MatchAccept, B!ConfirmPending,
          B!RemoveFollower, B!StoreFollower, B!ResolveTarget, B!StorePending,
          B!SendAccept, B!SendFollow, B!End
    <3>1. /\ \A s \in (HandlersB \cup CallersB) \ {t} : taskB'[s] = taskB[s]
          /\ taskB'[t].pc # "authenticate"
      BY <1>1 DEF B!Idle, BP!TaskStates
    <3>2. heardB' = heardB
      OBVIOUS
    <3> QED BY <1>2, <3>1, <3>2
  <2> QED BY <2>1, <2>2
<1>7. CASE WorldB
  <2>1. CASE B!Crash
    <3>1. \A t \in HandlersB \cup CallersB : taskB'[t].pc # "authenticate"
      BY <2>1 DEF B!Crash, B!Idle
    <3>2. heardB' = heardB
      BY <2>1 DEF B!Crash
    <3> QED BY <3>1, <3>2, WireGrowsA DEF DeliveredB, PostedToB
  <2> QED BY <1>3, <1>7, <2>1 DEF WorldB, B!Republish
<1>8. CASE NextB
  BY <1>4, <1>5, <1>6, <1>7, <1>8 DEF NextB
<1>9. CASE NextA
  BY <1>3, <1>9 DEF NextA, ReceiveA, BeginFollowA, WorkA, PostA, EndA, WorldA
<1> QED BY <1>3, <1>8, <1>9 DEF Next, Lose, vars

------------------------------------------------------------------------------
(* From one database to the other *)

\* An accepted Follow of server A is a row of server B.
LEMMA AcceptedA ==
  ASSUME AP!IInv, BP!IInv, DeliveredA, DeliveredB,
         NEW f \in FollowIds, outboundA[f].state = "accepted"
  PROVE  \E row \in followersB : /\ row.follower = outboundA[f].local
                                /\ row.following = outboundA[f].remote.id
<1>1. PICK q \in heardA : AP!Consents(q, f)
  BY DEF AP!IInv, AP!ConsentBacksAccepted
<1>2. PICK m \in wireB : q = request(m)
  BY <1>1 DEF DeliveredA, PostedToA, AP!Consents, AP!Genuine
<1>3. m.type = "Accept" /\ m.from = outboundA[f].remote.id
  BY <1>1, <1>2 DEF request, AP!Consents
<1>4. m.to = outboundA[f].local
  <2>1. m.to \in ActorsA
    BY <1>2 DEF BP!IInv, BP!TypeOK, BP!Deliveries
  <2> QED BY <1>1, <1>2, <2>1, FederationNames DEF request, AP!Consents, AP!Reaches
<1>5. ~ BP!Heard("Undo", m.to, m.from)
  <2>1. ASSUME NEW r \in heardB, r.signer = r.act.actor PROVE r.act.type # "Undo"
    <3>1. PICK n \in wireA : r = request(n)
      BY <2>1 DEF DeliveredB, PostedToB
    <3>2. n.type # "Undo" /\ r.act.type = n.type
      BY <3>1 DEF AP!IInv, AP!TypeOK, AP!Deliveries, request
    <3> QED BY <3>2
  <2> QED BY <2>1 DEF BP!Heard, BP!Genuine
<1> QED BY <1>3, <1>4, <1>5 DEF BP!IInv, BP!AcceptedFollowerIsStored, BP!SameFollower

\* A follower at server A has called follow_actor at server B and left a row.
LEMMA RecordedA ==
  ASSUME AP!IInv, BP!IInv, DeliveredA, NEW row \in followersA
  PROVE  \E i \in IntentsB :
           /\ i.local = row.follower /\ i.remote = row.following
           /\ outboundB[i.follow] # B!NoRow
           /\ B!OneTarget(i.follow) => /\ outboundB[i.follow].local = row.follower
                                      /\ outboundB[i.follow].remote.id = row.following
<1>1. PICK q \in heardA : /\ q.act.type = "Follow"
                         /\ q.act.actor = row.follower
                         /\ q.act.follow.object = row.following
                         /\ q.signer = q.act.actor
  BY DEF AP!IInv, AP!FollowerAsked, AP!Heard, AP!Genuine
<1>2. PICK m \in wireB : q = request(m)
  BY <1>1 DEF DeliveredA, PostedToA
<1>3. m.type = "Follow" /\ m.from = row.follower /\ m.to = row.following
  BY <1>1, <1>2 DEF request
<1>4. outboundB[m.follow] # BP!NoRow /\ BP!Intended(m.from, m.to, m.follow)
  BY <1>3 DEF BP!IInv, BP!SentInv
<1>5. PICK i \in IntentsB : i.local = m.from /\ i.remote = m.to /\ i.follow = m.follow
  BY <1>4 DEF BP!Intended
<1>6. m.follow \in FollowIds
  BY DEF BP!IInv, BP!TypeOK, BP!Deliveries
<1>7. PICK j \in IntentsB : /\ j.local = outboundB[m.follow].local
                          /\ j.remote = outboundB[m.follow].remote.id
                          /\ j.follow = m.follow
  BY <1>4, <1>6 DEF BP!IInv, BP!RowsIntended, BP!Intended
<1>8. B!OneTarget(m.follow) => j.local = i.local /\ j.remote = i.remote
  BY <1>5, <1>7 DEF B!OneTarget
<1>9. outboundB[i.follow] # B!NoRow
  BY <1>4, <1>5 DEF B!NoRow, BP!NoRow
<1> QED BY <1>3, <1>5, <1>7, <1>8, <1>9

\* An accepted Follow of server B is a row of server A.
LEMMA AcceptedB ==
  ASSUME BP!IInv, AP!IInv, DeliveredB, DeliveredA,
         NEW f \in FollowIds, outboundB[f].state = "accepted"
  PROVE  \E row \in followersA : /\ row.follower = outboundB[f].local
                                /\ row.following = outboundB[f].remote.id
<1>1. PICK q \in heardB : BP!Consents(q, f)
  BY DEF BP!IInv, BP!ConsentBacksAccepted
<1>2. PICK m \in wireA : q = request(m)
  BY <1>1 DEF DeliveredB, PostedToB, BP!Consents, BP!Genuine
<1>3. m.type = "Accept" /\ m.from = outboundB[f].remote.id
  BY <1>1, <1>2 DEF request, BP!Consents
<1>4. m.to = outboundB[f].local
  <2>1. m.to \in ActorsB
    BY <1>2 DEF AP!IInv, AP!TypeOK, AP!Deliveries
  <2> QED BY <1>1, <1>2, <2>1, FederationNames DEF request, BP!Consents, BP!Reaches
<1>5. ~ AP!Heard("Undo", m.to, m.from)
  <2>1. ASSUME NEW r \in heardA, r.signer = r.act.actor PROVE r.act.type # "Undo"
    <3>1. PICK n \in wireB : r = request(n)
      BY <2>1 DEF DeliveredA, PostedToA
    <3>2. n.type # "Undo" /\ r.act.type = n.type
      BY <3>1 DEF BP!IInv, BP!TypeOK, BP!Deliveries, request
    <3> QED BY <3>2
  <2> QED BY <2>1 DEF AP!Heard, AP!Genuine
<1> QED BY <1>3, <1>4, <1>5 DEF AP!IInv, AP!AcceptedFollowerIsStored, AP!SameFollower

\* A follower at server B has called follow_actor at server A and left a row.
LEMMA RecordedB ==
  ASSUME BP!IInv, AP!IInv, DeliveredB, NEW row \in followersB
  PROVE  \E i \in IntentsA :
           /\ i.local = row.follower /\ i.remote = row.following
           /\ outboundA[i.follow] # A!NoRow
           /\ A!OneTarget(i.follow) => /\ outboundA[i.follow].local = row.follower
                                      /\ outboundA[i.follow].remote.id = row.following
<1>1. PICK q \in heardB : /\ q.act.type = "Follow"
                         /\ q.act.actor = row.follower
                         /\ q.act.follow.object = row.following
                         /\ q.signer = q.act.actor
  BY DEF BP!IInv, BP!FollowerAsked, BP!Heard, BP!Genuine
<1>2. PICK m \in wireA : q = request(m)
  BY <1>1 DEF DeliveredB, PostedToB
<1>3. m.type = "Follow" /\ m.from = row.follower /\ m.to = row.following
  BY <1>1, <1>2 DEF request
<1>4. outboundA[m.follow] # AP!NoRow /\ AP!Intended(m.from, m.to, m.follow)
  BY <1>3 DEF AP!IInv, AP!SentInv
<1>5. PICK i \in IntentsA : i.local = m.from /\ i.remote = m.to /\ i.follow = m.follow
  BY <1>4 DEF AP!Intended
<1>6. m.follow \in FollowIds
  BY DEF AP!IInv, AP!TypeOK, AP!Deliveries
<1>7. PICK j \in IntentsA : /\ j.local = outboundA[m.follow].local
                          /\ j.remote = outboundA[m.follow].remote.id
                          /\ j.follow = m.follow
  BY <1>4, <1>6 DEF AP!IInv, AP!RowsIntended, AP!Intended
<1>8. A!OneTarget(m.follow) => j.local = i.local /\ j.remote = i.remote
  BY <1>5, <1>7 DEF A!OneTarget
<1>9. outboundA[i.follow] # A!NoRow
  BY <1>4, <1>5 DEF A!NoRow, AP!NoRow
<1> QED BY <1>3, <1>5, <1>7, <1>8, <1>9

------------------------------------------------------------------------------
(* The theorems *)

FInv ==
  /\ AP!IInv /\ BP!IInv
  /\ mail \subseteq wireA \cup wireB
  /\ DeliveredA /\ DeliveredB

\* Only what was posted is in the mail.
LEMMA MailStays ==
  mail \subseteq wireA \cup wireB /\ [Next]_vars => mail' \subseteq (wireA \cup wireB)'
<1> SUFFICES ASSUME mail \subseteq wireA \cup wireB, [Next]_vars
             PROVE  mail' \subseteq (wireA \cup wireB)'
  OBVIOUS
<1> USE DEF OnlyA, OnlyB
<1>1. wireA \subseteq wireA' /\ wireB \subseteq wireB'
  BY WireGrowsA, WireGrowsB
<1>2. ASSUME NEW t \in HandlersA \cup CallersA, PostA(t) PROVE mail' \subseteq wireA' \cup wireB'
  BY <1>1, <1>2, PostOfA DEF PostA
<1>3. ASSUME NEW t \in HandlersB \cup CallersB, PostB(t) PROVE mail' \subseteq wireA' \cup wireB'
  BY <1>1, <1>3, PostOfB DEF PostB
<1>4. CASE mail' \subseteq mail
  BY <1>1, <1>4
<1>5. CASE NextA
  BY <1>2, <1>4, <1>5 DEF NextA, ReceiveA, BeginFollowA, WorkA, EndA, WorldA
<1>6. CASE NextB
  BY <1>3, <1>4, <1>6 DEF NextB, ReceiveB, BeginFollowB, WorkB, EndB, WorldB
<1> QED BY <1>4, <1>5, <1>6 DEF Next, Lose, vars

\* Each server keeps its own promises, and what it hears was posted to it.
THEOREM Invariance == Spec => []FInv
<1>1. Init => FInv
  <2> SUFFICES ASSUME Init PROVE FInv
    OBVIOUS
  <2>1. AP!IInv /\ BP!IInv
    BY InitOfA, InitOfB DEF Init
  <2>2. DeliveredA
    BY DEF Init, A!Init, A!Idle, DeliveredA
  <2>3. DeliveredB
    BY DEF Init, B!Init, B!Idle, DeliveredB
  <2> QED BY <2>1, <2>2, <2>3 DEF Init, FInv
<1>2. FInv /\ [Next]_vars => FInv'
  BY KeptByA, KeptByB, MailStays, DeliveryA, DeliveryB DEF FInv
<1> QED BY <1>1, <1>2, PTL DEF Spec

\* The state of each server has its type, and only deliveries travel.
THEOREM TypeCorrect == Spec => []TypeOK
<1>1. FInv => A!TypeOK
  BY DEF FInv, AP!IInv, AP!TypeOK, A!TypeOK, AP!FollowerRows, A!FollowerRows, AP!OutboundRows,
     A!OutboundRows, AP!NoRow, A!NoRow, AP!TaskStates, A!TaskStates, AP!Deliveries,
     A!Deliveries, AP!InboxStages, A!InboxStages, AP!FollowStages, A!FollowStages,
     AP!ActorDocs, A!ActorDocs, AP!PendingFollows, A!PendingFollows
<1>2. FInv => B!TypeOK
  BY DEF FInv, BP!IInv, BP!TypeOK, B!TypeOK, BP!FollowerRows, B!FollowerRows, BP!OutboundRows,
     B!OutboundRows, BP!NoRow, B!NoRow, BP!TaskStates, B!TaskStates, BP!Deliveries,
     B!Deliveries, BP!InboxStages, B!InboxStages, BP!FollowStages, B!FollowStages,
     BP!ActorDocs, B!ActorDocs, BP!PendingFollows, B!PendingFollows
<1>3. FInv => TypeOK
  BY <1>1, <1>2 DEF FInv, TypeOK
<1> QED BY <1>3, Invariance, PTL

\* However many messages are lost, repeated and overtaken, and whenever either
\* server stops: an accepted Follow is stored at both ends.
THEOREM Agreement == Spec => []AcceptedOnBothSides
<1>1. FInv => AcceptedOnBothSides
  BY AcceptedA, AcceptedB DEF FInv, AcceptedOnBothSides
<1> QED BY <1>1, Invariance, PTL

\* No follower is stored whose own server has no record of the Follow.
THEOREM Recording == Spec => []FollowersAreRecorded
<1>1. FInv => FollowersAreRecorded
  BY RecordedA, RecordedB DEF FInv, FollowersAreRecorded
<1> QED BY <1>1, Invariance, PTL
------------------------------------------------------------------------------
(* The handshake, as followed from server A *)

\* An authentic Follow that server B has heard was posted by server A.
LEMMA FollowPostedA ==
  ASSUME FInv, NEW q \in RequestsB, BP!FollowHeard(q)
  PROVE  /\ q.act.follow.id \in FollowIds
         /\ q.act.actor \in ActorsA
         /\ q.act.follow.object \in ActorsB
         /\ <<q.act.follow.id, q.act.actor, q.act.follow.object>> \in AP!FollowsSent
<1>1. q \in heardB /\ q.act.type = "Follow" /\ q.signer = q.act.actor
      /\ q.act.follow.object \in ActorsB
  BY DEF BP!FollowHeard, BP!Addressed, BP!Genuine
<1>2. PICK m \in wireA : q = request(m)
  BY <1>1 DEF FInv, DeliveredB, PostedToB
<1>3. /\ m.type = "Follow"
      /\ <<m.follow, m.from, m.to>> = <<q.act.follow.id, q.act.actor, q.act.follow.object>>
  BY <1>1, <1>2 DEF request
<1>4. m \in AP!Deliveries
  BY DEF FInv, AP!IInv, AP!TypeOK
<1> QED BY <1>1, <1>3, <1>4 DEF AP!FollowsSent, AP!Deliveries

\* Nothing that server B takes for genuine is an Undo.
LEMMA NoUndoA ==
  ASSUME FInv, NEW q \in heardB, q.signer = q.act.actor
  PROVE  q.act.type # "Undo"
<1>1. PICK m \in wireA : q = request(m)
  BY DEF FInv, DeliveredB, PostedToB
<1>2. m.type # "Undo" /\ q.act.type = m.type
  BY <1>1 DEF FInv, AP!IInv, AP!TypeOK, AP!Deliveries, request
<1> QED BY <1>2

\* A consent that server A has heard is an Accept of this relationship that
\* server B has posted.
LEMMA ConsentPostedA ==
  ASSUME FInv, NEW f \in FollowIds, NEW q \in heardA, AP!Consents(q, f)
  PROVE  <<f, outboundA[f].local, outboundA[f].remote.id>> \in BP!AcceptsSent
<1>1. PICK m \in wireB : q = request(m)
  BY DEF FInv, DeliveredA, PostedToA, AP!Consents, AP!Genuine
<1>2. m.type = "Accept" /\ m.follow = f /\ m.from = outboundA[f].remote.id
  BY <1>1 DEF request, AP!Consents
<1>3. m.to = outboundA[f].local
  BY <1>1, <1>2 DEF request, AP!Consents
<1> QED BY <1>2, <1>3 DEF BP!AcceptsSent

\* A step of server A proposes, posts or establishes.
LEMMA StepAtA ==
  ASSUME FInv, [Next]_vars, UNCHANGED varsB
  PROVE  [AtoB!Next]_AtoB!vars
<1>1. AP!RelationStep
  BY StepOfA, AP!EveryRelationStep, InputsA, NamesA DEF FInv
<1>2. UNCHANGED <<BP!Listed, BP!AcceptsSent>>
  BY DEF varsB, BP!Listed, BP!AcceptsSent
<1>3. CASE UNCHANGED <<outboundA, AP!FollowsSent>>
  BY <1>2, <1>3 DEF AtoB!vars, AP!FollowsSent, BP!Listed, BP!AcceptsSent
<1>4. ASSUME NEW f \in FollowIds, NEW local \in ActorsA, NEW remote \in AP!ActorDocs,
             outboundA[f].state # "accepted",
             outboundA' = [outboundA EXCEPT ![f] =
                            [local |-> local, remote |-> remote, state |-> "pending"]],
             UNCHANGED AP!FollowsSent
      PROVE  AtoB!Next
  <2>1. AtoB!Propose(f, local, remote)
    BY <1>2, <1>4 DEF AtoB!Propose, AP!FollowsSent, BP!Listed, BP!AcceptsSent
  <2> QED BY <2>1, <1>4 DEF AtoB!Next, AtoB!ActorDocs, AP!ActorDocs
<1>5. ASSUME NEW f \in FollowIds, NEW local \in ActorsA, NEW remote \in ActorsB,
             outboundA[f] # AP!NoRow,
             AP!FollowsSent' = AP!FollowsSent \cup {<<f, local, remote>>},
             UNCHANGED outboundA
      PROVE  AtoB!Next
  <2>1. AtoB!Post(f, local, remote)
    BY <1>2, <1>5 DEF AtoB!Post, AtoB!NoRow, AP!NoRow, AP!FollowsSent, BP!Listed,
       BP!AcceptsSent
  <2> QED BY <2>1 DEF AtoB!Next
<1>6. ASSUME NEW f \in FollowIds, NEW q \in heardA,
             outboundA[f].state = "pending", AP!Consents(q, f),
             outboundA' = [outboundA EXCEPT ![f].state = "accepted"],
             UNCHANGED AP!FollowsSent
      PROVE  AtoB!Next
  <2>1. AtoB!Establish(f)
    BY <1>2, <1>6, ConsentPostedA
       DEF AtoB!Establish, AP!FollowsSent, BP!Listed, BP!AcceptsSent
  <2> QED BY <2>1 DEF AtoB!Next
<1> QED BY <1>1, <1>3, <1>4, <1>5, <1>6 DEF AP!RelationStep

\* A step of server B lists or answers what server A has posted.
LEMMA AnswerAtB ==
  ASSUME FInv, [Next]_vars, UNCHANGED varsA
  PROVE  [AtoB!Next]_AtoB!vars
<1>1. BP!ListStep
  BY StepOfB, BP!EveryListStep, InputsB, NamesB DEF FInv
<1>2. UNCHANGED <<outboundA, AP!FollowsSent>>
  BY DEF varsA, AP!FollowsSent
<1>3. CASE UNCHANGED <<BP!Listed, BP!AcceptsSent>>
  BY <1>2, <1>3 DEF AtoB!vars, AP!FollowsSent, BP!Listed, BP!AcceptsSent
<1>4. ASSUME NEW q \in RequestsB, BP!FollowHeard(q),
             BP!Listed' = BP!Listed \cup {<<q.act.actor, q.act.follow.object>>},
             UNCHANGED BP!AcceptsSent
      PROVE  AtoB!Next
  <2>1. AtoB!List(q.act.follow.id, q.act.actor, q.act.follow.object)
    BY <1>2, <1>4, FollowPostedA
       DEF AtoB!List, AP!FollowsSent, BP!Listed, BP!AcceptsSent
  <2> QED BY <1>4, <2>1, FollowPostedA DEF AtoB!Next
<1>5. ASSUME NEW q \in RequestsB, BP!UndoHeard(q) PROVE FALSE
  BY <1>5, NoUndoA DEF BP!UndoHeard, BP!Addressed, BP!Genuine
<1>6. ASSUME NEW q \in RequestsB, BP!FollowHeard(q),
             BP!Joined(q.act.actor, q.act.follow.object),
             BP!AcceptsSent' = BP!AcceptsSent \cup
                                {<<q.act.follow.id, q.act.actor, q.act.follow.object>>},
             UNCHANGED BP!Listed
      PROVE  AtoB!Next
  <2>1. ~ BP!Heard("Undo", q.act.actor, q.act.follow.object)
    BY NoUndoA DEF BP!Heard, BP!Genuine
  <2>2. <<q.act.actor, q.act.follow.object>> \in BP!Listed
    BY <1>6, <2>1 DEF BP!Joined, BP!SameFollower, BP!Listed
  <2>3. AtoB!Answer(q.act.follow.id, q.act.actor, q.act.follow.object)
    BY <1>2, <1>6, <2>2, FollowPostedA
       DEF AtoB!Answer, AP!FollowsSent, BP!Listed, BP!AcceptsSent
  <2> QED BY <1>6, <2>3, FollowPostedA DEF AtoB!Next
<1> QED BY <1>1, <1>3, <1>4, <1>5, <1>6 DEF BP!ListStep

------------------------------------------------------------------------------
(* The handshake, as followed from server B *)

\* An authentic Follow that server A has heard was posted by server B.
LEMMA FollowPostedB ==
  ASSUME FInv, NEW q \in RequestsA, AP!FollowHeard(q)
  PROVE  /\ q.act.follow.id \in FollowIds
         /\ q.act.actor \in ActorsB
         /\ q.act.follow.object \in ActorsA
         /\ <<q.act.follow.id, q.act.actor, q.act.follow.object>> \in BP!FollowsSent
<1>1. q \in heardA /\ q.act.type = "Follow" /\ q.signer = q.act.actor
      /\ q.act.follow.object \in ActorsA
  BY DEF AP!FollowHeard, AP!Addressed, AP!Genuine
<1>2. PICK m \in wireB : q = request(m)
  BY <1>1 DEF FInv, DeliveredA, PostedToA
<1>3. /\ m.type = "Follow"
      /\ <<m.follow, m.from, m.to>> = <<q.act.follow.id, q.act.actor, q.act.follow.object>>
  BY <1>1, <1>2 DEF request
<1>4. m \in BP!Deliveries
  BY DEF FInv, BP!IInv, BP!TypeOK
<1> QED BY <1>1, <1>3, <1>4 DEF BP!FollowsSent, BP!Deliveries

\* Nothing that server A takes for genuine is an Undo.
LEMMA NoUndoB ==
  ASSUME FInv, NEW q \in heardA, q.signer = q.act.actor
  PROVE  q.act.type # "Undo"
<1>1. PICK m \in wireB : q = request(m)
  BY DEF FInv, DeliveredA, PostedToA
<1>2. m.type # "Undo" /\ q.act.type = m.type
  BY <1>1 DEF FInv, BP!IInv, BP!TypeOK, BP!Deliveries, request
<1> QED BY <1>2

\* A consent that server B has heard is an Accept of this relationship that
\* server A has posted.
LEMMA ConsentPostedB ==
  ASSUME FInv, NEW f \in FollowIds, NEW q \in heardB, BP!Consents(q, f)
  PROVE  <<f, outboundB[f].local, outboundB[f].remote.id>> \in AP!AcceptsSent
<1>1. PICK m \in wireA : q = request(m)
  BY DEF FInv, DeliveredB, PostedToB, BP!Consents, BP!Genuine
<1>2. m.type = "Accept" /\ m.follow = f /\ m.from = outboundB[f].remote.id
  BY <1>1 DEF request, BP!Consents
<1>3. m.to = outboundB[f].local
  BY <1>1, <1>2 DEF request, BP!Consents
<1> QED BY <1>2, <1>3 DEF AP!AcceptsSent

\* A step of server B proposes, posts or establishes.
LEMMA StepAtB ==
  ASSUME FInv, [Next]_vars, UNCHANGED varsA
  PROVE  [BtoA!Next]_BtoA!vars
<1>1. BP!RelationStep
  BY StepOfB, BP!EveryRelationStep, InputsB, NamesB DEF FInv
<1>2. UNCHANGED <<AP!Listed, AP!AcceptsSent>>
  BY DEF varsA, AP!Listed, AP!AcceptsSent
<1>3. CASE UNCHANGED <<outboundB, BP!FollowsSent>>
  BY <1>2, <1>3 DEF BtoA!vars, BP!FollowsSent, AP!Listed, AP!AcceptsSent
<1>4. ASSUME NEW f \in FollowIds, NEW local \in ActorsB, NEW remote \in BP!ActorDocs,
             outboundB[f].state # "accepted",
             outboundB' = [outboundB EXCEPT ![f] =
                            [local |-> local, remote |-> remote, state |-> "pending"]],
             UNCHANGED BP!FollowsSent
      PROVE  BtoA!Next
  <2>1. BtoA!Propose(f, local, remote)
    BY <1>2, <1>4 DEF BtoA!Propose, BP!FollowsSent, AP!Listed, AP!AcceptsSent
  <2> QED BY <2>1, <1>4 DEF BtoA!Next, BtoA!ActorDocs, BP!ActorDocs
<1>5. ASSUME NEW f \in FollowIds, NEW local \in ActorsB, NEW remote \in ActorsA,
             outboundB[f] # BP!NoRow,
             BP!FollowsSent' = BP!FollowsSent \cup {<<f, local, remote>>},
             UNCHANGED outboundB
      PROVE  BtoA!Next
  <2>1. BtoA!Post(f, local, remote)
    BY <1>2, <1>5 DEF BtoA!Post, BtoA!NoRow, BP!NoRow, BP!FollowsSent, AP!Listed,
       AP!AcceptsSent
  <2> QED BY <2>1 DEF BtoA!Next
<1>6. ASSUME NEW f \in FollowIds, NEW q \in heardB,
             outboundB[f].state = "pending", BP!Consents(q, f),
             outboundB' = [outboundB EXCEPT ![f].state = "accepted"],
             UNCHANGED BP!FollowsSent
      PROVE  BtoA!Next
  <2>1. BtoA!Establish(f)
    BY <1>2, <1>6, ConsentPostedB
       DEF BtoA!Establish, BP!FollowsSent, AP!Listed, AP!AcceptsSent
  <2> QED BY <2>1 DEF BtoA!Next
<1> QED BY <1>1, <1>3, <1>4, <1>5, <1>6 DEF BP!RelationStep

\* A step of server A lists or answers what server B has posted.
LEMMA AnswerAtA ==
  ASSUME FInv, [Next]_vars, UNCHANGED varsB
  PROVE  [BtoA!Next]_BtoA!vars
<1>1. AP!ListStep
  BY StepOfA, AP!EveryListStep, InputsA, NamesA DEF FInv
<1>2. UNCHANGED <<outboundB, BP!FollowsSent>>
  BY DEF varsB, BP!FollowsSent
<1>3. CASE UNCHANGED <<AP!Listed, AP!AcceptsSent>>
  BY <1>2, <1>3 DEF BtoA!vars, BP!FollowsSent, AP!Listed, AP!AcceptsSent
<1>4. ASSUME NEW q \in RequestsA, AP!FollowHeard(q),
             AP!Listed' = AP!Listed \cup {<<q.act.actor, q.act.follow.object>>},
             UNCHANGED AP!AcceptsSent
      PROVE  BtoA!Next
  <2>1. BtoA!List(q.act.follow.id, q.act.actor, q.act.follow.object)
    BY <1>2, <1>4, FollowPostedB
       DEF BtoA!List, BP!FollowsSent, AP!Listed, AP!AcceptsSent
  <2> QED BY <1>4, <2>1, FollowPostedB DEF BtoA!Next
<1>5. ASSUME NEW q \in RequestsA, AP!UndoHeard(q) PROVE FALSE
  BY <1>5, NoUndoB DEF AP!UndoHeard, AP!Addressed, AP!Genuine
<1>6. ASSUME NEW q \in RequestsA, AP!FollowHeard(q),
             AP!Joined(q.act.actor, q.act.follow.object),
             AP!AcceptsSent' = AP!AcceptsSent \cup
                                {<<q.act.follow.id, q.act.actor, q.act.follow.object>>},
             UNCHANGED AP!Listed
      PROVE  BtoA!Next
  <2>1. ~ AP!Heard("Undo", q.act.actor, q.act.follow.object)
    BY NoUndoB DEF AP!Heard, AP!Genuine
  <2>2. <<q.act.actor, q.act.follow.object>> \in AP!Listed
    BY <1>6, <2>1 DEF AP!Joined, AP!SameFollower, AP!Listed
  <2>3. BtoA!Answer(q.act.follow.id, q.act.actor, q.act.follow.object)
    BY <1>2, <1>6, <2>2, FollowPostedB
       DEF BtoA!Answer, BP!FollowsSent, AP!Listed, AP!AcceptsSent
  <2> QED BY <1>6, <2>3, FollowPostedB DEF BtoA!Next
<1> QED BY <1>1, <1>3, <1>4, <1>5, <1>6 DEF AP!ListStep

------------------------------------------------------------------------------
(* The two servers implement the handshake, in either direction *)

\* Only one server moves at a time.
LEMMA OneMoves == [Next]_vars => UNCHANGED varsA \/ UNCHANGED varsB
BY DEF Next, NextA, ReceiveA, BeginFollowA, WorkA, PostA, EndA, WorldA, NextB, ReceiveB,
       BeginFollowB, WorkB, PostB, EndB, WorldB, Lose, OnlyA, OnlyB, vars

\* For any number of actors, Follows, tasks and lost, repeated and overtaken
\* messages: what two servers do together is the handshake from either end.
THEOREM Handshake == Spec => ImplementsHandshake
<1>1. Init => AtoB!Init
  BY DEF Init, A!Init, B!Init, AtoB!Init, A!NoRow, AtoB!NoRow
<1>2. Init => BtoA!Init
  BY DEF Init, A!Init, B!Init, BtoA!Init, B!NoRow, BtoA!NoRow
<1>3. FInv /\ [Next]_vars => [AtoB!Next]_AtoB!vars
  BY OneMoves, StepAtA, AnswerAtB
<1>4. FInv /\ [Next]_vars => [BtoA!Next]_BtoA!vars
  BY OneMoves, StepAtB, AnswerAtA
<1> QED BY <1>1, <1>2, <1>3, <1>4, Invariance, PTL
        DEF Spec, ImplementsHandshake, AtoB!Spec, BtoA!Spec
\* The handshake followed from server A keeps its order.
LEMMA OrderStaysA ==
  ASSUME FInv, AtoB!InOrder, [AtoB!Next]_AtoB!vars
  PROVE  AtoB!InOrder'
<1>1. outboundA \in [FollowIds -> AP!OutboundRows \cup {AtoB!NoRow}]
  BY DEF FInv, AP!IInv, AP!TypeOK, AP!NoRow, AtoB!NoRow
<1>2. CASE UNCHANGED AtoB!vars
  BY <1>2 DEF AtoB!InOrder, AtoB!vars
<1> DEFINE posted   == AP!FollowsSent
           listed   == BP!Listed
           answered == BP!AcceptsSent
           Accepted(relation, sent) ==
             \A f \in FollowIds : relation[f].state = "accepted" =>
               <<f, relation[f].local, relation[f].remote.id>> \in sent
           OnRecord(relation, sent) ==
             \A f \in FollowIds, local \in ActorsA, remote \in ActorsB :
               <<f, local, remote>> \in sent => relation[f] # AtoB!NoRow
<1>3. Accepted(outboundA, answered) /\ OnRecord(outboundA, posted)
  BY DEF AtoB!InOrder, AP!FollowsSent, BP!AcceptsSent
<1>4. ASSUME UNCHANGED <<posted, listed, answered>>,
             Accepted(outboundA', answered), OnRecord(outboundA', posted)
      PROVE  AtoB!InOrder'
  BY <1>4 DEF AtoB!InOrder, AP!FollowsSent, BP!Listed, BP!AcceptsSent
<1>5. ASSUME NEW f \in FollowIds, AtoB!Establish(f) PROVE AtoB!InOrder'
  <2>1. /\ outboundA' = [outboundA EXCEPT ![f].state = "accepted"]
        /\ outboundA[f].state = "pending"
        /\ <<f, outboundA[f].local, outboundA[f].remote.id>> \in answered
        /\ UNCHANGED <<posted, listed, answered>>
    BY <1>5 DEF AtoB!Establish, AP!FollowsSent, BP!Listed, BP!AcceptsSent
  <2> HIDE DEF posted, listed, answered
  <2>2. outboundA[f] \in AP!OutboundRows
    BY <1>1, <2>1 DEF AtoB!NoRow
  <2>3. \A g \in FollowIds :
          /\ outboundA'[g] = IF g = f THEN [outboundA[f] EXCEPT !.state = "accepted"]
                                     ELSE outboundA[g]
          /\ outboundA[g] # AtoB!NoRow => outboundA'[g] # AtoB!NoRow
    BY <1>1, <2>1, <2>2 DEF AtoB!NoRow, AP!OutboundRows
  <2>4. /\ outboundA'[f].local = outboundA[f].local
        /\ outboundA'[f].remote = outboundA[f].remote
    BY <2>2, <2>3 DEF AP!OutboundRows
  <2>5. Accepted(outboundA', answered)
    BY <1>3, <2>1, <2>3, <2>4
  <2>6. OnRecord(outboundA', posted)
    BY <1>3, <2>3
  <2> QED BY <1>4, <2>1, <2>5, <2>6
<1>6. ASSUME NEW f \in FollowIds, NEW local \in ActorsA, NEW doc \in AtoB!ActorDocs,
             AtoB!Propose(f, local, doc)
      PROVE  AtoB!InOrder'
  <2>1. /\ outboundA' = [outboundA EXCEPT ![f] =
                          [local |-> local, remote |-> doc, state |-> "pending"]]
        /\ UNCHANGED <<posted, listed, answered>>
    BY <1>6 DEF AtoB!Propose, AP!FollowsSent, BP!Listed, BP!AcceptsSent
  <2> HIDE DEF posted, listed, answered
  <2>2. \A g \in FollowIds :
          /\ g # f => outboundA'[g] = outboundA[g]
          /\ outboundA'[f].state = "pending" /\ outboundA'[f] # AtoB!NoRow
    BY <1>1, <2>1 DEF AtoB!NoRow
  <2>3. Accepted(outboundA', answered)
    BY <1>3, <2>2
  <2>4. OnRecord(outboundA', posted)
    BY <1>3, <2>2
  <2> QED BY <1>4, <2>1, <2>3, <2>4
<1>7. ASSUME NEW f \in FollowIds, NEW local \in ActorsA, NEW remote \in ActorsB,
             AtoB!Post(f, local, remote)
      PROVE  AtoB!InOrder'
  BY <1>7 DEF AtoB!InOrder, AtoB!Post
<1>8. ASSUME NEW f \in FollowIds, NEW local \in ActorsA, NEW remote \in ActorsB,
             AtoB!List(f, local, remote)
      PROVE  AtoB!InOrder'
  BY <1>8 DEF AtoB!InOrder, AtoB!List
<1>9. ASSUME NEW f \in FollowIds, NEW local \in ActorsA, NEW remote \in ActorsB,
             AtoB!Answer(f, local, remote)
      PROVE  AtoB!InOrder'
  BY <1>9 DEF AtoB!InOrder, AtoB!Answer
<1> QED BY <1>2, <1>5, <1>6, <1>7, <1>8, <1>9 DEF AtoB!Next

\* The handshake followed from server B keeps its order.
LEMMA OrderStaysB ==
  ASSUME FInv, BtoA!InOrder, [BtoA!Next]_BtoA!vars
  PROVE  BtoA!InOrder'
<1>1. outboundB \in [FollowIds -> BP!OutboundRows \cup {BtoA!NoRow}]
  BY DEF FInv, BP!IInv, BP!TypeOK, BP!NoRow, BtoA!NoRow
<1>2. CASE UNCHANGED BtoA!vars
  BY <1>2 DEF BtoA!InOrder, BtoA!vars
<1> DEFINE posted   == BP!FollowsSent
           listed   == AP!Listed
           answered == AP!AcceptsSent
           Accepted(relation, sent) ==
             \A f \in FollowIds : relation[f].state = "accepted" =>
               <<f, relation[f].local, relation[f].remote.id>> \in sent
           OnRecord(relation, sent) ==
             \A f \in FollowIds, local \in ActorsB, remote \in ActorsA :
               <<f, local, remote>> \in sent => relation[f] # BtoA!NoRow
<1>3. Accepted(outboundB, answered) /\ OnRecord(outboundB, posted)
  BY DEF BtoA!InOrder, BP!FollowsSent, AP!AcceptsSent
<1>4. ASSUME UNCHANGED <<posted, listed, answered>>,
             Accepted(outboundB', answered), OnRecord(outboundB', posted)
      PROVE  BtoA!InOrder'
  BY <1>4 DEF BtoA!InOrder, BP!FollowsSent, AP!Listed, AP!AcceptsSent
<1>5. ASSUME NEW f \in FollowIds, BtoA!Establish(f) PROVE BtoA!InOrder'
  <2>1. /\ outboundB' = [outboundB EXCEPT ![f].state = "accepted"]
        /\ outboundB[f].state = "pending"
        /\ <<f, outboundB[f].local, outboundB[f].remote.id>> \in answered
        /\ UNCHANGED <<posted, listed, answered>>
    BY <1>5 DEF BtoA!Establish, BP!FollowsSent, AP!Listed, AP!AcceptsSent
  <2> HIDE DEF posted, listed, answered
  <2>2. outboundB[f] \in BP!OutboundRows
    BY <1>1, <2>1 DEF BtoA!NoRow
  <2>3. \A g \in FollowIds :
          /\ outboundB'[g] = IF g = f THEN [outboundB[f] EXCEPT !.state = "accepted"]
                                     ELSE outboundB[g]
          /\ outboundB[g] # BtoA!NoRow => outboundB'[g] # BtoA!NoRow
    BY <1>1, <2>1, <2>2 DEF BtoA!NoRow, BP!OutboundRows
  <2>4. /\ outboundB'[f].local = outboundB[f].local
        /\ outboundB'[f].remote = outboundB[f].remote
    BY <2>2, <2>3 DEF BP!OutboundRows
  <2>5. Accepted(outboundB', answered)
    BY <1>3, <2>1, <2>3, <2>4
  <2>6. OnRecord(outboundB', posted)
    BY <1>3, <2>3
  <2> QED BY <1>4, <2>1, <2>5, <2>6
<1>6. ASSUME NEW f \in FollowIds, NEW local \in ActorsB, NEW doc \in BtoA!ActorDocs,
             BtoA!Propose(f, local, doc)
      PROVE  BtoA!InOrder'
  <2>1. /\ outboundB' = [outboundB EXCEPT ![f] =
                          [local |-> local, remote |-> doc, state |-> "pending"]]
        /\ UNCHANGED <<posted, listed, answered>>
    BY <1>6 DEF BtoA!Propose, BP!FollowsSent, AP!Listed, AP!AcceptsSent
  <2> HIDE DEF posted, listed, answered
  <2>2. \A g \in FollowIds :
          /\ g # f => outboundB'[g] = outboundB[g]
          /\ outboundB'[f].state = "pending" /\ outboundB'[f] # BtoA!NoRow
    BY <1>1, <2>1 DEF BtoA!NoRow
  <2>3. Accepted(outboundB', answered)
    BY <1>3, <2>2
  <2>4. OnRecord(outboundB', posted)
    BY <1>3, <2>2
  <2> QED BY <1>4, <2>1, <2>3, <2>4
<1>7. ASSUME NEW f \in FollowIds, NEW local \in ActorsB, NEW remote \in ActorsA,
             BtoA!Post(f, local, remote)
      PROVE  BtoA!InOrder'
  BY <1>7 DEF BtoA!InOrder, BtoA!Post
<1>8. ASSUME NEW f \in FollowIds, NEW local \in ActorsB, NEW remote \in ActorsA,
             BtoA!List(f, local, remote)
      PROVE  BtoA!InOrder'
  BY <1>8 DEF BtoA!InOrder, BtoA!List
<1>9. ASSUME NEW f \in FollowIds, NEW local \in ActorsB, NEW remote \in ActorsA,
             BtoA!Answer(f, local, remote)
      PROVE  BtoA!InOrder'
  BY <1>9 DEF BtoA!InOrder, BtoA!Answer
<1> QED BY <1>2, <1>5, <1>6, <1>7, <1>8, <1>9 DEF BtoA!Next

\* At all times and in both directions, every stage of a relationship rests on
\* the one before it: an accepted Follow was answered under its own id, by a
\* server that lists the follower, for a Follow that was posted and recorded.
THEOREM HandshakeOrder == Spec => [](AtoB!InOrder /\ BtoA!InOrder)
<1>1. Init => AtoB!InOrder
  BY DEF Init, A!Init, B!Init, AtoB!InOrder, A!NoRow
<1>2. Init => BtoA!InOrder
  BY DEF Init, A!Init, B!Init, BtoA!InOrder, B!NoRow
<1>3. FInv /\ AtoB!InOrder /\ [AtoB!Next]_AtoB!vars => AtoB!InOrder'
  BY OrderStaysA
<1>4. FInv /\ BtoA!InOrder /\ [BtoA!Next]_BtoA!vars => BtoA!InOrder'
  BY OrderStaysB
<1>5. ImplementsHandshake => [][AtoB!Next]_AtoB!vars /\ [][BtoA!Next]_BtoA!vars
  BY PTL DEF ImplementsHandshake, AtoB!Spec, BtoA!Spec
<1> QED BY <1>1, <1>2, <1>3, <1>4, <1>5, Handshake, Invariance, PTL DEF Spec
==============================================================================
