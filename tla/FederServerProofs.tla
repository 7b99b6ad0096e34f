-------------------------- MODULE FederServerProofs --------------------------
(***************************************************************************)
(* Proofs about FederServer, for every set of actors, ids, versions, tasks *)
(* and requests.                                                           *)
(***************************************************************************)
EXTENDS FederServer, TLAPS

(***************************************************************************)
(* The inductive invariant: the properties to prove, and what a task that  *)
(* has reached a stage knows.                                              *)
(***************************************************************************)

\* An inbox task handles a request that reaches its local actor.
InboxTask(t) ==
  task[t].pc \in InboxStages =>
    /\ task[t].job \in Requests
    /\ task[t].local \in Locals
    /\ Reaches(task[t].job, task[t].local)

\* Past authentication it holds a document of the actor that signed.
AuthenticatedTask(t) ==
  task[t].pc \in {"dispatch", "confirm", "sendAccept"} =>
    /\ task[t].job \in heard
    /\ Genuine(task[t].job)
    /\ task[t].remote \in ActorDocs
    /\ task[t].remote.id = task[t].job.act.actor

\* A task about to confirm has matched its Accept with `pending'.
ConfirmingTask(t) ==
  task[t].pc = "confirm" =>
    /\ task[t].pending \in PendingFollows
    /\ task[t].job.act.type = "Accept"
    /\ task[t].job.act.object \in {"link", "Follow"}
    /\ receive_accept_follow(task[t].local, task[t].remote,
                             task[t].pending, task[t].job.act)

\* The follower is there, or was there until it undid its Follow.
Joined(follower, following) ==
  \/ \E row \in followers : SameFollower(row, follower, following)
  \/ Heard("Undo", follower, following)

\* A task about to send an Accept has stored the follower its Follow asked for.
AcceptingTask(t) ==
  task[t].pc = "sendAccept" =>
    /\ Joined(task[t].remote.id, task[t].local)
    /\ task[t].job.act.type = "Follow"
    /\ receive_follow(task[t].local, task[t].remote, task[t].job.act)

\* A task of follow_actor works on one of the intents.
FollowTask(t) ==
  task[t].pc \in FollowStages =>
    /\ task[t].job \in Intents
    /\ task[t].local = task[t].job.local

ResolvedTask(t) ==
  task[t].pc \in {"storePending", "sendFollow"} =>
    /\ task[t].remote \in ActorDocs
    /\ task[t].remote.id = task[t].job.remote

\* Before a Follow is sent, its id has a row.
RecordedTask(t) ==
  task[t].pc = "sendFollow" => outbound[task[t].job.follow] # NoRow

TaskOK(t) ==
  /\ InboxTask(t)
  /\ AuthenticatedTask(t)
  /\ ConfirmingTask(t)
  /\ AcceptingTask(t)
  /\ FollowTask(t)
  /\ ResolvedTask(t)
  /\ RecordedTask(t)

TaskInv == \A t \in Tasks : TaskOK(t)

Intended(local, remote, f) ==
  \E i \in Intents : i.local = local /\ i.remote = remote /\ i.follow = f

\* Rows and sent Follows come from calls of follow_actor.
RowsIntended ==
  \A f \in FollowIds :
    outbound[f] # NoRow => Intended(outbound[f].local, outbound[f].remote.id, f)

SentInv ==
  \A m \in wire : m.type = "Follow" =>
    /\ outbound[m.follow] # NoRow
    /\ Intended(m.from, m.to, m.follow)

IInv ==
  /\ TypeOK
  /\ TaskInv
  /\ RowsIntended
  /\ SentInv
  /\ ConsentBacksAccepted
  /\ FollowerAsked
  /\ AcceptedFollowerIsStored

------------------------------------------------------------------------------
(* The inputs and the store's operations *)

\* What a request is made of.
LEMMA RequestParts ==
  ASSUME NEW q \in Requests
  PROVE  /\ q.inbox \in Locals \cup {Shared}
         /\ q.signer \in Remotes \cup {None}
         /\ q.act \in Activities
         /\ q.act.actor \in Remotes
         /\ q.act.ver \in Versions \cup {Linked}
         /\ q.act.follow \in FollowActivities
         /\ q.act.follow.id \in FollowIds
         /\ q.act.follow.object \in Locals \cup Remotes
         /\ q.act.type = "Follow" => q.act.follow.actor = q.act.actor
BY InputsAssumption DEF InboxRequests, Activities, FollowActivities

\* What a call of follow_actor is made of.
LEMMA IntentParts ==
  ASSUME NEW i \in Intents
  PROVE  i.local \in Locals /\ i.remote \in Remotes /\ i.follow \in FollowIds
BY InputsAssumption DEF FollowIntents

\* A loaded pending Follow is the row of that id.
LEMMA LoadPending ==
  ASSUME NEW table \in [FollowIds -> OutboundRows \cup {NoRow}], NEW f \in FollowIds,
         load_pending_follow(table, f) # None
  PROVE  /\ load_pending_follow(table, f) \in PendingFollows
         /\ load_pending_follow(table, f) = [local  |-> table[f].local,
                                             remote |-> table[f].remote,
                                             follow |-> f]
         /\ table[f] \in OutboundRows
         /\ table[f].state = "pending"
BY DEF load_pending_follow, PendingFollows, OutboundRows, NoRow

\* Storing a pending Follow changes no other row and no accepted one.
LEMMA StorePendingRows ==
  ASSUME NEW table \in [FollowIds -> OutboundRows \cup {NoRow}],
         NEW pending \in PendingFollows
  PROVE  LET new == store_pending_follow(table, pending)
         IN  /\ new \in [FollowIds -> OutboundRows \cup {NoRow}]
             /\ new[pending.follow] \in OutboundRows
             /\ \A f \in FollowIds : f # pending.follow => new[f] = table[f]
             /\ table[pending.follow].state = "accepted"
                  => new = table
             /\ table[pending.follow].state # "accepted"
                  => new[pending.follow] = [local  |-> pending.local,
                                            remote |-> pending.remote,
                                            state  |-> "pending"]
BY DEF store_pending_follow, PendingFollows, OutboundRows, NoRow

\* Confirming changes only the state of a row equal to what was expected.
LEMMA ConfirmRows ==
  ASSUME NEW table \in [FollowIds -> OutboundRows \cup {NoRow}],
         NEW pending \in PendingFollows
  PROVE  LET new == confirm_pending_follow(table, pending)
         IN  \/ new = table
             \/ /\ table[pending.follow] = [local  |-> pending.local,
                                            remote |-> pending.remote,
                                            state  |-> "pending"]
                /\ new = [table EXCEPT ![pending.follow].state = "accepted"]
<1>1. pending.follow \in FollowIds /\ pending # None
  BY NoneAssumption DEF PendingFollows, ActorDocs
<1>2. CASE load_pending_follow(table, pending.follow) = pending
  <2>1. table[pending.follow] \in OutboundRows
    BY <1>1, <1>2, LoadPending
  <2>2. table[pending.follow].state = "pending"
    BY <1>1, <1>2, LoadPending
  <2>3. /\ pending.local = table[pending.follow].local
        /\ pending.remote = table[pending.follow].remote
    BY <1>1, <1>2, LoadPending
  <2> QED BY <1>2, <2>1, <2>2, <2>3 DEF confirm_pending_follow, OutboundRows
<1>3. CASE load_pending_follow(table, pending.follow) # pending
  BY <1>3 DEF confirm_pending_follow
<1> QED BY <1>2, <1>3

------------------------------------------------------------------------------
(* What every step keeps *)

\* Histories grow, rows stay, and a follower leaves only by its own Undo.
Growing ==
  /\ heard \subseteq heard'
  /\ \A f \in FollowIds : outbound[f] # NoRow => outbound'[f] # NoRow
  /\ \A follower \in Remotes, following \in Locals :
       Joined(follower, following) => Joined(follower, following)'

\* What was heard once was heard.
LEMMA HeardStays ==
  ASSUME heard \subseteq heard', NEW type, NEW actor, NEW local, Heard(type, actor, local)
  PROVE  Heard(type, actor, local)'
BY DEF Heard, Reaches, Genuine

\* A step that removes no follower grows.
LEMMA GrowingWithoutRemoval ==
  ASSUME heard \subseteq heard',
         \A f \in FollowIds : outbound[f] # NoRow => outbound'[f] # NoRow,
         \A row \in followers :
           \E new \in followers' : SameFollower(new, row.follower, row.following)
  PROVE  Growing
<1> SUFFICES ASSUME NEW follower \in Remotes, NEW following \in Locals,
                    Joined(follower, following)
             PROVE  Joined(follower, following)'
  BY DEF Growing
<1>1. CASE \E row \in followers : SameFollower(row, follower, following)
  BY <1>1 DEF Joined, SameFollower
<1>2. CASE Heard("Undo", follower, following)
  BY <1>2, HeardStays DEF Joined
<1> QED BY <1>1, <1>2 DEF Joined

\* A growing step that sends no other Accept keeps every accepted follower.
LEMMA AcceptedStays ==
  ASSUME TypeOK, Growing, AcceptedFollowerIsStored,
         \A m \in wire' : m.type = "Accept" => m \in wire
  PROVE  AcceptedFollowerIsStored'
<1> SUFFICES ASSUME NEW m \in wire, m.type = "Accept"
             PROVE  Joined(m.to, m.from)'
  BY DEF AcceptedFollowerIsStored, Joined
<1>1. Joined(m.to, m.from)
  BY DEF AcceptedFollowerIsStored, Joined
<1>2. m.to \in Remotes /\ m.from \in Locals
  BY DEF TypeOK, Deliveries
<1> QED BY <1>1, <1>2 DEF Growing

\* What a task knows stays true while others move.
LEMMA TaskStays ==
  ASSUME TypeOK, Growing, NEW t \in Tasks, TaskOK(t), task'[t] = task[t]
  PROVE  TaskOK(t)'
<1> USE DEF InboxStages, FollowStages
<1>1. InboxTask(t)'
  BY DEF TaskOK, InboxTask, Reaches
<1>2. AuthenticatedTask(t)'
  BY DEF TaskOK, AuthenticatedTask, Genuine, Growing
<1>3. ConfirmingTask(t)'
  BY DEF TaskOK, ConfirmingTask, receive_accept_follow
<1>4. AcceptingTask(t)'
  <2> SUFFICES ASSUME task[t].pc = "sendAccept"
               PROVE  Joined(task[t].remote.id, task[t].local)'
    BY DEF TaskOK, AcceptingTask, receive_follow, Joined, Heard, SameFollower, Reaches, Genuine
  <2>1. Joined(task[t].remote.id, task[t].local)
    BY DEF TaskOK, AcceptingTask
  <2>2. task[t].remote.id \in Remotes /\ task[t].local \in Locals
    BY DEF TaskOK, InboxTask, AuthenticatedTask, ActorDocs
  <2> QED BY <2>1, <2>2 DEF Growing
<1>5. FollowTask(t)'
  BY DEF TaskOK, FollowTask
<1>6. ResolvedTask(t)'
  BY DEF TaskOK, ResolvedTask
<1>7. RecordedTask(t)'
  BY IntentParts DEF TaskOK, RecordedTask, FollowTask, Growing
<1> QED BY <1>1, <1>2, <1>3, <1>4, <1>5, <1>6, <1>7 DEF TaskOK

\* An idle task knows nothing.
LEMMA IdleTask ==
  ASSUME NEW t \in Tasks, task'[t].pc = "idle"
  PROVE  TaskOK(t)'
BY DEF TaskOK, InboxTask, AuthenticatedTask, ConfirmingTask, AcceptingTask,
       FollowTask, ResolvedTask, RecordedTask, InboxStages, FollowStages

\* Idle is a task state.
LEMMA IdleType == Idle \in TaskStates /\ Idle.pc = "idle"
BY DEF Idle, TaskStates

\* A task that moves alone, in a step that grows, need only prove its own part.
LEMMA TaskMoves ==
  ASSUME TypeOK, TaskInv, Growing, NEW t \in Tasks, NEW new \in TaskStates,
         task' = [task EXCEPT ![t] = new],
         TaskOK(t)'
  PROVE  task' \in [Tasks -> TaskStates] /\ TaskInv'
<1>1. task' \in [Tasks -> TaskStates]
  BY DEF TypeOK
<1>2. ASSUME NEW s \in Tasks
      PROVE  TaskOK(s)'
  <2>1. CASE s = t
    BY <2>1
  <2>2. CASE s # t
    <3>1. task'[s] = task[s]
      BY <2>2 DEF TypeOK
    <3> QED BY <3>1, TaskStays DEF TaskInv
  <2> QED BY <2>1, <2>2
<1> QED BY <1>1, <1>2 DEF TaskInv

\* The invariants of the tables survive a step that leaves the tables alone.
LEMMA TablesStay ==
  ASSUME RowsIntended, SentInv, ConsentBacksAccepted, FollowerAsked,
         AcceptedFollowerIsStored,
         heard \subseteq heard', UNCHANGED <<store, wire>>
  PROVE  /\ RowsIntended'
         /\ SentInv'
         /\ ConsentBacksAccepted'
         /\ FollowerAsked'
         /\ AcceptedFollowerIsStored'
<1> USE DEF store
<1>1. RowsIntended'
  BY DEF RowsIntended, Intended
<1>2. SentInv'
  BY DEF SentInv, Intended
<1>3. ConsentBacksAccepted'
  BY DEF ConsentBacksAccepted, Consents, Genuine, Reaches
<1>4. FollowerAsked'
  BY HeardStays DEF FollowerAsked
<1>5. AcceptedFollowerIsStored'
  BY HeardStays DEF AcceptedFollowerIsStored
<1> QED BY <1>1, <1>2, <1>3, <1>4, <1>5

------------------------------------------------------------------------------
(* The invariant is inductive *)

\* The invariant holds initially.
LEMMA InitInv == Init => IInv
<1> SUFFICES ASSUME Init PROVE IInv
  OBVIOUS
<1>1. TypeOK
  BY IdleType DEF Init, TypeOK
<1>2. TaskInv
  BY DEF Init, TaskInv, TaskOK, InboxTask, AuthenticatedTask, ConfirmingTask, AcceptingTask,
         FollowTask, ResolvedTask, RecordedTask, InboxStages, FollowStages, Idle
<1>3. RowsIntended /\ SentInv
  BY DEF Init, RowsIntended, SentInv
<1>4. ConsentBacksAccepted /\ FollowerAsked /\ AcceptedFollowerIsStored
  BY DEF Init, ConsentBacksAccepted, FollowerAsked, AcceptedFollowerIsStored, NoRow
<1> QED BY <1>1, <1>2, <1>3, <1>4 DEF IInv

\* A step that only moves one task, and may record a request as heard.
LEMMA QuietMove ==
  ASSUME IInv, NEW t \in Tasks, NEW new \in TaskStates,
         task' = [task EXCEPT ![t] = new],
         heard \subseteq heard', heard' \subseteq Requests,
         UNCHANGED <<profile, store, wire>>,
         TaskOK(t)'
  PROVE  IInv'
<1>1. TypeOK /\ TaskInv
  BY DEF IInv
<1>2. Growing
  BY GrowingWithoutRemoval DEF store, SameFollower
<1>3. task' \in [Tasks -> TaskStates] /\ TaskInv'
  BY <1>1, <1>2, TaskMoves
<1>4. TypeOK'
  BY <1>1, <1>3 DEF TypeOK, store
<1>5. /\ RowsIntended' /\ SentInv' /\ ConsentBacksAccepted'
      /\ FollowerAsked' /\ AcceptedFollowerIsStored'
  BY TablesStay DEF IInv
<1> QED BY <1>3, <1>4, <1>5 DEF IInv

\* End keeps the invariant.
LEMMA EndInv ==
  ASSUME IInv, NEW t \in Tasks, End(t)
  PROVE  IInv'
<1>1. task'[t].pc = "idle"
  BY IdleType DEF End, IInv, TypeOK
<1>2. TaskOK(t)'
  BY <1>1, IdleTask
<1> QED BY <1>2, IdleType, QuietMove DEF End, IInv, TypeOK

\* ReceivePersonal keeps the invariant.
LEMMA ReceivePersonalInv ==
  ASSUME IInv, NEW t \in Tasks, NEW q \in Requests, ReceivePersonal(t, q)
  PROVE  IInv'
<1> DEFINE new == [Idle EXCEPT !.pc = "authenticate", !.job = q, !.local = q.inbox]
<1>1. new \in TaskStates
  BY DEF ReceivePersonal, Idle, TaskStates, InboxStages
<1>2. task' = [task EXCEPT ![t] = new] /\ task'[t] = new
  BY DEF ReceivePersonal, IInv, TypeOK
<1>3. TaskOK(t)'
  BY <1>2 DEF ReceivePersonal, Idle, TaskOK, InboxTask, Reaches, AuthenticatedTask,
     ConfirmingTask, AcceptingTask, FollowTask, ResolvedTask, RecordedTask, InboxStages,
     FollowStages
<1> QED BY <1>1, <1>2, <1>3, QuietMove DEF ReceivePersonal, IInv, TypeOK

\* The pending Follow that shared_inbox_target returns is a row of the table.
LEMMA SharedTarget ==
  ASSUME TypeOK, NEW q \in Requests, shared_inbox_target(q.act) # None
  PROVE  shared_inbox_target(q.act).pending \in PendingFollows \cup {None}
BY RequestParts, LoadPending DEF TypeOK, shared_inbox_target

\* ReceiveShared keeps the invariant.
LEMMA ReceiveSharedInv ==
  ASSUME IInv, NEW t \in Tasks, NEW q \in Requests, ReceiveShared(t, q)
  PROVE  IInv'
<1> DEFINE target == shared_inbox_target(q.act)
           new == [Idle EXCEPT !.pc = "authenticate", !.job = q,
                               !.local = target.local, !.pending = target.pending]
<1>1. target.local \in SharedInboxActors /\ target.local \in Locals
  BY InputsAssumption DEF ReceiveShared
<1>2. target.pending \in PendingFollows \cup {None}
  BY SharedTarget DEF ReceiveShared, IInv
<1>3. new \in TaskStates
  BY <1>1, <1>2 DEF Idle, TaskStates, InboxStages
<1>4. task' = [task EXCEPT ![t] = new] /\ task'[t] = new
  BY DEF ReceiveShared, IInv, TypeOK
<1>5. Reaches(q, target.local)
  BY <1>1 DEF ReceiveShared, Reaches
<1>6. /\ task'[t].job = q /\ task'[t].local = target.local
      /\ task'[t].pc = "authenticate"
  BY <1>4 DEF Idle
<1>7. heard' = heard /\ UNCHANGED <<profile, store, wire>>
  BY DEF ReceiveShared
<1> HIDE DEF target, new
<1>8. TaskOK(t)'
  BY <1>1, <1>5, <1>6, <1>7 DEF TaskOK, InboxTask, Reaches, AuthenticatedTask,
     ConfirmingTask, AcceptingTask, FollowTask, ResolvedTask, RecordedTask, InboxStages,
     FollowStages
<1> QED BY <1>3, <1>4, <1>7, <1>8, QuietMove DEF IInv, TypeOK

\* The document an inbox handler goes on with is the actor's own.
LEMMA AuthenticatedActor ==
  ASSUME TypeOK, NEW q \in Requests
  PROVE  /\ authenticated_actor(q) \in ActorDocs
         /\ authenticated_actor(q).id = q.act.actor
BY RequestParts DEF TypeOK, authenticated_actor, Published, ActorDocs

\* Authenticate keeps the invariant.
LEMMA AuthenticateInv ==
  ASSUME IInv, NEW t \in Tasks, Authenticate(t)
  PROVE  IInv'
<1> DEFINE q == task[t].job
           new == [task[t] EXCEPT !.pc = "dispatch", !.remote = authenticated_actor(q)]
<1>1. TypeOK /\ TaskOK(t) /\ task[t] \in TaskStates
  BY DEF IInv, TypeOK, TaskInv
<1>2. q \in Requests /\ task[t].local \in Locals /\ Reaches(q, task[t].local)
  BY <1>1 DEF Authenticate, TaskOK, InboxTask, InboxStages
<1>3. authenticated_actor(q) \in ActorDocs /\ authenticated_actor(q).id = q.act.actor
  BY <1>1, <1>2, AuthenticatedActor
<1>4. new \in TaskStates
  BY <1>1, <1>3 DEF TaskStates, InboxStages
<1>5. task' = [task EXCEPT ![t] = new] /\ task'[t] = new
  BY <1>1 DEF Authenticate, TypeOK
<1>6. Genuine(q) /\ heard' = heard \cup {q}
  BY DEF Authenticate, Genuine, verify_signed_request
<1>7. task'[t].job = q /\ task'[t].local = task[t].local
      /\ task'[t].remote = authenticated_actor(q) /\ task'[t].pc = "dispatch"
  BY <1>1, <1>5 DEF TaskStates
<1> HIDE DEF new
<1>8. TaskOK(t)'
  BY <1>2, <1>3, <1>6, <1>7 DEF TaskOK, InboxTask, Reaches, AuthenticatedTask, Genuine,
     ConfirmingTask, AcceptingTask, FollowTask, ResolvedTask, RecordedTask, InboxStages,
     FollowStages
<1>9. heard \subseteq heard' /\ heard' \subseteq Requests /\ UNCHANGED <<profile, store, wire>>
  BY <1>1, <1>2, <1>6 DEF Authenticate, TypeOK
<1> QED BY <1>4, <1>5, <1>8, <1>9, QuietMove

\* MatchAccept keeps the invariant.
LEMMA MatchAcceptInv ==
  ASSUME IInv, NEW t \in Tasks, MatchAccept(t)
  PROVE  IInv'
<1> DEFINE act == task[t].job.act
           pending == pending_for(t)
           new == [task[t] EXCEPT !.pc = "confirm", !.pending = pending]
<1>1. TypeOK /\ TaskOK(t) /\ task[t] \in TaskStates /\ task[t].pc = "dispatch"
  BY DEF IInv, TypeOK, TaskInv, MatchAccept
<1>2. task[t].job \in Requests /\ act.follow.id \in FollowIds
  BY <1>1, RequestParts DEF TaskOK, InboxTask, InboxStages
<1>3. pending \in PendingFollows
  <2>1. CASE task[t].pending # None
    BY <1>1, <2>1 DEF pending_for, TaskStates
  <2>2. CASE task[t].pending = None
    BY <1>1, <1>2, <2>2, LoadPending DEF pending_for, MatchAccept, TypeOK
  <2> QED BY <2>1, <2>2
<1>4. new \in TaskStates
  BY <1>1, <1>3 DEF TaskStates, InboxStages
<1>5. task' = [task EXCEPT ![t] = new] /\ task'[t] = new
  BY <1>1 DEF MatchAccept, TypeOK
<1> HIDE DEF pending
<1>6. /\ task'[t].job = task[t].job /\ task'[t].local = task[t].local
      /\ task'[t].remote = task[t].remote /\ task'[t].pc = "confirm"
      /\ task'[t].pending = pending
  <2>1. /\ new.job = task[t].job /\ new.local = task[t].local
        /\ new.remote = task[t].remote /\ new.pc = "confirm"
        /\ new.pending = pending
    BY <1>1 DEF TaskStates
  <2> QED BY <1>5, <2>1
<1>7. /\ act.type = "Accept" /\ act.object \in {"link", "Follow"}
      /\ receive_accept_follow(task[t].local, task[t].remote, pending, act)
      /\ heard' = heard /\ UNCHANGED <<profile, store, wire>>
  BY DEF MatchAccept, pending
<1> HIDE DEF new
<1>8. TaskOK(t)'
  BY <1>1, <1>3, <1>6, <1>7 DEF TaskOK, InboxTask, Reaches, AuthenticatedTask, Genuine,
     ConfirmingTask, receive_accept_follow, AcceptingTask, FollowTask, ResolvedTask,
     RecordedTask, InboxStages, FollowStages
<1> QED BY <1>1, <1>4, <1>5, <1>7, <1>8, QuietMove DEF TypeOK

\* BeginFollow keeps the invariant.
LEMMA BeginFollowInv ==
  ASSUME IInv, NEW t \in Tasks, NEW i \in Intents, BeginFollow(t, i)
  PROVE  IInv'
<1> DEFINE new == [Idle EXCEPT !.pc = "resolve", !.job = i, !.local = i.local]
<1>1. new \in TaskStates
  BY IntentParts DEF Idle, TaskStates, FollowStages
<1>2. task' = [task EXCEPT ![t] = new] /\ task'[t] = new
  BY DEF BeginFollow, IInv, TypeOK
<1>3. task'[t].pc = "resolve" /\ task'[t].job = i /\ task'[t].local = i.local
  BY <1>2 DEF Idle
<1> HIDE DEF new
<1>4. TaskOK(t)'
  BY <1>3 DEF TaskOK, InboxTask, AuthenticatedTask, ConfirmingTask, AcceptingTask,
     FollowTask, ResolvedTask, RecordedTask, InboxStages, FollowStages
<1> QED BY <1>1, <1>2, <1>4, QuietMove DEF BeginFollow, IInv, TypeOK

\* ResolveTarget keeps the invariant.
LEMMA ResolveTargetInv ==
  ASSUME IInv, NEW t \in Tasks, ResolveTarget(t)
  PROVE  IInv'
<1> DEFINE doc == Published(task[t].job.remote)
           new == [task[t] EXCEPT !.pc = "storePending", !.remote = doc]
<1>1. TypeOK /\ TaskOK(t) /\ task[t] \in TaskStates /\ task[t].pc = "resolve"
  BY DEF IInv, TypeOK, TaskInv, ResolveTarget
<1>2. task[t].job \in Intents /\ task[t].local = task[t].job.local
  BY <1>1 DEF TaskOK, FollowTask, FollowStages
<1>3. doc \in ActorDocs /\ doc.id = task[t].job.remote
  BY <1>1, <1>2, IntentParts DEF Published, ActorDocs, TypeOK
<1> HIDE DEF doc
<1>4. new \in TaskStates
  BY <1>1, <1>3 DEF TaskStates, FollowStages
<1>5. task' = [task EXCEPT ![t] = new] /\ task'[t] = new
  BY <1>1 DEF ResolveTarget, TypeOK, doc
<1>6. /\ task'[t].job = task[t].job /\ task'[t].local = task[t].local
      /\ task'[t].remote = doc /\ task'[t].pc = "storePending"
  <2>1. /\ new.job = task[t].job /\ new.local = task[t].local
        /\ new.remote = doc /\ new.pc = "storePending"
    BY <1>1 DEF TaskStates
  <2> QED BY <1>5, <2>1
<1> HIDE DEF new
<1>7. TaskOK(t)'
  BY <1>2, <1>3, <1>6 DEF TaskOK, InboxTask, AuthenticatedTask, ConfirmingTask,
     AcceptingTask, FollowTask, ResolvedTask, RecordedTask, InboxStages, FollowStages
<1> QED BY <1>1, <1>4, <1>5, <1>7, QuietMove DEF ResolveTarget, TypeOK

\* ConfirmPending keeps the invariant.
LEMMA ConfirmPendingInv ==
  ASSUME IInv, NEW t \in Tasks, ConfirmPending(t)
  PROVE  IInv'
<1> DEFINE pending == task[t].pending
           f == pending.follow
<1>1. TypeOK /\ TaskInv /\ TaskOK(t) /\ task[t].pc = "confirm"
  BY DEF IInv, TaskInv, ConfirmPending
<1>2. pending \in PendingFollows /\ f \in FollowIds
  BY <1>1 DEF TaskOK, ConfirmingTask, PendingFollows
<1>3. \/ outbound' = outbound
      \/ /\ outbound[f] = [local  |-> pending.local,
                           remote |-> pending.remote,
                           state  |-> "pending"]
         /\ outbound' = [outbound EXCEPT ![f].state = "accepted"]
  BY <1>1, <1>2, ConfirmRows DEF ConfirmPending, TypeOK
<1>4. \A g \in FollowIds :
        /\ outbound[g] # NoRow => outbound'[g] # NoRow
        /\ outbound'[g] # NoRow => outbound[g] # NoRow
        /\ outbound'[g] # NoRow =>
             /\ outbound'[g].local = outbound[g].local
             /\ outbound'[g].remote = outbound[g].remote
        /\ outbound'[g] \in OutboundRows \cup {NoRow}
  BY <1>1, <1>2, <1>3 DEF TypeOK, OutboundRows, NoRow, PendingFollows
<1>5. UNCHANGED <<profile, followers, heard, wire>>
  BY DEF ConfirmPending
<1>6. Growing
  BY <1>4, <1>5, GrowingWithoutRemoval DEF SameFollower
<1>7. task' = [task EXCEPT ![t] = Idle] /\ TaskOK(t)'
  BY <1>1, IdleType, IdleTask DEF ConfirmPending, TypeOK
<1>8. task' \in [Tasks -> TaskStates] /\ TaskInv'
  BY <1>1, <1>6, <1>7, IdleType, TaskMoves
<1>9. TypeOK'
  <2>1. outbound' \in [FollowIds -> OutboundRows \cup {NoRow}]
    BY <1>1, <1>3, <1>4 DEF TypeOK
  <2> QED BY <1>1, <1>5, <1>8, <2>1 DEF TypeOK
<1>10. RowsIntended'
  BY <1>4 DEF IInv, RowsIntended, Intended
<1>11. SentInv'
  BY <1>1, <1>4, <1>5 DEF IInv, SentInv, Intended, TypeOK, Deliveries
<1>12. ConsentBacksAccepted'
  <2> SUFFICES ASSUME NEW g \in FollowIds, outbound'[g].state = "accepted"
               PROVE  \E r \in heard' : Consents(r, g)'
    BY DEF ConsentBacksAccepted
  <2>1. CASE outbound[g].state = "accepted"
    <3>1. PICK r \in heard : Consents(r, g)
      BY <2>1 DEF IInv, ConsentBacksAccepted
    <3>2. outbound'[g] = outbound[g]
      BY <1>1, <1>2, <1>3, <2>1 DEF TypeOK
    <3> QED BY <1>5, <3>1, <3>2 DEF Consents, Genuine, Reaches
  <2>2. CASE outbound[g].state # "accepted"
    <3>1. g = f /\ outbound'[g].local = pending.local
                /\ outbound'[g].remote = pending.remote
      BY <1>1, <1>2, <1>3, <2>2 DEF TypeOK
    <3>2. PICK q \in heard : q = task[t].job
      BY <1>1 DEF TaskOK, AuthenticatedTask
    <3>3. Genuine(q) /\ Reaches(q, task[t].local)
      BY <1>1, <3>2 DEF TaskOK, InboxTask, AuthenticatedTask, InboxStages
    <3>4. /\ q.act.type = "Accept"
          /\ q.act.object \in {"link", "Follow"}
          /\ receive_accept_follow(task[t].local, task[t].remote, pending, q.act)
      BY <1>1, <3>2 DEF TaskOK, ConfirmingTask
    <3>5. Consents(q, g)'
      BY <3>1, <3>3, <3>4 DEF Consents, Genuine, Reaches, receive_accept_follow
    <3> QED BY <1>5, <3>5
  <2> QED BY <2>1, <2>2
<1>13. FollowerAsked' /\ AcceptedFollowerIsStored'
  BY <1>5, HeardStays DEF IInv, FollowerAsked, AcceptedFollowerIsStored
<1> QED BY <1>8, <1>9, <1>10, <1>11, <1>12, <1>13 DEF IInv

\* RemoveFollower keeps the invariant.
LEMMA RemoveFollowerInv ==
  ASSUME IInv, NEW t \in Tasks, RemoveFollower(t)
  PROVE  IInv'
<1> DEFINE follower == task[t].remote.id
           following == task[t].local
<1>1. TypeOK /\ TaskInv /\ TaskOK(t) /\ task[t].pc = "dispatch"
  BY DEF IInv, TaskInv, RemoveFollower
<1>2. PICK q \in heard : q = task[t].job
  BY <1>1 DEF TaskOK, AuthenticatedTask
<1>3. /\ UNCHANGED <<profile, outbound, heard, wire>>
      /\ followers' = {row \in followers : ~ SameFollower(row, follower, following)}
  BY DEF RemoveFollower, remove_follower
<1>4. Heard("Undo", follower, following)
  <2>1. Genuine(q) /\ Reaches(q, following) /\ q.act.actor = follower
    BY <1>1, <1>2 DEF TaskOK, InboxTask, AuthenticatedTask, InboxStages
  <2>2. q.act.type = "Undo" /\ receive_undo_follow(following, task[t].remote, q.act)
    BY <1>2 DEF RemoveFollower
  <2> QED BY <2>1, <2>2 DEF Heard, receive_undo_follow
<1> HIDE DEF follower, following
<1>5. Growing
  <2> SUFFICES ASSUME NEW a \in Remotes, NEW l \in Locals, Joined(a, l)
               PROVE  Joined(a, l)'
    BY <1>3 DEF Growing
  <2>1. CASE Heard("Undo", a, l)
    BY <1>3, <2>1, HeardStays DEF Joined
  <2>2. CASE \E row \in followers : SameFollower(row, a, l)
    <3>1. CASE a = follower /\ l = following
      <4>1. Heard("Undo", a, l)
        BY <1>4, <3>1
      <4> QED BY <1>3, <4>1, HeardStays DEF Joined
    <3>2. CASE ~ (a = follower /\ l = following)
      BY <1>3, <2>2, <3>2 DEF Joined, SameFollower
    <3> QED BY <3>1, <3>2
  <2> QED BY <2>1, <2>2 DEF Joined
<1>6. task' = [task EXCEPT ![t] = Idle] /\ TaskOK(t)'
  BY <1>1, IdleType, IdleTask DEF RemoveFollower, TypeOK
<1>7. task' \in [Tasks -> TaskStates] /\ TaskInv'
  BY <1>1, <1>5, <1>6, IdleType, TaskMoves
<1>8. TypeOK'
  BY <1>1, <1>3, <1>7 DEF TypeOK
<1>9. RowsIntended' /\ SentInv'
  BY <1>3 DEF IInv, RowsIntended, SentInv, Intended
<1>10. ConsentBacksAccepted'
  BY <1>3 DEF IInv, ConsentBacksAccepted, Consents, Genuine, Reaches
<1>11. FollowerAsked'
  BY <1>3, HeardStays DEF IInv, FollowerAsked
<1>12. AcceptedFollowerIsStored'
  BY <1>1, <1>3, <1>5, AcceptedStays DEF IInv
<1> QED BY <1>7, <1>8, <1>9, <1>10, <1>11, <1>12 DEF IInv

\* StoreFollower keeps the invariant.
LEMMA StoreFollowerInv ==
  ASSUME IInv, NEW t \in Tasks, StoreFollower(t)
  PROVE  IInv'
<1> DEFINE doc == task[t].remote
           following == task[t].local
           row == [follower |-> doc.id, following |-> following, ver |-> doc.ver]
           new == [task[t] EXCEPT !.pc = "sendAccept"]
<1>1. TypeOK /\ TaskInv /\ TaskOK(t) /\ task[t] \in TaskStates /\ task[t].pc = "dispatch"
  BY DEF IInv, TaskInv, TypeOK, StoreFollower
<1>2. PICK q \in heard : q = task[t].job
  BY <1>1 DEF TaskOK, AuthenticatedTask
<1>3. /\ UNCHANGED <<profile, outbound, heard, wire>>
      /\ followers' = {r \in followers : ~ SameFollower(r, doc.id, following)} \cup {row}
  BY DEF StoreFollower, store_follower
<1>4. doc \in ActorDocs /\ following \in Locals /\ q \in Requests
  BY <1>1, <1>2 DEF TaskOK, InboxTask, AuthenticatedTask, InboxStages
<1>5. Heard("Follow", doc.id, following)
  <2>1. Genuine(q) /\ Reaches(q, following) /\ q.act.actor = doc.id
    BY <1>1, <1>2 DEF TaskOK, InboxTask, AuthenticatedTask, InboxStages
  <2>2. q.act.type = "Follow" /\ receive_follow(following, doc, q.act)
    BY <1>2 DEF StoreFollower
  <2>3. q.act.follow.actor = q.act.actor
    BY <1>4, <2>2, RequestParts
  <2> QED BY <2>1, <2>2, <2>3 DEF Heard, receive_follow
<1>6. task' = [task EXCEPT ![t] = new] /\ task'[t] = new /\ new \in TaskStates
  BY <1>1 DEF StoreFollower, TypeOK, TaskStates, InboxStages
<1>7. /\ task'[t].pc = "sendAccept" /\ task'[t].job = task[t].job
      /\ task'[t].local = following /\ task'[t].remote = doc
  BY <1>1, <1>6 DEF TaskStates
<1>8. row \in followers' /\ SameFollower(row, doc.id, following)
  BY <1>3 DEF SameFollower
<1>9. row \in FollowerRows
  BY <1>4 DEF FollowerRows, ActorDocs
<1> HIDE DEF doc, following, row, new
<1>10. Growing
  <2>1. \A r \in followers : \E r2 \in followers' : SameFollower(r2, r.follower, r.following)
    BY <1>3, <1>8 DEF SameFollower
  <2> QED BY <1>3, <2>1, GrowingWithoutRemoval
<1>11. TaskOK(t)'
  <2>1. AcceptingTask(t)'
    BY <1>7, <1>8 DEF AcceptingTask, Joined, StoreFollower, receive_follow, doc, following
  <2> QED BY <1>1, <1>3, <1>7, <2>1 DEF TaskOK, InboxTask, AuthenticatedTask, Genuine, Reaches,
     ConfirmingTask, FollowTask, ResolvedTask, RecordedTask, InboxStages, FollowStages,
     doc, following
<1>12. task' \in [Tasks -> TaskStates] /\ TaskInv'
  BY <1>1, <1>6, <1>10, <1>11, TaskMoves
<1>13. TypeOK'
  BY <1>1, <1>3, <1>9, <1>12 DEF TypeOK
<1>14. RowsIntended' /\ SentInv'
  BY <1>3 DEF IInv, RowsIntended, SentInv, Intended
<1>15. ConsentBacksAccepted'
  BY <1>3 DEF IInv, ConsentBacksAccepted, Consents, Genuine, Reaches
<1>16. FollowerAsked'
  <2> SUFFICES ASSUME NEW r \in followers'
               PROVE  Heard("Follow", r.follower, r.following)'
    BY DEF FollowerAsked
  <2>1. Heard("Follow", r.follower, r.following)
    BY <1>3, <1>5 DEF IInv, FollowerAsked, row
  <2> QED BY <1>3, <2>1 DEF Heard, Reaches, Genuine
<1>17. AcceptedFollowerIsStored'
  BY <1>1, <1>3, <1>10, AcceptedStays DEF IInv
<1> QED BY <1>12, <1>13, <1>14, <1>15, <1>16, <1>17 DEF IInv

\* SendAccept keeps the invariant.
LEMMA SendAcceptInv ==
  ASSUME IInv, NEW t \in Tasks, SendAccept(t)
  PROVE  IInv'
<1> DEFINE m == follow_accept(task[t].local, task[t].remote, task[t].job.act)
<1>1. TypeOK /\ TaskInv /\ TaskOK(t) /\ task[t].pc = "sendAccept"
  BY DEF IInv, TaskInv, SendAccept
<1>2. wire' = wire \cup {m} /\ UNCHANGED <<profile, followers, outbound, heard>>
  BY DEF SendAccept, send_activity, store
<1>3. Joined(m.to, m.from) /\ m.type = "Accept" /\ m \in Deliveries
  <2>1. /\ task[t].local \in Locals
        /\ task[t].remote \in ActorDocs
        /\ task[t].job \in Requests
    BY <1>1 DEF TaskOK, InboxTask, AuthenticatedTask, InboxStages
  <2>2. task[t].job.act.follow.id \in FollowIds
    BY <2>1, RequestParts
  <2> QED BY <1>1, <2>1, <2>2 DEF TaskOK, AcceptingTask, follow_accept, Deliveries, ActorDocs
<1> HIDE DEF m
<1>4. Growing
  BY <1>2, GrowingWithoutRemoval DEF SameFollower
<1>5. task' = [task EXCEPT ![t] = Idle] /\ TaskOK(t)'
  BY <1>1, IdleType, IdleTask DEF SendAccept, TypeOK
<1>6. task' \in [Tasks -> TaskStates] /\ TaskInv'
  BY <1>1, <1>4, <1>5, IdleType, TaskMoves
<1>7. TypeOK'
  BY <1>1, <1>2, <1>3, <1>6 DEF TypeOK
<1>8. RowsIntended' /\ SentInv'
  BY <1>2, <1>3 DEF IInv, RowsIntended, SentInv, Intended
<1>9. ConsentBacksAccepted'
  BY <1>2 DEF IInv, ConsentBacksAccepted, Consents, Genuine, Reaches
<1>10. FollowerAsked'
  BY <1>2, HeardStays DEF IInv, FollowerAsked
<1>11. AcceptedFollowerIsStored'
  <2> SUFFICES ASSUME NEW n \in wire', n.type = "Accept"
               PROVE  Joined(n.to, n.from)
    BY <1>2 DEF AcceptedFollowerIsStored, Joined, Heard, Reaches, Genuine
  <2> QED BY <1>2, <1>3 DEF IInv, AcceptedFollowerIsStored, Joined
<1> QED BY <1>6, <1>7, <1>8, <1>9, <1>10, <1>11 DEF IInv

\* StorePending keeps the invariant.
LEMMA StorePendingInv ==
  ASSUME IInv, NEW t \in Tasks, StorePending(t)
  PROVE  IInv'
<1> DEFINE pending == outcome(t).relationship
           f == task[t].job.follow
           new == [task[t] EXCEPT !.pc = "sendFollow"]
<1>1. TypeOK /\ TaskInv /\ TaskOK(t) /\ task[t] \in TaskStates /\ task[t].pc = "storePending"
  BY DEF IInv, TaskInv, TypeOK, StorePending
<1>2. /\ task[t].job \in Intents /\ task[t].local = task[t].job.local
      /\ task[t].remote \in ActorDocs /\ task[t].remote.id = task[t].job.remote
  BY <1>1 DEF TaskOK, FollowTask, ResolvedTask, FollowStages
<1>3. /\ pending \in PendingFollows /\ pending.follow = f /\ f \in FollowIds
      /\ Intended(pending.local, pending.remote.id, f)
  BY <1>2, IntentParts DEF outcome, create_follow, PendingFollows, Intended
<1>4. /\ UNCHANGED <<profile, followers, heard, wire>>
      /\ outbound' = store_pending_follow(outbound, pending)
  BY DEF StorePending
<1> HIDE DEF pending, f
<1>5. /\ outbound' \in [FollowIds -> OutboundRows \cup {NoRow}]
      /\ outbound'[f] # NoRow
      /\ \A g \in FollowIds : g # f => outbound'[g] = outbound[g]
      /\ outbound[f].state = "accepted" => outbound' = outbound
      /\ outbound[f].state # "accepted" =>
           outbound'[f] = [local  |-> pending.local,
                           remote |-> pending.remote,
                           state  |-> "pending"]
  <2>1. outbound'[f] \in OutboundRows
    BY <1>1, <1>3, <1>4, StorePendingRows DEF TypeOK
  <2>2. NoRow \notin OutboundRows
    BY DEF NoRow, OutboundRows
  <2> QED BY <1>1, <1>3, <1>4, <2>1, <2>2, StorePendingRows DEF TypeOK
<1>6. task' = [task EXCEPT ![t] = new] /\ task'[t] = new /\ new \in TaskStates
  BY <1>1 DEF StorePending, TypeOK, TaskStates, FollowStages
<1>7. /\ task'[t].pc = "sendFollow" /\ task'[t].job = task[t].job
      /\ task'[t].local = task[t].local /\ task'[t].remote = task[t].remote
  BY <1>1, <1>6 DEF TaskStates
<1> HIDE DEF new
<1>8. Growing
  BY <1>4, <1>5, GrowingWithoutRemoval DEF SameFollower
<1>9. TaskOK(t)'
  BY <1>2, <1>5, <1>7 DEF TaskOK, InboxTask, AuthenticatedTask, ConfirmingTask,
     AcceptingTask, FollowTask, ResolvedTask, RecordedTask, InboxStages, FollowStages, f
<1>10. task' \in [Tasks -> TaskStates] /\ TaskInv'
  BY <1>1, <1>6, <1>8, <1>9, TaskMoves
<1>11. TypeOK'
  BY <1>1, <1>4, <1>5, <1>10 DEF TypeOK
<1>12. RowsIntended'
  BY <1>3, <1>5 DEF IInv, RowsIntended, Intended
<1>13. SentInv'
  BY <1>1, <1>4, <1>8 DEF IInv, SentInv, Intended, Growing, TypeOK, Deliveries
<1>14. ConsentBacksAccepted'
  <2> SUFFICES ASSUME NEW g \in FollowIds, outbound'[g].state = "accepted"
               PROVE  \E q \in heard' : Consents(q, g)'
    BY DEF ConsentBacksAccepted
  <2>1. outbound'[g] = outbound[g]
    BY <1>5
  <2>2. PICK q \in heard : Consents(q, g)
    BY <2>1 DEF IInv, ConsentBacksAccepted
  <2> QED BY <1>4, <2>1, <2>2 DEF Consents, Genuine, Reaches
<1>15. FollowerAsked' /\ AcceptedFollowerIsStored'
  BY <1>4, HeardStays DEF IInv, FollowerAsked, AcceptedFollowerIsStored
<1> QED BY <1>10, <1>11, <1>12, <1>13, <1>14, <1>15 DEF IInv

\* SendFollow keeps the invariant.
LEMMA SendFollowInv ==
  ASSUME IInv, NEW t \in Tasks, SendFollow(t)
  PROVE  IInv'
<1> DEFINE m == outcome(t).activity
<1>1. TypeOK /\ TaskInv /\ TaskOK(t) /\ task[t].pc = "sendFollow"
  BY DEF IInv, TaskInv, SendFollow
<1>2. wire' = wire \cup {m} /\ UNCHANGED <<profile, followers, outbound, heard>>
  BY DEF SendFollow, send_activity, store
<1>3. /\ m.type = "Follow" /\ m \in Deliveries
      /\ outbound[m.follow] # NoRow
      /\ Intended(m.from, m.to, m.follow)
  <2>1. /\ task[t].job \in Intents /\ task[t].local = task[t].job.local
        /\ task[t].remote.id = task[t].job.remote
        /\ outbound[task[t].job.follow] # NoRow
    BY <1>1 DEF TaskOK, FollowTask, ResolvedTask, RecordedTask, FollowStages
  <2> QED BY <2>1, IntentParts DEF outcome, create_follow, Deliveries, Intended
<1> HIDE DEF m
<1>4. Growing
  BY <1>2, GrowingWithoutRemoval DEF SameFollower
<1>5. task' = [task EXCEPT ![t] = Idle] /\ TaskOK(t)'
  BY <1>1, IdleType, IdleTask DEF SendFollow, TypeOK
<1>6. task' \in [Tasks -> TaskStates] /\ TaskInv'
  BY <1>1, <1>4, <1>5, IdleType, TaskMoves
<1>7. TypeOK'
  BY <1>1, <1>2, <1>3, <1>6 DEF TypeOK
<1>8. RowsIntended' /\ SentInv'
  BY <1>2, <1>3 DEF IInv, RowsIntended, SentInv, Intended
<1>9. ConsentBacksAccepted' /\ FollowerAsked'
  BY <1>2, HeardStays DEF IInv, ConsentBacksAccepted, Consents, Genuine, Reaches, FollowerAsked
<1>10. AcceptedFollowerIsStored'
  BY <1>1, <1>2, <1>3, <1>4, AcceptedStays DEF IInv
<1> QED BY <1>6, <1>7, <1>8, <1>9, <1>10 DEF IInv

\* Crash keeps the invariant.
LEMMA CrashInv ==
  ASSUME IInv, Crash
  PROVE  IInv'
<1>1. TypeOK /\ UNCHANGED <<profile, followers, outbound, heard, wire>>
  BY DEF IInv, Crash, store
<1>2. \A t \in Tasks : task'[t] = Idle
  BY DEF Crash
<1>3. TaskInv'
  BY <1>2, IdleType, IdleTask DEF TaskInv
<1>4. TypeOK'
  BY <1>1, IdleType DEF Crash, TypeOK
<1>5. /\ RowsIntended' /\ SentInv' /\ ConsentBacksAccepted'
      /\ FollowerAsked' /\ AcceptedFollowerIsStored'
  BY <1>1, TablesStay DEF IInv, store
<1> QED BY <1>3, <1>4, <1>5 DEF IInv

\* Republish keeps the invariant.
LEMMA RepublishInv ==
  ASSUME IInv, NEW r \in Remotes, Republish(r)
  PROVE  IInv'
<1>1. TypeOK /\ TaskInv /\ UNCHANGED <<followers, outbound, task, heard, wire>>
  BY DEF IInv, Republish, store
<1>2. TypeOK'
  BY <1>1 DEF Republish, TypeOK
<1>3. Growing
  BY <1>1, GrowingWithoutRemoval DEF SameFollower
<1>4. TaskInv'
  BY <1>1, <1>3, TaskStays DEF TaskInv
<1>5. /\ RowsIntended' /\ SentInv' /\ ConsentBacksAccepted'
      /\ FollowerAsked' /\ AcceptedFollowerIsStored'
  BY <1>1, TablesStay DEF IInv, store
<1> QED BY <1>2, <1>4, <1>5 DEF IInv

\* A stuttering step keeps the invariant.
LEMMA StutterInv ==
  ASSUME IInv, UNCHANGED vars
  PROVE  IInv'
<1>1. TypeOK /\ TaskInv /\ UNCHANGED <<profile, followers, outbound, task, heard, wire>>
  BY DEF IInv, vars, store
<1>2. TypeOK'
  BY <1>1 DEF TypeOK
<1>3. Growing
  BY <1>1, GrowingWithoutRemoval DEF SameFollower
<1>4. TaskInv'
  BY <1>1, <1>3, TaskStays DEF TaskInv
<1>5. /\ RowsIntended' /\ SentInv' /\ ConsentBacksAccepted'
      /\ FollowerAsked' /\ AcceptedFollowerIsStored'
  BY <1>1, TablesStay DEF IInv, store
<1> QED BY <1>2, <1>4, <1>5 DEF IInv

\* Every step keeps the invariant.
LEMMA NextInv == IInv /\ [Next]_vars => IInv'
<1> SUFFICES ASSUME IInv, [Next]_vars PROVE IInv'
  OBVIOUS
<1>1. ASSUME NEW t \in Tasks, Arrive(t) PROVE IInv'
  BY <1>1, ReceivePersonalInv, ReceiveSharedInv, BeginFollowInv DEF Arrive
<1>2. ASSUME NEW t \in Tasks, Step(t) PROVE IInv'
  <2>1. CASE Authenticate(t)   BY <2>1, AuthenticateInv
  <2>2. CASE MatchAccept(t)    BY <2>2, MatchAcceptInv
  <2>3. CASE ConfirmPending(t) BY <2>3, ConfirmPendingInv
  <2>4. CASE RemoveFollower(t) BY <2>4, RemoveFollowerInv
  <2>5. CASE StoreFollower(t)  BY <2>5, StoreFollowerInv
  <2>6. CASE SendAccept(t)     BY <2>6, SendAcceptInv
  <2>7. CASE ResolveTarget(t)  BY <2>7, ResolveTargetInv
  <2>8. CASE StorePending(t)   BY <2>8, StorePendingInv
  <2>9. CASE SendFollow(t)     BY <2>9, SendFollowInv
  <2> QED BY <1>2, <2>1, <2>2, <2>3, <2>4, <2>5, <2>6, <2>7, <2>8, <2>9 DEF Step
<1>3. ASSUME NEW t \in Tasks, End(t) PROVE IInv'
  BY <1>3, EndInv
<1>4. CASE Crash
  BY <1>4, CrashInv
<1>5. ASSUME NEW r \in Remotes, Republish(r) PROVE IInv'
  BY <1>5, RepublishInv
<1>6. CASE UNCHANGED vars
  BY <1>6, StutterInv
<1> QED BY <1>1, <1>2, <1>3, <1>4, <1>5, <1>6 DEF Next

\* Every reachable state satisfies the inductive invariant.
THEOREM Invariance == Spec => []IInv
BY InitInv, NextInv, PTL DEF Spec

------------------------------------------------------------------------------
(* The theorems *)

\* The tables, the tasks' records and the histories are what their types say:
\* no handler reaches a storage call or a delivery with a value it lacks.
THEOREM TypeCorrect == Spec => []TypeOK
<1>1. IInv => TypeOK
  BY DEF IInv
<1> QED BY <1>1, Invariance, PTL

\* Whatever tasks, ids and documents there are, an accepted outbound Follow was
\* consented to by its remote actor.
THEOREM Consent == Spec => []ConsentBacksAccepted
<1>1. IInv => ConsentBacksAccepted
  BY DEF IInv
<1> QED BY <1>1, Invariance, PTL

\* Every delivered Follow has been recorded first, under its own target unless
\* its id was used for several.
THEOREM Recorded == Spec => []SentFollowIsRecorded
<1>1. IInv => SentFollowIsRecorded
  <2> SUFFICES ASSUME IInv, NEW m \in wire, m.type = "Follow"
               PROVE  /\ outbound[m.follow] # NoRow
                      /\ OneTarget(m.follow) =>
                           /\ outbound[m.follow].local = m.from
                           /\ outbound[m.follow].remote.id = m.to
    BY DEF SentFollowIsRecorded
  <2>1. outbound[m.follow] # NoRow /\ Intended(m.from, m.to, m.follow)
    BY DEF IInv, SentInv
  <2>2. m.follow \in FollowIds
    BY DEF IInv, TypeOK, Deliveries
  <2>3. Intended(outbound[m.follow].local, outbound[m.follow].remote.id, m.follow)
    BY <2>1, <2>2 DEF IInv, RowsIntended
  <2> QED BY <2>1, <2>3 DEF OneTarget, Intended
<1> QED BY <1>1, Invariance, PTL

\* Every stored follower has asked for it.
THEOREM Asked == Spec => []FollowerAsked
<1>1. IInv => FollowerAsked
  BY DEF IInv
<1> QED BY <1>1, Invariance, PTL

\* Every accepted follower is stored, until it undoes its Follow.
THEOREM Stored == Spec => []AcceptedFollowerIsStored
<1>1. IInv => AcceptedFollowerIsStored
  BY DEF IInv
<1> QED BY <1>1, Invariance, PTL

------------------------------------------------------------------------------
(* FederServer implements FollowRelationships *)

\* The consents a server has heard, as the abstract specification sees them.
Consented ==
  {<<q.act.follow.id, q.act.actor>> : q \in {r \in heard : r.act.type = "Accept"}}

\* Only authentication changes what was heard; it is a consent or a stutter.
LEMMA AuthenticateConsents ==
  ASSUME IInv, NEW t \in Tasks, Authenticate(t)
  PROVE  [Relationships!Next]_Relationships!vars
<1> DEFINE q == task[t].job
<1>1. TypeOK /\ TaskOK(t)
  BY DEF IInv, TaskInv
<1>2. q \in Requests /\ q.act.follow.id \in FollowIds /\ q.act.actor \in Remotes
  BY <1>1, RequestParts DEF Authenticate, TaskOK, InboxTask, InboxStages
<1>3. heard' = heard \cup {q} /\ outbound' = outbound
  BY DEF Authenticate, store
<1> HIDE DEF q
<1>4. CASE q.act.type = "Accept"
  <2>1. Consented' = Consented \cup {<<q.act.follow.id, q.act.actor>>}
    BY <1>3, <1>4 DEF Consented
  <2>2. PICK f \in FollowIds, actor \in Remotes :
           f = q.act.follow.id /\ actor = q.act.actor
    BY <1>2
  <2>3. Relationships!Consent(f, actor)
    BY <1>3, <2>1, <2>2 DEF Relationships!Consent, Consented
  <2> QED BY <2>3 DEF Relationships!Next
<1>5. CASE q.act.type # "Accept"
  <2>1. Consented' = Consented
    BY <1>3, <1>5 DEF Consented
  <2> QED BY <1>3, <2>1 DEF Relationships!vars, Consented
<1> QED BY <1>4, <1>5

\* Confirming establishes the relationship that was consented to, or changes
\* nothing: the row must still be the one the Accept was matched with.
LEMMA ConfirmEstablishes ==
  ASSUME IInv, NEW t \in Tasks, ConfirmPending(t)
  PROVE  [Relationships!Next]_Relationships!vars
<1> DEFINE pending == task[t].pending
           f == pending.follow
<1>1. TypeOK /\ TaskOK(t)
  BY DEF IInv, TaskInv
<1>2. /\ pending \in PendingFollows /\ f \in FollowIds
      /\ task[t].job \in heard /\ task[t].job.act.type = "Accept"
      /\ task[t].job.act.follow.id = f
      /\ task[t].job.act.actor = pending.remote.id
  BY <1>1 DEF ConfirmPending, TaskOK, ConfirmingTask, AuthenticatedTask, PendingFollows,
     receive_accept_follow
<1>3. <<f, pending.remote.id>> \in Consented
  BY <1>2 DEF Consented
<1>4. heard' = heard /\ Consented' = Consented
  BY DEF ConfirmPending, Consented
<1>5. \/ outbound' = outbound
      \/ /\ outbound[f] = [local  |-> pending.local,
                           remote |-> pending.remote,
                           state  |-> "pending"]
         /\ outbound' = [outbound EXCEPT ![f].state = "accepted"]
  BY <1>1, <1>2, ConfirmRows DEF ConfirmPending, TypeOK
<1> HIDE DEF pending, f
<1>6. CASE outbound' = outbound
  BY <1>4, <1>6 DEF Relationships!vars, Consented
<1>7. CASE outbound' # outbound
  <2>1. Relationships!Establish(f)
    BY <1>3, <1>4, <1>5, <1>7 DEF Relationships!Establish, Consented
  <2> QED BY <1>2, <2>1 DEF Relationships!Next
<1> QED BY <1>6, <1>7

\* Storing a pending Follow proposes a relationship, or changes nothing.
LEMMA StoreProposes ==
  ASSUME IInv, NEW t \in Tasks, StorePending(t)
  PROVE  [Relationships!Next]_Relationships!vars
<1> DEFINE f == task[t].job.follow
<1>1. TypeOK /\ TaskOK(t)
  BY DEF IInv, TaskInv
<1>2. /\ f \in FollowIds /\ task[t].local \in Locals /\ task[t].remote \in ActorDocs
  BY <1>1, IntentParts DEF StorePending, TaskOK, FollowTask, ResolvedTask, FollowStages
<1>3. heard' = heard /\ Consented' = Consented
  BY DEF StorePending, Consented
<1>4. outbound' = IF outbound[f].state = "accepted"
                    THEN outbound
                    ELSE [outbound EXCEPT ![f] = [local  |-> task[t].local,
                                                  remote |-> task[t].remote,
                                                  state  |-> "pending"]]
  BY DEF StorePending, outcome, create_follow, store_pending_follow
<1> HIDE DEF f
<1>5. CASE outbound[f].state = "accepted"
  BY <1>3, <1>4, <1>5 DEF Relationships!vars, Consented
<1>6. CASE outbound[f].state # "accepted"
  <2>1. PICK g \in FollowIds, local \in Locals, remote \in ActorDocs :
           g = f /\ local = task[t].local /\ remote = task[t].remote
    BY <1>2
  <2>2. Relationships!Propose(g, local, remote)
    BY <1>3, <1>4, <1>6, <2>1 DEF Relationships!Propose, Consented
  <2> QED BY <2>2 DEF Relationships!Next, Relationships!ActorDocs, ActorDocs
<1> QED BY <1>5, <1>6

\* The handlers keep the promise of FollowRelationships under every
\* interleaving, repetition and crash.
THEOREM Implementation == Spec => ImplementsRelationships
<1>1. Init => Relationships!Init
  BY DEF Init, Relationships!Init, Relationships!NoRow, NoRow
<1>2. IInv /\ [Next]_vars => [Relationships!Next]_Relationships!vars
  <2> SUFFICES ASSUME IInv, [Next]_vars
               PROVE  [Relationships!Next]_Relationships!vars
    OBVIOUS
  <2>1. CASE UNCHANGED <<outbound, heard>>
    BY <2>1 DEF Relationships!vars
  <2>2. ASSUME NEW t \in Tasks, Arrive(t) PROVE UNCHANGED <<outbound, heard>>
    BY <2>2 DEF Arrive, ReceivePersonal, ReceiveShared, BeginFollow, store
  <2>3. ASSUME NEW t \in Tasks, Step(t)
        PROVE  [Relationships!Next]_Relationships!vars
    <3>1. CASE Authenticate(t)
      BY <3>1, AuthenticateConsents
    <3>2. CASE ConfirmPending(t)
      BY <3>2, ConfirmEstablishes
    <3>3. CASE StorePending(t)
      BY <3>3, StoreProposes
    <3>4. CASE \/ MatchAccept(t) \/ RemoveFollower(t) \/ StoreFollower(t)
               \/ SendAccept(t) \/ ResolveTarget(t) \/ SendFollow(t)
      BY <2>1, <3>4 DEF MatchAccept, RemoveFollower, StoreFollower, SendAccept,
         ResolveTarget, SendFollow, store
    <3> QED BY <2>3, <3>1, <3>2, <3>3, <3>4 DEF Step
  <2>4. ASSUME NEW t \in Tasks, End(t) PROVE UNCHANGED <<outbound, heard>>
    BY <2>4 DEF End, store
  <2>5. CASE Crash \/ \E r \in Remotes : Republish(r)
    BY <2>1, <2>5 DEF Crash, Republish, store
  <2>6. CASE UNCHANGED vars
    BY <2>1, <2>6 DEF vars, store
  <2> QED BY <2>1, <2>2, <2>3, <2>4, <2>5, <2>6 DEF Next
<1> QED BY <1>1, <1>2, Invariance, PTL DEF Spec, ImplementsRelationships, Relationships!Spec
------------------------------------------------------------------------------
(* What a step does to the tables and to the wire *)

\* The pairs in the followers table, and the activities sent, of either type.
Listed == {<<row.follower, row.following>> : row \in followers}
AcceptsSent == {<<m.follow, m.to, m.from>> : m \in {n \in wire : n.type = "Accept"}}
FollowsSent == {<<m.follow, m.from, m.to>> : m \in {n \in wire : n.type = "Follow"}}

\* An authentic Follow and an authentic Undo of a local actor.
FollowHeard(q) == q \in heard /\ q.act.type = "Follow" /\ Addressed(q)

UndoHeard(q) ==
  /\ q \in heard
  /\ q.act.type = "Undo" /\ q.act.object = "Follow"
  /\ q.act.follow.actor = q.act.actor
  /\ Addressed(q)

\* A follower is listed or answered for a Follow heard, struck off for an Undo.
ListStep ==
  \/ UNCHANGED <<Listed, AcceptsSent>>
  \/ \E q \in Requests :
       /\ FollowHeard(q)
       /\ Listed' = Listed \cup {<<q.act.actor, q.act.follow.object>>}
       /\ UNCHANGED AcceptsSent
  \/ \E q \in Requests :
       /\ UndoHeard(q)
       /\ Listed' = Listed \ {<<q.act.actor, q.act.follow.object>>}
       /\ UNCHANGED AcceptsSent
  \/ \E q \in Requests :
       /\ FollowHeard(q)
       /\ Joined(q.act.actor, q.act.follow.object)
       /\ AcceptsSent' =
            AcceptsSent \cup {<<q.act.follow.id, q.act.actor, q.act.follow.object>>}
       /\ UNCHANGED Listed

\* Storing a follower adds its pair and keeps all others.
LEMMA StorePairs ==
  ASSUME NEW table, NEW doc, NEW local
  PROVE  {<<row.follower, row.following>> : row \in store_follower(table, doc, local)}
           = {<<row.follower, row.following>> : row \in table} \cup {<<doc.id, local>>}
<1> DEFINE new == store_follower(table, doc, local)
           added == [follower |-> doc.id, following |-> local, ver |-> doc.ver]
<1>1. new = {row \in table : ~ SameFollower(row, doc.id, local)} \cup {added}
  BY DEF store_follower
<1>2. <<added.follower, added.following>> = <<doc.id, local>>
  OBVIOUS
<1> HIDE DEF new, added
<1> QED BY <1>1, <1>2 DEF SameFollower, new

\* Removing a follower takes away its pair and keeps all others.
LEMMA RemovePairs ==
  ASSUME NEW table, NEW follower, NEW local
  PROVE  {<<row.follower, row.following>> : row \in remove_follower(table, follower, local)}
           = {<<row.follower, row.following>> : row \in table} \ {<<follower, local>>}
BY DEF remove_follower, SameFollower

\* A task on a Follow it has authenticated, for the actor that Follow names.
LEMMA FollowTaskHeard ==
  ASSUME IInv, NEW t \in Tasks, task[t].pc \in {"dispatch", "sendAccept"},
         task[t].job.act.type = "Follow",
         receive_follow(task[t].local, task[t].remote, task[t].job.act)
  PROVE  LET q == task[t].job
         IN  /\ q \in Requests
             /\ FollowHeard(q)
             /\ q.act.actor = task[t].remote.id
             /\ q.act.follow.object = task[t].local
BY DEF IInv, TaskInv, TaskOK, InboxTask, AuthenticatedTask, InboxStages, receive_follow,
       FollowHeard, Addressed

\* Each step changes the list of followers and the Accepts as ListStep says.
LEMMA EveryListStep == IInv /\ [Next]_vars => ListStep
<1> SUFFICES ASSUME IInv, [Next]_vars PROVE ListStep
  OBVIOUS
<1>1. CASE UNCHANGED <<followers, wire>>
  BY <1>1 DEF ListStep, Listed, AcceptsSent
<1>2. ASSUME NEW t \in Tasks, StoreFollower(t) PROVE ListStep
  <2> DEFINE q == task[t].job
  <2>1. /\ q \in Requests /\ FollowHeard(q)
        /\ q.act.actor = task[t].remote.id
        /\ q.act.follow.object = task[t].local
    BY <1>2, FollowTaskHeard DEF StoreFollower
  <2>2. Listed' = Listed \cup {<<q.act.actor, q.act.follow.object>>}
    BY <1>2, <2>1, StorePairs DEF StoreFollower, Listed
  <2>3. UNCHANGED AcceptsSent
    BY <1>2 DEF StoreFollower, AcceptsSent
  <2> QED BY <2>1, <2>2, <2>3 DEF ListStep
<1>3. ASSUME NEW t \in Tasks, RemoveFollower(t) PROVE ListStep
  <2> DEFINE q == task[t].job
  <2>1. /\ q \in Requests /\ UndoHeard(q)
        /\ q.act.actor = task[t].remote.id
        /\ q.act.follow.object = task[t].local
    BY <1>3 DEF RemoveFollower, IInv, TaskInv, TaskOK, InboxTask, AuthenticatedTask,
       InboxStages, receive_undo_follow, UndoHeard, Addressed
  <2>2. Listed' = Listed \ {<<q.act.actor, q.act.follow.object>>}
    BY <1>3, <2>1, RemovePairs DEF RemoveFollower, Listed
  <2>3. UNCHANGED AcceptsSent
    BY <1>3 DEF RemoveFollower, AcceptsSent
  <2> QED BY <2>1, <2>2, <2>3 DEF ListStep
<1>4. ASSUME NEW t \in Tasks, SendAccept(t) PROVE ListStep
  <2> DEFINE q == task[t].job
             m == follow_accept(task[t].local, task[t].remote, q.act)
  <2>1. /\ task[t].pc = "sendAccept" /\ q.act.type = "Follow"
        /\ receive_follow(task[t].local, task[t].remote, q.act)
        /\ Joined(task[t].remote.id, task[t].local)
    BY <1>4 DEF SendAccept, IInv, TaskInv, TaskOK, AcceptingTask
  <2>2. /\ q \in Requests /\ FollowHeard(q)
        /\ q.act.actor = task[t].remote.id
        /\ q.act.follow.object = task[t].local
    BY <2>1, FollowTaskHeard
  <2>3. wire' = wire \cup {m} /\ UNCHANGED Listed
    BY <1>4 DEF SendAccept, send_activity, store, Listed
  <2>4. /\ m.type = "Accept"
        /\ <<m.follow, m.to, m.from>>
             = <<q.act.follow.id, q.act.actor, q.act.follow.object>>
    BY <2>2 DEF follow_accept
  <2> HIDE DEF m
  <2>5. AcceptsSent' = AcceptsSent \cup {<<m.follow, m.to, m.from>>}
    BY <2>3, <2>4 DEF AcceptsSent
  <2> QED BY <2>1, <2>2, <2>3, <2>4, <2>5 DEF ListStep
<1>5. ASSUME NEW t \in Tasks, SendFollow(t) PROVE ListStep
  <2>1. wire' = wire \cup {outcome(t).activity} /\ outcome(t).activity.type = "Follow"
    BY <1>5 DEF SendFollow, send_activity, outcome, create_follow
  <2> HIDE DEF outcome
  <2>2. UNCHANGED <<Listed, AcceptsSent>>
    BY <1>5, <2>1 DEF SendFollow, store, Listed, AcceptsSent
  <2> QED BY <2>2 DEF ListStep
<1>6. ASSUME NEW t \in Tasks, Step(t) PROVE ListStep
  BY <1>1, <1>2, <1>3, <1>4, <1>5, <1>6 DEF Step, Authenticate, MatchAccept, ConfirmPending,
     ResolveTarget, StorePending, store
<1> QED BY <1>1, <1>6 DEF Next, Arrive, ReceivePersonal, ReceiveShared, BeginFollow, End,
        Crash, Republish, vars, store
\* A relationship is proposed, posted once it is recorded, or established by an
\* authentic Accept of the row it finds.
RelationStep ==
  \/ UNCHANGED <<outbound, FollowsSent>>
  \/ \E f \in FollowIds, local \in Locals, remote \in ActorDocs :
       /\ outbound[f].state # "accepted"
       /\ outbound' = [outbound EXCEPT ![f] =
                         [local |-> local, remote |-> remote, state |-> "pending"]]
       /\ UNCHANGED FollowsSent
  \/ \E f \in FollowIds, local \in Locals, remote \in Remotes :
       /\ outbound[f] # NoRow
       /\ FollowsSent' = FollowsSent \cup {<<f, local, remote>>}
       /\ UNCHANGED outbound
  \/ \E f \in FollowIds, q \in heard :
       /\ outbound[f].state = "pending"
       /\ Consents(q, f)
       /\ outbound' = [outbound EXCEPT ![f].state = "accepted"]
       /\ UNCHANGED FollowsSent

\* A row is confirmed, if at all, on the Accept it was matched with.
LEMMA ConfirmingStep ==
  ASSUME IInv, NEW t \in Tasks, ConfirmPending(t)
  PROVE  RelationStep
<1> DEFINE pending == task[t].pending
           q == task[t].job
           f == pending.follow
<1>1. TypeOK /\ TaskOK(t) /\ task[t].pc = "confirm"
  BY DEF IInv, TaskInv, ConfirmPending
<1>2. /\ pending \in PendingFollows /\ f \in FollowIds
      /\ q \in heard /\ Genuine(q) /\ Reaches(q, task[t].local)
      /\ q.act.type = "Accept" /\ q.act.object \in {"link", "Follow"}
      /\ receive_accept_follow(task[t].local, task[t].remote, pending, q.act)
  BY <1>1 DEF TaskOK, ConfirmingTask, AuthenticatedTask, InboxTask, InboxStages, PendingFollows
<1>3. UNCHANGED FollowsSent
  BY DEF ConfirmPending, FollowsSent
<1>4. \/ outbound' = outbound
      \/ /\ outbound[f] = [local  |-> pending.local,
                           remote |-> pending.remote,
                           state  |-> "pending"]
         /\ outbound' = [outbound EXCEPT ![f].state = "accepted"]
  BY <1>1, <1>2, ConfirmRows DEF ConfirmPending, TypeOK
<1>5. CASE outbound' = outbound
  BY <1>3, <1>5 DEF RelationStep
<1>6. CASE outbound' # outbound
  <2>1. /\ outbound[f].local = pending.local
        /\ outbound[f].remote = pending.remote
        /\ outbound[f].state = "pending"
    BY <1>4, <1>6
  <2>2. Consents(q, f)
    BY <1>2, <2>1 DEF Consents, receive_accept_follow
  <2> QED BY <1>2, <1>3, <1>4, <1>6, <2>1, <2>2 DEF RelationStep
<1> QED BY <1>5, <1>6

\* Each step changes the relationships and the Follows as RelationStep says.
LEMMA EveryRelationStep == IInv /\ [Next]_vars => RelationStep
<1> SUFFICES ASSUME IInv, [Next]_vars PROVE RelationStep
  OBVIOUS
<1>1. CASE UNCHANGED <<outbound, wire>>
  BY <1>1 DEF RelationStep, FollowsSent
<1>2. ASSUME NEW t \in Tasks, StorePending(t) PROVE RelationStep
  <2> DEFINE f == task[t].job.follow
  <2>1. /\ f \in FollowIds /\ task[t].local \in Locals /\ task[t].remote \in ActorDocs
    BY <1>2, IntentParts DEF StorePending, IInv, TaskInv, TaskOK, FollowTask, ResolvedTask,
       FollowStages
  <2>2. outbound' = IF outbound[f].state = "accepted"
                      THEN outbound
                      ELSE [outbound EXCEPT ![f] = [local  |-> task[t].local,
                                                    remote |-> task[t].remote,
                                                    state  |-> "pending"]]
    BY <1>2 DEF StorePending, outcome, create_follow, store_pending_follow
  <2>3. UNCHANGED FollowsSent
    BY <1>2 DEF StorePending, FollowsSent
  <2> QED BY <2>1, <2>2, <2>3 DEF RelationStep
<1>3. ASSUME NEW t \in Tasks, SendFollow(t) PROVE RelationStep
  <2> DEFINE i == task[t].job
             m == outcome(t).activity
  <2>1. /\ i \in Intents /\ task[t].local = i.local /\ task[t].remote.id = i.remote
        /\ outbound[i.follow] # NoRow
    BY <1>3 DEF SendFollow, IInv, TaskInv, TaskOK, FollowTask, ResolvedTask, RecordedTask,
       FollowStages
  <2>2. i.local \in Locals /\ i.remote \in Remotes /\ i.follow \in FollowIds
    BY <2>1, IntentParts
  <2>3. /\ wire' = wire \cup {m} /\ m.type = "Follow"
        /\ <<m.follow, m.from, m.to>> = <<i.follow, i.local, i.remote>>
        /\ UNCHANGED outbound
    BY <1>3, <2>1 DEF SendFollow, send_activity, outcome, create_follow, store
  <2> HIDE DEF m
  <2>4. FollowsSent' = FollowsSent \cup {<<m.follow, m.from, m.to>>}
    BY <2>3 DEF FollowsSent
  <2> QED BY <2>1, <2>2, <2>3, <2>4 DEF RelationStep
<1>4. ASSUME NEW t \in Tasks, SendAccept(t) PROVE RelationStep
  <2> DEFINE m == follow_accept(task[t].local, task[t].remote, task[t].job.act)
  <2>1. wire' = wire \cup {m} /\ m.type = "Accept"
    BY <1>4 DEF SendAccept, send_activity, follow_accept
  <2> HIDE DEF m
  <2>2. UNCHANGED <<outbound, FollowsSent>>
    BY <1>4, <2>1 DEF SendAccept, store, FollowsSent
  <2> QED BY <2>2 DEF RelationStep
<1>5. ASSUME NEW t \in Tasks, Step(t) PROVE RelationStep
  BY <1>1, <1>2, <1>3, <1>4, <1>5, ConfirmingStep DEF Step, Authenticate, MatchAccept,
     RemoveFollower, StoreFollower, ResolveTarget, store
<1> QED BY <1>1, <1>5 DEF Next, Arrive, ReceivePersonal, ReceiveShared, BeginFollow, End,
        Crash, Republish, vars, store

------------------------------------------------------------------------------
(* FederServer implements FollowerList *)

\* The Follows and Undos received, as the abstract specification sees them.
FollowsHeard ==
  {<<q.act.follow.id, q.act.actor, q.act.follow.object>> :
     q \in {r \in heard : r.act.type = "Follow" /\ Addressed(r)}}

UndosHeard ==
  {<<q.act.actor, q.act.follow.object>> :
     q \in {r \in heard : /\ r.act.type = "Undo" /\ r.act.object = "Follow"
                          /\ r.act.follow.actor = r.act.actor
                          /\ Addressed(r)}}

\* A request that is authenticated is a Follow, an Undo, or neither.
LEMMA AuthenticateAsks ==
  ASSUME IInv, NEW t \in Tasks, Authenticate(t)
  PROVE  [Followers!Next]_Followers!vars
<1> DEFINE q == task[t].job
<1>1. q \in Requests
  BY DEF IInv, TaskInv, TaskOK, Authenticate, InboxTask, InboxStages
<1>2. heard' = heard \cup {q} /\ UNCHANGED <<followers, wire>>
  BY DEF Authenticate, store
<1>3. PICK f \in FollowIds, a \in Remotes : f = q.act.follow.id /\ a = q.act.actor
  BY <1>1, RequestParts
<1>4. UNCHANGED <<Listed, AcceptsSent>>
  BY <1>2 DEF Listed, AcceptsSent
<1> HIDE DEF q
<1>5. CASE q.act.type = "Follow" /\ Addressed(q)
  <2>1. PICK local \in Locals : local = q.act.follow.object
    BY <1>5 DEF Addressed
  <2>2. FollowsHeard' = FollowsHeard \cup {<<f, a, local>>} /\ UndosHeard' = UndosHeard
    BY <1>2, <1>3, <1>5, <2>1 DEF FollowsHeard, UndosHeard, Addressed, Reaches, Genuine
  <2>3. Followers!Ask(f, a, local)
    BY <1>4, <2>2 DEF Followers!Ask, FollowsHeard, UndosHeard, Listed, AcceptsSent
  <2> QED BY <1>3, <2>1, <2>3 DEF Followers!Next
<1>6. CASE /\ q.act.type = "Undo" /\ q.act.object = "Follow"
           /\ q.act.follow.actor = q.act.actor
           /\ Addressed(q)
  <2>1. PICK local \in Locals : local = q.act.follow.object
    BY <1>6 DEF Addressed
  <2>2. UndosHeard' = UndosHeard \cup {<<a, local>>} /\ FollowsHeard' = FollowsHeard
    BY <1>2, <1>3, <1>6, <2>1 DEF FollowsHeard, UndosHeard, Addressed, Reaches, Genuine
  <2>3. Followers!Undo(a, local)
    BY <1>4, <2>2 DEF Followers!Undo, FollowsHeard, UndosHeard, Listed, AcceptsSent
  <2> QED BY <1>3, <2>1, <2>3 DEF Followers!Next
<1>7. CASE /\ ~ (q.act.type = "Follow" /\ Addressed(q))
           /\ ~ (/\ q.act.type = "Undo" /\ q.act.object = "Follow"
                 /\ q.act.follow.actor = q.act.actor
                 /\ Addressed(q))
  <2>1. FollowsHeard' = FollowsHeard /\ UndosHeard' = UndosHeard
    BY <1>2, <1>7 DEF FollowsHeard, UndosHeard, Addressed, Reaches, Genuine
  <2> QED BY <1>4, <2>1
          DEF Followers!vars, FollowsHeard, UndosHeard, Listed, AcceptsSent
<1> QED BY <1>5, <1>6, <1>7

\* A step that hears nothing new is one of FollowerList, by ListStep.
LEMMA ListStepImplements ==
  ASSUME IInv, ListStep, UNCHANGED heard
  PROVE  [Followers!Next]_Followers!vars
<1>1. UNCHANGED <<FollowsHeard, UndosHeard>>
  BY DEF FollowsHeard, UndosHeard, Addressed, Reaches, Genuine
<1>2. CASE UNCHANGED <<Listed, AcceptsSent>>
  BY <1>1, <1>2 DEF Followers!vars, FollowsHeard, UndosHeard, Listed, AcceptsSent
<1>3. ASSUME NEW q \in Requests, FollowHeard(q)
      PROVE  /\ q.act.follow.id \in FollowIds /\ q.act.actor \in Remotes
             /\ q.act.follow.object \in Locals
             /\ <<q.act.follow.id, q.act.actor, q.act.follow.object>> \in FollowsHeard
  BY <1>3, RequestParts DEF FollowHeard, Addressed, FollowsHeard
<1>4. ASSUME NEW q \in Requests, FollowHeard(q),
             Listed' = Listed \cup {<<q.act.actor, q.act.follow.object>>},
             UNCHANGED AcceptsSent
      PROVE  Followers!Next
  <2>1. Followers!Store(q.act.follow.id, q.act.actor, q.act.follow.object)
    BY <1>1, <1>3, <1>4
       DEF Followers!Store, FollowsHeard, UndosHeard, Listed, AcceptsSent
  <2> QED BY <1>3, <1>4, <2>1 DEF Followers!Next
<1>5. ASSUME NEW q \in Requests, UndoHeard(q),
             Listed' = Listed \ {<<q.act.actor, q.act.follow.object>>},
             UNCHANGED AcceptsSent
      PROVE  Followers!Next
  <2>1. /\ q.act.actor \in Remotes /\ q.act.follow.object \in Locals
        /\ <<q.act.actor, q.act.follow.object>> \in UndosHeard
    BY <1>5, RequestParts DEF UndoHeard, Addressed, UndosHeard
  <2>2. Followers!Remove(q.act.actor, q.act.follow.object)
    BY <1>1, <1>5, <2>1
       DEF Followers!Remove, FollowsHeard, UndosHeard, Listed, AcceptsSent
  <2> QED BY <2>1, <2>2 DEF Followers!Next
<1>6. ASSUME NEW q \in Requests, FollowHeard(q),
             Joined(q.act.actor, q.act.follow.object),
             AcceptsSent' =
               AcceptsSent \cup {<<q.act.follow.id, q.act.actor, q.act.follow.object>>},
             UNCHANGED Listed
      PROVE  Followers!Next
  <2>1. <<q.act.actor, q.act.follow.object>> \in Listed \cup UndosHeard
    BY <1>3, <1>6 DEF Joined, SameFollower, Heard, Listed, UndosHeard, Addressed
  <2>2. Followers!Answer(q.act.follow.id, q.act.actor, q.act.follow.object)
    BY <1>1, <1>3, <1>6, <2>1
       DEF Followers!Answer, FollowsHeard, UndosHeard, Listed, AcceptsSent
  <2> QED BY <1>3, <1>6, <2>2 DEF Followers!Next
<1> QED BY <1>2, <1>4, <1>5, <1>6 DEF ListStep

\* Whatever Follows and Undos are received, in any order and any number of
\* times, and whatever fails between: the followers table and the Accepts are
\* those of FollowerList.
THEOREM ListImplementation == Spec => ImplementsFollowerList
<1>1. Init => Followers!Init
  BY DEF Init, Followers!Init
<1>2. IInv /\ [Next]_vars => [Followers!Next]_Followers!vars
  <2> SUFFICES ASSUME IInv, [Next]_vars PROVE [Followers!Next]_Followers!vars
    OBVIOUS
  <2>1. ListStep
    BY EveryListStep
  <2>2. (\E t \in Tasks : Authenticate(t)) \/ UNCHANGED heard
    BY DEF Next, Arrive, ReceivePersonal, ReceiveShared, BeginFollow, Step, MatchAccept,
       ConfirmPending, RemoveFollower, StoreFollower, SendAccept, ResolveTarget,
       StorePending, SendFollow, End, Crash, Republish, vars
  <2> QED BY <2>1, <2>2, AuthenticateAsks, ListStepImplements
<1> QED BY <1>1, <1>2, Invariance, PTL DEF Spec, ImplementsFollowerList, Followers!Spec
------------------------------------------------------------------------------
(* What NoteDelivery takes from here *)

\* The followers table changes by one storage call at a time.
OneStorageCall ==
  \/ \E doc \in ActorDocs, local \in Locals :
       followers' = store_follower(followers, doc, local)
  \/ \E remote \in Remotes, local \in Locals :
       followers' = remove_follower(followers, remote, local)

\* Whatever the handlers, the calls of the application and restarts do, the
\* followers table goes from one state to the next as NoteDelivery's Join and
\* Leave say (receive_activity): what is proved of the deliveries there holds of
\* them beside these handlers.
THEOREM FollowersComeAndGo == Spec => [][OneStorageCall]_followers
<1>1. ASSUME IInv, [Next]_vars, followers' # followers
      PROVE  OneStorageCall
  <2>1. PICK t \in Tasks : StoreFollower(t) \/ RemoveFollower(t)
    BY <1>1
    DEF Next, Arrive, Step, ReceivePersonal, ReceiveShared, BeginFollow, Authenticate,
        MatchAccept, ConfirmPending, SendAccept, ResolveTarget, StorePending, SendFollow,
        End, Crash, Republish, vars, store
  <2>2. task[t].remote \in ActorDocs /\ task[t].remote.id \in Remotes /\ task[t].local \in Locals
    <3>1. task[t].pc = "dispatch" /\ TaskOK(t)
      BY <1>1, <2>1 DEF StoreFollower, RemoveFollower, IInv, TaskInv
    <3> QED BY <3>1 DEF TaskOK, InboxTask, AuthenticatedTask, InboxStages, ActorDocs
  <2>3. CASE StoreFollower(t)
    BY <2>2, <2>3 DEF StoreFollower, OneStorageCall
  <2>4. CASE RemoveFollower(t)
    BY <2>2, <2>4 DEF RemoveFollower, OneStorageCall
  <2> QED BY <2>1, <2>3, <2>4
<1>2. IInv /\ [Next]_vars => [OneStorageCall]_followers
  BY <1>1
<1> QED BY <1>2, Invariance, PTL DEF Spec
==============================================================================
