------------------------- MODULE OrderlySendersProofs -------------------------
(***************************************************************************)
(* Proofs about OrderlySenders, on top of those about FederServer: orderly *)
(* behaviours are behaviours of FederServer, so that its invariant holds,  *)
(* and no two tasks work on one pair.                                      *)
(***************************************************************************)
EXTENDS OrderlySenders, FederServerProofs

OrderlyTypeOK ==
  /\ done \in [Pairs -> {"Follow", "Undo", "nothing"}]
  /\ since \in [Pairs -> SUBSET Versions]

\* At most one task works on a pair.
OneAtATime ==
  \A p \in Pairs : \A s, t \in Tasks : WorksOn(s, p) /\ WorksOn(t, p) => s = t

\* While one does, nothing is concluded.
Unconcluded == \A p \in Pairs : Outstanding(p) => done[p] = "nothing"

\* What the actor publishes now is among what it published meanwhile.
Watched == \A p \in Pairs : Outstanding(p) => profile[p[1]] \in since[p]

\* The document a task has fetched was published while it worked.
FetchedDocument(t) ==
  task[t].pc \in {"dispatch", "sendAccept"} /\ task[t].job \in Orders
    /\ FetchesDocument(pair(task[t].job))
      => task[t].remote.ver \in since[pair(task[t].job)]

FreshFor(p) ==
  FetchesDocument(p) =>
    \A row \in followers : SameFollower(row, p[1], p[2]) => row.ver \in since[p]

\* A task about to send an Accept has stored what it fetched.
StoredOrder(t) ==
  task[t].pc = "sendAccept" =>
    /\ task[t].job \in Orders
    /\ task[t].job.act.type = "Follow"
    /\ Follows(pair(task[t].job))
    /\ FreshFor(pair(task[t].job))

OrderlyInv ==
  /\ OrderlyTypeOK
  /\ OneAtATime
  /\ Unconcluded
  /\ Watched
  /\ \A t \in Tasks : FetchedDocument(t) /\ StoredOrder(t)
  /\ LastWordStands
  /\ FreshRow

------------------------------------------------------------------------------
(* Orderly behaviours are behaviours of FederServer *)

\* Every step is a step of the server.
LEMMA OrderlyStep == [OrderlyNext]_orderlyVars => [Next]_vars
<1> SUFFICES ASSUME [OrderlyNext]_orderlyVars PROVE [Next]_vars
  OBVIOUS
<1>1. ASSUME NEW t \in Tasks, NEW q \in Requests, Post(t, q)
      PROVE  Next
  BY <1>1 DEF Post, Next, Arrive
<1>2. ASSUME NEW t \in Tasks, Stray(t)
      PROVE  Next
  BY <1>2 DEF Stray, Next, Arrive
<1>3. ASSUME NEW t \in Tasks, Conclude(t)
      PROVE  Next
  BY <1>3 DEF Conclude, Next, Step
<1>4. ASSUME NEW t \in Tasks, Proceed(t)
      PROVE  Next
  BY <1>4 DEF Proceed, Next, Step
<1>5. CASE Restart
  BY <1>5 DEF Restart, Next
<1>6. ASSUME NEW r \in Remotes, Renew(r)
      PROVE  Next
  BY <1>6 DEF Renew, Next
<1>7. CASE UNCHANGED orderlyVars
  BY <1>7 DEF orderlyVars
<1> QED BY <1>1, <1>2, <1>3, <1>4, <1>5, <1>6, <1>7 DEF OrderlyNext

\* Senders that wait restrict the server, they do not change it: whatever is
\* proved of every behaviour of FederServer holds of these.
THEOREM OrderlyIsServer == OrderlySpec => Spec
<1>1. OrderlyInit => Init
  BY DEF OrderlyInit
<1> QED BY <1>1, OrderlyStep, PTL DEF OrderlySpec, Spec

------------------------------------------------------------------------------
(* Orders *)

\* An order is about a pair.
LEMMA OrderPair ==
  ASSUME NEW q \in Orders
  PROVE  /\ q \in Requests
         /\ pair(q) \in Pairs
         /\ pair(q)[1] = q.act.actor
         /\ pair(q)[2] = q.act.follow.object
         /\ q.act.type \in {"Follow", "Undo"}
BY RequestParts DEF Orders, pair, Pairs

\* A handler that removes a follower carries out an order.
LEMMA RemovalIsOrder ==
  ASSUME IInv, NEW t \in Tasks, RemoveFollower(t)
  PROVE  /\ task[t].job \in Orders
         /\ task[t].job.act.type = "Undo"
         /\ pair(task[t].job) = <<task[t].remote.id, task[t].local>>
<1>1. /\ task[t].job \in Requests
      /\ task[t].local \in Locals
      /\ Reaches(task[t].job, task[t].local)
      /\ Genuine(task[t].job)
  BY DEF IInv, TaskInv, TaskOK, InboxTask, AuthenticatedTask, RemoveFollower, InboxStages
<1>2. /\ task[t].job.act.type = "Undo"
      /\ receive_undo_follow(task[t].local, task[t].remote, task[t].job.act)
  BY DEF RemoveFollower
<1> QED BY <1>1, <1>2 DEF Orders, pair, receive_undo_follow

\* So does one that stores a follower.
LEMMA StorageIsOrder ==
  ASSUME IInv, NEW t \in Tasks, StoreFollower(t)
  PROVE  /\ task[t].job \in Orders
         /\ task[t].job.act.type = "Follow"
         /\ pair(task[t].job) = <<task[t].remote.id, task[t].local>>
<1>1. /\ task[t].job \in Requests
      /\ task[t].local \in Locals
      /\ Reaches(task[t].job, task[t].local)
      /\ Genuine(task[t].job)
  BY DEF IInv, TaskInv, TaskOK, InboxTask, AuthenticatedTask, StoreFollower, InboxStages
<1>2. /\ task[t].job.act.type = "Follow" /\ task[t].job.act.object # "malformed"
      /\ receive_follow(task[t].local, task[t].remote, task[t].job.act)
  BY DEF StoreFollower
<1> QED BY <1>1, <1>2 DEF Orders, pair, receive_follow

------------------------------------------------------------------------------
(* The invariant is inductive *)

\* The invariant holds initially.
LEMMA OrderlyInitInv == OrderlyInit => OrderlyInv
<1> SUFFICES ASSUME OrderlyInit PROVE OrderlyInv
  OBVIOUS
<1>1. OrderlyTypeOK
  BY DEF OrderlyInit, OrderlyTypeOK
<1>2. \A t \in Tasks : task[t].pc = "idle"
  BY DEF OrderlyInit, Init, Idle
<1>3. OneAtATime /\ Unconcluded /\ Watched
  BY <1>2 DEF OneAtATime, Unconcluded, Watched, Outstanding, WorksOn
<1>4. \A t \in Tasks : FetchedDocument(t) /\ StoredOrder(t)
  BY <1>2 DEF FetchedDocument, StoredOrder
<1>5. LastWordStands /\ FreshRow
  BY DEF OrderlyInit, LastWordStands, FreshRow
<1> QED BY <1>1, <1>3, <1>4, <1>5 DEF OrderlyInv

\* What a task knows stays true while the tables and the pairs do.
LEMMA OrderStays ==
  ASSUME NEW t \in Tasks, FetchedDocument(t), StoredOrder(t), task'[t] = task[t],
         UNCHANGED <<followers, since>>
  PROVE  FetchedDocument(t)' /\ StoredOrder(t)'
<1>1. FetchedDocument(t)'
  BY DEF FetchedDocument, FetchesDocument, Orders, Genuine, Reaches, pair
<1>2. StoredOrder(t)'
  BY DEF StoredOrder, Follows, FreshFor, FetchesDocument, Orders, Genuine, Reaches, pair, SameFollower
<1> QED BY <1>1, <1>2

\* A task that moves alone and takes up no order keeps the rest.
LEMMA OrderlyMove ==
  ASSUME TypeOK, OrderlyInv, NEW t \in Tasks, NEW new,
         task' = [task EXCEPT ![t] = new],
         UNCHANGED <<profile, followers, done, since>>,
         new.pc = "idle" \/ new.job \notin Orders \/ (task[t].pc # "idle" /\ new.job = task[t].job),
         FetchedDocument(t)', StoredOrder(t)'
  PROVE  OrderlyInv'
<1> USE DEF OrderlyInv
<1>1. \A s \in Tasks : s # t => task'[s] = task[s]
  BY DEF TypeOK
<1>2. task'[t] = new
  BY DEF TypeOK
<1>3. ASSUME NEW p \in Pairs, NEW s \in Tasks, WorksOn(s, p)'
      PROVE  WorksOn(s, p)
  BY <1>1, <1>2, <1>3 DEF WorksOn, Orders, Genuine, Reaches, pair
<1>4. OrderlyTypeOK'
  BY DEF OrderlyTypeOK
<1>5. OneAtATime'
  BY <1>3 DEF OneAtATime
<1>6. Unconcluded' /\ Watched'
  BY <1>3 DEF Unconcluded, Watched, Outstanding
<1>7. \A s \in Tasks : FetchedDocument(s)' /\ StoredOrder(s)'
  BY <1>1, OrderStays
<1>8. LastWordStands' /\ FreshRow'
  BY DEF LastWordStands, Follows, FreshRow, FetchesDocument, Orders, Genuine, Reaches, pair, SameFollower
<1> QED BY <1>4, <1>5, <1>6, <1>7, <1>8

\* A task that has ended, or works on no order, claims nothing.
LEMMA NoClaim ==
  ASSUME NEW t \in Tasks, task'[t].pc \notin {"dispatch", "sendAccept"}
  PROVE  FetchedDocument(t)' /\ StoredOrder(t)'
BY DEF FetchedDocument, StoredOrder

\* The fetched document is the one the actor publishes.
LEMMA AuthenticateOrder ==
  ASSUME IInv, OrderlyInv, NEW t \in Tasks, Authenticate(t), UNCHANGED <<done, since>>
  PROVE  OrderlyInv'
<1> DEFINE q == task[t].job
           new == [task[t] EXCEPT !.pc = "dispatch", !.remote = authenticated_actor(q)]
<1>1. /\ task[t].pc = "authenticate"
      /\ task' = [task EXCEPT ![t] = new]
      /\ UNCHANGED <<profile, followers>>
  BY DEF Authenticate, store
<1>2. task[t] \in TaskStates
  BY DEF IInv, TypeOK
<1>3. new.pc = "dispatch" /\ new.job = q /\ new.remote = authenticated_actor(q)
  BY <1>2 DEF TaskStates
<1>4. task'[t] = new
  BY <1>1 DEF IInv, TypeOK
<1>5. FetchedDocument(t)'
  <2> SUFFICES ASSUME q \in Orders, FetchesDocument(pair(q))
               PROVE  new.remote.ver \in since[pair(q)]
    BY <1>3, <1>4 DEF FetchedDocument, FetchesDocument, Orders, Genuine, Reaches, pair
  <2>1. new.remote = Published(q.act.actor)
    BY <1>3 DEF authenticated_actor, FetchesDocument
  <2>2. Outstanding(pair(q))
    BY <1>1 DEF Outstanding, WorksOn
  <2>3. profile[q.act.actor] \in since[pair(q)]
    BY <2>2, OrderPair DEF OrderlyInv, Watched
  <2> QED BY <2>1, <2>3 DEF Published
<1>6. StoredOrder(t)'
  BY <1>3, <1>4 DEF StoredOrder
<1>7. TypeOK
  BY DEF IInv
<1> HIDE DEF q, new
<1> QED
  <2>1. new.job = task[t].job /\ task[t].pc # "idle"
    BY <1>1, <1>3 DEF q
  <2> QED BY <1>1, <1>5, <1>6, <1>7, <2>1, OrderlyMove

\* The other steps that store no follower, post no Accept and end no Undo.
LEMMA ProceedOrder ==
  ASSUME IInv, OrderlyInv, NEW t \in Tasks, Proceed(t), ~ StoreFollower(t)
  PROVE  OrderlyInv'
<1>1. TypeOK /\ task[t] \in TaskStates
  BY DEF IInv, TypeOK
<1>2. UNCHANGED <<done, since>>
  BY DEF Proceed
<1> DEFINE Quiet(new) == /\ task' = [task EXCEPT ![t] = new]
                         /\ UNCHANGED <<profile, followers>>
                         /\ new.pc \notin {"dispatch", "sendAccept"}
                         /\ new.pc = "idle" \/ (task[t].pc # "idle" /\ new.job = task[t].job)
<1>3. ASSUME NEW new, Quiet(new)
      PROVE  OrderlyInv'
  <2>1. task'[t].pc \notin {"dispatch", "sendAccept"}
    BY <1>1, <1>3 DEF TypeOK
  <2> QED BY <1>1, <1>2, <1>3, <2>1, NoClaim, OrderlyMove
<1>4. CASE Authenticate(t)
  BY <1>2, <1>4, AuthenticateOrder
<1>5. CASE MatchAccept(t)
  <2> DEFINE new == [task[t] EXCEPT !.pc = "confirm", !.pending = pending_for(t)]
  <2>1. Quiet(new)
    BY <1>1, <1>5 DEF MatchAccept, store, TaskStates
  <2> QED BY <2>1, <1>3
<1>6. CASE ConfirmPending(t) \/ SendFollow(t) \/ End(t)
  <2>1. Quiet(Idle)
    BY <1>6 DEF ConfirmPending, SendFollow, End, store, Idle
  <2> QED BY <2>1, <1>3
<1>7. CASE ResolveTarget(t)
  <2> DEFINE new == [task[t] EXCEPT !.pc = "storePending",
                                    !.remote = Published(task[t].job.remote)]
  <2>1. Quiet(new)
    BY <1>1, <1>7 DEF ResolveTarget, store, TaskStates
  <2> QED BY <2>1, <1>3
<1>8. CASE StorePending(t)
  <2> DEFINE new == [task[t] EXCEPT !.pc = "sendFollow"]
  <2>1. Quiet(new)
    BY <1>1, <1>8 DEF StorePending, TaskStates
  <2> QED BY <2>1, <1>3
<1> QED BY <1>4, <1>5, <1>6, <1>7, <1>8 DEF Proceed

\* The rows of pair p stay as they are.
SameRows(p) ==
  \A row : SameFollower(row, p[1], p[2]) => (row \in followers' <=> row \in followers)

\* Where they do, so does what is said of them.
LEMMA RowsStay ==
  ASSUME NEW p, SameRows(p), since'[p] = since[p]
  PROVE  /\ Follows(p)' <=> Follows(p)
         /\ FreshFor(p)' <=> FreshFor(p)
BY DEF SameRows, Follows, FreshFor, FetchesDocument, Orders, Genuine, Reaches, pair, SameFollower

\* A row of another pair is neither written nor removed.
LEMMA OtherRows ==
  ASSUME NEW p \in Pairs, NEW doc, NEW local, p # <<doc.id, local>>,
         \/ followers' = store_follower(followers, doc, local)
         \/ followers' = remove_follower(followers, doc.id, local)
  PROVE  SameRows(p)
<1>1. p = <<p[1], p[2]>>
  BY DEF Pairs
<1>2. p[1] # doc.id \/ p[2] # local
  BY <1>1
<1>3. CASE followers' = store_follower(followers, doc, local)
  BY <1>2, <1>3 DEF SameRows, SameFollower, store_follower
<1>4. CASE followers' = remove_follower(followers, doc.id, local)
  BY <1>2, <1>4 DEF SameRows, SameFollower, remove_follower
<1> QED BY <1>3, <1>4

\* A step of t that concerns pair p, which no other task works on, keeps what
\* the other tasks know and what is said of the other pairs.
LEMMA OthersStay ==
  ASSUME TypeOK, OrderlyInv, NEW t \in Tasks, NEW p \in Pairs,
         \A s \in Tasks \ {t} : ~ WorksOn(s, p),
         \A s \in Tasks \ {t} : task'[s] = task[s],
         \A other \in Pairs \ {p} :
           SameRows(other) /\ done'[other] = done[other] /\ since'[other] = since[other]
  PROVE  /\ \A s \in Tasks \ {t} : FetchedDocument(s)' /\ StoredOrder(s)'
         /\ \A other \in Pairs \ {p} :
              /\ done'[other] = "Follow" => Follows(other)'
              /\ done'[other] = "Undo" => ~ Follows(other)'
              /\ done'[other] = "Follow" => FreshFor(other)'
<1>1. ASSUME NEW s \in Tasks \ {t}
      PROVE  FetchedDocument(s)' /\ StoredOrder(s)'
  <2> PICK o : o = pair(task[s].job)
    OBVIOUS
  <2>1. task'[s] = task[s]
    OBVIOUS
  <2>2. ASSUME task[s].job \in Orders, task[s].pc # "idle"
        PROVE  SameRows(o) /\ since'[o] = since[o]
    <3>1. o \in Pairs /\ WorksOn(s, o)
      BY <2>2, OrderPair DEF WorksOn
    <3>2. o # p
      BY <3>1
    <3> QED BY <3>1, <3>2
  <2>3. FetchedDocument(s)'
    BY <2>1, <2>2
    DEF OrderlyInv, FetchedDocument, FetchesDocument, Orders, Genuine, Reaches, pair
  <2>4. ASSUME task[s].pc = "sendAccept"
        PROVE  /\ task[s].job \in Orders
               /\ task[s].job.act.type = "Follow"
               /\ Follows(pair(task[s].job))'
               /\ FreshFor(pair(task[s].job))'
    <3>1. /\ task[s].job \in Orders
          /\ task[s].job.act.type = "Follow"
          /\ Follows(o) /\ FreshFor(o)
      BY <2>4 DEF OrderlyInv, StoredOrder
    <3>2. Follows(o)' /\ FreshFor(o)'
      BY <2>2, <2>4, <3>1, RowsStay
    <3> QED BY <2>1, <3>1, <3>2 DEF Follows, FreshFor, FetchesDocument, pair
  <2>5. StoredOrder(s)'
    BY <2>4 DEF StoredOrder, Follows, FreshFor, FetchesDocument, Orders, Genuine, Reaches, pair
  <2> QED BY <2>3, <2>5
<1>2. ASSUME NEW other \in Pairs \ {p}
      PROVE  /\ done'[other] = "Follow" => Follows(other)'
             /\ done'[other] = "Undo" => ~ Follows(other)'
             /\ done'[other] = "Follow" => FreshFor(other)'
  <2>1. /\ Follows(other)' <=> Follows(other)
        /\ FreshFor(other)' <=> FreshFor(other)
    BY RowsStay
  <2>2. /\ done[other] = "Follow" => Follows(other) /\ FreshFor(other)
        /\ done[other] = "Undo" => ~ Follows(other)
    BY DEF OrderlyInv, LastWordStands, FreshRow, FreshFor
  <2>3. done'[other] = done[other]
    OBVIOUS
  <2> QED BY <2>1, <2>2, <2>3
<1> QED BY <1>1, <1>2

\* The step neither ends an order nor takes one up.
LEMMA SameWork ==
  ASSUME TypeOK, OrderlyInv, NEW t \in Tasks,
         \A s \in Tasks \ {t} : task'[s] = task[s],
         task'[t].pc = "idle" \/ (task[t].pc # "idle" /\ task'[t].job = task[t].job),
         UNCHANGED profile, since' = since
  PROVE  /\ \A p \in Pairs : \A s \in Tasks : WorksOn(s, p)' => WorksOn(s, p)
         /\ OneAtATime' /\ Watched'
<1>1. ASSUME NEW p \in Pairs, NEW s \in Tasks, WorksOn(s, p)'
      PROVE  WorksOn(s, p)
  <2>1. CASE s = t
    BY <1>1, <2>1 DEF WorksOn, Orders, Genuine, Reaches, pair
  <2>2. CASE s # t
    BY <1>1, <2>2 DEF WorksOn, Orders, Genuine, Reaches, pair
  <2> QED BY <2>1, <2>2
<1>2. OneAtATime' /\ Watched'
  BY <1>1 DEF OrderlyInv, OneAtATime, Watched, Outstanding
<1> QED BY <1>1, <1>2

\* The follower is stored with the document that was fetched.
LEMMA StoreOrder ==
  ASSUME IInv, OrderlyInv, NEW t \in Tasks, StoreFollower(t), UNCHANGED <<done, since>>
  PROVE  OrderlyInv'
<1> PICK p : p = pair(task[t].job)
  OBVIOUS
<1> PICK doc, local : doc = task[t].remote /\ local = task[t].local
  OBVIOUS
<1>1. TypeOK /\ task[t] \in TaskStates
  BY DEF IInv, TypeOK
<1>2. /\ task[t].pc = "dispatch"
      /\ followers' = store_follower(followers, doc, local)
      /\ task' = [task EXCEPT ![t].pc = "sendAccept"]
      /\ UNCHANGED profile
  BY DEF StoreFollower
<1>3. /\ task[t].job \in Orders
      /\ task[t].job.act.type = "Follow"
      /\ p = <<doc.id, local>>
  BY StorageIsOrder
<1>4. p \in Pairs /\ WorksOn(t, p)
  BY <1>2, <1>3, OrderPair DEF WorksOn
<1>5. /\ task'[t].pc = "sendAccept"
      /\ task'[t].job = task[t].job
      /\ task'[t].remote = doc
      /\ \A s \in Tasks \ {t} : task'[s] = task[s]
  BY <1>1, <1>2 DEF TypeOK, TaskStates
<1>6. \A other \in Pairs \ {p} : SameRows(other)
  BY <1>2, <1>3, OtherRows
<1>7. /\ \A s \in Tasks \ {t} : FetchedDocument(s)' /\ StoredOrder(s)'
      /\ \A other \in Pairs \ {p} :
           /\ done'[other] = "Follow" => Follows(other)'
           /\ done'[other] = "Undo" => ~ Follows(other)'
           /\ done'[other] = "Follow" => FreshFor(other)'
  BY <1>1, <1>4, <1>5, <1>6, OthersStay DEF OrderlyInv, OneAtATime
<1>8. done[p] = "nothing"
  BY <1>4 DEF OrderlyInv, Unconcluded, Outstanding
<1>9. LastWordStands' /\ FreshRow'
  <2>1. done' = done
    OBVIOUS
  <2> QED BY <1>7, <1>8, <2>1 DEF LastWordStands, FreshRow, FreshFor
<1>10. /\ \A o \in Pairs : \A s \in Tasks : WorksOn(s, o)' => WorksOn(s, o)
       /\ OneAtATime' /\ Watched'
  BY <1>1, <1>2, <1>5, SameWork
<1>11. Unconcluded'
  BY <1>10 DEF OrderlyInv, Unconcluded, Outstanding
<1>12. FetchesDocument(p) => doc.ver \in since[p]
  BY <1>2, <1>3 DEF OrderlyInv, FetchedDocument
<1>13. FetchedDocument(t)'
  BY <1>5, <1>12 DEF FetchedDocument, FetchesDocument, Orders, Genuine, Reaches, pair
<1>14. \E row \in followers' : SameFollower(row, p[1], p[2])
  <2>1. [follower |-> doc.id, following |-> local, ver |-> doc.ver] \in followers'
    BY <1>2 DEF store_follower
  <2>2. p[1] = doc.id /\ p[2] = local
    BY <1>3
  <2> QED BY <2>1, <2>2 DEF SameFollower
<1>15. \A row \in followers' : SameFollower(row, p[1], p[2]) => row.ver = doc.ver
  BY <1>2, <1>3 DEF store_follower, SameFollower
<1>16. StoredOrder(t)'
  <2>1. pair(task'[t].job) = p
    BY <1>5
  <2>2. FetchesDocument(p) => \A row \in followers' :
          SameFollower(row, p[1], p[2]) => row.ver \in since'[p]
    BY <1>12, <1>15
  <2> QED
    BY <1>3, <1>5, <1>14, <2>1, <2>2
    DEF StoredOrder, Follows, FreshFor, FetchesDocument, Orders, Genuine, Reaches, pair, SameFollower
<1>17. OrderlyTypeOK'
  BY DEF OrderlyInv, OrderlyTypeOK
<1> QED BY <1>7, <1>9, <1>10, <1>11, <1>13, <1>16, <1>17 DEF OrderlyInv

\* The follower is gone, or the Accept is on its way.
LEMMA ConcludeOrder ==
  ASSUME IInv, OrderlyInv, NEW t \in Tasks, Conclude(t)
  PROVE  OrderlyInv'
<1> PICK p : p = pair(task[t].job)
  OBVIOUS
<1> PICK type : type = task[t].job.act.type
  OBVIOUS
<1>1. TypeOK /\ task[t] \in TaskStates
  BY DEF IInv, TypeOK
<1>2. /\ task' = [task EXCEPT ![t] = Idle]
      /\ done' = [done EXCEPT ![p] = type]
      /\ UNCHANGED <<profile, since>>
      /\ task[t].pc # "idle"
  BY DEF Conclude, RemoveFollower, SendAccept, store
<1>3. task[t].job \in Orders
  BY RemovalIsOrder DEF Conclude, SendAccept, OrderlyInv, StoredOrder
<1>4. p \in Pairs /\ WorksOn(t, p) /\ type \in {"Follow", "Undo"}
  BY <1>2, <1>3, OrderPair DEF WorksOn
<1>5. /\ task'[t].pc = "idle"
      /\ \A s \in Tasks \ {t} : task'[s] = task[s]
  BY <1>1, <1>2 DEF TypeOK, Idle
<1>6. /\ \A other \in Pairs \ {p} : SameRows(other)
      /\ type = "Follow" => Follows(p)' /\ FreshFor(p)'
      /\ type = "Undo" => ~ Follows(p)'
  <2>1. CASE RemoveFollower(t)
    <3> PICK doc, local : doc = task[t].remote /\ local = task[t].local
      OBVIOUS
    <3>1. followers' = remove_follower(followers, doc.id, local)
      BY <2>1 DEF RemoveFollower
    <3>2. type = "Undo" /\ p = <<doc.id, local>>
      BY <2>1, RemovalIsOrder
    <3>3. \A other \in Pairs \ {p} : SameRows(other)
      BY <3>1, <3>2, OtherRows
    <3>4. ~ Follows(p)'
      BY <3>1, <3>2 DEF Follows, remove_follower, SameFollower
    <3> QED BY <3>2, <3>3, <3>4
  <2>2. CASE SendAccept(t)
    <3>1. followers' = followers
      BY <2>2 DEF SendAccept, store
    <3>2. \A other \in Pairs : SameRows(other)
      BY <3>1 DEF SameRows
    <3>3. type = "Follow" /\ Follows(p) /\ FreshFor(p)
      BY <2>2 DEF SendAccept, OrderlyInv, StoredOrder
    <3>4. Follows(p)' /\ FreshFor(p)'
      BY <1>2, <1>4, <3>2, <3>3, RowsStay
    <3> QED BY <3>2, <3>3, <3>4
  <2> QED BY <2>1, <2>2 DEF Conclude
<1>7. \A other \in Pairs \ {p} : done'[other] = done[other]
  BY <1>2 DEF OrderlyInv, OrderlyTypeOK
<1>8. /\ \A s \in Tasks \ {t} : FetchedDocument(s)' /\ StoredOrder(s)'
      /\ \A other \in Pairs \ {p} :
           /\ done'[other] = "Follow" => Follows(other)'
           /\ done'[other] = "Undo" => ~ Follows(other)'
           /\ done'[other] = "Follow" => FreshFor(other)'
  BY <1>1, <1>2, <1>4, <1>5, <1>6, <1>7, OthersStay DEF OrderlyInv, OneAtATime
<1>9. done'[p] = type
  BY <1>2, <1>4 DEF OrderlyInv, OrderlyTypeOK
<1>10. LastWordStands' /\ FreshRow'
  BY <1>6, <1>8, <1>9 DEF LastWordStands, FreshRow, FreshFor
<1>11. /\ \A o \in Pairs : \A s \in Tasks : WorksOn(s, o)' => WorksOn(s, o)
       /\ OneAtATime' /\ Watched'
  BY <1>1, <1>2, <1>5, SameWork
<1>12. \A s \in Tasks : ~ WorksOn(s, p)'
  <2> SUFFICES ASSUME NEW s \in Tasks, WorksOn(s, p)' PROVE FALSE
    OBVIOUS
  <2>1. s = t
    BY <1>4, <1>11 DEF OrderlyInv, OneAtATime
  <2> QED BY <1>5, <2>1 DEF WorksOn
<1>13. Unconcluded'
  BY <1>7, <1>11, <1>12 DEF OrderlyInv, Unconcluded, Outstanding
<1>14. FetchedDocument(t)' /\ StoredOrder(t)'
  BY <1>5, NoClaim
<1>15. OrderlyTypeOK'
  BY <1>2, <1>4 DEF OrderlyInv, OrderlyTypeOK
<1> QED BY <1>8, <1>10, <1>11, <1>13, <1>14, <1>15 DEF OrderlyInv

\* A posted order is the only one of its pair.
LEMMA PostOrder ==
  ASSUME IInv, OrderlyInv, NEW t \in Tasks, NEW q \in Requests, Post(t, q)
  PROVE  OrderlyInv'
<1> PICK p : p = pair(q)
  OBVIOUS
<1>1. TypeOK /\ task[t].pc = "idle"
  BY DEF IInv, Post, ReceivePersonal, ReceiveShared
<1>2. /\ q \in Orders
      /\ ~ Outstanding(p)
      /\ done' = [done EXCEPT ![p] = "nothing"]
      /\ since' = [since EXCEPT ![p] = {profile[q.act.actor]}]
      /\ UNCHANGED <<profile, followers>>
  BY DEF Post, ReceivePersonal, ReceiveShared, store
<1>3. p \in Pairs /\ p[1] = q.act.actor
  BY <1>2, OrderPair
<1>4. /\ task'[t].pc = "authenticate" /\ task'[t].job = q
      /\ \A s \in Tasks \ {t} : task'[s] = task[s]
  BY <1>1 DEF TypeOK, Post, ReceivePersonal, ReceiveShared, Idle
<1>5. \A other \in Pairs \ {p} :
        SameRows(other) /\ done'[other] = done[other] /\ since'[other] = since[other]
  BY <1>2 DEF SameRows, OrderlyInv, OrderlyTypeOK
<1>6. /\ \A s \in Tasks \ {t} : FetchedDocument(s)' /\ StoredOrder(s)'
      /\ \A other \in Pairs \ {p} :
           /\ done'[other] = "Follow" => Follows(other)'
           /\ done'[other] = "Undo" => ~ Follows(other)'
           /\ done'[other] = "Follow" => FreshFor(other)'
  BY <1>1, <1>2, <1>3, <1>4, <1>5, OthersStay DEF Outstanding
<1>7. done'[p] = "nothing" /\ since'[p] = {profile[p[1]]}
  BY <1>2, <1>3 DEF OrderlyInv, OrderlyTypeOK
<1>8. LastWordStands' /\ FreshRow'
  BY <1>6, <1>7 DEF LastWordStands, FreshRow, FreshFor
<1>9. ASSUME NEW o \in Pairs, NEW s \in Tasks, WorksOn(s, o)'
      PROVE  (s = t /\ o = p) \/ (s # t /\ o # p /\ WorksOn(s, o))
  <2>1. CASE s = t
    BY <1>4, <1>9, <2>1 DEF WorksOn, pair
  <2>2. CASE s # t
    <3>1. WorksOn(s, o)
      BY <1>4, <1>9, <2>2 DEF WorksOn, Orders, Genuine, Reaches, pair
    <3> QED BY <1>2, <2>2, <3>1 DEF Outstanding
  <2> QED BY <2>1, <2>2
<1>10. OneAtATime'
  BY <1>9 DEF OrderlyInv, OneAtATime
<1>11. Unconcluded' /\ Watched'
  BY <1>2, <1>5, <1>7, <1>9 DEF OrderlyInv, Unconcluded, Watched, Outstanding
<1>12. FetchedDocument(t)' /\ StoredOrder(t)'
  BY <1>4, NoClaim
<1>13. OrderlyTypeOK'
  BY <1>2, <1>3 DEF OrderlyInv, OrderlyTypeOK, IInv, TypeOK, Pairs
<1> QED BY <1>6, <1>8, <1>10, <1>11, <1>12, <1>13 DEF OrderlyInv

\* Other requests, and calls of follow_actor, are no orders.
LEMMA StrayOrder ==
  ASSUME IInv, OrderlyInv, NEW t \in Tasks, Stray(t)
  PROVE  OrderlyInv'
<1>1. TypeOK
  BY DEF IInv
<1>2. ASSUME NEW q \in Requests \ Orders, ReceivePersonal(t, q) \/ ReceiveShared(t, q)
      PROVE  OrderlyInv'
  <2>1. UNCHANGED <<profile, followers, done, since>>
    BY <1>2 DEF Stray, ReceivePersonal, ReceiveShared, store
  <2>2. ASSUME NEW new, task' = [task EXCEPT ![t] = new],
               new.pc = "authenticate", new.job = q
        PROVE  OrderlyInv'
    <3>1. task'[t].pc = "authenticate"
      BY <1>1, <2>2 DEF TypeOK
    <3> QED BY <1>1, <1>2, <2>1, <2>2, <3>1, NoClaim, OrderlyMove
  <2>3. CASE ReceivePersonal(t, q)
    <3> DEFINE new == [Idle EXCEPT !.pc = "authenticate", !.job = q, !.local = q.inbox]
    <3>1. new.pc = "authenticate" /\ new.job = q
      BY DEF Idle
    <3>2. task' = [task EXCEPT ![t] = new]
      BY <2>3 DEF ReceivePersonal
    <3> HIDE DEF new
    <3> QED BY <2>2, <3>1, <3>2
  <2>4. CASE ReceiveShared(t, q)
    <3> DEFINE target == shared_inbox_target(q.act)
               new == [Idle EXCEPT !.pc = "authenticate", !.job = q,
                                   !.local = target.local, !.pending = target.pending]
    <3>1. new.pc = "authenticate" /\ new.job = q
      BY DEF Idle
    <3>2. task' = [task EXCEPT ![t] = new]
      BY <2>4 DEF ReceiveShared
    <3> HIDE DEF new
    <3> QED BY <2>2, <3>1, <3>2
  <2> QED BY <1>2, <2>3, <2>4
<1>3. ASSUME NEW i \in Intents, BeginFollow(t, i)
      PROVE  OrderlyInv'
  <2> DEFINE new == [Idle EXCEPT !.pc = "resolve", !.job = i, !.local = i.local]
  <2>1. new.pc = "resolve" /\ new.job = i
    BY DEF Idle
  <2>2. i \notin Orders
    BY InputsAssumption DEF FollowIntents, Orders, InboxRequests
  <2>3. UNCHANGED <<profile, followers, done, since>>
    BY <1>3 DEF Stray, BeginFollow, store
  <2>4. task' = [task EXCEPT ![t] = new]
    BY <1>3 DEF BeginFollow
  <2> HIDE DEF new
  <2>5. task'[t].pc = "resolve"
    BY <1>1, <2>1, <2>4 DEF TypeOK
  <2> QED BY <1>1, <2>1, <2>2, <2>3, <2>4, <2>5, NoClaim, OrderlyMove
<1> QED BY <1>2, <1>3 DEF Stray

\* After a restart no order is outstanding.
LEMMA RestartOrder ==
  ASSUME OrderlyInv, Restart
  PROVE  OrderlyInv'
<1>1. /\ \A t \in Tasks : task'[t].pc = "idle"
      /\ UNCHANGED <<profile, followers, done, since>>
  BY DEF Restart, Crash, Idle, store
<1>2. OneAtATime' /\ Unconcluded' /\ Watched'
  BY <1>1 DEF OneAtATime, Unconcluded, Watched, Outstanding, WorksOn
<1>3. \A t \in Tasks : FetchedDocument(t)' /\ StoredOrder(t)'
  BY <1>1, NoClaim
<1>4. OrderlyTypeOK' /\ LastWordStands' /\ FreshRow'
  BY <1>1 DEF OrderlyInv, OrderlyTypeOK, LastWordStands, Follows, FreshRow, FetchesDocument,
              Orders, Genuine, Reaches, pair, SameFollower
<1> QED BY <1>2, <1>3, <1>4 DEF OrderlyInv

\* Who works on an order of the actor is shown its new document.
LEMMA RenewOrder ==
  ASSUME IInv, OrderlyInv, NEW r \in Remotes, Renew(r)
  PROVE  OrderlyInv'
<1>1. /\ UNCHANGED <<task, followers, done>>
      /\ profile \in [Remotes -> Versions] /\ profile' \in [Remotes -> Versions]
      /\ \A other \in Remotes \ {r} : profile'[other] = profile[other]
  BY DEF Renew, Republish, store, IInv, TypeOK
<1>2. since' = [p \in Pairs |->
                  IF p[1] = r /\ Outstanding(p) THEN since[p] \cup {profile'[r]} ELSE since[p]]
  BY DEF Renew
<1>3. \A p \in Pairs : /\ since[p] \subseteq since'[p]
                       /\ p[1] = r /\ Outstanding(p) => profile'[r] \in since'[p]
  BY <1>2
<1>4. OneAtATime' /\ Unconcluded'
  BY <1>1 DEF OrderlyInv, OneAtATime, Unconcluded, Outstanding, WorksOn, Orders, Genuine, Reaches, pair
<1>5. Watched'
  <2> SUFFICES ASSUME NEW p \in Pairs, Outstanding(p)'
               PROVE  profile'[p[1]] \in since'[p]
    BY DEF Watched
  <2>1. Outstanding(p)
    BY <1>1 DEF Outstanding, WorksOn, Orders, Genuine, Reaches, pair
  <2>2. CASE p[1] = r
    BY <1>3, <2>1, <2>2
  <2>3. CASE p[1] # r
    BY <1>1, <1>3, <2>1, <2>3 DEF OrderlyInv, Watched, Pairs
  <2> QED BY <2>2, <2>3
<1>6. ASSUME NEW t \in Tasks
      PROVE  FetchedDocument(t)' /\ StoredOrder(t)'
  <2>1. FetchedDocument(t)'
    BY <1>1, <1>3, OrderPair
    DEF OrderlyInv, FetchedDocument, FetchesDocument, Orders, Genuine, Reaches, pair
  <2>2. StoredOrder(t)'
    BY <1>1, <1>3, OrderPair
    DEF OrderlyInv, StoredOrder, Follows, FreshFor, FetchesDocument, Orders, Genuine, Reaches, pair,
        SameFollower
  <2> QED BY <2>1, <2>2
<1>7. LastWordStands'
  BY <1>1 DEF OrderlyInv, LastWordStands, Follows, SameFollower
<1>8. FreshRow'
  BY <1>1, <1>3 DEF OrderlyInv, FreshRow, FetchesDocument, Orders, Genuine, Reaches, pair, SameFollower
<1>9. OrderlyTypeOK'
  <2>1. profile'[r] \in Versions
    BY <1>1
  <2> QED BY <1>1, <1>2, <2>1 DEF OrderlyInv, OrderlyTypeOK
<1> QED BY <1>4, <1>5, <1>6, <1>7, <1>8, <1>9 DEF OrderlyInv

\* Every step keeps the invariant.
LEMMA OrderlyNextInv == IInv /\ OrderlyInv /\ [OrderlyNext]_orderlyVars => OrderlyInv'
<1> SUFFICES ASSUME IInv, OrderlyInv, [OrderlyNext]_orderlyVars PROVE OrderlyInv'
  OBVIOUS
<1>1. ASSUME NEW t \in Tasks, NEW q \in Requests, Post(t, q) PROVE OrderlyInv'
  BY <1>1, PostOrder
<1>2. ASSUME NEW t \in Tasks, Stray(t) PROVE OrderlyInv'
  BY <1>2, StrayOrder
<1>3. ASSUME NEW t \in Tasks, Conclude(t) PROVE OrderlyInv'
  BY <1>3, ConcludeOrder
<1>4. ASSUME NEW t \in Tasks, Proceed(t) PROVE OrderlyInv'
  BY <1>4, ProceedOrder, StoreOrder DEF Proceed
<1>5. CASE Restart
  BY <1>5, RestartOrder
<1>6. ASSUME NEW r \in Remotes, Renew(r) PROVE OrderlyInv'
  BY <1>6, RenewOrder
<1>7. CASE UNCHANGED orderlyVars
  <2>1. UNCHANGED <<profile, followers, task, done, since>>
    BY <1>7 DEF orderlyVars, vars, store
  <2>2. OneAtATime' /\ Unconcluded' /\ Watched'
    BY <2>1 DEF OrderlyInv, OneAtATime, Unconcluded, Watched, Outstanding, WorksOn, Orders,
                Genuine, Reaches, pair
  <2>3. \A t \in Tasks : FetchedDocument(t)' /\ StoredOrder(t)'
    BY <2>1, OrderStays DEF OrderlyInv
  <2>4. OrderlyTypeOK' /\ LastWordStands' /\ FreshRow'
    BY <2>1 DEF OrderlyInv, OrderlyTypeOK, LastWordStands, Follows, FreshRow, FetchesDocument,
                Orders, Genuine, Reaches, pair, SameFollower
  <2> QED BY <2>2, <2>3, <2>4 DEF OrderlyInv
<1> QED BY <1>1, <1>2, <1>3, <1>4, <1>5, <1>6, <1>7 DEF OrderlyNext

\* Every reachable state satisfies both invariants.
THEOREM OrderlyInvariance == OrderlySpec => [](IInv /\ OrderlyInv)
<1>1. OrderlyInit => IInv
  BY InitInv DEF OrderlyInit
<1>2. IInv /\ [OrderlyNext]_orderlyVars => IInv'
  BY OrderlyStep, NextInv
<1> QED BY <1>1, <1>2, OrderlyInitInv, OrderlyNextInv, PTL DEF OrderlySpec

------------------------------------------------------------------------------
(* The theorems *)

\* For every set of actors, requests and tasks: whoever posts one thing at a time
\* is a follower after its Follow and none after its Undo.
THEOREM LastWord == OrderlySpec => []LastWordStands
<1>1. OrderlyInv => LastWordStands
  BY DEF OrderlyInv
<1> QED BY <1>1, OrderlyInvariance, PTL

\* And its row is as new as its Follow.
THEOREM Fresh == OrderlySpec => []FreshRow
<1>1. OrderlyInv => FreshRow
  BY DEF OrderlyInv
<1> QED BY <1>1, OrderlyInvariance, PTL
==============================================================================
