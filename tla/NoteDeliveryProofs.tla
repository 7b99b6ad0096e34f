-------------------------- MODULE NoteDeliveryProofs --------------------------
(***************************************************************************)
(* Proofs about NoteDelivery, for every set of actors, documents, notes    *)
(* and concurrent calls.                                                   *)
(***************************************************************************)
EXTENDS NoteDelivery, TLAPS

(***************************************************************************)
(* The inductive invariant: what a call knows at each of its stages.       *)
(***************************************************************************)

\* A running call has witnessed the followers there are, and none it believes
\* to have stayed is gone.
CallOK(t) ==
  task[t].pc # "idle" =>
    /\ task[t].note \in Calls
    /\ followers \subseteq task[t].seen
    /\ task[t].stayed \subseteq followers

\* Past its first stage the note is stored.
StoredOK(t) ==
  task[t].pc \notin {"idle", "storeNote"} => IsStored(task[t].note)

\* All inboxes it posts or will post to belong to the audience.
AudienceOK(t) ==
  \A inbox \in task[t].inboxes \cup task[t].attempted :
    OfAddressee(task[t].note, inbox) \/ OfFollower(t, inbox)

\* Only addressed actors are resolved.
RecipientOK(t) == task[t].recipients \subseteq actor_recipients(task[t].note)

\* Nobody in the audience is forgotten: each is still to be resolved or posted
\* to, or has failed to resolve, or has been posted to.
ProgressOK(t) ==
  task[t].pc \in {"resolve", "send", "returned"} =>
    /\ \A row \in StayingFollowers(t) :
         follower_inbox(row) \in task[t].inboxes \cup task[t].attempted
    /\ \A r \in actor_recipients(task[t].note) :
         \/ r \in task[t].recipients \cup task[t].unresolved
         \/ InboxesOf(r) \cap (task[t].inboxes \cup task[t].attempted) # {}

\* What has been posted has arrived or is known to have failed.
DeliveryOK(t) ==
  \A inbox \in task[t].attempted :
    inbox \in task[t].unsent \/ <<task[t].note, inbox>> \in delivered

\* Nothing fails to be sent before anything is sent, the second loop starts when
\* the first has ended, and a result is what the two loops left.
ResultOK(t) ==
  /\ task[t].pc \in {"storeNote", "listFollowers", "resolve"} => task[t].unsent = {}
  /\ task[t].pc = "send" => task[t].recipients = {}
  /\ task[t].pc = "returned" /\ task[t].result # "MissingActorKey" =>
       task[t].recipients = {} /\ task[t].inboxes = {}
  /\ task[t].pc = "returned" /\ task[t].result = "Ok" =>
       task[t].unresolved = {} /\ task[t].unsent = {}

TaskOK(t) ==
  /\ CallOK(t)
  /\ StoredOK(t)
  /\ AudienceOK(t)
  /\ RecipientOK(t)
  /\ ProgressOK(t)
  /\ DeliveryOK(t)
  /\ ResultOK(t)

IInv ==
  /\ TypeOK
  /\ \A t \in Tasks : TaskOK(t)
  /\ DeliveredIsStored
  /\ \A note \in served : is_public_note(note)

------------------------------------------------------------------------------
(* Lemmas *)

\* What a call is made of.
LEMMA CallParts ==
  ASSUME NEW note \in Calls
  PROVE  /\ note.author \in Locals
         /\ note.id \in NoteIds
         /\ note.audience \subseteq Addresses
         /\ note # None
BY AddressingAssumption, NoNoteAssumption DEF Notes

\* The idle record is one, and nothing is asked of it.
LEMMA IdleType == Idle \in TaskStates /\ Idle.pc = "idle"
BY DEF Idle, TaskStates

LEMMA IdleTask ==
  ASSUME NEW t \in Tasks, task'[t] = Idle
  PROVE  TaskOK(t)'
BY DEF TaskOK, CallOK, StoredOK, AudienceOK, RecipientOK, ProgressOK, DeliveryOK,
       ResultOK, Idle

\* A follower's inbox is one of an actor's.
LEMMA FollowerInbox ==
  ASSUME NEW row \in FollowerRows
  PROVE  follower_inbox(row) \in Inboxes /\ follower_inbox(row) \in InboxesOf(row.follower)
<1> DEFINE doc == [id |-> row.follower, ver |-> row.ver]
<1>1. doc \in ActorDocs /\ doc.id = row.follower
  BY DEF FollowerRows, ActorDocs
<1>2. follower_inbox(row) \in Inboxes
  BY <1>1, AddressingAssumption DEF follower_inbox
<1>3. follower_inbox(row) \in {Inbox[doc], SharedInbox[doc]}
  BY DEF follower_inbox
<1>4. QED
  BY <1>1, <1>2, <1>3 DEF InboxesOf

\* A step that keeps the tables, and adds deliveries of stored notes, need only
\* prove what it changes of the call that moves.
LEMMA OneMoves ==
  ASSUME IInv, NEW t \in Tasks, NEW new \in TaskStates,
         task' = [task EXCEPT ![t] = new],
         UNCHANGED <<followers, objects, served>>,
         delivered \subseteq delivered',
         delivered' \subseteq Calls \X Inboxes,
         \A d \in delivered' : d \in delivered \/ IsStored(d[1]),
         TaskOK(t)'
  PROVE  IInv'
<1>1. TypeOK'
  BY DEF IInv, TypeOK
<1>2. ASSUME NEW u \in Tasks PROVE TaskOK(u)'
  <2>1. CASE u = t
    BY <2>1
  <2>2. CASE u # t
    <3>1. task'[u] = task[u]
      BY <2>2 DEF IInv, TypeOK
    <3>2. TaskOK(u)
      BY DEF IInv
    <3>3. QED
      BY <3>1, <3>2
      DEF TaskOK, CallOK, StoredOK, AudienceOK, ProgressOK, DeliveryOK, ResultOK,
          RecipientOK, IsStored, OfAddressee, OfFollower, StayingFollowers
  <2>3. QED
    BY <2>1, <2>2
<1>3. DeliveredIsStored'
  BY DEF IInv, DeliveredIsStored, IsStored
<1>4. (\A note \in served : is_public_note(note))'
  BY DEF IInv, is_public_note
<1>5. QED
  BY <1>1, <1>2, <1>3, <1>4 DEF IInv

------------------------------------------------------------------------------
(* The invariant holds initially, and each action keeps it *)

\* Nothing has happened yet.
LEMMA InitInv == Init => IInv
<1> SUFFICES ASSUME Init PROVE IInv
  OBVIOUS
<1>1. TypeOK
  BY IdleType DEF Init, TypeOK
<1>2. ASSUME NEW t \in Tasks PROVE TaskOK(t)
  BY DEF Init, TaskOK, CallOK, StoredOK, AudienceOK, RecipientOK, ProgressOK,
         DeliveryOK, ResultOK, Idle
<1>3. DeliveredIsStored /\ \A note \in served : is_public_note(note)
  BY DEF Init, DeliveredIsStored
<1>4. QED
  BY <1>1, <1>2, <1>3 DEF IInv

\* End keeps the invariant.
LEMMA EndInv ==
  ASSUME IInv, NEW t \in Tasks, End(t)
  PROVE  IInv'
<1>1. task'[t] = Idle
  BY DEF End, IInv, TypeOK
<1>2. TaskOK(t)'
  BY <1>1, IdleTask
<1>3. QED
  BY <1>2, IdleType, OneMoves DEF End, IInv, TypeOK

\* Crash keeps the invariant.
LEMMA CrashInv ==
  ASSUME IInv, Crash
  PROVE  IInv'
<1>1. TypeOK'
  BY IdleType DEF Crash, IInv, TypeOK
<1>2. ASSUME NEW t \in Tasks PROVE TaskOK(t)'
  BY IdleTask DEF Crash
<1>3. DeliveredIsStored' /\ (\A note \in served : is_public_note(note))'
  BY DEF Crash, IInv, DeliveredIsStored, IsStored, is_public_note
<1>4. QED
  BY <1>1, <1>2, <1>3 DEF IInv

\* Begin keeps the invariant.
LEMMA BeginInv ==
  ASSUME IInv, NEW t \in Tasks, NEW note \in Calls, Begin(t, note)
  PROVE  IInv'
<1> DEFINE new == [Idle EXCEPT !.pc = "storeNote", !.note = note,
                               !.seen = followers, !.stayed = followers]
<1>1. new \in TaskStates
  BY DEF IInv, TypeOK, TaskStates, Idle
<1>2. task' = [task EXCEPT ![t] = new] /\ UNCHANGED <<followers, objects, delivered, served>>
  BY DEF Begin
<1>3. task'[t] = new
  BY <1>2 DEF IInv, TypeOK
<1> HIDE DEF new
<1>4. /\ task'[t].pc = "storeNote" /\ task'[t].note = note
      /\ task'[t].inboxes = {} /\ task'[t].attempted = {} /\ task'[t].unsent = {}
      /\ task'[t].recipients = {}
      /\ task'[t].seen = followers /\ task'[t].stayed = followers
  BY <1>3 DEF new, Idle
<1>5. CallOK(t)' /\ StoredOK(t)' /\ ResultOK(t)'
  BY <1>2, <1>4 DEF CallOK, StoredOK, ResultOK
<1>6. AudienceOK(t)' /\ RecipientOK(t)' /\ ProgressOK(t)' /\ DeliveryOK(t)'
  BY <1>4 DEF AudienceOK, RecipientOK, ProgressOK, DeliveryOK
<1>7. TaskOK(t)'
  BY <1>5, <1>6 DEF TaskOK
<1>8. QED
  BY <1>1, <1>2, <1>7, OneMoves DEF IInv, TypeOK

\* StoreNote keeps the invariant: it may take the place of another note, but not
\* of one whose id is its own.
LEMMA StoreNoteInv ==
  ASSUME IInv, NEW t \in Tasks, StoreNote(t)
  PROVE  IInv'
<1> PICK note \in Calls : note = task[t].note
  BY DEF IInv, TaskOK, CallOK, StoreNote
<1>1. task[t].pc = "storeNote" /\ task[t] \in TaskStates
  BY DEF IInv, TypeOK, StoreNote
<1>2. /\ objects' = [objects EXCEPT ![note.id] = note]
      /\ UNCHANGED <<followers, delivered, served>>
  BY DEF StoreNote, store_note
<1>3. /\ task'[t] = [task[t] EXCEPT !.pc = "listFollowers"]
      /\ task' \in [Tasks -> TaskStates]
      /\ \A u \in Tasks : u # t => task'[u] = task[u]
  BY <1>1 DEF StoreNote, IInv, TypeOK, TaskStates
<1>4. objects' \in [NoteIds -> Calls \cup {None}]
  BY <1>1, <1>2, CallParts DEF IInv, TypeOK
<1>5. ASSUME NEW n \in Calls, IsStored(n) \/ n = note PROVE IsStored(n)'
  <2>1. CASE n.id = note.id
    <3>1. objects'[n.id] = note
      BY <1>2, <2>1, <1>1, CallParts DEF IInv, TypeOK
    <3>2. QED
      BY <3>1, <2>1, <1>1, CallParts DEF IsStored, OneNote
  <2>2. CASE n.id # note.id
    <3>1. objects'[n.id] = objects[n.id]
      BY <1>2, <2>2, CallParts DEF IInv, TypeOK
    <3>2. QED
      BY <3>1, <2>2, <1>5 DEF IsStored, OneNote
  <2>3. QED
    BY <2>1, <2>2
<1>6. TypeOK'
  BY <1>2, <1>3, <1>4 DEF IInv, TypeOK
<1>7. ASSUME NEW u \in Tasks PROVE TaskOK(u)'
  <2>1. TaskOK(u) /\ UNCHANGED <<followers, delivered>>
    BY <1>2 DEF IInv
  <2>2. CASE u = t
    <3>1. IsStored(note)'
      BY <1>5
    <3>2. StoredOK(u)'
      BY <2>2, <3>1, <1>3, <1>1 DEF StoredOK, TaskStates, IsStored
    <3>3. CallOK(u)' /\ DeliveryOK(u)' /\ ResultOK(u)' /\ RecipientOK(u)' /\ ProgressOK(u)'
      BY <2>1, <2>2, <1>1, <1>3
      DEF TaskOK, CallOK, DeliveryOK, ResultOK, RecipientOK, ProgressOK, TaskStates
    <3>4. AudienceOK(u)'
      BY <2>1, <2>2, <1>1, <1>3 DEF TaskOK, AudienceOK, OfAddressee, OfFollower, TaskStates
    <3>5. QED
      BY <3>2, <3>3, <3>4 DEF TaskOK
  <2>3. CASE u # t
    <3>1. task'[u] = task[u]
      BY <2>3, <1>3
    <3>2. StoredOK(u)'
      <4>1. task[u].pc \notin {"idle", "storeNote"} =>
              task[u].note \in Calls /\ IsStored(task[u].note)
        BY <2>1 DEF TaskOK, CallOK, StoredOK
      <4>2. task[u].pc \notin {"idle", "storeNote"} => IsStored(task[u].note)'
        BY <4>1, <1>5, <3>1 DEF IsStored
      <4>3. QED
        BY <4>2, <3>1 DEF StoredOK, IsStored
    <3>3. CallOK(u)' /\ DeliveryOK(u)' /\ ResultOK(u)' /\ RecipientOK(u)' /\ ProgressOK(u)'
      BY <2>1, <3>1
      DEF TaskOK, CallOK, DeliveryOK, ResultOK, RecipientOK, ProgressOK, StayingFollowers
    <3>4. AudienceOK(u)'
      BY <2>1, <3>1 DEF TaskOK, AudienceOK, OfAddressee, OfFollower
    <3>5. QED
      BY <3>2, <3>3, <3>4 DEF TaskOK
  <2>4. QED
    BY <2>2, <2>3
<1>8. DeliveredIsStored'
  <2>1. ASSUME NEW d \in delivered PROVE d[1] \in Calls /\ IsStored(d[1])
    BY DEF IInv, TypeOK, DeliveredIsStored
  <2>2. ASSUME NEW d \in delivered PROVE IsStored(d[1])'
    BY <2>1, <1>5
  <2>3. QED
    BY <2>2, <1>2 DEF DeliveredIsStored, IsStored
<1>9. (\A n \in served : is_public_note(n))'
  BY <1>2 DEF IInv, is_public_note
<1>10. QED
  BY <1>6, <1>7, <1>8, <1>9 DEF IInv

\* ListFollowers keeps the invariant: a follower who has stayed so far is in the
\* table now, and an addressed actor is left out only for its row.
LEMMA ListFollowersInv ==
  ASSUME IInv, NEW t \in Tasks, ListFollowers(t)
  PROVE  IInv'
<1> DEFINE note == task[t].note
           rows == targets(t)
           new == [task[t] EXCEPT
                     !.pc = "resolve",
                     !.inboxes = {follower_inbox(row) : row \in rows},
                     !.recipients = actor_recipients(note) \ {row.follower : row \in rows}]
<1>1. /\ note \in Calls /\ task[t].pc = "listFollowers" /\ task[t] \in TaskStates
      /\ followers \subseteq task[t].seen /\ task[t].stayed \subseteq followers
      /\ followers \subseteq FollowerRows
  BY DEF IInv, TypeOK, TaskOK, CallOK, ListFollowers
<1>2. rows = {row \in followers : to_followers(note) /\ row.following = note.author}
  BY DEF targets, list_follower_delivery_targets
<1>3. /\ \A row \in rows : follower_inbox(row) \in Inboxes
                            /\ follower_inbox(row) \in InboxesOf(row.follower)
  BY <1>1, <1>2, FollowerInbox
<1>4. new \in TaskStates
  <2>1. {follower_inbox(row) : row \in rows} \subseteq Inboxes
    BY <1>3
  <2>2. actor_recipients(note) \ {row.follower : row \in rows} \subseteq Addresses
    BY <1>1, CallParts DEF actor_recipients
  <2> HIDE DEF rows, note
  <2>3. QED
    BY <2>1, <2>2, <1>1 DEF TaskStates
<1>5. task' = [task EXCEPT ![t] = new] /\ UNCHANGED <<followers, objects, delivered, served>>
  BY DEF ListFollowers, IInv, TypeOK
<1>6. task'[t] = new
  BY <1>5 DEF IInv, TypeOK
<1>7. /\ task'[t].pc = "resolve"
      /\ task'[t].note = note
      /\ task'[t].inboxes = {follower_inbox(row) : row \in rows}
      /\ task'[t].recipients = actor_recipients(note) \ {row.follower : row \in rows}
      /\ task'[t].attempted = task[t].attempted
      /\ task'[t].unsent = task[t].unsent
      /\ task'[t].seen = task[t].seen
      /\ task'[t].stayed = task[t].stayed
  BY <1>6, <1>1 DEF TaskStates
<1> HIDE DEF new, rows, note
<1>8. TaskOK(t)
  BY DEF IInv
<1>9. CallOK(t)' /\ StoredOK(t)' /\ ResultOK(t)'
  BY <1>8, <1>7, <1>5, <1>1 DEF note, TaskOK, CallOK, StoredOK, ResultOK, IsStored
<1>10. DeliveryOK(t)' /\ RecipientOK(t)'
  BY <1>8, <1>7, <1>5 DEF note, TaskOK, DeliveryOK, RecipientOK
<1>11. AudienceOK(t)'
  <2>1. ASSUME NEW inbox \in task[t].attempted
        PROVE  (OfAddressee(task[t].note, inbox) \/ OfFollower(t, inbox))'
    BY <1>8, <1>7 DEF note, TaskOK, AudienceOK, OfAddressee, OfFollower
  <2>2. ASSUME NEW row \in rows PROVE OfFollower(t, follower_inbox(row))'
    BY <1>2, <1>7, <1>1 DEF note, OfFollower
  <2>3. QED
    BY <2>1, <2>2, <1>7 DEF AudienceOK
<1>12. ProgressOK(t)'
  <2>1. ASSUME NEW row \in StayingFollowers(t)' PROVE row \in rows
    BY <1>1, <1>2, <1>7 DEF StayingFollowers
  <2>2. ASSUME NEW r \in actor_recipients(note), r \notin task'[t].recipients
        PROVE  InboxesOf(r) \cap task'[t].inboxes # {}
    <3>1. PICK row \in rows : row.follower = r
      BY <2>2, <1>7
    <3>2. QED
      BY <3>1, <1>3, <1>7
  <2>3. QED
    BY <2>1, <2>2, <1>7 DEF ProgressOK
<1>13. TaskOK(t)'
  BY <1>9, <1>10, <1>11, <1>12 DEF TaskOK
<1>14. QED
  BY <1>4, <1>5, <1>13, OneMoves DEF IInv, TypeOK

\* ResolveRecipient keeps the invariant: the actor moves on to the inboxes or to
\* those that could not be resolved.
LEMMA ResolveRecipientInv ==
  ASSUME IInv, NEW t \in Tasks, NEW r \in Addresses, ResolveRecipient(t, r)
  PROVE  IInv'
<1>1. /\ task[t].note \in Calls /\ task[t].pc = "resolve" /\ task[t] \in TaskStates
      /\ r \in task[t].recipients /\ TaskOK(t)
      /\ UNCHANGED <<followers, objects, delivered, served>>
  BY DEF IInv, TypeOK, TaskOK, CallOK, ResolveRecipient
<1>2. CASE \E doc \in ActorDocs :
             /\ doc.id = r
             /\ task' = [task EXCEPT ![t].recipients = @ \ {r},
                                     ![t].inboxes = @ \cup {Inbox[doc]}]
  <2>1. PICK doc \in ActorDocs :
          /\ doc.id = r
          /\ task' = [task EXCEPT ![t].recipients = @ \ {r},
                                  ![t].inboxes = @ \cup {Inbox[doc]}]
    BY <1>2
  <2> DEFINE new == [task[t] EXCEPT !.recipients = @ \ {r},
                                    !.inboxes = @ \cup {Inbox[doc]}]
  <2>2. Inbox[doc] \in Inboxes /\ Inbox[doc] \in InboxesOf(r)
    BY <2>1, AddressingAssumption DEF InboxesOf
  <2>3. new \in TaskStates
    BY <1>1, <2>2 DEF TaskStates
  <2>4. task' = [task EXCEPT ![t] = new]
    BY <2>1 DEF IInv, TypeOK
  <2>5. task'[t] = new
    BY <2>4 DEF IInv, TypeOK
  <2>6. /\ task'[t].recipients = task[t].recipients \ {r}
        /\ task'[t].inboxes = task[t].inboxes \cup {Inbox[doc]}
        /\ task'[t].pc = "resolve"
        /\ task'[t].note = task[t].note
        /\ task'[t].unresolved = task[t].unresolved
        /\ task'[t].unsent = task[t].unsent
        /\ task'[t].attempted = task[t].attempted
        /\ task'[t].seen = task[t].seen
        /\ task'[t].stayed = task[t].stayed
    BY <2>5, <1>1 DEF TaskStates
  <2> HIDE DEF new
  <2>7. CallOK(t)' /\ StoredOK(t)' /\ DeliveryOK(t)' /\ ResultOK(t)'
    BY <1>1, <2>6 DEF TaskOK, CallOK, StoredOK, DeliveryOK, ResultOK, IsStored
  <2>8. AudienceOK(t)'
    <3>1. ASSUME NEW inbox \in task[t].inboxes \cup task[t].attempted
          PROVE  (OfAddressee(task[t].note, inbox) \/ OfFollower(t, inbox))'
      BY <1>1, <2>6 DEF TaskOK, AudienceOK, OfAddressee, OfFollower
    <3>2. r \in task[t].note.audience
      BY <1>1 DEF TaskOK, RecipientOK, actor_recipients
    <3>3. OfAddressee(task[t].note, Inbox[doc])'
      BY <2>1, <2>6, <3>2 DEF OfAddressee
    <3>4. QED
      BY <3>1, <3>3, <2>6 DEF AudienceOK
  <2>9. ProgressOK(t)' /\ RecipientOK(t)'
    BY <1>1, <2>2, <2>6 DEF TaskOK, ProgressOK, RecipientOK, StayingFollowers
  <2>10. TaskOK(t)'
    BY <2>7, <2>8, <2>9 DEF TaskOK
  <2>11. QED
    BY <1>1, <2>3, <2>4, <2>10, OneMoves DEF IInv, TypeOK
<1>3. CASE task' = [task EXCEPT ![t].recipients = @ \ {r},
                                ![t].unresolved = @ \cup {r}]
  <2> DEFINE new == [task[t] EXCEPT !.recipients = @ \ {r}, !.unresolved = @ \cup {r}]
  <2>1. new \in TaskStates
    BY <1>1 DEF TaskStates
  <2>2. task' = [task EXCEPT ![t] = new]
    BY <1>3 DEF IInv, TypeOK
  <2>3. task'[t] = new
    BY <2>2 DEF IInv, TypeOK
  <2>4. /\ task'[t].recipients = task[t].recipients \ {r}
        /\ task'[t].inboxes = task[t].inboxes
        /\ task'[t].pc = "resolve"
        /\ task'[t].note = task[t].note
        /\ task'[t].unresolved = task[t].unresolved \cup {r}
        /\ task'[t].unsent = task[t].unsent
        /\ task'[t].attempted = task[t].attempted
        /\ task'[t].seen = task[t].seen
        /\ task'[t].stayed = task[t].stayed
    BY <2>3, <1>1 DEF TaskStates
  <2> HIDE DEF new
  <2>5. CallOK(t)' /\ StoredOK(t)' /\ DeliveryOK(t)' /\ ResultOK(t)'
    BY <1>1, <2>4 DEF TaskOK, CallOK, StoredOK, DeliveryOK, ResultOK, IsStored
  <2>6. AudienceOK(t)'
    BY <1>1, <2>4 DEF TaskOK, AudienceOK, OfAddressee, OfFollower
  <2>7. ProgressOK(t)' /\ RecipientOK(t)'
    BY <1>1, <2>4 DEF TaskOK, ProgressOK, RecipientOK, StayingFollowers
  <2>8. TaskOK(t)'
    BY <2>5, <2>6, <2>7 DEF TaskOK
  <2>9. QED
    BY <1>1, <2>1, <2>2, <2>8, OneMoves DEF IInv, TypeOK
<1>4. QED
  BY <1>2, <1>3 DEF ResolveRecipient

\* A call turns to another stage.
Turn(t, pc, result) == task' = [task EXCEPT ![t].pc = pc, ![t].result = result]

\* A step that only turns to another stage, perhaps with a result, need only
\* prove that the result is what the two loops left.
LEMMA StageMoves ==
  ASSUME IInv, NEW t \in Tasks, NEW pc \in {"send", "returned"},
         NEW result \in Results \cup {None},
         task[t].pc \in {"resolve", "send"},
         Turn(t, pc, result),
         UNCHANGED <<followers, objects, delivered, served>>,
         ResultOK(t)'
  PROVE  IInv'
<1> DEFINE new == [task[t] EXCEPT !.pc = pc, !.result = result]
<1>1. TaskOK(t) /\ task[t] \in TaskStates
  BY DEF IInv, TypeOK
<1>2. new \in TaskStates
  BY <1>1 DEF TaskStates
<1>3. task' = [task EXCEPT ![t] = new]
  BY DEF Turn, IInv, TypeOK
<1>4. task'[t] = new
  BY <1>3 DEF IInv, TypeOK
<1>5. /\ task'[t].recipients = task[t].recipients
      /\ task'[t].inboxes = task[t].inboxes
      /\ task'[t].pc = pc
      /\ task'[t].note = task[t].note
      /\ task'[t].unresolved = task[t].unresolved
      /\ task'[t].unsent = task[t].unsent
      /\ task'[t].attempted = task[t].attempted
      /\ task'[t].seen = task[t].seen
      /\ task'[t].stayed = task[t].stayed
  BY <1>1, <1>4 DEF TaskStates
<1> HIDE DEF new
<1>6. CallOK(t)' /\ StoredOK(t)' /\ DeliveryOK(t)'
  BY <1>1, <1>5 DEF TaskOK, CallOK, StoredOK, DeliveryOK, IsStored
<1>7. AudienceOK(t)'
  BY <1>1, <1>5 DEF TaskOK, AudienceOK, OfAddressee, OfFollower
<1>8. ProgressOK(t)' /\ RecipientOK(t)'
  BY <1>1, <1>5 DEF TaskOK, ProgressOK, RecipientOK, StayingFollowers
<1>9. TaskOK(t)'
  BY <1>6, <1>7, <1>8 DEF TaskOK
<1>10. QED
  BY <1>2, <1>3, <1>9, OneMoves DEF IInv, TypeOK

\* LoadKey keeps the invariant.
LEMMA LoadKeyInv ==
  ASSUME IInv, NEW t \in Tasks, LoadKey(t)
  PROVE  IInv'
<1>1. /\ task \in [Tasks -> TaskStates] /\ TaskOK(t)
      /\ task[t] \in TaskStates
      /\ task[t].pc = "resolve" /\ task[t].recipients = {}
      /\ UNCHANGED <<followers, objects, delivered, served>>
  BY DEF LoadKey, IInv, TypeOK
<1>2. CASE task[t].inboxes = {}
  <2> DEFINE result == IF task[t].unresolved # {} THEN "ActorResolver" ELSE "Ok"
  <2>1. task' = [task EXCEPT ![t].pc = "returned", ![t].result = result]
    BY <1>2 DEF LoadKey, Return
  <2>2. /\ task'[t].pc = "returned" /\ task'[t].result = result
        /\ task'[t].recipients = {} /\ task'[t].inboxes = {}
        /\ task'[t].unresolved = task[t].unresolved
        /\ task'[t].unsent = task[t].unsent
    BY <1>1, <1>2, <2>1 DEF TaskStates
  <2>3. ResultOK(t)'
    BY <1>1, <2>2 DEF TaskOK, ResultOK
  <2>4. result \in Results
    BY DEF Results
  <2>5. QED
    BY <1>1, <2>1, <2>3, <2>4, StageMoves DEF Turn
<1>3. CASE task[t].inboxes # {} /\ task[t].note.author \notin Keyed
  <2>1. task' = [task EXCEPT ![t].pc = "returned", ![t].result = "MissingActorKey"]
    BY <1>3 DEF LoadKey, Return
  <2>2. task'[t].pc = "returned" /\ task'[t].result = "MissingActorKey"
    BY <1>1, <2>1 DEF TaskStates
  <2>3. ResultOK(t)'
    BY <2>2 DEF ResultOK
  <2>4. QED
    BY <1>1, <2>1, <2>3, StageMoves DEF Turn, Results
<1>4. CASE task[t].inboxes # {} /\ task[t].note.author \in Keyed
  <2>1. task' = [task EXCEPT ![t].pc = "send"]
    BY <1>4 DEF LoadKey
  <2>2. PICK result \in Results \cup {None} : result = task[t].result
    BY <1>1 DEF TaskStates
  <2>3. task' = [task EXCEPT ![t].pc = "send", ![t].result = result]
    BY <1>1, <2>1, <2>2 DEF TaskStates
  <2>4. task'[t].pc = "send" /\ task'[t].recipients = {}
    BY <1>1, <2>1 DEF TaskStates
  <2>5. ResultOK(t)'
    BY <2>4 DEF ResultOK
  <2>6. QED
    BY <1>1, <2>3, <2>5, StageMoves DEF Turn
<1>5. QED
  BY <1>2, <1>3, <1>4

\* Finish keeps the invariant.
LEMMA FinishInv ==
  ASSUME IInv, NEW t \in Tasks, Finish(t)
  PROVE  IInv'
<1> DEFINE result == IF task[t].unsent # {} THEN "ActivitySender"
                     ELSE IF task[t].unresolved # {} THEN "ActorResolver"
                     ELSE "Ok"
<1>1. /\ task \in [Tasks -> TaskStates] /\ TaskOK(t)
      /\ task[t] \in TaskStates
      /\ task[t].pc = "send" /\ task[t].inboxes = {}
      /\ UNCHANGED <<followers, objects, delivered, served>>
      /\ task' = [task EXCEPT ![t].pc = "returned", ![t].result = result]
  BY DEF Finish, Return, IInv, TypeOK
<1>2. /\ task'[t].pc = "returned" /\ task'[t].result = result
      /\ task'[t].recipients = task[t].recipients /\ task'[t].inboxes = {}
      /\ task'[t].unresolved = task[t].unresolved
      /\ task'[t].unsent = task[t].unsent
  BY <1>1 DEF TaskStates
<1>3. ResultOK(t)'
  BY <1>1, <1>2 DEF TaskOK, ResultOK
<1>4. result \in Results
  BY DEF Results
<1>5. QED
  BY <1>1, <1>3, <1>4, StageMoves DEF Turn

\* SendNext keeps the invariant: what it delivers is a note that is stored.
LEMMA SendNextInv ==
  ASSUME IInv, NEW t \in Tasks, NEW inbox \in Inboxes, SendNext(t, inbox)
  PROVE  IInv'
<1> DEFINE rest == [task[t] EXCEPT !.inboxes = @ \ {inbox}, !.attempted = @ \cup {inbox}]
<1>1. /\ task[t].note \in Calls /\ task[t].pc = "send" /\ task[t] \in TaskStates
      /\ inbox \in task[t].inboxes /\ TaskOK(t)
      /\ UNCHANGED <<followers, objects, served>>
  BY DEF IInv, TypeOK, TaskOK, CallOK, SendNext
<1>2. PICK new \in TaskStates :
        /\ task' = [task EXCEPT ![t] = new]
        /\ new.recipients = task[t].recipients
        /\ new.inboxes = task[t].inboxes \ {inbox}
        /\ new.pc = "send"
        /\ new.note = task[t].note
        /\ new.unresolved = task[t].unresolved
        /\ task[t].unsent \subseteq new.unsent
        /\ new.attempted = task[t].attempted \cup {inbox}
        /\ new.seen = task[t].seen
        /\ new.stayed = task[t].stayed
        /\ inbox \in new.unsent \/ <<task[t].note, inbox>> \in delivered'
  <2>1. CASE /\ delivered' = delivered \cup {<<task[t].note, inbox>>}
             /\ task' = [task EXCEPT ![t] = rest]
    <3>1. rest \in TaskStates
      BY <1>1 DEF TaskStates
    <3>2. /\ rest.recipients = task[t].recipients
          /\ rest.inboxes = task[t].inboxes \ {inbox}
          /\ rest.pc = "send"
          /\ rest.note = task[t].note
          /\ rest.unresolved = task[t].unresolved
          /\ rest.unsent = task[t].unsent
          /\ rest.attempted = task[t].attempted \cup {inbox}
          /\ rest.seen = task[t].seen
          /\ rest.stayed = task[t].stayed
      BY <1>1 DEF TaskStates
    <3> HIDE DEF rest
    <3>3. QED
      BY <2>1, <3>1, <3>2
  <2>2. CASE task' = [task EXCEPT ![t] = [rest EXCEPT !.unsent = @ \cup {inbox}]]
    <3> DEFINE failed == [rest EXCEPT !.unsent = @ \cup {inbox}]
    <3>1. failed \in TaskStates
      BY <1>1 DEF TaskStates
    <3>2. /\ failed.recipients = task[t].recipients
          /\ failed.inboxes = task[t].inboxes \ {inbox}
          /\ failed.pc = "send"
          /\ failed.note = task[t].note
          /\ failed.unresolved = task[t].unresolved
          /\ failed.unsent = task[t].unsent \cup {inbox}
          /\ failed.attempted = task[t].attempted \cup {inbox}
          /\ failed.seen = task[t].seen
          /\ failed.stayed = task[t].stayed
      BY <1>1 DEF TaskStates
    <3>3. task' = [task EXCEPT ![t] = failed]
      BY <2>2
    <3> HIDE DEF failed
    <3>4. QED
      BY <3>1, <3>2, <3>3
  <2>3. QED
    BY <2>1, <2>2 DEF SendNext
<1> HIDE DEF rest
<1>3. /\ delivered \subseteq delivered'
      /\ \A d \in delivered' : d \in delivered \/ d = <<task[t].note, inbox>>
  BY DEF SendNext
<1>4. IsStored(task[t].note)
  BY <1>1 DEF TaskOK, StoredOK
<1>5. task'[t] = new
  BY <1>2 DEF IInv, TypeOK
<1>6. CallOK(t)' /\ StoredOK(t)' /\ ResultOK(t)'
  BY <1>1, <1>2, <1>5 DEF TaskOK, CallOK, StoredOK, ResultOK, IsStored
<1>7. AudienceOK(t)'
  BY <1>1, <1>2, <1>5 DEF TaskOK, AudienceOK, OfAddressee, OfFollower
<1>8. DeliveryOK(t)'
  BY <1>1, <1>2, <1>3, <1>5 DEF TaskOK, DeliveryOK
<1>9. ProgressOK(t)' /\ RecipientOK(t)'
  BY <1>1, <1>2, <1>5 DEF TaskOK, ProgressOK, RecipientOK, StayingFollowers
<1>10. TaskOK(t)'
  BY <1>6, <1>7, <1>8, <1>9 DEF TaskOK
<1>11. delivered' \subseteq Calls \X Inboxes
  BY <1>1, <1>3 DEF IInv, TypeOK
<1>12. \A d \in delivered' : d \in delivered \/ IsStored(d[1])
  BY <1>3, <1>4
<1>13. QED
  BY <1>1, <1>2, <1>3, <1>10, <1>11, <1>12, OneMoves

\* A change of the followers table is witnessed by every call.
LEMMA WitnessInv ==
  ASSUME IInv, followers' \subseteq FollowerRows, Witness(followers'),
         UNCHANGED <<objects, delivered, served>>
  PROVE  IInv'
<1>1. ASSUME NEW t \in Tasks, task[t].pc # "idle"
      PROVE  task'[t] = [task[t] EXCEPT !.seen = @ \cup followers',
                                        !.stayed = @ \cap followers']
  BY <1>1 DEF Witness
<1>2. ASSUME NEW t \in Tasks, task[t].pc = "idle" PROVE task'[t] = Idle
  BY <1>2 DEF Witness
<1>3. ASSUME NEW t \in Tasks PROVE task'[t] \in TaskStates
  <2> DEFINE new == [task[t] EXCEPT !.seen = @ \cup followers',
                                    !.stayed = @ \cap followers']
  <2>1. task[t] \in TaskStates
    BY DEF IInv, TypeOK
  <2>2. new \in TaskStates
    BY <2>1 DEF TaskStates
  <2>3. CASE task[t].pc = "idle"
    BY <2>3, <1>2, IdleType
  <2>4. CASE task[t].pc # "idle"
    BY <2>4, <2>2, <1>1
  <2>5. QED
    BY <2>3, <2>4
<1>4. TypeOK'
  BY <1>3 DEF Witness, IInv, TypeOK
<1>5. ASSUME NEW t \in Tasks PROVE TaskOK(t)'
  <2>1. CASE task[t].pc = "idle"
    BY <1>2, <2>1, IdleTask
  <2>2. CASE task[t].pc # "idle"
    <3>1. TaskOK(t) /\ task[t] \in TaskStates
      BY DEF IInv, TypeOK
    <3>2. /\ task'[t].recipients = task[t].recipients
          /\ task'[t].inboxes = task[t].inboxes
          /\ task'[t].pc = task[t].pc
          /\ task'[t].note = task[t].note
          /\ task'[t].unresolved = task[t].unresolved
          /\ task'[t].unsent = task[t].unsent
          /\ task'[t].result = task[t].result
          /\ task'[t].attempted = task[t].attempted
          /\ task'[t].seen = task[t].seen \cup followers'
          /\ task'[t].stayed = task[t].stayed \cap followers'
      BY <1>1, <2>2, <3>1 DEF TaskStates
    <3>3. CallOK(t)' /\ StoredOK(t)' /\ DeliveryOK(t)' /\ ResultOK(t)'
      BY <3>1, <3>2 DEF TaskOK, CallOK, StoredOK, DeliveryOK, ResultOK, IsStored
    <3>4. AudienceOK(t)'
      BY <3>1, <3>2 DEF TaskOK, AudienceOK, OfAddressee, OfFollower
    <3>5. ProgressOK(t)' /\ RecipientOK(t)'
      BY <3>1, <3>2 DEF TaskOK, ProgressOK, RecipientOK, StayingFollowers
    <3>6. QED
      BY <3>3, <3>4, <3>5 DEF TaskOK
  <2>3. QED
    BY <2>1, <2>2
<1>6. DeliveredIsStored' /\ (\A note \in served : is_public_note(note))'
  BY DEF IInv, DeliveredIsStored, IsStored, is_public_note
<1>7. QED
  BY <1>4, <1>5, <1>6 DEF IInv

\* Join keeps the invariant.
LEMMA JoinInv ==
  ASSUME IInv, NEW doc \in ActorDocs, NEW local \in Locals, Join(doc, local)
  PROVE  IInv'
<1>1. followers' \subseteq FollowerRows
  BY DEF Join, store_follower, FollowerRows, ActorDocs, IInv, TypeOK
<1>2. QED
  BY <1>1, WitnessInv DEF Join

\* Leave keeps the invariant.
LEMMA LeaveInv ==
  ASSUME IInv, NEW remote \in Remotes, NEW local \in Locals, Leave(remote, local)
  PROVE  IInv'
<1>1. followers' \subseteq FollowerRows
  BY DEF Leave, remove_follower, IInv, TypeOK
<1>2. QED
  BY <1>1, WitnessInv DEF Leave

\* Serve keeps the invariant.
LEMMA ServeInv ==
  ASSUME IInv, NEW id \in NoteIds, Serve(id)
  PROVE  IInv'
<1> DEFINE note == load_note(objects, id)
<1>1. note \in Calls /\ is_public_note(note) /\ served' = served \cup {note}
  BY DEF Serve, load_note, IInv, TypeOK
<1>2. UNCHANGED <<followers, objects, task, delivered>>
  BY DEF Serve
<1>3. TypeOK'
  BY <1>1, <1>2 DEF IInv, TypeOK
<1>4. ASSUME NEW t \in Tasks PROVE TaskOK(t)'
  BY <1>2
  DEF IInv, TaskOK, CallOK, StoredOK, AudienceOK, ProgressOK, DeliveryOK, ResultOK,
      RecipientOK, IsStored, OfAddressee, OfFollower, StayingFollowers
<1>5. DeliveredIsStored'
  BY <1>2 DEF IInv, DeliveredIsStored, IsStored
<1>6. (\A n \in served : is_public_note(n))'
  BY <1>1 DEF IInv, is_public_note
<1>7. QED
  BY <1>3, <1>4, <1>5, <1>6 DEF IInv

\* A step that changes nothing keeps it.
LEMMA StutterInv ==
  ASSUME IInv, UNCHANGED vars
  PROVE  IInv'
BY DEF vars, IInv, TypeOK, DeliveredIsStored, TaskOK, CallOK, StoredOK, AudienceOK,
       ProgressOK, DeliveryOK, ResultOK, RecipientOK, IsStored, OfAddressee, OfFollower,
       StayingFollowers

------------------------------------------------------------------------------
(* Theorems *)

\* IInv holds in every reachable state.
THEOREM Invariance == Spec => []IInv
<1>1. Init => IInv
  BY InitInv
<1>2. IInv /\ [Next]_vars => IInv'
  <2> SUFFICES ASSUME IInv, [Next]_vars PROVE IInv'
    OBVIOUS
  <2>1. CASE \E t \in Tasks : Step(t) \/ End(t) \/ \E note \in Calls : Begin(t, note)
    <3>1. PICK t \in Tasks : Step(t) \/ End(t) \/ \E note \in Calls : Begin(t, note)
      BY <2>1
    <3>2. CASE Step(t)
      BY <3>2, StoreNoteInv, ListFollowersInv, ResolveRecipientInv, LoadKeyInv,
         SendNextInv, FinishInv
      DEF Step
    <3>3. CASE End(t)
      BY <3>3, EndInv
    <3>4. CASE \E note \in Calls : Begin(t, note)
      BY <3>4, BeginInv
    <3>5. QED
      BY <3>1, <3>2, <3>3, <3>4
  <2>2. CASE Crash
    BY <2>2, CrashInv
  <2>3. CASE \E local \in Locals :
               \/ \E doc \in ActorDocs : Join(doc, local)
               \/ \E remote \in Remotes : Leave(remote, local)
    BY <2>3, JoinInv, LeaveInv
  <2>4. CASE \E id \in NoteIds : Serve(id)
    BY <2>4, ServeInv
  <2>5. CASE UNCHANGED vars
    BY <2>5, StutterInv
  <2>6. QED
    BY <2>1, <2>2, <2>3, <2>4, <2>5 DEF Next
<1>3. QED
  BY <1>1, <1>2, PTL DEF Spec

\* Every table and call keeps its type (create_note and its storage calls).
THEOREM TypeCorrect == Spec => []TypeOK
<1>1. IInv => TypeOK
  BY DEF IInv
<1>2. QED
  BY <1>1, Invariance, PTL

\* Persistence occurs before delivery (create_note).
THEOREM Persisted == Spec => []DeliveredIsStored
<1>1. IInv => DeliveredIsStored
  BY DEF IInv
<1>2. QED
  BY <1>1, Invariance, PTL

\* Notes reach nobody but their audience (resolve_note_recipients, note).
THEOREM Audience == Spec => []OnlyTheAudience
<1>1. IInv => OnlyTheAudience
  BY DEF IInv, TaskOK, AudienceOK, OnlyTheAudience
<1>2. QED
  BY <1>1, Invariance, PTL

\* No failure keeps another recipient from being attempted (create_note).
THEOREM Attempted == Spec => []EveryRecipientAttempted
<1>1. IInv => EveryRecipientAttempted
  BY DEF IInv, TaskOK, ProgressOK, ResultOK, EveryRecipientAttempted
<1>2. QED
  BY <1>1, Invariance, PTL

\* A call that returns Ok hides no failure (create_note).
THEOREM Reported == Spec => []OkMeansDelivered
<1>1. ASSUME IInv, NEW t \in Tasks, task[t].pc = "returned", task[t].result = "Ok"
      PROVE  /\ \A row \in StayingFollowers(t) :
                  <<task[t].note, follower_inbox(row)>> \in delivered
             /\ \A r \in actor_recipients(task[t].note) : \E inbox \in InboxesOf(r) :
                  <<task[t].note, inbox>> \in delivered
  <2>1. ProgressOK(t) /\ DeliveryOK(t) /\ ResultOK(t)
    BY <1>1 DEF IInv, TaskOK
  <2>2. /\ task[t].recipients = {} /\ task[t].inboxes = {}
        /\ task[t].unresolved = {} /\ task[t].unsent = {}
    BY <1>1, <2>1 DEF ResultOK
  <2>3. \A inbox \in task[t].attempted : <<task[t].note, inbox>> \in delivered
    BY <2>1, <2>2 DEF DeliveryOK
  <2>4. QED
    BY <1>1, <2>1, <2>2, <2>3 DEF ProgressOK
<1>2. IInv => OkMeansDelivered
  BY <1>1 DEF OkMeansDelivered
<1>3. QED
  BY <1>2, Invariance, PTL
------------------------------------------------------------------------------
(* How far a call is *)

\* Each step of a call advances it: a stage ends, or a loop has one item less.
LEMMA StepAdvances ==
  ASSUME TypeOK, NEW t \in Tasks, Step(t)
  PROVE  /\ Advances(t)
         /\ \A u \in Tasks : u # t => task'[u] = task[u]
<1>1. task \in [Tasks -> TaskStates] /\ task[t] \in TaskStates
  BY DEF TypeOK
<1>2. CASE StoreNote(t)
  <2>1. task'[t].pc = "listFollowers" /\ task[t].pc = "storeNote"
    BY <1>1, <1>2 DEF StoreNote, TaskStates
  <2>2. \A u \in Tasks : u # t => task'[u] = task[u]
    BY <1>1, <1>2 DEF StoreNote
  <2>3. QED
    BY <2>1, <2>2 DEF Advances, Stage
<1>3. CASE ListFollowers(t)
  <2>1. task'[t].pc = "resolve" /\ task[t].pc = "listFollowers"
    BY <1>1, <1>3 DEF ListFollowers, TaskStates
  <2>2. \A u \in Tasks : u # t => task'[u] = task[u]
    BY <1>1, <1>3 DEF ListFollowers
  <2>3. QED
    BY <2>1, <2>2 DEF Advances, Stage
<1>4. CASE \E r \in Addresses : ResolveRecipient(t, r)
  <2>1. PICK r \in Addresses : ResolveRecipient(t, r)
    BY <1>4
  <2>2. /\ r \in task[t].recipients
        /\ task'[t].recipients = task[t].recipients \ {r}
        /\ task'[t].pc = task[t].pc
        /\ \A u \in Tasks : u # t => task'[u] = task[u]
    BY <1>1, <2>1 DEF ResolveRecipient, TaskStates
  <2>3. LessLeft(task'[t].recipients, task[t].recipients)
    BY <2>2 DEF LessLeft
  <2>4. QED
    BY <2>2, <2>3 DEF Advances
<1>5. CASE LoadKey(t)
  <2>1. /\ task[t].pc = "resolve"
        /\ task'[t].pc \in {"send", "returned"}
        /\ \A u \in Tasks : u # t => task'[u] = task[u]
    BY <1>1, <1>5 DEF LoadKey, Return, TaskStates
  <2>2. QED
    BY <2>1 DEF Advances, Stage
<1>6. CASE \E inbox \in Inboxes : SendNext(t, inbox)
  <2>1. PICK inbox \in Inboxes : SendNext(t, inbox)
    BY <1>6
  <2> DEFINE rest == [task[t] EXCEPT !.inboxes = @ \ {inbox}, !.attempted = @ \cup {inbox}]
             failed == [rest EXCEPT !.unsent = @ \cup {inbox}]
  <2>2. /\ rest.inboxes = task[t].inboxes \ {inbox} /\ failed.inboxes = rest.inboxes
        /\ rest.recipients = task[t].recipients /\ failed.recipients = rest.recipients
        /\ rest.pc = task[t].pc /\ failed.pc = rest.pc
    BY <1>1 DEF TaskStates
  <2>3. inbox \in task[t].inboxes /\ \E new \in {rest, failed} : task' = [task EXCEPT ![t] = new]
    BY <2>1 DEF SendNext
  <2> HIDE DEF rest, failed
  <2>4. /\ task'[t].inboxes = task[t].inboxes \ {inbox}
        /\ task'[t].recipients = task[t].recipients
        /\ task'[t].pc = task[t].pc
        /\ \A u \in Tasks : u # t => task'[u] = task[u]
    BY <1>1, <2>2, <2>3
  <2>5. LessLeft(task'[t].inboxes, task[t].inboxes)
    BY <2>3, <2>4 DEF LessLeft
  <2>6. QED
    BY <2>4, <2>5 DEF Advances
<1>7. CASE Finish(t)
  <2>1. /\ task[t].pc = "send" /\ task'[t].pc = "returned"
        /\ \A u \in Tasks : u # t => task'[u] = task[u]
    BY <1>1, <1>7 DEF Finish, Return, TaskStates
  <2>2. QED
    BY <2>1 DEF Advances, Stage
<1>8. QED
  BY <1>2, <1>3, <1>4, <1>5, <1>6, <1>7 DEF Step

\* A step that is no call's own leaves every running call where it was, or ends it.
LEMMA OthersWait ==
  ASSUME TypeOK, [Next]_vars, NEW t \in Tasks, task[t].pc # "idle"
  PROVE  Advances(t) \/ Waits(t) \/ task'[t] = Idle
<1>1. task \in [Tasks -> TaskStates] /\ task[t] \in TaskStates
  BY DEF TypeOK
<1>2. CASE \E u \in Tasks : Step(u) \/ End(u) \/ \E note \in Calls : Begin(u, note)
  <2>1. PICK u \in Tasks : Step(u) \/ End(u) \/ \E note \in Calls : Begin(u, note)
    BY <1>2
  <2>2. CASE Step(u)
    <3>1. u = t => Advances(t)
      BY <2>2, StepAdvances
    <3>2. u # t => task'[t] = task[t]
      BY <2>2, StepAdvances
    <3>3. QED
      BY <3>1, <3>2 DEF Waits
  <2>3. CASE End(u)
    BY <1>1, <2>3 DEF End, Waits
  <2>4. CASE \E note \in Calls : Begin(u, note)
    <3>1. u # t /\ task'[t] = task[t]
      BY <1>1, <2>4 DEF Begin
    <3>2. QED
      BY <3>1 DEF Waits
  <2>5. QED
    BY <2>1, <2>2, <2>3, <2>4
<1>3. CASE Crash
  BY <1>3 DEF Crash
<1>4. CASE Witness(followers')
  <2>1. task'[t] = [task[t] EXCEPT !.seen = @ \cup followers', !.stayed = @ \cap followers']
    BY <1>4 DEF Witness
  <2>2. QED
    BY <1>1, <2>1 DEF Waits, TaskStates
<1>5. CASE \E local \in Locals :
             \/ \E doc \in ActorDocs : Join(doc, local)
             \/ \E remote \in Remotes : Leave(remote, local)
  <2>1. Witness(followers')
    BY <1>5 DEF Join, Leave
  <2>2. QED
    BY <2>1, <1>4
<1>6. CASE UNCHANGED task
  BY <1>6 DEF Waits
<1>7. QED
  BY <1>2, <1>3, <1>5, <1>6 DEF Next, Serve, vars

\* Calls only go forward, whatever fails and whoever joins or leaves
\* (create_note): with finitely many addresses and inboxes, no call makes more
\* than finitely many steps.
THEOREM Forward == Spec => CallsAdvance
<1>1. ASSUME IInv, [Next]_vars, NEW t \in Tasks, task[t].pc # "idle"
      PROVE  Advances(t) \/ (~Step(t) /\ (Waits(t) \/ task'[t] = Idle))
  BY <1>1, StepAdvances, OthersWait DEF IInv
<1>2. IInv /\ [Next]_vars =>
        [\A t \in Tasks : task[t].pc # "idle" =>
           \/ Advances(t)
           \/ ~Step(t) /\ (Waits(t) \/ task'[t] = Idle)]_vars
  BY <1>1
<1>3. QED
  BY <1>2, Invariance, PTL DEF Spec, CallsAdvance
==============================================================================
