----------------------------- MODULE NoteDelivery -----------------------------
(***************************************************************************)
(* Notes of local actors: create_note constructs one, stores it and        *)
(* delivers it to its audience, while followers come and go; the object    *)
(* endpoint serves it.                                                     *)
(*                                                                         *)
(* A task is one call of create_note, cut at its storage calls and awaits. *)
(* What the inbox handlers do to the followers table meanwhile is taken    *)
(* from SqliteStore.  A remote server may publish another document at any  *)
(* time, so that a resolution returns any version of it.                   *)
(***************************************************************************)
EXTENDS SqliteStore, Naturals

CONSTANTS
  Tasks,        \* slots for the calls that run at one time
  Calls,        \* the arguments create_note is called with
  NoteIds,
  Addresses,    \* IRIs a note can be addressed to
  Public,       \* PUBLIC_COLLECTION
  Collection,   \* the followers collection of each local actor, or None
  Inboxes,
  Inbox,        \* the inbox in each actor document
  SharedInbox,  \* the shared inbox in each actor document, or None
  Keyed         \* local actors with a key pair in the store

\* A note: who wrote it, its id, and the addresses in its `to' and `cc'.
Notes == [author : Locals, id : NoteIds, audience : SUBSET Addresses]

ASSUME AddressingAssumption ==
  /\ Calls \subseteq Notes
  /\ Inbox \in [ActorDocs -> Inboxes]
  /\ SharedInbox \in [ActorDocs -> Inboxes \cup {None}]

\* A missing note is not a note.
ASSUME NoNoteAssumption == None \notin Notes

VARIABLES
  followers,  \* table followers
  objects,    \* table objects, a function on its primary key
  task,       \* the running calls
  delivered,  \* history: <<note, inbox>> that has been delivered
  served      \* history: the notes the object endpoint has served

vars == <<followers, objects, task, delivered, served>>

Results == {"Ok", "MissingActorKey", "ActivitySender", "ActorResolver"}

(***************************************************************************)
(* `recipients' are the actors still to resolve, `inboxes' those still to  *)
(* post to; `unresolved' and `unsent' are the recipients and inboxes that  *)
(* failed, of which the code keeps the first error.  The order of the two  *)
(* loops decides nothing but which error that is.  The rest is history:    *)
(* the inboxes posted to, and the rows of followers that were there at     *)
(* some time of the call, and at all times.                                *)
(***************************************************************************)
TaskStates ==
  [pc         : {"idle", "storeNote", "listFollowers", "resolve", "send", "returned"},
   note       : Calls \cup {None},
   recipients : SUBSET Addresses,
   inboxes    : SUBSET Inboxes,
   unresolved : SUBSET Addresses,
   unsent     : SUBSET Inboxes,
   result     : Results \cup {None},
   attempted  : SUBSET Inboxes,
   seen       : SUBSET FollowerRows,
   stayed     : SUBSET FollowerRows]

Idle == [pc |-> "idle", note |-> None, recipients |-> {}, inboxes |-> {},
         unresolved |-> {}, unsent |-> {}, result |-> None,
         attempted |-> {}, seen |-> {}, stayed |-> {}]

Init ==
  /\ followers = {}
  /\ objects = [n \in NoteIds |-> None]
  /\ task = [t \in Tasks |-> Idle]
  /\ delivered = {}
  /\ served = {}

------------------------------------------------------------------------------
(* feder-core: the audience of a note *)

is_public_note(note) == Public \in note.audience

\* note_recipients: NoteRecipient::Followers of the author...
to_followers(note) ==
  Collection[note.author] \in note.audience \ {Public, note.author}

\* ... and NoteRecipient::Actor.
actor_recipients(note) ==
  note.audience \ {Public, note.author, Collection[note.author]}

\* Where a follower's deliveries go, by the document stored in its row.
follower_inbox(row) ==
  LET doc == [id |-> row.follower, ver |-> row.ver]
  IN  IF SharedInbox[doc] # None THEN SharedInbox[doc] ELSE Inbox[doc]

------------------------------------------------------------------------------
(* create_note *)

Begin(t, note) ==
  /\ task[t].pc = "idle"
  /\ task' = [task EXCEPT ![t] =
                [Idle EXCEPT !.pc = "storeNote", !.note = note,
                             !.seen = followers, !.stayed = followers]]
  /\ UNCHANGED <<followers, objects, delivered, served>>

\* Only what the object endpoint may serve is stored.
StoreNote_PublicOnly(t) ==
  /\ task[t].pc = "storeNote"
  /\ objects' = IF is_public_note(task[t].note)
                  THEN store_note(objects, task[t].note) ELSE objects
  /\ task' = [task EXCEPT ![t].pc = "listFollowers"]
  /\ UNCHANGED <<followers, delivered, served>>

StoreNote(t) ==
  /\ task[t].pc = "storeNote"
  /\ objects' = store_note(objects, task[t].note)
  /\ task' = [task EXCEPT ![t].pc = "listFollowers"]
  /\ UNCHANGED <<followers, delivered, served>>

\* The followers, when they are addressed, and with them the addressed actors
\* that need not be resolved.
targets(t) ==
  IF to_followers(task[t].note)
    THEN list_follower_delivery_targets(followers, task[t].note.author)
    ELSE {}

ListFollowers(t) ==
  /\ task[t].pc = "listFollowers"
  /\ task' = [task EXCEPT
                ![t].pc = "resolve",
                ![t].inboxes = {follower_inbox(row) : row \in targets(t)},
                ![t].recipients =
                  actor_recipients(task[t].note) \ {row.follower : row \in targets(t)}]
  /\ UNCHANGED <<followers, objects, delivered, served>>

\* The first failure ends the loop.
ResolveRecipient_StopAtError(t, r) ==
  /\ task[t].pc = "resolve"
  /\ r \in task[t].recipients
  /\ \/ \E doc \in ActorDocs :
          /\ doc.id = r
          /\ task' = [task EXCEPT ![t].recipients = @ \ {r},
                                  ![t].inboxes = @ \cup {Inbox[doc]}]
     \/ task' = [task EXCEPT ![t].recipients = {},
                             ![t].unresolved = @ \cup {r}]
  /\ UNCHANGED <<followers, objects, delivered, served>>

\* Who could not be resolved is tried again.
ResolveRecipient_Retry(t, r) ==
  /\ task[t].pc = "resolve"
  /\ r \in task[t].recipients
  /\ \/ \E doc \in ActorDocs :
          /\ doc.id = r
          /\ task' = [task EXCEPT ![t].recipients = @ \ {r},
                                  ![t].inboxes = @ \cup {Inbox[doc]}]
     \/ task' = [task EXCEPT ![t].unresolved = @ \cup {r}]
  /\ UNCHANGED <<followers, objects, delivered, served>>

\* An actor that is addressed itself gets the note in its own inbox.
ResolveRecipient(t, r) ==
  /\ task[t].pc = "resolve"
  /\ r \in task[t].recipients
  /\ \/ \E doc \in ActorDocs :
          /\ doc.id = r
          /\ task' = [task EXCEPT ![t].recipients = @ \ {r},
                                  ![t].inboxes = @ \cup {Inbox[doc]}]
     \/ task' = [task EXCEPT ![t].recipients = @ \ {r},
                             ![t].unresolved = @ \cup {r}]
  /\ UNCHANGED <<followers, objects, delivered, served>>

Return(t, result) ==
  task' = [task EXCEPT ![t].pc = "returned", ![t].result = result]

\* Nothing to deliver, or the author's key for the deliveries.
LoadKey(t) ==
  /\ task[t].pc = "resolve"
  /\ task[t].recipients = {}
  /\ CASE task[t].inboxes = {} ->
            Return(t, IF task[t].unresolved # {} THEN "ActorResolver" ELSE "Ok")
       [] task[t].inboxes # {} /\ task[t].note.author \notin Keyed ->
            Return(t, "MissingActorKey")
       [] OTHER -> task' = [task EXCEPT ![t].pc = "send"]
  /\ UNCHANGED <<followers, objects, delivered, served>>

\* After a failure the call starts over with the followers there are then.
SendNext_StartOver(t, inbox) ==
  /\ task[t].pc = "send"
  /\ inbox \in task[t].inboxes
  /\ \/ /\ delivered' = delivered \cup {<<task[t].note, inbox>>}
        /\ task' = [task EXCEPT ![t].inboxes = @ \ {inbox},
                                ![t].attempted = @ \cup {inbox}]
     \/ /\ task' = [task EXCEPT ![t].pc = "listFollowers", ![t].inboxes = {},
                                ![t].attempted = @ \cup {inbox}]
        /\ UNCHANGED delivered
  /\ UNCHANGED <<followers, objects, served>>

\* One post: it succeeds; or it fails, before it reached the inbox or after.
SendNext(t, inbox) ==
  LET rest == [task[t] EXCEPT !.inboxes = @ \ {inbox},
                              !.attempted = @ \cup {inbox}]
  IN  /\ task[t].pc = "send"
      /\ inbox \in task[t].inboxes
      /\ \/ /\ delivered' = delivered \cup {<<task[t].note, inbox>>}
            /\ task' = [task EXCEPT ![t] = rest]
         \/ /\ delivered' \in {delivered, delivered \cup {<<task[t].note, inbox>>}}
            /\ task' = [task EXCEPT ![t] = [rest EXCEPT !.unsent = @ \cup {inbox}]]
      /\ UNCHANGED <<followers, objects, served>>

\* A failed resolution is only reported when there was nothing to deliver.
Finish_SendErrorsOnly(t) ==
  /\ task[t].pc = "send"
  /\ task[t].inboxes = {}
  /\ Return(t, IF task[t].unsent # {} THEN "ActivitySender" ELSE "Ok")
  /\ UNCHANGED <<followers, objects, delivered, served>>

Finish(t) ==
  /\ task[t].pc = "send"
  /\ task[t].inboxes = {}
  /\ Return(t, IF task[t].unsent # {} THEN "ActivitySender"
               ELSE IF task[t].unresolved # {} THEN "ActorResolver"
               ELSE "Ok")
  /\ UNCHANGED <<followers, objects, delivered, served>>

------------------------------------------------------------------------------
(* Around it *)

\* The caller takes the result; or a storage call fails, or the caller drops
\* the future, in the midst of it.
End(t) ==
  /\ task[t].pc # "idle"
  /\ task' = [task EXCEPT ![t] = Idle]
  /\ UNCHANGED <<followers, objects, delivered, served>>

\* The process stops and is started again on the same database file.
Crash ==
  /\ \E t \in Tasks : task[t].pc # "idle"
  /\ task' = [t \in Tasks |-> Idle]
  /\ UNCHANGED <<followers, objects, delivered, served>>

\* Every running call is a witness to the new followers table.
Witness(table) ==
  task' = [t \in Tasks |->
             IF task[t].pc = "idle" THEN Idle
             ELSE [task[t] EXCEPT !.seen = @ \cup table, !.stayed = @ \cap table]]

\* An inbox handler stores a follower, or updates its document.
Join(doc, local) ==
  /\ followers' = store_follower(followers, doc, local)
  /\ followers' # followers
  /\ Witness(followers')
  /\ UNCHANGED <<objects, delivered, served>>

\* An inbox handler removes a follower.
Leave(remote, local) ==
  /\ followers' = remove_follower(followers, remote, local)
  /\ followers' # followers
  /\ Witness(followers')
  /\ UNCHANGED <<objects, delivered, served>>

\* GET /users/{identifier}/posts/{id}: what is stored now, when it is public.
Serve(id) ==
  LET note == load_note(objects, id)
  IN  /\ note # None
      /\ is_public_note(note)
      /\ served' = served \cup {note}
      /\ UNCHANGED <<followers, objects, task, delivered>>

Step(t) ==
  \/ StoreNote(t)
  \/ ListFollowers(t)
  \/ \E r \in Addresses : ResolveRecipient(t, r)
  \/ LoadKey(t)
  \/ \E inbox \in Inboxes : SendNext(t, inbox)
  \/ Finish(t)

Next ==
  \/ \E t \in Tasks : Step(t) \/ End(t) \/ \E note \in Calls : Begin(t, note)
  \/ Crash
  \/ \E local \in Locals :
       \/ \E doc \in ActorDocs : Join(doc, local)
       \/ \E remote \in Remotes : Leave(remote, local)
  \/ \E id \in NoteIds : Serve(id)

Spec == Init /\ [][Next]_vars

(***************************************************************************)
(* The client's REQUEST_TIMEOUT bounds every await, so a call goes on.     *)
(* Nothing is assumed of whether a resolution or a delivery succeeds.      *)
(***************************************************************************)
FairSpec == Spec /\ \A t \in Tasks : WF_vars(Step(t))

------------------------------------------------------------------------------
(* Properties *)

TypeOK ==
  /\ followers \subseteq FollowerRows
  /\ objects \in [NoteIds -> Calls \cup {None}]
  /\ task \in [Tasks -> TaskStates]
  /\ delivered \subseteq Calls \X Inboxes
  /\ served \subseteq Calls

\* Nobody else is given this id by the application.
OneNote(note) == \A other \in Calls : other.id = note.id => other = note

\* The note is in the store, or one that took its id.
IsStored(note) ==
  /\ objects[note.id] # None
  /\ OneNote(note) => objects[note.id] = note

\* Persistence occurs before delivery (create_note): whatever crashed or failed
\* since, a note someone has received is in the store, public or not, and it is
\* that very note unless the application gave its id to another.
DeliveredIsStored == \A d \in delivered : IsStored(d[1])

\* The inbox of an actor the note is addressed to.
OfAddressee(note, inbox) ==
  \E doc \in ActorDocs : doc.id \in note.audience /\ inbox = Inbox[doc]

\* The inbox of someone who followed the author at some time of the call.
OfFollower(t, inbox) ==
  /\ to_followers(task[t].note)
  /\ \E row \in task[t].seen :
       row.following = task[t].note.author /\ inbox = follower_inbox(row)

\* A note reaches nobody but its audience: it is posted only to inboxes of those
\* it is addressed to and, if it is for the followers, of those who followed its
\* author during the call - not to one who had left before, nor to followers of
\* another local actor; and who fetches it from the endpoint gets it only if it
\* is public (resolve_note_recipients, list_follower_delivery_targets, note).
OnlyTheAudience ==
  /\ \A t \in Tasks : \A inbox \in task[t].inboxes \cup task[t].attempted :
       OfAddressee(task[t].note, inbox) \/ OfFollower(t, inbox)
  /\ \A note \in served : is_public_note(note)

\* The inboxes through which a remote actor may be reached.
InboxesOf(r) ==
  UNION {{Inbox[doc], SharedInbox[doc]} : doc \in {d \in ActorDocs : d.id = r}}

\* The followers the note is for, and stayed so throughout the call.
StayingFollowers(t) ==
  {row \in task[t].stayed :
     to_followers(task[t].note) /\ row.following = task[t].note.author}

\* Every independent recipient is attempted even if another resolution or
\* delivery fails (create_note): when the deliveries are over, each follower who
\* stayed has been posted to, and so has each addressed actor that could be
\* resolved, be it a follower or not.
EveryRecipientAttempted ==
  \A t \in Tasks :
    task[t].pc = "returned" /\ task[t].result # "MissingActorKey" =>
      /\ \A row \in StayingFollowers(t) : follower_inbox(row) \in task[t].attempted
      /\ \A r \in actor_recipients(task[t].note) :
           r \in task[t].unresolved \/ InboxesOf(r) \cap task[t].attempted # {}

\* A call that returns Ok hides no failure: each follower who stayed and each
\* addressed actor has the note.
OkMeansDelivered ==
  \A t \in Tasks :
    task[t].pc = "returned" /\ task[t].result = "Ok" =>
      LET Has(inbox) == <<task[t].note, inbox>> \in delivered
      IN  /\ \A row \in StayingFollowers(t) : Has(follower_inbox(row))
          /\ \A r \in actor_recipients(task[t].note) : \E inbox \in InboxesOf(r) : Has(inbox)

\* How far a call is: its stage, and in a loop what is left of it.
Stage == [idle |-> 0, storeNote |-> 1, listFollowers |-> 2, resolve |-> 3, send |-> 4,
          returned |-> 5]

LessLeft(left, was) == left \subseteq was /\ left # was

Advances(t) ==
  \/ Stage[task[t].pc] < Stage[task'[t].pc]
  \/ /\ task'[t].pc = task[t].pc
     /\ \/ LessLeft(task'[t].recipients, task[t].recipients)
        \/ /\ task'[t].recipients = task[t].recipients
           /\ LessLeft(task'[t].inboxes, task[t].inboxes)

Waits(t) ==
  /\ task'[t].pc = task[t].pc
  /\ task'[t].recipients = task[t].recipients
  /\ task'[t].inboxes = task[t].inboxes

\* A call never does anything twice: each of its own steps takes it to a later
\* stage, or leaves less to resolve or to post to than there was, whatever failed;
\* and nothing that others do - their calls, followers who join or leave - gives
\* it more to do or takes it back (create_note, resolve_note_recipients).
CallsAdvance ==
  [][\A t \in Tasks : task[t].pc # "idle" =>
       \/ Advances(t)
       \/ ~Step(t) /\ (Waits(t) \/ task'[t] = Idle)]_vars

\* No dead inbox and no coming and going of followers keeps a call from ending,
\* so that each of its recipients has its turn.
EveryCallEnds ==
  \A t \in Tasks : task[t].pc # "idle" ~> task[t].pc \in {"idle", "returned"}
==============================================================================
