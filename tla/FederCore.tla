------------------------------ MODULE FederCore ------------------------------
(***************************************************************************)
(* The protocol decisions of feder-core: pure functions from the facts a   *)
(* runtime supplies to an outcome.  No state is kept here.                 *)
(*                                                                         *)
(* An IRI is a model value.  An actor document is the actor's id and the   *)
(* version of everything else in it (inbox, shared inbox, keys, name): two *)
(* documents of one actor are equal exactly when their versions are.       *)
(***************************************************************************)

CONSTANTS
  Locals,     \* ids of the actors the dispatcher knows
  Remotes,    \* ids of the actors whose document the resolver can fetch
  FollowIds,  \* ids of Follow activities
  Versions,   \* versions of an actor document
  Linked,     \* marks an actor reference that is a bare id
  None        \* no value

\* A bare id is told apart from an embedded document.
ASSUME LinkedAssumption == Linked \notin Versions

\* A missing value is told apart from every value.
ASSUME NoneAssumption ==
  /\ None \notin Locals \cup Remotes \cup Versions
  /\ None \notin [local  : Locals,
                  remote : [id : Remotes, ver : Versions],
                  follow : FollowIds]

ActorDocs == [id : Remotes, ver : Versions]

(***************************************************************************)
(* An activity as the inbox sees it.  `actor' and `ver' are its actor      *)
(* reference: Reference::Id when ver = Linked, an embedded document        *)
(* otherwise.  `follow' is the Follow it is, or the Follow it names; an    *)
(* Accept or an Undo embeds it when object = "Follow" and only gives its   *)
(* id when object = "link".  object = "other" is an embedded object of     *)
(* another type, "malformed" a body serde cannot read as that activity.    *)
(***************************************************************************)
FollowActivities ==
  [id : FollowIds, actor : Locals \cup Remotes, object : Locals \cup Remotes]

Activities ==
  {act \in [type   : {"Follow", "Accept", "Undo", "Other"},
            actor  : Remotes,
            ver    : Versions \cup {Linked},
            object : {"link", "Follow", "other", "malformed"},
            follow : FollowActivities] :
     act.type = "Follow" => act.follow.actor = act.actor}

PendingFollows == [local : Locals, remote : ActorDocs, follow : FollowIds]

\* An activity delivered to a remote actor's inbox; `follow' as above.
Deliveries ==
  [type : {"Follow", "Accept"}, from : Locals, to : Remotes, follow : FollowIds]

\* create_follow: the relationship to persist and the activity to deliver.
create_follow(local, remote, follow_id) ==
  [relationship |-> [local |-> local, remote |-> remote, follow |-> follow_id],
   activity     |-> [type   |-> "Follow",
                     from   |-> local,
                     to     |-> remote.id,
                     follow |-> follow_id]]

\* receive_follow succeeds, and the Accept it answers with.
receive_follow(local, remote, act) ==
  /\ act.follow.object = local
  /\ act.actor = remote.id

follow_accept(local, remote, act) ==
  [type |-> "Accept", from |-> local, to |-> remote.id, follow |-> act.follow.id]

\* The remote actor is compared as a whole, as it was when it was stored.
receive_accept_follow_SameDocument(local, remote, pending, act) ==
  /\ pending.local = local
  /\ pending.remote = remote
  /\ act.actor = remote.id
  /\ act.follow.id = pending.follow

\* receive_accept_follow succeeds: this pending Follow is what was accepted,
\* and by the actor it was addressed to.  An embedded Follow must be that one.
receive_accept_follow(local, remote, pending, act) ==
  /\ pending.local = local
  /\ pending.remote.id = remote.id
  /\ act.actor = remote.id
  /\ act.follow.id = pending.follow
  /\ act.object = "Follow" =>
       /\ act.follow.actor = local
       /\ act.follow.object = remote.id

\* receive_undo_follow succeeds: the actor undoes a Follow of its own.
receive_undo_follow(local, remote, act) ==
  /\ act.actor = remote.id
  /\ act.object = "Follow"
  /\ act.follow.actor = remote.id
  /\ act.follow.object = local
==============================================================================
