----------------------------- MODULE SqliteStore -----------------------------
(***************************************************************************)
(* The followers, outbound_follows and objects tables of the SQLite store  *)
(* and the statements run on them.  Each operator is what one storage call *)
(* does to a table: the connection's mutex, and SQLite's write lock        *)
(* between processes, make each of them one step of whoever calls it.      *)
(***************************************************************************)
EXTENDS FederCore

\* A row of followers, keyed by (follower, following).  The two inbox columns
\* are those of the document version `ver'.
FollowerRows == [follower : Remotes, following : Locals, ver : Versions]

\* A row of outbound_follows, keyed by the Follow's id.
OutboundRows == [local  : Locals,
                 remote : ActorDocs,
                 state  : {"pending", "accepted"}]

NoRow == [state |-> "none"]

------------------------------------------------------------------------------
(* followers *)

SameFollower(row, follower, following) ==
  row.follower = follower /\ row.following = following

\* A plain INSERT: the row of an earlier Follow keeps its place.
store_follower_KeepFirst(table, doc, following) ==
  IF \E row \in table : SameFollower(row, doc.id, following)
    THEN table
    ELSE table \cup {[follower |-> doc.id, following |-> following, ver |-> doc.ver]}

\* INSERT ... ON CONFLICT(follower_actor_id, following_actor_id) DO UPDATE.
store_follower(table, doc, following) ==
  {row \in table : ~ SameFollower(row, doc.id, following)}
    \cup {[follower |-> doc.id, following |-> following, ver |-> doc.ver]}

\* A DELETE that forgets to select the followed actor.
remove_follower_AnyFollowing(table, follower, following) ==
  {row \in table : row.follower # follower}

\* DELETE FROM followers WHERE follower_actor_id = ? AND following_actor_id = ?
remove_follower(table, follower, following) ==
  {row \in table : ~ SameFollower(row, follower, following)}

------------------------------------------------------------------------------
(* outbound_follows *)

\* SELECT ... WHERE follow_activity_id = ? AND state = 'pending'
load_pending_follow(table, follow) ==
  IF table[follow].state = "pending"
    THEN [local  |-> table[follow].local,
          remote |-> table[follow].remote,
          follow |-> follow]
    ELSE None

\* The upsert without its WHERE clause.
store_pending_follow_Reopen(table, pending) ==
  [table EXCEPT ![pending.follow] =
     [local |-> pending.local, remote |-> pending.remote, state |-> "pending"]]

\* Only the remote actor's id is stored, not its document.
store_pending_follow_IdOnly(table, pending) ==
  [table EXCEPT ![pending.follow] =
     [local |-> pending.local, remote |-> pending.remote.id, state |-> "pending"]]

\* INSERT ... ON CONFLICT DO UPDATE SET local, remote WHERE state = 'pending'.
store_pending_follow(table, pending) ==
  IF table[pending.follow].state = "accepted"
    THEN table
    ELSE [table EXCEPT ![pending.follow] =
            [local  |-> pending.local,
             remote |-> pending.remote,
             state  |-> "pending"]]

\* The UPDATE alone, without the comparison with the expected relationship.
confirm_pending_follow_AnyPending(table, expected) ==
  IF table[expected.follow].state = "pending"
    THEN [table EXCEPT ![expected.follow].state = "accepted"]
    ELSE table

\* An immediate transaction: load, compare with what the caller matched, update.
\* Whether a row changed is returned, and inbox.rs drops that result.
confirm_pending_follow(table, expected) ==
  IF load_pending_follow(table, expected.follow) = expected
    THEN [table EXCEPT ![expected.follow].state = "accepted"]
    ELSE table

------------------------------------------------------------------------------
(* Reads of followers, and objects *)

\* SELECT ... FROM followers, without its WHERE clause.
list_follower_delivery_targets_All(table, following) == table

\* SELECT ... WHERE following_actor_id = ? AND inbox_url IS NOT NULL; every row
\* that store_follower writes has an inbox.
list_follower_delivery_targets(table, following) ==
  {row \in table : row.following = following}

\* The Note is stored without its addresses.
store_note_Bare(table, note) == [table EXCEPT ![note.id] = [note EXCEPT !.audience = {}]]

\* INSERT ... ON CONFLICT(object_id) DO UPDATE; `table' is a function on ids.
store_note(table, note) == [table EXCEPT ![note.id] = note]

load_note(table, id) == table[id]
==============================================================================
