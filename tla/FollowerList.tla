----------------------------- MODULE FollowerList -----------------------------
(***************************************************************************)
(* What a server promises those who follow its actors, told without        *)
(* requests, tasks, documents or restarts.  A follower is listed only once *)
(* it has asked to be, and struck off only once it has undone its Follow;  *)
(* a Follow is answered only if it was received, and only while its sender *)
(* is listed or has undone it.                                             *)
(***************************************************************************)
EXTENDS SqliteStore

VARIABLES
  asked,    \* the Follows received, as triples <<follow, follower, following>>
  undone,   \* the pairs <<follower, following>> an Undo was received for
  listed,   \* the pairs in the followers table
  answered  \* the Follows an Accept was sent for

vars == <<asked, undone, listed, answered>>

Init ==
  /\ asked = {}
  /\ undone = {}
  /\ listed = {}
  /\ answered = {}

Ask(follow, follower, following) ==
  /\ asked' = asked \cup {<<follow, follower, following>>}
  /\ UNCHANGED <<undone, listed, answered>>

Undo(follower, following) ==
  /\ undone' = undone \cup {<<follower, following>>}
  /\ UNCHANGED <<asked, listed, answered>>

Store(follow, follower, following) ==
  /\ <<follow, follower, following>> \in asked
  /\ listed' = listed \cup {<<follower, following>>}
  /\ UNCHANGED <<asked, undone, answered>>

Remove(follower, following) ==
  /\ <<follower, following>> \in undone
  /\ listed' = listed \ {<<follower, following>>}
  /\ UNCHANGED <<asked, undone, answered>>

Answer(follow, follower, following) ==
  /\ <<follow, follower, following>> \in asked
  /\ <<follower, following>> \in listed \cup undone
  /\ answered' = answered \cup {<<follow, follower, following>>}
  /\ UNCHANGED <<asked, undone, listed>>

Next ==
  \E follower \in Remotes, following \in Locals :
    \/ Undo(follower, following)
    \/ Remove(follower, following)
    \/ \E follow \in FollowIds :
         \/ Ask(follow, follower, following)
         \/ Store(follow, follower, following)
         \/ Answer(follow, follower, following)

Spec == Init /\ [][Next]_vars
==============================================================================
