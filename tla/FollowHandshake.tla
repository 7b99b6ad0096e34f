--------------------------- MODULE FollowHandshake ---------------------------
(***************************************************************************)
(* What two servers promise together, told without requests, mail, tasks   *)
(* or restarts: a Follow is recorded by the server of the follower before  *)
(* it is posted, posted before the server of the followed actor lists the  *)
(* follower, listed before it is answered, and answered before it is       *)
(* accepted.  Nobody who is listed is ever dropped and no accepted         *)
(* relationship changes, since neither server posts an Undo.               *)
(***************************************************************************)
EXTENDS SqliteStore

VARIABLES
  relation,  \* the relationships the followers' server has recorded
  posted,    \* the Follows it has posted, as triples <<follow, local, remote>>
  listed,    \* the pairs <<local, remote>> the other server lists as followers
  answered   \* the Follows that server has posted an Accept for

vars == <<relation, posted, listed, answered>>

Init ==
  /\ relation = [f \in FollowIds |-> NoRow]
  /\ posted = {}
  /\ listed = {}
  /\ answered = {}

Propose(f, local, remote) ==
  /\ relation[f].state # "accepted"
  /\ relation' = [relation EXCEPT ![f] =
                    [local |-> local, remote |-> remote, state |-> "pending"]]
  /\ UNCHANGED <<posted, listed, answered>>

Post(f, local, remote) ==
  /\ relation[f] # NoRow
  /\ posted' = posted \cup {<<f, local, remote>>}
  /\ UNCHANGED <<relation, listed, answered>>

List(f, local, remote) ==
  /\ <<f, local, remote>> \in posted
  /\ listed' = listed \cup {<<local, remote>>}
  /\ UNCHANGED <<relation, posted, answered>>

Answer(f, local, remote) ==
  /\ <<f, local, remote>> \in posted
  /\ <<local, remote>> \in listed
  /\ answered' = answered \cup {<<f, local, remote>>}
  /\ UNCHANGED <<relation, posted, listed>>

Establish(f) ==
  /\ relation[f].state = "pending"
  /\ <<f, relation[f].local, relation[f].remote.id>> \in answered
  /\ relation' = [relation EXCEPT ![f].state = "accepted"]
  /\ UNCHANGED <<posted, listed, answered>>

Next ==
  \E f \in FollowIds :
    \/ Establish(f)
    \/ \E local \in Locals :
         \/ \E doc \in ActorDocs : Propose(f, local, doc)
         \/ \E remote \in Remotes :
              Post(f, local, remote) \/ List(f, local, remote) \/ Answer(f, local, remote)

Spec == Init /\ [][Next]_vars

------------------------------------------------------------------------------
(* What follows from it *)

(* No stage without the one before it: who accepted was answered under that  *)
(* very Follow, who was answered is listed, who is listed has posted, and    *)
(* what was posted is on record.                                             *)
InOrder ==
  /\ \A f \in FollowIds : relation[f].state = "accepted" =>
       <<f, relation[f].local, relation[f].remote.id>> \in answered
  /\ \A f \in FollowIds, local \in Locals, remote \in Remotes :
       /\ <<f, local, remote>> \in answered =>
            <<f, local, remote>> \in posted /\ <<local, remote>> \in listed
       /\ <<f, local, remote>> \in posted => relation[f] # NoRow
  /\ \A local \in Locals, remote \in Remotes :
       <<local, remote>> \in listed => \E f \in FollowIds : <<f, local, remote>> \in posted
==============================================================================
