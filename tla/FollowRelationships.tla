------------------------- MODULE FollowRelationships -------------------------
(***************************************************************************)
(* What a server promises about the Follows its own actors send, told      *)
(* without requests, tasks or restarts.  A relationship may be proposed    *)
(* anew as long as it is not established; it is established only for the   *)
(* actor it was last proposed to, and only once that actor has consented   *)
(* to this very Follow; from then on it never changes.                     *)
(***************************************************************************)
EXTENDS SqliteStore

VARIABLES
  relation,  \* the relationship each Follow stands for
  consents   \* the pairs <<follow, actor>> whose actor accepted that Follow

vars == <<relation, consents>>

Init ==
  /\ relation = [f \in FollowIds |-> NoRow]
  /\ consents = {}

Propose(f, local, remote) ==
  /\ relation[f].state # "accepted"
  /\ relation' = [relation EXCEPT ![f] =
                    [local |-> local, remote |-> remote, state |-> "pending"]]
  /\ UNCHANGED consents

Consent(f, actor) ==
  /\ consents' = consents \cup {<<f, actor>>}
  /\ UNCHANGED relation

Establish(f) ==
  /\ relation[f].state = "pending"
  /\ <<f, relation[f].remote.id>> \in consents
  /\ relation' = [relation EXCEPT ![f].state = "accepted"]
  /\ UNCHANGED consents

Next ==
  \E f \in FollowIds :
    \/ \E local \in Locals, remote \in ActorDocs : Propose(f, local, remote)
    \/ \E actor \in Remotes : Consent(f, actor)
    \/ Establish(f)

Spec == Init /\ [][Next]_vars
==============================================================================
