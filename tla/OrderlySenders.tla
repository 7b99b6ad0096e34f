---------------------------- MODULE OrderlySenders ----------------------------
(***************************************************************************)
(* FederServer among senders that post one thing at a time: an actor's     *)
(* server does not post a Follow or an Undo of a local actor while the one *)
(* it posted before is still being handled.  Tasks for different pairs of  *)
(* actors interleave as before, and forged or pointless requests arrive at *)
(* any time.  Two history variables say what each pair may count on.       *)
(***************************************************************************)
EXTENDS FederServer

VARIABLES
  done,  \* what each pair's last Follow or Undo was, handled to its end, and
         \* "nothing" from the time it is posted
  since  \* versions of the actor's document published while it was handled

orderlyVars == <<vars, done, since>>

Pairs == Remotes \X Locals

pair(q) == <<q.act.actor, q.act.follow.object>>

\* The requests that can change the followers table: authentic, and delivered
\* where the followed actor gets its mail.
Orders ==
  {q \in Requests :
     /\ \/ q.act.type = "Follow" /\ q.act.object # "malformed"
        \/ /\ q.act.type = "Undo" /\ q.act.object = "Follow"
           /\ q.act.follow.actor = q.act.actor
     /\ q.act.follow.object \in Locals
     /\ Reaches(q, q.act.follow.object)
     /\ Genuine(q)}

WorksOn(t, p) == /\ task[t].pc # "idle"
                 /\ task[t].job \in Orders
                 /\ pair(task[t].job) = p

Outstanding(p) == \E t \in Tasks : WorksOn(t, p)

OrderlyInit ==
  /\ Init
  /\ done = [p \in Pairs |-> "nothing"]
  /\ since = [p \in Pairs |-> {}]

\* A Follow or an Undo, when the one before it has ended in whatever way.
Post(t, q) ==
  /\ q \in Orders
  /\ ~ Outstanding(pair(q))
  /\ ReceivePersonal(t, q) \/ ReceiveShared(t, q)
  /\ done' = [done EXCEPT ![pair(q)] = "nothing"]
  /\ since' = [since EXCEPT ![pair(q)] = {profile[q.act.actor]}]

\* Anything else that arrives.
Stray(t) ==
  /\ \/ \E q \in Requests \ Orders : ReceivePersonal(t, q) \/ ReceiveShared(t, q)
     \/ \E i \in Intents : BeginFollow(t, i)
  /\ UNCHANGED <<done, since>>

\* An Undo, or a Follow with its Accept, has been handled.
Conclude(t) ==
  /\ RemoveFollower(t) \/ SendAccept(t)
  /\ done' = [done EXCEPT ![pair(task[t].job)] = task[t].job.act.type]
  /\ UNCHANGED since

Proceed(t) ==
  /\ \/ Authenticate(t) \/ MatchAccept(t) \/ ConfirmPending(t) \/ StoreFollower(t)
     \/ ResolveTarget(t) \/ StorePending(t) \/ SendFollow(t)
     \/ End(t)
  /\ UNCHANGED <<done, since>>

Restart == Crash /\ UNCHANGED <<done, since>>

Renew(r) ==
  /\ Republish(r)
  /\ since' = [p \in Pairs |->
                 IF p[1] = r /\ Outstanding(p) THEN since[p] \cup {profile'[r]} ELSE since[p]]
  /\ UNCHANGED done

OrderlyNext ==
  \/ \E t \in Tasks :
       \/ \E q \in Requests : Post(t, q)
       \/ Stray(t)
       \/ Conclude(t)
       \/ Proceed(t)
  \/ Restart
  \/ \E r \in Remotes : Renew(r)

OrderlySpec == OrderlyInit /\ [][OrderlyNext]_orderlyVars

------------------------------------------------------------------------------
(* Properties *)

Follows(p) == \E row \in followers : SameFollower(row, p[1], p[2])

\* To an orderly sender its last word stands: once its Follow is handled it is a
\* follower, once its Undo is handled it is none, however many other requests,
\* failures and crashes there were before, between and since.  (Handlers that run
\* at one time for one pair may store the Follow after the later Undo.)
LastWordStands ==
  \A p \in Pairs : /\ done[p] = "Follow" => Follows(p)
                   /\ done[p] = "Undo" => ~ Follows(p)

\* The document was fetched, not taken from the activity.
FetchesDocument(p) ==
  RequireSigned \/ \A q \in Orders : pair(q) = p => q.act.ver = Linked

\* A Follow that is repeated brings the follower's inboxes up to date: what is
\* stored comes from a document published while that Follow was handled, never
\* from an earlier one (store_follower after verify_signed_request).
FreshRow ==
  \A p \in Pairs : done[p] = "Follow" /\ FetchesDocument(p) =>
    \A row \in followers : SameFollower(row, p[1], p[2]) => row.ver \in since[p]
==============================================================================
