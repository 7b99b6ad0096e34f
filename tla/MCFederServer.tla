---------------------------- MODULE MCFederServer ----------------------------
(***************************************************************************)
(* Small instances of FederServer.  Each run names the inputs it allows,   *)
(* from the sets below.                                                    *)
(***************************************************************************)
EXTENDS FederServer, TLC

CONSTANTS alice, bob,  \* local actors
          rita, sam,   \* remote actors
          f1,          \* the id of a Follow
          v1, v2,      \* versions of an actor document
          t1, t2       \* tasks

\* Each of these is the set of the one input it describes;
\* an instance is a union of them.
Act(type, actor, ver, object, id, from, to) ==
  [type : {type}, actor : {actor}, ver : {ver}, object : {object},
   follow : [id : {id}, actor : {from}, object : {to}]]

Request(inbox, signer, acts) == [inbox : {inbox}, signer : {signer}, act : acts]

\* Sent by its actor, properly signed.
Honest(inbox, acts) == UNION {Request(inbox, r, {a \in acts : a.actor = r}) : r \in Remotes}

AcceptLink(r, f, l) == Act("Accept", r, Linked, "link", f, l, r)
AcceptFollow(r, f, l) == Act("Accept", r, Linked, "Follow", f, l, r)

Intent(l, r, f) == [local : {l}, remote : {r}, follow : {f}]

\* Two callers of follow_actor use one id for two targets, while Accepts come
\* from either target, by either inbox, and with another actor's signature.
MCRaceIntents ==
  UNION {Intent(alice, rita, f1),
         Intent(bob, sam, f1)}
MCRaceRequests ==
  UNION {Honest(alice, AcceptLink(rita, f1, alice)),
         Honest(Shared, AcceptFollow(sam, f1, bob)),
         Honest(bob, AcceptLink(rita, f1, alice)),
         Request(alice, sam, AcceptFollow(rita, f1, alice))}

\* Without signatures an activity may embed the document of its actor.
MCUnsignedAccept == Request(alice, None, Act("Accept", rita, v2, "Follow", f1, alice, rita))
MCUnsignedFollow == Request(Shared, None, Act("Follow", rita, v1, "Follow", f1, rita, alice))
MCUnsigned ==
  UNION {MCUnsignedAccept,
         MCUnsignedFollow,
         Request(alice, None, Act("Undo", rita, Linked, "Follow", f1, rita, alice))}

\* One actor, one inbox.
MCRetryIntents == Intent(alice, rita, f1)
MCSingleAccept == Honest(alice, AcceptFollow(rita, f1, alice))

Symmetry == Permutations(Tasks) \cup Permutations(Versions)
==============================================================================
