---------------------------- MODULE MCNoteDelivery ----------------------------
(***************************************************************************)
(* Small instances of NoteDelivery: rita and sam share a server, and its   *)
(* shared inbox is in every document but rita's first, whose inbox differs *)
(* from that of her second.                                                *)
(***************************************************************************)
EXTENDS NoteDelivery, TLC

CONSTANTS alice, bob,          \* local actors
          rita, sam,           \* remote actors
          v1, v2,              \* versions of an actor document
          n1, n2,              \* ids of notes
          public, collection,  \* PUBLIC_COLLECTION, alice's followers
          t1, t2,              \* calls that run at one time
          ritas1, ritas2, sams, shared

MCAddresses == {alice, rita, sam, public, collection}
MCCollection == [l \in Locals |-> IF l = alice THEN collection ELSE None]
MCInboxes == {ritas1, ritas2, sams, shared}
MCInbox == [doc \in ActorDocs |->
              IF doc.id = sam THEN sams ELSE IF doc.ver = v1 THEN ritas1 ELSE ritas2]
MCSharedInbox == [doc \in ActorDocs |->
                    IF doc.id = rita /\ doc.ver = v1 THEN None ELSE shared]

\* A set of one note.
Note(author, id, audience) == [author : {author}, id : {id}, audience : {audience}]

\* A note for alice's followers, for rita, who may be one, and for sam, who
\* cannot be resolved where rita is the only remote actor; and a public one of
\* bob, who has no followers collection and no key.
MCCalls ==
  UNION {Note(alice, n1, {collection, rita, sam}),
         Note(bob, n2, {public, rita})}
==============================================================================
