--------------------------- MODULE MCOrderlySenders ---------------------------
(***************************************************************************)
(* A small instance of OrderlySenders: rita follows alice and bob, of whom *)
(* only bob has a document that names the shared inbox.                    *)
(***************************************************************************)
EXTENDS OrderlySenders, TLC

CONSTANTS alice, bob,  \* local actors
          rita,        \* a remote actor
          f1,          \* the id of a Follow
          v1, v2,      \* versions of an actor document
          t1, t2       \* tasks

\* A set of one request; its signer is the actor unless it is forged.
Request(inbox, signer, type, object, to) ==
  [inbox : {inbox}, signer : {signer},
   act : [type : {type}, actor : {rita}, ver : {Linked}, object : {object},
          follow : [id : {f1}, actor : {rita}, object : {to}]]]

\* Follows and Undos by either inbox, some that concern nobody and a forged one.
MCRequests ==
  UNION {Request(alice, rita, "Follow", "Follow", alice),
         Request(alice, rita, "Undo", "Follow", alice),
         Request(Shared, rita, "Follow", "Follow", bob),
         Request(bob, rita, "Undo", "Follow", bob),
         Request(alice, rita, "Follow", "Follow", bob),
         Request(Shared, rita, "Undo", "Follow", alice),
         Request(Shared, None, "Undo", "Follow", bob)}

Symmetry == Permutations(Tasks) \cup Permutations(Versions)
==============================================================================
