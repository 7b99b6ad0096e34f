----------------------------- MODULE MCFederation -----------------------------
(***************************************************************************)
(* Small instances of Federation: server A hosts alice, server B bob.      *)
(***************************************************************************)
EXTENDS Federation, TLC

CONSTANTS alice, bob, f1, f2, v1, v2, t1, t2, u1, u2

\* Each is a set of one.
Request(inbox, signer, type, id, from, to, actor, object) ==
  [inbox : {inbox}, signer : {signer},
   act : [type : {type}, actor : {actor}, ver : {Linked}, object : {object},
          follow : [id : {id}, actor : {from}, object : {to}]]]

Follow(from, to, f) == Request(to, from, "Follow", f, from, to, from, "Follow")
Accept(from, to, f) == Request(from, to, "Accept", f, from, to, to, "Follow")

Intent(l, r, f) == [local : {l}, remote : {r}, follow : {f}]

\* alice follows bob under f1, bob alice under f2; unsigned copies arrive too.
MCIntentsA == Intent(alice, bob, f1)
MCIntentsB == Intent(bob, alice, f2)
MCRequestsA ==
  UNION {Accept(alice, bob, f1),
         Follow(bob, alice, f2),
         Request(alice, None, "Accept", f1, alice, bob, bob, "link")}
MCRequestsB ==
  UNION {Follow(alice, bob, f1),
         Accept(bob, alice, f2),
         Request(bob, None, "Follow", f2, alice, bob, alice, "Follow")}

\* One direction.
MCAccepts == Accept(alice, bob, f1)
MCFollows == Follow(alice, bob, f1)
==============================================================================
