--------------------------- MODULE SigningIdentity ---------------------------
(***************************************************************************)
(* What the store promises about signing identities: an actor is given at  *)
(* most one key pair, ever, and only that one is used, be it to sign or to *)
(* be published in the actor's document.  No servers, no restarts.         *)
(***************************************************************************)

CONSTANTS Actors, KeyPairs, NoKey

VARIABLES
  identity,  \* the key pair of each actor
  used       \* the pairs <<actor, key pair>> that have been used

vars == <<identity, used>>

Init ==
  /\ identity = [a \in Actors |-> NoKey]
  /\ used = {}

\* The first key pair of an actor; whoever chose it may be the first to use it.
Choose(a, k) ==
  /\ identity[a] = NoKey
  /\ identity' = [identity EXCEPT ![a] = k]
  /\ used' \in {used, used \cup {<<a, k>>}}

Use(a) ==
  /\ identity[a] # NoKey
  /\ used' = used \cup {<<a, identity[a]>>}
  /\ UNCHANGED identity

Next == \E a \in Actors : Use(a) \/ \E k \in KeyPairs : Choose(a, k)

Spec == Init /\ [][Next]_vars
==============================================================================
