------------------------------ MODULE SignedMail ------------------------------
(***************************************************************************)
(* What signed requests promise, told without headers, keys or fetches:    *)
(* an inbox takes a letter only from the actor it is from, only if that    *)
(* actor wrote it to this very inbox, and only near the time it is dated.  *)
(***************************************************************************)
EXTENDS Integers

CONSTANTS
  Letters,  \* records with at least the field `date'
  Window,   \* how old a letter may be when it is taken
  MaxSkew   \* how far ahead its date may be

VARIABLES
  clock,
  written,
  taken

vars == <<clock, written, taken>>

Init ==
  /\ clock = 0
  /\ written = {}
  /\ taken = {}

\* One signature may make several letters: of a digest header with two entries.
Write ==
  /\ written' \in SUBSET Letters
  /\ written \subseteq written'
  /\ UNCHANGED <<clock, taken>>

InDate(l) == clock - l.date <= Window /\ l.date - clock <= MaxSkew

Take(l) ==
  /\ l \in written
  /\ InDate(l)
  /\ taken' = taken \cup {l}
  /\ UNCHANGED <<clock, written>>

Tick ==
  /\ clock' = clock + 1
  /\ UNCHANGED <<written, taken>>

Next == Write \/ Tick \/ \E l \in Letters : Take(l)

Spec == Init /\ [][Next]_vars
==============================================================================
