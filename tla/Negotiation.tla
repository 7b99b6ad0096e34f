----------------------------- MODULE Negotiation -----------------------------
(***************************************************************************)
(* Content negotiation: accepts_activitypub reads the media ranges of an   *)
(* Accept header in their order and decides whether ActivityPub is         *)
(* preferred to HTML.                                                      *)
(*                                                                         *)
(* A range is what `split' and `parse' make of it: whether it is a media   *)
(* range at all, which of the two lists its media type is in, and its q    *)
(* parameter, a whole part and a sequence of decimals.                     *)
(***************************************************************************)
EXTENDS Integers, Sequences

CONSTANTS
  Ranges,   \* the ranges that headers are made of
  None

Kinds == {"activitypub", "html"}

\* A q parameter.  A decimal of 10 is a character that is no digit.
Texts == [whole : {"0", "1", "other"}, fraction : Seq(0 .. 10)]

ASSUME RangeAssumption ==
  /\ Ranges \subseteq [parses : BOOLEAN, kind : Kinds \cup {"other"}, q : Texts \cup {None}]
  /\ None \notin Int /\ None \notin Texts
  /\ None \notin [quality : Int, order : Int]

VARIABLES
  header,   \* the ranges read so far
  order,    \* how many of them are media ranges
  best      \* what `preferred' has kept of each list

negotiation == <<header, order, best>>

------------------------------------------------------------------------------
(* parse_quality *)

AllDigits(s) == \A i \in DOMAIN s : s[i] # 10
AllZero(s) == \A i \in DOMAIN s : s[i] = 0

\* fraction.parse().unwrap_or(0), of at most three digits.
Number(s) ==
  CASE Len(s) = 0 -> 0
    [] Len(s) = 1 -> s[1]
    [] Len(s) = 2 -> 10 * s[1] + s[2]
    [] Len(s) = 3 -> 100 * s[1] + 10 * s[2] + s[3]

Padding(s) == CASE Len(s) = 0 -> 1000 [] Len(s) = 1 -> 100 [] Len(s) = 2 -> 10 [] Len(s) = 3 -> 1

\* Mutant: the decimals are not padded to three.
parse_quality_Unpadded(text) ==
  IF Len(text.fraction) > 3 \/ ~ AllDigits(text.fraction) THEN None
  ELSE IF text.whole = "0" THEN Number(text.fraction)
  ELSE IF text.whole = "1" /\ AllZero(text.fraction) THEN 1000
  ELSE None

\* In thousandths.
parse_quality(text) ==
  IF Len(text.fraction) > 3 \/ ~ AllDigits(text.fraction) THEN None
  ELSE IF text.whole = "0" THEN Number(text.fraction) * Padding(text.fraction)
  ELSE IF text.whole = "1" /\ AllZero(text.fraction) THEN 1000
  ELSE None

quality(range) == IF range.q = None THEN 1000 ELSE parse_quality(range.q)

------------------------------------------------------------------------------
(* The ranges *)

prefers(left, right) ==
  left.quality > right.quality \/ (left.quality = right.quality /\ left.order < right.order)

\* One step of the reduction in `preferred'.
better(current, candidate) ==
  IF current = None \/ prefers(candidate, current) THEN candidate ELSE current

\* Mutant: q=0 only ranks last.
counts_ZeroToo(range) ==
  range.parses /\ quality(range) # None /\ range.kind \in Kinds

\* Whether `filter_map' and the filter of `preferred' keep a range.
counts(range) ==
  range.parses /\ quality(range) # None /\ quality(range) > 0 /\ range.kind \in Kinds

NoPreference == [kind \in Kinds |-> None]

InitNegotiation ==
  /\ header = <<>>
  /\ order = 0
  /\ best = NoPreference

ReadRange(range) ==
  /\ header' = Append(header, range)
  /\ order' = IF range.parses THEN order + 1 ELSE order
  /\ best' = IF counts(range)
               THEN [best EXCEPT ![range.kind] =
                       better(@, [quality |-> quality(range), order |-> order])]
               ELSE best

accepts_activitypub ==
  /\ best["activitypub"] # None
  /\ best["html"] # None => prefers(best["activitypub"], best["html"])

------------------------------------------------------------------------------
(* What it is for: a definition of its own, by the grammar of RFC 9110 *)

\* qvalue = ( "0" [ "." 0*3DIGIT ] ) / ( "1" [ "." 0*3("0") ] )
IsQvalue(text) ==
  /\ Len(text.fraction) <= 3
  /\ \/ text.whole = "0" /\ \A i \in DOMAIN text.fraction : text.fraction[i] \in 0 .. 9
     \/ text.whole = "1" /\ \A i \in DOMAIN text.fraction : text.fraction[i] = 0

Decimal(s, i) == IF i <= Len(s) THEN s[i] ELSE 0

Thousandths(text) ==
  (IF text.whole = "1" THEN 1000 ELSE 0)
    + 100 * Decimal(text.fraction, 1) + 10 * Decimal(text.fraction, 2) + Decimal(text.fraction, 3)

Weight(range) == IF range.q = None THEN 1000 ELSE Thousandths(range.q)

\* The client takes that kind of document.
Takes(range, kind) ==
  range.parses /\ range.kind = kind /\ (range.q = None \/ IsQvalue(range.q)) /\ Weight(range) > 0

(* ActivityPub is served just when some range takes it that outweighs every  *)
(* range that takes HTML, or comes before it at the same weight.             *)
ServesWhatIsPreferred ==
  accepts_activitypub <=>
    \E i \in DOMAIN header :
      /\ Takes(header[i], "activitypub")
      /\ \A j \in DOMAIN header : Takes(header[j], "html") =>
           \/ Weight(header[i]) > Weight(header[j])
           \/ Weight(header[i]) = Weight(header[j]) /\ i < j
==============================================================================
