--------------------------- MODULE EndpointsProofs ---------------------------
(***************************************************************************)
(* Proofs about Endpoints and the negotiation in it: for every Accept      *)
(* header, however many ranges it has, every set of actors and names, and  *)
(* whatever happens to the tables between the calls of a handler.          *)
(***************************************************************************)
EXTENDS Endpoints, SequenceTheorems, TLAPS

------------------------------------------------------------------------------
(* Quality values *)

LEMMA UpToThree == \A m \in Nat : m <= 3 => m \in {0, 1, 2, 3}
OBVIOUS

LEMMA WeightIsInt == \A w \in 1 .. 1000 : w \in Int
OBVIOUS

(* parse_quality accepts the qvalues of RFC 9110, and returns their value.   *)
THEOREM QualityIsThousandths ==
  ASSUME NEW text \in Texts
  PROVE  /\ parse_quality(text) = IF IsQvalue(text) THEN Thousandths(text) ELSE None
         /\ IsQvalue(text) => Thousandths(text) \in 0 .. 1000
<1> DEFINE s == text.fraction
<1>1. /\ s \in Seq(0 .. 10) /\ Len(s) \in Nat /\ DOMAIN s = 1 .. Len(s)
      /\ \A i \in 1 .. Len(s) : s[i] \in 0 .. 10
      /\ text.whole \in {"0", "1", "other"}
  BY DEF Texts
<1> DEFINE decimals == 100 * Decimal(s, 1) + 10 * Decimal(s, 2) + Decimal(s, 3)
<1>2. AllDigits(s) <=> \A i \in DOMAIN s : s[i] \in 0 .. 9
  BY <1>1 DEF AllDigits
<1>3. CASE Len(s) > 3 \/ ~ AllDigits(s)
  <2>1. parse_quality(text) = None
    BY <1>3 DEF parse_quality
  <2>2. AllZero(s) => AllDigits(s)
    BY <1>1 DEF AllZero, AllDigits
  <2>3. ~ IsQvalue(text)
    BY <1>1, <1>2, <1>3, <2>2 DEF IsQvalue, AllZero
  <2> QED BY <2>1, <2>3
<1>4. CASE Len(s) <= 3 /\ AllDigits(s)
  <2>1. Len(s) \in {0, 1, 2, 3}
    <3>1. Len(s) \in Nat /\ Len(s) <= 3
      BY <1>1, <1>4
    <3> QED BY <3>1, UpToThree, Zenon
  <2>2. Number(s) * Padding(s) = decimals /\ decimals \in 0 .. 999
    <3>1. CASE Len(s) = 0
      BY <3>1 DEF Number, Padding, Decimal
    <3>2. CASE Len(s) = 1
      <4>1. s[1] \in 0 .. 9
        BY <1>1, <1>2, <1>4, <3>2
      <4> QED BY <3>2, <4>1 DEF Number, Padding, Decimal
    <3>3. CASE Len(s) = 2
      <4>1. s[1] \in 0 .. 9 /\ s[2] \in 0 .. 9
        BY <1>1, <1>2, <1>4, <3>3
      <4> QED BY <3>3, <4>1 DEF Number, Padding, Decimal
    <3>4. CASE Len(s) = 3
      <4>1. s[1] \in 0 .. 9 /\ s[2] \in 0 .. 9 /\ s[3] \in 0 .. 9
        BY <1>1, <1>2, <1>4, <3>4
      <4> QED BY <3>4, <4>1 DEF Number, Padding, Decimal
    <3> QED BY <2>1, <3>1, <3>2, <3>3, <3>4
  <2>3. AllZero(s) => decimals = 0
    BY <1>1, <2>1 DEF AllZero, Decimal
  <2>4. IsQvalue(text) <=> text.whole = "0" \/ (text.whole = "1" /\ AllZero(s))
    BY <1>1, <1>2, <1>4 DEF IsQvalue, AllZero
  <2>5. Thousandths(text) = (IF text.whole = "1" THEN 1000 ELSE 0) + decimals
    <3>1. Thousandths(text) = (IF text.whole = "1" THEN 1000 ELSE 0)
            + 100 * Decimal(s, 1) + 10 * Decimal(s, 2) + Decimal(s, 3)
      BY DEF Thousandths
    <3>2. Decimal(s, 1) \in Int /\ Decimal(s, 2) \in Int /\ Decimal(s, 3) \in Int
      BY <1>1, <2>1 DEF Decimal
    <3> QED BY <3>1, <3>2
  <2>6. parse_quality(text) = IF text.whole = "0" THEN Number(s) * Padding(s)
                              ELSE IF text.whole = "1" /\ AllZero(s) THEN 1000 ELSE None
    BY <1>1, <1>4 DEF parse_quality
  <2> HIDE DEF decimals
  <2> QED BY <2>2, <2>3, <2>4, <2>5, <2>6
<1> QED BY <1>1, <1>3, <1>4

(* The ranges that count are those the client takes something for.           *)
LEMMA CountsIsTakes ==
  ASSUME NEW range \in Ranges
  PROVE  /\ \A kind \in Kinds : Takes(range, kind) <=> counts(range) /\ range.kind = kind
         /\ counts(range) => quality(range) = Weight(range) /\ Weight(range) \in 1 .. 1000
<1>1. range.q \in Texts \cup {None} /\ None \notin Texts /\ None \notin Int
  BY RangeAssumption
<1>2. CASE range.q = None
  BY <1>1, <1>2 DEF Takes, counts, quality, Weight
<1>3. CASE range.q \in Texts
  BY <1>1, <1>3, QualityIsThousandths DEF Takes, counts, quality, Weight
<1> QED BY <1>1, <1>2, <1>3

LEMMA TakesFacts ==
  \A range \in Ranges, kind \in Kinds : Takes(range, kind) =>
    Weight(range) \in 1 .. 1000 /\ range.parses /\ range.kind = kind
<1> SUFFICES ASSUME NEW range \in Ranges, NEW kind \in Kinds, Takes(range, kind)
             PROVE  Weight(range) \in 1 .. 1000 /\ range.parses /\ range.kind = kind
  OBVIOUS
<1>1. counts(range)
  BY CountsIsTakes
<1>2. Weight(range) \in 1 .. 1000
  BY <1>1, CountsIsTakes
<1> QED BY <1>2 DEF Takes

LEMMA TakesWeight ==
  \A range \in Ranges, kind \in Kinds : Takes(range, kind) => Weight(range) \in Int
<1> SUFFICES ASSUME NEW range \in Ranges, NEW kind \in Kinds, Takes(range, kind)
             PROVE  Weight(range) \in Int
  OBVIOUS
<1>1. Weight(range) \in 1 .. 1000
  BY TakesFacts
<1> QED BY <1>1, WeightIsInt, Zenon

------------------------------------------------------------------------------
(* The ranges of a header *)

(* The ranges of a header have positions, in their order.                    *)
Positions(pos) ==
  /\ pos \in [DOMAIN header -> Nat]
  /\ \A i \in DOMAIN header : header[i].parses => pos[i] < order
  /\ \A i, j \in DOMAIN header :
       header[i].parses /\ header[j].parses /\ i < j => pos[i] < pos[j]

(* What is kept of a kind is the first of the heaviest ranges that take it.  *)
Keeps(pos, kind) ==
  /\ best[kind] = None => \A i \in DOMAIN header : ~ Takes(header[i], kind)
  /\ best[kind] # None => \E i \in DOMAIN header :
       /\ Takes(header[i], kind)
       /\ best[kind] = [quality |-> Weight(header[i]), order |-> pos[i]]
       /\ \A j \in DOMAIN header : Takes(header[j], kind) =>
            \/ Weight(header[j]) < Weight(header[i])
            \/ Weight(header[j]) = Weight(header[i]) /\ i <= j

NegotiationInv ==
  \E pos : Positions(pos) /\ \A kind \in Kinds : Keeps(pos, kind)

LEMMA NegotiationInit == InitNegotiation => NegotiationInv
<1> SUFFICES ASSUME InitNegotiation PROVE NegotiationInv OBVIOUS
<1>1. DOMAIN header = {}
  BY DEF InitNegotiation
<1>2. Positions([i \in {} |-> 0])
  BY <1>1 DEF Positions
<1>3. \A kind \in Kinds : Keeps([i \in {} |-> 0], kind)
  BY <1>1 DEF InitNegotiation, NoPreference, Keeps
<1> QED BY <1>2, <1>3 DEF NegotiationInv
(* Reading one more range.                                                   *)
LEMMA NegotiationStep ==
  ASSUME header \in Seq(Ranges), order \in Nat,
         best \in [Kinds -> [quality : 1 .. 1000, order : Nat] \cup {None}],
         NegotiationInv, NEW range \in Ranges, ReadRange(range)
  PROVE  NegotiationInv'
<1>1. PICK pos : Positions(pos) /\ \A kind \in Kinds : Keeps(pos, kind)
  BY DEF NegotiationInv
<1>2. PICK n \in Nat : n = Len(header)
  OBVIOUS
<1>3. PICK o \in Nat : o = order
  OBVIOUS
<1>4. PICK new : new = [i \in 1 .. n + 1 |-> IF i = n + 1 THEN o ELSE pos[i]]
  OBVIOUS
<1>5. /\ DOMAIN header = 1 .. n /\ DOMAIN header' = 1 .. n + 1
      /\ \A i \in 1 .. n : header'[i] = header[i]
      /\ header'[n + 1] = range
  BY <1>2 DEF ReadRange
<1>0. \A j \in 1 .. n + 1 : j \in 1 .. n \/ j = n + 1
  OBVIOUS
<1>6. /\ new \in [1 .. n + 1 -> Nat]
      /\ \A i \in 1 .. n : new[i] = pos[i]
      /\ new[n + 1] = o
  BY <1>1, <1>4, <1>5 DEF Positions
<1>7. Positions(new)'
  BY <1>1, <1>3, <1>5, <1>6 DEF Positions, ReadRange
<1>8. ASSUME NEW kind \in Kinds PROVE Keeps(new, kind)'
  <2>0. ASSUME NEW k \in 1 .. n + 1, Takes(header'[k], kind),
               best'[kind] # None,
               best'[kind] = [quality |-> Weight(header'[k]), order |-> new[k]],
               \A j \in 1 .. n + 1 : Takes(header'[j], kind) =>
                 \/ Weight(header'[j]) < Weight(header'[k])
                 \/ Weight(header'[j]) = Weight(header'[k]) /\ k <= j
        PROVE  Keeps(new, kind)'
    BY <1>5, <2>0 DEF Keeps
  <2>1. CASE ~ Takes(range, kind)
    <3>1. best'[kind] = best[kind]
      BY <2>1, CountsIsTakes DEF ReadRange
    <3>2. \A j \in 1 .. n + 1 : Takes(header'[j], kind) => j \in 1 .. n /\ Takes(header[j], kind)
      BY <1>0, <1>5, <2>1
    <3>3. CASE best[kind] = None
      BY <1>1, <1>5, <3>1, <3>2, <3>3 DEF Keeps
    <3>4. CASE best[kind] # None
      <4>1. PICK i \in 1 .. n :
              /\ Takes(header[i], kind)
              /\ best[kind] = [quality |-> Weight(header[i]), order |-> pos[i]]
              /\ \A j \in 1 .. n : Takes(header[j], kind) =>
                   \/ Weight(header[j]) < Weight(header[i])
                   \/ Weight(header[j]) = Weight(header[i]) /\ i <= j
        BY <1>1, <1>5, <3>4 DEF Keeps
      <4>2. i \in 1 .. n + 1 /\ header'[i] = header[i] /\ new[i] = pos[i]
        BY <1>5, <1>6
      <4>3. \A j \in 1 .. n + 1 : Takes(header'[j], kind) =>
              \/ Weight(header'[j]) < Weight(header'[i])
              \/ Weight(header'[j]) = Weight(header'[i]) /\ i <= j
        BY <1>5, <3>2, <4>1, <4>2
      <4>4. best'[kind] = [quality |-> Weight(header'[i]), order |-> new[i]] /\ Takes(header'[i], kind)
        BY <3>1, <4>1, <4>2
      <4> QED BY <2>0, <3>1, <3>4, <4>2, <4>3, <4>4
    <3> QED BY <3>3, <3>4
  <2>2. CASE Takes(range, kind)
    <3>1. /\ counts(range) /\ range.kind = kind
          /\ quality(range) = Weight(range) /\ Weight(range) \in 1 .. 1000
      BY <2>2, CountsIsTakes
    <3>2. PICK candidate : candidate = [quality |-> Weight(range), order |-> o]
      OBVIOUS
    <3>3. best'[kind] = better(best[kind], candidate)
      BY <1>3, <3>1, <3>2 DEF ReadRange
    <3>4. candidate # None
      <4>1. Weight(range) \in Int
        BY <3>1, WeightIsInt, Zenon
      <4>2. candidate \in [quality : Int, order : Int]
        BY <3>2, <4>1
      <4> QED BY <4>2, RangeAssumption
    <3>5. ASSUME NEW i \in 1 .. n, Takes(header[i], kind) PROVE Weight(header[i]) \in Int
      <4>1. header[i] \in Ranges
        BY <1>2
      <4> QED BY <3>5, <4>1, TakesWeight, Zenon
    <3>6. CASE best[kind] = None
      <4>1. best'[kind] = candidate
        BY <3>3, <3>6 DEF better
      <4>2. \A j \in 1 .. n : ~ Takes(header'[j], kind)
        BY <1>1, <1>5, <3>6 DEF Keeps
      <4>3. \A j \in 1 .. n + 1 : Takes(header'[j], kind) => j = n + 1
        BY <1>0, <4>2
      <4>4. n + 1 \in 1 .. n + 1 /\ n + 1 <= n + 1
        OBVIOUS
      <4>5. best'[kind] = [quality |-> Weight(header'[n + 1]), order |-> new[n + 1]]
        BY <1>5, <1>6, <3>2, <4>1
      <4> QED BY <1>5, <2>0, <2>2, <3>4, <4>1, <4>3, <4>4, <4>5
    <3>7. CASE best[kind] # None
      <4>1. PICK i \in 1 .. n :
              /\ Takes(header[i], kind)
              /\ best[kind] = [quality |-> Weight(header[i]), order |-> pos[i]]
              /\ \A j \in 1 .. n : Takes(header[j], kind) =>
                   \/ Weight(header[j]) < Weight(header[i])
                   \/ Weight(header[j]) = Weight(header[i]) /\ i <= j
        BY <1>1, <1>5, <3>7 DEF Keeps
      <4>2. pos[i] \in Nat /\ pos[i] < o
        BY <1>1, <1>3, <1>5, <4>1 DEF Positions, Takes
      <4>3. prefers(candidate, best[kind]) <=> Weight(range) > Weight(header[i])
        <5>1. /\ candidate.quality = Weight(range) /\ candidate.order = o
              /\ best[kind].quality = Weight(header[i]) /\ best[kind].order = pos[i]
          BY <3>2, <4>1
        <5>2. ~ (o < pos[i])
          BY <4>2
        <5> QED BY <5>1, <5>2 DEF prefers
      <4>4. CASE Weight(range) > Weight(header[i])
        <5>1. best'[kind] = candidate
          BY <3>3, <4>3, <4>4 DEF better
        <5>2. \A j \in 1 .. n + 1 : Takes(header'[j], kind) =>
                \/ Weight(header'[j]) < Weight(header'[n + 1])
                \/ Weight(header'[j]) = Weight(header'[n + 1]) /\ n + 1 <= j
          <6>1. \A j \in 1 .. n : Takes(header[j], kind) => Weight(header[j]) < Weight(range)
            <7>1. Weight(range) \in Int /\ Weight(header[i]) \in Int
              BY <3>1, <3>5, <4>1, WeightIsInt, Zenon
            <7> SUFFICES ASSUME NEW j \in 1 .. n, Takes(header[j], kind)
                         PROVE  Weight(header[j]) < Weight(range)
              OBVIOUS
            <7>2. Weight(header[j]) \in Int
              BY <3>5, Zenon
            <7>3. Weight(header[j]) < Weight(header[i]) \/ Weight(header[j]) = Weight(header[i])
              BY <4>1
            <7> QED BY <4>4, <7>1, <7>2, <7>3
          <6>2. n + 1 <= n + 1
            OBVIOUS
          <6> QED BY <1>0, <1>5, <6>1, <6>2
        <5>3. /\ n + 1 \in 1 .. n + 1
              /\ best'[kind] = [quality |-> Weight(header'[n + 1]), order |-> new[n + 1]]
          BY <1>5, <1>6, <3>2, <5>1
        <5> QED BY <1>5, <2>0, <2>2, <3>4, <5>1, <5>2, <5>3
      <4>5. CASE ~ (Weight(range) > Weight(header[i]))
        <5>1. best'[kind] = best[kind]
          BY <3>3, <3>7, <4>3, <4>5 DEF better
        <5>2. \A j \in 1 .. n + 1 : Takes(header'[j], kind) =>
                \/ Weight(header'[j]) < Weight(header'[i])
                \/ Weight(header'[j]) = Weight(header'[i]) /\ i <= j
          <6>1. Weight(range) \in Int /\ Weight(header[i]) \in Int
            BY <3>1, <3>5, <4>1, WeightIsInt, Zenon
          <6>3. i <= n + 1
            OBVIOUS
          <6>2. \/ Weight(range) < Weight(header[i])
                \/ Weight(range) = Weight(header[i]) /\ i <= n + 1
            BY <4>5, <6>1, <6>3
          <6> QED BY <1>0, <1>5, <4>1, <6>2
        <5>3. Takes(header'[i], kind) /\ i \in 1 .. n + 1 /\ new[i] = pos[i] /\ header'[i] = header[i]
          BY <1>5, <1>6, <4>1
        <5>4. best'[kind] = [quality |-> Weight(header'[i]), order |-> new[i]]
          BY <4>1, <5>1, <5>3
        <5> QED BY <2>0, <3>7, <5>1, <5>2, <5>3, <5>4
      <4> QED BY <4>4, <4>5
    <3> QED BY <3>6, <3>7
  <2> QED BY <2>1, <2>2
<1> QED BY <1>7, <1>8 DEF NegotiationInv

LEMMA ServesPreferred ==
  ASSUME header \in Seq(Ranges), NegotiationInv
  PROVE  ServesWhatIsPreferred
<1>1. PICK pos : Positions(pos) /\ \A kind \in Kinds : Keeps(pos, kind)
  BY DEF NegotiationInv
<1>2. /\ "activitypub" \in Kinds /\ "html" \in Kinds /\ "activitypub" # "html"
      /\ \A i \in DOMAIN header : header[i] \in Ranges
      /\ \A i \in DOMAIN header : i \in Int
  BY DEF Kinds
<1>3. \A kind \in Kinds : \A i \in DOMAIN header :
        Takes(header[i], kind) => header[i].parses /\ header[i].kind = kind
  BY <1>2, TakesFacts
<1>6. \A i \in DOMAIN header : \A kind \in Kinds :
        Takes(header[i], kind) => Weight(header[i]) \in Int
  BY <1>2, TakesWeight, Zenon
<1>4. CASE best["activitypub"] = None
  BY <1>1, <1>2, <1>4 DEF Keeps, ServesWhatIsPreferred, accepts_activitypub
<1>5. CASE best["activitypub"] # None
  <2>1. PICK i \in DOMAIN header :
          /\ Takes(header[i], "activitypub")
          /\ best["activitypub"] = [quality |-> Weight(header[i]), order |-> pos[i]]
          /\ \A j \in DOMAIN header : Takes(header[j], "activitypub") =>
               \/ Weight(header[j]) < Weight(header[i])
               \/ Weight(header[j]) = Weight(header[i]) /\ i <= j
    BY <1>1, <1>2, <1>5 DEF Keeps
  <2>2. CASE best["html"] = None
    BY <1>1, <1>2, <1>5, <2>1, <2>2 DEF Keeps, ServesWhatIsPreferred, accepts_activitypub
  <2>3. CASE best["html"] # None
    <3>1. PICK h \in DOMAIN header :
            /\ Takes(header[h], "html")
            /\ best["html"] = [quality |-> Weight(header[h]), order |-> pos[h]]
            /\ \A j \in DOMAIN header : Takes(header[j], "html") =>
                 \/ Weight(header[j]) < Weight(header[h])
                 \/ Weight(header[j]) = Weight(header[h]) /\ h <= j
      BY <1>1, <1>2, <2>3 DEF Keeps
    <3>2. i # h /\ pos[i] \in Nat /\ pos[h] \in Nat
          /\ (i < h => pos[i] < pos[h]) /\ (h < i => pos[h] < pos[i])
      BY <1>1, <1>2, <1>3, <2>1, <3>1 DEF Positions
    <3>3. accepts_activitypub <=>
            \/ Weight(header[i]) > Weight(header[h])
            \/ Weight(header[i]) = Weight(header[h]) /\ pos[i] < pos[h]
      BY <1>5, <2>1, <2>3, <3>1 DEF accepts_activitypub, prefers
    <3>4. accepts_activitypub <=>
            \/ Weight(header[i]) > Weight(header[h])
            \/ Weight(header[i]) = Weight(header[h]) /\ i < h
      BY <1>2, <3>2, <3>3
    <3>5. ASSUME accepts_activitypub, NEW j \in DOMAIN header, Takes(header[j], "html")
          PROVE  \/ Weight(header[i]) > Weight(header[j])
                 \/ Weight(header[i]) = Weight(header[j]) /\ i < j
      <4>1. /\ Weight(header[i]) \in Int /\ Weight(header[h]) \in Int /\ Weight(header[j]) \in Int
            /\ i \in Int /\ h \in Int /\ j \in Int
        <5>1. Weight(header[i]) \in Int
          BY <1>2, <1>6, <2>1, Zenon
        <5>2. Weight(header[h]) \in Int
          BY <1>2, <1>6, <3>1, Zenon
        <5>3. Weight(header[j]) \in Int
          BY <1>2, <1>6, <3>5, Zenon
        <5> QED BY <1>2, <5>1, <5>2, <5>3
      <4>2. \/ Weight(header[i]) > Weight(header[h])
            \/ Weight(header[i]) = Weight(header[h]) /\ i < h
        BY <3>4, <3>5
      <4>3. \/ Weight(header[j]) < Weight(header[h])
            \/ Weight(header[j]) = Weight(header[h]) /\ h <= j
        BY <3>1, <3>5
      <4> QED BY <4>1, <4>2, <4>3
    <3>6. ASSUME NEW k \in DOMAIN header, Takes(header[k], "activitypub"),
                 \/ Weight(header[k]) > Weight(header[h])
                 \/ Weight(header[k]) = Weight(header[h]) /\ k < h
          PROVE  accepts_activitypub
      <4>1. /\ Weight(header[i]) \in Int /\ Weight(header[h]) \in Int /\ Weight(header[k]) \in Int
            /\ i \in Int /\ h \in Int /\ k \in Int
        <5>1. Weight(header[i]) \in Int
          BY <1>2, <1>6, <2>1, Zenon
        <5>2. Weight(header[h]) \in Int
          BY <1>2, <1>6, <3>1, Zenon
        <5>3. Weight(header[k]) \in Int
          BY <1>2, <1>6, <3>6, Zenon
        <5> QED BY <1>2, <5>1, <5>2, <5>3
      <4>2. \/ Weight(header[k]) < Weight(header[i])
            \/ Weight(header[k]) = Weight(header[i]) /\ i <= k
        BY <2>1, <3>6
      <4>3. \/ Weight(header[i]) > Weight(header[h])
            \/ Weight(header[i]) = Weight(header[h]) /\ i < h
        BY <3>6, <4>1, <4>2
      <4> QED BY <3>4, <4>3
    <3> QED BY <2>1, <3>1, <3>5, <3>6 DEF ServesWhatIsPreferred
  <2> QED BY <2>2, <2>3
<1> QED BY <1>4, <1>5
------------------------------------------------------------------------------
(* The endpoints *)

(* A handler runs for a request of its route.                                *)
StageInv ==
  /\ stage \in Stages \ {"idle"} => request # None
  /\ stage \in {"actor", "webfinger", "followers", "note"} => request.route = stage
  /\ stage = "list" => request.route = "followers"
  /\ stage = "load" => request.route = "note"

Inv == TypeOK /\ NegotiationInv /\ StageInv /\ HandleLeadsToActor

(* The actors of distinct names are found by their names.                    *)
LEMMA GetActor ==
  ASSUME NEW name
  PROVE  /\ get_actor(name) \in Actors \cup {None}
         /\ \A a \in Actors : get_actor(name) = a <=> NameOf[a] = name
BY NameAssumption DEF get_actor

(* What stands before and behind the last @.                                 *)
LEMMA LastAt ==
  ASSUME NEW account \in Names, account # <<>>, NEW name \in Names, NEW host \in Parts
  PROVE  account = Append(name, host) <=>
           SubSeq(account, 1, Len(account) - 1) = name /\ account[Len(account)] = host
<1>1. Len(account) \in Nat /\ Len(account) # 0
  BY DEF Names
<1>2. Len(account) - 1 \in Nat
  BY <1>1
<1>3. PICK identifier : identifier = SubSeq(account, 1, Len(account) - 1)
  OBVIOUS
<1>4. /\ identifier \in Seq(Parts) /\ Len(identifier) = Len(account) - 1
      /\ \A i \in 1 .. Len(account) - 1 : identifier[i] = account[i]
  <2>1. PICK m \in Nat : m = Len(account) - 1
    BY <1>2
  <2>2. \A i \in 1 .. m : account[i] \in Parts
    BY <1>1, <2>1 DEF Names
  <2>3. /\ SubSeq(account, 1, m) \in Seq(Parts)
        /\ Len(SubSeq(account, 1, m)) = (IF 1 <= m THEN m - 1 + 1 ELSE 0)
        /\ \A i \in 1 .. m - 1 + 1 : SubSeq(account, 1, m)[i] = account[1 + i - 1]
    BY <2>2, SubSeqProperties
  <2>4. (IF 1 <= m THEN m - 1 + 1 ELSE 0) = m /\ m - 1 + 1 = m
    BY <2>1
  <2>5. \A i \in 1 .. m : 1 + i - 1 = i
    OBVIOUS
  <2> QED BY <1>3, <2>1, <2>3, <2>4, <2>5
<1>5. ASSUME account = Append(name, host)
      PROVE  identifier = name /\ account[Len(account)] = host
  <2>1. Len(name) = Len(identifier) /\ \A i \in 1 .. Len(name) : name[i] = identifier[i]
    BY <1>4, <1>5 DEF Names
  <2> QED BY <1>4, <1>5, <2>1 DEF Names
<1>6. ASSUME identifier = name, account[Len(account)] = host
      PROVE  account = Append(name, host)
  <2>1. Len(Append(name, host)) = Len(account)
    BY <1>1, <1>4, <1>6 DEF Names
  <2>2. \A i \in 1 .. Len(account) : Append(name, host)[i] = account[i]
    BY <1>1, <1>4, <1>6 DEF Names
  <2>3. Append(name, host) \in Seq(Parts)
    BY DEF Names
  <2> QED BY <2>1, <2>2, <2>3 DEF Names
<1> QED BY <1>3, <1>5, <1>6

(* Feder's own Accept header is one that ActivityPub is served for.          *)
LEMMA OwnIsServed ==
  ASSUME header = OwnAccept, NegotiationInv
  PROVE  accepts_activitypub
<1>1. header \in Seq(Ranges) /\ 1 \in DOMAIN header
  BY OwnAssumption
<1>2. \A i \in DOMAIN header :
        header[i].parses /\ header[i].kind = "activitypub" /\ header[i].q = None
  BY OwnAssumption
<1>3. Takes(header[1], "activitypub")
  BY <1>1, <1>2 DEF Takes, Weight
<1>4. \A j \in DOMAIN header : ~ Takes(header[j], "html")
  BY <1>2 DEF Takes
<1> QED BY <1>1, <1>3, <1>4, ServesPreferred DEF ServesWhatIsPreferred

LEMMA InitInv == Init => Inv
<1> SUFFICES ASSUME Init PROVE Inv OBVIOUS
<1>1. TypeOK
  BY DEF Init, InitNegotiation, NoPreference, TypeOK, Stages
<1>2. NegotiationInv
  BY NegotiationInit DEF Init
<1>3. StageInv /\ HandleLeadsToActor
  BY DEF Init, StageInv, HandleLeadsToActor
<1> QED BY <1>1, <1>2, <1>3 DEF Inv

(* The answers of the two handlers that lead to an actor.                    *)
LEMMA ActorAnswer ==
  ASSUME Inv, actor
  PROVE  /\ request.route = "actor"
         /\ header = OwnAccept =>
              \A a \in Actors : NameOf[a] = request.name => response' = Answer(200, a)
<1>1. request.route = "actor"
  BY DEF Inv, StageInv, actor
<1>2. ASSUME header = OwnAccept, NEW a \in Actors, NameOf[a] = request.name
      PROVE  response' = Answer(200, a)
  <2>1. accepts_activitypub
    BY <1>2, OwnIsServed DEF Inv
  <2>2. get_actor(request.name) = a /\ a # None
    BY <1>2, GetActor, NameAssumption
  <2> QED BY <2>1, <2>2 DEF actor, Respond
<1> QED BY <1>1, <1>2

LEMMA WebfingerAnswer ==
  ASSUME Inv, webfinger
  PROVE  /\ request.route = "webfinger"
         /\ \A a \in Actors : response' = Answer(200, a) <=> IsHandle(request.resource, a)
<1>1. request.route = "webfinger" /\ request \in Requests
  BY DEF Inv, TypeOK, StageInv, Stages, webfinger
<1> SUFFICES ASSUME NEW a \in Actors
             PROVE  response' = Answer(200, a) <=> IsHandle(request.resource, a)
  BY <1>1
<1> DEFINE resource == request.resource
           parts == resource.account
           host == parts[Len(parts)]
           identifier == SubSeq(parts, 1, Len(parts) - 1)
           well_formed == resource.acct /\ Len(parts) >= 2 /\ identifier # <<Empty>> /\ host # Empty
<1>2. response' = IF resource = None \/ ~ well_formed THEN Answer(400, None)
                  ELSE IF Fold[host] # Fold[handle_host] \/ get_actor(identifier) = None
                    THEN Answer(404, None)
                  ELSE Answer(200, get_actor(identifier))
  BY DEF webfinger, Respond
<1>3. a # None /\ NameOf[a] \in Names /\ NameOf[a] # <<>> /\ NameOf[a] # <<Empty>>
  BY NameAssumption
<1>4. Answer(400, None) # Answer(200, a) /\ Answer(404, None) # Answer(200, a)
  BY DEF Answer
<1>5. CASE resource = None
  BY <1>2, <1>4, <1>5 DEF IsHandle
<1>6. CASE resource # None
  <2>1. parts \in Names /\ parts # <<>> /\ resource.acct \in BOOLEAN
    BY <1>1, <1>6, RequestAssumption
  <2>2. IsHandle(resource, a) <=>
          resource.acct /\ Fold[host] = Fold[handle_host] /\ identifier = NameOf[a]
    <3>1. host \in Parts
      BY <2>1 DEF Names
    <3>2. \A h \in Parts : parts = Append(NameOf[a], h) <=> identifier = NameOf[a] /\ host = h
      BY <1>3, <2>1, LastAt
    <3> QED BY <1>6, <3>1, <3>2 DEF IsHandle
  <2>3. Fold[host] = Fold[handle_host] => host # Empty
    <3>1. host \in Parts
      BY <2>1 DEF Names
    <3> QED BY <3>1, NameAssumption
  <2>4. identifier = NameOf[a] => Len(parts) >= 2
    <3>1. Len(parts) \in Nat /\ Len(parts) # 0
      BY <2>1 DEF Names
    <3>2. Len(parts) = 1 => identifier = <<>>
      BY <2>1 DEF Names
    <3> QED BY <1>3, <3>1, <3>2
  <2>5. get_actor(identifier) = a <=> NameOf[a] = identifier
    BY GetActor
  <2>6. \A b : Answer(200, b) = Answer(200, a) <=> b = a
    BY DEF Answer
  <2> HIDE DEF parts, host, identifier
  <2> QED BY <1>2, <1>3, <1>4, <1>6, <2>2, <2>3, <2>4, <2>5, <2>6
<1> QED BY <1>5, <1>6

LEMMA ReceiveRangeInv ==
  ASSUME Inv, NEW range \in Ranges, ReceiveRange(range)
  PROVE  Inv'
<1>1. /\ header \in Seq(Ranges) /\ order \in 0 .. Len(header) /\ order \in Nat
      /\ best \in [Kinds -> [quality : 1 .. 1000, order : Nat] \cup {None}]
  BY DEF Inv, TypeOK
<1>2. NegotiationInv'
  BY <1>1, NegotiationStep DEF Inv, ReceiveRange
<1>3. best' \in [Kinds -> [quality : 1 .. 1000, order : Nat] \cup {None}]
  <2>1. CASE counts(range)
    <3>1. range.kind \in Kinds /\ quality(range) \in 1 .. 1000
      BY <2>1, CountsIsTakes DEF counts
    <3>2. PICK candidate : candidate = [quality |-> quality(range), order |-> order]
      OBVIOUS
    <3>3. candidate \in [quality : 1 .. 1000, order : Nat]
      BY <1>1, <3>1, <3>2
    <3>4. best' = [best EXCEPT ![range.kind] = better(best[range.kind], candidate)]
      BY <2>1, <3>2 DEF ReceiveRange, ReadRange
    <3>5. better(best[range.kind], candidate) \in {best[range.kind], candidate}
      BY DEF better
    <3>6. PICK value : value = better(best[range.kind], candidate)
      OBVIOUS
    <3>7. PICK P : P = [quality : 1 .. 1000, order : Nat] \cup {None}
      OBVIOUS
    <3>8. best \in [Kinds -> P] /\ candidate \in P
      BY <1>1, <3>3, <3>7
    <3>9. value = best[range.kind] \/ value = candidate
      BY <3>5, <3>6, Zenon
    <3>10. best' \in [Kinds -> P]
      BY <3>1, <3>4, <3>6, <3>8, <3>9
    <3> QED BY <3>7, <3>10
  <2>2. CASE ~ counts(range)
    BY <1>1, <2>2 DEF ReceiveRange, ReadRange
  <2> QED BY <2>1, <2>2
<1>4. header' \in Seq(Ranges) /\ Len(header') = Len(header) + 1
  BY <1>1 DEF ReceiveRange, ReadRange
<1>5. order' \in 0 .. Len(header')
  BY <1>1, <1>4 DEF ReceiveRange, ReadRange
<1>6. TypeOK'
  BY <1>3, <1>4, <1>5 DEF Inv, TypeOK, ReceiveRange
<1>7. StageInv' /\ HandleLeadsToActor'
  BY DEF Inv, StageInv, HandleLeadsToActor, ReceiveRange
<1> QED BY <1>2, <1>6, <1>7 DEF Inv

(* A step that reads no range leaves the negotiation as it is, or resets it. *)
LEMMA NegotiationKept ==
  ASSUME NegotiationInv,
         \/ UNCHANGED <<header, order, best>>
         \/ header' = <<>> /\ order' = 0 /\ best' = NoPreference
  PROVE  NegotiationInv'
<1>1. CASE UNCHANGED <<header, order, best>>
  BY <1>1 DEF NegotiationInv, Positions, Keeps
<1>2. CASE header' = <<>> /\ order' = 0 /\ best' = NoPreference
  <2>1. DOMAIN header' = {}
    BY <1>2
  <2>2. Positions([i \in {} |-> 0])'
    BY <2>1 DEF Positions
  <2>3. ASSUME NEW kind \in Kinds PROVE Keeps([i \in {} |-> 0], kind)'
    BY <1>2, <2>1 DEF NoPreference, Keeps
  <2> QED BY <2>2, <2>3 DEF NegotiationInv
<1> QED BY <1>1, <1>2

(* A step that answers a request.                                            *)
LEMMA RespondInv ==
  ASSUME Inv, NEW answer, Respond(answer), request # None,
         answer.status # 500 =>
           /\ request.route = "webfinger" =>
                \A a \in Actors : answer = Answer(200, a) <=> IsHandle(request.resource, a)
           /\ request.route = "actor" /\ header = OwnAccept =>
                \A a \in Actors : NameOf[a] = request.name => answer = Answer(200, a)
  PROVE  Inv'
<1>1. TypeOK'
  BY DEF Inv, TypeOK, Respond, Stages
<1>2. NegotiationInv'
  BY NegotiationKept DEF Inv, Respond
<1>3. StageInv'
  BY DEF StageInv, Respond
<1>4. HandleLeadsToActor'
  BY DEF Respond, HandleLeadsToActor, IsHandle
<1> QED BY <1>1, <1>2, <1>3, <1>4 DEF Inv

LEMMA NextInv == Inv /\ [Next]_vars => Inv'
<1> SUFFICES ASSUME Inv, [Next]_vars PROVE Inv' OBVIOUS
<1> USE DEF Inv
<1>1. ASSUME NEW r \in Requests, Receive(r) PROVE Inv'
  <2>1. TypeOK' /\ StageInv' /\ HandleLeadsToActor'
    BY <1>1, RequestAssumption DEF Receive, TypeOK, StageInv, HandleLeadsToActor, Stages
  <2> QED BY <1>1, <2>1, NegotiationKept DEF Receive
<1>2. ASSUME NEW range \in Ranges, ReceiveRange(range) PROVE Inv'
  BY <1>2, ReceiveRangeInv
<1>3. CASE Dispatch
  <2>1. request # None /\ request \in Requests
    BY <1>3 DEF Dispatch, StageInv, TypeOK, Stages
  <2>2. request.route \in {"actor", "followers", "note", "webfinger"}
    BY <2>1, RequestAssumption
  <2>3. TypeOK' /\ StageInv' /\ HandleLeadsToActor'
    BY <1>3, <2>1, <2>2 DEF Dispatch, TypeOK, StageInv, HandleLeadsToActor, Stages
  <2> QED BY <1>3, <2>3, NegotiationKept DEF Dispatch
<1>4. CASE Fail
  BY <1>4, RespondInv DEF Fail, Answer, StageInv, Stages
<1>5. CASE actor
  <2>1. PICK answer : Respond(answer) /\ answer = response'
    BY <1>5 DEF actor, Respond
  <2>2. request # None /\ request.route = "actor"
    BY <1>5 DEF actor, StageInv, Stages
  <2> QED BY <1>5, <2>1, <2>2, ActorAnswer, RespondInv
<1>6. CASE webfinger
  <2>1. PICK answer : Respond(answer) /\ answer = response'
    BY <1>6 DEF webfinger, Respond
  <2>2. request # None /\ request.route = "webfinger"
    BY <1>6 DEF webfinger, StageInv, Stages
  <2> QED BY <1>6, <2>1, <2>2, WebfingerAnswer, RespondInv
<1>7. CASE followers_lookup
  <2>1. request # None /\ request.route = "followers"
    BY <1>7 DEF followers_lookup, StageInv, Stages
  <2>2. CASE \E status \in {404, 406} : Respond(Answer(status, None))
    BY <2>1, <2>2, RespondInv
  <2>3. CASE stage' = "list" /\ UNCHANGED <<header, order, best, request, response, objects, followers>>
    BY <2>1, <2>3, NegotiationKept DEF TypeOK, StageInv, HandleLeadsToActor, Stages
  <2> QED BY <1>7, <2>2, <2>3 DEF followers_lookup
<1>8. CASE followers_list
  <2>1. request # None /\ request.route = "followers"
    BY <1>8 DEF followers_list, StageInv, Stages
  <2>2. PICK answer : Respond(answer)
    BY <1>8 DEF followers_list
  <2> QED BY <2>1, <2>2, RespondInv
<1>9. CASE note_lookup
  <2>1. request # None /\ request.route = "note"
    BY <1>9 DEF note_lookup, StageInv, Stages
  <2>2. CASE Respond(Answer(404, None))
    BY <2>1, <2>2, RespondInv
  <2>3. CASE stage' = "load" /\ UNCHANGED <<header, order, best, request, response, objects, followers>>
    BY <2>1, <2>3, NegotiationKept DEF TypeOK, StageInv, HandleLeadsToActor, Stages
  <2> QED BY <1>9, <2>2, <2>3 DEF note_lookup
<1>10. CASE note_load
  <2>1. request # None /\ request.route = "note"
    BY <1>10 DEF note_load, StageInv, Stages
  <2>2. PICK answer : Respond(answer)
    BY <1>10 DEF note_load
  <2> QED BY <2>1, <2>2, RespondInv
<1>11. CASE End
  BY <1>11, NegotiationKept DEF End, TypeOK, StageInv, HandleLeadsToActor, Stages, NoPreference
<1>12. ASSUME NEW id \in Notes, NEW audience \in {"public", "private"}, StoreNote(id, audience)
       PROVE  Inv'
  <2>1. objects' \in [Notes -> {"public", "private", None}]
    BY <1>12 DEF StoreNote, TypeOK
  <2> QED BY <1>12, <2>1, NegotiationKept
       DEF StoreNote, TypeOK, StageInv, HandleLeadsToActor, IsHandle
<1>13. ASSUME NEW row \in Followers \X Actors, ChangeFollowers(row) PROVE Inv'
  BY <1>13, NegotiationKept DEF ChangeFollowers, TypeOK, StageInv, HandleLeadsToActor, IsHandle
<1>14. CASE UNCHANGED vars
  BY <1>14, NegotiationKept DEF vars, TypeOK, StageInv, HandleLeadsToActor, IsHandle
<1> QED BY <1>1, <1>2, <1>3, <1>4, <1>5, <1>6, <1>7, <1>8, <1>9, <1>10, <1>11, <1>12, <1>13,
           <1>14 DEF Next

THEOREM Invariance == Spec => []Inv
BY InitInv, NextInv, PTL DEF Spec

(* Every variable is what it says; no quality is above 1, or 0.             *)
THEOREM TypeCorrect == Spec => []TypeOK
<1>1. Inv => TypeOK
  BY DEF Inv
<1> QED BY <1>1, Invariance, PTL

(* For every Accept header, of any length, ActivityPub is served just when  *)
(* some range takes it that outweighs, or at the same weight precedes,      *)
(* every range that takes HTML.                                             *)
THEOREM Serves == Spec => []ServesWhatIsPreferred
<1>1. Inv => ServesWhatIsPreferred
  BY ServesPreferred DEF Inv, TypeOK
<1> QED BY <1>1, Invariance, PTL

(* A handle leads to the actor of its name, and the actor's document to     *)
(* whoever asks with Feder's own Accept header.                             *)
THEOREM Discovery == Spec => []HandleLeadsToActor
<1>1. Inv => HandleLeadsToActor
  BY DEF Inv
<1> QED BY <1>1, Invariance, PTL

(* A note that is not public is answered as one that does not exist, and no *)
(* follower is named for an actor it does not follow.                       *)
THEOREM Discretion == Spec => TellsNoMore
<1>1. Inv /\ [Next]_vars => [TellsOnlyThat]_vars
  <2> SUFFICES ASSUME Inv, Next PROVE TellsOnlyThat
    BY DEF vars, TellsOnlyThat
  <2>1. CASE note_load
    <3>1. request.route = "note" /\ request \in Requests
      BY <2>1 DEF Inv, TypeOK, StageInv, Stages, note_load
    <3>2. request.segment \in Segments
      BY <3>1, RequestAssumption
    <3>3. ASSUME load_note(note_id) = "public"
          PROVE  /\ note_id \in Notes /\ objects[note_id] = "public"
                 /\ NameOf[note_id[1]] = request.name
                 /\ Decode[note_id[2]] = Decode[request.segment]
      <4>1. note_id \in Notes /\ objects[note_id] = "public"
        BY <3>3, NameAssumption DEF load_note
      <4>2. get_actor(request.name) \in Actors
        BY <4>1, SegmentAssumption DEF note_id
      <4> QED BY <3>2, <4>1, <4>2, GetActor, SegmentAssumption DEF note_id
    <3>4. CASE load_note(note_id) = "public"
      <4>1. response'.document \in {note_id, None}
        BY <2>1, <3>4 DEF note_load, Respond, Answer
      <4> QED BY <3>1, <3>3, <3>4, <4>1 DEF TellsOnlyThat
    <3>5. CASE load_note(note_id) # "public"
      BY <2>1, <3>1, <3>5 DEF note_load, Respond, Answer, TellsOnlyThat
    <3> QED BY <3>4, <3>5
  <2>2. CASE followers_list
    <3>1. request.route = "followers"
      BY <2>2 DEF Inv, StageInv, followers_list
    <3>2. ASSUME response'.status = 200, NEW f \in response'.document.items
          PROVE  \E a \in Actors : NameOf[a] = request.name /\ <<f, a>> \in followers
      <4>1. PICK a : a = get_actor(request.name)
        OBVIOUS
      <4>2. a \in Listed /\ response'.document.items = list_followers(followers, a)
        BY <2>2, <3>2, <4>1 DEF followers_list, Respond, Answer
      <4>3. a \in Actors /\ NameOf[a] = request.name
        BY <4>1, <4>2, NameAssumption, GetActor
      <4>4. followers \subseteq Followers \X Actors
        BY DEF Inv, TypeOK
      <4>5. <<f, a>> \in followers
        BY <3>2, <4>2, <4>4 DEF list_followers
      <4> QED BY <4>3, <4>5
    <3> QED BY <3>1, <3>2 DEF TellsOnlyThat
  <2>3. CASE note_lookup \/ followers_lookup
    BY <2>3 DEF note_lookup, followers_lookup, Respond, Answer, Inv, StageInv, TellsOnlyThat
  <2>4. CASE actor \/ webfinger
    BY <2>4 DEF actor, webfinger, Respond, Inv, StageInv, TellsOnlyThat
  <2>5. CASE Fail
    BY <2>5 DEF Fail, Respond, Answer, TellsOnlyThat
  <2>6. CASE \/ \E r \in Requests : Receive(r)
             \/ \E range \in Ranges : ReceiveRange(range)
             \/ Dispatch
             \/ End
             \/ \E id \in Notes, audience \in {"public", "private"} : StoreNote(id, audience)
             \/ \E row \in Followers \X Actors : ChangeFollowers(row)
    BY <2>6 DEF Receive, ReceiveRange, Dispatch, End, StoreNote, ChangeFollowers, TellsOnlyThat
  <2> QED BY <2>1, <2>2, <2>3, <2>4, <2>5, <2>6 DEF Next
<1> QED BY <1>1, Invariance, PTL DEF Spec, TellsNoMore
==============================================================================
