----------------------------- MODULE MCEndpoints -----------------------------
(***************************************************************************)
(* A small instance of Endpoints: two actors, alice and alice@home, one    *)
(* note of each audience, and Accept headers of up to three ranges.        *)
(***************************************************************************)
EXTENDS Endpoints

CONSTANTS empty, alice, home, server, SERVER, \* parts of names
          one, two,                       \* actors
          plain, escaped, text,           \* two spellings of a text in a path
          rita

Text(whole, fraction) == [whole |-> whole, fraction |-> fraction]

\* 0, 0.5, 0.05, 1.0 and two malformed ones; or no q at all.  Below also one
\* that has something else than a digit.
MCTexts ==
  {Text("0", <<>>), Text("0", <<5>>), Text("0", <<0, 5>>), Text("1", <<0>>),
   Text("1", <<5>>), Text("0", <<0, 0, 0, 5>>)}

Range(kind, q) == [parses |-> TRUE, kind |-> kind, q |-> q]

MCRanges ==
  [parses : {TRUE}, kind : {"activitypub", "html"}, q : MCTexts \cup {None}] \cup
  {Range("activitypub", Text("0", <<10>>)),
   Range("other", None),
   [Range("other", None) EXCEPT !.parses = FALSE]}

MCParts == {empty, alice, home, server, SERVER}

MCFold == [p \in MCParts |-> IF p = SERVER THEN server ELSE p]

MCNameOf == [a \in {one, two} |-> IF a = one THEN <<alice>> ELSE <<alice, home>>]

Resource(account) == [acct |-> TRUE, account |-> account]

MCRequests ==
  [route : {"actor", "followers"}, name : {<<alice>>, <<home>>}] \cup
  [route : {"followers"}, name : {<<alice, home>>}] \cup
  [route : {"note"}, name : {<<alice>>, <<home>>}, segment : {plain, escaped}] \cup
  [route : {"webfinger"},
   resource : {None, [Resource(<<alice, server>>) EXCEPT !.acct = FALSE]} \cup
     {Resource(account) :
        account \in {<<alice>>, <<empty, server>>, <<alice, empty>>, <<alice, home>>,
                     <<alice, SERVER>>, <<alice, home, server>>, <<home, server>>}}]

MCDecode == [s \in {plain, escaped} |-> text]
MCEncode == [t \in {text} |-> plain]
MCNotes == {<<one, plain>>}

MCOwnAccept == <<Range("activitypub", None), Range("activitypub", None)>>
==============================================================================
