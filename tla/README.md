# A formal model of Feder

Feder is a Rust toolkit for ActivityPub servers: `feder-vocab` (the vocabulary and its
JSON), `feder-core` (pure protocol decisions: what a Follow, an Accept, an Undo, a Note
and a signature mean) and `feder-server` (axum handlers, outbound operations, a SQLite
store, the HTTP client). These modules model the parts where several actors meet: remote
servers that repeat, reorder and forge requests, an application that retries its
operations, handlers that run concurrently on one database, processes that crash.

TLC checks small instances of the models; TLAPS proves the safety properties for every
value of the constants.

## Inventory

| Component | Code (`src/`) | State | Operations | Modules |
|---|---|---|---|---|
| Protocol decisions | `crates/feder-core/src/follow.rs`, `undo.rs` | none | `create_follow`, `receive_follow`, `receive_accept_follow`, `receive_undo_follow` | `FederCore` |
| Store | `crates/feder-server/src/storage/sqlite.rs` | `followers`, `outbound_follows`, `objects` | `store_follower`, `remove_follower`, `list_followers`, `list_follower_delivery_targets`, `store_note`, `load_note`, `store_pending_follow`, `load_pending_follow`, `confirm_pending_follow` | `SqliteStore`, `Endpoints` |
| Inbox | `crates/feder-server/src/inbox.rs` | the handlers in progress | `personal_inbox`, `shared_inbox`, `receive_activity` | `FederServer`, `FollowerList`, `OrderlySenders` |
| Outbound follow | `crates/feder-server/src/follow.rs` | the calls in progress | `follow_actor` | `FederServer`, `FollowRelationships` |
| Two servers together | `inbox.rs`, `follow.rs` at either end | both databases, the mail | all of the above | `Federation`, `FollowHandshake` |
| Request authentication | `inbox.rs`, `crates/feder-core/src/key.rs` | the verifications in progress | `verify_signed_request`, signing and verifying | `RequestVerification`, `SignedMail` |
| Key provisioning and signing | `sqlite.rs`, `send.rs`, `key.rs`, `examples/single-user-server/src/main.rs` | `keys`, the published documents | `load_or_generate_actor_key_pair`, `insert_actor_key_pair`, `load_actor_key_pair`, `send_activity` | `KeyProvisioning`, `SigningIdentity` |
| Note creation and delivery | `crates/feder-server/src/note.rs`, `crates/feder-core/src/note.rs` | `objects`, deliveries | `create_note`, `resolve_note_recipients` | `NoteDelivery` |
| Resolver, sender, address policy | `crates/feder-server/src/actor.rs`, `send.rs`, `url.rs` | the requests in progress, open connections | `fetch_document`, `resolve`, `resolve_key`, `send_activity`, `validate_public_address` | `OutboundRequests` |
| Content negotiation | `negotiation.rs` | none | `accepts_activitypub`, `parse_quality` | `Negotiation` |
| Actor, followers, object and WebFinger endpoints | `actor.rs`, `followers.rs`, `object.rs`, `webfinger.rs`, the routes in `lib.rs` | reads `followers`, `objects` | `GET` requests | `Endpoints`, `NoteDelivery` |
| Vocabulary | `crates/feder-vocab/src/lib.rs` | none | serde | records of `FederCore` |
| Construction, configuration | `lib.rs`, `config.rs` | none | builders | not modelled |

How they interact. A request reaches a handler; the handler looks up an actor with the
application's dispatcher, authenticates the request by fetching the signer's key and
document from its server, asks the core for a decision, applies it with one or two storage
calls, and may post an activity to the remote inbox. `follow_actor` goes the other way:
it fetches the remote document, stores the pending relationship, posts the Follow and
leaves the rest to an Accept that arrives, perhaps before the post has returned, at one of
the inboxes. The store is one SQLite connection behind a mutex held for a single storage
call, and one database file that several processes may open.

What is hard. A handler awaits network calls between its reads and its writes, so what it
has read may be stale; a sender repeats, and a signed request stays valid for the whole
signature age; a delivery may have had its effect although it is reported as failed; a
hung-up client drops a handler at any await; the process may stop between two storage
calls. `PROJECT.json` lists these hazards at their lines, and the properties below are
aimed at them.

## The modules

**`FederCore`** holds the core's decisions as pure operators. An IRI is a model value; an
actor document is an id and the version of everything else in it, so that *same actor* and
*same document* can differ, as they do in the code. The error kinds are one: failure.

**`SqliteStore`** holds each storage call as a function on a table, with the upsert
clauses and `WHERE` conditions of its SQL.

**`FederServer`** composes the two. A task is one inbox request or one call of
`follow_actor`, and is cut at each await and each storage call. `task[t].pc` names the
next piece; the other fields are its local variables.

| Action | Code | What can come between it and the next |
|---|---|---|
| `ReceivePersonal`, `ReceiveShared` | the head of the two inbox handlers; the shared inbox finds its actor by the object of the Follow, or by the pending Follow that an Accept names, and keeps that row | fetching keys and documents |
| `Authenticate` | `verify_signed_request`, or `resolve_actor_reference` when unsigned requests are allowed | other tasks' storage calls |
| `MatchAccept`, `ConfirmPending` | the Accept branch: load unless the shared inbox did, `receive_accept_follow`, `confirm_pending_follow` | a retry that overwrites the row |
| `RemoveFollower` | the Undo branch | |
| `StoreFollower`, `SendAccept` | the Follow branch: store, then load the key and post the Accept | a crash, a missing key, a failed post |
| `BeginFollow`, `ResolveTarget`, `StorePending`, `SendFollow` | `follow_actor` | the Accept itself |
| `End`, `Crash` | a failure or a dropped future; a restart on the same file | |
| `Republish` | the remote document changes | |

A post and the wait for its answer are one action: the activity is with the remote server
whether or not the answer arrives, and that answer decides only the status reported. That
a delivery fails before it reaches the server is `End` in the place of the post.
`heard` and `wire` are history variables: what was authenticated, what was delivered.

**`FollowRelationships`** is the promise behind it: a Follow is proposed, consented to by
its remote actor, established, and then final. `FederServer` implements it with
`relation <- outbound` and the authenticated Accepts as consents.

**`FollowerList`** is the promise of the other direction, to those who follow local actors: a
follower is listed once it has asked, struck off once it has undone its Follow, and answered
only if it asked and while it is listed or has undone. `FederServer` implements it with
the authentic Follows and Undos in `heard`, the pairs in `followers` and the Accepts on
`wire`; whose document is stored with a pair is `FreshRow`'s subject and left out here.

**`KeyProvisioning`** models processes that share a database. Each looks for its actor's
key pair, generates one when there is none, inserts it `ON CONFLICT DO NOTHING`, reads
the winner's when it lost, publishes what it was given and signs with the pair it loads
anew for each delivery. **`SigningIdentity`** is the write-once identity that implements.

**`OrderlySenders`** is `FederServer` among senders that wait for one answer before they
post the next Follow or Undo of the same pair. Handlers that run at one time for one pair
may store a Follow after the Undo that was posted later, and nothing in the code prevents
it; a sender that waits is what makes "the last word" a meaningful thing to ask for. Its
history variables are `done`, what each pair's last word was once it has been handled, and
`since`, the documents its actor has published meanwhile.

**`Federation`** joins two instances of `FederServer`. What one server posts is in `mail`
until it is lost, and arrives any number of times in any order; a request that carries an
actor's signature arrives only if that actor's server has posted it. This code sends no
Undo, so none that is genuine arrives here; `OrderlySenders` is where they do.

**`FollowHandshake`** is what the two promise together: recorded, posted, listed, answered,
accepted, each stage only after the one before it (`InOrder`), with nobody dropped. It knows
of no mail and no tasks. `Federation` implements it twice, once per direction (`AtoB`,
`BtoA`), with one server's `outbound` and posted Follows, and the other's `followers` and
posted Accepts.

**`RequestVerification`** opens the step `Authenticate` up. Keys, key documents and actor
documents are what their servers publish at each moment; a signature is a key and the text
it was put to; and what arrives is *any* request under *any* signature made so far, so that
delaying, repeating, redirecting and changing a request need no actions of their own.

| Action | Code |
|---|---|
| `send_activity`, `Write` | the code's own sender; any other sender, with its own key |
| `PublishActor`, `PublishKey` | rotation of embedded, linked and separately served keys |
| `Receive` | headers, `Host`, `Date` and `Digest`, up to the first await |
| `FetchKey` | `resolve_key`, the key's owner, the signature |
| `FetchActor` | `resolve`, `actor_owns_key` |
| `FetchFails`, `End`, `Tick` | 502; the answer; time, which no fetch outlasts by more than `Timeout` |

**`SignedMail`** is what it implements: only what the owner of a key wrote, to this inbox,
is taken, and only within a window of time.

**`OutboundRequests`** models a request of the resolver or the sender from its URL to its
result: `Begin`, `Lookup`, `Connect` or `Reuse` of an open connection, `Respond` with the head
of the response, `ReadChunk`, `Complete`, and `Expire` for the client's timeout. What a name
resolves to and what a peer answers is chosen anew every time. The code has two clients,
one in the resolver and one in the sender, built by one function with one policy;
one `pool` stands for both.

**`Negotiation`** reads an Accept header range by range, as `enumerate`, `filter_map` and
`reduce` do, so that what the code computes by folds is a state machine with an invariant.
**`Endpoints`** continues it with the handlers, cut at their storage calls. The code reads
the header inside the handler; it is a pure function of the request, so reading it first
changes nothing, and the handlers use its result where the code calls it. The application's
dispatcher is assumed to know each actor by one name.

**`NoteDelivery`** models `create_note` and the object endpoint. A task is one call:

| Action | Code | What can come between it and the next |
|---|---|---|
| `Begin`, `StoreNote` | `create_note` of the core; `store_note`, an upsert by id | a note of the same id; a crash |
| `ListFollowers` | the first loop of `resolve_note_recipients` | followers join, leave, change their documents |
| `ResolveRecipient` | one turn of its second loop, for an addressed actor that is not a listed follower | the same |
| `LoadKey` | return if there is nothing to post, else load the author's key | |
| `SendNext` | one turn of the delivery loop: delivered; failed before or after it reached the inbox | |
| `Finish` | a failed delivery is reported before a failed resolution, and either before Ok | |
| `End`, `Crash` | a storage failure, a dropped future, the return to the caller; a restart | |
| `Join`, `Leave` | what the inbox handlers do to `followers` (their `store_follower`, `remove_follower`) | |
| `Serve` | `GET /users/{identifier}/posts/{id}` | |

Recipients and inboxes are sets where the code has vectors without duplicates: their order
only decides which of several errors is kept. A resolution returns any version of a
document, because remote servers may publish another at any time. Each task carries, as
history, the inboxes it has posted to and the rows of followers that were there at some
time (`seen`) and at all times (`stayed`) of the call.

## What TLC checks

| Run | Shows |
|---|---|
| `accept_race` | Two calls of `follow_actor` use one id for two targets while Accepts arrive from either target, at either inbox, at the wrong inbox and with another actor's signature. `ConsentBacksAccepted`: each accepted row was consented to by the actor *now* in the row. `ImplementsRelationships`: established rows are final. |
| `unsigned` | Unsigned requests, whose activities embed their actor's document. `SentFollowIsRecorded`, `AcceptedFollowerIsStored`: whoever was sent an Accept is stored unless it sent an Undo; `ImplementsRelationships`; and `PersistentAcceptConfirms`: a remote actor that keeps sending its Accept gets it confirmed once the application has stopped retrying. |
| `orderly` | Follows and Undos repeated, forged, failing and losing their Accept, with documents that change. `FollowerAsked`: nobody is stored who did not ask. `LastWordStands`: after a handled Follow a follower, after a handled Undo none. `FreshRow`: the inboxes stored are at least as new as the last Follow. `ImplementsFollowerList`: no list entry and no Accept without a Follow, no removal without an Undo. |
| `lost_confirmation` | A violation, described below. |
| `mutual` | Two servers follow each other. `AcceptedOnBothSides`: an accepted row of one is a follower of the other. `FollowersAreRecorded`: every follower has a recorded Follow at its own server. `ImplementsHandshake`: in both directions, each stage of the handshake follows the one before it, step by step. |
| `retried_until_accepted` | `RetriedFollowIsAccepted`: retrying `follow_actor` succeeds, whatever single messages are lost and whoever crashes. |
| `signed_mail` | Requests changed in any part, delayed and posted elsewhere. `ImplementsSignedMail`. |
| `key_rotation` | Keys are rotated before, between and after the two fetches. `SignedByPublishedKey`: the accepted key was published while the request was handled. `GenuineIsHonoured`: what the code's sender signs with the published key is not refused. |
| `key_provisioning` | `EverySignatureVerifies`: all signatures and all published documents of an actor, by any process at any time, have one key. `ProcessesAgreeWithTable`: the two errors the code has for a disagreement are never returned. `ImplementsIdentity`. |
| `notes` | Two calls at a time of two authors, while followers come and go, a recipient cannot be resolved and deliveries fail. `OnlyTheAudience`: nobody is posted to who was neither addressed nor following the author at some time of the call. `OkMeansDelivered`: Ok hides no failure. `DeliveredIsStored`: what was received is in the store, crash or not. `EveryRecipientAttempted`: followers who stayed and every actor that could be resolved are posted to, whatever else fails. `CallsAdvance`: no call does anything twice, and nothing that others do gives it more to do; with that `EveryCallEnds`. |
| `outbound` | `OnlyPublicPeers`: no request ends at a private address, however the address was found. `OwnDocuments`: an actor or key comes from its own host. `AnswerDecides`: the result is what the answer deserves, at, below and beyond the size limit. `EveryRequestEnds`, also if a body does not. |
| `endpoints` | Every header of up to three ranges, with good and malformed q values. `ServesWhatIsPreferred`: ActivityPub is served just when RFC 9110 weighs it above HTML. `HandleLeadsToActor`: WebFinger leads to the actor of a handle and the actor's document is served to Feder itself. `TellsNoMore`: that a note exists is told only while it is public, whatever Accept header asks. |

Each run also checks its module's `TypeOK`, once per module.

**Bounds.** *`FederServer`.* Two tasks and one Follow id are enough for each race in the
hazards: each needs one task that holds a stale value and one that changes the row; a crash
or an `End` frees the slot for a third. Two document versions let a document change between
any two reads; two local and two remote actors let a row, an inbox or a signature belong to
the wrong one. The histories are sets, so nothing is counted and no bound cuts a behaviour
short.

*`Federation`.* One slot for handlers and one for calls at each end, so that each server
answers while it waits; documents change in the liveness run only, which has one direction.

*`RequestVerification`.* `MaxAge` 2, `MaxSkew` and `Timeout` 1 keep their order in the code
(65 minutes, 60 minutes, 30 seconds). In `signed_mail` the horizon lets a request be too early,
in time and too late, and one signature stands under every request that arrives; the sender
of a second key is there to sign in its place. `key_rotation` makes two signatures, with keys
of the same actor. `CHECK_DEADLOCK` is off because the clock ends at the horizon and
signatures at their bound.

*`NoteDelivery`.* Two calls run at a time; the history of a call is reset when it ends and the
tables carry over to the next, so one call finds what the one before it has left. One
follower joins and leaves, and one recipient cannot be resolved. Two calls that store
different notes under one id, and documents that change within a call, are covered by the
proofs.

*`KeyProvisioning`.* A third process can start while two race, and a third key pair can be
imported.

*`OutboundRequests`.* One request at a time: requests share the pool only, which a request
leaves to the next, and the proofs cover any number of them. Addresses have one bit (IPv4) and
two bits (IPv6, one half of which is mapped IPv4), which leaves a public and a private
address in each form; the limit is 2, and bodies are empty, exactly as long, longer and endless.

*`Endpoints`.* Three ranges are two that compete and one that comes between; fractions are
empty, of one and two digits, too long and not digits. Names have up to three parts, so that an @ can
be in a name, missing, or at either end.

Tasks, versions, processes and key pairs are symmetric in `accept_race`, `orderly` and
`key_provisioning`; the runs with a liveness property use no symmetry.

**Fairness.** Each await of a handler ends, because the HTTP client sets a timeout
(`url.rs`, `REQUEST_TIMEOUT`, 30 seconds): weak fairness of `Step(t) \/ End(t)`. For
the requests in `Persistent`, which their sender repeats for ever, strong fairness says
that no stage fails every time it is tried. Nothing is assumed of other requests, of
`follow_actor`, of crashes, nor that a crash ever stops coming. `PersistentAcceptConfirms`
requires in addition that the application stops retrying in the end: the violation below
shows that it must.

In `Federation` the application at one end retries until its Follow is accepted, and strong
fairness says that what is posted without end arrives, and is handled, without end. Of a
message that is posted once nothing is assumed: the Accept that the other end posts once per
Follow may always be lost, but the retried Follow brings another. For `create_note` the
timeout alone is assumed, weak fairness of a call's `Step`; for `OutboundRequests` the timer
itself, weak fairness of `Expire`, and nothing of names and peers.

**A disagreement.** `receive_activity` drops the result of `confirm_pending_follow`
(`inbox.rs:226`). When a retry of `follow_actor` stores a newer document of the remote actor
after the Accept's pending Follow was loaded, the comparison in the store fails, the row stays
pending, and the Accept is answered with 202 like one that was confirmed. The inbox tests
say of a valid Accept that it is answered with 202 *and* is no longer pending.
`lost_confirmation` shows the interleaving; only an Accept that is sent again repairs it.

## What is proved

For every value of the constants, that is, every number of actors, documents, tasks,
requests, keys, notes, addresses and ranges:

| Module | Theorems |
|---|---|
| `FederServerProofs` | `TypeCorrect`, `Consent`, `Recorded`, `Asked`, `Stored`, `Implementation`, `ListImplementation`, `FollowersComeAndGo` |
| `OrderlySendersProofs` | `LastWord`, `Fresh`, `OrderlyIsServer` |
| `FederationProofs` | `TypeCorrect`, `Agreement`, `Recording`, `Handshake`, `HandshakeOrder` |
| `RequestVerificationProofs` | `Typed`, `AcceptsPublishedKeys`, `HonoursGenuine`, `Refinement`, `OneSignatureOneLetter` |
| `KeyProvisioningProofs` | `TypeCorrect`, `Signatures`, `Agreement`, `IdentityImplementation` |
| `NoteDeliveryProofs` | `TypeCorrect`, `Persisted`, `Audience`, `Attempted`, `Reported`, `Forward` |
| `OutboundRequestsProofs` | `TypeCorrect`, `OnlyPublic`, `Own`, `Decides`, `PolicyIsExact`, `Forward` |
| `EndpointsProofs` | `TypeCorrect`, `Serves`, `Discovery`, `Discretion`, `QualityIsThousandths` |

The assumptions are those named in the modules: inputs have their types, `None` and `Linked`
are not values of the sets they are added to, the shared inbox is not an actor's, actors live
on one server each and have one name each, and a server publishes keys whose private half it
has (`PublicationAssumption`).

The argument for `FederServer`. None of the properties is inductive, since what a task
will write is in its local variables. `IInv` adds what each stage knows: a task past
authentication holds a document of the actor that signed its request (`AuthenticatedTask`);
one about to confirm holds an Accept that matches its copy of the row (`ConfirmingTask`);
one about to send an Accept has stored a follower that is still there or has undone its
Follow (`AcceptingTask`); one about to send a Follow has a row under its id (`RecordedTask`);
and every row and every Follow on the wire comes from an intent (`RowsIntended`, `SentInv`).
The crux is `ConfirmPending`: the copy may be stale, but the store compares it with the row,
so the row that changes is the one that was matched. Most steps only add to the histories
and keep rows; the lemmas `GrowingWithoutRemoval`, `TaskStays` and `TaskMoves` say once
what such a step leaves intact, and one lemma per action adds what it disturbs.

Two action properties follow from `IInv` and are what other proofs use of a server.
`ListStep` says what any step at all does to the followers table and to the Accepts sent,
`RelationStep` the same of `outbound_follows` and the Follows sent, each in terms of
requests that were authenticated. `ListImplementation` maps the alternatives of `ListStep` to
the actions of `FollowerList`; a step that authenticates a request maps to `Ask` or `Undo`.
`FollowersComeAndGo` says that the table changes only by single calls of `store_follower` and
`remove_follower`: that is what `NoteDelivery` takes for granted of the handlers beside it,
in `Join` and `Leave`.

The argument for `KeyProvisioning`. `KInv` adds that whatever was used, published, or
loaded for signing is the row of its actor; rows are never replaced, so all of these agree.

The argument for `NoteDelivery`. The five theorems are corollaries of one invariant, in
which each stage of a call accounts for the whole audience: every follower who has
stayed and every addressed actor is still to be resolved, still to be posted to, known
to have failed, or has been posted to (`ProgressOK`); what was posted has arrived or is
known to have failed (`DeliveryOK`); a result is what the two loops left (`ResultOK`).
`ListFollowers` is the crux, since an addressed actor may be dropped there only for its
row among the followers; `WitnessInv` shows that no change of the table invalidates
what a call believes of the past. `Forward` shows that stage, recipients left and inboxes left
descend in lexicographic order with each step of a call and never ascend. They are finite, so
that of `EveryCallEnds` only the fairness is left to TLC.

The argument for `OrderlySenders`. `OrderlyIsServer` makes the invariant of `FederServer`
available. `OneAtATime` is what waiting gives: no two tasks work on one pair, so nothing
changes the pair's row between the storage call of its task and the end of that task; all
other tasks keep the row because rows are looked up by both names.

The argument for `Federation`. `FederServerProofs` is instanced once per server, so that what
it proves of one server holds at either end, whatever the other does. `FInv` adds two facts,
that the mail holds only what was posted and that a genuine request in a handler was posted
by the other end, and the properties follow a message from the row behind it, through the
mail, to the row it makes: `AcceptedOnBothSides` from an
accepted row to the consent heard, to the Accept posted, to the follower stored before it.
`Handshake` takes `ListStep` at one server and `RelationStep` at the other. A step of
`Federation` moves at most one of the two servers (`OneMoves`); an authentic Follow heard at one
end was posted by the other, no authentic Undo is heard because none is posted, and a consent
heard was posted for that very Follow; what remains is to name the action of
`FollowHandshake`. `HandshakeOrder` is then a consequence of the abstract specification alone.

The argument for `RequestVerification`. A task between its fetches knows that the signature
verifies under the key fetched (`KeyOK`), that this key and what the actor published were
shown since the request arrived (`ShownOK`), and how much time can have passed (`TimeOK`): the
date is checked on arrival, so that a request may be accepted two timeouts later than its
window. That is why `SignedMail` has the window `MaxAge + 2 * Timeout`. The key and the actor's
document need not have been published at one instant when the key is only linked, and
`SignedByPublishedKey` does not say so. `OneSignatureOneLetter` completes the refinement for this
code's own sender. `SignedMail` lets one signature stand for several letters, because other
senders may sign a digest header of several entries or a host that is written in several
ways; `send_activity` signs `host`, `date` and `digest` with one value each, and the theorem says
that whatever passes the checks under its signature is the letter it signed, to an inbox of the
same scheme. The scheme is signed nowhere, so `http` and `https` URLs of one inbox, should a
server have both, are told apart by nobody.

The argument for `OutboundRequests`. An address is validated when it becomes a candidate,
only candidates are connected to, and only what was connected to is in the pool; so a
connection that is reused without another lookup is as safe as a new one. `PolicyIsExact`
adds that the policy refuses nothing else. `Forward` is the like of `NoteDelivery`'s: a request
passes its stages in one direction, tries each address once and reads up to the limit.

The argument for `Endpoints`. `NegotiationInv` says of each list which range of the header
`best` stands for, and that no later or earlier range beats it; `QualityIsThousandths` is the
theorem that `parse_quality` computes the value of a qvalue and refuses everything else. The
header is unbounded in the proof except by `MaxRanges`, which is any number.

Only model-checked: liveness (`PersistentAcceptConfirms`, `RetriedFollowIsAccepted`,
`EveryCallEnds`, `EveryRequestEnds`), which needs fairness and ENABLED. The two `Forward`
theorems are the parts of the last two that need neither. What `FollowersComeAndGo` proves for
`NoteDelivery` is its assumption about the followers table; that no other part of the server
writes `objects` is read off the code.

## What is not modelled

* The characters of headers, URLs and documents: the syntax of `Signature`, `Digest`, `Host`,
  `Date` and `Accept` headers, percent-encoding, JSON, PEM and RSA. A header value is what its
  parser makes of it, or a value that its parser refuses; a signature verifies under its key
  only.
* The JSON of the vocabulary: the records have the fields that decisions read.
* In content negotiation, wildcards need no case of their own: the code compares types
  literally, so that `*/*` is of neither list, as a header that is missing altogether.
* The `Vary` header, and the path segments `.` and `..`, which `push` ignores.
* Builders, configuration and axum's body limit, which keep no state of their own.
* What happens to deliveries that were outstanding at a crash: the code keeps no record of
  them, and repeating `create_note` is the application's business.
* The order in which one sender posted its requests: the handlers keep no note of it. Without
  the waiting that `OrderlySenders` assumes, a Follow that was authenticated first may be stored
  after an Undo that was posted later.
* The wiring of the example server beyond its provisioning of keys.

## Plan

1. Done: the core of follows, Accepts and Undos, and its proofs: `FederCore`, `SqliteStore`,
   `FollowRelationships`, `FederServer`; keys: `SigningIdentity`, `KeyProvisioning`; notes:
   `NoteDelivery`.
2. Done: authentication (`RequestVerification`, `SignedMail`), two servers (`Federation`),
   orderly senders (`OrderlySenders`), and their proofs.
3. Done: outbound requests (`OutboundRequests`), `GET` endpoints and negotiation (`Endpoints`,
   `Negotiation`), and their proofs.
4. Done: the abstract specifications `FollowerList` and `FollowHandshake` with their refinement
   proofs, progress of calls and requests, and the theorems about single operations
   (`OneSignatureOneLetter`, `PolicyIsExact`, `QualityIsThousandths`).
5. Open: Undos and notes between two servers, once the code posts Undos and handles Creates;
   a lemma per header parser, should one of them be modelled by its characters.
