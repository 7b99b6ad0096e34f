--------------------------- MODULE KeyProvisioning ---------------------------
(***************************************************************************)
(* The keys table and the server processes that share its database: each   *)
(* provisions its actor's key pair when it starts, publishes it in the     *)
(* actor document it then serves, and signs with the pair it loads anew    *)
(* for each delivery.                                                      *)
(*                                                                         *)
(* A key pair is a model value: a private key and its public key.  The     *)
(* steps are the statements run on the database, which SQLite serialises   *)
(* between processes; key generation takes place in between.               *)
(***************************************************************************)

CONSTANTS
  Actors,
  KeyPairs,  \* key pairs that are generated or imported
  Servers,   \* server processes
  NoKey      \* no row in keys

\* A missing key pair is not a key pair.
ASSUME NoKeyAssumption == NoKey \notin KeyPairs

VARIABLES
  keys,    \* table keys, a function on its primary key
  server,  \* the processes
  used     \* history: <<actor, key pair>> published or signed with

vars == <<keys, server, used>>

\* `generated' is the pair load_or_insert_actor_key_pair works on, `published'
\* the one in the actor document, `signing' the one loaded for a delivery.
ServerStates ==
  [pc        : {"down", "generate", "insert", "reload", "serving", "sending"},
   actor     : Actors \cup {NoKey},
   generated : KeyPairs \cup {NoKey},
   published : KeyPairs \cup {NoKey},
   signing   : KeyPairs \cup {NoKey}]

Down == [pc |-> "down", actor |-> NoKey, generated |-> NoKey,
         published |-> NoKey, signing |-> NoKey]

Init ==
  /\ keys = [a \in Actors |-> NoKey]
  /\ server = [s \in Servers |-> Down]
  /\ used = {}

------------------------------------------------------------------------------
(* Statements on the keys table *)

\* INSERT OR REPLACE, as an import that refreshes the identity would do.
insert_actor_key_pair_Replace(table, a, k) == [table EXCEPT ![a] = k]

\* The columns are filled without the private key: no key pair can be read back.
insert_actor_key_pair_Public(table, a, k) ==
  IF table[a] = NoKey THEN [table EXCEPT ![a] = <<k>>] ELSE table

\* A plain INSERT; on an actor that has a row it fails and changes nothing.
insert_actor_key_pair(table, a, k) ==
  IF table[a] = NoKey THEN [table EXCEPT ![a] = k] ELSE table

\* INSERT ... ON CONFLICT(actor_id) DO UPDATE.
insert_generated_Update(table, a, k) == [table EXCEPT ![a] = k]

\* INSERT ... ON CONFLICT(actor_id) DO NOTHING.
insert_generated(table, a, k) ==
  IF table[a] = NoKey THEN [table EXCEPT ![a] = k] ELSE table

------------------------------------------------------------------------------
(* A process provisions its key pair: load_or_insert_actor_key_pair *)

\* What a process does with the key pair it was given: it serves a document.
Serve(s, a, k) ==
  /\ server' = [server EXCEPT ![s] =
                  [Down EXCEPT !.pc = "serving", !.actor = a, !.published = k]]
  /\ used' = used \cup {<<a, k>>}

\* The first lookup finds the actor's key pair...
StartKnown(s, a) ==
  /\ server[s].pc = "down"
  /\ keys[a] # NoKey
  /\ Serve(s, a, keys[a])
  /\ UNCHANGED keys

\* ... or it does not, and the lock is released.
StartUnknown(s, a) ==
  /\ server[s].pc = "down"
  /\ keys[a] = NoKey
  /\ server' = [server EXCEPT ![s] = [Down EXCEPT !.pc = "generate", !.actor = a]]
  /\ UNCHANGED <<keys, used>>

Generate(s, k) ==
  /\ server[s].pc = "generate"
  /\ server' = [server EXCEPT ![s].pc = "insert", ![s].generated = k]
  /\ UNCHANGED <<keys, used>>

\* The pair just generated is returned whether or not it was inserted.
Insert_ReturnGenerated(s) ==
  LET a == server[s].actor
      k == server[s].generated
  IN  /\ server[s].pc = "insert"
      /\ keys' = insert_generated(keys, a, k)
      /\ Serve(s, a, k)

\* One row was inserted: the generated pair is the identity.  No row was: the
\* one inserted by another process has to be read.
Insert(s) ==
  LET a == server[s].actor
      k == server[s].generated
  IN  /\ server[s].pc = "insert"
      /\ keys' = insert_generated(keys, a, k)
      /\ IF keys[a] = NoKey
           THEN Serve(s, a, k)
           ELSE /\ server' = [server EXCEPT ![s].pc = "reload"]
                /\ UNCHANGED used

Reload(s) ==
  LET a == server[s].actor
  IN  /\ server[s].pc = "reload"
      /\ keys[a] # NoKey
      /\ Serve(s, a, keys[a])
      /\ UNCHANGED keys

\* An application stores a key pair of its own.
Import(a, k) ==
  /\ keys' = insert_actor_key_pair(keys, a, k)
  /\ UNCHANGED <<server, used>>

------------------------------------------------------------------------------
(* A process that serves signs its deliveries *)

\* load_actor_key_pair, by follow_actor, create_note or the Follow handler.
LoadKey(s) ==
  /\ server[s].pc = "serving"
  /\ keys[server[s].actor] # NoKey
  /\ server' = [server EXCEPT ![s].pc = "sending", ![s].signing = keys[server[s].actor]]
  /\ UNCHANGED <<keys, used>>

\* send_activity refuses a pair that is not the published one.
Sign(s) ==
  /\ server[s].pc = "sending"
  /\ server[s].signing = server[s].published
  /\ server' = [server EXCEPT ![s].pc = "serving", ![s].signing = NoKey]
  /\ used' = used \cup {<<server[s].actor, server[s].signing>>}
  /\ UNCHANGED keys

\* A process fails or stops, at any point; the database stays.
Stop(s) ==
  /\ server[s].pc # "down"
  /\ server' = [server EXCEPT ![s] = Down]
  /\ UNCHANGED <<keys, used>>

Next ==
  \/ \E s \in Servers :
       \/ \E a \in Actors : StartKnown(s, a) \/ StartUnknown(s, a)
       \/ \E k \in KeyPairs : Generate(s, k)
       \/ Insert(s)
       \/ Reload(s)
       \/ LoadKey(s)
       \/ Sign(s)
       \/ Stop(s)
  \/ \E a \in Actors, k \in KeyPairs : Import(a, k)

Spec == Init /\ [][Next]_vars

------------------------------------------------------------------------------
(* Properties *)

TypeOK ==
  /\ keys \in [Actors -> KeyPairs \cup {NoKey}]
  /\ server \in [Servers -> ServerStates]
  /\ used \subseteq Actors \X KeyPairs

\* Every signature an actor ever made verifies under every document any process
\* ever published for it, across restarts and however their provisioning was
\* interleaved (load_or_generate_actor_key_pair, local_actor, send_activity).
EverySignatureVerifies ==
  \A u, v \in used : u[1] = v[1] => u[2] = v[2]

\* No delivery fails with ActorKeyMismatch, and no provisioning ends in
\* ActorKeyProvisioning: what a process finds in the table is what it published,
\* and a lost race leaves a row to read.
ProcessesAgreeWithTable ==
  \A s \in Servers :
    /\ server[s].pc = "sending" => server[s].signing = server[s].published
    /\ server[s].pc = "reload" => keys[server[s].actor] # NoKey

\* Concurrent provisioners keep the first key pair inserted for the actor; an
\* existing identity is never replaced.
Identity == INSTANCE SigningIdentity WITH identity <- keys

ImplementsIdentity == Identity!Spec
==============================================================================
