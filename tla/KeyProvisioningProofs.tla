------------------------ MODULE KeyProvisioningProofs ------------------------
(***************************************************************************)
(* Proofs about KeyProvisioning, for every number of processes, actors and *)
(* key pairs.                                                              *)
(***************************************************************************)
EXTENDS KeyProvisioning, TLAPS

\* What a process that has reached a stage knows of the table.
ServerOK(s) ==
  LET sv == server[s]
  IN  /\ sv.pc # "down" => sv.actor \in Actors
      /\ sv.pc = "insert" => sv.generated \in KeyPairs
      /\ sv.pc = "reload" => keys[sv.actor] # NoKey
      /\ sv.pc \in {"serving", "sending"} =>
           sv.published = keys[sv.actor] /\ sv.published \in KeyPairs
      /\ sv.pc = "sending" => sv.signing = keys[sv.actor]

\* What was used is still in the table.
UsedInTable == \A u \in used : keys[u[1]] = u[2]

KInv ==
  /\ TypeOK
  /\ UsedInTable
  /\ \A s \in Servers : ServerOK(s)

\* Rows of the keys table stay as they are.
TableGrows == \A a \in Actors : keys[a] # NoKey => keys'[a] = keys[a]

\* Neither way to insert a key pair changes an existing row.
LEMMA InsertGrows ==
  ASSUME NEW table \in [Actors -> KeyPairs \cup {NoKey}], NEW a \in Actors, NEW k \in KeyPairs
  PROVE  /\ insert_generated(table, a, k) = insert_actor_key_pair(table, a, k)
         /\ insert_generated(table, a, k) \in [Actors -> KeyPairs \cup {NoKey}]
         /\ \A b \in Actors : table[b] # NoKey => insert_generated(table, a, k)[b] = table[b]
         /\ table[a] = NoKey => insert_generated(table, a, k) = [table EXCEPT ![a] = k]
         /\ table[a] # NoKey => insert_generated(table, a, k) = table
BY DEF insert_generated, insert_actor_key_pair

\* What a process knows stays true while others act.
LEMMA ServerStays ==
  ASSUME KInv, TableGrows, NEW s \in Servers, server'[s] = server[s]
  PROVE  ServerOK(s)'
BY NoKeyAssumption DEF KInv, TypeOK, TableGrows, ServerOK, ServerStates

\* A step of one process: its own part, and what it adds to the history.
LEMMA ServerMoves ==
  ASSUME KInv, TableGrows, NEW s \in Servers, NEW new \in ServerStates,
         server' = [server EXCEPT ![s] = new],
         keys' \in [Actors -> KeyPairs \cup {NoKey}],
         ServerOK(s)',
         used' \subseteq Actors \X KeyPairs,
         \A u \in used' \ used : keys'[u[1]] = u[2]
  PROVE  KInv'
<1>1. TypeOK'
  BY DEF KInv, TypeOK
<1>2. UsedInTable'
  BY NoKeyAssumption DEF KInv, TypeOK, UsedInTable, TableGrows
<1>3. ASSUME NEW r \in Servers PROVE ServerOK(r)'
  <2>1. CASE r = s
    BY <2>1
  <2>2. CASE r # s
    <3>1. server'[r] = server[r]
      BY <2>2 DEF KInv, TypeOK
    <3> QED BY <3>1, ServerStays
  <2> QED BY <2>1, <2>2
<1> QED BY <1>1, <1>2, <1>3 DEF KInv

\* Serving the key pair that the table holds.
LEMMA ServeInv ==
  ASSUME KInv, TableGrows, NEW s \in Servers, NEW a \in Actors, NEW k \in KeyPairs,
         keys' \in [Actors -> KeyPairs \cup {NoKey}], keys'[a] = k, Serve(s, a, k)
  PROVE  KInv'
<1> DEFINE new == [Down EXCEPT !.pc = "serving", !.actor = a, !.published = k]
<1>1. new \in ServerStates /\ new.pc = "serving" /\ new.actor = a /\ new.published = k
  BY DEF Down, ServerStates
<1>2. server' = [server EXCEPT ![s] = new] /\ server'[s] = new
  BY DEF Serve, KInv, TypeOK
<1> HIDE DEF new
<1>3. ServerOK(s)'
  BY <1>1, <1>2 DEF ServerOK
<1>4. used' \subseteq Actors \X KeyPairs /\ \A u \in used' \ used : keys'[u[1]] = u[2]
  BY DEF Serve, KInv, TypeOK
<1> QED BY <1>1, <1>2, <1>3, <1>4, ServerMoves

------------------------------------------------------------------------------
(* The invariant is inductive *)

\* Every reachable state satisfies the inductive invariant.
THEOREM KeyInvariance == Spec => []KInv
<1>1. Init => KInv
  BY DEF Init, KInv, TypeOK, UsedInTable, ServerOK, Down, ServerStates
<1>2. KInv /\ [Next]_vars => KInv'
  <2> SUFFICES ASSUME KInv, [Next]_vars PROVE KInv'
    OBVIOUS
  <2> USE DEF KInv
  <2>0. /\ keys \in [Actors -> KeyPairs \cup {NoKey}]
        /\ used \subseteq Actors \X KeyPairs
        /\ \A s \in Servers : server[s] \in ServerStates /\ ServerOK(s)
    BY DEF TypeOK
  <2>1. ASSUME NEW s \in Servers, NEW a \in Actors, StartKnown(s, a)
        PROVE  KInv'
    <3>1. TableGrows /\ keys' = keys /\ keys[a] \in KeyPairs /\ Serve(s, a, keys[a])
      BY <2>0, <2>1 DEF StartKnown, TableGrows
    <3> QED BY <2>0, <3>1, ServeInv
  <2>2. ASSUME NEW s \in Servers, NEW a \in Actors, StartUnknown(s, a)
        PROVE  KInv'
    <3> DEFINE new == [Down EXCEPT !.pc = "generate", !.actor = a]
    <3>1. new \in ServerStates /\ new.pc = "generate" /\ new.actor = a
      BY DEF Down, ServerStates
    <3>2. /\ server' = [server EXCEPT ![s] = new] /\ server'[s] = new
          /\ keys' = keys /\ used' = used /\ TableGrows
      BY <2>2 DEF StartUnknown, TypeOK, TableGrows
    <3> HIDE DEF new
    <3>3. ServerOK(s)'
      BY <3>1, <3>2 DEF ServerOK
    <3> QED BY <2>0, <3>1, <3>2, <3>3, ServerMoves
  <2>3. ASSUME NEW s \in Servers, NEW k \in KeyPairs, Generate(s, k)
        PROVE  KInv'
    <3> DEFINE new == [server[s] EXCEPT !.pc = "insert", !.generated = k]
    <3>1. /\ new \in ServerStates /\ new.pc = "insert" /\ new.generated = k
          /\ new.actor = server[s].actor /\ server[s].actor \in Actors
      BY <2>0, <2>3 DEF Generate, ServerStates, ServerOK
    <3>2. /\ server' = [server EXCEPT ![s] = new] /\ server'[s] = new
          /\ keys' = keys /\ used' = used /\ TableGrows
      BY <2>3 DEF Generate, TypeOK, TableGrows
    <3> HIDE DEF new
    <3>3. ServerOK(s)'
      BY <3>1, <3>2 DEF ServerOK
    <3> QED BY <2>0, <3>1, <3>2, <3>3, ServerMoves
  <2>4. ASSUME NEW s \in Servers, Insert(s)
        PROVE  KInv'
    <3>1. PICK a \in Actors, k \in KeyPairs : a = server[s].actor /\ k = server[s].generated
      BY <2>0, <2>4 DEF Insert, ServerOK
    <3>2. /\ keys' = insert_generated(keys, a, k)
          /\ keys' \in [Actors -> KeyPairs \cup {NoKey}]
          /\ TableGrows
      BY <2>0, <2>4, <3>1, InsertGrows DEF Insert, TableGrows
    <3>3. CASE keys[a] = NoKey
      <4>1. keys'[a] = k
        BY <2>0, <3>2, <3>3, InsertGrows
      <4>2. Serve(s, a, k)
        BY <2>4, <3>1, <3>3 DEF Insert
      <4> QED BY <3>2, <4>1, <4>2, ServeInv
    <3>4. CASE keys[a] # NoKey
      <4> DEFINE new == [server[s] EXCEPT !.pc = "reload"]
      <4>1. new \in ServerStates /\ new.pc = "reload" /\ new.actor = a
        BY <2>0, <3>1 DEF ServerStates
      <4>2. /\ server' = [server EXCEPT ![s] = new] /\ server'[s] = new
            /\ used' = used /\ keys' = keys
        <5>1. keys' = keys
          BY <2>0, <3>2, <3>4, InsertGrows
        <5>2. server' = [server EXCEPT ![s] = new] /\ used' = used
          BY <2>4, <3>1, <3>4 DEF Insert
        <5>3. server'[s] = new
          BY <5>2 DEF TypeOK
        <5> QED BY <5>1, <5>2, <5>3
      <4> HIDE DEF new
      <4>3. ServerOK(s)'
        BY <3>4, <4>1, <4>2 DEF ServerOK
      <4> QED BY <2>0, <3>2, <4>1, <4>2, <4>3, ServerMoves
    <3> QED BY <3>3, <3>4
  <2>5. ASSUME NEW s \in Servers, Reload(s)
        PROVE  KInv'
    <3>1. PICK a \in Actors : a = server[s].actor
      BY <2>0, <2>5 DEF Reload, ServerOK
    <3>2. TableGrows /\ keys' = keys /\ keys[a] \in KeyPairs /\ Serve(s, a, keys[a])
      BY <2>0, <2>5, <3>1 DEF Reload, TableGrows
    <3> QED BY <2>0, <3>2, ServeInv
  <2>6. ASSUME NEW s \in Servers, LoadKey(s)
        PROVE  KInv'
    <3> DEFINE new == [server[s] EXCEPT !.pc = "sending", !.signing = keys[server[s].actor]]
    <3>1. /\ server[s].pc = "serving" /\ server[s].actor \in Actors
          /\ server[s].published = keys[server[s].actor]
          /\ server[s].published \in KeyPairs
      BY <2>0, <2>6 DEF LoadKey, ServerOK
    <3>2. /\ new \in ServerStates /\ new.pc = "sending" /\ new.actor = server[s].actor
          /\ new.published = server[s].published
          /\ new.signing = keys[server[s].actor]
      BY <2>0, <3>1 DEF ServerStates
    <3>3. /\ server' = [server EXCEPT ![s] = new] /\ server'[s] = new
          /\ keys' = keys /\ used' = used /\ TableGrows
      BY <2>6 DEF LoadKey, TypeOK, TableGrows
    <3> HIDE DEF new
    <3>4. ServerOK(s)'
      BY <3>1, <3>2, <3>3 DEF ServerOK
    <3> QED BY <2>0, <3>2, <3>3, <3>4, ServerMoves
  <2>7. ASSUME NEW s \in Servers, Sign(s)
        PROVE  KInv'
    <3> DEFINE new == [server[s] EXCEPT !.pc = "serving", !.signing = NoKey]
    <3>1. /\ server[s].pc = "sending" /\ server[s].actor \in Actors
          /\ server[s].published = keys[server[s].actor]
          /\ server[s].published \in KeyPairs
          /\ server[s].signing = keys[server[s].actor]
      BY <2>0, <2>7 DEF Sign, ServerOK
    <3>2. /\ new \in ServerStates /\ new.pc = "serving" /\ new.actor = server[s].actor
          /\ new.published = server[s].published
      BY <2>0, <3>1 DEF ServerStates
    <3>3. /\ server' = [server EXCEPT ![s] = new] /\ server'[s] = new
          /\ keys' = keys /\ TableGrows
          /\ used' = used \cup {<<server[s].actor, server[s].signing>>}
      BY <2>7 DEF Sign, TypeOK, TableGrows
    <3> HIDE DEF new
    <3>4. ServerOK(s)'
      BY <3>1, <3>2, <3>3 DEF ServerOK
    <3>5. used' \subseteq Actors \X KeyPairs /\ \A u \in used' \ used : keys'[u[1]] = u[2]
      BY <2>0, <3>1, <3>3
    <3> QED BY <2>0, <3>2, <3>3, <3>4, <3>5, ServerMoves
  <2>8. ASSUME NEW s \in Servers, Stop(s)
        PROVE  KInv'
    <3>1. Down \in ServerStates /\ Down.pc = "down"
      BY DEF Down, ServerStates
    <3>2. /\ server' = [server EXCEPT ![s] = Down] /\ server'[s] = Down
          /\ keys' = keys /\ used' = used /\ TableGrows
      BY <2>8 DEF Stop, TypeOK, TableGrows
    <3>3. ServerOK(s)'
      BY <3>1, <3>2 DEF ServerOK
    <3> QED BY <2>0, <3>1, <3>2, <3>3, ServerMoves
  <2>9. ASSUME NEW a \in Actors, NEW k \in KeyPairs, Import(a, k)
        PROVE  KInv'
    <3>1. /\ keys' \in [Actors -> KeyPairs \cup {NoKey}] /\ TableGrows
          /\ server' = server /\ used' = used
      BY <2>0, <2>9, InsertGrows DEF Import, TableGrows
    <3>2. TypeOK' /\ UsedInTable'
      BY <2>0, <3>1, NoKeyAssumption DEF TypeOK, UsedInTable, TableGrows
    <3> QED BY <3>1, <3>2, ServerStays
  <2>10. CASE UNCHANGED vars
    <3>1. TableGrows /\ keys' = keys /\ server' = server /\ used' = used
      BY <2>10 DEF vars, TableGrows
    <3> QED BY <3>1, ServerStays DEF TypeOK, UsedInTable
  <2> QED BY <2>1, <2>2, <2>3, <2>4, <2>5, <2>6, <2>7, <2>8, <2>9, <2>10 DEF Next
<1> QED BY <1>1, <1>2, PTL DEF Spec

------------------------------------------------------------------------------
(* The theorems *)

\* The table, the processes and what was used keep their types.
THEOREM TypeCorrect == Spec => []TypeOK
<1>1. KInv => TypeOK
  BY DEF KInv
<1> QED BY <1>1, KeyInvariance, PTL

\* Every signature ever made verifies under every document ever published.
THEOREM Signatures == Spec => []EverySignatureVerifies
<1>1. KInv => EverySignatureVerifies
  BY DEF KInv, UsedInTable, EverySignatureVerifies
<1> QED BY <1>1, KeyInvariance, PTL

\* What a process published is what it finds in the table, and a provisioning
\* that lost the race finds the winner's key pair.
THEOREM Agreement == Spec => []ProcessesAgreeWithTable
<1>1. KInv => ProcessesAgreeWithTable
  BY DEF KInv, ServerOK, ProcessesAgreeWithTable
<1> QED BY <1>1, KeyInvariance, PTL

\* Serving the key pair in the table, which was or was not there before.
LEMMA ServeUses ==
  ASSUME KInv, NEW s \in Servers, NEW a \in Actors, NEW k \in KeyPairs, Serve(s, a, k),
         \/ keys[a] = k /\ keys' = keys
         \/ keys[a] = NoKey /\ keys' = [keys EXCEPT ![a] = k]
  PROVE  Identity!Next
<1>1. used' = used \cup {<<a, k>>}
  BY DEF Serve
<1>2. CASE keys[a] = k /\ keys' = keys
  <2>1. Identity!Use(a)
    BY <1>1, <1>2, NoKeyAssumption DEF Identity!Use
  <2> QED BY <2>1 DEF Identity!Next
<1>3. CASE keys[a] = NoKey /\ keys' = [keys EXCEPT ![a] = k]
  <2>1. Identity!Choose(a, k)
    BY <1>1, <1>3 DEF Identity!Choose
  <2> QED BY <2>1 DEF Identity!Next
<1> QED BY <1>2, <1>3

\* The processes together behave as one identity per actor.
THEOREM IdentityImplementation == Spec => ImplementsIdentity
<1>1. Init => Identity!Init
  BY DEF Init, Identity!Init
<1>2. KInv /\ [Next]_vars => [Identity!Next]_Identity!vars
  <2> SUFFICES ASSUME KInv, [Next]_vars
               PROVE  [Identity!Next]_Identity!vars
    OBVIOUS
  <2>0. /\ keys \in [Actors -> KeyPairs \cup {NoKey}]
        /\ \A s \in Servers : server[s] \in ServerStates /\ ServerOK(s)
    BY DEF KInv, TypeOK
  <2>1. CASE UNCHANGED <<keys, used>>
    BY <2>1 DEF Identity!vars
  <2>2. ASSUME NEW s \in Servers, NEW a \in Actors, StartKnown(s, a)
        PROVE  Identity!Next
    BY <2>0, <2>2, ServeUses DEF StartKnown
  <2>3. ASSUME NEW s \in Servers, Insert(s)
        PROVE  [Identity!Next]_Identity!vars
    <3>1. PICK a \in Actors, k \in KeyPairs : a = server[s].actor /\ k = server[s].generated
      BY <2>0, <2>3 DEF Insert, ServerOK
    <3>2. keys' = insert_generated(keys, a, k)
      BY <2>3, <3>1 DEF Insert
    <3>3. CASE keys[a] = NoKey
      <4>1. keys' = [keys EXCEPT ![a] = k] /\ Serve(s, a, k)
        BY <2>3, <3>1, <3>2, <3>3 DEF Insert, insert_generated
      <4> QED BY <3>3, <4>1, ServeUses
    <3>4. CASE keys[a] # NoKey
      <4>1. keys' = keys /\ used' = used
        BY <2>3, <3>1, <3>2, <3>4 DEF Insert, insert_generated
      <4> QED BY <2>1, <4>1
    <3> QED BY <3>3, <3>4
  <2>4. ASSUME NEW s \in Servers, Reload(s)
        PROVE  Identity!Next
    <3>1. PICK a \in Actors : a = server[s].actor
      BY <2>0, <2>4 DEF Reload, ServerOK
    <3>2. keys' = keys /\ keys[a] \in KeyPairs /\ Serve(s, a, keys[a])
      BY <2>0, <2>4, <3>1 DEF Reload
    <3> QED BY <3>2, ServeUses
  <2>5. ASSUME NEW s \in Servers, Sign(s)
        PROVE  Identity!Next
    <3>1. PICK a \in Actors : a = server[s].actor
      BY <2>0, <2>5 DEF Sign, ServerOK
    <3>2. /\ keys[a] # NoKey /\ keys' = keys
          /\ used' = used \cup {<<a, keys[a]>>}
      BY <2>0, <2>5, <3>1, NoKeyAssumption DEF Sign, ServerOK
    <3>3. Identity!Use(a)
      BY <3>2 DEF Identity!Use
    <3> QED BY <3>3 DEF Identity!Next
  <2>6. ASSUME NEW a \in Actors, NEW k \in KeyPairs, Import(a, k)
        PROVE  [Identity!Next]_Identity!vars
    <3>1. used' = used /\ keys' = IF keys[a] = NoKey THEN [keys EXCEPT ![a] = k] ELSE keys
      BY <2>6 DEF Import, insert_actor_key_pair
    <3>2. CASE keys[a] = NoKey
      <4>1. Identity!Choose(a, k)
        BY <3>1, <3>2 DEF Identity!Choose
      <4> QED BY <4>1 DEF Identity!Next
    <3>3. CASE keys[a] # NoKey
      BY <2>1, <3>1, <3>3
    <3> QED BY <3>2, <3>3
  <2>7. ASSUME NEW s \in Servers,
               \/ \E a \in Actors : StartUnknown(s, a)
               \/ \E k \in KeyPairs : Generate(s, k)
               \/ LoadKey(s)
               \/ Stop(s)
        PROVE  UNCHANGED <<keys, used>>
    BY <2>7 DEF StartUnknown, Generate, LoadKey, Stop
  <2> QED BY <2>1, <2>2, <2>3, <2>4, <2>5, <2>6, <2>7 DEF Next, vars
<1> QED BY <1>1, <1>2, KeyInvariance, PTL DEF Spec, ImplementsIdentity, Identity!Spec
==============================================================================
