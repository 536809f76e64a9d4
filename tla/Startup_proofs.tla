--------------------------- MODULE Startup_proofs ---------------------------
(***************************************************************************)
(* Proofs about Startup, for every set of processes, any builds, any keys, *)
(* and any number of starts that fail and processes that die.              *)
(***************************************************************************)
EXTENDS Startup, TLAPS

-----------------------------------------------------------------------------
(* How far a process is: what its loop has passed is applied, by whomever; *)
(* it serves when it has passed the last file.                             *)
PassedOK ==
    \A g \in Gateways :
        /\ version[g] >= 1
        /\ at[g] # "down" => 1..(version[g] - 1) \subseteq applied
        /\ at[g] = "up" => version[g] > Files[g]

(* A claim is about a file of the build that nobody has applied, and two   *)
(* processes never hold the same one.                                      *)
ClaimsOK ==
    /\ \A g \in Gateways : at[g] \in InTx => version[g] \in 1..Files[g] /\ version[g] \notin applied
    /\ \A g, h \in Gateways : g # h /\ at[g] \in InTx /\ at[h] \in InTx => version[g] # version[h]

MigrationInv == PassedOK /\ ClaimsOK /\ AppliedOnce

(* The configured key, and no other, goes by the key_id of configured ones *)
(* and every receipt has a row for its key_id.                             *)
Proper(s) == s.id = "relia" <=> s.key = FileKey

KeysOK ==
    /\ keys["relia"] \in {Null, FileKey}
    /\ \A g \in Gateways : at[g] = "up" => signer[g] \in Signer /\ Proper(signer[g])
    /\ \A receipt \in receipts : Proper(receipt) /\ keys[receipt.id] # Null

StartupInv == TypeOK /\ MigrationInv /\ KeysOK

-----------------------------------------------------------------------------
LEMMA InitInv == Init => StartupInv
<1> SUFFICES ASSUME Init PROVE StartupInv
  OBVIOUS
<1>1. TypeOK
  BY FaultsAssumption DEF Init, TypeOK, Steps, KeyIds
<1>2. MigrationInv
  BY DEF Init, MigrationInv, PassedOK, ClaimsOK, AppliedOnce, InTx
<1>3. KeysOK
  BY DEF Init, KeysOK, KeyIds
<1> QED
  BY <1>1, <1>2, <1>3 DEF StartupInv

LEMMA VersionsOf == \A g \in Gateways : 1..Files[g] \subseteq Versions
BY DEF Versions

-----------------------------------------------------------------------------
(* Types.                                                                  *)

LEMMA TypeStep ==
    ASSUME StartupInv, [Next]_vars
    PROVE  TypeOK'
<1> USE FilesAssumption DEF TypeOK, Steps, tables
<1>a. TypeOK /\ ClaimsOK
  BY DEF StartupInv, MigrationInv
<1>1. ASSUME NEW g \in Gateways, Boot(g) \/ Skip(g) \/ Busy(g) \/ RunStatements(g)
      PROVE  TypeOK'
  BY <1>a, <1>1 DEF Boot, Skip, Busy, RunStatements, Goto
<1>2. ASSUME NEW g \in Gateways, Claim(g)
      PROVE  TypeOK'
  BY <1>a, <1>2 DEF Claim, Goto, ClaimSeen
<1>3. ASSUME NEW g \in Gateways, Commit(g)
      PROVE  TypeOK'
  <2>1. version[g] \in Versions
    BY <1>a, <1>3, VersionsOf DEF Commit, Goto, ClaimsOK, InTx
  <2> QED
    BY <1>a, <1>3, <2>1 DEF Commit, Goto
<1>4. ASSUME NEW g \in Gateways, Listen(g)
      PROVE  TypeOK'
  <2>1. PICK key \in DrawnKeys \cup {FileKey} :
            signer' = [signer EXCEPT ![g] = [id |-> KeyIdOf(configured), key |-> key]]
    BY <1>4 DEF Listen
  <2>2. [id |-> KeyIdOf(configured), key |-> key] \in Signer
    BY DEF Signer, KeyIdOf, KeyIds
  <2> QED
    BY <1>a, <1>4, <2>1, <2>2 DEF Listen, Goto
<1>5. ASSUME NEW g \in Gateways, Stop(g)
      PROVE  TypeOK'
  BY <1>a, <1>5, FaultsAssumption DEF Stop
<1>6. ASSUME NEW g \in Gateways, Sign(g)
      PROVE  TypeOK'
  <2>1. signer[g] \in Signer
    BY <1>6 DEF StartupInv, KeysOK, Sign
  <2>2. signer[g].id \in KeyIds /\ signer[g].key \in DrawnKeys \cup {FileKey}
    BY <2>1 DEF Signer
  <2>3. keys' \in [KeyIds -> DrawnKeys \cup {FileKey, Null}]
    BY <1>a, <1>6, <2>2 DEF Sign, PutKey
  <2> QED
    BY <1>a, <1>6, <2>1, <2>3 DEF Sign
<1>7. CASE Configure
  BY <1>a, <1>7 DEF Configure
<1>8. CASE UNCHANGED vars
  BY <1>a, <1>8 DEF vars
<1> QED
  BY <1>1, <1>2, <1>3, <1>4, <1>5, <1>6, <1>7, <1>8 DEF Next, Progress

-----------------------------------------------------------------------------
(* Migrations.                                                             *)

(* Steps that apply nothing: the loop, the other steps of a transaction,   *)
(* and the end of a process.                                               *)
LEMMA LoopKeeps ==
    ASSUME TypeOK, MigrationInv, NEW g \in Gateways,
           Boot(g) \/ Skip(g) \/ Busy(g) \/ RunStatements(g) \/ Listen(g) \/ Stop(g)
    PROVE  MigrationInv'
<1> USE FilesAssumption DEF MigrationInv, TypeOK
<1>1. UNCHANGED <<applied, schema>>
  BY DEF Boot, Skip, Busy, RunStatements, Listen, Stop, tables
<1>2. AppliedOnce'
  BY <1>1 DEF AppliedOnce
<1>3. ClaimsOK'
  BY <1>1 DEF ClaimsOK, Boot, Skip, Busy, RunStatements, Listen, Stop, Goto, InTx
<1>4. PassedOK'
  <2>1. CASE Skip(g)
    <3>1. version[g] \in applied /\ 1..(version[g] - 1) \subseteq applied /\ version[g] >= 1
      BY <2>1 DEF Skip, Applied, PassedOK
    <3>2. 1..version[g] \subseteq applied
      BY <3>1
    <3> QED
      BY <1>1, <2>1, <3>1, <3>2 DEF Skip, PassedOK
  <2>2. CASE Boot(g)
    BY <1>1, <2>2 DEF Boot, Goto, PassedOK
  <2>3. CASE Busy(g) \/ RunStatements(g) \/ Listen(g) \/ Stop(g)
    BY <1>1, <2>3 DEF Busy, RunStatements, Listen, Stop, Goto, PassedOK
  <2> QED
    BY <2>1, <2>2, <2>3
<1> QED
  BY <1>2, <1>3, <1>4

(* The lock keeps a second process from the same version.                  *)
LEMMA ClaimKeeps ==
    ASSUME TypeOK, MigrationInv, NEW g \in Gateways, Claim(g)
    PROVE  MigrationInv'
<1> USE FilesAssumption DEF MigrationInv, TypeOK
<1>1. UNCHANGED <<applied, schema, version>>
  BY DEF Claim, ClaimSeen
<1>2. AppliedOnce' /\ PassedOK'
  BY <1>1 DEF AppliedOnce, PassedOK, Claim, Goto
<1>3. \A h \in Gateways \ {g} : at[h] \in InTx => version[h] # version[g]
  BY DEF Claim, Locked
<1>4. version[g] \in 1..Files[g] /\ version[g] \notin applied
  BY DEF Claim, Applied, PassedOK
<1>5. ClaimsOK'
  BY <1>1, <1>3, <1>4 DEF ClaimsOK, Claim, Goto
<1> QED
  BY <1>2, <1>5

(* A file is applied once, after all that come before it; the others that  *)
(* hold a claim hold another one.                                          *)
LEMMA CommitKeeps ==
    ASSUME TypeOK, MigrationInv, NEW g \in Gateways, Commit(g)
    PROVE  MigrationInv'
<1> USE FilesAssumption DEF MigrationInv, TypeOK
<1> DEFINE v == version[g]
<1>1. /\ v \in 1..Files[g] /\ v \notin applied /\ v \in Versions
      /\ 1..(v - 1) \subseteq applied
  BY VersionsOf DEF ClaimsOK, PassedOK, Commit, Goto, InTx
<1>2. 1..v \subseteq applied \cup {v}
  BY <1>1
<1>3. AppliedOnce'
  <2>1. ASSUME NEW w \in Versions PROVE schema'[w] = IF w \in applied' THEN 1 ELSE 0
    BY <1>1 DEF Commit, AppliedOnce
  <2>2. ASSUME NEW w \in Versions, w \in applied' PROVE 1..w \subseteq applied'
    BY <1>2, <2>2 DEF Commit, AppliedOnce
  <2> QED
    BY <2>1, <2>2 DEF AppliedOnce
<1>4. PassedOK'
  BY <1>1, <1>2 DEF PassedOK, Commit, Goto
<1>5. ClaimsOK'
  BY <1>1 DEF ClaimsOK, Commit, Goto, InTx
<1> QED
  BY <1>3, <1>4, <1>5

LEMMA MigrationStep ==
    ASSUME StartupInv, [Next]_vars
    PROVE  MigrationInv'
<1>a. TypeOK /\ MigrationInv
  BY DEF StartupInv
<1>1. ASSUME NEW g \in Gateways, Progress(g) \/ Stop(g)
      PROVE  MigrationInv'
  BY <1>a, <1>1, LoopKeeps, ClaimKeeps, CommitKeeps DEF Progress
<1>2. CASE UNCHANGED <<applied, schema, at, version>>
  BY <1>a, <1>2 DEF MigrationInv, PassedOK, ClaimsOK, AppliedOnce
<1>3. ASSUME NEW g \in Gateways, Sign(g)
      PROVE  MigrationInv'
  BY <1>2, <1>3 DEF Sign
<1> QED
  BY <1>1, <1>2, <1>3 DEF Next, Configure, tables, vars

-----------------------------------------------------------------------------
(* Keys.                                                                   *)

(* A row of table keys is never replaced.                                  *)
LEMMA KeysStay ==
    ASSUME TypeOK, [Next]_vars, NEW id \in KeyIds, keys[id] # Null
    PROVE  keys'[id] = keys[id]
<1>1. ASSUME NEW g \in Gateways, Progress(g) \/ Stop(g)
      PROVE  UNCHANGED keys
  BY <1>1 DEF Progress, Boot, Claim, Skip, Busy, RunStatements, Commit, Listen, Stop, tables
<1>2. ASSUME NEW g \in Gateways, Sign(g)
      PROVE  keys'[id] = keys[id]
  BY <1>2 DEF Sign, PutKey, TypeOK
<1>3. CASE Configure \/ UNCHANGED vars
  BY <1>3 DEF Configure, tables, vars
<1> QED
  BY <1>1, <1>2, <1>3 DEF Next

LEMMA SignKeeps ==
    ASSUME TypeOK, KeysOK, NEW g \in Gateways, Sign(g)
    PROVE  KeysOK'
<1>1. signer[g] \in Signer /\ Proper(signer[g])
  BY DEF Sign, KeysOK
<1>2. signer[g].id \in KeyIds /\ signer[g].key \in DrawnKeys \cup {FileKey}
  BY <1>1 DEF Signer
<1>3. keys' = [keys EXCEPT ![signer[g].id] = IF @ = Null THEN signer[g].key ELSE @]
  BY DEF Sign, PutKey
<1>4. keys'[signer[g].id] # Null
  BY <1>2, <1>3, KeysAssumption DEF TypeOK
<1>5. \A id \in KeyIds : keys[id] # Null => keys'[id] = keys[id]
  BY <1>2, <1>3 DEF TypeOK
<1>6. keys'["relia"] \in {Null, FileKey}
  BY <1>1, <1>2, <1>3 DEF TypeOK, KeysOK, Proper, KeyIds
<1>7. ASSUME NEW receipt \in receipts'
      PROVE  Proper(receipt) /\ keys'[receipt.id] # Null
  <2>1. CASE receipt \in receipts
    <3>1. receipt.id \in KeyIds
      BY <2>1 DEF TypeOK, Signer
    <3> QED
      BY <2>1, <3>1, <1>5 DEF KeysOK
  <2>2. CASE receipt = signer[g]
    BY <2>2, <1>1, <1>4
  <2> QED
    BY <2>1, <2>2 DEF Sign
<1> QED
  BY <1>6, <1>7 DEF KeysOK, Proper, Sign

LEMMA KeysStep ==
    ASSUME StartupInv, [Next]_vars
    PROVE  KeysOK'
<1> USE DEF KeysOK, Proper
<1>a. TypeOK /\ KeysOK
  BY DEF StartupInv
<1>1. ASSUME NEW g \in Gateways,
             Boot(g) \/ Claim(g) \/ Skip(g) \/ Busy(g) \/ RunStatements(g) \/ Commit(g) \/ Stop(g)
      PROVE  KeysOK'
  <2>1. UNCHANGED <<keys, receipts, signer>>
    BY <1>1 DEF Boot, Claim, Skip, Busy, RunStatements, Commit, Stop, tables
  <2>2. \A h \in Gateways : at'[h] = "up" => at[h] = "up"
    BY <1>a, <1>1 DEF Boot, Claim, Skip, Busy, RunStatements, Commit, Stop, Goto, TypeOK
  <2> QED
    BY <1>a, <2>1, <2>2
<1>2. ASSUME NEW g \in Gateways, Listen(g)
      PROVE  KeysOK'
  <2>1. PICK key \in IF configured THEN {FileKey} ELSE DrawnKeys :
            signer' = [signer EXCEPT ![g] = [id |-> KeyIdOf(configured), key |-> key]]
    BY <1>2 DEF Listen
  <2> DEFINE s == [id |-> KeyIdOf(configured), key |-> key]
  <2>2. s \in Signer
    BY DEF Signer, KeyIdOf, KeyIds
  <2>3. Proper(s)
    BY KeysAssumption DEF KeyIdOf
  <2>4. \A h \in Gateways \ {g} : at'[h] = at[h] /\ signer'[h] = signer[h]
    BY <1>a, <1>2, <2>1 DEF Listen, Goto, TypeOK
  <2>5. signer'[g] = s
    BY <1>a, <2>1 DEF TypeOK
  <2>6. UNCHANGED <<keys, receipts>>
    BY <1>2 DEF Listen, tables
  <2> HIDE DEF s
  <2> QED
    BY <1>a, <2>2, <2>3, <2>4, <2>5, <2>6
<1>3. ASSUME NEW g \in Gateways, Sign(g)
      PROVE  KeysOK'
  BY <1>a, <1>3, SignKeeps
<1>4. CASE Configure \/ UNCHANGED vars
  BY <1>a, <1>4 DEF Configure, tables, vars
<1> QED
  BY <1>1, <1>2, <1>3, <1>4 DEF Next, Progress

-----------------------------------------------------------------------------
LEMMA StepInv == StartupInv /\ [Next]_vars => StartupInv'
BY TypeStep, MigrationStep, KeysStep DEF StartupInv

(* What a reader is told by a process that is not misled: whether the row  *)
(* of the key_id is the signer's.                                          *)
LEMMA ToldByTable ==
    ASSUME KeysOK, NEW receipt \in receipts, NEW g \in Gateways, NEW failed \in BOOLEAN,
           ~Misled(g, receipt, failed)
    PROVE  Told(g, receipt, failed) <=> keys[receipt.id] = receipt.key
BY DEF KeysOK, Misled, Told, VerifyKey, GetKey

(* Tables, keys and processes keep their types.                            *)
THEOREM StartupTypeCorrect == Spec => []TypeOK
<1>1. StartupInv => TypeOK
  BY DEF StartupInv
<1> QED
  BY <1>1, InitInv, StepInv, PTL DEF Spec

(* No migration takes effect twice, half or before an earlier one,         *)
(* whoever starts at the same time and wherever a start is cut off.        *)
THEOREM AlwaysAppliedOnce == Spec => []AppliedOnce
<1>1. StartupInv => AppliedOnce
  BY DEF StartupInv, MigrationInv
<1> QED
  BY <1>1, InitInv, StepInv, PTL DEF Spec

(* Nobody serves over tables that are not there.                           *)
THEOREM AlwaysServesMigrated == Spec => []ServesMigratedSchema
<1>1. ASSUME StartupInv, NEW g \in Gateways, at[g] = "up", NEW v \in 1..Files[g]
      PROVE  schema[v] > 0
  <2>1. v \in 1..(version[g] - 1)
    BY <1>1, FilesAssumption DEF StartupInv, MigrationInv, PassedOK, TypeOK
  <2>2. v \in applied /\ v \in Versions
    BY <1>1, <2>1, VersionsOf DEF StartupInv, MigrationInv, PassedOK
  <2> QED
    BY <1>1, <2>2 DEF StartupInv, MigrationInv, AppliedOnce
<1>2. StartupInv => ServesMigratedSchema
  BY <1>1 DEF ServesMigratedSchema
<1> QED
  BY <1>2, InitInv, StepInv, PTL DEF Spec

(* What the configured key signed verifies in every process, but one that  *)
(* runs on a drawn key and cannot read the table.                          *)
THEOREM ConfiguredAlwaysVerifies == Spec => []ConfiguredVerifies
<1>1. ASSUME StartupInv, NEW receipt \in receipts, NEW g \in Gateways, NEW failed \in BOOLEAN,
             receipt.key = FileKey, at[g] = "up", ~Told(g, receipt, failed)
      PROVE  failed /\ signer[g].id = "dev"
  <2>1. keys[receipt.id] = FileKey
    BY <1>1 DEF StartupInv, KeysOK, Proper
  <2>2. Misled(g, receipt, failed)
    BY <1>1, <2>1, ToldByTable DEF StartupInv
  <2>3. signer[g].id \in KeyIds /\ signer[g].id # "relia"
    BY <1>1, <2>1, <2>2 DEF StartupInv, KeysOK, Proper, Misled, Signer
  <2> QED
    BY <2>2, <2>3 DEF Misled, KeyIds
<1>2. StartupInv => ConfiguredVerifies
  BY <1>1 DEF ConfiguredVerifies
<1> QED
  BY <1>2, InitInv, StepInv, PTL DEF Spec

(* What is told of a receipt depends neither on the process nor on when,   *)
(* unless a process with another key cannot read the table.                *)
THEOREM VerdictAlwaysStays == Spec => VerdictStays
<1> DEFINE Agree ==
        \A receipt \in receipts, g, h \in Gateways, before, after \in BOOLEAN :
            at[g] = "up" /\ at'[h] = "up" =>
                \/ Told(g, receipt, before) = Told(h, receipt, after)'
                \/ Misled(g, receipt, before) \/ Misled(h, receipt, after)'
<1>1. ASSUME StartupInv, StartupInv', [Next]_vars
      PROVE  Agree
  <2> SUFFICES ASSUME NEW receipt \in receipts, NEW g \in Gateways, NEW h \in Gateways,
                      NEW before \in BOOLEAN, NEW after \in BOOLEAN,
                      ~Misled(g, receipt, before), ~Misled(h, receipt, after)'
               PROVE  Told(g, receipt, before) = Told(h, receipt, after)'
    OBVIOUS
  <2>1. receipt.id \in KeyIds /\ keys[receipt.id] # Null
    BY <1>1 DEF StartupInv, TypeOK, KeysOK, Signer
  <2>2. keys'[receipt.id] = keys[receipt.id]
    BY <1>1, <2>1, KeysStay DEF StartupInv
  <2> QED
    BY <2>1, <2>2 DEF Told, VerifyKey, GetKey, Misled
<1>2. StartupInv /\ StartupInv' /\ [Next]_vars => [Agree]_vars
  BY <1>1
<1> QED
  BY <1>2, InitInv, StepInv, PTL DEF Spec, VerdictStays

=============================================================================
