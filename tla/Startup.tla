------------------------------ MODULE Startup ------------------------------
(***************************************************************************)
(* The start of the gateway (cmd/relia-gateway/main.go, newServer) when    *)
(* several of them share a database: ledger.Migrate, which runs the        *)
(* migration files that are not in the migrations table yet, and the       *)
(* choice of the signing key, which decides whether the receipts of one    *)
(* process verify in another.  Builds differ in how many files they carry; *)
(* a process may stop at any point and is started again.                   *)
(***************************************************************************)
EXTENDS Naturals

CONSTANTS
    Gateways,   \* the processes
    Files,      \* [Gateways -> Nat]: migration files in the build of a process
    FileKey,    \* the key pair in signing_key.private_key_path
    DrawnKeys,  \* key pairs a process without that setting may draw
    Null,
    MaxFaults   \* bound of the model: starts that fail and processes that die

ASSUME FilesAssumption == Files \in [Gateways -> Nat]
ASSUME KeysAssumption == FileKey \notin DrawnKeys /\ Null \notin DrawnKeys \cup {FileKey}
ASSUME FaultsAssumption == MaxFaults \in Nat

Versions == UNION {1..Files[g] : g \in Gateways}
KeyIds == {"dev", "relia"}

VARIABLES
    driver,      \* db.driver of the deployment
    configured,  \* the configuration names a key file
    applied,     \* rows of the migrations table
    schema,      \* how often the statements of each file are in effect
    keys,        \* table keys
    receipts,    \* table receipts: what a row is signed with, and under which key_id
    at,          \* where each process is
    version,     \* the file its loop in Migrate is at
    signer,      \* its signing key
    faults

vars == <<driver, configured, applied, schema, keys, receipts, at, version, signer, faults>>
tables == <<applied, schema, keys, receipts>>

Steps == {"down", "loop", "claimed", "ran", "up"}
InTx == {"claimed", "ran"}

Signer == [id : KeyIds, key : DrawnKeys \cup {FileKey}]
NoSigner == [id |-> "none", key |-> Null]

Goto(g, from, to) == at[g] = from /\ at' = [at EXCEPT ![g] = to]

(* Another transaction holds what the INSERT of the claim needs: the write *)
(* lock of an SQLite file, or the uncommitted row of the same version.     *)
Locked(g) ==
    \E h \in Gateways \ {g} :
        at[h] \in InTx /\ (driver = "sqlite" \/ version[h] = version[g])

-----------------------------------------------------------------------------
Init ==
    /\ driver \in {"sqlite", "postgres"}
    /\ configured \in BOOLEAN
    /\ applied = {}
    /\ schema = [v \in Versions |-> 0]
    /\ keys = [id \in KeyIds |-> Null]
    /\ receipts = {}
    /\ at = [g \in Gateways |-> "down"]
    /\ version = [g \in Gateways |-> 1]
    /\ signer = [g \in Gateways |-> NoSigner]
    /\ faults = 0

(* The store is opened and the migrations table exists afterwards.         *)
Boot(g) ==
    /\ Goto(g, "down", "loop")
    /\ version' = [version EXCEPT ![g] = 1]
    /\ UNCHANGED <<tables, driver, configured, signer, faults>>

(* tryInsertMigration: INSERT ... ON CONFLICT(version) DO NOTHING, told    *)
(* apart by the number of affected rows.  The row is seen by others once   *)
(* the transaction commits.                                                *)
\* Seeded fault: the number of affected rows is not looked at.
NeverApplied(v) == FALSE
Applied(v) == v \in applied

\* Seeded fault: the claim is committed by itself.
ClaimCommitted(v) == applied \cup {v}
ClaimSeen(v) == applied

Claim(g) ==
    /\ version[g] <= Files[g] /\ ~Applied(version[g]) /\ ~Locked(g)
    /\ Goto(g, "loop", "claimed")
    /\ applied' = ClaimSeen(version[g])
    /\ UNCHANGED <<driver, configured, schema, keys, receipts, version, signer, faults>>

(* Nothing was inserted: roll back and go on with the next file.           *)
\* Seeded fault: a migration that is there already fails the start.
SkipFails(g) ==
    /\ version[g] <= Files[g] /\ Applied(version[g]) /\ ~Locked(g)
    /\ Goto(g, "loop", "down")
    /\ UNCHANGED <<tables, driver, configured, version, signer, faults>>
Skip(g) ==
    /\ at[g] = "loop"
    /\ version[g] <= Files[g] /\ Applied(version[g]) /\ ~Locked(g)
    /\ version' = [version EXCEPT ![g] = @ + 1]
    /\ UNCHANGED <<tables, driver, configured, at, signer, faults>>

(* Postgres waits for the other transaction; SQLite reports that the       *)
(* database is locked, and the start fails.                                *)
Busy(g) ==
    /\ version[g] <= Files[g] /\ Locked(g) /\ driver = "sqlite"
    /\ Goto(g, "loop", "down")
    /\ UNCHANGED <<tables, driver, configured, version, signer, faults>>

RunStatements(g) ==
    /\ Goto(g, "claimed", "ran")
    /\ UNCHANGED <<tables, driver, configured, version, signer, faults>>

Commit(g) ==
    /\ Goto(g, "ran", "loop")
    /\ applied' = applied \cup {version[g]}
    /\ schema' = [schema EXCEPT ![version[g]] = @ + 1]
    /\ version' = [version EXCEPT ![g] = @ + 1]
    /\ UNCHANGED <<driver, configured, keys, receipts, signer, faults>>

(* The rest of newServer, and NewAuthorizeService, which draws a key pair  *)
(* if it is given none.                                                    *)
\* Seeded fault: an empty key_id has no default.
NoDefault(fromFile) == IF fromFile THEN "" ELSE "dev"
\* Seeded fault: the drawn key goes by the default key_id of configured ones.
OneKeyId(fromFile) == "relia"
KeyIdOf(fromFile) == IF fromFile THEN "relia" ELSE "dev"

Listen(g) ==
    /\ version[g] > Files[g]
    /\ Goto(g, "loop", "up")
    /\ \E key \in IF configured THEN {FileKey} ELSE DrawnKeys :
        signer' = [signer EXCEPT ![g] = [id |-> KeyIdOf(configured), key |-> key]]
    /\ UNCHANGED <<tables, driver, configured, version, faults>>

(* A statement, a commit or the key file fails, or the process dies; an    *)
(* open transaction is undone.                                             *)
Stop(g) ==
    /\ at[g] # "down" /\ faults < MaxFaults
    /\ at' = [at EXCEPT ![g] = "down"]
    /\ faults' = faults + 1
    /\ UNCHANGED <<tables, driver, configured, version, signer>>

(* A transaction of the service: it puts the key, then the receipt.        *)
\* Seeded fault: ON CONFLICT(key_id) DO UPDATE.
PutKeyReplaces(s) == [keys EXCEPT ![s.id] = s.key]
PutKey(s) == [keys EXCEPT ![s.id] = IF @ = Null THEN s.key ELSE @]

Sign(g) ==
    /\ at[g] = "up" /\ ~(driver = "sqlite" /\ Locked(g))
    /\ keys' = PutKey(signer[g])
    /\ receipts' = receipts \cup {signer[g]}
    /\ UNCHANGED <<driver, configured, applied, schema, at, version, signer, faults>>

(* The operator follows the quickstart and configures a key file, which    *)
(* counts from the next start of each process on.                          *)
Configure ==
    /\ ~configured /\ configured' = TRUE
    /\ UNCHANGED <<tables, driver, at, version, signer, faults>>

-----------------------------------------------------------------------------
Progress(g) ==
    \/ Boot(g)
    \/ Claim(g) \/ Skip(g) \/ Busy(g)
    \/ RunStatements(g) \/ Commit(g)
    \/ Listen(g)

Next ==
    \/ \E g \in Gateways : Progress(g) \/ Stop(g) \/ Sign(g)
    \/ Configure

Spec == Init /\ [][Next]_vars

(* A process goes on by itself, and whoever runs it starts it again.       *)
FairSpec == Spec /\ \A g \in Gateways : WF_vars(Progress(g))

-----------------------------------------------------------------------------
TypeOK ==
    /\ driver \in {"sqlite", "postgres"} /\ configured \in BOOLEAN
    /\ applied \subseteq Versions
    /\ schema \in [Versions -> Nat]
    /\ keys \in [KeyIds -> DrawnKeys \cup {FileKey, Null}]
    /\ receipts \subseteq Signer
    /\ at \in [Gateways -> Steps]
    /\ version \in [Gateways -> Nat]
    /\ signer \in [Gateways -> Signer \cup {NoSigner}]
    /\ faults \in 0..MaxFaults

(* The statements of a migration take effect once if the migrations table  *)
(* has its row and not at all if it has not, whoever else is starting and  *)
(* wherever a start was cut off; and no file overtakes an earlier one.     *)
AppliedOnce ==
    \A v \in Versions :
        /\ schema[v] = IF v \in applied THEN 1 ELSE 0
        /\ v \in applied => 1..v \subseteq applied

(* No process answers a call over tables its build expects and the         *)
(* database does not have, although it may have left the work to another.  *)
ServesMigratedSchema ==
    \A g \in Gateways : at[g] = "up" => \A v \in 1..Files[g] : schema[v] > 0

(* Store.GetKey: a read that fails is reported as no row.                  *)
GetKey(id, failed) == IF failed THEN Null ELSE keys[id]

(* VerifyReceipt as process g calls it: with the row it gets, or with its  *)
(* own key if it gets none.                                                *)
VerifyKey(g, id, failed) ==
    IF GetKey(id, failed) # Null THEN GetKey(id, failed) ELSE signer[g].key
Told(g, receipt, failed) == VerifyKey(g, receipt.id, failed) = receipt.key

(* "Stable, offline-verifiable receipts across gateway restarts": what is  *)
(* signed with the configured key verifies in every process that reads the *)
(* table, those included that have drawn a key of their own, before or     *)
(* since; and where the read fails, in every process that does not run on  *)
(* a drawn key.                                                            *)
ConfiguredVerifies ==
    \A receipt \in receipts, g \in Gateways, failed \in BOOLEAN :
        receipt.key = FileKey /\ at[g] = "up" /\ ~Told(g, receipt, failed) =>
            failed /\ signer[g].id = "dev"

(* The process cannot read the table and holds another key than it.        *)
Misled(g, receipt, failed) == failed /\ signer[g].key # keys[receipt.id]

(* What readers are told of a stored receipt, good or bad, depends neither *)
(* on the process that answers nor on when it is asked, unless one of the  *)
(* two answers came from a process that could not read the table and has a *)
(* key that is not the one in it.                                          *)
VerdictStays ==
    [][\A receipt \in receipts, g, h \in Gateways, before, after \in BOOLEAN :
        at[g] = "up" /\ at'[h] = "up" =>
            \/ Told(g, receipt, before) = Told(h, receipt, after)'
            \/ Misled(g, receipt, before) \/ Misled(h, receipt, after)']_vars

(* Every process serves in the end, though they start at the same time and *)
(* an SQLite start fails whenever another one is migrating.                *)
EventuallyServes == \A g \in Gateways : <>[](at[g] = "up")

=============================================================================
