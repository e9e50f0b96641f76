---------------------------- MODULE LedgerStart ----------------------------
(***************************************************************************)
(* The start of the admission runtime (createAdmissionRuntime): the key of *)
(* the state directory is read or published (key-store.ts), the ledger is  *)
(* migrated in one transaction and compared with the contract of schema.ts *)
(* (AdmissionController.migrate), and its policy is claimed.  Connectors   *)
(* start beside each other and beside those that serve, which may drain    *)
(* the account to one seat, and each may die between any two steps.        *)
(*                                                                         *)
(* A member of Lives is one start of a connector; a restart is another     *)
(* one.  The key a start generates is named by the start.  A step is one   *)
(* file-system call or one statement group of the transaction; SQLite      *)
(* itself, which discards the transaction of a process that dies, is       *)
(* external.                                                               *)
(*                                                                         *)
(* Abstractions: the schema is a set of pairs <<table, part>>; a part is   *)
(* what some migration adds to or takes from the table, and "base" is all  *)
(* the rest of it.  The tables that no migration changes are one, "other". *)
(* A file of another owner or with another mode, a symbolic link and a key *)
(* of another length, which are refused, do not occur, so an absent        *)
(* database file is as good as an empty one.  Leases are left out: whether *)
(* seats are taken when a drain is looked at is open (AdmissionController  *)
(* counts them).                                                           *)
(***************************************************************************)
EXTENDS Naturals, FiniteSets

CONSTANTS
  Lives, NoOne,
  Past,       \* starts that are over
  Seats,      \* the seat counts of the policies: maxActiveTurns
  Terms,      \* the rest of a policy: starts, interval, timeout, cooldown
  NoPolicy,
  PolicyOf,   \* the policy a connector is configured with
  Retries     \* MAX_PUBLICATION_READ_RETRIES: 100 in the code

ASSUME LifeAssumption == NoOne \notin Lives /\ Past \subseteq Lives

Policies == [seats : Seats, terms : Terms]

ASSUME SeatsAssumption == Seats \subseteq Nat \ {0} /\ 1 \in Seats
ASSUME PolicyAssumption == NoPolicy \notin Policies /\ PolicyOf \in [Lives -> Policies]
ASSUME RetryAssumption == Retries \in Nat

VARIABLES
  keyFile,  \* whose key is at the key path
  temps,    \* whose temporary key file exists
  db,       \* the committed ledger
  writer,   \* whose transaction holds the write lock
  at,       \* where a start is
  key,      \* the key a start got
  tries,    \* reads of a key that had two links
  draft     \* the ledger as the transaction of a start sees it

keyVars == <<keyFile, temps, key, tries>>
ledgerVars == <<db, writer, draft>>
vars == <<keyVars, ledgerVars, at>>

----------------------------------------------------------------------------
(* The schema, as the migrations make it and as schema.ts wants it.        *)

Base(tables) == {<<t, "base">> : t \in tables}

FirstTables == {"turn_requests", "leases", "other"}
SecondTables == {"policy_state", "queued_owner_instances"}

Version1 == Base(FirstTables) \cup {<<"turn_requests", "parent_id">>}

\* parent_id is renamed; the columns of the queued owner with their index, and those
\* of a suspect lease, are added.
Version2(s) ==
  (s \ {<<"turn_requests", "parent_id">>})
    \cup {<<"turn_requests", "agent_id">>, <<"turn_requests", "queued_owner">>, <<"leases", "suspect">>}
    \cup Base(SecondTables)

\* policy_state is built anew: whatever check it had goes.
Version3(s) == {f \in s : f[1] # "policy_state"} \cup Base({"policy_state"})

\* TABLES of schema.ts.
Contract ==
  Base({"turn_requests", "leases", "policy_state", "queued_owner_instances", "other"})
    \cup {<<"turn_requests", "agent_id">>, <<"turn_requests", "queued_owner">>, <<"leases", "suspect">>}

\* What an older package may have left: the bound of the seats, a table of another
\* scheme, a table the next version brings.
OldCheck == <<"policy_state", "max_active_turns <= 8">>
Strays == {<<"old_scheme", "base">>}
Early == {<<"policy_state", "old">>}
Parts == Version1 \cup Version2({}) \cup {OldCheck} \cup Strays \cup Early

Tables(s) == {f[1] : f \in s}

\* The row of policy_state: the policy, and whether the account drains.
Row(policy, draining) == [policy |-> policy, draining |-> draining]
NoRow == Row(NoPolicy, FALSE)
Rows == [policy : Policies \cup {NoPolicy}, draining : BOOLEAN]

Newest == 3
Ledgers == [version : 0..Newest + 1, schema : SUBSET Parts, row : Rows]
NoDraft == [version |-> 0, schema |-> {}, row |-> NoRow]

\* The seats a soft drain starts from.
DrainFrom == 3

\* The rows that claims and drains leave behind.
ClaimedRows ==
  {Row(policy, FALSE) : policy \in Policies}
    \cup {Row(policy, TRUE) : policy \in {x \in Policies : x.seats = DrainFrom}}

\* The ledgers a start may find.
Found ==
  LET strays == {{}, Strays}
      Kept == ClaimedRows \cup {NoRow} IN
  {[version |-> 0, schema |-> {}, row |-> NoRow],
   [version |-> 0, schema |-> Base({"other"}), row |-> NoRow]}
  \cup [version : {1}, schema : {Version1 \cup x : x \in strays \cup {Early}}, row : {NoRow}]
  \cup [version : {2}, schema : {Version2(Version1) \cup {OldCheck} \cup x : x \in strays}, row : Kept]
  \cup [version : {3}, schema : {Contract \cup x : x \in strays}, row : Kept]
  \cup [version : {4}, schema : {Contract}, row : ClaimedRows]

----------------------------------------------------------------------------

KeySteps == {"read", "temporary", "link", "unlink", "discard", "reread"}
LedgerSteps == {"open", "migrate", "check", "claim"}
Ends == {"serving", "failed", "dead"}

TypeOK ==
  /\ keyFile \in Lives \cup {NoOne} /\ temps \subseteq Lives
  /\ db \in Ledgers /\ writer \in Lives \cup {NoOne}
  /\ at \in [Lives -> {"start"} \cup KeySteps \cup LedgerSteps \cup Ends]
  /\ key \in [Lives -> Lives \cup {NoOne}] /\ tries \in [Lives -> 0..Retries]
  /\ draft \in [Lives -> Ledgers]

Step(p, s, next) == at[p] = s /\ at' = [at EXCEPT ![p] = next]
Fail(p, s) == Step(p, s, "failed")

Begin(p) == Step(p, "start", "read") /\ UNCHANGED <<keyVars, ledgerVars>>

\* assertSecureKeyFile: two links mean that the publisher has not removed the other
\* name yet.
OneLink == keyFile \notin temps

\* Mutant: one read more than the tries that are counted.
ReadKeyOnceMore(p, s) ==
  /\ keyFile # NoOne
  /\ \/ /\ keyFile \notin temps
        /\ key' = [key EXCEPT ![p] = keyFile] /\ Step(p, s, "open")
        /\ UNCHANGED tries
     \/ /\ keyFile \in temps
        /\ IF tries[p] > Retries
             THEN Fail(p, s) /\ UNCHANGED tries
             ELSE Step(p, s, s) /\ tries' = [tries EXCEPT ![p] = @ + 1]
        /\ UNCHANGED key
  /\ UNCHANGED <<keyFile, temps, ledgerVars>>

\* Mutant: the reader waits for the publisher as long as it takes.
ReadKeyPatiently(p, s) ==
  /\ keyFile # NoOne
  /\ \/ /\ keyFile \notin temps
        /\ key' = [key EXCEPT ![p] = keyFile] /\ Step(p, s, "open")
     \/ keyFile \in temps /\ Step(p, s, s) /\ UNCHANGED key
  /\ UNCHANGED <<keyFile, temps, tries, ledgerVars>>

\* readStableAdmissionKey, on a key that exists.
ReadKey(p, s) ==
  /\ keyFile # NoOne
  /\ \/ /\ OneLink
        /\ key' = [key EXCEPT ![p] = keyFile] /\ Step(p, s, "open")
        /\ UNCHANGED tries
     \/ /\ ~OneLink
        /\ IF tries[p] = Retries
             THEN Fail(p, s) /\ UNCHANGED tries
             ELSE Step(p, s, s) /\ tries' = [tries EXCEPT ![p] = @ + 1]
        /\ UNCHANGED key
  /\ UNCHANGED <<keyFile, temps, ledgerVars>>

\* loadOrCreateAdmissionKey.
FirstRead(p) ==
  \/ ReadKey(p, "read")
  \/ /\ keyFile = NoOne /\ Step(p, "read", "temporary")
     /\ UNCHANGED <<keyVars, ledgerVars>>

\* writeTemporaryAdmissionKey: complete, or gone again.
WriteTemporary(p) ==
  /\ \/ Step(p, "temporary", "link") /\ temps' = temps \cup {p}
     \/ Fail(p, "temporary") /\ UNCHANGED temps
  /\ UNCHANGED <<keyFile, key, tries, ledgerVars>>

\* Mutant: the key is renamed to its name, over one that is there.
LinkKeyOver(p) ==
  /\ Step(p, "link", "unlink") /\ keyFile' = p
  /\ UNCHANGED <<temps, key, tries, ledgerVars>>

\* link(2) to the key path, which fails when it exists.
LinkKey(p) ==
  /\ \/ keyFile = NoOne /\ keyFile' = p /\ Step(p, "link", "unlink") /\ UNCHANGED temps
     \/ keyFile # NoOne /\ Step(p, "link", "discard") /\ UNCHANGED <<keyFile, temps>>
     \/ Fail(p, "link") /\ temps' = temps \ {p} /\ UNCHANGED keyFile
  /\ UNCHANGED <<key, tries, ledgerVars>>

\* The other name goes and the directory is synced.  A call that fails ends the start;
\* the name is left when its removal fails twice.
UnlinkTemporary(p) ==
  /\ \/ /\ Step(p, "unlink", "open") /\ temps' = temps \ {p}
        /\ key' = [key EXCEPT ![p] = p]
     \/ /\ Fail(p, "unlink") /\ temps' \in {temps, temps \ {p}}
        /\ UNCHANGED key
  /\ UNCHANGED <<keyFile, tries, ledgerVars>>

\* Another publisher was first: its key is read.
DiscardTemporary(p) ==
  /\ \/ Step(p, "discard", "reread") /\ temps' = temps \ {p}
     \/ Fail(p, "discard") /\ temps' \in {temps, temps \ {p}}
  /\ UNCHANGED <<keyFile, key, tries, ledgerVars>>

KeyNext(p) ==
  \/ FirstRead(p) \/ WriteTemporary(p) \/ LinkKey(p)
  \/ UnlinkTemporary(p) \/ DiscardTemporary(p) \/ ReadKey(p, "reread")

----------------------------------------------------------------------------
(* AdmissionController.migrate and claimDurablePolicy.                     *)

\* Mutant: the transaction takes no lock before it reads.
BeginMigrationDeferred(p) ==
  /\ \/ /\ db.version <= Newest /\ Step(p, "open", "migrate")
        /\ draft' = [draft EXCEPT ![p] = db] /\ UNCHANGED writer
     \/ db.version > Newest /\ Fail(p, "open") /\ UNCHANGED <<writer, draft>>
  /\ UNCHANGED <<keyVars, db>>

\* BEGIN IMMEDIATE, and the version is read under the lock.
BeginMigration(p) ==
  /\ writer = NoOne
  /\ \/ /\ db.version <= Newest /\ Step(p, "open", "migrate")
        /\ draft' = [draft EXCEPT ![p] = db] /\ writer' = p
     \/ db.version > Newest /\ Fail(p, "open") /\ UNCHANGED <<writer, draft>>
  /\ UNCHANGED <<keyVars, db>>

\* The lock was not to be had in 5 s, or the ledger cannot be read.
Busy(p) ==
  /\ \E s \in {"open", "check", "claim"} : Fail(p, s)
  /\ UNCHANGED <<keyVars, ledgerVars>>

Migrate(p, version, schema) ==
  /\ at[p] = "migrate" /\ draft[p].version = version
  /\ draft' = [draft EXCEPT ![p].version = version + 1, ![p].schema = schema]
  /\ UNCHANGED <<keyVars, db, writer, at>>

\* createInitialV1Schema refuses tables without a version.
CreateInitialV1Schema(p) ==
  /\ draft[p].schema \cap Base(FirstTables \cup SecondTables) = {}
  /\ Migrate(p, 0, draft[p].schema \cup Version1)

\* CREATE TABLE fails on a table that exists.
MigrateV1ToV2(p) ==
  /\ SecondTables \cap Tables(draft[p].schema) = {}
  /\ Migrate(p, 1, Version2(draft[p].schema))

\* Mutant: the table is left as it is.
MigrateV2ToV3InPlace(p) == Migrate(p, 2, draft[p].schema)

\* The row of policy_state is copied to the new table.
MigrateV2ToV3(p) == Migrate(p, 2, Version3(draft[p].schema))

Commit(p) ==
  /\ draft[p].version = Newest /\ Step(p, "migrate", "check")
  /\ db' = draft[p]
  /\ writer' = NoOne /\ draft' = [draft EXCEPT ![p] = NoDraft]
  /\ UNCHANGED keyVars

\* A statement fails, and the transaction is rolled back.
RollBack(p) ==
  /\ Fail(p, "migrate")
  /\ writer' = NoOne /\ draft' = [draft EXCEPT ![p] = NoDraft]
  /\ UNCHANGED <<keyVars, db>>

\* assertAdmissionSchemaIntegrity, outside the transaction; no table beside those of
\* the contract.
CheckSchema(p) ==
  /\ Step(p, "check", IF db.version = Newest /\ db.schema = Contract THEN "claim" ELSE "failed")
  /\ UNCHANGED <<keyVars, ledgerVars>>

Claimed == db.row.policy # NoPolicy

\* Mutant: while the account drains, its next policy is accepted too.
ClaimPolicyAhead(p) ==
  /\ writer = NoOne
  /\ \/ ~Claimed /\ db' = [db EXCEPT !.row = Row(PolicyOf[p], FALSE)] /\ Step(p, "claim", "serving")
     \/ /\ Claimed /\ UNCHANGED db
        /\ Step(p, "claim",
             IF PolicyOf[p] = db.row.policy \/ (db.row.draining /\ PolicyOf[p] = [db.row.policy EXCEPT !.seats = 1])
               THEN "serving" ELSE "failed")
  /\ UNCHANGED <<keyVars, writer, draft>>

\* The first claim writes the policy; a later one must have the same, whether the
\* account drains or not.
ClaimPolicy(p) ==
  /\ writer = NoOne
  /\ \/ ~Claimed /\ db' = [db EXCEPT !.row = Row(PolicyOf[p], FALSE)] /\ Step(p, "claim", "serving")
     \/ /\ Claimed /\ UNCHANGED db
        /\ Step(p, "claim", IF PolicyOf[p] = db.row.policy THEN "serving" ELSE "failed")
  /\ UNCHANGED <<keyVars, writer, draft>>

LedgerNext(p) ==
  \/ BeginMigration(p) \/ Busy(p)
  \/ CreateInitialV1Schema(p) \/ MigrateV1ToV2(p) \/ MigrateV2ToV3(p) \/ Commit(p) \/ RollBack(p)
  \/ CheckSchema(p) \/ ClaimPolicy(p)

----------------------------------------------------------------------------
(* What a connector that serves does to the policy of the account.         *)

\* policyFromState(row, 1).
OneSeat(policy) == [policy EXCEPT !.seats = 1]

ServingStep(p) ==
  /\ at[p] = "serving" /\ writer = NoOne
  /\ UNCHANGED <<keyVars, writer, draft, at>>

\* A drain that has begun stays so while seats are taken, and ends at one seat.
BeginSoftDrainTo1(p) ==
  /\ ServingStep(p)
  /\ ~db.row.draining /\ db.row.policy.seats = DrainFrom
  /\ \/ db' = [db EXCEPT !.row = Row(db.row.policy, TRUE)]
     \/ db' = [db EXCEPT !.row = Row(OneSeat(db.row.policy), FALSE)]

\* By any operation that gives a seat back, or a drain that is asked for again.
CompleteSoftDrainTo1IfSettled(p) ==
  /\ ServingStep(p)
  /\ db.row.draining
  /\ db' = [db EXCEPT !.row = Row(OneSeat(db.row.policy), FALSE)]

ServeNext(p) == BeginSoftDrainTo1(p) \/ CompleteSoftDrainTo1IfSettled(p)

----------------------------------------------------------------------------

\* A connector dies, or is stopped; SQLite forgets its transaction.
Die(p) ==
  /\ at[p] \notin {"start", "failed", "dead"}
  /\ at' = [at EXCEPT ![p] = "dead"]
  /\ writer' = IF writer = p THEN NoOne ELSE writer
  /\ draft' = [draft EXCEPT ![p] = NoDraft]
  /\ UNCHANGED <<keyVars, db>>

\* A publisher of the past may have left its temporary file.  A start that has made a
\* ledger had a key.
Init ==
  /\ keyFile \in Past \cup {NoOne} /\ temps \in SUBSET Past
  /\ db \in Found /\ writer = NoOne
  /\ db.version > 0 => keyFile # NoOne
  /\ at = [p \in Lives |-> IF p \in Past THEN "dead" ELSE "start"]
  /\ key = [p \in Lives |-> NoOne] /\ tries = [p \in Lives |-> 0]
  /\ draft = [p \in Lives |-> NoDraft]

StartStep(p) == KeyNext(p) \/ LedgerNext(p)

Next == \E p \in Lives : Begin(p) \/ StartStep(p) \/ ServeNext(p) \/ Die(p)

\* A start that was begun goes on.  Nobody has to drain the account.
Fairness == \A p \in Lives : WF_vars(StartStep(p))

Spec == Init /\ [][Next]_vars /\ Fairness

----------------------------------------------------------------------------
(* Properties. *)

\* Every connector that got a key has the one that is on disk, whoever published it
\* against whom and whoever died at it: what one encrypts all can read
\* (createAndPublishAdmissionKey).
OneKey == \A p \in Lives : key[p] # NoOne => key[p] = keyFile

\* Whatever version the ledger was found at, whatever died half-way: at the newest
\* version it is what the contract of schema.ts wants, but for tables it had
\* before (migrate).
MigratedWhole == db.version = Newest => db.schema \ Strays = Contract

\* Who serves does so on the ledger it checked, under the policy of the ledger, or
\* under the one that the ledger had before a drain narrowed it to one seat: the ledger
\* never has more seats than a connector that serves it was configured with, and never
\* other terms (claimDurablePolicy, completeSoftDrainTo1IfSettled).
ServingAgree ==
  \A p \in Lives : at[p] = "serving" =>
    /\ db.row.policy \in {PolicyOf[p], OneSeat(PolicyOf[p])}
    /\ db.version = Newest /\ db.schema = Contract

\* No start takes back the policy that was claimed, the drain that was begun or the
\* version that was reached, also when it migrates while others claim and drain: only
\* a connector that serves changes the row, from three seats to draining to one
\* (transaction, migrateV2ToV3).
NothingTakenBack ==
  [][/\ Claimed /\ db'.row # db.row =>
          /\ UNCHANGED at /\ \E p \in Lives : at[p] = "serving"
          /\ db.row.policy.seats = DrainFrom
          /\ db'.row \in {Row(db.row.policy, TRUE), Row(OneSeat(db.row.policy), FALSE)}
     /\ db'.version >= db.version]_vars

\* Every start ends: the connector serves or fails, also when the publisher of the key
\* died before it removed the second link (readStableAdmissionKey).
StartEnds == \A p \in Lives : at[p] = "read" ~> at[p] \in Ends
=============================================================================
