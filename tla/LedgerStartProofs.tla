------------------------- MODULE LedgerStartProofs -------------------------
(***************************************************************************)
(* Theorems of LedgerStart: its types, the one key, the whole schema, the  *)
(* agreement of those who serve, and that nothing is taken back, for every *)
(* number of starts and policies.                                          *)
(***************************************************************************)
EXTENDS LedgerStart, TLAPS

\* The schema a ledger of each version has, as the migrations need it.
WholeAt(l) ==
  /\ l.version = 0 => l.schema \in {{}, Base({"other"})}
  /\ l.version = 1 => l.schema \ Strays \in {Version1, Version1 \cup Early}
  /\ l.version = 2 => l.schema \ (Strays \cup {OldCheck}) = Version2(Version1)
  /\ l.version = 3 => l.schema \ Strays = Contract

\* A key that is not removed yet from its other name is the one on disk, and so is
\* every key a start has.
KeyInv ==
  /\ \A p \in Lives : key[p] # NoOne => key[p] = keyFile
  /\ \A p \in Lives : at[p] = "unlink" => keyFile = p

\* The lock is held through the migration; what the transaction sees is the committed
\* ledger, some versions on.
DraftInv(p) ==
  /\ writer = p
  /\ WholeAt(draft[p]) /\ draft[p].version <= Newest
  /\ draft[p].row = db.row /\ db.version <= draft[p].version
  /\ db.version = Newest => draft[p] = db

LockInv ==
  /\ \A p \in Lives : at[p] = "migrate" => DraftInv(p)
  /\ \A p \in Lives : writer = p => at[p] = "migrate"

\* The row is unclaimed, or steady, or draining from the seats a drain starts at.
RowInv == db.row \in ClaimedRows \cup {NoRow}

\* Who claims has compared the schema, and who serves has claimed; a drain since then
\* has left one seat.
CheckedInv ==
  \A p \in Lives :
    /\ at[p] \in {"claim", "serving"} => db.version = Newest /\ db.schema = Contract
    /\ at[p] = "serving" => db.row.policy \in {PolicyOf[p], OneSeat(PolicyOf[p])}

StartInv == TypeOK /\ WholeAt(db) /\ KeyInv /\ LockInv /\ RowInv /\ CheckedInv

----------------------------------------------------------------------------
(* What the migrations make of a schema.                                   *)

\* The parts of every version are parts.
LEMMA PartsKept ==
  /\ Version1 \subseteq Parts /\ Contract \subseteq Parts
  /\ \A s \in SUBSET Parts : Version2(s) \subseteq Parts /\ Version3(s) \subseteq Parts
BY DEF Parts, Version1, Version2, Version3, Contract, Base, FirstTables, SecondTables

\* A schema of no tables becomes version 1.
LEMMA WholeFirst ==
  ASSUME NEW s, s \in {{}, Base({"other"})}, s \cap Base(FirstTables \cup SecondTables) = {}
  PROVE  (s \cup Version1) \ Strays = Version1
<1>1. "other" \in FirstTables \cup SecondTables
  BY DEF FirstTables
<1>2. s = {}
  BY <1>1 DEF Base
<1>3. \A f \in Version1 : f \notin Strays
  BY DEF Version1, Strays, Base, FirstTables
<1>4. QED
  BY <1>2, <1>3

\* Version 1 with a table of version 2 is refused; without, it becomes version 2.
LEMMA WholeSecond ==
  ASSUME NEW s \in SUBSET Parts, s \ Strays \in {Version1, Version1 \cup Early},
         SecondTables \cap Tables(s) = {}
  PROVE  Version2(s) \ (Strays \cup {OldCheck}) = Version2(Version1)
<1>1. \A f \in s : f[1] \notin SecondTables
  BY DEF Tables
<1>2. \A f \in Early : f \notin s
  BY <1>1 DEF Early, SecondTables
<1>3. s \ Strays = Version1
  <2>1. \E f \in Early : f \notin Strays
    BY DEF Early, Strays
  <2>2. QED
    BY <1>2, <2>1
<1>4. OldCheck \notin s
  BY <1>1 DEF OldCheck, SecondTables
<1>5. \A f \in Version2(Version1) : f \notin Strays \cup {OldCheck}
  <2>1. \A f \in Version2(Version1) : f[1] # "old_scheme" /\ (f[1] = "policy_state" => f[2] = "base")
    BY DEF Version2, Version1, Base, FirstTables, SecondTables
  <2>2. \A f \in Strays : f[1] = "old_scheme"
    BY DEF Strays
  <2>3. OldCheck[1] = "policy_state" /\ OldCheck[2] # "base"
    BY DEF OldCheck
  <2>4. QED
    BY <2>1, <2>2, <2>3
<1>6. Version2(s) \ (Strays \cup {OldCheck}) \subseteq Version2(Version1)
  BY <1>3, <1>4 DEF Version2
<1>7. Version2(Version1) \subseteq Version2(s)
  BY <1>3 DEF Version2
<1>8. QED
  BY <1>5, <1>6, <1>7

\* Version 2, whatever check policy_state had, becomes the contract.
LEMMA WholeThird ==
  ASSUME NEW s \in SUBSET Parts, s \ (Strays \cup {OldCheck}) = Version2(Version1)
  PROVE  Version3(s) \ Strays = Contract
<1> DEFINE V == Version2(Version1)
<1>1. Contract = {f \in V : f[1] # "policy_state"} \cup Base({"policy_state"})
  BY DEF Contract, Version2, Version1, Base, FirstTables, SecondTables
<1>2. OldCheck[1] = "policy_state"
  BY DEF OldCheck
<1>3. \A f \in Contract : f \notin Strays
  BY DEF Contract, Strays, Base
<1> HIDE DEF V
<1>4. {f \in s : f[1] # "policy_state"} \ Strays = {f \in V : f[1] # "policy_state"} \ Strays
  BY <1>2 DEF V
<1>5. QED
  BY <1>1, <1>3, <1>4 DEF Version3

----------------------------------------------------------------------------
(* The row of policy_state.                                                *)

\* A drained policy is a policy of one seat, and draining it again changes nothing.
LEMMA OneSeatPolicy ==
  ASSUME NEW x \in Policies
  PROVE  /\ OneSeat(x) \in Policies /\ x # NoPolicy /\ OneSeat(x) # NoPolicy
         /\ OneSeat(x).seats = 1 /\ OneSeat(OneSeat(x)) = OneSeat(x)
<1>1. OneSeat(x) \in Policies /\ OneSeat(x).seats = 1 /\ OneSeat(OneSeat(x)) = OneSeat(x)
  BY SeatsAssumption DEF OneSeat, Policies
<1>2. QED
  BY <1>1, PolicyAssumption

\* What the rows are that claims and drains leave.
LEMMA RowShape ==
  /\ \A x \in Policies : Row(x, FALSE) \in ClaimedRows
  /\ \A x \in Policies : x.seats = DrainFrom => Row(x, TRUE) \in ClaimedRows
  /\ \A r \in ClaimedRows \cup {NoRow} :
       /\ r \in Rows /\ r = Row(r.policy, r.draining)
       /\ r.policy = NoPolicy \/ r.policy \in Policies
       /\ r.draining => r.policy \in Policies /\ r.policy.seats = DrainFrom
<1>1. /\ \A x \in Policies : Row(x, FALSE) \in ClaimedRows
      /\ \A x \in Policies : x.seats = DrainFrom => Row(x, TRUE) \in ClaimedRows
  BY DEF ClaimedRows
<1>2. ASSUME NEW x \in Policies \cup {NoPolicy}, NEW b \in BOOLEAN
      PROVE  Row(x, b) \in Rows /\ Row(x, b).policy = x /\ Row(x, b).draining = b
  BY DEF Row, Rows
<1>3. ASSUME NEW r \in ClaimedRows \cup {NoRow}
      PROVE  \E x \in Policies \cup {NoPolicy}, b \in BOOLEAN :
               r = Row(x, b) /\ (b => x \in Policies /\ x.seats = DrainFrom)
  BY DEF ClaimedRows, NoRow
<1>4. ASSUME NEW r \in ClaimedRows \cup {NoRow}
      PROVE  /\ r \in Rows /\ r = Row(r.policy, r.draining)
             /\ r.policy = NoPolicy \/ r.policy \in Policies
             /\ r.draining => r.policy \in Policies /\ r.policy.seats = DrainFrom
  <2>1. PICK x \in Policies \cup {NoPolicy}, b \in BOOLEAN :
               r = Row(x, b) /\ (b => x \in Policies /\ x.seats = DrainFrom)
    BY <1>3
  <2>2. r \in Rows /\ r.policy = x /\ r.draining = b
    BY <1>2, <2>1
  <2>3. QED
    BY <2>1, <2>2
<1>5. QED
  BY <1>1, <1>4

\* Whatever a start may find is whole, in the range of the ledgers, and has a row that
\* claims and drains leave.
LEMMA FoundWhole == \A l \in Found : l \in Ledgers /\ WholeAt(l) /\ l.row \in ClaimedRows \cup {NoRow}
<1> SUFFICES ASSUME NEW l \in Found PROVE l \in Ledgers /\ WholeAt(l) /\ l.row \in ClaimedRows \cup {NoRow}
  OBVIOUS
<1> DEFINE Strange == {{}, Strays}
           Kept == ClaimedRows \cup {NoRow}
<1>r. NoRow \in Rows /\ Kept \subseteq Rows /\ ClaimedRows \subseteq Rows
  BY RowShape
<1>a. /\ Strays \subseteq Parts /\ Early \subseteq Parts /\ OldCheck \in Parts
      /\ Base({"other"}) \subseteq Parts
  BY DEF Parts, Version1, Base, FirstTables
<1>b. 0 \in 0..Newest + 1 /\ 1 \in 0..Newest + 1 /\ 2 \in 0..Newest + 1 /\ 3 \in 0..Newest + 1 /\ 4 \in 0..Newest + 1
  BY DEF Newest
<1>c. /\ \A f \in Version1 : f \notin Strays
      /\ \A f \in Version2(Version1) : f[1] # "old_scheme" /\ (f[1] = "policy_state" => f[2] = "base")
      /\ \A f \in Contract : f[1] # "old_scheme"
      /\ \A f \in Strays : f[1] = "old_scheme"
      /\ \A f \in Early : f \notin Strays
      /\ OldCheck[1] = "policy_state" /\ OldCheck[2] # "base"
  BY DEF Version1, Version2, Contract, Strays, Early, OldCheck, Base, FirstTables, SecondTables
<1>1. CASE l \in {[version |-> 0, schema |-> {}, row |-> NoRow],
                  [version |-> 0, schema |-> Base({"other"}), row |-> NoRow]}
  BY <1>1, <1>a, <1>b, <1>r DEF Ledgers, WholeAt
<1>2. CASE l \in [version : {1}, schema : {Version1 \cup x : x \in Strange \cup {Early}}, row : {NoRow}]
  <2>1. PICK x \in Strange \cup {Early} : l.schema = Version1 \cup x
    BY <1>2
  <2>2. l.schema \ Strays \in {Version1, Version1 \cup Early}
    BY <2>1, <1>c
  <2>3. l.schema \subseteq Parts
    BY <2>1, <1>a, PartsKept
  <2>4. QED
    BY <1>2, <1>b, <1>r, <2>2, <2>3 DEF Ledgers, WholeAt
<1>3. CASE l \in [version : {2}, schema : {Version2(Version1) \cup {OldCheck} \cup x : x \in Strange}, row : Kept]
  <2>1. PICK x \in Strange : l.schema = Version2(Version1) \cup {OldCheck} \cup x
    BY <1>3
  <2>2. \A f \in Version2(Version1) : f \notin Strays \cup {OldCheck}
    BY <1>c
  <2>3. l.schema \ (Strays \cup {OldCheck}) = Version2(Version1)
    BY <2>1, <2>2
  <2>4. l.schema \subseteq Parts
    BY <2>1, <1>a, PartsKept
  <2>5. QED
    BY <1>3, <1>b, <1>r, <2>3, <2>4 DEF Ledgers, WholeAt
<1>4. CASE l \in [version : {3}, schema : {Contract \cup x : x \in Strange}, row : Kept]
  <2>1. PICK x \in Strange : l.schema = Contract \cup x
    BY <1>4
  <2>2. l.schema \ Strays = Contract
    BY <2>1, <1>c
  <2>3. l.schema \subseteq Parts
    BY <2>1, <1>a, PartsKept
  <2>4. QED
    BY <1>4, <1>b, <1>r, <2>2, <2>3 DEF Ledgers, WholeAt
<1>5. CASE l \in [version : {4}, schema : {Contract}, row : ClaimedRows]
  BY <1>5, <1>b, <1>r, PartsKept DEF Ledgers, WholeAt
<1>6. QED
  BY <1>1, <1>2, <1>3, <1>4, <1>5 DEF Found

LEMMA NoDraftLedger == NoDraft \in Ledgers
BY RowShape DEF NoDraft, Ledgers, Newest

LEMMA InitStartInv == Init => StartInv
<1> SUFFICES ASSUME Init PROVE StartInv
  OBVIOUS
<1>1. db \in Ledgers /\ WholeAt(db) /\ RowInv
  BY FoundWhole DEF Init, RowInv
<1>2. NoDraft \in Ledgers
  BY NoDraftLedger
<1>3. TypeOK
  <2>1. 0 \in 0..Retries
    BY RetryAssumption
  <2>2. temps \subseteq Lives /\ keyFile \in Lives \cup {NoOne}
    BY LifeAssumption DEF Init
  <2>3. QED
    BY <1>1, <1>2, <2>1, <2>2 DEF Init, TypeOK, Ends
<1>4. KeyInv /\ LockInv /\ CheckedInv
  BY LifeAssumption DEF Init, KeyInv, LockInv, CheckedInv
<1>5. QED
  BY <1>1, <1>3, <1>4 DEF StartInv

----------------------------------------------------------------------------
(* Every step keeps StartInv. *)

\* The migrations keep what DraftInv says of a draft, and its type.
LEMMA MigrateStep ==
  ASSUME StartInv, NEW p \in Lives, CreateInitialV1Schema(p) \/ MigrateV1ToV2(p) \/ MigrateV2ToV3(p)
  PROVE  \E l \in Ledgers :
           /\ draft' = [draft EXCEPT ![p] = l]
           /\ WholeAt(l) /\ l.row = draft[p].row
           /\ l.version = draft[p].version + 1 /\ l.version <= Newest
           /\ at[p] = "migrate" /\ UNCHANGED <<keyVars, db, writer, at>>
<1> DEFINE s == draft[p].schema
<1>0. draft[p] \in Ledgers /\ at[p] = "migrate" /\ WholeAt(draft[p])
  BY DEF StartInv, TypeOK, LockInv, DraftInv, Migrate, CreateInitialV1Schema, MigrateV1ToV2, MigrateV2ToV3
<1> DEFINE After(v, x) == [draft[p] EXCEPT !.version = v + 1, !.schema = x]
           Goal(l) == /\ draft' = [draft EXCEPT ![p] = l]
                      /\ WholeAt(l) /\ l.row = draft[p].row
                      /\ l.version = draft[p].version + 1 /\ l.version <= Newest
                      /\ at[p] = "migrate" /\ UNCHANGED <<keyVars, db, writer, at>>
<1>1. ASSUME NEW v \in 0..2, NEW x \in SUBSET Parts, Migrate(p, v, x), WholeAt(After(v, x))
      PROVE  After(v, x) \in Ledgers /\ Goal(After(v, x))
  <2>1. v + 1 \in 0..Newest + 1 /\ v + 1 <= Newest
    BY <1>1 DEF Newest
  <2>2. After(v, x) \in Ledgers
    BY <1>0, <1>1, <2>1 DEF Ledgers
  <2>3. draft[p].version = v /\ After(v, x).row = draft[p].row /\ After(v, x).version = v + 1
    BY <1>0, <1>1 DEF Ledgers, Migrate
  <2>4. draft' = [draft EXCEPT ![p] = After(v, x)]
    BY <1>0, <1>1 DEF Migrate, Ledgers, StartInv, TypeOK
  <2>5. QED
    BY <1>0, <1>1, <2>1, <2>2, <2>3, <2>4 DEF Migrate
<1>a. 0 \in 0..2 /\ 1 \in 0..2 /\ 2 \in 0..2
  OBVIOUS
<1>2. CASE CreateInitialV1Schema(p)
  <2>1. draft[p].version = 0 /\ Migrate(p, 0, s \cup Version1)
    BY <1>2 DEF CreateInitialV1Schema, Migrate
  <2>2. (s \cup Version1) \ Strays = Version1
    BY <1>0, <1>2, <2>1, WholeFirst DEF WholeAt, CreateInitialV1Schema
  <2>3. WholeAt(After(0, s \cup Version1))
    BY <1>0, <2>2 DEF WholeAt, Ledgers
  <2>4. s \cup Version1 \in SUBSET Parts
    BY <1>0, PartsKept DEF Ledgers
  <2>5. After(0, s \cup Version1) \in Ledgers /\ Goal(After(0, s \cup Version1))
    BY <1>1, <1>a, <2>1, <2>3, <2>4
  <2> HIDE DEF After, Goal
  <2>6. \E l \in Ledgers : Goal(l)
    BY <2>5
  <2>7. QED
    BY <2>6 DEF Goal
<1>3. CASE MigrateV1ToV2(p)
  <2>1. draft[p].version = 1 /\ Migrate(p, 1, Version2(s))
    BY <1>3 DEF MigrateV1ToV2, Migrate
  <2>2. Version2(s) \ (Strays \cup {OldCheck}) = Version2(Version1)
    BY <1>0, <1>3, <2>1, WholeSecond DEF WholeAt, MigrateV1ToV2, Ledgers
  <2>3. WholeAt(After(1, Version2(s)))
    BY <1>0, <2>2 DEF WholeAt, Ledgers
  <2>4. Version2(s) \in SUBSET Parts
    BY <1>0, PartsKept DEF Ledgers
  <2>5. After(1, Version2(s)) \in Ledgers /\ Goal(After(1, Version2(s)))
    BY <1>1, <1>a, <2>1, <2>3, <2>4
  <2> HIDE DEF After, Goal
  <2>6. \E l \in Ledgers : Goal(l)
    BY <2>5
  <2>7. QED
    BY <2>6 DEF Goal
<1>4. CASE MigrateV2ToV3(p)
  <2>1. draft[p].version = 2 /\ Migrate(p, 2, Version3(s))
    BY <1>4 DEF MigrateV2ToV3, Migrate
  <2>2. Version3(s) \ Strays = Contract
    BY <1>0, <2>1, WholeThird DEF WholeAt, Ledgers
  <2>3. WholeAt(After(2, Version3(s)))
    BY <1>0, <2>2 DEF WholeAt, Ledgers
  <2>4. Version3(s) \in SUBSET Parts
    BY <1>0, PartsKept DEF Ledgers
  <2>5. After(2, Version3(s)) \in Ledgers /\ Goal(After(2, Version3(s)))
    BY <1>1, <1>a, <2>1, <2>3, <2>4
  <2> HIDE DEF After, Goal
  <2>6. \E l \in Ledgers : Goal(l)
    BY <2>5
  <2>7. QED
    BY <2>6 DEF Goal
<1>5. QED
  BY <1>2, <1>3, <1>4
\* A step that leaves the ledger alone, and brings a start neither to the migration nor
\* past the check, keeps what is said of the ledger.
LEMMA QuietStep ==
  ASSUME StartInv, UNCHANGED ledgerVars, NEW p \in Lives,
         NEW s \in KeySteps \cup {"open", "check", "failed", "dead"},
         at' = [at EXCEPT ![p] = s], at[p] # "migrate"
  PROVE  WholeAt(db)' /\ LockInv' /\ RowInv' /\ CheckedInv'
<1> USE DEF StartInv, TypeOK, ledgerVars
<1>1. WholeAt(db)'
  BY DEF WholeAt
<1>2. LockInv'
  BY DEF LockInv, DraftInv, WholeAt, KeySteps
<1>3. RowInv' /\ CheckedInv'
  BY DEF RowInv, CheckedInv, KeySteps
<1>4. QED
  BY <1>1, <1>2, <1>3

\* The steps before the migration change the key files and the place of one start.
LEMMA KeyStep ==
  ASSUME StartInv, NEW p \in Lives, Begin(p) \/ KeyNext(p)
  PROVE  StartInv'
<1> USE DEF StartInv, TypeOK, KeyInv, keyVars
<1> DEFINE Quiet == /\ UNCHANGED ledgerVars /\ at[p] # "migrate"
                    /\ \E s \in KeySteps \cup {"open", "check", "failed", "dead"} : at' = [at EXCEPT ![p] = s]
<1>0. ASSUME Quiet, TypeOK', KeyInv' PROVE StartInv'
  BY <1>0, QuietStep
<1>1. CASE Begin(p)
  <2>1. Quiet
    BY <1>1 DEF Begin, Step, KeySteps
  <2>2. TypeOK' /\ KeyInv'
    BY <1>1 DEF Begin, Step, ledgerVars, KeySteps
  <2>3. QED
    BY <1>0, <2>1, <2>2
<1>2. ASSUME NEW s \in {"read", "reread"}, ReadKey(p, s) PROVE StartInv'
  <2>1. Quiet
    BY <1>2 DEF ReadKey, Fail, Step, KeySteps
  <2>2. TypeOK'
    <3>1. tries' \in [Lives -> 0..Retries]
      BY <1>2, RetryAssumption DEF ReadKey
    <3>2. QED
      BY <1>2, <3>1 DEF ReadKey, Fail, Step, ledgerVars, KeySteps, LedgerSteps, Ends
  <2>3. KeyInv'
    BY <1>2 DEF ReadKey, Fail, Step
  <2>4. QED
    BY <1>0, <2>1, <2>2, <2>3
<1>3. CASE keyFile = NoOne /\ Step(p, "read", "temporary") /\ UNCHANGED <<keyVars, ledgerVars>>
  <2>1. Quiet
    BY <1>3 DEF Step, KeySteps
  <2>2. TypeOK' /\ KeyInv'
    BY <1>3 DEF Step, ledgerVars, KeySteps
  <2>3. QED
    BY <1>0, <2>1, <2>2
<1>4. CASE WriteTemporary(p)
  <2>1. Quiet
    BY <1>4 DEF WriteTemporary, Fail, Step, KeySteps
  <2>2. TypeOK'
    BY <1>4 DEF WriteTemporary, Fail, Step, ledgerVars, KeySteps, Ends
  <2>3. KeyInv'
    BY <1>4 DEF WriteTemporary, Fail, Step
  <2>4. QED
    BY <1>0, <2>1, <2>2, <2>3
<1>5. CASE LinkKey(p)
  <2>1. Quiet
    BY <1>5 DEF LinkKey, Fail, Step, KeySteps
  <2>2. TypeOK'
    BY <1>5 DEF LinkKey, Fail, Step, ledgerVars, KeySteps, Ends
  <2>3. KeyInv'
    BY <1>5, LifeAssumption DEF LinkKey, Fail, Step
  <2>4. QED
    BY <1>0, <2>1, <2>2, <2>3
<1>6. CASE UnlinkTemporary(p)
  <2>1. Quiet
    BY <1>6 DEF UnlinkTemporary, Fail, Step, KeySteps
  <2>2. TypeOK'
    BY <1>6 DEF UnlinkTemporary, Fail, Step, ledgerVars, LedgerSteps, Ends
  <2>3. KeyInv'
    BY <1>6 DEF UnlinkTemporary, Fail, Step
  <2>4. QED
    BY <1>0, <2>1, <2>2, <2>3
<1>7. CASE DiscardTemporary(p)
  <2>1. Quiet
    BY <1>7 DEF DiscardTemporary, Fail, Step, KeySteps
  <2>2. TypeOK'
    BY <1>7 DEF DiscardTemporary, Fail, Step, ledgerVars, KeySteps, Ends
  <2>3. KeyInv'
    BY <1>7 DEF DiscardTemporary, Fail, Step
  <2>4. QED
    BY <1>0, <2>1, <2>2, <2>3
<1>8. QED
  BY <1>1, <1>2, <1>3, <1>4, <1>5, <1>6, <1>7 DEF KeyNext, FirstRead

\* The steps of the migration and of the claim.
LEMMA LedgerStep ==
  ASSUME StartInv, NEW p \in Lives, LedgerNext(p)
  PROVE  StartInv'
<1> USE DEF StartInv, TypeOK
<1>0. NoDraft \in Ledgers
  BY NoDraftLedger
<1>k. ASSUME UNCHANGED <<keyFile, key>>, at'[p] # "unlink", \A q \in Lives : q # p => at'[q] = at[q]
      PROVE  KeyInv'
  BY <1>k DEF KeyInv
<1>1. CASE BeginMigration(p)
  <2>1. CASE db.version > Newest
    <3>1. at' = [at EXCEPT ![p] = "failed"] /\ at[p] = "open" /\ UNCHANGED <<keyVars, ledgerVars>>
      BY <1>1, <2>1 DEF BeginMigration, Fail, Step, ledgerVars, Newest, Ledgers
    <3>2. TypeOK'
      BY <3>1 DEF keyVars, ledgerVars, Ends
    <3>3. QED
      BY <1>k, <3>1, <3>2, QuietStep DEF keyVars
  <2>2. CASE db.version <= Newest
    <3>1. /\ at' = [at EXCEPT ![p] = "migrate"] /\ at[p] = "open" /\ writer = NoOne
          /\ draft' = [draft EXCEPT ![p] = db] /\ writer' = p /\ UNCHANGED <<keyVars, db>>
      BY <1>1, <2>2 DEF BeginMigration, Fail, Step, Newest, Ledgers
    <3>2. TypeOK'
      BY <3>1 DEF keyVars, LedgerSteps
    <3>3. \A q \in Lives : at[q] # "migrate"
      BY <3>1, LifeAssumption DEF LockInv, DraftInv
    <3>4. db.version \in Nat
      BY DEF Ledgers
    <3>5. LockInv'
      BY <2>2, <3>1, <3>3, <3>4 DEF LockInv, DraftInv, WholeAt
    <3>6. WholeAt(db)' /\ RowInv' /\ CheckedInv'
      BY <3>1 DEF WholeAt, RowInv, CheckedInv
    <3>7. QED
      BY <1>k, <3>1, <3>2, <3>5, <3>6 DEF keyVars
  <2>3. QED
    BY <1>1, <2>1, <2>2 DEF BeginMigration
<1>2. CASE Busy(p)
  <2>1. at' = [at EXCEPT ![p] = "failed"] /\ at[p] # "migrate" /\ UNCHANGED <<keyVars, ledgerVars>>
    BY <1>2 DEF Busy, Fail, Step
  <2>2. TypeOK'
    BY <2>1 DEF keyVars, ledgerVars, Ends
  <2>3. QED
    BY <1>k, <2>1, <2>2, QuietStep DEF keyVars
<1>3. CASE CreateInitialV1Schema(p) \/ MigrateV1ToV2(p) \/ MigrateV2ToV3(p)
  <2>1. PICK l \in Ledgers :
           /\ draft' = [draft EXCEPT ![p] = l]
           /\ WholeAt(l) /\ l.row = draft[p].row
           /\ l.version = draft[p].version + 1 /\ l.version <= Newest
           /\ at[p] = "migrate" /\ UNCHANGED <<keyVars, db, writer, at>>
    BY <1>3, MigrateStep
  <2>2. TypeOK'
    BY <2>1 DEF keyVars
  <2>3. draft[p].version \in Nat /\ db.version \in Nat
    BY DEF Ledgers
  <2>4. DraftInv(p)'
    <3>1. DraftInv(p)
      BY <2>1 DEF LockInv
    <3>2. db.version < Newest
      BY <2>1, <2>3, <3>1 DEF DraftInv, Newest
    <3>3. QED
      BY <2>1, <2>3, <3>1, <3>2 DEF DraftInv, WholeAt, Newest
  <2>5. \A q \in Lives : q # p => at[q] # "migrate"
    BY <2>1 DEF LockInv, DraftInv
  <2>6. LockInv'
    BY <2>1, <2>4, <2>5 DEF LockInv
  <2>7. WholeAt(db)' /\ RowInv' /\ CheckedInv'
    BY <2>1 DEF WholeAt, RowInv, CheckedInv
  <2>8. QED
    BY <2>1, <2>2, <2>6, <2>7 DEF KeyInv, keyVars
<1>4. CASE Commit(p)
  <2>1. /\ draft[p].version = Newest /\ at[p] = "migrate" /\ at' = [at EXCEPT ![p] = "check"]
        /\ db' = draft[p] /\ writer' = NoOne /\ draft' = [draft EXCEPT ![p] = NoDraft] /\ UNCHANGED keyVars
    BY <1>4 DEF Commit, Step
  <2>2. TypeOK'
    BY <1>0, <2>1 DEF keyVars, LedgerSteps
  <2>3. DraftInv(p) /\ \A q \in Lives : q # p => at[q] # "migrate"
    BY <2>1 DEF LockInv, DraftInv
  <2>4. LockInv'
    BY <2>1, <2>3, LifeAssumption DEF LockInv
  <2>5. WholeAt(db)'
    BY <2>1, <2>3 DEF WholeAt, DraftInv
  <2>6. RowInv' /\ CheckedInv'
    BY <2>1, <2>3 DEF RowInv, CheckedInv, DraftInv
  <2>7. QED
    BY <1>k, <2>1, <2>2, <2>4, <2>5, <2>6 DEF keyVars
<1>5. CASE RollBack(p)
  <2>1. /\ at[p] = "migrate" /\ at' = [at EXCEPT ![p] = "failed"]
        /\ writer' = NoOne /\ draft' = [draft EXCEPT ![p] = NoDraft] /\ UNCHANGED <<keyVars, db>>
    BY <1>5 DEF RollBack, Fail, Step
  <2>2. TypeOK'
    BY <1>0, <2>1 DEF keyVars, Ends
  <2>3. \A q \in Lives : q # p => at[q] # "migrate"
    BY <2>1 DEF LockInv, DraftInv
  <2>4. LockInv'
    BY <2>1, <2>3, LifeAssumption DEF LockInv
  <2>5. WholeAt(db)' /\ RowInv' /\ CheckedInv'
    BY <2>1 DEF WholeAt, RowInv, CheckedInv
  <2>6. QED
    BY <1>k, <2>1, <2>2, <2>4, <2>5 DEF keyVars
<1>6. CASE CheckSchema(p)
  <2>1. CASE db.version = Newest /\ db.schema = Contract
    <3>1. at[p] = "check" /\ at' = [at EXCEPT ![p] = "claim"] /\ UNCHANGED <<keyVars, ledgerVars>>
      BY <1>6, <2>1 DEF CheckSchema, Step
    <3>2. TypeOK'
      BY <3>1 DEF keyVars, ledgerVars, LedgerSteps
    <3>3. LockInv'
      BY <3>1 DEF LockInv, DraftInv, WholeAt, ledgerVars
    <3>4. WholeAt(db)' /\ RowInv' /\ CheckedInv'
      BY <2>1, <3>1 DEF WholeAt, RowInv, CheckedInv, ledgerVars
    <3>5. QED
      BY <1>k, <3>1, <3>2, <3>3, <3>4 DEF keyVars
  <2>2. CASE ~(db.version = Newest /\ db.schema = Contract)
    <3>1. at[p] = "check" /\ at' = [at EXCEPT ![p] = "failed"] /\ UNCHANGED <<keyVars, ledgerVars>>
      BY <1>6, <2>2 DEF CheckSchema, Step
    <3>2. TypeOK'
      BY <3>1 DEF keyVars, ledgerVars, Ends
    <3>3. QED
      BY <1>k, <3>1, <3>2, QuietStep DEF keyVars
  <2>3. QED
    BY <2>1, <2>2
<1>7. CASE ClaimPolicy(p)
  <2>1. CASE Fail(p, "claim") /\ UNCHANGED db
    <3>1. at[p] = "claim" /\ at' = [at EXCEPT ![p] = "failed"] /\ UNCHANGED <<keyVars, ledgerVars>>
      BY <1>7, <2>1 DEF ClaimPolicy, Fail, Step, ledgerVars
    <3>2. TypeOK'
      BY <3>1 DEF keyVars, ledgerVars, Ends
    <3>3. QED
      BY <1>k, <3>1, <3>2, QuietStep DEF keyVars
  <2>2. CASE /\ Step(p, "claim", "serving")
             /\ \/ ~Claimed /\ db' = [db EXCEPT !.row = Row(PolicyOf[p], FALSE)]
                \/ Claimed /\ PolicyOf[p] = db.row.policy /\ UNCHANGED db
    <3>1. /\ at[p] = "claim" /\ at' = [at EXCEPT ![p] = "serving"] /\ writer = NoOne
          /\ UNCHANGED <<keyVars, writer, draft>>
      BY <1>7, <2>2 DEF ClaimPolicy, Step
    <3>a. PolicyOf[p] \in Policies
      BY PolicyAssumption
    <3>b. Row(PolicyOf[p], FALSE) \in ClaimedRows /\ Row(PolicyOf[p], FALSE) \in Rows
          /\ Row(PolicyOf[p], FALSE).policy = PolicyOf[p]
      BY <3>a, RowShape DEF Row
    <3>2. /\ db' \in Ledgers /\ db'.version = db.version /\ db'.schema = db.schema
          /\ RowInv' /\ db'.row.policy = PolicyOf[p] /\ (Claimed => db'.row.policy = db.row.policy)
      BY <2>2, <3>b DEF Ledgers, RowInv
    <3>3. TypeOK'
      BY <3>1, <3>2 DEF keyVars, Ends
    <3>4. \A q \in Lives : at[q] # "migrate"
      BY <3>1, LifeAssumption DEF LockInv, DraftInv
    <3>5. LockInv'
      BY <3>1, <3>4, LifeAssumption DEF LockInv
    <3>6. WholeAt(db)'
      BY <3>2 DEF WholeAt
    <3>7. CheckedInv'
      <4>1. db.version = Newest /\ db.schema = Contract
        BY <3>1 DEF CheckedInv
      <4>2. ASSUME NEW q \in Lives, at'[q] = "serving"
            PROVE  db'.row.policy \in {PolicyOf[q], OneSeat(PolicyOf[q])}
        <5>1. CASE q = p
          BY <3>2, <5>1
        <5>2. CASE q # p
          <6>1. db.row.policy \in {PolicyOf[q], OneSeat(PolicyOf[q])} /\ PolicyOf[q] \in Policies
            BY <3>1, <4>2, <5>2, PolicyAssumption DEF CheckedInv
          <6>2. Claimed
            BY <6>1, OneSeatPolicy DEF Claimed
          <6>3. QED
            BY <3>2, <6>1, <6>2
        <5>3. QED
          BY <5>1, <5>2
      <4>3. QED
        BY <3>2, <4>1, <4>2 DEF CheckedInv
    <3>8. QED
      BY <1>k, <3>1, <3>2, <3>3, <3>5, <3>6, <3>7 DEF keyVars
  <2>3. QED
    BY <1>7, <2>1, <2>2 DEF ClaimPolicy, Fail
<1>8. QED
  BY <1>1, <1>2, <1>3, <1>4, <1>5, <1>6, <1>7 DEF LedgerNext

\* Whoever serves changes only the row, from a policy of three seats to draining or to
\* one seat of it.
LEMMA ServeRow ==
  ASSUME StartInv, NEW p \in Lives, ServeNext(p)
  PROVE  /\ at[p] = "serving" /\ writer = NoOne /\ UNCHANGED <<keyVars, writer, draft, at>>
         /\ db.row.policy \in Policies /\ db.row.policy.seats = DrainFrom
         /\ db' \in Ledgers /\ db'.version = db.version /\ db'.schema = db.schema
         /\ RowInv'
         /\ db'.row \in {Row(db.row.policy, TRUE), Row(OneSeat(db.row.policy), FALSE)}
         /\ db'.row.policy \in {db.row.policy, OneSeat(db.row.policy)}
<1>1. at[p] = "serving" /\ writer = NoOne /\ UNCHANGED <<keyVars, writer, draft, at>>
  BY DEF ServeNext, BeginSoftDrainTo1, CompleteSoftDrainTo1IfSettled, ServingStep
<1>2. db.row.policy \in Policies
  <2>1. db.row.policy \in {PolicyOf[p], OneSeat(PolicyOf[p])} /\ PolicyOf[p] \in Policies
    BY <1>1, PolicyAssumption DEF StartInv, CheckedInv
  <2>2. QED
    BY <2>1, OneSeatPolicy
<1>3. db.row.policy.seats = DrainFrom
  BY RowShape DEF ServeNext, BeginSoftDrainTo1, CompleteSoftDrainTo1IfSettled, StartInv, RowInv
<1>4. \E r \in {Row(db.row.policy, TRUE), Row(OneSeat(db.row.policy), FALSE)} : db' = [db EXCEPT !.row = r]
  BY DEF ServeNext, BeginSoftDrainTo1, CompleteSoftDrainTo1IfSettled
<1>5. \A r \in {Row(db.row.policy, TRUE), Row(OneSeat(db.row.policy), FALSE)} :
        r \in ClaimedRows /\ r \in Rows /\ r.policy \in {db.row.policy, OneSeat(db.row.policy)}
  BY <1>2, <1>3, RowShape, OneSeatPolicy DEF Row
<1>6. QED
  BY <1>1, <1>2, <1>3, <1>4, <1>5 DEF StartInv, TypeOK, Ledgers, RowInv

LEMMA ServeStep ==
  ASSUME StartInv, NEW p \in Lives, ServeNext(p)
  PROVE  StartInv'
<1> USE DEF StartInv, TypeOK
<1>1. /\ at[p] = "serving" /\ writer = NoOne /\ UNCHANGED <<keyVars, writer, draft, at>>
      /\ db' \in Ledgers /\ db'.version = db.version /\ db'.schema = db.schema /\ RowInv'
      /\ db.row.policy \in Policies /\ db'.row.policy \in {db.row.policy, OneSeat(db.row.policy)}
  BY ServeRow
<1>2. TypeOK' /\ WholeAt(db)' /\ KeyInv'
  BY <1>1 DEF keyVars, WholeAt, KeyInv
<1>3. LockInv'
  BY <1>1, LifeAssumption DEF LockInv, DraftInv
<1>4. CheckedInv'
  <2>1. ASSUME NEW q \in Lives, at[q] = "serving"
        PROVE  db'.row.policy \in {PolicyOf[q], OneSeat(PolicyOf[q])}
    <3>1. db.row.policy \in {PolicyOf[q], OneSeat(PolicyOf[q])} /\ PolicyOf[q] \in Policies
      BY <2>1, PolicyAssumption DEF CheckedInv
    <3>2. OneSeat(OneSeat(PolicyOf[q])) = OneSeat(PolicyOf[q])
      BY <3>1, OneSeatPolicy
    <3>3. QED
      BY <1>1, <3>1, <3>2
  <2>2. QED
    BY <1>1, <2>1 DEF CheckedInv
<1>5. QED
  BY <1>1, <1>2, <1>3, <1>4

LEMMA DieStep ==
  ASSUME StartInv, NEW p \in Lives, Die(p)
  PROVE  StartInv'
<1> USE DEF StartInv, TypeOK
<1>1. NoDraft \in Ledgers
  BY NoDraftLedger
<1>2. TypeOK'
  BY <1>1 DEF Die, keyVars, Ends
<1>3. KeyInv'
  BY DEF Die, KeyInv, keyVars
<1>4. LockInv'
  BY LifeAssumption DEF Die, LockInv, DraftInv, WholeAt
<1>5. WholeAt(db)' /\ RowInv' /\ CheckedInv'
  BY DEF Die, WholeAt, RowInv, CheckedInv
<1>6. QED
  BY <1>2, <1>3, <1>4, <1>5

LEMMA StartAlways == Spec => []StartInv
<1>1. StartInv /\ [Next]_vars => StartInv'
  <2> SUFFICES ASSUME StartInv, [Next]_vars PROVE StartInv'
    OBVIOUS
  <2>1. CASE Next
    BY <2>1, KeyStep, LedgerStep, ServeStep, DieStep DEF Next, StartStep
  <2>2. CASE UNCHANGED vars
    BY <2>2 DEF vars, keyVars, ledgerVars, StartInv, TypeOK, WholeAt, KeyInv, LockInv, DraftInv, RowInv, CheckedInv
  <2>3. QED
    BY <2>1, <2>2
<1>2. QED
  BY InitStartInv, <1>1, PTL DEF Spec

----------------------------------------------------------------------------
(* The theorems. *)

\* The variables keep their types: a start reads a key that is being published as
\* often as the code says and no more (readStableAdmissionKey).
THEOREM StartTypeCorrect == Spec => []TypeOK
<1>1. StartInv => TypeOK
  BY DEF StartInv
<1>2. QED
  BY StartAlways, <1>1, PTL

\* Every connector has the key on disk (createAndPublishAdmissionKey), however many
\* publish at once.
THEOREM AlwaysOneKey == Spec => []OneKey
<1>1. StartInv => OneKey
  BY DEF StartInv, KeyInv, OneKey
<1>2. QED
  BY StartAlways, <1>1, PTL

\* A ledger of the newest version has the schema of the contract, and strays it had
\* before, from whatever version it came (migrate).
THEOREM AlwaysMigratedWhole == Spec => []MigratedWhole
<1>1. StartInv => MigratedWhole
  BY DEF StartInv, WholeAt, MigratedWhole, Newest
<1>2. QED
  BY StartAlways, <1>1, PTL

\* Those who serve agree with the ledger on its version and its schema, and on its
\* policy but for a drain to one seat (claimDurablePolicy, completeSoftDrainTo1IfSettled).
THEOREM AlwaysServingAgree == Spec => []ServingAgree
<1>1. StartInv => ServingAgree
  BY DEF StartInv, CheckedInv, ServingAgree
<1>2. QED
  BY StartAlways, <1>1, PTL

\* A claimed row is changed only by a drain of one that serves, from three seats to
\* draining to one, and the version never falls, whoever migrates, claims or drains
\* beside whom (transaction, claimDurablePolicy).
THEOREM AlwaysNothingTakenBack == Spec => NothingTakenBack
<1> DEFINE Drain == /\ UNCHANGED at /\ \E p \in Lives : at[p] = "serving"
                    /\ db.row.policy.seats = DrainFrom
                    /\ db'.row \in {Row(db.row.policy, TRUE), Row(OneSeat(db.row.policy), FALSE)}
           Kept == (Claimed /\ db'.row # db.row => Drain) /\ db'.version >= db.version
<1>1. StartInv /\ [Next]_vars => [Kept]_vars
  <2> SUFFICES ASSUME StartInv, NEW p \in Lives, Begin(p) \/ StartStep(p) \/ ServeNext(p) \/ Die(p)
               PROVE  Kept
    BY DEF Next
  <2>1. db.version \in Nat /\ db \in Ledgers
    BY DEF StartInv, TypeOK, Ledgers
  <2>2. CASE UNCHANGED db
    BY <2>1, <2>2
  <2>3. CASE Commit(p)
    <3>1. DraftInv(p)
      BY <2>3 DEF Commit, Step, StartInv, LockInv
    <3>2. draft[p].version \in Nat
      BY DEF StartInv, TypeOK, Ledgers
    <3>3. QED
      BY <2>1, <2>3, <3>1, <3>2 DEF Commit, DraftInv
  <2>4. CASE ClaimPolicy(p)
    <3>1. (Claimed => db' = db) /\ (~Claimed => db' = [db EXCEPT !.row = Row(PolicyOf[p], FALSE)])
      BY <2>4 DEF ClaimPolicy
    <3>2. CASE Claimed
      BY <2>1, <3>1, <3>2
    <3>3. CASE ~Claimed
      <4>1. db'.version = db.version
        BY <2>1, <3>1, <3>3 DEF Ledgers
      <4>2. db'.version >= db.version
        BY <2>1, <4>1
      <4>3. QED
        BY <3>3, <4>2
    <3>4. QED
      BY <3>2, <3>3
  <2>5. CASE ServeNext(p)
    <3>1. Drain /\ db'.version = db.version
      BY <2>5, ServeRow
    <3>2. db'.version >= db.version
      BY <2>1, <3>1
    <3>3. QED
      BY <3>1, <3>2
  <2>6. QED
    BY <2>2, <2>3, <2>4, <2>5 DEF Begin, StartStep, Die, KeyNext, LedgerNext, FirstRead, ReadKey, WriteTemporary,
      LinkKey, UnlinkTemporary, DiscardTemporary, BeginMigration, Busy, CreateInitialV1Schema,
      MigrateV1ToV2, MigrateV2ToV3, Migrate, RollBack, CheckSchema, ledgerVars
<1>2. QED
  BY StartAlways, <1>1, PTL DEF Spec, NothingTakenBack
=============================================================================
