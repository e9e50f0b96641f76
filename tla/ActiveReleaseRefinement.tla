---------------------- MODULE ActiveReleaseRefinement ----------------------
(***************************************************************************)
(* The lifecycle, with its lock file, its stages, its links and writers    *)
(* that die anywhere, implements ActiveRelease.                            *)
(*                                                                         *)
(* The argument: who works in the store is alone, so that what a call      *)
(* selected is still the successor of the active state when it renames the *)
(* link (CallsInv); that rename, the last chmod of a release and the       *)
(* first step of a removal are the moments at which calls take effect, and *)
(* a result is set when what it says is so.                                *)
(***************************************************************************)
EXTENDS ManagedKernelProofs

\* The releases the link keeps.
Kept == IF active = NoProc THEN {} ELSE {states[active].current} \cup states[active].previous

\* The state s follows the active one by the call of p.
Follows(p, s) ==
  /\ s.pins = PinsOf[p]
  /\ op[p] = "activate" =>
       /\ s.current = target[p]
       /\ s.previous = IF HasActive(PinsOf[p]) THEN {states[active].current} ELSE {}
       /\ active # NoProc => states[active].current # target[p]
  /\ op[p] = "rollback" =>
       /\ HasActive(PinsOf[p])
       /\ s.current \in states[active].previous /\ s.previous = {states[active].current}

Preparing == {"stage", "copy", "unpack", "patch", "attest", "publish", "seal"}

\* What the call of p has achieved so far.
ProgressInv(p) ==
  /\ step[p] \in Preparing => target[p].pins = PinsOf[p]
  /\ op[p] = "prepare" /\ step[p] \in {"resolver", "wrapper"} => Verified(target[p], PinsOf[p])
  /\ step[p] = "record" => Follows(p, plan[p])
  /\ step[p] = "commit" => Follows(p, states[p])
  /\ op[p] = "purge" /\ step[p] \in {"orphans", "tidy"} =>
       \A a \in Artifacts : releases[a] = "sealed" => a \in Kept

\* A call has nothing to report until it is about to end.
ReportInv == \A p \in Procs : step[p] \notin {"idle", "unlock", "unlink"} => result[p] = "none"

CallsInv == ReportInv /\ (~stolen => \A p \in Procs : ProgressInv(p))

----------------------------------------------------------------------------
(* What a step is, seen from the store. *)

\* A step outside the calls of the lifecycle.
Quiet ==
  /\ UNCHANGED <<releases, states, active, lock, dead, stolen, step, op, plan>>
  /\ \A q \in Procs : step[q] # "idle" => target'[q] = target[q] /\ result'[q] = result[q]

LEMMA StepKinds ==
  ASSUME KernelInv, [Next]_vars
  PROVE  \/ \E p \in Procs : StoreNext(p) /\ active' \in {active, p} /\ (active = p => step[p] # "record")
         \/ \E p \in Procs, o \in Ops, a \in Artifacts : Call(p, o, a)
         \/ \E p \in Procs : EndLife(p) /\ (phase[p] \in Ended \/ p \in MayCrash)
         \/ Quiet
<1> USE Groups
    DEF storeVars, machine, lockVars, tree, releaseVars, stateVars, wrapperVars, known, installVars, launchVars, Quiet
<1> DEFINE Goal == \/ \E p \in Procs : StoreNext(p) /\ active' \in {active, p} /\ (active = p => step[p] # "record")
                   \/ \E p \in Procs, o \in Ops, a \in Artifacts : Call(p, o, a)
                   \/ \E p \in Procs : EndLife(p) /\ (phase[p] \in Ended \/ p \in MayCrash)
                   \/ Quiet
<1>0. StoreTypeOK /\ phase \in [Procs -> Phases]
  BY DEF KernelInv, StoreInv, MoreTypeOK
<1>1. ASSUME NEW p \in Procs, UNCHANGED <<releases, states, active, lock, dead, stolen, step, op, plan>>, step[p] = "idle",
             target' = target \/ \E a : target' = [target EXCEPT ![p] = a],
             result' = result \/ \E r : result' = [result EXCEPT ![p] = r]
      PROVE  Quiet
  BY <1>0, <1>1 DEF StoreTypeOK
<1>2. ASSUME NEW p \in Procs, LockPathNext(p) PROVE Quiet
  <2>1. CASE Leave(p)
    <3>1. step[p] = "idle"
      BY <2>1 DEF Leave, At, KernelInv, PhaseInv
    <3>2. QED
      BY <1>1, <2>1, <3>1 DEF Leave
  <2>2. CASE ~Leave(p)
    BY <1>2, <2>2 DEF LockPathNext, LockStep, Start, MakeLock, WriteOwner, MakeReaper, ReadOwner, ProbeOwner, DropReaper, Pause
  <2>3. QED
    BY <2>1, <2>2
<1>3. ASSUME NEW p \in Procs, InstallNext(p) PROVE Quiet
  <2>1. step[p] = "idle"
    BY <1>3 DEF InstallNext, CheckStatus, CheckPayload, FetchPayload, SwapOut, SwapIn, At, KernelInv, PhaseInv
  <2>2. UNCHANGED <<releases, states, active, lock, dead, stolen, step, op, plan, target>>
    BY <1>3 DEF InstallNext, CheckStatus, CheckPayload, FetchPayload, SwapOut, SwapIn, StoreUnchangedBut
  <2>3. result' = result \/ \E r : result' = [result EXCEPT ![p] = r]
    BY <1>3, Zenon DEF InstallNext, CheckStatus, CheckPayload, FetchPayload, SwapOut, SwapIn, Abandon
  <2>4. QED
    BY <1>1, <2>1, <2>2, <2>3
<1>4. ASSUME NEW p \in Procs, LaunchNext(p) PROVE Quiet
  <2>1. step[p] = "idle"
    BY <1>4 DEF LaunchNext, ReadLink, ReadState, StartRelease, LaunchStep, At, KernelInv, PhaseInv
  <2>2. UNCHANGED <<releases, states, active, lock, dead, stolen, step, op, plan, result>>
    BY <1>4 DEF LaunchNext, ReadLink, ReadState, StartRelease, LaunchStep
  <2>3. target' = target \/ \E a : target' = [target EXCEPT ![p] = a]
    BY <1>4, Zenon DEF LaunchNext, ReadLink, ReadState, StartRelease
  <2>4. QED
    BY <1>1, <2>1, <2>2, <2>3
<1>5. ASSUME NEW p \in Procs, CallNext(p) \/ Command(p) PROVE Goal
  <2>0. target[p] \in Artifacts /\ {"prepare", "activate", "rollback", "cleanup", "purge"} \subseteq Ops
    BY <1>0 DEF StoreTypeOK, Ops
  <2>1. CASE CallPrepare(p)
    BY <2>0, <2>1 DEF CallPrepare
  <2>2. CASE Prepared(p)
    BY <2>0, <2>2 DEF Prepared
  <2>3. CASE Returned(p) \/ CommandDone(p)
    BY <2>3 DEF Returned, CommandDone, LockStep
  <2>4. CASE StoreStep(p)
    <3>1. StoreNext(p)
      BY <2>4 DEF StoreStep
    <3>2. active' \in {active, p}
      BY <1>0, <3>1, TreeEffect
    <3>3. active = p => step[p] # "record"
      BY ProcAssumption DEF KernelInv, LaunchInv, Committed, PhaseInv, Launching, Ended
    <3>4. QED
      BY <3>1, <3>2, <3>3
  <2>5. CASE Command(p)
    <3>1. \E o \in Ops, a \in Artifacts : Call(p, o, a)
      BY <2>0, <2>5 DEF Command
    <3>2. QED
      BY <3>1
  <2>6. QED
    BY <1>5, <2>1, <2>2, <2>3, <2>4, <2>5 DEF CallNext
<1>6. ASSUME NEW p \in Procs, End(p) PROVE Goal
  BY <1>6 DEF End
<1>7. CASE Upgrade \/ UNCHANGED vars
  BY <1>7 DEF Upgrade, UpgradePackage, vars
<1>8. QED
  BY <1>2, <1>3, <1>4, <1>5, <1>6, <1>7 DEF Next, LifeStep

----------------------------------------------------------------------------
(* CallsInv is inductive. *)

\* While a call is at its work, the steps of others leave alone what it relies on.
LEMMA OthersStay ==
  ASSUME StoreInv, NEW p \in Procs, NEW q \in Procs, q # p, StoreNext(p), step[q] \in Working, ~stolen'
  PROVE  /\ UNCHANGED <<releases, states, active>>
         /\ step'[q] = step[q] /\ op'[q] = op[q] /\ target'[q] = target[q] /\ plan'[q] = plan[q]
<1> USE DEF tree, releaseVars, stateVars, wrapperVars, Goto, Continue
<1>0. StoreTypeOK /\ ~stolen
  BY StepEffect DEF StoreInv
<1>1. step[p] \notin Working \cup {"receipt", "unlink"}
  BY <1>0, Alone DEF Holding
<1>2. OpenLock(p) \/ InspectLock(p) \/ CompareLock(p) \/ MoveLock(p)
  BY <1>1 DEF StoreNext, LockNext, WriteReceipt, Unlock, UnlinkLock, PrepareNext, PrepareStep, RejectOptions, CheckInputs,
              MakeStage, StageStep, CopyInputs, Unpack, Patch, Attest, Publish, Seal, WriteResolver, WriteWrapper,
              ActivateNext, ActivateStep, VerifyTarget, SelectNext, SelectBack, RecordState, CommitState,
              CleanupNext, CleanupStep, Scan, Sweep, RemoveOrphans, Tidy, CallFails, Working
<1>3. UNCHANGED <<releases, states, active, op, target, plan>>
  BY <1>2 DEF OpenLock, InspectLock, CompareLock, MoveLock
<1>4. step'[q] = step[q]
  BY <1>0, StepEffect DEF StoreTypeOK
<1>5. QED
  BY <1>3, <1>4

\* The steps of the lock, and the ones that end the work, know nothing yet or no more.
Silent == {"idle", "open", "inspect", "compare", "move", "receipt", "inputs", "verify", "back", "scan", "unlock", "unlink"}

LEMMA SilentProgress ==
  ASSUME NEW p \in Procs, step'[p] \in Silent
  PROVE  ProgressInv(p)'
BY DEF ProgressInv, Silent, Preparing

\* What the call of p knows after a step of its own.
LEMMA OwnProgress ==
  ASSUME StoreInv, NEW p \in Procs, ProgressInv(p), StoreNext(p), active = p => step[p] # "record", ~stolen'
  PROVE  ProgressInv(p)'
<1> USE DEF machine, lockVars, tree, releaseVars, stateVars, wrapperVars, known, Goto, Continue, Finish
<1>0. StoreTypeOK /\ ~stolen /\ FitsOp(step[p], op[p]) /\ PlanInv(p)
  BY StepEffect DEF StoreInv, ControlInv, DataInv
<1>a. ASSUME NEW s \in Silent, step' = [step EXCEPT ![p] = s] PROVE ProgressInv(p)'
  BY <1>0, <1>a, SilentProgress DEF StoreTypeOK
<1>1. CASE LockNext(p)
  <2>1. CASE WriteReceipt(p)
    <3>1. FirstStep(op[p]) \in Silent
      BY <1>0 DEF FirstStep, Silent, StoreTypeOK
    <3>2. QED
      BY <1>a, <2>1, <3>1 DEF WriteReceipt, Silent
  <2>2. CASE OpenLock(p) \/ InspectLock(p) \/ CompareLock(p) \/ MoveLock(p)
    BY <1>a, <2>2 DEF OpenLock, InspectLock, CompareLock, MoveLock, Retry, Refuse, Silent
  <2>3. CASE Unlock(p) \/ UnlinkLock(p)
    BY <1>a, <2>3 DEF Unlock, UnlinkLock, Refuse, Silent
  <2>4. QED
    BY <1>1, <2>1, <2>2, <2>3 DEF LockNext
<1>b. ASSUME NEW r, Finish(p, r) PROVE ProgressInv(p)'
  BY <1>a, <1>b DEF Silent
<1>2. CASE PrepareNext(p)
  <2> USE DEF PrepareStep
  <2>1. ASSUME step[p] \in Preparing, NEW s \in Preparing, step' = [step EXCEPT ![p] = s], UNCHANGED target
        PROVE  ProgressInv(p)'
    BY <1>0, <2>1 DEF ProgressInv, Preparing, StoreTypeOK
  <2>2. ASSUME NEW s \in {"copy", "unpack", "patch", "attest"}, NEW n \in {"unpack", "patch", "attest", "publish"},
               NEW before, NEW after, StageStep(p, s, before, after, n)
        PROVE  ProgressInv(p)'
    BY <1>b, <2>1, <2>2 DEF StageStep, Preparing
  <2>3. CASE RejectOptions(p)
    BY <1>b, <2>3 DEF RejectOptions
  <2>4. CASE CheckInputs(p)
    <3>1. target'[p].pins = PinsOf[p]
      BY <1>0, <2>4 DEF CheckInputs, StoreTypeOK
    <3>2. CASE step' = [step EXCEPT ![p] = "stage"]
      BY <1>0, <3>1, <3>2 DEF ProgressInv, Preparing, StoreTypeOK
    <3>3. CASE Verified(target'[p], PinsOf[p]) /\ UNCHANGED releases /\ step' = [step EXCEPT ![p] = "resolver"]
      BY <1>0, <3>3 DEF ProgressInv, Preparing, StoreTypeOK, Verified
    <3>4. QED
      BY <1>0, <1>b, <2>4, <3>2, <3>3 DEF CheckInputs, StoreTypeOK
  <2>5. CASE MakeStage(p)
    BY <2>1, <2>5 DEF MakeStage, Preparing
  <2>6. CASE CopyInputs(p) \/ Unpack(p)
    BY <2>2, <2>6 DEF CopyInputs, Unpack
  <2>7. CASE Patch(p)
    BY <1>b, <2>2, <2>7 DEF Patch
  <2>8. CASE Attest(p)
    BY <2>2, <2>8 DEF Attest
  <2>9. CASE Publish(p)
    BY <1>b, <2>1, <2>9 DEF Publish, Preparing
  <2>10. CASE Seal(p)
    <3>1. CASE Finish(p, "failed")
      BY <1>b, <3>1
    <3>2. CASE releases' = [releases EXCEPT ![target[p]] = "sealed"] /\ step' = [step EXCEPT ![p] = "resolver"]
      <4>1. target'[p] = target[p] /\ target[p] \in Artifacts /\ target[p].pins = PinsOf[p]
        BY <1>0, <2>10 DEF Seal, StoreTypeOK, ProgressInv, Preparing
      <4>2. QED
        BY <1>0, <3>2, <4>1 DEF ProgressInv, Preparing, StoreTypeOK, Verified
    <3>3. QED
      BY <2>10, <3>1, <3>2 DEF Seal
  <2>11. CASE WriteResolver(p)
    BY <1>0, <2>11 DEF WriteResolver, ProgressInv, Preparing, StoreTypeOK, Verified
  <2>12. CASE WriteWrapper(p)
    <3>1. CASE step' = [step EXCEPT ![p] = "select"]
      BY <1>0, <3>1 DEF ProgressInv, Preparing, StoreTypeOK
    <3>2. QED
      BY <1>b, <2>12, <3>1 DEF WriteWrapper
  <2>13. QED
    BY <1>2, <2>3, <2>4, <2>5, <2>6, <2>7, <2>8, <2>9, <2>10, <2>11, <2>12 DEF PrepareNext
<1>3. CASE ActivateNext(p)
  <2> USE DEF ActivateStep
  <2>1. CASE VerifyTarget(p)
    <3>1. CASE step' = [step EXCEPT ![p] = "resolver"]
      BY <1>0, <2>1, <3>1 DEF VerifyTarget, FitsOp, ProgressInv, Preparing, StoreTypeOK
    <3>2. QED
      BY <1>b, <2>1, <3>1 DEF VerifyTarget
  \* A proposal that follows the active state goes on to be recorded.
  <2>2. ASSUME NEW c, NEW b, Propose(p, c, b), UNCHANGED <<stateVars, op, target>>,
               Follows(p, [pins |-> PinsOf[p], current |-> c, previous |-> b])
        PROVE  ProgressInv(p)'
    <3>1. step'[p] = "record" /\ plan'[p] = [pins |-> PinsOf[p], current |-> c, previous |-> b]
      BY <1>0, <2>2 DEF Propose, StoreTypeOK
    <3>2. Follows(p, plan[p])'
      BY <2>2, <3>1 DEF Follows, HasActive
    <3>3. QED
      BY <3>1, <3>2 DEF ProgressInv, Preparing
  <2>3. CASE SelectNext(p)
    <3>1. op[p] = "activate" /\ Verified(target[p], PinsOf[p])
      BY <1>0, <2>3 DEF SelectNext, FitsOp, PlanInv
    <3>2. CASE \E r : Finish(p, r)
      BY <1>b, <3>2
    <3>3. CASE ~Dangling /\ ~HasActive(PinsOf[p]) /\ Propose(p, target[p], {})
      <4>1. active # NoProc => states[active].current.pins # PinsOf[p]
        BY <1>0, <3>3 DEF StoreInv, DataInv, Complete, Verified, Dangling, HasActive
      <4>2. Follows(p, [pins |-> PinsOf[p], current |-> target[p], previous |-> {}])
        BY <3>1, <3>3, <4>1 DEF Follows, Verified
      <4>3. QED
        BY <2>2, <2>3, <3>3, <4>2 DEF SelectNext
    <3>4. CASE /\ HasActive(PinsOf[p]) /\ states[active].current # target[p]
               /\ Propose(p, target[p], {states[active].current})
      <4>1. Follows(p, [pins |-> PinsOf[p], current |-> target[p], previous |-> {states[active].current}])
        BY <3>1, <3>4 DEF Follows
      <4>2. QED
        BY <2>2, <2>3, <3>4, <4>1 DEF SelectNext
    <3>5. QED
      BY <2>3, <3>2, <3>3, <3>4 DEF SelectNext
  <2>4. CASE SelectBack(p)
    <3>1. op[p] = "rollback"
      BY <1>0, <2>4 DEF SelectBack, FitsOp
    <3>2. ASSUME NEW b \in Restorable(p), Propose(p, b, {states[active].current}) PROVE ProgressInv(p)'
      <4>1. HasActive(PinsOf[p]) /\ b \in states[active].previous
        BY <3>2 DEF Restorable
      <4>2. Follows(p, [pins |-> PinsOf[p], current |-> b, previous |-> {states[active].current}])
        BY <3>1, <4>1 DEF Follows
      <4>3. QED
        BY <2>2, <2>4, <3>2, <4>2 DEF SelectBack
    <3>3. QED
      BY <1>b, <2>4, <3>2 DEF SelectBack
  <2>5. CASE RecordState(p)
    <3>1. step[p] = "record" /\ step'[p] = "commit" /\ states'[p] = plan[p]
      BY <1>0, <2>5 DEF RecordState, StoreTypeOK
    <3>2. active' = active /\ (active # NoProc => states'[active] = states[active])
      BY <1>0, <2>5, <3>1 DEF RecordState, StoreTypeOK
    <3>3. Follows(p, plan[p])
      BY <3>1 DEF ProgressInv
    <3>4. UNCHANGED <<op, target>>
      BY <2>5 DEF RecordState
    <3>5. Follows(p, states[p])'
      BY <3>1, <3>2, <3>3, <3>4 DEF Follows, HasActive
    <3>6. QED
      BY <3>1, <3>5 DEF ProgressInv, Preparing
  <2>6. CASE CommitState(p)
    BY <1>b, <2>6 DEF CommitState
  <2>7. QED
    BY <1>3, <2>1, <2>3, <2>4, <2>5, <2>6 DEF ActivateNext
<1>4. CASE CleanupNext(p)
  <2> USE DEF CleanupStep
  <2>1. ASSUME step'[p] = "sweep" PROVE ProgressInv(p)'
    BY <2>1 DEF ProgressInv, Preparing
  <2>2. CASE Scan(p)
    BY <1>0, <1>b, <2>1, <2>2 DEF Scan, StoreTypeOK
  <2>3. CASE Sweep(p)
    <3>1. CASE UNCHANGED <<step, result>>
      BY <2>1, <2>3, <3>1 DEF Sweep
    <3>2. CASE /\ op[p] = "purge" => \A a \in Artifacts \ Protected(p) : releases[a] \in {"absent", "torn"}
               /\ Continue(p, "orphans") /\ UNCHANGED releaseVars
      <4>1. step'[p] = "orphans" /\ UNCHANGED <<releases, states, active, op>>
        BY <1>0, <2>3, <3>2 DEF Sweep, StoreTypeOK
      <4>2. Protected(p) = Kept
        BY <1>0, <2>3, StateFacts DEF Sweep, PlanInv, Protected, Kept, StoreInv, DataInv, Complete
      <4>3. op[p] = "purge" => \A a \in Artifacts : releases[a] = "sealed" => a \in Kept
        BY <3>2, <4>2
      <4>4. Kept' = Kept
        BY <4>1 DEF Kept
      <4>5. QED
        BY <4>1, <4>3, <4>4 DEF ProgressInv, Preparing
    <3>3. QED
      BY <2>3, <3>1, <3>2 DEF Sweep
  <2>4. CASE RemoveOrphans(p)
    <3>1. step[p] = "orphans" /\ step'[p] = "tidy" /\ UNCHANGED <<releases, active, op>>
      BY <1>0, <2>4 DEF RemoveOrphans, StoreTypeOK
    <3>2. active # NoProc => states'[active] = states[active]
      BY <1>0, <2>4 DEF RemoveOrphans, PlanInv, StoreTypeOK
    <3>3. Kept' = Kept
      BY <3>1, <3>2 DEF Kept
    <3>4. QED
      BY <3>1, <3>3 DEF ProgressInv, Preparing
  <2>5. CASE Tidy(p)
    BY <1>b, <2>5 DEF Tidy
  <2>6. QED
    BY <1>4, <2>2, <2>3, <2>4, <2>5 DEF CleanupNext
<1>5. CASE CallFails(p)
  BY <1>b, <1>5 DEF CallFails
<1>6. QED
  BY <1>1, <1>2, <1>3, <1>4, <1>5 DEF StoreNext

\* What a call has to report.
LEMMA ReportsKept ==
  ASSUME StoreInv, ReportInv, NEW p \in Procs, StoreNext(p)
  PROVE  ReportInv'
<1> USE DEF machine, lockVars, tree, releaseVars, stateVars, wrapperVars, known, Goto, Continue, Finish
<1>0. StoreTypeOK
  BY DEF StoreInv
<1>a. ASSUME NEW s, step' = [step EXCEPT ![p] = s], step[p] \notin {"idle", "unlock", "unlink"}, UNCHANGED result
      PROVE  ReportInv'
  BY <1>0, <1>a DEF ReportInv, StoreTypeOK
<1>b. ASSUME NEW s \in {"unlock", "unlink", "idle"}, step' = [step EXCEPT ![p] = s],
             \A q \in Procs : q # p => result'[q] = result[q]
      PROVE  ReportInv'
  BY <1>0, <1>b DEF ReportInv, StoreTypeOK
<1>c. ASSUME NEW r, Finish(p, r) PROVE ReportInv'
  BY <1>0, <1>b, <1>c DEF StoreTypeOK
<1>2. CASE LockNext(p)
  <2>1. ASSUME Refuse(p) PROVE ReportInv'
    BY <1>0, <1>b, <2>1 DEF Refuse, StoreTypeOK
  <2>2. ASSUME Retry(p), step[p] \in {"inspect", "compare", "move"} PROVE ReportInv'
    BY <1>a, <2>1, <2>2 DEF Retry
  <2>3. CASE OpenLock(p)
    BY <1>a, <2>3 DEF OpenLock
  <2>4. CASE InspectLock(p)
    BY <1>a, <2>1, <2>2, <2>4 DEF InspectLock
  <2>5. CASE CompareLock(p)
    BY <1>a, <2>1, <2>2, <2>5 DEF CompareLock
  <2>6. CASE MoveLock(p)
    BY <2>1, <2>2, <2>6 DEF MoveLock
  <2>7. CASE WriteReceipt(p)
    BY <1>a, <1>c, <2>7 DEF WriteReceipt
  <2>8. CASE Unlock(p)
    BY <1>b, <2>8 DEF Unlock
  <2>9. CASE UnlinkLock(p)
    BY <1>b, <2>1, <2>9 DEF UnlinkLock
  <2>10. QED
    BY <1>2, <2>3, <2>4, <2>5, <2>6, <2>7, <2>8, <2>9 DEF LockNext
<1>3. CASE PrepareNext(p)
  <2> USE DEF PrepareStep
  <2>1. ASSUME NEW s \in {"copy", "unpack", "patch", "attest"}, NEW n, NEW before, NEW after,
               StageStep(p, s, before, after, n)
        PROVE  ReportInv'
    BY <1>a, <1>c, <2>1 DEF StageStep
  <2>2. CASE RejectOptions(p) \/ CheckInputs(p) \/ MakeStage(p)
    BY <1>a, <1>c, <2>2 DEF RejectOptions, CheckInputs, MakeStage
  <2>3. CASE CopyInputs(p) \/ Unpack(p) \/ Patch(p) \/ Attest(p)
    BY <1>c, <2>1, <2>3 DEF CopyInputs, Unpack, Patch, Attest
  <2>4. CASE Publish(p) \/ Seal(p) \/ WriteResolver(p) \/ WriteWrapper(p)
    BY <1>a, <1>c, <2>4 DEF Publish, Seal, WriteResolver, WriteWrapper
  <2>5. QED
    BY <1>3, <2>2, <2>3, <2>4 DEF PrepareNext
<1>4. CASE ActivateNext(p)
  <2> USE DEF ActivateStep
  <2>1. ASSUME NEW c, NEW b, Propose(p, c, b), step[p] \in {"select", "back"} PROVE ReportInv'
    BY <1>a, <2>1 DEF Propose
  <2>2. CASE VerifyTarget(p) \/ RecordState(p) \/ CommitState(p)
    BY <1>a, <1>c, <2>2 DEF VerifyTarget, RecordState, CommitState
  <2>3. CASE SelectNext(p) \/ SelectBack(p)
    BY <1>c, <2>1, <2>3 DEF SelectNext, SelectBack
  <2>4. QED
    BY <1>4, <2>2, <2>3 DEF ActivateNext
<1>5. CASE CleanupNext(p)
  <2> USE DEF CleanupStep
  <2>1. ASSUME UNCHANGED <<step, result>> PROVE ReportInv'
    BY <2>1 DEF ReportInv
  <2>2. CASE Scan(p)
    BY <1>a, <1>c, <2>2 DEF Scan
  <2>3. CASE Sweep(p)
    BY <1>a, <2>1, <2>3 DEF Sweep
  <2>4. CASE RemoveOrphans(p) \/ Tidy(p)
    BY <1>a, <1>c, <2>4 DEF RemoveOrphans, Tidy
  <2>5. QED
    BY <1>5, <2>2, <2>3, <2>4 DEF CleanupNext
<1>6. CASE CallFails(p)
  BY <1>c, <1>6 DEF CallFails
<1>7. QED
  BY <1>2, <1>3, <1>4, <1>5, <1>6 DEF StoreNext

LEMMA NextCallsInv == KernelInv /\ CallsInv /\ [Next]_vars => CallsInv'
<1> SUFFICES ASSUME KernelInv, CallsInv, [Next]_vars PROVE CallsInv'
  OBVIOUS
<1>0. StoreTypeOK /\ StoreInv
  BY DEF KernelInv, StoreInv
<1>1. ASSUME NEW p \in Procs, StoreNext(p), active = p => step[p] # "record" PROVE CallsInv'
  <2>1. ReportInv'
    BY <1>0, <1>1, ReportsKept DEF CallsInv
  <2>2. ASSUME ~stolen', NEW q \in Procs PROVE ProgressInv(q)'
    <3>1. ~stolen /\ ProgressInv(q) /\ p \notin dead
      BY <1>0, <1>1, <2>2, StepEffect DEF CallsInv
    <3>2. CASE q = p
      BY <1>0, <1>1, <2>2, <3>1, <3>2, OwnProgress
    <3>3. CASE q # p /\ step[q] \in Working
      <4>1. /\ UNCHANGED <<releases, states, active>>
            /\ step'[q] = step[q] /\ op'[q] = op[q] /\ target'[q] = target[q] /\ plan'[q] = plan[q]
        BY <1>0, <1>1, <2>2, <3>3, OthersStay
      <4>2. Kept' = Kept
        BY <4>1 DEF Kept
      <4>3. QED
        BY <3>1, <4>1, <4>2 DEF ProgressInv, Follows, HasActive, Verified
    <3>4. CASE q # p /\ step[q] \notin Working
      <4>1. step'[q] = step[q]
        BY <1>0, <1>1, <3>4, StepEffect DEF StoreTypeOK
      <4>2. QED
        BY <3>4, <4>1 DEF ProgressInv, Preparing, Working
    <3>5. QED
      BY <3>2, <3>3, <3>4
  <2>3. QED
    BY <2>1, <2>2 DEF CallsInv
\* The other steps leave the work of every call alone, but for one that begins or dies.
<1>2. ASSUME UNCHANGED <<releases, states, active, stolen>>,
             \A q \in Procs : \/ step'[q] = "idle"
                              \/ step'[q] = "open" /\ result'[q] = "none"
                              \/ /\ step'[q] = step[q] /\ op'[q] = op[q] /\ target'[q] = target[q]
                                 /\ plan'[q] = plan[q] /\ result'[q] = result[q]
      PROVE  CallsInv'
  <2>1. ReportInv'
    BY <1>2 DEF CallsInv, ReportInv
  <2>2. ASSUME ~stolen', NEW q \in Procs PROVE ProgressInv(q)'
    <3>1. ProgressInv(q)
      BY <1>2, <2>2 DEF CallsInv
    <3>2. Kept' = Kept
      BY <1>2 DEF Kept
    <3>3. CASE step'[q] \in {"idle", "open"}
      BY <3>3, SilentProgress DEF Silent
    <3>4. CASE /\ step'[q] = step[q] /\ op'[q] = op[q] /\ target'[q] = target[q]
               /\ plan'[q] = plan[q]
      BY <1>2, <3>1, <3>2, <3>4 DEF ProgressInv, Follows, HasActive, Verified
    <3>5. QED
      BY <1>2, <3>3, <3>4
  <2>3. QED
    BY <2>1, <2>2 DEF CallsInv
<1>3. ASSUME NEW p \in Procs, NEW o \in Ops, NEW a \in Artifacts, Call(p, o, a) PROVE CallsInv'
  BY <1>0, <1>2, <1>3 DEF Call, Goto, StoreTypeOK, machine, lockVars, tree, releaseVars, stateVars
<1>4. ASSUME NEW p \in Procs, EndLife(p) PROVE CallsInv'
  BY <1>0, <1>2, <1>4 DEF EndLife, Goto, StoreTypeOK, machine, lockVars, tree, releaseVars, stateVars
<1>5. CASE Quiet
  BY <1>2, <1>5 DEF Quiet
<1>6. QED
  BY <1>1, <1>3, <1>4, <1>5, StepKinds

LEMMA AlwaysCallsInv == Spec => [](KernelInv /\ CallsInv)
<1>1. Init => CallsInv
  BY DEF Init, StoreInit, CallsInv, ReportInv, ProgressInv, Preparing
<1>2. QED
  BY <1>1, InitKernelInv, NextKernelInv, NextCallsInv, PTL DEF Spec

----------------------------------------------------------------------------
(* How the state of ActiveRelease changes.                                 *)

Whole == {a \in Artifacts : releases[a] = "sealed"}
Calls == [p \in Procs |-> CallOf(p)]
TreeAsIs == Whole' = Whole /\ Selected' = Selected

LEMMA NoArtifact == NoState \notin Artifacts
<1>1. \A a \in Artifacts : a.pins \in Pins
  BY DEF Artifacts
<1>2. NoState.pins = NoPins
  BY DEF NoState
<1>3. QED
  BY <1>1, <1>2, PinAssumption

LEMMA SelectedFacts ==
  ASSUME StoreInv, ~stolen
  PROVE  /\ active = NoProc => Selected.current = NoState /\ Selected.previous = {}
         /\ active # NoProc => Selected = states[active] /\ Complete(states[active]) /\ Selected.current # NoState
<1>1. active # NoProc => Complete(states[active]) /\ states[active] # NoState
  BY StateFacts DEF StoreInv, DataInv, Complete
<1>2. QED
  BY <1>1, NoArtifact DEF Selected, Complete, States

LEMMA TreeStays == UNCHANGED <<releases, states, active>> => TreeAsIs
BY DEF TreeAsIs, Whole, Selected

\* A step of one call changes one call.
LEMMA CallChanges ==
  ASSUME NEW p \in Procs, \A q \in Procs : q # p => CallOf(q)' = CallOf(q)
  PROVE  /\ Calls' = [Calls EXCEPT ![p] = CallOf(p)']
         /\ CallOf(p)' = CallOf(p) => Calls' = Calls
BY DEF Calls

LEMMA OtherCalls ==
  ASSUME StoreTypeOK, NEW p \in Procs, NEW q \in Procs, q # p, StoreNext(p)
  PROVE  CallOf(q)' = CallOf(q)
<1>1. step'[q] = step[q] /\ op'[q] = op[q] /\ target'[q] = target[q] /\ result'[q] = result[q]
  BY StepEffect DEF StoreTypeOK
<1>2. QED
  BY <1>1 DEF CallOf, About

\* A result is set.
LEMMA CallReports ==
  ASSUME StoreTypeOK, NEW p \in Procs, StoreNext(p), NEW r, Finish(p, r), result[p] = "none",
         step[p] # "idle", op[p] = "prepare" => r # "ok", op[p] = "activate" => target'[p] = target[p]
  PROVE  Lifecycle!Report(p, r)
<1>1. step'[p] = "unlock" /\ result'[p] = r /\ op'[p] = op[p]
  BY StepEffect DEF Finish, Goto, StoreTypeOK
<1>2. CallOf(p) = [op |-> op[p], on |-> About(p), report |-> "none"]
  BY DEF CallOf
<1>3. CallOf(p)' = [op |-> op[p], on |-> About(p)', report |-> r]
  BY <1>1 DEF CallOf
<1>4. About(p)' = About(p)
  BY <1>1 DEF About
<1>5. Calls' = [Calls EXCEPT ![p] = CallOf(p)']
  BY OtherCalls, CallChanges
<1>6. Calls[p] = CallOf(p)
  BY DEF Calls
<1>7. [Calls[p] EXCEPT !.report = r] = CallOf(p)'
  BY <1>2, <1>3, <1>4, <1>6
<1>8. QED
  BY <1>5, <1>7 DEF Lifecycle!Report, Calls

\* A call that fails, whatever it did before.
LEMMA FailImplements ==
  ASSUME StoreInv, ReportInv, NEW p \in Procs, StoreNext(p), Finish(p, "failed"), step[p] \notin {"idle", "unlock", "unlink"},
         op[p] = "activate" => target'[p] = target[p], TreeAsIs
  PROVE  Lifecycle!Fail(p)
<1>1. StoreTypeOK /\ result[p] = "none"
  BY DEF StoreInv, ReportInv
<1>2. Lifecycle!Report(p, "failed")
  BY <1>1, CallReports
<1>3. CallOf(p).op = op[p] /\ CallOf(p).report = "none" /\ op[p] # "none"
  BY <1>1 DEF CallOf, StoreTypeOK, Ops
<1>4. QED
  BY <1>2, <1>3 DEF Lifecycle!Fail, Lifecycle!NoCall, TreeAsIs, Whole, Selected

\* A step that nobody sees.
LEMMA HiddenStep ==
  ASSUME StoreInv, NEW p \in Procs, StoreNext(p), TreeAsIs, stolen' = stolen, step[p] # "idle", step'[p] # "idle",
         result'[p] = result[p], op[p] = "activate" \/ result[p] = "ok" => target'[p] = target[p]
  PROVE  UNCHANGED Lifecycle!vars
<1>1. StoreTypeOK /\ op'[p] = op[p]
  BY StepEffect DEF StoreInv
<1>2. CallOf(p)' = CallOf(p)
  BY <1>1 DEF CallOf, About
<1>3. Calls' = Calls
  BY <1>1, <1>2, OtherCalls, CallChanges
<1>4. QED
  BY <1>3 DEF Lifecycle!vars, TreeAsIs, Whole, Calls

----------------------------------------------------------------------------
(* Every step is a step of ActiveRelease, or leaves its state as it is.    *)

LEMMA LockImplements ==
  ASSUME StoreInv, ReportInv, NEW p \in Procs, LockNext(p), StoreNext(p), stolen' = stolen
  PROVE  Lifecycle!End(p) \/ Lifecycle!Fail(p) \/ UNCHANGED Lifecycle!vars
<1> USE DEF tree, releaseVars, stateVars, Goto, Continue
<1>0. StoreTypeOK /\ step[p] # "idle"
  BY StepEffect DEF StoreInv
<1>1. TreeAsIs
  BY <1>0, TreeStays DEF LockNext, OpenLock, InspectLock, CompareLock, MoveLock, WriteReceipt, Unlock, UnlinkLock
<1>2. CASE step'[p] = "idle"
  <2>1. CallOf(p)' = Lifecycle!NoCall /\ CallOf(p).op # "none"
    BY <1>0, <1>2 DEF CallOf, Lifecycle!NoCall, StoreTypeOK, Ops
  <2>2. Calls' = [Calls EXCEPT ![p] = Lifecycle!NoCall]
    BY <1>0, <2>1, OtherCalls, CallChanges
  <2>3. QED
    BY <1>1, <2>1, <2>2 DEF Lifecycle!End, Calls, Lifecycle!NoCall, TreeAsIs, Whole
<1>3. CASE WriteReceipt(p) /\ Finish(p, "failed")
  <2>1. step[p] = "receipt" /\ UNCHANGED target
    BY <1>3 DEF WriteReceipt, known
  <2>2. QED
    BY <1>1, <1>3, <2>1, FailImplements
<1>4. CASE step'[p] # "idle" /\ ~(WriteReceipt(p) /\ Finish(p, "failed"))
  <2>1. ~Refuse(p)
    BY <1>0, <1>4 DEF Refuse, StoreTypeOK
  <2>2. UNCHANGED <<target, result>>
    BY <1>0, <1>4, <2>1 DEF LockNext, OpenLock, InspectLock, CompareLock, MoveLock, Retry, WriteReceipt, Unlock, UnlinkLock, known
  <2>3. QED
    BY <1>0, <1>1, <1>4, <2>2, HiddenStep
<1>5. QED
  BY <1>2, <1>3, <1>4

LEMMA PrepareImplements ==
  ASSUME StoreInv, CallsInv, NEW p \in Procs, PrepareNext(p), StoreNext(p), ~stolen'
  PROVE  Lifecycle!Step(p) \/ UNCHANGED Lifecycle!vars
<1> USE DEF PrepareStep, lockVars, stateVars, releaseVars, Goto, Continue
<1> DEFINE Goal == Lifecycle!Step(p) \/ UNCHANGED Lifecycle!vars
<1>0. /\ StoreTypeOK /\ ~stolen /\ FitsOp(step[p], op[p]) /\ ReportInv /\ ProgressInv(p) /\ op'[p] = op[p]
      /\ stolen' = stolen /\ UNCHANGED <<states, active>> /\ step[p] \notin {"idle", "unlock", "unlink"} /\ result[p] = "none"
  <2>1. StoreTypeOK /\ ~stolen /\ op'[p] = op[p]
    BY StepEffect DEF StoreInv
  <2>2. UNCHANGED <<stolen, states, active>> /\ step[p] \notin {"idle", "unlock", "unlink"}
    BY DEF PrepareNext, RejectOptions, CheckInputs, MakeStage, StageStep, CopyInputs, Unpack,
           Patch, Attest, Publish, Seal, WriteResolver, WriteWrapper
  <2>3. QED
    BY <2>1, <2>2 DEF CallsInv, ReportInv, StoreInv, ControlInv
<1>1. ASSUME Finish(p, "failed"), UNCHANGED releases, op[p] = "activate" => target' = target PROVE Goal
  BY <1>0, <1>1, FailImplements, TreeStays DEF Lifecycle!Step
<1>2. ASSUME NEW s \in Steps \ {"idle"}, step' = [step EXCEPT ![p] = s], result' = result, TreeAsIs,
             op[p] = "activate" => target' = target
      PROVE  Goal
  <2>1. step'[p] # "idle"
    BY <1>0, <1>2 DEF StoreTypeOK
  <2>2. QED
    BY <1>0, <1>2, <2>1, HiddenStep
<1>3. ASSUME NEW s \in {"copy", "unpack", "patch", "attest"}, NEW n \in {"unpack", "patch", "attest", "publish"},
             NEW before, NEW after, StageStep(p, s, before, after, n)
      PROVE  Goal
  BY <1>1, <1>2, <1>3, TreeStays, <1>0 DEF StageStep, Steps, Working
<1>4. CASE RejectOptions(p) \/ CheckInputs(p) \/ MakeStage(p)
  <2>1. op[p] = "prepare" /\ UNCHANGED releases
    BY <1>0, <1>4 DEF RejectOptions, CheckInputs, MakeStage, FitsOp
  <2>2. QED
    BY <1>0, <1>1, <1>2, <1>4, <2>1, TreeStays DEF RejectOptions, CheckInputs, MakeStage, Steps, Working
<1>5. CASE CopyInputs(p) \/ Unpack(p) \/ Attest(p)
  BY <1>3, <1>5 DEF CopyInputs, Unpack, Attest
<1>6. CASE Patch(p)
  BY <1>1, <1>3, <1>6 DEF Patch
\* The release has its name, but is not complete yet.
<1>7. CASE Publish(p)
  <2>1. CASE Finish(p, "failed") /\ UNCHANGED releases
    BY <1>1, <1>7, <2>1 DEF Publish
  <2>2. CASE releases[target[p]] = "absent" /\ releases' = [releases EXCEPT ![target[p]] = "open"] /\ Continue(p, "seal")
    <3>1. TreeAsIs
      BY <1>0, <2>2 DEF TreeAsIs, Whole, Selected, StoreTypeOK
    <3>2. QED
      BY <1>2, <1>7, <2>2, <3>1 DEF Publish, Steps, Working
  <2>3. QED
    BY <1>7, <2>1, <2>2 DEF Publish
\* Now it is.
<1>8. CASE Seal(p)
  <2>1. CASE Finish(p, "failed") /\ UNCHANGED releases
    BY <1>1, <1>8, <2>1 DEF Seal
  <2>2. CASE releases[target[p]] = "open" /\ releases' = [releases EXCEPT ![target[p]] = "sealed"] /\ Continue(p, "resolver")
    <3>1. op[p] = "prepare" /\ target[p] \in Artifacts /\ target[p].pins = PinsOf[p] /\ UNCHANGED target
      BY <1>0, <1>8 DEF Seal, FitsOp, ProgressInv, Preparing, StoreTypeOK
    <3>2. Whole' = Whole \cup {target[p]} /\ target[p] \notin Whole
      BY <1>0, <2>2, <3>1 DEF Whole, StoreTypeOK
    <3>3. CallOf(p)' = CallOf(p)
      BY <1>0, <2>2, <3>1 DEF CallOf, About, StoreTypeOK
    <3>4. Calls' = Calls
      BY <1>0, <3>3, OtherCalls, CallChanges
    <3>5. CallOf(p).op = "prepare" /\ CallOf(p).report = "none" /\ Selected' = Selected
      BY <1>0, <3>1 DEF CallOf, Selected
    <3>6. PICK a \in Artifacts : a = target[p]
      BY <3>1
    <3>7. Lifecycle!Publish(p, a)
      BY <3>1, <3>2, <3>4, <3>5, <3>6 DEF Lifecycle!Publish, Lifecycle!Pending, Whole, Calls
    <3>8. QED
      BY <3>7 DEF Lifecycle!Step
  <2>3. QED
    BY <1>8, <2>1, <2>2 DEF Seal
<1>9. CASE WriteResolver(p)
  BY <1>0, <1>2, <1>9, TreeStays DEF WriteResolver, Steps, Working
<1>10. CASE WriteWrapper(p)
  <2>1. UNCHANGED <<releases, target>>
    BY <1>10 DEF WriteWrapper
  <2>2. CASE Continue(p, "select")
    BY <1>0, <1>2, <2>1, <2>2, TreeStays DEF Steps, Working
  <2>3. CASE op[p] = "prepare" /\ Finish(p, "ok")
    <3>1. Verified(target[p], PinsOf[p]) /\ target[p] \in Artifacts
      BY <1>0, <1>10, <2>3 DEF WriteWrapper, ProgressInv, StoreTypeOK
    <3>2. step'[p] = "unlock" /\ result'[p] = "ok"
      BY <1>0, <2>3 DEF Finish, StoreTypeOK
    <3>3. CallOf(p) = [op |-> "prepare", on |-> NoState, report |-> "none"]
      BY <1>0, <2>3 DEF CallOf, About
    <3>4. CallOf(p)' = [op |-> "prepare", on |-> target[p], report |-> "ok"]
      BY <1>0, <2>1, <2>3, <3>2 DEF CallOf, About
    <3>5. Calls' = [Calls EXCEPT ![p] = CallOf(p)'] /\ Calls[p] = CallOf(p)
      BY <1>0, OtherCalls, CallChanges DEF Calls
    <3>6. PICK a \in Artifacts : a = target[p]
      BY <3>1
    <3>7. Calls' = [Calls EXCEPT ![p] = [op |-> "prepare", on |-> a, report |-> "ok"]]
      BY <3>4, <3>5, <3>6
    <3>8. TreeAsIs
      BY <1>0, <2>1, TreeStays
    <3>9. Calls[p].op = "prepare" /\ Calls[p].report = "none" /\ a.pins = PinsOf[p] /\ a \in Whole
      BY <3>1, <3>3, <3>5, <3>6 DEF Verified, Whole
    <3>10. Lifecycle!Prepared(p, a)
      BY <3>7, <3>8, <3>9 DEF Lifecycle!Prepared, Lifecycle!Pending, Calls, TreeAsIs, Whole
    <3>11. QED
      BY <3>10 DEF Lifecycle!Step
  <2>4. QED
    BY <1>10, <2>2, <2>3 DEF WriteWrapper
<1>11. QED
  BY <1>4, <1>5, <1>6, <1>7, <1>8, <1>9, <1>10 DEF PrepareNext

LEMMA ActivateImplements ==
  ASSUME StoreInv, CallsInv, NEW p \in Procs, ActivateNext(p), StoreNext(p), ~stolen', active = p => step[p] # "record"
  PROVE  Lifecycle!Step(p) \/ UNCHANGED Lifecycle!vars
<1> USE DEF ActivateStep, lockVars, stateVars, releaseVars, Goto, Continue
<1> DEFINE Goal == Lifecycle!Step(p) \/ UNCHANGED Lifecycle!vars
<1>0. /\ StoreTypeOK /\ ~stolen /\ FitsOp(step[p], op[p]) /\ ReportInv /\ ProgressInv(p) /\ PlanInv(p) /\ op'[p] = op[p]
      /\ stolen' = stolen /\ UNCHANGED <<releases, target>> /\ step[p] \notin {"idle", "unlock", "unlink"} /\ result[p] = "none"
  <2>1. StoreTypeOK /\ ~stolen /\ op'[p] = op[p]
    BY StepEffect DEF StoreInv
  <2>2. UNCHANGED <<stolen, releases, target>> /\ step[p] \notin {"idle", "unlock", "unlink"}
    BY DEF ActivateNext, VerifyTarget, SelectNext, SelectBack, RecordState, CommitState
  <2>3. QED
    BY <2>1, <2>2 DEF CallsInv, ReportInv, StoreInv, ControlInv, DataInv
<1>1. ASSUME Finish(p, "failed"), UNCHANGED <<states, active>> PROVE Goal
  BY <1>0, <1>1, FailImplements, TreeStays DEF Lifecycle!Step
<1>2. ASSUME NEW s \in Steps \ {"idle"}, step' = [step EXCEPT ![p] = s], result' = result, TreeAsIs
      PROVE  Goal
  <2>1. step'[p] # "idle"
    BY <1>0, <1>2 DEF StoreTypeOK
  <2>2. QED
    BY <1>0, <1>2, <2>1, HiddenStep
<1>3. ASSUME NEW c, NEW b, Propose(p, c, b), UNCHANGED <<states, active>> PROVE Goal
  BY <1>0, <1>2, <1>3, TreeStays DEF Propose, Steps, Working
<1>4. CASE VerifyTarget(p)
  BY <1>0, <1>1, <1>2, <1>4, TreeStays DEF VerifyTarget, Steps, Working
<1>5. CASE SelectNext(p)
  <2>1. CASE HasActive(PinsOf[p]) /\ states[active].current = target[p] /\ Finish(p, "ok")
    <3>1. op[p] = "activate"
      BY <1>0, <1>5 DEF SelectNext, FitsOp
    <3>2. Lifecycle!Report(p, "ok")
      BY <1>0, <2>1, <3>1, CallReports
    <3>3. CallOf(p).op = "activate" /\ CallOf(p).report = "none" /\ CallOf(p).on = Selected.current
      BY <1>0, <2>1, <3>1 DEF CallOf, About, Selected, HasActive
    <3>4. TreeAsIs
      BY <1>0, <1>5, TreeStays DEF SelectNext
    <3>5. Lifecycle!ActiveAlready(p)
      BY <3>2, <3>3, <3>4 DEF Lifecycle!ActiveAlready, Lifecycle!Pending, TreeAsIs, Whole
    <3>6. QED
      BY <3>5 DEF Lifecycle!Step
  <2>2. QED
    BY <1>1, <1>3, <1>5, <2>1 DEF SelectNext
<1>6. CASE SelectBack(p)
  BY <1>1, <1>3, <1>6 DEF SelectBack
\* The state is written; nothing leads to it yet.
<1>7. CASE RecordState(p)
  <2>1. active # NoProc => states'[active] = states[active]
    BY <1>0, <1>7 DEF RecordState, StoreTypeOK
  <2>2. TreeAsIs
    BY <1>0, <1>7, <2>1 DEF RecordState, TreeAsIs, Whole, Selected
  <2>3. QED
    BY <1>2, <1>7, <2>2 DEF RecordState, Steps, Working
\* Now the link leads to it.
<1>8. ASSUME CommitState(p), active' = p, NEW r \in {"ok", "failed"}, Finish(p, r) PROVE Goal
  <2> DEFINE s == states[p]
  <2>1. op[p] \in {"activate", "rollback"} /\ Follows(p, s) /\ Complete(s)
    BY <1>0, <1>8 DEF CommitState, FitsOp, ProgressInv, PlanInv
  <2>2. /\ s.current \in Artifacts /\ releases[s.current] = "sealed" /\ s.current.pins = PinsOf[p]
        /\ s.current \in Whole
    BY <2>1 DEF Complete, Verified, Follows, States, Whole
  <2>3. Selected' = s /\ Whole' = Whole
    BY <1>0, <1>8, <2>1, StateFacts, ProcAssumption DEF CommitState, Complete, Selected, Whole
  <2>4. Lifecycle!Report(p, r)
    BY <1>0, <1>8, <2>1, CallReports
  <2>5. CallOf(p).op = op[p] /\ CallOf(p).report = "none"
    BY <1>0 DEF CallOf
  <2>6. NoState \notin Artifacts /\ (active # NoProc => Selected.current \in Artifacts /\ Selected = states[active])
        /\ (active # NoProc => Selected.current.pins = states[active].pins /\ Selected.previous \subseteq Whole)
        /\ (active = NoProc => Selected.current = NoState)
    BY <1>0, SelectedFacts, NoArtifact DEF Complete, States, Verified, Whole
  <2>7. HasActive(PinsOf[p]) <=> active # NoProc /\ Selected.current.pins = PinsOf[p]
    BY <1>0, <2>6, SelectedFacts, StateFacts DEF HasActive, Complete
  <2>8. CASE op[p] = "activate"
    <3>1. CallOf(p).on = s.current
      BY <1>0, <2>1, <2>8 DEF CallOf, About, Follows
    <3>2. s.current # Selected.current
      BY <2>1, <2>2, <2>6, <2>8 DEF Follows
    <3>3. s.previous = {b \in {Selected.current} \ {NoState} : b.pins = s.current.pins}
      <4>1. CASE HasActive(PinsOf[p])
        BY <2>1, <2>2, <2>6, <2>7, <2>8, <4>1 DEF Follows
      <4>2. CASE ~HasActive(PinsOf[p])
        BY <2>1, <2>2, <2>6, <2>7, <2>8, <4>2 DEF Follows
      <4>3. QED
        BY <4>1, <4>2
    <3>4. \A b \in {Selected.current} \ {NoState} : b \in Artifacts
      BY <2>6
    <3>5. Lifecycle!Activate(p)
      BY <2>2, <2>3, <2>4, <2>5, <2>8, <3>1, <3>2, <3>3, <3>4, <1>8 DEF Lifecycle!Activate, Lifecycle!Pending, Whole
    <3>6. QED
      BY <3>5 DEF Lifecycle!Step
  <2>9. CASE op[p] = "rollback"
    <3>1. s.current \in Selected.previous /\ s.previous = {Selected.current}
      BY <2>1, <2>6, <2>9 DEF Follows, HasActive
    <3>2. Lifecycle!Rollback(p)
      BY <2>2, <2>3, <2>4, <2>5, <2>9, <3>1, <1>8 DEF Lifecycle!Rollback, Lifecycle!Pending, Whole
    <3>3. QED
      BY <3>2 DEF Lifecycle!Step
  <2>10. QED
    BY <2>1, <2>8, <2>9
<1>9. CASE CommitState(p)
  BY <1>1, <1>8, <1>9 DEF CommitState
<1>10. QED
  BY <1>4, <1>5, <1>6, <1>7, <1>9 DEF ActivateNext

LEMMA CleanupImplements ==
  ASSUME StoreInv, CallsInv, NEW p \in Procs, CleanupNext(p), StoreNext(p), ~stolen'
  PROVE  Lifecycle!Step(p) \/ UNCHANGED Lifecycle!vars
<1> USE DEF CleanupStep, releaseVars, Goto, Continue
<1> DEFINE Goal == Lifecycle!Step(p) \/ UNCHANGED Lifecycle!vars
<1>0. /\ StoreTypeOK /\ ~stolen /\ FitsOp(step[p], op[p]) /\ ReportInv /\ ProgressInv(p) /\ PlanInv(p) /\ op'[p] = op[p]
      /\ stolen' = stolen /\ UNCHANGED <<active, target>> /\ step[p] \notin {"idle", "unlock", "unlink"} /\ result[p] = "none"
  <2>1. StoreTypeOK /\ ~stolen /\ op'[p] = op[p]
    BY StepEffect DEF StoreInv
  <2>2. UNCHANGED <<stolen, active, target>> /\ step[p] \notin {"idle", "unlock", "unlink"}
    BY DEF CleanupNext, Scan, Sweep, RemoveOrphans, Tidy
  <2>3. QED
    BY <2>1, <2>2 DEF CallsInv, ReportInv, StoreInv, ControlInv, DataInv
<1>1. ASSUME NEW s \in Steps \ {"idle"}, step' = [step EXCEPT ![p] = s], result' = result, TreeAsIs
      PROVE  Goal
  <2>1. step'[p] # "idle"
    BY <1>0, <1>1 DEF StoreTypeOK
  <2>2. QED
    BY <1>0, <1>1, <2>1, HiddenStep
<1>2. /\ active = NoProc => Selected.current = NoState /\ Selected.previous = {}
      /\ active # NoProc => Selected = states[active]
      /\ Kept \subseteq {Selected.current} \cup Selected.previous
  BY <1>0, SelectedFacts DEF Kept
<1>3. CASE Scan(p)
  <2>1. CASE Dangling
    BY <1>0, <2>1, StateFacts DEF Dangling, StoreInv, DataInv, Complete
  <2>2. CASE ~Dangling
    BY <1>0, <1>1, <1>3, <2>2, TreeStays DEF Scan, Steps, Working
  <2>3. QED
    BY <2>1, <2>2
<1>4. CASE Sweep(p)
  <2>0. UNCHANGED states /\ op[p] \in {"cleanup", "purge"}
    BY <1>0, <1>4 DEF Sweep, FitsOp
  <2>1. ASSUME op[p] = "purge", NEW a \in Artifacts \ Protected(p), UNCHANGED <<step, result>>,
               releases[a] = "sealed", releases' = [releases EXCEPT ![a] = "torn"]
        PROVE  Goal
    <3>1. Whole' = Whole \ {a} /\ a \in Whole
      BY <1>0, <2>1 DEF Whole, StoreTypeOK
    <3>2. a \notin {Selected.current} \cup Selected.previous
      <4>1. CASE active = NoProc
        BY <1>2, <4>1, NoArtifact
      <4>2. CASE active # NoProc
        <5>1. plan[p] = states[active] /\ plan[p] # NoState
          BY <1>0, <1>4, <4>2, SelectedFacts, StateFacts DEF Sweep, PlanInv, Complete
        <5>2. QED
          BY <1>2, <2>1, <4>2, <5>1 DEF Protected
      <4>3. QED
        BY <4>1, <4>2
    <3>3. Selected' = Selected
      BY <1>0, <2>0 DEF Selected
    <3>4. CallOf(p)' = CallOf(p)
      BY <1>0, <2>1 DEF CallOf, About
    <3>5. Calls' = Calls
      BY <1>0, <3>4, OtherCalls, CallChanges
    <3>6. CallOf(p).op = "purge" /\ CallOf(p).report = "none"
      BY <1>0, <2>1 DEF CallOf
    <3>7. Lifecycle!Remove(p, a)
      BY <3>1, <3>2, <3>3, <3>5, <3>6 DEF Lifecycle!Remove, Lifecycle!Pending, Lifecycle!Kept, Whole, Calls
    <3>8. QED
      BY <3>7 DEF Lifecycle!Step
  <2>2. ASSUME NEW a \in Artifacts, UNCHANGED <<step, result>>,
               \/ releases[a] = "open" /\ releases' = [releases EXCEPT ![a] = "torn"]
               \/ releases[a] = "torn" /\ releases' = [releases EXCEPT ![a] = "absent"]
        PROVE  Goal
    <3>1. TreeAsIs
      BY <1>0, <2>0, <2>2 DEF TreeAsIs, Whole, Selected, StoreTypeOK
    <3>2. QED
      BY <1>0, <2>2, <3>1, HiddenStep
  <2>3. CASE step' = [step EXCEPT ![p] = "orphans"] /\ UNCHANGED <<releases, result>>
    BY <1>0, <1>1, <2>0, <2>3, TreeStays DEF Steps, Working
  <2>4. QED
    BY <1>4, <2>1, <2>2, <2>3 DEF Sweep
<1>5. CASE RemoveOrphans(p)
  <2>1. active # NoProc => states'[active] = states[active]
    BY <1>0, <1>5 DEF RemoveOrphans, PlanInv, StoreTypeOK
  <2>2. TreeAsIs
    BY <1>0, <1>5, <2>1 DEF RemoveOrphans, TreeAsIs, Whole, Selected
  <2>3. QED
    BY <1>1, <1>5, <2>2 DEF RemoveOrphans, Steps, Working
<1>6. CASE Tidy(p)
  <2>1. op[p] \in {"cleanup", "purge"} /\ TreeAsIs
    BY <1>0, <1>6, TreeStays DEF Tidy, FitsOp
  <2>2. op[p] = "purge" => Whole \subseteq {Selected.current} \cup Selected.previous
    BY <1>0, <1>2, <1>6 DEF Tidy, ProgressInv, Whole
  <2>3. Lifecycle!Report(p, "ok")
    BY <1>0, <1>6, <2>1, CallReports DEF Tidy
  <2>4. CallOf(p).op = op[p] /\ CallOf(p).report = "none"
    BY <1>0 DEF CallOf
  <2>5. Lifecycle!Cleaned(p)
    BY <2>1, <2>2, <2>3, <2>4 DEF Lifecycle!Cleaned, Lifecycle!Pending, Lifecycle!Kept, TreeAsIs, Whole
  <2>6. QED
    BY <2>5 DEF Lifecycle!Step
<1>7. QED
  BY <1>3, <1>4, <1>5, <1>6 DEF CleanupNext

LEMMA StepImplements ==
  ASSUME KernelInv, CallsInv, [Next]_vars
  PROVE  [Lifecycle!Next]_(Lifecycle!vars)
<1>0. StoreInv /\ StoreTypeOK
  BY DEF KernelInv, StoreInv
<1>flag. stolen \in BOOLEAN /\ stolen' \in BOOLEAN
  <2>1. StoreTypeOK'
    BY NextKernelInv DEF KernelInv, StoreInv
  <2>2. QED
    BY <1>0, <2>1 DEF StoreTypeOK
\* Nothing is promised once a recovery went wrong.
<1>1. CASE stolen'
  BY <1>1 DEF Lifecycle!Next
<1>2. CASE ~stolen'
  <2>1. ASSUME ~stolen, NEW p \in Procs, Lifecycle!Step(p) PROVE Lifecycle!Next
    BY <1>2, <2>1 DEF Lifecycle!Next
  <2>2. ASSUME NEW p \in Procs, StoreNext(p), active = p => step[p] # "record" PROVE [Lifecycle!Next]_(Lifecycle!vars)
    <3>1. ~stolen /\ stolen' = stolen
      BY <1>0, <1>flag, <1>2, <2>2, StepEffect
    <3>2. CASE LockNext(p)
      <4>1. Lifecycle!End(p) \/ Lifecycle!Fail(p) => Lifecycle!Step(p)
        BY DEF Lifecycle!Step
      <4>2. QED
        BY <1>0, <2>1, <2>2, <3>1, <3>2, <4>1, LockImplements DEF CallsInv
    <3>3. CASE PrepareNext(p)
      BY <1>0, <1>2, <2>1, <2>2, <3>1, <3>3, PrepareImplements
    <3>4. CASE ActivateNext(p)
      BY <1>0, <1>2, <2>1, <2>2, <3>1, <3>4, ActivateImplements
    <3>5. CASE CleanupNext(p)
      BY <1>0, <1>2, <2>1, <2>2, <3>1, <3>5, CleanupImplements
    <3>6. CASE CallFails(p)
      <4>1. Finish(p, "failed") /\ step[p] \notin {"idle", "unlock", "unlink"} /\ TreeAsIs /\ target' = target
        BY <3>6, TreeStays DEF CallFails, tree, releaseVars, stateVars, known
      <4>2. Lifecycle!Fail(p)
        BY <1>0, <2>2, <4>1, FailImplements DEF CallsInv
      <4>3. QED
        BY <2>1, <3>1, <4>2 DEF Lifecycle!Step
    <3>7. QED
      BY <2>2, <3>2, <3>3, <3>4, <3>5, <3>6 DEF StoreNext
  <2>3. ASSUME NEW p \in Procs, NEW o \in Ops, NEW a \in Artifacts, Call(p, o, a)
        PROVE  [Lifecycle!Next]_(Lifecycle!vars)
    <3>1. /\ UNCHANGED <<stolen, releases, states, active>>
          /\ step[p] = "idle" /\ step'[p] = "open" /\ op'[p] = o /\ target'[p] = a /\ result'[p] = "none"
          /\ \A q \in Procs : q # p => step'[q] = step[q] /\ op'[q] = op[q] /\ target'[q] = target[q] /\ result'[q] = result[q]
      BY <1>0, <2>3 DEF Call, Goto, StoreTypeOK, lockVars, tree, releaseVars, stateVars
    <3>2. CallOf(p) = Lifecycle!NoCall
      BY <3>1 DEF CallOf, Lifecycle!NoCall
    <3>3. CallOf(p)' = Lifecycle!NewCall(o, IF o = "activate" THEN a ELSE NoState)
      BY <3>1 DEF CallOf, About, Lifecycle!NewCall
    <3>4. \A q \in Procs : q # p => CallOf(q)' = CallOf(q)
      BY <3>1 DEF CallOf, About
    <3>5. Calls' = [Calls EXCEPT ![p] = Lifecycle!NewCall(o, IF o = "activate" THEN a ELSE NoState)]
      BY <3>3, <3>4, CallChanges
    <3>6. TreeAsIs
      BY <3>1, TreeStays
    <3>7. o # "activate" => o \in {"prepare", "rollback", "cleanup", "purge"}
      BY DEF Ops
    <3>8. Lifecycle!Begin(p)
      BY <3>2, <3>5, <3>6, <3>7 DEF Lifecycle!Begin, TreeAsIs, Whole, Calls
    <3>9. QED
      BY <1>2, <2>1, <3>1, <3>8 DEF Lifecycle!Step
  <2>4. ASSUME NEW p \in Procs, EndLife(p) PROVE [Lifecycle!Next]_(Lifecycle!vars)
    <3>1. /\ UNCHANGED <<stolen, releases, states, active>> /\ step'[p] = "idle"
          /\ \A q \in Procs : q # p => step'[q] = step[q] /\ op'[q] = op[q] /\ target'[q] = target[q] /\ result'[q] = result[q]
      BY <1>0, <2>4 DEF EndLife, Goto, StoreTypeOK, lockVars, tree, releaseVars, stateVars
    <3>2. CallOf(p)' = Lifecycle!NoCall
      BY <3>1 DEF CallOf, Lifecycle!NoCall
    <3>3. \A q \in Procs : q # p => CallOf(q)' = CallOf(q)
      BY <3>1 DEF CallOf, About
    <3>4. Calls' = [Calls EXCEPT ![p] = Lifecycle!NoCall] /\ (CallOf(p) = Lifecycle!NoCall => Calls' = Calls)
      BY <3>2, <3>3, CallChanges
    <3>5. TreeAsIs
      BY <3>1, TreeStays
    <3>6. CASE CallOf(p) = Lifecycle!NoCall
      BY <3>1, <3>4, <3>5, <3>6 DEF Lifecycle!vars, TreeAsIs, Whole, Calls
    <3>7. CASE CallOf(p) # Lifecycle!NoCall
      <4>1. Lifecycle!End(p)
        BY <3>4, <3>5, <3>7 DEF Lifecycle!End, TreeAsIs, Whole, Calls
      <4>2. QED
        BY <1>2, <2>1, <3>1, <4>1 DEF Lifecycle!Step
    <3>8. QED
      BY <3>6, <3>7
  <2>5. CASE Quiet
    <3>1. \A q \in Procs : CallOf(q)' = CallOf(q)
      BY <2>5 DEF Quiet, CallOf, About
    <3>2. Calls' = Calls
      BY <3>1 DEF Calls
    <3>3. TreeAsIs /\ stolen' = stolen
      BY <2>5, TreeStays DEF Quiet
    <3>4. QED
      BY <3>2, <3>3 DEF Lifecycle!vars, TreeAsIs, Whole, Calls
  <2>6. QED
    BY <2>2, <2>3, <2>4, <2>5, StepKinds
<1>3. QED
  BY <1>1, <1>2, <1>0 DEF StoreTypeOK

LEMMA InitImplements == Init => Lifecycle!Init
<1> SUFFICES ASSUME Init PROVE Lifecycle!Init
  OBVIOUS
<1>1. Whole \subseteq Artifacts /\ Calls = [p \in Procs |-> Lifecycle!NoCall] /\ ~stolen
  BY DEF Init, StoreInit, Whole, Calls, CallOf, Lifecycle!NoCall
<1>2. CASE active = NoProc
  BY <1>1, <1>2 DEF Lifecycle!Init, Selected, Whole, Calls
<1>3. CASE active # NoProc
  <2>1. PICK s \in States :
          /\ s.current.pins = s.pins
          /\ s.previous \in {{}} \cup {{a} : a \in {b \in Artifacts \ {s.current} : b.pins = s.pins}}
          /\ active \in Procs /\ states[active] = s
          /\ releases = [a \in Artifacts |->
                  IF a \in Leftovers \cup {s.current} \cup s.previous THEN "sealed" ELSE "absent"]
    BY <1>3, ProcAssumption DEF Init, StoreInit
  <2>2. Selected = s
    BY <1>3, <2>1, StateFacts DEF Selected
  <2>3. s.current \in Whole /\ s.previous \subseteq Whole /\ s.previous \subseteq Artifacts /\ s.current \in Artifacts
    BY <2>1 DEF States, Whole
  <2>4. s.previous \in {{}} \cup {{a} : a \in {b \in Whole : b # s.current /\ b.pins = s.current.pins}}
    BY <2>1, <2>3
  <2>5. QED
    BY <1>1, <2>2, <2>3, <2>4 DEF Lifecycle!Init, Whole, Calls
<1>4. QED
  BY <1>2, <1>3

\* Whatever the processes do beside each other and wherever they die, every call takes
\* effect at one moment, and reports what was so then.
THEOREM LifecycleIsAtomic == Spec => ImplementsActiveRelease
<1>1. QED
  BY AlwaysCallsInv, InitImplements, StepImplements, PTL DEF Spec, ImplementsActiveRelease, Lifecycle!Spec

----------------------------------------------------------------------------
(* When writers are kept apart. *)

\* No life recovers a lock.
NoRecovery == ~stolen /\ \A p \in Procs : step[p] \notin {"compare", "move"}

\* Until a call gives its lock up, it works, and leaves the lock alone.
LEMMA WorkStaysWork ==
  ASSUME StoreTypeOK, NEW p \in Procs, StoreNext(p), ~LockNext(p)
  PROVE  UNCHANGED lockVars /\ step'[p] \in Working
<1> USE DEF StoreTypeOK, lockVars, Goto, Continue, Finish, Working
<1>1. CASE PrepareNext(p)
  BY <1>1 DEF PrepareNext, PrepareStep, RejectOptions, CheckInputs, MakeStage, StageStep, CopyInputs, Unpack,
              Patch, Attest, Publish, Seal, WriteResolver, WriteWrapper
<1>2. CASE ActivateNext(p)
  BY <1>2 DEF ActivateNext, ActivateStep, VerifyTarget, SelectNext, SelectBack, Propose, RecordState, CommitState
<1>3. CASE CleanupNext(p) \/ CallFails(p)
  BY <1>3 DEF CleanupNext, CleanupStep, Scan, Sweep, RemoveOrphans, Tidy, CallFails
<1>4. QED
  BY <1>1, <1>2, <1>3 DEF StoreNext

\* A recovery begins at the lock of a dead writer.
LEMMA RecoveryNeedsDeath ==
  ASSUME KernelInv, NoRecovery, lock \notin dead, [Next]_vars
  PROVE  NoRecovery'
<1>0. StoreTypeOK
  BY DEF KernelInv, StoreInv
<1>1. ASSUME NEW p \in Procs, StoreNext(p) PROVE NoRecovery'
  <2>1. \A q \in Procs : q # p => step'[q] = step[q]
    BY <1>0, <1>1, StepEffect DEF KernelInv, StoreTypeOK
  <2>2. CASE LockNext(p)
    <3>1. stolen' = stolen
      BY <2>2 DEF LockNext, OpenLock, InspectLock, CompareLock, MoveLock, WriteReceipt, Unlock, UnlinkLock,
                  lockVars, NoRecovery
    <3>2. step'[p] \notin {"compare", "move"}
      BY <1>0, <2>2 DEF LockNext, OpenLock, InspectLock, CompareLock, MoveLock, WriteReceipt, Unlock, UnlinkLock,
                        Retry, Refuse, Goto, Continue, Finish, FirstStep, NoRecovery, StoreTypeOK, Ops
    <3>3. QED
      BY <2>1, <3>1, <3>2 DEF NoRecovery
  <2>3. CASE ~LockNext(p)
    <3>1. stolen' = stolen /\ step'[p] \in Working
      BY <1>0, <1>1, <2>3, WorkStaysWork DEF lockVars
    <3>2. QED
      BY <2>1, <3>1 DEF NoRecovery, Working
  <2>4. QED
    BY <2>2, <2>3
<1>2. ASSUME NEW p \in Procs, EndLife(p) \/ \E o, a : Call(p, o, a) PROVE NoRecovery'
  BY <1>0, <1>2 DEF EndLife, Call, Goto, lockVars, NoRecovery, StoreTypeOK
<1>3. CASE Quiet
  BY <1>3 DEF Quiet, NoRecovery
<1>4. QED
  BY StepKinds, <1>1, <1>2, <1>3

\* Writers are kept apart as long as none dies with its lock, wherever else processes die,
\* so that until then OneWriter and ActiveComplete hold without their premise and every
\* call takes effect at one moment (recoverStaleLock, quarantineStaleLock).
THEOREM ApartUntilAWriterDies == Spec /\ [](lock \notin dead) => []~stolen
<1>1. Init => NoRecovery
  BY DEF Init, StoreInit, NoRecovery
<1>2. KernelInv /\ NoRecovery /\ lock \notin dead /\ [Next]_vars => NoRecovery'
  BY RecoveryNeedsDeath
<1>3. NoRecovery => ~stolen
  BY DEF NoRecovery
<1>4. QED
  BY <1>1, <1>2, <1>3, AlwaysKernelInv, PTL DEF Spec

\* Who made the lock file is at work, or about to remove it.
LockInUse == lock \notin dead /\ (lock # NoProc => step[lock] \in Holding)

LEMMA LockStaysInUse ==
  ASSUME KernelInv, NoRecovery, LockInUse, MayCrash = {}, [Next]_vars
  PROVE  LockInUse'
<1>0. StoreTypeOK /\ NoProc \notin Procs /\ lock \in Procs \cup {NoProc}
  BY ProcAssumption DEF KernelInv, StoreInv, StoreTypeOK
<1>1. ASSUME NEW p \in Procs, StoreNext(p) PROVE LockInUse'
  <2>1. /\ \A q \in Procs : q # p => step'[q] = step[q]
        /\ dead' = dead /\ p \notin dead
    BY <1>0, <1>1, StepEffect DEF StoreTypeOK, machine
  <2>2. CASE OpenLock(p)
    <3>1. lock # p /\ (lock' = lock \/ (lock' = p /\ step'[p] = "receipt"))
      BY <1>0, <2>2 DEF OpenLock, Continue, Goto, LockInUse, Holding, Working, StoreTypeOK
    <3>2. QED
      BY <1>0, <2>1, <3>1 DEF LockInUse, Holding
  <2>3. CASE InspectLock(p) \/ CompareLock(p)
    <3>1. lock' = lock /\ lock # p
      BY <1>0, <2>3 DEF InspectLock, CompareLock, lockVars, LockInUse, Holding, Working
    <3>2. QED
      BY <1>0, <2>1, <3>1 DEF LockInUse
  <2>4. CASE WriteReceipt(p)
    BY <1>0, <2>1, <2>4 DEF WriteReceipt, FirstStep, Continue, Finish, Goto, LockInUse, Holding, Working, StoreTypeOK
  <2>5. CASE Unlock(p) \/ UnlinkLock(p)
    BY <1>0, <2>1, <2>5 DEF Unlock, UnlinkLock, Continue, Goto, Refuse, lockVars, LockInUse, Holding, StoreTypeOK
  <2>6. CASE ~LockNext(p)
    <3>1. lock' = lock /\ step'[p] \in Working
      BY <1>0, <1>1, <2>6, WorkStaysWork DEF lockVars
    <3>2. QED
      BY <1>0, <2>1, <3>1 DEF LockInUse, Holding
  <2>7. QED
    BY <1>1, <2>2, <2>3, <2>4, <2>5, <2>6 DEF LockNext, MoveLock, NoRecovery
<1>2. ASSUME NEW p \in Procs, EndLife(p), phase[p] \in Ended PROVE LockInUse'
  <2>1. step[p] = "idle"
    BY <1>2 DEF KernelInv, PhaseInv, Ended
  <2>2. lock # p
    BY <1>0, <1>2, <2>1 DEF LockInUse, Holding, Working
  <2>3. QED
    BY <1>0, <1>2, <2>2 DEF EndLife, Goto, lockVars, LockInUse, StoreTypeOK
<1>3. ASSUME NEW p \in Procs, NEW o, NEW a, Call(p, o, a) PROVE LockInUse'
  <2>1. lock # p /\ lock' = lock /\ dead' = dead
    BY <1>0, <1>3 DEF Call, lockVars, machine, LockInUse, Holding, Working
  <2>2. QED
    BY <1>0, <1>3, <2>1 DEF Call, Goto, LockInUse, StoreTypeOK
<1>4. CASE Quiet
  BY <1>4 DEF Quiet, LockInUse
<1>5. QED
  BY StepKinds, <1>1, <1>2, <1>3, <1>4

\* If no process dies at its work and none has left its lock, writers are kept apart for
\* ever, however many call beside each other: a lock goes wrong only after a crash.
THEOREM ApartWithoutCrashes == ASSUME MayCrash = {} PROVE Spec /\ lock = NoProc => []~stolen
<1>1. Init /\ lock = NoProc => NoRecovery /\ LockInUse
  BY ProcAssumption DEF Init, StoreInit, NoRecovery, LockInUse
<1>2. KernelInv /\ NoRecovery /\ LockInUse /\ [Next]_vars => NoRecovery' /\ LockInUse'
  BY RecoveryNeedsDeath, LockStaysInUse DEF LockInUse
<1>3. NoRecovery => ~stolen
  BY DEF NoRecovery
<1>4. QED
  BY <1>1, <1>2, <1>3, AlwaysKernelInv, PTL DEF Spec
============================================================================
