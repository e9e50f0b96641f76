---------------------------- MODULE KernelStore ----------------------------
(***************************************************************************)
(* The state root of OfficialKernelCompatLifecycle                         *)
(* (kernel-compat-lifecycle.ts): prepared releases, activation states, the *)
(* symbolic link `active`, the stable wrapper with its resolver, and the   *)
(* writer lock.  Connectors and operators change it from processes of      *)
(* their own; each may die between any two file-system calls.              *)
(*                                                                         *)
(* A member of Procs is one life of a process: it is never in the store    *)
(* again once it is dead, so it stands for a pid with its start time and   *)
(* for the lock file and the activation state it creates (one of each at a *)
(* time; their random names never clash).  A step is one file-system call, *)
(* or several that touch only the private stage of the process.            *)
(*                                                                         *)
(* Abstractions: the contents of a release are the version of the          *)
(* compatibility module copied into it, its other inputs being pinned by   *)
(* hash; a digest is the thing digested.  Processes die, the machine does  *)
(* not: what fsync adds is left out.  Files of other users, symbolic links *)
(* and wrong modes, which every call refuses, do not occur.                *)
(***************************************************************************)
EXTENDS Naturals, FiniteSets

CONSTANTS
  Procs,      \* lives of processes
  NoProc,
  Past,       \* lives that are over
  Pins,       \* generations of the pinned official artifacts
  NoPins,
  Modules,    \* versions of the compatibility module
  PinsOf,     \* the generation a process was built for
  Operators,  \* lives of the operator's command, whose options may be wrong
  Attempts,   \* tries to create the lock file: 4 in the code
  Upgrades,   \* the changes of the module by a new package
  Leftovers   \* releases a store may have that no state names

ASSUME ProcAssumption == NoProc \notin Procs /\ Past \subseteq Procs /\ Operators \subseteq Procs
ASSUME PinAssumption == NoPins \notin Pins /\ Pins # {} /\ PinsOf \in [Procs -> Pins]
ASSUME AttemptAssumption == Attempts \in Nat \ {0}

\* buildArtifactId: profile and official artifact, module and patch.
Artifacts == [pins : Pins, module : Modules]

\* activation.json: previous has at most one member.
States == [pins : Pins, current : Artifacts, previous : SUBSET Artifacts]
NoState == [pins |-> NoPins]

\* Where none is known yet.
SomeArtifact == CHOOSE a \in Artifacts : TRUE

\* What a stage holds before the module is in it.
Unfinished == {"none", "empty", "inputs", "runfiles"}

ASSUME ModuleAssumption == Modules # {} /\ Modules \cap Unfinished = {}
ASSUME StoreAssumption == Leftovers \subseteq Artifacts /\ Upgrades \subseteq Modules \X Modules

VARIABLES
  dead,       \* lives that have ended
  module,     \* the version of the module in the installed package
  official,   \* the official files of each generation: missing, other or pinned
  lock,       \* whose lock file is at the lock path
  written,    \* its receipt is complete
  stolen,     \* a recovery moved another lock than the one it compared (history)
  releases,   \* absent, open (mode 0700), sealed (0500), or torn by a removal
  holds,      \* the module in a release
  staging,    \* the stage of a process, and the module once it is copied to it
  states,     \* activation states by the life that wrote them
  active,     \* the state the link names
  resolver,   \* the pins the stable wrapper expects
  wrapper,    \* the stable wrapper exists
  step, op, target, seen, tries, plan, result  \* where a call is, and what it knows

lockVars == <<lock, written, stolen>>
stateVars == <<states, active>>
wrapperVars == <<resolver, wrapper>>
releaseVars == <<releases, holds>>
tree == <<releaseVars, staging, stateVars, wrapperVars>>
machine == <<dead, module, official>>
known == <<op, target, seen, tries, plan>>
storeVars == <<machine, lockVars, tree, step, known, result>>

Ops == {"prepare", "activate", "rollback", "cleanup", "purge"}
Locking == {"open", "inspect", "compare", "move", "receipt"}
Working == {"inputs", "stage", "copy", "unpack", "patch", "attest", "publish", "seal", "resolver", "wrapper", "verify",
            "select", "back", "record", "commit", "scan", "sweep", "orphans", "tidy", "unlock"}
Steps == {"idle", "unlink"} \cup Locking \cup Working

StoreTypeOK ==
  /\ dead \subseteq Procs /\ module \in Modules
  /\ official \in [Pins -> {"missing", "other", "pinned"}]
  /\ lock \in Procs \cup {NoProc} /\ written \in BOOLEAN /\ stolen \in BOOLEAN
  /\ releases \in [Artifacts -> {"absent", "open", "sealed", "torn"}]
  /\ holds \in [Artifacts -> Modules]
  /\ staging \in [Procs -> Modules \cup Unfinished]
  /\ states \in [Procs -> States \cup {NoState}] /\ active \in Procs \cup {NoProc}
  /\ resolver \in Pins \cup {NoPins} /\ wrapper \in BOOLEAN
  /\ step \in [Procs -> Steps] /\ op \in [Procs -> Ops] /\ target \in [Procs -> Artifacts]
  /\ seen \in [Procs -> Procs \cup {NoProc}] /\ tries \in [Procs -> 0..Attempts]
  /\ plan \in [Procs -> States \cup {NoState}]
  /\ result \in [Procs -> {"none", "ok", "failed"}]

Goto(p, s) == step' = [step EXCEPT ![p] = s]
Finish(p, r) == Goto(p, "unlock") /\ result' = [result EXCEPT ![p] = r]
Continue(p, s) == Goto(p, s) /\ UNCHANGED result

\* verifyRelease: complete, and of the generation of the caller.
Verified(a, pins) == releases[a] = "sealed" /\ a.pins = pins

\* readActiveState, and readActiveStateForActivation for a state of other pins.
Dangling == active # NoProc /\ states[active] = NoState
HasActive(pins) == active # NoProc /\ states[active] # NoState /\ states[active].pins = pins

Inside(p) == step[p] \in Working /\ p \notin dead

----------------------------------------------------------------------------
(* withWriterLock: the lock file, its receipt, and the recovery of a stale *)
(* one.                                                                    *)

\* A call of the lifecycle, on artifact a where it takes one.
Call(p, o, a) ==
  /\ p \notin dead /\ step[p] = "idle"
  /\ Goto(p, "open")
  /\ op' = [op EXCEPT ![p] = o] /\ target' = [target EXCEPT ![p] = a]
  /\ tries' = [tries EXCEPT ![p] = 0] /\ result' = [result EXCEPT ![p] = "none"]
  /\ UNCHANGED <<machine, lockVars, tree, seen, plan>>

\* The call ends without the lock.
Refuse(p) ==
  /\ Goto(p, "idle") /\ result' = [result EXCEPT ![p] = "failed"]
  /\ seen' = [seen EXCEPT ![p] = NoProc] /\ tries' = [tries EXCEPT ![p] = 0]

\* Mutant: attempts are not counted out.
RetryForEver(p) ==
  /\ Goto(p, "open") /\ tries' = [tries EXCEPT ![p] = @ + 1]
  /\ seen' = [seen EXCEPT ![p] = NoProc]
  /\ UNCHANGED result

\* The next attempt, if there is one left.
Retry(p) ==
  IF tries[p] + 1 >= Attempts
    THEN Refuse(p)
    ELSE /\ Goto(p, "open") /\ tries' = [tries EXCEPT ![p] = @ + 1]
         /\ seen' = [seen EXCEPT ![p] = NoProc]
         /\ UNCHANGED result

\* openSync with O_EXCL.
OpenLock(p) ==
  /\ step[p] = "open" /\ p \notin dead
  /\ IF lock = NoProc
       THEN /\ lock' = p /\ written' = FALSE
            /\ Continue(p, "receipt") /\ tries' = [tries EXCEPT ![p] = 0]
       ELSE Continue(p, "inspect") /\ UNCHANGED <<lock, written, tries>>
  /\ UNCHANGED <<machine, stolen, tree, op, target, seen, plan>>

\* Mutant: a receipt that is not complete yet is taken for the one of a dead writer.
InspectLockWithoutGrace(p) ==
  /\ step[p] = "inspect" /\ p \notin dead
  /\ \/ lock = NoProc /\ Retry(p)
     \/ lock \notin dead \cup {NoProc} /\ written /\ Refuse(p)
     \/ /\ lock \in dead \/ (lock # NoProc /\ ~written)
        /\ Continue(p, "compare")
        /\ seen' = [seen EXCEPT ![p] = lock] /\ UNCHANGED tries
  /\ UNCHANGED <<machine, lockVars, tree, op, target, plan>>

\* Mutant: whoever made the lock file, the call is refused.
InspectLockOnly(p) ==
  /\ step[p] = "inspect" /\ p \notin dead
  /\ IF lock = NoProc THEN Retry(p) ELSE Refuse(p)
  /\ UNCHANGED <<machine, lockVars, tree, op, target, plan>>

\* readLockReceipt and the identity in /proc: a receipt of a live writer refuses
\* the call, and so does an incomplete one for 30 s, in which a live writer
\* completes it.
InspectLock(p) ==
  /\ step[p] = "inspect" /\ p \notin dead
  /\ \/ lock = NoProc /\ Retry(p)
     \/ lock # NoProc /\ (lock \notin dead \/ ~written) /\ Refuse(p)
     \/ /\ lock \in dead
        /\ Continue(p, "compare")
        /\ seen' = [seen EXCEPT ![p] = lock] /\ UNCHANGED tries
  /\ UNCHANGED <<machine, lockVars, tree, op, target, plan>>

\* quarantineStaleLock up to sameFileSnapshot.
CompareLock(p) ==
  /\ step[p] = "compare" /\ p \notin dead
  /\ \/ lock = NoProc /\ Retry(p)
     \/ lock \notin {NoProc, seen[p]} /\ Refuse(p)
     \/ lock = seen[p] /\ Continue(p, "move") /\ UNCHANGED <<seen, tries>>
  /\ UNCHANGED <<machine, lockVars, tree, op, target, plan>>

\* renameSync moves what is at the path now; the moved file is compared again.
MoveLock(p) ==
  /\ step[p] = "move" /\ p \notin dead
  /\ IF lock = NoProc
       THEN Refuse(p) /\ UNCHANGED lockVars
       ELSE /\ lock' = NoProc /\ written' = FALSE
            /\ stolen' = (stolen \/ lock # seen[p])
            /\ IF lock = seen[p] THEN Retry(p) ELSE Refuse(p)
  /\ UNCHANGED <<machine, tree, op, target, plan>>

FirstStep(o) ==
  CASE o = "prepare" -> "inputs"
    [] o = "activate" -> "verify"
    [] o = "rollback" -> "back"
    [] OTHER -> "scan"

\* The receipt is written to the open file, wherever its name is now; when that fails,
\* whole or not, the finally removes it.
WriteReceipt(p) ==
  /\ step[p] = "receipt" /\ p \notin dead
  /\ \/ written' = (written \/ lock = p) /\ Continue(p, FirstStep(op[p]))
     \/ written' \in {written, written \/ lock = p} /\ Finish(p, "failed")
  /\ UNCHANGED <<machine, lock, stolen, tree, known>>

\* The finally blocks: the stage goes, then the lock file if it is this call's.
Unlock(p) ==
  /\ step[p] = "unlock" /\ p \notin dead
  /\ staging' = [staging EXCEPT ![p] = "none"]
  /\ Continue(p, IF lock = p THEN "unlink" ELSE "idle")
  /\ seen' = [seen EXCEPT ![p] = NoProc] /\ plan' = [plan EXCEPT ![p] = NoState]
  /\ UNCHANGED <<machine, lockVars, releaseVars, stateVars, wrapperVars, op, target, tries>>

\* unlinkSync removes what is at the path now.
UnlinkLock(p) ==
  /\ step[p] = "unlink" /\ p \notin dead
  /\ IF lock = NoProc
       THEN Refuse(p) /\ UNCHANGED <<lock, written>>
       ELSE /\ lock' = NoProc /\ written' = FALSE
            /\ Continue(p, "idle") /\ UNCHANGED <<seen, tries>>
  /\ UNCHANGED <<machine, stolen, tree, op, target, plan>>

LockNext(p) ==
  \/ OpenLock(p) \/ InspectLock(p) \/ CompareLock(p) \/ MoveLock(p)
  \/ WriteReceipt(p) \/ Unlock(p) \/ UnlinkLock(p)

----------------------------------------------------------------------------
(* prepareUnlocked. *)

PrepareStep(p, s) ==
  /\ step[p] = s /\ p \notin dead
  /\ UNCHANGED <<machine, lockVars, stateVars, op, seen, tries, plan>>

\* Layout and patch plan come from files and arguments of the operator.
RejectOptions(p) ==
  /\ p \in Operators
  /\ PrepareStep(p, "inputs")
  /\ Finish(p, "failed")
  /\ UNCHANGED <<target, releaseVars, staging, wrapperVars>>

\* openPinVerifiedInput: both files are opened, and their digests are the pinned ones.
InputsPinned(p) == official[PinsOf[p]] = "pinned"

\* The official files are checked, the module is digested, and a release that
\* exists is verified and reused.
CheckInputs(p) ==
  LET a == [pins |-> PinsOf[p], module |-> module] IN
  /\ PrepareStep(p, "inputs")
  /\ target' = [target EXCEPT ![p] = a]
  /\ \/ InputsPinned(p) /\ releases[a] = "absent" /\ Continue(p, "stage")
     \/ InputsPinned(p) /\ Verified(a, PinsOf[p]) /\ Continue(p, "resolver")
     \/ /\ ~InputsPinned(p) \/ releases[a] \in {"open", "torn"}
        /\ Finish(p, "failed")
  /\ UNCHANGED <<releaseVars, staging, wrapperVars>>

MakeStage(p) ==
  /\ PrepareStep(p, "stage")
  /\ staging' = [staging EXCEPT ![p] = "empty"]
  /\ Continue(p, "copy")
  /\ UNCHANGED <<target, releaseVars, wrapperVars>>

\* A step in the stage: it goes from one content to the next, or any of it fails.
\* A stage another call swept away makes it fail.
StageStep(p, s, before, after, next) ==
  /\ PrepareStep(p, s)
  /\ \/ /\ staging[p] = before
        /\ staging' = [staging EXCEPT ![p] = after]
        /\ Continue(p, next)
     \/ Finish(p, "failed") /\ UNCHANGED staging
  /\ UNCHANGED <<target, releaseVars, wrapperVars>>

\* copyPinVerifiedInput, twice: from the descriptors that were digested.
CopyInputs(p) == StageStep(p, "copy", "empty", "inputs", "unpack")

\* The official self-unpacker runs in the stage, and what it left is hardened.
Unpack(p) == StageStep(p, "unpack", "inputs", "runfiles", "patch")

\* Mutant: the copy of the module is not compared with its digest.
PatchUnchecked(p) == StageStep(p, "patch", "runfiles", module, "attest")

\* copyRegularFile: the bytes copied have the digest taken before.
CopyAsDigested(p) == module = target[p].module

\* The module is copied and the patches are applied, each of which must fit; a copy
\* with another digest fails the call.
Patch(p) ==
  \/ CopyAsDigested(p) /\ StageStep(p, "patch", "runfiles", module, "attest")
  \/ /\ ~CopyAsDigested(p) /\ PrepareStep(p, "patch")
     /\ Finish(p, "failed") /\ UNCHANGED <<target, releaseVars, staging, wrapperVars>>

\* The wrapper and the receipt are written and the whole stage is verified.
Attest(p) == \E m \in Modules : StageStep(p, "attest", m, m, "publish")

\* renameSync to the final name; the directory is writable until it is sealed.
Publish(p) ==
  /\ PrepareStep(p, "publish")
  /\ IF releases[target[p]] = "absent" /\ staging[p] \in Modules
       THEN /\ releases' = [releases EXCEPT ![target[p]] = "open"]
            /\ holds' = [holds EXCEPT ![target[p]] = staging[p]]
            /\ staging' = [staging EXCEPT ![p] = "empty"]
            /\ Continue(p, "seal")
       ELSE Finish(p, "failed") /\ UNCHANGED <<releaseVars, staging>>
  /\ UNCHANGED <<target, wrapperVars>>

Seal(p) ==
  /\ PrepareStep(p, "seal")
  /\ IF releases[target[p]] = "open"
       THEN /\ releases' = [releases EXCEPT ![target[p]] = "sealed"]
            /\ Continue(p, "resolver")
       ELSE Finish(p, "failed") /\ UNCHANGED releases
  /\ UNCHANGED <<target, holds, staging, wrapperVars>>

\* ensureStableActivationWrapper: the resolver of these pins, then the wrapper.
WriteResolver(p) ==
  /\ PrepareStep(p, "resolver")
  /\ resolver' = PinsOf[p]
  /\ Continue(p, "wrapper")
  /\ UNCHANGED <<target, releaseVars, staging, wrapper>>

WriteWrapper(p) ==
  /\ PrepareStep(p, "wrapper")
  /\ wrapper' = TRUE
  /\ IF op[p] = "prepare" THEN Finish(p, "ok") ELSE Continue(p, "select")
  /\ UNCHANGED <<target, releaseVars, staging, resolver>>

PrepareNext(p) ==
  \/ RejectOptions(p) \/ CheckInputs(p)
  \/ MakeStage(p) \/ CopyInputs(p) \/ Unpack(p) \/ Patch(p) \/ Attest(p) \/ Publish(p) \/ Seal(p)
  \/ WriteResolver(p) \/ WriteWrapper(p)

----------------------------------------------------------------------------
(* activate, rollback and commitActivationState. *)

ActivateStep(p, s) ==
  /\ step[p] = s /\ p \notin dead
  /\ UNCHANGED <<machine, lockVars, releaseVars, staging, wrapperVars, op, target, seen, tries>>

VerifyTarget(p) ==
  /\ ActivateStep(p, "verify")
  /\ IF Verified(target[p], PinsOf[p]) THEN Continue(p, "resolver") ELSE Finish(p, "failed")
  /\ UNCHANGED <<stateVars, plan>>

\* Mutant: the release that was active is forgotten.
ProposeAlone(p, current, previous) ==
  /\ plan' = [plan EXCEPT ![p] = [pins |-> PinsOf[p], current |-> current, previous |-> {}]]
  /\ Continue(p, "record")

Propose(p, current, previous) ==
  /\ plan' = [plan EXCEPT ![p] = [pins |-> PinsOf[p], current |-> current, previous |-> previous]]
  /\ Continue(p, "record")

\* The active state of other pins counts as none; one of these pins becomes the
\* previous one, and must still be complete.
SelectNext(p) ==
  /\ ActivateStep(p, "select")
  /\ \/ Dangling /\ Finish(p, "failed") /\ UNCHANGED plan
     \/ ~Dangling /\ ~HasActive(PinsOf[p]) /\ Propose(p, target[p], {})
     \/ /\ HasActive(PinsOf[p])
        /\ LET current == states[active].current IN
           \/ current = target[p] /\ Finish(p, "ok") /\ UNCHANGED plan
           \/ /\ current # target[p] /\ Verified(current, PinsOf[p])
              /\ Propose(p, target[p], {current})
           \/ /\ current # target[p] /\ ~Verified(current, PinsOf[p])
              /\ Finish(p, "failed") /\ UNCHANGED plan
  /\ UNCHANGED stateVars

\* The releases a rollback may return to.
Restorable(p) ==
  IF HasActive(PinsOf[p]) /\ Verified(states[active].current, PinsOf[p])
    THEN {b \in states[active].previous : Verified(b, PinsOf[p])}
    ELSE {}

\* rollback: current and previous change places, both complete.
SelectBack(p) ==
  /\ ActivateStep(p, "back")
  /\ \/ \E b \in Restorable(p) : Propose(p, b, {states[active].current})
     \/ Restorable(p) = {} /\ Finish(p, "failed") /\ UNCHANGED plan
  /\ UNCHANGED stateVars

\* The state is written beside the others and renamed to its name.
RecordState(p) ==
  /\ ActivateStep(p, "record")
  /\ states' = [states EXCEPT ![p] = plan[p]]
  /\ Continue(p, "commit")
  /\ UNCHANGED <<active, plan>>

\* The link is renamed over the old one; a hook or a call may fail before or after.
CommitState(p) ==
  /\ ActivateStep(p, "commit")
  /\ \/ active' = p /\ \E r \in {"ok", "failed"} : Finish(p, r)
     \/ Finish(p, "failed") /\ UNCHANGED active
  /\ UNCHANGED <<states, plan>>

ActivateNext(p) ==
  \/ VerifyTarget(p) \/ SelectNext(p) \/ SelectBack(p) \/ RecordState(p) \/ CommitState(p)

----------------------------------------------------------------------------
(* cleanupUnlocked; purge is cleanup with removeUnreferenced. *)

CleanupStep(p, s) ==
  /\ step[p] = s /\ p \notin dead
  /\ UNCHANGED <<machine, lock, written, stolen, active, wrapperVars, op, target, tries>>

\* The active state is read whatever its pins are.
Scan(p) ==
  /\ CleanupStep(p, "scan")
  /\ IF Dangling
       THEN Finish(p, "failed") /\ UNCHANGED <<seen, plan>>
       ELSE /\ seen' = [seen EXCEPT ![p] = active]
            /\ plan' = [plan EXCEPT ![p] = IF active = NoProc THEN NoState ELSE states[active]]
            /\ Continue(p, "sweep")
  /\ UNCHANGED <<releaseVars, staging, states>>

\* Mutant: the release to roll back to is not protected.
ProtectedCurrentOnly(p) == IF plan[p] = NoState THEN {} ELSE {plan[p].current}

Protected(p) == IF plan[p] = NoState THEN {} ELSE {plan[p].current} \cup plan[p].previous

\* A release is made writable and removed file by file; a torn one whose receipt
\* is gone already is skipped.
Sweep(p) ==
  /\ CleanupStep(p, "sweep")
  /\ \/ /\ op[p] = "purge"
        /\ \E a \in Artifacts \ Protected(p) :
             \/ /\ releases[a] \in {"open", "sealed"}
                /\ releases' = [releases EXCEPT ![a] = "torn"]
                /\ UNCHANGED holds
             \/ /\ releases[a] = "torn"
                /\ releases' = [releases EXCEPT ![a] = "absent"]
                /\ holds' = [holds EXCEPT ![a] = a.module]
        /\ UNCHANGED <<step, result>>
     \/ /\ op[p] = "purge" => \A a \in Artifacts \ Protected(p) : releases[a] \in {"absent", "torn"}
        /\ Continue(p, "orphans")
        /\ UNCHANGED releaseVars
  /\ UNCHANGED <<staging, states, seen, plan>>

\* Every activation state but the one that was active at the scan.
RemoveOrphans(p) ==
  /\ CleanupStep(p, "orphans")
  /\ states' = [q \in Procs |-> IF q = seen[p] THEN states[q] ELSE NoState]
  /\ Continue(p, "tidy")
  /\ UNCHANGED <<releaseVars, staging, seen, plan>>

\* Stages; quarantined lock files, which nothing reads.
Tidy(p) ==
  /\ CleanupStep(p, "tidy")
  /\ staging' = [q \in Procs |-> "none"]
  /\ Finish(p, "ok")
  /\ UNCHANGED <<releaseVars, states, seen, plan>>

CleanupNext(p) == Scan(p) \/ Sweep(p) \/ RemoveOrphans(p) \/ Tidy(p)

----------------------------------------------------------------------------

\* A file-system call fails, and the call of the lifecycle with it, before the step
\* has changed anything; in the other steps a failure is one of the outcomes.
CallFails(p) ==
  /\ step[p] \in {"stage", "publish", "seal", "resolver", "wrapper", "record", "sweep", "orphans", "tidy"}
  /\ p \notin dead
  /\ Finish(p, "failed")
  /\ UNCHANGED <<machine, lockVars, tree, known>>

StoreNext(p) == LockNext(p) \/ PrepareNext(p) \/ ActivateNext(p) \/ CleanupNext(p) \/ CallFails(p)

\* A life ends; what it wrote stays.
EndLife(p) ==
  /\ p \notin dead
  /\ dead' = dead \cup {p}
  /\ Goto(p, "idle")
  /\ seen' = [seen EXCEPT ![p] = NoProc] /\ plan' = [plan EXCEPT ![p] = NoState]
  /\ tries' = [tries EXCEPT ![p] = 0] /\ result' = [result EXCEPT ![p] = "none"]
  /\ op' = [op EXCEPT ![p] = "prepare"] /\ target' = [target EXCEPT ![p] = SomeArtifact]
  /\ UNCHANGED <<module, official, lockVars, tree>>

\* The package is replaced in place.
UpgradePackage ==
  /\ \E m \in Modules : <<module, m>> \in Upgrades /\ module' = m
  /\ UNCHANGED <<dead, official, lockVars, tree, step, known, result>>

\* A store that earlier calls left: at most one active pair of one generation,
\* perhaps other releases, perhaps the lock of a writer that died.
StoreInit ==
  /\ dead \in {D \in SUBSET Procs : Past \subseteq D} /\ module \in Modules
  /\ official \in [Pins -> {"missing", "other", "pinned"}]
  /\ \/ lock = NoProc /\ written = FALSE
     \/ lock \in Past /\ written \in BOOLEAN
  /\ stolen = FALSE /\ staging = [p \in Procs |-> "none"]
  /\ holds = [a \in Artifacts |-> a.module]
  /\ \/ /\ active = NoProc /\ states = [p \in Procs |-> NoState]
        /\ resolver = NoPins /\ wrapper = FALSE
        /\ releases = [a \in Artifacts |-> IF a \in Leftovers THEN "sealed" ELSE "absent"]
     \/ /\ active \in Past /\ wrapper = TRUE
        /\ \E s \in States :
             /\ s.current.pins = s.pins
             /\ s.previous \in {{}} \cup {{a} : a \in {b \in Artifacts \ {s.current} : b.pins = s.pins}}
             /\ states = [p \in Procs |-> IF p = active THEN s ELSE NoState]
             /\ resolver = s.pins
             /\ releases = [a \in Artifacts |->
                  IF a \in Leftovers \cup {s.current} \cup s.previous THEN "sealed" ELSE "absent"]
  /\ step = [p \in Procs |-> "idle"] /\ op = [p \in Procs |-> "prepare"]
  /\ target = [p \in Procs |-> SomeArtifact]
  /\ seen = [p \in Procs |-> NoProc] /\ tries = [p \in Procs |-> 0]
  /\ plan = [p \in Procs |-> NoState] /\ result = [p \in Procs |-> "none"]

----------------------------------------------------------------------------
(* Properties. *)

\* One call is in the store at a time, whatever writers died and whoever recovered
\* their locks, until a recovery moves another lock than the one it
\* compared, and fails (withWriterLock, recoverStaleLock, quarantineStaleLock).
OneWriter == ~stolen => \A p, q \in Procs : Inside(p) /\ Inside(q) => p = q

\* The state the link names exists, and both releases it names are complete and
\* of its generation, so that the wrapper starts the one and rollback finds the
\* other, whatever writers died where and whatever a cleanup removes, as long as
\* writers are kept apart (commitActivationState, cleanupUnlocked).
ActiveComplete ==
  active # NoProc /\ ~stolen =>
    /\ states[active] # NoState
    /\ \A a \in {states[active].current} \cup states[active].previous :
         Verified(a, states[active].pins)

\* A release has the module its name says, also when the package is upgraded
\* between the digest and the copy (copyRegularFile).
ReleaseMatches == \A a \in Artifacts : releases[a] # "absent" => holds[a] = a.module
=============================================================================
