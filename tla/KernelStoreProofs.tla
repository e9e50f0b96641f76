------------------------- MODULE KernelStoreProofs -------------------------
(***************************************************************************)
(* Lemmas about KernelStore: what a call of the lifecycle keeps, step by   *)
(* step.  ManagedKernelProofs puts them together.                          *)
(*                                                                         *)
(* The argument: until a recovery moves another lock than the one it       *)
(* compared, who works in the store holds the lock file, because a lock    *)
(* file is only ever taken from a dead life.  So one call at a time is in  *)
(* the store, and what it verified, planned or scanned stays true until it *)
(* acts on it.                                                             *)
(***************************************************************************)
EXTENDS KernelStore, TLAPS

Holding == Working \cup {"receipt", "unlink"}

\* Which step belongs to which call.
FitsOp(s, o) ==
  /\ s \in {"inputs", "stage", "copy", "unpack", "patch", "attest", "publish", "seal"} => o = "prepare"
  /\ s \in {"resolver", "wrapper"} => o \in {"prepare", "activate"}
  /\ s \in {"verify", "select"} => o = "activate"
  /\ s = "back" => o = "rollback"
  /\ s \in {"record", "commit"} => o \in {"activate", "rollback"}
  /\ s \in {"scan", "sweep", "orphans", "tidy"} => o \in {"cleanup", "purge"}

\* The lock: the dead do nothing, who holds it has the lock file, who recovers it saw a
\* dead holder.
ControlInv ==
  /\ \A p \in dead : step[p] = "idle"
  /\ \A p \in Procs : ~stolen /\ step[p] \in Holding => lock = p
  /\ \A p \in Procs : step[p] \in {"compare", "move"} => seen[p] \in dead
  /\ \A p \in Procs : FitsOp(step[p], op[p])

\* An activation, from the moment it wrote the wrapper.
WrapperInv ==
  \A p \in Procs :
    /\ step[p] = "select" => wrapper
    /\ op[p] = "activate" /\ step[p] \in {"record", "commit"} => wrapper
    /\ op[p] = "activate" /\ result[p] = "ok" => wrapper /\ active # NoProc

\* A stage that is attested holds the module the call digested.
StagingInv ==
  \A p \in Procs : step[p] \in {"attest", "publish"} /\ staging[p] \in Modules => staging[p] = target[p].module

Complete(s) ==
  /\ s \in States
  /\ \A a \in {s.current} \cup s.previous : Verified(a, s.pins)

\* What the call of p knows.
PlanInv(p) ==
  /\ op[p] = "activate" /\ step[p] \in {"resolver", "wrapper", "select"} => Verified(target[p], PinsOf[p])
  /\ step[p] = "record" => Complete(plan[p])
  /\ step[p] = "commit" => Complete(states[p])
  /\ step[p] \in {"sweep", "orphans"} =>
       seen[p] = active /\ plan[p] = IF active = NoProc THEN NoState ELSE states[active]

DataInv ==
  /\ StagingInv /\ ReleaseMatches
  /\ ~stolen => (active # NoProc => Complete(states[active])) /\ \A p \in Procs : PlanInv(p)

StoreInv == StoreTypeOK /\ ControlInv /\ WrapperInv /\ DataInv

----------------------------------------------------------------------------

\* A holder is alone.
LEMMA Alone ==
  ASSUME StoreInv, ~stolen, NEW p \in Procs, NEW q \in Procs, p # q, step[p] \in Holding
  PROVE  step[q] \notin Holding
BY DEF StoreInv, ControlInv

LEMMA StateFacts == NoState \notin States /\ \A s \in States : s # NoState
<1>1. ASSUME NEW s \in States PROVE s # NoState
  <2>1. s.pins \in Pins
    BY DEF States
  <2>2. NoState.pins = NoPins
    BY DEF NoState
  <2>3. QED
    BY <2>1, <2>2, PinAssumption
<1>2. QED
  BY <1>1

\* The initial store.
LEMMA InitStoreInv == StoreInit => StoreInv
<1> SUFFICES ASSUME StoreInit PROVE StoreInv
  OBVIOUS
<1>0. SomeArtifact \in Artifacts
  <2>1. \E a : a \in Artifacts
    <3>1. PICK g \in Pins, m \in Modules : TRUE
      BY PinAssumption, ModuleAssumption
    <3>2. [pins |-> g, module |-> m] \in Artifacts
      BY DEF Artifacts
    <3>3. QED
      BY <3>2
  <2>2. QED
    BY <2>1 DEF SomeArtifact
<1>1. holds \in [Artifacts -> Modules] /\ \A a \in Artifacts : holds[a] = a.module
  BY DEF StoreInit, Artifacts
<1> DEFINE Shape == /\ active \in Procs \cup {NoProc} /\ states \in [Procs -> States \cup {NoState}]
                    /\ resolver \in Pins \cup {NoPins} /\ wrapper \in BOOLEAN
                    /\ releases \in [Artifacts -> {"absent", "open", "sealed", "torn"}]
                    /\ active # NoProc => Complete(states[active])
<1>2. Shape
  <2>1. CASE /\ active = NoProc /\ states = [p \in Procs |-> NoState]
             /\ resolver = NoPins /\ wrapper = FALSE
             /\ releases = [a \in Artifacts |-> IF a \in Leftovers THEN "sealed" ELSE "absent"]
    BY <2>1
  <2>2. ASSUME active \in Past, wrapper = TRUE,
               NEW s \in States, s.current.pins = s.pins,
               s.previous \in {{}} \cup {{a} : a \in {b \in Artifacts \ {s.current} : b.pins = s.pins}},
               states = [p \in Procs |-> IF p = active THEN s ELSE NoState],
               resolver = s.pins,
               releases = [a \in Artifacts |->
                  IF a \in Leftovers \cup {s.current} \cup s.previous THEN "sealed" ELSE "absent"]
        PROVE  Shape
    <3>1. s.pins \in Pins /\ s.current \in Artifacts /\ s.previous \subseteq Artifacts
      BY <2>2 DEF States
    <3>2. states[active] = s
      BY <2>2, ProcAssumption
    <3>3. Complete(s)
      BY <2>2, <3>1 DEF Complete, Verified
    <3>4. QED
      BY <2>2, <3>1, <3>2, <3>3, ProcAssumption
  <2>3. QED
    BY <2>1, <2>2 DEF StoreInit
<1> HIDE DEF Shape
<1>3. StoreTypeOK
  <2>1. /\ dead \subseteq Procs /\ module \in Modules /\ official \in [Pins -> {"missing", "other", "pinned"}]
        /\ lock \in Procs \cup {NoProc} /\ written \in BOOLEAN /\ stolen \in BOOLEAN
    BY ProcAssumption, Zenon DEF StoreInit
  <2>2. 0 \in 0..Attempts
    BY AttemptAssumption
  <2>3. /\ staging \in [Procs -> Modules \cup Unfinished] /\ step \in [Procs -> Steps] /\ op \in [Procs -> Ops]
        /\ target \in [Procs -> Artifacts] /\ seen \in [Procs -> Procs \cup {NoProc}]
        /\ tries \in [Procs -> 0..Attempts] /\ plan \in [Procs -> States \cup {NoState}]
        /\ result \in [Procs -> {"none", "ok", "failed"}]
    BY <1>0, <2>2 DEF StoreInit, Unfinished, Steps, Ops
  <2>4. QED
    BY <1>1, <1>2, <2>1, <2>3, Zenon DEF StoreTypeOK, Shape
<1>4. ControlInv /\ WrapperInv
  BY DEF StoreInit, ControlInv, WrapperInv, Holding, Working, FitsOp
<1>5. DataInv
  BY <1>1, <1>2, ModuleAssumption DEF StoreInit, DataInv, StagingInv, ReleaseMatches, PlanInv, Shape
<1>6. QED
  BY <1>3, <1>4, <1>5 DEF StoreInv

----------------------------------------------------------------------------
(* Steps outside the work: the data stay as they are.                      *)

\* The step of p becomes one that says nothing of the data.
Plain == {"idle", "unlink", "open", "inspect", "compare", "move", "receipt", "inputs", "stage", "copy", "unpack", "patch",
          "seal", "verify", "back", "scan", "tidy", "unlock"}

LEMMA DataQuiet ==
  ASSUME StoreInv, NEW p \in Procs, NEW s \in Plain,
         step' = [step EXCEPT ![p] = s],
         UNCHANGED <<releases, holds, states, active>>,
         stolen => stolen',
         \A q \in Procs : q # p => op'[q] = op[q] /\ target'[q] = target[q] /\ seen'[q] = seen[q] /\ plan'[q] = plan[q],
         \A q \in Procs : q # p => staging'[q] \in {staging[q], "none"}
  PROVE  DataInv'
<1> USE DEF StoreInv, DataInv, StoreTypeOK
<1>1. StagingInv'
  <2>1. "none" \notin Modules
    BY ModuleAssumption DEF Unfinished
  <2>2. ASSUME NEW q \in Procs, step'[q] \in {"attest", "publish"}, staging'[q] \in Modules
        PROVE  staging'[q] = target'[q].module
    <3>1. q # p
      BY <2>2 DEF Plain
    <3>2. QED
      BY <2>1, <2>2, <3>1 DEF StagingInv
  <2>3. QED
    BY <2>2 DEF StagingInv
<1>2. ReleaseMatches'
  BY DEF ReleaseMatches
<1>3. ASSUME ~stolen', NEW q \in Procs PROVE PlanInv(q)'
  <2>1. CASE q = p
    BY <2>1 DEF PlanInv, Plain
  <2>2. CASE q # p
    BY <1>3, <2>2 DEF PlanInv, Complete, Verified
  <2>3. QED
    BY <2>1, <2>2
<1>4. ~stolen' => (active # NoProc => Complete(states[active]))'
  BY DEF Complete, Verified
<1> HIDE DEF StoreInv, DataInv, StoreTypeOK
<1>5. QED
  BY <1>1, <1>2, <1>3, <1>4 DEF DataInv

\* The lock file, its receipt and its recovery.
LEMMA LockStepInv ==
  ASSUME StoreInv, NEW p \in Procs, LockNext(p)
  PROVE  StoreInv'
<1> USE ProcAssumption, AttemptAssumption
    DEF StoreInv, machine, lockVars, tree, releaseVars, stateVars, wrapperVars, known, Goto, Continue
<1> DEFINE Effect(s) == /\ step' = [step EXCEPT ![p] = s]
                        /\ UNCHANGED <<dead, module, official, releases, holds, states, active, resolver, wrapper, op, target>>
                        /\ \A q \in Procs : q # p => seen'[q] = seen[q] /\ plan'[q] = plan[q] /\ result'[q] = result[q] /\ staging'[q] = staging[q]
                        /\ result'[p] \in {result[p], "failed"}
                        /\ stolen => stolen'
<1>1. ASSUME NEW s \in Plain, Effect(s), step[p] \in Plain,
             s \in Working => FitsOp(s, op[p]),
             StoreTypeOK',
             \A q \in Procs : ~stolen' /\ step'[q] \in Holding => lock' = q,
             s \in {"compare", "move"} => seen'[p] \in dead,
             p \notin dead
      PROVE  StoreInv'
  <2>1. DataInv'
    BY <1>1, DataQuiet
  <2>2. ControlInv'
    BY <1>1 DEF ControlInv, FitsOp, Plain, Working, StoreTypeOK
  <2>3. WrapperInv'
    BY <1>1 DEF WrapperInv, Plain, StoreTypeOK
  <2>4. QED
    BY <1>1, <2>1, <2>2, <2>3
<1>2. CASE OpenLock(p)
  <2>1. CASE lock = NoProc
    <3>1. Effect("receipt") /\ p \notin dead /\ lock' = p
      BY <1>2, <2>1 DEF OpenLock, StoreTypeOK
    <3>2. StoreTypeOK'
      <4>0. 0 \in 0..Attempts
        OBVIOUS
      <4>1. written' \in BOOLEAN
        BY <1>2, <2>1, Zenon DEF OpenLock
      <4>2. step' \in [Procs -> Steps] /\ tries' \in [Procs -> 0..Attempts] /\ lock' \in Procs
        BY <1>2, <2>1, <4>0 DEF OpenLock, StoreTypeOK, Steps, Locking
      <4>3. QED
        BY <1>2, <2>1, <4>1, <4>2 DEF OpenLock, StoreTypeOK
    <3>3. \A q \in Procs : ~stolen' /\ step'[q] \in Holding => lock' = q
      BY <1>2, <2>1, <3>1 DEF OpenLock, ControlInv, StoreTypeOK
    <3>4. QED
      BY <1>1, <1>2, <3>1, <3>2, <3>3 DEF OpenLock, Plain, Working
  <2>2. CASE lock # NoProc
    <3>1. Effect("inspect") /\ p \notin dead
      BY <1>2, <2>2 DEF OpenLock, StoreTypeOK
    <3>2. StoreTypeOK'
      BY <1>2, <2>2 DEF OpenLock, StoreTypeOK, Steps, Locking
    <3>3. \A q \in Procs : ~stolen' /\ step'[q] \in Holding => lock' = q
      BY <1>2, <2>2, <3>1 DEF OpenLock, ControlInv, StoreTypeOK, Holding, Working
    <3>4. QED
      BY <1>1, <1>2, <3>1, <3>2, <3>3 DEF OpenLock, Plain, Working
  <2>3. QED
    BY <2>1, <2>2
<1>3. ASSUME InspectLock(p) \/ CompareLock(p) PROVE StoreInv'
  <2>1. PICK s \in {"open", "idle", "compare", "move"} :
           /\ Effect(s)
           /\ s \in {"compare", "move"} => seen'[p] \in dead
           /\ UNCHANGED <<lock, written, stolen, staging>> /\ seen' \in [Procs -> Procs \cup {NoProc}] /\ tries' \in [Procs -> 0..Attempts]
           /\ plan' = plan /\ result' \in [Procs -> {"none", "ok", "failed"}]
    <3>1. CASE InspectLock(p) /\ lock = NoProc
      BY <3>1 DEF InspectLock, Retry, Refuse, StoreTypeOK, ControlInv
    <3>2. CASE InspectLock(p) /\ lock # NoProc
      <4>1. CASE Refuse(p)
        BY <3>2, <4>1 DEF InspectLock, Refuse, StoreTypeOK
      <4>2. CASE lock \in dead /\ Continue(p, "compare") /\ seen' = [seen EXCEPT ![p] = lock] /\ UNCHANGED tries
        BY <3>2, <4>2 DEF InspectLock, StoreTypeOK
      <4>3. QED
        BY <3>2, <4>1, <4>2 DEF InspectLock
    <3>3. CASE CompareLock(p) /\ lock = NoProc
      BY <3>3 DEF CompareLock, Retry, Refuse, StoreTypeOK, ControlInv
    <3>4. CASE CompareLock(p) /\ lock # NoProc
      <4>1. CASE lock = seen[p]
        BY <3>4, <4>1 DEF CompareLock, StoreTypeOK, ControlInv
      <4>2. CASE lock # seen[p]
        BY <3>4, <4>2 DEF CompareLock, Refuse, StoreTypeOK, ControlInv
      <4>3. QED
        BY <4>1, <4>2
    <3>5. QED
      BY <1>3, <3>1, <3>2, <3>3, <3>4
  <2>2. step[p] \in {"inspect", "compare"} /\ p \notin dead
    BY <1>3 DEF InspectLock, CompareLock
  <2>3. StoreTypeOK'
    BY <2>1 DEF StoreTypeOK, Steps, Locking
  <2>4. \A q \in Procs : ~stolen' /\ step'[q] \in Holding => lock' = q
    BY <2>1 DEF ControlInv, StoreTypeOK, Holding, Working
  <2>5. QED
    BY <1>1, <2>1, <2>2, <2>3, <2>4 DEF Plain, Working
<1>4. CASE MoveLock(p)
  <2>1. /\ step[p] = "move" /\ p \notin dead /\ seen[p] \in dead
    BY <1>4 DEF MoveLock, ControlInv
  <2>2. PICK s \in {"open", "idle"} :
           /\ Effect(s) /\ UNCHANGED <<staging, plan>>
           /\ seen' \in [Procs -> Procs \cup {NoProc}] /\ tries' \in [Procs -> 0..Attempts]
           /\ result' \in [Procs -> {"none", "ok", "failed"}]
    <3>1. CASE lock = seen[p] /\ lock # NoProc
      BY <1>4, <3>1 DEF MoveLock, Retry, Refuse, StoreTypeOK
    <3>2. CASE ~(lock = seen[p] /\ lock # NoProc)
      BY <1>4, <3>2 DEF MoveLock, Retry, Refuse, StoreTypeOK
    <3>3. QED
      BY <3>1, <3>2
  <2>3. /\ lock' = NoProc /\ stolen' \in BOOLEAN /\ written' \in BOOLEAN
        /\ ~stolen' => ~stolen /\ lock \in {NoProc, seen[p]}
    BY <1>4, Zenon DEF MoveLock, StoreTypeOK
  <2>4. StoreTypeOK'
    BY <2>2, <2>3 DEF StoreTypeOK, Steps, Locking
  <2>5. \A q \in Procs : ~stolen' /\ step'[q] \in Holding => lock' = q
    <3>1. SUFFICES ASSUME NEW q \in Procs, ~stolen', step'[q] \in Holding PROVE FALSE
      OBVIOUS
    <3>2. q # p /\ step[q] \in Holding
      BY <2>2, <3>1 DEF Holding, Working, StoreTypeOK
    <3>3. lock = q /\ q \notin dead
      BY <2>3, <3>1, <3>2 DEF ControlInv, Holding, Working
    <3>4. QED
      BY <2>1, <2>3, <3>1, <3>3
  <2>6. QED
    BY <1>1, <2>1, <2>2, <2>4, <2>5 DEF Plain, Working
<1>5. CASE WriteReceipt(p)
  <2>1. step[p] = "receipt" /\ p \notin dead /\ op[p] \in Ops
    BY <1>5 DEF WriteReceipt, StoreTypeOK
  <2>2. FirstStep(op[p]) \in {"inputs", "verify", "back", "scan"} /\ FitsOp(FirstStep(op[p]), op[p])
    BY <2>1 DEF FirstStep, FitsOp, Ops
  <2>3. PICK s \in {FirstStep(op[p]), "unlock"} :
           /\ Effect(s) /\ UNCHANGED <<lock, stolen, staging, seen, tries, plan>>
           /\ result' \in {result, [result EXCEPT ![p] = "failed"]}
    <3>1. \/ Goto(p, FirstStep(op[p])) /\ UNCHANGED result
          \/ Goto(p, "unlock") /\ result' = [result EXCEPT ![p] = "failed"]
      BY <1>5 DEF WriteReceipt, Finish
    <3>2. UNCHANGED <<machine, lock, stolen, tree, known>>
      BY <1>5 DEF WriteReceipt
    <3>3. QED
      BY <3>1, <3>2 DEF StoreTypeOK
  <2>4. written' \in BOOLEAN
    BY <1>5, Zenon DEF WriteReceipt, StoreTypeOK
  <2>5. FitsOp(s, op[p]) /\ s \in {"inputs", "verify", "back", "scan", "unlock"}
    BY <2>2, <2>3 DEF FitsOp
  <2>6. result' \in [Procs -> {"none", "ok", "failed"}]
    BY <2>3 DEF StoreTypeOK
  <2>7. StoreTypeOK'
    BY <2>3, <2>4, <2>5, <2>6 DEF StoreTypeOK, Steps, Working
  <2>8. \A q \in Procs : ~stolen' /\ step'[q] \in Holding => lock' = q
    BY <2>1, <2>3 DEF ControlInv, StoreTypeOK, Holding
  <2>9. QED
    BY <1>1, <2>1, <2>3, <2>5, <2>7, <2>8 DEF Plain
<1>6. CASE Unlock(p)
  <2>1. step[p] = "unlock" /\ p \notin dead
    BY <1>6 DEF Unlock
  <2>2. PICK s \in {"idle", "unlink"} : Effect(s) /\ (s = "unlink" => lock = p) /\ UNCHANGED <<lock, written, stolen, tries, result>>
    <3>1. CASE lock = p
      BY <1>6, <3>1 DEF Unlock, StoreTypeOK
    <3>2. CASE lock # p
      BY <1>6, <3>2 DEF Unlock, StoreTypeOK
    <3>3. QED
      BY <3>1, <3>2
  <2>3. StoreTypeOK'
    BY <1>6, <2>2 DEF Unlock, StoreTypeOK, Steps, Unfinished
  <2>4. \A q \in Procs : ~stolen' /\ step'[q] \in Holding => lock' = q
    BY <2>1, <2>2 DEF ControlInv, StoreTypeOK, Holding, Working
  <2>5. QED
    BY <1>1, <2>1, <2>2, <2>3, <2>4 DEF Plain, Working
<1>7. CASE UnlinkLock(p)
  <2>1. step[p] = "unlink" /\ p \notin dead
    BY <1>7 DEF UnlinkLock
  <2>2. /\ Effect("idle") /\ UNCHANGED <<stolen, staging, plan>> /\ lock' = NoProc
        /\ written' \in BOOLEAN /\ seen' \in [Procs -> Procs \cup {NoProc}] /\ tries' \in [Procs -> 0..Attempts]
        /\ result' \in [Procs -> {"none", "ok", "failed"}]
    <3>1. 0 \in 0..Attempts
      OBVIOUS
    <3>2. CASE lock = NoProc
      BY <1>7, <3>1, <3>2 DEF UnlinkLock, Refuse, StoreTypeOK
    <3>3. CASE lock # NoProc
      <4>1. written' \in BOOLEAN
        BY <1>7, <3>3 DEF UnlinkLock
      <4>2. QED
        BY <1>7, <3>3, <4>1 DEF UnlinkLock, StoreTypeOK
    <3>4. QED
      BY <3>2, <3>3
  <2>3. StoreTypeOK'
    BY <2>2 DEF StoreTypeOK, Steps
  <2>4. \A q \in Procs : ~stolen' /\ step'[q] \in Holding => lock' = q
    <3>1. SUFFICES ASSUME NEW q \in Procs, ~stolen', step'[q] \in Holding PROVE FALSE
      OBVIOUS
    <3>2. q # p /\ step[q] \in Holding
      BY <2>2, <3>1 DEF Holding, Working, StoreTypeOK
    <3>3. QED
      BY <2>1, <2>2, <3>1, <3>2 DEF ControlInv, Holding
  <2>5. QED
    BY <1>1, <2>1, <2>2, <2>3, <2>4 DEF Plain, Working
<1>8. QED
  BY <1>2, <1>3, <1>4, <1>5, <1>6, <1>7 DEF LockNext
----------------------------------------------------------------------------
(* Steps of the work: what is left to show of each is what it says of its  *)
(* own call and of the active state.                                       *)

LEMMA WorkStepInv ==
  ASSUME StoreInv, NEW p \in Procs, p \notin dead, step[p] \in Working,
         NEW s \in Working, step' = [step EXCEPT ![p] = s], FitsOp(s, op[p]),
         UNCHANGED <<machine, lockVars, op, tries>>,
         \A q \in Procs : q # p => /\ target'[q] = target[q] /\ seen'[q] = seen[q]
                                   /\ plan'[q] = plan[q] /\ result'[q] = result[q],
         \A q \in Procs : q # p => staging'[q] \in {staging[q], "none"},
         StoreTypeOK',
         wrapper => wrapper', active # NoProc => active' # NoProc,
         s = "select" => wrapper',
         op[p] = "activate" /\ s \in {"record", "commit"} => wrapper',
         op[p] = "activate" /\ result'[p] = "ok" => wrapper' /\ active' # NoProc,
         s \in {"attest", "publish"} /\ staging'[p] \in Modules => staging'[p] = target'[p].module,
         ReleaseMatches',
         ~stolen => (active # NoProc => Complete(states[active]))',
         ~stolen => PlanInv(p)'
  PROVE  StoreInv'
<1> USE DEF StoreInv, machine, lockVars
<1>1. step' = [q \in Procs |-> IF q = p THEN s ELSE step[q]]
  BY DEF StoreTypeOK
<1>2. ControlInv'
  <2>1. s \notin {"compare", "move", "idle"} /\ step[p] \in Holding /\ s \in Holding
    BY DEF Working, Holding
  <2>2. QED
    BY <1>1, <2>1 DEF ControlInv
<1>3. WrapperInv'
  <2>1. ASSUME NEW q \in Procs PROVE /\ step'[q] = "select" => wrapper'
                                     /\ op'[q] = "activate" /\ step'[q] \in {"record", "commit"} => wrapper'
                                     /\ op'[q] = "activate" /\ result'[q] = "ok" => wrapper' /\ active' # NoProc
    <3>1. CASE q = p
      BY <1>1, <3>1
    <3>2. CASE q # p
      BY <1>1, <3>2 DEF WrapperInv
    <3>3. QED
      BY <3>1, <3>2
  <2>2. QED
    BY <2>1 DEF WrapperInv
<1>4. StagingInv'
  <2>1. "none" \notin Modules
    BY ModuleAssumption DEF Unfinished
  <2>2. ASSUME NEW q \in Procs, step'[q] \in {"attest", "publish"}, staging'[q] \in Modules
        PROVE  staging'[q] = target'[q].module
    <3>1. CASE q = p
      BY <1>1, <2>2, <3>1
    <3>2. CASE q # p
      BY <1>1, <2>1, <2>2, <3>2 DEF StagingInv, DataInv
    <3>3. QED
      BY <3>1, <3>2
  <2>3. QED
    BY <2>2 DEF StagingInv
<1>5. ASSUME ~stolen', NEW q \in Procs PROVE PlanInv(q)'
  <2>1. CASE q = p
    BY <1>5, <2>1
  <2>2. CASE q # p
    <3>1. step'[q] \notin Holding
      BY <1>1, <1>5, <2>2, Alone DEF Holding
    <3>2. QED
      BY <3>1 DEF PlanInv, Holding, Working
  <2>3. QED
    BY <2>1, <2>2
<1>6. DataInv'
  BY <1>4, <1>5 DEF DataInv
<1>7. QED
  BY <1>2, <1>3, <1>6

\* A call that fails, or succeeds with nothing to tell, goes to unlock.
LEMMA FinishInv ==
  ASSUME StoreInv, NEW p \in Procs, p \notin dead, step[p] \in Working,
         NEW r \in {"failed", "ok"}, Finish(p, r), op[p] = "activate" /\ r = "ok" => wrapper /\ active # NoProc,
         UNCHANGED <<machine, lockVars, op, tries, releases, holds, states, active, resolver, wrapper, target, staging, seen, plan>>
  PROVE  StoreInv'
<1> USE DEF StoreInv, Finish, Goto
<1>1. StoreTypeOK'
  BY DEF StoreTypeOK, machine, lockVars, Steps, Working
<1>2. ReleaseMatches'
  BY DEF DataInv, ReleaseMatches
<1>3. step'[p] = "unlock" /\ result'[p] = r /\ (\A q \in Procs : q # p => result'[q] = result[q])
  BY DEF StoreTypeOK
<1>4. ~stolen => (active # NoProc => Complete(states[active]))'
  BY DEF DataInv, Complete, Verified
<1>5. PlanInv(p)'
  BY <1>3 DEF PlanInv
<1>6. FitsOp("unlock", op[p]) /\ "unlock" \in Working
  BY DEF FitsOp, Working
<1>7. QED
  BY <1>1, <1>2, <1>3, <1>4, <1>5, <1>6, WorkStepInv

----------------------------------------------------------------------------
(* prepare. *)

LEMMA PrepareStepInv ==
  ASSUME StoreInv, NEW p \in Procs, PrepareNext(p)
  PROVE  StoreInv'
<1> USE PinAssumption, ModuleAssumption
    DEF machine, lockVars, releaseVars, stateVars, wrapperVars, Continue, Goto, PrepareStep
<1> DEFINE Frame == UNCHANGED <<machine, lockVars, stateVars, op, seen, tries, plan>>
           Fails == Finish(p, "failed") /\ UNCHANGED <<target, releaseVars, staging, wrapperVars>>
<1>1. ASSUME p \notin dead, step[p] \in Working, Frame, Fails PROVE StoreInv'
  <2>1. "failed" \in {"failed", "ok"}
    OBVIOUS
  <2>2. QED
    BY <1>1, <2>1, FinishInv
\* Steps that leave the releases alone.
<1>2. ASSUME p \notin dead, step[p] \in Working, Frame, NEW s \in Working, FitsOp(s, op[p]),
             s \notin {"select", "record", "commit", "sweep", "orphans"},
             step' = [step EXCEPT ![p] = s], StoreTypeOK', UNCHANGED <<releases, holds, result>>,
             \A q \in Procs : q # p => target'[q] = target[q] /\ staging'[q] = staging[q],
             wrapper => wrapper',
             op[p] = "activate" /\ s \in {"resolver", "wrapper"} =>
               step[p] \in {"resolver", "wrapper"} /\ target' = target,
             s \in {"attest", "publish"} /\ staging'[p] \in Modules => staging'[p] = target'[p].module
      PROVE  StoreInv'
  <2>1. ReleaseMatches'
    BY <1>2 DEF StoreInv, DataInv, ReleaseMatches
  <2>2. ~stolen => (active # NoProc => Complete(states[active]))'
    BY <1>2 DEF StoreInv, DataInv, Complete, Verified
  <2>3. step'[p] = s
    BY <1>2 DEF StoreInv, StoreTypeOK
  <2>4. ~stolen => PlanInv(p)'
    BY <1>2, <2>3 DEF StoreInv, DataInv, PlanInv, Verified
  <2>5. op[p] = "activate" /\ result'[p] = "ok" => wrapper' /\ active' # NoProc
    BY <1>2 DEF StoreInv, WrapperInv
  <2>6. QED
    BY <1>2, <2>1, <2>2, <2>3, <2>4, <2>5, WorkStepInv
<1>3. CASE RejectOptions(p)
  BY <1>1, <1>3 DEF RejectOptions, Working
<1>4. CASE CheckInputs(p)
  <2> DEFINE a == [pins |-> PinsOf[p], module |-> module]
  <2>0. step[p] = "inputs" /\ p \notin dead /\ Frame /\ op[p] = "prepare" /\ a \in Artifacts
        /\ target' = [target EXCEPT ![p] = a]
    BY <1>4 DEF CheckInputs, StoreInv, StoreTypeOK, ControlInv, FitsOp, Artifacts
  <2>1. ASSUME NEW s \in {"stage", "resolver"}, Continue(p, s), UNCHANGED <<releaseVars, staging, wrapperVars>> PROVE StoreInv'
    <3>1. StoreTypeOK'
      BY <2>0, <2>1 DEF StoreInv, StoreTypeOK, Steps, Working
    <3>2. FitsOp(s, op[p]) /\ s \in Working /\ step[p] \in Working
      BY <2>0, <2>1 DEF FitsOp, Working
    <3>3. \A q \in Procs : q # p => target'[q] = target[q]
      BY <2>0 DEF StoreInv, StoreTypeOK
    <3>4. QED
      BY <1>2, <2>0, <2>1, <3>1, <3>2, <3>3
  <2>2. ASSUME Finish(p, "failed"), UNCHANGED <<releaseVars, staging, wrapperVars>> PROVE StoreInv'
    <3>1. StoreTypeOK'
      BY <2>0, <2>2 DEF StoreInv, StoreTypeOK, Steps, Working, Finish
    <3>2. FitsOp("unlock", op[p]) /\ "unlock" \in Working /\ step[p] \in Working
      BY <2>0 DEF FitsOp, Working
    <3>3. \A q \in Procs : q # p => target'[q] = target[q] /\ result'[q] = result[q]
      BY <2>0, <2>2 DEF StoreInv, StoreTypeOK, Finish
    <3>4. ReleaseMatches'
      BY <2>2 DEF StoreInv, DataInv, ReleaseMatches
    <3>5. ~stolen => (active # NoProc => Complete(states[active]))'
      BY <2>0, <2>2 DEF StoreInv, DataInv, Complete, Verified
    <3>6. step'[p] = "unlock"
      BY <2>2 DEF Finish, StoreInv, StoreTypeOK
    <3>7. PlanInv(p)'
      BY <3>6 DEF PlanInv
    <3>8. QED
      BY <2>0, <2>2, <3>1, <3>2, <3>3, <3>4, <3>5, <3>6, <3>7, WorkStepInv DEF Finish
  <2>3. QED
    BY <1>4, <2>1, <2>2 DEF CheckInputs
<1>5. CASE MakeStage(p)
  <2>1. step[p] = "stage" /\ p \notin dead /\ Frame /\ op[p] = "prepare"
    BY <1>5 DEF MakeStage, StoreInv, ControlInv, FitsOp
  <2>2. StoreTypeOK'
    BY <1>5, <2>1 DEF MakeStage, StoreInv, StoreTypeOK, Steps, Working, Unfinished
  <2>3. FitsOp("copy", op[p]) /\ "copy" \in Working /\ step[p] \in Working
    BY <2>1 DEF FitsOp, Working
  <2>4. \A q \in Procs : q # p => target'[q] = target[q] /\ staging'[q] = staging[q]
    BY <1>5 DEF MakeStage, StoreInv, StoreTypeOK
  <2>5. QED
    BY <1>2, <1>5, <2>1, <2>2, <2>3, <2>4 DEF MakeStage
\* The steps in the stage.
<1>6. ASSUME NEW s \in {"copy", "unpack", "patch", "attest"}, NEW n \in {"unpack", "patch", "attest", "publish"},
             NEW before, NEW after \in Modules \cup Unfinished, StageStep(p, s, before, after, n),
             n \in {"attest", "publish"} /\ after \in Modules /\ staging[p] = before => after = target[p].module
      PROVE  StoreInv'
  <2>1. step[p] = s /\ p \notin dead /\ Frame /\ op[p] = "prepare" /\ UNCHANGED <<target, releaseVars, wrapperVars>>
    BY <1>6 DEF StageStep, StoreInv, ControlInv, FitsOp
  <2>2. step[p] \in Working /\ n \in Working /\ FitsOp(n, op[p])
    BY <1>6, <2>1 DEF Working, FitsOp
  <2>3. CASE Finish(p, "failed") /\ UNCHANGED staging
    BY <1>1, <2>1, <2>2, <2>3
  <2>4. CASE staging[p] = before /\ staging' = [staging EXCEPT ![p] = after] /\ Continue(p, n)
    <3>1. StoreTypeOK'
      BY <1>6, <2>1, <2>2, <2>4 DEF StoreInv, StoreTypeOK, Steps
    <3>2. staging'[p] = after /\ \A q \in Procs : q # p => staging'[q] = staging[q]
      BY <2>4 DEF StoreInv, StoreTypeOK
    <3>3. QED
      BY <1>2, <1>6, <2>1, <2>2, <2>4, <3>1, <3>2
  <2>5. QED
    BY <1>6, <2>3, <2>4 DEF StageStep
<1>7. CASE CopyInputs(p)
  <2>1. "inputs" \in Modules \cup Unfinished
    BY DEF Unfinished
  <2>2. QED
    BY <1>6, <1>7, <2>1 DEF CopyInputs
<1>8. CASE Unpack(p)
  <2>1. "runfiles" \in Modules \cup Unfinished
    BY DEF Unfinished
  <2>2. QED
    BY <1>6, <1>8, <2>1 DEF Unpack
<1>9. CASE Patch(p)
  <2>1. CASE module = target[p].module /\ StageStep(p, "patch", "runfiles", module, "attest")
    <3>1. module \in Modules \cup Unfinished
      BY DEF StoreInv, StoreTypeOK
    <3>2. QED
      BY <1>6, <2>1, <3>1
  <2>2. CASE PrepareStep(p, "patch") /\ Fails
    BY <1>1, <2>2 DEF Working
  <2>3. QED
    BY <1>9, <2>1, <2>2 DEF Patch, CopyAsDigested
<1>10. CASE Attest(p)
  <2>1. PICK m \in Modules : StageStep(p, "attest", m, m, "publish")
    BY <1>10 DEF Attest
  <2>2. staging[p] = m => m = target[p].module
    BY <2>1 DEF StageStep, StoreInv, DataInv, StagingInv
  <2>3. QED
    BY <1>6, <2>1, <2>2
<1>11. CASE Publish(p)
  <2>1. step[p] = "publish" /\ p \notin dead /\ Frame /\ op[p] = "prepare" /\ UNCHANGED <<target, wrapperVars>>
        /\ target[p] \in Artifacts
    BY <1>11 DEF Publish, StoreInv, StoreTypeOK, ControlInv, FitsOp
  <2>2. CASE Finish(p, "failed") /\ UNCHANGED <<releaseVars, staging>>
    BY <1>1, <2>1, <2>2 DEF Working
  <2>3. CASE /\ releases[target[p]] = "absent" /\ staging[p] \in Modules
             /\ releases' = [releases EXCEPT ![target[p]] = "open"]
             /\ holds' = [holds EXCEPT ![target[p]] = staging[p]]
             /\ staging' = [staging EXCEPT ![p] = "empty"]
             /\ Continue(p, "seal")
    <3>1. StoreTypeOK'
      BY <2>1, <2>3 DEF StoreInv, StoreTypeOK, Steps, Working, Unfinished
    <3>2. staging[p] = target[p].module
      BY <2>1, <2>3 DEF StoreInv, DataInv, StagingInv
    <3>3. ReleaseMatches'
      BY <2>1, <2>3, <3>2 DEF StoreInv, StoreTypeOK, DataInv, ReleaseMatches
    <3>4. \A a \in Artifacts : releases[a] = "sealed" => releases'[a] = "sealed"
      BY <2>1, <2>3 DEF StoreInv, StoreTypeOK
    <3>5. ~stolen => (active # NoProc => Complete(states[active]))'
      BY <2>1, <3>4 DEF StoreInv, DataInv, Complete, Verified, States
    <3>6. step'[p] = "seal" /\ (\A q \in Procs : q # p => staging'[q] = staging[q]) /\ step' = [step EXCEPT ![p] = "seal"]
      BY <2>3 DEF StoreInv, StoreTypeOK
    <3>7. PlanInv(p)'
      BY <3>6 DEF PlanInv
    <3>8. FitsOp("seal", op[p]) /\ "seal" \in Working /\ step[p] \in Working
      BY <2>1 DEF FitsOp, Working
    <3>9. QED
      BY <2>1, <2>3, <3>1, <3>3, <3>5, <3>6, <3>7, <3>8, WorkStepInv
  <2>4. QED
    BY <1>11, <2>2, <2>3 DEF Publish
<1>12. CASE Seal(p)
  <2>1. step[p] = "seal" /\ p \notin dead /\ Frame /\ op[p] = "prepare" /\ UNCHANGED <<target, wrapperVars, staging, holds>>
        /\ target[p] \in Artifacts
    BY <1>12 DEF Seal, StoreInv, StoreTypeOK, ControlInv, FitsOp
  <2>2. CASE Finish(p, "failed") /\ UNCHANGED releases
    BY <1>1, <2>1, <2>2 DEF Working
  <2>3. CASE /\ releases[target[p]] = "open"
             /\ releases' = [releases EXCEPT ![target[p]] = "sealed"]
             /\ Continue(p, "resolver")
    <3>1. StoreTypeOK'
      BY <2>1, <2>3 DEF StoreInv, StoreTypeOK, Steps, Working
    <3>2. ReleaseMatches'
      BY <2>1, <2>3 DEF StoreInv, StoreTypeOK, DataInv, ReleaseMatches
    <3>3. \A a \in Artifacts : releases[a] = "sealed" => releases'[a] = "sealed"
      BY <2>1, <2>3 DEF StoreInv, StoreTypeOK
    <3>4. ~stolen => (active # NoProc => Complete(states[active]))'
      BY <2>1, <3>3 DEF StoreInv, DataInv, Complete, Verified, States
    <3>5. step'[p] = "resolver" /\ step' = [step EXCEPT ![p] = "resolver"]
      BY <2>3 DEF StoreInv, StoreTypeOK
    <3>6. PlanInv(p)'
      BY <2>1, <3>5 DEF PlanInv
    <3>7. FitsOp("resolver", op[p]) /\ "resolver" \in Working /\ step[p] \in Working
      BY <2>1 DEF FitsOp, Working
    <3>8. QED
      BY <2>1, <2>3, <3>1, <3>2, <3>4, <3>5, <3>6, <3>7, WorkStepInv
  <2>4. QED
    BY <1>12, <2>2, <2>3 DEF Seal
<1>13. CASE WriteResolver(p)
  <2>1. step[p] = "resolver" /\ p \notin dead /\ Frame /\ op[p] \in {"prepare", "activate"}
        /\ UNCHANGED <<target, releaseVars, staging, wrapper>>
    BY <1>13 DEF WriteResolver, StoreInv, ControlInv, FitsOp
  <2>2. StoreTypeOK'
    BY <1>13, <2>1 DEF WriteResolver, StoreInv, StoreTypeOK, Steps, Working
  <2>3. FitsOp("wrapper", op[p]) /\ "wrapper" \in Working /\ step[p] \in Working
    BY <2>1 DEF FitsOp, Working
  <2>4. step' = [step EXCEPT ![p] = "wrapper"] /\ UNCHANGED result
    BY <1>13 DEF WriteResolver
  <2>5. QED
    BY <1>2, <2>1, <2>2, <2>3, <2>4
<1>14. CASE WriteWrapper(p)
  <2>1. step[p] = "wrapper" /\ p \notin dead /\ Frame /\ op[p] \in {"prepare", "activate"}
        /\ UNCHANGED <<target, releaseVars, staging, resolver>> /\ wrapper'
    BY <1>14 DEF WriteWrapper, StoreInv, ControlInv, FitsOp
  <2>2. ReleaseMatches'
    BY <2>1 DEF StoreInv, DataInv, ReleaseMatches
  <2>3. ~stolen => (active # NoProc => Complete(states[active]))'
    BY <2>1 DEF StoreInv, DataInv, Complete, Verified
  <2>4. PICK s \in {"unlock", "select"} :
          /\ step' = [step EXCEPT ![p] = s] /\ (s = "select" => op[p] = "activate" /\ result' = result)
          /\ (s = "unlock" => op[p] = "prepare" /\ result' = [result EXCEPT ![p] = "ok"])
    <3>1. CASE op[p] = "prepare"
      <4>1. step' = [step EXCEPT ![p] = "unlock"] /\ result' = [result EXCEPT ![p] = "ok"]
        BY <1>14, <3>1 DEF WriteWrapper, Finish
      <4>2. QED
        BY <3>1, <4>1
    <3>2. CASE op[p] = "activate"
      <4>1. step' = [step EXCEPT ![p] = "select"] /\ result' = result
        BY <1>14, <3>2 DEF WriteWrapper
      <4>2. QED
        BY <3>2, <4>1
    <3>3. QED
      BY <2>1, <3>1, <3>2
  <2>5. step'[p] = s /\ (\A q \in Procs : q # p => result'[q] = result[q])
    BY <2>4 DEF StoreInv, StoreTypeOK
  <2>6. StoreTypeOK'
    <3>1. wrapper' \in BOOLEAN
      BY <1>14, Zenon DEF WriteWrapper
    <3>2. step' \in [Procs -> Steps] /\ result' \in [Procs -> {"none", "ok", "failed"}]
      BY <2>4 DEF StoreInv, StoreTypeOK, Steps, Working
    <3>3. QED
      BY <2>1, <3>1, <3>2 DEF StoreInv, StoreTypeOK
  <2>7. ~stolen => PlanInv(p)'
    BY <2>1, <2>4, <2>5 DEF StoreInv, DataInv, PlanInv, Verified
  <2>8. FitsOp(s, op[p]) /\ s \in Working /\ step[p] \in Working
    BY <2>1, <2>4 DEF FitsOp, Working
  <2>9. op[p] = "activate" /\ result'[p] = "ok" => wrapper' /\ active' # NoProc
    BY <2>1, <2>4 DEF StoreInv, WrapperInv
  <2>10. QED
    BY <2>1, <2>2, <2>3, <2>4, <2>5, <2>6, <2>7, <2>8, <2>9, WorkStepInv
<1>15. QED
  BY <1>3, <1>4, <1>5, <1>7, <1>8, <1>9, <1>10, <1>11, <1>12, <1>13, <1>14 DEF PrepareNext

----------------------------------------------------------------------------
(* activate and rollback. *)

LEMMA ActivateStepInv ==
  ASSUME StoreInv, NEW p \in Procs, ActivateNext(p)
  PROVE  StoreInv'
<1> USE PinAssumption
    DEF machine, lockVars, releaseVars, stateVars, wrapperVars, Continue, Goto, ActivateStep
<1> DEFINE Frame == UNCHANGED <<machine, lockVars, releaseVars, staging, wrapperVars, op, target, seen, tries>>
<1>0. ASSUME p \notin dead, step[p] \in Working, Frame, NEW r \in {"failed", "ok"}, Finish(p, r),
             op[p] = "activate" /\ r = "ok" => wrapper /\ active # NoProc, UNCHANGED <<states, active, plan>>
      PROVE  StoreInv'
  BY <1>0, FinishInv
<1>1. ReleaseMatches' <=> ReleaseMatches
  BY DEF ActivateNext, VerifyTarget, SelectNext, SelectBack, RecordState, CommitState, ReleaseMatches
\* A proposal of complete releases.
<1>2. ASSUME p \notin dead, Frame, UNCHANGED stateVars, step[p] \in {"select", "back"},
             NEW c \in Artifacts, NEW b \in SUBSET Artifacts, Propose(p, c, b),
             ~stolen => \A a \in {c} \cup b : Verified(a, PinsOf[p])
      PROVE  StoreInv'
  <2> DEFINE s == [pins |-> PinsOf[p], current |-> c, previous |-> b]
  <2>1. s \in States /\ plan' = [plan EXCEPT ![p] = s] /\ step' = [step EXCEPT ![p] = "record"] /\ result' = result
    BY <1>2 DEF Propose, States
  <2>2. plan'[p] = s /\ step'[p] = "record" /\ \A q \in Procs : q # p => plan'[q] = plan[q]
    BY <2>1 DEF StoreInv, StoreTypeOK
  <2>3. StoreTypeOK'
    BY <1>2, <2>1 DEF StoreInv, StoreTypeOK, Steps, Working
  <2>4. ~stolen => Complete(s)'
    BY <1>2, <2>1 DEF Complete, Verified
  <2>5. ~stolen => PlanInv(p)'
    BY <2>2, <2>4 DEF PlanInv
  <2>6. FitsOp("record", op[p]) /\ "record" \in Working /\ step[p] \in Working
    BY <1>2 DEF StoreInv, ControlInv, FitsOp, Working
  <2>7. ~stolen => (active # NoProc => Complete(states[active]))'
    BY <1>2 DEF StoreInv, DataInv, Complete, Verified
  <2>8. op[p] = "activate" => wrapper
    BY <1>2 DEF StoreInv, WrapperInv, ControlInv, FitsOp
  <2>9. op[p] = "activate" /\ result[p] = "ok" => wrapper /\ active # NoProc
    BY DEF StoreInv, WrapperInv
  <2>10. QED
    BY <1>1, <1>2, <2>1, <2>2, <2>3, <2>5, <2>6, <2>7, <2>8, <2>9, WorkStepInv DEF StoreInv, DataInv
<1>3. CASE VerifyTarget(p)
  <2>1. step[p] = "verify" /\ p \notin dead /\ Frame /\ op[p] = "activate" /\ UNCHANGED <<stateVars, plan>>
    BY <1>3 DEF VerifyTarget, StoreInv, ControlInv, FitsOp
  <2>2. CASE Verified(target[p], PinsOf[p]) /\ Continue(p, "resolver")
    <3>1. step'[p] = "resolver" /\ step' = [step EXCEPT ![p] = "resolver"] /\ result' = result
      BY <2>2 DEF StoreInv, StoreTypeOK
    <3>2. StoreTypeOK'
      BY <2>1, <3>1 DEF StoreInv, StoreTypeOK, Steps, Working
    <3>3. PlanInv(p)'
      BY <2>1, <2>2, <3>1 DEF PlanInv, Verified
    <3>4. FitsOp("resolver", op[p]) /\ "resolver" \in Working /\ step[p] \in Working
      BY <2>1 DEF FitsOp, Working
    <3>5. ~stolen => (active # NoProc => Complete(states[active]))'
      BY <2>1 DEF StoreInv, DataInv, Complete, Verified
    <3>6. op[p] = "activate" /\ result[p] = "ok" => wrapper /\ active # NoProc
      BY DEF StoreInv, WrapperInv
    <3>7. QED
      BY <1>1, <2>1, <3>1, <3>2, <3>3, <3>4, <3>5, <3>6, WorkStepInv DEF StoreInv, DataInv
  <2>3. CASE Finish(p, "failed")
    BY <1>0, <2>1, <2>3 DEF Working
  <2>4. QED
    BY <1>3, <2>2, <2>3 DEF VerifyTarget
<1>4. CASE SelectNext(p)
  <2>1. step[p] = "select" /\ p \notin dead /\ Frame /\ op[p] = "activate" /\ UNCHANGED stateVars /\ wrapper
        /\ target[p] \in Artifacts
    BY <1>4 DEF SelectNext, StoreInv, StoreTypeOK, ControlInv, FitsOp, WrapperInv
  <2>2. ~stolen => Verified(target[p], PinsOf[p])
    BY <2>1 DEF StoreInv, DataInv, PlanInv
  <2>3. CASE Finish(p, "failed") /\ UNCHANGED plan
    BY <1>0, <2>1, <2>3 DEF Working
  <2>4. CASE HasActive(PinsOf[p]) /\ Finish(p, "ok") /\ UNCHANGED plan
    BY <1>0, <2>1, <2>4 DEF Working, HasActive
  <2>5. CASE Propose(p, target[p], {})
    BY <1>2, <2>1, <2>2, <2>5
  <2>6. CASE /\ HasActive(PinsOf[p]) /\ Verified(states[active].current, PinsOf[p])
             /\ Propose(p, target[p], {states[active].current})
    <3>1. states[active].current \in Artifacts
      BY <2>6 DEF HasActive, StoreInv, StoreTypeOK, States
    <3>2. QED
      BY <1>2, <2>1, <2>2, <2>6, <3>1
  <2>7. QED
    BY <1>4, <2>3, <2>4, <2>5, <2>6 DEF SelectNext
<1>5. CASE SelectBack(p)
  <2>1. step[p] = "back" /\ p \notin dead /\ Frame /\ op[p] = "rollback" /\ UNCHANGED stateVars
    BY <1>5 DEF SelectBack, StoreInv, ControlInv, FitsOp
  <2>2. CASE Finish(p, "failed") /\ UNCHANGED plan
    BY <1>0, <2>1, <2>2 DEF Working
  <2>3. ASSUME NEW b \in Restorable(p), Propose(p, b, {states[active].current}) PROVE StoreInv'
    <3>1. /\ HasActive(PinsOf[p]) /\ Verified(states[active].current, PinsOf[p])
          /\ b \in states[active].previous /\ Verified(b, PinsOf[p])
      BY <2>3 DEF Restorable
    <3>2. states[active].current \in Artifacts /\ states[active].previous \subseteq Artifacts
      BY <3>1 DEF HasActive, StoreInv, StoreTypeOK, States
    <3>3. QED
      BY <1>2, <2>1, <2>3, <3>1, <3>2
  <2>4. QED
    BY <1>5, <2>2, <2>3 DEF SelectBack
<1>6. CASE RecordState(p)
  <2>1. step[p] = "record" /\ p \notin dead /\ Frame /\ op[p] \in {"activate", "rollback"} /\ UNCHANGED <<active, plan, result>>
        /\ states' = [states EXCEPT ![p] = plan[p]] /\ step' = [step EXCEPT ![p] = "commit"]
    BY <1>6 DEF RecordState, StoreInv, ControlInv, FitsOp
  <2>2. StoreTypeOK'
    BY <2>1 DEF StoreInv, StoreTypeOK, Steps, Working
  <2>3. step'[p] = "commit" /\ states'[p] = plan[p]
    BY <2>1 DEF StoreInv, StoreTypeOK
  <2>4. ~stolen => Complete(plan[p])'
    BY <2>1 DEF StoreInv, DataInv, PlanInv, Complete, Verified
  <2>5. ~stolen => PlanInv(p)'
    BY <2>1, <2>3, <2>4 DEF PlanInv
  <2>6. ~stolen => (active # NoProc => Complete(states[active]))'
    <3>1. CASE active = p
      BY <2>1, <2>3, <2>4, <3>1
    <3>2. CASE active # p
      BY <2>1, <3>2 DEF StoreInv, StoreTypeOK, DataInv, Complete, Verified
    <3>3. QED
      BY <3>1, <3>2
  <2>7. FitsOp("commit", op[p]) /\ "commit" \in Working /\ step[p] \in Working
    BY <2>1 DEF FitsOp, Working
  <2>8. /\ op[p] = "activate" => wrapper
        /\ op[p] = "activate" /\ result[p] = "ok" => wrapper /\ active # NoProc
    BY <2>1 DEF StoreInv, WrapperInv
  <2>9. QED
    BY <1>1, <2>1, <2>2, <2>3, <2>5, <2>6, <2>7, <2>8, WorkStepInv DEF StoreInv, DataInv
<1>7. CASE CommitState(p)
  <2>1. step[p] = "commit" /\ p \notin dead /\ Frame /\ op[p] \in {"activate", "rollback"} /\ UNCHANGED <<states, plan>>
    BY <1>7 DEF CommitState, StoreInv, ControlInv, FitsOp
  <2>2. CASE Finish(p, "failed") /\ UNCHANGED active
    BY <1>0, <2>1, <2>2 DEF Working
  <2>3. ASSUME NEW r \in {"ok", "failed"}, active' = p /\ Finish(p, r) PROVE StoreInv'
    <3>1. step' = [step EXCEPT ![p] = "unlock"] /\ result' = [result EXCEPT ![p] = r]
      BY <2>3 DEF Finish
    <3>2. StoreTypeOK'
      BY <2>1, <2>3, <3>1 DEF StoreInv, StoreTypeOK, Steps, Working
    <3>3. step'[p] = "unlock" /\ \A q \in Procs : q # p => result'[q] = result[q]
      BY <3>1 DEF StoreInv, StoreTypeOK
    <3>4. PlanInv(p)'
      BY <3>3 DEF PlanInv
    <3>5. ~stolen => (active # NoProc => Complete(states[active]))'
      BY <2>1, <2>3 DEF StoreInv, DataInv, PlanInv, Complete, Verified
    <3>6. FitsOp("unlock", op[p]) /\ "unlock" \in Working /\ step[p] \in Working
      BY <2>1 DEF FitsOp, Working
    <3>7. op[p] = "activate" => wrapper
      BY <2>1 DEF StoreInv, WrapperInv
    <3>8. QED
      BY <1>1, <2>1, <2>3, <3>1, <3>2, <3>3, <3>4, <3>5, <3>6, <3>7, ProcAssumption, WorkStepInv DEF StoreInv, DataInv
  <2>4. QED
    BY <1>7, <2>2, <2>3 DEF CommitState
<1>8. QED
  BY <1>3, <1>4, <1>5, <1>6, <1>7 DEF ActivateNext

----------------------------------------------------------------------------
(* cleanup, with or without purge. *)

LEMMA CleanupStepInv ==
  ASSUME StoreInv, NEW p \in Procs, CleanupNext(p)
  PROVE  StoreInv'
<1> USE DEF machine, lockVars, releaseVars, stateVars, wrapperVars, Continue, Goto, CleanupStep
<1> DEFINE Frame == UNCHANGED <<machine, lock, written, active, wrapperVars, op, target, tries>> /\ stolen' = stolen
\* What every step of a cleanup shares: only what it removes is left to show.
<1>1. ASSUME p \notin dead, step[p] \in {"scan", "sweep", "orphans", "tidy"}, Frame,
             NEW s \in {"sweep", "orphans", "tidy", "unlock"}, step' = [step EXCEPT ![p] = s],
             result' = result \/ \E r \in {"ok", "failed"} : result' = [result EXCEPT ![p] = r],
             \A q \in Procs : q # p => seen'[q] = seen[q] /\ plan'[q] = plan[q],
             \A q \in Procs : staging'[q] \in {staging[q], "none"},
             StoreTypeOK', ReleaseMatches',
             ~stolen => (active # NoProc => Complete(states[active]))',
             ~stolen => PlanInv(p)'
      PROVE  StoreInv'
  <2>1. op[p] \in {"cleanup", "purge"}
    BY <1>1 DEF StoreInv, ControlInv, FitsOp
  <2>2. FitsOp(s, op[p]) /\ s \in Working /\ step[p] \in Working
    BY <1>1, <2>1 DEF FitsOp, Working
  <2>3. \A q \in Procs : q # p => target'[q] = target[q] /\ result'[q] = result[q]
    BY <1>1 DEF StoreInv, StoreTypeOK
  <2>4. s \notin {"select", "record", "commit", "attest", "publish"} /\ op[p] # "activate"
    BY <1>1, <2>1
  <2>5. UNCHANGED <<machine, lockVars, op, tries>>
    BY <1>1
  <2>6. (wrapper => wrapper') /\ (active # NoProc => active' # NoProc)
    BY <1>1
  <2>7. \A q \in Procs : q # p => /\ target'[q] = target[q] /\ seen'[q] = seen[q]
                                  /\ plan'[q] = plan[q] /\ result'[q] = result[q]
    BY <1>1, <2>3
  <2>8. QED
    BY <1>1, <2>2, <2>4, <2>5, <2>6, <2>7, WorkStepInv
<1>2. CASE Scan(p)
  <2>1. step[p] = "scan" /\ p \notin dead /\ Frame /\ UNCHANGED <<releaseVars, staging, states>>
    BY <1>2 DEF Scan
  <2>2. ReleaseMatches'
    BY <2>1 DEF StoreInv, DataInv, ReleaseMatches
  <2>3. ~stolen => (active # NoProc => Complete(states[active]))'
    BY <2>1 DEF StoreInv, DataInv, Complete, Verified
  <2>4. CASE Finish(p, "failed") /\ UNCHANGED <<seen, plan>>
    <3>1. step' = [step EXCEPT ![p] = "unlock"] /\ result' = [result EXCEPT ![p] = "failed"]
      BY <2>4 DEF Finish
    <3>2. StoreTypeOK'
      BY <2>1, <2>4, <3>1 DEF StoreInv, StoreTypeOK, Steps, Working
    <3>3. PlanInv(p)'
      BY <3>1 DEF PlanInv, StoreInv, StoreTypeOK
    <3>4. QED
      BY <1>1, <2>1, <2>2, <2>3, <2>4, <3>1, <3>2, <3>3
  <2>5. CASE /\ seen' = [seen EXCEPT ![p] = active]
             /\ plan' = [plan EXCEPT ![p] = IF active = NoProc THEN NoState ELSE states[active]]
             /\ Continue(p, "sweep")
    <3>1. step' = [step EXCEPT ![p] = "sweep"] /\ result' = result
      BY <2>5
    <3>2. StoreTypeOK'
      BY <2>1, <2>5, <3>1 DEF StoreInv, StoreTypeOK, Steps, Working
    <3>3. /\ seen'[p] = active /\ plan'[p] = (IF active = NoProc THEN NoState ELSE states[active])
          /\ step'[p] = "sweep" /\ \A q \in Procs : q # p => seen'[q] = seen[q] /\ plan'[q] = plan[q]
      BY <2>5 DEF StoreInv, StoreTypeOK
    <3>4. PlanInv(p)'
      BY <2>1, <3>3 DEF PlanInv
    <3>5. QED
      BY <1>1, <2>1, <2>2, <2>3, <3>1, <3>2, <3>3, <3>4
  <2>6. QED
    BY <1>2, <2>4, <2>5 DEF Scan
<1>3. CASE Sweep(p)
  <2>1. step[p] = "sweep" /\ p \notin dead /\ Frame /\ UNCHANGED <<staging, states, seen, plan>>
    BY <1>3 DEF Sweep
  <2>2. ~stolen => plan[p] = IF active = NoProc THEN NoState ELSE states[active]
    BY <2>1 DEF StoreInv, DataInv, PlanInv
  <2>3. ~stolen /\ active # NoProc => Protected(p) = {states[active].current} \cup states[active].previous
    BY <2>2, StateFacts DEF StoreInv, DataInv, Complete, Protected
  <2>4. ASSUME NEW a \in Artifacts \ Protected(p),
               \A b \in Artifacts : b # a => releases'[b] = releases[b] /\ holds'[b] = holds[b],
               UNCHANGED <<step, result>>, StoreTypeOK', ReleaseMatches'
        PROVE  StoreInv'
    <3>1. ~stolen => (active # NoProc => Complete(states[active]))'
      <4>1. SUFFICES ASSUME ~stolen, active # NoProc PROVE Complete(states[active])'
        BY <2>1
      <4>2. Complete(states[active])
        BY <4>1 DEF StoreInv, DataInv
      <4>3. \A b \in {states[active].current} \cup states[active].previous : b \in Artifacts /\ b # a
        BY <2>3, <2>4, <4>1, <4>2 DEF Complete, States
      <4>4. QED
        BY <2>1, <2>4, <4>2, <4>3 DEF Complete, Verified
    <3>2. ~stolen => PlanInv(p)'
      BY <2>1, <2>4 DEF StoreInv, DataInv, PlanInv
    <3>3. step' = [step EXCEPT ![p] = "sweep"]
      BY <2>1, <2>4 DEF StoreInv, StoreTypeOK
    <3>4. QED
      BY <1>1, <2>1, <2>4, <3>1, <3>2, <3>3
  <2>5. ASSUME NEW a \in Artifacts \ Protected(p), releases' = [releases EXCEPT ![a] = "torn"],
               releases[a] \in {"open", "sealed"}, UNCHANGED holds, UNCHANGED <<step, result>>
        PROVE  StoreInv'
    <3>1. StoreTypeOK'
      BY <2>1, <2>5 DEF StoreInv, StoreTypeOK
    <3>2. ReleaseMatches'
      BY <2>5 DEF StoreInv, StoreTypeOK, DataInv, ReleaseMatches
    <3>3. \A b \in Artifacts : b # a => releases'[b] = releases[b] /\ holds'[b] = holds[b]
      BY <2>5 DEF StoreInv, StoreTypeOK
    <3>4. QED
      BY <2>4, <2>5, <3>1, <3>2, <3>3
  <2>6. ASSUME NEW a \in Artifacts \ Protected(p), releases' = [releases EXCEPT ![a] = "absent"],
               holds' = [holds EXCEPT ![a] = a.module], UNCHANGED <<step, result>>
        PROVE  StoreInv'
    <3>1. StoreTypeOK'
      BY <2>1, <2>6 DEF StoreInv, StoreTypeOK, Artifacts
    <3>2. ReleaseMatches'
      BY <2>6 DEF StoreInv, StoreTypeOK, DataInv, ReleaseMatches
    <3>3. \A b \in Artifacts : b # a => releases'[b] = releases[b] /\ holds'[b] = holds[b]
      BY <2>6 DEF StoreInv, StoreTypeOK
    <3>4. QED
      BY <2>4, <2>6, <3>1, <3>2, <3>3
  <2>7. CASE Continue(p, "orphans") /\ UNCHANGED releaseVars
    <3>1. StoreTypeOK'
      BY <2>1, <2>7 DEF StoreInv, StoreTypeOK, Steps, Working
    <3>2. ReleaseMatches'
      BY <2>7 DEF StoreInv, DataInv, ReleaseMatches
    <3>3. ~stolen => (active # NoProc => Complete(states[active]))'
      BY <2>1, <2>7 DEF StoreInv, DataInv, Complete, Verified
    <3>4. step'[p] = "orphans"
      BY <2>7 DEF StoreInv, StoreTypeOK
    <3>5. ~stolen => PlanInv(p)'
      BY <2>1, <3>4 DEF StoreInv, DataInv, PlanInv
    <3>6. QED
      BY <1>1, <2>1, <2>7, <3>1, <3>2, <3>3, <3>5
  <2>8. QED
    BY <1>3, <2>5, <2>6, <2>7 DEF Sweep
<1>4. CASE RemoveOrphans(p)
  <2>1. /\ step[p] = "orphans" /\ p \notin dead /\ Frame /\ UNCHANGED <<releaseVars, staging, seen, plan, result>>
        /\ step' = [step EXCEPT ![p] = "tidy"]
        /\ states' = [q \in Procs |-> IF q = seen[p] THEN states[q] ELSE NoState]
    BY <1>4 DEF RemoveOrphans
  <2>2. StoreTypeOK'
    BY <2>1 DEF StoreInv, StoreTypeOK, Steps, Working
  <2>3. ReleaseMatches'
    BY <2>1 DEF StoreInv, DataInv, ReleaseMatches
  <2>4. ~stolen => seen[p] = active
    BY <2>1 DEF StoreInv, DataInv, PlanInv
  <2>5. ~stolen => (active # NoProc => Complete(states[active]))'
    BY <2>1, <2>4 DEF StoreInv, StoreTypeOK, DataInv, Complete, Verified
  <2>6. PlanInv(p)'
    BY <2>1 DEF PlanInv, StoreInv, StoreTypeOK
  <2>7. QED
    BY <1>1, <2>1, <2>2, <2>3, <2>5, <2>6
<1>5. CASE Tidy(p)
  <2>1. /\ step[p] = "tidy" /\ p \notin dead /\ Frame /\ UNCHANGED <<releaseVars, states, seen, plan>>
        /\ staging' = [q \in Procs |-> "none"]
        /\ step' = [step EXCEPT ![p] = "unlock"] /\ result' = [result EXCEPT ![p] = "ok"]
    BY <1>5 DEF Tidy, Finish
  <2>2. StoreTypeOK'
    BY <2>1 DEF StoreInv, StoreTypeOK, Steps, Working, Unfinished
  <2>3. ReleaseMatches'
    BY <2>1 DEF StoreInv, DataInv, ReleaseMatches
  <2>4. ~stolen => (active # NoProc => Complete(states[active]))'
    BY <2>1 DEF StoreInv, DataInv, Complete, Verified
  <2>5. PlanInv(p)'
    BY <2>1 DEF PlanInv, StoreInv, StoreTypeOK
  <2>6. QED
    BY <1>1, <2>1, <2>2, <2>3, <2>4, <2>5
<1>6. QED
  BY <1>2, <1>3, <1>4, <1>5 DEF CleanupNext

LEMMA StoreStepInv ==
  ASSUME StoreInv, NEW p \in Procs, StoreNext(p)
  PROVE  StoreInv'
<1>1. CASE CallFails(p)
  <2>1. p \notin dead /\ step[p] \in Working /\ "failed" \in {"failed", "ok"}
    BY <1>1 DEF CallFails, Working
  <2>2. QED
    BY <1>1, <2>1, FinishInv DEF CallFails, tree, known, releaseVars, stateVars, wrapperVars
<1>2. QED
  BY <1>1, LockStepInv, PrepareStepInv, ActivateStepInv, CleanupStepInv DEF StoreNext

----------------------------------------------------------------------------
(* What surrounds a call. *)

LEMMA CallInv ==
  ASSUME StoreInv, NEW p \in Procs, NEW o \in Ops, NEW a \in Artifacts, Call(p, o, a)
  PROVE  StoreInv'
<1> USE DEF Call, Goto, machine, lockVars, tree, releaseVars, stateVars, wrapperVars
<1>1. 0 \in 0..Attempts
  BY AttemptAssumption
<1>2. StoreTypeOK'
  BY <1>1 DEF StoreInv, StoreTypeOK, Steps, Locking
<1>3. /\ step'[p] = "open" /\ result'[p] = "none"
      /\ \A q \in Procs : q # p => op'[q] = op[q] /\ target'[q] = target[q] /\ result'[q] = result[q] /\ step'[q] = step[q]
  BY DEF StoreInv, StoreTypeOK
<1>4. "open" \in Plain
  BY DEF Plain
<1>5. DataInv'
  BY <1>3, <1>4, DataQuiet
<1>6. ControlInv'
  BY <1>3 DEF StoreInv, ControlInv, FitsOp, Holding, Working
<1>7. WrapperInv'
  BY <1>3 DEF StoreInv, WrapperInv
<1>8. QED
  BY <1>2, <1>5, <1>6, <1>7 DEF StoreInv

LEMMA EndLifeInv ==
  ASSUME StoreInv, NEW p \in Procs, EndLife(p)
  PROVE  StoreInv'
<1> USE DEF EndLife, Goto, lockVars, tree, releaseVars, stateVars, wrapperVars
<1>1. 0 \in 0..Attempts
  BY AttemptAssumption
<1>2. SomeArtifact \in Artifacts
  <2>1. target[p] \in Artifacts
    BY DEF StoreInv, StoreTypeOK
  <2>2. QED
    BY <2>1 DEF SomeArtifact
<1>3. StoreTypeOK'
  BY <1>1, <1>2 DEF StoreInv, StoreTypeOK, Steps, Ops
<1>4. /\ step'[p] = "idle" /\ result'[p] = "none"
      /\ \A q \in Procs : q # p => /\ op'[q] = op[q] /\ target'[q] = target[q] /\ result'[q] = result[q] /\ step'[q] = step[q]
                                  /\ seen'[q] = seen[q] /\ plan'[q] = plan[q]
  BY DEF StoreInv, StoreTypeOK
<1>5. "idle" \in Plain
  BY DEF Plain
<1>6. DataInv'
  BY <1>4, <1>5, DataQuiet
<1>7. ControlInv'
  BY <1>4 DEF StoreInv, ControlInv, FitsOp, Holding, Working
<1>8. WrapperInv'
  BY <1>4 DEF StoreInv, WrapperInv
<1>9. QED
  BY <1>3, <1>6, <1>7, <1>8 DEF StoreInv

\* Steps of the system outside every call: another package, another payload, the
\* target of a call to come, a result that is taken.
LEMMA OutsideInv ==
  ASSUME StoreInv, StoreTypeOK',
         UNCHANGED <<dead, lockVars, tree, step, op, seen, tries, plan>>,
         \A q \in Procs : step[q] # "idle" => target'[q] = target[q] /\ result'[q] = result[q],
         \A q \in Procs : op[q] = "activate" /\ result'[q] = "ok" => wrapper /\ active # NoProc
  PROVE  StoreInv'
<1> USE DEF lockVars, tree, releaseVars, stateVars, wrapperVars
<1>1. ControlInv'
  BY DEF StoreInv, ControlInv
<1>2. WrapperInv'
  BY DEF StoreInv, WrapperInv
<1>3. StagingInv' /\ ReleaseMatches'
  BY DEF StoreInv, DataInv, StagingInv, ReleaseMatches
<1>4. ASSUME ~stolen, NEW q \in Procs PROVE PlanInv(q)'
  BY <1>4 DEF StoreInv, DataInv, PlanInv, Complete, Verified
<1>5. ~stolen => (active # NoProc => Complete(states[active]))'
  BY DEF StoreInv, DataInv, Complete, Verified
<1>6. QED
  BY <1>1, <1>2, <1>3, <1>4, <1>5 DEF StoreInv, DataInv

----------------------------------------------------------------------------
(* What a step of a call changes beside its own call. *)

\* What the steps that are no steps of the lock keep.
LEMMA StepEffect ==
  ASSUME StoreTypeOK, NEW p \in Procs, StoreNext(p)
  PROVE  /\ p \notin dead /\ step[p] # "idle" /\ UNCHANGED <<machine, op>> /\ (stolen => stolen')
         /\ \E s \in Steps : step' = [step EXCEPT ![p] = s] /\ (step[p] \in {"unlock", "unlink"} => s \in {"unlink", "idle"})
         /\ result' = result \/ \E r \in {"ok", "failed"} : result' = [result EXCEPT ![p] = r]
         /\ target' = target \/ \E a : target' = [target EXCEPT ![p] = a]
<1> USE DEF StoreTypeOK, machine, lockVars, tree, releaseVars, stateVars, wrapperVars, known, Goto, Continue, Finish
<1> DEFINE Own == /\ p \notin dead /\ step[p] # "idle" /\ UNCHANGED <<machine, op>> /\ (stolen => stolen')
                  /\ result' = result \/ \E r \in {"ok", "failed"} : result' = [result EXCEPT ![p] = r]
                  /\ target' = target \/ \E a : target' = [target EXCEPT ![p] = a]
           Moves(s) == step' = [step EXCEPT ![p] = s] /\ (step[p] \in {"unlock", "unlink"} => s \in {"unlink", "idle"})
<1>1. ASSUME LockNext(p) PROVE Own /\ \E s \in Steps : Moves(s)
  <2>1. CASE OpenLock(p)
    <3>1. Own
      BY <2>1 DEF OpenLock
    <3>2. Moves("receipt") \/ Moves("inspect")
      BY <2>1 DEF OpenLock
    <3>3. QED
      BY <3>1, <3>2 DEF Steps, Locking
  <2>2. CASE InspectLock(p)
    <3>1. Own
      BY <2>2 DEF InspectLock, Retry, Refuse
    <3>2. Moves("open") \/ Moves("idle") \/ Moves("compare")
      BY <2>2 DEF InspectLock, Retry, Refuse
    <3>3. QED
      BY <3>1, <3>2 DEF Steps, Locking
  <2>3. CASE CompareLock(p)
    <3>1. Own
      BY <2>3 DEF CompareLock, Retry, Refuse
    <3>2. Moves("open") \/ Moves("idle") \/ Moves("move")
      BY <2>3 DEF CompareLock, Retry, Refuse
    <3>3. QED
      BY <3>1, <3>2 DEF Steps, Locking
  <2>4. CASE MoveLock(p)
    <3>0. (stolen => stolen') /\ step[p] = "move"
      BY <2>4, Zenon DEF MoveLock
    <3>1. CASE Refuse(p)
      <4>1. Own /\ Moves("idle")
        BY <2>4, <3>0, <3>1 DEF MoveLock, Refuse
      <4>2. QED
        BY <4>1 DEF Steps
    <3>2. CASE Retry(p)
      <4>1. Own /\ (Moves("idle") \/ Moves("open"))
        BY <2>4, <3>0, <3>2 DEF MoveLock, Retry, Refuse
      <4>2. QED
        BY <4>1 DEF Steps, Locking
    <3>3. QED
      BY <2>4, <3>1, <3>2 DEF MoveLock
  <2>5. CASE WriteReceipt(p)
    <3>1. Own
      BY <2>5 DEF WriteReceipt
    <3>2. /\ Moves(FirstStep(op[p])) \/ Moves("unlock")
          /\ FirstStep(op[p]) \in Steps /\ "unlock" \in Steps
      BY <2>5 DEF WriteReceipt, FirstStep, Steps, Working
    <3>3. QED
      BY <3>1, <3>2
  <2>6. CASE Unlock(p)
    <3>1. Own
      BY <2>6 DEF Unlock
    <3>2. Moves("unlink") \/ Moves("idle")
      BY <2>6 DEF Unlock
    <3>3. QED
      BY <3>1, <3>2 DEF Steps
  <2>7. CASE UnlinkLock(p)
    <3>1. Own
      BY <2>7 DEF UnlinkLock, Refuse
    <3>2. Moves("idle")
      BY <2>7 DEF UnlinkLock, Refuse
    <3>3. QED
      BY <3>1, <3>2 DEF Steps
  <2>8. QED
    BY <1>1, <2>1, <2>2, <2>3, <2>4, <2>5, <2>6, <2>7 DEF LockNext
\* A step of the work goes on in the work.
<1>2. ASSUME Own, step[p] \in Working, step[p] # "unlock", NEW s \in Working, step' = [step EXCEPT ![p] = s]
      PROVE  Own /\ \E t \in Steps : Moves(t)
  BY <1>2 DEF Steps, Working
<1>3. ASSUME PrepareNext(p) PROVE Own /\ \E s \in Steps : Moves(s)
  <2> USE DEF PrepareStep, Working
  <2>1. CASE RejectOptions(p)
    BY <1>2, <2>1 DEF RejectOptions
  <2>2. CASE CheckInputs(p)
    BY <1>2, <2>2 DEF CheckInputs
  <2>3. CASE MakeStage(p)
    BY <1>2, <2>3 DEF MakeStage
  <2>4. ASSUME NEW s \in {"copy", "unpack", "patch", "attest"}, NEW n \in {"unpack", "patch", "attest", "publish"},
               NEW before, NEW after, StageStep(p, s, before, after, n)
        PROVE  Own /\ \E t \in Steps : Moves(t)
    BY <1>2, <2>4 DEF StageStep
  <2>5. CASE CopyInputs(p) \/ Unpack(p)
    BY <2>4, <2>5 DEF CopyInputs, Unpack
  <2>6. CASE Patch(p)
    <3>1. CASE StageStep(p, "patch", "runfiles", module, "attest")
      BY <2>4, <3>1
    <3>2. CASE PrepareStep(p, "patch") /\ Finish(p, "failed") /\ UNCHANGED <<target, releaseVars, staging, wrapperVars>>
      BY <1>2, <3>2
    <3>3. QED
      BY <2>6, <3>1, <3>2 DEF Patch
  <2>7. CASE Attest(p)
    BY <2>4, <2>7 DEF Attest
  <2>8. CASE Publish(p)
    BY <1>2, <2>8 DEF Publish
  <2>9. CASE Seal(p)
    BY <1>2, <2>9 DEF Seal
  <2>10. CASE WriteResolver(p)
    BY <1>2, <2>10 DEF WriteResolver
  <2>11. CASE WriteWrapper(p)
    BY <1>2, <2>11 DEF WriteWrapper
  <2>12. QED
    BY <1>3, <2>1, <2>2, <2>3, <2>5, <2>6, <2>7, <2>8, <2>9, <2>10, <2>11 DEF PrepareNext
<1>4. ASSUME ActivateNext(p) PROVE Own /\ \E s \in Steps : Moves(s)
  <2> USE DEF ActivateStep, Working, Propose
  <2>1. CASE VerifyTarget(p)
    BY <1>2, <2>1 DEF VerifyTarget
  <2>2. CASE SelectNext(p)
    BY <1>2, <2>2 DEF SelectNext
  <2>3. CASE SelectBack(p)
    BY <1>2, <2>3 DEF SelectBack
  <2>4. CASE RecordState(p)
    BY <1>2, <2>4 DEF RecordState
  <2>5. CASE CommitState(p)
    BY <1>2, <2>5 DEF CommitState
  <2>6. QED
    BY <1>4, <2>1, <2>2, <2>3, <2>4, <2>5 DEF ActivateNext
<1>5. ASSUME CleanupNext(p) PROVE Own /\ \E s \in Steps : Moves(s)
  <2> USE DEF CleanupStep, Working
  <2>1. CASE Scan(p)
    BY <1>2, <2>1 DEF Scan
  <2>2. CASE Sweep(p)
    <3>1. Own
      BY <2>2 DEF Sweep
    <3>2. Moves("sweep") \/ Moves("orphans")
      BY <2>2 DEF Sweep
    <3>3. QED
      BY <3>1, <3>2 DEF Steps
  <2>3. CASE RemoveOrphans(p)
    BY <1>2, <2>3 DEF RemoveOrphans
  <2>4. CASE Tidy(p)
    BY <1>2, <2>4 DEF Tidy
  <2>5. QED
    BY <1>5, <2>1, <2>2, <2>3, <2>4 DEF CleanupNext
<1>6. ASSUME CallFails(p) PROVE Own /\ \E s \in Steps : Moves(s)
  BY <1>6 DEF CallFails, Steps, Working
<1> HIDE DEF StoreTypeOK, machine
<1>7. QED
  BY <1>1, <1>3, <1>4, <1>5, <1>6 DEF StoreNext

\* The wrapper stays, the link moves only at a commit, an activation state changes only
\* when its life records it or a cleanup that did not see it active removes it.
LEMMA TreeEffect ==
  ASSUME StoreTypeOK, NEW p \in Procs, StoreNext(p)
  PROVE  /\ wrapper => wrapper'
         /\ active' = active \/ (active' = p /\ step[p] = "commit" /\ step' = [step EXCEPT ![p] = "unlock"])
         /\ \A q \in Procs : states'[q] = states[q] \/ (q = p /\ step[p] = "record") \/ (step[p] = "orphans" /\ q # seen[p])
<1> USE DEF tree, releaseVars, stateVars, wrapperVars, Goto, Continue, Finish
<1>1. CASE LockNext(p)
  BY <1>1 DEF LockNext, OpenLock, InspectLock, CompareLock, MoveLock, WriteReceipt, Unlock, UnlinkLock
<1>2. CASE PrepareNext(p)
  <2>1. UNCHANGED stateVars
    BY <1>2 DEF PrepareNext, PrepareStep, RejectOptions, CheckInputs, MakeStage, StageStep, CopyInputs, Unpack,
                Patch, Attest, Publish, Seal, WriteResolver, WriteWrapper
  <2>2. wrapper => wrapper'
    <3>1. CASE WriteWrapper(p)
      BY <3>1 DEF WriteWrapper
    <3>2. CASE ~WriteWrapper(p)
      BY <1>2, <3>2 DEF PrepareNext, RejectOptions, CheckInputs, MakeStage, StageStep, CopyInputs, Unpack,
                  Patch, Attest, Publish, Seal, WriteResolver
    <3>3. QED
      BY <3>1, <3>2
  <2>3. QED
    BY <2>1, <2>2
<1>3. CASE ActivateNext(p)
  <2>1. UNCHANGED wrapperVars
    BY <1>3 DEF ActivateNext, ActivateStep, VerifyTarget, SelectNext, SelectBack, RecordState, CommitState
  <2>2. CASE RecordState(p)
    BY <2>1, <2>2 DEF RecordState, ActivateStep, StoreTypeOK
  <2>3. CASE CommitState(p)
    BY <2>1, <2>3 DEF CommitState, ActivateStep
  <2>4. CASE VerifyTarget(p) \/ SelectNext(p) \/ SelectBack(p)
    BY <2>1, <2>4 DEF VerifyTarget, SelectNext, SelectBack
  <2>5. QED
    BY <1>3, <2>2, <2>3, <2>4 DEF ActivateNext
<1>4. CASE CleanupNext(p)
  BY <1>4 DEF CleanupNext, CleanupStep, Scan, Sweep, RemoveOrphans, Tidy, StoreTypeOK
<1>5. CASE CallFails(p)
  BY <1>5 DEF CallFails
<1>6. QED
  BY <1>1, <1>2, <1>3, <1>4, <1>5 DEF StoreNext

----------------------------------------------------------------------------
(* What the invariant gives. *)

LEMMA StoreSafe == StoreInv => OneWriter /\ ActiveComplete /\ ReleaseMatches
<1> SUFFICES ASSUME StoreInv PROVE OneWriter /\ ActiveComplete /\ ReleaseMatches
  OBVIOUS
<1>1. OneWriter
  BY Alone DEF OneWriter, Inside, Holding
<1>2. ActiveComplete
  BY StateFacts DEF ActiveComplete, StoreInv, DataInv, Complete
<1>3. QED
  BY <1>1, <1>2 DEF StoreInv, DataInv
=============================================================================
