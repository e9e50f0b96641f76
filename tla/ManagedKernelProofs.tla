------------------------ MODULE ManagedKernelProofs ------------------------
(***************************************************************************)
(* Theorems of ManagedKernel: its safety properties hold for every number  *)
(* of lives, generations and versions of the module, wherever lives end.   *)
(*                                                                         *)
(* The invariant adds to that of the store (KernelStoreProofs) where a     *)
(* life is when it has a call open, who holds the install lock, and what   *)
(* the start of a kernel knows: the link it read names the state of a life *)
(* that will commit nothing more, so that the state is still what it read  *)
(* as long as the link is where it was.                                    *)
(***************************************************************************)
EXTENDS ManagedKernel, KernelStoreProofs

\* A call is open in the phases of a call only; the dead are done; an operator only runs
\* its command; a connector prepares, then activates.
PhaseInv ==
  /\ \A p \in Procs : phase[p] \notin {"preparing", "calling"} => step[p] = "idle"
  /\ \A p \in dead : phase[p] = "done"
  /\ \A p \in Operators : phase[p] \in {"start", "preparing", "calling", "leave", "done"}
  /\ \A p \in Procs : phase[p] = "preparing" => op[p] = "prepare"
  /\ \A p \in Connectors : phase[p] = "calling" => op[p] = "activate"

\* An installer has the install lock of its generation, and its payload is not pinned
\* while it replaces it.
InstallInv ==
  /\ \A p \in Connectors : phase[p] \in Installing /\ G(p) \notin robbed => install[G(p)] = p
  /\ \A p \in Connectors :
       phase[p] \in {"fetch", "swapOut", "swapIn"} /\ G(p) \notin robbed => official[G(p)] # "pinned"

\* A life that has committed its state commits nothing more.
Committed(q) ==
  \/ phase[q] \in {"leave"} \cup Launching \cup Ended
  \/ phase[q] = "calling" /\ step[q] \in {"unlock", "unlink", "idle"}

\* What the start of a kernel knows.
LaunchInv ==
  /\ \A p \in Connectors : phase[p] = "link" \/ (phase[p] = "leave" /\ result[p] = "ok") => wrapper /\ active # NoProc
  /\ active # NoProc => Committed(active)
  /\ \A p \in Procs : link[p] # NoProc => Committed(link[p])
  /\ \A p \in Procs : phase[p] \in {"state", "release"} => link[p] # NoProc
  /\ \A p \in Procs : phase[p] = "release" /\ active = link[p] /\ ~stolen => target[p] = states[active].current

MoreTypeOK ==
  /\ phase \in [Procs -> Phases]
  /\ install \in [Pins -> Procs \cup {NoProc}] /\ owned \in [Pins -> BOOLEAN]
  /\ reaper \in [Pins -> Procs \cup {NoProc}] /\ saw \in [Procs -> Procs \cup {NoProc}]
  /\ was \in [Procs -> {"missing", "other", "pinned"}]
  /\ link \in [Procs -> Procs \cup {NoProc}] /\ pins \in [Procs -> Pins \cup {NoPins}]
  /\ robbed \subseteq Pins

KernelInv == StoreInv /\ MoreTypeOK /\ PhaseInv /\ InstallInv /\ LaunchInv

\* Where a life is when it takes which step.
LEMMA Groups == Connectors \subseteq Procs /\ Operators \subseteq Procs
BY ProcAssumption DEF Connectors

LEMMA Generations == \A p \in Procs : G(p) \in Pins
BY PinAssumption DEF G

LEMMA InitKernelInv == Init => KernelInv
<1> SUFFICES ASSUME Init PROVE KernelInv
  OBVIOUS
<1> USE DEF Init
<1>1. StoreInv
  BY InitStoreInv
<1>2. dead \subseteq Procs /\ Past \subseteq dead
  BY DEF StoreInit
<1>3. MoreTypeOK
  <2>1. /\ phase \in [Procs -> Phases] /\ saw \in [Procs -> Procs \cup {NoProc}]
        /\ reaper \in [Pins -> Procs \cup {NoProc}]
        /\ was \in [Procs -> {"missing", "other", "pinned"}]
        /\ link \in [Procs -> Procs \cup {NoProc}] /\ pins \in [Procs -> Pins \cup {NoPins}]
        /\ robbed \subseteq Pins
    BY DEF Phases, Ended
  <2>2. install \in [Pins -> Procs \cup {NoProc}]
    BY ProcAssumption
  <2>3. owned \in [Pins -> BOOLEAN]
    BY Zenon
  <2>4. QED
    BY <2>1, <2>2, <2>3 DEF MoreTypeOK
<1>4. PhaseInv
  BY <1>2, Groups DEF PhaseInv, StoreInit
<1>5. InstallInv
  BY Groups DEF InstallInv, Installing
<1>6. LaunchInv
  BY <1>2, Groups DEF LaunchInv, StoreInit, Committed, Ended
<1>7. QED
  BY <1>1, <1>3, <1>4, <1>5, <1>6 DEF KernelInv

----------------------------------------------------------------------------
(* A step of one life. *)

\* What is left to show of a step of p is what it says of p, of the link and of the
\* install locks.
LEMMA OneLifeInv ==
  ASSUME KernelInv, NEW p \in Procs, p \notin dead, dead' = dead,
         NEW s \in Phases, phase' = [phase EXCEPT ![p] = s], MoreTypeOK', StoreInv', InstallInv',
         \A q \in Procs : q # p => /\ step'[q] = step[q] /\ op'[q] = op[q] /\ result'[q] = result[q]
                                   /\ target'[q] = target[q] /\ link'[q] = link[q],
         s \notin {"preparing", "calling"} => step'[p] = "idle",
         p \in Operators => s \in {"start", "preparing", "calling", "leave", "done"},
         s = "preparing" => op'[p] = "prepare",
         p \in Connectors /\ s = "calling" => op'[p] = "activate",
         Committed(p) => Committed(p)',
         wrapper => wrapper', active # NoProc => active' # NoProc,
         p \in Connectors /\ (s = "link" \/ (s = "leave" /\ result'[p] = "ok")) => wrapper' /\ active' # NoProc,
         active' = active \/ (active' = p /\ Committed(p)'),
         link'[p] # NoProc => link'[p] \in Procs /\ Committed(link'[p]),
         s \in {"state", "release"} => link'[p] # NoProc,
         ~stolen' /\ s = "release" /\ active' = link'[p] => target'[p] = states'[active'].current,
         ~stolen' => /\ ~stolen
                     /\ \A q \in Procs : q # p /\ phase[q] = "release" /\ active' = link[q] =>
                          active' = active /\ states'[active] = states[active]
  PROVE  KernelInv'
<1> USE Groups
<1>1. phase'[p] = s /\ \A q \in Procs : q # p => phase'[q] = phase[q]
  BY DEF KernelInv, MoreTypeOK
<1>2. PhaseInv'
  <2>1. /\ \A q \in Procs : phase'[q] \notin {"preparing", "calling"} => step'[q] = "idle"
        /\ \A q \in dead' : phase'[q] = "done"
    BY <1>1 DEF KernelInv, PhaseInv, StoreInv, StoreTypeOK
  <2>2. \A q \in Operators : phase'[q] \in {"start", "preparing", "calling", "leave", "done"}
    BY <1>1 DEF KernelInv, PhaseInv
  <2>3. /\ \A q \in Procs : phase'[q] = "preparing" => op'[q] = "prepare"
        /\ \A q \in Connectors : phase'[q] = "calling" => op'[q] = "activate"
    BY <1>1 DEF KernelInv, PhaseInv
  <2>4. QED
    BY <2>1, <2>2, <2>3 DEF PhaseInv
<1>3. \A q \in Procs : Committed(q) => Committed(q)'
  BY <1>1 DEF Committed
<1>4. LaunchInv'
  <2>1. ASSUME NEW q \in Connectors, phase'[q] = "link" \/ (phase'[q] = "leave" /\ result'[q] = "ok")
        PROVE  wrapper' /\ active' # NoProc
    <3>1. CASE q = p
      BY <1>1, <2>1, <3>1
    <3>2. CASE q # p
      BY <1>1, <2>1, <3>2 DEF KernelInv, LaunchInv
    <3>3. QED
      BY <3>1, <3>2
  <2>2. active' # NoProc => Committed(active)'
    <3>1. CASE active' = active
      <4>1. active \in Procs \cup {NoProc}
        BY DEF KernelInv, StoreInv, StoreTypeOK
      <4>2. active' # NoProc => Committed(active)
        BY <3>1 DEF KernelInv, LaunchInv
      <4>3. QED
        BY <1>3, <3>1, <4>1, <4>2 DEF Committed
    <3>2. CASE active' = p /\ Committed(p)'
      BY <3>2 DEF Committed
    <3>3. QED
      BY <3>1, <3>2
  <2>3. ASSUME NEW q \in Procs, link'[q] # NoProc PROVE Committed(link[q])'
    <3>1. link'[q] \in Procs /\ Committed(link'[q])
      <4>1. CASE q = p
        BY <2>3, <4>1
      <4>2. CASE q # p
        BY <2>3, <4>2 DEF KernelInv, MoreTypeOK, LaunchInv
      <4>3. QED
        BY <4>1, <4>2
    <3>2. QED
      BY <1>3, <3>1 DEF Committed
  <2>4. ASSUME NEW q \in Procs, phase'[q] \in {"state", "release"} PROVE link'[q] # NoProc
    <3>1. CASE q = p
      BY <1>1, <2>4, <3>1
    <3>2. CASE q # p
      BY <1>1, <2>4, <3>2 DEF KernelInv, LaunchInv
    <3>3. QED
      BY <3>1, <3>2
  <2>5. ASSUME NEW q \in Procs, phase'[q] = "release", active' = link'[q], ~stolen'
        PROVE  target'[q] = states'[active'].current
    <3>1. CASE q = p
      BY <1>1, <2>5, <3>1
    <3>2. CASE q # p
      BY <1>1, <2>5, <3>2 DEF KernelInv, LaunchInv
    <3>3. QED
      BY <3>1, <3>2
  <2>6. QED
    BY <2>1, <2>2, <2>3, <2>4, <2>5 DEF LaunchInv
<1>5. QED
  BY <1>2, <1>4 DEF KernelInv

\* A life that has no call open goes from one phase to another, the store as it was.
LEMMA IdleStepInv ==
  ASSUME KernelInv, NEW p \in Procs, p \notin dead, phase[p] \notin {"preparing", "calling"} \cup Ended,
         NEW s \in Phases \ {"preparing", "calling"}, To(p, s), MoreTypeOK', StoreInv', InstallInv',
         UNCHANGED <<dead, lockVars, tree, step, op>>,
         \A q \in Procs : q # p => result'[q] = result[q] /\ target'[q] = target[q] /\ link'[q] = link[q],
         p \in Operators => s = "done",
         phase[p] \in {"leave"} \cup Launching => s \in {"leave"} \cup Launching \cup Ended,
         p \in Connectors /\ (s = "link" \/ (s = "leave" /\ result'[p] = "ok")) => wrapper /\ active # NoProc,
         link'[p] # NoProc => link'[p] \in Procs /\ Committed(link'[p]),
         s \in {"state", "release"} => link'[p] # NoProc,
         ~stolen /\ s = "release" /\ active = link'[p] => target'[p] = states[active].current
  PROVE  KernelInv'
<1> USE DEF lockVars, tree, releaseVars, stateVars, wrapperVars
<1>1. phase' = [phase EXCEPT ![p] = s] /\ phase'[p] = s
  BY DEF To, KernelInv, MoreTypeOK
<1>2. step'[p] = "idle"
  BY DEF KernelInv, PhaseInv
<1>3. Committed(p) => Committed(p)'
  BY <1>1, <1>2 DEF Committed
<1>4. QED
  BY <1>1, <1>2, <1>3, OneLifeInv

\* The install locks and the payloads stay, and p is no installer that it was not.
LEMMA InstallQuiet ==
  ASSUME KernelInv, NEW p \in Procs, NEW s \in Phases, To(p, s), UNCHANGED <<install, robbed, official>>,
         s \in Installing /\ p \in Connectors => phase[p] \in Installing,
         s \in {"swapOut", "swapIn"} => phase[p] \in {"fetch", "swapOut"},
         s # "fetch"
  PROVE  InstallInv'
<1>1. phase'[p] = s /\ \A q \in Procs : q # p => phase'[q] = phase[q]
  BY DEF To, KernelInv, MoreTypeOK
<1>2. QED
  BY <1>1, Groups DEF KernelInv, InstallInv, G

\* The store as it was, but for a result that is taken.
LEMMA StoreStays ==
  ASSUME KernelInv, UNCHANGED <<dead, module, lockVars, tree, step, known>>,
         official' \in [Pins -> {"missing", "other", "pinned"}],
         NEW p \in Procs, step[p] = "idle", NEW r \in {"none", "ok", "failed"},
         result' = result \/ result' = [result EXCEPT ![p] = r],
         r = "ok" => wrapper /\ active # NoProc
  PROVE  StoreInv'
<1> USE DEF lockVars, tree, releaseVars, stateVars, wrapperVars, known
<1>1. StoreTypeOK'
  BY DEF KernelInv, StoreInv, StoreTypeOK
<1>2. \A q \in Procs : step[q] # "idle" => target'[q] = target[q] /\ result'[q] = result[q]
  BY DEF KernelInv, StoreInv, StoreTypeOK
<1>3. \A q \in Procs : op[q] = "activate" /\ result'[q] = "ok" => wrapper /\ active # NoProc
  BY DEF KernelInv, StoreInv, StoreTypeOK, WrapperInv
<1>4. UNCHANGED <<dead, lockVars, tree, step, op, seen, tries, plan>>
  OBVIOUS
<1>5. QED
  BY <1>1, <1>2, <1>3, <1>4, OutsideInv DEF KernelInv

----------------------------------------------------------------------------
(* The install lock. *)

LEMMA LockPathInv ==
  ASSUME KernelInv, NEW p \in Procs, LockPathNext(p)
  PROVE  KernelInv'
<1> USE Groups, Generations DEF LockStep, At
\* All steps but the last leave the store as it is.
<1>1. ASSUME UNCHANGED <<storeVars, was, launchVars>>, p \in Connectors, p \notin dead,
             phase[p] \in Waiting \cup {"start", "owner"},
             NEW s \in Waiting \cup {"owner", "status", "failed"}, To(p, s),
             MoreTypeOK', InstallInv'
      PROVE  KernelInv'
  <2> USE DEF storeVars, machine, lockVars, tree, releaseVars, stateVars, wrapperVars, known, launchVars
  <2>1. phase[p] \notin {"preparing", "calling", "leave"} \cup Launching \cup Ended /\ step[p] = "idle"
    BY <1>1 DEF Waiting, Launching, Ended, KernelInv, PhaseInv
  <2>2. s \in Phases \ {"preparing", "calling", "link", "leave", "state", "release"}
    BY <1>1 DEF Phases, Waiting, Installing, Ended
  <2>3. official' \in [Pins -> {"missing", "other", "pinned"}]
    BY <1>1 DEF KernelInv, StoreInv, StoreTypeOK
  <2>4. "none" \in {"none", "ok", "failed"} /\ result' = result
    BY <1>1
  <2>5. StoreInv'
    BY <1>1, <2>1, <2>3, <2>4, StoreStays
  <2>6. \A q \in Procs : link'[q] # NoProc => link'[q] \in Procs /\ Committed(link'[q])
    BY <1>1 DEF KernelInv, LaunchInv, MoreTypeOK
  <2>7. p \notin Operators
    BY <1>1 DEF Connectors
  <2>8. UNCHANGED <<dead, lockVars, tree, step, op, result, target, link>>
    BY <1>1
  <2>9. QED
    BY <1>1, <2>1, <2>2, <2>5, <2>6, <2>7, <2>8, IdleStepInv
<1>2. ASSUME phase[p] \in Waiting \cup {"owner"} PROVE p \in Connectors
  BY <1>2 DEF Connectors, Waiting, KernelInv, PhaseInv
\* Steps that leave the install lock alone.
<1>3. ASSUME UNCHANGED <<storeVars, was, launchVars, install, owned, robbed>>, p \in Connectors, p \notin dead,
             phase[p] \in Waiting \cup {"start"}, NEW s \in Waiting \cup {"failed"}, To(p, s),
             reaper' \in [Pins -> Procs \cup {NoProc}], saw' \in [Procs -> Procs \cup {NoProc}]
      PROVE  KernelInv'
  <2>1. s \in Phases /\ s \notin Installing
    BY <1>3 DEF Phases, Waiting, Installing, Ended
  <2>2. MoreTypeOK'
    BY <1>3, <2>1 DEF KernelInv, MoreTypeOK, To, launchVars
  <2>3. InstallInv'
    BY <1>3, <2>1, InstallQuiet DEF storeVars, machine, Installing
  <2>4. QED
    BY <1>1, <1>3, <2>2, <2>3
<1>4. CASE Start(p)
  BY <1>3, <1>4 DEF Start, installVars, Waiting, KernelInv, MoreTypeOK
<1>5. CASE MakeLock(p)
  <2>1. p \in Connectors /\ phase[p] = "lock" /\ p \notin dead /\ UNCHANGED <<storeVars, was, launchVars, reaper, saw, robbed>>
    BY <1>2, <1>5 DEF MakeLock, Waiting
  <2>2. CASE install[G(p)] = NoProc
    <3>1. /\ install' = [install EXCEPT ![G(p)] = p] /\ owned' = [owned EXCEPT ![G(p)] = FALSE] /\ To(p, "owner")
      BY <1>5, <2>2 DEF MakeLock
    <3>2. MoreTypeOK'
      BY <2>1, <3>1 DEF KernelInv, MoreTypeOK, To, launchVars, Phases, Installing
    <3>3. InstallInv'
      <4>1. phase'[p] = "owner" /\ \A q \in Procs : q # p => phase'[q] = phase[q]
        BY <3>1 DEF To, KernelInv, MoreTypeOK
      <4>2. install'[G(p)] = p /\ \A g \in Pins : g # G(p) => install'[g] = install[g]
        BY <3>1 DEF KernelInv, MoreTypeOK
      <4>3. official' = official
        BY <2>1 DEF storeVars, machine
      <4>4. QED
        BY <2>1, <2>2, <4>1, <4>2, <4>3, ProcAssumption DEF KernelInv, InstallInv
    <3>4. QED
      BY <1>1, <2>1, <3>1, <3>2, <3>3 DEF Waiting
  <2>3. CASE install[G(p)] # NoProc
    BY <1>3, <1>5, <2>1, <2>3 DEF MakeLock, Waiting, KernelInv, MoreTypeOK
  <2>4. QED
    BY <2>2, <2>3
<1>6. CASE WriteOwner(p)
  <2>1. p \in Connectors /\ phase[p] = "owner" /\ p \notin dead /\ UNCHANGED <<storeVars, was, launchVars, reaper, saw, robbed>>
    BY <1>2, <1>6 DEF WriteOwner
  <2>2. official' = official
    BY <2>1 DEF storeVars, machine
  <2>3. CASE /\ owned' = [owned EXCEPT ![G(p)] = @ \/ install[G(p)] = p]
             /\ To(p, "status") /\ UNCHANGED install
    <3>1. owned' \in [Pins -> BOOLEAN]
      <4>1. owned \in [Pins -> BOOLEAN]
        BY DEF KernelInv, MoreTypeOK
      <4>2. PICK b \in BOOLEAN : owned' = [owned EXCEPT ![G(p)] = b]
        BY <2>3, Zenon
      <4>3. QED
        BY <4>1, <4>2
    <3>2. MoreTypeOK'
      BY <2>1, <2>3, <3>1 DEF KernelInv, MoreTypeOK, To, launchVars, Phases, Installing
    <3>3. InstallInv'
      BY <2>1, <2>2, <2>3, InstallQuiet DEF Phases, Installing
    <3>4. QED
      BY <1>1, <2>1, <2>3, <3>2, <3>3
  <2>4. CASE /\ install' = [install EXCEPT ![G(p)] = NoProc] /\ owned' = [owned EXCEPT ![G(p)] = FALSE]
             /\ To(p, "failed")
    <3>1. MoreTypeOK'
      BY <2>1, <2>4 DEF KernelInv, MoreTypeOK, To, launchVars, Phases, Ended
    <3>2. InstallInv'
      <4>1. phase'[p] = "failed" /\ \A q \in Procs : q # p => phase'[q] = phase[q]
        BY <2>4 DEF To, KernelInv, MoreTypeOK
      <4>2. \A g \in Pins : g # G(p) => install'[g] = install[g]
        BY <2>4 DEF KernelInv, MoreTypeOK
      <4>3. \A q \in Connectors : q # p /\ phase[q] \in Installing /\ G(q) \notin robbed => G(q) # G(p)
        BY <2>1 DEF KernelInv, InstallInv, Installing
      <4>4. QED
        BY <2>1, <2>2, <4>1, <4>2, <4>3 DEF KernelInv, InstallInv, Installing
    <3>3. QED
      BY <1>1, <2>1, <2>4, <3>1, <3>2
  <2>5. QED
    BY <1>6, <2>3, <2>4 DEF WriteOwner
<1>7. CASE MakeReaper(p)
  <2>1. p \in Connectors /\ phase[p] = "reap" /\ p \notin dead /\ UNCHANGED <<storeVars, was, launchVars, install, owned, saw, robbed>>
    BY <1>2, <1>7 DEF MakeReaper, Waiting
  <2>2. reaper' \in [Pins -> Procs \cup {NoProc}] /\ (To(p, "read") \/ To(p, "pause"))
    BY <1>7 DEF MakeReaper, KernelInv, MoreTypeOK
  <2>3. saw' \in [Procs -> Procs \cup {NoProc}]
    BY <2>1 DEF KernelInv, MoreTypeOK
  <2>4. QED
    BY <1>3, <2>1, <2>2, <2>3 DEF Waiting
<1>8. CASE ReadOwner(p)
  <2>1. p \in Connectors /\ phase[p] = "read" /\ p \notin dead /\ UNCHANGED <<storeVars, was, launchVars, install, owned, reaper, robbed>>
    BY <1>2, <1>8 DEF ReadOwner, Waiting
  <2>2. saw' \in [Procs -> Procs \cup {NoProc}] /\ (To(p, "probe") \/ To(p, "drop"))
    <3>1. CASE install[G(p)] # NoProc /\ owned[G(p)]
      <4>1. saw' = [saw EXCEPT ![p] = install[G(p)]] /\ To(p, "probe")
        BY <1>8, <3>1, Zenon DEF ReadOwner
      <4>2. QED
        BY <4>1 DEF KernelInv, MoreTypeOK
    <3>2. CASE ~(install[G(p)] # NoProc /\ owned[G(p)])
      <4>1. saw' = saw /\ To(p, "drop")
        BY <1>8, <3>2, Zenon DEF ReadOwner
      <4>2. QED
        BY <4>1 DEF KernelInv, MoreTypeOK
    <3>3. QED
      BY <3>1, <3>2
  <2>3. reaper' \in [Pins -> Procs \cup {NoProc}]
    BY <2>1 DEF KernelInv, MoreTypeOK
  <2>4. QED
    BY <1>3, <2>1, <2>2, <2>3 DEF Waiting
<1>9. CASE ProbeOwner(p)
  <2>1. p \in Connectors /\ phase[p] = "probe" /\ p \notin dead /\ UNCHANGED <<storeVars, was, launchVars, reaper, saw>>
        /\ To(p, "drop")
    BY <1>2, <1>9 DEF ProbeOwner, Waiting
  <2>2. CASE saw[p] \in dead
    <3>1. /\ install' = [install EXCEPT ![G(p)] = NoProc] /\ owned' = [owned EXCEPT ![G(p)] = FALSE]
          /\ robbed' = IF install[G(p)] \in {NoProc, saw[p]} THEN robbed ELSE robbed \cup {G(p)}
      BY <1>9, <2>2 DEF ProbeOwner
    <3>2. MoreTypeOK'
      BY <2>1, <3>1 DEF KernelInv, MoreTypeOK, To, launchVars, Phases, Waiting
    <3>3. InstallInv'
      <4>1. phase'[p] = "drop" /\ \A q \in Procs : q # p => phase'[q] = phase[q]
        BY <2>1 DEF To, KernelInv, MoreTypeOK
      <4>2. \A g \in Pins : g # G(p) => install'[g] = install[g]
        BY <3>1 DEF KernelInv, MoreTypeOK
      <4>3. ASSUME NEW q \in Connectors, phase[q] \in Installing, G(q) \notin robbed' PROVE G(q) # G(p)
        <5>1. install[G(q)] = q /\ q \notin dead
          BY <3>1, <4>3 DEF KernelInv, InstallInv, PhaseInv, Installing
        <5>2. QED
          BY <2>2, <3>1, <4>3, <5>1, ProcAssumption
      <4>4. official' = official /\ robbed \subseteq robbed'
        BY <2>1, <3>1 DEF storeVars, machine
      <4>5. "drop" \notin Installing
        BY DEF Installing
      <4>6. \A q \in Connectors : phase'[q] \in Installing => q # p /\ phase[q] \in Installing
        BY <4>1, <4>5
      <4>7. \A q \in Connectors : phase'[q] \in {"fetch", "swapOut", "swapIn"} => phase[q] \in {"fetch", "swapOut", "swapIn"}
        BY <4>1
      <4>8. QED
        BY <4>2, <4>3, <4>4, <4>6, <4>7 DEF KernelInv, InstallInv
    <3>4. QED
      BY <1>1, <2>1, <3>2, <3>3 DEF Waiting
  <2>3. CASE saw[p] \notin dead
    <3>1. UNCHANGED <<install, owned, robbed>>
      BY <1>9, <2>3 DEF ProbeOwner
    <3>2. QED
      BY <1>3, <2>1, <3>1 DEF Waiting, KernelInv, MoreTypeOK
  <2>4. QED
    BY <2>2, <2>3
<1>10. CASE DropReaper(p)
  <2>1. p \in Connectors /\ phase[p] = "drop" /\ p \notin dead /\ UNCHANGED <<storeVars, was, launchVars, install, owned, robbed>>
    BY <1>2, <1>10 DEF DropReaper, Waiting
  <2>2. /\ reaper' \in [Pins -> Procs \cup {NoProc}] /\ saw' \in [Procs -> Procs \cup {NoProc}] /\ To(p, "pause")
    BY <1>10 DEF DropReaper, KernelInv, MoreTypeOK
  <2>3. QED
    BY <1>3, <2>1, <2>2 DEF Waiting
<1>11. CASE Pause(p)
  <2>1. p \in Connectors /\ phase[p] = "pause" /\ p \notin dead /\ UNCHANGED <<storeVars, was, launchVars, installVars>>
    BY <1>2, <1>11 DEF Pause, Waiting
  <2>2. To(p, "lock") \/ To(p, "failed")
    BY <1>11 DEF Pause
  <2>3. QED
    BY <1>3, <2>1, <2>2 DEF Waiting, KernelInv, MoreTypeOK, installVars
<1>12. CASE Leave(p)
  <2>1. /\ p \in Connectors /\ phase[p] = "leave" /\ p \notin dead
        /\ UNCHANGED <<machine, lockVars, tree, step, known, reaper, saw, robbed, was, launchVars>>
        /\ install' = [install EXCEPT ![G(p)] = NoProc] /\ owned' = [owned EXCEPT ![G(p)] = FALSE]
        /\ result' = [result EXCEPT ![p] = "none"]
    BY <1>12 DEF Leave
  <2>2. PICK s \in {"link", "failed"} : To(p, s) /\ (s = "link" => result[p] = "ok")
    BY <1>12 DEF Leave
  <2>3. s \in Phases \ {"preparing", "calling"} /\ s \notin Installing
    BY <2>2 DEF Phases, Launching, Ended, Installing
  <2>4. MoreTypeOK'
    BY <2>1, <2>2, <2>3 DEF KernelInv, MoreTypeOK, To, launchVars
  <2>5. InstallInv'
    <3>1. phase'[p] = s /\ \A q \in Procs : q # p => phase'[q] = phase[q]
      BY <2>2 DEF To, KernelInv, MoreTypeOK
    <3>2. \A g \in Pins : g # G(p) => install'[g] = install[g]
      BY <2>1 DEF KernelInv, MoreTypeOK
    <3>3. "leave" \in Installing
      BY DEF Installing
    <3>4. \A q \in Connectors : q # p /\ phase[q] \in Installing /\ G(q) \notin robbed => G(q) # G(p)
      BY <2>1, <3>3 DEF KernelInv, InstallInv
    <3>5. official' = official
      BY <2>1 DEF machine
    <3>6. QED
      BY <2>1, <2>2, <2>3, <3>1, <3>2, <3>4, <3>5 DEF KernelInv, InstallInv
  <2>6. step[p] = "idle" /\ phase[p] \notin {"preparing", "calling"} \cup Ended
    BY <2>1 DEF KernelInv, PhaseInv, Ended
  <2>7. StoreInv'
    <3>1. official' \in [Pins -> {"missing", "other", "pinned"}]
      BY <2>1 DEF machine, KernelInv, StoreInv, StoreTypeOK
    <3>2. UNCHANGED <<dead, module, lockVars, tree, step, known>>
      BY <2>1 DEF machine
    <3>3. "none" \in {"none", "ok", "failed"} /\ "none" # "ok"
      OBVIOUS
    <3>4. QED
      BY <2>1, <2>6, <3>1, <3>2, <3>3, StoreStays
  <2>8. UNCHANGED <<dead, lockVars, tree, step, op, target, link>>
    BY <2>1 DEF machine, known, launchVars
  <2>9. \A q \in Procs : q # p => result'[q] = result[q]
    BY <2>1 DEF KernelInv, StoreInv, StoreTypeOK
  <2>10. link'[p] # NoProc => link'[p] \in Procs /\ Committed(link'[p])
    BY <2>8 DEF KernelInv, LaunchInv, MoreTypeOK
  <2>11. s = "link" => wrapper /\ active # NoProc
    BY <2>1, <2>2 DEF KernelInv, LaunchInv
  <2>12. p \notin Operators
    BY <2>1 DEF Connectors
  <2>13. s \in {"leave"} \cup Launching \cup Ended /\ s \notin {"leave", "state", "release"}
    BY <2>2 DEF Launching, Ended
  <2>14. QED
    BY <2>1, <2>2, <2>3, <2>4, <2>5, <2>6, <2>7, <2>8, <2>9, <2>10, <2>11, <2>12, <2>13, IdleStepInv
<1>13. QED
  BY <1>4, <1>5, <1>6, <1>7, <1>8, <1>9, <1>10, <1>11, <1>12 DEF LockPathNext

----------------------------------------------------------------------------
(* The action under the lock. *)

LEMMA InstallStepInv ==
  ASSUME KernelInv, NEW p \in Procs, InstallNext(p)
  PROVE  KernelInv'
<1> USE Groups, Generations DEF At, StoreUnchangedBut
\* What these steps share: the payload and the result may change.
<1>1. ASSUME p \notin dead, StoreUnchangedBut(p),
             phase[p] \in {"status", "payload", "fetch", "swapOut", "swapIn"},
             NEW s \in {"payload", "fetch", "swapOut", "swapIn", "prepare", "leave"}, To(p, s),
             NEW f \in {"missing", "other", "pinned"}, official' = official \/ official' = [official EXCEPT ![G(p)] = f],
             NEW w \in {"missing", "other", "pinned"}, was' = was \/ was' = [was EXCEPT ![p] = w],
             NEW r \in {"ok", "failed"}, result' = result \/ result' = [result EXCEPT ![p] = r],
             r = "ok" => wrapper /\ active # NoProc,
             s = "leave" => result' = [result EXCEPT ![p] = r],
             s \in {"fetch", "swapOut", "swapIn"} /\ G(p) \notin robbed => official'[G(p)] # "pinned"
      PROVE  KernelInv'
  <2> USE DEF lockVars, tree, releaseVars, stateVars, wrapperVars, known, installVars, launchVars
  <2>1. /\ phase[p] \in Installing /\ s \in Installing /\ s \in Phases \ {"preparing", "calling"}
        /\ phase[p] \notin {"preparing", "calling", "leave"} \cup Launching \cup Ended
    BY <1>1 DEF Phases, Installing, Launching, Ended
  <2>2. step[p] = "idle" /\ p \in Connectors /\ p \notin Operators
    BY <1>1 DEF KernelInv, PhaseInv, Connectors
  <2>3. official' \in [Pins -> {"missing", "other", "pinned"}]
    BY <1>1 DEF KernelInv, StoreInv, StoreTypeOK
  <2>4. StoreInv'
    <3>1. r \in {"none", "ok", "failed"}
      OBVIOUS
    <3>2. QED
      BY <1>1, <2>2, <2>3, <3>1, StoreStays
  <2>5. MoreTypeOK'
    <3>1. was' \in [Procs -> {"missing", "other", "pinned"}] /\ phase' \in [Procs -> Phases]
      BY <1>1, <2>1 DEF KernelInv, MoreTypeOK, To
    <3>2. QED
      BY <1>1, <3>1 DEF KernelInv, MoreTypeOK
  <2>6. InstallInv'
    <3>1. phase'[p] = s /\ \A q \in Procs : q # p => phase'[q] = phase[q]
      BY <1>1 DEF To, KernelInv, MoreTypeOK
    <3>2. UNCHANGED <<install, robbed>>
      BY <1>1
    <3>3. \A q \in Connectors : phase'[q] \in Installing /\ G(q) \notin robbed => install[G(q)] = q
      BY <2>1, <3>1 DEF KernelInv, InstallInv
    <3>4. \A q \in Connectors : q # p /\ phase[q] \in {"fetch", "swapOut", "swapIn"} /\ G(q) \notin robbed => G(q) # G(p)
      BY <2>1, <2>2, <3>1 DEF KernelInv, InstallInv, Installing
    <3>5. \A g \in Pins : g # G(p) => official'[g] = official[g]
      BY <1>1 DEF KernelInv, StoreInv, StoreTypeOK
    <3>6. \A q \in Connectors : phase'[q] \in {"fetch", "swapOut", "swapIn"} /\ G(q) \notin robbed => official'[G(q)] # "pinned"
      BY <1>1, <3>1, <3>4, <3>5 DEF KernelInv, InstallInv
    <3>7. QED
      BY <3>2, <3>3, <3>6 DEF InstallInv, G
  <2>7. \A q \in Procs : q # p => result'[q] = result[q]
    BY <1>1 DEF KernelInv, StoreInv, StoreTypeOK
  <2>8. s = "leave" /\ result'[p] = "ok" => wrapper /\ active # NoProc
    BY <1>1 DEF KernelInv, StoreInv, StoreTypeOK
  <2>9. link'[p] # NoProc => link'[p] \in Procs /\ Committed(link'[p])
    BY <1>1 DEF KernelInv, LaunchInv, MoreTypeOK
  <2>10. UNCHANGED <<dead, lockVars, tree, step, op, target, link>>
    BY <1>1
  <2>11. s \notin {"link", "state", "release"}
    BY <1>1
  <2>12. QED
    BY <1>1, <2>1, <2>2, <2>4, <2>5, <2>6, <2>7, <2>8, <2>9, <2>10, <2>11, IdleStepInv
<1>2. official \in [Pins -> {"missing", "other", "pinned"}] /\ was \in [Procs -> {"missing", "other", "pinned"}]
  BY DEF KernelInv, StoreInv, StoreTypeOK, MoreTypeOK
<1>3. CASE CheckStatus(p)
  <2>1. /\ p \notin dead /\ StoreUnchangedBut(p) /\ phase[p] = "status" /\ UNCHANGED <<official, was>>
        /\ \/ HasActive(G(p)) /\ wrapper /\ To(p, "leave") /\ result' = [result EXCEPT ![p] = "ok"]
           \/ To(p, "payload") /\ UNCHANGED result
    BY <1>3 DEF CheckStatus, CurrentVerified
  <2>2. CASE HasActive(G(p)) /\ wrapper /\ To(p, "leave") /\ result' = [result EXCEPT ![p] = "ok"]
    <3>1. active # NoProc
      BY <2>2 DEF HasActive
    <3>2. QED
      BY <1>1, <2>1, <2>2, <3>1
  <2>3. CASE To(p, "payload") /\ UNCHANGED result
    BY <1>1, <2>1, <2>3
  <2>4. QED
    BY <2>1, <2>2, <2>3
<1>4. CASE CheckPayload(p)
  <2>1. p \notin dead /\ StoreUnchangedBut(p) /\ phase[p] = "payload" /\ UNCHANGED was
    BY <1>4 DEF CheckPayload
  <2>2. CASE To(p, "prepare") /\ UNCHANGED <<official, result>>
    BY <1>1, <2>1, <2>2
  <2>3. CASE official' = [official EXCEPT ![G(p)] = "other"] /\ To(p, "fetch") /\ UNCHANGED result
    <3>1. official'[G(p)] = "other"
      BY <1>2, <2>3
    <3>2. QED
      BY <1>1, <2>1, <2>3, <3>1
  <2>4. CASE /\ official' \in {official, [official EXCEPT ![G(p)] = IF @ = "missing" THEN "other" ELSE @]}
             /\ Abandon(p)
    <3>1. PICK f \in {"missing", "other", "pinned"} : official' = official \/ official' = [official EXCEPT ![G(p)] = f]
      BY <1>2, <2>4
    <3>2. To(p, "leave") /\ result' = [result EXCEPT ![p] = "failed"]
      BY <2>4 DEF Abandon
    <3>3. QED
      BY <1>1, <2>1, <3>1, <3>2
  <2>5. QED
    BY <1>4, <2>2, <2>3, <2>4 DEF CheckPayload
<1>5. CASE FetchPayload(p)
  <2>1. p \notin dead /\ StoreUnchangedBut(p) /\ phase[p] = "fetch" /\ UNCHANGED <<was, official>>
    BY <1>5 DEF FetchPayload
  <2>2. p \in Connectors /\ (G(p) \notin robbed => official[G(p)] # "pinned")
    BY <2>1 DEF KernelInv, InstallInv, PhaseInv, Connectors
  <2>3. CASE To(p, "swapOut") /\ UNCHANGED result
    BY <1>1, <2>1, <2>2, <2>3
  <2>4. CASE Abandon(p)
    BY <1>1, <2>1, <2>4 DEF Abandon
  <2>5. QED
    BY <1>5, <2>3, <2>4 DEF FetchPayload
<1>6. CASE SwapOut(p)
  <2>1. p \notin dead /\ StoreUnchangedBut(p) /\ phase[p] = "swapOut"
    BY <1>6 DEF SwapOut
  <2>2. CASE official[G(p)] = "missing"
    BY <1>1, <1>6, <2>1, <2>2 DEF SwapOut, Abandon
  <2>3. CASE official[G(p)] # "missing"
    <3>1. /\ was' = [was EXCEPT ![p] = official[G(p)]] /\ official' = [official EXCEPT ![G(p)] = "missing"]
          /\ To(p, "swapIn") /\ UNCHANGED result
      BY <1>6, <2>3 DEF SwapOut
    <3>2. official'[G(p)] = "missing" /\ official[G(p)] \in {"missing", "other", "pinned"}
      BY <1>2, <3>1
    <3>3. QED
      BY <1>1, <2>1, <3>1, <3>2
  <2>4. QED
    BY <2>2, <2>3
<1>7. CASE SwapIn(p)
  <2>1. p \notin dead /\ StoreUnchangedBut(p) /\ phase[p] = "swapIn" /\ was' = [was EXCEPT ![p] = "missing"]
    BY <1>7 DEF SwapIn
  <2>2. CASE official' = [official EXCEPT ![G(p)] = "pinned"] /\ To(p, "prepare") /\ UNCHANGED result
    BY <1>1, <2>1, <2>2
  <2>3. CASE /\ official' = IF official[G(p)] = "missing" THEN [official EXCEPT ![G(p)] = was[p]] ELSE official
             /\ Abandon(p)
    <3>1. was[p] \in {"missing", "other", "pinned"} /\ (official' = official \/ official' = [official EXCEPT ![G(p)] = was[p]])
      BY <1>2, <2>3
    <3>2. QED
      BY <1>1, <2>1, <2>3, <3>1 DEF Abandon
  <2>4. QED
    BY <1>7, <2>2, <2>3 DEF SwapIn
<1>8. QED
  BY <1>3, <1>4, <1>5, <1>6, <1>7 DEF InstallNext

----------------------------------------------------------------------------
(* The start of the kernel. *)

LEMMA LaunchStepInv ==
  ASSUME KernelInv, NEW p \in Procs, LaunchNext(p)
  PROVE  KernelInv'
<1> USE Groups, Generations DEF At, LaunchStep
<1>1. /\ p \notin dead /\ phase[p] \in Launching
      /\ UNCHANGED <<machine, lockVars, tree, step, op, seen, tries, plan, result, installVars, was>>
  BY DEF LaunchNext, ReadLink, ReadState, StartRelease, Launching
<1>2. p \in Connectors /\ p \notin Operators /\ step[p] = "idle" /\ phase[p] \notin {"preparing", "calling"} \cup Ended
  BY <1>1 DEF KernelInv, PhaseInv, Connectors, Launching, Ended
<1>3. ASSUME NEW s \in {"state", "release", "running", "refused"}, To(p, s),
             target' = target \/ \E a \in Artifacts : target' = [target EXCEPT ![p] = a],
             link' = link \/ (active # NoProc /\ link' = [link EXCEPT ![p] = active]),
             pins' = pins \/ pins' = [pins EXCEPT ![p] = resolver],
             s \in {"state", "release"} => link'[p] # NoProc,
             ~stolen /\ s = "release" /\ active = link'[p] => target'[p] = states[active].current
      PROVE  KernelInv'
  <2> USE DEF machine, lockVars, tree, releaseVars, stateVars, wrapperVars, installVars
  <2>1. s \in Phases \ {"preparing", "calling", "link", "leave"} /\ s \in {"leave"} \cup Launching \cup Ended /\ s \notin Installing
    BY <1>3 DEF Phases, Launching, Ended, Installing
  <2>2. StoreTypeOK'
    BY <1>1, <1>3 DEF KernelInv, StoreInv, StoreTypeOK
  <2>3. \A q \in Procs : q # p => target'[q] = target[q]
    BY <1>3 DEF KernelInv, StoreInv, StoreTypeOK
  <2>4. StoreInv'
    <3>1. \A q \in Procs : step[q] # "idle" => target'[q] = target[q] /\ result'[q] = result[q]
      BY <1>1, <1>2, <2>3
    <3>2. \A q \in Procs : op[q] = "activate" /\ result'[q] = "ok" => wrapper /\ active # NoProc
      BY <1>1 DEF KernelInv, StoreInv, WrapperInv
    <3>3. UNCHANGED <<dead, lockVars, tree, step, op, seen, tries, plan>>
      BY <1>1
    <3>4. QED
      BY <2>2, <3>1, <3>2, <3>3, OutsideInv DEF KernelInv
  <2>5. link' \in [Procs -> Procs \cup {NoProc}] /\ \A q \in Procs : q # p => link'[q] = link[q]
    BY <1>3 DEF KernelInv, MoreTypeOK, StoreInv, StoreTypeOK
  <2>6. MoreTypeOK'
    <3>1. pins' \in [Procs -> Pins \cup {NoPins}] /\ phase' \in [Procs -> Phases]
      BY <1>3, <2>1 DEF KernelInv, MoreTypeOK, StoreInv, StoreTypeOK, To
    <3>2. QED
      BY <1>1, <2>5, <3>1 DEF KernelInv, MoreTypeOK
  <2>7. InstallInv'
    BY <1>1, <1>3, <2>1, InstallQuiet
  <2>8. link'[p] # NoProc => link'[p] \in Procs /\ Committed(link'[p])
    <3>1. link[p] # NoProc => Committed(link[p])
      BY DEF KernelInv, LaunchInv
    <3>2. active # NoProc => Committed(active)
      BY DEF KernelInv, LaunchInv
    <3>3. link'[p] \in {link[p], active} /\ link'[p] \in Procs \cup {NoProc}
      BY <1>3, <2>5 DEF KernelInv, MoreTypeOK
    <3>4. QED
      BY <3>1, <3>2, <3>3
  <2>9. UNCHANGED <<dead, lockVars, tree, step, op>> /\ result' = result
    BY <1>1
  <2>10. QED
    BY <1>1, <1>2, <1>3, <2>1, <2>3, <2>4, <2>5, <2>6, <2>7, <2>8, <2>9, IdleStepInv
<1>4. CASE ReadLink(p)
  <2>1. CASE active # NoProc /\ link' = [link EXCEPT ![p] = active] /\ pins' = [pins EXCEPT ![p] = resolver] /\ To(p, "state")
    <3>1. link'[p] # NoProc
      BY <2>1 DEF KernelInv, MoreTypeOK
    <3>2. QED
      BY <1>3, <1>4, <2>1, <3>1 DEF ReadLink
  <2>2. CASE To(p, "refused") /\ UNCHANGED launchVars
    BY <1>3, <1>4, <2>2 DEF ReadLink, launchVars
  <2>3. QED
    BY <1>4, <2>1, <2>2 DEF ReadLink
<1>5. CASE ReadState(p)
  <2>1. UNCHANGED <<link, pins>> /\ link[p] \in Procs
    BY <1>5 DEF ReadState, launchVars, KernelInv, LaunchInv, MoreTypeOK
  <2>2. CASE /\ states[link[p]] # NoState
             /\ target' = [target EXCEPT ![p] = states[link[p]].current] /\ To(p, "release")
    <3>1. states[link[p]].current \in Artifacts
      BY <2>1, <2>2 DEF KernelInv, StoreInv, StoreTypeOK, States
    <3>2. target'[p] = states[link[p]].current
      BY <2>2 DEF KernelInv, StoreInv, StoreTypeOK
    <3>3. link'[p] # NoProc
      BY <2>1, ProcAssumption
    <3>4. QED
      BY <1>3, <2>1, <2>2, <3>1, <3>2, <3>3
  <2>3. CASE To(p, "refused") /\ UNCHANGED target
    BY <1>3, <2>1, <2>3
  <2>4. QED
    BY <1>5, <2>2, <2>3 DEF ReadState
<1>6. CASE StartRelease(p)
  <2>1. UNCHANGED <<target, link, pins>> /\ (To(p, "running") \/ To(p, "refused"))
    BY <1>6 DEF StartRelease, launchVars
  <2>2. QED
    BY <1>3, <2>1
<1>7. QED
  BY <1>4, <1>5, <1>6 DEF LaunchNext

----------------------------------------------------------------------------
(* Calls of the lifecycle. *)

\* A call is made.
LEMMA CalledInv ==
  ASSUME KernelInv, NEW p \in Procs, p \notin dead, phase[p] \in {"start", "prepare", "preparing"},
         NEW s \in {"preparing", "calling"}, To(p, s), CallStep(p),
         NEW o \in Ops, NEW a \in Artifacts, Call(p, o, a),
         s = "preparing" => o = "prepare",
         phase[p] = "start" => p \in Operators,
         p \in Connectors /\ s = "calling" => o = "activate"
  PROVE  KernelInv'
<1> USE Groups, Generations DEF CallStep, installVars, launchVars
<1>1. StoreInv'
  BY CallInv DEF KernelInv
<1>2. /\ dead' = dead /\ UNCHANGED <<stolen, wrapper, active, states, official>>
      /\ step' = [step EXCEPT ![p] = "open"] /\ op' = [op EXCEPT ![p] = o]
      /\ target' = [target EXCEPT ![p] = a] /\ result' = [result EXCEPT ![p] = "none"]
  BY DEF Call, Goto, machine, lockVars, tree, stateVars, wrapperVars
<1>3. op'[p] = o /\ \A q \in Procs : q # p => /\ step'[q] = step[q] /\ op'[q] = op[q] /\ result'[q] = result[q]
                                              /\ target'[q] = target[q] /\ link'[q] = link[q]
  BY <1>2 DEF KernelInv, StoreInv, StoreTypeOK
<1>4. s \in Phases /\ phase' = [phase EXCEPT ![p] = s]
  BY DEF Phases, Installing, To
<1>5. MoreTypeOK'
  BY <1>4 DEF KernelInv, MoreTypeOK
<1>6. InstallInv'
  <2>1. p \in Connectors => phase[p] \in Installing
    BY DEF Connectors, Installing
  <2>2. QED
    BY <1>2, <1>4, <2>1, InstallQuiet
<1>7. ~Committed(p)
  BY DEF Committed, Launching, Ended
<1>8. link'[p] # NoProc => link'[p] \in Procs /\ Committed(link'[p])
  BY DEF KernelInv, LaunchInv, MoreTypeOK
<1>9. s \notin {"link", "leave", "state", "release"}
  OBVIOUS
<1>10. p \in Operators => s \in {"start", "preparing", "calling", "leave", "done"}
  OBVIOUS
<1>11. QED
  BY <1>1, <1>2, <1>3, <1>4, <1>5, <1>6, <1>7, <1>8, <1>9, <1>10, OneLifeInv

\* A call has returned, or the command is over: the store stays.
LEMMA ReturnedInv ==
  ASSUME KernelInv, NEW p \in Procs, p \notin dead, step[p] = "idle", UNCHANGED <<storeVars, installVars, was, launchVars>>,
         NEW s \in {"leave", "done"}, To(p, s), phase[p] \in {"preparing", "calling", "leave"},
         s = "done" => p \in Operators,
         phase[p] = "preparing" => result[p] # "ok"
  PROVE  KernelInv'
<1> USE Groups, Generations
    DEF installVars, launchVars, storeVars, machine, lockVars, tree, releaseVars, stateVars, wrapperVars, known
<1>1. StoreInv'
  <2>1. official' \in [Pins -> {"missing", "other", "pinned"}]
    BY DEF KernelInv, StoreInv, StoreTypeOK
  <2>2. "none" \in {"none", "ok", "failed"} /\ "none" # "ok" /\ result' = result
    OBVIOUS
  <2>3. UNCHANGED <<dead, module, lockVars, tree, step, known>>
    OBVIOUS
  <2>4. QED
    BY <2>1, <2>2, <2>3, StoreStays
<1>2. s \in Phases /\ phase' = [phase EXCEPT ![p] = s]
  BY DEF Phases, Installing, Ended, To
<1>3. MoreTypeOK'
  BY <1>2 DEF KernelInv, MoreTypeOK
<1>4. InstallInv'
  <2>1. p \in Connectors => phase[p] \in Installing
    BY DEF Connectors, Installing
  <2>2. QED
    BY <1>2, <2>1, InstallQuiet
<1>5. Committed(p) => Committed(p)'
  BY <1>2 DEF Committed, Ended, KernelInv, MoreTypeOK
<1>6. p \in Connectors /\ s = "leave" /\ result'[p] = "ok" => wrapper' /\ active' # NoProc
  <2>1. CASE phase[p] = "calling"
    BY <2>1 DEF KernelInv, PhaseInv, StoreInv, WrapperInv
  <2>2. CASE phase[p] = "leave"
    BY <2>2 DEF KernelInv, LaunchInv
  <2>3. QED
    BY <2>1, <2>2
<1>7. link'[p] # NoProc => link'[p] \in Procs /\ Committed(link'[p])
  BY DEF KernelInv, LaunchInv, MoreTypeOK
<1>8. s \notin {"link", "preparing", "calling", "state", "release"} /\ s \in {"start", "preparing", "calling", "leave", "done"}
  OBVIOUS
<1>9. UNCHANGED <<dead, stolen, wrapper, active, states, step, op, result, target, link>>
  OBVIOUS
<1> HIDE DEF installVars, launchVars, storeVars, machine, lockVars, tree, releaseVars, stateVars, wrapperVars, known
<1>10. /\ dead' = dead /\ step'[p] = "idle" /\ active' = active /\ (wrapper => wrapper') /\ (~stolen' => ~stolen)
       /\ \A q \in Procs : step'[q] = step[q] /\ op'[q] = op[q] /\ result'[q] = result[q]
                           /\ target'[q] = target[q] /\ link'[q] = link[q]
       /\ states'[active] = states[active]
  BY <1>9
<1>11. QED
  BY <1>1, <1>2, <1>3, <1>4, <1>5, <1>6, <1>7, <1>8, <1>10, OneLifeInv

\* A step of the call of p: its phase stays.
LEMMA InCallInv ==
  ASSUME KernelInv, NEW p \in Procs, StoreStep(p)
  PROVE  KernelInv'
<1> USE Groups, Generations DEF StoreStep, CallStep, installVars, launchVars
<1>1. StoreInv'
  BY StoreStepInv DEF KernelInv
<1>2. StoreTypeOK
  BY DEF KernelInv, StoreInv
<1>3. /\ p \notin dead /\ step[p] # "idle" /\ UNCHANGED <<machine, op>> /\ (stolen => stolen')
      /\ \E t \in Steps : step' = [step EXCEPT ![p] = t] /\ (step[p] \in {"unlock", "unlink"} => t \in {"unlink", "idle"})
      /\ result' = result \/ \E r \in {"ok", "failed"} : result' = [result EXCEPT ![p] = r]
      /\ target' = target \/ \E a : target' = [target EXCEPT ![p] = a]
  BY <1>2, StepEffect
<1>4. /\ wrapper => wrapper'
      /\ active' = active \/ (active' = p /\ step[p] = "commit" /\ step' = [step EXCEPT ![p] = "unlock"])
      /\ \A q \in Procs : states'[q] = states[q] \/ (q = p /\ step[p] = "record") \/ (step[p] = "orphans" /\ q # seen[p])
  BY <1>2, TreeEffect
<1>5. \A q \in Procs : q # p => /\ step'[q] = step[q] /\ op'[q] = op[q] /\ result'[q] = result[q]
                                /\ target'[q] = target[q] /\ link'[q] = link[q]
  BY <1>2, <1>3 DEF StoreTypeOK
<1>6. phase[p] \in {"preparing", "calling"} /\ phase[p] \in Phases /\ phase' = [phase EXCEPT ![p] = phase[p]] /\ phase' = phase
  BY <1>3 DEF KernelInv, PhaseInv, MoreTypeOK
<1>7. MoreTypeOK'
  BY DEF KernelInv, MoreTypeOK
<1>8. InstallInv'
  BY <1>3, <1>6 DEF KernelInv, InstallInv, machine, G
<1>9. Committed(p) => phase[p] = "calling" /\ step[p] \in {"unlock", "unlink", "idle"}
  BY <1>6 DEF Committed, Launching, Ended
<1>10. Committed(p) => Committed(p)'
  BY <1>2, <1>3, <1>6, <1>9 DEF Committed, StoreTypeOK
<1>11. step[p] = "commit" => phase[p] = "calling"
  BY <1>6 DEF KernelInv, PhaseInv, StoreInv, ControlInv, FitsOp
<1>12. active' = active \/ (active' = p /\ Committed(p)')
  BY <1>2, <1>4, <1>6, <1>11 DEF Committed, StoreTypeOK
<1>13. active # NoProc => active' # NoProc
  BY <1>4, ProcAssumption
<1>14. link'[p] # NoProc => link'[p] \in Procs /\ Committed(link'[p])
  BY DEF KernelInv, LaunchInv, MoreTypeOK
<1>15. ASSUME ~stolen', NEW q \in Procs, q # p, phase[q] = "release", active' = link[q]
       PROVE  active' = active /\ states'[active] = states[active]
  <2>1. link[q] \in Procs /\ Committed(link[q]) /\ link[q] # NoProc
    BY <1>15 DEF KernelInv, LaunchInv, MoreTypeOK
  <2>2. active' = active
    BY <1>4, <1>9, <1>15, <2>1
  <2>3. ~(active = p /\ step[p] = "record")
    BY <1>9, <1>15, <2>1, <2>2
  <2>4. ~(step[p] = "orphans" /\ active # seen[p])
    BY <1>3, <1>15 DEF KernelInv, StoreInv, DataInv, PlanInv
  <2>5. QED
    BY <1>4, <1>15, <2>1, <2>2, <2>3, <2>4
<1>16. ~stolen' => ~stolen
  BY <1>3
<1>17. /\ dead' = dead /\ op'[p] = op[p] /\ (phase[p] = "preparing" => op[p] = "prepare")
       /\ (p \in Connectors /\ phase[p] = "calling" => op[p] = "activate")
       /\ p \in Operators => phase[p] \in {"start", "preparing", "calling", "leave", "done"}
  BY <1>3 DEF machine, KernelInv, PhaseInv
<1>18. phase[p] \notin {"link", "leave", "state", "release"}
  BY <1>6
<1>19. p \notin dead /\ (wrapper => wrapper')
  BY <1>3, <1>4
<1> HIDE DEF StoreStep, CallStep, installVars, launchVars
<1>20. QED
  BY <1>1, <1>4, <1>5, <1>6, <1>7, <1>8, <1>10, <1>12, <1>13, <1>14, <1>15, <1>16, <1>17, <1>18, <1>19, OneLifeInv

LEMMA CallStepInv ==
  ASSUME KernelInv, NEW p \in Procs, CallNext(p) \/ Command(p)
  PROVE  KernelInv'
<1> USE Groups DEF At
<1>1. target[p] \in Artifacts /\ {"prepare", "activate", "rollback", "cleanup", "purge"} \subseteq Ops
  BY DEF KernelInv, StoreInv, StoreTypeOK, Ops
<1>2. CASE CallPrepare(p)
  BY <1>1, <1>2, CalledInv DEF CallPrepare
<1>3. CASE Command(p)
  <2>1. p \in Operators /\ p \notin Connectors /\ p \notin dead /\ phase[p] = "start" /\ CallStep(p)
    BY <1>3 DEF Command, Connectors
  <2>2. PICK o \in Ops, a \in Artifacts, s \in {"preparing", "calling"} :
          Call(p, o, a) /\ To(p, s) /\ (s = "preparing" => o = "prepare")
    <3>1. CASE Call(p, "prepare", target[p]) /\ (To(p, "calling") \/ To(p, "preparing"))
      BY <1>1, <3>1
    <3>2. CASE (\E a \in Artifacts : Call(p, "activate", a)) /\ To(p, "calling")
      BY <1>1, <3>2
    <3>3. CASE (\E o \in {"rollback", "cleanup", "purge"} : Call(p, o, target[p])) /\ To(p, "calling")
      BY <1>1, <3>3
    <3>4. QED
      BY <1>3, <3>1, <3>2, <3>3 DEF Command
  <2>3. QED
    BY <2>1, <2>2, CalledInv
<1>4. CASE Prepared(p)
  <2>1. phase[p] = "preparing" /\ p \notin dead /\ step[p] = "idle" /\ CallStep(p)
    BY <1>4 DEF Prepared
  <2>2. CASE Call(p, "activate", target[p]) /\ To(p, "calling")
    BY <1>1, <2>1, <2>2, CalledInv
  <2>3. CASE result[p] # "ok" /\ To(p, "leave") /\ UNCHANGED storeVars
    BY <2>1, <2>3, ReturnedInv DEF CallStep
  <2>4. QED
    BY <1>4, <2>2, <2>3 DEF Prepared
<1>5. CASE Returned(p)
  BY <1>5, ReturnedInv DEF Returned, CallStep
<1>6. CASE CommandDone(p)
  <2>1. phase[p] = "leave" /\ p \notin dead /\ p \in Operators /\ To(p, "done") /\ UNCHANGED <<storeVars, installVars, was, launchVars>>
    BY <1>6 DEF CommandDone, LockStep
  <2>2. step[p] = "idle"
    BY <2>1 DEF KernelInv, PhaseInv
  <2>3. QED
    BY <2>1, <2>2, ReturnedInv
<1>7. CASE StoreStep(p)
  BY <1>7, InCallInv
<1>8. QED
  BY <1>2, <1>3, <1>4, <1>5, <1>6, <1>7 DEF CallNext

----------------------------------------------------------------------------
(* The end of a life, and another package. *)

LEMMA EndInv ==
  ASSUME KernelInv, NEW p \in Procs, End(p)
  PROVE  KernelInv'
<1> USE Groups, Generations DEF End
<1>1. StoreInv'
  BY EndLifeInv DEF KernelInv
<1>2. /\ dead' = dead \cup {p} /\ UNCHANGED <<stolen, wrapper, active, states, official>>
      /\ step' = [step EXCEPT ![p] = "idle"] /\ op' = [op EXCEPT ![p] = "prepare"]
      /\ target' = [target EXCEPT ![p] = SomeArtifact] /\ result' = [result EXCEPT ![p] = "none"]
  BY DEF EndLife, Goto, lockVars, tree, stateVars, wrapperVars
<1>3. \A q \in Procs : q # p => /\ step'[q] = step[q] /\ op'[q] = op[q] /\ result'[q] = result[q]
                                /\ target'[q] = target[q] /\ link'[q] = link[q] /\ phase'[q] = phase[q]
  BY <1>2 DEF KernelInv, StoreInv, StoreTypeOK, MoreTypeOK, To
<1>4. step'[p] = "idle" /\ phase'[p] = "done" /\ link'[p] = NoProc /\ result'[p] = "none"
  BY <1>2 DEF KernelInv, StoreInv, StoreTypeOK, MoreTypeOK, To
<1>5. MoreTypeOK'
  BY DEF KernelInv, MoreTypeOK, To, Phases, Ended
<1>6. PhaseInv'
  <2>1. /\ \A q \in Procs : phase'[q] \notin {"preparing", "calling"} => step'[q] = "idle"
        /\ \A q \in dead' : phase'[q] = "done"
    BY <1>2, <1>3, <1>4 DEF KernelInv, PhaseInv, StoreInv, StoreTypeOK
  <2>2. /\ \A q \in Operators : phase'[q] \in {"start", "preparing", "calling", "leave", "done"}
        /\ \A q \in Connectors : phase'[q] = "calling" => op'[q] = "activate"
    BY <1>3, <1>4 DEF KernelInv, PhaseInv
  <2>3. \A q \in Procs : phase'[q] = "preparing" => op'[q] = "prepare"
    BY <1>3, <1>4 DEF KernelInv, PhaseInv
  <2>4. QED
    BY <2>1, <2>2, <2>3 DEF PhaseInv
<1>7. InstallInv'
  BY <1>2, <1>3, <1>4 DEF KernelInv, InstallInv, Installing, G
<1>8. \A q \in Procs : Committed(q) => Committed(q)'
  BY <1>3, <1>4 DEF Committed, Ended
<1>9. LaunchInv'
  <2>1. \A q \in Connectors : phase'[q] = "link" \/ (phase'[q] = "leave" /\ result'[q] = "ok") => wrapper' /\ active' # NoProc
    BY <1>2, <1>3, <1>4 DEF KernelInv, LaunchInv
  <2>2. active' # NoProc => Committed(active)'
    <3>1. active \in Procs \cup {NoProc}
      BY DEF KernelInv, StoreInv, StoreTypeOK
    <3>2. active # NoProc => Committed(active)
      BY DEF KernelInv, LaunchInv
    <3>3. QED
      BY <1>2, <1>8, <3>1, <3>2 DEF Committed
  <2>3. ASSUME NEW q \in Procs, link'[q] # NoProc PROVE Committed(link[q])'
    <3>1. link'[q] = link[q] /\ link[q] \in Procs /\ Committed(link[q])
      BY <1>3, <1>4, <2>3 DEF KernelInv, LaunchInv, MoreTypeOK
    <3>2. QED
      BY <1>8, <3>1 DEF Committed
  <2>4. \A q \in Procs : phase'[q] \in {"state", "release"} => link'[q] # NoProc
    BY <1>3, <1>4 DEF KernelInv, LaunchInv
  <2>5. \A q \in Procs : phase'[q] = "release" /\ active' = link'[q] /\ ~stolen' => target'[q] = states'[active'].current
    BY <1>2, <1>3, <1>4 DEF KernelInv, LaunchInv
  <2>6. QED
    BY <2>1, <2>2, <2>3, <2>4, <2>5 DEF LaunchInv
<1>10. QED
  BY <1>1, <1>5, <1>6, <1>7, <1>9 DEF KernelInv

LEMMA UpgradeInv ==
  ASSUME KernelInv, Upgrade
  PROVE  KernelInv'
<1> USE DEF Upgrade, UpgradePackage, installVars, launchVars
<1>1. StoreTypeOK'
  BY StoreAssumption DEF KernelInv, StoreInv, StoreTypeOK, lockVars, tree, releaseVars, stateVars, wrapperVars, known
<1>2. StoreInv'
  <2>1. \A q \in Procs : op[q] = "activate" /\ result'[q] = "ok" => wrapper /\ active # NoProc
    BY DEF KernelInv, StoreInv, WrapperInv
  <2>2. UNCHANGED <<dead, lockVars, tree, step, op, seen, tries, plan>> /\ UNCHANGED <<target, result>>
    BY DEF known
  <2>3. QED
    BY <1>1, <2>1, <2>2, OutsideInv DEF KernelInv
<1>3. UNCHANGED <<dead, official, stolen, wrapper, active, states, step, op, result, target, phase, install, robbed, link>>
  BY DEF lockVars, tree, stateVars, wrapperVars, known
<1>4. MoreTypeOK'
  BY DEF KernelInv, MoreTypeOK
<1>5. PhaseInv' /\ InstallInv'
  BY <1>3 DEF KernelInv, PhaseInv, InstallInv
<1>6. LaunchInv'
  BY <1>3 DEF KernelInv, LaunchInv, Committed
<1>7. QED
  BY <1>2, <1>4, <1>5, <1>6 DEF KernelInv

LEMMA StutterInv ==
  ASSUME KernelInv, UNCHANGED vars
  PROVE  KernelInv'
<1> USE DEF vars, storeVars, machine, lockVars, tree, releaseVars, stateVars, wrapperVars, known, installVars, launchVars
<1>1. StoreTypeOK' /\ ControlInv' /\ WrapperInv'
  BY DEF KernelInv, StoreInv, StoreTypeOK, ControlInv, WrapperInv
<1>2. DataInv'
  <2>1. StagingInv' /\ ReleaseMatches'
    BY DEF KernelInv, StoreInv, DataInv, StagingInv, ReleaseMatches
  <2>2. ~stolen => (active # NoProc => Complete(states[active]))' /\ \A q \in Procs : PlanInv(q)'
    BY DEF KernelInv, StoreInv, DataInv, PlanInv, Complete, Verified
  <2>3. QED
    BY <2>1, <2>2 DEF DataInv
<1>3. MoreTypeOK' /\ PhaseInv' /\ InstallInv' /\ LaunchInv'
  BY DEF KernelInv, MoreTypeOK, PhaseInv, InstallInv, LaunchInv, Committed
<1>4. QED
  BY <1>1, <1>2, <1>3 DEF KernelInv, StoreInv

LEMMA NextKernelInv == KernelInv /\ [Next]_vars => KernelInv'
<1> SUFFICES ASSUME KernelInv, [Next]_vars PROVE KernelInv'
  OBVIOUS
<1>1. ASSUME NEW p \in Procs, LifeStep(p) PROVE KernelInv'
  BY <1>1, LockPathInv, InstallStepInv, CallStepInv, LaunchStepInv DEF LifeStep
<1>2. ASSUME NEW p \in Procs, Command(p) PROVE KernelInv'
  BY <1>2, CallStepInv
<1>3. ASSUME NEW p \in Procs, End(p) PROVE KernelInv'
  BY <1>3, EndInv
<1>4. CASE UNCHANGED vars
  BY <1>4, StutterInv
<1>5. QED
  BY <1>1, <1>2, <1>3, <1>4, UpgradeInv DEF Next

LEMMA AlwaysKernelInv == Spec => []KernelInv
<1>1. QED
  BY InitKernelInv, NextKernelInv, PTL DEF Spec

----------------------------------------------------------------------------
(* The theorems. *)

\* Every variable stays of its type: the states of a lock, of a release and of a life
\* are the ones the code knows, and no call tries more often than it may.
THEOREM KernelTypeCorrect == Spec => []TypeOK
<1>1. KernelInv => TypeOK
  BY DEF KernelInv, StoreInv, MoreTypeOK, TypeOK
<1>2. QED
  BY <1>1, AlwaysKernelInv, PTL

\* withWriterLock admits one call at a time, for any number of writers that die anywhere.
THEOREM AlwaysOneWriter == Spec => []OneWriter
<1>1. KernelInv => OneWriter
  BY StoreSafe DEF KernelInv
<1>2. QED
  BY <1>1, AlwaysKernelInv, PTL

\* The link names a state whose releases are complete, whatever is activated, rolled back
\* or removed.
THEOREM AlwaysActiveComplete == Spec => []ActiveComplete
<1>1. KernelInv => ActiveComplete
  BY StoreSafe DEF KernelInv
<1>2. QED
  BY <1>1, AlwaysKernelInv, PTL

\* No release has another module than its name says, however the package is upgraded.
THEOREM AlwaysReleaseMatches == Spec => []ReleaseMatches
<1>1. KernelInv => ReleaseMatches
  BY StoreSafe DEF KernelInv
<1>2. QED
  BY <1>1, AlwaysKernelInv, PTL

\* The install lock admits one connector of a generation at a time.
THEOREM AlwaysOneInstaller == Spec => []OneInstaller
<1>1. KernelInv => OneInstaller
  BY Groups DEF KernelInv, InstallInv, OneInstaller
<1>2. QED
  BY <1>1, AlwaysKernelInv, PTL

\* Only the payload steps of a connector touch a payload.
LEMMA PayloadKept ==
  ASSUME KernelInv, NEW p \in Procs, LifeStep(p) \/ Command(p), NEW g \in Pins, official[g] = "pinned", g \notin robbed
  PROVE  official'[g] = "pinned"
<1> USE Groups
<1>0. official \in [Pins -> {"missing", "other", "pinned"}]
  BY DEF KernelInv, StoreInv, StoreTypeOK
<1>1. ASSUME UNCHANGED official PROVE official'[g] = "pinned"
  BY <1>1
<1>2. CASE LockPathNext(p)
  <2>1. UNCHANGED official
    BY <1>2 DEF LockPathNext, Start, MakeLock, WriteOwner, MakeReaper, ReadOwner, ProbeOwner, DropReaper, Pause, Leave,
                LockStep, storeVars, machine
  <2>2. QED
    BY <1>1, <2>1
<1>3. CASE InstallNext(p)
  <2>1. phase[p] \in {"fetch", "swapOut", "swapIn"} /\ g = G(p) => official[g] # "pinned"
    BY DEF KernelInv, InstallInv, PhaseInv, Connectors
  <2>2. CASE CheckStatus(p) \/ FetchPayload(p)
    BY <1>1, <2>2 DEF CheckStatus, FetchPayload
  <2>3. CASE CheckPayload(p)
    BY <1>0, <2>3 DEF CheckPayload
  <2>4. CASE SwapOut(p)
    BY <1>0, <2>1, <2>4 DEF SwapOut, At
  <2>5. CASE SwapIn(p)
    BY <1>0, <2>1, <2>5 DEF SwapIn, At
  <2>6. QED
    BY <1>3, <2>2, <2>3, <2>4, <2>5 DEF InstallNext
<1>4. CASE CallNext(p) \/ Command(p)
  <2>1. CASE StoreStep(p)
    <3>1. UNCHANGED machine
      BY <2>1, StepEffect DEF StoreStep, KernelInv, StoreInv
    <3>2. QED
      BY <1>1, <3>1 DEF machine
  <2>2. CASE ~StoreStep(p)
    <3>1. UNCHANGED official
      BY <1>4, <2>2 DEF CallNext, CallPrepare, Prepared, Returned, CommandDone, Command, Call, LockStep, storeVars, machine
    <3>2. QED
      BY <1>1, <3>1
  <2>3. QED
    BY <2>1, <2>2
<1>5. CASE LaunchNext(p)
  <2>1. UNCHANGED official
    BY <1>5 DEF LaunchNext, ReadLink, ReadState, StartRelease, LaunchStep, machine
  <2>2. QED
    BY <1>1, <2>1
<1>6. QED
  BY <1>2, <1>3, <1>4, <1>5 DEF LifeStep

\* A payload with the pinned hashes is never taken away while installers are kept apart.
THEOREM AlwaysPinnedPayloadStays == Spec => PinnedPayloadStays
<1>1. ASSUME KernelInv, [Next]_vars, NEW g \in Pins, official[g] = "pinned", g \notin robbed
      PROVE  official'[g] = "pinned"
  <2>1. ASSUME NEW p \in Procs, LifeStep(p) \/ Command(p) PROVE official'[g] = "pinned"
    BY <1>1, <2>1, PayloadKept
  <2>2. ASSUME NEW p \in Procs, End(p) PROVE official'[g] = "pinned"
    BY <1>1, <2>2 DEF End, EndLife
  <2>3. CASE Upgrade
    BY <1>1, <2>3 DEF Upgrade, UpgradePackage
  <2>4. CASE UNCHANGED vars
    BY <1>1, <2>4 DEF vars, storeVars, machine
  <2>5. QED
    BY <1>1, <2>1, <2>2, <2>3, <2>4 DEF Next
<1>2. KernelInv /\ [Next]_vars =>
        [\A g \in Pins : official[g] = "pinned" /\ g \notin robbed => official'[g] = "pinned"]_vars
  BY <1>1
<1>3. QED
  BY <1>2, AlwaysKernelInv, PTL DEF Spec, PinnedPayloadStays

\* A start of the kernel ends, one way or the other, with one of its three readings.
LEMMA StartIsLaunch ==
  ASSUME KernelInv, [Next]_vars, NEW q \in Procs, phase[q] \in Launching, phase'[q] \in {"refused", "running"}
  PROVE  LaunchNext(q) /\ UNCHANGED <<states, active, releases>>
<1> USE Groups
<1>1. phase \in [Procs -> Phases] /\ phase[q] \notin {"refused", "running"} /\ phase[q] \notin {"preparing", "calling"}
  BY DEF KernelInv, MoreTypeOK, Launching
<1>2. ASSUME NEW p \in Procs, p # q, NEW s, To(p, s) PROVE FALSE
  BY <1>1, <1>2 DEF To
<1>3. ASSUME NEW s, s \notin {"refused", "running"}, To(q, s) PROVE FALSE
  BY <1>1, <1>3 DEF To
<1>4. ASSUME NEW p \in Procs, LockPathNext(p) PROVE FALSE
  <2>1. \E s : To(p, s) /\ s \notin {"refused", "running"}
    BY <1>4 DEF LockPathNext, Start, MakeLock, WriteOwner, MakeReaper, ReadOwner, ProbeOwner, DropReaper, Pause, Leave
  <2>2. QED
    BY <1>2, <1>3, <2>1
<1>5. ASSUME NEW p \in Procs, InstallNext(p) PROVE FALSE
  <2>1. \E s : To(p, s) /\ s \notin {"refused", "running"}
    BY <1>5 DEF InstallNext, CheckStatus, CheckPayload, FetchPayload, SwapOut, SwapIn, Abandon
  <2>2. QED
    BY <1>2, <1>3, <2>1
<1>6. ASSUME NEW p \in Procs, CallNext(p) \/ Command(p) PROVE FALSE
  <2>1. CASE StoreStep(p)
    BY <1>1, <2>1 DEF StoreStep
  <2>2. CASE ~StoreStep(p)
    <3>1. \E s : To(p, s) /\ s \notin {"refused", "running"}
      BY <1>6, <2>2 DEF CallNext, CallPrepare, Prepared, Returned, CommandDone, Command
    <3>2. QED
      BY <1>2, <1>3, <3>1
  <2>3. QED
    BY <2>1, <2>2
<1>7. ASSUME NEW p \in Procs, End(p) PROVE FALSE
  BY <1>2, <1>3, <1>7 DEF End
<1>8. ASSUME NEW p \in Procs, LaunchNext(p) PROVE p = q
  <2>1. \E s : To(p, s)
    BY <1>8 DEF LaunchNext, ReadLink, ReadState, StartRelease
  <2>2. QED
    BY <1>2, <2>1
<1>9. Upgrade \/ UNCHANGED vars => FALSE
  BY <1>1 DEF Upgrade, vars
<1>10. LaunchNext(q)
  BY <1>4, <1>5, <1>6, <1>7, <1>8, <1>9 DEF Next, LifeStep
<1>11. QED
  BY <1>10 DEF LaunchNext, ReadLink, ReadState, StartRelease, LaunchStep, tree, stateVars, releaseVars

\* A connector whose installation succeeded is refused only when another state took the
\* link, or another generation the wrapper: never when the state it read is still active.
THEOREM AlwaysRefusedOnlyWhenReplaced == Spec => RefusedOnlyWhenReplaced
<1>1. ASSUME KernelInv, [Next]_vars, NEW p \in Procs, phase[p] \in Launching, phase'[p] = "refused", ~stolen
      PROVE  phase[p] # "link" /\ (active # link[p] \/ states[active].pins # pins[p])
  <2>1. LaunchNext(p) /\ UNCHANGED <<states, active, releases>>
    BY <1>1, StartIsLaunch
  <2>2. p \in Connectors
    BY <1>1 DEF Connectors, Launching, KernelInv, PhaseInv
  <2>3. \A s : To(p, s) => s = "refused"
    BY <1>1 DEF To, KernelInv, MoreTypeOK
  <2>4. ~ReadLink(p)
    <3>1. SUFFICES ASSUME ReadLink(p) PROVE FALSE
      OBVIOUS
    <3>2. phase[p] = "link"
      BY <3>1 DEF ReadLink, LaunchStep, At
    <3>3. wrapper /\ active # NoProc
      BY <1>1, <2>2, <3>2 DEF KernelInv, LaunchInv
    <3>4. To(p, "state")
      BY <3>1, <3>3 DEF ReadLink
    <3>5. QED
      BY <2>3, <3>4
  <2>5. phase[p] \in {"state", "release"}
    BY <2>1, <2>4 DEF LaunchNext, ReadState, StartRelease, LaunchStep, At
  <2>6. ASSUME active = link[p], states[active].pins = pins[p] PROVE FALSE
    <3>1. active \in Procs /\ Complete(states[active])
      BY <1>1, <2>5, <2>6 DEF KernelInv, LaunchInv, MoreTypeOK, StoreInv, DataInv
    <3>2. states[active] # NoState /\ releases[states[active].current] = "sealed"
      BY <3>1, StateFacts DEF Complete, Verified
    <3>3. CASE ReadState(p)
      BY <2>3, <2>6, <3>2, <3>3 DEF ReadState
    <3>4. CASE StartRelease(p)
      <4>1. target[p] = states[active].current
        BY <1>1, <2>6, <3>4 DEF KernelInv, LaunchInv, StartRelease, LaunchStep, At
      <4>2. QED
        BY <2>3, <3>2, <3>4, <4>1 DEF StartRelease
    <3>5. QED
      BY <2>1, <2>4, <3>3, <3>4 DEF LaunchNext
  <2>7. QED
    BY <2>5, <2>6
<1>2. KernelInv /\ [Next]_vars =>
        [\A p \in Procs : phase[p] \in Launching /\ phase'[p] = "refused" /\ ~stolen =>
           phase[p] # "link" /\ (active # link[p] \/ states[active].pins # pins[p])]_vars
  BY <1>1
<1>3. QED
  BY <1>2, AlwaysKernelInv, PTL DEF Spec, RefusedOnlyWhenReplaced

----------------------------------------------------------------------------
(* What a start leads to.  Generations are compared before they are written *)
(* down, so this does not depend on the lock.                               *)

OneGeneration(s) == s = NoState \/ s.current.pins = s.pins

\* What an activation verified, what a call selected, what is recorded, what a start read.
GenerationInv ==
  /\ \A p \in Procs : op[p] = "activate" /\ step[p] \in {"resolver", "wrapper", "select"} => target[p].pins = PinsOf[p]
  /\ \A p \in Procs : OneGeneration(plan[p])
  /\ \A p \in Procs : OneGeneration(states[p])
  /\ \A p \in Procs : phase[p] = "release" => target[p].pins = pins[p]

LEMMA InitGeneration == Init => GenerationInv
<1> SUFFICES ASSUME Init PROVE GenerationInv
  OBVIOUS
<1>1. \A p \in Procs : step[p] = "idle" /\ plan[p] = NoState /\ phase[p] # "release"
  BY DEF Init, StoreInit
<1>2. \A p \in Procs : OneGeneration(states[p])
  BY DEF Init, StoreInit, OneGeneration
<1>3. QED
  BY <1>1, <1>2 DEF GenerationInv, OneGeneration

\* A step of a call: what it writes down, it has compared.
LEMMA CallGeneration ==
  ASSUME StoreInv, GenerationInv, NEW p \in Procs, StoreNext(p)
  PROVE  /\ \A q \in Procs : op'[q] = "activate" /\ step'[q] \in {"resolver", "wrapper", "select"} => target'[q].pins = PinsOf[q]
         /\ \A q \in Procs : OneGeneration(plan'[q]) /\ OneGeneration(states'[q])
<1> USE DEF Goto, Continue, Finish
<1>0. StoreTypeOK /\ FitsOp(step[p], op[p]) /\ OneGeneration(NoState) /\ OneGeneration(plan[p])
  BY DEF StoreInv, ControlInv, GenerationInv, OneGeneration
<1>1. /\ op' = op
      /\ \A q \in Procs : q # p => step'[q] = step[q] /\ target'[q] = target[q]
  BY <1>0, StepEffect DEF StoreTypeOK
<1>2. CASE LockNext(p)
  <2>1. /\ target' = target /\ states' = states
        /\ plan' = plan \/ plan' = [plan EXCEPT ![p] = NoState]
    BY <1>2 DEF LockNext, OpenLock, InspectLock, CompareLock, MoveLock, WriteReceipt, Unlock, UnlinkLock,
                tree, stateVars, known
  <2>2. step'[p] \notin {"resolver", "wrapper", "select"}
    BY <1>0, <1>2 DEF LockNext, OpenLock, InspectLock, CompareLock, MoveLock, WriteReceipt, Unlock, UnlinkLock,
                      Retry, Refuse, FirstStep, StoreTypeOK, Ops
  <2>3. QED
    BY <1>0, <1>1, <2>1, <2>2 DEF GenerationInv, StoreTypeOK
<1>3. CASE PrepareNext(p)
  <2>1. plan' = plan /\ states' = states
    BY <1>3 DEF PrepareNext, PrepareStep, RejectOptions, CheckInputs, MakeStage, StageStep, CopyInputs, Unpack,
                Patch, Attest, Publish, Seal, WriteResolver, WriteWrapper, stateVars
  <2>2. ASSUME op[p] = "activate" PROVE target'[p] = target[p] /\ step[p] \in {"resolver", "wrapper"}
    BY <1>0, <1>3, <2>2 DEF FitsOp, PrepareNext, PrepareStep, RejectOptions, CheckInputs, MakeStage, StageStep, CopyInputs,
                Unpack, Patch, Attest, Publish, Seal, WriteResolver, WriteWrapper
  <2>3. QED
    BY <1>1, <2>1, <2>2 DEF GenerationInv
<1>4. CASE ActivateNext(p)
  <2>1. target' = target
    BY <1>4 DEF ActivateNext, ActivateStep, VerifyTarget, SelectNext, SelectBack, RecordState, CommitState
  <2>2. CASE VerifyTarget(p)
    <3>1. step'[p] = "resolver" => target[p].pins = PinsOf[p]
      BY <1>0, <2>2 DEF VerifyTarget, Verified, StoreTypeOK
    <3>2. step'[p] \in {"resolver", "unlock"} /\ plan' = plan /\ states' = states
      BY <1>0, <2>2 DEF VerifyTarget, StoreTypeOK, stateVars
    <3>3. QED
      BY <1>1, <2>1, <3>1, <3>2 DEF GenerationInv
  <2>3. CASE SelectNext(p)
    <3>1. step[p] = "select" /\ op[p] = "activate"
      BY <1>0, <2>3 DEF SelectNext, ActivateStep, FitsOp
    <3>2. /\ step'[p] \in {"record", "unlock"} /\ states' = states
          /\ plan' = plan \/ \E c : Propose(p, target[p], c)
      BY <1>0, <2>3 DEF SelectNext, Propose, StoreTypeOK, stateVars
    <3>3. OneGeneration(plan'[p])
      BY <1>0, <3>1, <3>2 DEF Propose, OneGeneration, GenerationInv, StoreTypeOK
    <3>4. \A q \in Procs : q # p => plan'[q] = plan[q]
      BY <1>0, <3>2 DEF Propose, StoreTypeOK
    <3>5. QED
      BY <1>1, <2>1, <3>2, <3>3, <3>4 DEF GenerationInv
  <2>4. CASE SelectBack(p)
    <3>1. /\ step'[p] \in {"record", "unlock"} /\ states' = states
          /\ plan' = plan \/ \E b, c : b.pins = PinsOf[p] /\ Propose(p, b, c)
      BY <1>0, <2>4 DEF SelectBack, Restorable, Verified, Propose, StoreTypeOK, stateVars
    <3>2. OneGeneration(plan'[p])
      BY <1>0, <3>1 DEF Propose, OneGeneration, StoreTypeOK
    <3>3. \A q \in Procs : q # p => plan'[q] = plan[q]
      BY <1>0, <3>1 DEF Propose, StoreTypeOK
    <3>4. QED
      BY <1>1, <2>1, <3>1, <3>2, <3>3 DEF GenerationInv
  <2>5. CASE RecordState(p) \/ CommitState(p)
    <3>1. /\ step'[p] \in {"commit", "unlock"} /\ plan' = plan
          /\ states' = states \/ states' = [states EXCEPT ![p] = plan[p]]
      BY <1>0, <2>5 DEF RecordState, CommitState, StoreTypeOK
    <3>2. \A q \in Procs : OneGeneration(states'[q])
      BY <1>0, <3>1 DEF GenerationInv, StoreTypeOK
    <3>3. QED
      BY <1>1, <2>1, <3>1, <3>2 DEF GenerationInv
  <2>6. QED
    BY <1>4, <2>2, <2>3, <2>4, <2>5 DEF ActivateNext
<1>5. CASE CleanupNext(p) \/ CallFails(p)
  <2>1. /\ target' = target
        /\ plan' = plan \/ plan' = [plan EXCEPT ![p] = NoState] \/ (active \in Procs /\ plan' = [plan EXCEPT ![p] = states[active]])
        /\ \A q \in Procs : states'[q] \in {states[q], NoState}
    BY <1>0, <1>5 DEF CleanupNext, CleanupStep, Scan, Sweep, RemoveOrphans, Tidy, CallFails, StoreTypeOK,
                      tree, stateVars, known
  <2>2. step'[p] \in {"sweep", "orphans", "tidy", "unlock"}
    BY <1>0, <1>5 DEF CleanupNext, CleanupStep, Scan, Sweep, RemoveOrphans, Tidy, CallFails, StoreTypeOK
  <2>3. \A q \in Procs : OneGeneration(plan'[q])
    BY <1>0, <2>1 DEF GenerationInv, StoreTypeOK
  <2>4. QED
    BY <1>0, <1>1, <2>1, <2>2, <2>3 DEF GenerationInv
<1>6. QED
  BY <1>2, <1>3, <1>4, <1>5 DEF StoreNext

LEMMA NextGeneration == KernelInv /\ GenerationInv /\ [Next]_vars => GenerationInv'
<1> SUFFICES ASSUME KernelInv, GenerationInv, [Next]_vars PROVE GenerationInv'
  OBVIOUS
<1> USE Groups
<1>0. StoreInv /\ StoreTypeOK /\ MoreTypeOK /\ OneGeneration(NoState)
  BY DEF KernelInv, StoreInv, OneGeneration
\* A step that neither works in the store nor starts anything.
<1>1. ASSUME NEW p \in Procs, NEW s, s # "release", To(p, s), pins' = pins \/ \E g : pins' = [pins EXCEPT ![p] = g],
             target' = target \/ \E a : target' = [target EXCEPT ![p] = a]
      PROVE  \A q \in Procs : phase'[q] = "release" => target'[q].pins = pins'[q]
  <2>1. \A q \in Procs : phase'[q] = "release" => q # p /\ phase[q] = "release"
    BY <1>0, <1>1 DEF To, MoreTypeOK
  <2>2. \A q \in Procs : q # p => target'[q] = target[q] /\ pins'[q] = pins[q]
    BY <1>0, <1>1 DEF MoreTypeOK, StoreTypeOK
  <2>3. QED
    BY <2>1, <2>2 DEF GenerationInv
<1>2. ASSUME UNCHANGED <<step, op, plan, states>>, \A q \in Procs : step[q] # "idle" => target'[q] = target[q],
             \A q \in Procs : phase'[q] = "release" => target'[q].pins = pins'[q]
      PROVE  GenerationInv'
  BY <1>2 DEF GenerationInv
<1>3. ASSUME NEW p \in Procs, LockPathNext(p) \/ InstallNext(p) PROVE GenerationInv'
  <2>1. UNCHANGED <<step, op, plan, states, target, pins>>
    BY <1>3 DEF LockPathNext, LockStep, Start, MakeLock, WriteOwner, MakeReaper, ReadOwner, ProbeOwner, DropReaper, Pause, Leave,
                InstallNext, CheckStatus, CheckPayload, FetchPayload, SwapOut, SwapIn, StoreUnchangedBut,
                storeVars, tree, stateVars, known, launchVars
  <2>2. \E s : s # "release" /\ To(p, s)
    BY <1>3 DEF LockPathNext, Start, MakeLock, WriteOwner, MakeReaper, ReadOwner, ProbeOwner, DropReaper, Pause, Leave,
                InstallNext, CheckStatus, CheckPayload, FetchPayload, SwapOut, SwapIn, Abandon
  <2>3. QED
    BY <1>1, <1>2, <2>1, <2>2
<1>4. ASSUME NEW p \in Procs, CallNext(p) \/ Command(p) PROVE GenerationInv'
  <2>1. CASE StoreStep(p)
    <3>1. StoreNext(p) /\ UNCHANGED <<phase, pins>>
      BY <2>1 DEF StoreStep, CallStep, launchVars
    <3>2. phase[p] # "release"
      BY <1>0, <3>1, StepEffect DEF KernelInv, PhaseInv
    <3>3. \A q \in Procs : q # p => target'[q] = target[q]
      BY <1>0, <3>1, StepEffect DEF StoreTypeOK
    <3>4. \A q \in Procs : phase'[q] = "release" => target'[q].pins = pins'[q]
      BY <3>1, <3>2, <3>3 DEF GenerationInv
    <3>5. QED
      BY <1>0, <3>1, <3>4, CallGeneration DEF GenerationInv
  <2>2. CASE Returned(p) \/ CommandDone(p) \/ (Prepared(p) /\ UNCHANGED storeVars)
    <3>1. UNCHANGED <<step, op, plan, states, target, pins>>
      BY <2>2 DEF Returned, CommandDone, Prepared, LockStep, CallStep, storeVars, tree, stateVars, known, launchVars
    <3>2. \E s : s # "release" /\ To(p, s)
      BY <2>2 DEF Returned, CommandDone, Prepared
    <3>3. QED
      BY <1>1, <1>2, <3>1, <3>2
  <2>3. CASE \E o, a : Call(p, o, a) /\ pins' = pins /\ \E s : s # "release" /\ To(p, s)
    <3>1. PICK o, a : Call(p, o, a) /\ pins' = pins /\ \E s : s # "release" /\ To(p, s)
      BY <2>3
    <3>2. /\ UNCHANGED <<states, plan>> /\ target' = [target EXCEPT ![p] = a]
          /\ step'[p] = "open" /\ \A q \in Procs : q # p => step'[q] = step[q] /\ op'[q] = op[q] /\ target'[q] = target[q]
      BY <1>0, <3>1 DEF Call, Goto, tree, stateVars, StoreTypeOK
    <3>3. \A q \in Procs : phase'[q] = "release" => target'[q].pins = pins'[q]
      BY <1>1, <3>1, <3>2
    <3>4. QED
      BY <3>2, <3>3 DEF GenerationInv
  <2>4. Command(p) \/ CallPrepare(p) => \E o, a : Call(p, o, a) /\ pins' = pins /\ \E s : s # "release" /\ To(p, s)
    BY DEF Command, CallPrepare, CallStep, launchVars
  <2>5. Prepared(p) => \/ UNCHANGED storeVars
                       \/ \E o, a : Call(p, o, a) /\ pins' = pins /\ \E s : s # "release" /\ To(p, s)
    BY DEF Prepared, CallStep, launchVars
  <2>6. QED
    BY <1>4, <2>1, <2>2, <2>3, <2>4, <2>5 DEF CallNext
<1>5. ASSUME NEW p \in Procs, LaunchNext(p) PROVE GenerationInv'
  <2>1. UNCHANGED <<step, op, plan, states>> /\ step[p] = "idle"
    BY <1>5 DEF LaunchNext, ReadLink, ReadState, StartRelease, LaunchStep, At, tree, stateVars, KernelInv, PhaseInv
  <2>2. CASE ReadLink(p) \/ StartRelease(p)
    <3>1. target' = target /\ (pins' = pins \/ pins' = [pins EXCEPT ![p] = resolver])
      BY <2>2 DEF ReadLink, StartRelease, launchVars
    <3>2. \E s : s # "release" /\ To(p, s)
      BY <2>2 DEF ReadLink, StartRelease
    <3>3. QED
      BY <1>1, <1>2, <2>1, <3>1, <3>2
  <2>3. CASE ReadState(p)
    <3>1. /\ pins' = pins /\ \A q \in Procs : q # p => target'[q] = target[q] /\ phase'[q] = phase[q]
      BY <1>0, <2>3 DEF ReadState, launchVars, To, StoreTypeOK, MoreTypeOK
    <3>2. phase[p] = "state" /\ link[p] \in Procs
      BY <1>0, <2>3 DEF ReadState, LaunchStep, At, KernelInv, LaunchInv, MoreTypeOK
    <3>3. phase'[p] = "release" => target'[p].pins = pins'[p]
      BY <1>0, <2>3, <3>1, <3>2 DEF ReadState, To, GenerationInv, OneGeneration, StoreTypeOK, MoreTypeOK
    <3>4. \A q \in Procs : phase'[q] = "release" => target'[q].pins = pins'[q]
      BY <3>1, <3>3 DEF GenerationInv
    <3>5. QED
      BY <1>2, <2>1, <3>1, <3>4
  <2>4. QED
    BY <1>5, <2>2, <2>3 DEF LaunchNext
<1>6. ASSUME NEW p \in Procs, End(p) PROVE GenerationInv'
  <2>1. /\ states' = states /\ plan' = [plan EXCEPT ![p] = NoState] /\ target' = [target EXCEPT ![p] = SomeArtifact]
        /\ step'[p] = "idle" /\ \A q \in Procs : q # p => step'[q] = step[q] /\ op'[q] = op[q] /\ target'[q] = target[q]
    BY <1>0, <1>6 DEF End, EndLife, Goto, tree, stateVars, StoreTypeOK
  <2>2. \A q \in Procs : phase'[q] = "release" => target'[q].pins = pins'[q]
    BY <1>1, <1>6, <2>1 DEF End
  <2>3. QED
    BY <1>0, <2>1, <2>2 DEF GenerationInv, StoreTypeOK
<1>7. CASE Upgrade \/ UNCHANGED vars
  <2>1. UNCHANGED <<step, op, plan, states, target, phase, pins>>
    BY <1>7 DEF Upgrade, UpgradePackage, vars, storeVars, tree, stateVars, known, launchVars
  <2>2. QED
    BY <1>2, <2>1 DEF GenerationInv
<1>8. QED
  BY <1>3, <1>4, <1>5, <1>6, <1>7 DEF Next, LifeStep

LEMMA AlwaysGeneration == Spec => []GenerationInv
BY InitGeneration, NextGeneration, AlwaysKernelInv, PTL DEF Spec

\* A kernel that starts is whole, holds the module its name says, and is of the generation
\* that the stable wrapper asked for, whatever happened between its three readings.
THEOREM AlwaysStartsWholeRelease == Spec => StartsWholeRelease
<1>1. ASSUME KernelInv, GenerationInv, [Next]_vars, NEW p \in Procs, phase[p] = "release", phase'[p] = "running"
      PROVE  releases[target[p]] = "sealed" /\ holds[target[p]] = target[p].module /\ target[p].pins = pins[p]
  <2>1. StartRelease(p)
    <3>1. LaunchNext(p)
      BY <1>1, StartIsLaunch DEF Launching
    <3>2. QED
      BY <1>1, <3>1 DEF LaunchNext, ReadLink, ReadState, LaunchStep, At
  <2>2. releases[target[p]] = "sealed" /\ target[p] \in Artifacts
    BY <1>1, <2>1 DEF StartRelease, To, KernelInv, MoreTypeOK, StoreInv, StoreTypeOK
  <2>3. holds[target[p]] = target[p].module
    BY <2>2, <1>1 DEF KernelInv, StoreInv, DataInv, ReleaseMatches
  <2>4. QED
    BY <1>1, <2>2, <2>3 DEF GenerationInv
<1>2. KernelInv /\ GenerationInv /\ [Next]_vars =>
        [\A p \in Procs : phase[p] = "release" /\ phase'[p] = "running" =>
           /\ releases[target[p]] = "sealed" /\ holds[target[p]] = target[p].module
           /\ target[p].pins = pins[p]]_vars
  BY <1>1
<1>3. QED
  BY <1>2, AlwaysKernelInv, AlwaysGeneration, PTL DEF Spec, StartsWholeRelease
=============================================================================
