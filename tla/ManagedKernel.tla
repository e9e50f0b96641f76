--------------------------- MODULE ManagedKernel ---------------------------
(***************************************************************************)
(* Connectors install the managed kernel before they start it              *)
(* (ensureManagedOfficialKernel), beside each other and beside operators   *)
(* who run the lifecycle command, on the store of KernelStore.             *)
(*                                                                         *)
(* The install lock and the payload directory carry the version in their   *)
(* names, so there is one of each per generation, while the store is one   *)
(* for all.  The install lock is a directory with the pid of its owner; a  *)
(* waiter that finds the owner dead removes it, under a second directory,  *)
(* the reaper, that nobody ever recovers.                                  *)
(***************************************************************************)
EXTENDS KernelStore

CONSTANT MayCrash  \* lives that may end at any step

ASSUME CrashAssumption == MayCrash \subseteq Procs

VARIABLES
  phase,       \* where a life is
  install,     \* whose install lock exists
  owned,       \* its owner.json is written
  reaper,      \* whose reaper directory exists
  saw,         \* the owner a waiter read
  was,         \* the payload an installer moved aside
  link, pins,  \* what the stable wrapper read: the state and the pins it expects
  robbed       \* a waiter removed another lock than the one it read (history)

installVars == <<install, owned, reaper, saw, robbed>>
launchVars == <<link, pins>>
vars == <<storeVars, phase, installVars, was, launchVars>>

Waiting == {"lock", "reap", "read", "probe", "drop", "pause"}
Installing == {"owner", "status", "payload", "fetch", "swapOut", "swapIn",
               "prepare", "preparing", "calling", "leave"}
Launching == {"link", "state", "release"}
Ended == {"running", "refused", "failed", "done"}
Phases == Waiting \cup Installing \cup Launching \cup Ended \cup {"start"}

G(p) == PinsOf[p]
Connectors == Procs \ Operators

TypeOK ==
  /\ StoreTypeOK
  /\ phase \in [Procs -> Phases]
  /\ install \in [Pins -> Procs \cup {NoProc}] /\ owned \in [Pins -> BOOLEAN]
  /\ reaper \in [Pins -> Procs \cup {NoProc}] /\ saw \in [Procs -> Procs \cup {NoProc}]
  /\ was \in [Procs -> {"missing", "other", "pinned"}]
  /\ link \in [Procs -> Procs \cup {NoProc}] /\ pins \in [Procs -> Pins \cup {NoPins}]
  /\ robbed \subseteq Pins

At(p, s) == phase[p] = s /\ p \notin dead
To(p, s) == phase' = [phase EXCEPT ![p] = s]

----------------------------------------------------------------------------
(* withManagedKernelInstallLock. *)

LockStep(p, s) == At(p, s) /\ UNCHANGED <<storeVars, was, launchVars>>

Start(p) ==
  /\ LockStep(p, "start") /\ p \in Connectors
  /\ To(p, "lock")
  /\ UNCHANGED installVars

\* mkdir of the lock.
MakeLock(p) ==
  /\ LockStep(p, "lock")
  /\ IF install[G(p)] = NoProc
       THEN /\ install' = [install EXCEPT ![G(p)] = p]
            /\ owned' = [owned EXCEPT ![G(p)] = FALSE]
            /\ To(p, "owner")
       ELSE To(p, "reap") /\ UNCHANGED <<install, owned>>
  /\ UNCHANGED <<reaper, saw, robbed>>

\* owner.json; the lock goes when it cannot be written.
WriteOwner(p) ==
  /\ LockStep(p, "owner")
  /\ \/ /\ owned' = [owned EXCEPT ![G(p)] = @ \/ install[G(p)] = p]
        /\ To(p, "status") /\ UNCHANGED install
     \/ /\ install' = [install EXCEPT ![G(p)] = NoProc] /\ owned' = [owned EXCEPT ![G(p)] = FALSE]
        /\ To(p, "failed")
  /\ UNCHANGED <<reaper, saw, robbed>>

\* mkdir of the reaper.
MakeReaper(p) ==
  /\ LockStep(p, "reap")
  /\ IF reaper[G(p)] = NoProc
       THEN reaper' = [reaper EXCEPT ![G(p)] = p] /\ To(p, "read")
       ELSE To(p, "pause") /\ UNCHANGED reaper
  /\ UNCHANGED <<install, owned, saw, robbed>>

\* Mutant: a waiter that cannot read the owner leaves its reaper behind.
ReadOwnerKeepsReaper(p) ==
  /\ LockStep(p, "read")
  /\ IF install[G(p)] # NoProc /\ owned[G(p)]
       THEN saw' = [saw EXCEPT ![p] = install[G(p)]] /\ To(p, "probe")
       ELSE To(p, "pause") /\ UNCHANGED saw
  /\ UNCHANGED <<install, owned, reaper, robbed>>

ReadOwner(p) ==
  /\ LockStep(p, "read")
  /\ IF install[G(p)] # NoProc /\ owned[G(p)]
       THEN saw' = [saw EXCEPT ![p] = install[G(p)]] /\ To(p, "probe")
       ELSE To(p, "drop") /\ UNCHANGED saw
  /\ UNCHANGED <<install, owned, reaper, robbed>>

\* Mutant: the lock goes whether its owner lives or not.
ProbeNothing(p) ==
  /\ LockStep(p, "probe")
  /\ To(p, "drop")
  /\ install' = [install EXCEPT ![G(p)] = NoProc] /\ owned' = [owned EXCEPT ![G(p)] = FALSE]
  /\ robbed' = IF install[G(p)] \in {NoProc, saw[p]} THEN robbed ELSE robbed \cup {G(p)}
  /\ UNCHANGED <<reaper, saw>>

\* process.kill(pid, 0); rm removes whatever lock is there when its turn comes.
ProbeOwner(p) ==
  /\ LockStep(p, "probe")
  /\ To(p, "drop")
  /\ IF saw[p] \in dead
       THEN /\ install' = [install EXCEPT ![G(p)] = NoProc] /\ owned' = [owned EXCEPT ![G(p)] = FALSE]
            /\ robbed' = IF install[G(p)] \in {NoProc, saw[p]} THEN robbed ELSE robbed \cup {G(p)}
       ELSE UNCHANGED <<install, owned, robbed>>
  /\ UNCHANGED <<reaper, saw>>

DropReaper(p) ==
  /\ LockStep(p, "drop")
  /\ reaper' = [reaper EXCEPT ![G(p)] = NoProc] /\ saw' = [saw EXCEPT ![p] = NoProc]
  /\ To(p, "pause")
  /\ UNCHANGED <<install, owned, robbed>>

\* Another try, or the deadline of 180 s has passed.
Pause(p) ==
  /\ LockStep(p, "pause")
  /\ To(p, "lock") \/ To(p, "failed")
  /\ UNCHANGED installVars

\* Mutant: the kernel is started although its installation failed.
LeaveAnyway(p) ==
  /\ At(p, "leave") /\ p \in Connectors
  /\ install' = [install EXCEPT ![G(p)] = NoProc] /\ owned' = [owned EXCEPT ![G(p)] = FALSE]
  /\ To(p, "link")
  /\ result' = [result EXCEPT ![p] = "none"]
  /\ UNCHANGED <<machine, lockVars, tree, step, known, reaper, saw, robbed, was, launchVars>>

\* rm removes whatever lock is there.
Leave(p) ==
  /\ At(p, "leave") /\ p \in Connectors
  /\ install' = [install EXCEPT ![G(p)] = NoProc] /\ owned' = [owned EXCEPT ![G(p)] = FALSE]
  /\ To(p, IF result[p] = "ok" THEN "link" ELSE "failed")
  /\ result' = [result EXCEPT ![p] = "none"]
  /\ UNCHANGED <<machine, lockVars, tree, step, known, reaper, saw, robbed, was, launchVars>>

LockPathNext(p) ==
  \/ Start(p) \/ MakeLock(p) \/ WriteOwner(p) \/ MakeReaper(p) \/ ReadOwner(p)
  \/ ProbeOwner(p) \/ DropReaper(p) \/ Pause(p) \/ Leave(p)

----------------------------------------------------------------------------
(* The action under the lock: ensureOfficialPayload, prepare, activate. *)

StoreUnchangedBut(p) ==
  UNCHANGED <<dead, module, lockVars, tree, step, known, installVars, launchVars>>

\* status of the lifecycle: a release of these pins is active and complete.
CurrentVerified(p) == HasActive(G(p)) /\ Verified(states[active].current, G(p))

\* currentManagedWrapper: nothing to do when the active release is verified.
CheckStatus(p) ==
  /\ At(p, "status") /\ StoreUnchangedBut(p)
  /\ IF CurrentVerified(p) /\ wrapper
       THEN To(p, "leave") /\ result' = [result EXCEPT ![p] = "ok"]
       ELSE To(p, "payload") /\ UNCHANGED result
  /\ UNCHANGED <<official, was>>

\* Mutant: the payload is fetched whatever is there.
CheckPayloadNever(p) ==
  /\ At(p, "payload") /\ StoreUnchangedBut(p)
  /\ official' = [official EXCEPT ![G(p)] = IF @ = "missing" THEN "other" ELSE @]
  /\ To(p, "fetch")
  /\ UNCHANGED <<was, result>>

Abandon(p) == To(p, "leave") /\ result' = [result EXCEPT ![p] = "failed"]

\* The payload directory is made; both files must have the pinned hashes.  Making it or
\* reading them may fail.
CheckPayload(p) ==
  /\ At(p, "payload") /\ StoreUnchangedBut(p)
  /\ \/ official[G(p)] = "pinned" /\ To(p, "prepare") /\ UNCHANGED <<official, result>>
     \/ /\ official[G(p)] # "pinned"
        /\ official' = [official EXCEPT ![G(p)] = "other"]
        /\ To(p, "fetch") /\ UNCHANGED result
     \/ /\ official' \in {official, [official EXCEPT ![G(p)] = IF @ = "missing" THEN "other" ELSE @]}
        /\ Abandon(p)
  /\ UNCHANGED was

\* Download, compare with the pinned hash and extract, in a stage of its own.
FetchPayload(p) ==
  /\ At(p, "fetch") /\ StoreUnchangedBut(p)
  /\ \/ To(p, "swapOut") /\ UNCHANGED result
     \/ Abandon(p)
  /\ UNCHANGED <<official, was>>

\* The old directory is moved aside.
SwapOut(p) ==
  /\ At(p, "swapOut") /\ StoreUnchangedBut(p)
  /\ IF official[G(p)] = "missing"
       THEN Abandon(p) /\ UNCHANGED <<official, was>>
       ELSE /\ was' = [was EXCEPT ![p] = official[G(p)]]
            /\ official' = [official EXCEPT ![G(p)] = "missing"]
            /\ To(p, "swapIn") /\ UNCHANGED result

\* The new one takes its place, or the old one comes back.
SwapIn(p) ==
  /\ At(p, "swapIn") /\ StoreUnchangedBut(p)
  /\ \/ /\ official[G(p)] # "pinned"
        /\ official' = [official EXCEPT ![G(p)] = "pinned"]
        /\ To(p, "prepare") /\ UNCHANGED result
     \/ /\ official' = IF official[G(p)] = "missing" THEN [official EXCEPT ![G(p)] = was[p]] ELSE official
        /\ Abandon(p)
  /\ was' = [was EXCEPT ![p] = "missing"]

InstallNext(p) ==
  CheckStatus(p) \/ CheckPayload(p) \/ FetchPayload(p) \/ SwapOut(p) \/ SwapIn(p)

----------------------------------------------------------------------------
(* Calls of the lifecycle, by connectors and by the operator's command.    *)

CallStep(p) == UNCHANGED <<installVars, was, launchVars>>

CallPrepare(p) ==
  /\ At(p, "prepare") /\ CallStep(p)
  /\ Call(p, "prepare", target[p]) /\ To(p, "preparing")

\* One command; status and verify change nothing.
Command(p) ==
  /\ At(p, "start") /\ p \in Operators /\ CallStep(p)
  /\ \/ Call(p, "prepare", target[p]) /\ (To(p, "calling") \/ To(p, "preparing"))
     \/ /\ \E a \in Artifacts : Call(p, "activate", a)
        /\ To(p, "calling")
     \/ /\ \E o \in {"rollback", "cleanup", "purge"} : Call(p, o, target[p])
        /\ To(p, "calling")

\* What was prepared is activated.
Prepared(p) ==
  /\ At(p, "preparing") /\ step[p] = "idle" /\ CallStep(p)
  /\ \/ result[p] = "ok" /\ Call(p, "activate", target[p]) /\ To(p, "calling")
     \/ result[p] # "ok" /\ To(p, "leave") /\ UNCHANGED storeVars

Returned(p) ==
  /\ At(p, "calling") /\ step[p] = "idle" /\ CallStep(p)
  /\ To(p, "leave") /\ UNCHANGED storeVars

CommandDone(p) ==
  /\ LockStep(p, "leave") /\ p \in Operators
  /\ To(p, "done") /\ UNCHANGED installVars

StoreStep(p) == StoreNext(p) /\ UNCHANGED phase /\ CallStep(p)

CallNext(p) == CallPrepare(p) \/ Prepared(p) \/ Returned(p) \/ CommandDone(p) \/ StoreStep(p)

----------------------------------------------------------------------------
(* The start of the kernel: the stable wrapper, its resolver, the wrapper  *)
(* of the release and its verifier.  None of them takes a lock.            *)

LaunchStep(p, s) ==
  At(p, s) /\ UNCHANGED <<machine, lockVars, tree, step, op, seen, tries, plan, result, installVars, was>>

ReadLink(p) ==
  /\ LaunchStep(p, "link")
  /\ IF wrapper /\ active # NoProc
       THEN /\ link' = [link EXCEPT ![p] = active] /\ pins' = [pins EXCEPT ![p] = resolver]
            /\ To(p, "state")
       ELSE To(p, "refused") /\ UNCHANGED launchVars
  /\ UNCHANGED target

\* Mutant: the state is started whatever its pins are.
ReadStateUnchecked(p) ==
  /\ LaunchStep(p, "state")
  /\ IF states[link[p]] # NoState
       THEN target' = [target EXCEPT ![p] = states[link[p]].current] /\ To(p, "release")
       ELSE To(p, "refused") /\ UNCHANGED target
  /\ UNCHANGED launchVars

ReadState(p) ==
  /\ LaunchStep(p, "state")
  /\ IF states[link[p]] # NoState /\ states[link[p]].pins = pins[p]
       THEN target' = [target EXCEPT ![p] = states[link[p]].current] /\ To(p, "release")
       ELSE To(p, "refused") /\ UNCHANGED target
  /\ UNCHANGED launchVars

StartRelease(p) ==
  /\ LaunchStep(p, "release")
  /\ To(p, IF releases[target[p]] = "sealed" THEN "running" ELSE "refused")
  /\ UNCHANGED <<target, launchVars>>

LaunchNext(p) == ReadLink(p) \/ ReadState(p) \/ StartRelease(p)

----------------------------------------------------------------------------

\* A process exits when it is done, or dies at any step.
End(p) ==
  /\ phase[p] \in Ended \/ p \in MayCrash
  /\ EndLife(p) /\ To(p, "done")
  /\ saw' = [saw EXCEPT ![p] = NoProc]
  /\ link' = [link EXCEPT ![p] = NoProc] /\ pins' = [pins EXCEPT ![p] = NoPins]
  /\ UNCHANGED <<install, owned, reaper, robbed, was>>

Upgrade == UpgradePackage /\ UNCHANGED <<phase, installVars, was, launchVars>>

\* An install lock, with its reaper or without, may be left by a life that ended.
Init ==
  /\ StoreInit
  /\ phase = [p \in Procs |-> IF p \in dead THEN "done" ELSE "start"]
  /\ \/ install = [g \in Pins |-> NoProc] /\ owned = [g \in Pins |-> FALSE]
     \/ \E p \in Past, b \in BOOLEAN :
          /\ install = [g \in Pins |-> IF g = G(p) THEN p ELSE NoProc]
          /\ owned = [g \in Pins |-> b /\ g = G(p)]
  /\ reaper = [g \in Pins |-> NoProc] /\ saw = [p \in Procs |-> NoProc]
  /\ was = [p \in Procs |-> "missing"]
  /\ link = [p \in Procs |-> NoProc] /\ pins = [p \in Procs |-> NoPins]
  /\ robbed = {}

LifeStep(p) == LockPathNext(p) \/ InstallNext(p) \/ CallNext(p) \/ LaunchNext(p)

Next == (\E p \in Procs : LifeStep(p) \/ Command(p) \/ End(p)) \/ Upgrade

\* A process that lives goes on; nobody has to start one.
Fairness == \A p \in Procs : WF_vars(LifeStep(p) /\ phase[p] # "start")

Spec == Init /\ [][Next]_vars /\ Fairness

----------------------------------------------------------------------------
(* The promise of the lifecycle, and how its state shows in the files.     *)

\* What the link leads to.
Selected == IF active = NoProc \/ states[active] = NoState
              THEN [current |-> NoState, previous |-> {}] ELSE states[active]

\* The release an activation was asked for, or the one a prepare reports.
About(p) == IF op[p] = "activate" \/ (op[p] = "prepare" /\ result[p] = "ok") THEN target[p] ELSE NoState

CallOf(p) == IF step[p] = "idle" THEN [op |-> "none"] ELSE [op |-> op[p], on |-> About(p), report |-> result[p]]

Lifecycle == INSTANCE ActiveRelease WITH
  Releases <- Artifacts, NoRelease <- NoState, Generation <- [a \in Artifacts |-> a.pins],
  complete <- {a \in Artifacts : releases[a] = "sealed"},
  current <- Selected.current, previous <- Selected.previous,
  calls <- [p \in Procs |-> CallOf(p)], apart <- ~stolen

----------------------------------------------------------------------------
(* Properties. *)

\* prepare, activate, rollback, cleanup and purge each take effect at one moment and
\* report what was so at that moment, whoever calls them beside each other and dies
\* where, until a recovery of the lock goes wrong (OfficialKernelCompatLifecycle).
ImplementsActiveRelease == Lifecycle!Spec

\* One connector of a generation is in the action of the install lock at a time,
\* whatever installers died and whoever removed their locks, until a waiter removes
\* another lock than the one it read (withManagedKernelInstallLock).
OneInstaller ==
  \A p, q \in Connectors \ dead :
    G(p) = G(q) /\ G(p) \notin robbed /\ phase[p] \in Installing /\ phase[q] \in Installing => p = q

\* A payload with the pinned hashes is never taken away again, as long as installers
\* are kept apart (ensureOfficialPayload).
PinnedPayloadStays ==
  [][\A g \in Pins : official[g] = "pinned" /\ g \notin robbed => official'[g] = "pinned"]_vars

\* A connector that ensured its kernel is refused only when the link moved on after
\* it was read, or when another generation has taken the wrapper or the link
\* (renderActiveResolver, renderReleaseWrapperVerifier).
RefusedOnlyWhenReplaced ==
  [][\A p \in Procs : phase[p] \in Launching /\ phase'[p] = "refused" /\ ~stolen =>
       phase[p] # "link" /\ (active # link[p] \/ states[active].pins # pins[p])]_vars

\* A kernel that starts is a whole release, with the module its name says and of the
\* generation the wrapper asked for, although the start takes no lock and whatever was
\* activated, rolled back, removed or upgraded since the wrapper read the link, and
\* also when a recovery of the lock went wrong (renderReleaseWrapperVerifier).
StartsWholeRelease ==
  [][\A p \in Procs : phase[p] = "release" /\ phase'[p] = "running" =>
       /\ releases[target[p]] = "sealed" /\ holds[target[p]] = target[p].module
       /\ target[p].pins = pins[p]]_vars

\* The lock of a writer that died is recovered by the next call that meets it.
DeadWriterReplaced ==
  \A p \in Procs :
    (lock \in dead /\ written /\ step[p] = "open") ~> (lock \notin dead \/ p \in dead)

\* The lock of an installer that died after it wrote its pid does not stop those who
\* wait for it, unless a reaper died at its work.
DeadInstallerReplaced ==
  \A g \in Pins :
    (install[g] \in dead /\ owned[g]) ~>
      \/ install[g] \notin dead \/ reaper[g] \in dead
      \/ \A p \in Connectors : G(p) = g => phase[p] \notin Waiting
=============================================================================
