-------------------------- MODULE AdmissionSystem --------------------------
(***************************************************************************)
(* Connectors at work on the shared store: the turn coordinator            *)
(* (turn-coordinator.ts), the prompt write (admission-fence.ts), the       *)
(* reaper and the startup recovery (controller.ts, startup-recovery.ts),   *)
(* and the processes they observe.                                         *)
(*                                                                         *)
(* A connector is one process with one official kernel as child and one    *)
(* store handle.  Its turns run in one event loop, but between any two of  *)
(* its store transactions a transaction of another connector may commit,   *)
(* so a coordinator step is one transaction together with the code up to   *)
(* the next one.                                                           *)
(*                                                                         *)
(* Abstractions: session/cancel may abort a claim at any check, so an      *)
(* aborted claim is a choice at the check.  MarkSuspect and Heartbeat are  *)
(* left out: no decision reads what they write.  Evidence that cannot be   *)
(* verified makes a reaper retain the seat, which is no step here.  Each   *)
(* connector leads a process group of its own, which its kernel joins      *)
(* (spawn.ts does not detach it); Paseo, which starts connectors, is not   *)
(* in this repository.                                                     *)
(***************************************************************************)
EXTENDS AdmissionController

CONSTANTS
  OwnerOf,       \* the connector that runs a request
  MayMove,       \* connectors that may be re-parented while they live
  MayCrash,      \* connectors that may die without settling their turns
  MayFork,       \* connectors whose kernel may start a process of its own
  LastArrival    \* bound of the model: no prompt arrives later

ASSUME OwnershipAssumption == OwnerOf \in [Requests -> Owners]
ASSUME FaultAssumption ==
  MayMove \subseteq Owners /\ MayCrash \subseteq Owners /\ MayFork \subseteq Owners
ASSUME ArrivalAssumption == LastArrival \in 0..MaxTime
\* Generation 1 is the only one a coordinator is ever given (LeasedAtMostOnce).
ASSUME GenerationAssumption == MaxGeneration >= 1
\* The process record bound to a dispatch names its connector and kernel.
ASSUME RecordAssumption == Children = Owners

VARIABLES
  proc,      \* connector process: absent, up, moved (alive, new parent) or gone
  kernel,    \* its kernel child: none, up or gone
  helper,    \* a process the kernel started in its process group: none, up or gone
  work,      \* what the kernel does with the prompt of a request
  turn,      \* where the coordinator is with a request
  listed     \* the helpers in the process list a reaper read when it woke up

procVars == <<proc, kernel, helper, listed>>
sysVars == <<procVars, work, turn>>
allVars == <<vars, sysVars>>

----------------------------------------------------------------------------
Steps ==
  {"idle", "waiting", "leased", "starting", "prepared", "checked", "written",
   "active", "unsent", "sent", "ended"}

SysTypeOK ==
  /\ TypeOK
  /\ proc \in [Owners -> {"absent", "up", "moved", "gone"}]
  /\ kernel \in [Owners -> {"none", "up", "gone"}]
  /\ helper \in [Owners -> {"none", "up", "gone"}]
  /\ work \in [Requests -> {"none", "running", "answered", "lost"}]
  /\ turn \in [Requests -> Steps]
  /\ listed \in [Owners -> SUBSET Owners]

Up(c) == proc[c] \in {"up", "moved"}
Running(r) == Up(OwnerOf[r])
Fence(r) ==
  [request |-> r, generation |-> turnRequests[r].generation, owner |-> OwnerOf[r]]

Goto(r, from, to) ==
  /\ turn[r] = from /\ Running(r)
  /\ turn' = [turn EXCEPT ![r] = to]

\* A coordinator step that commits nothing.
Quietly(r, from, to) == Goto(r, from, to) /\ UNCHANGED <<vars, procVars, work>>

----------------------------------------------------------------------------
(* AdmissionTurnCoordinator. *)

\* admit: the request and its prompt enter the queue.
Submit(r) ==
  /\ clock <= LastArrival
  /\ Goto(r, "idle", "waiting")
  /\ EnqueueWithPayload(r, OwnerOf[r], clock)
  /\ UNCHANGED <<procVars, work>>

\* Mutant: the poll does not sweep overdue requests when it seats nobody.
PollWithoutSweep(r) ==
  /\ turn[r] = "waiting" /\ Running(r)
  /\ AdmitRequest(r, OwnerOf[r], clock) /\ State(r)' = "admitted"
  /\ turn' = [turn EXCEPT ![r] = "leased"]
  /\ UNCHANGED <<procVars, work>>

\* One turn of waitForLease: the lease, another wait, or a queue timeout.
Poll(r) ==
  /\ turn[r] = "waiting" /\ Running(r)
  /\ AdmitRequest(r, OwnerOf[r], clock)
  /\ turn' = [turn EXCEPT ![r] =
       CASE State(r)' = "admitted" -> "leased"
         [] State(r)' = "queued" -> "waiting"
         [] OTHER -> "ended"]
  /\ UNCHANGED <<procVars, work>>

\* The request is no longer queued: another process timed it out or settled it.
PollSettled(r) == State(r) # "queued" /\ Quietly(r, "waiting", "ended")

\* Mutant: the row is cancelled without a look at its state.
CancelWaitingUnchecked(r) ==
  /\ Goto(r, "waiting", "ended")
  /\ CancelUnchecked(r)
  /\ UNCHANGED <<procVars, work>>

\* The claim is aborted while it waits; cancelQueuedQuietly.
CancelWaiting(r) ==
  /\ Goto(r, "waiting", "ended")
  /\ IF State(r) = "queued" THEN CancelQueued(r) ELSE UNCHANGED vars
  /\ UNCHANGED <<procVars, work>>

\* A poll that throws (the store is busy) leaves the request queued.
PollFails(r) == Quietly(r, "waiting", "ended")

Start(r) ==
  /\ Goto(r, "leased", "starting")
  /\ MarkStarting(Fence(r), clock)
  /\ UNCHANGED <<procVars, work>>

\* markStarting throws: too early after another start, or the store is busy.
StartFails(r) == Quietly(r, "leased", "unsent")

\* prepare: the kernel's identity is captured and recorded with the intent.
Prepare(r) ==
  /\ kernel[OwnerOf[r]] = "up"
  /\ Goto(r, "starting", "prepared")
  /\ RecordProcessIdentity(Fence(r), OwnerOf[r])
  /\ UNCHANGED <<procVars, work>>

\* The claim is aborted, the kernel is gone, or the record is refused.
PrepareFails(r) == Quietly(r, "starting", "unsent")

\* commitDispatchIntent replays the record, beforePromptWrite reads the state.
BeforePromptWrite(r) ==
  /\ State(r) = "dispatch_intent"
  /\ Quietly(r, "prepared", "checked")

BeforePromptWriteFails(r) == Quietly(r, "prepared", "unsent")

\* write(): the prompt reaches the kernel, unless the kernel has just exited.
WritePrompt(r) ==
  /\ Goto(r, "checked", "written")
  /\ work' = [work EXCEPT ![r] = IF kernel[OwnerOf[r]] = "up" THEN "running" ELSE "lost"]
  /\ UNCHANGED <<vars, procVars>>

\* write() throws: the dispatch is ambiguous, and settleFailure leaves it so.
WriteThrows(r) ==
  /\ Goto(r, "checked", "sent")
  /\ MarkDispatchAmbiguous(Fence(r)) \/ UNCHANGED vars
  /\ UNCHANGED <<procVars, work>>

\* Mutant: promptWriteIssued is set after markActive instead of before.
AfterPromptWriteLateFlag(r) ==
  \/ /\ Goto(r, "written", "active")
     /\ MarkActive(Fence(r))
     /\ UNCHANGED <<procVars, work>>
  \/ Quietly(r, "written", "unsent")

\* afterPromptWrite: promptWriteIssued is set, then markActive commits or throws.
AfterPromptWrite(r) ==
  \/ /\ Goto(r, "written", "active")
     /\ MarkActive(Fence(r))
     /\ UNCHANGED <<procVars, work>>
  \/ Quietly(r, "written", "sent")

\* What an answer says: a stop reason, or a classified provider failure.
Ends ==
  {<<"completed", "none">>, <<"cancelled", "none">>,
   <<"failed", "provider_capacity">>, <<"failed", "transport">>}

\* The kernel's answer ends the turn; a failed heartbeat makes it uncertain.
Complete(r) ==
  /\ work[r] = "answered"
  /\ \/ /\ Goto(r, "active", "ended")
        /\ \E end \in Ends : CompleteLiveTurn(Fence(r), end[1], end[2], clock)
     \/ /\ Goto(r, "active", "sent")
        /\ UNCHANGED vars
  /\ UNCHANGED <<procVars, work>>

\* The kernel closed the connection under a running prompt.
ConnectionLost(r) ==
  /\ kernel[OwnerOf[r]] = "gone"
  /\ Quietly(r, "active", "sent")

\* settleFailure before the write.  Any error in it is swallowed.
SettleUnsent(r) ==
  /\ Goto(r, "unsent", "ended")
  /\ \/ \E outcome \in {"failed", "cancelled"} : AbandonBeforePrompt(Fence(r), outcome)
     \/ UNCHANGED vars
  /\ UNCHANGED <<procVars, work>>

\* Mutant: a lost turn is reported failed, as if its outcome were known.
SettleSentAsFailed(r) ==
  /\ Goto(r, "sent", "ended")
  /\ IF State(r) = "active"
       THEN CompleteLiveTurn(Fence(r), "failed", "none", clock)
       ELSE UNCHANGED vars
  /\ UNCHANGED <<procVars, work>>

\* settleFailure after the write: dispatch_ambiguous is left alone, anything
\* else that is not settled becomes recovery debt.
SettleSent(r) ==
  /\ Goto(r, "sent", "ended")
  /\ \/ /\ State(r) \in {"dispatch_intent", "active"}
        /\ MarkExecutionRecoveryRequired(Fence(r))
     \/ UNCHANGED vars
  /\ UNCHANGED <<procVars, work>>

TurnNext ==
  \E r \in Requests :
    \/ Submit(r) \/ Poll(r) \/ PollSettled(r) \/ CancelWaiting(r) \/ PollFails(r)
    \/ Start(r) \/ StartFails(r) \/ Prepare(r) \/ PrepareFails(r)
    \/ BeforePromptWrite(r) \/ BeforePromptWriteFails(r)
    \/ WritePrompt(r) \/ WriteThrows(r) \/ AfterPromptWrite(r)
    \/ Complete(r) \/ ConnectionLost(r) \/ SettleUnsent(r) \/ SettleSent(r)

----------------------------------------------------------------------------
(* The reaper of a running connector, and the recovery of a starting one: the *)
(* same inspection, once.  Inventory rows are a snapshot, but an identity is  *)
(* bound once and every transaction checks its fence again, so only the       *)
(* process list, read before everything else, can be stale when it is used.   *)

Forked == {c \in Owners : helper[c] = "up"}

ListProcessIds(p) ==
  /\ Up(p)
  /\ listed' = [listed EXCEPT ![p] = Forked]
  /\ UNCHANGED <<vars, proc, kernel, helper, work, turn>>

\* observeLinuxProcessIdentity: gone, or pid_reused because the parent changed.
ConnectorGone(c) == proc[c] \in {"moved", "gone"}

\* The kernel is gone, or an orphan whose new parent makes it pid_reused.
ChildGone(c) == kernel[c] = "gone" \/ proc[c] = "gone"

\* inspectLinuxProcessGroup over the listed processes, all of which it reads again.
GroupEmpty(p, c) ==
  /\ ~Up(c) /\ kernel[c] # "up"
  /\ c \notin listed[p] \/ helper[c] # "up"

ReapQueued(p, r) ==
  /\ Up(p) /\ ConnectorGone(OwnerOf[r])
  /\ SettleQueuedOwnerDeath(r, OwnerOf[r])
  /\ UNCHANGED sysVars

\* Mutant: a seat already under recovery is taken for settled and skipped.
ReapReleaseOnce(p, r) ==
  /\ Up(p) /\ leases[r].identity # NoChild /\ leases[r].phase # "recovery_required"
  /\ ConnectorGone(OwnerOf[r]) /\ ChildGone(OwnerOf[r]) /\ GroupEmpty(p, OwnerOf[r])
  /\ ReleaseExitedRecoverySeat(Fence(r))
  /\ UNCHANGED sysVars

\* Mutant: the process group is not inspected.
ReapReleaseUninspected(p, r) ==
  /\ Up(p) /\ leases[r].identity # NoChild
  /\ ConnectorGone(OwnerOf[r]) /\ ChildGone(OwnerOf[r])
  /\ ReleaseExitedRecoverySeat(Fence(r))
  /\ UNCHANGED sysVars

ReapRelease(p, r) ==
  /\ Up(p) /\ leases[r].identity # NoChild
  /\ ConnectorGone(OwnerOf[r]) /\ ChildGone(OwnerOf[r]) /\ GroupEmpty(p, OwnerOf[r])
  /\ ReleaseExitedRecoverySeat(Fence(r))
  /\ UNCHANGED sysVars

\* Mutant: a connector that still runs is taken for gone.
ReapMarkAnyone(p, r) ==
  /\ Up(p) /\ leases[r].identity # NoChild
  /\ MarkExecutionRecoveryRequired(Fence(r))
  /\ UNCHANGED sysVars

ReapMark(p, r) ==
  /\ Up(p) /\ leases[r].identity # NoChild
  /\ ConnectorGone(OwnerOf[r])
  /\ ~(ChildGone(OwnerOf[r]) /\ GroupEmpty(p, OwnerOf[r]))
  /\ MarkExecutionRecoveryRequired(Fence(r))
  /\ UNCHANGED sysVars

ReaperNext ==
  \E p \in Owners :
    \/ ListProcessIds(p)
    \/ \E r \in Requests : ReapQueued(p, r) \/ ReapRelease(p, r) \/ ReapMark(p, r)

----------------------------------------------------------------------------
(* Processes. *)

\* createAdmissionRuntime: the policy is claimed or compared with the claimed one,
\* and the startup recovery reads the process list.
Launch(c) ==
  /\ proc[c] = "absent"
  /\ proc' = [proc EXCEPT ![c] = "up"]
  /\ kernel' = [kernel EXCEPT ![c] = "up"]
  /\ IF policyState.drainState = "unclaimed" THEN ClaimDurablePolicy ELSE UNCHANGED vars
  /\ listed' = [listed EXCEPT ![c] = Forked]
  /\ UNCHANGED <<helper, work, turn>>

\* A process dies at any point; its parent's death changes a live one's ppid.
Crash(c) ==
  /\ Up(c) /\ c \in MayCrash
  /\ proc' = [proc EXCEPT ![c] = "gone"]
  /\ UNCHANGED <<vars, kernel, helper, listed, work, turn>>

Move(c) ==
  /\ c \in MayMove /\ proc[c] = "up"
  /\ proc' = [proc EXCEPT ![c] = "moved"]
  /\ UNCHANGED <<vars, kernel, helper, listed, work, turn>>

KernelExit(c) ==
  /\ kernel[c] = "up"
  /\ kernel' = [kernel EXCEPT ![c] = "gone"]
  /\ work' = [r \in Requests |->
       IF OwnerOf[r] = c /\ work[r] = "running" THEN "lost" ELSE work[r]]
  /\ UNCHANGED <<vars, proc, helper, listed, turn>>

KernelAnswers(r) ==
  /\ work[r] = "running"
  /\ work' = [work EXCEPT ![r] = "answered"]
  /\ UNCHANGED <<vars, procVars, turn>>

HelperStarts(c) ==
  /\ c \in MayFork /\ kernel[c] = "up" /\ helper[c] = "none"
  /\ helper' = [helper EXCEPT ![c] = "up"]
  /\ UNCHANGED <<vars, proc, kernel, listed, work, turn>>

HelperExits(c) ==
  /\ helper[c] = "up"
  /\ helper' = [helper EXCEPT ![c] = "gone"]
  /\ UNCHANGED <<vars, proc, kernel, listed, work, turn>>

ProcessNext ==
  \/ \E c \in Owners :
       Launch(c) \/ Crash(c) \/ Move(c) \/ KernelExit(c) \/ HelperStarts(c) \/ HelperExits(c)
  \/ \E r \in Requests : KernelAnswers(r)

Time == Tick /\ UNCHANGED sysVars

SysInit ==
  /\ Init
  /\ proc = [c \in Owners |-> "absent"]
  /\ kernel = [c \in Owners |-> "none"]
  /\ helper = [c \in Owners |-> "none"]
  /\ work = [r \in Requests |-> "none"]
  /\ turn = [r \in Requests |-> "idle"]
  /\ listed = [c \in Owners |-> {}]

SysNext == TurnNext \/ ReaperNext \/ ProcessNext \/ Time

SysSpec == SysInit /\ [][SysNext]_allVars

\* What the code's timers and the system's scheduler justify: a live connector
\* keeps polling (queue poll timer) and reaping (reaper timer), time passes, and
\* the processes of a connector that is gone end sooner or later: the kernel
\* reads end-of-file, its helpers finish (external).
Fairness ==
  /\ WF_allVars(Time)
  /\ \A r \in Requests : WF_allVars(Poll(r)) /\ WF_allVars(PollSettled(r))
  /\ \A c \in Owners :
       /\ WF_allVars(ListProcessIds(c))
       /\ WF_allVars(~Up(c) /\ KernelExit(c))
       /\ WF_allVars(~Up(c) /\ HelperExits(c))
       /\ \A r \in Requests : WF_allVars(ReapRelease(c, r)) /\ WF_allVars(ReapQueued(c, r))

FairSpec == SysSpec /\ Fairness

----------------------------------------------------------------------------
(* Properties. *)

\* While a kernel works on a prompt, the turn holds a seat of the account: the
\* connector may have crashed, its settlement may have failed, reapers may run.
SeatCoversWork == \A r \in Requests : work[r] = "running" => r \in Seated

\* The account's kernels never work on more prompts at once than its policy has seats,
\* whatever connectors crash, move, fail to settle or reap (what the store is for).
WorkWithinPolicy ==
  LET atWork == Cardinality({r \in Requests : work[r] = "running"}) IN
  /\ atWork <= MaxActiveTurns
  /\ policyState.drainState = "steady" => atWork <= policyState.maxActiveTurns

\* completed, failed and cancelled are only ever said of a turn whose prompt was
\* never written or was answered; a lost turn ends as recovery_required.
OutcomeIsKnown ==
  \A r \in Requests :
    State(r) \in {"completed", "failed", "cancelled"} => work[r] \in {"none", "answered"}

\* The row the coordinator of an undisturbed connector expects at each step.
RowAt(step) ==
  CASE step = "leased" -> "admitted"
    [] step = "starting" -> "starting"
    [] step \in {"prepared", "checked", "written"} -> "dispatch_intent"
    [] step = "active" -> "active"

\* No other process touches the turn of a connector that is alive under the parent it
\* was observed with: its row is where its own last transaction left it.
LiveTurnUndisturbed ==
  \A r \in Requests :
    /\ proc[OwnerOf[r]] = "up"
    /\ turn[r] \in {"leased", "starting", "prepared", "checked", "written", "active"}
    => State(r) = RowAt(turn[r])

\* Every seat past starting names the kernel that works under it: whatever became of
\* its connector, a reaper can inspect that kernel and give the seat back.
SeatsTraceable ==
  \A r \in Requests :
    leases[r].phase \notin {"none", "admitted", "starting"} => leases[r].identity = OwnerOf[r]

NobodyUp == \A c \in Owners : ~Up(c)

\* A seat whose connector died after its process record was bound is given back,
\* as long as some connector runs a reaper: no restart, no operator.
DeadSeatFreed ==
  \A r \in Requests :
    proc[OwnerOf[r]] = "gone" /\ leases[r].identity # NoChild
      ~> leases[r].phase = "none" \/ NobodyUp

\* A turn does not wait for ever: it is seated, cancelled or timed out, also when
\* every seat is leaked and when its own row was settled by another process.
WaitEnds ==
  \A r \in Requests : turn[r] = "waiting" /\ Running(r) ~> turn[r] # "waiting" \/ ~Running(r)

\* The connectors only ever do to the store what its own specification allows.
UsesStoreAsSpecified == Spec

----------------------------------------------------------------------------
(* What documents and comments say, and the code does not do.             *)

\* domain-model.md:285: a queued request is cancelled for its owner's death only
\* when the exit of the owner is proven; a live owner cancels its own requests.
LiveQueuedKept ==
  [][\A r \in Requests :
       State(r) = "queued" /\ State(r)' = "cancelled" /\ Running(r) => turn'[r] # turn[r]]_allVars

\* domain-model.md:310: an owner that dies before its process identity is durable
\* leaves its request in recovery_required, without a payload.
PreIdentityDeathRecovered ==
  \A r \in Requests :
    proc[OwnerOf[r]] = "gone" /\ State(r) \in {"admitted", "starting"}
      ~> State(r) = "recovery_required" \/ NobodyUp

\* controller.ts:783: a seat is released as recovered only when connector, child
\* and process group are all gone.
GroupGoneAtRelease ==
  [][\A r \in Requests :
       r \in Seated \ Seated' /\ State(r)' = "recovery_required" =>
         ~Running(r) /\ kernel[OwnerOf[r]] # "up" /\ helper[OwnerOf[r]] # "up"]_allVars
============================================================================
