----------------------- MODULE AdmissionSystemProofs -----------------------
(***************************************************************************)
(* Proofs about AdmissionSystem, for every set of requests, connectors and *)
(* faults.  First, the connectors use the store only as its specification  *)
(* allows, so everything proved of the store holds of the running system.  *)
(* Then SysInv, from which the safety of the running turns follows.        *)
(***************************************************************************)
EXTENDS AdmissionSystem, SeatPoolRefinement

USE DEF States, SeatPhases, StartPhases, Terminal

-----------------------------------------------------------------------------
(* The fence and the time a coordinator passes to the store are ones that   *)
(* the store's specification lets a caller pass.                            *)

StoreInv ==
  TypeOK /\ InventoryTrusted /\ LeasedAtMostOnce /\ clock <= MaxTime

LEMMA QueueClock == QueueNext => clock' = clock
BY DEF QueueNext, Enqueue, EnqueueWithPayload, AdmitRequest, AdmitNext, ReadPayload,
       ExpireOnly, PersistPayload, CancelQueued, SettleQueuedOwnerDeath

LEMMA LeaseClock == LeaseNext => clock' = clock
BY DEF LeaseNext, MarkStarting, RecordProcessIdentity, MarkDispatchIntent, MarkActive,
       MarkDispatchAmbiguous, AbandonBeforePrompt, MarkExecutionRecoveryRequired,
       ReleaseExitedRecoverySeat, CompleteLiveTurn, Heartbeat, MarkSuspect

LEMMA PolicyClock == PolicyNext => clock' = clock
BY DEF PolicyNext, SetCapacityCooldown, ClaimDurablePolicy, BeginSoftDrainTo1

LEMMA StoreInvInit == Init => StoreInv
<1>1. Init => InventoryTrusted /\ LeasedAtMostOnce
  BY DEF Init, InventoryTrusted, LeasedAtMostOnce, State, NoLease
<1>2. Init => clock <= MaxTime
  BY BoundsAssumption DEF Init
<1> QED
  BY <1>1, <1>2, TypeInit DEF StoreInv

LEMMA StoreInvStep == StoreInv /\ [Next]_vars => StoreInv'
<1> SUFFICES ASSUME StoreInv, [Next]_vars
             PROVE  clock' <= MaxTime
  BY TypeStep, InventoryStep, LeasedOnceStep DEF StoreInv
<1>1. clock' = clock \/ (clock < MaxTime /\ clock' = clock + 1)
  BY QueueClock, LeaseClock, PolicyClock DEF Next, Tick, vars
<1> QED
  BY <1>1, BoundsAssumption DEF StoreInv, TypeOK

LEMMA ClockIsInstant == StoreInv => clock \in Instants
BY BoundsAssumption DEF StoreInv, TypeOK, Instants

LEMMA HeldFence ==
  ASSUME StoreInv, NEW r \in Requests, HoldsFence(Fence(r))
  PROVE  Fence(r) \in Fences
<1>1. /\ leases[r].phase # "none"
      /\ leases[r].generation = turnRequests[r].generation
  BY DEF HoldsFence, Fence
<1>2. /\ turnRequests[r].generation >= 1 /\ turnRequests[r].generation <= 1
      /\ turnRequests[r].generation \in Nat
  BY <1>1 DEF StoreInv, InventoryTrusted, LeasedAtMostOnce, TypeOK, RequestRow
<1>3. turnRequests[r].generation \in 1..MaxGeneration
  BY <1>2, GenerationAssumption, BoundsAssumption
<1> QED
  BY <1>3, OwnershipAssumption DEF Fence, Fences

-----------------------------------------------------------------------------
(* Every step of the system is a step of the store or leaves it alone.      *)

LEMMA TurnUsesStore ==
  ASSUME StoreInv, TurnNext
  PROVE  [Next]_vars
<1> PICK r \in Requests :
      \/ Submit(r) \/ Poll(r) \/ PollSettled(r) \/ CancelWaiting(r) \/ PollFails(r)
      \/ Start(r) \/ StartFails(r) \/ Prepare(r) \/ PrepareFails(r)
      \/ BeforePromptWrite(r) \/ BeforePromptWriteFails(r)
      \/ WritePrompt(r) \/ WriteThrows(r) \/ AfterPromptWrite(r)
      \/ Complete(r) \/ ConnectionLost(r) \/ SettleUnsent(r) \/ SettleSent(r)
  BY DEF TurnNext
<1>o. OwnerOf[r] \in Owners /\ OwnerOf[r] \in Children
  BY OwnershipAssumption, RecordAssumption
<1>1. CASE Submit(r)
  BY <1>1, <1>o, ClockIsInstant DEF Submit, Next, QueueNext
<1>2. CASE Poll(r)
  BY <1>2, <1>o, ClockIsInstant DEF Poll, Next, QueueNext
<1>3. CASE CancelWaiting(r)
  BY <1>3 DEF CancelWaiting, Next, QueueNext
<1>4. CASE Start(r)
  <2>1. Fence(r) \in Fences
    BY <1>4, HeldFence DEF Start, MarkStarting
  <2> QED
    BY <1>4, <2>1, ClockIsInstant DEF Start, Next, LeaseNext
<1>5. CASE Prepare(r)
  <2>1. Fence(r) \in Fences
    BY <1>5, HeldFence DEF Prepare, RecordProcessIdentity
  <2> QED
    BY <1>5, <1>o, <2>1 DEF Prepare, Next, LeaseNext
<1>6. CASE WriteThrows(r)
  <2>1. MarkDispatchAmbiguous(Fence(r)) => Fence(r) \in Fences
    BY HeldFence DEF MarkDispatchAmbiguous
  <2> QED
    BY <1>6, <2>1 DEF WriteThrows, Next, LeaseNext
<1>7. CASE AfterPromptWrite(r)
  <2>1. MarkActive(Fence(r)) => Fence(r) \in Fences
    BY HeldFence DEF MarkActive
  <2> QED
    BY <1>7, <2>1 DEF AfterPromptWrite, Quietly, Next, LeaseNext
<1>8. CASE Complete(r)
  <2>1. CASE UNCHANGED vars
    BY <2>1
  <2>2. CASE \E end \in Ends : CompleteLiveTurn(Fence(r), end[1], end[2], clock)
    <3>1. PICK end \in Ends : CompleteLiveTurn(Fence(r), end[1], end[2], clock)
      BY <2>2
    <3>2. Fence(r) \in Fences
      BY <3>1, HeldFence DEF CompleteLiveTurn
    <3>3. /\ end[1] \in {"completed", "failed", "cancelled"}
          /\ end[2] \in {"none", "provider_capacity", "transport"}
      BY DEF Ends
    <3> QED
      BY <3>1, <3>2, <3>3, ClockIsInstant DEF Next, LeaseNext
  <2> QED
    BY <1>8, <2>1, <2>2 DEF Complete
<1>9. CASE SettleUnsent(r)
  <2>1. \A outcome : AbandonBeforePrompt(Fence(r), outcome) => Fence(r) \in Fences
    BY HeldFence DEF AbandonBeforePrompt
  <2> QED
    BY <1>9, <2>1 DEF SettleUnsent, Next, LeaseNext
<1>10. CASE SettleSent(r)
  <2>1. MarkExecutionRecoveryRequired(Fence(r)) => Fence(r) \in Fences
    BY HeldFence DEF MarkExecutionRecoveryRequired
  <2> QED
    BY <1>10, <2>1 DEF SettleSent, Next, LeaseNext
<1>11. CASE PollSettled(r) \/ PollFails(r) \/ StartFails(r) \/ PrepareFails(r)
              \/ BeforePromptWrite(r) \/ BeforePromptWriteFails(r)
              \/ WritePrompt(r) \/ ConnectionLost(r)
  BY <1>11 DEF PollSettled, PollFails, StartFails, PrepareFails, BeforePromptWrite,
               BeforePromptWriteFails, WritePrompt, ConnectionLost, Quietly
<1> QED
  BY <1>1, <1>2, <1>3, <1>4, <1>5, <1>6, <1>7, <1>8, <1>9, <1>10, <1>11

LEMMA ReaperUsesStore ==
  ASSUME StoreInv, ReaperNext
  PROVE  [Next]_vars
<1>1. CASE \E p \in Owners : ListProcessIds(p)
  BY <1>1 DEF ListProcessIds
<1>2. ASSUME NEW p \in Owners, NEW r \in Requests, ReapQueued(p, r)
      PROVE  Next
  BY <1>2, OwnershipAssumption DEF ReapQueued, Next, QueueNext
<1>3. ASSUME NEW p \in Owners, NEW r \in Requests, ReapRelease(p, r)
      PROVE  Next
  <2>1. Fence(r) \in Fences
    BY <1>3, HeldFence DEF ReapRelease, ReleaseExitedRecoverySeat
  <2> QED
    BY <1>3, <2>1 DEF ReapRelease, Next, LeaseNext
<1>4. ASSUME NEW p \in Owners, NEW r \in Requests, ReapMark(p, r)
      PROVE  Next
  <2>1. Fence(r) \in Fences
    BY <1>4, HeldFence DEF ReapMark, MarkExecutionRecoveryRequired
  <2> QED
    BY <1>4, <2>1 DEF ReapMark, Next, LeaseNext
<1> QED
  BY <1>1, <1>2, <1>3, <1>4 DEF ReaperNext

LEMMA ProcessesUseStore ==
  ASSUME ProcessNext \/ Time
  PROVE  [Next]_vars
<1>1. CASE Time
  BY <1>1 DEF Time, Next
<1>2. CASE ProcessNext
  BY <1>2 DEF ProcessNext, Launch, Crash, Move, KernelExit, HelperStarts, HelperExits,
              KernelAnswers, Next, PolicyNext
<1> QED
  BY <1>1, <1>2

LEMMA StepUsesStore ==
  StoreInv /\ [SysNext]_allVars => [Next]_vars
BY TurnUsesStore, ReaperUsesStore, ProcessesUseStore DEF SysNext, allVars

\* Coordinators, reapers and startup recoveries of any number of connectors, with
\* any crash between any two of their transactions, do to the store only what its
\* specification allows: its theorems are theorems of the running system.
THEOREM SystemUsesStore == SysSpec => UsesStoreAsSpecified
<1>1. SysInit => Init
  BY DEF SysInit
<1> QED
  BY <1>1, StoreInvInit, StoreInvStep, StepUsesStore, PTL
     DEF SysSpec, UsesStoreAsSpecified, Spec

-----------------------------------------------------------------------------
(* Types of the whole system. *)

LEMMA SysTypeInit == SysInit => SysTypeOK
BY TypeInit DEF SysInit, SysTypeOK, Steps

LEMMA GotoType ==
  ASSUME SysTypeOK, NEW r \in Requests, NEW from \in Steps, NEW to \in Steps, Goto(r, from, to)
  PROVE  turn' \in [Requests -> Steps]
BY DEF SysTypeOK, Goto

TurnAction(r) ==
  \/ Submit(r) \/ Poll(r) \/ PollSettled(r) \/ CancelWaiting(r) \/ PollFails(r)
  \/ Start(r) \/ StartFails(r) \/ Prepare(r) \/ PrepareFails(r)
  \/ BeforePromptWrite(r) \/ BeforePromptWriteFails(r)
  \/ WritePrompt(r) \/ WriteThrows(r) \/ AfterPromptWrite(r)
  \/ Complete(r) \/ ConnectionLost(r) \/ SettleUnsent(r) \/ SettleSent(r)

LEMMA TurnType ==
  ASSUME SysTypeOK, NEW r \in Requests, TurnAction(r)
  PROVE  turn' \in [Requests -> Steps]
<1>1. CASE Poll(r)
  BY <1>1 DEF Poll, SysTypeOK, Steps
<1>2. CASE \E from, to \in Steps : Goto(r, from, to)
  BY <1>2, GotoType
<1>3. CASE \/ Submit(r) \/ PollSettled(r) \/ CancelWaiting(r) \/ PollFails(r)
           \/ Start(r) \/ StartFails(r) \/ Prepare(r) \/ PrepareFails(r)
  BY <1>2, <1>3 DEF Submit, PollSettled, CancelWaiting, PollFails, Start, StartFails,
                    Prepare, PrepareFails, Quietly, Steps
<1>4. CASE \/ BeforePromptWrite(r) \/ BeforePromptWriteFails(r)
           \/ WritePrompt(r) \/ WriteThrows(r) \/ AfterPromptWrite(r)
           \/ Complete(r) \/ ConnectionLost(r) \/ SettleUnsent(r) \/ SettleSent(r)
  BY <1>2, <1>4 DEF BeforePromptWrite, BeforePromptWriteFails, WritePrompt, WriteThrows,
                    AfterPromptWrite, Complete, ConnectionLost, SettleUnsent, SettleSent,
                    Quietly, Steps
<1> QED
  BY <1>1, <1>3, <1>4 DEF TurnAction

\* A coordinator's step touches no process and no other turn.
LEMMA TurnFrame ==
  ASSUME SysTypeOK, NEW q \in Requests, TurnAction(q)
  PROVE  /\ UNCHANGED procVars
         /\ work' \in [Requests -> {"none", "running", "answered", "lost"}]
         /\ \A r \in Requests \ {q} : turn'[r] = turn[r] /\ work'[r] = work[r]
<1> USE DEF SysTypeOK
<1>1. CASE Poll(q)
  BY <1>1 DEF Poll
<1>2. CASE WritePrompt(q)
  BY <1>2 DEF WritePrompt, Goto
<1>3. CASE \/ Submit(q) \/ PollSettled(q) \/ CancelWaiting(q) \/ PollFails(q)
           \/ Start(q) \/ StartFails(q) \/ Prepare(q) \/ PrepareFails(q)
           \/ BeforePromptWrite(q) \/ BeforePromptWriteFails(q)
  BY <1>3 DEF Submit, PollSettled, CancelWaiting, PollFails, Start, StartFails,
              Prepare, PrepareFails, BeforePromptWrite, BeforePromptWriteFails, Quietly, Goto
<1>4. CASE \/ WriteThrows(q) \/ AfterPromptWrite(q)
           \/ Complete(q) \/ ConnectionLost(q) \/ SettleUnsent(q) \/ SettleSent(q)
  BY <1>4 DEF WriteThrows, AfterPromptWrite, Complete, ConnectionLost, SettleUnsent,
              SettleSent, Quietly, Goto
<1> QED
  BY <1>1, <1>2, <1>3, <1>4 DEF TurnAction

LEMMA SysTypeStep == StoreInv /\ SysTypeOK /\ [SysNext]_allVars => SysTypeOK'
<1> SUFFICES ASSUME StoreInv, SysTypeOK, [SysNext]_allVars PROVE SysTypeOK'
  OBVIOUS
<1>0. TypeOK'
  BY StoreInvStep, StepUsesStore DEF StoreInv
<1>1. CASE TurnNext
  BY <1>0, <1>1, TurnType, TurnFrame DEF TurnNext, TurnAction, SysTypeOK, procVars
<1>2. CASE ReaperNext
  BY <1>0, <1>2 DEF ReaperNext, ListProcessIds, ReapQueued, ReapRelease, ReapMark,
                    Forked, SysTypeOK, sysVars, procVars
<1>3. CASE ProcessNext
  <2>1. /\ proc' \in [Owners -> {"absent", "up", "moved", "gone"}]
        /\ kernel' \in [Owners -> {"none", "up", "gone"}]
        /\ helper' \in [Owners -> {"none", "up", "gone"}]
    BY <1>3 DEF ProcessNext, Launch, Crash, Move, KernelExit, HelperStarts, HelperExits,
                KernelAnswers, SysTypeOK, procVars
  <2>2. /\ work' \in [Requests -> {"none", "running", "answered", "lost"}]
        /\ turn' \in [Requests -> Steps]
    BY <1>3 DEF ProcessNext, Launch, Crash, Move, KernelExit, HelperStarts, HelperExits,
                KernelAnswers, SysTypeOK, procVars
  <2>3. listed' \in [Owners -> SUBSET Owners]
    BY <1>3 DEF ProcessNext, Launch, Crash, Move, KernelExit, HelperStarts, HelperExits,
                KernelAnswers, SysTypeOK, procVars, Forked
  <2> QED
    BY <1>0, <2>1, <2>2, <2>3 DEF SysTypeOK
<1>4. CASE Time \/ UNCHANGED allVars
  BY <1>0, <1>4 DEF Time, allVars, sysVars, procVars, SysTypeOK
<1> QED
  BY <1>1, <1>2, <1>3, <1>4 DEF SysNext

-----------------------------------------------------------------------------
(* What a store call made for one request does to another one: nothing, or  *)
(* the queue timeout that any admission attempt applies.                    *)

Undisturbed(r) ==
  /\ leases'[r].phase = leases[r].phase
  /\ \/ State(r)' = State(r)
     \/ State(r) = "queued" /\ State(r)' = "queue_timeout"

LEMMA SameRowUndisturbed ==
  ASSUME NEW r, SameRow(r)
  PROVE  Undisturbed(r)
BY DEF SameRow, Undisturbed, State

LEMMA AdmitOthers ==
  ASSUME StoreInv, NEW q \in Requests, AdmitRequest(q, OwnerOf[q], clock),
         NEW r \in Requests \ {q}
  PROVE  Undisturbed(r)
<1>0. TypeOK /\ clock \in Nat /\ OwnerOf[q] \in Owners
  BY OwnershipAssumption DEF StoreInv, TypeOK
<1>1. leases'[r] = leases[r] /\ turnRequests'[r] = ExpireQueued(clock)[r]
  <2>1. CASE Reserve(q, OwnerOf[q], clock)
    BY <1>0, <2>1, ReserveRows
  <2>2. CASE ExpireOnly(clock)
    BY <2>2 DEF ExpireOnly
  <2> QED
    BY <2>1, <2>2 DEF AdmitRequest
<1>2. \/ ExpireQueued(clock)[r] = turnRequests[r]
      \/ /\ State(r) = "queued"
         /\ ExpireQueued(clock)[r] = [turnRequests[r] EXCEPT !.state = "queue_timeout"]
  BY <1>0, ExpireRows
<1>3. turnRequests[r] \in RequestRow
  BY <1>0 DEF TypeOK
<1> QED
  BY <1>1, <1>2, <1>3 DEF Undisturbed, State, RequestRow

LEMMA SetPhaseOthers ==
  ASSUME StoreInv, NEW q \in Requests, HoldsFence(Fence(q)),
         NEW phase \in SeatPhases, SetPhase(Fence(q), phase)
  PROVE  /\ State(q)' = phase /\ leases'[q].phase = phase
         /\ \A r \in Requests \ {q} : Undisturbed(r)
<1>1. Fence(q) \in Fences /\ Fence(q).request = q /\ TypeOK
  BY HeldFence DEF Fence, StoreInv
<1>2. /\ \A r \in Requests \ {q} : SameRow(r)
      /\ turnRequests'[q] = [turnRequests[q] EXCEPT !.state = phase]
      /\ leases'[q] = [leases[q] EXCEPT !.phase = phase]
  BY <1>1, SetPhaseRows
<1>3. turnRequests[q] \in RequestRow /\ leases[q] \in LeaseRow
  BY <1>1 DEF TypeOK
<1>4. State(q)' = phase /\ leases'[q].phase = phase
  BY <1>2, <1>3 DEF State, RequestRow, LeaseRow
<1> QED
  BY <1>2, <1>4, SameRowUndisturbed

LEMMA ReleaseOthers ==
  ASSUME StoreInv, NEW q \in Requests, NEW state \in Terminal, Release(q, state)
  PROVE  /\ State(q)' = state /\ leases'[q].phase = "none"
         /\ \A r \in Requests \ {q} : Undisturbed(r)
<1>1. /\ \A r \in Requests \ {q} : SameRow(r)
      /\ turnRequests'[q] = [turnRequests[q] EXCEPT !.state = state]
      /\ leases'[q] = NoLease
  BY ReleaseRows DEF StoreInv
<1>2. turnRequests[q] \in RequestRow
  BY DEF StoreInv, TypeOK
<1> QED
  BY <1>1, <1>2, SameRowUndisturbed DEF State, RequestRow, NoLease

\* enqueueWithPayload, cancelQueued, settleQueuedOwnerDeath.
LEMMA QueueRowOthers ==
  ASSUME StoreInv, NEW q \in Requests,
         \/ EnqueueWithPayload(q, OwnerOf[q], clock)
         \/ CancelQueued(q)
         \/ SettleQueuedOwnerDeath(q, OwnerOf[q])
  PROVE  /\ leases' = leases
         /\ State(q)' = IF State(q) = "absent" THEN "queued" ELSE "cancelled"
         /\ State(q) \in {"absent", "queued"}
         /\ \A r \in Requests \ {q} : Undisturbed(r)
<1>1. turnRequests \in [Requests -> RequestRow]
  BY DEF StoreInv, TypeOK
<1>2. CASE EnqueueWithPayload(q, OwnerOf[q], clock)
  BY <1>1, <1>2 DEF EnqueueWithPayload, Undisturbed, State
<1>3. CASE CancelQueued(q) \/ SettleQueuedOwnerDeath(q, OwnerOf[q])
  BY <1>1, <1>3 DEF CancelQueued, SettleQueuedOwnerDeath, Undisturbed, State, RequestRow
<1> QED
  BY <1>2, <1>3

LEMMA IdentityOthers ==
  ASSUME StoreInv, NEW q \in Requests, RecordProcessIdentity(Fence(q), OwnerOf[q])
  PROVE  /\ State(q)' = "dispatch_intent" /\ leases'[q].phase = "dispatch_intent"
         /\ \A r \in Requests \ {q} : Undisturbed(r)
<1>1. /\ Fence(q) \in Fences /\ Fence(q).request = q /\ TypeOK
      /\ OwnerOf[q] \in Children
  BY HeldFence, OwnershipAssumption, RecordAssumption
     DEF RecordProcessIdentity, Fence, StoreInv
<1>2. /\ \A r \in Requests \ {q} : SameRow(r)
      /\ turnRequests'[q] = [turnRequests[q] EXCEPT !.state = "dispatch_intent"]
      /\ leases'[q] = [leases[q] EXCEPT !.phase = "dispatch_intent", !.identity = OwnerOf[q]]
  <2> DEFINE f == Fence(q)
  <2>1. /\ \A r \in Requests \ {f.request} : SameRow(r)
        /\ turnRequests'[f.request] =
             [turnRequests[f.request] EXCEPT !.state = "dispatch_intent"]
        /\ leases'[f.request] =
             [leases[f.request] EXCEPT !.phase = "dispatch_intent", !.identity = OwnerOf[q]]
    BY ONLY <1>1, IdentityRows, RecordProcessIdentity(f, OwnerOf[q])
  <2> QED
    BY <1>1, <2>1
<1>3. turnRequests[q] \in RequestRow /\ leases[q] \in LeaseRow
  BY <1>1 DEF TypeOK
<1>4. State(q)' = "dispatch_intent" /\ leases'[q].phase = "dispatch_intent"
  BY <1>2, <1>3 DEF State, RequestRow, LeaseRow
<1> QED
  BY <1>2, <1>4, SameRowUndisturbed

-----------------------------------------------------------------------------
(* The inductive invariant of one turn.  SeatCoversWork alone is not        *)
(* inductive: that a prompt is only written by a turn that still has its    *)
(* seat follows from what the turn did before, while its connector lived.   *)

Unwritten == {"idle", "waiting", "leased", "starting", "prepared", "checked", "unsent"}
Holding == {"leased", "starting", "prepared", "checked"}
Tracked == {"leased", "starting", "prepared", "checked", "written", "active"}

TurnInv(r) ==
  /\ proc[OwnerOf[r]] = "absent" => turn[r] = "idle"
  /\ turn[r] \in Unwritten => work[r] = "none"
  /\ turn[r] \in Holding /\ Up(OwnerOf[r]) => leases[r].phase # "none"
  /\ work[r] = "running" => kernel[OwnerOf[r]] = "up" /\ leases[r].phase # "none"
  /\ work[r] = "lost" => State(r) \notin {"completed", "failed", "cancelled"}
  /\ State(r) \in {"absent", "queued"} => work[r] = "none"
  /\ proc[OwnerOf[r]] = "up" /\ turn[r] \in Tracked => State(r) = RowAt(turn[r])

SysInv == SysTypeOK /\ StoreInv /\ \A r \in Requests : TurnInv(r)

LEMMA RowAtValues ==
  /\ RowAt("leased") = "admitted" /\ RowAt("starting") = "starting"
  /\ RowAt("prepared") = "dispatch_intent" /\ RowAt("checked") = "dispatch_intent"
  /\ RowAt("written") = "dispatch_intent" /\ RowAt("active") = "active"
BY DEF RowAt

LEMMA RowAtSeated == \A step \in Tracked : RowAt(step) \in SeatPhases
BY RowAtValues DEF Tracked

\* The inventory check, for one row.
LEMMA SeatedState ==
  ASSUME StoreInv, NEW r \in Requests
  PROVE  /\ leases[r].phase # "none" => State(r) \in SeatPhases
         /\ State(r) \in SeatPhases \ {"recovery_required"} => leases[r].phase # "none"
BY DEF StoreInv, InventoryTrusted, TypeOK, LeaseRow

LEMMA SysInvInit == SysInit => SysInv
<1> SUFFICES ASSUME SysInit PROVE SysInv
  OBVIOUS
<1>1. \A r \in Requests : TurnInv(r)
  BY OwnershipAssumption DEF SysInit, TurnInv, Up, Tracked, Holding
<1> QED
  BY <1>1, SysTypeInit, StoreInvInit DEF SysInv, SysInit

\* Another request's store call leaves a turn as it was.
LEMMA UndisturbedTurn ==
  ASSUME SysInv, NEW r \in Requests, Undisturbed(r),
         proc' = proc, kernel' = kernel, work'[r] = work[r], turn'[r] = turn[r]
  PROVE  TurnInv(r)'
<1>1. TurnInv(r) /\ (leases[r].phase # "none" => State(r) \in SeatPhases)
  BY SeatedState DEF SysInv
<1>2. proc[OwnerOf[r]] = "up" /\ turn[r] \in Tracked => State(r) # "queued"
  BY <1>1, RowAtSeated DEF TurnInv
<1>3. /\ State(r) = "queued" => work[r] = "none"
      /\ State(r)' \in {"absent", "queued", "completed", "failed", "cancelled"} =>
           State(r)' = State(r)
  BY <1>1 DEF TurnInv, Undisturbed
<1>4. proc'[OwnerOf[r]] = "up" /\ turn'[r] \in Tracked => State(r)' = RowAt(turn'[r])
  BY <1>1, <1>2 DEF TurnInv, Undisturbed
<1>5. leases'[r].phase = leases[r].phase
  BY DEF Undisturbed
<1> QED
  BY <1>1, <1>3, <1>4, <1>5 DEF TurnInv, Up, Undisturbed

\* A coordinator step that commits nothing.
LEMMA QuietTurn ==
  ASSUME SysInv, NEW r \in Requests, NEW from \in Steps, NEW to \in Steps,
         Quietly(r, from, to),
         to \in Unwritten => from \in Unwritten,
         to \in Holding => from \in Holding,
         to \in Tracked => from \in Tracked /\ RowAt(to) = RowAt(from)
  PROVE  TurnInv(r)' /\ \A q \in Requests \ {r} : Undisturbed(q)
<1>1. /\ turn[r] = from /\ turn'[r] = to /\ Running(r)
      /\ proc' = proc /\ kernel' = kernel /\ work' = work
      /\ turnRequests' = turnRequests /\ leases' = leases
  BY DEF Quietly, Goto, SysInv, SysTypeOK, procVars, vars, store
<1>2. TurnInv(r)
  BY DEF SysInv
<1>3. TurnInv(r)'
  BY <1>1, <1>2 DEF TurnInv, Up, Running, State
<1>4. \A q \in Requests \ {r} : Undisturbed(q)
  BY <1>1 DEF Undisturbed, State
<1> QED
  BY <1>3, <1>4

\* A turn whose coordinator has nothing left to do but settle it.
LEMMA LeavingTurn ==
  ASSUME SysInv, NEW r \in Requests, Running(r),
         proc' = proc, kernel' = kernel, work'[r] = work[r],
         turn'[r] \in {"ended", "sent"},
         State(r)' \in {"absent", "queued"} => work[r] = "none",
         State(r)' \in {"completed", "failed", "cancelled"} => work[r] # "lost",
         work[r] = "running" => leases'[r].phase # "none"
  PROVE  TurnInv(r)'
<1>1. TurnInv(r)
  BY DEF SysInv
<1> QED
  BY <1>1 DEF TurnInv, Up, Running, Unwritten, Holding, Tracked

LEMMA SubmitTurn ==
  ASSUME SysInv, NEW r \in Requests, Submit(r)
  PROVE  TurnInv(r)' /\ \A q \in Requests \ {r} : Undisturbed(q)
<1>1. /\ turn[r] = "idle" /\ turn'[r] = "waiting" /\ Running(r)
      /\ proc' = proc /\ kernel' = kernel /\ work' = work
  BY DEF Submit, Goto, SysInv, SysTypeOK, procVars
<1>2. State(r) = "absent" /\ EnqueueWithPayload(r, OwnerOf[r], clock) /\ StoreInv
  BY DEF Submit, EnqueueWithPayload, SysInv
<1>3. leases' = leases /\ State(r)' = "queued" /\ \A q \in Requests \ {r} : Undisturbed(q)
  BY <1>2, QueueRowOthers
<1>4. TurnInv(r)
  BY DEF SysInv
<1>5. TurnInv(r)'
  BY <1>1, <1>3, <1>4 DEF TurnInv, Up, Running, Unwritten, Holding, Tracked
<1> QED
  BY <1>3, <1>5

LEMMA PollTurn ==
  ASSUME SysInv, StoreInv', NEW r \in Requests, Poll(r)
  PROVE  TurnInv(r)' /\ \A q \in Requests \ {r} : Undisturbed(q)
<1>1. /\ turn[r] = "waiting" /\ Running(r) /\ AdmitRequest(r, OwnerOf[r], clock)
      /\ proc' = proc /\ kernel' = kernel /\ work' = work
      /\ StoreInv /\ SysTypeOK /\ TurnInv(r)
  BY DEF Poll, SysInv, procVars
<1>2. turn'[r] = CASE State(r)' = "admitted" -> "leased"
                   [] State(r)' = "queued" -> "waiting"
                   [] OTHER -> "ended"
  BY <1>1 DEF Poll, SysTypeOK
<1>3. \A q \in Requests \ {r} : Undisturbed(q)
  BY <1>1, AdmitOthers
<1>4. work[r] = "none"
  BY <1>1 DEF TurnInv, Unwritten
<1>5. CASE State(r)' = "admitted"
  <2>1. turn'[r] = "leased" /\ leases'[r].phase # "none"
    BY <1>2, <1>5 DEF StoreInv, InventoryTrusted, State
  <2> QED
    BY <1>1, <1>3, <1>4, <1>5, <2>1, RowAtValues DEF TurnInv, Up, Running
<1>6. CASE State(r)' # "admitted"
  <2>1. turn'[r] \in {"waiting", "ended"}
    BY <1>2, <1>6
  <2>2. TurnInv(r)'
    BY <1>1, <1>4, <2>1 DEF TurnInv, Up, Running, Holding, Tracked
  <2> QED
    BY <1>3, <2>2
<1> QED
  BY <1>5, <1>6

LEMMA CancelWaitingTurn ==
  ASSUME SysInv, NEW r \in Requests, CancelWaiting(r)
  PROVE  TurnInv(r)' /\ \A q \in Requests \ {r} : Undisturbed(q)
<1>1. /\ turn[r] = "waiting" /\ turn'[r] = "ended" /\ Running(r)
      /\ proc' = proc /\ kernel' = kernel /\ work' = work
      /\ StoreInv /\ TurnInv(r)
  BY DEF CancelWaiting, Goto, SysInv, SysTypeOK, procVars
<1>2. work[r] = "none"
  BY <1>1 DEF TurnInv, Unwritten
<1>3. \A q \in Requests \ {r} : Undisturbed(q)
  <2>1. CASE CancelQueued(r)
    BY <1>1, <2>1, QueueRowOthers
  <2>2. CASE UNCHANGED vars
    BY <2>2 DEF vars, store, Undisturbed, State
  <2> QED
    BY <2>1, <2>2 DEF CancelWaiting
<1>4. TurnInv(r)'
  BY <1>1, <1>2, LeavingTurn
<1> QED
  BY <1>3, <1>4

LEMMA StartTurn ==
  ASSUME SysInv, NEW r \in Requests, Start(r)
  PROVE  TurnInv(r)' /\ \A q \in Requests \ {r} : Undisturbed(q)
<1>1. /\ turn[r] = "leased" /\ turn'[r] = "starting" /\ Running(r)
      /\ proc' = proc /\ kernel' = kernel /\ work' = work
      /\ StoreInv /\ TurnInv(r)
  BY DEF Start, Goto, SysInv, SysTypeOK, procVars
<1>2. HoldsFence(Fence(r)) /\ SetPhase(Fence(r), "starting")
  BY DEF Start, MarkStarting
<1>3. /\ State(r)' = "starting" /\ leases'[r].phase = "starting"
      /\ \A q \in Requests \ {r} : Undisturbed(q)
  BY <1>1, <1>2, SetPhaseOthers
<1>4. TurnInv(r)'
  BY <1>1, <1>3, RowAtValues DEF TurnInv, Up, Running, Unwritten
<1> QED
  BY <1>3, <1>4

LEMMA PrepareTurn ==
  ASSUME SysInv, NEW r \in Requests, Prepare(r)
  PROVE  TurnInv(r)' /\ \A q \in Requests \ {r} : Undisturbed(q)
<1>1. /\ turn[r] = "starting" /\ turn'[r] = "prepared" /\ Running(r)
      /\ proc' = proc /\ kernel' = kernel /\ work' = work
      /\ StoreInv /\ TurnInv(r) /\ RecordProcessIdentity(Fence(r), OwnerOf[r])
  BY DEF Prepare, Goto, SysInv, SysTypeOK, procVars
<1>2. /\ State(r)' = "dispatch_intent" /\ leases'[r].phase = "dispatch_intent"
      /\ \A q \in Requests \ {r} : Undisturbed(q)
  BY <1>1, IdentityOthers
<1>3. TurnInv(r)'
  BY <1>1, <1>2, RowAtValues DEF TurnInv, Up, Running, Unwritten
<1> QED
  BY <1>2, <1>3

\* The write that starts the kernel's work is made by a turn with a seat.
LEMMA WritePromptTurn ==
  ASSUME SysInv, NEW r \in Requests, WritePrompt(r)
  PROVE  TurnInv(r)' /\ \A q \in Requests \ {r} : Undisturbed(q)
<1>1. /\ turn[r] = "checked" /\ turn'[r] = "written" /\ Running(r)
      /\ work'[r] = IF kernel[OwnerOf[r]] = "up" THEN "running" ELSE "lost"
      /\ proc' = proc /\ kernel' = kernel
      /\ turnRequests' = turnRequests /\ leases' = leases
      /\ StoreInv /\ TurnInv(r)
  BY DEF WritePrompt, Goto, SysInv, SysTypeOK, procVars, vars, store
<1>2. leases[r].phase # "none" /\ State(r) \in SeatPhases
  BY <1>1, SeatedState DEF TurnInv, Holding, Running
<1>3. TurnInv(r)'
  BY <1>1, <1>2, RowAtValues DEF TurnInv, Up, Running, Unwritten, Holding, Tracked, State
<1>4. \A q \in Requests \ {r} : Undisturbed(q)
  BY <1>1 DEF Undisturbed, State
<1> QED
  BY <1>3, <1>4

LEMMA WriteThrowsTurn ==
  ASSUME SysInv, NEW r \in Requests, WriteThrows(r)
  PROVE  TurnInv(r)' /\ \A q \in Requests \ {r} : Undisturbed(q)
<1>1. /\ turn[r] = "checked" /\ turn'[r] = "sent" /\ Running(r)
      /\ proc' = proc /\ kernel' = kernel /\ work' = work
      /\ StoreInv /\ TurnInv(r)
  BY DEF WriteThrows, Goto, SysInv, SysTypeOK, procVars
<1>2. work[r] = "none"
  BY <1>1 DEF TurnInv, Unwritten
<1>3. \A q \in Requests \ {r} : Undisturbed(q)
  <2>1. CASE MarkDispatchAmbiguous(Fence(r))
    BY <1>1, <2>1, SetPhaseOthers DEF MarkDispatchAmbiguous
  <2>2. CASE UNCHANGED vars
    BY <2>2 DEF vars, store, Undisturbed, State
  <2> QED
    BY <2>1, <2>2 DEF WriteThrows
<1>4. TurnInv(r)'
  BY <1>1, <1>2, LeavingTurn
<1> QED
  BY <1>3, <1>4

LEMMA AfterPromptWriteTurn ==
  ASSUME SysInv, NEW r \in Requests, AfterPromptWrite(r)
  PROVE  TurnInv(r)' /\ \A q \in Requests \ {r} : Undisturbed(q)
<1>1. CASE Quietly(r, "written", "sent")
  BY <1>1, QuietTurn DEF Steps, Unwritten, Holding, Tracked
<1>2. CASE /\ Goto(r, "written", "active") /\ MarkActive(Fence(r))
           /\ UNCHANGED <<procVars, work>>
  <2>1. /\ turn'[r] = "active" /\ Running(r)
        /\ proc' = proc /\ kernel' = kernel /\ work' = work
        /\ StoreInv /\ TurnInv(r)
    BY <1>2 DEF Goto, SysInv, SysTypeOK, procVars
  <2>2. /\ State(r)' = "active" /\ leases'[r].phase = "active"
        /\ \A q \in Requests \ {r} : Undisturbed(q)
    BY <1>2, <2>1, SetPhaseOthers DEF MarkActive
  <2>3. TurnInv(r)'
    BY <2>1, <2>2, RowAtValues DEF TurnInv, Up, Running, Unwritten, Holding
  <2> QED
    BY <2>2, <2>3
<1> QED
  BY <1>1, <1>2 DEF AfterPromptWrite

\* A turn is completed by the kernel's answer, so its work is not lost.
LEMMA CompleteTurn ==
  ASSUME SysInv, NEW r \in Requests, Complete(r)
  PROVE  TurnInv(r)' /\ \A q \in Requests \ {r} : Undisturbed(q)
<1>1. /\ work[r] = "answered" /\ turn'[r] \in {"ended", "sent"} /\ Running(r)
      /\ proc' = proc /\ kernel' = kernel /\ work' = work
      /\ StoreInv /\ TurnInv(r)
  BY DEF Complete, Goto, SysInv, SysTypeOK, procVars
<1>2. /\ State(r)' \notin {"absent", "queued"}
      /\ \A q \in Requests \ {r} : Undisturbed(q)
  <2>1. CASE UNCHANGED vars
    <3>1. State(r) \notin {"absent", "queued"}
      BY <1>1 DEF TurnInv
    <3> QED
      BY <2>1, <3>1 DEF vars, store, Undisturbed, State
  <2>2. ASSUME NEW end \in Ends, CompleteLiveTurn(Fence(r), end[1], end[2], clock)
        PROVE  /\ State(r)' \notin {"absent", "queued"}
               /\ \A q \in Requests \ {r} : Undisturbed(q)
    <3>1. end[1] \in Terminal /\ Release(r, end[1])
      BY <2>2 DEF Ends, CompleteLiveTurn, Fence
    <3> QED
      BY <1>1, <3>1, ReleaseOthers
  <2> QED
    BY <2>1, <2>2 DEF Complete
<1>3. TurnInv(r)'
  BY <1>1, <1>2, LeavingTurn
<1> QED
  BY <1>2, <1>3

LEMMA SettleUnsentTurn ==
  ASSUME SysInv, NEW r \in Requests, SettleUnsent(r)
  PROVE  TurnInv(r)' /\ \A q \in Requests \ {r} : Undisturbed(q)
<1>1. /\ turn[r] = "unsent" /\ turn'[r] = "ended" /\ Running(r)
      /\ proc' = proc /\ kernel' = kernel /\ work' = work
      /\ StoreInv /\ TurnInv(r)
  BY DEF SettleUnsent, Goto, SysInv, SysTypeOK, procVars
<1>2. work[r] = "none"
  BY <1>1 DEF TurnInv, Unwritten
<1>3. \A q \in Requests \ {r} : Undisturbed(q)
  <2>1. ASSUME NEW outcome \in {"failed", "cancelled"}, AbandonBeforePrompt(Fence(r), outcome)
        PROVE  \A q \in Requests \ {r} : Undisturbed(q)
    <3>1. outcome \in Terminal /\ Release(r, outcome)
      BY <2>1 DEF AbandonBeforePrompt, Fence
    <3> QED
      BY <1>1, <3>1, ReleaseOthers
  <2>2. CASE UNCHANGED vars
    BY <2>2 DEF vars, store, Undisturbed, State
  <2> QED
    BY <2>1, <2>2 DEF SettleUnsent
<1>4. TurnInv(r)'
  BY <1>1, <1>2, LeavingTurn
<1> QED
  BY <1>3, <1>4

\* A turn that may have been sent keeps its seat: recovery debt, never a release.
LEMMA SettleSentTurn ==
  ASSUME SysInv, NEW r \in Requests, SettleSent(r)
  PROVE  TurnInv(r)' /\ \A q \in Requests \ {r} : Undisturbed(q)
<1>1. /\ turn[r] = "sent" /\ turn'[r] = "ended" /\ Running(r)
      /\ proc' = proc /\ kernel' = kernel /\ work' = work
      /\ StoreInv /\ TurnInv(r)
  BY DEF SettleSent, Goto, SysInv, SysTypeOK, procVars
<1>2. CASE MarkExecutionRecoveryRequired(Fence(r))
  <2>1. /\ State(r)' = "recovery_required" /\ leases'[r].phase = "recovery_required"
        /\ \A q \in Requests \ {r} : Undisturbed(q)
    BY <1>1, <1>2, SetPhaseOthers DEF MarkExecutionRecoveryRequired
  <2>2. TurnInv(r)'
    BY <1>1, <2>1, LeavingTurn
  <2> QED
    BY <2>1, <2>2
<1>3. CASE UNCHANGED vars
  <2>1. turnRequests' = turnRequests /\ leases' = leases
    BY <1>3 DEF vars, store
  <2>2. TurnInv(r)'
    BY <1>1, <2>1 DEF TurnInv, Up, Running, Unwritten, Holding, Tracked, State
  <2> QED
    BY <2>1, <2>2 DEF Undisturbed, State
<1> QED
  BY <1>2, <1>3 DEF SettleSent

LEMMA TurnStep ==
  ASSUME SysInv, StoreInv', NEW r \in Requests, TurnAction(r)
  PROVE  TurnInv(r)' /\ \A q \in Requests \ {r} : Undisturbed(q)
<1> USE DEF Steps, Unwritten, Holding, Tracked
<1>1. CASE PollSettled(r)
  BY <1>1, QuietTurn DEF PollSettled
<1>2. CASE PollFails(r)
  BY <1>2, QuietTurn DEF PollFails
<1>3. CASE StartFails(r)
  BY <1>3, QuietTurn DEF StartFails
<1>4. CASE PrepareFails(r)
  BY <1>4, QuietTurn DEF PrepareFails
<1>5. CASE BeforePromptWrite(r)
  BY <1>5, QuietTurn, RowAtValues DEF BeforePromptWrite
<1>6. CASE BeforePromptWriteFails(r)
  BY <1>6, QuietTurn DEF BeforePromptWriteFails
<1>7. CASE ConnectionLost(r)
  BY <1>7, QuietTurn DEF ConnectionLost
<1> HIDE DEF Steps, Unwritten, Holding, Tracked
<1> QED
  BY <1>1, <1>2, <1>3, <1>4, <1>5, <1>6, <1>7, SubmitTurn, PollTurn, CancelWaitingTurn,
     StartTurn, PrepareTurn, WritePromptTurn, WriteThrowsTurn, AfterPromptWriteTurn,
     CompleteTurn, SettleUnsentTurn, SettleSentTurn DEF TurnAction

-----------------------------------------------------------------------------
(* Reapers and processes. *)

LEMMA ReapQueuedTurn ==
  ASSUME SysInv, NEW p \in Owners, NEW q \in Requests, ReapQueued(p, q)
  PROVE  \A r \in Requests : TurnInv(r)'
<1>1. /\ ConnectorGone(OwnerOf[q]) /\ SettleQueuedOwnerDeath(q, OwnerOf[q])
      /\ proc' = proc /\ kernel' = kernel /\ work' = work /\ turn' = turn
      /\ StoreInv /\ TurnInv(q) /\ State(q) = "queued"
  BY DEF ReapQueued, SettleQueuedOwnerDeath, SysInv, sysVars, procVars
<1>2. /\ leases' = leases /\ State(q)' = "cancelled"
      /\ \A r \in Requests \ {q} : Undisturbed(r)
  BY <1>1, QueueRowOthers
<1>3. work[q] = "none"
  BY <1>1 DEF TurnInv
<1>4. TurnInv(q)'
  BY <1>1, <1>2, <1>3 DEF TurnInv, Up, ConnectorGone
<1> QED
  BY <1>1, <1>2, <1>4, UndisturbedTurn

\* The seat a reaper gives back is not under a kernel's work: the child is gone,
\* or an orphan whose process group was found empty.
LEMMA ReapReleaseTurn ==
  ASSUME SysInv, NEW p \in Owners, NEW q \in Requests, ReapRelease(p, q)
  PROVE  \A r \in Requests : TurnInv(r)'
<1>1. /\ ~Up(OwnerOf[q]) /\ kernel[OwnerOf[q]] # "up"
      /\ Release(q, "recovery_required")
      /\ proc' = proc /\ kernel' = kernel /\ work' = work /\ turn' = turn
      /\ StoreInv /\ TurnInv(q)
  BY DEF ReapRelease, GroupEmpty, ReleaseExitedRecoverySeat, Fence, SysInv, sysVars, procVars
<1>2. /\ State(q)' = "recovery_required"
      /\ \A r \in Requests \ {q} : Undisturbed(r)
  BY <1>1, ReleaseOthers
<1>3. TurnInv(q)'
  BY <1>1, <1>2 DEF TurnInv, Up
<1> QED
  BY <1>1, <1>2, <1>3, UndisturbedTurn

LEMMA ReapMarkTurn ==
  ASSUME SysInv, NEW p \in Owners, NEW q \in Requests, ReapMark(p, q)
  PROVE  \A r \in Requests : TurnInv(r)'
<1>1. /\ ConnectorGone(OwnerOf[q])
      /\ HoldsFence(Fence(q)) /\ SetPhase(Fence(q), "recovery_required")
      /\ proc' = proc /\ kernel' = kernel /\ work' = work /\ turn' = turn
      /\ StoreInv /\ TurnInv(q)
  BY DEF ReapMark, MarkExecutionRecoveryRequired, SysInv, sysVars, procVars
<1>2. /\ State(q)' = "recovery_required" /\ leases'[q].phase = "recovery_required"
      /\ \A r \in Requests \ {q} : Undisturbed(r)
  BY <1>1, SetPhaseOthers
<1>3. TurnInv(q)'
  BY <1>1, <1>2 DEF TurnInv, Up, ConnectorGone
<1> QED
  BY <1>1, <1>2, <1>3, UndisturbedTurn

LEMMA ReaperStep ==
  ASSUME SysInv, ReaperNext
  PROVE  \A r \in Requests : TurnInv(r)'
<1>1. CASE \E p \in Owners : ListProcessIds(p)
  BY <1>1 DEF ListProcessIds, vars, store, SysInv, TurnInv, Up, State
<1> QED
  BY <1>1, ReapQueuedTurn, ReapReleaseTurn, ReapMarkTurn DEF ReaperNext

\* Steps that leave the rows and the turns alone.
LEMMA ProcessStep ==
  ASSUME SysInv, ProcessNext \/ Time \/ UNCHANGED allVars, NEW r \in Requests
  PROVE  TurnInv(r)'
<1>1. TurnInv(r) /\ OwnerOf[r] \in Owners /\ SysTypeOK /\ StoreInv
  BY OwnershipAssumption DEF SysInv
<1>2. CASE Time \/ UNCHANGED allVars
  BY <1>1, <1>2
     DEF Time, Tick, store, sysVars, procVars, allVars, vars, TurnInv, Up, State
<1>3. ASSUME NEW c \in Owners, Launch(c)
      PROVE  TurnInv(r)'
  <2>1. /\ turnRequests' = turnRequests /\ leases' = leases
        /\ turn' = turn /\ work' = work
        /\ proc' = [proc EXCEPT ![c] = "up"] /\ kernel' = [kernel EXCEPT ![c] = "up"]
        /\ proc[c] = "absent"
    BY <1>3 DEF Launch, ClaimDurablePolicy, vars, store
  <2>2. CASE OwnerOf[r] = c
    <3>1. turn[r] = "idle" /\ work[r] = "none"
      BY <1>1, <2>1, <2>2 DEF TurnInv, Unwritten
    <3> QED
      BY <1>1, <2>1, <3>1 DEF TurnInv, Up, State, Holding, Tracked
  <2>3. CASE OwnerOf[r] # c
    <3>1. proc'[OwnerOf[r]] = proc[OwnerOf[r]] /\ kernel'[OwnerOf[r]] = kernel[OwnerOf[r]]
      BY <1>1, <2>1, <2>3 DEF SysTypeOK
    <3> QED
      BY <1>1, <2>1, <3>1 DEF TurnInv, Up, State
  <2> QED
    BY <2>2, <2>3
<1>4. ASSUME NEW c \in Owners, Crash(c) \/ Move(c)
      PROVE  TurnInv(r)'
  <2>1. /\ turnRequests' = turnRequests /\ leases' = leases
        /\ turn' = turn /\ work' = work /\ kernel' = kernel
        /\ \/ proc'[OwnerOf[r]] = proc[OwnerOf[r]]
           \/ Up(OwnerOf[r]) /\ proc'[OwnerOf[r]] \in {"moved", "gone"}
    BY <1>1, <1>4 DEF Crash, Move, vars, store, SysTypeOK, Up
  <2> QED
    BY <1>1, <2>1 DEF TurnInv, Up, State
<1>5. ASSUME NEW c \in Owners, KernelExit(c)
      PROVE  TurnInv(r)'
  <2>1. /\ turnRequests' = turnRequests /\ leases' = leases
        /\ turn' = turn /\ proc' = proc
        /\ work'[r] = IF OwnerOf[r] = c /\ work[r] = "running" THEN "lost" ELSE work[r]
        /\ OwnerOf[r] # c => kernel'[OwnerOf[r]] = kernel[OwnerOf[r]]
    BY <1>1, <1>5 DEF KernelExit, vars, store, SysTypeOK
  <2>2. work[r] = "running" => State(r) \in SeatPhases /\ turn[r] \notin Unwritten
    BY <1>1, SeatedState DEF TurnInv
  <2> QED
    BY <1>1, <2>1, <2>2 DEF TurnInv, Up, State
<1>6. ASSUME NEW q \in Requests, KernelAnswers(q)
      PROVE  TurnInv(r)'
  <2>1. /\ turnRequests' = turnRequests /\ leases' = leases
        /\ turn' = turn /\ proc' = proc /\ kernel' = kernel
        /\ \/ work'[r] = work[r]
           \/ work[r] = "running" /\ work'[r] = "answered"
    BY <1>1, <1>6 DEF KernelAnswers, vars, store, SysTypeOK, procVars
  <2>2. work[r] = "running" => State(r) \in SeatPhases /\ turn[r] \notin Unwritten
    BY <1>1, SeatedState DEF TurnInv
  <2> QED
    BY <1>1, <2>1, <2>2 DEF TurnInv, Up, State
<1>7. ASSUME NEW c \in Owners, HelperStarts(c) \/ HelperExits(c)
      PROVE  TurnInv(r)'
  BY <1>1, <1>7 DEF HelperStarts, HelperExits, vars, store, TurnInv, Up, State
<1> QED
  BY <1>2, <1>3, <1>4, <1>5, <1>6, <1>7 DEF ProcessNext

LEMMA SysInvStep == SysInv /\ [SysNext]_allVars => SysInv'
<1> SUFFICES ASSUME SysInv, [SysNext]_allVars PROVE SysInv'
  OBVIOUS
<1>1. StoreInv' /\ SysTypeOK'
  BY StepUsesStore, StoreInvStep, SysTypeStep DEF SysInv
<1>2. \A r \in Requests : TurnInv(r)'
  <2>1. CASE TurnNext
    <3>1. PICK q \in Requests : TurnAction(q)
      BY <2>1 DEF TurnNext, TurnAction
    <3>2. TurnInv(q)' /\ \A r \in Requests \ {q} : Undisturbed(r)
      BY <1>1, <3>1, TurnStep
    <3>3. /\ proc' = proc /\ kernel' = kernel
          /\ \A r \in Requests \ {q} : turn'[r] = turn[r] /\ work'[r] = work[r]
      BY <3>1, TurnFrame DEF SysInv, procVars
    <3> QED
      BY <3>2, <3>3, UndisturbedTurn
  <2> QED
    BY <2>1, ReaperStep, ProcessStep DEF SysNext
<1> QED
  BY <1>1, <1>2 DEF SysInv

LEMMA SysAlwaysInv == SysSpec => []SysInv
BY SysInvInit, SysInvStep, PTL DEF SysSpec

\* The variables of the system keep their types, for any connectors and faults.
THEOREM SysTypeCorrect == SysSpec => []SysTypeOK
<1>1. SysInv => SysTypeOK
  BY DEF SysInv
<1> QED
  BY <1>1, SysAlwaysInv, PTL

\* No kernel ever works on a prompt whose turn has lost its seat: not after a
\* crash of its connector, a failed settlement, a re-parenting or a reaper's pass.
THEOREM SeatAlwaysCoversWork == SysSpec => []SeatCoversWork
<1>1. SysInv => SeatCoversWork
  BY DEF SysInv, TurnInv, SeatCoversWork, Seated
<1> QED
  BY <1>1, SysAlwaysInv, PTL

\* A turn is reported completed, failed or cancelled only when its prompt was
\* never written or was answered; a lost turn never gets a made-up outcome.
THEOREM OutcomeAlwaysKnown == SysSpec => []OutcomeIsKnown
<1>1. SysInv => OutcomeIsKnown
  <2> SUFFICES ASSUME SysInv, NEW r \in Requests,
                      State(r) \in {"completed", "failed", "cancelled"}
               PROVE  work[r] \in {"none", "answered"}
    BY DEF OutcomeIsKnown
  <2>1. StoreInv /\ TurnInv(r) /\ work[r] \in {"none", "running", "answered", "lost"}
    BY DEF SysInv, SysTypeOK
  <2>2. work[r] # "running"
    BY <2>1, SeatedState DEF TurnInv
  <2> QED
    BY <2>1, <2>2 DEF TurnInv
<1> QED
  BY <1>1, SysAlwaysInv, PTL

\* While its connector runs and keeps its parent, no other process changes the row
\* of a turn under its coordinator: each step finds the row its last one left.
THEOREM LiveTurnNeverDisturbed == SysSpec => []LiveTurnUndisturbed
<1>1. SysInv => LiveTurnUndisturbed
  BY DEF SysInv, TurnInv, LiveTurnUndisturbed, Tracked
<1> QED
  BY <1>1, SysAlwaysInv, PTL

-----------------------------------------------------------------------------
(* What the store promises its callers, said of the running system.         *)

\* Coordinators, reapers and recoveries, with any crash between any two of their
\* transactions, only move turns through the abstract pool of seats: a turn waits, is
\* seated once while there is room, and leaves for good.
THEOREM SystemIsSeatPool == SysSpec => ImplementsSeatPool
BY SystemUsesStore, StoreIsSeatPool DEF UsesStoreAsSpecified

\* The kernels of an account never work on more prompts at once than its policy has
\* seats, also after a drain narrowed it: the two halves are that who works has a seat
\* (the system's invariant) and that seats are within policy (the store's).
THEOREM WorkAlwaysWithinPolicy == SysSpec => []WorkWithinPolicy
<1>1. SysSpec => []SeatsWithinPolicy
  BY SystemUsesStore, SeatsAlwaysWithinPolicy DEF UsesStoreAsSpecified
<1>2. SysTypeOK /\ SeatCoversWork /\ SeatsWithinPolicy => WorkWithinPolicy
  <2> SUFFICES ASSUME SysTypeOK, SeatCoversWork, SeatsWithinPolicy PROVE WorkWithinPolicy
    OBVIOUS
  <2> DEFINE atWork == {r \in Requests : work[r] = "running"}
  <2>1. IsFiniteSet(Seated) /\ atWork \in SUBSET Seated
    <3>1. Seated \in SUBSET Requests
      BY DEF Seated
    <3>2. IsFiniteSet(Seated)
      BY ONLY <3>1, RequestsAssumption, FS_Subset
    <3> QED
      BY <3>2 DEF SeatCoversWork
  <2>2. /\ Cardinality(atWork) <= Cardinality(Seated)
        /\ Cardinality(atWork) \in Nat /\ Cardinality(Seated) \in Nat
    <3> HIDE DEF atWork
    <3> QED
      BY ONLY <2>1, FS_Subset, FS_CardinalityType
  <2>3. MaxActiveTurns \in Nat /\ policyState.maxActiveTurns \in Nat
    BY PolicyAssumption DEF SysTypeOK, TypeOK, PolicyRow
  <2> QED
    BY <2>2, <2>3 DEF WorkWithinPolicy, SeatsWithinPolicy
<1> QED
  BY <1>1, <1>2, SysTypeCorrect, SeatAlwaysCoversWork, PTL
-----------------------------------------------------------------------------
(* Which seats can be reaped.  The store alone would let a seat leave its   *)
(* start without an identity (markDispatchIntent, a recovery mark): that it *)
(* never does is a fact about what the processes ask of it.                 *)

\* A seat leaves its start with prepare, or it is given back.
LEMMA LeavesStarting ==
  ASSUME SysInv, StoreInv', SysNext, NEW r \in Requests,
         leases[r].phase = "starting", leases'[r].phase \notin {"none", "starting"}
  PROVE  Prepare(r)
<1>1. /\ StoreInv /\ TypeOK /\ State(r) = "starting" /\ leases[r].identity = NoChild
      /\ ~Undisturbed(r) /\ Fence(r).request = r
  BY DEF SysInv, StoreInv, InventoryTrusted, Undisturbed, Fence
<1>2. leases' # leases
  OBVIOUS
<1>3. CASE TurnNext
  <2>1. PICK q \in Requests : TurnAction(q)
    BY <1>3 DEF TurnNext, TurnAction
  <2>2. TurnAction(r)
    BY <1>1, <2>1, TurnStep
  <2>3. ~(Submit(r) \/ CancelWaiting(r))
    BY <1>1, <1>2, QueueRowOthers DEF Submit, CancelWaiting, vars, store
  <2>4. ~Poll(r)
    BY <1>1, <1>2 DEF Poll, AdmitRequest, Reserve, ExpireOnly
  <2>5. ~(Start(r) \/ WriteThrows(r) \/ AfterPromptWrite(r) \/ Complete(r))
    BY <1>1, <1>2
       DEF Start, MarkStarting, WriteThrows, MarkDispatchAmbiguous, AfterPromptWrite,
           MarkActive, Complete, CompleteLiveTurn, Quietly, vars, store
  <2>6. ~SettleUnsent(r)
    <3>1. \A outcome \in {"failed", "cancelled"} : ~AbandonBeforePrompt(Fence(r), outcome)
      BY <1>1, ReleaseOthers DEF AbandonBeforePrompt
    <3> QED
      BY <1>2, <3>1 DEF SettleUnsent, vars, store
  <2>7. ~SettleSent(r)
    BY <1>1, <1>2 DEF SettleSent, vars, store
  <2> QED
    BY <1>2, <2>2, <2>3, <2>4, <2>5, <2>6, <2>7
       DEF TurnAction, PollSettled, PollFails, StartFails, PrepareFails, BeforePromptWrite,
           BeforePromptWriteFails, WritePrompt, ConnectionLost, Quietly, vars, store
<1>4. CASE ReaperNext
  <2>1. ASSUME NEW p \in Owners, ListProcessIds(p)
        PROVE  FALSE
    BY <1>2, <2>1 DEF ListProcessIds, vars, store
  <2>2. ASSUME NEW p \in Owners, NEW q \in Requests, ReapQueued(p, q)
        PROVE  FALSE
    BY <1>1, <1>2, <2>2, QueueRowOthers DEF ReapQueued
  <2>3. ASSUME NEW p \in Owners, NEW q \in Requests, ReapRelease(p, q)
        PROVE  FALSE
    <3>1. Release(q, "recovery_required")
      BY <2>3 DEF ReapRelease, ReleaseExitedRecoverySeat, Fence
    <3>2. q = r
      BY <1>1, <3>1, ReleaseOthers
    <3> QED
      BY <1>1, <3>1, <3>2, ReleaseOthers
  <2>4. ASSUME NEW p \in Owners, NEW q \in Requests, ReapMark(p, q)
        PROVE  FALSE
    <3>1. /\ q # r /\ HoldsFence(Fence(q)) /\ SetPhase(Fence(q), "recovery_required")
      BY <1>1, <2>4 DEF ReapMark, MarkExecutionRecoveryRequired
    <3> QED
      BY <1>1, <3>1, SetPhaseOthers
  <2> QED
    BY <1>4, <2>1, <2>2, <2>3, <2>4 DEF ReaperNext
<1>5. CASE ProcessNext \/ Time
  BY <1>2, <1>5
     DEF ProcessNext, Launch, ClaimDurablePolicy, Crash, Move, KernelExit, KernelAnswers,
         HelperStarts, HelperExits, Time, Tick, vars, store
<1> QED
  BY <1>3, <1>4, <1>5 DEF SysNext

\* prepare binds the identity of the turn's own kernel.
LEMMA PrepareBinds ==
  ASSUME StoreInv, NEW r \in Requests, Prepare(r)
  PROVE  leases'[r].identity = OwnerOf[r]
<1>1. leases[r] \in LeaseRow /\ leases \in [Requests -> LeaseRow]
  BY DEF StoreInv, TypeOK
<1> QED
  BY <1>1 DEF Prepare, RecordProcessIdentity, Fence, LeaseRow

LEMMA TraceableStep == SysInv /\ SeatsTraceable /\ [SysNext]_allVars => SeatsTraceable'
<1> SUFFICES ASSUME SysInv, SeatsTraceable, [SysNext]_allVars, NEW r \in Requests,
                    leases'[r].phase \notin {"none", "admitted", "starting"}
             PROVE  leases'[r].identity = OwnerOf[r]
  BY DEF SeatsTraceable
<1>1. StoreInv /\ StoreInv' /\ RowStep(r)
  BY StepUsesStore, StoreInvStep, StepRowStep DEF SysInv, StoreInv
<1>2. OwnerOf[r] # NoChild
  BY OwnershipAssumption, RecordAssumption, NullAssumption
<1>3. leases[r].phase \notin {"none", "admitted", "starting"} =>
        leases[r].identity = OwnerOf[r]
  BY DEF SeatsTraceable
<1>4. CASE Kept(r)
  BY <1>3, <1>4 DEF Kept
<1>5. CASE Submitted(r) \/ LeftQueue(r)
  BY <1>3, <1>5 DEF Submitted, LeftQueue
<1>6. CASE TookSeat(r) \/ GaveBack(r)
  BY <1>6 DEF TookSeat, GaveBack, NoLease
<1>7. CASE Moved(r)
  <2>1. CASE leases[r].phase = "starting"
    <3>1. SysNext
      BY <2>1 DEF allVars, vars, store
    <3>2. Prepare(r)
      BY <1>1, <2>1, <3>1, LeavesStarting
    <3> QED
      BY <1>1, <3>2, PrepareBinds
  <2>2. CASE leases[r].phase # "starting"
    <3>1. leases[r].phase \notin {"none", "admitted", "starting"}
      BY <1>7, <2>2 DEF Moved, PhaseMoves
    <3> QED
      BY <1>2, <1>3, <1>7, <3>1 DEF Moved
  <2> QED
    BY <2>1, <2>2
<1> QED
  BY <1>1, <1>4, <1>5, <1>6, <1>7 DEF RowStep

\* A seat without a kernel identity, which no reaper looks at, belongs to a turn between
\* admission and prepare; from prepare on a seat keeps the identity that its release
\* after a death needs.
THEOREM SeatsAlwaysTraceable == SysSpec => []SeatsTraceable
<1>1. SysInit => SeatsTraceable
  BY DEF SysInit, Init, SeatsTraceable, NoLease
<1> QED
  BY <1>1, TraceableStep, SysInvInit, SysInvStep, PTL DEF SysSpec
=============================================================================
