------------------------ MODULE SeatPoolRefinement ------------------------
(***************************************************************************)
(* The proof that AdmissionController implements SeatPool.                 *)
(***************************************************************************)
EXTENDS AdmissionControllerProofs

USE DEF States, SeatPhases, StartPhases, Terminal

Waiting == {r \in Requests : State(r) = "queued"}
Done == {r \in Requests : State(r) \in Terminal /\ r \notin Seated}
Draining == policyState.drainState = "soft_draining_to_1"

SamePlace(r) ==
  /\ r \in Waiting' <=> r \in Waiting
  /\ r \in Seated' <=> r \in Seated
  /\ r \in Done' <=> r \in Done

FromQueue(r) ==
  /\ r \in Waiting /\ r \notin Seated \cup Done
  /\ r \in Done' /\ r \notin Waiting' \cup Seated'

\* The limit and the drain are read off the policy row.
PolicyKept == UNCHANGED <<SeatLimit, Draining>>

LEMMA SamePolicy ==
  ASSUME policyState' = policyState
  PROVE  PolicyKept
BY DEF PolicyKept, SeatLimit, Draining

\* Where a request is in the pool, from the move it makes.
LEMMA Placed ==
  ASSUME TypeOK, InventoryTrusted, NEW r \in Requests
  PROVE  /\ Kept(r) => SamePlace(r)
         /\ Submitted(r) => /\ r \notin Waiting \cup Seated \cup Done
                            /\ r \in Waiting' /\ r \notin Seated' \cup Done'
         /\ LeftQueue(r) => FromQueue(r)
         /\ TookSeat(r) => /\ r \in Waiting /\ r \notin Seated \cup Done
                           /\ r \in Seated' /\ r \notin Waiting' \cup Done'
         /\ Moved(r) => /\ r \in Seated /\ r \notin Waiting \cup Done
                        /\ r \in Seated' /\ r \notin Waiting' \cup Done'
         /\ GaveBack(r) => /\ r \in Seated /\ r \notin Waiting \cup Done
                           /\ r \in Done' /\ r \notin Waiting' \cup Seated'
<1> USE DEF State, Waiting, Seated, Done, SamePlace, FromQueue
<1>1. /\ leases[r].phase # "none" => turnRequests[r].state = leases[r].phase
      /\ leases[r].phase \in SeatPhases \cup {"none"}
      /\ turnRequests[r] \in RequestRow
  BY DEF InventoryTrusted, TypeOK, LeaseRow
<1>2. Kept(r) => SamePlace(r)
  BY DEF Kept
<1>3. Submitted(r) => /\ r \notin Waiting \cup Seated \cup Done
                      /\ r \in Waiting' /\ r \notin Seated' \cup Done'
  BY <1>1 DEF Submitted
<1>4. LeftQueue(r) => FromQueue(r)
  BY <1>1 DEF LeftQueue
<1>5. TookSeat(r) => /\ r \in Waiting /\ r \notin Seated \cup Done
                     /\ r \in Seated' /\ r \notin Waiting' \cup Done'
  BY DEF TookSeat
<1>6. Moved(r) => /\ r \in Seated /\ r \notin Waiting \cup Done
                  /\ r \in Seated' /\ r \notin Waiting' \cup Done'
  <2> HAVE Moved(r)
  <2>1. /\ leases[r].phase \in SeatPhases \ {"recovery_required"}
        /\ leases'[r].phase \in SeatPhases
    BY DEF Moved, PhaseMoves
  <2>2. turnRequests'[r].state = leases'[r].phase
    BY <1>1 DEF Moved, RequestRow
  <2> QED
    BY <1>1, <2>1, <2>2
<1>7. GaveBack(r) => /\ r \in Seated /\ r \notin Waiting \cup Done
                     /\ r \in Done' /\ r \notin Waiting' \cup Seated'
  <2> HAVE GaveBack(r)
  <2>1. leases[r].phase \in SeatPhases /\ turnRequests'[r].state \in Terminal
    BY DEF GaveBack, ReleaseMoves
  <2>2. leases'[r].phase = "none"
    BY DEF GaveBack, NoLease
  <2> QED
    BY <1>1, <2>1, <2>2
<1> QED
  BY <1>2, <1>3, <1>4, <1>5, <1>6, <1>7

LEMMA PlacedSame ==
  ASSUME TypeOK, InventoryTrusted, NEW r \in Requests, SameRow(r) \/ Kept(r) \/ Moved(r)
  PROVE  SamePlace(r)
<1>1. CASE SameRow(r)
  BY <1>1 DEF SameRow, State, Waiting, Seated, Done, SamePlace
<1>2. CASE Kept(r) \/ Moved(r)
  BY <1>2, Placed DEF SamePlace
<1> QED
  BY <1>1, <1>2

\* The pool's variables are sets of requests, before and after a step.
LEMMA PoolSets ==
  /\ Waiting \subseteq Requests /\ Waiting' \subseteq Requests
  /\ Seated \subseteq Requests /\ Seated' \subseteq Requests
  /\ Done \subseteq Requests /\ Done' \subseteq Requests
BY DEF Waiting, Seated, Done

-----------------------------------------------------------------------------
(* Each kind of transaction is an action of the pool. *)

LEMMA Unseen ==
  ASSUME TypeOK, InventoryTrusted, PolicyKept,
         \A r \in Requests : SameRow(r) \/ Kept(r) \/ Moved(r)
  PROVE  UNCHANGED Pool!vars
<1>1. \A r \in Requests : SamePlace(r)
  BY PlacedSame
<1>2. Waiting' = Waiting
  BY <1>1, PoolSets DEF SamePlace
<1>3. Seated' = Seated
  BY <1>1, PoolSets DEF SamePlace
<1>4. Done' = Done
  BY <1>1, PoolSets DEF SamePlace
<1> QED
  BY <1>2, <1>3, <1>4 DEF PolicyKept, Draining, Waiting, Done, Pool!vars

LEMMA SubmitStep ==
  ASSUME TypeOK, InventoryTrusted, PolicyKept, NEW q \in Requests, Submitted(q),
         \A r \in Requests \ {q} : SameRow(r)
  PROVE  Pool!Next
<1>1. \A r \in Requests \ {q} : SamePlace(r)
  BY PlacedSame
<1>2. /\ q \notin Waiting \cup Seated \cup Done
      /\ q \in Waiting' /\ q \notin Seated' \cup Done'
  BY Placed
<1>3. Waiting' = Waiting \cup {q}
  BY <1>1, <1>2, PoolSets DEF SamePlace, FromQueue
<1>4. Seated' = Seated
  BY <1>1, <1>2, PoolSets DEF SamePlace, FromQueue
<1>5. Done' = Done
  BY <1>1, <1>2, PoolSets DEF SamePlace, FromQueue
<1>6. Pool!Submit(q)
  BY <1>2, <1>3, <1>4, <1>5 DEF Pool!Submit, PolicyKept, Draining, Waiting, Done
<1> QED
  BY <1>6 DEF Pool!Next

LEMMA GiveUpStep ==
  ASSUME TypeOK, InventoryTrusted, PolicyKept, NEW S \in SUBSET Requests,
         \A r \in S : LeftQueue(r),
         \A r \in Requests \ S : SameRow(r)
  PROVE  Pool!Next
<1>1. \A r \in Requests \ S : SamePlace(r)
  BY PlacedSame
<1>2. \A r \in S : FromQueue(r)
  BY Placed
<1>3. Waiting' = Waiting \ S
  BY <1>1, <1>2, PoolSets DEF SamePlace, FromQueue
<1>4. Seated' = Seated
  BY <1>1, <1>2, PoolSets DEF SamePlace, FromQueue
<1>5. Done' = Done \cup S
  BY <1>1, <1>2, PoolSets DEF SamePlace, FromQueue
<1>6. S \subseteq Waiting
  BY <1>2 DEF FromQueue
<1>7. Pool!GiveUp(S)
  BY <1>3, <1>4, <1>5, <1>6 DEF Pool!GiveUp, PolicyKept, Draining, Waiting, Done
<1> QED
  BY <1>6, <1>7 DEF Pool!Next, Waiting

LEMMA SeatedStep ==
  ASSUME TypeOK, InventoryTrusted, NEW q \in Requests, TookSeat(q),
         NEW S \in SUBSET (Requests \ {q}),
         \A r \in S : LeftQueue(r),
         \A r \in Requests \ (S \cup {q}) : SameRow(r)
  PROVE  Pool!Next
<1>1. \A r \in Requests \ (S \cup {q}) : SamePlace(r)
  BY PlacedSame
<1>2. \A r \in S : FromQueue(r)
  BY Placed
<1>3. /\ q \in Waiting /\ q \notin Seated \cup Done
      /\ q \in Seated' /\ q \notin Waiting' \cup Done'
  BY Placed
<1>4. Waiting' = Waiting \ (S \cup {q})
  BY <1>1, <1>2, <1>3, PoolSets DEF SamePlace, FromQueue
<1>5. Seated' = Seated \cup {q}
  BY <1>1, <1>2, <1>3, PoolSets DEF SamePlace, FromQueue
<1>6. Done' = Done \cup S
  BY <1>1, <1>2, <1>3, PoolSets DEF SamePlace, FromQueue
<1>7. S \subseteq Waiting \ {q}
  BY <1>2 DEF FromQueue
<1>8. ~Draining /\ Cardinality(Seated) < SeatLimit /\ policyState' = policyState
  BY DEF TookSeat, Admitting, HasDispatchCapacity, HasSeatCapacity, Draining
<1>9. UNCHANGED <<SeatLimit, Draining>>
  BY <1>8, SamePolicy DEF PolicyKept
<1>10. Pool!Cardinality(Seated) = Cardinality(Seated)
  BY DEF Cardinality, Pool!Cardinality
<1>11. Pool!Seat(q, S)
  BY <1>3, <1>4, <1>5, <1>6, <1>7, <1>8, <1>9, <1>10 DEF Pool!Seat, Draining, Waiting, Done
<1> QED
  BY <1>3, <1>7, <1>11 DEF Pool!Next, Waiting

LEMMA LeaveStep ==
  ASSUME TypeOK, InventoryTrusted, NEW q \in Requests, GaveBack(q),
         \A r \in Requests \ {q} : SameRow(r),
         policyState' = SettledPolicy(q)
  PROVE  Pool!Next
<1>1. \A r \in Requests \ {q} : SamePlace(r)
  BY PlacedSame
<1>2. /\ q \in Seated /\ q \notin Waiting \cup Done
      /\ q \in Done' /\ q \notin Waiting' \cup Seated'
  BY Placed
<1>3. Waiting' = Waiting
  BY <1>1, <1>2, PoolSets DEF SamePlace, FromQueue
<1>4. Seated' = Seated \ {q}
  BY <1>1, <1>2, PoolSets DEF SamePlace, FromQueue
<1>5. Done' = Done \cup {q}
  BY <1>1, <1>2, PoolSets DEF SamePlace, FromQueue
<1>6. CASE Draining /\ Seated = {q}
  <2>1. policyState' = [maxActiveTurns |-> 1, drainState |-> "steady"]
    BY <1>6 DEF SettledPolicy, Draining
  <2>2. SeatLimit' = 1 /\ Draining' = FALSE
    BY <2>1 DEF SeatLimit, Draining
  <2> QED
    BY <1>2, <1>3, <1>4, <1>5, <1>6, <2>2 DEF Pool!Next, Pool!Leave, Draining, Waiting, Done
<1>7. CASE ~(Draining /\ Seated = {q})
  <2>1. policyState' = policyState
    BY <1>2, <1>7 DEF SettledPolicy, Draining
  <2>2. UNCHANGED <<SeatLimit, Draining>>
    BY <2>1 DEF SeatLimit, Draining
  <2> QED
    BY <1>2, <1>3, <1>4, <1>5, <1>7, <2>2 DEF Pool!Next, Pool!Leave, Draining, Waiting, Done
<1> QED
  BY <1>6, <1>7

LEMMA PoolInit == Init => Pool!Init
<1> SUFFICES ASSUME Init PROVE Pool!Init
  OBVIOUS
<1>1. Waiting = {} /\ Seated = {} /\ Done = {}
  BY DEF Init, Waiting, Seated, Done, State, NoLease
<1>2. SeatLimit = MaxActiveTurns /\ Draining = FALSE
  BY DEF Init, SeatLimit, Draining
<1> QED
  BY <1>1, <1>2 DEF Pool!Init, Waiting, Done, Draining

-----------------------------------------------------------------------------
(* Every transaction of the store is one of those kinds. *)

LEMMA DequeuePoolStep ==
  ASSUME TypeOK, InventoryTrusted, NEW q \in Requests, State(q) = "queued",
         turnRequests' = [turnRequests EXCEPT ![q].state = "cancelled"],
         turnPayloads' = turnPayloads \ {q}, leases' = leases, policyState' = policyState
  PROVE  Pool!Next
<1>1. turnRequests'[q] = [turnRequests[q] EXCEPT !.state = "cancelled"]
  BY DEF TypeOK
<1>2. /\ turnRequests'[q].state = "cancelled"
      /\ turnRequests'[q].generation = turnRequests[q].generation
  BY <1>1 DEF TypeOK, RequestRow
<1>3. LeftQueue(q)
  BY <1>2 DEF LeftQueue
<1>4. \A r \in Requests \ {q} : SameRow(r)
  BY DEF SameRow, TypeOK
<1>5. {q} \in SUBSET Requests
  OBVIOUS
<1> QED
  BY <1>3, <1>4, <1>5, SamePolicy, GiveUpStep

LEMMA QueuePoolStep ==
  ASSUME TypeOK, InventoryTrusted, QueueNext
  PROVE  Pool!Next \/ UNCHANGED Pool!vars
<1> USE InstantsType
<1>1. ASSUME NEW q \in Requests, NEW o \in Owners, NEW now \in Instants,
             Enqueue(q, o, now) \/ EnqueueWithPayload(q, o, now)
      PROVE  Pool!Next
  <2>1. /\ State(q) = "absent" /\ leases' = leases /\ policyState' = policyState
        /\ turnRequests' = [turnRequests EXCEPT ![q] =
             [state |-> "queued", enqueuedAt |-> now, generation |-> 0, queuedOwner |-> o]]
    BY <1>1 DEF Enqueue, EnqueueWithPayload
  <2>2. turnRequests'[q] =
          [state |-> "queued", enqueuedAt |-> now, generation |-> 0, queuedOwner |-> o]
    BY <2>1 DEF TypeOK
  <2>3. Submitted(q)
    BY <2>1, <2>2 DEF Submitted
  <2>4. \A r \in Requests \ {q} : SameRow(r)
    BY <2>1 DEF SameRow, TypeOK
  <2> QED
    BY <2>1, <2>3, <2>4, SamePolicy, SubmitStep
<1>2. ASSUME NEW now \in Instants, NEW r \in Requests,
             turnRequests'[r] = ExpireQueued(now)[r], leases'[r] = leases[r],
             turnPayloads' = turnPayloads \ Expired(now)
      PROVE  /\ r \in Expired(now) => LeftQueue(r)
             /\ r \notin Expired(now) => SameRow(r)
  <2>1. CASE r \in Expired(now)
    <3>1. turnRequests'[r] = [turnRequests[r] EXCEPT !.state = "queue_timeout"]
      BY <1>2, <2>1 DEF ExpireQueued
    <3>2. /\ turnRequests'[r].state = "queue_timeout"
          /\ turnRequests'[r].generation = turnRequests[r].generation
      BY <3>1 DEF TypeOK, RequestRow
    <3> QED
      BY <1>2, <2>1, <3>2 DEF LeftQueue, Expired
  <2>2. CASE r \notin Expired(now)
    BY <1>2, <2>2 DEF ExpireQueued, SameRow
  <2> QED
    BY <2>1, <2>2
<1>3. ASSUME NEW now \in Instants, ExpireOnly(now)
      PROVE  Pool!Next
  <2>1. /\ turnRequests' = ExpireQueued(now) /\ leases' = leases
        /\ turnPayloads' = turnPayloads \ Expired(now) /\ policyState' = policyState
    BY <1>3 DEF ExpireOnly
  <2>2. Expired(now) \in SUBSET Requests
    BY DEF Expired
  <2>3. \A r \in Expired(now) : LeftQueue(r)
    BY <1>2, <2>1, <2>2
  <2>4. \A r \in Requests \ Expired(now) : SameRow(r)
    BY <1>2, <2>1
  <2> QED
    BY <2>1, <2>2, <2>3, <2>4, SamePolicy, GiveUpStep
<1>4. ASSUME NEW q \in Requests, NEW o \in Owners, NEW now \in Instants,
             HasDispatchCapacity(now), Reserve(q, o, now),
             turnPayloads' = turnPayloads \ Expired(now),
             UNCHANGED <<clock, startHistory, cooldowns, policyState>>
      PROVE  Pool!Next
  <2>1. TookSeat(q)
    BY <1>4, ReserveRows DEF TookSeat, Admitting
  <2>2. \A r \in Requests \ {q} :
          leases'[r] = leases[r] /\ turnRequests'[r] = ExpireQueued(now)[r]
    BY <1>4, ReserveRows
  <2> DEFINE S == Expired(now) \ {q}
  <2>3. S \in SUBSET (Requests \ {q})
    BY DEF Expired
  <2>4. \A r \in S : LeftQueue(r)
    BY <1>2, <1>4, <2>2, <2>3
  <2>5. \A r \in Requests \ (S \cup {q}) : SameRow(r)
    BY <1>2, <1>4, <2>2
  <2> QED
    BY <2>1, <2>3, <2>4, <2>5, SeatedStep
<1>5. ASSUME NEW q \in Requests, NEW o \in Owners, NEW now \in Instants,
             AdmitRequest(q, o, now)
      PROVE  Pool!Next
  BY <1>3, <1>4, <1>5 DEF AdmitRequest
<1>6. ASSUME NEW o \in Owners, NEW now \in Instants, AdmitNext(o, now)
      PROVE  Pool!Next
  BY <1>3, <1>4, <1>6 DEF AdmitNext
<1>7. ASSUME NEW q \in Requests, NEW now \in Instants, ReadPayload(q, now)
      PROVE  UNCHANGED Pool!vars
  BY <1>7, SamePolicy, Unseen DEF ReadPayload, SameRow
<1>8. ASSUME NEW q \in Requests, CancelQueued(q)
      PROVE  Pool!Next
  BY <1>8, DequeuePoolStep DEF CancelQueued
<1>9. ASSUME NEW q \in Requests, NEW o \in Owners, SettleQueuedOwnerDeath(q, o)
      PROVE  Pool!Next
  BY <1>9, DequeuePoolStep DEF SettleQueuedOwnerDeath
<1>10. ASSUME NEW q \in Requests, PersistPayload(q)
       PROVE  UNCHANGED Pool!vars
  BY <1>10, SamePolicy, Unseen DEF PersistPayload, SameRow
<1> QED
  BY <1>1, <1>3, <1>5, <1>6, <1>7, <1>8, <1>9, <1>10 DEF QueueNext

\* A release is a Leave of the pool.
LEMMA ReleasePoolStep ==
  ASSUME TypeOK, InventoryTrusted, NEW q \in Requests, NEW state \in Terminal,
         Release(q, state), <<leases[q].phase, state>> \in ReleaseMoves
  PROVE  Pool!Next
<1>1. /\ \A r \in Requests \ {q} : SameRow(r)
      /\ turnRequests'[q] = [turnRequests[q] EXCEPT !.state = state]
      /\ leases'[q] = NoLease
  BY ReleaseRows
<1>2. turnRequests'[q].state = state
  BY <1>1 DEF TypeOK, RequestRow
<1>3. GaveBack(q)
  BY <1>1, <1>2 DEF GaveBack, Release
<1>4. policyState' = SettledPolicy(q)
  BY DEF Release
<1> QED
  BY <1>1, <1>3, <1>4, LeaveStep

\* A phase move is invisible to the pool.
LEMMA MovePoolStep ==
  ASSUME TypeOK, InventoryTrusted, [Next]_vars, policyState' = policyState,
         NEW q \in Requests, leases[q].phase \in SeatPhases, leases'[q].phase \in SeatPhases,
         \A r \in Requests \ {q} : SameRow(r)
  PROVE  UNCHANGED Pool!vars
<1>1. RowStep(q)
  BY StepRowStep
<1>2. ~LeftQueue(q) /\ ~Submitted(q)
  <2>1. State(q) = leases[q].phase
    BY DEF InventoryTrusted
  <2>2. State(q) \notin {"queued", "absent"}
    BY <2>1
  <2> QED
    BY <2>2 DEF LeftQueue, Submitted
<1>3. ~TookSeat(q) /\ ~GaveBack(q)
  <2>1. leases[q].phase # "none" /\ leases'[q].phase # "none"
    OBVIOUS
  <2>2. NoLease.phase = "none"
    BY DEF NoLease
  <2> QED
    BY <2>1, <2>2 DEF TookSeat, GaveBack
<1>4. Kept(q) \/ Moved(q)
  BY <1>1, <1>2, <1>3 DEF RowStep
<1> QED
  BY <1>4, SamePolicy, Unseen

LEMMA LeasePoolStep ==
  ASSUME TypeOK, InventoryTrusted, LeaseNext
  PROVE  Pool!Next \/ UNCHANGED Pool!vars
<1> USE InstantsType
<1>0. \A f \in Fences : f.request \in Requests
  BY DEF Fences
<1>1. ASSUME NEW f \in Fences, NEW phase \in SeatPhases, SetPhase(f, phase), LeaseNext,
             leases[f.request].phase \in SeatPhases, policyState' = policyState
      PROVE  UNCHANGED Pool!vars
  <2>1. /\ \A r \in Requests \ {f.request} : SameRow(r)
        /\ leases'[f.request] = [leases[f.request] EXCEPT !.phase = phase]
    BY <1>1, SetPhaseRows
  <2>2. leases'[f.request].phase \in SeatPhases
    BY <1>0, <2>1 DEF TypeOK, LeaseRow
  <2> QED
    BY <1>0, <1>1, <2>1, <2>2, MovePoolStep DEF Next
<1>2. ASSUME NEW f \in Fences,
             \/ \E now \in Instants : MarkStarting(f, now)
             \/ MarkDispatchIntent(f) \/ MarkActive(f)
             \/ MarkDispatchAmbiguous(f) \/ MarkExecutionRecoveryRequired(f)
      PROVE  UNCHANGED Pool!vars
  BY <1>1, <1>2 DEF MarkStarting, MarkDispatchIntent, MarkActive, MarkDispatchAmbiguous,
                    MarkExecutionRecoveryRequired
<1>3. ASSUME NEW f \in Fences, NEW c \in Children, RecordProcessIdentity(f, c)
      PROVE  UNCHANGED Pool!vars
  <2>1. /\ \A r \in Requests \ {f.request} : SameRow(r)
        /\ leases'[f.request] =
             [leases[f.request] EXCEPT !.phase = "dispatch_intent", !.identity = c]
    BY <1>3, IdentityRows
  <2>2. leases'[f.request].phase \in SeatPhases
    BY <1>0, <2>1 DEF TypeOK, LeaseRow
  <2>3. leases[f.request].phase \in SeatPhases /\ policyState' = policyState
    BY <1>3 DEF RecordProcessIdentity
  <2> QED
    BY <1>0, <2>1, <2>2, <2>3, MovePoolStep DEF Next
<1>4. ASSUME NEW f \in Fences, NEW state \in Terminal, Release(f.request, state),
             <<leases[f.request].phase, state>> \in ReleaseMoves
      PROVE  Pool!Next
  BY <1>0, <1>4, ReleasePoolStep
<1>5. ASSUME NEW f \in Fences, NEW outcome \in {"failed", "cancelled"},
             AbandonBeforePrompt(f, outcome)
      PROVE  Pool!Next
  BY <1>4, <1>5 DEF AbandonBeforePrompt, ReleaseMoves
<1>6. ASSUME NEW f \in Fences, ReleaseExitedRecoverySeat(f)
      PROVE  Pool!Next
  BY <1>4, <1>6 DEF ReleaseExitedRecoverySeat, ReleaseMoves
<1>7. ASSUME NEW f \in Fences, NEW outcome \in {"completed", "failed", "cancelled"},
             NEW category \in {"none", "provider_capacity", "transport"},
             NEW now \in Instants, CompleteLiveTurn(f, outcome, category, now)
      PROVE  Pool!Next
  BY <1>4, <1>7 DEF CompleteLiveTurn, ReleaseMoves
<1>8. ASSUME NEW f \in Fences, Heartbeat(f) \/ MarkSuspect(f)
      PROVE  UNCHANGED Pool!vars
  <2>1. \E b \in BOOLEAN : leases' = [leases EXCEPT ![f.request].suspect = b]
    BY <1>8 DEF Heartbeat, MarkSuspect
  <2>2. \A r \in Requests :
          leases'[r] = leases[r] \/ \E b \in BOOLEAN : leases'[r] = [leases[r] EXCEPT !.suspect = b]
    BY <1>0, <2>1 DEF TypeOK
  <2>3. \A r \in Requests : Kept(r)
    BY <1>8, <2>2 DEF Heartbeat, MarkSuspect, Kept, TypeOK, LeaseRow
  <2> QED
    BY <1>8, <2>3, SamePolicy, Unseen DEF Heartbeat, MarkSuspect
<1> QED
  BY <1>2, <1>3, <1>5, <1>6, <1>7, <1>8 DEF LeaseNext

LEMMA PolicyPoolStep ==
  ASSUME TypeOK, InventoryTrusted, PolicyNext
  PROVE  Pool!Next \/ UNCHANGED Pool!vars
<1>1. ASSUME turnRequests' = turnRequests, leases' = leases
      PROVE  Waiting' = Waiting /\ Seated' = Seated /\ Done' = Done
  BY <1>1 DEF Waiting, Seated, Done, State
<1>2. ASSUME NEW m \in Models, NEW now \in Instants, NEW notBefore \in 0..MaxTime,
             SetCapacityCooldown(m, notBefore, now)
      PROVE  UNCHANGED Pool!vars
  BY <1>2, SamePolicy, Unseen DEF SetCapacityCooldown, SameRow
<1>3. ASSUME ClaimDurablePolicy
      PROVE  UNCHANGED Pool!vars
  <2>1. SeatLimit' = SeatLimit /\ Draining' = Draining
    BY <1>3 DEF ClaimDurablePolicy, SeatLimit, Draining
  <2> QED
    BY <1>3, <2>1, Unseen DEF ClaimDurablePolicy, PolicyKept, SameRow
<1>4. ASSUME BeginSoftDrainTo1
      PROVE  Pool!Next
  <2>1. Waiting' = Waiting /\ Seated' = Seated /\ Done' = Done
    BY <1>1, <1>4 DEF BeginSoftDrainTo1
  <2>2. CASE Seated = {}
    <3>1. policyState' = [maxActiveTurns |-> 1, drainState |-> "steady"]
      BY <1>4, <2>2 DEF BeginSoftDrainTo1
    <3>2. SeatLimit' = 1 /\ Draining' = FALSE
      BY <3>1 DEF SeatLimit, Draining
    <3> QED
      BY <2>1, <2>2, <3>2 DEF Pool!Next, Pool!BeginDrain, Waiting, Done, Draining
  <2>3. CASE Seated # {}
    <3>1. policyState' = [policyState EXCEPT !.drainState = "soft_draining_to_1"]
      BY <1>4, <2>3 DEF BeginSoftDrainTo1
    <3>2. /\ policyState'.drainState = "soft_draining_to_1"
          /\ policyState'.maxActiveTurns = policyState.maxActiveTurns
          /\ policyState.drainState # "unclaimed"
      BY <1>4, <3>1 DEF TypeOK, PolicyRow, BeginSoftDrainTo1
    <3>3. SeatLimit' = SeatLimit /\ Draining' = TRUE
      BY <3>2 DEF SeatLimit, Draining
    <3> QED
      BY <2>1, <2>3, <3>3 DEF Pool!Next, Pool!BeginDrain, Waiting, Done, Draining
  <2> QED
    BY <2>2, <2>3
<1> QED
  BY <1>2, <1>3, <1>4 DEF PolicyNext

LEMMA PoolStep ==
  TypeOK /\ InventoryTrusted /\ [Next]_vars => [Pool!Next]_Pool!vars
<1> SUFFICES ASSUME TypeOK, InventoryTrusted, [Next]_vars
             PROVE  Pool!Next \/ UNCHANGED Pool!vars
  OBVIOUS
<1>1. CASE Tick \/ UNCHANGED vars
  <2>1. /\ turnRequests' = turnRequests /\ leases' = leases /\ policyState' = policyState
    BY <1>1 DEF Tick, vars, store
  <2> QED
    BY <2>1, SamePolicy, Unseen DEF SameRow
<1> QED
  BY <1>1, QueuePoolStep, LeasePoolStep, PolicyPoolStep DEF Next

\* Every transaction of the store is a step of the seat pool or invisible to it:
\* a turn waits, is seated once while there is room, and leaves for good.
THEOREM StoreIsSeatPool == Spec => ImplementsSeatPool
<1> QED
  BY PoolInit, PoolStep, TypeCorrect, InventoryAlwaysTrusted, PTL
     DEF Spec, ImplementsSeatPool, Pool!Spec
=============================================================================
