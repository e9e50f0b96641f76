--------------------- MODULE AdmissionControllerProofs ---------------------
(***************************************************************************)
(* Proofs about AdmissionController, for every set of requests, owners and *)
(* children, every policy, and every delay between reading the clock and   *)
(* getting the write lock.                                                 *)
(***************************************************************************)
EXTENDS AdmissionController, FiniteSetTheorems, TLAPS

USE DEF States, SeatPhases, StartPhases, Terminal

-----------------------------------------------------------------------------
(* Types. *)

LEMMA NoLeaseType == NoLease \in LeaseRow
BY DEF NoLease, LeaseRow

LEMMA InstantsType == TypeOK => Instants \subseteq Nat
BY BoundsAssumption DEF Instants

\* Expiring the queue keeps the type of the request table.
LEMMA ExpireType ==
  ASSUME TypeOK, NEW now \in Nat
  PROVE  ExpireQueued(now) \in [Requests -> RequestRow]
BY DEF ExpireQueued, TypeOK, RequestRow

LEMMA SetPhaseType ==
  ASSUME TypeOK, NEW f \in Fences, NEW phase \in SeatPhases, SetPhase(f, phase)
  PROVE  /\ turnRequests' \in [Requests -> RequestRow]
         /\ leases' \in [Requests -> LeaseRow]
<1>1. f.request \in Requests
  BY DEF Fences
<1>2. [turnRequests[f.request] EXCEPT !.state = phase] \in RequestRow
  BY <1>1 DEF TypeOK, RequestRow
<1>3. [leases[f.request] EXCEPT !.phase = phase] \in LeaseRow
  BY <1>1 DEF TypeOK, LeaseRow
<1>4. turnRequests' \in [Requests -> RequestRow]
  BY <1>1, <1>2 DEF SetPhase, TypeOK
<1>5. leases' \in [Requests -> LeaseRow]
  BY <1>1, <1>3 DEF SetPhase, TypeOK
<1> QED
  BY <1>4, <1>5

LEMMA SettledPolicyType ==
  ASSUME TypeOK, NEW r \in Requests
  PROVE  SettledPolicy(r) \in PolicyRow
BY DEF SettledPolicy, TypeOK, PolicyRow

LEMMA ReleaseType ==
  ASSUME TypeOK, NEW r \in Requests, NEW state \in Terminal, Release(r, state)
  PROVE  /\ turnRequests' \in [Requests -> RequestRow]
         /\ turnPayloads' \subseteq Requests
         /\ leases' \in [Requests -> LeaseRow]
         /\ policyState' \in PolicyRow
<1>1. turnRequests' \in [Requests -> RequestRow]
  BY DEF Release, TypeOK, RequestRow
<1>2. leases' \in [Requests -> LeaseRow]
  BY NoLeaseType DEF Release, TypeOK
<1>3. policyState' \in PolicyRow
  BY SettledPolicyType DEF Release
<1> QED
  BY <1>1, <1>2, <1>3 DEF Release, TypeOK

LEMMA ReserveType ==
  ASSUME TypeOK, NEW r \in Requests, NEW o \in Owners, NEW now \in Nat, Reserve(r, o, now)
  PROVE  /\ turnRequests' \in [Requests -> RequestRow]
         /\ leases' \in [Requests -> LeaseRow]
<1>1. ExpireQueued(now) \in [Requests -> RequestRow]
  BY ExpireType
<1>2. turnRequests[r].generation + 1 \in Nat
  BY DEF TypeOK, RequestRow
<1>3. turnRequests' \in [Requests -> RequestRow]
  BY <1>1, <1>2 DEF Reserve, RequestRow
<1>4. [NoLease EXCEPT !.phase = "admitted", !.generation = turnRequests[r].generation + 1,
                      !.owner = o, !.acquiredAt = now] \in LeaseRow
  BY <1>2 DEF NoLease, LeaseRow
<1>5. leases' \in [Requests -> LeaseRow]
  BY <1>4 DEF Reserve, TypeOK
<1> QED
  BY <1>3, <1>5

LEMMA TypeInit == Init => TypeOK
BY PolicyAssumption, NoLeaseType
   DEF Init, TypeOK, RequestRow, StartRow, PolicyRow

LEMMA TypeQueue == TypeOK /\ QueueNext => TypeOK'
<1> SUFFICES ASSUME TypeOK, QueueNext PROVE TypeOK'
  OBVIOUS
<1> USE InstantsType
<1>1. ASSUME NEW r \in Requests, NEW o \in Owners, NEW now \in Instants,
             Enqueue(r, o, now) \/ EnqueueWithPayload(r, o, now)
      PROVE  TypeOK'
  <2>1. turnRequests' \in [Requests -> RequestRow]
    BY <1>1 DEF Enqueue, EnqueueWithPayload, TypeOK, RequestRow
  <2> QED
    BY <1>1, <2>1 DEF Enqueue, EnqueueWithPayload, TypeOK
<1>2. ASSUME NEW now \in Instants, ExpireOnly(now)
      PROVE  TypeOK'
  BY <1>2, ExpireType DEF ExpireOnly, TypeOK
<1>3. ASSUME NEW r \in Requests, NEW o \in Owners, NEW now \in Instants, Reserve(r, o, now),
             turnPayloads' = turnPayloads \ Expired(now),
             UNCHANGED <<clock, startHistory, cooldowns, policyState>>
      PROVE  TypeOK'
  BY <1>3, ReserveType DEF TypeOK
<1>4. ASSUME NEW r \in Requests, NEW o \in Owners, NEW now \in Instants,
             AdmitRequest(r, o, now)
      PROVE  TypeOK'
  BY <1>2, <1>3, <1>4 DEF AdmitRequest
<1>5. ASSUME NEW o \in Owners, NEW now \in Instants, AdmitNext(o, now)
      PROVE  TypeOK'
  BY <1>2, <1>3, <1>5 DEF AdmitNext
<1>6. ASSUME NEW r \in Requests, NEW now \in Instants, ReadPayload(r, now)
      PROVE  TypeOK'
  BY <1>6 DEF ReadPayload, TypeOK
<1>7. ASSUME NEW r \in Requests, PersistPayload(r)
      PROVE  TypeOK'
  BY <1>7 DEF PersistPayload, TypeOK
<1>8. ASSUME NEW r \in Requests, NEW o \in Owners,
             CancelQueued(r) \/ SettleQueuedOwnerDeath(r, o)
      PROVE  TypeOK'
  BY <1>8 DEF CancelQueued, SettleQueuedOwnerDeath, TypeOK, RequestRow
<1>9. ASSUME NEW r \in Requests, CancelQueued(r)
      PROVE  TypeOK'
  BY <1>9 DEF CancelQueued, TypeOK, RequestRow
<1> QED
  BY <1>1, <1>2, <1>4, <1>5, <1>6, <1>7, <1>8, <1>9 DEF QueueNext

LEMMA TypeLease == TypeOK /\ LeaseNext => TypeOK'
<1> SUFFICES ASSUME TypeOK, NEW f \in Fences, 
                    \/ \E now \in Instants : MarkStarting(f, now)
                    \/ \E c \in Children : RecordProcessIdentity(f, c)
                    \/ MarkDispatchIntent(f)
                    \/ MarkActive(f)
                    \/ MarkDispatchAmbiguous(f)
                    \/ \E outcome \in {"failed", "cancelled"} : AbandonBeforePrompt(f, outcome)
                    \/ MarkExecutionRecoveryRequired(f)
                    \/ ReleaseExitedRecoverySeat(f)
                    \/ \E outcome \in {"completed", "failed", "cancelled"},
                          category \in {"none", "provider_capacity", "transport"},
                          now \in Instants : CompleteLiveTurn(f, outcome, category, now)
                    \/ Heartbeat(f)
                    \/ MarkSuspect(f)
             PROVE  TypeOK'
  BY DEF LeaseNext
<1> USE InstantsType
<1>0. f.request \in Requests
  BY DEF Fences
<1>1. ASSUME NEW now \in Instants, MarkStarting(f, now) PROVE TypeOK'
  <2>1. /\ turnRequests' \in [Requests -> RequestRow]
        /\ leases' \in [Requests -> LeaseRow]
    BY <1>1, SetPhaseType DEF MarkStarting
  <2>2. startHistory' \subseteq StartRow
    BY <1>0, <1>1 DEF MarkStarting, TypeOK, StartRow
  <2> QED
    BY <1>1, <2>1, <2>2 DEF MarkStarting, TypeOK
<1>2. ASSUME NEW c \in Children, RecordProcessIdentity(f, c) PROVE TypeOK'
  <2>1. [turnRequests[f.request] EXCEPT !.state = "dispatch_intent"] \in RequestRow
    BY <1>0 DEF TypeOK, RequestRow
  <2>2. [leases[f.request] EXCEPT !.phase = "dispatch_intent", !.identity = c] \in LeaseRow
    BY <1>0 DEF TypeOK, LeaseRow
  <2>3. turnRequests' \in [Requests -> RequestRow]
    BY <1>0, <1>2, <2>1 DEF RecordProcessIdentity, TypeOK
  <2>4. leases' \in [Requests -> LeaseRow]
    BY <1>0, <1>2, <2>2 DEF RecordProcessIdentity, TypeOK
  <2> QED
    BY <1>2, <2>3, <2>4 DEF RecordProcessIdentity, TypeOK
<1>3. ASSUME MarkDispatchIntent(f) \/ MarkActive(f) \/ MarkDispatchAmbiguous(f)
                \/ MarkExecutionRecoveryRequired(f)
      PROVE  TypeOK'
  <2>1. /\ turnRequests' \in [Requests -> RequestRow]
        /\ leases' \in [Requests -> LeaseRow]
    BY <1>3, SetPhaseType
       DEF MarkDispatchIntent, MarkActive, MarkDispatchAmbiguous, MarkExecutionRecoveryRequired
  <2> QED
    BY <1>3, <2>1
       DEF MarkDispatchIntent, MarkActive, MarkDispatchAmbiguous,
           MarkExecutionRecoveryRequired, TypeOK
<1>4. ASSUME NEW outcome \in {"failed", "cancelled"}, AbandonBeforePrompt(f, outcome)
      PROVE  TypeOK'
  <2>1. Release(f.request, outcome) /\ UNCHANGED <<clock, cooldowns>>
    BY <1>4 DEF AbandonBeforePrompt
  <2> QED
    BY <1>0, <2>1, ReleaseType DEF Release, TypeOK
<1>5. ASSUME ReleaseExitedRecoverySeat(f) PROVE TypeOK'
  <2>1. Release(f.request, "recovery_required") /\ UNCHANGED <<clock, cooldowns>>
    BY <1>5 DEF ReleaseExitedRecoverySeat
  <2> QED
    BY <1>0, <2>1, ReleaseType DEF Release, TypeOK
<1>6. ASSUME NEW outcome \in {"completed", "failed", "cancelled"},
             NEW category \in {"none", "provider_capacity", "transport"},
             NEW now \in Instants, CompleteLiveTurn(f, outcome, category, now)
      PROVE  TypeOK'
  <2>1. Release(f.request, outcome) /\ UNCHANGED clock
    BY <1>6 DEF CompleteLiveTurn
  <2>2. now + CapacityCooldown \in Nat
    BY PolicyAssumption
  <2>3. cooldowns' \in [Models -> Nat]
    BY <1>6, <2>2 DEF CompleteLiveTurn, MergeCooldown, TypeOK
  <2> QED
    BY <1>0, <2>1, <2>3, ReleaseType DEF Release, TypeOK
<1>7. ASSUME Heartbeat(f) \/ MarkSuspect(f) PROVE TypeOK'
  <2>1. \A b \in BOOLEAN : [leases[f.request] EXCEPT !.suspect = b] \in LeaseRow
    BY <1>0 DEF TypeOK, LeaseRow
  <2>2. leases' \in [Requests -> LeaseRow]
    BY <1>0, <1>7, <2>1 DEF Heartbeat, MarkSuspect, TypeOK
  <2> QED
    BY <1>7, <2>2 DEF Heartbeat, MarkSuspect, TypeOK
<1> QED
  BY <1>1, <1>2, <1>3, <1>4, <1>5, <1>6, <1>7

LEMMA TypePolicy == TypeOK /\ PolicyNext => TypeOK'
<1> SUFFICES ASSUME TypeOK, PolicyNext PROVE TypeOK'
  OBVIOUS
<1>1. ASSUME NEW m \in Models, NEW now \in Instants, NEW notBefore \in 0..MaxTime,
             SetCapacityCooldown(m, notBefore, now)
      PROVE  TypeOK'
  <2>1. notBefore \in Nat
    BY BoundsAssumption
  <2> QED
    BY <1>1, <2>1 DEF SetCapacityCooldown, MergeCooldown, TypeOK
<1>2. ASSUME ClaimDurablePolicy \/ BeginSoftDrainTo1 PROVE TypeOK'
  BY <1>2, PolicyAssumption DEF ClaimDurablePolicy, BeginSoftDrainTo1, TypeOK, PolicyRow
<1> QED
  BY <1>1, <1>2 DEF PolicyNext

LEMMA TypeStep == TypeOK /\ [Next]_vars => TypeOK'
<1>1. TypeOK /\ Tick => TypeOK'
  BY DEF Tick, store, TypeOK
<1>2. TypeOK /\ UNCHANGED vars => TypeOK'
  BY DEF vars, store, TypeOK
<1> QED
  BY <1>1, <1>2, TypeQueue, TypeLease, TypePolicy DEF Next

\* Every row of every table has its type, in every reachable state.
THEOREM TypeCorrect == Spec => []TypeOK
BY TypeInit, TypeStep, PTL DEF Spec

-----------------------------------------------------------------------------
(* What each kind of write does to the rows of one request, and that it     *)
(* leaves the rows of every other request alone.                            *)

SameRow(r) == turnRequests'[r] = turnRequests[r] /\ leases'[r] = leases[r]

LEMMA SetPhaseRows ==
  ASSUME TypeOK, NEW f \in Fences, NEW phase \in SeatPhases, SetPhase(f, phase)
  PROVE  /\ \A r \in Requests \ {f.request} : SameRow(r)
         /\ turnRequests'[f.request] = [turnRequests[f.request] EXCEPT !.state = phase]
         /\ leases'[f.request] = [leases[f.request] EXCEPT !.phase = phase]
<1>1. f.request \in Requests
  BY DEF Fences
<1>2. turnRequests \in [Requests -> RequestRow] /\ leases \in [Requests -> LeaseRow]
  BY DEF TypeOK
<1>3. /\ \A r \in Requests \ {f.request} : turnRequests'[r] = turnRequests[r]
      /\ turnRequests'[f.request] = [turnRequests[f.request] EXCEPT !.state = phase]
  BY <1>1, <1>2 DEF SetPhase
<1>4. /\ \A r \in Requests \ {f.request} : leases'[r] = leases[r]
      /\ leases'[f.request] = [leases[f.request] EXCEPT !.phase = phase]
  BY <1>1, <1>2 DEF SetPhase
<1> QED
  BY <1>3, <1>4 DEF SameRow

LEMMA ReleaseRows ==
  ASSUME TypeOK, NEW q \in Requests, NEW state \in Terminal, Release(q, state)
  PROVE  /\ \A r \in Requests \ {q} : SameRow(r)
         /\ turnRequests'[q] = [turnRequests[q] EXCEPT !.state = state]
         /\ leases'[q] = NoLease
<1>1. turnRequests \in [Requests -> RequestRow] /\ leases \in [Requests -> LeaseRow]
  BY DEF TypeOK
<1>2. /\ \A r \in Requests \ {q} : turnRequests'[r] = turnRequests[r]
      /\ turnRequests'[q] = [turnRequests[q] EXCEPT !.state = state]
  BY <1>1 DEF Release
<1>3. \A r \in Requests \ {q} : leases'[r] = leases[r]
  BY <1>1 DEF Release
<1>4. leases'[q] = NoLease
  BY <1>1 DEF Release
<1> QED
  BY <1>2, <1>3, <1>4 DEF SameRow

LEMMA IdentityRows ==
  ASSUME TypeOK, NEW f \in Fences, NEW c \in Children, RecordProcessIdentity(f, c)
  PROVE  /\ \A r \in Requests \ {f.request} : SameRow(r)
         /\ turnRequests'[f.request] =
              [turnRequests[f.request] EXCEPT !.state = "dispatch_intent"]
         /\ leases'[f.request] =
              [leases[f.request] EXCEPT !.phase = "dispatch_intent", !.identity = c]
<1>1. f.request \in Requests
  BY DEF Fences
<1>2. turnRequests \in [Requests -> RequestRow] /\ leases \in [Requests -> LeaseRow]
  BY DEF TypeOK
<1>3. /\ \A r \in Requests \ {f.request} : turnRequests'[r] = turnRequests[r]
      /\ turnRequests'[f.request] =
           [turnRequests[f.request] EXCEPT !.state = "dispatch_intent"]
  BY <1>1, <1>2 DEF RecordProcessIdentity
<1>4. \A r \in Requests \ {f.request} : leases'[r] = leases[r]
  BY <1>1, <1>2 DEF RecordProcessIdentity
<1>5. leases'[f.request] =
        [leases[f.request] EXCEPT !.phase = "dispatch_intent", !.identity = c]
  BY <1>1, <1>2 DEF RecordProcessIdentity
<1> QED
  BY <1>3, <1>4, <1>5 DEF SameRow

\* Expiry turns queued rows into queue_timeout rows and does nothing else.
LEMMA ExpireRows ==
  ASSUME TypeOK, NEW now \in Nat, NEW r \in Requests
  PROVE  \/ ExpireQueued(now)[r] = turnRequests[r] /\ r \notin Expired(now)
         \/ /\ r \in Expired(now) /\ State(r) = "queued"
            /\ ExpireQueued(now)[r] = [turnRequests[r] EXCEPT !.state = "queue_timeout"]
BY DEF ExpireQueued, Expired

LEMMA ReserveRows ==
  ASSUME TypeOK, NEW q \in Requests, NEW o \in Owners, NEW now \in Nat, Reserve(q, o, now)
  PROVE  /\ State(q) = "queued"
         /\ turnRequests'[q].state = "admitted"
         /\ turnRequests'[q].generation = turnRequests[q].generation + 1
         /\ leases[q].phase = "none"
         /\ leases'[q].phase = "admitted"
         /\ leases'[q].generation = turnRequests[q].generation + 1
         /\ leases'[q].identity = NoChild
         /\ leases'[q].acquiredAt = now
         /\ \A r \in Requests \ {q} :
              leases'[r] = leases[r] /\ turnRequests'[r] = ExpireQueued(now)[r]
<1>1. ExpireQueued(now) \in [Requests -> RequestRow] /\ leases \in [Requests -> LeaseRow]
  BY ExpireType DEF TypeOK
<1>2. State(q) = "queued"
  BY DEF Reserve, Journalled
<1>3. /\ turnRequests'[q] = [ExpireQueued(now)[q] EXCEPT
           !.state = "admitted", !.generation = turnRequests[q].generation + 1]
      /\ \A r \in Requests \ {q} : turnRequests'[r] = ExpireQueued(now)[r]
  BY <1>1 DEF Reserve
<1>4. /\ turnRequests'[q].state = "admitted"
      /\ turnRequests'[q].generation = turnRequests[q].generation + 1
  BY <1>1, <1>3 DEF RequestRow
<1>5. /\ leases'[q] = [NoLease EXCEPT
           !.phase = "admitted", !.generation = turnRequests[q].generation + 1,
           !.owner = o, !.acquiredAt = now]
      /\ \A r \in Requests \ {q} : leases'[r] = leases[r]
  BY <1>1 DEF Reserve
<1>6. /\ leases'[q].phase = "admitted"
      /\ leases'[q].generation = turnRequests[q].generation + 1
      /\ leases'[q].identity = NoChild
      /\ leases'[q].acquiredAt = now
  BY <1>5 DEF NoLease
<1> QED
  BY <1>2, <1>3, <1>4, <1>5, <1>6 DEF Reserve

-----------------------------------------------------------------------------
(* What one transaction may do to one request.  Every action is one of     *)
(* these; the theorems about a request's life follow from this relation.   *)

PhaseMoves ==
  {<<"admitted", "starting">>, <<"starting", "dispatch_intent">>,
   <<"dispatch_intent", "active">>, <<"dispatch_intent", "dispatch_ambiguous">>}
  \cup ({"starting", "dispatch_intent", "dispatch_ambiguous", "active"} \X {"recovery_required"})

ReleaseMoves ==
  (StartPhases \X {"failed", "cancelled"})
  \cup ({"active"} \X {"completed", "failed", "cancelled"})
  \cup (SeatPhases \X {"recovery_required"})

Kept(r) ==
  /\ turnRequests'[r] = turnRequests[r]
  /\ leases'[r].phase = leases[r].phase
  /\ leases'[r].generation = leases[r].generation
  /\ leases'[r].identity = leases[r].identity
  /\ leases'[r].acquiredAt = leases[r].acquiredAt
  /\ r \in turnPayloads' => r \in turnPayloads \/ State(r) = "queued"

Submitted(r) ==
  /\ State(r) = "absent" /\ turnRequests'[r].state = "queued"
  /\ turnRequests'[r].generation = 0
  /\ leases'[r] = leases[r]

LeftQueue(r) ==
  /\ State(r) = "queued" /\ turnRequests'[r].state \in {"cancelled", "queue_timeout"}
  /\ turnRequests'[r].generation = turnRequests[r].generation
  /\ leases'[r] = leases[r]
  /\ r \notin turnPayloads'

\* The transaction that seats q, with what its caller checked before.
Admitting(q) ==
  \E o \in Owners, now \in Nat :
    /\ HasDispatchCapacity(now) /\ Reserve(q, o, now)
    /\ UNCHANGED <<clock, startHistory, cooldowns, policyState>>

TookSeat(r) ==
  /\ Admitting(r)
  /\ State(r) = "queued" /\ turnRequests'[r].state = "admitted"
  /\ turnRequests'[r].generation = turnRequests[r].generation + 1
  /\ leases[r].phase = "none" /\ leases'[r].phase = "admitted"
  /\ leases'[r].generation = turnRequests'[r].generation
  /\ leases'[r].identity = NoChild

Moved(r) ==
  /\ <<leases[r].phase, leases'[r].phase>> \in PhaseMoves
  /\ turnRequests'[r] = [turnRequests[r] EXCEPT !.state = leases'[r].phase]
  /\ leases'[r].generation = leases[r].generation
  /\ leases'[r].acquiredAt = leases[r].acquiredAt
  /\ \/ leases'[r].identity = leases[r].identity
     \/ leases[r].identity = NoChild /\ leases'[r].phase = "dispatch_intent"
  /\ r \in turnPayloads' =>
       r \in turnPayloads /\ leases'[r].phase \notin {"active", "recovery_required"}

GaveBack(r) ==
  /\ <<leases[r].phase, turnRequests'[r].state>> \in ReleaseMoves
  /\ turnRequests'[r] = [turnRequests[r] EXCEPT !.state = turnRequests'[r].state]
  /\ leases'[r] = NoLease
  /\ r \notin turnPayloads'

RowStep(r) ==
  Kept(r) \/ Submitted(r) \/ LeftQueue(r) \/ TookSeat(r) \/ Moved(r) \/ GaveBack(r)

LEMMA SameRowKept ==
  ASSUME NEW r \in Requests, SameRow(r),
         r \in turnPayloads' => r \in turnPayloads \/ State(r) = "queued"
  PROVE  RowStep(r)
BY DEF SameRow, RowStep, Kept

LEMMA SetPhaseRowStep ==
  ASSUME TypeOK, NEW f \in Fences, NEW phase \in SeatPhases, SetPhase(f, phase),
         <<leases[f.request].phase, phase>> \in PhaseMoves,
         turnPayloads' \subseteq turnPayloads,
         phase \in {"active", "recovery_required"} => f.request \notin turnPayloads'
  PROVE  \A r \in Requests : RowStep(r)
<1> TAKE r \in Requests
<1>1. CASE r # f.request
  <2>1. SameRow(r)
    BY <1>1, SetPhaseRows
  <2> QED
    BY <2>1, SameRowKept
<1>2. CASE r = f.request
  <2>1. leases'[r] = [leases[r] EXCEPT !.phase = phase]
    BY <1>2, SetPhaseRows
  <2>2. leases[r] \in LeaseRow
    BY DEF TypeOK
  <2>3. /\ leases'[r].phase = phase
        /\ leases'[r].generation = leases[r].generation
        /\ leases'[r].acquiredAt = leases[r].acquiredAt
        /\ leases'[r].identity = leases[r].identity
    BY <2>1, <2>2 DEF LeaseRow
  <2>4. turnRequests'[r] = [turnRequests[r] EXCEPT !.state = phase]
    BY <1>2, SetPhaseRows
  <2>5. Moved(r)
    BY <1>2, <2>3, <2>4 DEF Moved
  <2> QED
    BY <2>5 DEF RowStep
<1> QED
  BY <1>1, <1>2

LEMMA ReleaseRowStep ==
  ASSUME TypeOK, NEW q \in Requests, NEW state \in Terminal, Release(q, state),
         <<leases[q].phase, state>> \in ReleaseMoves
  PROVE  \A r \in Requests : RowStep(r)
<1> TAKE r \in Requests
<1>1. CASE r # q
  <2>1. SameRow(r)
    BY <1>1, ReleaseRows
  <2>2. turnPayloads' \subseteq turnPayloads
    BY DEF Release
  <2> QED
    BY <2>1, <2>2, SameRowKept
<1>2. CASE r = q
  <2>1. turnRequests'[r] = [turnRequests[r] EXCEPT !.state = state] /\ leases'[r] = NoLease
    BY <1>2, ReleaseRows
  <2>2. turnRequests'[r].state = state
    BY <2>1 DEF TypeOK, RequestRow
  <2>3. r \notin turnPayloads'
    BY <1>2 DEF Release
  <2>4. GaveBack(r)
    BY <1>2, <2>1, <2>2, <2>3 DEF GaveBack
  <2> QED
    BY <2>4 DEF RowStep
<1> QED
  BY <1>1, <1>2

\* A queue expiry is a row step of every request it expires.
LEMMA ExpiredRowStep ==
  ASSUME TypeOK, NEW now \in Nat, NEW r \in Requests,
         turnRequests'[r] = ExpireQueued(now)[r], leases'[r] = leases[r],
         turnPayloads' = turnPayloads \ Expired(now)
  PROVE  RowStep(r)
<1>1. CASE turnRequests'[r] = turnRequests[r]
  BY <1>1, SameRowKept DEF SameRow
<1>2. CASE /\ r \in Expired(now) /\ State(r) = "queued"
           /\ turnRequests'[r] = [turnRequests[r] EXCEPT !.state = "queue_timeout"]
  <2>1. /\ turnRequests'[r].state = "queue_timeout"
        /\ turnRequests'[r].generation = turnRequests[r].generation
    BY <1>2 DEF TypeOK, RequestRow
  <2> QED
    BY <1>2, <2>1 DEF RowStep, LeftQueue
<1> QED
  BY <1>1, <1>2, ExpireRows

LEMMA ReserveRowStep ==
  ASSUME TypeOK, NEW q \in Requests, NEW o \in Owners, NEW now \in Nat,
         HasDispatchCapacity(now), Reserve(q, o, now),
         UNCHANGED <<clock, startHistory, cooldowns, policyState>>,
         turnPayloads' = turnPayloads \ Expired(now)
  PROVE  \A r \in Requests : RowStep(r)
<1> TAKE r \in Requests
<1>1. CASE r # q
  BY <1>1, ReserveRows, ExpiredRowStep
<1>2. CASE r = q
  <2>1. TookSeat(r)
    BY <1>2, ReserveRows DEF TookSeat, Admitting
  <2> QED
    BY <2>1 DEF RowStep
<1> QED
  BY <1>1, <1>2

\* A request that leaves the queue by itself.
LEMMA DequeueRowStep ==
  ASSUME TypeOK, NEW q \in Requests, State(q) = "queued",
         turnRequests' = [turnRequests EXCEPT ![q].state = "cancelled"],
         turnPayloads' = turnPayloads \ {q}, leases' = leases
  PROVE  \A r \in Requests : RowStep(r)
<1> TAKE r \in Requests
<1>1. CASE r # q
  <2>1. turnRequests'[r] = turnRequests[r]
    BY <1>1 DEF TypeOK
  <2> QED
    BY <2>1, SameRowKept DEF SameRow
<1>2. CASE r = q
  <2>1. turnRequests'[r] = [turnRequests[r] EXCEPT !.state = "cancelled"]
    BY <1>2 DEF TypeOK
  <2>2. /\ turnRequests'[r].state = "cancelled"
        /\ turnRequests'[r].generation = turnRequests[r].generation
    BY <2>1 DEF TypeOK, RequestRow
  <2>3. LeftQueue(r)
    BY <1>2, <2>2 DEF LeftQueue
  <2> QED
    BY <2>3 DEF RowStep
<1> QED
  BY <1>1, <1>2

LEMMA QueueRowStep ==
  ASSUME TypeOK, QueueNext
  PROVE  \A r \in Requests : RowStep(r)
<1> USE InstantsType
<1>1. ASSUME NEW q \in Requests, NEW o \in Owners, NEW now \in Instants,
             Enqueue(q, o, now) \/ EnqueueWithPayload(q, o, now)
      PROVE  \A r \in Requests : RowStep(r)
  <2> TAKE r \in Requests
  <2>1. CASE r # q
    <3>1. SameRow(r)
      BY <1>1, <2>1 DEF Enqueue, EnqueueWithPayload, TypeOK, SameRow
    <3> QED
      BY <1>1, <2>1, <3>1, SameRowKept DEF Enqueue, EnqueueWithPayload
  <2>2. CASE r = q
    <3>1. turnRequests'[r] =
            [state |-> "queued", enqueuedAt |-> now, generation |-> 0, queuedOwner |-> o]
      BY <1>1, <2>2 DEF Enqueue, EnqueueWithPayload, TypeOK
    <3>2. State(r) = "absent" /\ leases' = leases
      BY <1>1, <2>2 DEF Enqueue, EnqueueWithPayload
    <3> QED
      BY <3>1, <3>2 DEF RowStep, Submitted
  <2> QED
    BY <2>1, <2>2
<1>2. ASSUME NEW now \in Instants, ExpireOnly(now)
      PROVE  \A r \in Requests : RowStep(r)
  BY <1>2, ExpiredRowStep DEF ExpireOnly
<1>3. ASSUME NEW q \in Requests, NEW o \in Owners, NEW now \in Instants,
             AdmitRequest(q, o, now)
      PROVE  \A r \in Requests : RowStep(r)
  BY <1>2, <1>3, ReserveRowStep DEF AdmitRequest
<1>4. ASSUME NEW o \in Owners, NEW now \in Instants, AdmitNext(o, now)
      PROVE  \A r \in Requests : RowStep(r)
  BY <1>2, <1>4, ReserveRowStep DEF AdmitNext
<1>5. ASSUME NEW q \in Requests, NEW now \in Instants, ReadPayload(q, now)
      PROVE  \A r \in Requests : RowStep(r)
  BY <1>5, SameRowKept DEF ReadPayload, SameRow
<1>6. ASSUME NEW q \in Requests, PersistPayload(q)
      PROVE  \A r \in Requests : RowStep(r)
  BY <1>6, SameRowKept DEF PersistPayload, SameRow
<1>7. ASSUME NEW q \in Requests, CancelQueued(q)
      PROVE  \A r \in Requests : RowStep(r)
  BY <1>7, DequeueRowStep DEF CancelQueued
<1>8. ASSUME NEW q \in Requests, NEW o \in Owners, SettleQueuedOwnerDeath(q, o)
      PROVE  \A r \in Requests : RowStep(r)
  BY <1>8, DequeueRowStep DEF SettleQueuedOwnerDeath
<1> QED
  BY <1>1, <1>2, <1>3, <1>4, <1>5, <1>6, <1>7, <1>8 DEF QueueNext

LEMMA LeaseRowStep ==
  ASSUME TypeOK, LeaseNext
  PROVE  \A r \in Requests : RowStep(r)
<1> USE InstantsType
<1>0. \A f \in Fences : f.request \in Requests
  BY DEF Fences
<1>1. ASSUME NEW f \in Fences, NEW now \in Instants, MarkStarting(f, now)
      PROVE  \A r \in Requests : RowStep(r)
  BY <1>1, SetPhaseRowStep DEF MarkStarting, PhaseMoves
<1>2. ASSUME NEW f \in Fences, NEW c \in Children, RecordProcessIdentity(f, c)
      PROVE  \A r \in Requests : RowStep(r)
  <2> TAKE r \in Requests
  <2>1. CASE r # f.request
    <3>1. SameRow(r)
      BY <1>2, <2>1, IdentityRows
    <3> QED
      BY <1>2, <3>1, SameRowKept DEF RecordProcessIdentity
  <2>2. CASE r = f.request
    <3>1. leases'[r] = [leases[r] EXCEPT !.phase = "dispatch_intent", !.identity = c]
      BY <1>2, <2>2, IdentityRows
    <3>2. leases[r] \in LeaseRow
      BY DEF TypeOK
    <3>3. /\ leases'[r].phase = "dispatch_intent"
          /\ leases'[r].generation = leases[r].generation
          /\ leases'[r].acquiredAt = leases[r].acquiredAt
      BY <3>1, <3>2 DEF LeaseRow
    <3>4. turnRequests'[r] = [turnRequests[r] EXCEPT !.state = "dispatch_intent"]
      BY <1>2, <2>2, IdentityRows
    <3>5. /\ leases[r].phase = "starting" /\ leases[r].identity = NoChild
          /\ turnPayloads' = turnPayloads
      BY <1>2, <2>2 DEF RecordProcessIdentity
    <3>6. Moved(r)
      BY <3>3, <3>4, <3>5 DEF Moved, PhaseMoves
    <3> QED
      BY <3>6 DEF RowStep
  <2> QED
    BY <2>1, <2>2
<1>3. ASSUME NEW f \in Fences, MarkDispatchIntent(f)
      PROVE  \A r \in Requests : RowStep(r)
  BY <1>3, SetPhaseRowStep DEF MarkDispatchIntent, PhaseMoves
<1>4. ASSUME NEW f \in Fences, MarkActive(f)
      PROVE  \A r \in Requests : RowStep(r)
  BY <1>4, SetPhaseRowStep DEF MarkActive, PhaseMoves
<1>5. ASSUME NEW f \in Fences, MarkDispatchAmbiguous(f)
      PROVE  \A r \in Requests : RowStep(r)
  BY <1>5, SetPhaseRowStep DEF MarkDispatchAmbiguous, PhaseMoves
<1>6. ASSUME NEW f \in Fences, NEW outcome \in {"failed", "cancelled"},
             AbandonBeforePrompt(f, outcome)
      PROVE  \A r \in Requests : RowStep(r)
  BY <1>0, <1>6, ReleaseRowStep DEF AbandonBeforePrompt, ReleaseMoves
<1>7. ASSUME NEW f \in Fences, MarkExecutionRecoveryRequired(f)
      PROVE  \A r \in Requests : RowStep(r)
  BY <1>7, SetPhaseRowStep DEF MarkExecutionRecoveryRequired, PhaseMoves
<1>8. ASSUME NEW f \in Fences, ReleaseExitedRecoverySeat(f)
      PROVE  \A r \in Requests : RowStep(r)
  BY <1>0, <1>8, ReleaseRowStep DEF ReleaseExitedRecoverySeat, ReleaseMoves
<1>9. ASSUME NEW f \in Fences, NEW outcome \in {"completed", "failed", "cancelled"},
             NEW category \in {"none", "provider_capacity", "transport"},
             NEW now \in Instants, CompleteLiveTurn(f, outcome, category, now)
      PROVE  \A r \in Requests : RowStep(r)
  BY <1>0, <1>9, ReleaseRowStep DEF CompleteLiveTurn, ReleaseMoves
<1>10. ASSUME NEW f \in Fences, Heartbeat(f) \/ MarkSuspect(f)
       PROVE  \A r \in Requests : RowStep(r)
  <2> TAKE r \in Requests
  <2>1. \E b \in BOOLEAN : leases' = [leases EXCEPT ![f.request].suspect = b]
    BY <1>10 DEF Heartbeat, MarkSuspect
  <2>2. leases[r] \in LeaseRow
    BY DEF TypeOK
  <2>3. \/ leases'[r] = leases[r]
        \/ \E b \in BOOLEAN : leases'[r] = [leases[r] EXCEPT !.suspect = b]
    BY <1>0, <2>1 DEF TypeOK
  <2>4. /\ leases'[r].phase = leases[r].phase
        /\ leases'[r].generation = leases[r].generation
        /\ leases'[r].identity = leases[r].identity
        /\ leases'[r].acquiredAt = leases[r].acquiredAt
    BY <2>2, <2>3 DEF LeaseRow
  <2> QED
    BY <1>10, <2>4 DEF Heartbeat, MarkSuspect, RowStep, Kept
<1> QED
  BY <1>1, <1>2, <1>3, <1>4, <1>5, <1>6, <1>7, <1>8, <1>9, <1>10 DEF LeaseNext

\* Whatever the step, every request makes one of the moves of RowStep.
LEMMA StepRowStep ==
  ASSUME TypeOK, [Next]_vars
  PROVE  \A r \in Requests : RowStep(r)
<1>1. CASE PolicyNext
  BY <1>1, SameRowKept
     DEF PolicyNext, SetCapacityCooldown, ClaimDurablePolicy, BeginSoftDrainTo1, SameRow
<1>2. CASE Tick \/ UNCHANGED vars
  BY <1>2, SameRowKept DEF Tick, vars, store, SameRow
<1> QED
  BY <1>1, <1>2, QueueRowStep, LeaseRowStep DEF Next

-----------------------------------------------------------------------------
(* The life of one request. *)

LEMMA InventoryStep ==
  TypeOK /\ InventoryTrusted /\ [Next]_vars => InventoryTrusted'
<1> SUFFICES ASSUME TypeOK, InventoryTrusted, [Next]_vars, NEW r \in Requests
             PROVE  /\ leases'[r].phase # "none" =>
                         /\ turnRequests'[r].state = leases'[r].phase
                         /\ leases'[r].generation = turnRequests'[r].generation
                         /\ leases'[r].generation >= 1
                    /\ turnRequests'[r].state \in SeatPhases \ {"recovery_required"} =>
                         leases'[r].phase # "none"
                    /\ leases'[r].identity # NoChild =>
                         leases'[r].phase \notin {"none", "admitted", "starting"}
  BY DEF InventoryTrusted, State
<1>1. /\ leases[r].phase # "none" =>
           /\ turnRequests[r].state = leases[r].phase
           /\ leases[r].generation = turnRequests[r].generation
           /\ leases[r].generation >= 1
      /\ turnRequests[r].state \in SeatPhases \ {"recovery_required"} =>
           leases[r].phase # "none"
      /\ leases[r].identity # NoChild =>
           leases[r].phase \notin {"none", "admitted", "starting"}
  BY DEF InventoryTrusted, State
<1>2. turnRequests[r] \in RequestRow /\ leases[r].phase \in SeatPhases \cup {"none"}
  BY DEF TypeOK, LeaseRow
<1>3. CASE Kept(r)
  BY <1>1, <1>3 DEF Kept
<1>4. CASE Submitted(r) \/ LeftQueue(r)
  <2>1. State(r) \notin SeatPhases
    BY <1>4 DEF Submitted, LeftQueue
  <2>2. leases[r].phase = "none"
    BY <1>1, <1>2, <2>1 DEF State
  <2> QED
    BY <1>1, <1>4, <2>2 DEF Submitted, LeftQueue
<1>5. CASE TookSeat(r)
  BY <1>1, <1>2, <1>5 DEF TookSeat, RequestRow
<1>6. CASE Moved(r)
  <2>1. /\ turnRequests'[r].state = leases'[r].phase
        /\ turnRequests'[r].generation = turnRequests[r].generation
    BY <1>2, <1>6 DEF Moved, RequestRow
  <2>2. leases[r].phase # "none" /\ leases'[r].phase # "none"
    BY <1>6 DEF Moved, PhaseMoves
  <2>3. leases'[r].identity # NoChild => leases'[r].phase \notin {"none", "admitted", "starting"}
    BY <1>1, <1>6 DEF Moved, PhaseMoves
  <2> QED
    BY <1>1, <1>6, <2>1, <2>2, <2>3 DEF Moved
<1>7. CASE GaveBack(r)
  BY <1>7 DEF GaveBack, ReleaseMoves, NoLease
<1> QED
  BY <1>3, <1>4, <1>5, <1>6, <1>7, StepRowStep DEF RowStep

\* The whole-inventory check of listRecoverableDispatches never fails on a row
\* that only this code wrote, so one request cannot stop the recovery of others.
THEOREM InventoryAlwaysTrusted == Spec => []InventoryTrusted
<1>1. Init => InventoryTrusted
  BY DEF Init, InventoryTrusted, State, NoLease
<1> QED
  BY <1>1, TypeCorrect, InventoryStep, PTL DEF Spec

LEMMA LeasedOnceStep ==
  TypeOK /\ InventoryTrusted /\ LeasedAtMostOnce /\ [Next]_vars => LeasedAtMostOnce'
<1> SUFFICES ASSUME TypeOK, InventoryTrusted, LeasedAtMostOnce, [Next]_vars, NEW r \in Requests
             PROVE  /\ turnRequests'[r].generation <= 1
                    /\ turnRequests'[r].state \in {"absent", "queued"} =>
                         turnRequests'[r].generation = 0
  BY DEF LeasedAtMostOnce, State
<1>1. /\ turnRequests[r].generation <= 1
      /\ turnRequests[r].state \in {"absent", "queued"} => turnRequests[r].generation = 0
  BY DEF LeasedAtMostOnce, State
<1>2. turnRequests[r] \in RequestRow
  BY DEF TypeOK
<1>3. CASE Kept(r) \/ Submitted(r) \/ LeftQueue(r) \/ TookSeat(r)
  BY <1>1, <1>3 DEF Kept, Submitted, LeftQueue, TookSeat, State
<1>4. CASE Moved(r)
  <2>1. /\ turnRequests'[r].state = leases'[r].phase
        /\ turnRequests'[r].generation = turnRequests[r].generation
    BY <1>2, <1>4 DEF Moved, RequestRow
  <2> QED
    BY <1>1, <1>4, <2>1 DEF Moved, PhaseMoves
<1>5. CASE GaveBack(r)
  <2>1. turnRequests'[r].generation = turnRequests[r].generation
    BY <1>2, <1>5 DEF GaveBack, RequestRow
  <2> QED
    BY <1>1, <1>5, <2>1 DEF GaveBack, ReleaseMoves
<1> QED
  BY <1>3, <1>4, <1>5, StepRowStep DEF RowStep

\* A request id is given a lease at most once, over any number of connectors,
\* reapers and restarts: nothing puts an admitted request back in the queue.
THEOREM AlwaysLeasedAtMostOnce == Spec => []LeasedAtMostOnce
<1>1. Init => LeasedAtMostOnce
  BY DEF Init, LeasedAtMostOnce, State
<1> QED
  BY <1>1, TypeCorrect, InventoryAlwaysTrusted, LeasedOnceStep, PTL DEF Spec

LEMMA PayloadStep ==
  TypeOK /\ InventoryTrusted /\ NoReplayablePayload /\ [Next]_vars => NoReplayablePayload'
<1> DEFINE Open == {"queued", "dispatch_ambiguous"} \cup StartPhases
<1> SUFFICES ASSUME TypeOK, InventoryTrusted, NoReplayablePayload, [Next]_vars,
                    NEW r \in turnPayloads'
             PROVE  turnRequests'[r].state \in Open
  BY DEF NoReplayablePayload, State
<1>1. TypeOK'
  BY TypeStep
<1>2. r \in Requests
  BY <1>1 DEF TypeOK
<1>3. r \in turnPayloads => turnRequests[r].state \in Open
  BY DEF NoReplayablePayload, State
<1>4. CASE Kept(r)
  BY <1>3, <1>4 DEF Kept, State
<1>5. CASE Submitted(r) \/ LeftQueue(r) \/ TookSeat(r) \/ GaveBack(r)
  BY <1>5 DEF Submitted, LeftQueue, TookSeat, GaveBack
<1>6. CASE Moved(r)
  <2>1. turnRequests'[r].state = leases'[r].phase
    BY <1>2, <1>6 DEF Moved, TypeOK, RequestRow
  <2> QED
    BY <1>6, <2>1 DEF Moved, PhaseMoves
<1> QED
  BY <1>2, <1>4, <1>5, <1>6, StepRowStep DEF RowStep

\* The prompt of a turn that is active, settled or under recovery is not in the
\* ledger any more, whichever process made the last write.
THEOREM PayloadNeverReplayable == Spec => []NoReplayablePayload
<1>1. Init => NoReplayablePayload
  BY DEF Init, NoReplayablePayload
<1> QED
  BY <1>1, TypeCorrect, InventoryAlwaysTrusted, PayloadStep, PTL DEF Spec

LEMMA TransitionStep ==
  ASSUME TypeOK, InventoryTrusted, [Next]_vars, NEW r \in Requests
  PROVE  State(r)' # State(r) => <<State(r), State(r)'>> \in DocumentedTransitions
<1> USE DEF State
<1>1. leases[r].phase # "none" => turnRequests[r].state = leases[r].phase
  BY DEF InventoryTrusted
<1>2. CASE Kept(r)
  BY <1>2 DEF Kept
<1>3. CASE Submitted(r) \/ LeftQueue(r) \/ TookSeat(r)
  BY <1>3 DEF Submitted, LeftQueue, TookSeat, DocumentedTransitions
<1>4. CASE Moved(r)
  <2>1. turnRequests'[r].state = leases'[r].phase
    BY <1>4 DEF Moved, TypeOK, RequestRow
  <2>2. turnRequests[r].state = leases[r].phase
    BY <1>1, <1>4 DEF Moved, PhaseMoves
  <2>3. <<leases[r].phase, leases'[r].phase>> \in DocumentedTransitions
    BY <1>4 DEF Moved, PhaseMoves, DocumentedTransitions
  <2> QED
    BY <2>1, <2>2, <2>3
<1>5. CASE GaveBack(r)
  <2>1. turnRequests[r].state = leases[r].phase
    BY <1>1, <1>5 DEF GaveBack, ReleaseMoves
  <2>2. <<leases[r].phase, turnRequests'[r].state>> \in DocumentedTransitions
    BY <1>5 DEF GaveBack, ReleaseMoves, DocumentedTransitions
  <2> QED
    BY <2>1, <2>2
<1> QED
  BY <1>2, <1>3, <1>4, <1>5, StepRowStep DEF RowStep

\* A request only ever makes the transitions of the domain model's table.
THEOREM TransitionsDocumented == Spec => OnlyDocumentedTransitions
<1>1. TypeOK /\ InventoryTrusted /\ [Next]_vars =>
        [\A r \in Requests :
           State(r)' # State(r) => <<State(r), State(r)'>> \in DocumentedTransitions]_vars
  BY TransitionStep
<1> QED
  BY <1>1, TypeCorrect, InventoryAlwaysTrusted, PTL DEF Spec, OnlyDocumentedTransitions

LEMMA FenceStep ==
  ASSUME TypeOK, InventoryTrusted, [Next]_vars, NEW r \in Requests
  PROVE  /\ State(r) \in Terminal => State(r)' = State(r)
         /\ leases[r].identity # NoChild => leases[r].identity' \in {leases[r].identity, NoChild}
         /\ leases[r].phase = "none" /\ leases[r]'.phase # "none" => State(r) = "queued"
<1> USE DEF State
<1>1. /\ leases[r].phase # "none" => turnRequests[r].state = leases[r].phase
      /\ turnRequests[r] \in RequestRow
  BY DEF InventoryTrusted, TypeOK
<1>2. CASE Kept(r)
  BY <1>2 DEF Kept
<1>3. CASE Submitted(r) \/ LeftQueue(r) \/ TookSeat(r)
  BY <1>3 DEF Submitted, LeftQueue, TookSeat
<1>4. CASE Moved(r)
  <2>1. turnRequests[r].state = leases[r].phase /\ leases[r].phase \notin Terminal \cup {"none"}
    BY <1>1, <1>4 DEF Moved, PhaseMoves
  <2>2. leases[r].identity # NoChild => leases'[r].identity = leases[r].identity
    BY <1>4 DEF Moved
  <2> QED
    BY <2>1, <2>2
<1>5. CASE GaveBack(r)
  <2>1. leases[r].phase # "none" /\ leases'[r].identity = NoChild
    BY <1>5 DEF GaveBack, ReleaseMoves, NoLease
  <2>2. turnRequests[r].state = leases[r].phase
    BY <1>1, <2>1
  <2>3. leases[r].phase \in Terminal => turnRequests'[r].state = leases[r].phase
    BY <1>5 DEF GaveBack, ReleaseMoves
  <2> QED
    BY <2>1, <2>2, <2>3
<1> QED
  BY <1>2, <1>3, <1>4, <1>5, StepRowStep DEF RowStep

\* No caller, whatever fence it kept, revives a settled request, rebinds a
\* dispatch to another process, or seats a request that is not queued.
THEOREM FencesAlwaysHold == Spec => FencesHold
<1>1. TypeOK /\ InventoryTrusted /\ [Next]_vars =>
        [\A r \in Requests :
           /\ State(r) \in Terminal => State(r)' = State(r)
           /\ leases[r].identity # NoChild =>
                leases[r].identity' \in {leases[r].identity, NoChild}
           /\ leases[r].phase = "none" /\ leases[r]'.phase # "none" =>
                State(r) = "queued"]_vars
  BY FenceStep
<1> QED
  BY <1>1, TypeCorrect, InventoryAlwaysTrusted, PTL DEF Spec, FencesHold

-----------------------------------------------------------------------------
(* The account: seats, starts and their spacing. *)

Starting == InPhase(StartPhases)

LEMMA SeatedFinite ==
  /\ IsFiniteSet(Seated) /\ Cardinality(Seated) \in Nat
  /\ IsFiniteSet(Starting) /\ Cardinality(Starting) \in Nat
<1>1. Seated \subseteq Requests /\ Starting \subseteq Requests
  BY DEF Seated, Starting, InPhase
<1> QED
  BY <1>1, RequestsAssumption, FS_Subset, FS_CardinalityType

\* The only step that seats or starts anyone is an admission, and it seats one.
LEMMA SeatStep ==
  ASSUME TypeOK, [Next]_vars
  PROVE  \/ Seated' \subseteq Seated /\ Starting' \subseteq Starting
         \/ \E q \in Requests :
              /\ Admitting(q) /\ q \notin Seated /\ q \notin Starting
              /\ Seated' = Seated \cup {q} /\ Starting' = Starting \cup {q}
<1>1. CASE \E q \in Requests : Admitting(q)
  <2>1. PICK q \in Requests : Admitting(q)
    BY <1>1
  <2>2. /\ leases[q].phase = "none" /\ leases'[q].phase = "admitted"
        /\ \A r \in Requests \ {q} : leases'[r] = leases[r]
    BY <2>1, ReserveRows DEF Admitting
  <2>3. q \notin Seated /\ Seated' = Seated \cup {q}
    BY <2>2 DEF Seated
  <2>4. q \notin Starting /\ Starting' = Starting \cup {q}
    BY <2>2 DEF Starting, InPhase
  <2> QED
    BY <2>1, <2>3, <2>4
<1>2. CASE ~ \E q \in Requests : Admitting(q)
  <2>1. ASSUME NEW r \in Requests
        PROVE  /\ leases'[r].phase # "none" => leases[r].phase # "none"
               /\ leases'[r].phase \in StartPhases => leases[r].phase \in StartPhases
    <3>1. RowStep(r) /\ ~TookSeat(r)
      BY <1>2, StepRowStep DEF TookSeat
    <3>2. CASE Kept(r) \/ Submitted(r) \/ LeftQueue(r)
      BY <3>2 DEF Kept, Submitted, LeftQueue
    <3>3. CASE Moved(r)
      BY <3>3 DEF Moved, PhaseMoves
    <3>4. CASE GaveBack(r)
      BY <3>4 DEF GaveBack, NoLease
    <3> QED
      BY <3>1, <3>2, <3>3, <3>4 DEF RowStep
  <2>2. Seated' \subseteq Seated /\ Starting' \subseteq Starting
    BY <2>1 DEF Seated, Starting, InPhase
  <2> QED
    BY <2>2
<1> QED
  BY <1>1, <1>2

LEMMA CardinalityStep ==
  ASSUME TypeOK, [Next]_vars
  PROVE  \/ /\ Seated' \subseteq Seated
            /\ Cardinality(Seated') <= Cardinality(Seated)
            /\ Cardinality(Starting') <= Cardinality(Starting)
         \/ \E q \in Requests :
              /\ Admitting(q)
              /\ Cardinality(Seated') = Cardinality(Seated) + 1
              /\ Cardinality(Starting') = Cardinality(Starting) + 1
<1>1. CASE Seated' \subseteq Seated /\ Starting' \subseteq Starting
  BY <1>1, SeatedFinite, FS_Subset
<1>2. ASSUME NEW q \in Requests, Admitting(q), q \notin Seated, q \notin Starting,
             Seated' = Seated \cup {q}, Starting' = Starting \cup {q}
      PROVE  /\ Cardinality(Seated') = Cardinality(Seated) + 1
             /\ Cardinality(Starting') = Cardinality(Starting) + 1
  BY <1>2, SeatedFinite, FS_AddElement
<1> QED
  BY <1>1, <1>2, SeatStep

LEMMA StartsStep ==
  TypeOK /\ StartsWithinPolicy /\ [Next]_vars => StartsWithinPolicy'
<1> SUFFICES ASSUME TypeOK, StartsWithinPolicy, [Next]_vars
             PROVE  Cardinality(Starting') <= MaxConcurrentStarts
  BY DEF StartsWithinPolicy, Starting
<1>1. Cardinality(Starting) <= MaxConcurrentStarts /\ MaxConcurrentStarts \in Nat
  BY PolicyAssumption DEF StartsWithinPolicy, Starting
<1>2. \A q \in Requests : Admitting(q) => Cardinality(Starting) < MaxConcurrentStarts
  BY DEF Admitting, HasDispatchCapacity, Starting
<1>3. Cardinality(Starting) \in Nat /\ Cardinality(Starting') \in Nat
  <2>1. Starting' \subseteq Requests
    BY DEF Starting, InPhase
  <2> QED
    BY <2>1, SeatedFinite, RequestsAssumption, FS_Subset, FS_CardinalityType
<1> QED
  BY <1>1, <1>2, <1>3, CardinalityStep

\* At most MaxConcurrentStarts turns of the account are between admission and
\* the write of their prompt.
THEOREM StartsAlwaysWithinPolicy == Spec => []StartsWithinPolicy
<1>1. Init => StartsWithinPolicy
  <2>1. Init => InPhase(StartPhases) = {}
    BY DEF Init, InPhase, NoLease
  <2> QED
    BY <2>1, FS_EmptySet, PolicyAssumption DEF StartsWithinPolicy
<1> QED
  BY <1>1, TypeCorrect, StartsStep, PTL DEF Spec

\* What may happen to the policy row.  A release may settle a drain, and then
\* it has just taken the lease of r away.
LEMMA PolicyStep ==
  ASSUME TypeOK, [Next]_vars
  PROVE  \/ policyState' = policyState
         \/ \E r \in Requests :
              policyState' = SettledPolicy(r) /\ leases' = [leases EXCEPT ![r] = NoLease]
         \/ ClaimDurablePolicy
         \/ BeginSoftDrainTo1
<1>1. CASE QueueNext
  BY <1>1 DEF QueueNext, Enqueue, EnqueueWithPayload, AdmitRequest, AdmitNext, ExpireOnly,
              ReadPayload, PersistPayload, CancelQueued, SettleQueuedOwnerDeath
<1>2. CASE LeaseNext
  <2>1. PICK f \in Fences :
          \/ policyState' = policyState
          \/ policyState' = SettledPolicy(f.request)
             /\ leases' = [leases EXCEPT ![f.request] = NoLease]
    BY <1>2 DEF LeaseNext, MarkStarting, RecordProcessIdentity, MarkDispatchIntent, MarkActive,
                MarkDispatchAmbiguous, AbandonBeforePrompt, MarkExecutionRecoveryRequired,
                ReleaseExitedRecoverySeat, CompleteLiveTurn, Heartbeat, MarkSuspect, Release
  <2> QED
    BY <2>1 DEF Fences
<1>3. CASE PolicyNext
  BY <1>3 DEF PolicyNext, SetCapacityCooldown
<1>4. CASE Tick \/ UNCHANGED vars
  BY <1>4 DEF Tick, vars, store
<1> QED
  BY <1>1, <1>2, <1>3, <1>4 DEF Next

\* A release that ends a drain leaves no seat taken.
LEMMA SettledEmpty ==
  ASSUME TypeOK, NEW r \in Requests, leases' = [leases EXCEPT ![r] = NoLease],
         SettledPolicy(r) # policyState
  PROVE  /\ Seated' = {}
         /\ policyState.drainState = "soft_draining_to_1"
         /\ SettledPolicy(r) = [maxActiveTurns |-> 1, drainState |-> "steady"]
<1>1. Seated \subseteq {r} /\ policyState.drainState = "soft_draining_to_1"
  BY DEF SettledPolicy
<1>2. \A q \in Requests : leases'[q].phase = "none"
  BY <1>1 DEF Seated, TypeOK, NoLease
<1> QED
  BY <1>1, <1>2 DEF Seated, SettledPolicy

\* A claimed policy never has more seats than the one it was claimed with.
PolicyNarrow ==
  policyState.drainState # "unclaimed" => policyState.maxActiveTurns \in 1..MaxActiveTurns

LEMMA PolicyNarrowStep ==
  TypeOK /\ PolicyNarrow /\ [Next]_vars => PolicyNarrow'
<1> SUFFICES ASSUME TypeOK, PolicyNarrow, [Next]_vars PROVE PolicyNarrow'
  OBVIOUS
<1>1. ASSUME NEW r \in Requests, policyState' = SettledPolicy(r) PROVE PolicyNarrow'
  BY <1>1, PolicyAssumption DEF SettledPolicy, PolicyNarrow
<1>2. CASE ClaimDurablePolicy
  BY <1>2, PolicyAssumption DEF ClaimDurablePolicy, PolicyNarrow
<1>3. CASE BeginSoftDrainTo1
  <2>1. CASE Seated = {}
    BY <1>3, <2>1, PolicyAssumption DEF BeginSoftDrainTo1, PolicyNarrow
  <2>2. CASE Seated # {}
    <3>1. policyState' = [policyState EXCEPT !.drainState = "soft_draining_to_1"]
      BY <1>3, <2>2 DEF BeginSoftDrainTo1
    <3>2. policyState'.maxActiveTurns = policyState.maxActiveTurns
      BY <3>1 DEF TypeOK, PolicyRow
    <3> QED
      BY <1>3, <3>2 DEF BeginSoftDrainTo1, PolicyNarrow
  <2> QED
    BY <2>1, <2>2
<1> QED
  BY <1>1, <1>2, <1>3, PolicyStep DEF PolicyNarrow

LEMMA SeatsStep ==
  TypeOK /\ PolicyNarrow /\ SeatsWithinPolicy /\ [Next]_vars => SeatsWithinPolicy'
<1> SUFFICES ASSUME TypeOK, PolicyNarrow, SeatsWithinPolicy, [Next]_vars
             PROVE  SeatsWithinPolicy'
  OBVIOUS
<1> USE PolicyAssumption
<1>1. /\ Cardinality(Seated) <= MaxActiveTurns
      /\ policyState.drainState = "steady" => Cardinality(Seated) <= policyState.maxActiveTurns
      /\ policyState \in PolicyRow
  BY DEF SeatsWithinPolicy, TypeOK
<1>2. Cardinality(Seated) \in Nat /\ Cardinality(Seated') \in Nat
  <2>1. Seated' \subseteq Requests
    BY DEF Seated
  <2> QED
    BY <2>1, SeatedFinite, RequestsAssumption, FS_Subset, FS_CardinalityType
<1>3. ASSUME NEW q \in Requests, Admitting(q), Cardinality(Seated') = Cardinality(Seated) + 1
      PROVE  SeatsWithinPolicy'
  <2>1. /\ policyState' = policyState /\ policyState.drainState # "soft_draining_to_1"
        /\ Cardinality(Seated) < SeatLimit
    BY <1>3 DEF Admitting, HasDispatchCapacity, HasSeatCapacity
  <2>2. SeatLimit \in Nat /\ SeatLimit <= MaxActiveTurns
    BY DEF SeatLimit, PolicyNarrow
  <2>3. policyState.drainState = "steady" => SeatLimit = policyState.maxActiveTurns
    BY DEF SeatLimit
  <2>4. /\ Cardinality(Seated') <= MaxActiveTurns
        /\ policyState.drainState = "steady" =>
             Cardinality(Seated') <= policyState.maxActiveTurns
    BY <1>2, <1>3, <2>1, <2>2, <2>3
  <2> QED
    BY <2>1, <2>4 DEF SeatsWithinPolicy
<1>4. ASSUME Cardinality(Seated') <= Cardinality(Seated)
      PROVE  SeatsWithinPolicy'
  <2>1. Cardinality(Seated') <= MaxActiveTurns
    BY <1>1, <1>2, <1>4
  <2>2. CASE policyState' = policyState
    BY <1>1, <1>2, <1>4, <2>1, <2>2 DEF SeatsWithinPolicy, PolicyRow
  <2>3. ASSUME NEW r \in Requests, policyState' = SettledPolicy(r),
               policyState' # policyState, leases' = [leases EXCEPT ![r] = NoLease]
        PROVE  SeatsWithinPolicy'
    <3>1. Seated' = {} /\ policyState'.maxActiveTurns = 1
      <4>1. SettledPolicy(r) # policyState
        BY <2>3
      <4>2. /\ Seated' = {}
            /\ SettledPolicy(r) = [maxActiveTurns |-> 1, drainState |-> "steady"]
        BY <2>3, <4>1, SettledEmpty
      <4> QED
        BY <2>3, <4>2
    <3> QED
      BY <2>1, <3>1, FS_EmptySet DEF SeatsWithinPolicy
  <2>4. CASE ClaimDurablePolicy
    BY <2>1, <2>4 DEF ClaimDurablePolicy, SeatsWithinPolicy
  <2>5. CASE BeginSoftDrainTo1
    <3>1. CASE Seated = {}
      <4>1. Cardinality(Seated') = 0
        BY <1>2, <1>4, <3>1, FS_EmptySet
      <4> QED
        BY <2>1, <2>5, <3>1, <4>1 DEF BeginSoftDrainTo1, SeatsWithinPolicy
    <3>2. CASE Seated # {}
      <4>1. policyState' = [policyState EXCEPT !.drainState = "soft_draining_to_1"]
        BY <2>5, <3>2 DEF BeginSoftDrainTo1
      <4>2. policyState'.drainState = "soft_draining_to_1"
        BY <1>1, <4>1 DEF PolicyRow
      <4> QED
        BY <2>1, <4>2 DEF SeatsWithinPolicy
    <3> QED
      BY <3>1, <3>2
  <2> QED
    BY <2>2, <2>3, <2>4, <2>5, PolicyStep
<1> QED
  BY <1>3, <1>4, CardinalityStep

LEMMA PolicyAlwaysNarrow == Spec => []PolicyNarrow
<1>1. Init => PolicyNarrow
  BY DEF Init, PolicyNarrow
<1> QED
  BY <1>1, TypeCorrect, PolicyNarrowStep, PTL DEF Spec

\* The account never has more seats taken than its policy allows, before the
\* policy is claimed, after it, and after a drain narrowed it.
THEOREM SeatsAlwaysWithinPolicy == Spec => []SeatsWithinPolicy
<1>1. Init => SeatsWithinPolicy
  <2>1. Init => Seated = {} /\ policyState.drainState = "unclaimed"
    BY DEF Init, Seated, NoLease
  <2> QED
    BY <2>1, FS_EmptySet, PolicyAssumption DEF SeatsWithinPolicy
<1> QED
  BY <1>1, TypeCorrect, PolicyAlwaysNarrow, SeatsStep, PTL DEF Spec

\* A draining account seats nobody and a claimed policy is never widened.
THEOREM DrainAlwaysNarrows == Spec => DrainOnlyNarrows
<1>1. ASSUME TypeOK, PolicyNarrow, [Next]_vars
      PROVE  /\ policyState.drainState = "soft_draining_to_1" => Seated' \subseteq Seated
             /\ policyState.drainState # "unclaimed" =>
                  policyState'.maxActiveTurns <= policyState.maxActiveTurns
  <2>1. policyState.drainState = "soft_draining_to_1" => Seated' \subseteq Seated
    <3>1. policyState.drainState = "soft_draining_to_1" =>
            ~ \E q \in Requests : Admitting(q)
      BY DEF Admitting, HasDispatchCapacity, HasSeatCapacity
    <3> QED
      BY <1>1, <3>1, SeatStep
  <2>2. ASSUME policyState.drainState # "unclaimed"
        PROVE  policyState'.maxActiveTurns <= policyState.maxActiveTurns
    <3>1. policyState \in PolicyRow /\ policyState.maxActiveTurns \in 1..MaxActiveTurns
      BY <1>1, <2>2 DEF PolicyNarrow, TypeOK
    <3>2. ASSUME NEW r \in Requests, policyState' = SettledPolicy(r)
          PROVE  policyState'.maxActiveTurns <= policyState.maxActiveTurns
      BY <3>1, <3>2, PolicyAssumption DEF SettledPolicy, PolicyRow
    <3>3. ASSUME BeginSoftDrainTo1
          PROVE  policyState'.maxActiveTurns <= policyState.maxActiveTurns
      BY <3>1, <3>3, PolicyAssumption DEF BeginSoftDrainTo1, PolicyRow
    <3>4. ~ClaimDurablePolicy
      BY <2>2 DEF ClaimDurablePolicy
    <3>5. policyState.maxActiveTurns <= policyState.maxActiveTurns
      BY <3>1, PolicyAssumption DEF PolicyRow
    <3> QED
      BY <1>1, <3>2, <3>3, <3>4, <3>5, PolicyStep
  <2> QED
    BY <2>1, <2>2
<1>2. TypeOK /\ PolicyNarrow /\ [Next]_vars =>
        [/\ policyState.drainState = "soft_draining_to_1" => Seated' \subseteq Seated
         /\ policyState.drainState # "unclaimed" =>
              policyState'.maxActiveTurns <= policyState.maxActiveTurns]_vars
  BY <1>1
<1> QED
  BY <1>2, TypeCorrect, PolicyAlwaysNarrow, PTL DEF Spec, DrainOnlyNarrows

\* Only markStarting writes start_history.
LEMMA HistoryStep ==
  ASSUME TypeOK, [Next]_vars
  PROVE  \/ startHistory' = startHistory
         \/ \E f \in Fences, now \in Nat :
              /\ \A s \in startHistory : s.startedAt + MinStartInterval <= now
              /\ startHistory' \subseteq
                   startHistory \cup {[request |-> f.request, startedAt |-> now]}
<1> USE InstantsType
<1>1. CASE QueueNext
  BY <1>1 DEF QueueNext, Enqueue, EnqueueWithPayload, AdmitRequest, AdmitNext, ExpireOnly,
              ReadPayload, PersistPayload, CancelQueued, SettleQueuedOwnerDeath
<1>2. ASSUME NEW f \in Fences, NEW now \in Instants, MarkStarting(f, now)
      PROVE  /\ \A s \in startHistory : s.startedAt + MinStartInterval <= now
             /\ startHistory' \subseteq
                  startHistory \cup {[request |-> f.request, startedAt |-> now]}
  BY <1>2 DEF MarkStarting
<1>3. CASE LeaseNext /\ ~ \E f \in Fences, now \in Instants : MarkStarting(f, now)
  BY <1>3 DEF LeaseNext, RecordProcessIdentity, MarkDispatchIntent, MarkActive,
              MarkDispatchAmbiguous, AbandonBeforePrompt, MarkExecutionRecoveryRequired,
              ReleaseExitedRecoverySeat, CompleteLiveTurn, Heartbeat, MarkSuspect, Release
<1>4. CASE PolicyNext
  BY <1>4 DEF PolicyNext, SetCapacityCooldown, ClaimDurablePolicy, BeginSoftDrainTo1
<1>5. CASE Tick \/ UNCHANGED vars
  BY <1>5 DEF Tick, vars, store
<1> QED
  BY <1>1, <1>2, <1>3, <1>4, <1>5 DEF Next

LEMMA SpacedStep ==
  TypeOK /\ StartsSpaced /\ [Next]_vars => StartsSpaced'
<1> SUFFICES ASSUME TypeOK, StartsSpaced, [Next]_vars PROVE StartsSpaced'
  OBVIOUS
<1> USE PolicyAssumption
<1>1. ASSUME NEW s \in startHistory', NEW t \in startHistory', s # t
      PROVE  Apart(s.startedAt, t.startedAt)
  <2>1. \A u \in startHistory : u.startedAt \in Nat
    BY DEF TypeOK, StartRow
  <2>2. CASE startHistory' = startHistory
    BY <1>1, <2>2 DEF StartsSpaced
  <2>3. ASSUME NEW f \in Fences, NEW now \in Nat,
               \A u \in startHistory : u.startedAt + MinStartInterval <= now,
               startHistory' \subseteq
                 startHistory \cup {[request |-> f.request, startedAt |-> now]}
        PROVE  Apart(s.startedAt, t.startedAt)
    <3>1. CASE s \in startHistory /\ t \in startHistory
      BY <1>1, <3>1 DEF StartsSpaced
    <3>2. CASE s \in startHistory /\ t.startedAt = now
      BY <2>1, <2>3, <3>2 DEF Apart
    <3>3. CASE s.startedAt = now /\ t \in startHistory
      BY <2>1, <2>3, <3>3 DEF Apart
    <3> QED
      BY <1>1, <2>3, <3>1, <3>2, <3>3
  <2> QED
    BY <2>2, <2>3, HistoryStep
<1>2. ASSUME NEW q \in Starting', NEW r \in Starting', q # r
      PROVE  Apart(leases'[q].acquiredAt, leases'[r].acquiredAt)
  <2>1. \A x \in Requests : leases[x].acquiredAt \in Nat
    BY DEF TypeOK, LeaseRow
  <2>2. q \in Requests /\ r \in Requests
    BY DEF Starting, InPhase
  <2>3. ASSUME NEW x \in Starting', ~TookSeat(x)
        PROVE  x \in Starting /\ leases'[x].acquiredAt = leases[x].acquiredAt
    <3>1. x \in Requests /\ leases'[x].phase \in StartPhases
      BY <2>3 DEF Starting, InPhase
    <3>2. RowStep(x)
      BY <3>1, StepRowStep
    <3>3. CASE Kept(x) \/ Submitted(x) \/ LeftQueue(x)
      BY <3>1, <3>3 DEF Kept, Submitted, LeftQueue, Starting, InPhase
    <3>4. CASE Moved(x)
      BY <3>1, <3>4 DEF Moved, PhaseMoves, Starting, InPhase
    <3>5. CASE GaveBack(x)
      BY <3>1, <3>5 DEF GaveBack, NoLease
    <3> QED
      BY <2>3, <3>2, <3>3, <3>4, <3>5 DEF RowStep
  <2>4. ASSUME NEW x \in Starting', NEW y \in Starting', x # y, TookSeat(x)
        PROVE  Apart(leases'[x].acquiredAt, leases'[y].acquiredAt)
    <3>1. x \in Requests /\ y \in Requests /\ leases'[y].phase \in StartPhases
      BY <2>4 DEF Starting, InPhase
    <3>2. PICK o \in Owners, now \in Nat : HasDispatchCapacity(now) /\ Reserve(x, o, now)
      BY <2>4 DEF TookSeat, Admitting
    <3>3. leases'[x].acquiredAt = now /\ leases'[y] = leases[y]
      BY <2>4, <3>1, <3>2, ReserveRows
    <3>4. leases[y].acquiredAt <= now - MinStartInterval
      BY <3>1, <3>2, <3>3 DEF HasDispatchCapacity, InPhase
    <3> QED
      BY <2>1, <3>1, <3>2, <3>3, <3>4 DEF Apart
  <2>5. \A a, b : Apart(a, b) <=> Apart(b, a)
    BY DEF Apart
  <2>6. CASE TookSeat(q) \/ TookSeat(r)
    BY <1>2, <2>4, <2>5, <2>6
  <2>7. CASE ~TookSeat(q) /\ ~TookSeat(r)
    <3>1. /\ q \in Starting /\ r \in Starting
          /\ leases'[q].acquiredAt = leases[q].acquiredAt
          /\ leases'[r].acquiredAt = leases[r].acquiredAt
      BY <1>2, <2>3, <2>7
    <3> QED
      BY <1>2, <3>1 DEF StartsSpaced, Starting
  <2> QED
    BY <2>6, <2>7
<1>3. \A q, r \in Starting' : q # r => Apart(leases'[q].acquiredAt, leases'[r].acquiredAt)
  BY <1>2
<1>4. \A s, t \in startHistory' : s # t => Apart(s.startedAt, t.startedAt)
  BY <1>1
<1> QED
  BY <1>3, <1>4 DEF StartsSpaced, Starting, Apart

\* Starts are MinStartInterval apart however old the timestamp is with which a
\* process gets the write lock.
THEOREM StartsAlwaysSpaced == Spec => []StartsSpaced
<1>1. Init => StartsSpaced
  BY DEF Init, StartsSpaced, InPhase, NoLease
<1> QED
  BY <1>1, TypeCorrect, SpacedStep, PTL DEF Spec
=============================================================================
