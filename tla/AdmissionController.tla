------------------------ MODULE AdmissionController ------------------------
(***************************************************************************)
(* The durable admission store of `Admission Controller/controller.ts`:    *)
(* one SQLite file shared by every connector process of an account.  Every *)
(* public method is one BEGIN IMMEDIATE transaction (controller.ts:1412),  *)
(* so every method is one action; a method that throws rolls back and is   *)
(* no step.  Rows are keyed by request: turn_requests.request_id is the    *)
(* primary key, leases.request_id and turn_payloads.request_id are unique. *)
(*                                                                         *)
(* Time is a counter.  A caller reads the clock before it waits for the    *)
(* write lock (busy_timeout), so a transaction may run with a timestamp up *)
(* to MaxLag old.                                                          *)
(*                                                                         *)
(* Left out: ciphertexts, the columns no guard reads (terminal_at, created *)
(* and recorded times, heartbeat_at, which only decides when a reaper      *)
(* calls MarkSuspect), the three suspicion reasons (a flag here), and the  *)
(* append-only events table, whose transition allow-list is kept as the    *)
(* guard Journalled.                                                       *)
(***************************************************************************)
EXTENDS Integers, FiniteSets

CONSTANTS
  Requests,            \* request ids, as ranks in the text order that breaks ties
  Owners,              \* owner instance ids: one per connector process
  Agents,              \* PASEO_AGENT_ID values
  Models,              \* provider/model pairs, the key of a cooldown
  AgentOf, ModelOf,    \* immutable metadata of a request
  Children,            \* process records that can be bound to a dispatch
  NoChild, NoOwner,    \* SQL NULL in the two identity columns
  MaxActiveTurns, MaxConcurrentStarts, MinStartInterval, QueueTimeout,
  CapacityCooldown,    \* AdmissionPolicy
  DrainFrom,           \* the seat count a soft drain may start from (3 in the code)
  MaxTime, MaxLag,     \* bounds of the model: the clock, the wait for the write lock,
  MaxGeneration        \* the generations a fence in a caller's hands may name

ASSUME RequestsAssumption ==
  Requests \subseteq Nat /\ IsFiniteSet(Requests)

ASSUME MetadataAssumption ==
  AgentOf \in [Requests -> Agents] /\ ModelOf \in [Requests -> Models]

ASSUME NullAssumption == NoChild \notin Children /\ NoOwner \notin Owners

\* validatePolicy: counts are at least 1, times are not negative.
ASSUME PolicyAssumption ==
  /\ MaxActiveTurns \in Nat \ {0} /\ MaxConcurrentStarts \in Nat \ {0}
  /\ MinStartInterval \in Nat /\ QueueTimeout \in Nat \ {0}
  /\ CapacityCooldown \in Nat /\ DrainFrom \in Nat \ {0, 1}

ASSUME BoundsAssumption == MaxTime \in Nat /\ MaxLag \in Nat /\ MaxGeneration \in Nat

VARIABLES
  clock,          \* the wall clock of the host
  turnRequests,   \* turn_requests: request -> row
  turnPayloads,   \* turn_payloads: the requests whose encrypted prompt is stored
  leases,         \* leases and lease_process_identities: request -> row
  startHistory,   \* start_history: a set of rows
  cooldowns,      \* cooldowns: model -> not_before (0 when there is no row)
  policyState     \* the single row of policy_state

store == <<turnRequests, turnPayloads, leases, startHistory, cooldowns, policyState>>
vars == <<clock, store>>

----------------------------------------------------------------------------
SeatPhases ==
  {"admitted", "starting", "dispatch_intent", "dispatch_ambiguous", "active",
   "recovery_required"}
StartPhases == {"admitted", "starting", "dispatch_intent"}
Terminal ==
  {"completed", "failed", "cancelled", "queue_timeout", "recovery_required"}
States == {"absent", "queued"} \cup SeatPhases \cup Terminal

RequestRow ==
  [state : States, enqueuedAt : Nat, generation : Nat, queuedOwner : Owners \cup {NoOwner}]
LeaseRow ==
  [phase : SeatPhases \cup {"none"}, generation : Nat, owner : Owners \cup {NoOwner},
   acquiredAt : Nat, identity : Children \cup {NoChild},
   suspect : BOOLEAN]
NoLease ==
  [phase |-> "none", generation |-> 0, owner |-> NoOwner, acquiredAt |-> 0,
   identity |-> NoChild, suspect |-> FALSE]
Fences == [request : Requests, generation : 1..MaxGeneration, owner : Owners]
StartRow == [request : Requests, startedAt : Nat]
PolicyRow ==
  [maxActiveTurns : Nat, drainState : {"unclaimed", "steady", "soft_draining_to_1"}]

TypeOK ==
  /\ clock \in Nat
  /\ turnRequests \in [Requests -> RequestRow]
  /\ turnPayloads \subseteq Requests
  /\ leases \in [Requests -> LeaseRow]
  /\ startHistory \subseteq StartRow
  /\ cooldowns \in [Models -> Nat]
  /\ policyState \in PolicyRow

----------------------------------------------------------------------------
(* Reading the store. *)

State(r) == turnRequests[r].state
Seated == {r \in Requests : leases[r].phase # "none"}
InPhase(P) == {r \in Requests : leases[r].phase \in P}
Deadline(r) == turnRequests[r].enqueuedAt + QueueTimeout

Instants == {t \in 0..MaxTime : t <= clock /\ clock <= t + MaxLag}

\* The allow-list of journalTransition: a transaction whose event is not listed
\* is rolled back.
Journalled(kind, from, to) ==
  \/ <<kind, from, to>> \in
       {<<"request_enqueued", "absent", "queued">>,
        <<"request_cancelled", "queued", "cancelled">>,
        <<"queued_owner_dead", "queued", "cancelled">>,
        <<"request_queue_timed_out", "queued", "queue_timeout">>,
        <<"request_admitted", "queued", "admitted">>,
        <<"request_starting", "admitted", "starting">>,
        <<"request_dispatch_intent", "starting", "dispatch_intent">>,
        <<"request_active", "dispatch_intent", "active">>,
        <<"request_dispatch_ambiguous", "dispatch_intent", "dispatch_ambiguous">>,
        <<"request_provider_terminal", "active", "provider_terminal">>}
  \/ kind = "request_abandoned" /\ from \in StartPhases /\ to \in {"failed", "cancelled"}
  \/ /\ kind = "request_released" /\ from = "provider_terminal"
     /\ to \in {"completed", "failed", "cancelled"}
  \/ /\ kind \in {"request_recovery_required", "request_recovery_seat_released"}
     /\ from \in SeatPhases /\ to = "recovery_required"

\* requireLease: the row exists and the fence names its generation and owner.
HoldsFence(f) ==
  /\ leases[f.request].phase # "none"
  /\ leases[f.request].generation = f.generation
  /\ leases[f.request].owner = f.owner

\* policy_state overrides the process's own policy once it is claimed.
SeatLimit ==
  IF policyState.drainState = "unclaimed" THEN MaxActiveTurns ELSE policyState.maxActiveTurns

\* Mutants: one seat too many; a drain that does not close the pool.
HasOneSeatTooMany ==
  policyState.drainState # "soft_draining_to_1" /\ Cardinality(Seated) <= SeatLimit

HasSeatCapacity ==
  policyState.drainState # "soft_draining_to_1" /\ Cardinality(Seated) < SeatLimit

\* Mutant: reservations that have not started yet are not counted as starts.
HasCapacityIgnoringReserved(now) ==
  /\ HasSeatCapacity
  /\ Cardinality(InPhase({"starting", "dispatch_intent"})) < MaxConcurrentStarts
  /\ \A s \in startHistory : s.startedAt <= now - MinStartInterval
  /\ \A r \in InPhase(StartPhases) : leases[r].acquiredAt <= now - MinStartInterval

HasDispatchCapacity(now) ==
  /\ HasSeatCapacity
  /\ Cardinality(InPhase(StartPhases)) < MaxConcurrentStarts
  /\ \A s \in startHistory : s.startedAt <= now - MinStartInterval
  /\ \A r \in InPhase(StartPhases) : leases[r].acquiredAt <= now - MinStartInterval

\* expireQueued, the first statement of every admission and queue read.
Expired(now) == {r \in Requests : State(r) = "queued" /\ Deadline(r) <= now}

Eligible(now) ==
  {r \in Requests \ Expired(now) :
     State(r) = "queued" /\ r \in turnPayloads /\ cooldowns[ModelOf[r]] <= now}

ActiveAgents == {AgentOf[r] : r \in Seated}

Before(q, r) ==
  \/ turnRequests[q].enqueuedAt < turnRequests[r].enqueuedAt
  \/ turnRequests[q].enqueuedAt = turnRequests[r].enqueuedAt /\ q < r

\* selectEligibleRequest: the oldest request of an agent without a seat, else the oldest.
Selected(r, now) ==
  LET idle == {q \in Eligible(now) : AgentOf[q] \notin ActiveAgents}
      pool == IF idle # {} THEN idle ELSE Eligible(now)
  IN  r \in pool /\ \A q \in pool \ {r} : Before(r, q)

----------------------------------------------------------------------------
(* Writing the store: the private helpers. *)

ExpireQueued(now) ==
  [r \in Requests |->
     IF r \in Expired(now) THEN [turnRequests[r] EXCEPT !.state = "queue_timeout"]
                           ELSE turnRequests[r]]

\* Mutant: the request row keeps its old state.
SetLeasePhaseOnly(f, phase) ==
  /\ leases' = [leases EXCEPT ![f.request].phase = phase]
  /\ UNCHANGED turnRequests

\* setLeasePhase: lease and request move together.
SetPhase(f, phase) ==
  /\ turnRequests' = [turnRequests EXCEPT ![f.request].state = phase]
  /\ leases' = [leases EXCEPT ![f.request].phase = phase]

\* Mutant: the first seat to leave ends the drain.
SettledPolicyTooEarly(r) ==
  IF policyState.drainState = "soft_draining_to_1"
    THEN [maxActiveTurns |-> 1, drainState |-> "steady"]
    ELSE policyState

\* completeSoftDrainTo1IfSettled, after the lease of r (if any) is gone.
SettledPolicy(r) ==
  IF policyState.drainState = "soft_draining_to_1" /\ Seated \subseteq {r}
    THEN [maxActiveTurns |-> 1, drainState |-> "steady"]
    ELSE policyState

\* Mutant: the transient provider_terminal is left behind as the final state.
ReleaseLeavesTransient(r, state) ==
  /\ turnRequests' = [turnRequests EXCEPT ![r].state =
       IF State(r) = "active" THEN "provider_terminal" ELSE state]
  /\ turnPayloads' = turnPayloads \ {r}
  /\ leases' = [leases EXCEPT ![r] = NoLease]
  /\ policyState' = SettledPolicy(r)
  /\ UNCHANGED startHistory

\* The end every release shares: final state, no payload, no lease, no identity.
Release(r, state) ==
  /\ turnRequests' = [turnRequests EXCEPT ![r].state = state]
  /\ turnPayloads' = turnPayloads \ {r}
  /\ leases' = [leases EXCEPT ![r] = NoLease]
  /\ policyState' = SettledPolicy(r)
  /\ UNCHANGED startHistory

\* reserveAdmission, in the transaction that has just expired the queue.
Reserve(r, o, now) ==
  LET generation == turnRequests[r].generation + 1 IN
  /\ Journalled("request_admitted", State(r), "admitted")
  /\ leases[r].phase = "none"
  /\ turnRequests' = [ExpireQueued(now) EXCEPT ![r].state = "admitted",
                                               ![r].generation = generation]
  /\ leases' = [leases EXCEPT ![r] =
       [NoLease EXCEPT !.phase = "admitted", !.generation = generation,
                       !.owner = o, !.acquiredAt = now]]

----------------------------------------------------------------------------
(* The queue. *)

\* enqueue: a known request with the same metadata is left as it is.
Enqueue(r, o, now) ==
  /\ State(r) = "absent" /\ Journalled("request_enqueued", "absent", "queued")
  /\ turnRequests' = [turnRequests EXCEPT ![r] =
       [state |-> "queued", enqueuedAt |-> now, generation |-> 0, queuedOwner |-> o]]
  /\ UNCHANGED <<clock, turnPayloads, leases, startHistory, cooldowns, policyState>>

\* enqueueWithPayload: one transaction for the row and its encrypted prompt.
EnqueueWithPayload(r, o, now) ==
  /\ State(r) = "absent" /\ Journalled("request_enqueued", "absent", "queued")
  /\ turnRequests' = [turnRequests EXCEPT ![r] =
       [state |-> "queued", enqueuedAt |-> now, generation |-> 0, queuedOwner |-> o]]
  /\ turnPayloads' = turnPayloads \cup {r}
  /\ UNCHANGED <<clock, leases, startHistory, cooldowns, policyState>>

\* persistPayload, and enqueueWithPayload of a request that is already queued.
PersistPayload(r) ==
  /\ State(r) = "queued"
  /\ turnPayloads' = turnPayloads \cup {r}
  /\ UNCHANGED <<clock, turnRequests, leases, startHistory, cooldowns, policyState>>

\* readPayload: a read past the expiry deletes the row.  Callers store a prompt
\* with the deadline of its request as expiry (turn-coordinator.ts:148).
ReadPayload(r, now) ==
  /\ r \in turnPayloads /\ Deadline(r) <= now
  /\ turnPayloads' = turnPayloads \ {r}
  /\ UNCHANGED <<clock, turnRequests, leases, startHistory, cooldowns, policyState>>

\* Mutant: the state is not checked again under the write lock.
CancelUnchecked(r) ==
  /\ State(r) # "absent"
  /\ turnRequests' = [turnRequests EXCEPT ![r].state = "cancelled"]
  /\ turnPayloads' = turnPayloads \ {r}
  /\ UNCHANGED <<clock, leases, startHistory, cooldowns, policyState>>

CancelQueued(r) ==
  /\ State(r) = "queued" /\ Journalled("request_cancelled", "queued", "cancelled")
  /\ turnRequests' = [turnRequests EXCEPT ![r].state = "cancelled"]
  /\ turnPayloads' = turnPayloads \ {r}
  /\ UNCHANGED <<clock, leases, startHistory, cooldowns, policyState>>

\* Mutant: a reaper's stale inventory is trusted.
SettleOwnerDeathUnchecked(r, o) ==
  /\ turnRequests[r].queuedOwner = o /\ leases[r].phase = "none"
  /\ turnRequests' = [turnRequests EXCEPT ![r].state = "cancelled"]
  /\ turnPayloads' = turnPayloads \ {r}
  /\ UNCHANGED <<clock, leases, startHistory, cooldowns, policyState>>

SettleQueuedOwnerDeath(r, o) ==
  /\ State(r) = "queued" /\ turnRequests[r].queuedOwner = o
  /\ leases[r].phase = "none"
  /\ Journalled("queued_owner_dead", "queued", "cancelled")
  /\ turnRequests' = [turnRequests EXCEPT ![r].state = "cancelled"]
  /\ turnPayloads' = turnPayloads \ {r}
  /\ UNCHANGED <<clock, leases, startHistory, cooldowns, policyState>>

\* getQueueSnapshot, and the part of an admission attempt that seats nobody.
ExpireOnly(now) ==
  /\ Expired(now) # {}
  /\ turnRequests' = ExpireQueued(now)
  /\ turnPayloads' = turnPayloads \ Expired(now)
  /\ UNCHANGED <<clock, leases, startHistory, cooldowns, policyState>>

\* admitRequest: a lease for r, or nothing when the selector chose another.
AdmitRequest(r, o, now) ==
  \/ /\ HasDispatchCapacity(now) /\ Selected(r, now)
     /\ Reserve(r, o, now)
     /\ turnPayloads' = turnPayloads \ Expired(now)
     /\ UNCHANGED <<clock, startHistory, cooldowns, policyState>>
  \/ /\ ~(HasDispatchCapacity(now) /\ Selected(r, now))
     /\ ExpireOnly(now)

\* admitNext: a lease for whichever request the selector chose.
AdmitNext(o, now) ==
  \/ /\ HasDispatchCapacity(now)
     /\ \E r \in Requests : Selected(r, now) /\ Reserve(r, o, now)
     /\ turnPayloads' = turnPayloads \ Expired(now)
     /\ UNCHANGED <<clock, startHistory, cooldowns, policyState>>
  \/ /\ ~(HasDispatchCapacity(now) /\ Eligible(now) # {})
     /\ ExpireOnly(now)

----------------------------------------------------------------------------
(* One lease. *)

\* Mutant: the spacing checked at admission is not checked again at the start.
MarkStartingUnspaced(f, now) ==
  /\ HoldsFence(f) /\ leases[f.request].phase = "admitted"
  /\ Cardinality(InPhase({"starting", "dispatch_intent"})) < MaxConcurrentStarts
  /\ startHistory' = {s \in startHistory : s.startedAt >= now - MinStartInterval}
                       \cup {[request |-> f.request, startedAt |-> now]}
  /\ SetPhase(f, "starting")
  /\ UNCHANGED <<clock, turnPayloads, cooldowns, policyState>>

MarkStarting(f, now) ==
  /\ HoldsFence(f) /\ leases[f.request].phase = "admitted"
  /\ Cardinality(InPhase({"starting", "dispatch_intent"})) < MaxConcurrentStarts
  /\ \A s \in startHistory : s.startedAt + MinStartInterval <= now
  /\ Journalled("request_starting", "admitted", "starting")
  /\ startHistory' = {s \in startHistory : s.startedAt >= now - MinStartInterval}
                       \cup {[request |-> f.request, startedAt |-> now]}
  /\ SetPhase(f, "starting")
  /\ UNCHANGED <<clock, turnPayloads, cooldowns, policyState>>

\* recordProcessIdentity, and commitDispatchIntent when it is called first: the
\* identity and the phase in one transaction.  Replaying an identical record
\* commits nothing new; any other record is refused.
RecordProcessIdentity(f, c) ==
  /\ HoldsFence(f) /\ leases[f.request].phase = "starting"
  /\ leases[f.request].identity = NoChild
  /\ State(f.request) = "starting" /\ turnRequests[f.request].generation = f.generation
  /\ Journalled("request_dispatch_intent", "starting", "dispatch_intent")
  /\ turnRequests' = [turnRequests EXCEPT ![f.request].state = "dispatch_intent"]
  /\ leases' = [leases EXCEPT ![f.request].phase = "dispatch_intent",
                              ![f.request].identity = c]
  /\ UNCHANGED <<clock, turnPayloads, startHistory, cooldowns, policyState>>

MarkDispatchIntent(f) ==
  /\ HoldsFence(f) /\ leases[f.request].phase = "starting"
  /\ Journalled("request_dispatch_intent", "starting", "dispatch_intent")
  /\ SetPhase(f, "dispatch_intent")
  /\ UNCHANGED <<clock, turnPayloads, startHistory, cooldowns, policyState>>

\* Mutant: the prompt stays in the ledger after its write.
MarkActiveKeepsPayload(f) ==
  /\ HoldsFence(f) /\ leases[f.request].phase = "dispatch_intent"
  /\ SetPhase(f, "active")
  /\ UNCHANGED <<clock, turnPayloads, startHistory, cooldowns, policyState>>

MarkActive(f) ==
  /\ HoldsFence(f) /\ leases[f.request].phase = "dispatch_intent"
  /\ Journalled("request_active", "dispatch_intent", "active")
  /\ SetPhase(f, "active")
  /\ turnPayloads' = turnPayloads \ {f.request}
  /\ UNCHANGED <<clock, startHistory, cooldowns, policyState>>

MarkDispatchAmbiguous(f) ==
  /\ HoldsFence(f) /\ leases[f.request].phase = "dispatch_intent"
  /\ Journalled("request_dispatch_ambiguous", "dispatch_intent", "dispatch_ambiguous")
  /\ SetPhase(f, "dispatch_ambiguous")
  /\ UNCHANGED <<clock, turnPayloads, startHistory, cooldowns, policyState>>

\* Mutant: a turn that failed before its write goes back to the queue.
AbandonRequeues(f, outcome) ==
  /\ HoldsFence(f) /\ leases[f.request].phase \in StartPhases
  /\ turnRequests' = [turnRequests EXCEPT ![f.request].state = "queued"]
  /\ leases' = [leases EXCEPT ![f.request] = NoLease]
  /\ policyState' = SettledPolicy(f.request)
  /\ UNCHANGED <<clock, turnPayloads, startHistory, cooldowns>>

AbandonBeforePrompt(f, outcome) ==
  /\ HoldsFence(f) /\ leases[f.request].phase \in StartPhases
  /\ Journalled("request_abandoned", leases[f.request].phase, outcome)
  /\ Release(f.request, outcome)
  /\ UNCHANGED <<clock, cooldowns>>

MarkExecutionRecoveryRequired(f) ==
  /\ HoldsFence(f)
  /\ leases[f.request].phase \in {"starting", "dispatch_intent", "dispatch_ambiguous", "active"}
  /\ Journalled("request_recovery_required", leases[f.request].phase, "recovery_required")
  /\ SetPhase(f, "recovery_required")
  /\ turnPayloads' = turnPayloads \ {f.request}
  /\ UNCHANGED <<clock, startHistory, cooldowns, policyState>>

ReleaseExitedRecoverySeat(f) ==
  /\ HoldsFence(f) /\ leases[f.request].phase \in SeatPhases
  /\ Journalled("request_recovery_seat_released", leases[f.request].phase, "recovery_required")
  /\ Release(f.request, "recovery_required")
  /\ UNCHANGED <<clock, cooldowns>>

\* The cooldown merge of setCapacityCooldown and completeLiveTurn.
MergeCooldown(m, notBefore) ==
  cooldowns' = [cooldowns EXCEPT ![m] = IF @ > notBefore THEN @ ELSE notBefore]

\* completeLiveTurn: provider_terminal is written and consumed in the transaction.
CompleteLiveTurn(f, outcome, category, now) ==
  /\ HoldsFence(f) /\ leases[f.request].phase = "active"
  /\ category # "none" => outcome = "failed"
  /\ Journalled("request_provider_terminal", "active", "provider_terminal")
  /\ Journalled("request_released", "provider_terminal", outcome)
  /\ IF category = "provider_capacity"
       THEN MergeCooldown(ModelOf[f.request], now + CapacityCooldown)
       ELSE UNCHANGED cooldowns
  /\ Release(f.request, outcome)
  /\ UNCHANGED clock

Heartbeat(f) ==
  /\ HoldsFence(f)
  /\ leases' = [leases EXCEPT ![f.request].suspect = FALSE]
  /\ UNCHANGED <<clock, turnRequests, turnPayloads, startHistory, cooldowns, policyState>>

MarkSuspect(f) ==
  /\ HoldsFence(f)
  /\ leases' = [leases EXCEPT ![f.request].suspect = TRUE]
  /\ UNCHANGED <<clock, turnRequests, turnPayloads, startHistory, cooldowns, policyState>>

----------------------------------------------------------------------------
(* Account-wide policy. *)

SetCapacityCooldown(m, notBefore, now) ==
  /\ notBefore >= now
  /\ MergeCooldown(m, notBefore)
  /\ UNCHANGED <<clock, turnRequests, turnPayloads, leases, startHistory, policyState>>

\* claimDurablePolicy: the first process stores its policy, the others compare.
ClaimDurablePolicy ==
  /\ policyState.drainState = "unclaimed"
  /\ policyState' = [maxActiveTurns |-> MaxActiveTurns, drainState |-> "steady"]
  /\ UNCHANGED <<clock, turnRequests, turnPayloads, leases, startHistory, cooldowns>>

BeginSoftDrainTo1 ==
  /\ \/ policyState.drainState = "soft_draining_to_1"
     \/ policyState.drainState = "steady" /\ policyState.maxActiveTurns = DrainFrom
  /\ policyState' = IF Seated = {}
                      THEN [maxActiveTurns |-> 1, drainState |-> "steady"]
                      ELSE [policyState EXCEPT !.drainState = "soft_draining_to_1"]
  /\ UNCHANGED <<clock, turnRequests, turnPayloads, leases, startHistory, cooldowns>>

Tick ==
  /\ clock < MaxTime
  /\ clock' = clock + 1
  /\ UNCHANGED store

----------------------------------------------------------------------------
Init ==
  /\ clock = 0
  /\ turnRequests = [r \in Requests |->
       [state |-> "absent", enqueuedAt |-> 0, generation |-> 0, queuedOwner |-> NoOwner]]
  /\ turnPayloads = {}
  /\ leases = [r \in Requests |-> NoLease]
  /\ startHistory = {}
  /\ cooldowns = [m \in Models |-> 0]
  /\ policyState = [maxActiveTurns |-> 0, drainState |-> "unclaimed"]

\* Any caller, with any fence it may hold, in any order.
QueueNext ==
  \/ \E r \in Requests, o \in Owners, now \in Instants :
       \/ Enqueue(r, o, now)
       \/ EnqueueWithPayload(r, o, now)
       \/ AdmitRequest(r, o, now)
  \/ \E o \in Owners, now \in Instants : AdmitNext(o, now)
  \/ \E r \in Requests, now \in Instants : ReadPayload(r, now)
  \/ \E now \in Instants : ExpireOnly(now)
  \/ \E r \in Requests : PersistPayload(r) \/ CancelQueued(r)
  \/ \E r \in Requests, o \in Owners : SettleQueuedOwnerDeath(r, o)

LeaseNext ==
  \E f \in Fences :
    \/ \E now \in Instants : MarkStarting(f, now)
    \/ \E c \in Children : RecordProcessIdentity(f, c)
    \/ MarkDispatchIntent(f)
    \/ MarkActive(f)
    \/ MarkDispatchAmbiguous(f)
    \/ \E outcome \in {"failed", "cancelled"} : AbandonBeforePrompt(f, outcome)
    \/ MarkExecutionRecoveryRequired(f)
    \/ ReleaseExitedRecoverySeat(f)
    \/ \E outcome \in {"completed", "failed", "cancelled"},
          category \in {"none", "provider_capacity", "transport"}, now \in Instants :
         CompleteLiveTurn(f, outcome, category, now)
    \/ Heartbeat(f)
    \/ MarkSuspect(f)

PolicyNext ==
  \/ \E m \in Models, now \in Instants, notBefore \in 0..MaxTime :
       SetCapacityCooldown(m, notBefore, now)
  \/ ClaimDurablePolicy
  \/ BeginSoftDrainTo1

Next == QueueNext \/ LeaseNext \/ PolicyNext \/ Tick

Spec == Init /\ [][Next]_vars

----------------------------------------------------------------------------
(* Properties. *)

\* A lease row always agrees with its request row: same phase, same generation,
\* and every request that is between admission and settlement has its lease.
\* listRecoverableDispatches (controller.ts:995) refuses the WHOLE inventory, and
\* with it every recovery of every connector, when one row disagrees.
InventoryTrusted ==
  \A r \in Requests :
    /\ leases[r].phase # "none" =>
         /\ State(r) = leases[r].phase
         /\ leases[r].generation = turnRequests[r].generation
         /\ leases[r].generation >= 1
    /\ State(r) \in SeatPhases \ {"recovery_required"} => leases[r].phase # "none"
    /\ leases[r].identity # NoChild => leases[r].phase \notin {"none", "admitted", "starting"}

\* A request is given a lease at most once in its life: nothing requeues it.
LeasedAtMostOnce ==
  \A r \in Requests :
    /\ turnRequests[r].generation <= 1
    /\ State(r) \in {"absent", "queued"} => turnRequests[r].generation = 0

\* The account never has more seats taken than its policy allows, also after a
\* soft drain narrowed the policy below what the running processes were given.
SeatsWithinPolicy ==
  /\ Cardinality(Seated) <= MaxActiveTurns
  /\ policyState.drainState = "steady" => Cardinality(Seated) <= policyState.maxActiveTurns

\* At most MaxConcurrentStarts turns are between admission and prompt write, over
\* all connectors: admission and markStarting count different sets of phases.
StartsWithinPolicy == Cardinality(InPhase(StartPhases)) <= MaxConcurrentStarts

Apart(a, b) == a - b >= MinStartInterval \/ b - a >= MinStartInterval

\* Recorded starts, and reservations still starting, are MinStartInterval apart
\* whatever the order in which processes with older timestamps get the lock.
StartsSpaced ==
  /\ \A s, t \in startHistory : s # t => Apart(s.startedAt, t.startedAt)
  /\ \A q, r \in InPhase(StartPhases) :
       q # r => Apart(leases[q].acquiredAt, leases[r].acquiredAt)

\* No prompt text survives the write that may have delivered it, a settlement or
\* a recovery verdict, so no later reader of the ledger could send it again.
NoReplayablePayload ==
  \A r \in turnPayloads : State(r) \in {"queued", "dispatch_ambiguous"} \cup StartPhases

\* The table of docs/design/v2.0.0.0-stage2-domain-model.md:279-300; "any
\* request/lease state transition not listed is illegal".
DocumentedTransitions ==
  {<<"absent", "queued">>, <<"queued", "cancelled">>, <<"queued", "queue_timeout">>,
   <<"queued", "admitted">>, <<"admitted", "starting">>, <<"starting", "dispatch_intent">>,
   <<"dispatch_intent", "active">>, <<"dispatch_intent", "dispatch_ambiguous">>}
  \cup (StartPhases \X {"failed", "cancelled"})
  \cup (SeatPhases \X {"recovery_required"})
  \cup ({"active"} \X {"completed", "failed", "cancelled"})

OnlyDocumentedTransitions ==
  [][\A r \in Requests :
       State(r)' # State(r) => <<State(r), State(r)'>> \in DocumentedTransitions]_vars

\* A settled request stays settled and an identity bound to a dispatch is never
\* replaced: a caller with a fence that went stale changes neither.
FencesHold ==
  [][\A r \in Requests :
       /\ State(r) \in Terminal => State(r)' = State(r)
       /\ leases[r].identity # NoChild => leases[r].identity' \in {leases[r].identity, NoChild}
       /\ leases[r].phase = "none" /\ leases[r]'.phase # "none" => State(r) = "queued"]_vars

\* While the account drains no seat is taken, and no step ever raises the seats
\* of a claimed policy.
DrainOnlyNarrows ==
  [][/\ policyState.drainState = "soft_draining_to_1" => Seated' \subseteq Seated
     /\ policyState.drainState # "unclaimed" =>
          policyState'.maxActiveTurns <= policyState.maxActiveTurns]_vars

\* The store is a pool of seats: every transaction is a step of the pool or
\* invisible to it.
Pool == INSTANCE SeatPool WITH
  Turns <- Requests,
  Capacity <- MaxActiveTurns,
  waiting <- {r \in Requests : State(r) = "queued"},
  seated <- Seated,
  done <- {r \in Requests : State(r) \in Terminal /\ r \notin Seated},
  limit <- SeatLimit,
  draining <- policyState.drainState = "soft_draining_to_1"

\* Turns wait, take a seat once and leave for good, and a drain narrows the pool
\* only when the last seat is given back, whatever rows, fences and times did.
ImplementsSeatPool == Pool!Spec

\* domain-model.md:290: entering dispatch_ambiguous deletes the replayable payload.
AmbiguousHoldsNoPayload ==
  \A r \in Requests : State(r) = "dispatch_ambiguous" => r \notin turnPayloads
============================================================================
