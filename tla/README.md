# Verification of paseo-agy-acp

TLA+ models, TLC runs and TLAPS proofs for the adapter between Paseo (an ACP
client that speaks NDJSON over stdio) and the official `agy_acp_server` kernel.
Paths below are relative to the repository; "controller.ts" is
`Admission Controller/controller.ts`, "domain-model" is
`docs/design/v2.0.0.0-stage2-domain-model.md`, "lifecycle.ts" is
`ACP Connector/official-kernel/kernel-compat-lifecycle.ts`.

## 1. The system

Paseo starts one *connector* process per agent. Each connector spawns one kernel
child and forwards ACP messages. All connectors of an account share one SQLite
file, the *admission store*, which limits how many prompts run at once. A connector
that starts publishes or reads the key of that file and migrates it; before it starts
its kernel it installs the kernel, in a state root that it shares with the other
connectors of the user and with operators who run the lifecycle command.

| component | state it keeps | operations | interacts with | what is hard | what makes it correct |
|---|---|---|---|---|---|
| Admission store (`controller.ts`) | request rows, encrypted prompts, leases with bound process identities, start history, cooldowns, durable policy | enqueue, admit, start, record identity, activate, settle, recover, reap, drain | every connector, through `BEGIN IMMEDIATE` transactions | transactions of several processes in any order; stale timestamps; stale fences; a drain racing with admissions | seats and starts within policy, starts spaced, one lease per request, no prompt kept after its write, only documented transitions |
| Turn coordinator (`turn-coordinator.ts`, `admission-fence.ts`) | one turn: lease, boundary flags, heartbeat timer | submit, poll, start, prepare, write, activate, complete, settle a failure | store, proxy, kernel stdin | several transactions per turn with other processes in between; failures before, at and after the write | a prompt is written under a seat; a lost turn is never reported as failed |
| Reaper and startup recovery (`controller.ts:878`, `startup-recovery.ts`, `runtime.ts`) | the process list it read | settle queued owners, mark, release | store, `/proc` | stale process list; orphans with a new parent; two reapers | a dead owner's seat is freed, a live turn is left alone |
| Process evidence (`process-evidence.ts`, `owner-instance.ts`) | none | capture, observe, inspect a group | `/proc` | pid reuse, attributes that change in a live process | a live process is never taken for gone |
| Kernel proxy (`proxy.ts`) | pending requests, claims, cancel timers, in-flight handlers | forward, track, cancel, shut down | Paseo, kernel, coordinator | answers, cancels, timers and shutdown racing | every request answered once; a cancel ends |
| Turn scheduler (`turn-scheduler.ts`) | foreground claim, steer reservations | claim, reserve, promote, release, close | the proxy uses its `TurnClaim` only | reservations have no caller in this repository | one active claim, FIFO promotion |
| Admission schema and migrations (`schema.ts`, `migrate` and `claimDurablePolicy` in `controller.ts`) | version, tables, durable policy | migrate, compare with the contract, claim | SQLite | starts beside each other, deaths in a migration, ledgers of older packages | the newest schema is whole, connectors that serve agree with the ledger, up to a drain |
| Key store (`key-store.ts`) | key file and temporaries | load or create | file system | several publishers, a death between link and unlink | all processes use the same key |
| Managed kernel installation (`ensure-managed-kernel.ts`) | install lock (a directory with `owner.json`) and its reaper, payload directory | lock, download, swap, prepare, activate | file system, lifecycle, stable wrapper | owners that die, waiters that remove locks, a death between two renames | one installer, a complete payload, a kernel that starts |
| Kernel compatibility lifecycle (`kernel-compat-lifecycle.ts`) | releases, stages, activation states, link `active`, stable wrapper and resolver, writer lock | prepare, activate, roll back, clean up | file system, wrappers, operators | a death between any two calls, recovery of a dead writer's lock, removal under use, a package replaced meanwhile | one writer; the link names a complete state |
| NDJSON, message folding, MCP bridges, skills, modes, login, diagnostics | small buffers or none | parse, fold, rewrite | proxy | chunk borders, flush order | nothing lost, order kept |

## 2. Modules

| module | models | builds on |
|---|---|---|
| `SeatPool` | the promise: turns wait, take a seat while there is room, leave for good; a drain narrows the pool | - |
| `AdmissionController` | the store: one action per public method of `AdmissionController` | refines `SeatPool` |
| `AdmissionSystem` | connectors at work: coordinator, prompt write, reapers, startup recovery, processes that crash, move and fork | extends `AdmissionController` |
| `KernelProxy` | one connector's prompts in `proxy.ts`: claims, forwarding, cancel timers, backpressure, shutdown | admission as one step, detailed in `AdmissionSystem` |
| `KernelStore` | the state root of `OfficialKernelCompatLifecycle`: writer lock, prepare, activate, rollback, cleanup, one file-system call at a time | - |
| `ManagedKernel` | connectors that install and start their kernel, and operators, on that state root; processes die, packages are upgraded | extends `KernelStore`, refines `ActiveRelease` |
| `ActiveRelease` | the promise of the lifecycle: complete releases, one active, one to return to, calls that take effect at one moment | - |
| `LedgerStart` | the start of the admission runtime: key, migrations, contract of the schema, policy, beside connectors that serve and drain the account | leads up to the initial states of `AdmissionController` |
| `AdmissionControllerProofs`, `SeatPoolRefinement`, `AdmissionSystemProofs`, `KernelProxyProofs`, `KernelStoreProofs`, `ManagedKernelProofs`, `ActiveReleaseRefinement`, `LedgerStartProofs` | theorems | the modules above |
| `MCAdmissionController`, `MCAdmissionSystem`, `MCKernelProxy`, `MCManagedKernel`, `MCLedgerStart` | values of the constants for TLC | |

### Correspondence: the store

`turnRequests`, `turnPayloads`, `leases` (joined with `lease_process_identities`),
`startHistory`, `cooldowns` and `policyState` are the tables of the same names, one
record per row; NULL columns are `NoChild`/`NoOwner`, a missing lease has phase
`none`, a missing request state `absent`. Every method is one `BEGIN IMMEDIATE`
transaction (`controller.ts:1412`), so it is one action with everything it calls:
`AdmitRequest` sweeps the overdue requests (`expireQueued`) and reserves in one
step, every release also settles a drain (`completeSoftDrainTo1IfSettled`). A
method that throws rolls back and is no step; the transition allow-list of the
event journal, whose violation throws, is the guard `Journalled`. A fence is a
record of request, generation and owner and *any* caller may use *any* fence in
any order, so stale fences are covered. `completeLiveTurn` writes
`provider_terminal` and consumes it in the same transaction; `TypeOK` says that it
is never left behind.

A caller reads the clock before it waits up to 5 s for the write lock. `Instants`
therefore offers each transaction a timestamp up to `MaxLag` ticks old.

Left out: ciphertext and keys, the columns that no guard reads, heartbeat times
(they decide only when a reaper calls `MarkSuspect`, and nothing reads the mark),
the wording of the event journal. `DrainFrom` is 3 in the code; the runs use 2.

### Correspondence: the system

`turn[r]` is the program counter of a turn in its coordinator. A step is one store
transaction plus the code up to the next one:

| step | code |
|---|---|
| idle -> waiting -> leased | `admit`, `waitForLease` (`Submit`, `Poll`, `PollSettled`, `CancelWaiting`, `PollFails`) |
| leased -> starting -> prepared -> checked -> written -> active | `markStarting`, `prepareProcess`, `commitDispatchIntent` + `beforePromptWrite`, `write`, `afterPromptWrite` |
| -> unsent -> ended | a failure while `promptWriteIssued` is false, then `settleFailure` |
| -> sent -> ended | a failure after it was set, then `settleFailure` |
| active -> ended | the kernel's answer, `completeLiveTurn` |

An error inside a settlement is swallowed by the code, so a settlement may also do
nothing. `proc`, `kernel` and `helper` are what `/proc` would show of the connector,
its kernel and one more process of the group; `work[r]` is what the kernel does with
the prompt. A reaper's inspection is one step except for the process list: every
other observation is monotone (a process that is gone stays gone) or checked again
by the fence, while the list (`listed`) may be old. The child is `pid_reused` as soon
as its parent dies, so `ChildGone` alone never shows that a kernel has ended; that is
what the residue inspection (`GroupEmpty`) is for. A connector is assumed to lead a
process group of its own: Paseo starts it and is not in this repository.

### Correspondence: the proxy

The proxy is one event loop, so an action is the code from one await to the next.
`step[p]` is where `#handlePrompt` of a prompt waits: `context` (`injectPrompt`),
`queued` (admission), `sent` (the answer), `resolved` (the answer was read, the
handler has not resumed), `done`.

| action | code |
|---|---|
| `ReceivePrompt`, `Enqueue`, `Forward`, `ForwardRefused`, `ForwardedUnfenced` | `#handlePrompt` up to the write, and the two ways the admission boundary throws: before the write and after it |
| `EndUnsent`, `Settle` (both with `EndTurn`) | the handler's end and its `finally` |
| `ReadAnswer` | `#onChildMessage` for an answer; frees the session before it writes |
| `Cancel`, `CancelTimeout` | `#onClientNotification` and its timer |
| `Stop`, `ExitSeen`, `Finish`, `Release` | `#shutdown`, `onExit`, `finish` on the close event, and what follows the last handler |

`childPaused` and `inputPaused` are the two backpressure switches; a write may or may
not find its pipe full. `claims`, `pending`, `timers` are the maps of the same names;
`kernel[p]` and `replies[p]` are what the two ends of the proxy see. `fenced` says
whether admission is configured, and both cases are initial states. `MayFail` names
the prompts whose store transactions around the write may throw; the prompts of the
other sessions are `Sound`, and the properties other than the documented one of section 6
are about those, apart from `TypeOK` and `ShutdownEnds`, which are about all.

### Correspondence: the kernel store

A member of `Procs` is one life of a process: a restarted connector is another member.
It stands for its pid with the start time, for the lock file it creates and for the
activation state it writes (a life writes at most one of each at a time, and their
names are random). `step[p]` is the file-system call that `p` makes next; calls that
touch only the private stage of `p` share a step.

| state | file |
|---|---|
| `lock`, `written` | `.kernel-compat.lock`: whose it is, and whether its receipt is complete |
| `releases`, `holds` | `releases/<artifact>`: absent, `open` (mode 0700, between the rename and the chmod), `sealed` (0500) or `torn` (partly removed), and the module in it |
| `staging` | `.staging/kernel-compat-stage-*` |
| `states`, `active` | `activation-states/*` and the symbolic link `active` |
| `resolver`, `wrapper` | the pins in the stable resolver; the stable wrapper |
| `module`, `official` | the compatibility module of the installed package; the official files |

| action | code (lifecycle.ts) |
|---|---|
| `OpenLock`, `WriteReceipt`, `Unlock`, `UnlinkLock` | `withWriterLock` and its `finally` |
| `InspectLock`, `CompareLock`, `MoveLock` | `recoverStaleLock`, `quarantineStaleLock`: read, compare and rename are three calls |
| `CheckInputs` ... `Seal` | `prepareUnlocked`; an existing release is verified and reused |
| `WriteResolver`, `WriteWrapper` | `ensureStableActivationWrapper`, also called by activate |
| `VerifyTarget`, `SelectNext`, `SelectBack`, `RecordState`, `CommitState` | `activate`, `rollback`, `commitActivationState` |
| `Scan`, `Sweep`, `RemoveOrphans`, `Tidy` | `cleanupUnlocked` |
| `CallFails` | a file-system call that throws; what the calls before it did stays |

What a release contains is the version of the module copied into it, since everything
else is pinned by hash. `stolen` is a history variable: a recovery renamed another lock
file than the one it had compared.

### Correspondence: the managed kernel

`phase[p]` is where a connector is in `ensureManagedOfficialKernel` and in the start of
its kernel, or an operator in its command. `install`, `owned` and `reaper` are the
directories of `withManagedKernelInstallLock`, one of each per generation of the pinned
files, because their names carry the version. `official` is the payload directory:
`missing`, `other` (some files, not the pinned ones) or `pinned`. Under the lock a
connector looks at the status, replaces the payload if it must (`SwapOut`, `SwapIn`),
and calls prepare and activate of the lifecycle, whose steps are `StoreNext`. Then the
shell wrapper reads the resolver and the link, the resolver reads the state, and the
wrapper of the release verifies it (`ReadLink`, `ReadState`, `StartRelease`); none of
them takes a lock. `End` is an exit, or a death at any step for the lives in `MayCrash`.
`robbed` is a history variable: a waiter removed another install lock than the one whose
owner it had read.

`ActiveRelease` is what the lifecycle looks like to a caller who knows of no files. Its
`complete` are the `sealed` releases, `current` and `previous` what the link leads to (a
link to nothing, or to a state file that is gone, is no active release), `calls` what every
life asked for and what its call will report. A call takes effect at one moment: a prepare
at the last chmod (`Seal`), an activation and a rollback at the rename of the link
(`CommitState`), a purge at the first file of each release it removes (`Sweep`). A call
that fails after that moment has taken effect, one that fails before has not, and one that
reports success reports what was so when the result was set. `apart` is `~stolen`: the
abstract specification promises nothing after a recovery of the lock has gone wrong.

### Correspondence: the start of the ledger

`at[p]` is where a start is in `createAdmissionRuntime`. The key path and the temporary
names are files; `temps` containing the key's publisher means that the key still has
two links, which `readStableAdmissionKey` does not accept. The transaction of `migrate`
holds SQLite's write lock (`writer`) and works on a `draft` that a death or a failed
statement discards. The schema is a set of pairs of a table and a part, with the parts
told apart that a migration changes (`parent_id`, the owner columns, the old check of
`policy_state`) or that a check is about (stray tables, a table that the next version
brings). `Found` lists the ledgers a start may find: empty, partial without a
version, versions 1 to 3, with strays or not, and one that is newer, each with a row of
`policy_state` that claims and drains may leave.

`db.row` is that row: a policy, which is its seats and its other terms, and whether the
account drains. `ClaimPolicy` writes the first one and afterwards accepts only the same.
A connector that serves may change it: `BeginSoftDrainTo1` from three seats, and
`CompleteSoftDrainTo1IfSettled`, which every operation that gives a seat back calls and
which leaves one seat and the other terms. So connectors with different policies may serve
one ledger, one opened before the drain and one after it (tests/admission-soft-drain.test.ts:241),
and `ServingAgree` says how far they differ. Leases are not in this model: whether seats
are taken when a drain is looked at is open here and counted in `AdmissionController`,
whose `SeatsWithinPolicy` relates the narrowed limit to the turns.

## 3. Runs

| run | instance | checks |
|---|---|---|
| `store_lag` | 2 requests that may start together, 2 process records, clock 0..2, lag 1 | `LeasedAtMostOnce`, `StartsSpaced`, `NoReplayablePayload`, `OnlyDocumentedTransitions`, `FencesHold` |
| `store_contention` | 3 requests of 2 agents, 2 seats, 1 start at a time, a drain | `InventoryTrusted`, `SeatsWithinPolicy`, `StartsWithinPolicy`, `ImplementsSeatPool` |
| `system_safety` | 2 connectors, 1 seat, one of them crashes, moves, forks | `SysTypeOK`, `SeatCoversWork`, `OutcomeIsKnown`, `LiveTurnUndisturbed`, `UsesStoreAsSpecified` |
| `system_liveness` | the same without moves, under fairness | `DeadSeatFreed`, `WaitEnds` |
| `proxy_turns` | 3 prompts, two of one session, one whose store may fail | `TypeOK`, `TurnHoldsClaim`, `AnsweredWhenDone`, `OneTurnPerSession`, `CancelDeadlines`, `CancelEnds`, `ShutdownEnds` |
| `proxy_failed_fence` | 3 prompts of one session whose store may fail | `OnePromptAtATime`, violated (section 6) |
| `managed_kernel` | 2 connectors, or 1 and an operator of another generation, after a life that ended; 2 modules, 2 generations | `TypeOK`, `OneWriter`, `ActiveComplete`, `ReleaseMatches`, `OneInstaller`, `PinnedPayloadStays`, `StartsWholeRelease`, `RefusedOnlyWhenReplaced`, `ImplementsActiveRelease`, `DeadWriterReplaced`, `DeadInstallerReplaced` |
| `ledger_start` | 3 starts with 3 policies, and their drains, after one that ended | `TypeOK`, `OneKey`, `MigratedWhole`, `ServingAgree`, `NothingTakenBack`, `StartEnds` |
| `store_ambiguous`, `system_moved_owner`, `system_early_death`, `system_stale_list` | as above | one documented statement each, which the code violates (section 6) |

**Bounds.** Two requests are enough for one turn to hold the seat another waits
for; three requests and two seats make the fair selection and the last seat of a
drain matter. `MaxTime`, `MaxLag` and `MaxGeneration` bound the clock, the age of a
timestamp and the generations a fence may name; one tick exceeds every interval, so
a deadline, a cooldown and a start interval all pass within the bound, and a lag of
one tick already lets a transaction write a timestamp older than a committed one.
In `store_lag` both turns may start at once, so that spacing is what keeps them apart, and
its process records are symmetric (`ChildSymmetry`); that run checks safety only.
`LastArrival` bounds when prompts arrive, so that in the liveness run every
deadline is reached. In the proxy, two prompts of one session let a turn follow another
before the first one's handler has ended, and the third shows that sessions do not
disturb each other, also when the store fails for one of them. Deadlock is not checked: a system whose turns have ended and
whose clock has reached its bound really stops, and so does one whose processes have
all exited.

`managed_kernel` starts from three kinds of store (`MCInit`): everything installed, with a
release to roll back to; the first installation, interrupted with both locks left; a
store on which another generation is active, with or without a dead writer's lock. Two
lives are enough for one to die at any step and the other to find what it left, for a
package to be upgraded from `m1` to `m2` under a prepare, and for a cleanup or an
activation of another generation to run beside a start. Of two connectors one
may die, since the other is there to recover; beside an operator both may. `Attempts` is 2 instead of 4: one failed try
and the last one. The premise `stolen` becomes true in the run (a connector and the operator recover the same
dead writer's lock), so there the properties with that premise are checked up to the bad
recovery; `robbed` needs three lives, and in the run two installers really are kept apart.
With three lives at once the safety properties hold too (3.1 million states, explored once,
not a run because of its length). The theorems cover any number.

`ledger_start` has two connectors with three seats that differ in their terms, and a third
whose policy is the first one's after a drain, so that it is refused before and during the drain and
accepted after it, beside the first that still serves. `Retries` is 2 instead of 100.
`MCFound` leaves out stray tables from version 2 on and, of claimed rows, all but that of the first
connector, steady or draining; `MCInit` leaves out an earlier start that died before it made
a ledger, and temporaries but that of the key's publisher. The theorems cover all of `Init`.

**Fairness** (`AdmissionSystem!Fairness`) is weak and covers what the code schedules
with timers: the queue poll of a live connector, its reaper, the clock. It also
assumes that what a dead connector leaves behind ends: its kernel reads end-of-file,
the processes of the kernel exit. Nothing is assumed of a connector that is alive:
its kernel may answer or not, and its turn may hold its seat for ever. `WaitEnds`
holds nevertheless, because of the queue deadline.

`KernelProxy!Fairness` is weak too: handlers whose await is over, the cancel and the
kill timer, the reading of a kernel that is stopped or has exited, its close event. It
includes that an admission wait ends, which `WaitEnds` shows of the coordinator.
Neither the client (reading, writing) nor the kernel (answering, reading, exiting by
itself) is assumed to do anything.

`ManagedKernel!Fairness` and `LedgerStart!Fairness` say that a life that was begun takes its
next step until it ends or dies: its calls are synchronous or awaited, and each returns
or throws. Nobody has to begin a life or to drain the account, an operator has to do nothing, and no particular
outcome of a call is assumed: a download may always fail, a lock always be busy.

## 4. Proofs

Everything is proved for every set of requests, owners and process records, every
policy, every bound of the clock and every lag, from the named assumptions of
`AdmissionController` and `AdmissionSystem` (types of the constants, policy
validation, finite `Requests`).

* `TypeCorrect`: `TypeOK` is inductive as it stands.
* **The life of a request.** One relation, `RowStep(r)`, says what any transaction
  may do to one request (keep it, submit it, take it out of the queue, seat it, move
  its phase, give its seat back). `StepRowStep` proves it of every action once;
  `InventoryAlwaysTrusted`, `AlwaysLeasedAtMostOnce`, `PayloadNeverReplayable`,
  `TransitionsDocumented` and `FencesAlwaysHold` then look at six cases instead of
  25 actions. `LeasedAtMostOnce` and the payload theorem use `InventoryTrusted` as
  their strengthening: without it a lease of an unknown phase could be moved.
* **Counting.** `SeatStep` says that a step adds at most one seat, and only under
  `HasDispatchCapacity`; `CardinalityStep` turns that into numbers. `StartsAlwaysWithinPolicy`
  follows. `SeatsAlwaysWithinPolicy` needs `PolicyNarrow`: a claimed limit never exceeds the
  configured one, and while the account drains nothing is added, so when the drain
  ends the pool is empty and the limit 1 holds.
* `StartsAlwaysSpaced`: spacing is checked against recorded starts *and* reservations
  at admission, and against recorded starts again at the start, so it survives
  timestamps that are out of order. `HistoryStep` and `SpacedStep` carry it.
* `StoreIsSeatPool`: the refinement mapping takes waiting, seated, done, limit and
  draining from the tables; each action is a step of the pool or leaves it alone.
* `DrainAlwaysNarrows`: a draining account takes no seat and a claimed limit never grows.
  The run checks it as part of `ImplementsSeatPool`, whose pool does just that.
* `SystemUsesStore`: every step of coordinators, reapers and processes is a step
  of the store's own specification or leaves the store alone. The invariant it needs
  says that the only generation in use is 1 and that the clock is within its bound,
  so that the fence and the time a coordinator passes are ones `Next` quantifies over.
  All theorems about the store are thereby theorems about the running system: with
  `StoreIsSeatPool` it gives `SystemIsSeatPool`, and with `SeatsAlwaysWithinPolicy` and
  `SeatAlwaysCoversWork` it gives `WorkAlwaysWithinPolicy`, what the store is for. Prompts
  that kernels work on are among the taken seats, and these are within the policy, so no
  crash, orphaned kernel, swallowed settlement or reaper lets an account work on more
  prompts at once than it may.

* **The running system.** `SeatAlwaysCoversWork`, `OutcomeAlwaysKnown`,
  `LiveTurnNeverDisturbed` and `SysTypeCorrect` follow from one invariant, `SysInv`: the
  types, the store's invariant, and `TurnInv` of every turn. `SeatCoversWork` is not
  inductive: it says nothing of a turn that is about to write. `TurnInv` adds that a
  turn before its write has given the kernel no work, that it holds its seat while
  its connector is alive in any way (also re-parented, when a reaper may already
  have marked it), that a request which never got a lease has no work, and that a
  lost turn is in no state with a known outcome. The proof has one lemma per
  coordinator step, per reaper step and per process event, and one (`UndisturbedTurn`)
  for the effect of a step on every other turn. Where the code's decisions are
  used: the group inspection in `ReapReleaseTurn`, the order of flag and write in
  `WritePromptTurn` and `SettleSentTurn`, the answer in `CompleteTurn`.

  `SeatsAlwaysTraceable` says how far the leak of section 6 goes: a seat without the
  identity that a reaper needs belongs to a turn between admission and prepare. The store
  alone would let a seat leave `starting` without one (`markDispatchIntent`, a recovery
  mark); `LeavesStarting` goes through what the processes ask of it and finds `Prepare` only.

* **The proxy.** `ProxyTypeCorrect`, `TurnAlwaysHoldsClaim`, `AlwaysAnsweredWhenDone` and
  `AlwaysOneTurnPerSession` hold for every set of prompts and sessions. None of the
  three safety properties is inductive: that the claim is not lost depends on the
  kernel answering only tracked prompts whose handler waits, that a prompt is answered
  once depends on the claim. `TurnInv` says all of it of one sound prompt, `LoopInv`
  what holds of any prompt (nothing sent means no work and no reply, the proxy listens
  until the kernel's output is drained). The case that matters is `ReadAnswer` of one
  turn next to another of its session: it drops the claim without looking at who
  holds it, and is right only because the answered turn still does.
  `AlwaysCancelDeadlines` adds `DeadlineInv`: a timer belongs to a session whose turn is
  cancelled and waits for the kernel. A timer that outlived its turn would stop the
  connector under the next one; a timer taken away by the late end of an earlier handler
  would leave the cancelled turn without a deadline. Both come down to `HandlerEnds`, the
  step in which a handler ends while the next turn of its session may hold the claim and
  the timer. `AlwaysRefusedNeverForwarded` needs no premise on the store: a handler that
  has told the client is past every step that writes to the kernel.

* **The kernel store and its users.** One invariant, `KernelInv`, gives the theorems
  of `ManagedKernelProofs` but the last: `StoreInv` (proved of every step of a call in
  `KernelStoreProofs`), the types, and what is known of phases, installers and starts.
  The safety of the store rests on one fact: while nothing was stolen, the life that is
  between taking the lock file and giving it up is alone, because a lock file is taken
  only from the dead. So what it verified (`target`), chose (`plan`) or read (`seen`)
  stays true until it uses it; `PlanInv` says what that is at each step, among it that
  both releases of a state about to be written or linked are complete, and that a
  cleanup has seen the active state. `ReleaseMatches` needs only that a stage carries the
  module of its target from the copy on, which no lock protects and no upgrade changes.
  `AlwaysOneInstaller` and `AlwaysPinnedPayloadStays` use `InstallInv`: an installer owns
  the install lock of its generation until a waiter removes it under it.
  `AlwaysRefusedOnlyWhenReplaced` uses `LaunchInv`: a life that has committed its state
  commits nothing more (`Committed`), so the state a start has read is the state it was
  while the link is where it was.
  `AlwaysStartsWholeRelease` is about the start alone and needs none of this. Its invariant
  (`GenerationInv`, with `StartIsLaunch` for what the other steps leave alone) says that a
  state is never one of two generations, wherever it is on its way from the proposal to the
  file, and that every release carries its module. The rest is decided by the checks of the
  start itself, which is why it holds after a recovery of the lock went wrong.
* **The promise of the lifecycle.** `LifecycleIsAtomic` proves that the lifecycle,
  one file-system call at a time, implements `ActiveRelease`. `KernelInv` does not suffice:
  it knows that what a call is about to link is complete, but not that it is the successor of what is
  active now. `CallsInv` adds, of every call while nothing was stolen, what it has achieved
  (`ProgressInv`): the state it chose, wrote and is about to link follows the active one by
  the rules of its operation (`Follows`), a prepare that goes on to the resolver has a
  verified release, a purge that is past its sweep has left only what the link keeps. And
  of every call (`ReportInv`): nothing is reported before its last steps. One lemma per group of
  actions (`LockImplements`, `PrepareImplements`, `ActivateImplements`, `CleanupImplements`)
  then names the abstract step of each, most of them stutters, and `StepImplements` puts
  them together with the steps outside the calls, which the promise does not see (`Quiet`).
  How much the premise `~stolen` excludes is proved too: `ApartUntilAWriterDies` (writers
  are apart as long as nobody dies holding the lock file) and `ApartWithoutCrashes` (for
  ever, if nobody crashes and no lock was left before). A recovery can only go wrong
  between two survivors of the same dead writer.
* **The start of the ledger.** `StartInv` says that a ledger at a version is what the
  migrations make of an older one (`WholeAt`, by cases of the version; lemmas
  `WholeFirst` ... show each migration right on every schema of `Found`), that the
  published key is never replaced because `link` fails on a name that exists, that a
  draft exists only under the write lock and agrees with the ledger it was read from,
  that a draining row has the three seats a drain starts at (`RowInv`), and that a start past
  `CheckSchema` has seen the contract. Whoever serves has the policy of the ledger or one
  that a drain turns into it: a drain keeps the terms, a second one changes nothing
  (`OneSeatPolicy`), and a claim on a drained ledger adds only connectors of one seat.

Everything about the kernel is proved for every set of lives, generations and modules,
any number of attempts and any pattern of deaths; everything about the start for every
set of starts and policies and any number of retries.

Three proved properties are listed in no configuration, because checked ones say it at
their scale: `DrainOnlyNarrows` (`ImplementsSeatPool`), `WorkWithinPolicy` (`SeatCoversWork`
and `SeatsWithinPolicy`) and `RefusedNeverForwarded` (`AnsweredWhenDone`, for prompts whose
store does not fail). A fourth, `SeatsTraceable`, was checked once on the instance of
`system_safety` before it was proved. The types of the store are checked as a part of
`SysTypeOK`.

Only model-checked: `DeadSeatFreed`, `WaitEnds`, `CancelEnds`, `ShutdownEnds`,
`DeadWriterReplaced`, `DeadInstallerReplaced` and `StartEnds`, because liveness under
fairness is out of the proof system's reach.

## 5. Not modelled

What is left keeps no state that several actors share, or is not decided by this
repository:

* The turn scheduler: the official kernel path uses only its `TurnClaim`, whose claim,
  release and abort are in `KernelProxy`; reservations and promotion have no caller.
* The rest of the proxy (session setup, skill tokens, model tracking): it rewrites
  messages that pass. Setup requests, prompts without a session id, which hold no claim,
  the text of updates and a child that never got a pid are left out with it.
* NDJSON framing, message folding, parsing of `/proc`, classification of provider errors:
  string processing in one process, where a model would abstract away what can go wrong.
* Encryption, key derivation, hashes, the patch recipe: data. A digest is the thing digested.
* MCP bridges (HTTP forwarding), skills, modes, login, diagnostics, session context,
  runtime configuration, and the build, release and test scripts.
* Platforms without the compatibility layer, whose binary is started as it is.

Faults left out of the models: reuse of a pid by another process while a lock names it,
a writer suspended for more than 30 s between creating its lock file and completing the
receipt, loss of power (`fsync` is not modelled: processes die, the machine does not),
files of other users or with other modes, a connector of an older package that is
working on the ledger while a newer one migrates it, and a failure to remove the writer lock.

## 6. Where documents and code disagree

* `AmbiguousHoldsNoPayload`: domain-model:290 deletes the stored prompt when a dispatch
  becomes ambiguous; `markDispatchAmbiguous` keeps it until the seat is settled.
* `LiveQueuedKept`: domain-model:285 cancels a queued request only when its owner's exit is
  proven; identities include the parent pid, so a live connector that is re-parented
  is taken for a reused pid. Its active turns are marked for recovery the same way.
* `PreIdentityDeathRecovered`: domain-model:310 moves a request whose owner died before
  its process identity was stored to a payload-free `recovery_required`; the code
  retains it in `admitted` or `starting`, and its seat with it, for ever.
* `GroupGoneAtRelease`: controller.ts:782 releases a seat when connector, child and group are
  proved gone; a process started after the list was read is not looked at.
* `OnePromptAtATime`: proxy.ts:358 refuses a prompt while its session has an active
  one. A store error in `markActive`, after the prompt was written, ends the handler with
  an error and drops the claim, so the next prompt is forwarded beside the one the
  kernel still works on. The pending entry stays: the late answer reaches the client as a
  second reply and frees the newer turn's claim, and a cancel that comes before it
  arms the timer that stops the connector.

Observations that no run states, because the properties name them as premises or no
document promises otherwise:

* ensure-managed-kernel.ts:146 says that the reaper keeps a waiter from removing a newer
  lock. With three connectors it may: one reads the owner of the lock, that owner leaves
  and exits, a third takes the lock, and the probe of the first finds the old pid dead.
  `OneInstaller` therefore holds up to the first such removal (`robbed`).
* `quarantineStaleLock` compares the lock and then renames whatever has its name. Two
  recoveries and a new writer in between put a live writer's lock into quarantine; the
  recovery notices and fails, but the writer is no longer alone (`stolen`).
* A prepare rewrites the stable resolver with its own pins before anything of that
  generation is activated. From then on the stable wrapper refuses the release that is
  still active, although the runbook (docs/operations/official-kernel-compat-runbook.md:49)
  says that the active pointer is not modified, which is true of the link alone.
  `RefusedOnlyWhenReplaced` counts it as another generation that took the wrapper.
* An installer that dies before `owner.json` is written, and a waiter that dies while it
  has the reaper, leave a directory that nobody removes: every later installation of that
  generation waits 180 s and fails. `DeadInstallerReplaced` excludes both.
* A prepare that dies between the rename and the chmod leaves an `open` release. Later
  prepares of the same artifact refuse it until a cleanup with removal takes it away; a
  removal that dies after the receipt is gone leaves one that every later cleanup skips.
* `.activation-stage-*` directories of dead writers are never removed, and a removal does
  not look whether a kernel runs from the release it removes.
* A publisher of the key that dies between link and unlink leaves two links; every
  later start fails until someone removes the other name (`StartEnds` says that they
  fail, not that they serve).
* A ledger of version 1 or 2 with a table that is in no version is migrated, and then
  refused by the comparison with the contract, at that start and at every later one.
* A draining account still starts turns that were admitted before (domain-model,
  `admitted -> starting`, excludes it), and the startup recovery's residue check reads
  `code` of an error that carries `kind`, so a process that vanishes during the inspection
  makes it retain a seat until the reaper runs.
