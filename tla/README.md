# Paperboat: TLA+ models, model checking and proofs

Paperboat connects people to machines they own. A **host runtime** on each machine
(`cli/internal/hostruntime`) runs terminals, commands, file transfers and previews; the
**command line client** (`cli`) reaches it directly, through a **relay** (`relay`) or through
an **edge node** (`tunnel`) that serves public routes; the **server** (`server`) is the control
plane over PostgreSQL. Code used on several sides is in `shared`.

This directory models the parts whose correctness depends on the order of events, checks them
with TLC on small instances and proves their main invariants with TLAPS for all sizes.
`PROJECT.json` is the index: components, runs, mutants, the map from definitions to source
lines, findings, hazards and theorems. Paths below are relative to `src/`.

## 1. Inventory

### Parts and how they interact

| part | source | state | operations that change it | meets |
|---|---|---|---|---|
| edge usage metering | `tunnel/internal/usage` | counters per identity, baseline, bounded report queue | record, prune, flush, restore | streams, usage worker |
| edge usage delivery | `tunnel/internal/runtime`, `control/delivery.go`, `store` | iteration of the worker, store file | tick, send, acknowledge, save, stop | metering, control plane |
| usage reconciliation | `server/internal/controlplane/usage.go` | receipts, absolute counters, debits | one serializable transaction per report | edge |
| host operation journal | `cli/internal/hostruntime/operation`, `store` | entry table, eviction order, rows | execute, wait, complete, evict, clean up, reload | every mutating request |
| worker leadership | `server/internal/workers` | advisory lock, leader row, heartbeat, worker goroutines | acquire, hold, lose, join, release | PostgreSQL, all background workers |
| admission lease | `shared/admission/lifetime.go` | context, owned releases, goroutines | OnDone, Watch, Poll, Revoke, Close | revocation cache, authority state, every admitted stream |
| admission staging | `shared/admission/staging.go`, `serverclock` | setup bounds, acceptance | Accept, Abort, two callbacks | lease, dialling code |
| edge admission | `tunnel/internal/admission`, `operation` | consumed operations | admit, expire, snapshot, restore | connectors |
| edge node manager | `tunnel/internal/node` | connectors, streams, drain | admit, replace, remove, open, close, drain | node worker, data carrier |
| edge durable admissions | `tunnel/internal/datacarrier` | assignment set, change channel | replace, authorize | control session |
| edge handover | `tunnel/internal/handover` | listening sockets, release | offer, inherit, ready, release | the replacing process |
| revocation cache | `cli/internal/hostruntime/auth` | revoked ids, watchers | watch, replace | feed, leases |
| exec manager | `cli/internal/hostruntime/execprocess` | processes, reserved operations | start, end, persist, load | runtime store |
| worker update | `cli/internal/hostruntime/updateflow`, `updated`, `workerupdate` | stage journal | transition, recover | supervisor, hostd |
| network recovery | `cli/internal/hostruntime/networkrecovery` | latest and active generation, attempt, retry | observe, replace, fail, stop | carriers |
| runtime attachment | `server/internal/runtimeattachment`, host side | attached generation | attach, detach, hand over | edge, host |
| terminal sessions | `cli/internal/hostruntime/session`, `sessionowner` | subscribers, output history | attach, write, detach | clients |
| relay node lifecycle | `relay/nodelifecycle`, `relay/cmd/paperboat-relay`, `server/internal/controlplane/relay_nodes.go` | state file, lease, acknowledged list; registry row, stored list | start, observe, lease end, drain, exit; operator drain and resume | relay admission, control plane |
| relay admission | `relay/derpquic` | fences, connections | admit, revoke, disconnect | relay lifecycle, grants |
| reattach | `shared/reattach` | recovery budget | run, after failure | client streams |
| bandwidth gate | `server/internal/bandwidthgate` | cached answers, background lookups | ask, look up, refresh, store, evict | billing, relay observations |
| accounting authority | `server/internal/accountingauthority` | retained payer bindings | record, expire | usage receiver |

The remaining parts (HTTP front ends, SQL handlers, certificates, configuration sync, service
installation, codecs, the console and the marketing site) are listed in `PROJECT.json` with the
reason they are left out.

### What is hard here

- *Crashes between two saves*: usage counters and their reports are two parts of one file; an
  operation row is reserved before its handler runs and completed after it; a relay saves its
  pending epoch before it registers and its generation after.
- *Lost, repeated, late and reordered requests*: usage reports are posted until acknowledged and
  may be served in any order; clients repeat operations; a relay's observation may be handled
  after the relay gave up on it, and then replaces what a later one stored.
- *A cached view that is stale*: an instance believes to lead after its database backend ended;
  a watcher looks at the authority before it waits for the next change; a gate lookup stores
  what it derived from the entry it read before; a digest names a list that was replaced.
- *Races for one resource*: several `Close` calls, a revocation and a late `OnDone`; the callbacks of a
  deadline and of a context against `Accept`.
- *Limits*: the report queue, the live counters, the entry table, the gate's cache and its lookups per round.
- *Things that must happen*: delivery, waiters' answers, a leader after a failure, the end of
  a lease whose access was withdrawn, a relay open again to an account that topped up.

Each hazard is listed in `PROJECT.json` at the line where it bites, with the properties that
cover it, or a note saying why none does.

## 2. Modules

Theorems and proofs are in modules of their own (section 5). `MCUsageMetering` adds the symmetry
set of one configuration; the other modules are run as they are, their constants given model
values by the `.cfg` file.

### UsageMetering

The whole accounting path, edge and control plane composed. `counters`, `last` and `queue` are
`Counters.values`, `Meter.last` and `Queue`; `disk` is the store file; `receipts`, `srv`,
`billed` and `expired` are the control plane's tables. Time is a clock shared by edge and
server. A counter identity is a flow in one epoch (one process life) and one delivery window.

| action | code |
|---|---|
| `Record` | `Meter.Record`, with pruning when the counters are full |
| `FlushOne`, `FlushSave`, `FlushFull`, `FlushSaveFail` | `Meter.Flush`, under `Meter.mu`, with its save and both errors |
| `DeliverNext`, `ReportAccepted`, `ReportFail` | `control.DeliverNext` and the acknowledgement |
| `SnapshotCounters`, `SaveSnapshot` | the save after an acknowledgement, which does not hold `Meter.mu` |
| `ReconcileUsage` | `reconcileUsage`, any request ever sent, in any order, any number of times |
| `Start`, `Crash`, `BeginStop`, `DrainUsage`, `FinalSave` | restore with migration of revision-partitioned counters, a crash anywhere, an orderly stop |

The `sent` set never shrinks: that is duplication, delay and reordering at once. Bytes are
counted one at a time and saturate at `MaxCounter`, as the code's `uint64` does.

`UsageLedger` is what the whole path promises the workspace that pays, without counters, reports,
stores or processes: bytes pass, are secured against a crash, and are charged or expire; nothing
charged or secured is taken back, and nothing is charged or secured that did not pass.
`MeetsLedger` is its specification with `secured` mapped to what flushes have persisted
(`flushed`); it is checked by the `usage_legacy` run and proved.

### OperationJournal

`Journal.Execute` over the rows of `operation_results`. A *run* is one reservation; `mem`,
`order` and `db` are the entry table, the eviction order and the rows. `ReplayEntry`, `Wait`,
`ReplayRow`, `ReserveLost`, `Refuse` and `Reserve` are the ways a call can go (the last four with
the periodic cleanup and the eviction they start with); `Perform`, `Complete`,
`CompleteFails` and `Finish` are the steps of a run, in between which other calls happen;
`Restart` is a crash followed by `NewPersistentJournal`. A database error may come before or after
the write.

`OncePerRetention` is the contract the journal offers its clients, without tables, rows or
restarts: a claim takes effect at most once, an operation is claimed again only when no claim of
it is open and the earlier ones were kept for the retention period, and answers come from a
claim for the same operation and request. `MeetsContract` is its specification under the mapping
of the journal's state (`INSTANCE OncePerRetention WITH ...` in `OperationJournal`); it is checked
by the `journal` run and proved.

### WorkerLeader

Several instances of the server, each with `Supervisor.Run`, `PostgresLeader` and its workers,
on one database. PostgreSQL holds the lock for a backend: it can end under its instance, and an
instance can give up a connection whose backend lives on (`lock = "orphan"`). The heartbeat has
its ticker (`left`, `ready`), its statement and its timeout (`busy`). Timers count down, so
time is not bounded. The comparison of `Check` and `Timeout` in the code (both 5 s) is the
assumption `Timeout <= Check`.

### AdmissionLease and AdmissionStaging

The lease of `shared/admission`: its context, its `WaitGroup` (as the set of what it counts),
the `sync.Once` of each release and the goroutines of `Admit`, `Watch` and `Poll`, interleaved with
callers of `Close`, `Revoke` and `OnDone`. Staging: the callbacks of the caller's context and of
the deadline, each armed, started or stopped, racing `Accept` for one lock; the
server clock may move either way in between.

`LeaseContract` is what a lease promises, without lock, WaitGroup or cleanup list: a resource it owns
is released once and only when the lease is over, nothing starts under a lease that is over,
and a `Close` returns when no goroutine runs and no owned resource is unreleased; what is given to
a closed lease is released by the giver. `AdmissionLease` maps its state to it (`Busy`: the goroutines
that run; `Closing`: the stage of each `Close`); `MeetsContract` is checked by the `lease` run and
proved.

### BandwidthGate

The gate's cache (`keys`, `cache`), its background lookups (`refresh`), one goroutine per account
asked about (`call`) and the relay that asks (`round`, `since`, `quotaDenied`). `Cached`, `Skip` and
`BeginLookup` are the ways `DeniedAmong` treats an account; `LookupAnswers`, `LookupFails` and
`LookupPuts` are `Denied` around its unlocked lookup; `RefreshAnswers`, `RefreshFails` and
`RefreshPuts` are `refreshInBackground`. `Put` models `put` with its passes of eviction, whose map
order is a choice. An answer reaches the relay (`SetQuotaDenied`) or is lost (`ObserveLost`).
Times are relative: what is left of an entry, the age of its denial, the time a lookup has taken.

### RelayLifecycle

One relay node and the control plane composed. `disk` is the state file, `proc`, `draining`,
`lease` and `sent` are the process and its client, `fence` and `peer` the admission state,
`rpc` the request under way, `late` the abandoned ones that may still be handled, `reg` and
`stored` the registry row and the stored list. An endpoint has one connection for each of its
carriers (`Namespaces`) and one fence. Of its identity, `config` and `floor` are the configuration and the
revocation generation, `pool` whether the account is eligible for the node, or the identity erased.
`build` and `grants` are what is left of the configuration request and of the grant of each generation.

| action | code |
|---|---|
| `Start`, `StartSaveFails`, `StartAccepted`, `Started`, `StartedSaveFails` | `Client.Start`: read, save the pending epoch, register, save the generation; a save may fail before or after the rename |
| `Observe`, `ObserveAccepted`, `ObserveFails`, `ObserveFenced` | `Client.Observe` with the list's digest, and how `Client.Run` treats its outcome |
| `LeaseExpires`, `Drain`, `Stop`, `LastObserve`, `Exit` | the end of the lease, a signal, the shutdown with its last observation, an exit or crash anywhere |
| `ServerAnswers`, `ServerHandlesLate` | `StartRelayNode` and `ObserveRelayNode`, one transaction each |
| `OperatorDrain`, `OperatorResume` | an operator's actions on the row |
| `Configure`, `Mint` | a configuration request: the clock and the generation come first (`endpointsUpdate`), the grant later (`relayGrants`), and it ends with the earliest of the request's minute, the row and the authority it rests on |
| `Withdraw`, `SetPool`, `ChangeMember`, `Erase` | the triggers `advance_peer_network_for_...`, `revokeIneligible`, joining or leaving the team that owns the node, the erasure of an account |
| `Admit`, `Disconnect` | `Server.admit` with the pruning of fences; `Server.Revoke` is part of `ObserveAccepted` |

`MinGeneration` is the three-way choice of `relayMinGenerations`: the revocation generation of an eligible
identity, one above both generations of an ineligible one, and above everything for a missing one.

Every deadline is the time left until it. `exposed`, `barred` and `drained` are history variables:
they record, for the properties, how long an endpoint has been forwarding under a newest grant that is no
longer valid, the generations a revocation found issued, and a recorded drain.

## 3. Runs

| run | configuration | properties | shows |
|---|---|---|---|
| `usage_crash` | `UsageCrash.cfg` | NeverOverBilled, FlushedNeverLost, FlushAlwaysFits, CleanStopLosesNothing | two flows, two process lives, crashes and failed saves anywhere, lost and repeated requests |
| `usage_window` | `UsageWindow.cfg` | NeverOverBilled, CounterNeverRestarts, EventuallyDelivered | three delivery windows: rotation, pruning, expiry; delivery while the edge stays up |
| `usage_legacy` | `UsageLegacy.cfg` | FlushedNeverLost, CounterNeverRestarts, MeetsLedger | the first start finds counters partitioned by revision; counters saturate; the ledger UsageLedger is implemented |
| `usage_baseline` | `UsageBaseline.cfg` | BaselineRepresented (violated) | finding 1 |
| `journal` | `Journal.cfg` | RunsOnce, NeverOverlap, ReplyIsOwn, JournalBounded, NoStaleReply, WaitersAnswered, MeetsContract | the contract OncePerRetention is implemented, under repeats, eviction, expiry under a running handler, failed writes, restarts |
| `leader` | `Leader.cfg` | OverlapNeedsLoss, RowNamesLeader, TermEndsInTime, LeaderAgain | handovers, stops, a backend that ends at any point of the heartbeat's cycle |
| `leader_overlap_bound` | `LeaderOverlapBound.cfg` | OverlapBounded (violated) | finding 2 |
| `lease` | `Lease.cfg` | CloseJoins, ReleasedOnce, NothingMissed, MeetsContract, ReleasesRun, WithdrawalEndsLease, WaitsEnd | the contract LeaseContract is implemented, with two Closes, a watcher, a poller and a subscription in every interleaving |
| `staging` | `Staging.cfg` | AcceptedIsFree, AcceptedInTime, SetupBounded | both callbacks at every point of Accept and Abort |
| `gate` | `Gate.cfg` | TypeOK, HoldIsBounded, EventuallyAdmitted | two accounts share a cache of one entry and one lookup a round; failures, evictions, lost answers and billing changes |
| `gate_denial` | `GateDenial.cfg` | DenialNotReopened (violated) | finding 3 |
| `relay` | `Relay.cfg` | StartResumable, ServingIsRegistered, DrainIsFinal, RevocationBound, RevokedStaysOut, TakeoverIsClean | two process epochs with crashes and failed saves, lost and late requests, drains, an endpoint on two carriers, its grants and their revocations |

Safety properties proved for all constants are checked where the bounded instance adds a scenario or
a mutant of its own; type invariants are left to the proofs, except the gate's, which holds the limit of
its cache.

Every property also has a mutant in `PROJECT.json`: a plausible bug in one mapped definition,
under which TLC finds the property violated. The mutants are the definitions marked *Mutant* or
*Plausible slip* in the modules; nothing else uses them.

**Bounds.** *Usage*: two reports and counters up to 2 are the smallest values at which the queue
fills, coalesces and saturates; two process lives are one crash or stop with everything
restored from the store; three windows (`MaxTime = 2`, `DeliveryWindow = 1`) are needed for a
counter to be pruned while another is live. *Journal*: two operations on a table of
one entry evict each other; three runs let one operation be forgotten and repeated while the
other one runs; `Retention = 1` lets rows expire under a running handler. *Leader*: two instances, a
check period of two units, so that a failure falls before, on and after a tick; one failure is
enough for a lost backend, an orphaned one and the handover after it, and the safety properties are
proved for any number of failures. *Lease*: one
release and two closers race for it; two changes of the authority are a withdrawal before or after
a change that keeps access. *Staging* is finite by itself. *Gate*: two accounts evict each other from
a cache of one entry and exceed one lookup a round; `MaxLag = 0` lets any number of steps, but no
clock tick, fall between a lookup's start and its put; ticks within a lookup are left to
`gate_denial` and to the proof of HoldIsBounded. *Relay*: two epochs are a start, a crash and a
retry under either epoch; a lease of one with a registry of two and a request deadline of two
lets an answer come late or after its lease, a lease end before the row does and a row expire before
a retry; one late request is enough to undo a drain, replace a list or come as a start after the next
epoch has registered. Two generations on two carriers are an old and a new grant of one
endpoint at once; grants and fences of two units let a newer grant end before an older one.
`Budget` (in `MCRelayLifecycle`) bounds restarts, late requests and changes of the identity together: one
epoch with three changes, or with two and a late request, two epochs with one of either. Carriers
are a symmetry set. A retry's lease is shorter than a full one only with longer leases
(`RetryLease`): ServingIsRegistered is proved for all of them. The clock of the newer models is not
bounded; epochs, generations and late requests are. Clock, runs, failures, changes, epochs,
generations and late requests are the only things cut off, each by the constant commented *bound*.

Deadlock is checked in the leader, gate and relay runs, where time or some process can always
go on. The others may stop: a lease or a staging ends, and the usage and journal models reach their bounds.

**Fairness.** Goroutines that can run do (weak fairness on their steps), handlers and releases
return, and time passes. Strong fairness is used where the code retries or chooses again and
again: the store, the control plane and their answers work from time to time
(`FlushSave`, `ReconcileUsage` of the held report, `ReportAccepted`); a lookup of `Poll` does not fail for ever
after a withdrawal; a `select` with several ready cases takes each of them at some time
(`HeartbeatStops`); a Go mutex does not starve a waiter (the callbacks of Staging). In the gate,
goroutines run, lookups end (in an answer or in their deadline's error), observations come in their
cadence and not every answer to a relay is lost (strong fairness of `SetQuotaDenied`); no
lookup need ever succeed. The relay run has safety properties only. No
fairness is assumed of crashes, stops, clients or callers who have not begun.

## 4. Findings

1. *A restored counter may be represented nowhere* (`usage_baseline`). After an acknowledgement
   `UsageWorker.deliver` (`tunnel/internal/runtime/workers.go:101`) saves a snapshot without
   holding `Meter.mu`. The stored counters may then include bytes recorded since the last flush.
   If the process crashes, `RestoreBaseline` takes them as reported and they are never charged.
   Its comment (`tunnel/internal/usage/meter.go:31`) says they are represented by the queue or
   an acknowledged report. The error is in the customer's favour: NeverOverBilled and
   FlushedNeverLost hold.
2. *The overlap of two leaders is not bounded as stated* (`leader_overlap_bound`).
   `server/internal/workers/leader.go:24` bounds it by the check period plus the heartbeat
   timeout. That bounds the term, which is when workers are cancelled (TermEndsInTime, proved); the
   successor does not wait for them to return, and a worker may write after its cancellation.
3. *A slow lookup can reopen an account known to be denied* (`gate_denial`). `Denied` derives its
   entry from the one it read before its lookup (`server/internal/bandwidthgate/gate.go:82`) and
   stores it at line 97, after the background lookup was started. If that one answers "denied" and
   stores it first, the late entry replaces it by "not denied" for `failureTTL`. The package
   comment (`gate.go:6-7`) says a slow lookup cannot. The account is denied again at the next
   successful lookup; HoldIsBounded and EventuallyAdmitted are about the other direction and hold.

## 5. Proofs

All theorems hold for every value of the constants allowed by the named assumptions
(`UsageAssumption`, `JournalAssumption`, `LeaderAssumption`, `LeaseAssumption`, `GateAssumption`,
`RelayAssumption`). The bounds on clock, runs, failures, changes, epochs and late requests are constants too, so they are no restriction.

| module | theorem | states |
|---|---|---|
| `UsageAccountingProofs` | TypeCorrect, NeverOverBilledHolds, MeetsLedgerHolds | TypeOK, NeverOverBilled, and that UsageLedger is implemented; lemmas on the queue, the store and the migration |
| `UsageDurabilityProofs` | FlushedNeverLostHolds, CounterNeverRestartsHolds, FlushAlwaysFitsHolds, CleanStopLosesNothingHolds | FlushedNeverLost, CounterNeverRestarts; without legacy counters FlushAlwaysFits, CleanStopLosesNothing |
| `JournalProofs` | JournalTypeCorrect, RunsOnceHolds, NeverOverlapHolds, ReplyIsOwnHolds, JournalBoundedHolds, NoStaleReplyHolds, MeetsContractHolds | the inductive invariant and its steps, the journal's safety properties, and that it implements OncePerRetention |
| `WorkerLeaderProofs` | LeaderTypeCorrect, OverlapNeedsLossHolds, RowNamesLeaderHolds, TermEndsInTimeHolds | the leadership's safety properties |
| `AdmissionLeaseProofs` | LeaseTypeCorrect, CloseJoinsHolds, ReleasedOnceHolds, NothingMissedHolds, MeetsContractHolds | the lease's safety properties, and that it implements LeaseContract |
| `AdmissionStagingProofs` | StagingTypeCorrect, AcceptedIsFreeHolds, AcceptedInTimeHolds | the staging's safety properties |
| `BandwidthGateProofs` | GateTypeCorrect, HoldIsBoundedHolds | TypeOK with the cache's limit, HoldIsBounded |
| `RelayLifecycleProofs` | StartResumableHolds, ServingIsRegisteredHolds, RevokedStaysOutHolds, DrainIsFinalHolds, RevocationBoundHolds, TakeoverIsCleanHolds, RelayTypeCorrect | the relay's safety properties, the action property TakeoverIsClean, TypeOK |

**Usage, accounting.** NeverOverBilled is not inductive: a report in flight could carry any
number. `Accounting` adds that every copy of a counter, in memory, in the snapshot under way, in the
store (also summed over its partitions) and in every report queued, stored, held or ever sent, is
at most what was recorded.

**Usage, durability.** A flushed value must survive a crash at any step, so `Durability` speaks of
the store: whatever the store would restore is represented by the server or by the stored
queue, or is the part of a migration that the start flushes again before anything else may save
(`StartReported`, `StoreReported`); every receipt is covered by the server's counter, so an
acknowledged report may leave the queue.

**Usage, totals.** A pruned identity's window lies in the past (`PrunedWindowIsPast`, from the
rotation by window), so it is never recorded under again; `Totals` says of each identity of the
epoch that it is live with its total or pruned with everything delivered.

**Usage, room.** FlushAlwaysFits compares two sizes, so it needs to know why they are related:
`Room` says that the live counters are within the limit of the queue and that each pending report, in
memory and in every store a start may read, has a live counter of its own. The report that a due
counter lacks then finds a free slot (`FreeSlot`, from the theorems on finite sets). This holds
for `~Legacy` only: a store from before the migration may hold two reports for one identity, and
both theorems say so. CleanStopLosesNothing adds `Drained`: since flushes fit, the flush of a drain ends
with no counter due, and from there to the final save nothing is recorded (`Accounted`).

**Usage, ledger.** Under the mapping a record is `Pass`, a flush's save is `Secure` and a transaction
is `Bill` or `Expire`, or leaves the ledger alone; that no charge exceeds what passed is `Accounting`, that
what is secured passed is one more invariant (`SecuredPassed`).

**Journal.** `JournalInv` adds to the types: entry and row of an operation are its latest run and
agree; a running operation keeps its entry (`Identity`); a run that is not yet forgotten has its row,
which expires no earlier than promised, and a later run began after that (`Remembered`); whatever
can be replayed was performed (`Outcomes`). The properties follow; NoStaleReply is an action
property and uses the invariant before and after the step. For the refinement, every action is
mapped to a step of the contract or to a stutter; that an operation is reserved only when no
claim of it is open and all are past their retention is `Identity` and `Remembered` again.

**Leader.** `Rights` ties the lock, the connection, the row and running workers to the phase of
the supervisor; `Timely` bounds the time since a backend's end by where the heartbeat is: waiting
for a tick, sent, or applied.

**Lease.** `Counted` (what runs is in the WaitGroup), `Joined` (nothing is added after Close
began), `Once` (a release began exactly when its state says so) and `Fresh` (a watcher that
holds the current change signal looked after the last change). The refinement maps each step to one of
the contract or a stutter: a `Close` that has emptied its list returns when the WaitGroup is empty, and
`Counted` says that then nothing runs and nothing owned is unreleased.

**Staging.** `StagingInv` says who holds the lock (`Locking`) and what `Accept` has seen of the
caller, the lease and the deadline at each of its looks (`Seen`); a callback that waits for the
lock finds the setup accepted.

**Gate.** `GateInv` relates the dates the gate has stored (`Dated`), the ones a call has read and
may yet store (`Asked`) and those of a background lookup (`Refreshed`) to the time of the last true
denial. HoldIsBounded alone is not inductive: a call in its lookup carries an old date.

**Relay.** *Starting* (`RelayInv`): a start request that could still register is the one of the
file's pending epoch (`Sound`), whether under way or late; while a process serves, the row is its own
and lasts as long as its lease or the answer under way. *Fences* (`FenceInv`): each
generation that a revocation bars has run out, as a request that could still sign it and as a grant, or
is below the fence, which is a newer grant's or lasts as long (`Covered`). This needs
`GrantTTL <= FenceTTL`, that a request allows no more than a grant's lifetime (`Within`), and that
only issued generations are barred (`Issued`), so that a new one is not; it does not need grants to
end in the order of their generations.
*Exposure* (`ExposeInv`): while the newest grant of a connected endpoint is not valid, its exposure and
what is left of the lease make at most one lease (`Near`), or at most two and the next list is sent in full with the
endpoint (`Open`); what accepting the answer under way leads to is `Ahead`. *Takeover* (`Numbered`): every registration uses up an
epoch, and the file's pending epoch is newer than every registered one; a start that can still register
belongs to it, so nobody is past a start. The same numbers bound every generation and epoch, which with
the shape of what is sent and stored (`Shapes`) gives TypeOK. The bound of two
leases is tight: TLC reaches it when a late list makes the control plane ask for the full
one.

**Only model-checked.** Liveness is outside the prover: EventuallyDelivered, WaitersAnswered, LeaderAgain,
ReleasesRun, WithdrawalEndsLease, WaitsEnd, SetupBounded, EventuallyAdmitted. FlushAlwaysFits and CleanStopLosesNothing are not proved for a
first start with revision-partitioned counters; no run covers that either, because two reports of one
identity may then be queued. Every other invariant and action property a passing run checks
is also proved.

## 6. Abstractions

Left out because no property tells them apart: payloads, signatures, digests (an operation id is
the record it is a digest of), wording of errors, logging and metrics; who is debited for a
report; the length of back-off delays. Modelled from use, and marked external in the map: a
connection that fails, a backend PostgreSQL ends, the end of an orphaned backend, billing's changes
and the passing of time. Of PostgreSQL
the models use serializable transactions, session locks, and errors that come before or after
the effect. The edge and the server share one clock in UsageMetering; skew between them
would move the limit of the delivery window, not the accounting. The relay and the control plane
share one clock too: `MaxClockSkew` of the grants is not modelled.

In RelayLifecycle a list of subjects stands for its digest, and an endpoint keeps its key. Left out
there: retirement of a node, capacity limits and quotas, the limits on connections, an operator's change
of a region (which drains its nodes in the same transaction) and the generation change of a managed
node's update (`server/internal/operatorinfra`), relays that send generations with their list
(`relay_subjects.go:133`), merging of grants on one connection, conflicting grants of one generation,
peer-relay leases, and `Revoke`'s overload error, which `Run` treats like a lost answer.

What the two properties about revocation do not say, because the code does not do it:

- *RevocationBound is about an endpoint's newest grant.* The relay keeps one fence for all carriers of an
  endpoint, and `admit` replaces only the connection of the same carrier. Once a newer grant has been
  admitted on another carrier, `Revoke` for a generation up to it returns early
  (`relay/derpquic/server.go:604`) and a connection under an older grant stays open until its
  carrier ends or presents a newer one. The comment of `Revoke` (`server.go:590-591`) says that it closes the connections of
  older grants now. The model has these behaviours; `Stale` does not count them.
- *RevokedStaysOut ends with the newer grant's fence.* An admitted grant's fence takes the place of the
  revocation's with the grant's own expiry (`server.go:416-420`), which may be shorter
  (`server/internal/peersessions/network.go:741-743`). When it has expired and no carrier is connected, the next admission prunes it, and
  a grant below the revocation that is still valid can be admitted (`BarLifted`).
- A new process knows no revocation until the answer to its first observation that names the endpoint;
  its grants are its own, because a grant names the process.

DrainIsFinal is about late
observations: an operator's resume ends a drain by design. In BandwidthGate a relay lists any
accounts; past `maxFresh` uncached accounts a round reaches only the first ones, and whether the others are reached
later depends on lookup times about which the code says nothing.

## 7. Not modelled

- *Revocation feed* (`cli/internal/hostruntime/auth`): AdmissionLease takes the authority's changes
  as inputs; a stale poll answer lasts until the next poll.
- *Worker update* (`updateflow`, `updated`, `workerupdate`): its recovery depends on the native
  installation owner, a helper process and the host daemon's ledger as much as on its journal. It is
  the first candidate for a further module.
- *Edge operation journal and admission service, node manager, network recovery controller*: their
  operations have no caller outside tests, so there is no schedule to be faithful to.
- *Edge durable admissions*: replaced by one sequential caller (`RouteWorker.reconcile`).
- *Reattach*: a sequential loop owned by one command or connection.
- *Handover, exec manager*: sockets and processes of the operating system.
- *Runtime attachment, accounting authority, server handlers*: SQL transactions whose
  concurrency control is PostgreSQL's. Attachment and the terminal sessions' fanout are
  candidates for further modules.
- *HTTP front ends, packet forwarding, codecs, certificates, configuration, user interfaces*:
  I/O and data without shared protocol state.
