--------------------------- MODULE UsageMetering ---------------------------
(***************************************************************************)
(* Bandwidth accounting of a Paperboat edge node, end to end: streams call *)
(* Meter.Record, the usage worker flushes absolute counters into a bounded *)
(* coalescing report queue, saves counters and queue to the edge store,    *)
(* delivers the oldest report to the control plane and acknowledges it.    *)
(* The process may crash between any two steps and restarts from the       *)
(* store; requests may be lost, delayed, repeated and served out of order. *)
(*                                                                         *)
(* A counter identity is a flow (authority, environment, route, direction) *)
(* in one counter epoch and one delivery window; the route revision is     *)
(* report metadata (Key.counterIdentity).                                  *)
(***************************************************************************)
EXTENDS Integers, Sequences, FiniteSets

CONSTANTS Flows,           \* authority x environment x route x direction
          DeliveryWindow,  \* usage.DeliveryWindow, in clock units
          MaxReports,      \* Queue.maxReports, also the cap on live counters
          MaxCounter,      \* the largest uint64
          LiveRevisions,   \* revisions streams record under
          Legacy,          \* may the first start find revision-partitioned counters?
          MaxEpoch,        \* bound: process starts
          MaxTime,         \* bound: clock
          MaxRecorded      \* bound: bytes recorded per identity

\* A route has a revision before and one after its latest change.
Revisions == {1, 2}

ASSUME UsageAssumption ==
  /\ DeliveryWindow \in Nat \ {0}
  /\ MaxReports \in Nat /\ MaxReports >= 2
  /\ MaxCounter \in Nat \ {0}
  /\ LiveRevisions \subseteq Revisions
  /\ Legacy \in BOOLEAN
  /\ MaxEpoch \in Nat /\ MaxTime \in Nat /\ MaxRecorded \in Nat

VARIABLES
  now,       \* the clock edge and server share
  proc,      \* life of the edge process
  epoch,     \* counter epoch of the current process, 0 before the first start
  counters,  \* Counters.values; bytes = 0 means no record
  last,      \* Meter.last: the absolute value last put in the queue
  queue,     \* Queue.order joined with Queue.pending
  pc,        \* where UsageWorker.deliver is; "flush" holds Meter.mu
  held,      \* the report DeliverNext is sending
  snap,      \* counters already read by snapshotState, queue not yet
  disk,      \* the edge store file
  sent,      \* every report request ever posted: served in any order, or never
  receipts,  \* operation ids in control_usage_receipts
  srv,       \* control_usage_counters.bytes
  billed,    \* deltas debited from the workspace
  expired,   \* deltas acknowledged as expired_not_billed
  recorded,  \* history: bytes Record accepted
  flushed    \* history: absolute values a Flush persisted successfully

memory == <<counters, last, queue, held, snap>>
server == <<receipts, srv, billed, expired>>
history == <<recorded, flushed>>
vars == <<now, proc, epoch, memory, pc, disk, sent, server, history>>

-----------------------------------------------------------------------------
(* Data *)

Ids == [flow : Flows, epoch : 0..MaxEpoch, window : 0..MaxTime]
Counter == [bytes : 0..MaxCounter, at : 0..MaxTime, rev : Revisions]
Report == [id : Ids, rev : Revisions, bytes : 1..MaxCounter, end : 0..MaxTime]
Operation == [id : Ids, rev : Revisions, bytes : 1..MaxCounter]

NoCounter == [bytes |-> 0, at |-> 0, rev |-> 1]
NoReport == [id |-> <<>>, rev |-> 0, bytes |-> 0, end |-> 0]

\* Durable counters: one byte count per revision partition and the latest
\* observation of the identity.
DurableCounter == [part : [Revisions -> 0..MaxCounter], at : 0..MaxTime]
NoPartition == [r \in Revisions |-> 0]
NoDurable == [k \in Ids |-> [part |-> NoPartition, at |-> 0]]

\* meterOperationID: a digest of the key with its revision and the absolute.
OperationID(r) == [id |-> r.id, rev |-> r.rev, bytes |-> r.bytes]

WindowOf(t) == t \div DeliveryWindow

\* Record rotates scoped counters by delivery window.
CounterID(f) == [flow |-> f, epoch |-> epoch, window |-> WindowOf(now)]

\* Mutant: the counter wraps.
WrappingAdd(a, b) == (a + b) % (MaxCounter + 1)

SaturatingAdd(a, b) == IF b > MaxCounter - a THEN MaxCounter ELSE a + b

Larger(a, b) == IF a > b THEN a ELSE b
Capped(n) == IF n > MaxCounter THEN MaxCounter ELSE n

Live(c) == {k \in Ids : c[k].bytes > 0}

\* The reports pending in q, whatever their order.
Reports(q) == {q[i] : i \in DOMAIN q}

\* Queue.HasKey
HasKey(q, k) == \E r \in Reports(q) : r.id = k

\* Mutant: live counters are not capped.
Uncapped(c, k) == k \in Ids

\* Counters.canAdd for the one key a stream records at a time.
CanAdd(c, k) == Cardinality(Live(c) \cup {k}) <= MaxReports

\* Counters.Snapshot as the store keeps it: the current code writes one
\* cumulative record per identity, under its highest revision.
Durable(c) ==
  [k \in Ids |-> [part |-> [r \in Revisions |-> IF r = c[k].rev THEN c[k].bytes ELSE 0],
                  at |-> c[k].at]]

\* RestoreCounters: distinct revision partitions are summed once.
RestoreCounters(d) ==
  [k \in Ids |-> [bytes |-> SaturatingAdd(d[k].part[1], d[k].part[2]),
                  at |-> d[k].at,
                  rev |-> IF d[k].part[2] > 0 THEN 2 ELSE 1]]

\* Mutant: the restored total counts as reported.
BaselineOfSum(d) == [k \in Ids |-> SaturatingAdd(d[k].part[1], d[k].part[2])]

\* restoredBaseline: the server could only acknowledge the largest partition.
RestoredBaseline(d) == [k \in Ids |-> Larger(d[k].part[1], d[k].part[2])]

-----------------------------------------------------------------------------
(* Initial states *)

\* A store written by a version that kept one counter and one pending report
\* per revision: partitions part of identity k, the revisions in pending not
\* yet acknowledged.
LegacyReport(k, part, r) == [id |-> k, rev |-> r, bytes |-> part[r], end |-> 0]
LegacyQueue(k, part, pending) ==
  IF pending = Revisions THEN <<LegacyReport(k, part, 1), LegacyReport(k, part, 2)>>
  ELSE IF pending = {} THEN <<>>
  ELSE <<LegacyReport(k, part, CHOOSE r \in pending : TRUE)>>
LegacyAcked(part, pending) ==
  IF pending = {} THEN Larger(part[1], part[2])
  ELSE IF pending = Revisions THEN 0
  ELSE part[CHOOSE r \in Revisions : r \notin pending]

InitServer(acked, receipted) ==
  /\ receipts = receipted
  /\ srv = acked
  /\ billed = acked
  /\ expired = [k \in Ids |-> 0]

InitFresh ==
  /\ disk = [counters |-> NoDurable, queue |-> <<>>]
  /\ InitServer([k \in Ids |-> 0], {})
  /\ recorded = [k \in Ids |-> 0]
  /\ flushed = [k \in Ids |-> 0]

InitLegacy ==
  \E f \in Flows, part \in [Revisions -> 1..MaxCounter], pending \in SUBSET Revisions :
    LET k == [flow |-> f, epoch |-> 0, window |-> 0]
        total == part[1] + part[2]
        only(v) == [j \in Ids |-> IF j = k THEN v ELSE 0]
    IN /\ Legacy
       /\ total <= MaxRecorded
       /\ disk = [counters |-> [NoDurable EXCEPT ![k] = [part |-> part, at |-> 0]],
                  queue |-> LegacyQueue(k, part, pending)]
       /\ InitServer(only(LegacyAcked(part, pending)),
                     {OperationID(LegacyReport(k, part, r)) : r \in Revisions \ pending})
       /\ recorded = only(total)
       /\ flushed = only(Capped(total))

Init ==
  /\ now = 0 /\ proc = "down" /\ epoch = 0
  /\ counters = [k \in Ids |-> NoCounter]
  /\ last = [k \in Ids |-> 0]
  /\ queue = <<>> /\ held = NoReport /\ snap = NoDurable
  /\ pc = "idle" /\ sent = {}
  /\ InitFresh \/ InitLegacy

-----------------------------------------------------------------------------
(* Process start, stop and crash *)

\* snapshotState under Meter.mu, or with nothing else running.
SnapshotState == [counters |-> Durable(counters), queue |-> queue]

\* store.Save replaces the file by a rename; the error may come before or after.
SaveFails(state) == disk' \in {disk, state}

LoseMemory ==
  /\ counters' = [k \in Ids |-> NoCounter]
  /\ last' = [k \in Ids |-> 0]
  /\ queue' = <<>> /\ held' = NoReport /\ snap' = NoDurable
  /\ pc' = "idle"

\* restoreState, NewCounterEpoch and Meter.RestoreBaseline. A partition
\* correction is flushed before any component starts.
Start ==
  /\ proc \in {"down", "stopped"}
  /\ epoch < MaxEpoch
  /\ epoch' = epoch + 1
  /\ counters' = RestoreCounters(disk.counters)
  /\ last' = RestoredBaseline(disk.counters)
  /\ queue' = disk.queue
  /\ IF \E k \in Ids : last'[k] < counters'[k].bytes
       THEN proc' = "starting" /\ pc' = "flush"
       ELSE proc' = "up" /\ pc' = "idle"
  /\ UNCHANGED <<now, held, snap, disk, sent, server, history>>

Crash ==
  /\ proc \notin {"down", "stopped"}
  /\ proc' = "down"
  /\ LoseMemory
  /\ UNCHANGED <<now, epoch, disk, sent, server, history>>

\* DataPlane.Shutdown stops every traffic producer before the usage worker.
BeginStop ==
  /\ proc = "up"
  /\ proc' = "stopping"
  /\ UNCHANGED <<now, epoch, memory, pc, disk, sent, server, history>>

\* Mutant: shutdown saves without a last flush.
StopWithoutFlush ==
  /\ proc = "stopping" /\ pc = "idle"
  /\ proc' = "draining" /\ pc' = "final"
  /\ UNCHANGED <<now, epoch, memory, disk, sent, server, history>>

\* UsageWorker.Shutdown, once the worker goroutine has ended, delivers until
\* nothing is left or an error.
DrainUsage ==
  /\ proc = "stopping" /\ pc = "idle"
  /\ proc' = "draining" /\ pc' = "flush"
  /\ UNCHANGED <<now, epoch, memory, disk, sent, server, history>>

\* Persistence.Shutdown, whether or not the usage worker drained.
FinalSave ==
  /\ proc = "draining" /\ pc = "final"
  /\ \/ proc' = "stopped" /\ disk' = SnapshotState
     \/ proc' = "down" /\ SaveFails(SnapshotState)
  /\ LoseMemory
  /\ UNCHANGED <<now, epoch, sent, server, history>>

Tick ==
  /\ now < MaxTime
  /\ now' = now + 1
  /\ UNCHANGED <<proc, epoch, memory, pc, disk, sent, server, history>>

-----------------------------------------------------------------------------
(* Meter.Record *)

\* Mutant: a reported counter is pruned while its report is still pending.
PrunableReported(k) ==
  /\ counters[k].bytes > 0
  /\ now - counters[k].at > DeliveryWindow
  /\ last[k] >= counters[k].bytes

\* pruneDelivered: counters past the delivery window that are fully reported
\* and have no pending report.
Prunable(k) ==
  /\ counters[k].bytes > 0
  /\ now - counters[k].at > DeliveryWindow
  /\ last[k] >= counters[k].bytes
  /\ ~HasKey(queue, k)

Pruned(k) == IF CanAdd(counters, k) THEN {} ELSE {j \in Ids : Prunable(j)}

Kept(k) == [j \in Ids |-> IF j \in Pruned(k) THEN NoCounter ELSE counters[j]]

\* Counters.update: the record keeps the highest revision seen.
Updated(c, rev, n) ==
  [bytes |-> SaturatingAdd(c.bytes, n), at |-> now, rev |-> Larger(c.rev, rev)]

Record(f, rev) ==
  LET k == CounterID(f) IN
  /\ proc = "up" /\ pc # "flush"
  /\ recorded[k] < MaxRecorded
  /\ last' = [j \in Ids |-> IF j \in Pruned(k) THEN 0 ELSE last[j]]
  /\ IF CanAdd(Kept(k), k)
       THEN /\ counters' = [Kept(k) EXCEPT ![k] = Updated(@, rev, 1)]
            /\ recorded' = [recorded EXCEPT ![k] = @ + 1]
       ELSE /\ counters' = Kept(k)    \* ErrQueueFull ends the stream
            /\ UNCHANGED recorded
  /\ UNCHANGED <<now, proc, epoch, queue, held, snap, pc, disk, sent, server, flushed>>

-----------------------------------------------------------------------------
(* UsageWorker.deliver = Meter.Flush ; control.DeliverNext ; Persist *)

\* An iteration that ends: the run loop waits for the next tick, the shutdown
\* loop ends and leaves the last save to Persistence.
IterationEnd == IF proc = "draining" THEN "final" ELSE "idle"

\* The worker's ticker still fires while the producers stop.
WorkerTick ==
  /\ proc \in {"up", "stopping"} /\ pc = "idle"
  /\ pc' = "flush"
  /\ UNCHANGED <<now, proc, epoch, memory, disk, sent, server, history>>

Due(k) == counters[k].bytes > last[k]

ReportOf(k) ==
  [id |-> k, rev |-> counters[k].rev, bytes |-> counters[k].bytes, end |-> counters[k].at]

\* Queue.EnqueueLatest: a newer absolute takes the place of the identity's
\* pending report; an identity without one needs a free slot.
EnqueueLatest(r) ==
  \/ \E i \in DOMAIN queue :
       /\ queue[i].id = r.id
       /\ queue' = IF r.bytes <= queue[i].bytes THEN queue ELSE [queue EXCEPT ![i] = r]
  \/ /\ ~HasKey(queue, r.id)
     /\ Len(queue) < MaxReports
     /\ queue' = Append(queue, r)

FlushOne(k) ==
  /\ pc = "flush" /\ Due(k)
  /\ EnqueueLatest(ReportOf(k))
  /\ last' = [last EXCEPT ![k] = counters[k].bytes]
  /\ UNCHANGED <<now, proc, epoch, counters, held, snap, pc, disk, sent, server, history>>

QueueFull(k) == ~HasKey(queue, k) /\ Len(queue) >= MaxReports

\* Flush returns an error: at start the process exits, otherwise the
\* iteration ends without delivering.
FlushAborted ==
  IF proc = "starting"
    THEN proc' = "down" /\ LoseMemory
    ELSE pc' = IterationEnd /\ UNCHANGED <<proc, memory>>

FlushFull ==
  /\ pc = "flush"
  /\ \E k \in Ids : Due(k) /\ QueueFull(k)
  /\ FlushAborted
  /\ UNCHANGED <<now, epoch, disk, sent, server, history>>

FlushSaveFail ==
  /\ pc = "flush"
  /\ \A k \in Ids : ~Due(k)
  /\ SaveFails(SnapshotState)
  /\ FlushAborted
  /\ UNCHANGED <<now, epoch, sent, server, history>>

\* Mutant: the save writes the counters and not the queue.
FlushSaveCounters ==
  /\ pc = "flush"
  /\ \A k \in Ids : ~Due(k)
  /\ disk' = [disk EXCEPT !.counters = Durable(counters)]
  /\ flushed' = [k \in Ids |-> IF k.epoch = epoch THEN Larger(flushed[k], counters[k].bytes)
                                                 ELSE flushed[k]]
  /\ IF proc = "starting" THEN proc' = "up" /\ pc' = "idle"
                          ELSE pc' = "next" /\ UNCHANGED proc
  /\ UNCHANGED <<now, epoch, memory, sent, server, recorded>>

\* The save that ends Flush runs under Meter.mu: no Record comes between.
FlushSave ==
  /\ pc = "flush"
  /\ \A k \in Ids : ~Due(k)
  /\ disk' = SnapshotState
  /\ flushed' = [k \in Ids |-> IF k.epoch = epoch THEN Larger(flushed[k], counters[k].bytes)
                                                 ELSE flushed[k]]
  /\ IF proc = "starting" THEN proc' = "up" /\ pc' = "idle"
                          ELSE pc' = "next" /\ UNCHANGED proc
  /\ UNCHANGED <<now, epoch, memory, sent, server, recorded>>

\* Queue.Next picks the oldest report; without one the iteration ends.
DeliverNext ==
  /\ pc = "next"
  /\ IF queue = <<>>
       THEN pc' = IterationEnd /\ UNCHANGED <<held, sent>>
       ELSE /\ pc' = "send"
            /\ held' = Head(queue)
            /\ sent' = sent \cup {Head(queue)}
  /\ UNCHANGED <<now, proc, epoch, counters, last, queue, snap, disk, server, history>>

\* The request failed, was refused, or its answer did not come back in time.
ReportFail ==
  /\ pc = "send"
  /\ pc' = IterationEnd
  /\ held' = NoReport
  /\ UNCHANGED <<now, proc, epoch, counters, last, queue, snap, disk, sent, server, history>>

\* Queue.Ack removes the report with this operation id, wherever it stands.
Ack(op) ==
  \E i \in DOMAIN queue :
    /\ OperationID(queue[i]) = op
    /\ queue' = [j \in 1..(Len(queue) - 1) |-> IF j < i THEN queue[j] ELSE queue[j + 1]]

\* The control plane answered: it holds a receipt for the operation.
ReportAccepted ==
  /\ pc = "send"
  /\ OperationID(held) \in receipts
  /\ Ack(OperationID(held))
  /\ held' = NoReport
  /\ pc' = "save"
  /\ UNCHANGED <<now, proc, epoch, counters, last, snap, disk, sent, server, history>>

\* UsageWorker.Persist runs without Meter.mu: snapshotState reads the counters
\* first and the queue afterwards, and streams record meanwhile.
SnapshotCounters ==
  /\ pc = "save"
  /\ snap' = Durable(counters)
  /\ pc' = "saveQueue"
  /\ UNCHANGED <<now, proc, epoch, counters, last, queue, held, disk, sent, server, history>>

SaveSnapshot ==
  /\ pc = "saveQueue"
  /\ snap' = NoDurable
  /\ \/ /\ disk' = [counters |-> snap, queue |-> queue]
        /\ pc' = IF proc = "draining" THEN "flush" ELSE "idle"
     \/ /\ SaveFails([counters |-> snap, queue |-> queue])
        /\ pc' = IterationEnd
  /\ UNCHANGED <<now, proc, epoch, counters, last, queue, held, sent, server, history>>

-----------------------------------------------------------------------------
(* controlplane.reconcileUsage: one serializable transaction *)

\* Mutant: an absolute is taken for an increment.
AbsoluteDelta(r) == r.bytes

Delta(r) == IF r.bytes > srv[r.id] THEN r.bytes - srv[r.id] ELSE 0

\* Mutant: an expired report leaves the server's counter where it was.
ReconcileKeepsExpired(r) ==
  /\ r \in sent
  /\ OperationID(r) \notin receipts
  /\ receipts' = receipts \cup {OperationID(r)}
  /\ IF now - r.end > DeliveryWindow
       THEN /\ expired' = [expired EXCEPT ![r.id] = @ + Delta(r)]
            /\ UNCHANGED <<billed, srv>>
       ELSE /\ billed' = [billed EXCEPT ![r.id] = @ + Delta(r)]
            /\ srv' = [srv EXCEPT ![r.id] = Larger(@, r.bytes)]
            /\ UNCHANGED expired
  /\ UNCHANGED <<now, proc, epoch, memory, pc, disk, sent, history>>

ReconcileUsage(r) ==
  /\ r \in sent
  /\ OperationID(r) \notin receipts    \* an exact retry changes nothing
  /\ receipts' = receipts \cup {OperationID(r)}
  /\ IF now - r.end > DeliveryWindow
       THEN /\ expired' = [expired EXCEPT ![r.id] = @ + Delta(r)]
            /\ UNCHANGED billed
       ELSE /\ billed' = [billed EXCEPT ![r.id] = @ + Delta(r)]
            /\ UNCHANGED expired
  /\ srv' = [srv EXCEPT ![r.id] = Larger(@, r.bytes)]
  /\ UNCHANGED <<now, proc, epoch, memory, pc, disk, sent, history>>

-----------------------------------------------------------------------------
Next ==
  \/ Start \/ Crash \/ BeginStop \/ DrainUsage \/ FinalSave \/ Tick
  \/ \E f \in Flows, rev \in LiveRevisions : Record(f, rev)
  \/ WorkerTick \/ FlushFull \/ FlushSaveFail \/ FlushSave \/ DeliverNext
  \/ \E k \in Ids : FlushOne(k)
  \/ ReportFail \/ ReportAccepted \/ SnapshotCounters \/ SaveSnapshot
  \/ \E r \in sent : ReconcileUsage(r)

Spec == Init /\ [][Next]_vars

\* The worker's ticker keeps firing, and the store and the control plane work
\* again and again.
Fairness ==
  /\ WF_vars(WorkerTick) /\ WF_vars(\E k \in Ids : FlushOne(k)) /\ SF_vars(FlushSave)
  /\ WF_vars(DeliverNext) /\ SF_vars(ReportAccepted)
  /\ WF_vars(SnapshotCounters) /\ WF_vars(SaveSnapshot)
  /\ SF_vars(pc = "send" /\ ReconcileUsage(held))

FairSpec == Spec /\ Fairness

-----------------------------------------------------------------------------
(* Properties *)

TypeOK ==
  /\ now \in 0..MaxTime /\ epoch \in 0..MaxEpoch
  /\ proc \in {"down", "starting", "up", "stopping", "draining", "stopped"}
  /\ pc \in {"idle", "flush", "next", "send", "save", "saveQueue", "final"}
  /\ counters \in [Ids -> Counter]
  /\ last \in [Ids -> 0..MaxCounter]
  /\ queue \in Seq(Report) /\ held \in Report \cup {NoReport}
  /\ snap \in [Ids -> DurableCounter]
  /\ disk \in [counters : [Ids -> DurableCounter], queue : Seq(Report)]
  /\ sent \subseteq Report /\ receipts \subseteq Operation
  /\ srv \in [Ids -> 0..MaxCounter] /\ flushed \in [Ids -> 0..MaxCounter]
  /\ billed \in [Ids -> Nat] /\ expired \in [Ids -> Nat] /\ recorded \in [Ids -> Nat]

\* The control plane or a report in q accounts for v bytes of identity k.
Represented(q, k, v) ==
  \/ srv[k] >= v
  \/ \E r \in Reports(q) : r.id = k /\ r.bytes >= v

Running == proc \in {"up", "stopping", "draining"}

\* reconcileUsage turns absolute counters into deltas: whatever is lost,
\* repeated, delayed or reordered, and however often the edge crashes, each
\* identity is charged exactly the largest absolute the server saw, split
\* between billed and expired bytes, and never more than streams recorded.
NeverOverBilled ==
  \A k \in Ids : /\ billed[k] + expired[k] = srv[k]
                 /\ srv[k] <= recorded[k]

\* What one Flush persisted stays accounted for over any number of crashes,
\* failed saves and restarts: by the control plane or by a pending report of
\* the running process. Partitions of a legacy store count as persisted.
FlushedNeverLost ==
  Running => \A k \in Ids : Represented(queue, k, flushed[k])

\* Record and pruneDelivered: a live counter of this epoch is the total of its
\* identity; one that was pruned had been delivered in full and never restarts
\* under the same server identity.
CounterNeverRestarts ==
  Running => \A k \in Ids : k.epoch = epoch =>
    \/ counters[k].bytes = Capped(recorded[k])
    \/ counters[k].bytes = 0 /\ srv[k] >= Capped(recorded[k])

\* UsageWorker.deliver returns before DeliverNext when Flush fails, so a queue
\* without room for a due counter would stop delivery for good. The cap on
\* live counters keeps a slot for each.
FlushAlwaysFits ==
  pc = "flush" => \A k \in Ids : Due(k) => ~QueueFull(k)

\* An orderly stop whose final save succeeds leaves every byte recorded in
\* this epoch with the control plane or in a durable pending report.
CleanStopLosesNothing ==
  proc = "stopped" => \A k \in Ids : k.epoch = epoch =>
    Represented(disk.queue, k, Capped(recorded[k]))

\* RestoreBaseline: "marks durable counters as already represented by the
\* restored pending queue or by an earlier acknowledged report."
BaselineRepresented ==
  Running => \A k \in Ids : Represented(queue, k, last[k])

\* As long as the edge stays up, every recorded byte reaches the control plane.
EventuallyDelivered ==
  \A f \in Flows, w \in 0..MaxTime, e \in 1..MaxEpoch, n \in 1..MaxRecorded :
    LET k == [flow |-> f, epoch |-> e, window |-> w] IN
    (proc = "up" /\ epoch = e /\ recorded[k] >= n)
      ~> (srv[k] >= Capped(n) \/ proc # "up")

Ledger == INSTANCE UsageLedger WITH secured <- flushed

\* The whole pipeline, from Meter.Record to reconcileUsage, keeps the ledger:
\* every step of it passes a byte, secures or charges what has passed, or
\* changes no account.
MeetsLedger == Ledger!Spec
=============================================================================
