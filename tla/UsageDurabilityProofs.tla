----------------------- MODULE UsageDurabilityProofs ------------------------
(***************************************************************************)
(* FlushedNeverLost. While the process runs, the queue and the server      *)
(* represent every flushed value; the store does too, or it is a legacy    *)
(* store whose partition sum the next start will report.                   *)
(*                                                                         *)
(* CounterNeverRestarts. A pruned counter was delivered, and its window is *)
(* over, so no later Record uses its identity.                             *)
(*                                                                         *)
(* FlushAlwaysFits. Without legacy partitions every pending report has a   *)
(* live counter of its own, in memory and in every store a start may read, *)
(* and Record caps the live counters at the size of the queue.             *)
(*                                                                         *)
(* CleanStopLosesNothing. With room in the queue the flush of the drain    *)
(* ends with no counter due, and from there to the last save nothing is    *)
(* recorded.                                                               *)
(***************************************************************************)
EXTENDS UsageAccountingProofs, FiniteSetTheorems

\* Most leaves are first-order: Zenon is the default, and a leaf with arithmetic names SMT.
USE Zenon

Alive == proc \notin {"down", "stopped"}

Lifecycle ==
  /\ ~Alive => pc = "idle"
  /\ proc = "starting" => pc = "flush"

ReceiptsCharged == \A op \in receipts : srv[op.id] >= op.bytes

UnusedEpochs == \A k \in Ids : k.epoch > epoch => recorded[k] = 0

CurrentReported ==
  Alive => \A k \in Ids : k.epoch = epoch => Represented(queue, k, last[k])

StartReported ==
  proc = "starting" => \A k \in Ids :
    \/ Represented(queue, k, flushed[k])
    \/ flushed[k] <= counters[k].bytes /\ Represented(queue, k, last[k])

StoreReported ==
  \A k \in Ids :
    \/ Represented(disk.queue, k, flushed[k])
    \/ /\ flushed[k] <= RestoreCounters(disk.counters)[k].bytes
       /\ Represented(disk.queue, k, RestoredBaseline(disk.counters)[k])

Durability ==
  /\ Lifecycle /\ ReceiptsCharged /\ UnusedEpochs
  /\ CurrentReported /\ StartReported /\ StoreReported /\ FlushedNeverLost

\* A process that is alive and past its start is running.
LEMMA ServingProcess ==
  ASSUME TypeOK
  PROVE  Alive /\ proc # "starting" => Running
  BY DEF TypeOK, Alive, Running

\* A fresh store holds nothing that was flushed; a legacy store holds its
\* partitions, the largest of them represented.
LEMMA InitDurability == Init => Durability
<1> SUFFICES ASSUME Init PROVE Durability
  OBVIOUS
<1>0. TypeOK
  BY InitTypeOK
<1>1. ~Alive /\ ~Running /\ pc = "idle" /\ proc = "down" /\ epoch = 0
  BY DEF Init, Alive, Running
<1>2. CASE InitFresh
  <2>1. \A k \in Ids : srv[k] = 0 /\ flushed[k] = 0 /\ recorded[k] = 0
    BY <1>2 DEF InitFresh, InitServer
  <2>2. receipts = {}
    BY <1>2 DEF InitFresh, InitServer
  <2> QED
    BY <1>1, <2>1, <2>2, SMT DEF Durability, Lifecycle, ReceiptsCharged, UnusedEpochs,
       CurrentReported, StartReported, StoreReported, FlushedNeverLost, Represented
<1>3. CASE InitLegacy
  <2>1. PICK f \in Flows, part \in [Revisions -> 1..MaxCounter], pending \in SUBSET Revisions :
          LET k == [flow |-> f, epoch |-> 0, window |-> 0]
              total == part[1] + part[2]
              only(v) == [j \in Ids |-> IF j = k THEN v ELSE 0]
          IN /\ disk = [counters |-> [NoDurable EXCEPT ![k] = [part |-> part, at |-> 0]],
                        queue |-> LegacyQueue(k, part, pending)]
             /\ InitServer(only(LegacyAcked(part, pending)),
                           {OperationID(LegacyReport(k, part, r)) : r \in Revisions \ pending})
             /\ recorded = only(total)
             /\ flushed = only(Capped(total))
    BY <1>3, ZenonT(60) DEF InitLegacy
  <2> DEFINE k == [flow |-> f, epoch |-> 0, window |-> 0]
             acked == LegacyAcked(part, pending)
  <2>2. k \in Ids /\ k.epoch = 0
    BY UsageAssumption, SMT DEF Ids
  <2>3. part[1] \in 1..MaxCounter /\ part[2] \in 1..MaxCounter
    BY DEF Revisions
  <2>4. /\ srv[k] = acked /\ flushed[k] = Capped(part[1] + part[2])
        /\ \A j \in Ids \ {k} : srv[j] = 0 /\ flushed[j] = 0 /\ recorded[j] = 0
        /\ receipts = {OperationID(LegacyReport(k, part, r)) : r \in Revisions \ pending}
        /\ disk.queue = LegacyQueue(k, part, pending)
        /\ disk.counters = [NoDurable EXCEPT ![k] = [part |-> part, at |-> 0]]
    BY <2>1, <2>2 DEF InitServer
  <2>5. \A v \in Revisions \ pending : acked >= part[v] /\ acked \in Nat
    <3>1. CASE pending = {}
      BY <2>3, <3>1, UsageAssumption, SMT DEF LegacyAcked, Larger, Revisions
    <3>2. CASE pending # {} /\ pending # Revisions
      <4>1. PICK v \in Revisions : Revisions \ pending = {v}
        BY <3>2, Zenon DEF Revisions
      <4>2. (CHOOSE r \in Revisions : r \notin pending) = v
        BY <4>1, SMT
      <4> QED
        BY <2>3, <3>2, <4>1, <4>2, UsageAssumption, SMT DEF LegacyAcked, Revisions
    <3> QED
      BY <3>1, <3>2
  <2>6. ReceiptsCharged
    <3>1. \A v : /\ OperationID(LegacyReport(k, part, v)).id = k
                 /\ OperationID(LegacyReport(k, part, v)).bytes = part[v]
      BY DEF OperationID, LegacyReport
    <3> QED
      BY <2>4, <2>5, <3>1, SMT DEF ReceiptsCharged
  <2>7. \A v \in Revisions : Represented(disk.queue, k, part[v])
    <3>1. Reports(disk.queue) = {LegacyReport(k, part, v) : v \in pending}
      BY <2>4, LegacyPending, SMT
    <3>2. \A v \in Revisions : /\ LegacyReport(k, part, v).id = k
                               /\ LegacyReport(k, part, v).bytes >= part[v]
      BY <2>3, UsageAssumption, SMT DEF LegacyReport, Revisions
    <3> QED
      BY <2>4, <2>5, <3>1, <3>2 DEF Represented
  <2>8. /\ RestoreCounters(disk.counters)[k].bytes = SaturatingAdd(part[1], part[2])
        /\ RestoredBaseline(disk.counters)[k] = Larger(part[1], part[2])
    <3>1. disk.counters[k].part = part
      BY <2>2, <2>4, SMT DEF NoDurable
    <3> HIDE DEF k
    <3> QED
      BY <2>2, <3>1 DEF RestoreCounters, RestoredBaseline
  <2>9. /\ flushed[k] <= RestoreCounters(disk.counters)[k].bytes
        /\ \E v \in Revisions : RestoredBaseline(disk.counters)[k] = part[v]
    <3>1. Capped(part[1] + part[2]) <= SaturatingAdd(part[1], part[2])
      BY <2>3, UsageAssumption, SMT DEF Capped, SaturatingAdd
    <3>2. \E v \in Revisions : Larger(part[1], part[2]) = part[v]
      BY DEF Larger, Revisions
    <3> QED
      BY <2>4, <2>8, <3>1, <3>2, Zenon
  <2>10. StoreReported
    <3>1. Represented(disk.queue, k, RestoredBaseline(disk.counters)[k])
      BY <2>7, <2>9
    <3>2. \A j \in Ids \ {k} : Represented(disk.queue, j, flushed[j])
      BY <2>4, SMT DEF Represented
    <3> QED
      BY <2>9, <3>1, <3>2 DEF StoreReported
  <2> QED
    BY <1>1, <2>2, <2>4, <2>6, <2>10, SMT DEF Durability, Lifecycle, UnusedEpochs,
       CurrentReported, StartReported, FlushedNeverLost
<1> QED
  BY <1>2, <1>3 DEF Init

\* Steps that leave the memory, the store and the flushed values alone, or at
\* most lose the memory, keep Durability.
LEMMA QuietDurability ==
  ASSUME TypeOK, TypeOK', Durability,
         UNCHANGED <<disk, server, flushed>>,
         \A k \in Ids : recorded'[k] = recorded[k] \/ k.epoch <= epoch,
         \/ ~Alive' /\ pc' = "idle" /\ epoch' = epoch
         \/ /\ UNCHANGED <<epoch, queue, last>>
            /\ (Alive' => Alive) /\ (Running' => Running)
            /\ (proc' = "starting" => proc = "starting" /\ pc' = "flush" /\ counters' = counters)
            /\ (~Alive' => pc' = "idle")
  PROVE  Durability'
<1>1. ReceiptsCharged' /\ StoreReported'
  BY DEF Durability, ReceiptsCharged, StoreReported, Represented, server
<1>2. UnusedEpochs'
  <2>1. epoch' = epoch /\ epoch \in Nat
    BY UsageAssumption, SMT DEF TypeOK
  <2>2. \A k \in Ids : k.epoch \in Nat
    BY UsageAssumption, SMT DEF Ids
  <2> QED
    BY <2>1, <2>2, SMT DEF Durability, UnusedEpochs
<1>3. Lifecycle' /\ CurrentReported' /\ StartReported' /\ FlushedNeverLost'
  BY DEF Durability, Lifecycle, CurrentReported, StartReported, FlushedNeverLost,
     Represented, Alive, Running, server
<1> QED
  BY <1>1, <1>2, <1>3 DEF Durability

\* A step that changes nothing but memory and server counters, and keeps every
\* represented value represented, keeps Durability when the new baselines are
\* represented.
LEMMA MemoryDurability ==
  ASSUME TypeOK, TypeOK', Durability, Alive,
         UNCHANGED <<disk, flushed, epoch, proc, counters>>,
         recorded' = recorded,
         ReceiptsCharged', \A k \in Ids : srv'[k] >= srv[k],
         \A k \in Ids, v \in Nat : Represented(queue, k, v) => Represented(queue, k, v)',
         \A k \in Ids : \/ last'[k] = last[k]
                        \/ last'[k] = counters[k].bytes /\ Represented(queue, k, last[k])',
         proc = "starting" => pc' = "flush"
  PROVE  Durability'
<1>0. \A k \in Ids : flushed[k] \in Nat /\ last[k] \in Nat
  BY UsageAssumption, SMT DEF TypeOK
<1>1. StoreReported'
  <2>1. \A k \in Ids : RestoredBaseline(disk.counters)[k] \in Nat
    BY BaselineBelowSum, Zenon DEF TypeOK
  <2> QED
    BY <1>0, <2>1, StoreKeepsRepresented DEF Durability, StoreReported
<1>2. Lifecycle' /\ UnusedEpochs'
  BY DEF Durability, Lifecycle, UnusedEpochs, Alive
<1>3. FlushedNeverLost'
  BY <1>0 DEF Durability, FlushedNeverLost, Running
<1>4. \A k \in Ids : Represented(queue, k, last[k]) => Represented(queue, k, last[k])'
  <2> SUFFICES ASSUME NEW k \in Ids, Represented(queue, k, last[k]), last'[k] = last[k]
               PROVE  Represented(queue, k, last[k])'
    OBVIOUS
  <2> QED
    BY <1>0, SMT DEF Represented
<1>5. CurrentReported'
  BY <1>4 DEF Durability, CurrentReported, Alive
<1>6. StartReported'
  <2> SUFFICES ASSUME proc = "starting", NEW k \in Ids
               PROVE  \/ Represented(queue, k, flushed[k])'
                      \/ flushed'[k] <= counters'[k].bytes /\ Represented(queue, k, last[k])'
    BY DEF StartReported
  <2>1. CASE Represented(queue, k, flushed[k])
    BY <1>0, <2>1 DEF Represented
  <2>2. CASE flushed[k] <= counters[k].bytes /\ Represented(queue, k, last[k])
    BY <1>4, <2>2
  <2> QED
    BY <2>1, <2>2 DEF Durability, StartReported
<1> QED
  BY <1>1, <1>2, <1>3, <1>5, <1>6 DEF Durability

\* What a process restores is represented, or is the partition correction it
\* flushes before it serves.
LEMMA StartDurability ==
  ASSUME TypeOK, TypeOK', Accounting, Durability, Start
  PROVE  Durability'
<1>0. /\ \A k \in Ids : flushed[k] \in Nat /\ recorded[k] \in Nat /\ srv[k] \in Nat
      /\ epoch \in Nat /\ epoch' = epoch + 1
      /\ UNCHANGED <<disk, server, history>>
      /\ disk.counters \in [Ids -> DurableCounter]
  BY UsageAssumption, SMT DEF Start, TypeOK
<1>a. \A k \in Ids : k.epoch \in Nat
  BY UsageAssumption, SMT DEF Ids
<1>1. \A k \in Ids : /\ last'[k] = RestoredBaseline(disk.counters)[k]
                     /\ counters'[k].bytes = RestoreCounters(disk.counters)[k].bytes
                     /\ last'[k] \in Nat /\ counters'[k].bytes \in Nat
                     /\ last'[k] <= counters'[k].bytes
                     /\ counters'[k].bytes <= recorded[k]
  BY <1>0, BaselineBelowSum DEF Start, Accounting, CountersBounded
<1>2. queue' = disk.queue /\ Reports(disk.queue) \subseteq Report
  BY PendingTyped DEF Start
<1>3. StoreReported' /\ ReceiptsCharged' /\ UnusedEpochs'
  BY <1>0, <1>a, SMT DEF Durability, StoreReported, ReceiptsCharged, UnusedEpochs, Represented, server, history
<1>4. Lifecycle'
  BY DEF Start, Lifecycle, Alive
<1>5. CurrentReported'
  <2>1. \A k \in Ids : k.epoch = epoch' => recorded[k] = 0
    BY <1>0, <1>a, SMT DEF Durability, UnusedEpochs
  <2>2. \A k \in Ids : k.epoch = epoch' => last'[k] = 0
    BY <1>0, <1>1, <2>1, SMT
  <2> QED
    BY <1>0, <2>2, SMT DEF CurrentReported, Represented, server
<1>6. \A k \in Ids :
        \/ Represented(queue, k, flushed[k])'
        \/ flushed'[k] <= counters'[k].bytes /\ Represented(queue, k, last[k])'
  BY <1>0, <1>1, <1>2 DEF Durability, StoreReported, Represented, server, history
<1>7. StartReported'
  BY <1>6 DEF StartReported
<1>8. FlushedNeverLost'
  <2> SUFFICES ASSUME Running', NEW k \in Ids
               PROVE  Represented(queue, k, flushed[k])'
    BY DEF FlushedNeverLost
  <2>1. ~(\E j \in Ids : last'[j] < counters'[j].bytes)
    BY DEF Start, Running
  <2>2. last'[k] >= counters'[k].bytes
    BY <1>1, <2>1, SMT
  <2>3. \A r \in Reports(disk.queue) : r.bytes \in Nat
    BY <1>2, PendingTyped
  <2> QED
    BY <1>0, <1>1, <1>2, <1>6, <2>2, <2>3, SMT DEF Represented, server, history
<1> QED
  BY <1>3, <1>4, <1>5, <1>7, <1>8 DEF Durability

\* Once no counter is due, the queue represents every flushed value, also
\* while a partition correction is being flushed.
LEMMA SettledRepresented ==
  ASSUME TypeOK, Durability, pc = "flush", \A k \in Ids : ~Due(k)
  PROVE  \A k \in Ids : Represented(queue, k, flushed[k])
<1> SUFFICES ASSUME NEW k \in Ids PROVE Represented(queue, k, flushed[k])
  OBVIOUS
<1>1. /\ flushed[k] \in Nat /\ last[k] \in Nat /\ counters[k].bytes \in Nat
      /\ counters[k].bytes <= last[k]
  <2>1. flushed[k] \in Nat /\ last[k] \in Nat /\ counters[k] \in Counter
    BY UsageAssumption, SMT DEF TypeOK
  <2>2. \A c \in Counter : c.bytes \in Nat
    BY UsageAssumption, SMT DEF Counter
  <2> QED
    BY <2>1, <2>2, SMT DEF Due
<1>2. Alive /\ Reports(queue) \subseteq Report
  BY PendingTyped DEF Durability, Lifecycle
<1>3. CASE proc = "starting"
  BY <1>1, <1>2, <1>3, RepresentedBelow DEF Durability, StartReported
<1>4. CASE proc # "starting"
  BY <1>2, <1>4, ServingProcess DEF Durability, FlushedNeverLost
<1> QED
  BY <1>3, <1>4

\* A successful flush has put every due counter in the queue it saves.
LEMMA FlushSaveDurability ==
  ASSUME TypeOK, TypeOK', Durability, FlushSave
  PROVE  Durability'
<1>0. /\ UNCHANGED <<queue, last, counters, epoch, server, recorded>>
      /\ disk'.queue = queue /\ disk'.counters = Durable(counters)
      /\ \A k \in Ids : /\ flushed[k] \in Nat /\ last[k] \in Nat /\ counters[k].bytes \in Nat
                        /\ counters[k].bytes <= last[k]
  <2>1. \A k \in Ids : flushed[k] \in Nat /\ last[k] \in Nat /\ counters[k] \in Counter
    BY UsageAssumption, SMT DEF TypeOK
  <2>2. \A c \in Counter : c.bytes \in Nat
    BY UsageAssumption, SMT DEF Counter
  <2> QED
    BY <2>1, <2>2, SMT DEF FlushSave, SnapshotState, Due, memory
<1>1. Alive
  BY DEF Durability, Lifecycle, FlushSave
<1>2. Reports(queue) \subseteq Report
  BY PendingTyped
<1>3. ASSUME NEW k \in Ids PROVE Represented(queue, k, flushed[k])
  BY SettledRepresented DEF FlushSave
<1>4. ASSUME NEW k \in Ids PROVE Represented(queue, k, flushed'[k])
  <2>1. flushed'[k] = IF k.epoch = epoch THEN Larger(flushed[k], counters[k].bytes) ELSE flushed[k]
    BY DEF FlushSave
  <2>2. k.epoch = epoch => Represented(queue, k, counters[k].bytes)
    BY <1>0, <1>1, <1>2, RepresentedBelow DEF Durability, CurrentReported
  <2> QED
    BY <1>3, <2>1, <2>2 DEF Larger
<1>5. \A k \in Ids : Represented(queue, k, flushed[k])'
  BY <1>0, <1>4 DEF Represented, server
<1>6. StoreReported' /\ StartReported' /\ FlushedNeverLost'
  BY <1>0, <1>5 DEF StoreReported, StartReported, FlushedNeverLost, Represented
<1>7. CurrentReported' /\ ReceiptsCharged' /\ UnusedEpochs'
  BY <1>0, <1>1 DEF Durability, CurrentReported, ReceiptsCharged, UnusedEpochs, Represented, server
<1>8. Lifecycle'
  BY <1>1 DEF FlushSave, Lifecycle, Alive
<1> QED
  BY <1>6, <1>7, <1>8 DEF Durability

\* A save that writes the queue of a running process keeps the flushed values.
LEMMA SaveDurability ==
  ASSUME TypeOK, TypeOK', Durability, disk'.queue = queue,
         \A k \in Ids : Represented(queue, k, flushed[k]),
         UNCHANGED <<server, history, epoch>>,
         \/ ~Alive' /\ pc' = "idle"
         \/ UNCHANGED <<proc, queue, last>> /\ Running
  PROVE  Durability'
<1>2. StoreReported'
  BY DEF StoreReported, Represented, server, history
<1>3. ReceiptsCharged' /\ UnusedEpochs'
  BY DEF Durability, ReceiptsCharged, UnusedEpochs, server, history
<1>4. Lifecycle' /\ CurrentReported' /\ StartReported' /\ FlushedNeverLost'
  BY ZenonT(60) DEF Durability, Lifecycle, CurrentReported, StartReported, FlushedNeverLost,
     Represented, Alive, Running, server, history
<1> QED
  BY <1>2, <1>3, <1>4 DEF Durability

\* No step, crash or failed save loses a flushed value.
LEMMA NextDurability ==
  TypeOK /\ TypeOK' /\ Accounting /\ Durability /\ [Next]_vars => Durability'
<1> SUFFICES ASSUME TypeOK, TypeOK', Accounting, Durability, [Next]_vars PROVE Durability'
  OBVIOUS
<1>a. Lifecycle
  BY DEF Durability
<1>b. queue \in Seq(Report) /\ \A k \in Ids : srv[k] \in Nat
  BY PendingTyped
<1>c. Alive /\ proc # "starting" => Running
  BY ServingProcess
<1>1. CASE Start
  BY <1>1, StartDurability
<1>2. CASE Crash
  <2>1. /\ ~Alive' /\ pc' = "idle"
        /\ UNCHANGED <<epoch, disk, server, flushed, recorded>>
    BY <1>2 DEF Crash, LoseMemory, Alive, history
  <2> QED
    BY <2>1, QuietDurability
<1>3. CASE BeginStop \/ DrainUsage \/ Tick \/ WorkerTick
  <2>1. /\ UNCHANGED <<epoch, queue, last, counters, disk, server, flushed, recorded>>
        /\ (Alive' <=> Alive) /\ (Running' <=> Running)
        /\ proc' = "starting" => proc = "starting" /\ pc' = "flush"
        /\ ~Alive' => pc' = "idle"
    BY <1>3, <1>a
       DEF BeginStop, DrainUsage, Tick, WorkerTick, Lifecycle, Alive, Running, memory, history
  <2> QED
    BY <2>1, QuietDurability
<1>4. CASE FinalSave
  <2>1. /\ Running /\ ~Alive' /\ pc' = "idle"
        /\ UNCHANGED <<epoch, server, flushed, recorded, history>>
        /\ disk' = disk \/ disk'.queue = queue
    BY <1>4, SMT DEF FinalSave, LoseMemory, SaveFails, SnapshotState, Alive, Running, history
  <2>2. \A k \in Ids : Represented(queue, k, flushed[k])
    BY <2>1 DEF Durability, FlushedNeverLost
  <2> QED
    BY <2>1, <2>2, QuietDurability, SaveDurability
<1>5. ASSUME NEW f \in Flows, NEW rev \in LiveRevisions, Record(f, rev)
      PROVE  Durability'
  <2> DEFINE k == CounterID(f)
  <2>1. k \in Ids /\ k.epoch = epoch /\ epoch \in Nat
    <3>1. epoch \in Nat
      BY UsageAssumption, SMT DEF TypeOK
    <3>2. k \in Ids
      BY IdentityTypes
    <3> QED
      BY <3>1, <3>2 DEF CounterID
  <2>2. \A j \in Ids : recorded'[j] = recorded[j] \/ j = k
    <3>1. recorded \in [Ids -> Nat]
      BY DEF TypeOK
    <3>2. recorded' = [recorded EXCEPT ![k] = recorded[k] + 1] \/ recorded' = recorded
      BY <1>5 DEF Record
    <3> QED
      BY <3>1, <3>2
  <2>3. \A j \in Ids : last'[j] = last[j] \/ last'[j] = 0
    BY <1>5 DEF Record
  <2>4. UNCHANGED <<proc, pc, epoch, queue, disk, server, flushed>> /\ proc = "up"
    BY <1>5 DEF Record
  <2>5. UnusedEpochs'
    BY <2>1, <2>2, <2>4, SMT DEF Durability, UnusedEpochs
  <2>6. CurrentReported'
    BY <1>b, <2>3, <2>4, SMT DEF Durability, CurrentReported, Represented, Alive, server
  <2> QED
    BY <2>4, <2>5, <2>6 DEF Durability, Lifecycle, ReceiptsCharged, StartReported, StoreReported,
       FlushedNeverLost, Represented, Alive, Running, server
<1>6. CASE FlushFull \/ FlushSaveFail
  <2>0. /\ pc = "flush" /\ Alive /\ UNCHANGED <<epoch, server, history>>
        /\ \/ proc = "starting" /\ ~Alive' /\ pc' = "idle"
           \/ proc # "starting" /\ UNCHANGED <<proc, queue, last, counters>> /\ Running
    <3>1. Alive /\ pc = "flush"
      BY <1>6, <1>a DEF FlushFull, FlushSaveFail, Lifecycle
    <3> QED
      BY <1>6, <1>c, <3>1 DEF FlushFull, FlushSaveFail, FlushAborted, LoseMemory, Alive, memory
  <2>1. CASE disk' = disk
    BY <2>0, <2>1, QuietDurability DEF Alive, Running, history
  <2>2. CASE disk' # disk
    <3>1. disk'.queue = queue /\ \A k \in Ids : ~Due(k)
      BY <1>6, <2>2, SMT DEF FlushFull, FlushSaveFail, SaveFails, SnapshotState
    <3> QED
      BY <2>0, <3>1, SettledRepresented, SaveDurability
  <2> QED
    BY <2>1, <2>2
<1>7. CASE FlushSave
  BY <1>7, FlushSaveDurability
<1>8. CASE DeliverNext \/ ReportFail \/ SnapshotCounters
  <2>1. /\ UNCHANGED <<epoch, proc, queue, last, counters, disk, server, flushed, recorded>>
        /\ pc \in {"next", "send", "save"}
    BY <1>8 DEF DeliverNext, ReportFail, SnapshotCounters, history
  <2>2. Alive /\ proc # "starting" /\ Alive' /\ (Running' <=> Running)
    BY <1>a, <2>1 DEF Lifecycle, Alive, Running
  <2> QED
    BY <2>1, <2>2, QuietDurability
<1>9. ASSUME NEW k \in Ids, FlushOne(k)
      PROVE  Durability'
  <2>1. /\ UNCHANGED <<proc, pc, epoch, counters, disk, server, history>> /\ pc = "flush"
        /\ last' = [last EXCEPT ![k] = counters[k].bytes]
        /\ EnqueueLatest(ReportOf(k))
    BY <1>9 DEF FlushOne
  <2>2. ReportOf(k) \in Report /\ ReportOf(k).id = k /\ ReportOf(k).bytes = counters[k].bytes
    BY <1>9, IdentityTypes DEF FlushOne, ReportOf
  <2>3. /\ \E y \in Reports(queue') : y.id = k /\ y.bytes >= counters[k].bytes
        /\ \A x \in Reports(queue) : \E y \in Reports(queue') : y.id = x.id /\ y.bytes >= x.bytes
    BY <1>b, <2>1, <2>2, EnqueueLatestEffect
  <2>4. \A j \in Ids : srv'[j] >= srv[j]
    BY <1>b, <2>1, SMT DEF server
  <2>5. \A j \in Ids, v \in Nat : Represented(queue, j, v) => Represented(queue, j, v)'
    BY <2>3, <2>4, QueueKeepsRepresented
  <2>6. \A j \in Ids : \/ last'[j] = last[j]
                       \/ last'[j] = counters[j].bytes /\ Represented(queue, j, last[j])'
    <3>1. last \in [Ids -> 0..MaxCounter]
      BY DEF TypeOK
    <3>2. last'[k] = counters[k].bytes /\ \A j \in Ids \ {k} : last'[j] = last[j]
      BY <2>1, <3>1
    <3> QED
      BY <2>3, <3>2 DEF Represented
  <2>7. Alive /\ ReceiptsCharged'
    BY <1>a, <2>1 DEF Lifecycle, Durability, ReceiptsCharged, server
  <2> QED
    BY <2>1, <2>4, <2>5, <2>6, <2>7, MemoryDurability DEF history
<1>10. CASE ReportAccepted
  <2>1. /\ UNCHANGED <<proc, epoch, counters, last, disk, server, history>> /\ pc = "send"
        /\ OperationID(held) \in receipts /\ Ack(OperationID(held))
    BY <1>10 DEF ReportAccepted
  <2>2. \A x \in Reports(queue) : x \in Reports(queue') \/ OperationID(x) \in receipts
    BY <1>b, <2>1, AckEffect
  <2>3. \A x \in Reports(queue) : \/ \E y \in Reports(queue') : y.id = x.id /\ y.bytes >= x.bytes
                                  \/ srv'[x.id] >= x.bytes
    BY <2>1, <2>2, PendingTyped, Zenon DEF OperationID, Durability, ReceiptsCharged, server
  <2>4. \A j \in Ids : srv'[j] >= srv[j]
    BY <1>b, <2>1, SMT DEF server
  <2>5. \A j \in Ids, v \in Nat : Represented(queue, j, v) => Represented(queue, j, v)'
    BY <2>3, <2>4, QueueKeepsRepresented
  <2>6. Alive /\ proc # "starting" /\ ReceiptsCharged'
    BY <1>a, <2>1 DEF Lifecycle, Durability, ReceiptsCharged, server
  <2> QED
    BY <2>1, <2>4, <2>5, <2>6, MemoryDurability DEF history
<1>11. CASE SaveSnapshot
  <2>0. Running /\ proc # "starting"
    BY <1>11, <1>a, <1>c DEF SaveSnapshot, Lifecycle
  <2>1. /\ UNCHANGED <<proc, epoch, queue, last, server, flushed, recorded, history>>
        /\ disk' = disk \/ disk'.queue = queue
    BY <1>11, SMT DEF SaveSnapshot, SaveFails, history
  <2>2. (Alive' <=> Alive) /\ (Running' <=> Running) /\ Alive
    BY <2>0, <2>1 DEF Alive, Running
  <2>3. CASE disk' = disk
    BY <2>0, <2>1, <2>2, <2>3, QuietDurability
  <2>4. CASE disk'.queue = queue
    <3>1. \A k \in Ids : Represented(queue, k, flushed[k])
      BY <2>0 DEF Durability, FlushedNeverLost
    <3> QED
      BY <2>0, <2>1, <2>4, <3>1, SaveDurability
  <2> QED
    BY <2>1, <2>3, <2>4
<1>12. ASSUME NEW r \in sent, ReconcileUsage(r)
       PROVE  Durability'
  <2>1. /\ UNCHANGED <<proc, pc, epoch, counters, last, queue, disk, history>>
        /\ srv' = [srv EXCEPT ![r.id] = Larger(srv[r.id], r.bytes)]
        /\ receipts' = receipts \cup {OperationID(r)}
        /\ r.id \in Ids /\ r.bytes \in Nat /\ srv \in [Ids -> 0..MaxCounter]
        /\ receipts \subseteq Operation
    <3>1. r \in Report /\ srv \in [Ids -> 0..MaxCounter] /\ receipts \subseteq Operation
      BY DEF TypeOK
    <3> QED
      BY <1>12, <3>1, UsageAssumption, SMT DEF ReconcileUsage, memory, Report
  <2>2. srv'[r.id] >= r.bytes /\ \A j \in Ids : srv'[j] >= srv[j] /\ srv'[j] \in Nat
    BY <1>b, <2>1, SMT DEF Larger
  <2>3. ReceiptsCharged'
    <3>1. \A op \in Operation : op.id \in Ids /\ op.bytes \in Nat
      BY UsageAssumption, SMT DEF Operation
    <3>2. OperationID(r).id = r.id /\ OperationID(r).bytes = r.bytes
      BY DEF OperationID
    <3> QED
      BY <1>b, <2>1, <2>2, <3>1, <3>2, SMT DEF Durability, ReceiptsCharged
  <2>4. \A j \in Ids, v \in Nat : Represented(queue, j, v) => Represented(queue, j, v)'
    <3>1. \A x \in Reports(queue) : \E y \in Reports(queue') : y.id = x.id /\ y.bytes >= x.bytes
      BY <2>1, PendingTyped
    <3> QED
      BY <2>2, <3>1, QueueKeepsRepresented
  <2>5. CASE Alive
    BY <1>a, <2>1, <2>2, <2>3, <2>4, <2>5, MemoryDurability DEF history, Lifecycle
  <2>6. CASE ~Alive
    <3>1. StoreReported'
      <4>1. \A j \in Ids : flushed[j] \in Nat /\ RestoredBaseline(disk.counters)[j] \in Nat
        <5>1. disk.counters \in [Ids -> DurableCounter] /\ flushed \in [Ids -> 0..MaxCounter]
          BY DEF TypeOK
        <5> QED
          BY <5>1, BaselineBelowSum, UsageAssumption, SMT
      <4>2. \A j \in Ids, v \in Nat : Represented(disk.queue, j, v) => Represented(disk.queue, j, v)'
        BY <2>1, <2>2, StoreKeepsRepresented
      <4>3. StoreReported /\ disk' = disk /\ flushed' = flushed
        BY <2>1 DEF Durability, history
      <4> QED
        BY <4>1, <4>2, <4>3 DEF StoreReported
    <3>2. ~Alive' /\ ~Running' /\ proc' # "starting" /\ pc' = "idle"
      BY <1>a, <2>1, <2>6 DEF Lifecycle, Alive, Running
    <3>3. Lifecycle' /\ CurrentReported' /\ StartReported' /\ FlushedNeverLost'
      BY <3>2 DEF Lifecycle, CurrentReported, StartReported, FlushedNeverLost
    <3>4. UnusedEpochs'
      BY <2>1 DEF Durability, UnusedEpochs, history
    <3> QED
      BY <2>3, <3>1, <3>3, <3>4 DEF Durability
  <2> QED
    BY <2>5, <2>6
<1>13. CASE UNCHANGED vars
  <2>1. /\ UNCHANGED <<proc, pc, epoch, queue, last, counters, disk, server, flushed, recorded>>
        /\ (Alive' <=> Alive) /\ (Running' <=> Running)
    BY <1>13 DEF vars, memory, server, history, Alive, Running
  <2> QED
    BY <1>a, <2>1, QuietDurability DEF Lifecycle
<1> QED
  BY <1>1, <1>2, <1>3, <1>4, <1>5, <1>6, <1>7, <1>8, <1>9, <1>10, <1>11, <1>12, <1>13 DEF Next

\* Meter.Flush and the edge store: an absolute that one Flush persisted is
\* held by the control plane or by a pending report of the running process
\* ever after, through crashes, failed saves, unlocked snapshots, restarts and
\* the migration of revision-partitioned counters.
THEOREM FlushedNeverLostHolds == Spec => []FlushedNeverLost
<1>1. Init => TypeOK /\ Accounting /\ Durability
  BY InitTypeOK, InitAccounting, InitDurability
<1>2. TypeOK /\ Accounting /\ Durability /\ [Next]_vars => (TypeOK /\ Accounting /\ Durability)'
  BY NextTypeOK, NextAccounting, NextDurability
<1>3. Durability => FlushedNeverLost
  BY DEF Durability
<1> QED
  BY <1>1, <1>2, <1>3, PTL DEF Spec

-----------------------------------------------------------------------------
(* CounterNeverRestarts *)

\* Windows follow the clock.
LEMMA WindowMonotonic ==
  ASSUME NEW s \in Nat, NEW t \in Nat, s <= t
  PROVE  WindowOf(s) <= WindowOf(t)
<1> DEFINE W == DeliveryWindow
           p == WindowOf(s)
           q == WindowOf(t)
<1>1. PICK r \in Nat : p \in Nat /\ s = W * p + r
  BY WindowDivision
<1>2. PICK u \in Nat : u < W /\ q \in Nat /\ t = W * q + u
  BY WindowDivision
<1>3. W \in Nat /\ W > 0
  BY UsageAssumption, SMT
<1> HIDE DEF p, q, W
<1>4. SUFFICES ASSUME q + 1 <= p PROVE FALSE
  BY <1>1, <1>2, SMT DEF p, q
<1>5. W * (q + 1) <= W * p
  BY <1>1, <1>2, <1>3, <1>4, SMT
<1>6. W * (q + 1) = W * q + W /\ W * q \in Nat /\ W * p \in Nat
  BY <1>1, <1>2, <1>3, SMT
<1> QED
  BY <1>1, <1>2, <1>3, <1>5, <1>6, SMT

\* A counter old enough to be pruned belongs to an earlier window.
LEMMA PrunedWindowIsPast ==
  ASSUME NEW s \in Nat, NEW t \in Nat, t - s > DeliveryWindow
  PROVE  WindowOf(s) < WindowOf(t)
<1> DEFINE W == DeliveryWindow
           p == WindowOf(s)
           q == WindowOf(t)
<1>1. PICK r \in Nat : p \in Nat /\ s = W * p + r
  BY WindowDivision
<1>2. PICK u \in Nat : u < W /\ q \in Nat /\ t = W * q + u
  BY WindowDivision
<1>3. W \in Nat /\ W > 0 /\ t - s > W
  BY UsageAssumption, SMT
<1> HIDE DEF p, q, W
<1>4. SUFFICES ASSUME q <= p PROVE FALSE
  BY <1>1, <1>2, SMT DEF p, q
<1>5. W * q <= W * p /\ W * q \in Nat /\ W * p \in Nat
  BY <1>1, <1>2, <1>3, <1>4, SMT
<1> QED
  BY <1>1, <1>2, <1>3, <1>5, SMT

Total(k) ==
  \/ /\ counters[k].bytes = Capped(recorded[k])
     /\ counters[k].bytes > 0 => WindowOf(counters[k].at) = k.window
  \/ /\ counters[k].bytes = 0
     /\ srv[k] >= Capped(recorded[k])
     /\ k.window < WindowOf(now)

Totals == Alive => \A k \in Ids : k.epoch = epoch => Total(k)

\* Counter values and their clocks, as numbers.
LEMMA CounterNumbers ==
  ASSUME TypeOK, NEW k \in Ids
  PROVE  /\ counters[k].bytes \in Nat /\ counters[k].bytes <= MaxCounter
         /\ counters[k].at \in Nat /\ counters[k] \in Counter
         /\ now \in Nat /\ last[k] \in Nat /\ srv[k] \in Nat /\ recorded[k] \in Nat
         /\ k.window \in Nat /\ k.epoch \in Nat
<1>1. /\ counters[k] \in Counter /\ now \in 0..MaxTime /\ last[k] \in 0..MaxCounter
      /\ srv[k] \in 0..MaxCounter /\ recorded[k] \in Nat
  BY DEF TypeOK
<1>2. k.window \in Nat /\ k.epoch \in Nat
  BY UsageAssumption, SMT DEF Ids
<1> QED
  BY <1>1, <1>2, UsageAssumption, SMT DEF Counter

\* pruneDelivered takes counters of past windows the server has in full.
LEMMA PrunedIsDelivered ==
  ASSUME TypeOK, Durability, Totals, Alive,
         NEW k \in Ids, k.epoch = epoch, Prunable(k)
  PROVE  srv[k] >= Capped(recorded[k]) /\ k.window < WindowOf(now)
<1>0. /\ counters[k].bytes > 0 /\ now - counters[k].at > DeliveryWindow
      /\ last[k] >= counters[k].bytes /\ ~HasKey(queue, k)
  BY DEF Prunable
<1>1. /\ counters[k].bytes = Capped(recorded[k])
      /\ WindowOf(counters[k].at) = k.window
  BY <1>0, SMT DEF Totals, Total
<1>2. srv[k] >= last[k]
  BY <1>0 DEF Durability, CurrentReported, Represented, HasKey
<1>3. k.window < WindowOf(now)
  BY <1>0, <1>1, CounterNumbers, PrunedWindowIsPast
<1> QED
  BY <1>0, <1>1, <1>2, <1>3, CounterNumbers, SMT

\* Recording keeps every counter of the epoch a total.
LEMMA RecordTotals ==
  ASSUME TypeOK, TypeOK', Durability, Totals,
         NEW f \in Flows, NEW rev \in LiveRevisions, Record(f, rev)
  PROVE  Totals'
<1>k. PICK k \in Ids : k = CounterID(f)
  BY IdentityTypes
<1>0. /\ UNCHANGED <<now, proc, epoch, server>> /\ proc = "up" /\ Alive
      /\ counters \in [Ids -> Counter] /\ recorded \in [Ids -> Nat]
  BY Zenon DEF Record, Alive, TypeOK
<1>1. k \in Ids /\ k.epoch = epoch /\ k.window = WindowOf(now)
  BY <1>k DEF CounterID
<1>2. Kept(k) \in [Ids -> Counter]
  BY <1>0, EmptyTypes DEF Kept
<1>3. \A j \in Ids : j.epoch = epoch =>
        \/ Kept(k)[j] = counters[j]
        \/ /\ Kept(k)[j].bytes = 0 /\ srv[j] >= Capped(recorded[j])
           /\ j.window < WindowOf(now)
  <2> SUFFICES ASSUME NEW j \in Ids, j.epoch = epoch, j \in Pruned(k)
               PROVE  /\ Kept(k)[j].bytes = 0 /\ srv[j] >= Capped(recorded[j])
                      /\ j.window < WindowOf(now)
    BY DEF Kept
  <2>1. Prunable(j)
    BY DEF Pruned
  <2> QED
    BY <1>0, <2>1, PrunedIsDelivered DEF Kept, NoCounter
<1>4. WindowOf(now) \in Nat
  BY <1>1, CounterNumbers
<1>5. ASSUME NEW j \in Ids, j.epoch = epoch, j # k \/ recorded' = recorded
      PROVE  Total(j)'
  <2>1. counters'[j] = Kept(k)[j] /\ recorded'[j] = recorded[j]
    BY <1>k, <1>0, <1>1, <1>2, <1>5, SMT DEF Record
  <2> QED
    BY <1>0, <1>3, <1>5, <2>1 DEF Totals, Total, server
<1>6. ASSUME recorded' # recorded
      PROVE  Total(k)'
  <2>1. Kept(k)[k] = counters[k] /\ counters[k].bytes = Capped(recorded[k])
    BY <1>0, <1>1, <1>3, <1>4, SMT DEF Totals, Total
  <2>2. /\ counters' = [Kept(k) EXCEPT ![k] = Updated(Kept(k)[k], rev, 1)]
        /\ recorded' = [recorded EXCEPT ![k] = recorded[k] + 1]
    BY <1>k, <1>6 DEF Record
  <2>3. counters'[k] = Updated(counters[k], rev, 1) /\ recorded'[k] = recorded[k] + 1
    BY <1>0, <1>1, <1>2, <2>1, <2>2
  <2>4. counters'[k].bytes = SaturatingAdd(counters[k].bytes, 1) /\ counters'[k].at = now
    BY <2>3, SMT DEF Updated
  <2>5. SaturatingAdd(counters[k].bytes, 1) = Capped(recorded[k] + 1)
    BY <1>1, <2>1, CounterNumbers, UsageAssumption, SMT DEF SaturatingAdd, Capped
  <2>6. counters'[k].bytes = Capped(recorded'[k]) /\ WindowOf(counters'[k].at) = k.window
    BY <1>1, <2>3, <2>4, <2>5
  <2> QED
    BY <2>6 DEF Total
<1>7. \A j \in Ids : j.epoch = epoch => Total(j)'
  BY <1>5, <1>6
<1> QED
  BY <1>0, <1>7 DEF Totals

\* No step gives an identity of this epoch a second life.
LEMMA NextTotals ==
  TypeOK /\ TypeOK' /\ Accounting /\ Durability /\ Totals /\ [Next]_vars => Totals'
<1> SUFFICES ASSUME TypeOK, TypeOK', Accounting, Durability, Totals, [Next]_vars PROVE Totals'
  OBVIOUS
<1>1. CASE Start
  <2>1. ASSUME NEW k \in Ids, k.epoch = epoch + 1
        PROVE  recorded'[k] = 0 /\ counters'[k].bytes = 0
    <3>1. epoch \in Nat
      BY UsageAssumption, SMT DEF TypeOK
    <3>2. recorded[k] = 0
      BY <2>1, <3>1, SMT DEF Durability, UnusedEpochs
    <3>3. counters'[k].bytes \in Nat /\ counters'[k].bytes <= recorded[k]
      <4>1. disk.counters \in [Ids -> DurableCounter] /\ counters' = RestoreCounters(disk.counters)
        BY <1>1 DEF Start, TypeOK
      <4> QED
        BY <4>1, BaselineBelowSum DEF Accounting, CountersBounded
    <3> QED
      BY <1>1, <3>2, <3>3, SMT DEF Start, history
  <2> QED
    BY <1>1, <2>1, UsageAssumption, SMT DEF Start, Totals, Total, Capped
<1>2. CASE Crash \/ FinalSave
  BY <1>2, ZenonT(60) DEF Crash, FinalSave, Totals, Alive
<1>3. CASE Tick
  <2>1. now \in Nat /\ now' = now + 1
    BY <1>3, UsageAssumption, SMT DEF Tick, TypeOK
  <2>2. WindowOf(now) <= WindowOf(now') /\ WindowOf(now) \in Nat /\ WindowOf(now') \in Nat
    BY <2>1, WindowMonotonic, WindowBounded, SMT
  <2>3. \A k \in Ids : k.window \in Nat
    BY CounterNumbers
  <2> HIDE DEF WindowOf
  <2> QED
    BY <1>3, <2>2, <2>3, SMTT(60) DEF Tick, Totals, Total, Alive, memory, server, history
<1>4. ASSUME NEW f \in Flows, NEW rev \in LiveRevisions, Record(f, rev)
      PROVE  Totals'
  BY <1>4, RecordTotals
<1>5. ASSUME UNCHANGED <<now, epoch, counters, recorded>>, Alive' => Alive, srv' = srv
      PROVE  Totals'
  BY <1>5 DEF Totals, Total
<1>6. CASE BeginStop \/ DrainUsage \/ WorkerTick \/ DeliverNext \/ ReportFail \/ ReportAccepted
           \/ SnapshotCounters \/ SaveSnapshot \/ \E k \in Ids : FlushOne(k)
  BY <1>5, <1>6, Zenon DEF BeginStop, DrainUsage, WorkerTick, DeliverNext, ReportFail, ReportAccepted,
     SnapshotCounters, SaveSnapshot, FlushOne, Alive, memory, server, history
<1>7. CASE FlushFull \/ FlushSaveFail
  BY <1>5, <1>7, Zenon DEF FlushFull, FlushSaveFail, FlushAborted, LoseMemory, Totals, Alive, memory, server, history
<1>8. CASE FlushSave
  BY <1>5, <1>8, Zenon DEF FlushSave, Alive, memory, server
<1>9. ASSUME NEW r \in sent, ReconcileUsage(r)
      PROVE  Totals'
  <2>1. UNCHANGED <<now, proc, epoch, counters, recorded>>
    BY <1>9 DEF ReconcileUsage, memory, history
  <2>2. \A k \in Ids : srv'[k] >= srv[k] /\ srv'[k] \in Nat
    <3>1. /\ srv' = [srv EXCEPT ![r.id] = Larger(srv[r.id], r.bytes)]
          /\ r \in Report /\ srv \in [Ids -> 0..MaxCounter]
      BY <1>9 DEF ReconcileUsage, TypeOK
    <3>2. r.id \in Ids /\ r.bytes \in Nat /\ \A k \in Ids : srv[k] \in Nat
      BY <3>1, UsageAssumption, SMT DEF Report
    <3> QED
      BY <3>1, <3>2, SMT DEF Larger
  <2>3. \A k \in Ids : srv[k] \in Nat /\ Capped(recorded[k]) \in Nat
    BY CounterNumbers, UsageAssumption DEF Capped
  <2> QED
    BY <2>1, <2>2, <2>3, SMT DEF Totals, Total, Alive
<1>10. CASE UNCHANGED vars
  BY <1>5, <1>10 DEF vars, memory, server, history, Alive
<1> QED
  BY <1>1, <1>2, <1>3, <1>4, <1>6, <1>7, <1>8, <1>9, <1>10 DEF Next

\* Meter.Record, pruneDelivered and the delivery window in the counter
\* identity: while the edge runs, a live counter is the saturated total of all
\* bytes recorded under its identity, and a pruned one was delivered in full.
THEOREM CounterNeverRestartsHolds == Spec => []CounterNeverRestarts
<1>1. Init => TypeOK /\ Accounting /\ Durability /\ Totals
  BY InitTypeOK, InitAccounting, InitDurability DEF Init, Totals, Alive
<1>2. /\ TypeOK /\ Accounting /\ Durability /\ Totals
      /\ [Next]_vars
      => (TypeOK /\ Accounting /\ Durability /\ Totals)'
  BY NextTypeOK, NextAccounting, NextDurability, NextTotals
<1>3. Totals => CounterNeverRestarts
  BY DEF Totals, Total, CounterNeverRestarts, Running, Alive
<1> QED
  BY <1>1, <1>2, <1>3, PTL DEF Spec

-----------------------------------------------------------------------------
(* FlushAlwaysFits *)

\* Every pending report of q has a live counter of its own in c, and the live
\* counters are capped.
Fits(c, q) ==
  /\ \A i, j \in DOMAIN q : q[i].id = q[j].id => i = j
  /\ \A i \in DOMAIN q : c[q[i].id].bytes > 0
  /\ IsFiniteSet(Live(c)) /\ Cardinality(Live(c)) <= MaxReports

\* So it is in memory, in the store, and in a store that Persist is writing.
Room ==
  /\ Fits(counters, queue)
  /\ Fits(RestoreCounters(disk.counters), disk.queue)
  /\ pc = "saveQueue" => Fits(RestoreCounters(snap), queue)

\* Positions of a queue and the identities at them.
LEMMA QueuePositions ==
  ASSUME NEW q \in Seq(Report)
  PROVE  /\ Len(q) \in Nat /\ DOMAIN q = 1..Len(q)
         /\ \A i \in DOMAIN q : q[i] \in Report /\ q[i].id \in Ids
<1>1. /\ Len(q) \in Nat /\ DOMAIN q = 1..Len(q)
      /\ \A i \in DOMAIN q : q[i] \in Report
  BY LenProperties, ElementOfSeq
<1>2. \A r \in Report : r.id \in Ids
  BY SMT DEF Report
<1> QED
  BY <1>1, <1>2

\* A live counter without a pending report leaves a free slot: the reports
\* inject into the other live counters.
LEMMA FreeSlot ==
  ASSUME NEW c, NEW q \in Seq(Report), Fits(c, q),
         NEW k \in Ids, c[k].bytes > 0, ~HasKey(q, k)
  PROVE  Len(q) < MaxReports
<1> DEFINE others == Live(c) \ {k}
           ids == [i \in 1..Len(q) |-> q[i].id]
<1>1. /\ Len(q) \in Nat /\ DOMAIN q = 1..Len(q)
      /\ \A i \in DOMAIN q : q[i].id \in Ids
  BY QueuePositions
<1>2. \A i \in DOMAIN q : q[i].id \in others
  BY <1>1 DEF Fits, Live, HasKey, Reports
<1>3. ids \in Injection(1..Len(q), others)
  <2>1. ids \in [1..Len(q) -> others]
    BY <1>1, <1>2
  <2>2. \A i, j \in 1..Len(q) : ids[i] = ids[j] => i = j
    BY <1>1 DEF Fits
  <2> QED
    BY <2>1, <2>2 DEF Injection, IsInjective
<1>4. /\ IsFiniteSet(others) /\ Cardinality(others) = Cardinality(Live(c)) - 1
      /\ Cardinality(Live(c)) \in Nat /\ Cardinality(others) \in Nat
  <2>1. k \in Live(c) /\ IsFiniteSet(Live(c))
    BY DEF Fits, Live
  <2> QED
    BY <2>1, FS_RemoveElement, FS_CardinalityType
<1>5. Cardinality(1..Len(q)) <= Cardinality(others)
  BY <1>3, <1>4, FS_Injection, ZenonT(60)
<1>6. Cardinality(1..Len(q)) = Len(q)
  <2>1. Cardinality(1..Len(q)) = IF 1 > Len(q) THEN 0 ELSE Len(q) - 1 + 1
    BY <1>1, FS_Interval, SMT
  <2> QED
    BY <1>1, <2>1, SMT
<1>7. Cardinality(Live(c)) <= MaxReports /\ MaxReports \in Nat
  BY UsageAssumption DEF Fits
<1> HIDE DEF others
<1> QED
  BY <1>1, <1>4, <1>5, <1>6, <1>7, SMT

\* Fits depends on which counters are live only.
LEMMA FitsSameLive ==
  ASSUME NEW c, NEW d, NEW q \in Seq(Report), Fits(c, q),
         \A k \in Ids : d[k].bytes > 0 <=> c[k].bytes > 0
  PROVE  Fits(d, q)
<1>1. Live(d) = Live(c)
  BY DEF Live
<1>2. \A i \in DOMAIN q : q[i].id \in Ids
  BY QueuePositions
<1> QED
  BY <1>1, <1>2 DEF Fits

\* Nothing pending and nothing live.
LEMMA FitsEmpty ==
  ASSUME NEW c, \A k \in Ids : c[k].bytes = 0
  PROVE  Fits(c, <<>>)
<1>1. Live(c) = {}
  BY SMT DEF Live
<1>2. IsFiniteSet(Live(c)) /\ Cardinality(Live(c)) <= MaxReports
  BY <1>1, FS_EmptySet, UsageAssumption, SMT
<1>3. DOMAIN <<>> = {}
  BY EmptySeq, SMT
<1> QED
  BY <1>2, <1>3 DEF Fits

\* What a store saved of fitting counters and queue fits after a restore.
LEMMA FitsRoundTrip ==
  ASSUME NEW c \in [Ids -> Counter], NEW q \in Seq(Report), Fits(c, q)
  PROVE  Fits(RestoreCounters(Durable(c)), q)
<1>1. \A k \in Ids : RestoreCounters(Durable(c))[k].bytes = c[k].bytes
  BY StoreRoundTrip
<1>2. \A k \in Ids : RestoreCounters(Durable(c))[k].bytes > 0 <=> c[k].bytes > 0
  BY <1>1
<1> QED
  BY <1>2, FitsSameLive

\* EnqueueLatest keeps one report per identity, of a live counter.
LEMMA FitsEnqueue ==
  ASSUME NEW c, NEW r \in Report, queue \in Seq(Report), Fits(c, queue),
         c[r.id].bytes > 0, EnqueueLatest(r)
  PROVE  Fits(c, queue')
<1>0. /\ Len(queue) \in Nat /\ DOMAIN queue = 1..Len(queue)
      /\ \A i \in DOMAIN queue : queue[i] \in Report
  BY QueuePositions
<1>1. CASE queue' = queue
  BY <1>1 DEF Fits
<1>2. ASSUME NEW i \in DOMAIN queue, queue[i].id = r.id, queue' = [queue EXCEPT ![i] = r]
      PROVE  Fits(c, queue')
  <2>1. DOMAIN queue' = DOMAIN queue /\ \A j \in DOMAIN queue : queue'[j].id = queue[j].id
    <3>1. /\ DOMAIN queue' = DOMAIN queue
          /\ \A j \in DOMAIN queue : queue'[j] = IF j = i THEN r ELSE queue[j]
      BY <1>0, <1>2, ExceptSeq
    <3> QED
      BY <1>2, <3>1
  <2> QED
    BY <2>1 DEF Fits
<1>3. CASE queue' = Append(queue, r) /\ ~HasKey(queue, r.id)
  <2>1. /\ DOMAIN queue' = 1..(Len(queue) + 1)
        /\ queue'[Len(queue) + 1] = r
        /\ \A j \in DOMAIN queue : queue'[j] = queue[j]
    BY <1>0, <1>3, SMT
  <2>2. \A j \in DOMAIN queue' : j \in DOMAIN queue \/ j = Len(queue) + 1
    BY <1>0, <2>1, SMT
  <2>3. \A j \in DOMAIN queue : queue[j].id # r.id
    BY <1>3 DEF HasKey, Reports
  <2>4. \A j \in DOMAIN queue' : c[queue'[j].id].bytes > 0
    BY <2>1, <2>2 DEF Fits
  <2>5. ASSUME NEW i \in DOMAIN queue', NEW j \in DOMAIN queue', queue'[i].id = queue'[j].id
        PROVE  i = j
    BY <2>1, <2>2, <2>3, <2>5 DEF Fits
  <2> QED
    BY <2>4, <2>5 DEF Fits
<1> QED
  BY <1>1, <1>2, <1>3 DEF EnqueueLatest

\* Ack removes one report.
LEMMA FitsAck ==
  ASSUME NEW c, NEW op, queue \in Seq(Report), Fits(c, queue), Ack(op)
  PROVE  Fits(c, queue')
<1>0. /\ Len(queue) \in Nat /\ DOMAIN queue = 1..Len(queue)
  BY QueuePositions
<1>1. PICK i \in DOMAIN queue :
        queue' = [j \in 1..(Len(queue) - 1) |-> IF j < i THEN queue[j] ELSE queue[j + 1]]
  BY DEF Ack
<1> DEFINE from(j) == IF j < i THEN j ELSE j + 1
<1>2. DOMAIN queue' = 1..(Len(queue) - 1)
  BY <1>1
<1>3. \A j \in DOMAIN queue' : from(j) \in DOMAIN queue /\ queue'[j] = queue[from(j)]
  <2>1. \A j \in DOMAIN queue' : from(j) \in DOMAIN queue
    BY <1>0, <1>2, SMT
  <2> QED
    BY <1>1, <1>2, <2>1
<1>4. \A j, m \in DOMAIN queue' : from(j) = from(m) => j = m
  BY <1>0, <1>2, SMT
<1> HIDE DEF from
<1>5. \A j \in DOMAIN queue' : c[queue'[j].id].bytes > 0
  BY <1>3 DEF Fits
<1>6. ASSUME NEW j \in DOMAIN queue', NEW m \in DOMAIN queue', queue'[j].id = queue'[m].id
      PROVE  j = m
  <2>1. queue[from(j)].id = queue[from(m)].id
    BY <1>3, <1>6
  <2>2. from(j) = from(m)
    BY <1>3, <2>1 DEF Fits
  <2> QED
    BY <1>4, <2>2
<1> QED
  BY <1>5, <1>6 DEF Fits

\* Record prunes only counters without a pending report, and adds one only
\* below the cap.
LEMMA FitsRecord ==
  ASSUME TypeOK, Fits(counters, queue), NEW f \in Flows, NEW rev \in LiveRevisions,
         Record(f, rev)
  PROVE  Fits(counters', queue)
<1>k. PICK k \in Ids : k = CounterID(f)
  BY IdentityTypes
<1>0. counters \in [Ids -> Counter] /\ queue \in Seq(Report)
  BY DEF TypeOK
<1>1. Kept(k) \in [Ids -> Counter]
  BY <1>0, EmptyTypes DEF Kept
<1>2. Live(Kept(k)) \subseteq Live(counters)
  <2>1. ~(NoCounter.bytes > 0)
    BY SMT DEF NoCounter
  <2> QED
    BY <2>1 DEF Live, Kept
<1>3. /\ IsFiniteSet(Live(Kept(k))) /\ Cardinality(Live(Kept(k))) <= MaxReports
      /\ IsFiniteSet(Live(Kept(k)) \cup {k})
  <2>1. IsFiniteSet(Live(counters)) /\ Cardinality(Live(counters)) <= MaxReports
    BY DEF Fits
  <2>2. /\ IsFiniteSet(Live(Kept(k)))
        /\ Cardinality(Live(Kept(k))) <= Cardinality(Live(counters))
    BY <1>2, <2>1, FS_Subset
  <2>3. Cardinality(Live(counters)) \in Nat /\ Cardinality(Live(Kept(k))) \in Nat
    BY <2>1, <2>2, FS_CardinalityType
  <2>4. IsFiniteSet(Live(Kept(k)) \cup {k})
    BY <2>2, FS_AddElement
  <2> QED
    BY <2>1, <2>2, <2>3, <2>4, UsageAssumption, SMT
<1>4. \A i \in DOMAIN queue : queue[i].id \in Ids /\ Kept(k)[queue[i].id].bytes > 0
  <2> SUFFICES ASSUME NEW i \in DOMAIN queue
               PROVE  queue[i].id \in Ids /\ Kept(k)[queue[i].id].bytes > 0
    OBVIOUS
  <2>1. queue[i].id \in Ids /\ counters[queue[i].id].bytes > 0
    BY <1>0, QueuePositions DEF Fits
  <2>2. HasKey(queue, queue[i].id)
    BY DEF HasKey, Reports
  <2>3. queue[i].id \notin Pruned(k)
    BY <2>2 DEF Pruned, Prunable
  <2> QED
    BY <2>1, <2>3 DEF Kept
<1>5. CASE counters' = Kept(k)
  BY <1>3, <1>4, <1>5 DEF Fits
<1>6. CASE CanAdd(Kept(k), k) /\ counters' = [Kept(k) EXCEPT ![k] = Updated(Kept(k)[k], rev, 1)]
  <2>1. /\ counters'[k].bytes = SaturatingAdd(Kept(k)[k].bytes, 1)
        /\ \A j \in Ids \ {k} : counters'[j] = Kept(k)[j]
    <3>1. counters'[k] = Updated(Kept(k)[k], rev, 1)
      BY <1>1, <1>6
    <3>2. counters'[k].bytes = SaturatingAdd(Kept(k)[k].bytes, 1)
      BY <3>1, SMT DEF Updated
    <3> QED
      BY <1>1, <1>6, <3>2
  <2>2. Kept(k)[k].bytes > 0 => counters'[k].bytes > 0
    <3>1. Kept(k)[k].bytes \in 0..MaxCounter
      BY <1>1, SMT DEF Counter
    <3>2. SaturatingAdd(Kept(k)[k].bytes, 1) >= Kept(k)[k].bytes
      BY <3>1, SaturatingAddType
    <3>3. SaturatingAdd(Kept(k)[k].bytes, 1) \in 0..MaxCounter
      BY <3>1, SaturatingAddType
    <3> QED
      BY <2>1, <3>1, <3>2, <3>3, UsageAssumption, SMT
  <2>3. \A i \in DOMAIN queue : counters'[queue[i].id].bytes > 0
    BY <1>4, <2>1, <2>2
  <2>4. Live(counters') \subseteq Live(Kept(k)) \cup {k}
    BY <2>1 DEF Live
  <2>5. /\ IsFiniteSet(Live(counters'))
        /\ Cardinality(Live(counters')) <= Cardinality(Live(Kept(k)) \cup {k})
    BY <1>3, <2>4, FS_Subset
  <2>6. Cardinality(Live(Kept(k)) \cup {k}) <= MaxReports
    BY <1>6 DEF CanAdd
  <2>7. Cardinality(Live(counters')) \in Nat /\ Cardinality(Live(Kept(k)) \cup {k}) \in Nat
    BY <1>3, <2>5, FS_CardinalityType
  <2>8. Cardinality(Live(counters')) <= MaxReports
    BY <2>5, <2>6, <2>7, UsageAssumption, SMT
  <2> QED
    BY <2>3, <2>5, <2>8 DEF Fits
<1> QED
  BY <1>k, <1>5, <1>6 DEF Record

\* Steps that keep the memory or lose it, and leave the store alone or save
\* the memory in it.
LEMMA QuietRoom ==
  ASSUME TypeOK, Room,
         UNCHANGED <<counters, queue>> \/ LoseMemory,
         disk' = disk \/ disk' = SnapshotState,
         pc' = "saveQueue" => pc = "saveQueue" /\ UNCHANGED <<snap, queue>>
  PROVE  Room'
<1>1. Fits(counters', queue')
  <2>1. CASE LoseMemory
    BY <2>1, LoseMemoryEmpty, FitsEmpty DEF LoseMemory
  <2> QED
    BY <2>1 DEF Room
<1>2. Fits(RestoreCounters(disk'.counters), disk'.queue)
  <2>1. CASE disk' = SnapshotState
    <3>1. disk'.counters = Durable(counters) /\ disk'.queue = queue
      BY <2>1, SMT DEF SnapshotState
    <3>2. counters \in [Ids -> Counter] /\ queue \in Seq(Report)
      BY DEF TypeOK
    <3> QED
      BY <3>1, <3>2, FitsRoundTrip DEF Room
  <2> QED
    BY <2>1 DEF Room
<1>3. pc' = "saveQueue" => Fits(RestoreCounters(snap'), queue')
  BY DEF Room
<1> QED
  BY <1>1, <1>2, <1>3 DEF Room

\* A fresh store is empty.
LEMMA InitRoom == Init /\ ~Legacy => Room
<1> SUFFICES ASSUME Init, ~Legacy PROVE Room
  OBVIOUS
<1>1. InitFresh
  BY DEF Init, InitLegacy
<1>2. queue = <<>> /\ pc = "idle" /\ \A k \in Ids : counters[k].bytes = 0
  BY SMT DEF Init, NoCounter
<1>3. disk.counters = NoDurable /\ disk.queue = <<>>
  BY <1>1, SMT DEF InitFresh
<1>4. \A k \in Ids : RestoreCounters(NoDurable)[k].bytes = 0
  BY NoDurableRestores
<1> QED
  BY <1>2, <1>3, <1>4, FitsEmpty DEF Room

\* No step lets a report wait without a live counter of its own, and none
\* takes the live counters above the cap.
LEMMA NextRoom == TypeOK /\ Room /\ [Next]_vars => Room'
<1> SUFFICES ASSUME TypeOK, Room, [Next]_vars PROVE Room'
  OBVIOUS
<1>a. counters \in [Ids -> Counter] /\ queue \in Seq(Report)
  BY DEF TypeOK
<1>1. CASE Start
  <2>1. /\ counters' = RestoreCounters(disk.counters) /\ queue' = disk.queue /\ disk' = disk
        /\ pc' \in {"flush", "idle"}
    BY <1>1 DEF Start
  <2> QED
    BY <2>1 DEF Room
<1>2. CASE Crash \/ FinalSave
  <2>1. LoseMemory /\ (disk' = disk \/ disk' = SnapshotState)
    BY <1>2 DEF Crash, FinalSave, SaveFails
  <2> QED
    BY <2>1, QuietRoom DEF LoseMemory
<1>3. CASE BeginStop \/ DrainUsage \/ Tick \/ WorkerTick \/ DeliverNext \/ ReportFail
           \/ UNCHANGED vars \/ \E r \in sent : ReconcileUsage(r)
  <2>1. UNCHANGED <<counters, queue, snap, disk>> /\ (pc' = "saveQueue" => pc = "saveQueue")
    BY <1>3 DEF BeginStop, DrainUsage, Tick, WorkerTick, DeliverNext, ReportFail, ReconcileUsage,
       IterationEnd, memory, vars
  <2> QED
    BY <2>1, QuietRoom
<1>4. ASSUME NEW f \in Flows, NEW rev \in LiveRevisions, Record(f, rev)
      PROVE  Room'
  <2>1. UNCHANGED <<queue, snap, disk, pc>>
    BY <1>4 DEF Record
  <2>2. Fits(counters', queue)
    BY <1>4, FitsRecord DEF Room
  <2> QED
    BY <2>1, <2>2 DEF Room
<1>5. CASE FlushFull \/ FlushSaveFail
  <2>1. /\ disk' = disk \/ disk' = SnapshotState
        /\ UNCHANGED <<counters, queue>> \/ LoseMemory
        /\ pc' # "saveQueue"
    BY <1>5 DEF FlushFull, FlushSaveFail, SaveFails, FlushAborted, LoseMemory, IterationEnd, memory
  <2> QED
    BY <2>1, QuietRoom
<1>6. CASE FlushSave
  <2>1. UNCHANGED <<counters, queue>> /\ disk' = SnapshotState /\ pc' # "saveQueue"
    BY <1>6 DEF FlushSave, memory
  <2> QED
    BY <2>1, QuietRoom
<1>7. ASSUME NEW k \in Ids, FlushOne(k)
      PROVE  Room'
  <2>1. /\ UNCHANGED <<counters, disk, pc>> /\ pc = "flush" /\ Due(k)
        /\ EnqueueLatest(ReportOf(k))
    BY <1>7 DEF FlushOne
  <2>2. ReportOf(k) \in Report /\ ReportOf(k).id = k
    BY <2>1, IdentityTypes DEF ReportOf
  <2>3. counters[k].bytes > 0
    BY <2>1, CounterNumbers, SMT DEF Due
  <2>4. Fits(counters, queue')
    BY <1>a, <2>1, <2>2, <2>3, FitsEnqueue DEF Room
  <2> QED
    BY <2>1, <2>4 DEF Room
<1>8. CASE ReportAccepted
  <2>1. UNCHANGED <<counters, disk>> /\ pc' = "save" /\ Ack(OperationID(held))
    BY <1>8 DEF ReportAccepted
  <2>2. Fits(counters, queue')
    BY <1>a, <2>1, FitsAck DEF Room
  <2> QED
    BY <2>1, <2>2 DEF Room
<1>9. CASE SnapshotCounters
  <2>1. UNCHANGED <<counters, queue, disk>> /\ snap' = Durable(counters)
    BY <1>9 DEF SnapshotCounters
  <2>2. Fits(RestoreCounters(Durable(counters)), queue)
    BY <1>a, FitsRoundTrip DEF Room
  <2> QED
    BY <2>1, <2>2 DEF Room
<1>10. CASE SaveSnapshot
  <2>1. /\ UNCHANGED <<counters, queue>> /\ pc = "saveQueue" /\ pc' # "saveQueue"
        /\ disk' = disk \/ disk' = [counters |-> snap, queue |-> queue]
    BY <1>10 DEF SaveSnapshot, SaveFails, IterationEnd
  <2>2. CASE disk' = [counters |-> snap, queue |-> queue]
    <3>1. disk'.counters = snap /\ disk'.queue = queue
      BY <2>2, SMT
    <3> QED
      BY <2>1, <3>1 DEF Room
  <2> QED
    BY <2>1, <2>2 DEF Room
<1> QED
  BY <1>1, <1>2, <1>3, <1>4, <1>5, <1>6, <1>7, <1>8, <1>9, <1>10 DEF Next

\* A due counter finds its own report to replace or a free slot.
LEMMA RoomToFlush ==
  ASSUME TypeOK, Room
  PROVE  FlushAlwaysFits
<1> SUFFICES ASSUME NEW k \in Ids, Due(k), QueueFull(k) PROVE FALSE
  BY DEF FlushAlwaysFits
<1>1. queue \in Seq(Report) /\ counters[k].bytes > 0
  <2>1. counters[k].bytes > 0
    BY CounterNumbers, SMT DEF Due
  <2> QED
    BY <2>1 DEF TypeOK
<1>2. Len(queue) < MaxReports /\ Len(queue) \in Nat
  BY <1>1, FreeSlot, QueuePositions DEF Room, QueueFull
<1> QED
  BY <1>2, UsageAssumption, SMT DEF QueueFull

\* Meter.Record's cap on live counters and Queue.EnqueueLatest: for every queue
\* capacity and any number of flows, Flush never finds the queue full, unless
\* the store was written by a version that queued a report per revision.
THEOREM FlushAlwaysFitsHolds == ~Legacy /\ Spec => []FlushAlwaysFits
<1>1. Init /\ ~Legacy => TypeOK /\ Room
  BY InitTypeOK, InitRoom
<1>2. TypeOK /\ Room /\ [Next]_vars => (TypeOK /\ Room)'
  BY NextTypeOK, NextRoom
<1>3. TypeOK /\ Room => FlushAlwaysFits
  BY RoomToFlush
<1> QED
  BY <1>1, <1>2, <1>3, PTL DEF Spec

-----------------------------------------------------------------------------
(* CleanStopLosesNothing *)

\* Every byte of the epoch is with the control plane or pending in q.
Accounted(q) == \A k \in Ids : k.epoch = epoch => Represented(q, k, Capped(recorded[k]))

\* The streams are gone once the worker drains: after its first flush nothing
\* is left to report.
Drained == proc = "draining" /\ pc # "flush" => Accounted(queue)

\* A flush with no counter due has reported the epoch.
LEMMA NothingDue ==
  ASSUME TypeOK, Durability, Totals, Alive, \A k \in Ids : ~Due(k)
  PROVE  Accounted(queue)
<1> SUFFICES ASSUME NEW k \in Ids, k.epoch = epoch
             PROVE  Represented(queue, k, Capped(recorded[k]))
  BY DEF Accounted
<1>1. Represented(queue, k, last[k])
  BY DEF Durability, CurrentReported
<1>2. /\ counters[k].bytes \in Nat /\ last[k] \in Nat /\ counters[k].bytes <= last[k]
  BY CounterNumbers, SMT DEF Due
<1>3. Represented(queue, k, counters[k].bytes)
  BY <1>1, <1>2, RepresentedBelow, PendingTyped
<1>4. counters[k].bytes = Capped(recorded[k]) \/ srv[k] >= Capped(recorded[k])
  BY DEF Totals, Total
<1> QED
  BY <1>3, <1>4 DEF Represented


\* reconcileUsage never lowers a server counter.
LEMMA ReconcileRaises ==
  ASSUME TypeOK, NEW r \in sent, ReconcileUsage(r)
  PROVE  \A j \in Ids : srv'[j] >= srv[j]
<1>1. r \in Report /\ srv \in [Ids -> 0..MaxCounter]
  BY DEF TypeOK
<1>2. srv' = [srv EXCEPT ![r.id] = Larger(srv[r.id], r.bytes)]
  BY DEF ReconcileUsage
<1>3. r.id \in Ids /\ r.bytes \in Nat /\ \A j \in Ids : srv[j] \in Nat
  BY <1>1, PendingTyped
<1> QED
  BY <1>1, <1>2, <1>3, SMT DEF Larger

\* Recorded totals, as the counters saturate them.
LEMMA CappedTotals ==
  ASSUME TypeOK
  PROVE  \A k \in Ids : Capped(recorded[k]) \in Nat
  BY CounterNumbers, UsageAssumption, SMT DEF Capped

\* While the worker drains, steps that are not flushes keep the epoch
\* accounted for.
LEMMA AccountedStays ==
  ASSUME TypeOK, UNCHANGED <<epoch, recorded>>, Accounted(queue),
         \A k \in Ids, v \in Nat : Represented(queue, k, v) => Represented(queue, k, v)'
  PROVE  Accounted(queue)'
  BY CappedTotals DEF Accounted

\* Only the end of a flush and the steps after it leave the drained worker
\* outside a flush, and the queue has room for the flush.
LEMMA NextDrained ==
  /\ TypeOK /\ TypeOK' /\ Durability /\ Totals /\ FlushAlwaysFits /\ Drained /\ [Next]_vars
  => Drained'
<1> SUFFICES ASSUME TypeOK, TypeOK', Durability, Totals, FlushAlwaysFits, Drained, [Next]_vars,
                    proc' = "draining", pc' # "flush"
             PROVE  Accounted(queue)'
  BY DEF Drained
<1>b. queue \in Seq(Report) /\ \A k \in Ids : srv[k] \in Nat
  BY PendingTyped
<1>1. CASE Start \/ Crash \/ BeginStop \/ DrainUsage \/ FinalSave \/ WorkerTick
  BY <1>1 DEF Start, Crash, BeginStop, DrainUsage, FinalSave, WorkerTick
<1>2. ASSUME NEW f \in Flows, NEW rev \in LiveRevisions, Record(f, rev)
      PROVE  FALSE
  BY <1>2 DEF Record
<1>3. ASSUME NEW k \in Ids, FlushOne(k)
      PROVE  FALSE
  BY <1>3 DEF FlushOne
<1>4. CASE FlushFull
  BY <1>4 DEF FlushFull, FlushAlwaysFits
<1>5. CASE FlushSaveFail \/ FlushSave
  <2>1. /\ proc = "draining" /\ \A k \in Ids : ~Due(k)
        /\ UNCHANGED <<queue, epoch, recorded, srv>>
    BY <1>5 DEF FlushSaveFail, FlushSave, FlushAborted, memory, server, history
  <2>2. Accounted(queue)
    BY <2>1, NothingDue DEF Alive
  <2> QED
    BY <2>1, <2>2 DEF Accounted, Represented
<1>6. CASE Tick \/ DeliverNext \/ ReportFail \/ SnapshotCounters \/ SaveSnapshot \/ UNCHANGED vars
  <2>1. proc = "draining" /\ pc # "flush" /\ UNCHANGED <<queue, epoch, recorded, srv>>
    BY <1>6 DEF Tick, DeliverNext, ReportFail, SnapshotCounters, SaveSnapshot, memory, server,
       history, vars
  <2> QED
    BY <2>1 DEF Drained, Accounted, Represented
<1>7. CASE ReportAccepted
  <2>1. /\ proc = "draining" /\ pc # "flush" /\ UNCHANGED <<epoch, recorded, srv>>
        /\ OperationID(held) \in receipts /\ Ack(OperationID(held))
    BY <1>7 DEF ReportAccepted, server, history
  <2>2. \A x \in Reports(queue) : x \in Reports(queue') \/ OperationID(x) \in receipts
    BY <1>b, <2>1, AckEffect
  <2>3. \A x \in Reports(queue) : \/ \E y \in Reports(queue') : y.id = x.id /\ y.bytes >= x.bytes
                                  \/ srv'[x.id] >= x.bytes
    BY <2>1, <2>2, PendingTyped DEF OperationID, Durability, ReceiptsCharged
  <2>4. \A j \in Ids : srv'[j] >= srv[j]
    BY <1>b, <2>1, SMT
  <2>5. \A j \in Ids, v \in Nat : Represented(queue, j, v) => Represented(queue, j, v)'
    BY <2>3, <2>4, QueueKeepsRepresented
  <2> QED
    BY <2>1, <2>5, AccountedStays DEF Drained
<1>8. ASSUME NEW r \in sent, ReconcileUsage(r)
      PROVE  Accounted(queue)'
  <2>1. proc = "draining" /\ pc # "flush" /\ UNCHANGED <<queue, epoch, recorded>>
    BY <1>8 DEF ReconcileUsage, memory, history
  <2>2. \A j \in Ids : srv'[j] >= srv[j]
    BY <1>8, ReconcileRaises
  <2>3. \A x \in Reports(queue) : \E y \in Reports(queue') : y.id = x.id /\ y.bytes >= x.bytes
    BY <2>1, PendingTyped
  <2>4. \A j \in Ids, v \in Nat : Represented(queue, j, v) => Represented(queue, j, v)'
    BY <2>2, <2>3, QueueKeepsRepresented
  <2> QED
    BY <2>1, <2>4, AccountedStays DEF Drained
<1> QED
  BY <1>1, <1>2, <1>3, <1>4, <1>5, <1>6, <1>7, <1>8 DEF Next

\* The last save stores what the drained worker left, and nothing lowers a
\* server counter afterwards.
LEMMA NextCleanStop ==
  /\ TypeOK /\ TypeOK' /\ Durability /\ Drained /\ CleanStopLosesNothing /\ [Next]_vars
  => CleanStopLosesNothing'
<1> SUFFICES ASSUME TypeOK, TypeOK', Durability, Drained, CleanStopLosesNothing, [Next]_vars,
                    proc' = "stopped"
             PROVE  (\A k \in Ids : k.epoch = epoch => Represented(disk.queue, k, Capped(recorded[k])))'
  BY DEF CleanStopLosesNothing
<1>a. proc = "stopped" => pc = "idle"
  BY DEF Durability, Lifecycle, Alive
<1>1. CASE Start \/ Crash \/ BeginStop \/ DrainUsage \/ WorkerTick \/ FlushFull \/ FlushSaveFail
           \/ FlushSave \/ DeliverNext \/ ReportFail \/ ReportAccepted \/ SnapshotCounters
           \/ SaveSnapshot
  BY <1>1, <1>a DEF Start, Crash, BeginStop, DrainUsage, WorkerTick, FlushFull, FlushSaveFail,
     FlushSave, FlushAborted, DeliverNext, ReportFail, ReportAccepted, SnapshotCounters, SaveSnapshot
<1>2. ASSUME NEW f \in Flows, NEW rev \in LiveRevisions, Record(f, rev)
      PROVE  FALSE
  BY <1>2 DEF Record
<1>3. ASSUME NEW k \in Ids, FlushOne(k)
      PROVE  FALSE
  BY <1>3, <1>a DEF FlushOne
<1>4. CASE FinalSave
  <2>1. /\ proc = "draining" /\ pc = "final" /\ disk' = SnapshotState
        /\ UNCHANGED <<epoch, recorded, srv>>
    BY <1>4 DEF FinalSave, server, history
  <2>2. disk'.queue = queue
    BY <2>1, SMT DEF SnapshotState
  <2>3. Accounted(queue)
    BY <2>1 DEF Drained
  <2> QED
    BY <2>1, <2>2, <2>3 DEF Accounted, Represented
<1>5. CASE Tick \/ UNCHANGED vars
  <2>1. proc = "stopped" /\ UNCHANGED <<disk, epoch, recorded, srv>>
    BY <1>5 DEF Tick, vars, server, history
  <2> QED
    BY <2>1 DEF CleanStopLosesNothing, Represented
<1>6. ASSUME NEW r \in sent, ReconcileUsage(r)
      PROVE  (\A k \in Ids : k.epoch = epoch => Represented(disk.queue, k, Capped(recorded[k])))'
  <2>1. proc = "stopped" /\ UNCHANGED <<disk, epoch, recorded>>
    BY <1>6 DEF ReconcileUsage, history
  <2>2. \A j \in Ids, v \in Nat : Represented(disk.queue, j, v) => Represented(disk.queue, j, v)'
    BY <1>6, <2>1, ReconcileRaises, StoreKeepsRepresented
  <2> QED
    BY <2>1, <2>2, CappedTotals DEF CleanStopLosesNothing
<1> QED
  BY <1>1, <1>2, <1>3, <1>4, <1>5, <1>6 DEF Next

\* UsageWorker.Shutdown and Persistence.Shutdown: after a stop that reached its
\* last save, every byte of the epoch is with the control plane or in a stored
\* pending report, whichever reports, answers and saves failed on the way,
\* unless the store was written by a version that queued a report per revision.
THEOREM CleanStopLosesNothingHolds == ~Legacy /\ Spec => []CleanStopLosesNothing
<1> DEFINE Inv == /\ TypeOK /\ Accounting /\ Durability /\ Totals /\ Room
                  /\ Drained /\ CleanStopLosesNothing
<1>1. Init /\ ~Legacy => Inv
  <2>1. Init => Totals /\ Drained /\ CleanStopLosesNothing
    BY DEF Init, Totals, Alive, Drained, CleanStopLosesNothing
  <2> QED
    BY <2>1, InitTypeOK, InitAccounting, InitDurability, InitRoom
<1>2. Inv /\ [Next]_vars => Inv'
  <2> SUFFICES ASSUME Inv, [Next]_vars PROVE Inv'
    OBVIOUS
  <2>1. TypeOK' /\ Accounting' /\ Durability' /\ Totals' /\ Room'
    BY NextTypeOK, NextAccounting, NextDurability, NextTotals, NextRoom
  <2>2. Drained'
    BY <2>1, RoomToFlush, NextDrained
  <2>3. CleanStopLosesNothing'
    BY <2>1, NextCleanStop
  <2> QED
    BY <2>1, <2>2, <2>3
<1>3. Inv => CleanStopLosesNothing
  OBVIOUS
<1> QED
  BY <1>1, <1>2, <1>3, PTL DEF Spec
=============================================================================
