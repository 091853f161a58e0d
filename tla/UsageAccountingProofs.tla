----------------------- MODULE UsageAccountingProofs ------------------------
(***************************************************************************)
(* Effects of the queue and store operations of UsageMetering, its type    *)
(* correctness, and NeverOverBilled: nothing the edge holds, stores or has *)
(* sent claims more bytes than streams recorded.  With it, UsageMetering   *)
(* implements UsageLedger.  All of it for every set of flows, every        *)
(* delivery window, every queue capacity and every bound.                  *)
(***************************************************************************)
EXTENDS UsageMetering, SequenceTheorems, TLAPS

\* Most leaves are first-order: Zenon is the default, and a leaf with arithmetic names SMT.
USE Zenon

-----------------------------------------------------------------------------
(* Arithmetic of delivery windows *)

\* Euclidean division by the delivery window.
LEMMA WindowDivision ==
  ASSUME NEW t \in Nat
  PROVE  \E r \in Nat : /\ r < DeliveryWindow
                        /\ WindowOf(t) \in Nat
                        /\ t = DeliveryWindow * WindowOf(t) + r
<1>1. /\ t % DeliveryWindow \in Nat /\ t % DeliveryWindow < DeliveryWindow
      /\ t \div DeliveryWindow \in Nat
      /\ t = DeliveryWindow * (t \div DeliveryWindow) + (t % DeliveryWindow)
  BY UsageAssumption, SMT
<1> QED
  BY <1>1 DEF WindowOf

\* A window index never exceeds its time, so CounterID stays within Ids.
LEMMA WindowBounded ==
  ASSUME NEW t \in Nat
  PROVE  WindowOf(t) \in 0..t
<1>1. PICK r \in Nat : WindowOf(t) \in Nat /\ t = DeliveryWindow * WindowOf(t) + r
  BY WindowDivision
<1>2. ASSUME NEW q \in Nat, t = DeliveryWindow * q + r
      PROVE  q <= t
  BY <1>2, UsageAssumption, SMT
<1> QED
  BY <1>1, <1>2, SMT

-----------------------------------------------------------------------------
(* What the queue operations do to the set of pending reports *)

\* EnqueueLatest keeps a sequence of reports, adds nothing but r, leaves r or
\* something larger pending, and never lowers what another identity has.
LEMMA EnqueueLatestEffect ==
  ASSUME NEW r \in Report, queue \in Seq(Report), EnqueueLatest(r)
  PROVE  /\ queue' \in Seq(Report)
         /\ Reports(queue') \subseteq Reports(queue) \cup {r}
         /\ \E y \in Reports(queue') : y.id = r.id /\ y.bytes >= r.bytes
         /\ \A x \in Reports(queue) :
              \E y \in Reports(queue') : y.id = x.id /\ y.bytes >= x.bytes
<1>0. /\ Len(queue) \in Nat /\ DOMAIN queue = 1..Len(queue)
      /\ \A i \in DOMAIN queue : queue[i] \in Report
  BY LenProperties, ElementOfSeq
<1>a. \A x \in Report : x.bytes \in Nat /\ x.bytes >= x.bytes
  BY UsageAssumption, SMT DEF Report
<1>b. Reports(queue) \subseteq Report
  BY <1>0 DEF Reports
<1>1. CASE queue' = queue /\ \E i \in DOMAIN queue : queue[i].id = r.id /\ r.bytes <= queue[i].bytes
  BY <1>0, <1>a, <1>b, <1>1 DEF Reports
<1>2. ASSUME NEW i \in DOMAIN queue, queue[i].id = r.id, r.bytes > queue[i].bytes,
             queue' = [queue EXCEPT ![i] = r]
      PROVE  /\ queue' \in Seq(Report)
             /\ Reports(queue') \subseteq Reports(queue) \cup {r}
             /\ r \in Reports(queue')
             /\ \A x \in Reports(queue) :
                  \E y \in Reports(queue') : y.id = x.id /\ y.bytes >= x.bytes
  <2>1. /\ queue' \in Seq(Report) /\ DOMAIN queue' = DOMAIN queue
        /\ \A j \in DOMAIN queue : queue'[j] = IF j = i THEN r ELSE queue[j]
    BY <1>0, <1>2, ExceptSeq
  <2>2. Reports(queue') \subseteq Reports(queue) \cup {r} /\ r \in Reports(queue')
    BY <2>1, <1>2 DEF Reports
  <2>3. ASSUME NEW j \in DOMAIN queue
        PROVE  \E y \in Reports(queue') : y.id = queue[j].id /\ y.bytes >= queue[j].bytes
    BY <2>1, <2>2, <1>0, <1>a, <1>2, SMT DEF Reports
  <2> QED
    BY <2>1, <2>2, <2>3, ZenonT(60) DEF Reports
<1>3. CASE queue' = Append(queue, r)
  <2>1. /\ queue' \in Seq(Report) /\ DOMAIN queue' = 1..(Len(queue) + 1)
        /\ queue'[Len(queue) + 1] = r
        /\ \A j \in DOMAIN queue : queue'[j] = queue[j]
    BY <1>0, <1>3, SMT
  <2>2. Reports(queue') \subseteq Reports(queue) \cup {r} /\ r \in Reports(queue')
    BY <2>1, <1>0, SMT DEF Reports
  <2>3. Reports(queue) \subseteq Reports(queue')
    BY <2>1, <1>0, SMT DEF Reports
  <2> QED
    BY <2>1, <2>2, <2>3, <1>a, <1>b
<1>4. ASSUME NEW i \in DOMAIN queue
      PROVE  r.bytes <= queue[i].bytes \/ r.bytes > queue[i].bytes
  <2>1. r.bytes \in Nat /\ queue[i].bytes \in Nat
    BY <1>0, <1>a
  <2> QED
    BY <2>1, SMT
<1>5. ASSUME NEW i \in DOMAIN queue, queue[i].id = r.id,
             queue' = IF r.bytes <= queue[i].bytes THEN queue ELSE [queue EXCEPT ![i] = r]
      PROVE  \/ queue' = queue /\ r.bytes <= queue[i].bytes
             \/ queue' = [queue EXCEPT ![i] = r] /\ r.bytes > queue[i].bytes
  BY <1>4, <1>5
<1>6. \/ \E i \in DOMAIN queue :
           queue[i].id = r.id /\ queue' = queue /\ r.bytes <= queue[i].bytes
      \/ \E i \in DOMAIN queue :
           queue[i].id = r.id /\ queue' = [queue EXCEPT ![i] = r] /\ r.bytes > queue[i].bytes
      \/ queue' = Append(queue, r)
  BY <1>5 DEF EnqueueLatest
<1> QED
  BY <1>a, <1>1, <1>2, <1>3, <1>6

\* Ack removes one report, the one with the acknowledged operation id.
LEMMA AckEffect ==
  ASSUME NEW op, queue \in Seq(Report), Ack(op)
  PROVE  /\ queue' \in Seq(Report)
         /\ Reports(queue') \subseteq Reports(queue)
         /\ \A x \in Reports(queue) : x \in Reports(queue') \/ OperationID(x) = op
<1>0. /\ Len(queue) \in Nat /\ DOMAIN queue = 1..Len(queue)
      /\ \A i \in DOMAIN queue : queue[i] \in Report
  BY LenProperties, ElementOfSeq
<1>1. PICK i \in DOMAIN queue :
        /\ OperationID(queue[i]) = op
        /\ queue' = [j \in 1..(Len(queue) - 1) |-> IF j < i THEN queue[j] ELSE queue[j + 1]]
  BY DEF Ack
<1>2. /\ DOMAIN queue' = 1..(Len(queue) - 1)
      /\ \A j \in 1..(Len(queue) - 1) : queue'[j] = IF j < i THEN queue[j] ELSE queue[j + 1]
      /\ Len(queue) - 1 \in Nat
  BY <1>0, <1>1, SMT
<1>3. queue' \in [1..(Len(queue) - 1) -> Report]
  BY <1>0, <1>1, <1>2, SMT
<1>4. queue' \in Seq(Report)
  BY <1>2, <1>3, SeqDef
<1>5. Reports(queue') \subseteq Reports(queue)
  BY <1>0, <1>2, SMTT(60) DEF Reports
<1>6. ASSUME NEW m \in DOMAIN queue, m # i
      PROVE  queue[m] \in Reports(queue')
  <2>1. CASE m < i
    <3>1. m \in 1..(Len(queue) - 1) /\ queue'[m] = queue[m]
      BY <1>0, <1>2, <2>1, SMT
    <3> QED
      BY <3>1, <1>2 DEF Reports
  <2>2. CASE m > i
    <3>1. m - 1 \in 1..(Len(queue) - 1) /\ queue'[m - 1] = queue[m]
      BY <1>0, <1>2, <2>2, SMT
    <3> QED
      BY <3>1, <1>2 DEF Reports
  <2> QED
    BY <1>0, <1>6, <2>1, <2>2, SMT
<1> QED
  BY <1>1, <1>4, <1>5, <1>6, Zenon DEF Reports

\* The oldest report is one of the pending ones.
LEMMA HeadIsPending ==
  ASSUME queue \in Seq(Report), queue # <<>>
  PROVE  Head(queue) \in Reports(queue) /\ Head(queue) \in Report
  BY LenProperties, EmptySeq, HeadTailProperties, SMT DEF Reports

-----------------------------------------------------------------------------
(* Types *)

\* The uint64 addition saturates: it stays in range and never exceeds the sum.
LEMMA SaturatingAddType ==
  ASSUME NEW a \in 0..MaxCounter, NEW b \in Nat
  PROVE  /\ SaturatingAdd(a, b) \in 0..MaxCounter
         /\ SaturatingAdd(a, b) <= a + b
         /\ SaturatingAdd(a, b) >= a
         /\ SaturatingAdd(a, b) = Capped(a + b)
  BY UsageAssumption, SMT DEF SaturatingAdd, Capped

\* The values that stand for "nothing there" have their types.
LEMMA EmptyTypes ==
  /\ NoCounter \in Counter
  /\ NoDurable \in [Ids -> DurableCounter]
  /\ [k \in Ids |-> NoCounter] \in [Ids -> Counter]
  BY UsageAssumption, SMT DEF NoCounter, Counter, NoDurable, DurableCounter, NoPartition, Revisions

\* What is saved can be restored: both directions of the store keep types.
LEMMA StoreTypes ==
  /\ \A c \in [Ids -> Counter] : Durable(c) \in [Ids -> DurableCounter]
  /\ \A d \in [Ids -> DurableCounter] :
       /\ RestoreCounters(d) \in [Ids -> Counter]
       /\ RestoredBaseline(d) \in [Ids -> 0..MaxCounter]
<1>1. ASSUME NEW c \in [Ids -> Counter]
      PROVE  Durable(c) \in [Ids -> DurableCounter]
  BY UsageAssumption, SMT DEF Durable, Counter, DurableCounter, Revisions
<1>2. ASSUME NEW d \in [Ids -> DurableCounter], NEW k \in Ids
      PROVE  /\ d[k].part[1] \in 0..MaxCounter /\ d[k].part[2] \in 0..MaxCounter
             /\ d[k].at \in 0..MaxTime
             /\ SaturatingAdd(d[k].part[1], d[k].part[2]) \in 0..MaxCounter
  <2>1. d[k].part \in [Revisions -> 0..MaxCounter] /\ d[k].at \in 0..MaxTime
    BY DEF DurableCounter
  <2>2. d[k].part[1] \in 0..MaxCounter /\ d[k].part[2] \in 0..MaxCounter
    BY <2>1 DEF Revisions
  <2>3. d[k].part[2] \in Nat
    BY <2>2, UsageAssumption, SMT
  <2> QED
    BY <2>1, <2>2, <2>3, SaturatingAddType, Zenon
<1>3. ASSUME NEW d \in [Ids -> DurableCounter]
      PROVE  /\ RestoreCounters(d) \in [Ids -> Counter]
             /\ RestoredBaseline(d) \in [Ids -> 0..MaxCounter]
  BY <1>2 DEF RestoreCounters, RestoredBaseline, Larger, Counter, Revisions
<1> QED
  BY <1>1, <1>3

\* The identity Record counts under, and the report Flush builds, are typed.
LEMMA IdentityTypes ==
  ASSUME TypeOK
  PROVE  /\ \A f \in Flows : CounterID(f) \in Ids
         /\ \A k \in Ids : Due(k) => ReportOf(k) \in Report
<1>1. ASSUME NEW f \in Flows PROVE CounterID(f) \in Ids
  <2>1. now \in Nat /\ now <= MaxTime /\ epoch \in 0..MaxEpoch
    BY UsageAssumption, SMT DEF TypeOK
  <2>2. WindowOf(now) \in 0..MaxTime
    BY <2>1, WindowBounded, UsageAssumption, SMT
  <2> QED
    BY <2>1, <2>2 DEF CounterID, Ids
<1>2. ASSUME NEW k \in Ids, Due(k) PROVE ReportOf(k) \in Report
  <2>1. /\ counters[k] \in Counter /\ last[k] \in 0..MaxCounter
        /\ counters[k].bytes > last[k]
    BY <1>2 DEF TypeOK, Due
  <2> QED
    BY <2>1, UsageAssumption, SMT DEF ReportOf, Report, Counter
<1> QED
  BY <1>1, <1>2

\* A legacy report is a report and its operation an operation.
LEMMA LegacyTypes ==
  ASSUME NEW k \in Ids, NEW part \in [Revisions -> 1..MaxCounter],
         NEW pending \in SUBSET Revisions
  PROVE  /\ \A r \in Revisions : /\ LegacyReport(k, part, r) \in Report
                                 /\ OperationID(LegacyReport(k, part, r)) \in Operation
         /\ LegacyQueue(k, part, pending) \in Seq(Report)
         /\ LegacyAcked(part, pending) \in 0..MaxCounter
         /\ part[1] \in 1..MaxCounter /\ part[2] \in 1..MaxCounter
<1>1. ASSUME NEW r \in Revisions
      PROVE  /\ LegacyReport(k, part, r) \in Report
             /\ OperationID(LegacyReport(k, part, r)) \in Operation
  BY UsageAssumption, SMT DEF LegacyReport, OperationID, Report, Operation
<1>2. 1 \in Revisions /\ 2 \in Revisions /\ part[1] \in 1..MaxCounter /\ part[2] \in 1..MaxCounter
  BY DEF Revisions
<1>3. ASSUME pending # {} PROVE (CHOOSE r \in pending : TRUE) \in Revisions
  BY <1>3
<1>4. ASSUME pending # Revisions PROVE (CHOOSE r \in Revisions : r \notin pending) \in Revisions
  BY <1>4
<1>5. LegacyQueue(k, part, pending) \in Seq(Report)
  BY <1>1, <1>2, <1>3, SMT DEF LegacyQueue
<1>6. LegacyAcked(part, pending) \in 0..MaxCounter
  BY <1>2, <1>4, UsageAssumption, SMT DEF LegacyAcked, Larger
<1> QED
  BY <1>1, <1>2, <1>5, <1>6

\* The process starts well typed, from a fresh store and from a legacy one.
LEMMA InitTypeOK == Init => TypeOK
<1> SUFFICES ASSUME Init PROVE TypeOK
  OBVIOUS
<1>1. /\ now \in 0..MaxTime /\ epoch \in 0..MaxEpoch
      /\ proc = "down" /\ pc = "idle"
      /\ counters \in [Ids -> Counter] /\ last \in [Ids -> 0..MaxCounter]
      /\ queue \in Seq(Report) /\ held \in Report \cup {NoReport}
      /\ snap \in [Ids -> DurableCounter] /\ sent \subseteq Report
  BY EmptyTypes, UsageAssumption, SMT DEF Init
<1>2. CASE InitFresh
  <2>1. disk \in [counters : [Ids -> DurableCounter], queue : Seq(Report)]
    BY <1>2, EmptyTypes, SMT DEF InitFresh
  <2> QED
    BY <1>1, <1>2, <2>1, UsageAssumption, SMT DEF InitFresh, InitServer, TypeOK
<1>3. CASE InitLegacy
  <2>1. PICK f \in Flows, part \in [Revisions -> 1..MaxCounter], pending \in SUBSET Revisions :
          LET k == [flow |-> f, epoch |-> 0, window |-> 0]
              total == part[1] + part[2]
              only(v) == [j \in Ids |-> IF j = k THEN v ELSE 0]
          IN /\ disk = [counters |-> [NoDurable EXCEPT ![k] = [part |-> part, at |-> 0]],
                        queue |-> LegacyQueue(k, part, pending)]
             /\ InitServer(only(LegacyAcked(part, pending)),
                           {OperationID(LegacyReport(k, part, r)) : r \in Revisions \ pending})
             /\ recorded = only(total)
             /\ flushed = only(Capped(total))
    BY <1>3, Zenon DEF InitLegacy
  <2> DEFINE k == [flow |-> f, epoch |-> 0, window |-> 0]
  <2>2. k \in Ids
    BY UsageAssumption, SMT DEF Ids
  <2>3. /\ LegacyQueue(k, part, pending) \in Seq(Report)
        /\ LegacyAcked(part, pending) \in 0..MaxCounter
        /\ part[1] \in 1..MaxCounter /\ part[2] \in 1..MaxCounter
        /\ \A r \in Revisions : OperationID(LegacyReport(k, part, r)) \in Operation
    BY <2>2, LegacyTypes, Zenon
  <2>4. [part |-> part, at |-> 0] \in DurableCounter
    BY UsageAssumption, SMT DEF DurableCounter
  <2>5. disk \in [counters : [Ids -> DurableCounter], queue : Seq(Report)]
    BY <2>1, <2>2, <2>3, <2>4, EmptyTypes
  <2>6. Capped(part[1] + part[2]) \in 0..MaxCounter /\ part[1] + part[2] \in Nat
    BY <2>3, UsageAssumption, SMT DEF Capped
  <2>7. /\ receipts \subseteq Operation /\ srv \in [Ids -> 0..MaxCounter]
        /\ billed \in [Ids -> Nat] /\ expired \in [Ids -> Nat]
    BY <2>1, <2>3, UsageAssumption, SMT DEF InitServer
  <2>8. recorded \in [Ids -> Nat] /\ flushed \in [Ids -> 0..MaxCounter]
    BY <2>1, <2>6, UsageAssumption, SMT
  <2> QED
    BY <1>1, <2>5, <2>7, <2>8 DEF TypeOK
<1> QED
  BY <1>2, <1>3 DEF Init

\* Losing the memory keeps it typed.
LEMMA LoseMemoryType ==
  ASSUME LoseMemory
  PROVE  /\ counters' \in [Ids -> Counter] /\ last' \in [Ids -> 0..MaxCounter]
         /\ queue' \in Seq(Report) /\ held' \in Report \cup {NoReport}
         /\ snap' \in [Ids -> DurableCounter] /\ pc' = "idle"
  BY EmptyTypes, UsageAssumption, SMT DEF LoseMemory

\* Every step of the edge, its worker, its store and the server keeps types.
LEMMA NextTypeOK == TypeOK /\ [Next]_vars => TypeOK'
<1> SUFFICES ASSUME TypeOK, [Next]_vars PROVE TypeOK'
  OBVIOUS
<1>0. /\ disk.counters \in [Ids -> DurableCounter] /\ disk.queue \in Seq(Report)
      /\ [counters |-> Durable(counters), queue |-> queue]
            \in [counters : [Ids -> DurableCounter], queue : Seq(Report)]
      /\ [counters |-> snap, queue |-> queue]
            \in [counters : [Ids -> DurableCounter], queue : Seq(Report)]
  BY StoreTypes DEF TypeOK
<1>1. CASE Start
  <2>1. /\ counters' \in [Ids -> Counter] /\ last' \in [Ids -> 0..MaxCounter]
        /\ queue' \in Seq(Report)
    BY <1>0, <1>1, StoreTypes DEF Start
  <2>2. epoch' \in 0..MaxEpoch
    BY <1>1, UsageAssumption, SMT DEF Start, TypeOK
  <2> QED
    BY <1>1, <2>1, <2>2, Zenon DEF Start, TypeOK, server, history
<1>2. CASE Crash
  BY <1>2, LoseMemoryType DEF Crash, TypeOK, server, history
<1>3. CASE BeginStop
  BY <1>3 DEF BeginStop, TypeOK, memory, server, history
<1>4. CASE DrainUsage
  BY <1>4 DEF DrainUsage, TypeOK, memory, server, history
<1>5. CASE FinalSave
  BY <1>0, <1>5, LoseMemoryType DEF FinalSave, SaveFails, SnapshotState, TypeOK, server, history
<1>6. CASE Tick
  <2>1. now' \in 0..MaxTime
    BY <1>6, UsageAssumption, SMT DEF Tick, TypeOK
  <2> QED
    BY <1>6, <2>1, Zenon DEF Tick, TypeOK, memory, server, history
<1>7. ASSUME NEW f \in Flows, NEW rev \in LiveRevisions, Record(f, rev)
      PROVE  TypeOK'
  <2> DEFINE k == CounterID(f)
  <2>1. k \in Ids
    BY IdentityTypes
  <2>2. Kept(k) \in [Ids -> Counter]
    BY EmptyTypes DEF Kept, TypeOK
  <2>3. Updated(Kept(k)[k], rev, 1) \in Counter
    <3>1. /\ Kept(k)[k].bytes \in 0..MaxCounter /\ Kept(k)[k].rev \in Revisions
          /\ rev \in Revisions /\ now \in 0..MaxTime
      BY <2>1, <2>2, UsageAssumption DEF Counter, TypeOK
    <3>2. SaturatingAdd(Kept(k)[k].bytes, 1) \in 0..MaxCounter
      BY <3>1, SaturatingAddType, Zenon
    <3>3. Larger(Kept(k)[k].rev, rev) \in Revisions
      BY <3>1 DEF Larger
    <3> QED
      BY <3>1, <3>2, <3>3 DEF Updated, Counter
  <2>4. counters' \in [Ids -> Counter]
    BY <1>7, <2>1, <2>2, <2>3 DEF Record
  <2>5. last' \in [Ids -> 0..MaxCounter]
    BY <1>7, UsageAssumption, SMT DEF Record, TypeOK
  <2>6. recorded' \in [Ids -> Nat]
    <3>1. recorded \in [Ids -> Nat] /\ recorded[k] + 1 \in Nat
      BY <2>1, SMT DEF TypeOK
    <3>2. recorded' = [recorded EXCEPT ![k] = recorded[k] + 1] \/ recorded' = recorded
      BY <1>7 DEF Record
    <3> QED
      BY <2>1, <3>1, <3>2
  <2> QED
    BY <1>7, <2>4, <2>5, <2>6, Zenon DEF Record, TypeOK, server
<1>8. CASE WorkerTick
  BY <1>8 DEF WorkerTick, TypeOK, memory, server, history
<1>9. CASE FlushFull \/ FlushSaveFail
  BY <1>0, <1>9, LoseMemoryType, Zenon
     DEF FlushFull, FlushSaveFail, FlushAborted, SaveFails, SnapshotState, IterationEnd,
         TypeOK, memory, server, history
<1>10. CASE FlushSave
  <2>1. flushed' \in [Ids -> 0..MaxCounter]
    BY <1>10 DEF FlushSave, Larger, TypeOK, Counter
  <2> QED
    BY <1>0, <1>10, <2>1, Zenon DEF FlushSave, SnapshotState, TypeOK, memory, server
<1>11. CASE DeliverNext
  <2>1. queue # <<>> => Head(queue) \in Report
    BY HeadIsPending DEF TypeOK
  <2> QED
    BY <1>11, <2>1, SMT DEF DeliverNext, IterationEnd, TypeOK, server, history
<1>12. ASSUME NEW k \in Ids, FlushOne(k)
       PROVE  TypeOK'
  <2>1. ReportOf(k) \in Report
    BY <1>12, IdentityTypes DEF FlushOne
  <2>2. queue' \in Seq(Report)
    BY <1>12, <2>1, EnqueueLatestEffect DEF FlushOne, TypeOK
  <2>3. last' \in [Ids -> 0..MaxCounter]
    BY <1>12 DEF FlushOne, TypeOK, Counter
  <2> QED
    BY <1>12, <2>2, <2>3, Zenon DEF FlushOne, TypeOK, server, history
<1>13. CASE ReportFail
  BY <1>13 DEF ReportFail, IterationEnd, TypeOK, server, history
<1>14. CASE ReportAccepted
  <2>1. queue' \in Seq(Report)
    BY <1>14, AckEffect DEF ReportAccepted, TypeOK
  <2> QED
    BY <1>14, <2>1 DEF ReportAccepted, TypeOK, server, history
<1>15. CASE SnapshotCounters
  BY <1>15, StoreTypes, Zenon DEF SnapshotCounters, TypeOK, server, history
<1>16. CASE SaveSnapshot
  BY <1>0, <1>16, EmptyTypes, Zenon DEF SaveSnapshot, SaveFails, IterationEnd, TypeOK, server, history
<1>17. ASSUME NEW r \in sent, ReconcileUsage(r)
       PROVE  TypeOK'
  <2>1. /\ r \in Report /\ r.id \in Ids /\ r.bytes \in 0..MaxCounter
        /\ OperationID(r) \in Operation
    BY UsageAssumption, SMT DEF TypeOK, Report, Operation, OperationID
  <2>2. Delta(r) \in Nat
    BY <2>1, UsageAssumption, SMT DEF Delta, TypeOK
  <2>3. srv' \in [Ids -> 0..MaxCounter]
    BY <1>17, <2>1 DEF ReconcileUsage, Larger, TypeOK
  <2>4. billed' \in [Ids -> Nat] /\ expired' \in [Ids -> Nat]
    <3>0. billed \in [Ids -> Nat] /\ expired \in [Ids -> Nat]
      BY DEF TypeOK
    <3>1. /\ billed[r.id] \in Nat /\ billed[r.id] + Delta(r) \in Nat
          /\ expired[r.id] \in Nat /\ expired[r.id] + Delta(r) \in Nat
      BY <2>1, <2>2, <3>0, SMT
    <3>2. /\ billed' = [billed EXCEPT ![r.id] = billed[r.id] + Delta(r)] \/ billed' = billed
          /\ expired' = [expired EXCEPT ![r.id] = expired[r.id] + Delta(r)] \/ expired' = expired
      BY <1>17 DEF ReconcileUsage
    <3> QED
      BY <2>1, <3>0, <3>1, <3>2
  <2> QED
    BY <1>17, <2>1, <2>3, <2>4, Zenon DEF ReconcileUsage, TypeOK, memory, history
<1>18. CASE UNCHANGED vars
  BY <1>18 DEF vars, TypeOK, memory, server, history
<1> QED
  BY <1>1, <1>2, <1>3, <1>4, <1>5, <1>6, <1>7, <1>8, <1>9, <1>10, <1>11, <1>12, <1>13,
     <1>14, <1>15, <1>16, <1>17, <1>18 DEF Next

\* Every reachable state of the accounting pipeline is well typed: counters
\* stay within uint64 and queue and store hold only well-formed reports.
THEOREM TypeCorrect == Spec => []TypeOK
<1> QED
  BY InitTypeOK, NextTypeOK, PTL DEF Spec

-----------------------------------------------------------------------------
(* Represented values *)

\* Pending reports are reports, in memory and in the store.
LEMMA PendingTyped ==
  ASSUME TypeOK
  PROVE  /\ queue \in Seq(Report)
         /\ Reports(queue) \subseteq Report /\ Reports(disk.queue) \subseteq Report
         /\ \A r \in Report : r.id \in Ids /\ r.bytes \in Nat /\ r.bytes >= r.bytes
         /\ \A k \in Ids : srv[k] \in Nat
<1>1. Reports(queue) \subseteq Report /\ Reports(disk.queue) \subseteq Report
  BY ElementOfSeq, LenProperties, SMT DEF Reports, TypeOK
<1>2. \A r \in Report : r.id \in Ids /\ r.bytes \in Nat /\ r.bytes >= r.bytes
  BY UsageAssumption, SMT DEF Report
<1>3. \A k \in Ids : srv[k] \in Nat
  BY UsageAssumption, SMT DEF TypeOK
<1>4. queue \in Seq(Report)
  BY DEF TypeOK
<1> QED
  BY <1>1, <1>2, <1>3, <1>4

\* A larger represented value represents the smaller ones.
LEMMA RepresentedBelow ==
  ASSUME TypeOK, NEW k \in Ids, NEW q, Reports(q) \subseteq Report,
         NEW v \in Nat, NEW w \in Nat, v <= w, Represented(q, k, w)
  PROVE  Represented(q, k, v)
  BY PendingTyped, SMT DEF Represented

\* A step that only raises server counters, and drops a report only when the
\* server has it or a larger one of the same identity stays, keeps every
\* represented value represented.
LEMMA QueueKeepsRepresented ==
  ASSUME TypeOK, TypeOK',
         \A k \in Ids : srv'[k] >= srv[k],
         \A x \in Reports(queue) : \/ \E y \in Reports(queue') : y.id = x.id /\ y.bytes >= x.bytes
                                   \/ srv'[x.id] >= x.bytes
  PROVE  \A k \in Ids, v \in Nat : Represented(queue, k, v) => Represented(queue, k, v)'
<1> SUFFICES ASSUME NEW k \in Ids, NEW v \in Nat, Represented(queue, k, v)
             PROVE  Represented(queue, k, v)'
  OBVIOUS
<1>1. /\ Reports(queue) \subseteq Report /\ Reports(queue') \subseteq Report
      /\ \A r \in Report : r.id \in Ids /\ r.bytes \in Nat
      /\ \A j \in Ids : srv[j] \in Nat /\ srv'[j] \in Nat
  <2>1. Reports(queue') \subseteq Report
    <3>1. queue' \in Seq(Report)
      BY DEF TypeOK
    <3> QED
      BY <3>1, ElementOfSeq, LenProperties, ZenonT(60) DEF Reports
  <2>2. \A j \in Ids : srv'[j] \in Nat
    BY UsageAssumption, SMT DEF TypeOK
  <2>3. /\ Reports(queue) \subseteq Report
        /\ \A r \in Report : r.id \in Ids /\ r.bytes \in Nat
        /\ \A j \in Ids : srv[j] \in Nat
    BY PendingTyped
  <2> QED
    BY <2>1, <2>2, <2>3
<1>2. CASE srv[k] >= v
  BY <1>1, <1>2, SMT DEF Represented
<1>3. ASSUME NEW x \in Reports(queue), x.id = k, x.bytes >= v
      PROVE  Represented(queue, k, v)'
  BY <1>1, <1>3, SMT DEF Represented
<1> QED
  BY <1>2, <1>3 DEF Represented

\* The same for a store that does not change.
LEMMA StoreKeepsRepresented ==
  ASSUME TypeOK, TypeOK', disk' = disk,
         \A k \in Ids : srv'[k] >= srv[k]
  PROVE  \A k \in Ids, v \in Nat : Represented(disk.queue, k, v) => Represented(disk.queue, k, v)'
<1>1. \A j \in Ids : srv[j] \in Nat /\ srv'[j] \in Nat
  BY UsageAssumption, SMT DEF TypeOK
<1> QED
  BY <1>1, SMT DEF Represented

\* The sum of the partitions is at least the largest of them.
LEMMA BaselineBelowSum ==
  ASSUME NEW d \in [Ids -> DurableCounter], NEW k \in Ids
  PROVE  /\ RestoredBaseline(d)[k] \in Nat /\ RestoreCounters(d)[k].bytes \in Nat
         /\ RestoredBaseline(d)[k] <= RestoreCounters(d)[k].bytes
<1>1. d[k].part \in [Revisions -> 0..MaxCounter]
  BY DEF DurableCounter
<1>2. d[k].part[1] \in 0..MaxCounter /\ d[k].part[2] \in 0..MaxCounter
  BY <1>1 DEF Revisions
<1> QED
  BY <1>2, UsageAssumption, SMT DEF RestoredBaseline, RestoreCounters, SaturatingAdd, Larger

-----------------------------------------------------------------------------
(* NeverOverBilled *)

ReportsBounded(rs) == \A r \in rs : r.bytes <= recorded[r.id]
CountersBounded(c) == \A k \in Ids : c[k].bytes <= recorded[k]

Accounting ==
  /\ NeverOverBilled
  /\ CountersBounded(counters)
  /\ CountersBounded(RestoreCounters(snap))
  /\ CountersBounded(RestoreCounters(disk.counters))
  /\ ReportsBounded(Reports(queue))
  /\ ReportsBounded(Reports(disk.queue))
  /\ ReportsBounded(sent)

\* Restoring what Snapshot wrote gives back the same bytes as counter and as
\* baseline; the partition sum only matters for legacy stores.
LEMMA StoreRoundTrip ==
  ASSUME NEW c \in [Ids -> Counter], NEW k \in Ids
  PROVE  /\ RestoreCounters(Durable(c))[k].bytes = c[k].bytes
         /\ RestoredBaseline(Durable(c))[k] = c[k].bytes
<1>1. c[k].bytes \in 0..MaxCounter /\ c[k].rev \in {1, 2}
  BY DEF Counter, Revisions
<1>2. /\ Durable(c)[k].part[1] = IF c[k].rev = 1 THEN c[k].bytes ELSE 0
      /\ Durable(c)[k].part[2] = IF c[k].rev = 2 THEN c[k].bytes ELSE 0
  BY DEF Durable, Revisions
<1> QED
  BY <1>1, <1>2, UsageAssumption, SMT DEF RestoreCounters, RestoredBaseline, SaturatingAdd, Larger

\* A store without counters restores none.
LEMMA NoDurableRestores ==
  ASSUME NEW k \in Ids
  PROVE  /\ RestoreCounters(NoDurable)[k].bytes = 0
         /\ RestoredBaseline(NoDurable)[k] = 0
  BY UsageAssumption, SMT
     DEF RestoreCounters, RestoredBaseline, NoDurable, NoPartition, Revisions, SaturatingAdd, Larger

\* A legacy queue holds one report per revision still pending.
LEMMA LegacyPending ==
  ASSUME NEW k, NEW part, NEW pending \in SUBSET Revisions
  PROVE  Reports(LegacyQueue(k, part, pending)) = {LegacyReport(k, part, v) : v \in pending}
<1> DEFINE q == LegacyQueue(k, part, pending)
<1>1. CASE pending = Revisions
  <2>1. q = <<LegacyReport(k, part, 1), LegacyReport(k, part, 2)>>
    BY <1>1 DEF LegacyQueue
  <2>2. DOMAIN q = {1, 2} /\ q[1] = LegacyReport(k, part, 1) /\ q[2] = LegacyReport(k, part, 2)
    BY <2>1, SMT
  <2> HIDE DEF q
  <2>3. Reports(q) = {LegacyReport(k, part, 1), LegacyReport(k, part, 2)}
    BY <2>2 DEF Reports
  <2>4. {LegacyReport(k, part, v) : v \in pending} = {LegacyReport(k, part, 1), LegacyReport(k, part, 2)}
    BY <1>1 DEF Revisions
  <2> QED
    BY <2>3, <2>4 DEF q
<1>2. CASE pending = {}
  <2>1. q = <<>>
    BY <1>2 DEF LegacyQueue, Revisions
  <2> QED
    BY <1>2, <2>1, SMT DEF Reports
<1>3. CASE pending # Revisions /\ pending # {}
  <2> DEFINE v == CHOOSE r \in pending : TRUE
  <2>1. v \in pending /\ pending = {v}
    BY <1>3 DEF Revisions
  <2>2. q = <<LegacyReport(k, part, v)>>
    BY <1>3 DEF LegacyQueue
  <2>3. DOMAIN q = {1} /\ q[1] = LegacyReport(k, part, v)
    BY <2>2, SMT
  <2> HIDE DEF q, v
  <2>4. Reports(q) = {LegacyReport(k, part, v)}
    BY <2>3, SMT DEF Reports
  <2> QED
    BY <2>1, <2>4 DEF q
<1> QED
  BY <1>1, <1>2, <1>3

\* A fresh or a legacy store claims no more than was recorded.
LEMMA InitAccounting == Init => Accounting
<1> SUFFICES ASSUME Init PROVE Accounting
  OBVIOUS
<1>0. TypeOK
  BY InitTypeOK
<1>1. /\ Reports(queue) = {} /\ sent = {}
      /\ \A k \in Ids : counters[k].bytes = 0
      /\ \A k \in Ids : RestoreCounters(snap)[k].bytes = 0
  BY NoDurableRestores, SMT DEF Init, Reports, NoCounter
<1>2. \A k \in Ids : recorded[k] \in Nat
  BY <1>0 DEF TypeOK
<1>3. CASE InitFresh
  <2>1. /\ Reports(disk.queue) = {}
        /\ \A k \in Ids : RestoreCounters(disk.counters)[k].bytes = 0
    BY <1>3, NoDurableRestores, SMT DEF InitFresh, Reports
  <2>2. NeverOverBilled
    BY <1>3, SMT DEF InitFresh, InitServer, NeverOverBilled
  <2> QED
    BY <1>1, <1>2, <2>1, <2>2, SMT DEF Accounting, CountersBounded, ReportsBounded
<1>4. CASE InitLegacy
  <2>1. PICK f \in Flows, part \in [Revisions -> 1..MaxCounter], pending \in SUBSET Revisions :
          LET k == [flow |-> f, epoch |-> 0, window |-> 0]
              total == part[1] + part[2]
              only(v) == [j \in Ids |-> IF j = k THEN v ELSE 0]
          IN /\ disk = [counters |-> [NoDurable EXCEPT ![k] = [part |-> part, at |-> 0]],
                        queue |-> LegacyQueue(k, part, pending)]
             /\ InitServer(only(LegacyAcked(part, pending)),
                           {OperationID(LegacyReport(k, part, r)) : r \in Revisions \ pending})
             /\ recorded = only(total)
             /\ flushed = only(Capped(total))
    BY <1>4, Zenon DEF InitLegacy
  <2> DEFINE k == [flow |-> f, epoch |-> 0, window |-> 0]
  <2>2. k \in Ids
    BY UsageAssumption, SMT DEF Ids
  <2>3. part[1] \in 1..MaxCounter /\ part[2] \in 1..MaxCounter
    BY DEF Revisions
  <2>4. LegacyAcked(part, pending) \in Nat /\ LegacyAcked(part, pending) <= part[1] + part[2]
    <3>1. ASSUME pending # Revisions PROVE (CHOOSE r \in Revisions : r \notin pending) \in {1, 2}
      BY <3>1 DEF Revisions
    <3>2. \A v \in {1, 2} : part[v] \in Nat /\ part[v] <= part[1] + part[2]
      BY <2>3, UsageAssumption, SMT
    <3>3. \/ LegacyAcked(part, pending) = 0
          \/ \E v \in {1, 2} : LegacyAcked(part, pending) = part[v]
      BY <3>1, Zenon DEF LegacyAcked, Larger
    <3> QED
      BY <3>2, <3>3, SMT
  <2>5. NeverOverBilled
    BY <2>1, <2>2, <2>4, SMT DEF InitServer, NeverOverBilled
  <2>6. CountersBounded(RestoreCounters(disk.counters))
    <3>1. ASSUME NEW j \in Ids PROVE RestoreCounters(disk.counters)[j].bytes <= recorded[j]
      <4>1. CASE j = k
        <5>1. disk.counters[j].part = part /\ recorded[j] = part[1] + part[2]
          BY <2>1, <2>2, <4>1 DEF NoDurable
        <5>2. part[1] \in 0..MaxCounter /\ part[2] \in Nat
          BY <2>3, UsageAssumption, SMT
        <5>3. SaturatingAdd(part[1], part[2]) <= part[1] + part[2]
          BY <5>2, SaturatingAddType, Zenon
        <5> QED
          BY <5>1, <5>3 DEF RestoreCounters
      <4>2. CASE j # k
        <5>1. disk.counters[j] = NoDurable[j]
          BY <2>1, <4>2 DEF NoDurable
        <5> QED
          BY <1>2, <5>1, NoDurableRestores, SMT DEF RestoreCounters
      <4> QED
        BY <4>1, <4>2
    <3> QED
      BY <3>1 DEF CountersBounded
  <2>7. ReportsBounded(Reports(disk.queue))
    <3>1. \A r \in Reports(LegacyQueue(k, part, pending)) :
            \E v \in Revisions : r = LegacyReport(k, part, v)
      BY LegacyPending, SMT
    <3>2. \A v \in Revisions : /\ LegacyReport(k, part, v).id = k
                               /\ LegacyReport(k, part, v).bytes <= part[1] + part[2]
      BY <2>3, UsageAssumption, SMT DEF LegacyReport, Revisions
    <3> QED
      BY <2>1, <2>2, <3>1, <3>2 DEF ReportsBounded
  <2> QED
    BY <1>1, <1>2, <2>5, <2>6, <2>7, SMT DEF Accounting, CountersBounded, ReportsBounded
<1> QED
  BY <1>3, <1>4 DEF Init

\* Losing the memory leaves nothing to claim.
LEMMA LoseMemoryEmpty ==
  ASSUME LoseMemory
  PROVE  /\ Reports(queue') = {}
         /\ \A k \in Ids : counters'[k].bytes = 0 /\ last'[k] = 0
         /\ \A k \in Ids : RestoreCounters(snap')[k].bytes = 0
  BY NoDurableRestores, SMT DEF LoseMemory, Reports, NoCounter

\* No step makes the edge or the server claim bytes nobody recorded.
LEMMA NextAccounting == TypeOK /\ TypeOK' /\ Accounting /\ [Next]_vars => Accounting'
<1> SUFFICES ASSUME TypeOK, TypeOK', Accounting, [Next]_vars PROVE Accounting'
  OBVIOUS
<1>a. /\ \A k \in Ids : recorded[k] \in Nat /\ recorded'[k] \in Nat
      /\ counters \in [Ids -> Counter] /\ queue \in Seq(Report)
      /\ recorded \in [Ids -> Nat]
  BY DEF TypeOK
<1>b. CountersBounded(RestoreCounters(Durable(counters)))
  BY <1>a, StoreRoundTrip DEF Accounting, CountersBounded
<1>c. CountersBounded(RestoreCounters(NoDurable))
  BY <1>a, NoDurableRestores, SMT DEF CountersBounded
<1>1. CASE Start
  BY <1>1 DEF Start, Accounting, CountersBounded, ReportsBounded, NeverOverBilled, server, history
<1>2. ASSUME LoseMemory, UNCHANGED <<sent, server, history>>,
             disk' = disk \/ disk' = [counters |-> Durable(counters), queue |-> queue]
      PROVE  Accounting'
  BY <1>2, <1>a, <1>b, LoseMemoryEmpty, SMT
     DEF Accounting, CountersBounded, ReportsBounded, NeverOverBilled, server, history
<1>3. CASE Crash \/ FinalSave
  BY <1>2, <1>3 DEF Crash, FinalSave, SaveFails, SnapshotState
<1>4. CASE BeginStop \/ DrainUsage \/ Tick \/ WorkerTick
  BY <1>4 DEF BeginStop, DrainUsage, Tick, WorkerTick,
     Accounting, CountersBounded, ReportsBounded, NeverOverBilled, memory, server, history
<1>5. ASSUME NEW f \in Flows, NEW rev \in LiveRevisions, Record(f, rev)
      PROVE  Accounting'
  <2> DEFINE k == CounterID(f)
  <2>0. counters \in [Ids -> Counter]
    BY Zenon DEF TypeOK
  <2>1. k \in Ids /\ Kept(k) \in [Ids -> Counter]
    BY <2>0, IdentityTypes, EmptyTypes DEF Kept
  <2>2. \A j \in Ids : recorded'[j] >= recorded[j]
    <3>1. recorded' = [recorded EXCEPT ![k] = recorded[k] + 1] \/ recorded' = recorded
      BY <1>5, Zenon DEF Record
    <3> QED
      BY <2>1, <3>1, <1>a, SMTT(60)
  <2>3. \A j \in Ids : Kept(k)[j].bytes <= recorded[j] /\ Kept(k)[j].bytes \in 0..MaxCounter
    BY <2>1, <1>a, SMT DEF Kept, NoCounter, Accounting, CountersBounded, Counter
  <2>4. CountersBounded(counters)'
    <3>1. CASE CanAdd(Kept(k), k)
      <4>1. /\ counters' = [Kept(k) EXCEPT ![k] = Updated(Kept(k)[k], rev, 1)]
            /\ recorded' = [recorded EXCEPT ![k] = recorded[k] + 1]
        BY <1>5, <3>1 DEF Record
      <4>2. Updated(Kept(k)[k], rev, 1).bytes <= Kept(k)[k].bytes + 1
        BY <2>1, <2>3, SaturatingAddType DEF Updated
      <4>3. counters'[k].bytes <= recorded'[k]
        <5>1. counters'[k] = Updated(Kept(k)[k], rev, 1) /\ recorded'[k] = recorded[k] + 1
          BY <2>1, <4>1, <1>a
        <5>2. /\ Kept(k)[k].bytes \in Nat /\ Kept(k)[k].bytes <= recorded[k]
              /\ counters'[k].bytes \in Nat
          BY <2>1, <2>3, UsageAssumption, SMT DEF TypeOK, Counter
        <5> QED
          BY <2>1, <4>2, <5>1, <5>2, <1>a, SMT
      <4>4. \A j \in Ids \ {k} : counters'[j] = Kept(k)[j] /\ recorded'[j] = recorded[j]
        BY <2>1, <4>1, <1>a
      <4> QED
        BY <2>3, <4>3, <4>4 DEF CountersBounded
    <3>2. CASE ~CanAdd(Kept(k), k)
      BY <1>5, <2>3, <3>2, ZenonT(60) DEF Record, CountersBounded
    <3> QED
      BY <3>1, <3>2
  <2>5. /\ CountersBounded(RestoreCounters(snap))'
        /\ CountersBounded(RestoreCounters(disk.counters))'
    <3>1. /\ \A j \in Ids : RestoreCounters(snap)[j].bytes \in Nat
          /\ \A j \in Ids : RestoreCounters(disk.counters)[j].bytes \in Nat
      <4>1. /\ RestoreCounters(snap) \in [Ids -> Counter]
            /\ RestoreCounters(disk.counters) \in [Ids -> Counter]
        BY StoreTypes, Zenon DEF TypeOK
      <4>2. \A c \in Counter : c.bytes \in Nat
        BY UsageAssumption, SMTT(60) DEF Counter
      <4> QED
        BY <4>1, <4>2
    <3> QED
      BY <1>5, <1>a, <2>2, <3>1, SMT DEF Record, Accounting, CountersBounded
  <2>6. /\ ReportsBounded(Reports(queue))' /\ ReportsBounded(Reports(disk.queue))'
        /\ ReportsBounded(sent)'
    <3>1. /\ Reports(queue) \subseteq Report /\ Reports(disk.queue) \subseteq Report
          /\ sent \subseteq Report
      BY ElementOfSeq, LenProperties, SMT DEF Reports, TypeOK
    <3>2. \A r \in Report : r.id \in Ids /\ r.bytes \in Nat
      BY UsageAssumption, SMTT(60) DEF Report
    <3> QED
      BY <1>5, <1>a, <2>2, <3>1, <3>2, SMTT(60) DEF Record, Accounting, ReportsBounded
  <2>7. NeverOverBilled'
    <3>1. \A j \in Ids : srv[j] \in Nat
      BY UsageAssumption, SMT DEF TypeOK
    <3> QED
      BY <1>5, <1>a, <2>2, <3>1, SMT DEF Record, Accounting, NeverOverBilled, server
  <2> QED
    BY <2>4, <2>5, <2>6, <2>7 DEF Accounting
<1>6. CASE FlushFull \/ FlushSaveFail
  <2>0. disk' = disk \/ disk' = [counters |-> Durable(counters), queue |-> queue]
    BY <1>6 DEF FlushFull, FlushSaveFail, SaveFails, SnapshotState
  <2>1. CASE proc = "starting"
    BY <1>2, <1>6, <2>0, <2>1 DEF FlushFull, FlushSaveFail, FlushAborted
  <2>2. CASE proc # "starting"
    BY <1>6, <1>b, <2>0, <2>2, SMT DEF FlushFull, FlushSaveFail, FlushAborted,
       Accounting, CountersBounded, ReportsBounded, NeverOverBilled, memory, server, history
  <2> QED
    BY <2>1, <2>2
<1>7. CASE FlushSave
  BY <1>7, <1>b, Zenon DEF FlushSave, SnapshotState,
     Accounting, CountersBounded, ReportsBounded, NeverOverBilled, memory, server
<1>8. CASE DeliverNext
  <2>1. queue # <<>> => Head(queue) \in Reports(queue)
    BY <1>a, HeadIsPending, ZenonT(60)
  <2>2. ReportsBounded(sent)'
    BY <1>8, <2>1, SMT DEF DeliverNext, Accounting, ReportsBounded, history
  <2> QED
    BY <1>8, <2>2, Zenon DEF DeliverNext,
       Accounting, CountersBounded, ReportsBounded, NeverOverBilled, server, history
<1>9. ASSUME NEW k \in Ids, FlushOne(k)
      PROVE  Accounting'
  <2>1. ReportOf(k) \in Report /\ ReportOf(k).id = k /\ ReportOf(k).bytes = counters[k].bytes
    BY <1>9, IdentityTypes DEF FlushOne, ReportOf
  <2>2. Reports(queue') \subseteq Reports(queue) \cup {ReportOf(k)}
    BY <1>9, <1>a, <2>1, EnqueueLatestEffect DEF FlushOne
  <2>3. ReportsBounded(Reports(queue))'
    BY <1>9, <2>1, <2>2 DEF FlushOne, Accounting, CountersBounded, ReportsBounded, history
  <2> QED
    BY <1>9, <2>3, Zenon DEF FlushOne,
       Accounting, CountersBounded, ReportsBounded, NeverOverBilled, server, history
<1>10. CASE ReportFail
  BY <1>10 DEF ReportFail, Accounting, CountersBounded, ReportsBounded, NeverOverBilled, server, history
<1>11. CASE ReportAccepted
  <2>1. Reports(queue') \subseteq Reports(queue)
    BY <1>11, <1>a, AckEffect DEF ReportAccepted
  <2> QED
    BY <1>11, <2>1 DEF ReportAccepted,
       Accounting, CountersBounded, ReportsBounded, NeverOverBilled, server, history
<1>12. CASE SnapshotCounters
  BY <1>12, <1>b, Zenon DEF SnapshotCounters,
     Accounting, CountersBounded, ReportsBounded, NeverOverBilled, server, history
<1>13. CASE SaveSnapshot
  BY <1>13, <1>c, SMT DEF SaveSnapshot, SaveFails,
     Accounting, CountersBounded, ReportsBounded, NeverOverBilled, server, history
<1>14. ASSUME NEW r \in sent, ReconcileUsage(r)
       PROVE  Accounting'
  <2>0. /\ srv \in [Ids -> 0..MaxCounter] /\ billed \in [Ids -> Nat] /\ expired \in [Ids -> Nat]
        /\ r \in Report /\ r.bytes <= recorded[r.id]
        /\ \A k \in Ids : billed[k] + expired[k] = srv[k] /\ srv[k] <= recorded[k]
    BY DEF TypeOK, Accounting, ReportsBounded, NeverOverBilled
  <2>1. /\ r.id \in Ids /\ r.bytes \in Nat
        /\ \A k \in Ids : srv[k] \in Nat /\ billed[k] \in Nat /\ expired[k] \in Nat
    BY <2>0, UsageAssumption, SMT DEF Report
  <2>2. srv' = [srv EXCEPT ![r.id] = srv[r.id] + Delta(r)] /\ Delta(r) \in Nat
        /\ srv[r.id] + Delta(r) <= recorded[r.id]
    <3>1. srv' = [srv EXCEPT ![r.id] = Larger(srv[r.id], r.bytes)]
      BY <1>14, Zenon DEF ReconcileUsage
    <3>2. PICK x, y, z \in Nat : x = srv[r.id] /\ y = r.bytes /\ z = recorded[r.id]
      BY <1>a, <2>1, Zenon
    <3>3. /\ Larger(srv[r.id], r.bytes) = srv[r.id] + Delta(r) /\ Delta(r) \in Nat
          /\ srv[r.id] + Delta(r) <= recorded[r.id]
      <4>1. x <= z /\ y <= z
        BY <2>0, <2>1, <3>2
      <4> QED
        BY <3>2, <4>1, SMT DEF Delta, Larger
    <3> QED
      BY <3>1, <3>3
  <2>3. \/ billed' = [billed EXCEPT ![r.id] = billed[r.id] + Delta(r)] /\ expired' = expired
        \/ expired' = [expired EXCEPT ![r.id] = expired[r.id] + Delta(r)] /\ billed' = billed
    BY <1>14, Zenon DEF ReconcileUsage
  <2>4. ASSUME NEW k \in Ids
        PROVE  billed'[k] + expired'[k] = srv'[k] /\ srv'[k] <= recorded[k]
    <3>1. CASE k = r.id
      <4>1. srv'[k] = srv[k] + Delta(r) /\ billed'[k] + expired'[k] = billed[k] + expired[k] + Delta(r)
        BY <2>0, <2>1, <2>2, <2>3, <3>1, SMT
      <4> QED
        BY <2>0, <2>1, <2>2, <3>1, <4>1
    <3>2. CASE k # r.id
      BY <2>0, <2>1, <2>2, <2>3, <3>2
    <3> QED
      BY <3>1, <3>2
  <2>5. NeverOverBilled'
    BY <1>14, <2>4, Zenon DEF ReconcileUsage, NeverOverBilled, history
  <2> QED
    BY <1>14, <2>5, Zenon DEF ReconcileUsage, Accounting, CountersBounded, ReportsBounded, memory, history
<1>15. CASE UNCHANGED vars
  BY <1>15 DEF vars, Accounting, CountersBounded, ReportsBounded, NeverOverBilled, memory, server, history
<1> QED
  BY <1>1, <1>3, <1>4, <1>5, <1>6, <1>7, <1>8, <1>9, <1>10, <1>11, <1>12, <1>13, <1>14, <1>15
     DEF Next

\* For every crash, loss, repetition and reordering: the control plane charges
\* an identity exactly the largest absolute it saw, never more than streams
\* recorded on the edge.
THEOREM NeverOverBilledHolds == Spec => []NeverOverBilled
<1>1. Init => TypeOK /\ Accounting
  BY InitTypeOK, InitAccounting
<1>2. TypeOK /\ Accounting /\ [Next]_vars => (TypeOK /\ Accounting)'
  BY NextTypeOK, NextAccounting
<1>3. Accounting => NeverOverBilled
  BY DEF Accounting
<1> QED
  BY <1>1, <1>2, <1>3, PTL DEF Spec

-----------------------------------------------------------------------------
(* MeetsLedger *)

\* A Flush persists no more than the saturated total that was recorded.
SecuredPassed == \A k \in Ids : flushed[k] <= Capped(recorded[k])

\* Accounts and counters, as numbers.
LEMMA AccountNumbers ==
  ASSUME TypeOK, NEW k \in Ids
  PROVE  /\ recorded[k] \in Nat /\ flushed[k] \in Nat /\ billed[k] \in Nat /\ expired[k] \in Nat
         /\ srv[k] \in Nat /\ srv[k] <= MaxCounter /\ MaxCounter \in Nat
         /\ counters[k].bytes \in Nat /\ counters[k].bytes <= MaxCounter
         /\ Capped(recorded[k]) \in Nat
<1>1. /\ recorded[k] \in Nat /\ flushed[k] \in 0..MaxCounter /\ billed[k] \in Nat
      /\ expired[k] \in Nat /\ srv[k] \in 0..MaxCounter /\ counters[k] \in Counter
  BY DEF TypeOK
<1>2. counters[k].bytes \in 0..MaxCounter
  BY <1>1 DEF Counter
<1> QED
  BY <1>1, <1>2, UsageAssumption, SMT DEF Capped

\* A fresh account is empty; a legacy store persisted its saturated total.
LEMMA InitLedger == Init => SecuredPassed /\ Ledger!Init
<1> SUFFICES ASSUME Init PROVE SecuredPassed /\ Ledger!Init
  OBVIOUS
<1>a. TypeOK /\ NeverOverBilled
  BY InitTypeOK, InitAccounting DEF Accounting
<1>1. SecuredPassed
  <2>1. CASE InitFresh
    <3>1. \A k \in Ids : flushed[k] = 0 /\ recorded[k] = 0
      BY <2>1 DEF InitFresh
    <3> QED
      BY <3>1, UsageAssumption, SMT DEF SecuredPassed, Capped
  <2>2. CASE InitLegacy
    <3>1. PICK k \in Ids, total \in Nat :
            /\ recorded = [j \in Ids |-> IF j = k THEN total ELSE 0]
            /\ flushed = [j \in Ids |-> IF j = k THEN Capped(total) ELSE 0]
      <4>1. PICK f \in Flows, part \in [Revisions -> 1..MaxCounter] :
              LET k == [flow |-> f, epoch |-> 0, window |-> 0]
                  total == part[1] + part[2]
              IN /\ recorded = [j \in Ids |-> IF j = k THEN total ELSE 0]
                 /\ flushed = [j \in Ids |-> IF j = k THEN Capped(total) ELSE 0]
        BY <2>2, Zenon DEF InitLegacy
      <4>2. part[1] + part[2] \in Nat
        BY UsageAssumption, SMT DEF Revisions
      <4>3. [flow |-> f, epoch |-> 0, window |-> 0] \in Ids
        BY UsageAssumption, SMT DEF Ids
      <4> QED
        BY <4>1, <4>2, <4>3, Zenon
    <3>2. \A j \in Ids : flushed[j] = Capped(recorded[j]) \/ (flushed[j] = 0 /\ recorded[j] = 0)
      BY <3>1, Zenon
    <3> QED
      BY <1>a, <3>2, AccountNumbers, UsageAssumption, SMT DEF SecuredPassed, Capped
  <2> QED
    BY <2>1, <2>2 DEF Init
<1>2. /\ recorded \in [Ids -> Nat] /\ flushed \in [Ids -> Nat]
      /\ billed \in [Ids -> Nat] /\ expired \in [Ids -> Nat]
  <2>1. flushed \in [Ids -> 0..MaxCounter] /\ 0..MaxCounter \subseteq Nat
    BY <1>a, UsageAssumption, SMT DEF TypeOK
  <2> QED
    BY <1>a, <2>1 DEF TypeOK
<1>3. \A k \in Ids : flushed[k] <= Ledger!Chargeable(k)
  BY <1>1 DEF SecuredPassed, Capped, Ledger!Chargeable
<1>4. \A k \in Ids : billed[k] + expired[k] <= Ledger!Chargeable(k)
  BY <1>a, AccountNumbers, SMT DEF NeverOverBilled, Ledger!Chargeable
<1> QED
  BY <1>1, <1>2, <1>3, <1>4 DEF Ledger!Init

\* A step of the pipeline is a step of the ledger or leaves the accounts alone.
LEMMA NextLedger ==
  ASSUME TypeOK, TypeOK', Accounting, SecuredPassed, [Next]_vars
  PROVE  SecuredPassed' /\ [Ledger!Next]_(Ledger!vars)
<1> DEFINE Same == UNCHANGED <<recorded, flushed, billed, expired>>
<1>1. Same => SecuredPassed' /\ [Ledger!Next]_(Ledger!vars)
  BY DEF SecuredPassed, Ledger!vars
<1>2. CASE \/ Start \/ Crash \/ BeginStop \/ DrainUsage \/ FinalSave \/ Tick \/ WorkerTick
           \/ FlushFull \/ FlushSaveFail \/ DeliverNext \/ ReportFail \/ ReportAccepted
           \/ SnapshotCounters \/ SaveSnapshot \/ UNCHANGED vars \/ \E k \in Ids : FlushOne(k)
  <2>1. Same
    BY <1>2 DEF Start, Crash, BeginStop, DrainUsage, FinalSave, Tick, WorkerTick, FlushFull,
       FlushSaveFail, DeliverNext, ReportFail, ReportAccepted, SnapshotCounters, SaveSnapshot,
       FlushOne, server, history, vars
  <2> QED
    BY <1>1, <2>1, Zenon
<1>3. ASSUME NEW f \in Flows, NEW rev \in LiveRevisions, Record(f, rev)
      PROVE  SecuredPassed' /\ [Ledger!Next]_(Ledger!vars)
  <2> DEFINE k == CounterID(f)
  <2>1. k \in Ids /\ recorded \in [Ids -> Nat] /\ UNCHANGED <<flushed, billed, expired>>
    BY <1>3, IdentityTypes, Zenon DEF Record, TypeOK, server
  <2>2. CASE recorded' = recorded
    BY <1>1, <2>1, <2>2
  <2>3. CASE recorded' = [recorded EXCEPT ![k] = recorded[k] + 1]
    <3>1. \A j \in Ids : recorded'[j] \in Nat /\ recorded[j] <= recorded'[j]
      BY <2>1, <2>3, SMT
    <3>2. SecuredPassed'
      BY <2>1, <3>1, AccountNumbers, SMT DEF SecuredPassed, Capped
    <3>3. Ledger!Pass(k)
      BY <2>1, <2>3 DEF Ledger!Pass
    <3> QED
      BY <2>1, <3>2, <3>3 DEF Ledger!Next
  <2> QED
    BY <1>3, <2>2, <2>3, Zenon DEF Record
<1>4. CASE FlushSave
  <2>1. /\ UNCHANGED <<recorded, billed, expired>>
        /\ flushed' = [k \in Ids |-> IF k.epoch = epoch THEN Larger(flushed[k], counters[k].bytes)
                                                        ELSE flushed[k]]
    BY <1>4, Zenon DEF FlushSave, server
  <2>2. \A k \in Ids : counters[k].bytes <= recorded[k]
    BY DEF Accounting, CountersBounded
  <2>3. ASSUME NEW k \in Ids
        PROVE  flushed[k] <= flushed'[k] /\ flushed'[k] <= Capped(recorded[k])
    <3>1. flushed'[k] = Larger(flushed[k], counters[k].bytes) \/ flushed'[k] = flushed[k]
      BY <2>1, Zenon
    <3>2. flushed[k] <= Capped(recorded[k])
      BY DEF SecuredPassed
    <3> QED
      BY <2>2, <3>1, <3>2, AccountNumbers, SMT DEF Larger, Capped
  <2>4. SecuredPassed'
    BY <2>1, <2>3 DEF SecuredPassed
  <2>5. flushed' \in [Ids -> 0..MaxCounter]
    BY DEF TypeOK
  <2>6. \A k \in Ids : flushed'[k] <= Ledger!Chargeable(k)
    BY <2>3 DEF Capped, Ledger!Chargeable
  <2>7. Ledger!Secure
    BY <2>1, <2>3, <2>5, <2>6 DEF Ledger!Secure
  <2> QED
    BY <2>4, <2>7 DEF Ledger!Next
<1>5. ASSUME NEW r \in sent, ReconcileUsage(r)
      PROVE  SecuredPassed' /\ [Ledger!Next]_(Ledger!vars)
  <2>1. /\ r \in Report /\ r.bytes <= recorded[r.id] /\ UNCHANGED <<recorded, flushed>>
        /\ billed[r.id] + expired[r.id] = srv[r.id] /\ srv[r.id] <= recorded[r.id]
        /\ r.id \in Ids /\ r.bytes \in 1..MaxCounter
    <3>1. r \in Report /\ r.bytes <= recorded[r.id]
      BY DEF TypeOK, Accounting, ReportsBounded
    <3>2. r.id \in Ids /\ r.bytes \in 1..MaxCounter
      BY <3>1 DEF Report
    <3> QED
      BY <1>5, <3>1, <3>2, Zenon DEF ReconcileUsage, Accounting, NeverOverBilled, history
  <2>2. SecuredPassed'
    BY <2>1 DEF SecuredPassed
  <2>3. /\ billed \in [Ids -> Nat] /\ expired \in [Ids -> Nat]
        /\ \/ billed' = [billed EXCEPT ![r.id] = billed[r.id] + Delta(r)] /\ expired' = expired
           \/ expired' = [expired EXCEPT ![r.id] = expired[r.id] + Delta(r)] /\ billed' = billed
    BY <1>5, Zenon DEF ReconcileUsage, TypeOK
  <2>4. CASE r.bytes > srv[r.id]
    <3>1. /\ Delta(r) \in 1..MaxCounter
          /\ billed[r.id] + expired[r.id] + Delta(r) = r.bytes
          /\ r.bytes <= Ledger!Chargeable(r.id)
      BY <2>1, <2>4, AccountNumbers, SMT DEF Delta, Ledger!Chargeable
    <3>2. Ledger!Uncharged(r.id, Delta(r))
      BY <3>1 DEF Ledger!Uncharged
    <3>3. Ledger!Bill(r.id, Delta(r)) \/ Ledger!Expire(r.id, Delta(r))
      BY <2>1, <2>3, <3>2 DEF Ledger!Bill, Ledger!Expire
    <3> QED
      BY <2>1, <2>2, <3>1, <3>3 DEF Ledger!Next
  <2>5. CASE ~(r.bytes > srv[r.id])
    <3>1. Delta(r) = 0
      BY <2>5 DEF Delta
    <3>2. billed' = billed /\ expired' = expired
      BY <2>1, <2>3, <3>1, SMT
    <3> QED
      BY <1>1, <2>1, <3>2
  <2> QED
    BY <2>4, <2>5
<1> QED
  BY <1>2, <1>3, <1>4, <1>5 DEF Next

\* Edge metering, delivery and reconciliation implement the ledger: whatever
\* crashes, is lost, repeated or reordered, each step passes one byte, secures
\* or charges bytes that passed and were not charged before, or is invisible
\* in the accounts.
THEOREM MeetsLedgerHolds == Spec => MeetsLedger
<1>1. Init => TypeOK /\ Accounting /\ SecuredPassed
  BY InitTypeOK, InitAccounting, InitLedger
<1>2. Init => Ledger!Init
  BY InitLedger
<1>3. TypeOK /\ Accounting /\ SecuredPassed /\ [Next]_vars
      => (TypeOK /\ Accounting /\ SecuredPassed)' /\ [Ledger!Next]_(Ledger!vars)
  BY NextTypeOK, NextAccounting, NextLedger
<1> QED
  BY <1>1, <1>2, <1>3, PTL DEF Spec, MeetsLedger, Ledger!Spec
=============================================================================
