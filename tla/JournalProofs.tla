---------------------------- MODULE JournalProofs ----------------------------
(***************************************************************************)
(* What the operation journal guarantees, for any number of operations,    *)
(* requests, waiters and runs, any table size and any retention: its       *)
(* inductive invariant, how each kind of step keeps the conjuncts about    *)
(* runs, rows and outcomes, and that it implements OncePerRetention.       *)
(***************************************************************************)
EXTENDS OperationJournal, FiniteSetTheorems, TLAPS

\* Most leaves are first-order: Zenon is the default, and a leaf with arithmetic names SMT.
USE Zenon

Known == 1..Len(runs)

\* An entry and a row of an operation are its latest run, an operation that
\* runs has an entry, and entry and row agree when both exist.
Identity ==
  /\ \A o \in Ops : mem[o] # 0 => runs[mem[o]].op = o
  /\ \A o \in Ops : db[o].run # 0 => runs[db[o].run].op = o
  /\ \A r \in Known : runs[r].stage \in Running => mem[runs[r].op] = r
  /\ \A o \in Ops : mem[o] # 0 /\ db[o].run # 0 => mem[o] = db[o].run
  /\ \A r \in Known : mem[runs[r].op] # 0 => r <= mem[runs[r].op]
  /\ \A r \in Known : db[runs[r].op].run # 0 => r <= db[runs[r].op].run

\* A run that is not yet forgotten has its row, and a later run of the same
\* operation began after it was forgotten.
Remembered ==
  /\ \A r \in Known : until[r] <= now \/ (db[runs[r].op].run = r /\ until[r] <= db[runs[r].op].expires)
  /\ \A r, s \in Known : r < s /\ runs[r].op = runs[s].op => until[r] <= runs[s].at

\* An outcome in the table, in a row or with a client is one a handler made.
Outcomes ==
  /\ \A r \in Known : runs[r].stage \notin {"reserved", "uncertain"} => r \in performed
  /\ \A o \in Ops : db[o].state = "completed" => db[o].run \in performed
  /\ ReplyIsOwn

JournalInv == TypeOK /\ Identity /\ Remembered /\ Outcomes /\ JournalBounded

-----------------------------------------------------------------------------
(* What the steps have in common.                                          *)

\* A cleanup keeps a row as it is, or drops it once it has expired.
Kept(rows) ==
  /\ rows \in [Ops -> Row]
  /\ \A o \in Ops : rows[o] = db[o] \/ (rows[o] = NoRow /\ db[o].expires <= now)

\* A step that only moves runs through their stages.
SameRuns ==
  /\ runs' \in Seq(Run) /\ Len(runs') = Len(runs)
  /\ \A r \in Known : /\ runs'[r].op = runs[r].op
                       /\ runs'[r].hash = runs[r].hash
                       /\ runs'[r].at = runs[r].at

\* The periodic cleanup, due or not, and the cleanup of a restart.
LEMMA CleanupKeeps ==
  ASSUME TypeOK
  PROVE  Kept(db) /\ Kept(Swept) /\ Kept(CleanRows) /\ CleanTime \in Nat
<1>1. db \in [Ops -> Row] /\ now \in Nat /\ lastCleanup \in Nat
  BY DEF TypeOK
<1>2. NoRow \in Row
  BY DEF Row
<1>3. Kept(db)
  BY <1>1 DEF Kept
<1>4. Swept \in [Ops -> Row]
  BY <1>1, <1>2 DEF Swept
<1>5. Kept(Swept)
  BY <1>1, <1>4 DEF Kept, Swept, Expired
<1> QED
  BY <1>1, <1>3, <1>5 DEF CleanRows, CleanTime

\* A row is NoRow, or belongs to a run.
LEMMA RowFields ==
  ASSUME NEW row \in Row
  PROVE  /\ row.run \in 0..MaxRuns /\ row.expires \in Nat
         /\ row.run = 0 <=> row = NoRow
         /\ row.run # 0 => row.state \in {"pending", "completed"}
         /\ row.state # "none" => row.run # 0
         /\ row.run # 0 => row.run \in RunIds
  BY JournalAssumption, SMT DEF Row, NoRow, RunIds

\* A known run is a run of some operation.
LEMMA RunFields ==
  ASSUME TypeOK, NEW r \in Known
  PROVE  /\ runs[r].op \in Ops /\ runs[r].hash \in Hashes
         /\ runs[r].at \in Nat /\ runs[r].stage \in Stages
         /\ r \in RunIds
<1>1. runs \in Seq(Run) /\ Len(runs) <= MaxRuns
  BY DEF TypeOK
<1>2. runs[r] \in Run
  BY <1>1, SMT DEF Known
<1>3. r \in RunIds
  BY <1>1, JournalAssumption, SMT DEF Known, RunIds
<1> QED
  BY <1>2, <1>3 DEF Run

\* Moving one run to another stage.
LEMMA StageStep ==
  ASSUME TypeOK, NEW r \in Known, NEW st \in Stages,
         runs' = [runs EXCEPT ![r].stage = st]
  PROVE  /\ SameRuns
         /\ \A i \in Known : runs'[i].stage = IF i = r THEN st ELSE runs[i].stage
<1>1. runs \in Seq(Run) /\ Len(runs) \in Nat
  BY SMT DEF TypeOK
<1>2. runs[r] \in Run
  BY <1>1, SMT DEF Known
<1>3. [runs[r] EXCEPT !.stage = st] \in Run
  BY <1>2 DEF Run
<1>4. runs' = [runs EXCEPT ![r] = [runs[r] EXCEPT !.stage = st]]
  OBVIOUS
<1>5. runs' \in Seq(Run) /\ Len(runs') = Len(runs)
  BY <1>1, <1>3, <1>4, SMT DEF Known
<1>6. \A i \in Known : runs'[i] = IF i = r THEN [runs[r] EXCEPT !.stage = st] ELSE runs[i]
  BY <1>1, <1>4, SMT DEF Known
<1>7. runs'[r].op = runs[r].op /\ runs'[r].hash = runs[r].hash /\ runs'[r].at = runs[r].at /\ runs'[r].stage = st
  BY <1>2, <1>6, SMT DEF Run
<1> QED
  BY <1>5, <1>6, <1>7, SMT DEF SameRuns

\* Reserving adds a run after the known ones.
LEMMA NewRunStep ==
  ASSUME TypeOK, NEW o \in Ops, NEW h \in Hashes, NEW st \in Stages,
         NextRun \in RunIds, NewRun(o, h, st)
  PROVE  /\ runs' \in Seq(Run) /\ Len(runs') = NextRun
         /\ \A i \in Known : runs'[i] = runs[i]
         /\ runs'[NextRun] = [op |-> o, hash |-> h, at |-> now, stage |-> st]
         /\ until' \in [RunIds -> Nat]
         /\ \A i \in Known : until'[i] = until[i]
         /\ until'[NextRun] = now + Retention
<1>1. runs \in Seq(Run) /\ Len(runs) \in Nat /\ now \in Nat /\ until \in [RunIds -> Nat] /\ Len(runs) <= MaxRuns
  BY SMT DEF TypeOK
<1> DEFINE new == [op |-> o, hash |-> h, at |-> now, stage |-> st]
<1>2. new \in Run
  BY <1>1 DEF Run
<1>3. runs' = Append(runs, new)
  BY DEF NewRun
<1>4. runs' \in Seq(Run) /\ Len(runs') = Len(runs) + 1 /\ runs'[Len(runs) + 1] = new
  BY <1>1, <1>2, <1>3, SMT
<1>5. \A i \in Known : runs'[i] = runs[i]
  BY <1>1, <1>2, <1>3, SMT DEF Known
<1>6. now + Retention \in Nat
  BY <1>1, JournalAssumption, SMT
<1>7. until' = [until EXCEPT ![NextRun] = now + Retention]
  BY DEF NewRun
<1>8. \A i \in Known : i \in RunIds /\ i # NextRun
  BY <1>1, JournalAssumption, SMT DEF Known, RunIds, NextRun
<1> QED
  BY <1>1, <1>4, <1>5, <1>6, <1>7, <1>8 DEF NextRun

\* A restart knows a run by its row only.
LEMMA RestartStep ==
  ASSUME TypeOK, Restart
  PROVE  /\ SameRuns
         /\ \A r \in Known : runs'[r].stage = Recovered(r)
<1>1. runs \in Seq(Run) /\ Len(runs) \in Nat /\ DOMAIN runs = Known
  BY SMT DEF TypeOK, Known
<1>2. runs' = [r \in Known |-> [runs[r] EXCEPT !.stage = Recovered(r)]]
  BY <1>1 DEF Restart
<1>3. ASSUME NEW r \in Known
      PROVE  /\ runs'[r] \in Run
             /\ runs'[r].op = runs[r].op /\ runs'[r].hash = runs[r].hash /\ runs'[r].at = runs[r].at
             /\ runs'[r].stage = Recovered(r)
  <2>1. runs[r] \in Run
    BY <1>1, <1>3, SMT DEF Known
  <2>2. Recovered(r) \in Stages
    BY DEF Recovered, Stages
  <2> QED
    BY <1>2, <1>3, <2>1, <2>2 DEF Run
<1>4. runs' \in Seq(Run) /\ Len(runs') = Len(runs)
  <2>1. runs' \in [Known -> Run]
    BY <1>2, <1>3, Zenon
  <2> QED
    BY <1>1, <2>1, SMT DEF Known
<1> QED
  BY <1>3, <1>4 DEF SameRuns

\* Eviction takes a prefix of order.
LEMMA EvictedPrefix ==
  ASSUME TypeOK
  PROVE  /\ Evicted \in 0..Len(order)
         /\ EvictedOps \subseteq Ops
         /\ SubSeq(order, Evicted + 1, Len(order)) \in Seq(Ops)
         /\ Len(SubSeq(order, Evicted + 1, Len(order))) = Len(order) - Evicted
         /\ \A i \in 1..(Len(order) - Evicted) :
              SubSeq(order, Evicted + 1, Len(order))[i] = order[i + Evicted]
<1>1. order \in Seq(Ops) /\ Len(order) \in Nat
  BY SMT DEF TypeOK
<1>2. Cardinality(Entries) \in Nat
  BY JournalAssumption, FS_Subset, FS_CardinalityType DEF Entries
<1>3. Evicted \in 0..Len(order)
  BY <1>1, <1>2, JournalAssumption, SMT DEF Evicted
<1>4. EvictedOps \subseteq Ops
  BY <1>1, <1>3, SMT DEF EvictedOps
<1> HIDE DEF Evicted
<1> QED
  BY <1>1, <1>3, <1>4, SMT

\* The completed operations a restart finds, in order.
LEMMA OrdersAreSequences ==
  ASSUME NEW S \in SUBSET Ops, NEW s \in Orders(S)
  PROVE  /\ s \in Seq(Ops)
         /\ \A i \in 1..Len(s) : s[i] \in S /\ Swept[s[i]].state = "completed"
         /\ \A i, j \in 1..Len(s) : i # j => s[i] # s[j]
<1> DEFINE done == {o \in S : Swept[o].state = "completed"}
<1>1. Cardinality(done) \in Nat
  BY JournalAssumption, FS_Subset, FS_CardinalityType
<1>2. s \in [1..Cardinality(done) -> done] /\ \A i, j \in DOMAIN s : i # j => s[i] # s[j]
  BY DEF Orders
<1>3. DOMAIN s = 1..Cardinality(done)
  BY <1>2
<1> HIDE DEF done
<1>4. s \in Seq(done) /\ Len(s) = Cardinality(done)
  BY <1>1, <1>2, SMT
<1> QED
  BY <1>2, <1>3, <1>4, SMT DEF done

-----------------------------------------------------------------------------
(* Type correctness.                                                       *)

\* The initial state is well typed.
LEMMA InitTypeOK == Init => TypeOK
  BY JournalAssumption, SMT DEF Init, TypeOK, Row, NoRow, Reply, NoReply, RunIds, Run

\* An outcome that is handed out is a reply.
LEMMA AnswerIsReply ==
  ASSUME TypeOK, NEW r \in Known, NEW o \in Ops, NEW h \in Hashes
  PROVE  Answer(r, o, h) \in Reply /\ Answer(r, o, h).run = r
<1>1. r \in RunIds
  BY JournalAssumption, SMT DEF TypeOK, Known, RunIds
<1> QED
  BY <1>1 DEF Answer, Reply

\* A step that leaves the number of runs alone keeps the types if what it
\* changes is well typed.
LEMMA TypeSameLength ==
  ASSUME TypeOK, runs' \in Seq(Run), Len(runs') = Len(runs),
         now' \in Nat, lastCleanup' \in Nat,
         mem' \in [Ops -> 0..Len(runs)], order' \in Seq(Ops),
         db' \in [Ops -> Row], \A o \in Ops : db'[o].run <= Len(runs),
         waiting' \in [Waiters -> 0..Len(runs)], performed' \subseteq Known,
         until' \in [RunIds -> Nat],
         reply' \in Reply, reply'.run <= Len(runs)
  PROVE  TypeOK'
  BY Zenon DEF TypeOK, Known

\* A step that reserves keeps the types.
LEMMA TypeNewRun ==
  ASSUME TypeOK, NEW o \in Ops, NEW h \in Hashes, NEW st \in Stages,
         NextRun \in RunIds, NewRun(o, h, st),
         mem' \in [Ops -> 0..NextRun], order' \in Seq(Ops),
         db' = Reserved(o), lastCleanup' = CleanTime,
         UNCHANGED <<now, waiting, performed, reply>>
  PROVE  TypeOK'
<1>1. now \in Nat /\ Len(runs) \in Nat /\ NextRun = Len(runs) + 1 /\ NextRun <= MaxRuns
  BY JournalAssumption, SMT DEF TypeOK, NextRun, RunIds
<1>2. /\ runs' \in Seq(Run) /\ Len(runs') = NextRun
      /\ until' \in [RunIds -> Nat]
  BY NewRunStep, Zenon
<1>3. Kept(CleanRows) /\ CleanTime \in Nat
  BY CleanupKeeps
<1>4. Pending \in Row /\ Pending.run = NextRun
  BY <1>1, JournalAssumption, SMT DEF Pending, Row
<1>5. db' \in [Ops -> Row]
  BY <1>3, <1>4 DEF Reserved, Kept
<1>6. \A p \in Ops : db[p].run <= Len(runs)
  BY DEF TypeOK
<1>7. ASSUME NEW p \in Ops PROVE db'[p].run <= NextRun
  <2>1. CASE p = o
    BY <1>1, <1>3, <1>4, <2>1, SMT DEF Reserved, Kept
  <2>2. CASE p # o
    <3>1. db'[p] = CleanRows[p]
      BY <1>3, <2>2 DEF Reserved, Kept
    <3>2. db'[p].run = db[p].run \/ db'[p].run = 0
      BY <1>3, <3>1, SMT DEF Kept, NoRow
    <3>3. db[p].run \in 0..MaxRuns
      BY RowFields DEF TypeOK
    <3> QED
      BY <1>1, <1>6, <3>2, <3>3, SMT
  <2> QED
    BY <2>1, <2>2
<1>8. waiting \in [Waiters -> 0..NextRun]
  <2>1. waiting \in [Waiters -> 0..Len(runs)]
    BY DEF TypeOK
  <2>2. 0..Len(runs) \subseteq 0..NextRun
    BY <1>1, SMT
  <2> QED
    BY <2>1, <2>2
<1>9. performed \subseteq 1..NextRun
  <2>1. performed \subseteq 1..Len(runs)
    BY DEF TypeOK
  <2> QED
    BY <1>1, <2>1, SMT
<1>10. reply \in Reply /\ reply.run <= NextRun
  <2>1. reply \in Reply /\ reply.run <= Len(runs)
    BY DEF TypeOK
  <2>2. reply.run \in Int
    BY <2>1, SMT DEF Reply, NoReply, RunIds
  <2> QED
    BY <1>1, <2>1, <2>2, SMT
<1>11. /\ now' \in Nat /\ lastCleanup' \in Nat
       /\ waiting' \in [Waiters -> 0..Len(runs')]
       /\ performed' \subseteq 1..Len(runs')
       /\ reply' \in Reply /\ reply'.run <= Len(runs')
       /\ mem' \in [Ops -> 0..Len(runs')]
       /\ \A p \in Ops : db'[p].run <= Len(runs')
       /\ Len(runs') <= MaxRuns
  BY <1>1, <1>2, <1>3, <1>7, <1>8, <1>9, <1>10, Zenon
<1> QED
  BY <1>2, <1>5, <1>11, Zenon DEF TypeOK

\* Every step keeps the types.
LEMMA NextTypeOK == TypeOK /\ [Next]_vars => TypeOK'
<1> SUFFICES ASSUME TypeOK, [Next]_vars PROVE TypeOK'
  OBVIOUS
<1>1. /\ now \in Nat /\ lastCleanup \in Nat /\ runs \in Seq(Run) /\ Len(runs) \in Nat /\ Len(runs) <= MaxRuns
      /\ mem \in [Ops -> 0..Len(runs)] /\ order \in Seq(Ops)
      /\ db \in [Ops -> Row] /\ \A o \in Ops : db[o].run <= Len(runs)
      /\ waiting \in [Waiters -> 0..Len(runs)] /\ performed \subseteq Known
      /\ until \in [RunIds -> Nat]
      /\ reply \in Reply /\ reply.run <= Len(runs)
  BY SMT DEF TypeOK, Known
<1>2. ASSUME NEW o \in Ops, mem[o] # 0 PROVE mem[o] \in Known
  BY <1>1, <1>2, SMT DEF Known
<1>3. ASSUME NEW rows, Kept(rows)
      PROVE  rows \in [Ops -> Row] /\ \A o \in Ops : rows[o].run <= Len(runs)
  BY <1>1, <1>3, SMT DEF Kept, NoRow
<1>4. ASSUME Evict PROVE mem' \in [Ops -> 0..Len(runs)] /\ order' \in Seq(Ops)
  <2>1. order' \in Seq(Ops)
    BY <1>4, EvictedPrefix DEF Evict
  <2>2. 0 \in 0..Len(runs)
    BY <1>1, SMT
  <2> QED
    BY <1>1, <1>4, <2>1, <2>2 DEF Evict
<1>5. ASSUME NEW r \in RunIds, r <= Len(runs) PROVE r \in Known
  BY <1>1, <1>5, JournalAssumption, SMT DEF Known, RunIds
<1>6. CASE Tick
  BY <1>1, <1>6, TypeSameLength, SMT DEF Tick
<1>7. CASE \E o \in Ops, h \in Hashes : ReplayEntry(o, h)
  <2>1. PICK o \in Ops, h \in Hashes : ReplayEntry(o, h)
    BY <1>7
  <2>2. Answer(mem[o], o, h) \in Reply /\ Answer(mem[o], o, h).run <= Len(runs)
    BY <1>1, <1>2, <2>1, AnswerIsReply, SMT DEF ReplayEntry, Known
  <2> QED
    BY <1>1, <2>1, <2>2, TypeSameLength DEF ReplayEntry
<1>8. CASE \E o \in Ops, h \in Hashes, w \in Waiters : Wait(w, o, h)
  <2>1. PICK o \in Ops, h \in Hashes, w \in Waiters : Wait(w, o, h)
    BY <1>8
  <2>2. waiting' \in [Waiters -> 0..Len(runs)]
    BY <1>1, <2>1 DEF Wait
  <2> QED
    BY <1>1, <2>1, <2>2, TypeSameLength DEF Wait
<1>9. CASE \E o \in Ops, h \in Hashes : ReserveLost(o, h)
  <2>1. PICK o \in Ops, h \in Hashes : ReserveLost(o, h)
    BY <1>9
  <2>2. mem' \in [Ops -> 0..Len(runs)] /\ order' \in Seq(Ops)
    BY <1>4, <2>1 DEF ReserveLost
  <2>3. mem' \in [Ops -> 0..NextRun]
    <3>1. 0..Len(runs) \subseteq 0..NextRun
      BY <1>1, SMT DEF NextRun
    <3> QED
      BY <2>2, <3>1
  <2>4. "uncertain" \in Stages
    BY DEF Stages
  <2> QED
    BY <2>1, <2>2, <2>3, <2>4, TypeNewRun DEF ReserveLost
<1>10. CASE \E o \in Ops, h \in Hashes : ReplayRow(o, h)
  <2>1. PICK o \in Ops, h \in Hashes : ReplayRow(o, h)
    BY <1>10
  <2>2. Kept(CleanRows) /\ CleanTime \in Nat
    BY CleanupKeeps
  <2>3. CleanRows \in [Ops -> Row] /\ \A p \in Ops : CleanRows[p].run <= Len(runs)
    BY <1>3, <2>2
  <2>4. CleanRows[o].run \in Known
    <3>1. CleanRows[o].run \in 0..MaxRuns /\ CleanRows[o].run # 0
      BY <2>1, <2>3, RowFields DEF ReplayRow
    <3> QED
      BY <1>1, <2>3, <3>1, JournalAssumption, SMT DEF Known
  <2>5. Answer(CleanRows[o].run, o, h) \in Reply /\ Answer(CleanRows[o].run, o, h).run <= Len(runs)
    BY <2>3, <2>4, AnswerIsReply
  <2>6. Evict /\ db' = CleanRows /\ lastCleanup' = CleanTime /\ reply' = Answer(CleanRows[o].run, o, h)
        /\ UNCHANGED <<now, runs, waiting, performed, until>>
    BY <2>1 DEF ReplayRow
  <2>7. mem' \in [Ops -> 0..Len(runs)] /\ order' \in Seq(Ops)
    BY <1>4, <2>6
  <2> QED
    BY <1>1, <2>2, <2>3, <2>5, <2>6, <2>7, TypeSameLength
<1>11. CASE \E o \in Ops, h \in Hashes : Reserve(o, h)
  <2>1. PICK o \in Ops, h \in Hashes : Reserve(o, h)
    BY <1>11
  <2>2. order' \in Seq(Ops)
    BY <2>1, EvictedPrefix DEF Reserve
  <2>3. mem' \in [Ops -> 0..NextRun]
    <3>1. \A p \in Ops : mem[p] \in 0..NextRun
      BY <1>1, SMT DEF NextRun
    <3>2. 0 \in 0..NextRun /\ NextRun \in 0..NextRun
      BY <1>1, SMT DEF NextRun
    <3> QED
      BY <2>1, <3>1, <3>2 DEF Reserve
  <2>4. "reserved" \in Stages
    BY DEF Stages, Running
  <2> QED
    BY <2>1, <2>2, <2>3, <2>4, TypeNewRun DEF Reserve
<1>12. CASE \E o \in Ops : Refuse(o)
  <2>1. PICK o \in Ops : Refuse(o)
    BY <1>12
  <2>2. Kept(db) /\ Kept(Swept) /\ Kept(CleanRows) /\ CleanTime \in Nat
    BY CleanupKeeps
  <2>3. Kept(db') /\ lastCleanup' \in Nat
    BY <1>1, <2>1, <2>2, Zenon DEF Refuse
  <2>4. db' \in [Ops -> Row] /\ \A p \in Ops : db'[p].run <= Len(runs)
    BY <1>3, <2>3
  <2>5. Evict /\ UNCHANGED <<now, runs, waiting, performed, until, reply>>
    BY <2>1 DEF Refuse
  <2>6. mem' \in [Ops -> 0..Len(runs)] /\ order' \in Seq(Ops)
    BY <1>4, <2>5
  <2> QED
    BY <1>1, <2>3, <2>4, <2>5, <2>6, TypeSameLength
<1>13. CASE \E w \in Waiters : Deliver(w)
  <2>1. PICK w \in Waiters : Deliver(w)
    BY <1>13
  <2>2. waiting[w] \in Known
    BY <1>1, <2>1, SMT DEF Deliver, Known
  <2>3. runs[waiting[w]].op \in Ops /\ runs[waiting[w]].hash \in Hashes
    BY <2>2, RunFields
  <2>4. reply' \in Reply /\ reply'.run <= Len(runs)
    BY <1>1, <2>1, <2>2, <2>3, AnswerIsReply, SMT DEF Deliver, Known
  <2>5. waiting' \in [Waiters -> 0..Len(runs)]
    BY <1>1, <2>1, SMT DEF Deliver
  <2> QED
    BY <1>1, <2>1, <2>4, <2>5, TypeSameLength DEF Deliver
<1>14. CASE \E w \in Waiters : Cancel(w)
  <2>1. PICK w \in Waiters : Cancel(w)
    BY <1>14
  <2>2. waiting' \in [Waiters -> 0..Len(runs)]
    BY <1>1, <2>1, SMT DEF Cancel
  <2> QED
    BY <1>1, <2>1, <2>2, TypeSameLength DEF Cancel
<1>15. CASE \E r \in RunIds : Perform(r)
  <2>1. PICK r \in RunIds : Perform(r)
    BY <1>15
  <2>2. r \in Known /\ "performed" \in Stages
    BY <1>5, <2>1 DEF Perform, Stages, Running
  <2>3. runs' \in Seq(Run) /\ Len(runs') = Len(runs)
    BY <2>1, <2>2, StageStep, Zenon DEF Perform, SameRuns
  <2>4. performed' \subseteq Known
    BY <1>1, <2>1, <2>2 DEF Perform
  <2> QED
    BY <1>1, <2>1, <2>3, <2>4, TypeSameLength DEF Perform
<1>16. ASSUME NEW r \in Known, Completed(r)
       PROVE  /\ db' \in [Ops -> Row] /\ \A p \in Ops : db'[p].run <= Len(runs)
              /\ until' \in [RunIds -> Nat]
  <2>1. now + Retention \in Nat /\ r \in RunIds /\ r <= Len(runs)
    BY <1>1, <1>16, JournalAssumption, SMT DEF Known, RunIds
  <2> DEFINE row == [run |-> r, state |-> "completed", expires |-> now + Retention]
  <2>2. row \in Row /\ row.run = r
    BY <2>1 DEF Row
  <2>3. db' = [db EXCEPT ![runs[r].op] = row] /\ until' = [until EXCEPT ![r] = now + Retention]
    BY <1>16 DEF Completed
  <2> HIDE DEF row
  <2> QED
    BY <1>1, <2>1, <2>2, <2>3, Zenon
<1>17. CASE \E r \in RunIds : Complete(r) \/ CompleteFails(r)
  <2>1. PICK r \in RunIds : Complete(r) \/ CompleteFails(r)
    BY <1>17
  <2>2. r \in Known /\ {"stored", "unstored"} \subseteq Stages
    BY <1>5, <2>1 DEF Complete, CompleteFails, Stages, Running
  <2>3. runs' = [runs EXCEPT ![r].stage = "stored"] \/ runs' = [runs EXCEPT ![r].stage = "unstored"]
    BY <2>1 DEF Complete, CompleteFails
  <2>4. runs' \in Seq(Run) /\ Len(runs') = Len(runs)
    BY <2>2, <2>3, StageStep DEF SameRuns
  <2>5. /\ db' \in [Ops -> Row] /\ \A p \in Ops : db'[p].run <= Len(runs)
        /\ until' \in [RunIds -> Nat]
    BY <1>1, <1>16, <2>1, <2>2 DEF Complete, CompleteFails
  <2>6. UNCHANGED <<now, lastCleanup, mem, order, waiting, performed, reply>>
    BY <2>1 DEF Complete, CompleteFails
  <2> QED
    BY <1>1, <2>4, <2>5, <2>6, TypeSameLength
<1>18. CASE \E r \in RunIds : Finish(r)
  <2>1. PICK r \in RunIds : Finish(r)
    BY <1>18
  <2>2. r \in Known /\ {"answered", "uncertain"} \subseteq Stages
    BY <1>5, <2>1 DEF Finish, Stages
  <2>3. runs' = [runs EXCEPT ![r].stage = "answered"] \/ runs' = [runs EXCEPT ![r].stage = "uncertain"]
    BY <2>1 DEF Finish
  <2>4. runs' \in Seq(Run) /\ Len(runs') = Len(runs)
    BY <2>2, <2>3, StageStep DEF SameRuns
  <2>5. runs[r].op \in Ops /\ runs[r].hash \in Hashes
    BY <2>2, RunFields
  <2>6. reply' \in Reply /\ reply'.run <= Len(runs)
    BY <1>1, <2>1, <2>2, <2>5, AnswerIsReply, SMT DEF Finish, Known
  <2>7. order' \in Seq(Ops)
    <3>1. order' = order \/ order' = Append(order, runs[r].op)
      BY <2>1 DEF Finish
    <3>2. order \in Seq(Ops) /\ runs[r].op \in Ops
      BY <1>1, <2>5
    <3>3. Append(order, runs[r].op) \in Seq(Ops)
      BY <3>2, SMT
    <3> QED
      BY <3>1, <3>2, <3>3, Zenon
  <2>8. UNCHANGED <<now, lastCleanup, mem, db, waiting, performed, until>>
    BY <2>1 DEF Finish
  <2> QED
    BY <1>1, <2>4, <2>6, <2>7, <2>8, TypeSameLength
<1>19. CASE Restart
  <2>1. runs' \in Seq(Run) /\ Len(runs') = Len(runs)
    BY <1>19, RestartStep DEF SameRuns
  <2>2. Kept(Swept)
    BY CleanupKeeps
  <2>3. Swept \in [Ops -> Row] /\ \A p \in Ops : Swept[p].run <= Len(runs)
    BY <1>3, <2>2
  <2>4. PICK S \in SUBSET Ops :
          /\ mem' = [o \in Ops |-> IF o \in S THEN Swept[o].run ELSE 0]
          /\ order' \in Orders(S)
    BY <1>19, Zenon DEF Restart
  <2>5. \A p \in Ops : Swept[p].run \in 0..Len(runs)
    BY <1>1, <2>3, RowFields, JournalAssumption, SMT
  <2>6. mem' \in [Ops -> 0..Len(runs)]
    BY <1>1, <2>4, <2>5, SMT
  <2>7. order' \in Seq(Ops)
    BY <2>4, OrdersAreSequences
  <2>8. waiting' \in [Waiters -> 0..Len(runs)]
    BY <1>1, <1>19, SMT DEF Restart
  <2>9. db' = Swept /\ lastCleanup' = now /\ UNCHANGED <<now, performed, until, reply>>
    BY <1>19 DEF Restart
  <2> QED
    BY <1>1, <2>1, <2>3, <2>6, <2>7, <2>8, <2>9, TypeSameLength
<1>20. CASE UNCHANGED vars
  BY <1>1, <1>20, TypeSameLength DEF vars
<1> QED
  BY <1>6, <1>7, <1>8, <1>9, <1>10, <1>11, <1>12, <1>13, <1>14, <1>15, <1>17, <1>18, <1>19, <1>20, Zenon DEF Next

\* The journal stays within its types: runs, entries, rows and replies always
\* refer to runs that exist.
THEOREM JournalTypeCorrect == Spec => []TypeOK
  BY InitTypeOK, NextTypeOK, PTL DEF Spec

-----------------------------------------------------------------------------
(* Identity: the table and the rows speak of the latest run.               *)

\* Entries and rows are dropped, or an entry is rebuilt from its row; a run
\* that goes on keeps its entry.
LEMMA IdentityKept ==
  ASSUME TypeOK, Identity, SameRuns,
         \A o \in Ops : db'[o].run = db[o].run \/ db'[o].run = 0,
         \A o \in Ops : mem'[o] = mem[o] \/ mem'[o] = 0 \/ mem'[o] = db'[o].run,
         \A r \in Known : runs'[r].stage \in Running => mem'[runs[r].op] = r
  PROVE  Identity'
<1>1. Known' = Known
  BY DEF SameRuns, Known
<1>2. \A o \in Ops : mem[o] # 0 => mem[o] \in Known
  BY SMT DEF TypeOK, Known
<1>3. ASSUME NEW o \in Ops, db[o].run # 0 PROVE db[o].run \in Known
  <2>1. db[o] \in Row /\ db[o].run <= Len(runs) /\ Len(runs) \in Nat
    BY SMT DEF TypeOK
  <2>2. db[o].run \in 0..MaxRuns
    BY <2>1, RowFields
  <2> QED
    BY <1>3, <2>1, <2>2, JournalAssumption, SMT DEF Known
<1>4. \A r \in Known : runs'[r].op = runs[r].op /\ runs[r].op \in Ops
  BY RunFields DEF SameRuns
<1>5. \A o \in Ops : mem'[o] # 0 => runs'[mem'[o]].op = o
  BY <1>2, <1>3, <1>4, SMT DEF Identity
<1>6. \A o \in Ops : db'[o].run # 0 => runs'[db'[o].run].op = o
  BY <1>3, <1>4, SMT DEF Identity
<1>7. \A r \in Known : runs'[r].stage \in Running => mem'[runs'[r].op] = r
  BY <1>4, Zenon
<1>8. \A o \in Ops : mem'[o] # 0 /\ db'[o].run # 0 => mem'[o] = db'[o].run
  BY Zenon DEF Identity
<1>9. \A r \in Known : mem'[runs'[r].op] # 0 => r <= mem'[runs'[r].op]
  BY <1>4, SMT DEF Identity
<1>10. \A r \in Known : db'[runs'[r].op].run # 0 => r <= db'[runs'[r].op].run
  BY <1>4, SMT DEF Identity
<1> QED
  BY <1>1, <1>5, <1>6, <1>7, <1>8, <1>9, <1>10, Zenon DEF Identity

\* The new run of an operation that has neither entry nor row is its latest.
LEMMA IdentityNew ==
  ASSUME TypeOK, Identity, NEW o \in Ops, NEW h \in Hashes, NEW st \in Stages,
         NextRun \in RunIds, NewRun(o, h, st), db' = Reserved(o),
         \A p \in Ops : p # o => mem'[p] = mem[p] \/ mem'[p] = 0,
         \A r \in Known : runs[r].stage \in Running => mem'[runs[r].op] = r,
         mem'[o] = NextRun \/ (mem'[o] = 0 /\ st = "uncertain"),
         mem[o] = 0
  PROVE  Identity'
<1>1. Len(runs) \in Nat /\ NextRun = Len(runs) + 1 /\ NextRun \notin Known
      /\ Known' = Known \union {NextRun} /\ \A r \in Known : r \in Nat /\ r <= NextRun
  <2>1. Len(runs) \in Nat
    BY SMT DEF TypeOK
  <2>2. Len(runs') = NextRun
    BY NewRunStep, Zenon
  <2> QED
    BY <2>1, <2>2, SMT DEF NextRun, Known
<1>2. /\ \A r \in Known : runs'[r] = runs[r]
      /\ runs'[NextRun].op = o /\ runs'[NextRun].stage = st
  <2>1. /\ \A r \in Known : runs'[r] = runs[r]
        /\ runs'[NextRun] = [op |-> o, hash |-> h, at |-> now, stage |-> st]
    BY NewRunStep
  <2> QED
    BY <2>1, SMT
<1>3. \A p \in Ops : mem[p] # 0 => mem[p] \in Known
  BY SMT DEF TypeOK, Known
<1>4. ASSUME NEW p \in Ops, db[p].run # 0 PROVE db[p].run \in Known
  <2>1. db[p] \in Row /\ db[p].run <= Len(runs)
    BY DEF TypeOK
  <2>2. db[p].run \in 0..MaxRuns
    BY <2>1, RowFields
  <2> QED
    BY <1>1, <1>4, <2>1, <2>2, JournalAssumption, SMT DEF Known
<1>5. Kept(CleanRows)
  BY CleanupKeeps
<1>6. db'[o].run = NextRun
  BY <1>5 DEF Reserved, Pending, Kept
<1>7. \A p \in Ops : p # o => db'[p].run = db[p].run \/ db'[p].run = 0
  BY <1>5, SMT DEF Reserved, Kept, NoRow
<1>8. \A r \in Known : runs[r].op \in Ops
  BY RunFields
<1>10. \A p \in Ops : mem'[p] # 0 => runs'[mem'[p]].op = p
  BY <1>2, <1>3, SMT DEF Identity
<1>11. \A p \in Ops : db'[p].run # 0 => runs'[db'[p].run].op = p
  BY <1>2, <1>4, <1>6, <1>7, SMT DEF Identity
<1>12. \A r \in Known' : runs'[r].stage \in Running => mem'[runs'[r].op] = r
  <2>1. "uncertain" \notin Running
    BY DEF Running
  <2> QED
    BY <1>1, <1>2, <2>1, SMT
<1>13. \A p \in Ops : mem'[p] # 0 /\ db'[p].run # 0 => mem'[p] = db'[p].run
  BY <1>6, <1>7, Zenon DEF Identity
<1>14. \A r \in Known' : mem'[runs'[r].op] # 0 => r <= mem'[runs'[r].op]
  <2>1. NextRun <= NextRun
    BY <1>1, SMT
  <2> QED
    BY <1>1, <1>2, <1>8, <2>1, SMT DEF Identity
<1>15. \A r \in Known' : db'[runs'[r].op].run # 0 => r <= db'[runs'[r].op].run
  <2>1. NextRun <= NextRun
    BY <1>1, SMT
  <2> QED
    BY <1>1, <1>2, <1>6, <1>7, <1>8, <2>1, SMT DEF Identity
<1> QED
  BY <1>10, <1>11, <1>12, <1>13, <1>14, <1>15, Zenon DEF Identity

-----------------------------------------------------------------------------
(* Remembered: rows outlast what is promised, later runs begin after.      *)

\* Time passes, or expired rows are dropped.
LEMMA RememberedKept ==
  ASSUME TypeOK, Remembered, SameRuns, Kept(db'),
         now' \in Nat, now <= now', until' = until
  PROVE  Remembered'
<1>1. Known' = Known
  BY DEF SameRuns, Known
<1>2. now \in Nat
  BY DEF TypeOK
<1>3. ASSUME NEW r \in Known
      PROVE  until'[r] <= now' \/ (db'[runs'[r].op].run = r /\ until'[r] <= db'[runs'[r].op].expires)
  <2>1. runs'[r].op = runs[r].op /\ runs[r].op \in Ops /\ until[r] \in Nat /\ until'[r] = until[r]
    BY RunFields DEF SameRuns, TypeOK
  <2> DEFINE o == runs[r].op
  <2>2. db[o].expires \in Nat
    BY <2>1, RowFields DEF TypeOK
  <2>3. until[r] <= now \/ (db[o].run = r /\ until[r] <= db[o].expires)
    BY DEF Remembered
  <2>4. db'[o] = db[o] \/ db[o].expires <= now
    BY <2>1 DEF Kept
  <2>5. until[r] <= now => until[r] <= now'
    BY <1>2, <2>1, SMT
  <2>6. until[r] <= db[o].expires /\ db[o].expires <= now => until[r] <= now
    BY <1>2, <2>1, <2>2, SMT
  <2> QED
    BY <2>1, <2>3, <2>4, <2>5, <2>6, Zenon
<1>4. \A r, s \in Known : r < s /\ runs'[r].op = runs'[s].op => until'[r] <= runs'[s].at
  BY Zenon DEF Remembered, SameRuns
<1> QED
  BY <1>1, <1>3, <1>4, Zenon DEF Remembered

\* A new run begins when every earlier one of its operation is forgotten.
LEMMA RememberedNew ==
  ASSUME TypeOK, Remembered, NEW o \in Ops, NEW h \in Hashes, NEW st \in Stages,
         NextRun \in RunIds, NewRun(o, h, st), db' = Reserved(o), now' = now,
         CleanRows[o].run = 0
  PROVE  Remembered'
<1>1. Len(runs) \in Nat /\ NextRun = Len(runs) + 1 /\ now \in Nat
      /\ Known' = Known \union {NextRun} /\ \A r \in Known : r \in Nat /\ r < NextRun
  <2>1. Len(runs) \in Nat /\ now \in Nat
    BY SMT DEF TypeOK
  <2>2. Len(runs') = NextRun
    BY NewRunStep, Zenon
  <2> QED
    BY <2>1, <2>2, SMT DEF NextRun, Known
<1>2. /\ \A r \in Known : runs'[r] = runs[r] /\ until'[r] = until[r]
      /\ runs'[NextRun].op = o /\ runs'[NextRun].at = now /\ until'[NextRun] = now + Retention
  <2>1. /\ \A r \in Known : runs'[r] = runs[r] /\ until'[r] = until[r]
        /\ runs'[NextRun] = [op |-> o, hash |-> h, at |-> now, stage |-> st]
        /\ until'[NextRun] = now + Retention
    BY NewRunStep
  <2> QED
    BY <2>1, SMT
<1>3. Kept(CleanRows)
  BY CleanupKeeps
<1>4. db'[o] = Pending /\ \A p \in Ops : p # o => db'[p] = CleanRows[p]
  BY <1>3 DEF Reserved, Kept
<1>5. ASSUME NEW r \in Known
      PROVE  until[r] <= now \/ (CleanRows[runs[r].op].run = r /\ until[r] <= CleanRows[runs[r].op].expires)
  <2> DEFINE p == runs[r].op
  <2>1. p \in Ops /\ until[r] \in Nat /\ db[p].expires \in Nat
    BY RunFields, RowFields DEF TypeOK
  <2>2. CleanRows[p] = db[p] \/ db[p].expires <= now
    BY <1>3, <2>1 DEF Kept
  <2>3. until[r] <= now \/ (db[p].run = r /\ until[r] <= db[p].expires)
    BY DEF Remembered
  <2>4. until[r] <= db[p].expires /\ db[p].expires <= now => until[r] <= now
    BY <1>1, <2>1, SMT
  <2> QED
    BY <2>2, <2>3, <2>4, Zenon
<1>6. \A r \in Known : runs[r].op = o => until[r] <= now
  BY <1>1, <1>5, SMT DEF Known
<1>7. Pending.run = NextRun /\ now + Retention <= Pending.expires
  BY <1>1, JournalAssumption, SMT DEF Pending
<1>8. \A r \in Known' : until'[r] <= now' \/ (db'[runs'[r].op].run = r /\ until'[r] <= db'[runs'[r].op].expires)
  BY <1>1, <1>2, <1>4, <1>5, <1>6, <1>7, RunFields, SMT
<1>9. ASSUME NEW r \in Known', NEW s \in Known', r < s, runs'[r].op = runs'[s].op
      PROVE  until'[r] <= runs'[s].at
  <2>1. r \in Known
    BY <1>1, <1>9, SMT
  <2> QED
    BY <1>1, <1>2, <1>6, <1>9, <2>1, SMT DEF Remembered
<1> QED
  BY <1>8, <1>9, Zenon DEF Remembered

\* Completing a run extends its own row, and only its own.
LEMMA RememberedCompleted ==
  ASSUME TypeOK, Identity, Remembered, SameRuns, now' = now,
         NEW r \in Known, runs[r].stage \in Running, Completed(r)
  PROVE  Remembered'
<1> DEFINE o == runs[r].op
<1>1. Known' = Known /\ now \in Nat /\ o \in Ops /\ r \in RunIds
  BY RunFields DEF SameRuns, Known, TypeOK
<1>2. mem[o] = r /\ r # 0 /\ \A s \in Known : s \in Nat
  BY SMT DEF Identity, Known, TypeOK
<1>3. db[o].run = r
  <2>1. db[o].run # 0
    BY <1>1, RowFields DEF Completed, Completes, TypeOK
  <2> QED
    BY <1>1, <1>2, <2>1, Zenon DEF Identity
<1>4. /\ db'[o].run = r /\ db'[o].expires = now + Retention
      /\ \A p \in Ops : p # o => db'[p] = db[p]
  BY <1>1 DEF Completed, TypeOK
<1>5. until'[r] = now + Retention /\ \A s \in Known : s # r => until'[s] = until[s]
  BY <1>1, RunFields DEF Completed, TypeOK
<1>6. until'[r] <= db'[o].expires
  BY <1>1, <1>4, <1>5, JournalAssumption, SMT
<1>7. \A s \in Known : runs'[s].op = runs[s].op /\ runs'[s].at = runs[s].at /\ runs[s].op \in Ops
  BY RunFields DEF SameRuns
<1>8. \A s \in Known : until'[s] <= now' \/ (db'[runs'[s].op].run = s /\ until'[s] <= db'[runs'[s].op].expires)
  BY <1>3, <1>4, <1>5, <1>6, <1>7, SMT DEF Remembered
<1>9. ASSUME NEW s \in Known, NEW t \in Known, s < t, runs[s].op = runs[t].op
      PROVE  until'[s] <= runs[t].at
  <2>1. s # r
    <3>1. SUFFICES ASSUME s = r PROVE FALSE
      OBVIOUS
    <3>2. t <= r
      BY <1>2, <1>9, <3>1, SMT DEF Identity
    <3> QED
      BY <1>2, <1>9, <3>1, <3>2, SMT
  <2> QED
    BY <1>5, <1>9, <2>1, Zenon DEF Remembered
<1> QED
  BY <1>1, <1>7, <1>8, <1>9, SMT DEF Remembered

-----------------------------------------------------------------------------
(* Outcomes: what is handed out was made.                                  *)

\* A step that keeps the runs, marks a run done only once it was performed
\* and hands out only such runs.
LEMMA OutcomesKept ==
  ASSUME Outcomes, SameRuns, performed \subseteq performed',
         \A r \in Known : runs'[r].stage \notin {"reserved", "uncertain"} =>
           runs[r].stage \notin {"reserved", "uncertain"} \/ r \in performed',
         \A o \in Ops : db'[o].state = "completed" =>
           db'[o] = db[o] \/ db'[o].run \in performed',
         \/ reply' = reply /\ (reply.run # 0 => reply.run \in Known)
         \/ /\ reply'.run \in Known /\ reply'.run \in performed'
            /\ reply'.op = runs[reply'.run].op /\ reply'.hash = runs[reply'.run].hash
  PROVE  Outcomes'
<1>1. Known' = Known
  BY DEF SameRuns, Known
<1>2. \A r \in Known' : runs'[r].stage \notin {"reserved", "uncertain"} => r \in performed'
  BY <1>1 DEF Outcomes
<1>3. \A o \in Ops : db'[o].state = "completed" => db'[o].run \in performed'
  BY DEF Outcomes
<1>4. ReplyIsOwn'
  BY DEF Outcomes, ReplyIsOwn, SameRuns
<1> QED
  BY <1>2, <1>3, <1>4, Zenon DEF Outcomes

\* A new run has no outcome yet.
LEMMA OutcomesNew ==
  ASSUME TypeOK, Outcomes, NEW o \in Ops, NEW h \in Hashes, NEW st \in {"reserved", "uncertain"},
         NextRun \in RunIds, NewRun(o, h, st), db' = Reserved(o),
         UNCHANGED <<performed, reply>>
  PROVE  Outcomes'
<1>1. st \in Stages
  BY DEF Stages, Running
<1>2. Len(runs) \in Nat
  BY SMT DEF TypeOK
<1>3. /\ Len(runs') = NextRun
      /\ \A r \in Known : runs'[r] = runs[r]
      /\ runs'[NextRun] = [op |-> o, hash |-> h, at |-> now, stage |-> st]
  BY <1>1, NewRunStep
<1>4. Known' = Known \union {NextRun}
  BY <1>2, <1>3, SMT DEF NextRun, Known
<1>5. \A r \in Known' : runs'[r].stage \notin {"reserved", "uncertain"} => r \in performed'
  BY <1>3, <1>4, SMT DEF Outcomes
<1>6. Kept(CleanRows)
  BY CleanupKeeps
<1>7. \A p \in Ops : db'[p].state = "completed" => db'[p].run \in performed'
  BY <1>6, SMT DEF Outcomes, Kept, Reserved, Pending, NoRow
<1>8. reply.run # 0 => reply.run \in Known
  BY Zenon DEF Outcomes, ReplyIsOwn, TypeOK, Known
<1>9. ReplyIsOwn'
  BY <1>3, <1>8 DEF Outcomes, ReplyIsOwn
<1> QED
  BY <1>5, <1>7, <1>9, Zenon DEF Outcomes

-----------------------------------------------------------------------------
(* The table is bounded, and order lists what may be evicted.              *)

\* Neither table nor order changes, and no answered run is touched.
LEMMA BoundedKept ==
  ASSUME TypeOK, JournalBounded, UNCHANGED <<mem, order>>, SameRuns,
         \A r \in Known : runs[r].stage = "answered" => runs'[r].stage = "answered"
  PROVE  JournalBounded'
<1>1. Entries' = Entries
  BY DEF Entries
<1>2. \A i \in 1..Len(order) : order[i] \in Ops
  BY SMT DEF TypeOK
<1>3. \A o \in Ops : mem[o] # 0 => mem[o] \in Known
  BY SMT DEF TypeOK, Known
<1> QED
  BY <1>1, <1>2, <1>3 DEF JournalBounded

\* Entries that are evicted hold completed runs; the rest of order stays.
LEMMA EvictStep ==
  ASSUME TypeOK, JournalBounded, order' = SubSeq(order, Evicted + 1, Len(order))
  PROVE  /\ \A o \in EvictedOps : mem[o] # 0 /\ runs[mem[o]].stage = "answered"
         /\ \A i \in 1..Len(order') :
              /\ order'[i] \in Ops /\ order'[i] \notin EvictedOps
              /\ mem[order'[i]] # 0 /\ runs[mem[order'[i]]].stage = "answered"
         /\ \A i, j \in 1..Len(order') : i # j => order'[i] # order'[j]
<1>1. order \in Seq(Ops) /\ Len(order) \in Nat
  BY SMT DEF TypeOK
<1>2. PICK n \in 0..Len(order) : n = Evicted
  BY EvictedPrefix
<1>3. Len(order') = Len(order) - n /\ \A i \in 1..(Len(order) - n) : order'[i] = order[i + n]
  BY <1>2, EvictedPrefix
<1>4. /\ \A i \in 1..Len(order) : mem[order[i]] # 0 /\ runs[mem[order[i]]].stage = "answered"
      /\ \A i, j \in 1..Len(order) : i # j => order[i] # order[j]
      /\ \A i \in 1..Len(order) : order[i] \in Ops
  BY <1>1, SMT DEF JournalBounded
<1>5. EvictedOps = {order[i] : i \in 1..n}
  BY <1>2 DEF EvictedOps
<1>6. \A i \in 1..n : i \in 1..Len(order)
  BY <1>1, <1>2, SMT
<1>7. \A o \in EvictedOps : mem[o] # 0 /\ runs[mem[o]].stage = "answered"
  BY <1>4, <1>5, <1>6, Zenon
<1>8. ASSUME NEW i \in 1..Len(order')
      PROVE  \E k \in 1..Len(order) : k = i + n /\ order'[i] = order[k] /\ \A j \in 1..n : j # k
  <2>1. i \in 1..(Len(order) - n)
    BY <1>3, Zenon
  <2>2. i + n \in 1..Len(order) /\ \A j \in 1..n : j # i + n
    BY <1>1, <1>2, <2>1, SMT
  <2> QED
    BY <1>3, <2>1, <2>2, Zenon
<1>9. ASSUME NEW i \in 1..Len(order')
      PROVE  /\ order'[i] \in Ops /\ order'[i] \notin EvictedOps
             /\ mem[order'[i]] # 0 /\ runs[mem[order'[i]]].stage = "answered"
  <2>1. PICK k \in 1..Len(order) : order'[i] = order[k] /\ \A j \in 1..n : j # k
    BY <1>8, Zenon
  <2>2. \A j \in 1..n : order[j] # order[k]
    BY <1>4, <1>6, <2>1, Zenon
  <2>3. order[k] \notin EvictedOps
    BY <1>5, <2>2, Zenon
  <2> QED
    BY <1>4, <2>1, <2>3, Zenon
<1>10. ASSUME NEW i \in 1..Len(order'), NEW j \in 1..Len(order'), i # j PROVE order'[i] # order'[j]
  <2>1. PICK k \in 1..Len(order) : k = i + n /\ order'[i] = order[k]
    BY <1>8, Zenon
  <2>2. PICK l \in 1..Len(order) : l = j + n /\ order'[j] = order[l]
    BY <1>8, Zenon
  <2>3. k # l
    BY <1>2, <1>10, <2>1, <2>2, SMT
  <2> QED
    BY <1>4, <2>1, <2>2, <2>3, Zenon
<1> QED
  BY <1>7, <1>9, <1>10, Zenon

\* Evicting without reserving.
LEMMA BoundedEvict ==
  ASSUME TypeOK, JournalBounded, Evict,
         \A r \in Known : runs'[r].stage = runs[r].stage
  PROVE  JournalBounded'
<1>1. IsFiniteSet(Entries)
  BY JournalAssumption, FS_Subset DEF Entries
<1>2. Cardinality(Entries') <= MaxEntries
  <2>1. Entries' \subseteq Entries
    BY DEF Entries, Evict
  <2>2. Cardinality(Entries') <= Cardinality(Entries) /\ Cardinality(Entries') \in Nat /\ Cardinality(Entries) \in Nat
    BY <1>1, <2>1, FS_Subset, FS_CardinalityType
  <2> QED
    BY <2>2, JournalAssumption, SMT DEF JournalBounded
<1>3. \A o \in Ops : mem[o] # 0 => mem[o] \in Known
  BY SMT DEF TypeOK, Known
<1>4. order' = SubSeq(order, Evicted + 1, Len(order)) /\ \A o \in Ops : o \notin EvictedOps => mem'[o] = mem[o]
  BY DEF Evict
<1>5. \A i \in 1..Len(order') : mem'[order'[i]] # 0 /\ runs'[mem'[order'[i]]].stage = "answered"
  <2>1. ASSUME NEW i \in 1..Len(order') PROVE mem'[order'[i]] # 0 /\ runs'[mem'[order'[i]]].stage = "answered"
    <3>1. /\ order'[i] \in Ops /\ order'[i] \notin EvictedOps
          /\ mem[order'[i]] # 0 /\ runs[mem[order'[i]]].stage = "answered"
      BY <1>4, EvictStep, Zenon
    <3>2. mem'[order'[i]] = mem[order'[i]] /\ mem[order'[i]] \in Known
      BY <1>3, <1>4, <3>1, Zenon
    <3> QED
      BY <3>1, <3>2
  <2> QED
    BY <2>1
<1>6. \A i, j \in 1..Len(order') : i # j => order'[i] # order'[j]
  BY <1>4, EvictStep, Zenon
<1> QED
  BY <1>2, <1>5, <1>6, Zenon DEF JournalBounded

\* Evicting to make room for a new entry.
LEMMA BoundedReserve ==
  ASSUME TypeOK, JournalBounded, NEW o \in Ops, NEW h \in Hashes, Reserve(o, h)
  PROVE  JournalBounded'
<1>1. /\ mem[o] = 0 /\ ~Full /\ NextRun \in RunIds
      /\ order' = SubSeq(order, Evicted + 1, Len(order))
      /\ mem' = [p \in Ops |-> IF p = o THEN NextRun ELSE IF p \in EvictedOps THEN 0 ELSE mem[p]]
      /\ NewRun(o, h, "reserved")
  BY DEF Reserve
<1>2. \A r \in Known : runs'[r] = runs[r]
  BY <1>1, NewRunStep, Zenon DEF Stages, Running
<1>3. Cardinality(Entries') <= MaxEntries
  <2> DEFINE rest == Entries \ EvictedOps
  <2>1. IsFiniteSet(rest) /\ Cardinality(rest) \in Nat
    <3>1. rest \subseteq Ops
      BY DEF Entries
    <3> HIDE DEF rest
    <3> QED
      BY <3>1, JournalAssumption, FS_Subset, FS_CardinalityType
  <2>2. Entries' \subseteq rest \union {o}
    BY <1>1 DEF Entries
  <2>3. IsFiniteSet(rest \union {o}) /\ Cardinality(rest \union {o}) <= Cardinality(rest) + 1
        /\ Cardinality(rest \union {o}) \in Nat
    <3> HIDE DEF rest
    <3>1. /\ IsFiniteSet(rest \union {o})
          /\ Cardinality(rest \union {o}) = Cardinality(rest) \/ Cardinality(rest \union {o}) = Cardinality(rest) + 1
      BY <2>1, FS_AddElement, Zenon
    <3> QED
      BY <2>1, <3>1, SMT
  <2>4. Cardinality(Entries') <= Cardinality(rest \union {o}) /\ Cardinality(Entries') \in Nat
    BY <2>2, <2>3, FS_Subset, FS_CardinalityType
  <2>5. Cardinality(rest) < MaxEntries
    BY <1>1, <2>1, JournalAssumption, SMT DEF Full
  <2> HIDE DEF rest
  <2> QED
    BY <2>1, <2>3, <2>4, <2>5, JournalAssumption, SMT
<1>4. \A p \in Ops : mem[p] # 0 => mem[p] \in Known
  BY SMT DEF TypeOK, Known
<1>5. ASSUME NEW i \in 1..Len(order') PROVE mem'[order'[i]] # 0 /\ runs'[mem'[order'[i]]].stage = "answered"
  <2>1. /\ order'[i] \in Ops /\ order'[i] \notin EvictedOps
        /\ mem[order'[i]] # 0 /\ runs[mem[order'[i]]].stage = "answered"
    BY <1>1, EvictStep, Zenon
  <2>2. mem'[order'[i]] = mem[order'[i]] /\ mem[order'[i]] \in Known
    BY <1>1, <1>4, <2>1, Zenon
  <2> QED
    BY <1>2, <2>1, <2>2
<1>6. \A i, j \in 1..Len(order') : i # j => order'[i] # order'[j]
  BY <1>1, EvictStep, Zenon
<1> QED
  BY <1>3, <1>5, <1>6, Zenon DEF JournalBounded

\* A run that is answered joins order, where it was not before.
LEMMA BoundedFinish ==
  ASSUME TypeOK, Identity, JournalBounded, NEW r \in Known, runs[r].stage = "stored",
         runs' = [runs EXCEPT ![r].stage = "answered"],
         order' = Append(order, runs[r].op), mem' = mem
  PROVE  JournalBounded'
<1>1. order \in Seq(Ops) /\ Len(order) \in Nat /\ runs[r].op \in Ops
  <2>1. order \in Seq(Ops) /\ Len(order) \in Nat
    BY SMT DEF TypeOK
  <2> QED
    BY <2>1, RunFields
<1>2. mem[runs[r].op] = r
  BY DEF Identity, Running
<1>3. \A i \in Known : runs'[i].stage = IF i = r THEN "answered" ELSE runs[i].stage
  <2>1. "answered" \in Stages
    BY DEF Stages
  <2> QED
    BY <2>1, StageStep, Zenon
<1>4. \A p \in Ops : mem[p] # 0 => mem[p] \in Known
  BY SMT DEF TypeOK, Known
<1>5. Cardinality(Entries') <= MaxEntries
  <2>1. Entries' = Entries
    BY DEF Entries
  <2> QED
    BY <2>1 DEF JournalBounded
<1>6. ASSUME NEW i \in 1..Len(order)
      PROVE  /\ order'[i] = order[i] /\ order[i] \in Ops /\ order[i] # runs[r].op
             /\ mem[order[i]] # 0 /\ runs[mem[order[i]]].stage = "answered"
  <2>1. order'[i] = order[i] /\ order[i] \in Ops
    BY <1>1, <1>6, SMT
  <2>2. mem[order[i]] # 0 /\ runs[mem[order[i]]].stage = "answered"
    BY DEF JournalBounded
  <2> QED
    BY <1>2, <2>1, <2>2
<1>7. Len(order') = Len(order) + 1 /\ order'[Len(order) + 1] = runs[r].op
  BY <1>1, SMT
<1>8. ASSUME NEW i \in 1..Len(order') PROVE mem'[order'[i]] # 0 /\ runs'[mem'[order'[i]]].stage = "answered"
  <2>1. CASE i \in 1..Len(order)
    BY <1>3, <1>4, <1>6, <2>1, SMT
  <2>2. CASE i = Len(order) + 1
    <3>1. r # 0
      BY SMT DEF Known
    <3> QED
      BY <1>2, <1>3, <1>7, <2>2, <3>1
  <2> QED
    BY <1>1, <1>7, <1>8, <2>1, <2>2, SMT
<1>9. ASSUME NEW i \in 1..Len(order'), NEW j \in 1..Len(order'), i # j PROVE order'[i] # order'[j]
  <2>1. (i \in 1..Len(order) \/ i = Len(order) + 1) /\ (j \in 1..Len(order) \/ j = Len(order) + 1)
    BY <1>1, <1>7, SMT
  <2>2. \A k, l \in 1..Len(order) : k # l => order[k] # order[l]
    BY DEF JournalBounded
  <2> QED
    BY <1>6, <1>7, <1>9, <2>1, <2>2, SMT
<1> QED
  BY <1>5, <1>8, <1>9, Zenon DEF JournalBounded

\* A restart loads at most MaxEntries rows.
LEMMA BoundedRestart ==
  ASSUME TypeOK, Identity, Restart
  PROVE  JournalBounded'
<1>1. PICK S \in SUBSET Ops :
        /\ Loads(S)
        /\ mem' = [o \in Ops |-> IF o \in S THEN Swept[o].run ELSE 0]
        /\ order' \in Orders(S)
  BY Zenon DEF Restart
<1>2. Cardinality(Entries') <= MaxEntries
  <2>1. Entries' \subseteq S /\ IsFiniteSet(S)
    BY <1>1, JournalAssumption, FS_Subset DEF Entries
  <2>2. Cardinality(S) <= MaxEntries
    BY <1>1 DEF Loads
  <2>3. Cardinality(Entries') <= Cardinality(S) /\ Cardinality(Entries') \in Nat /\ Cardinality(S) \in Nat
    BY <2>1, FS_Subset, FS_CardinalityType
  <2> QED
    BY <2>2, <2>3, JournalAssumption, SMT
<1>3. Kept(Swept)
  BY CleanupKeeps
<1>4. ASSUME NEW i \in 1..Len(order') PROVE mem'[order'[i]] # 0 /\ runs'[mem'[order'[i]]].stage = "answered"
  <2>1. PICK o \in S : o = order'[i] /\ Swept[o].state = "completed"
    BY <1>1, OrdersAreSequences, ZenonT(60)
  <2>2. o \in Ops /\ Swept[o] = db[o]
    BY <1>3, <2>1, SMT DEF Kept, NoRow
  <2>3. db[o].run # 0 /\ db[o].run \in Known
    <3>1. db[o] \in Row /\ db[o].run <= Len(runs) /\ Len(runs) \in Nat
      BY <2>2, SMT DEF TypeOK
    <3>2. db[o].run \in 0..MaxRuns /\ db[o].run # 0
      BY <2>1, <2>2, <3>1, RowFields
    <3> QED
      BY <3>1, <3>2, JournalAssumption, SMT DEF Known
  <2>4. mem'[o] = db[o].run
    BY <1>1, <2>1, <2>2
  <2>5. runs[db[o].run].op = o
    BY <2>2, <2>3 DEF Identity
  <2>6. Recovered(db[o].run) = "answered"
    BY <2>1, <2>2, <2>5 DEF Recovered
  <2>7. runs'[db[o].run].stage = "answered"
    BY <2>3, <2>6, RestartStep
  <2> QED
    BY <2>1, <2>3, <2>4, <2>7
<1>5. \A i, j \in 1..Len(order') : i # j => order'[i] # order'[j]
  BY <1>1, OrdersAreSequences
<1> QED
  BY <1>2, <1>4, <1>5, Zenon DEF JournalBounded

-----------------------------------------------------------------------------
(* The inductive step and the theorems.                                    *)

\* The initial state satisfies the invariant.
LEMMA InitJournalInv == Init => JournalInv
<1> SUFFICES ASSUME Init PROVE JournalInv
  OBVIOUS
<1>1. TypeOK
  BY InitTypeOK
<1>2. Known = {} /\ \A o \in Ops : mem[o] = 0 /\ db[o].run = 0 /\ db[o].state = "none"
  BY SMT DEF Init, Known, NoRow
<1>3. Identity
  BY <1>2 DEF Identity
<1>4. Remembered
  BY <1>2 DEF Remembered
<1>5. Outcomes
  BY <1>2 DEF Outcomes, ReplyIsOwn, Init, NoReply
<1>6. JournalBounded
  <2>1. Entries = {}
    BY <1>2 DEF Entries
  <2>2. Cardinality(Entries) = 0
    BY <2>1, FS_EmptySet
  <2> QED
    BY <2>2, JournalAssumption, SMT DEF Init, JournalBounded
<1> QED
  BY <1>1, <1>3, <1>4, <1>5, <1>6 DEF JournalInv

\* A step that changes neither runs, table nor rows.
LEMMA QuietStep ==
  ASSUME JournalInv, UNCHANGED <<runs, mem, order, db, performed, until>>,
         now' \in Nat, now <= now',
         \/ reply' = reply
         \/ /\ reply'.run \in Known /\ reply'.run \in performed
            /\ reply'.op = runs[reply'.run].op /\ reply'.hash = runs[reply'.run].hash
  PROVE  Identity' /\ Remembered' /\ Outcomes' /\ JournalBounded'
<1>1. SameRuns
  BY DEF SameRuns, JournalInv, TypeOK
<1>2. Kept(db')
  BY CleanupKeeps DEF JournalInv
<1>3. Identity'
  BY <1>1, IdentityKept DEF JournalInv, Identity
<1>4. Remembered'
  BY <1>1, <1>2, RememberedKept DEF JournalInv
<1>5. reply.run # 0 => reply.run \in Known
  BY Zenon DEF JournalInv, TypeOK, Outcomes, ReplyIsOwn, Known
<1>6. Outcomes'
  BY <1>1, <1>5, OutcomesKept DEF JournalInv
<1>7. JournalBounded'
  BY <1>1, BoundedKept DEF JournalInv
<1> QED
  BY <1>3, <1>4, <1>6, <1>7

\* A step that evicts entries and sweeps rows.
LEMMA EvictingStep ==
  ASSUME JournalInv, Evict, Kept(db'), UNCHANGED <<now, runs, performed, until>>,
         \/ reply' = reply
         \/ /\ reply'.run \in Known /\ reply'.run \in performed
            /\ reply'.op = runs[reply'.run].op /\ reply'.hash = runs[reply'.run].hash
  PROVE  Identity' /\ Remembered' /\ Outcomes' /\ JournalBounded'
<1>1. SameRuns
  BY DEF SameRuns, JournalInv, TypeOK
<1>2. \A o \in Ops : db'[o].run = db[o].run \/ db'[o].run = 0
  BY SMT DEF Kept, NoRow
<1>3. \A o \in Ops : mem'[o] = IF o \in EvictedOps THEN 0 ELSE mem[o]
  BY DEF Evict
<1>4. \A o \in EvictedOps : mem[o] # 0 /\ runs[mem[o]].stage = "answered"
  BY EvictStep DEF JournalInv, Evict
<1>5. ASSUME NEW r \in Known, runs[r].stage \in Running PROVE mem'[runs[r].op] = r
  <2>1. runs[r].op \in Ops /\ mem[runs[r].op] = r
    BY <1>5, RunFields DEF JournalInv, Identity
  <2>2. runs[r].stage # "answered"
    BY <1>5 DEF Running
  <2> QED
    BY <1>3, <1>4, <2>1, <2>2
<1>6. Identity'
  BY <1>1, <1>2, <1>3, <1>5, IdentityKept DEF JournalInv
<1>7. Remembered'
  <2>1. now' \in Nat /\ now <= now'
    BY SMT DEF JournalInv, TypeOK
  <2> QED
    BY <1>1, <2>1, RememberedKept DEF JournalInv
<1>8. reply.run # 0 => reply.run \in Known
  BY Zenon DEF JournalInv, TypeOK, Outcomes, ReplyIsOwn, Known
<1>9. \A o \in Ops : db'[o].state = "completed" => db'[o] = db[o]
  BY SMT DEF Kept, NoRow
<1>10. Outcomes'
  BY <1>1, <1>8, <1>9, OutcomesKept DEF JournalInv
<1>11. JournalBounded'
  BY BoundedEvict DEF JournalInv
<1> QED
  BY <1>6, <1>7, <1>10, <1>11

\* A step of the caller that runs the operation, up to the completion.
LEMMA RunningStep ==
  ASSUME JournalInv, NEW r \in Known, NEW st \in Running,
         runs[r].stage \in Running, runs' = [runs EXCEPT ![r].stage = st],
         performed' = performed \union {r},
         Completed(r) \/ UNCHANGED <<db, until>>,
         UNCHANGED <<now, mem, order, reply>>
  PROVE  Identity' /\ Remembered' /\ Outcomes' /\ JournalBounded'
<1>1. SameRuns /\ \A i \in Known : runs'[i].stage = IF i = r THEN st ELSE runs[i].stage
  <2>1. st \in Stages /\ TypeOK
    BY DEF Stages, JournalInv
  <2> QED
    BY <2>1, StageStep, Zenon
<1>2. runs[r].op \in Ops /\ mem[runs[r].op] = r /\ r # 0
  <2>1. runs[r].op \in Ops
    BY RunFields DEF JournalInv
  <2> QED
    BY <2>1, SMT DEF JournalInv, Identity, Known
<1>3. db \in [Ops -> Row]
  BY DEF JournalInv, TypeOK
<1>4. ASSUME Completed(r)
      PROVE  /\ db'[runs[r].op].run = r /\ db[runs[r].op].run = r
             /\ \A o \in Ops : o # runs[r].op => db'[o] = db[o]
  <2>1. db[runs[r].op].run # 0
    BY <1>2, <1>3, <1>4, RowFields DEF Completed, Completes
  <2>2. db[runs[r].op].run = r
    BY <1>2, <2>1 DEF JournalInv, Identity
  <2> QED
    BY <1>2, <1>3, <1>4, <2>2 DEF Completed
<1>5. \A o \in Ops : db'[o].run = db[o].run \/ db'[o].run = 0
  BY <1>4
<1>6. Identity'
  <2>1. \A i \in Known : runs[i].stage \in Running => mem[runs[i].op] = i
    BY DEF JournalInv, Identity
  <2>2. \A i \in Known : runs'[i].stage \in Running => mem'[runs[i].op] = i
    BY <1>1, <2>1
  <2> QED
    BY <1>1, <1>5, <2>2, IdentityKept DEF JournalInv
<1>7. Remembered'
  <2>1. CASE Completed(r)
    BY <1>1, <2>1, RememberedCompleted DEF JournalInv
  <2>2. CASE UNCHANGED <<db, until>>
    <3>1. now' \in Nat /\ now <= now'
      BY SMT DEF JournalInv, TypeOK
    <3>2. Kept(db')
      BY <2>2, CleanupKeeps DEF JournalInv
    <3> QED
      BY <1>1, <2>2, <3>1, <3>2, RememberedKept DEF JournalInv
  <2> QED
    BY <2>1, <2>2
<1>8. reply.run # 0 => reply.run \in Known
  BY DEF JournalInv, TypeOK, Outcomes, ReplyIsOwn, Known
<1>9. \A o \in Ops : db'[o] = db[o] \/ db'[o].run \in performed'
  BY <1>4
<1>10. Outcomes'
  BY <1>1, <1>8, <1>9, OutcomesKept DEF JournalInv
<1>11. JournalBounded'
  <2>1. \A i \in Known : runs[i].stage = "answered" => runs'[i].stage = "answered"
    BY <1>1 DEF Running
  <2> QED
    BY <1>1, <2>1, BoundedKept DEF JournalInv
<1> QED
  BY <1>6, <1>7, <1>10, <1>11

\* The caller that ran the operation publishes the outcome.
LEMMA FinishStep ==
  ASSUME JournalInv, NEW r \in Known, Finish(r)
  PROVE  Identity' /\ Remembered' /\ Outcomes' /\ JournalBounded'
<1>1. PICK st \in {"answered", "uncertain"} : runs' = [runs EXCEPT ![r].stage = st]
  BY DEF Finish
<1>2. SameRuns /\ \A i \in Known : runs'[i].stage = IF i = r THEN st ELSE runs[i].stage
  <2>1. st \in Stages
    BY DEF Stages
  <2> QED
    BY <1>1, <2>1, StageStep, Zenon DEF JournalInv
<1>3. UNCHANGED <<now, mem, db, performed, until>> /\ runs[r].stage \in {"stored", "unstored"}
  BY DEF Finish
<1>4. r \in performed
  BY <1>3 DEF JournalInv, Outcomes
<1>5. Identity'
  <2>1. \A i \in Known : runs[i].stage \in Running => mem[runs[i].op] = i
    BY DEF JournalInv, Identity
  <2>2. \A i \in Known : runs'[i].stage \in Running => mem'[runs[i].op] = i
    BY <1>2, <1>3, <2>1 DEF Running
  <2> QED
    BY <1>2, <1>3, <2>2, IdentityKept DEF JournalInv
<1>6. Remembered'
  <2>1. now' \in Nat /\ now <= now'
    BY <1>3, SMT DEF JournalInv, TypeOK
  <2>2. Kept(db')
    BY <1>3, CleanupKeeps DEF JournalInv
  <2> QED
    BY <1>2, <1>3, <2>1, <2>2, RememberedKept DEF JournalInv
<1>7. \/ reply' = reply
      \/ /\ reply'.run \in Known /\ reply'.run \in performed'
         /\ reply'.op = runs[reply'.run].op /\ reply'.hash = runs[reply'.run].hash
  BY <1>3, <1>4, SMT DEF Finish, Answer
<1>8. reply.run # 0 => reply.run \in Known
  BY Zenon DEF JournalInv, TypeOK, Outcomes, ReplyIsOwn, Known
<1>9. Outcomes'
  BY <1>2, <1>3, <1>4, <1>7, <1>8, OutcomesKept DEF JournalInv
<1>10. JournalBounded'
  <2>1. CASE runs[r].stage = "stored"
    BY <1>3, <2>1, BoundedFinish DEF JournalInv, Finish
  <2>2. CASE runs[r].stage = "unstored"
    <3>1. order' = order
      BY <2>2 DEF Finish
    <3>2. \A i \in Known : runs[i].stage = "answered" => runs'[i].stage = "answered"
      BY <1>2, <2>2
    <3> QED
      BY <1>2, <1>3, <3>1, <3>2, BoundedKept DEF JournalInv
  <2> QED
    BY <1>3, <2>1, <2>2
<1> QED
  BY <1>5, <1>6, <1>9, <1>10

\* Reserving, with the entry or without it.
LEMMA ReservingStep ==
  ASSUME JournalInv, NEW o \in Ops, NEW h \in Hashes, Reserve(o, h) \/ ReserveLost(o, h)
  PROVE  Identity' /\ Remembered' /\ Outcomes' /\ JournalBounded'
<1>1. /\ mem[o] = 0 /\ CleanRows[o].run = 0 /\ NextRun \in RunIds
      /\ order' = SubSeq(order, Evicted + 1, Len(order))
      /\ db' = Reserved(o) /\ UNCHANGED <<now, waiting, performed, reply>>
  BY DEF Reserve, ReserveLost, Evict
<1>2. PICK st \in {"reserved", "uncertain"} :
        /\ NewRun(o, h, st)
        /\ mem'[o] = NextRun \/ (mem'[o] = 0 /\ st = "uncertain")
  BY <1>1 DEF Reserve, ReserveLost, Evict
<1>3. \A p \in Ops : p # o => mem'[p] = IF p \in EvictedOps THEN 0 ELSE mem[p]
  BY DEF Reserve, ReserveLost, Evict
<1>4. \A p \in EvictedOps : mem[p] # 0 /\ runs[mem[p]].stage = "answered"
  BY <1>1, EvictStep DEF JournalInv
<1>5. ASSUME NEW r \in Known, runs[r].stage \in Running PROVE mem'[runs[r].op] = r
  <2>1. runs[r].op \in Ops
    BY RunFields DEF JournalInv
  <2>2. mem[runs[r].op] = r /\ r # 0
    BY <1>5, SMT DEF JournalInv, Identity, Known
  <2>3. runs[r].stage # "answered"
    BY <1>5 DEF Running
  <2> QED
    BY <1>1, <1>3, <1>4, <2>1, <2>2, <2>3
<1>6. st \in Stages
  BY DEF Stages, Running
<1>7. Identity'
  BY <1>1, <1>2, <1>3, <1>5, <1>6, IdentityNew DEF JournalInv
<1>8. Remembered'
  BY <1>1, <1>2, <1>6, RememberedNew, Zenon DEF JournalInv
<1>9. Outcomes'
  BY <1>1, <1>2, OutcomesNew DEF JournalInv
<1>10. JournalBounded'
  <2>1. CASE Reserve(o, h)
    BY <2>1, BoundedReserve DEF JournalInv
  <2>2. CASE ReserveLost(o, h)
    <3>1. \A r \in Known : runs'[r] = runs[r]
      BY <1>1, <1>2, <1>6, NewRunStep, Zenon DEF JournalInv
    <3> QED
      BY <2>2, <3>1, BoundedEvict DEF JournalInv, ReserveLost
  <2> QED
    BY <2>1, <2>2
<1> QED
  BY <1>7, <1>8, <1>9, <1>10

\* The journal after a restart.
LEMMA RestartedStep ==
  ASSUME JournalInv, Restart
  PROVE  Identity' /\ Remembered' /\ Outcomes' /\ JournalBounded'
<1>1. SameRuns /\ \A r \in Known : runs'[r].stage = Recovered(r)
  BY RestartStep DEF JournalInv
<1>2. Kept(Swept) /\ db' = Swept /\ UNCHANGED <<now, performed, until, reply>>
  BY CleanupKeeps DEF JournalInv, Restart
<1>3. \A o \in Ops : db'[o].run = db[o].run \/ db'[o].run = 0
  BY <1>2, SMT DEF Kept, NoRow
<1>4. \A o \in Ops : mem'[o] = 0 \/ mem'[o] = db'[o].run
  BY DEF Restart
<1>5. \A r \in Known : Recovered(r) \notin Running
  BY DEF Recovered, Running
<1>6. Identity'
  BY <1>1, <1>3, <1>4, <1>5, IdentityKept DEF JournalInv
<1>7. Remembered'
  <2>1. now' \in Nat /\ now <= now'
    BY <1>2, SMT DEF JournalInv, TypeOK
  <2> QED
    BY <1>1, <1>2, <2>1, RememberedKept DEF JournalInv
<1>8. \A o \in Ops : Swept[o].state = "completed" => Swept[o] = db[o]
  BY <1>2, SMT DEF Kept, NoRow
<1>9. ASSUME NEW r \in Known, Recovered(r) # "uncertain" PROVE r \in performed
  <2>1. runs[r].op \in Ops
    BY RunFields DEF JournalInv
  <2>2. Swept[runs[r].op].run = r /\ Swept[runs[r].op].state = "completed"
    BY <1>9 DEF Recovered
  <2> QED
    BY <1>8, <2>1, <2>2 DEF JournalInv, Outcomes
<1>10. reply.run # 0 => reply.run \in Known
  BY Zenon DEF JournalInv, TypeOK, Outcomes, ReplyIsOwn, Known
<1>11. Outcomes'
  BY <1>1, <1>2, <1>8, <1>9, <1>10, OutcomesKept DEF JournalInv
<1>12. JournalBounded'
  BY BoundedRestart DEF JournalInv
<1> QED
  BY <1>6, <1>7, <1>11, <1>12

\* Every step keeps the invariant.
LEMMA NextJournalInv == JournalInv /\ [Next]_vars => JournalInv'
<1> SUFFICES ASSUME JournalInv, [Next]_vars PROVE JournalInv'
  OBVIOUS
<1>1. TypeOK'
  BY NextTypeOK DEF JournalInv
<1>2. now \in Nat /\ now <= now
  BY SMT DEF JournalInv, TypeOK
<1>3. ASSUME NEW r \in RunIds, r <= Len(runs) PROVE r \in Known
  BY <1>3, JournalAssumption, SMT DEF Known, RunIds, JournalInv, TypeOK
<1>4. ASSUME NEW r \in Known, runs[r].stage = "answered" PROVE r \in performed
  BY <1>4 DEF JournalInv, Outcomes
<1>5. SUFFICES Identity' /\ Remembered' /\ Outcomes' /\ JournalBounded'
  BY <1>1 DEF JournalInv
<1>6. CASE Tick
  BY <1>2, <1>6, QuietStep, SMT DEF Tick
<1>7. CASE \E o \in Ops, h \in Hashes : ReplayEntry(o, h)
  <2>1. PICK o \in Ops, h \in Hashes : ReplayEntry(o, h)
    BY <1>7
  <2>2. mem[o] \in Known
    BY <2>1, SMT DEF ReplayEntry, JournalInv, TypeOK, Known
  <2>3. mem[o] \in performed
    BY <1>4, <2>1, <2>2, Zenon DEF ReplayEntry
  <2>4. runs[mem[o]].op = o /\ runs[mem[o]].hash = h
    BY <2>1, Zenon DEF ReplayEntry, Matches, JournalInv, Identity
  <2>5. reply'.run = mem[o] /\ reply'.op = o /\ reply'.hash = h
    BY <2>1, Zenon DEF ReplayEntry, Answer
  <2> QED
    BY <1>2, <2>1, <2>2, <2>3, <2>4, <2>5, QuietStep DEF ReplayEntry
<1>8. CASE \E o \in Ops, h \in Hashes, w \in Waiters : Wait(w, o, h)
  BY <1>2, <1>8, QuietStep DEF Wait
<1>9. CASE \E o \in Ops, h \in Hashes : Reserve(o, h) \/ ReserveLost(o, h)
  BY <1>9, ReservingStep
<1>10. CASE \E o \in Ops, h \in Hashes : ReplayRow(o, h)
  <2>1. PICK o \in Ops, h \in Hashes : ReplayRow(o, h)
    BY <1>10
  <2>2. Kept(CleanRows)
    BY CleanupKeeps DEF JournalInv
  <2>3. CleanRows[o] = db[o] /\ db[o].state = "completed"
    <3>1. CleanRows[o].state = "completed"
      BY <2>1, Zenon DEF ReplayRow
    <3> QED
      BY <2>2, <3>1, SMT DEF Kept, NoRow
  <2>4. db[o].run \in performed
    BY <2>3 DEF JournalInv, Outcomes
  <2>5. db[o].run \in Known /\ db[o].run # 0
    <3>1. performed \subseteq 1..Len(runs)
      BY DEF JournalInv, TypeOK
    <3>2. \A r \in performed : r \in Known /\ r # 0
      BY <3>1, SMT DEF Known
    <3> QED
      BY <2>4, <3>2, Zenon
  <2>6. runs[db[o].run].op = o /\ runs[db[o].run].hash = h
    BY <2>1, <2>3, <2>5 DEF ReplayRow, Matches, JournalInv, Identity
  <2>7. reply'.run = db[o].run /\ reply'.op = o /\ reply'.hash = h
    BY <2>1, <2>3 DEF ReplayRow, Answer
  <2>8. Evict /\ db' = CleanRows /\ UNCHANGED <<now, runs, performed, until>>
    BY <2>1 DEF ReplayRow
  <2> QED
    BY <2>2, <2>4, <2>5, <2>6, <2>7, <2>8, EvictingStep, ZenonT(60)
<1>11. CASE \E o \in Ops : Refuse(o)
  <2>1. Kept(db) /\ Kept(Swept) /\ Kept(CleanRows)
    BY CleanupKeeps DEF JournalInv
  <2>2. Evict /\ Kept(db') /\ UNCHANGED <<now, runs, performed, until, reply>>
    BY <1>11, <2>1, Zenon DEF Refuse
  <2> QED
    BY <2>2, EvictingStep
<1>12. CASE \E w \in Waiters : Deliver(w)
  <2>1. PICK w \in Waiters : Deliver(w)
    BY <1>12
  <2>2. waiting[w] \in Known
    <3>1. waiting \in [Waiters -> 0..Len(runs)]
      BY Zenon DEF JournalInv, TypeOK
    <3>2. waiting[w] # 0
      BY <2>1, Zenon DEF Deliver
    <3> QED
      BY <3>1, <3>2, SMT DEF Known
  <2>3. \/ reply' = reply
        \/ /\ reply'.run \in Known /\ reply'.run \in performed
           /\ reply'.op = runs[reply'.run].op /\ reply'.hash = runs[reply'.run].hash
    BY <1>4, <2>1, <2>2, Zenon DEF Deliver, Answer
  <2> QED
    BY <1>2, <2>1, <2>3, QuietStep, Zenon DEF Deliver
<1>13. CASE \E w \in Waiters : Cancel(w)
  BY <1>2, <1>13, QuietStep, Zenon DEF Cancel
<1>14. CASE \E r \in RunIds : Perform(r)
  <2>1. PICK r \in RunIds : Perform(r)
    BY <1>14
  <2>2. r \in Known /\ "performed" \in Running /\ runs[r].stage \in Running
    BY <1>3, <2>1 DEF Perform, Running
  <2> QED
    BY <2>1, <2>2, RunningStep, Zenon DEF Perform
<1>15. CASE \E r \in RunIds : Complete(r) \/ CompleteFails(r)
  <2>1. PICK r \in RunIds : Complete(r) \/ CompleteFails(r)
    BY <1>15
  <2>2. r \in Known /\ runs[r].stage = "performed"
    BY <1>3, <2>1 DEF Complete, CompleteFails
  <2>3. r \in performed /\ runs[r].stage \in Running
    BY <2>2 DEF JournalInv, Outcomes, Running
  <2>4. performed' = performed \union {r}
    BY <2>1, <2>3 DEF Complete, CompleteFails
  <2>5. PICK st \in Running : runs' = [runs EXCEPT ![r].stage = st]
    BY <2>1 DEF Complete, CompleteFails, Running
  <2>6. Completed(r) \/ UNCHANGED <<db, until>>
    BY <2>1 DEF Complete, CompleteFails
  <2>7. UNCHANGED <<now, mem, order, reply>>
    BY <2>1 DEF Complete, CompleteFails
  <2> QED
    BY <2>2, <2>3, <2>4, <2>5, <2>6, <2>7, RunningStep, ZenonT(60)
<1>16. CASE \E r \in RunIds : Finish(r)
  <2>1. PICK r \in RunIds : Finish(r)
    BY <1>16
  <2>2. r \in Known
    BY <1>3, <2>1 DEF Finish
  <2> QED
    BY <2>1, <2>2, FinishStep
<1>17. CASE Restart
  BY <1>17, RestartedStep
<1>18. CASE UNCHANGED vars
  BY <1>2, <1>18, QuietStep DEF vars
<1> QED
  BY <1>6, <1>7, <1>8, <1>9, <1>10, <1>11, <1>12, <1>13, <1>14, <1>15, <1>16, <1>17, <1>18, ZenonT(60) DEF Next

\* The inductive invariant holds in every state.
LEMMA JournalInvariant == Spec => []JournalInv
  BY InitJournalInv, NextJournalInv, PTL DEF Spec

\* An operation is not performed again while any record of an earlier run of
\* it is retained, across evictions, cleanups, failed writes and restarts.
THEOREM RunsOnceHolds == Spec => []RunsOnce
<1>1. JournalInv => RunsOnce
  <2> SUFFICES ASSUME JournalInv, NEW r \in performed, NEW s \in performed,
                      r < s, runs[r].op = runs[s].op
               PROVE  runs[s].at >= until[r]
    BY DEF RunsOnce
  <2>1. performed \subseteq Known
    BY DEF JournalInv, TypeOK, Known
  <2>2. r \in Known /\ s \in Known
    BY <2>1
  <2>3. until[r] <= runs[s].at
    BY <2>2 DEF JournalInv, Remembered
  <2>4. runs[s].at \in Nat /\ r \in RunIds
    BY <2>2, RunFields DEF JournalInv
  <2>5. until[r] \in Nat
    BY <2>4 DEF JournalInv, TypeOK
  <2> QED
    BY <2>3, <2>4, <2>5
<1> QED
  BY <1>1, JournalInvariant, PTL

\* At most one handler of an operation runs at any time, even after the row
\* of a slow run has expired and was swept.
THEOREM NeverOverlapHolds == Spec => []NeverOverlap
<1>1. JournalInv => NeverOverlap
  BY DEF JournalInv, Identity, NeverOverlap, Known
<1> QED
  BY <1>1, JournalInvariant, PTL

\* Every outcome a client gets was made by a handler called for the client's
\* own operation and request.
THEOREM ReplyIsOwnHolds == Spec => []ReplyIsOwn
<1>1. JournalInv => ReplyIsOwn
  BY DEF JournalInv, Outcomes
<1> QED
  BY <1>1, JournalInvariant, PTL

\* The table never outgrows its bound, and only completed entries can be
\* evicted.
THEOREM JournalBoundedHolds == Spec => []JournalBounded
<1>1. JournalInv => JournalBounded
  BY DEF JournalInv
<1> QED
  BY <1>1, JournalInvariant, PTL

\* The table, a row and the caller that ran the operation answer with its
\* latest run.
THEOREM NoStaleReplyHolds == Spec => NoStaleReply
<1>1. ASSUME JournalInv, [Next]_vars
      PROVE  [reply' # reply /\ UNCHANGED waiting =>
                \A s \in performed : runs[s].op = reply'.op => s <= reply'.run]_vars
  <2> SUFFICES ASSUME Next, reply' # reply, waiting' = waiting,
                      NEW s \in performed, runs[s].op = reply'.op
               PROVE  s <= reply'.run
    BY <1>1 DEF vars
  <2>1. s \in Known
    BY <1>1 DEF JournalInv, TypeOK, Known
  <2>2. CASE \E o \in Ops, h \in Hashes : ReplayEntry(o, h)
    <3>1. PICK o \in Ops, h \in Hashes : ReplayEntry(o, h)
      BY <2>2
    <3>2. reply'.run = mem[o] /\ reply'.op = o /\ mem[o] # 0
      BY <3>1, Zenon DEF ReplayEntry, Answer
    <3> QED
      BY <1>1, <2>1, <3>2, ZenonT(60) DEF JournalInv, Identity
  <2>3. CASE \E o \in Ops, h \in Hashes : ReplayRow(o, h)
    <3>1. PICK o \in Ops, h \in Hashes : ReplayRow(o, h)
      BY <2>3
    <3>2. Kept(CleanRows)
      BY <1>1, CleanupKeeps DEF JournalInv
    <3>3. CleanRows[o] = db[o] /\ db[o].state = "completed"
      <4>1. CleanRows[o].state = "completed"
        BY <3>1, Zenon DEF ReplayRow
      <4> QED
        BY <3>2, <4>1, SMT DEF Kept, NoRow
    <3>4. db[o].run # 0
      BY <1>1, <3>3, RowFields DEF JournalInv, TypeOK
    <3>5. reply'.run = db[o].run /\ reply'.op = o
      BY <3>1, <3>3 DEF ReplayRow, Answer
    <3> QED
      BY <1>1, <2>1, <3>4, <3>5, ZenonT(60) DEF JournalInv, Identity
  <2>4. CASE \E r \in RunIds : Finish(r)
    <3>1. PICK r \in RunIds : Finish(r)
      BY <2>4
    <3>2. r \in Known
      <4>1. r <= Len(runs)
        BY <3>1, Zenon DEF Finish
      <4>2. Len(runs) \in Nat
        BY <1>1, SMT DEF JournalInv, TypeOK
      <4> QED
        BY <4>1, <4>2, JournalAssumption, SMT DEF Known, RunIds
    <3>3. reply'.run = r /\ reply'.op = runs[r].op /\ runs[r].stage = "stored"
      BY <3>1, SMT DEF Finish, Answer
    <3>4. mem[runs[r].op] = r /\ r # 0
      BY <1>1, <3>2, <3>3, SMT DEF JournalInv, Identity, Running, Known
    <3> QED
      BY <1>1, <2>1, <3>3, <3>4, ZenonT(60) DEF JournalInv, Identity
  <2>5. ASSUME NEW w \in Waiters, Deliver(w) PROVE FALSE
    <3>1. waiting \in [Waiters -> 0..Len(runs)]
      BY <1>1, Zenon DEF JournalInv, TypeOK
    <3> QED
      BY <2>5, <3>1, Zenon DEF Deliver
  <2>6. ~Tick /\ ~Restart /\ \A w \in Waiters : ~Cancel(w)
    <3>1. ~Tick
      BY Zenon DEF Tick
    <3>2. ~Restart
      BY DEF Restart
    <3>3. \A w \in Waiters : ~Cancel(w)
      BY DEF Cancel
    <3> QED
      BY <3>1, <3>2, <3>3
  <2>7. \A o \in Ops, h \in Hashes, w \in Waiters : ~Wait(w, o, h)
    BY DEF Wait
  <2>8. \A o \in Ops, h \in Hashes : ~ReserveLost(o, h) /\ ~Reserve(o, h)
    BY Zenon DEF ReserveLost, Reserve
  <2>9. \A o \in Ops : ~Refuse(o)
    BY Zenon DEF Refuse
  <2>10. \A r \in RunIds : ~Perform(r) /\ ~Complete(r) /\ ~CompleteFails(r)
    BY Zenon DEF Perform, Complete, CompleteFails
  <2> QED
    BY <2>2, <2>3, <2>4, <2>5, <2>6, <2>7, <2>8, <2>9, <2>10, ZenonT(60) DEF Next
<1> QED
  BY <1>1, JournalInvariant, PTL DEF Spec, NoStaleReply

-----------------------------------------------------------------------------
(* MeetsContract: every step of the journal is a step of OncePerRetention, *)
(* or changes nothing the contract speaks of.                              *)

\* The journal starts where the contract does.
LEMMA InitContract == Init => Contract!Init
<1> SUFFICES ASSUME Init PROVE Contract!Init
  OBVIOUS
<1>1. Len(runs) = 0
  BY DEF Init
<1>2. Claims = [i \in 1..0 |-> 0] /\ Expiry = [i \in 1..0 |-> 0]
  BY <1>1, SMT DEF Claims, Expiry
<1>3. Due = {} /\ Open = {}
  BY <1>1, SMT DEF Due, Open
<1> QED
  BY <1>1, <1>2, <1>3 DEF Init, NoReply, Contract!Init

\* Runs that only change their stage are the same claims.
LEMMA ClaimsKept ==
  ASSUME TypeOK, SameRuns
  PROVE  /\ Len(runs') = Len(runs) /\ Claims' = Claims
         /\ until' = until => Expiry' = Expiry
  BY DEF SameRuns, Claims, Expiry, Known

\* One run's stage decides whether its claim is due and open.
LEMMA StageSets ==
  ASSUME TypeOK, NEW r \in Known, NEW st \in Stages,
         runs' = [runs EXCEPT ![r].stage = st]
  PROVE  /\ Due' = IF st = "reserved" THEN Due \cup {r} ELSE Due \ {r}
         /\ Open' = IF st \in Running THEN Open \cup {r} ELSE Open \ {r}
<1>1. SameRuns /\ \A i \in Known : runs'[i].stage = IF i = r THEN st ELSE runs[i].stage
  BY StageStep, Zenon
<1>2. Known' = Known
  BY <1>1 DEF SameRuns, Known
<1>3. Due = {i \in Known : runs[i].stage = "reserved"} /\ Open = {i \in Known : runs[i].stage \in Running}
  BY DEF Due, Open, Known
<1>4. Due' = {i \in Known : runs'[i].stage = "reserved"} /\ Open' = {i \in Known : runs'[i].stage \in Running}
  BY <1>2 DEF Due, Open, Known
<1> QED
  BY <1>1, <1>3, <1>4

\* Handing out an outcome is the contract's answer.
LEMMA AnswerMeets ==
  ASSUME JournalInv, JournalInv', UNCHANGED <<now, runs, performed, until>>,
         reply' = reply \/ reply'.run # 0
  PROVE  Contract!Next \/ UNCHANGED Contract!vars
<1>1. Len(runs') = Len(runs) /\ Claims' = Claims /\ Expiry' = Expiry /\ Due' = Due /\ Open' = Open
  BY DEF Claims, Expiry, Due, Open
<1>2. CASE reply' = reply
  BY <1>1, <1>2 DEF Contract!vars
<1>3. CASE reply'.run # 0
  <2> DEFINE i == reply'.run
  <2>1. /\ i \in performed
        /\ runs[i].op = reply'.op /\ runs[i].hash = reply'.hash
    BY <1>3 DEF JournalInv, Outcomes, ReplyIsOwn
  <2>2. i \in 1..Len(runs)
    <3>1. performed \subseteq 1..Len(runs)
      BY Zenon DEF JournalInv, TypeOK
    <3> QED
      BY <2>1, <3>1, Zenon
  <2>3. reply' = [run |-> i, op |-> reply'.op, hash |-> reply'.hash]
    <3>1. reply' \in Reply
      BY Zenon DEF JournalInv, TypeOK
    <3> QED
      BY <1>3, <3>1, SMT DEF Reply, NoReply
  <2>4. Claims[i].op = reply'.op /\ Claims[i].hash = reply'.hash
    BY <2>1, <2>2 DEF Claims
  <2>5. Contract!Answer(i)
    BY <1>1, <2>1, <2>3, <2>4, Zenon DEF Contract!Answer
  <2> QED
    BY <2>2, <2>5, Zenon DEF Contract!Next
<1> QED
  BY <1>2, <1>3

\* A reservation is a claim: no claim of the operation is open, and every
\* earlier one has been kept for its time.
LEMMA ReserveMeets ==
  ASSUME JournalInv, NEW o \in Ops, NEW h \in Hashes, Reserve(o, h) \/ ReserveLost(o, h)
  PROVE  Contract!Claim(o, h)
<1>1. TypeOK /\ Identity /\ Remembered /\ now \in Nat /\ Len(runs) \in Nat
  BY SMT DEF JournalInv, TypeOK
<1>2. PICK st \in {"reserved", "uncertain"} : NewRun(o, h, st)
  BY DEF Reserve, ReserveLost
<1>3. /\ NextRun \in RunIds /\ mem[o] = 0 /\ CleanRows[o].run = 0
      /\ UNCHANGED <<now, performed, reply>>
  BY DEF Reserve, ReserveLost
<1>4. st \in Stages /\ (st = "reserved" <=> st \in Running)
  BY <1>2 DEF Stages, Running
<1>5. /\ runs' \in Seq(Run) /\ Len(runs') = NextRun
      /\ \A i \in Known : runs'[i] = runs[i]
      /\ runs'[NextRun] = [op |-> o, hash |-> h, at |-> now, stage |-> st]
      /\ \A i \in Known : until'[i] = until[i]
      /\ until'[NextRun] = now + Retention
  BY <1>1, <1>2, <1>3, <1>4, NewRunStep
<1>6. Known = 1..Len(runs) /\ NextRun = Len(runs) + 1
  BY DEF Known, NextRun
<1>7. ASSUME NEW i \in 1..Len(runs), Claims[i].op = o
      PROVE  i \notin Open /\ Expiry[i] <= now
  <2>1. i \in Known /\ runs[i].op = o /\ Expiry[i] = until[i]
    BY <1>6, <1>7 DEF Claims, Expiry
  <2>2. i \notin Open
    <3>1. runs[i].stage \in Running => mem[o] = i
      BY <1>1, <2>1 DEF Identity
    <3> QED
      BY <1>3, <1>6, <2>1, <3>1, SMT DEF Open
  <2>3. until[i] <= now
    <3>1. until[i] <= now \/ (db[o].run = i /\ until[i] <= db[o].expires)
      BY <1>1, <2>1 DEF Remembered
    <3>2. CASE db[o].run = i /\ until[i] <= db[o].expires
      <4>1. Kept(CleanRows)
        BY <1>1, CleanupKeeps
      <4>2. db[o].expires <= now
        BY <1>3, <1>6, <2>1, <3>2, <4>1, SMT DEF Kept
      <4>3. until[i] \in Nat /\ db[o].expires \in Nat
        <5>1. i \in RunIds /\ db[o] \in Row /\ until \in [RunIds -> Nat]
          BY <1>1, <2>1, RunFields DEF TypeOK
        <5> QED
          BY <5>1, RowFields
      <4> QED
        BY <1>1, <3>2, <4>2, <4>3, SMT
    <3> QED
      BY <3>1, <3>2
  <2> QED
    BY <2>1, <2>2, <2>3
<1>8. Claims' = [i \in 1..Len(runs) + 1 |->
                   IF i = Len(runs) + 1 THEN [op |-> o, hash |-> h, at |-> now] ELSE Claims[i]]
  BY <1>1, <1>5, <1>6, SMT DEF Claims
<1>9. Expiry' = [i \in 1..Len(runs) + 1 |-> IF i = Len(runs) + 1 THEN now + Retention ELSE Expiry[i]]
  BY <1>1, <1>5, <1>6, SMT DEF Expiry
<1>10. \/ Due' = Due \cup {Len(runs) + 1} /\ Open' = Open \cup {Len(runs) + 1}
       \/ UNCHANGED <<Due, Open>>
  <2>1. \A i \in 1..Len(runs') : i \in Known \/ i = NextRun
    BY <1>1, <1>5, <1>6, SMT
  <2>2. Due' = {i \in Known : runs[i].stage = "reserved"} \cup (IF st = "reserved" THEN {NextRun} ELSE {})
    BY <1>1, <1>5, <1>6, <2>1, SMT DEF Due
  <2>3. Open' = {i \in Known : runs[i].stage \in Running} \cup (IF st \in Running THEN {NextRun} ELSE {})
    BY <1>1, <1>5, <1>6, <2>1, SMT DEF Open
  <2> QED
    BY <1>4, <1>6, <2>2, <2>3 DEF Due, Open
<1> QED
  BY <1>3, <1>5, <1>6, <1>7, <1>8, <1>9, <1>10, ZenonT(60) DEF Contract!Claim

\* The handler's call is the claim's effect; storing, failing to store and
\* closing done are the contract's steps too.
LEMMA RunMeets ==
  ASSUME JournalInv, JournalInv', NEW r \in Known,
         Perform(r) \/ Complete(r) \/ CompleteFails(r) \/ Finish(r)
  PROVE  Contract!Next \/ UNCHANGED Contract!vars
<1>1. TypeOK /\ r \in 1..Len(runs)
  BY DEF JournalInv, Known
<1>2. ASSUME runs[r].stage \in Running PROVE r \in Open
  BY <1>1, <1>2 DEF Open
<1>3. ASSUME runs[r].stage \in {"performed", "stored", "unstored"} PROVE r \in performed /\ r \notin Due /\ r \in Open
  BY <1>1, <1>3 DEF JournalInv, Outcomes, Due, Open, Running
<1>4. ASSUME NEW st \in Stages, runs' = [runs EXCEPT ![r].stage = st]
      PROVE  /\ Len(runs') = Len(runs) /\ Claims' = Claims /\ (until' = until => Expiry' = Expiry)
             /\ Due' = IF st = "reserved" THEN Due \cup {r} ELSE Due \ {r}
             /\ Open' = IF st \in Running THEN Open \cup {r} ELSE Open \ {r}
  BY <1>1, <1>4, StageStep, StageSets, ClaimsKept, Zenon
<1>5. CASE Perform(r)
  <2>1. /\ runs[r].stage = "reserved" /\ runs' = [runs EXCEPT ![r].stage = "performed"]
        /\ performed' = performed \cup {r} /\ UNCHANGED <<now, until, reply>>
    BY <1>5 DEF Perform
  <2>2. "performed" \in Stages /\ "performed" \in Running /\ "reserved" \in Running
    BY DEF Stages, Running
  <2>3. r \in Due /\ r \in Open
    BY <1>1, <2>1, <2>2 DEF Due, Open
  <2>4. Due' = Due \ {r} /\ Open' = Open /\ Len(runs') = Len(runs) /\ Claims' = Claims /\ Expiry' = Expiry
    BY <1>4, <2>1, <2>2, <2>3, Zenon
  <2>5. Contract!Effect(r)
    BY <2>1, <2>3, <2>4 DEF Contract!Effect
  <2> QED
    BY <1>1, <2>5, Zenon DEF Contract!Next
<1>6. CASE Complete(r) \/ CompleteFails(r)
  <2>1. runs[r].stage = "performed" /\ UNCHANGED <<now, performed, reply>>
    BY <1>6 DEF Complete, CompleteFails
  <2>2. PICK st \in {"stored", "unstored"} : runs' = [runs EXCEPT ![r].stage = st]
    BY <1>6 DEF Complete, CompleteFails
  <2>3. st \in Stages /\ st \in Running /\ st # "reserved"
    BY DEF Stages, Running
  <2>4. r \in performed /\ r \notin Due /\ r \in Open
    BY <1>3, <2>1
  <2>5. Due' = Due /\ Open' = Open /\ Len(runs') = Len(runs) /\ Claims' = Claims /\ (until' = until => Expiry' = Expiry)
    BY <1>4, <2>2, <2>3, <2>4, Zenon
  <2>6. CASE until' = until
    BY <2>1, <2>5, <2>6 DEF Contract!vars
  <2>7. CASE until' = [until EXCEPT ![r] = now + Retention]
    <3>1. \A i \in 1..Len(runs) : i \in RunIds
      BY <1>1, RunFields DEF Known
    <3>2. until \in [RunIds -> Nat]
      BY <1>1 DEF TypeOK
    <3>3. Expiry' = [Expiry EXCEPT ![r] = now + Retention]
      BY <1>1, <2>5, <2>7, <3>1, <3>2, ZenonT(60) DEF Expiry
    <3>4. Contract!Keep(r)
      BY <2>1, <2>4, <2>5, <3>3 DEF Contract!Keep
    <3> QED
      BY <1>1, <3>4, Zenon DEF Contract!Next
  <2> QED
    BY <1>6, <2>6, <2>7, Zenon DEF Complete, CompleteFails, Completed
<1>7. CASE Finish(r)
  <2>1. UNCHANGED <<now, performed, until>>
    BY <1>7 DEF Finish
  <2>2. CASE runs[r].stage = "stored"
    <3>1. runs' = [runs EXCEPT ![r].stage = "answered"] /\ reply' = Answer(r, runs[r].op, runs[r].hash)
      BY <1>7, <2>2 DEF Finish
    <3>2. "answered" \in Stages /\ "answered" \notin Running
      BY DEF Stages, Running
    <3>3. r \in performed /\ r \notin Due /\ r \in Open
      BY <1>3, <2>2
    <3>4. Due' = Due /\ Open' = Open \ {r} /\ Len(runs') = Len(runs) /\ Claims' = Claims /\ Expiry' = Expiry
      BY <1>4, <2>1, <3>1, <3>2, <3>3, Zenon
    <3>5. reply' = [run |-> r, op |-> Claims[r].op, hash |-> Claims[r].hash]
      BY <1>1, <3>1 DEF Answer, Claims
    <3>6. Contract!Answer(r)
      BY <2>1, <3>3, <3>4, <3>5 DEF Contract!Answer
    <3> QED
      BY <1>1, <3>6, Zenon DEF Contract!Next
  <2>3. CASE runs[r].stage = "unstored"
    <3>1. runs' = [runs EXCEPT ![r].stage = "uncertain"] /\ reply' = reply
      BY <1>7, <2>3 DEF Finish
    <3>2. "uncertain" \in Stages /\ "uncertain" \notin Running
      BY DEF Stages, Running
    <3>3. r \notin Due /\ r \in Open
      BY <1>3, <2>3
    <3>4. Due' = Due \ {r} /\ Open' = Open \ {r} /\ Len(runs') = Len(runs) /\ Claims' = Claims /\ Expiry' = Expiry
      BY <1>4, <2>1, <3>1, <3>2, <3>3, Zenon
    <3>5. Contract!End({r}) /\ {r} \in SUBSET Open
      BY <2>1, <3>1, <3>3, <3>4 DEF Contract!End
    <3> QED
      BY <3>5, Zenon DEF Contract!Next
  <2> QED
    BY <1>7, <2>2, <2>3 DEF Finish
<1> QED
  BY <1>5, <1>6, <1>7

\* A restart ends every claim that was open.
LEMMA RestartMeets ==
  ASSUME JournalInv, Restart
  PROVE  Contract!Next
<1>1. TypeOK
  BY DEF JournalInv
<1>2. SameRuns /\ (\A r \in Known : runs'[r].stage = Recovered(r)) /\ UNCHANGED <<now, performed, until, reply>>
  BY <1>1, RestartStep DEF Restart
<1>3. Len(runs') = Len(runs) /\ Claims' = Claims /\ Expiry' = Expiry
  BY <1>1, <1>2, ClaimsKept
<1>4. \A r \in Known : runs'[r].stage \in {"answered", "uncertain"}
  BY <1>2 DEF Recovered
<1>5. Due' = {} /\ Open' = {}
  BY <1>3, <1>4 DEF Due, Open, Running, Known
<1>6. Due \subseteq Open
  BY DEF Due, Open, Running
<1>7. Contract!End(Open) /\ Open \in SUBSET Open
  BY <1>2, <1>3, <1>5, <1>6 DEF Contract!End
<1> QED
  BY <1>7, Zenon DEF Contract!Next

\* Every step meets the contract.
LEMMA NextContract ==
  ASSUME JournalInv, JournalInv', [Next]_vars
  PROVE  [Contract!Next]_(Contract!vars)
<1> SUFFICES Contract!Next \/ UNCHANGED Contract!vars
  OBVIOUS
<1>1. ASSUME UNCHANGED <<now, runs, performed, until, reply>>
      PROVE  UNCHANGED Contract!vars
  <2>1. Len(runs') = Len(runs) /\ Claims' = Claims /\ Expiry' = Expiry /\ Due' = Due /\ Open' = Open
    BY <1>1 DEF Claims, Expiry, Due, Open
  <2> QED
    BY <1>1, <2>1 DEF Contract!vars
<1>2. CASE Tick
  <2>1. Len(runs') = Len(runs) /\ Claims' = Claims /\ Expiry' = Expiry /\ Due' = Due /\ Open' = Open
    BY <1>2 DEF Tick, Claims, Expiry, Due, Open
  <2>2. Contract!Time
    BY <1>2, <2>1 DEF Tick, Contract!Time
  <2> QED
    BY <2>2 DEF Contract!Next
<1>3. CASE \E o \in Ops, h \in Hashes : ReplayEntry(o, h)
  <2>1. PICK o \in Ops, h \in Hashes : ReplayEntry(o, h)
    BY <1>3
  <2>2. reply'.run # 0 /\ UNCHANGED <<now, runs, performed, until>>
    BY <2>1 DEF ReplayEntry, Answer
  <2> QED
    BY <2>2, AnswerMeets
<1>4. CASE \E o \in Ops, h \in Hashes : ReplayRow(o, h)
  <2>1. PICK o \in Ops, h \in Hashes : ReplayRow(o, h)
    BY <1>4
  <2>2. CleanRows[o].run # 0
    <3>1. CleanRows \in [Ops -> Row]
      BY CleanupKeeps DEF JournalInv, Kept
    <3>2. CleanRows[o].state = "completed"
      BY <2>1, Zenon DEF ReplayRow
    <3> QED
      BY <3>1, <3>2, RowFields
  <2>3. reply'.run # 0 /\ UNCHANGED <<now, runs, performed, until>>
    BY <2>1, <2>2, Zenon DEF ReplayRow, Answer
  <2> QED
    BY <2>3, AnswerMeets
<1>5. CASE \E o \in Ops, h \in Hashes, w \in Waiters : Wait(w, o, h)
  BY <1>1, <1>5, Zenon DEF Wait
<1>6. CASE \E o \in Ops, h \in Hashes : Reserve(o, h) \/ ReserveLost(o, h)
  <2>1. PICK o \in Ops, h \in Hashes : Contract!Claim(o, h)
    BY <1>6, ReserveMeets
  <2> QED
    BY <2>1, Zenon DEF Contract!Next
<1>7. CASE \E o \in Ops : Refuse(o)
  BY <1>1, <1>7, Zenon DEF Refuse
<1>8. CASE \E w \in Waiters : Deliver(w)
  <2>1. PICK w \in Waiters : Deliver(w)
    BY <1>8
  <2>2. (reply' = reply \/ reply'.run # 0) /\ UNCHANGED <<now, runs, performed, until>>
    BY <2>1 DEF Deliver, Answer
  <2> QED
    BY <2>2, AnswerMeets
<1>9. CASE \E w \in Waiters : Cancel(w)
  BY <1>1, <1>9, Zenon DEF Cancel
<1>10. CASE \E r \in RunIds : Perform(r) \/ Complete(r) \/ CompleteFails(r) \/ Finish(r)
  <2>1. PICK r \in RunIds : Perform(r) \/ Complete(r) \/ CompleteFails(r) \/ Finish(r)
    BY <1>10
  <2>2. r <= Len(runs)
    BY <2>1 DEF Perform, Complete, CompleteFails, Finish
  <2>3. r \in Known
    <3>1. Len(runs) \in Nat /\ r \in Nat /\ r >= 1
      BY JournalAssumption, SMT DEF JournalInv, TypeOK, RunIds
    <3> QED
      BY <2>2, <3>1, SMT DEF Known
  <2> QED
    BY <2>1, <2>3, RunMeets
<1>11. CASE Restart
  BY <1>11, RestartMeets
<1>12. CASE UNCHANGED vars
  BY <1>1, <1>12, Zenon DEF vars
<1> QED
  BY <1>2, <1>3, <1>4, <1>5, <1>6, <1>7, <1>8, <1>9, <1>10, <1>11, <1>12, ZenonT(60) DEF Next

\* The journal, with its bounded table, its rows, the failures of the database
\* and restarts at any point, implements the contract of OncePerRetention.
THEOREM MeetsContractHolds == Spec => MeetsContract
<1>1. JournalInv /\ JournalInv' /\ [Next]_vars => [Contract!Next]_(Contract!vars)
  BY NextContract
<1> QED
  BY <1>1, InitContract, JournalInvariant, PTL DEF Spec, MeetsContract, Contract!Spec
=============================================================================
