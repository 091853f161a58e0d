-------------------------- MODULE OperationJournal --------------------------
(***************************************************************************)
(* The host runtime's operation journal: a request that mutates carries an *)
(* operation id, and Journal.Execute runs it once, however often clients   *)
(* repeat it.  The journal is a bounded in-memory table over the           *)
(* operation_results rows of the runtime database; completed entries leave *)
(* the table in completion order, rows leave the database when they        *)
(* expire, and a restart rebuilds the table from the rows.                 *)
(*                                                                         *)
(* A run is one reservation of an operation id.  Its position in runs      *)
(* stands for the entry the journal allocates, for the pointer waiters     *)
(* hold, and for the outcome it produces: mem, db, order, waiting and      *)
(* reply all speak of runs.                                                *)
(***************************************************************************)
EXTENDS Integers, Sequences, FiniteSets

CONSTANTS Ops,              \* operation ids
          Hashes,           \* canonical request hashes
          Waiters,          \* callers that find their operation running
          MaxEntries,       \* Journal.max
          Retention,        \* Journal.retention, in clock units
          CleanupInterval,  \* cleanupInterval, in clock units
          MaxRuns,          \* bound: reservations
          MaxTime           \* bound: clock

ASSUME JournalAssumption ==
  /\ MaxEntries \in Nat \ {0}
  /\ Retention \in Nat \ {0}
  /\ CleanupInterval \in Nat
  /\ MaxRuns \in Nat /\ MaxTime \in Nat
  /\ IsFiniteSet(Ops)

VARIABLES
  now,          \* the host's clock
  lastCleanup,  \* Journal.lastCleanup
  runs,         \* every reservation: its operation, its request, how far it is
  mem,          \* Journal.entries: the run of each operation, 0 for no entry
  order,        \* Journal.order: operations that may be evicted, oldest first
  db,           \* operation_results: row.run = 0 for no row
  waiting,      \* the run each waiter waits for, 0 for none
  performed,    \* history: runs whose handler was called
  until,        \* history: latest expiry stored for each run
  reply         \* history: the last outcome handed to a client, and for what

vars == <<now, lastCleanup, runs, mem, order, db, waiting, performed, until, reply>>

RunIds == 1..MaxRuns

\* reserved: row and entry exist; performed: run(ctx) returned; stored and
\* unstored: CompleteOperation returned nil or an error; answered and
\* uncertain: done is closed, with err nil or ErrOperationUncertain.
Running == {"reserved", "performed", "stored", "unstored"}
Stages == Running \union {"answered", "uncertain"}

Run == [op : Ops, hash : Hashes, at : Nat, stage : Stages]

NoRow == [run |-> 0, state |-> "none", expires |-> 0]
Row == {NoRow} \union [run : RunIds, state : {"pending", "completed"}, expires : Nat]

NoReply == [run |-> 0]
Reply == {NoReply} \union [run : RunIds, op : Ops, hash : Hashes]

TypeOK ==
  /\ now \in Nat /\ lastCleanup \in Nat
  /\ runs \in Seq(Run) /\ Len(runs) <= MaxRuns
  /\ mem \in [Ops -> 0..Len(runs)]
  /\ order \in Seq(Ops)
  /\ db \in [Ops -> Row]
  /\ \A o \in Ops : db[o].run <= Len(runs)
  /\ waiting \in [Waiters -> 0..Len(runs)]
  /\ performed \subseteq 1..Len(runs)
  /\ until \in [RunIds -> Nat]
  /\ reply \in Reply /\ reply.run <= Len(runs)

Init ==
  /\ now = 0 /\ lastCleanup = 0
  /\ runs = <<>>
  /\ mem = [o \in Ops |-> 0]
  /\ order = <<>>
  /\ db = [o \in Ops |-> NoRow]
  /\ waiting = [w \in Waiters |-> 0]
  /\ performed = {}
  /\ until = [r \in RunIds |-> 0]
  /\ reply = NoReply

Tick ==
  /\ now < MaxTime
  /\ now' = now + 1
  /\ UNCHANGED <<lastCleanup, runs, mem, order, db, waiting, performed, until, reply>>

Entries == {o \in Ops : mem[o] # 0}

\* Mutant: the request hash of an entry is not compared.
MatchesAny(r, h) == runs[r].hash \in Hashes

Matches(r, h) == runs[r].hash = h

Answer(r, o, h) == [run |-> r, op |-> o, hash |-> h]

-----------------------------------------------------------------------------
(* Execute of an operation that has an entry.  A different request hash is *)
(* ErrOperationConflict; a closed entry with an error is                   *)
(* ErrOperationUncertain; neither changes state.                           *)

ReplayEntry(o, h) ==
  /\ mem[o] # 0 /\ Matches(mem[o], h)
  /\ runs[mem[o]].stage = "answered"
  /\ reply' = Answer(mem[o], o, h)
  /\ UNCHANGED <<now, lastCleanup, runs, mem, order, db, waiting, performed, until>>

Wait(w, o, h) ==
  /\ waiting[w] = 0
  /\ mem[o] # 0 /\ Matches(mem[o], h)
  /\ runs[mem[o]].stage \in Running
  /\ waiting' = [waiting EXCEPT ![w] = mem[o]]
  /\ UNCHANGED <<now, lastCleanup, runs, mem, order, db, performed, until, reply>>

\* <-existing.done: the entry may have left the table by now.
Deliver(w) ==
  /\ waiting[w] # 0
  /\ runs[waiting[w]].stage \notin Running
  /\ waiting' = [waiting EXCEPT ![w] = 0]
  /\ reply' = IF runs[waiting[w]].stage = "answered"
              THEN Answer(waiting[w], runs[waiting[w]].op, runs[waiting[w]].hash)
              ELSE reply
  /\ UNCHANGED <<now, lastCleanup, runs, mem, order, db, performed, until>>

\* <-ctx.Done(): the waiter leaves, the run goes on.
Cancel(w) ==
  /\ waiting[w] # 0
  /\ waiting' = [waiting EXCEPT ![w] = 0]
  /\ UNCHANGED <<now, lastCleanup, runs, mem, order, db, performed, until, reply>>

-----------------------------------------------------------------------------
(* Execute of an operation without an entry, up to the unlock.             *)

\* How many of the oldest completed entries make room for one more.
Evicted ==
  LET excess == Cardinality(Entries) - MaxEntries + 1
  IN  IF excess <= 0 THEN 0
      ELSE IF excess <= Len(order) THEN excess ELSE Len(order)

\* Mutant: a full table drops every entry, running ones included.
EvictAll == IF Cardinality(Entries) >= MaxEntries THEN Entries ELSE {}

EvictedOps == {order[i] : i \in 1..Evicted}

Evict ==
  /\ order' = SubSeq(order, Evicted + 1, Len(order))
  /\ mem' = [o \in Ops |-> IF o \in EvictedOps THEN 0 ELSE mem[o]]

\* No room although every completed entry is gone: ErrJournalFull.
Full == Cardinality(Entries \ EvictedOps) >= MaxEntries

\* Mutant: a row is deleted one unit before it expires.
ExpiredEarly(row) == row.run # 0 /\ row.expires <= now + 1

Expired(row) == row.run # 0 /\ row.expires <= now

\* DELETE FROM operation_results WHERE expires_at<=?
Swept == [o \in Ops |-> IF Expired(db[o]) THEN NoRow ELSE db[o]]

CleanupDue == now >= lastCleanup + CleanupInterval

\* The rows and lastCleanup after the periodic cleanup, if it is due.
CleanRows == IF CleanupDue THEN Swept ELSE db
CleanTime == IF CleanupDue THEN now ELSE lastCleanup

\* INSERT ... ON CONFLICT(operation_id) DO NOTHING: the run that would be
\* inserted, and the rows with it.
NextRun == Len(runs) + 1
Pending == [run |-> NextRun, state |-> "pending", expires |-> now + Retention]
Reserved(o) == [CleanRows EXCEPT ![o] = Pending]

NewRun(o, h, stage) ==
  /\ runs' = Append(runs, [op |-> o, hash |-> h, at |-> now, stage |-> stage])
  /\ until' = [until EXCEPT ![NextRun] = now + Retention]

\* No room (ErrJournalFull), a cleanup that fails before or after it deleted,
\* a row with another hash (ErrOperationConflict) or still pending
\* (ErrOperationUncertain), a failing database: the evictions remain, and so
\* does a cleanup that was made.
Refuse(o) ==
  /\ mem[o] = 0
  /\ Evict
  /\ \/ Full /\ UNCHANGED <<db, lastCleanup>>
     \/ ~Full /\ CleanupDue /\ db' \in {db, Swept} /\ UNCHANGED lastCleanup
     \/ ~Full /\ db' = CleanRows /\ lastCleanup' = CleanTime
  /\ UNCHANGED <<now, runs, waiting, performed, until, reply>>

\* ReserveOperation reports an error, but the row was inserted.
ReserveLost(o, h) ==
  /\ mem[o] = 0 /\ ~Full /\ CleanRows[o].run = 0 /\ NextRun \in RunIds
  /\ Evict
  /\ NewRun(o, h, "uncertain")
  /\ db' = Reserved(o) /\ lastCleanup' = CleanTime
  /\ UNCHANGED <<now, waiting, performed, reply>>

\* The entry was evicted, the row still has the outcome.
ReplayRow(o, h) ==
  /\ mem[o] = 0 /\ ~Full
  /\ CleanRows[o].state = "completed" /\ Matches(CleanRows[o].run, h)
  /\ Evict
  /\ db' = CleanRows /\ lastCleanup' = CleanTime
  /\ reply' = Answer(CleanRows[o].run, o, h)
  /\ UNCHANGED <<now, runs, waiting, performed, until>>

Reserve(o, h) ==
  /\ mem[o] = 0 /\ ~Full /\ CleanRows[o].run = 0 /\ NextRun \in RunIds
  /\ order' = SubSeq(order, Evicted + 1, Len(order))
  /\ mem' = [p \in Ops |-> IF p = o THEN NextRun ELSE IF p \in EvictedOps THEN 0 ELSE mem[p]]
  /\ NewRun(o, h, "reserved")
  /\ db' = Reserved(o) /\ lastCleanup' = CleanTime
  /\ UNCHANGED <<now, waiting, performed, reply>>

-----------------------------------------------------------------------------
(* The rest of Execute for the caller that reserved the operation: the run *)
(* and the completion are outside the lock.                                *)

Perform(r) ==
  /\ r <= Len(runs) /\ runs[r].stage = "reserved"
  /\ runs' = [runs EXCEPT ![r].stage = "performed"]
  /\ performed' = performed \union {r}
  /\ UNCHANGED <<now, lastCleanup, mem, order, db, waiting, until, reply>>

\* UPDATE ... WHERE operation_id=? AND request_hash=? AND state='pending'
Completes(r, row) == row.state = "pending" /\ runs[row.run].hash = runs[r].hash

Completed(r) ==
  /\ Completes(r, db[runs[r].op])
  /\ db' = [db EXCEPT ![runs[r].op] = [run |-> r, state |-> "completed", expires |-> now + Retention]]
  /\ until' = [until EXCEPT ![r] = now + Retention]

Complete(r) ==
  /\ r <= Len(runs) /\ runs[r].stage = "performed"
  /\ Completed(r)
  /\ runs' = [runs EXCEPT ![r].stage = "stored"]
  /\ UNCHANGED <<now, lastCleanup, mem, order, waiting, performed, reply>>

\* The result is too large, the row is gone, or the database fails, before or
\* after the update took effect.
CompleteFails(r) ==
  /\ r <= Len(runs) /\ runs[r].stage = "performed"
  /\ Completed(r) \/ UNCHANGED <<db, until>>
  /\ runs' = [runs EXCEPT ![r].stage = "unstored"]
  /\ UNCHANGED <<now, lastCleanup, mem, order, waiting, performed, reply>>

\* Mutant: done is closed only when the outcome could be stored.
FinishStored(r) ==
  /\ r <= Len(runs)
  /\ runs[r].stage = "stored"
  /\ runs' = [runs EXCEPT ![r].stage = "answered"]
  /\ order' = Append(order, runs[r].op)
  /\ reply' = Answer(r, runs[r].op, runs[r].hash)
  /\ UNCHANGED <<now, lastCleanup, mem, db, waiting, performed, until>>

Finish(r) ==
  /\ r <= Len(runs)
  /\ \/ /\ runs[r].stage = "stored"
        /\ runs' = [runs EXCEPT ![r].stage = "answered"]
        /\ order' = Append(order, runs[r].op)
        /\ reply' = Answer(r, runs[r].op, runs[r].hash)
     \/ /\ runs[r].stage = "unstored"
        /\ runs' = [runs EXCEPT ![r].stage = "uncertain"]
        /\ UNCHANGED <<order, reply>>
  /\ UNCHANGED <<now, lastCleanup, mem, db, waiting, performed, until>>

-----------------------------------------------------------------------------
(* The process ends at any point; NewPersistentJournal rebuilds the table. *)

\* ORDER BY pending first, then completed_at
Before(p, q) ==
  \/ Swept[p].state = "pending" /\ Swept[q].state = "completed"
  \/ Swept[p].state = Swept[q].state /\ Swept[p].expires < Swept[q].expires

\* Mutant: the rows are read back without LIMIT.
LoadsAll(S) == S = {o \in Ops : Swept[o].run # 0}

\* LIMIT maxEntries
Loads(S) ==
  LET rows == {o \in Ops : Swept[o].run # 0}
  IN  /\ S \subseteq rows
      /\ Cardinality(S) <= MaxEntries
      /\ S = rows \/ Cardinality(S) = MaxEntries
      /\ \A o \in S, p \in rows \ S : ~Before(p, o)

\* journal.order: the completed operations of S in completion order.
Orders(S) ==
  LET done == {o \in S : Swept[o].state = "completed"}
  IN  {s \in [1..Cardinality(done) -> done] :
         /\ \A i, j \in DOMAIN s : i # j => s[i] # s[j]
         /\ \A i, j \in DOMAIN s : i < j => ~Before(s[j], s[i])}

\* Mutant: a run whose row is still pending is started again.
RecoveredAgain(r) ==
  LET row == Swept[runs[r].op]
  IN  IF row.run # r THEN "uncertain" ELSE IF row.state = "completed" THEN "answered" ELSE "reserved"

\* A run is known after the restart by its row, if it still has one.
Recovered(r) ==
  LET row == Swept[runs[r].op]
  IN  IF row.run = r /\ row.state = "completed" THEN "answered" ELSE "uncertain"

Restart ==
  /\ db' = Swept /\ lastCleanup' = now
  /\ \E S \in SUBSET Ops :
       /\ Loads(S)
       /\ mem' = [o \in Ops |-> IF o \in S THEN Swept[o].run ELSE 0]
       /\ order' \in Orders(S)
  /\ runs' = [r \in DOMAIN runs |-> [runs[r] EXCEPT !.stage = Recovered(r)]]
  /\ waiting' = [w \in Waiters |-> 0]
  /\ UNCHANGED <<now, performed, until, reply>>

-----------------------------------------------------------------------------
Next ==
  \/ Tick
  \/ \E o \in Ops, h \in Hashes :
       \/ ReplayEntry(o, h)
       \/ \E w \in Waiters : Wait(w, o, h)
       \/ ReserveLost(o, h)
       \/ ReplayRow(o, h)
       \/ Reserve(o, h)
  \/ \E o \in Ops : Refuse(o)
  \/ \E w \in Waiters : Deliver(w) \/ Cancel(w)
  \/ \E r \in RunIds : Perform(r) \/ Complete(r) \/ CompleteFails(r) \/ Finish(r)
  \/ Restart

Spec == Init /\ [][Next]_vars

\* Every handler returns (it runs under the mutation deadline), the database
\* call ends, and a waiter whose channel is closed is scheduled.
FairSpec ==
  /\ Spec
  /\ \A r \in RunIds :
       /\ WF_vars(Perform(r))
       /\ WF_vars(Complete(r) \/ CompleteFails(r))
       /\ WF_vars(Finish(r))
  /\ \A w \in Waiters : WF_vars(Deliver(w))

-----------------------------------------------------------------------------
(* Properties.                                                             *)

\* Execute: a repeated operation is not run again while any record of an
\* earlier run is retained: two runs of one operation whose handlers were
\* both called are a whole retention period apart, counted from the latest
\* expiry stored for the earlier one.
RunsOnce ==
  \A r, s \in performed :
    r < s /\ runs[r].op = runs[s].op => runs[s].at >= until[r]

\* Execute: two handlers of one operation never run at the same time, not
\* even when the row of a run that takes long has expired.
NeverOverlap ==
  \A r, s \in 1..Len(runs) :
    r # s /\ runs[r].op = runs[s].op => ~(runs[r].stage \in Running /\ runs[s].stage \in Running)

\* Execute: an outcome handed to a client, replayed or not, is the outcome of
\* a handler that was called for exactly that operation and that request.
ReplyIsOwn ==
  reply.run # 0 =>
    /\ reply.run \in performed
    /\ runs[reply.run].op = reply.op
    /\ runs[reply.run].hash = reply.hash

\* Execute, NewPersistentJournal: the table never outgrows Journal.max, and
\* order lists completed entries of the table, each once, so eviction never
\* drops an operation that is running or uncertain.
JournalBounded ==
  /\ Cardinality(Entries) <= MaxEntries
  /\ \A i \in 1..Len(order) : mem[order[i]] # 0 /\ runs[mem[order[i]]].stage = "answered"
  /\ \A i, j \in 1..Len(order) : i # j => order[i] # order[j]

\* Execute: the table or a row never answers with a run that a later run of
\* the same operation has superseded.  (A waiter gets the run it found, even
\* if it is scheduled only after that run was forgotten and repeated.)
NoStaleReply ==
  [][reply' # reply /\ UNCHANGED waiting =>
       \A s \in performed : runs[s].op = reply'.op => s <= reply'.run]_vars

\* Execute: whoever waits for a running operation is answered.
WaitersAnswered ==
  \A w \in Waiters : waiting[w] # 0 ~> waiting[w] = 0
-----------------------------------------------------------------------------
(* The contract.  A run is a claim, open until done is closed; what Execute *)
(* hands out is the contract's answer.                                     *)

Claims == [r \in 1..Len(runs) |-> [op |-> runs[r].op, hash |-> runs[r].hash, at |-> runs[r].at]]
Due == {r \in 1..Len(runs) : runs[r].stage = "reserved"}
Open == {r \in 1..Len(runs) : runs[r].stage \in Running}
Expiry == [r \in 1..Len(runs) |-> until[r]]

Contract == INSTANCE OncePerRetention WITH
  count <- Len(runs), claims <- Claims, due <- Due, open <- Open, done <- performed,
  kept <- Expiry, answer <- reply

\* Execute, through evictions, lost answers of the database and restarts, is
\* an implementation of the contract: every step is one the contract allows.
MeetsContract == Contract!Spec
=============================================================================
