---------------------------- MODULE WorkerLeader ----------------------------
(***************************************************************************)
(* The server's background workers run in one instance at a time.  Each    *)
(* instance's Supervisor.Run waits for PostgresLeader.Acquire, a session   *)
(* advisory lock on a pinned connection, runs its workers for one term and *)
(* ends the term when the connection's heartbeat fails, when it is asked   *)
(* to stop, or when every worker has returned.  Workers are joined before  *)
(* the lock is released.                                                   *)
(*                                                                         *)
(* PostgreSQL holds the lock for a backend, not for an instance: a backend *)
(* can end while its instance believes to lead, and can outlive a          *)
(* connection its instance has given up.  Timers count down, so time needs *)
(* no bound.                                                               *)
(***************************************************************************)
EXTENDS Integers

CONSTANTS Instances,  \* server instances on one database
          Workers,    \* the workers of an instance
          Check,      \* LeaderCheck, in clock units
          Timeout,    \* leaderStatementTimeout, in clock units
          MaxFaults   \* bound: connections or backends that fail

ASSUME LeaderAssumption ==
  /\ Check \in Nat /\ Timeout \in Nat \ {0} /\ Timeout <= Check
  /\ MaxFaults \in Nat
  /\ "free" \notin Instances /\ "orphan" \notin Instances

VARIABLES
  phase,     \* where Supervisor.Run is
  stopping,  \* instances whose context was cancelled
  tasks,     \* each worker goroutine: running, backing off, returned
  lock,      \* the connection holding the advisory lock, "orphan" for one
             \* its instance gave up
  row,       \* worker_leader.instance
  link,      \* whether the pinned connection works
  hb,        \* the heartbeat goroutine of hold
  left,      \* time to the ticker's next tick
  ready,     \* a tick is in the ticker's channel
  busy,      \* time the heartbeat statement has taken
  lost,      \* channel lost is closed
  over,      \* history: time the term has gone on without its backend
  overlap,   \* history: time workers of two instances have run at once
  dropped,   \* history: the backend ended before the lock was released
  faults     \* history: failures so far

supervisor == <<phase, stopping, tasks>>
database == <<lock, row, link>>
history == <<dropped, over, overlap, faults>>
heartbeat == <<hb, left, ready, busy, lost>>
vars == <<phase, stopping, tasks, lock, row, link, hb, left, ready, busy, lost, dropped, over, overlap, faults>>

Limit == Check + Timeout

TypeOK ==
  /\ phase \in [Instances -> {"standby", "locked", "inserted", "term", "joining", "releasing", "stopped"}]
  /\ stopping \subseteq Instances
  /\ tasks \in [Instances -> [Workers -> {"off", "run", "backoff"}]]
  /\ lock \in Instances \union {"free", "orphan"}
  /\ row \in Instances \union {"none"}
  /\ link \in [Instances -> BOOLEAN]
  /\ hb \in [Instances -> {"off", "wait", "sent", "applied"}]
  /\ left \in [Instances -> 1..Check]
  /\ ready \in [Instances -> BOOLEAN]
  /\ busy \in [Instances -> 0..Timeout]
  /\ lost \in [Instances -> BOOLEAN]
  /\ over \in [Instances -> 0..(Limit + 1)]
  /\ overlap \in 0..(Limit + 1)
  /\ dropped \in [Instances -> BOOLEAN]
  /\ faults \in 0..MaxFaults

Init ==
  /\ phase = [i \in Instances |-> "standby"]
  /\ stopping = {}
  /\ tasks = [i \in Instances |-> [w \in Workers |-> "off"]]
  /\ lock = "free" /\ row = "none"
  /\ link = [i \in Instances |-> FALSE]
  /\ hb = [i \in Instances |-> "off"]
  /\ left = [i \in Instances |-> Check]
  /\ ready = [i \in Instances |-> FALSE]
  /\ busy = [i \in Instances |-> 0]
  /\ lost = [i \in Instances |-> FALSE]
  /\ over = [i \in Instances |-> 0]
  /\ overlap = 0
  /\ dropped = [i \in Instances |-> FALSE]
  /\ faults = 0

Fault == faults < MaxFaults /\ faults' = faults + 1

-----------------------------------------------------------------------------
(* Acquire.  An attempt that finds the lock taken changes nothing.         *)

TryLock(i) ==
  /\ phase[i] = "standby" /\ i \notin stopping
  /\ lock = "free"
  /\ lock' = i
  /\ phase' = [phase EXCEPT ![i] = "locked"]
  /\ link' = [link EXCEPT ![i] = TRUE]
  /\ dropped' = [dropped EXCEPT ![i] = FALSE]
  /\ over' = [over EXCEPT ![i] = 0]
  /\ UNCHANGED <<stopping, tasks, row, heartbeat, overlap, faults>>

\* After a failed attempt the select in Acquire sees a cancelled context.
Retrying(i) == IF i \in stopping THEN "stopped" ELSE "standby"

\* The lock was granted and the answer is lost, the connection failing or the
\* context being cancelled in between: the connection is discarded.
TryLockLost(i) ==
  /\ phase[i] = "standby" /\ lock = "free"
  /\ IF i \in stopping THEN UNCHANGED faults ELSE Fault
  /\ lock' = "orphan"
  /\ phase' = [phase EXCEPT ![i] = Retrying(i)]
  /\ UNCHANGED <<stopping, tasks, row, link, dropped, over, overlap, heartbeat>>

\* Mutant: the row of an earlier leader is kept.
InsertOnce(i) ==
  /\ phase[i] = "locked" /\ link[i]
  /\ row' = IF row = "none" THEN i ELSE row
  /\ phase' = [phase EXCEPT ![i] = "inserted"]
  /\ UNCHANGED <<stopping, tasks, lock, link, heartbeat, history>>

\* INSERT ... ON CONFLICT(id) DO UPDATE.
Insert(i) ==
  /\ phase[i] = "locked" /\ link[i]
  /\ row' = i
  /\ phase' = [phase EXCEPT ![i] = "inserted"]
  /\ UNCHANGED <<stopping, tasks, lock, link, heartbeat, history>>

\* Its answer arrives, even if the backend ended since: hold and the term.
Announce(i) ==
  /\ phase[i] = "inserted"
  /\ phase' = [phase EXCEPT ![i] = "term"]
  /\ tasks' = [tasks EXCEPT ![i] = [w \in Workers |-> "run"]]
  /\ hb' = [hb EXCEPT ![i] = "wait"]
  /\ left' = [left EXCEPT ![i] = Check]
  /\ ready' = [ready EXCEPT ![i] = FALSE]
  /\ busy' = [busy EXCEPT ![i] = 0]
  /\ lost' = [lost EXCEPT ![i] = FALSE]
  /\ UNCHANGED <<stopping, database, history>>

\* Mutant: returning the connection to the pool keeps its session.
DiscardToPool(i) == IF lock = i THEN i ELSE lock

\* The lock after pg_advisory_unlock, best effort, and closing the connection.
Discard(i) == IF lock # i THEN lock ELSE IF link[i] THEN "free" ELSE "orphan"

\* The connection failed, or the context was cancelled; cancelled during the
\* statement, the driver has closed the connection and cannot unlock.
AnnounceFails(i) ==
  /\ phase[i] \in {"locked", "inserted"} /\ (~link[i] \/ i \in stopping)
  /\ \/ lock' = Discard(i)
     \/ lock = i /\ i \in stopping /\ lock' = "orphan"
  /\ link' = [link EXCEPT ![i] = FALSE]
  /\ phase' = [phase EXCEPT ![i] = Retrying(i)]
  /\ UNCHANGED <<stopping, tasks, row, heartbeat, history>>

StopAcquire(i) ==
  /\ phase[i] = "standby" /\ i \in stopping
  /\ phase' = [phase EXCEPT ![i] = "stopped"]
  /\ UNCHANGED <<stopping, tasks, database, heartbeat, history>>

-----------------------------------------------------------------------------
(* The heartbeat goroutine of hold.                                        *)

\* In release both the tick and stop may be ready; select takes either.
HeartbeatSend(i) ==
  /\ hb[i] = "wait" /\ ready[i]
  /\ hb' = [hb EXCEPT ![i] = "sent"]
  /\ ready' = [ready EXCEPT ![i] = FALSE]
  /\ busy' = [busy EXCEPT ![i] = 0]
  /\ UNCHANGED <<supervisor, database, left, lost, history>>

HeartbeatApplied(i) ==
  /\ hb[i] = "sent" /\ link[i]
  /\ hb' = [hb EXCEPT ![i] = "applied"]
  /\ UNCHANGED <<supervisor, database, left, ready, busy, lost, history>>

\* Mutant: the next heartbeat is a full period after the answer.
HeartbeatSleeps(i) ==
  /\ hb[i] = "applied"
  /\ hb' = [hb EXCEPT ![i] = "wait"]
  /\ left' = [left EXCEPT ![i] = Check]
  /\ ready' = [ready EXCEPT ![i] = FALSE]
  /\ UNCHANGED <<supervisor, database, busy, lost, history>>

\* The answer arrives, even if the backend ended after it applied the update.
HeartbeatOk(i) ==
  /\ hb[i] = "applied"
  /\ hb' = [hb EXCEPT ![i] = "wait"]
  /\ UNCHANGED <<supervisor, database, left, ready, busy, lost, history>>

\* The connection is broken, or the statement takes its whole timeout, upon
\* which the driver closes the connection.
HeartbeatFails(i) ==
  /\ hb[i] \in {"sent", "applied"}
  /\ \/ ~link[i] /\ UNCHANGED faults
     \/ busy[i] = Timeout /\ Fault
  /\ hb' = [hb EXCEPT ![i] = "off"]
  /\ link' = [link EXCEPT ![i] = FALSE]
  /\ lost' = [lost EXCEPT ![i] = TRUE]
  /\ UNCHANGED <<supervisor, lock, row, dropped, over, overlap, left, ready, busy>>

HeartbeatStops(i) ==
  /\ hb[i] = "wait" /\ phase[i] = "releasing"
  /\ hb' = [hb EXCEPT ![i] = "off"]
  /\ UNCHANGED <<supervisor, database, left, ready, busy, lost, history>>

-----------------------------------------------------------------------------
(* runTerm and the rest of Run.                                            *)

\* The workers' context is cancelled, by the term's end or the caller's.
Cancelled(i) == phase[i] = "joining" \/ i \in stopping

\* The worker returned an error and waits for its backoff.
WorkerFails(i, w) ==
  /\ tasks[i][w] = "run" /\ ~Cancelled(i)
  /\ tasks' = [tasks EXCEPT ![i][w] = "backoff"]
  /\ UNCHANGED <<phase, stopping, database, heartbeat, history>>

\* The timer may win against a context that is cancelled too.
WorkerRestarts(i, w) ==
  /\ tasks[i][w] = "backoff"
  /\ tasks' = [tasks EXCEPT ![i][w] = "run"]
  /\ UNCHANGED <<phase, stopping, database, heartbeat, history>>

\* The worker returned nil, or its context is cancelled.
WorkerReturns(i, w) ==
  /\ \/ tasks[i][w] = "run"
     \/ tasks[i][w] = "backoff" /\ Cancelled(i)
  /\ tasks' = [tasks EXCEPT ![i][w] = "off"]
  /\ UNCHANGED <<phase, stopping, database, heartbeat, history>>

Joined(i) == \A w \in Workers : tasks[i][w] = "off"

\* Mutant: the lock is released without waiting for the workers.
CancelTermUnjoined(i) ==
  /\ phase[i] = "term"
  /\ lost[i] \/ i \in stopping \/ (Workers # {} /\ Joined(i))
  /\ phase' = [phase EXCEPT ![i] = "releasing"]
  /\ UNCHANGED <<stopping, tasks, database, heartbeat, history>>

\* lost, the caller's context or the last worker ends the term: cancel().
CancelTerm(i) ==
  /\ phase[i] = "term"
  /\ lost[i] \/ i \in stopping \/ (Workers # {} /\ Joined(i))
  /\ phase' = [phase EXCEPT ![i] = "joining"]
  /\ UNCHANGED <<stopping, tasks, database, heartbeat, history>>

\* <-joined, then release closes stop.
Release(i) ==
  /\ phase[i] = "joining" /\ Joined(i)
  /\ phase' = [phase EXCEPT ![i] = "releasing"]
  /\ UNCHANGED <<stopping, tasks, database, heartbeat, history>>

\* <-stopped, discard; only an instance that lost the lock waits for it again.
Released(i) ==
  /\ phase[i] = "releasing" /\ hb[i] = "off"
  /\ lock' = Discard(i)
  /\ phase' = [phase EXCEPT ![i] = IF lost[i] /\ i \notin stopping THEN "standby" ELSE "stopped"]
  /\ link' = [link EXCEPT ![i] = FALSE]
  /\ UNCHANGED <<stopping, tasks, row, heartbeat, history>>

\* SIGTERM, SIGUSR1 or a node drain.
Stop(i) ==
  /\ i \notin stopping
  /\ stopping' = stopping \union {i}
  /\ UNCHANGED <<phase, tasks, database, heartbeat, history>>

-----------------------------------------------------------------------------
(* The environment: connections fail, backends end, time passes.           *)

LinkFails(i) ==
  /\ lock = i /\ link[i] /\ Fault
  /\ link' = [link EXCEPT ![i] = FALSE]
  /\ UNCHANGED <<supervisor, lock, row, dropped, over, overlap, heartbeat>>

\* A backend is terminated, or notices that its client is gone.
BackendEnds(i) ==
  /\ lock = i
  /\ IF link[i] THEN Fault ELSE UNCHANGED faults
  /\ lock' = "free"
  /\ link' = [link EXCEPT ![i] = FALSE]
  /\ dropped' = [dropped EXCEPT ![i] = TRUE]
  /\ UNCHANGED <<supervisor, row, over, overlap, heartbeat>>

OrphanEnds ==
  /\ lock = "orphan"
  /\ lock' = "free"
  /\ UNCHANGED <<supervisor, row, link, heartbeat, history>>

Sent(i) == hb[i] \in {"sent", "applied"}

\* What is ready to run does so before the clock moves on: a tick or a stop is
\* received, a statement ends by its timeout, a lost term is cancelled.
Prompt(i) ==
  /\ ~(hb[i] = "wait" /\ (ready[i] \/ phase[i] = "releasing"))
  /\ ~(Sent(i) /\ busy[i] = Timeout)
  /\ ~(lost[i] /\ phase[i] = "term")

Working(i) == \E w \in Workers : tasks[i][w] # "off"
Overlapping == \E i, j \in Instances : i # j /\ Working(i) /\ Working(j)

\* time.Ticker: a tick finding the last one unread is dropped.
Tick ==
  /\ \A i \in Instances : Prompt(i)
  /\ left' = [i \in Instances |-> IF hb[i] = "off" \/ left[i] = 1 THEN Check ELSE left[i] - 1]
  /\ ready' = [i \in Instances |-> hb[i] # "off" /\ (ready[i] \/ left[i] = 1)]
  /\ busy' = [i \in Instances |-> IF Sent(i) THEN busy[i] + 1 ELSE 0]
  /\ over' = [i \in Instances |-> IF dropped[i] /\ phase[i] = "term" /\ over[i] <= Limit THEN over[i] + 1 ELSE over[i]]
  /\ overlap' = IF ~Overlapping THEN 0 ELSE IF overlap <= Limit THEN overlap + 1 ELSE overlap
  /\ UNCHANGED <<supervisor, database, hb, lost, dropped, faults>>

Step(i) ==
  \/ TryLock(i) \/ TryLockLost(i) \/ Insert(i) \/ Announce(i) \/ AnnounceFails(i) \/ StopAcquire(i)
  \/ HeartbeatSend(i) \/ HeartbeatApplied(i) \/ HeartbeatOk(i) \/ HeartbeatFails(i) \/ HeartbeatStops(i)
  \/ CancelTerm(i) \/ Release(i) \/ Released(i) \/ Stop(i)
  \/ LinkFails(i) \/ BackendEnds(i)
  \/ \E w \in Workers : WorkerFails(i, w) \/ WorkerRestarts(i, w) \/ WorkerReturns(i, w)

Next == OrphanEnds \/ Tick \/ \E i \in Instances : Step(i)

Spec == Init /\ [][Next]_vars

\* A standby retries, every goroutine that can go on does, a worker returns
\* once its context is cancelled, PostgreSQL ends the backend of a closed
\* connection, and time passes.
FairSpec ==
  /\ Spec
  /\ WF_vars(Tick) /\ WF_vars(OrphanEnds)
  /\ \A i \in Instances :
       /\ WF_vars(Insert(i) \/ Announce(i) \/ AnnounceFails(i))
       /\ WF_vars(TryLock(i)) /\ WF_vars(StopAcquire(i))
       /\ WF_vars(HeartbeatSend(i)) /\ WF_vars(HeartbeatApplied(i) \/ HeartbeatOk(i) \/ HeartbeatFails(i))
       /\ SF_vars(HeartbeatStops(i))
       /\ WF_vars(CancelTerm(i)) /\ WF_vars(Release(i)) /\ WF_vars(Released(i))
       /\ \A w \in Workers : WF_vars(Cancelled(i) /\ WorkerReturns(i, w))

-----------------------------------------------------------------------------
(* Properties.                                                             *)

\* Supervisor.Run, release: workers of two instances run at once only if the
\* backend of one of them ended under it; no handover by the code itself, a
\* stop, a finished term or a failed heartbeat, lets them overlap.
OverlapNeedsLoss ==
  \A i, j \in Instances : i # j /\ Working(i) /\ Working(j) => dropped[i] \/ dropped[j]

\* hold: a term ends at most Check plus the statement timeout after its
\* backend ended or it began, wherever in the heartbeat's cycle that is.
TermEndsInTime ==
  \A i \in Instances : phase[i] = "term" /\ dropped[i] => over[i] <= Limit

Holding(i) == phase[i] \in {"term", "joining", "releasing"}

\* tryLock: while a leader's backend holds the lock, worker_leader names it.
RowNamesLeader ==
  \A i \in Instances : lock = i /\ Holding(i) => row = i

\* discard: leadership is never left with nobody: as long as some instance
\* wants to lead, some instance comes to lead with the lock, or all have
\* stopped.
LeaderAgain ==
  (\E i \in Instances : phase[i] # "stopped") ~>
    \/ \E i \in Instances : phase[i] = "term" /\ lock = i
    \/ \A i \in Instances : phase[i] = "stopped"

\* The comment on PostgresLeader, "Overlap is bounded by Check plus the
\* heartbeat timeout": workers of two instances run at once no longer.
OverlapBounded == overlap <= Limit
=============================================================================
