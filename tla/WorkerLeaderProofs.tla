------------------------- MODULE WorkerLeaderProofs -------------------------
(***************************************************************************)
(* What holds of the worker leadership for any number of instances and     *)
(* workers, any check period and any statement timeout up to it.           *)
(***************************************************************************)
EXTENDS WorkerLeader, TLAPS

\* An instance between being granted the lock and giving its connection up.
Leading(i) == phase[i] \in {"locked", "inserted", "term", "joining", "releasing"}

\* Who has the lock, a working connection, the row and running workers.
Rights ==
  \A i \in Instances :
    /\ Leading(i) => lock = i \/ dropped[i]
    /\ Working(i) => phase[i] \in {"term", "joining"}
    /\ link[i] => lock = i /\ ~dropped[i]
    /\ lock = i /\ Leading(i) /\ phase[i] # "locked" => row = i

\* A term's timers: how long it can have gone on without its backend, by where
\* the heartbeat is.
TimelyAt(i) ==
  /\ ~dropped[i] \/ phase[i] \in {"locked", "inserted"} => over[i] = 0
  /\ phase[i] = "term" =>
       /\ over[i] <= Limit
       /\ hb[i] = "off" => lost[i]
       /\ hb[i] = "wait" => IF ready[i] THEN over[i] <= Check ELSE over[i] + left[i] <= Check
       /\ hb[i] = "sent" => over[i] <= Check + busy[i]
       /\ hb[i] = "applied" => over[i] <= busy[i]
       /\ Sent(i) => ready[i] \/ left[i] + busy[i] <= Check

Timely == \A i \in Instances : TimelyAt(i)

LeaderInv == TypeOK /\ Rights /\ Timely

\* The initial state: everybody stands by, no session exists.
LEMMA InitLeaderInv == Init => LeaderInv
<1> SUFFICES ASSUME Init PROVE LeaderInv
  OBVIOUS
<1> USE LeaderAssumption
<1>1. TypeOK
  BY DEF Init, TypeOK, Limit
<1>2. Rights
  BY DEF Init, Rights, Leading, Working
<1>3. Timely
  BY DEF Init, Timely, TimelyAt, Sent
<1> QED
  BY <1>1, <1>2, <1>3 DEF LeaderInv

\* Every step keeps the variables in their types.
LEMMA NextTypeOK ==
  ASSUME TypeOK, [Next]_vars
  PROVE  TypeOK'
<1> USE LeaderAssumption
<1>1. CASE UNCHANGED vars
  BY <1>1 DEF vars, TypeOK, Limit
<1>2. CASE OrphanEnds
  BY <1>2 DEF OrphanEnds, supervisor, database, heartbeat, history, TypeOK, Limit
<1>3. CASE Tick
  <2>1. left' \in [Instances -> 1..Check] /\ ready' \in [Instances -> BOOLEAN]
    BY <1>3 DEF Tick, TypeOK
  <2>2. busy' \in [Instances -> 0..Timeout]
    <3> SUFFICES ASSUME NEW i \in Instances
                 PROVE  (IF Sent(i) THEN busy[i] + 1 ELSE 0) \in 0..Timeout
      BY <1>3, Zenon DEF Tick
    <3>1. busy[i] \in 0..Timeout
      BY DEF TypeOK
    <3>2. Sent(i) => busy[i] # Timeout
      BY <1>3 DEF Tick, Prompt
    <3> QED
      BY <3>1, <3>2
  <2>3. over' \in [Instances -> 0..(Limit + 1)] /\ overlap' \in 0..(Limit + 1)
    BY <1>3 DEF Tick, TypeOK, Limit
  <2> QED
    BY <1>3, <2>1, <2>2, <2>3, Zenon DEF Tick, supervisor, database, TypeOK
<1>4. ASSUME NEW i \in Instances, Step(i)
      PROVE  TypeOK'
  <2>1. CASE TryLock(i)
    BY <2>1 DEF TryLock, supervisor, database, heartbeat, history, TypeOK, Limit
  <2>2. CASE TryLockLost(i)
    BY <2>2 DEF TryLockLost, Retrying, Fault, supervisor, database, heartbeat, history, TypeOK, Limit
  <2>3. CASE Insert(i)
    BY <2>3 DEF Insert, supervisor, database, heartbeat, history, TypeOK, Limit
  <2>4. CASE Announce(i)
    BY <2>4 DEF Announce, supervisor, database, heartbeat, history, TypeOK, Limit
  <2>5. CASE AnnounceFails(i)
    BY <2>5 DEF AnnounceFails, Discard, Retrying, supervisor, database, heartbeat, history, TypeOK, Limit
  <2>6. CASE StopAcquire(i)
    BY <2>6 DEF StopAcquire, supervisor, database, heartbeat, history, TypeOK, Limit
  <2>7. CASE HeartbeatSend(i)
    BY <2>7 DEF HeartbeatSend, supervisor, database, heartbeat, history, TypeOK, Limit
  <2>8. CASE HeartbeatApplied(i)
    BY <2>8 DEF HeartbeatApplied, supervisor, database, heartbeat, history, TypeOK, Limit
  <2>9. CASE HeartbeatOk(i)
    BY <2>9 DEF HeartbeatOk, supervisor, database, heartbeat, history, TypeOK, Limit
  <2>10. CASE HeartbeatFails(i)
    BY <2>10 DEF HeartbeatFails, Fault, supervisor, database, heartbeat, history, TypeOK, Limit
  <2>11. CASE HeartbeatStops(i)
    BY <2>11 DEF HeartbeatStops, supervisor, database, heartbeat, history, TypeOK, Limit
  <2>12. CASE CancelTerm(i)
    BY <2>12 DEF CancelTerm, supervisor, database, heartbeat, history, TypeOK, Limit
  <2>13. CASE Release(i)
    BY <2>13 DEF Release, Joined, supervisor, database, heartbeat, history, TypeOK, Limit
  <2>14. CASE Released(i)
    BY <2>14 DEF Released, Discard, supervisor, database, heartbeat, history, TypeOK, Limit
  <2>15. CASE Stop(i)
    BY <2>15 DEF Stop, supervisor, database, heartbeat, history, TypeOK, Limit
  <2>16. CASE LinkFails(i)
    BY <2>16 DEF LinkFails, Fault, supervisor, database, heartbeat, history, TypeOK, Limit
  <2>17. CASE BackendEnds(i)
    BY <2>17 DEF BackendEnds, Fault, supervisor, database, heartbeat, history, TypeOK, Limit
  <2>18. ASSUME NEW w \in Workers, WorkerFails(i, w)
       PROVE  TypeOK'
    BY <2>18 DEF WorkerFails, supervisor, database, heartbeat, history, TypeOK, Limit
  <2>19. ASSUME NEW w \in Workers, WorkerRestarts(i, w)
       PROVE  TypeOK'
    BY <2>19 DEF WorkerRestarts, supervisor, database, heartbeat, history, TypeOK, Limit
  <2>20. ASSUME NEW w \in Workers, WorkerReturns(i, w)
       PROVE  TypeOK'
    BY <2>20 DEF WorkerReturns, supervisor, database, heartbeat, history, TypeOK, Limit
  <2> QED
    BY <1>4, <2>1, <2>2, <2>3, <2>4, <2>5, <2>6, <2>7, <2>8, <2>9, <2>10, <2>11, <2>12, <2>13, <2>14, <2>15, <2>16, <2>17, <2>18, <2>19, <2>20, Zenon DEF Step
<1> QED
  BY <1>1, <1>2, <1>3, <1>4, Zenon DEF Next

\* Every step keeps lock, connection, row and workers in agreement.
LEMMA NextRights ==
  ASSUME TypeOK, Rights, [Next]_vars
  PROVE  Rights'
<1> USE LeaderAssumption
<1>1. CASE UNCHANGED vars
  BY <1>1 DEF vars, TypeOK, Rights, Leading, Working
<1>2. CASE OrphanEnds
  BY <1>2 DEF OrphanEnds, supervisor, database, heartbeat, history, TypeOK, Rights, Leading, Working
<1>3. CASE Tick
  BY <1>3 DEF Tick, Prompt, supervisor, database, TypeOK, Rights, Leading, Working
<1>4. ASSUME NEW i \in Instances, Step(i)
      PROVE  Rights'
  <2>1. CASE TryLock(i)
    BY <2>1 DEF TryLock, supervisor, database, heartbeat, history, TypeOK, Rights, Leading, Working
  <2>2. CASE TryLockLost(i)
    BY <2>2 DEF TryLockLost, Retrying, Fault, supervisor, database, heartbeat, history, TypeOK, Rights, Leading, Working
  <2>3. CASE Insert(i)
    BY <2>3 DEF Insert, supervisor, database, heartbeat, history, TypeOK, Rights, Leading, Working
  <2>4. CASE Announce(i)
    BY <2>4 DEF Announce, supervisor, database, heartbeat, history, TypeOK, Rights, Leading, Working
  <2>5. CASE AnnounceFails(i)
    BY <2>5 DEF AnnounceFails, Discard, Retrying, supervisor, database, heartbeat, history, TypeOK, Rights, Leading, Working
  <2>6. CASE StopAcquire(i)
    BY <2>6 DEF StopAcquire, supervisor, database, heartbeat, history, TypeOK, Rights, Leading, Working
  <2>7. CASE HeartbeatSend(i)
    BY <2>7 DEF HeartbeatSend, supervisor, database, heartbeat, history, TypeOK, Rights, Leading, Working
  <2>8. CASE HeartbeatApplied(i)
    BY <2>8 DEF HeartbeatApplied, supervisor, database, heartbeat, history, TypeOK, Rights, Leading, Working
  <2>9. CASE HeartbeatOk(i)
    BY <2>9 DEF HeartbeatOk, supervisor, database, heartbeat, history, TypeOK, Rights, Leading, Working
  <2>10. CASE HeartbeatFails(i)
    BY <2>10 DEF HeartbeatFails, Fault, supervisor, database, heartbeat, history, TypeOK, Rights, Leading, Working
  <2>11. CASE HeartbeatStops(i)
    BY <2>11 DEF HeartbeatStops, supervisor, database, heartbeat, history, TypeOK, Rights, Leading, Working
  <2>12. CASE CancelTerm(i)
    BY <2>12 DEF CancelTerm, supervisor, database, heartbeat, history, TypeOK, Rights, Leading, Working
  <2>13. CASE Release(i)
    BY <2>13 DEF Release, Joined, supervisor, database, heartbeat, history, TypeOK, Rights, Leading, Working
  <2>14. CASE Released(i)
    BY <2>14 DEF Released, Discard, supervisor, database, heartbeat, history, TypeOK, Rights, Leading, Working
  <2>15. CASE Stop(i)
    BY <2>15 DEF Stop, supervisor, database, heartbeat, history, TypeOK, Rights, Leading, Working
  <2>16. CASE LinkFails(i)
    BY <2>16 DEF LinkFails, Fault, supervisor, database, heartbeat, history, TypeOK, Rights, Leading, Working
  <2>17. CASE BackendEnds(i)
    BY <2>17 DEF BackendEnds, Fault, supervisor, database, heartbeat, history, TypeOK, Rights, Leading, Working
  <2>18. ASSUME NEW w \in Workers, WorkerFails(i, w)
       PROVE  Rights'
    BY <2>18 DEF WorkerFails, supervisor, database, heartbeat, history, TypeOK, Rights, Leading, Working
  <2>19. ASSUME NEW w \in Workers, WorkerRestarts(i, w)
       PROVE  Rights'
    BY <2>19 DEF WorkerRestarts, supervisor, database, heartbeat, history, TypeOK, Rights, Leading, Working
  <2>20. ASSUME NEW w \in Workers, WorkerReturns(i, w)
       PROVE  Rights'
    BY <2>20 DEF WorkerReturns, supervisor, database, heartbeat, history, TypeOK, Rights, Leading, Working
  <2> QED
    BY <1>4, <2>1, <2>2, <2>3, <2>4, <2>5, <2>6, <2>7, <2>8, <2>9, <2>10, <2>11, <2>12, <2>13, <2>14, <2>15, <2>16, <2>17, <2>18, <2>19, <2>20, Zenon DEF Step
<1> QED
  BY <1>1, <1>2, <1>3, <1>4, Zenon DEF Next

\* Every step keeps the timers of a term within their bounds.
LEMMA NextTimely ==
  ASSUME TypeOK, Rights, Timely, [Next]_vars
  PROVE  Timely'
<1> USE LeaderAssumption
<1>1. CASE UNCHANGED vars
  BY <1>1 DEF vars, TypeOK, Rights, Timely, TimelyAt, Sent, Limit
<1>2. CASE OrphanEnds
  BY <1>2 DEF OrphanEnds, supervisor, database, heartbeat, history, TypeOK, Rights, Timely, TimelyAt, Sent, Limit
<1>3. CASE Tick
  <2> SUFFICES ASSUME NEW i \in Instances
               PROVE  TimelyAt(i)'
    BY Zenon DEF Timely
  <2>1. /\ left[i] \in 1..Check /\ ready[i] \in BOOLEAN /\ busy[i] \in 0..Timeout
        /\ over[i] \in 0..(Limit + 1) /\ lost[i] \in BOOLEAN /\ dropped[i] \in BOOLEAN
    BY DEF TypeOK
  <2>2. TimelyAt(i)
    BY DEF Timely
  <2>3. Prompt(i)
    BY <1>3 DEF Tick
  <2>4. /\ left'[i] = IF hb[i] = "off" \/ left[i] = 1 THEN Check ELSE left[i] - 1
        /\ ready'[i] = (hb[i] # "off" /\ (ready[i] \/ left[i] = 1))
        /\ busy'[i] = IF Sent(i) THEN busy[i] + 1 ELSE 0
        /\ over'[i] = IF dropped[i] /\ phase[i] = "term" /\ over[i] <= Limit THEN over[i] + 1 ELSE over[i]
    BY <1>3 DEF Tick
  <2>5. UNCHANGED <<phase, hb, lost, dropped>>
    BY <1>3 DEF Tick, supervisor
  <2>6. ~dropped[i] \/ phase[i] \in {"locked", "inserted"} => over'[i] = 0
    BY <2>2, <2>4, Zenon DEF TimelyAt
  <2>7. CASE phase[i] # "term"
    BY <2>5, <2>6, <2>7 DEF TimelyAt
  <2> USE LeaderAssumption DEF Limit
  <2>8. CASE phase[i] = "term" /\ hb[i] = "wait"
    <3>1. ~ready[i] /\ over[i] + left[i] <= Check
      BY <2>2, <2>3, <2>8 DEF TimelyAt, Prompt
    <3>2. left[i] = 1 => ready'[i]
      BY <2>4, <2>8, Zenon
    <3>3. left[i] = 1 => over'[i] <= Check
      BY <2>1, <2>4, <3>1
    <3>4. left[i] # 1 => ~ready'[i]
      BY <2>4, <3>1, Zenon
    <3>5. left[i] # 1 => over'[i] + left'[i] <= Check
      BY <2>1, <2>4, <2>8, <3>1
    <3>6. IF ready'[i] THEN over'[i] <= Check ELSE over'[i] + left'[i] <= Check
      BY <3>2, <3>3, <3>4, <3>5, Zenon
    <3>7. over'[i] <= Limit
      BY <2>1, <2>4, <2>8, <3>1
    <3> QED
      BY <2>5, <2>6, <2>8, <3>6, <3>7 DEF TimelyAt, Sent
  <2>9. CASE phase[i] = "term" /\ Sent(i)
    <3>1. busy[i] < Timeout /\ busy'[i] = busy[i] + 1
      BY <2>1, <2>3, <2>4, <2>9 DEF Prompt
    <3>2. over[i] <= Check + busy[i] /\ (hb[i] = "applied" => over[i] <= busy[i])
      BY <2>1, <2>2, <2>9 DEF TimelyAt, Sent
    <3>3. ready[i] \/ left[i] + busy[i] <= Check
      BY <2>2, <2>9 DEF TimelyAt
    <3>4. ready'[i] \/ left'[i] + busy'[i] <= Check
      <4>1. hb[i] # "off"
        BY <2>9 DEF Sent
      <4>2. ready[i] \/ left[i] = 1 => ready'[i]
        BY <2>4, <4>1, Zenon
      <4>3. left[i] # 1 /\ left[i] + busy[i] <= Check => left'[i] + busy'[i] <= Check
        BY <2>1, <2>4, <3>1, <4>1
      <4> QED
        BY <3>3, <4>2, <4>3
    <3>5. over'[i] <= Check + busy'[i] /\ over'[i] <= Limit /\ (hb[i] = "applied" => over'[i] <= busy'[i])
      BY <2>1, <2>4, <2>9, <3>1, <3>2
    <3> QED
      BY <2>5, <2>6, <2>9, <3>4, <3>5 DEF TimelyAt, Sent
  <2>10. hb[i] \in {"off", "wait", "sent", "applied"}
    BY DEF TypeOK
  <2>11. phase[i] = "term" => hb[i] # "off"
    BY <2>2, <2>3 DEF TimelyAt, Prompt
  <2> QED
    BY <2>7, <2>8, <2>9, <2>10, <2>11 DEF Sent
<1>4. ASSUME NEW i \in Instances, Step(i)
      PROVE  Timely'
  <2>1. CASE TryLock(i)
    BY <2>1 DEF TryLock, supervisor, database, heartbeat, history, TypeOK, Rights, Timely, TimelyAt, Sent, Limit
  <2>2. CASE TryLockLost(i)
    BY <2>2 DEF TryLockLost, Retrying, Fault, supervisor, database, heartbeat, history, TypeOK, Rights, Timely, TimelyAt, Sent, Limit
  <2>3. CASE Insert(i)
    BY <2>3 DEF Insert, supervisor, database, heartbeat, history, TypeOK, Rights, Timely, TimelyAt, Sent, Limit
  <2>4. CASE Announce(i)
    BY <2>4 DEF Announce, supervisor, database, heartbeat, history, TypeOK, Rights, Timely, TimelyAt, Sent, Limit
  <2>5. CASE AnnounceFails(i)
    BY <2>5 DEF AnnounceFails, Discard, Retrying, supervisor, database, heartbeat, history, TypeOK, Rights, Timely, TimelyAt, Sent, Limit
  <2>6. CASE StopAcquire(i)
    BY <2>6 DEF StopAcquire, supervisor, database, heartbeat, history, TypeOK, Rights, Timely, TimelyAt, Sent, Limit
  <2>7. CASE HeartbeatSend(i)
    BY <2>7 DEF HeartbeatSend, supervisor, database, heartbeat, history, TypeOK, Rights, Timely, TimelyAt, Sent, Limit
  <2>8. CASE HeartbeatApplied(i)
    BY <2>8 DEF HeartbeatApplied, supervisor, database, heartbeat, history, TypeOK, Rights, Timely, TimelyAt, Sent, Limit
  <2>9. CASE HeartbeatOk(i)
    BY <2>9 DEF HeartbeatOk, supervisor, database, heartbeat, history, TypeOK, Rights, Timely, TimelyAt, Sent, Limit
  <2>10. CASE HeartbeatFails(i)
    BY <2>10 DEF HeartbeatFails, Fault, supervisor, database, heartbeat, history, TypeOK, Rights, Timely, TimelyAt, Sent, Limit
  <2>11. CASE HeartbeatStops(i)
    BY <2>11 DEF HeartbeatStops, supervisor, database, heartbeat, history, TypeOK, Rights, Timely, TimelyAt, Sent, Limit
  <2>12. CASE CancelTerm(i)
    BY <2>12 DEF CancelTerm, supervisor, database, heartbeat, history, TypeOK, Rights, Timely, TimelyAt, Sent, Limit
  <2>13. CASE Release(i)
    BY <2>13 DEF Release, Joined, supervisor, database, heartbeat, history, TypeOK, Rights, Timely, TimelyAt, Sent, Limit
  <2>14. CASE Released(i)
    BY <2>14 DEF Released, Discard, supervisor, database, heartbeat, history, TypeOK, Rights, Timely, TimelyAt, Sent, Limit
  <2>15. CASE Stop(i)
    BY <2>15 DEF Stop, supervisor, database, heartbeat, history, TypeOK, Rights, Timely, TimelyAt, Sent, Limit
  <2>16. CASE LinkFails(i)
    BY <2>16 DEF LinkFails, Fault, supervisor, database, heartbeat, history, TypeOK, Rights, Timely, TimelyAt, Sent, Limit
  <2>17. CASE BackendEnds(i)
    BY <2>17 DEF BackendEnds, Fault, supervisor, database, heartbeat, history, TypeOK, Rights, Timely, TimelyAt, Sent, Limit
  <2>18. ASSUME NEW w \in Workers, WorkerFails(i, w)
       PROVE  Timely'
    BY <2>18 DEF WorkerFails, supervisor, database, heartbeat, history, TypeOK, Rights, Timely, TimelyAt, Sent, Limit
  <2>19. ASSUME NEW w \in Workers, WorkerRestarts(i, w)
       PROVE  Timely'
    BY <2>19 DEF WorkerRestarts, supervisor, database, heartbeat, history, TypeOK, Rights, Timely, TimelyAt, Sent, Limit
  <2>20. ASSUME NEW w \in Workers, WorkerReturns(i, w)
       PROVE  Timely'
    BY <2>20 DEF WorkerReturns, supervisor, database, heartbeat, history, TypeOK, Rights, Timely, TimelyAt, Sent, Limit
  <2> QED
    BY <1>4, <2>1, <2>2, <2>3, <2>4, <2>5, <2>6, <2>7, <2>8, <2>9, <2>10, <2>11, <2>12, <2>13, <2>14, <2>15, <2>16, <2>17, <2>18, <2>19, <2>20, Zenon DEF Step
<1> QED
  BY <1>1, <1>2, <1>3, <1>4, Zenon DEF Next

\* The inductive invariant holds in every reachable state.
LEMMA LeaderInvariant == Spec => []LeaderInv
<1>1. LeaderInv /\ [Next]_vars => LeaderInv'
  BY NextTypeOK, NextRights, NextTimely, Zenon DEF LeaderInv
<1> QED
  BY InitLeaderInv, <1>1, PTL DEF Spec

\* PostgresLeader and Supervisor: every variable keeps its type; in particular a
\* heartbeat statement never runs past its timeout.
THEOREM LeaderTypeCorrect == Spec => []TypeOK
<1>1. LeaderInv => TypeOK
  BY LeaderAssumption DEF LeaderInv, TypeOK
<1> QED
  BY LeaderInvariant, <1>1, PTL

\* Supervisor.Run, release: workers of two instances run at once only when the
\* backend of one of them ended under it, however many instances there are.
THEOREM OverlapNeedsLossHolds == Spec => []OverlapNeedsLoss
<1>1. LeaderInv => OverlapNeedsLoss
  BY LeaderAssumption DEF LeaderInv, Rights, Leading, OverlapNeedsLoss
<1> QED
  BY LeaderInvariant, <1>1, PTL

\* tryLock: the row names the instance whose backend holds the lock.
THEOREM RowNamesLeaderHolds == Spec => []RowNamesLeader
<1>1. LeaderInv => RowNamesLeader
  BY LeaderAssumption DEF LeaderInv, Rights, Leading, Holding, RowNamesLeader
<1> QED
  BY LeaderInvariant, <1>1, PTL

\* hold: a term ends within Check plus the statement timeout of its backend's
\* end, for every timeout up to Check.
THEOREM TermEndsInTimeHolds == Spec => []TermEndsInTime
<1>1. LeaderInv => TermEndsInTime
  BY LeaderAssumption DEF LeaderInv, Timely, TimelyAt, TermEndsInTime
<1> QED
  BY LeaderInvariant, <1>1, PTL
=============================================================================
