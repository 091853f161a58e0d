-------------------------- MODULE AdmissionLeaseProofs --------------------------
(***************************************************************************)
(* What holds of a lease for any number of releases, of concurrent Closes  *)
(* and of watchers: its invariants, and that it implements LeaseContract.  *)
(***************************************************************************)
EXTENDS AdmissionLease, TLAPS

\* The WaitGroup counts every goroutine of the lease and every release that
\* has not returned.
Counted ==
  /\ \A r \in Releases : rel[r] \in {"armed", "running"} => r \in workers
  /\ \A w \in Watchers : watch[w] \in {"select", "recheck"} => w \in workers
  /\ poll \in {"head", "lookup", "sleep"} => "poll" \in workers
  /\ sub = "select" => "sub" \in workers

\* Nothing is added to the WaitGroup after Close began, so it stays empty
\* after a Close has returned.
Joined ==
  \A c \in Closers :
    /\ pc[c] # "idle" => closed
    /\ pc[c] = "returned" => workers = {}

\* A release was begun exactly when its Once, or its direct call, says so.
Once == \A r \in Releases : runs[r] = IF rel[r] \in {"none", "armed"} THEN 0 ELSE 1

\* What a watcher knows of the authority's state, by the signal it holds.
Fresh ==
  \A w \in Watchers :
    /\ seen[w] <= gen
    /\ watch[w] \in {"admitted", "select"} /\ seen[w] = gen => allowed

LeaseInv == TypeOK /\ Counted /\ Joined /\ Once /\ Fresh

\* The lease Admit returns satisfies the invariant.
LEMMA InitLeaseInv == Init => LeaseInv
<1> SUFFICES ASSUME Init PROVE LeaseInv
  OBVIOUS
<1> USE LeaseAssumption
<1>1. TypeOK
  <2>1. workers \subseteq (Releases \union Watchers \union {"sub", "poll"}) /\ cleanups \subseteq Releases
    BY DEF Init
  <2>2. /\ rel \in [Releases -> {"none", "armed", "running", "direct", "done"}] /\ runs \in [Releases -> Nat]
        /\ todo \in [Closers -> SUBSET Releases]
    BY DEF Init
  <2>3. /\ pc \in [Closers -> {"idle", "cleaning", "returned"}]
        /\ watch \in [Watchers -> {"off", "captured", "admitted", "select", "recheck", "over"}]
        /\ seen \in [Watchers -> 0..MaxChanges] /\ gen \in 0..MaxChanges
    BY DEF Init
  <2> QED
    BY <2>1, <2>2, <2>3, Zenon DEF Init, TypeOK
<1>2. Counted /\ Joined
  BY DEF Init, Counted, Joined
<1>3. Once /\ Fresh
  BY DEF Init, Once, Fresh
<1> QED
  BY <1>1, <1>2, <1>3 DEF LeaseInv

\* Every step keeps the variables in their types.
LEMMA NextTypeOK ==
  ASSUME TypeOK, [Next]_vars
  PROVE  TypeOK'
<1> USE LeaseAssumption
<1>1. CASE UNCHANGED vars
  BY <1>1 DEF vars, TypeOK
<1>2. CASE Revoke
  BY <1>2 DEF Revoke, Cancel, cleaning, observers, authority, TypeOK
<1>3. CASE ParentEnds
  BY <1>3 DEF ParentEnds, Cancel, cleaning, observers, authority, TypeOK
<1>4. CASE Signal
  BY <1>4 DEF Signal, cleaning, observers, authority, TypeOK
<1>5. CASE Change
  BY <1>5 DEF Change, cleaning, observers, authority, TypeOK
<1>6. CASE SubEnds
  BY <1>6 DEF SubEnds, Cancel, cleaning, observers, authority, TypeOK
<1>7. CASE PollStart
  BY <1>7 DEF PollStart, Startable, cleaning, observers, authority, TypeOK
<1>8. CASE PollLooks
  BY <1>8 DEF PollLooks, cleaning, observers, authority, TypeOK
<1>9. CASE PollExits
  BY <1>9 DEF PollExits, cleaning, observers, authority, TypeOK
<1>10. CASE PollRevokes
  BY <1>10 DEF PollRevokes, Cancel, cleaning, observers, authority, TypeOK
<1>11. CASE PollRetains
  BY <1>11 DEF PollRetains, cleaning, observers, authority, TypeOK
<1>12. CASE PollWakes
  BY <1>12 DEF PollWakes, cleaning, observers, authority, TypeOK
<1>13. CASE StopPoll
  BY <1>13 DEF StopPoll, cleaning, observers, authority, TypeOK
<1>14. ASSUME NEW r \in Releases, ReleaseStep(r)
      PROVE  TypeOK'
  <2>1. CASE OnDone(r)
    BY <2>1 DEF OnDone, cleaning, observers, authority, TypeOK
  <2>2. CASE AfterDone(r)
    BY <2>2 DEF AfterDone, Enter, cleaning, observers, authority, TypeOK
  <2>3. CASE Finish(r)
    BY <2>3 DEF Finish, cleaning, observers, authority, TypeOK
  <2> QED
    BY <1>14, <2>1, <2>2, <2>3, Zenon DEF ReleaseStep
<1>15. ASSUME NEW c \in Closers, CloseStep(c)
      PROVE  TypeOK'
  <2>1. CASE CloseBegins(c)
    BY <2>1 DEF CloseBegins, Cancel, cleaning, observers, authority, TypeOK
  <2>2. CASE CloseReturns(c)
    BY <2>2 DEF CloseReturns, cleaning, observers, authority, TypeOK
  <2>3. ASSUME NEW r \in Releases, CloseRuns(c, r)
       PROVE  TypeOK'
    BY <2>3 DEF CloseRuns, Enter, cleaning, observers, authority, TypeOK
  <2>4. ASSUME NEW r \in Releases, ClosePasses(c, r)
       PROVE  TypeOK'
    BY <2>4 DEF ClosePasses, cleaning, observers, authority, TypeOK
  <2> QED
    BY <1>15, <2>1, <2>2, <2>3, <2>4, Zenon DEF CloseStep
<1>16. ASSUME NEW w \in Watchers, WatchStep(w)
      PROVE  TypeOK'
  <2>1. CASE WatchCapture(w)
    BY <2>1 DEF WatchCapture, cleaning, observers, authority, TypeOK
  <2>2. CASE WatchAsk(w)
    BY <2>2 DEF WatchAsk, Cancel, cleaning, observers, authority, TypeOK
  <2>3. CASE WatchStart(w)
    BY <2>3 DEF WatchStart, Startable, cleaning, observers, authority, TypeOK
  <2>4. CASE WatchWakes(w)
    BY <2>4 DEF WatchWakes, cleaning, observers, authority, TypeOK
  <2>5. CASE WatchContinues(w)
    BY <2>5 DEF WatchContinues, cleaning, observers, authority, TypeOK
  <2>6. CASE WatchEnds(w)
    BY <2>6 DEF WatchEnds, Cancel, cleaning, observers, authority, TypeOK
  <2> QED
    BY <1>16, <2>1, <2>2, <2>3, <2>4, <2>5, <2>6, Zenon DEF WatchStep
<1> QED
  BY <1>1, <1>2, <1>3, <1>4, <1>5, <1>6, <1>7, <1>8, <1>9, <1>10, <1>11, <1>12, <1>13, <1>14, <1>15, <1>16, Zenon DEF Next, Outside, PollStep

\* Every step keeps the WaitGroup's count right and, after a Close, at nothing.
LEMMA NextJoined ==
  ASSUME TypeOK, Counted, Joined, [Next]_vars
  PROVE  Counted' /\ Joined'
<1> USE LeaseAssumption
<1>1. CASE UNCHANGED vars
  BY <1>1 DEF vars, TypeOK, Counted, Joined
<1>2. CASE Revoke
  BY <1>2 DEF Revoke, Cancel, cleaning, observers, authority, TypeOK, Counted, Joined
<1>3. CASE ParentEnds
  BY <1>3 DEF ParentEnds, Cancel, cleaning, observers, authority, TypeOK, Counted, Joined
<1>4. CASE Signal
  BY <1>4 DEF Signal, cleaning, observers, authority, TypeOK, Counted, Joined
<1>5. CASE Change
  BY <1>5 DEF Change, cleaning, observers, authority, TypeOK, Counted, Joined
<1>6. CASE SubEnds
  BY <1>6 DEF SubEnds, Cancel, cleaning, observers, authority, TypeOK, Counted, Joined
<1>7. CASE PollStart
  BY <1>7 DEF PollStart, Startable, cleaning, observers, authority, TypeOK, Counted, Joined
<1>8. CASE PollLooks
  BY <1>8 DEF PollLooks, cleaning, observers, authority, TypeOK, Counted, Joined
<1>9. CASE PollExits
  BY <1>9 DEF PollExits, cleaning, observers, authority, TypeOK, Counted, Joined
<1>10. CASE PollRevokes
  BY <1>10 DEF PollRevokes, Cancel, cleaning, observers, authority, TypeOK, Counted, Joined
<1>11. CASE PollRetains
  BY <1>11 DEF PollRetains, cleaning, observers, authority, TypeOK, Counted, Joined
<1>12. CASE PollWakes
  BY <1>12 DEF PollWakes, cleaning, observers, authority, TypeOK, Counted, Joined
<1>13. CASE StopPoll
  BY <1>13 DEF StopPoll, cleaning, observers, authority, TypeOK, Counted, Joined
<1>14. ASSUME NEW r \in Releases, ReleaseStep(r)
      PROVE  Counted' /\ Joined'
  <2>1. CASE OnDone(r)
    BY <2>1 DEF OnDone, cleaning, observers, authority, TypeOK, Counted, Joined
  <2>2. CASE AfterDone(r)
    BY <2>2 DEF AfterDone, Enter, cleaning, observers, authority, TypeOK, Counted, Joined
  <2>3. CASE Finish(r)
    BY <2>3 DEF Finish, cleaning, observers, authority, TypeOK, Counted, Joined
  <2> QED
    BY <1>14, <2>1, <2>2, <2>3, Zenon DEF ReleaseStep
<1>15. ASSUME NEW c \in Closers, CloseStep(c)
      PROVE  Counted' /\ Joined'
  <2>1. CASE CloseBegins(c)
    BY <2>1 DEF CloseBegins, Cancel, cleaning, observers, authority, TypeOK, Counted, Joined
  <2>2. CASE CloseReturns(c)
    BY <2>2 DEF CloseReturns, cleaning, observers, authority, TypeOK, Counted, Joined
  <2>3. ASSUME NEW r \in Releases, CloseRuns(c, r)
       PROVE  Counted' /\ Joined'
    BY <2>3 DEF CloseRuns, Enter, cleaning, observers, authority, TypeOK, Counted, Joined
  <2>4. ASSUME NEW r \in Releases, ClosePasses(c, r)
       PROVE  Counted' /\ Joined'
    BY <2>4 DEF ClosePasses, cleaning, observers, authority, TypeOK, Counted, Joined
  <2> QED
    BY <1>15, <2>1, <2>2, <2>3, <2>4, Zenon DEF CloseStep
<1>16. ASSUME NEW w \in Watchers, WatchStep(w)
      PROVE  Counted' /\ Joined'
  <2>1. CASE WatchCapture(w)
    BY <2>1 DEF WatchCapture, cleaning, observers, authority, TypeOK, Counted, Joined
  <2>2. CASE WatchAsk(w)
    BY <2>2 DEF WatchAsk, Cancel, cleaning, observers, authority, TypeOK, Counted, Joined
  <2>3. CASE WatchStart(w)
    BY <2>3 DEF WatchStart, Startable, cleaning, observers, authority, TypeOK, Counted, Joined
  <2>4. CASE WatchWakes(w)
    BY <2>4 DEF WatchWakes, cleaning, observers, authority, TypeOK, Counted, Joined
  <2>5. CASE WatchContinues(w)
    BY <2>5 DEF WatchContinues, cleaning, observers, authority, TypeOK, Counted, Joined
  <2>6. CASE WatchEnds(w)
    BY <2>6 DEF WatchEnds, Cancel, cleaning, observers, authority, TypeOK, Counted, Joined
  <2> QED
    BY <1>16, <2>1, <2>2, <2>3, <2>4, <2>5, <2>6, Zenon DEF WatchStep
<1> QED
  BY <1>1, <1>2, <1>3, <1>4, <1>5, <1>6, <1>7, <1>8, <1>9, <1>10, <1>11, <1>12, <1>13, <1>14, <1>15, <1>16, Zenon DEF Next, Outside, PollStep

\* Every step keeps the number of calls of each release.
LEMMA NextOnce ==
  ASSUME TypeOK, Once, [Next]_vars
  PROVE  Once'
<1> USE LeaseAssumption
<1>1. CASE UNCHANGED vars
  BY <1>1 DEF vars, TypeOK, Once
<1>2. CASE Revoke
  BY <1>2 DEF Revoke, Cancel, cleaning, observers, authority, TypeOK, Once
<1>3. CASE ParentEnds
  BY <1>3 DEF ParentEnds, Cancel, cleaning, observers, authority, TypeOK, Once
<1>4. CASE Signal
  BY <1>4 DEF Signal, cleaning, observers, authority, TypeOK, Once
<1>5. CASE Change
  BY <1>5 DEF Change, cleaning, observers, authority, TypeOK, Once
<1>6. CASE SubEnds
  BY <1>6 DEF SubEnds, Cancel, cleaning, observers, authority, TypeOK, Once
<1>7. CASE PollStart
  BY <1>7 DEF PollStart, Startable, cleaning, observers, authority, TypeOK, Once
<1>8. CASE PollLooks
  BY <1>8 DEF PollLooks, cleaning, observers, authority, TypeOK, Once
<1>9. CASE PollExits
  BY <1>9 DEF PollExits, cleaning, observers, authority, TypeOK, Once
<1>10. CASE PollRevokes
  BY <1>10 DEF PollRevokes, Cancel, cleaning, observers, authority, TypeOK, Once
<1>11. CASE PollRetains
  BY <1>11 DEF PollRetains, cleaning, observers, authority, TypeOK, Once
<1>12. CASE PollWakes
  BY <1>12 DEF PollWakes, cleaning, observers, authority, TypeOK, Once
<1>13. CASE StopPoll
  BY <1>13 DEF StopPoll, cleaning, observers, authority, TypeOK, Once
<1>14. ASSUME NEW r \in Releases, ReleaseStep(r)
      PROVE  Once'
  <2>1. CASE OnDone(r)
    BY <2>1 DEF OnDone, cleaning, observers, authority, TypeOK, Once
  <2>2. CASE AfterDone(r)
    BY <2>2 DEF AfterDone, Enter, cleaning, observers, authority, TypeOK, Once
  <2>3. CASE Finish(r)
    BY <2>3 DEF Finish, cleaning, observers, authority, TypeOK, Once
  <2> QED
    BY <1>14, <2>1, <2>2, <2>3, Zenon DEF ReleaseStep
<1>15. ASSUME NEW c \in Closers, CloseStep(c)
      PROVE  Once'
  <2>1. CASE CloseBegins(c)
    BY <2>1 DEF CloseBegins, Cancel, cleaning, observers, authority, TypeOK, Once
  <2>2. CASE CloseReturns(c)
    BY <2>2 DEF CloseReturns, cleaning, observers, authority, TypeOK, Once
  <2>3. ASSUME NEW r \in Releases, CloseRuns(c, r)
       PROVE  Once'
    BY <2>3 DEF CloseRuns, Enter, cleaning, observers, authority, TypeOK, Once
  <2>4. ASSUME NEW r \in Releases, ClosePasses(c, r)
       PROVE  Once'
    BY <2>4 DEF ClosePasses, cleaning, observers, authority, TypeOK, Once
  <2> QED
    BY <1>15, <2>1, <2>2, <2>3, <2>4, Zenon DEF CloseStep
<1>16. ASSUME NEW w \in Watchers, WatchStep(w)
      PROVE  Once'
  <2>1. CASE WatchCapture(w)
    BY <2>1 DEF WatchCapture, cleaning, observers, authority, TypeOK, Once
  <2>2. CASE WatchAsk(w)
    BY <2>2 DEF WatchAsk, Cancel, cleaning, observers, authority, TypeOK, Once
  <2>3. CASE WatchStart(w)
    BY <2>3 DEF WatchStart, Startable, cleaning, observers, authority, TypeOK, Once
  <2>4. CASE WatchWakes(w)
    BY <2>4 DEF WatchWakes, cleaning, observers, authority, TypeOK, Once
  <2>5. CASE WatchContinues(w)
    BY <2>5 DEF WatchContinues, cleaning, observers, authority, TypeOK, Once
  <2>6. CASE WatchEnds(w)
    BY <2>6 DEF WatchEnds, Cancel, cleaning, observers, authority, TypeOK, Once
  <2> QED
    BY <1>16, <2>1, <2>2, <2>3, <2>4, <2>5, <2>6, Zenon DEF WatchStep
<1> QED
  BY <1>1, <1>2, <1>3, <1>4, <1>5, <1>6, <1>7, <1>8, <1>9, <1>10, <1>11, <1>12, <1>13, <1>14, <1>15, <1>16, Zenon DEF Next, Outside, PollStep

\* Every step keeps what watchers know; a change makes every signal old.
LEMMA NextFresh ==
  ASSUME TypeOK, Fresh, [Next]_vars
  PROVE  Fresh'
<1> USE LeaseAssumption
<1>1. CASE UNCHANGED vars
  BY <1>1 DEF vars, TypeOK, Fresh
<1>2. CASE Revoke
  BY <1>2 DEF Revoke, Cancel, cleaning, observers, authority, TypeOK, Fresh
<1>3. CASE ParentEnds
  BY <1>3 DEF ParentEnds, Cancel, cleaning, observers, authority, TypeOK, Fresh
<1>4. CASE Signal
  BY <1>4 DEF Signal, cleaning, observers, authority, TypeOK, Fresh
<1>5. CASE Change
  BY <1>5 DEF Change, cleaning, observers, authority, TypeOK, Fresh
<1>6. CASE SubEnds
  BY <1>6 DEF SubEnds, Cancel, cleaning, observers, authority, TypeOK, Fresh
<1>7. CASE PollStart
  BY <1>7 DEF PollStart, Startable, cleaning, observers, authority, TypeOK, Fresh
<1>8. CASE PollLooks
  BY <1>8 DEF PollLooks, cleaning, observers, authority, TypeOK, Fresh
<1>9. CASE PollExits
  BY <1>9 DEF PollExits, cleaning, observers, authority, TypeOK, Fresh
<1>10. CASE PollRevokes
  BY <1>10 DEF PollRevokes, Cancel, cleaning, observers, authority, TypeOK, Fresh
<1>11. CASE PollRetains
  BY <1>11 DEF PollRetains, cleaning, observers, authority, TypeOK, Fresh
<1>12. CASE PollWakes
  BY <1>12 DEF PollWakes, cleaning, observers, authority, TypeOK, Fresh
<1>13. CASE StopPoll
  BY <1>13 DEF StopPoll, cleaning, observers, authority, TypeOK, Fresh
<1>14. ASSUME NEW r \in Releases, ReleaseStep(r)
      PROVE  Fresh'
  <2>1. CASE OnDone(r)
    BY <2>1 DEF OnDone, cleaning, observers, authority, TypeOK, Fresh
  <2>2. CASE AfterDone(r)
    BY <2>2 DEF AfterDone, Enter, cleaning, observers, authority, TypeOK, Fresh
  <2>3. CASE Finish(r)
    BY <2>3 DEF Finish, cleaning, observers, authority, TypeOK, Fresh
  <2> QED
    BY <1>14, <2>1, <2>2, <2>3, Zenon DEF ReleaseStep
<1>15. ASSUME NEW c \in Closers, CloseStep(c)
      PROVE  Fresh'
  <2>1. CASE CloseBegins(c)
    BY <2>1 DEF CloseBegins, Cancel, cleaning, observers, authority, TypeOK, Fresh
  <2>2. CASE CloseReturns(c)
    BY <2>2 DEF CloseReturns, cleaning, observers, authority, TypeOK, Fresh
  <2>3. ASSUME NEW r \in Releases, CloseRuns(c, r)
       PROVE  Fresh'
    BY <2>3 DEF CloseRuns, Enter, cleaning, observers, authority, TypeOK, Fresh
  <2>4. ASSUME NEW r \in Releases, ClosePasses(c, r)
       PROVE  Fresh'
    BY <2>4 DEF ClosePasses, cleaning, observers, authority, TypeOK, Fresh
  <2> QED
    BY <1>15, <2>1, <2>2, <2>3, <2>4, Zenon DEF CloseStep
<1>16. ASSUME NEW w \in Watchers, WatchStep(w)
      PROVE  Fresh'
  <2>1. CASE WatchCapture(w)
    BY <2>1 DEF WatchCapture, cleaning, observers, authority, TypeOK, Fresh
  <2>2. CASE WatchAsk(w)
    BY <2>2 DEF WatchAsk, Cancel, cleaning, observers, authority, TypeOK, Fresh
  <2>3. CASE WatchStart(w)
    BY <2>3 DEF WatchStart, Startable, cleaning, observers, authority, TypeOK, Fresh
  <2>4. CASE WatchWakes(w)
    BY <2>4 DEF WatchWakes, cleaning, observers, authority, TypeOK, Fresh
  <2>5. CASE WatchContinues(w)
    BY <2>5 DEF WatchContinues, cleaning, observers, authority, TypeOK, Fresh
  <2>6. CASE WatchEnds(w)
    BY <2>6 DEF WatchEnds, Cancel, cleaning, observers, authority, TypeOK, Fresh
  <2> QED
    BY <1>16, <2>1, <2>2, <2>3, <2>4, <2>5, <2>6, Zenon DEF WatchStep
<1> QED
  BY <1>1, <1>2, <1>3, <1>4, <1>5, <1>6, <1>7, <1>8, <1>9, <1>10, <1>11, <1>12, <1>13, <1>14, <1>15, <1>16, Zenon DEF Next, Outside, PollStep

\* The inductive invariant holds in every reachable state.
LEMMA LeaseInvariant == Spec => []LeaseInv
<1>1. LeaseInv /\ [Next]_vars => LeaseInv'
  BY NextTypeOK, NextJoined, NextOnce, NextFresh, Zenon DEF LeaseInv
<1> QED
  BY InitLeaseInv, <1>1, PTL DEF Spec

\* Lease: every variable keeps its type.
THEOREM LeaseTypeCorrect == Spec => []TypeOK
<1>1. LeaseInv => TypeOK
  BY DEF LeaseInv, TypeOK
<1> QED
  BY LeaseInvariant, <1>1, PTL

\* Close: whichever Close returns first, nothing the lease started is running
\* then or later.
THEOREM CloseJoinsHolds == Spec => []CloseJoins
<1>1. LeaseInv => CloseJoins
  <2> SUFFICES ASSUME LeaseInv, NEW c \in Closers, pc[c] = "returned"
               PROVE  CloseJoins
    BY Zenon DEF CloseJoins
  <2>1. workers = {}
    BY DEF LeaseInv, Joined
  <2>2. /\ \A r \in Releases : rel[r] \notin {"armed", "running"}
        /\ \A w \in Watchers : watch[w] \notin {"select", "recheck"}
    BY <2>1 DEF LeaseInv, Counted
  <2>3. poll \notin {"head", "lookup", "sleep"} /\ sub # "select"
    BY <2>1 DEF LeaseInv, Counted
  <2>4. poll \in {"off", "over"} /\ sub \in {"none", "over"}
    BY <2>3 DEF LeaseInv, TypeOK
  <2> QED
    BY <2>2, <2>4, Zenon DEF CloseJoins
<1> QED
  BY LeaseInvariant, <1>1, PTL

\* OnDone: a release is begun at most once by all who may begin it.
THEOREM ReleasedOnceHolds == Spec => []ReleasedOnce
<1>1. LeaseInv => ReleasedOnce
  <2> SUFFICES ASSUME LeaseInv, NEW r \in Releases
               PROVE  runs[r] <= 1
    BY Zenon DEF ReleasedOnce
  <2>1. runs[r] = 0 \/ runs[r] = 1
    BY Zenon DEF LeaseInv, Once
  <2> QED
    BY <2>1
<1> QED
  BY LeaseInvariant, <1>1, PTL

\* Watch: a watcher that waits for the next change has seen the current state.
THEOREM NothingMissedHolds == Spec => []NothingMissed
<1>1. LeaseInv => NothingMissed
  BY DEF LeaseInv, Fresh, NothingMissed
<1> QED
  BY LeaseInvariant, <1>1, PTL

-----------------------------------------------------------------------------
(* MeetsContract *)

\* Close cancels the context before it sets anything else in motion.
OverWhenClosed == closed => ctx # "live"

\* What one goroutine's move does to the set of those that run.
LEMMA BusyMoves ==
  ASSUME LeaseInv
  PROVE  /\ UNCHANGED <<watch, poll, sub>> => Busy' = Busy
         /\ UNCHANGED pc => \A stage : Closing(stage)' = Closing(stage)
         /\ \A w \in Watchers : \A next :
              /\ watch' = [watch EXCEPT ![w] = next] /\ UNCHANGED <<poll, sub>>
              => IF next \in {"select", "recheck"} THEN Busy' = Busy \union {w} ELSE Busy' = Busy \ {w}
         /\ \A next :
              /\ poll' = next /\ UNCHANGED <<watch, sub>>
              => IF next \in {"head", "lookup", "sleep"} THEN Busy' = Busy \union {"poll"}
                                                         ELSE Busy' = Busy \ {"poll"}
         /\ sub' = "over" /\ UNCHANGED <<watch, poll>> => Busy' = Busy \ {"sub"}
<1>a. watch \in [Watchers -> {"off", "captured", "admitted", "select", "recheck", "over"}]
  BY DEF LeaseInv, TypeOK
<1>b. "sub" # "poll" /\ "sub" \notin Watchers /\ "poll" \notin Watchers
  BY LeaseAssumption
<1>1. UNCHANGED <<watch, poll, sub>> => Busy' = Busy
  BY DEF Busy, Goroutines
<1>2. UNCHANGED pc => \A stage : Closing(stage)' = Closing(stage)
  BY DEF Closing
<1>3. ASSUME NEW w \in Watchers, NEW next,
             watch' = [watch EXCEPT ![w] = next], UNCHANGED <<poll, sub>>
      PROVE  IF next \in {"select", "recheck"} THEN Busy' = Busy \union {w} ELSE Busy' = Busy \ {w}
  <2>1. watch'[w] = next /\ \A v \in Watchers \ {w} : watch'[v] = watch[v]
    BY <1>a, <1>3
  <2>2. \A g : g \in Busy' <=> \/ g \in Watchers /\ watch'[g] \in {"select", "recheck"}
                               \/ g = "poll" /\ poll \in {"head", "lookup", "sleep"}
                               \/ g = "sub" /\ sub = "select"
    BY <1>3 DEF Busy, Goroutines
  <2>3. \A g : g \in Busy <=> \/ g \in Watchers /\ watch[g] \in {"select", "recheck"}
                              \/ g = "poll" /\ poll \in {"head", "lookup", "sleep"}
                              \/ g = "sub" /\ sub = "select"
    BY DEF Busy, Goroutines
  <2>4. w # "poll" /\ w # "sub"
    BY <1>b
  <2>5. CASE next \in {"select", "recheck"}
    <3>1. \A g : g \in Busy' <=> g \in Busy \union {w}
      BY <2>1, <2>2, <2>3, <2>4, <2>5
    <3> QED
      BY <2>5, <3>1
  <2>6. CASE next \notin {"select", "recheck"}
    <3>1. \A g : g \in Busy' <=> g \in Busy \ {w}
      BY <2>1, <2>2, <2>3, <2>4, <2>6
    <3> QED
      BY <2>6, <3>1
  <2> QED
    BY <2>5, <2>6
<1>4. ASSUME NEW next, poll' = next, UNCHANGED <<watch, sub>>
      PROVE  IF next \in {"head", "lookup", "sleep"} THEN Busy' = Busy \union {"poll"}
                                                     ELSE Busy' = Busy \ {"poll"}
  BY <1>b, <1>4 DEF Busy, Goroutines
<1>5. sub' = "over" /\ UNCHANGED <<watch, poll>> => Busy' = Busy \ {"sub"}
  BY <1>b DEF Busy, Goroutines
<1> QED
  BY <1>1, <1>2, <1>3, <1>4, <1>5

\* Steps that leave the goroutines, the releases and the Closes alone, and at
\* most end the context.
LEMMA QuietContract ==
  ASSUME LeaseInv, OverWhenClosed, UNCHANGED <<closed, rel>>, Busy' = Busy,
         \A stage : Closing(stage)' = Closing(stage),
         ctx' = ctx \/ ctx' # "live"
  PROVE  OverWhenClosed' /\ [Contract!Next]_(Contract!vars)
<1>1. CASE (ctx' # "live") = (ctx # "live")
  BY <1>1 DEF OverWhenClosed, Contract!vars
<1>2. CASE (ctx' # "live") = TRUE
  <2>1. Contract!End
    BY <1>2 DEF Contract!End
  <2> QED
    BY <1>2, <2>1 DEF OverWhenClosed, Contract!Next
<1> QED
  BY <1>1, <1>2

\* Goroutines starting and ending.
LEMMA GoroutineContract ==
  ASSUME LeaseInv, OverWhenClosed, UNCHANGED <<closed, rel>>,
         \A stage : Closing(stage)' = Closing(stage), NEW g \in Goroutines,
         \/ g \notin Busy /\ Startable /\ Busy' = Busy \union {g} /\ ctx' = ctx
         \/ g \in Busy /\ Busy' = Busy \ {g} /\ (ctx' = ctx \/ ctx' # "live")
  PROVE  OverWhenClosed' /\ [Contract!Next]_(Contract!vars)
<1>1. OverWhenClosed'
  BY DEF OverWhenClosed
<1>2. CASE g \notin Busy /\ Startable /\ Busy' = Busy \union {g} /\ ctx' = ctx
  <2>1. Contract!Spawn(g)
    BY <1>2 DEF Contract!Spawn, Startable
  <2> QED
    BY <1>1, <2>1 DEF Contract!Next
<1>3. CASE g \in Busy /\ Busy' = Busy \ {g} /\ (ctx' = ctx \/ ctx' # "live")
  <2>1. (ctx' # "live") \in {ctx # "live", TRUE}
    BY <1>3
  <2>2. Contract!Exit(g)
    BY <1>3, <2>1 DEF Contract!Exit
  <2> QED
    BY <1>1, <2>2 DEF Contract!Next
<1> QED
  BY <1>2, <1>3

\* Releases and Closes.
LEMMA ReleaseContract ==
  ASSUME LeaseInv, OverWhenClosed,
         \/ \E r \in Releases : ReleaseStep(r)
         \/ \E c \in Closers : CloseStep(c)
  PROVE  OverWhenClosed' /\ [Contract!Next]_(Contract!vars)
<1>a. UNCHANGED <<watch, poll, sub>> /\ Busy' = Busy
  <2>1. UNCHANGED <<watch, poll, sub>>
    BY DEF ReleaseStep, CloseStep, OnDone, AfterDone, Enter, Finish, CloseBegins, CloseReturns,
       CloseRuns, ClosePasses, observers
  <2> QED
    BY <2>1, BusyMoves
<1>b. TypeOK /\ Counted /\ Joined
  BY DEF LeaseInv
<1>c. /\ rel \in [Releases -> {"none", "armed", "running", "direct", "done"}]
      /\ pc \in [Closers -> {"idle", "cleaning", "returned"}]
  BY <1>b DEF TypeOK
<1>1. ASSUME NEW r \in Releases, OnDone(r)
      PROVE  OverWhenClosed' /\ [Contract!Next]_(Contract!vars)
  <2>1. /\ rel[r] = "none" /\ UNCHANGED <<ctx, closed, pc>>
        /\ rel' = [rel EXCEPT ![r] = IF closed THEN "direct" ELSE "armed"]
    BY <1>1 DEF OnDone
  <2>2. \A stage : Closing(stage)' = Closing(stage)
    BY <2>1, BusyMoves
  <2>3. Contract!Own(r)
    BY <1>a, <2>1, <2>2 DEF Contract!Own, Contract!Moves
  <2> QED
    BY <2>1, <2>3 DEF Contract!Next, OverWhenClosed
<1>2. ASSUME NEW r \in Releases, Enter(r), ctx # "live"
      PROVE  OverWhenClosed' /\ [Contract!Next]_(Contract!vars)
  <2>1. /\ rel[r] = "armed" /\ UNCHANGED <<ctx, closed, pc>>
        /\ rel' = [rel EXCEPT ![r] = "running"]
    BY <1>2 DEF Enter
  <2>2. \A stage : Closing(stage)' = Closing(stage)
    BY <2>1, BusyMoves
  <2>3. Contract!Release(r)
    BY <1>2, <1>a, <2>1, <2>2 DEF Contract!Release, Contract!Moves
  <2> QED
    BY <2>1, <2>3 DEF Contract!Next, OverWhenClosed
<1>3. ASSUME NEW r \in Releases, Finish(r)
      PROVE  OverWhenClosed' /\ [Contract!Next]_(Contract!vars)
  <2>1. /\ rel[r] \in {"running", "direct"} /\ UNCHANGED <<ctx, closed, pc>>
        /\ rel' = [rel EXCEPT ![r] = "done"]
    BY <1>3 DEF Finish
  <2>2. \A stage : Closing(stage)' = Closing(stage)
    BY <2>1, BusyMoves
  <2>3. Contract!Released(r)
    BY <1>a, <2>1, <2>2 DEF Contract!Released, Contract!Moves
  <2> QED
    BY <2>1, <2>3 DEF Contract!Next, OverWhenClosed
<1>4. ASSUME NEW c \in Closers, CloseBegins(c)
      PROVE  OverWhenClosed' /\ [Contract!Next]_(Contract!vars)
  <2>1. /\ pc[c] = "idle" /\ closed' = TRUE /\ rel' = rel
        /\ pc' = [pc EXCEPT ![c] = "cleaning"]
    BY <1>4 DEF CloseBegins
  <2>2. ctx' # "live"
    BY <1>4 DEF CloseBegins, Cancel
  <2>3. /\ c \notin Closing("cleaning") \union Closing("returned")
        /\ Closing("cleaning")' = Closing("cleaning") \union {c}
        /\ Closing("returned")' = Closing("returned")
    BY <1>c, <2>1 DEF Closing
  <2>4. Contract!Close(c)
    BY <1>a, <2>1, <2>2, <2>3 DEF Contract!Close
  <2> QED
    BY <2>2, <2>4 DEF Contract!Next, OverWhenClosed
<1>5. ASSUME NEW c \in Closers, CloseReturns(c)
      PROVE  OverWhenClosed' /\ [Contract!Next]_(Contract!vars)
  <2>1. /\ pc[c] = "cleaning" /\ workers = {} /\ UNCHANGED <<ctx, closed, rel>>
        /\ pc' = [pc EXCEPT ![c] = "returned"]
    BY <1>5 DEF CloseReturns
  <2>2. /\ c \in Closing("cleaning")
        /\ Closing("cleaning")' = Closing("cleaning") \ {c}
        /\ Closing("returned")' = Closing("returned") \union {c}
    BY <1>c, <2>1 DEF Closing
  <2>3. Busy = {} /\ \A r \in Releases : rel[r] \notin {"armed", "running"}
    BY <1>b, <2>1 DEF Counted, Busy, Goroutines
  <2>4. Contract!Return(c)
    BY <1>a, <2>1, <2>2, <2>3 DEF Contract!Return
  <2> QED
    BY <2>1, <2>4 DEF Contract!Next, OverWhenClosed
<1>6. ASSUME NEW c \in Closers, NEW r \in Releases, CloseRuns(c, r)
      PROVE  OverWhenClosed' /\ [Contract!Next]_(Contract!vars)
  <2>1. Enter(r) /\ closed
    BY <1>b, <1>6 DEF CloseRuns, Joined
  <2> QED
    BY <1>2, <2>1 DEF OverWhenClosed
<1>7. ASSUME NEW c \in Closers, NEW r \in Releases, ClosePasses(c, r)
      PROVE  OverWhenClosed' /\ [Contract!Next]_(Contract!vars)
  <2>1. UNCHANGED <<ctx, closed, rel, pc>>
    BY <1>7 DEF ClosePasses
  <2> QED
    BY <1>a, <2>1, BusyMoves, QuietContract
<1> QED
  BY <1>1, <1>2, <1>3, <1>4, <1>5, <1>6, <1>7 DEF ReleaseStep, CloseStep, AfterDone

\* The goroutines of Watch.
LEMMA WatchContract ==
  ASSUME LeaseInv, OverWhenClosed, NEW w \in Watchers, WatchStep(w)
  PROVE  OverWhenClosed' /\ [Contract!Next]_(Contract!vars)
<1>a. watch \in [Watchers -> {"off", "captured", "admitted", "select", "recheck", "over"}]
  BY DEF LeaseInv, TypeOK
<1>b. w \in Goroutines /\ (w \in Busy <=> watch[w] \in {"select", "recheck"})
  BY LeaseAssumption DEF Busy, Goroutines
<1>c. UNCHANGED <<closed, rel, pc, poll, sub>>
  BY DEF WatchStep, WatchCapture, WatchAsk, WatchStart, WatchWakes, WatchContinues, WatchEnds, cleaning
<1>d. \A stage : Closing(stage)' = Closing(stage)
  BY <1>c, BusyMoves
<1>1. CASE WatchCapture(w)
  <2>1. watch[w] = "off" /\ watch' = [watch EXCEPT ![w] = "captured"] /\ ctx' = ctx
    BY <1>1 DEF WatchCapture
  <2>2. Busy' = Busy \ {w}
    BY <1>c, <2>1, BusyMoves
  <2> QED
    BY <1>b, <1>c, <1>d, <2>1, <2>2, QuietContract
<1>2. CASE WatchAsk(w)
  <2>1. /\ watch[w] = "captured" /\ (ctx' = ctx \/ ctx' # "live")
        /\ watch' = [watch EXCEPT ![w] = IF allowed THEN "admitted" ELSE "over"]
    BY <1>2 DEF WatchAsk, Cancel
  <2>2. Busy' = Busy \ {w}
    BY <1>c, <2>1, BusyMoves
  <2> QED
    BY <1>b, <1>c, <1>d, <2>1, <2>2, QuietContract
<1>3. CASE WatchStart(w)
  <2>1. /\ watch[w] = "admitted" /\ ctx' = ctx
        /\ watch' = [watch EXCEPT ![w] = IF Startable THEN "select" ELSE "over"]
    BY <1>3 DEF WatchStart
  <2>2. CASE Startable
    <3>1. Busy' = Busy \union {w}
      BY <1>c, <2>1, <2>2, BusyMoves
    <3> QED
      BY <1>b, <1>c, <1>d, <2>1, <2>2, <3>1, GoroutineContract
  <2>3. CASE ~Startable
    <3>1. Busy' = Busy \ {w}
      BY <1>c, <2>1, <2>3, BusyMoves
    <3> QED
      BY <1>b, <1>c, <1>d, <2>1, <3>1, QuietContract
  <2> QED
    BY <2>2, <2>3
<1>4. CASE WatchWakes(w) \/ WatchContinues(w)
  <2>1. /\ watch[w] \in {"select", "recheck"} /\ ctx' = ctx
        /\ \E next \in {"select", "recheck"} : watch' = [watch EXCEPT ![w] = next]
    BY <1>4 DEF WatchWakes, WatchContinues
  <2>2. Busy' = Busy \union {w}
    BY <1>c, <2>1, BusyMoves
  <2> QED
    BY <1>b, <1>c, <1>d, <2>1, <2>2, QuietContract
<1>5. CASE WatchEnds(w)
  <2>1. /\ watch[w] \in {"select", "recheck"} /\ (ctx' = ctx \/ ctx' # "live")
        /\ watch' = [watch EXCEPT ![w] = "over"]
    BY <1>5 DEF WatchEnds, Cancel
  <2>2. Busy' = Busy \ {w}
    BY <1>c, <2>1, BusyMoves
  <2> QED
    BY <1>b, <1>c, <1>d, <2>1, <2>2, GoroutineContract
<1> QED
  BY <1>1, <1>2, <1>3, <1>4, <1>5 DEF WatchStep

\* The goroutine of Poll.
LEMMA PollContract ==
  ASSUME LeaseInv, OverWhenClosed, PollStep
  PROVE  OverWhenClosed' /\ [Contract!Next]_(Contract!vars)
<1>b. "poll" \in Goroutines /\ ("poll" \in Busy <=> poll \in {"head", "lookup", "sleep"})
  BY LeaseAssumption DEF Busy, Goroutines
<1>c. UNCHANGED <<closed, rel, pc, watch, sub>>
  BY DEF PollStep, PollStart, PollLooks, PollExits, PollRevokes, PollRetains, PollWakes, cleaning
<1>d. \A stage : Closing(stage)' = Closing(stage)
  BY <1>c, BusyMoves
<1>1. CASE PollStart
  <2>1. poll = "off" /\ ctx' = ctx /\ poll' = IF Startable THEN "head" ELSE "over"
    BY <1>1 DEF PollStart
  <2>2. CASE Startable
    <3>1. Busy' = Busy \union {"poll"}
      BY <1>c, <2>1, <2>2, BusyMoves
    <3> QED
      BY <1>b, <1>c, <1>d, <2>1, <2>2, <3>1, GoroutineContract
  <2>3. CASE ~Startable
    <3>1. Busy' = Busy \ {"poll"}
      BY <1>c, <2>1, <2>3, BusyMoves
    <3> QED
      BY <1>b, <1>c, <1>d, <2>1, <3>1, QuietContract
  <2> QED
    BY <2>2, <2>3
<1>2. CASE PollLooks \/ PollRetains \/ PollWakes
  <2>1. poll \in {"head", "lookup", "sleep"} /\ ctx' = ctx /\ poll' \in {"head", "lookup", "sleep"}
    BY <1>2 DEF PollLooks, PollRetains, PollWakes
  <2>2. Busy' = Busy \union {"poll"}
    BY <1>c, <2>1, BusyMoves
  <2> QED
    BY <1>b, <1>c, <1>d, <2>1, <2>2, QuietContract
<1>3. CASE PollExits \/ PollRevokes
  <2>1. poll \in {"head", "lookup", "sleep"} /\ (ctx' = ctx \/ ctx' # "live") /\ poll' = "over"
    BY <1>3 DEF PollExits, PollRevokes, Cancel
  <2>2. Busy' = Busy \ {"poll"}
    BY <1>c, <2>1, BusyMoves
  <2> QED
    BY <1>b, <1>c, <1>d, <2>1, <2>2, GoroutineContract
<1> QED
  BY <1>1, <1>2, <1>3 DEF PollStep

\* Every step of the lease is a step of the contract or invisible in it.
LEMMA NextContract ==
  ASSUME LeaseInv, OverWhenClosed, [Next]_vars
  PROVE  OverWhenClosed' /\ [Contract!Next]_(Contract!vars)
<1>1. CASE Outside \/ StopPoll \/ UNCHANGED vars
  <2>1. UNCHANGED <<closed, rel, pc, watch, poll, sub>> /\ (ctx' = ctx \/ ctx' # "live")
    BY <1>1 DEF Outside, Revoke, ParentEnds, Signal, Change, StopPoll, Cancel, cleaning, observers, vars
  <2> QED
    BY <2>1, BusyMoves, QuietContract
<1>2. CASE SubEnds
  <2>1. /\ sub = "select" /\ sub' = "over" /\ (ctx' = ctx \/ ctx' # "live")
        /\ UNCHANGED <<closed, rel, pc, watch, poll>>
    BY <1>2 DEF SubEnds, Cancel, cleaning
  <2>2. "sub" \in Goroutines /\ "sub" \in Busy
    BY <2>1 DEF Busy, Goroutines
  <2>3. Busy' = Busy \ {"sub"} /\ \A stage : Closing(stage)' = Closing(stage)
    BY <2>1, BusyMoves
  <2> QED
    BY <2>1, <2>2, <2>3, GoroutineContract
<1> QED
  BY <1>1, <1>2, PollContract, ReleaseContract, WatchContract DEF Next

\* Lease implements LeaseContract for any number of releases, Closes and
\* watchers: the WaitGroup, the cleanup list, sync.Once and the lock together
\* release each resource once, after the end of the lease, start nothing
\* under a lease that is over, and let a Close return only when nothing runs.
THEOREM MeetsContractHolds == Spec => MeetsContract
<1>1. Init => OverWhenClosed /\ Contract!Init
  <2> SUFFICES ASSUME Init PROVE OverWhenClosed /\ Contract!Init
    OBVIOUS
  <2>1. Busy \in SUBSET Goroutines
    BY DEF Busy
  <2>2. Closing("cleaning") = {} /\ Closing("returned") = {}
    BY DEF Init, Closing
  <2>3. (ctx # "live") = FALSE /\ closed = FALSE /\ rel = [r \in Releases |-> "none"]
    BY DEF Init
  <2> QED
    BY <2>1, <2>2, <2>3 DEF Contract!Init, OverWhenClosed
<1>2. LeaseInv /\ OverWhenClosed /\ [Next]_vars => OverWhenClosed' /\ [Contract!Next]_(Contract!vars)
  BY NextContract
<1> QED
  BY <1>1, <1>2, LeaseInvariant, PTL DEF Spec, MeetsContract, Contract!Spec
=============================================================================
