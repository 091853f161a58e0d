---------------------------- MODULE AdmissionLease ----------------------------
(***************************************************************************)
(* One admitted connection or operation, Lease of shared/admission: the    *)
(* goroutines it starts (the revocation subscription of Admit, Watch and   *)
(* Poll), the resources OnDone makes it own, and the callers of Close and  *)
(* Revoke, all running at once.                                            *)
(*                                                                         *)
(* The counter of the WaitGroup is the set of what it counts.  A cleanup   *)
(* list is a set: its order is not promised to anybody.                    *)
(***************************************************************************)
EXTENDS Integers

CONSTANTS Releases,   \* the functions given to OnDone
          Closers,    \* the callers of Close
          Watchers,   \* the calls of Watch
          MaxChanges  \* bound: changes of the authority's state

ASSUME LeaseAssumption ==
  /\ Releases \intersect Watchers = {}
  /\ {"sub", "poll"} \intersect (Releases \union Watchers) = {}
  /\ MaxChanges \in Nat

VARIABLES
  ctx,       \* the lease's context: live, or the cause of its end
  closed,    \* Lease.closed
  workers,   \* Lease.workers
  cleanups,  \* Lease.cleanups
  rel,       \* each release: its sync.Once, or its direct call
  runs,      \* history: times a release was begun
  pc, todo,  \* each Close: where it is, the cleanups it took
  sub,       \* the goroutine of Admit
  signal,    \* the channel revoked is closed
  watch,     \* each Watch, first its caller, then its goroutine
  seen,      \* the change signal it holds
  poll,      \* the goroutine of Poll
  stopPoll,  \* the stop function of Poll: not called, called, returned
  allowed,   \* the authority's state
  gen        \* its current change signal

cleaning == <<cleanups, rel, runs, pc, todo>>
observers == <<sub, signal, watch, seen, poll, stopPoll>>
authority == <<allowed, gen>>
vars == <<ctx, closed, workers, cleanups, rel, runs, pc, todo, sub, signal, watch, seen, poll, stopPoll, allowed, gen>>

TypeOK ==
  /\ ctx \in {"live", "revoked", "canceled"}
  /\ closed \in BOOLEAN
  /\ workers \subseteq (Releases \union Watchers \union {"sub", "poll"})
  /\ cleanups \subseteq Releases
  /\ rel \in [Releases -> {"none", "armed", "running", "direct", "done"}]
  /\ runs \in [Releases -> Nat]
  /\ pc \in [Closers -> {"idle", "cleaning", "returned"}]
  /\ todo \in [Closers -> SUBSET Releases]
  /\ sub \in {"none", "select", "over"} /\ signal \in BOOLEAN
  /\ watch \in [Watchers -> {"off", "captured", "admitted", "select", "recheck", "over"}]
  /\ seen \in [Watchers -> 0..MaxChanges]
  /\ poll \in {"off", "head", "lookup", "sleep", "over"}
  /\ stopPoll \in {"no", "called", "returned"}
  /\ allowed \in BOOLEAN /\ gen \in 0..MaxChanges

\* Admit returned a lease, with or without a channel revoked.
Init ==
  /\ ctx = "live" /\ closed = FALSE
  /\ sub \in {"none", "select"}
  /\ workers = IF sub = "select" THEN {"sub"} ELSE {}
  /\ cleanups = {}
  /\ rel = [r \in Releases |-> "none"]
  /\ runs = [r \in Releases |-> 0]
  /\ pc = [c \in Closers |-> "idle"]
  /\ todo = [c \in Closers |-> {}]
  /\ signal = FALSE
  /\ watch = [w \in Watchers |-> "off"]
  /\ seen = [w \in Watchers |-> 0]
  /\ poll = "off" /\ stopPoll = "no"
  /\ allowed = TRUE /\ gen = 0

\* context.CancelCauseFunc: the first cause stays.
Cancel(cause) == ctx' = IF ctx = "live" THEN cause ELSE ctx

\* What start asks before it adds a goroutine.
Startable == ~closed /\ ctx = "live"

-----------------------------------------------------------------------------
(* The outside: Revoke, the parent context, the channel revoked, and the   *)
(* authority, which replaces its change signal with every change.          *)

Revoke ==
  /\ ctx = "live" /\ Cancel("revoked")
  /\ UNCHANGED <<closed, workers, cleaning, observers, authority>>

ParentEnds ==
  /\ ctx = "live" /\ Cancel("canceled")
  /\ UNCHANGED <<closed, workers, cleaning, observers, authority>>

Signal ==
  /\ sub # "none" /\ ~signal
  /\ signal' = TRUE
  /\ UNCHANGED <<ctx, closed, workers, cleaning, sub, watch, seen, poll, stopPoll, authority>>

Change ==
  /\ gen < MaxChanges
  /\ gen' = gen + 1
  /\ allowed' \in BOOLEAN
  /\ UNCHANGED <<ctx, closed, workers, cleaning, observers>>

-----------------------------------------------------------------------------
(* Admit's goroutine.                                                      *)

SubEnds ==
  /\ sub = "select"
  /\ \/ signal /\ Cancel("revoked")
     \/ ctx # "live" /\ UNCHANGED ctx
  /\ sub' = "over"
  /\ workers' = workers \ {"sub"}
  /\ UNCHANGED <<closed, cleaning, signal, watch, seen, poll, stopPoll, authority>>

-----------------------------------------------------------------------------
(* OnDone and Close.                                                       *)

\* Mutant: OnDone does not ask whether the lease was closed.
OnDoneAlways(r) ==
  /\ rel[r] = "none"
  /\ rel' = [rel EXCEPT ![r] = "armed"]
  /\ workers' = workers \union {r}
  /\ cleanups' = cleanups \union {r}
  /\ UNCHANGED <<ctx, closed, runs, pc, todo, observers, authority>>

OnDone(r) ==
  /\ rel[r] = "none"
  /\ IF closed
     THEN /\ rel' = [rel EXCEPT ![r] = "direct"]
          /\ runs' = [runs EXCEPT ![r] = @ + 1]
          /\ UNCHANGED <<workers, cleanups>>
     ELSE /\ rel' = [rel EXCEPT ![r] = "armed"]
          /\ workers' = workers \union {r}
          /\ cleanups' = cleanups \union {r}
          /\ UNCHANGED runs
  /\ UNCHANGED <<ctx, closed, pc, todo, observers, authority>>

\* once.Do enters the release.
Enter(r) ==
  /\ rel[r] = "armed"
  /\ rel' = [rel EXCEPT ![r] = "running"]
  /\ runs' = [runs EXCEPT ![r] = @ + 1]
  /\ UNCHANGED <<ctx, closed, workers, cleanups, pc, todo, observers, authority>>

\* Mutant: a revoked lease keeps its resources until it is closed.
AfterClose(r) == closed /\ Enter(r)

\* context.AfterFunc calls the cleanup when the context ends.
AfterDone(r) == ctx # "live" /\ Enter(r)

\* The release returns, in once.Do with workers.Done.
Finish(r) ==
  /\ rel[r] \in {"running", "direct"}
  /\ rel' = [rel EXCEPT ![r] = "done"]
  /\ workers' = workers \ {r}
  /\ UNCHANGED <<ctx, closed, cleanups, runs, pc, todo, observers, authority>>

\* The section of Close under the lock.
CloseBegins(c) ==
  /\ pc[c] = "idle"
  /\ closed' = TRUE
  /\ Cancel("canceled")
  /\ todo' = [todo EXCEPT ![c] = cleanups]
  /\ cleanups' = {}
  /\ pc' = [pc EXCEPT ![c] = "cleaning"]
  /\ UNCHANGED <<workers, rel, runs, observers, authority>>

\* Mutant: a cleanup is not guarded by sync.Once.
CloseRunsAgain(c, r) ==
  /\ pc[c] = "cleaning" /\ r \in todo[c]
  /\ rel[r] \in {"armed", "running", "done"}
  /\ rel' = [rel EXCEPT ![r] = "running"]
  /\ runs' = [runs EXCEPT ![r] = @ + 1]
  /\ todo' = [todo EXCEPT ![c] = @ \ {r}]
  /\ UNCHANGED <<ctx, closed, workers, cleanups, pc, observers, authority>>

\* Close calls a cleanup nobody has begun.
CloseRuns(c, r) ==
  /\ pc[c] = "cleaning" /\ r \in todo[c]
  /\ Enter(r)

\* once.Do returns when the release has returned, whoever called it.
ClosePasses(c, r) ==
  /\ pc[c] = "cleaning" /\ r \in todo[c] /\ rel[r] = "done"
  /\ todo' = [todo EXCEPT ![c] = @ \ {r}]
  /\ UNCHANGED <<ctx, closed, workers, cleanups, rel, runs, pc, observers, authority>>

\* Mutant: Close waits for its cleanups and not for the goroutines.
CloseReturnsEarly(c) ==
  /\ pc[c] = "cleaning" /\ todo[c] = {}
  /\ pc' = [pc EXCEPT ![c] = "returned"]
  /\ UNCHANGED <<ctx, closed, workers, cleanups, rel, runs, todo, observers, authority>>

\* workers.Wait returns.
CloseReturns(c) ==
  /\ pc[c] = "cleaning" /\ todo[c] = {} /\ workers = {}
  /\ pc' = [pc EXCEPT ![c] = "returned"]
  /\ UNCHANGED <<ctx, closed, workers, cleanups, rel, runs, todo, observers, authority>>

-----------------------------------------------------------------------------
(* Watch.                                                                  *)

WatchCapture(w) ==
  /\ watch[w] = "off"
  /\ seen' = [seen EXCEPT ![w] = gen]
  /\ watch' = [watch EXCEPT ![w] = "captured"]
  /\ UNCHANGED <<ctx, closed, workers, cleaning, sub, signal, poll, stopPoll, authority>>

WatchAsk(w) ==
  /\ watch[w] = "captured"
  /\ IF allowed THEN UNCHANGED ctx ELSE Cancel("revoked")
  /\ watch' = [watch EXCEPT ![w] = IF allowed THEN "admitted" ELSE "over"]
  /\ UNCHANGED <<closed, workers, cleaning, sub, signal, seen, poll, stopPoll, authority>>

\* Mutant: the change signal is taken after the state was asked.
WatchStartCaptures(w) ==
  /\ watch[w] = "admitted"
  /\ watch' = [watch EXCEPT ![w] = IF Startable THEN "select" ELSE "over"]
  /\ workers' = IF Startable THEN workers \union {w} ELSE workers
  /\ seen' = [seen EXCEPT ![w] = gen]
  /\ UNCHANGED <<ctx, closed, cleaning, sub, signal, poll, stopPoll, authority>>

WatchStart(w) ==
  /\ watch[w] = "admitted"
  /\ watch' = [watch EXCEPT ![w] = IF Startable THEN "select" ELSE "over"]
  /\ workers' = IF Startable THEN workers \union {w} ELSE workers
  /\ UNCHANGED <<ctx, closed, cleaning, sub, signal, seen, poll, stopPoll, authority>>

\* <-changed, then changes().
WatchWakes(w) ==
  /\ watch[w] = "select" /\ seen[w] # gen
  /\ seen' = [seen EXCEPT ![w] = gen]
  /\ watch' = [watch EXCEPT ![w] = "recheck"]
  /\ UNCHANGED <<ctx, closed, workers, cleaning, sub, signal, poll, stopPoll, authority>>

WatchContinues(w) ==
  /\ watch[w] = "recheck" /\ allowed
  /\ watch' = [watch EXCEPT ![w] = "select"]
  /\ UNCHANGED <<ctx, closed, workers, cleaning, sub, signal, seen, poll, stopPoll, authority>>

WatchEnds(w) ==
  /\ \/ watch[w] = "recheck" /\ ~allowed /\ Cancel("revoked")
     \/ watch[w] = "select" /\ ctx # "live" /\ UNCHANGED ctx
  /\ watch' = [watch EXCEPT ![w] = "over"]
  /\ workers' = workers \ {w}
  /\ UNCHANGED <<closed, cleaning, sub, signal, seen, poll, stopPoll, authority>>

-----------------------------------------------------------------------------
(* Poll and the stop function it returns.                                  *)

PollStart ==
  /\ poll = "off"
  /\ poll' = IF Startable THEN "head" ELSE "over"
  /\ workers' = IF Startable THEN workers \union {"poll"} ELSE workers
  /\ UNCHANGED <<ctx, closed, cleaning, sub, signal, watch, seen, stopPoll, authority>>

PollLooks ==
  /\ poll = "head" /\ ctx = "live" /\ stopPoll = "no"
  /\ poll' = "lookup"
  /\ UNCHANGED <<ctx, closed, workers, cleaning, sub, signal, watch, seen, stopPoll, authority>>

\* Mutant: the loop asks its own stop function only.
PollExitsOnStop ==
  /\ poll = "head" /\ stopPoll # "no"
  /\ poll' = "over"
  /\ workers' = workers \ {"poll"}
  /\ UNCHANGED <<ctx, closed, cleaning, sub, signal, watch, seen, stopPoll, authority>>

PollExits ==
  /\ poll = "head" /\ (ctx # "live" \/ stopPoll # "no")
  /\ poll' = "over"
  /\ workers' = workers \ {"poll"}
  /\ UNCHANGED <<ctx, closed, cleaning, sub, signal, watch, seen, stopPoll, authority>>

\* check returned ErrRevoked.
PollRevokes ==
  /\ poll = "lookup"
  /\ Cancel("revoked")
  /\ poll' = "over"
  /\ workers' = workers \ {"poll"}
  /\ UNCHANGED <<closed, cleaning, sub, signal, watch, seen, stopPoll, authority>>

\* Mutant: the loop ends with an error of the lookup.
PollGivesUp ==
  /\ poll = "lookup"
  /\ \/ poll' = "over" /\ workers' = workers \ {"poll"}
     \/ allowed /\ poll' = "sleep" /\ UNCHANGED workers
  /\ UNCHANGED <<ctx, closed, cleaning, sub, signal, watch, seen, stopPoll, authority>>

\* check returned nil, or an error that is not the authority's answer.
PollRetains ==
  /\ poll = "lookup"
  /\ poll' = "sleep"
  /\ UNCHANGED <<ctx, closed, workers, cleaning, sub, signal, watch, seen, stopPoll, authority>>

\* The ticker, the backoff timer or the context.
PollWakes ==
  /\ poll = "sleep"
  /\ poll' = "head"
  /\ UNCHANGED <<ctx, closed, workers, cleaning, sub, signal, watch, seen, stopPoll, authority>>

StopPoll ==
  /\ poll # "off"
  /\ \/ stopPoll = "no" /\ stopPoll' = "called"
     \/ stopPoll = "called" /\ poll = "over" /\ stopPoll' = "returned"
  /\ UNCHANGED <<ctx, closed, workers, cleaning, sub, signal, watch, seen, poll, authority>>

-----------------------------------------------------------------------------
Outside == Revoke \/ ParentEnds \/ Signal \/ Change
ReleaseStep(r) == OnDone(r) \/ AfterDone(r) \/ Finish(r)
CloseStep(c) ==
  \/ CloseBegins(c) \/ CloseReturns(c)
  \/ \E r \in Releases : CloseRuns(c, r) \/ ClosePasses(c, r)
WatchStep(w) ==
  WatchCapture(w) \/ WatchAsk(w) \/ WatchStart(w) \/ WatchWakes(w) \/ WatchContinues(w) \/ WatchEnds(w)
PollStep == PollStart \/ PollLooks \/ PollExits \/ PollRevokes \/ PollRetains \/ PollWakes

Next ==
  \/ Outside \/ SubEnds \/ PollStep \/ StopPoll
  \/ \E r \in Releases : ReleaseStep(r)
  \/ \E c \in Closers : CloseStep(c)
  \/ \E w \in Watchers : WatchStep(w)

Spec == Init /\ [][Next]_vars

\* Goroutines run, a Close or Watch once begun goes on, releases return, a
\* lookup ends and does not fail for ever once access is withdrawn.
FairSpec ==
  /\ Spec
  /\ WF_vars(SubEnds)
  /\ WF_vars(poll # "off" /\ PollStep) /\ SF_vars(~allowed /\ PollRevokes)
  /\ WF_vars(stopPoll = "called" /\ StopPoll)
  /\ \A r \in Releases : WF_vars(AfterDone(r)) /\ WF_vars(Finish(r))
  /\ \A c \in Closers :
       /\ WF_vars(CloseReturns(c))
       /\ \A r \in Releases : WF_vars(CloseRuns(c, r)) /\ WF_vars(ClosePasses(c, r))
  /\ \A w \in Watchers : WF_vars(watch[w] # "off" /\ WatchStep(w))

-----------------------------------------------------------------------------
(* Properties.                                                             *)

\* Close joins: once any caller's Close has returned, also one that lost the
\* race for the cleanups, no goroutine and no release of the lease runs or
\* will start, except in a caller of OnDone that came later.
CloseJoins ==
  (\E c \in Closers : pc[c] = "returned") =>
    /\ \A r \in Releases : rel[r] \notin {"armed", "running"}
    /\ \A w \in Watchers : watch[w] \notin {"select", "recheck"}
    /\ poll \in {"off", "over"} /\ sub \in {"none", "over"}

\* OnDone, "exactly once": revocation, the parent's end, several Closes and a
\* late OnDone begin a release no more than once between them.
ReleasedOnce == \A r \in Releases : runs[r] <= 1

\* OnDone, the other half: a release of a lease that has ended is run, also if
\* nobody closes the lease.
ReleasesRun == \A r \in Releases : rel[r] = "armed" /\ ctx # "live" ~> rel[r] = "done"

\* Watch, "concurrent withdrawal cannot be missed": a watcher waiting for the
\* next change of the authority has seen the current state.
NothingMissed ==
  \A w \in Watchers : watch[w] = "select" /\ seen[w] = gen => allowed

\* Watch, Poll: a lease under observation does not outlive a withdrawal that
\* lasts, whatever else fails, unless its Poll was stopped.
WithdrawalEndsLease ==
  /\ \A w \in Watchers : watch[w] \in {"select", "recheck"} /\ ~allowed ~> ctx # "live" \/ allowed
  /\ poll \notin {"off", "over"} /\ ~allowed ~> ctx # "live" \/ allowed \/ stopPoll # "no"

\* Close, Poll: whoever waits for the lease's goroutines is let go.
WaitsEnd ==
  /\ \A c \in Closers : pc[c] = "cleaning" ~> pc[c] = "returned"
  /\ stopPoll = "called" ~> stopPoll = "returned"

\* What runs for the lease, and which Closes wait or are done.
Goroutines == Watchers \union {"sub", "poll"}
Busy ==
  {g \in Goroutines :
    \/ g \in Watchers /\ watch[g] \in {"select", "recheck"}
    \/ g = "poll" /\ poll \in {"head", "lookup", "sleep"}
    \/ g = "sub" /\ sub = "select"}
Closing(stage) == {c \in Closers : pc[c] = stage}

Contract == INSTANCE LeaseContract WITH
  over <- ctx # "live", busy <- Busy, waiting <- Closing("cleaning"), returned <- Closing("returned")

\* Lease, with its WaitGroup, its cleanup list and a sync.Once per release, is
\* an implementation of the contract: every step is one the contract allows.
MeetsContract == Contract!Spec
=============================================================================
