--------------------------- MODULE AdmissionStaging ---------------------------
(***************************************************************************)
(* Staging of shared/admission: the setup of a connection ends with its    *)
(* caller's context or its deadline, until Accept hands the same context   *)
(* over without those bounds.  The two callbacks, Accept and Abort take    *)
(* one lock; a callback that has started waits for it and can no longer be *)
(* stopped.                                                                *)
(***************************************************************************)
EXTENDS Naturals

VARIABLES
  parent,    \* the caller's context was cancelled
  expired,   \* serverclock.Until(deadline) <= 0
  onParent,  \* the callback of context.AfterFunc
  timer,     \* the callback of time.AfterFunc, "none" without a deadline
  mu,        \* Staging.mu is held by Accept
  acc,       \* where Accept is
  accepted,  \* Staging.accepted
  ctx,       \* the lease's context
  inTime     \* history: the caller was there when Accept began

vars == <<parent, expired, onParent, timer, mu, acc, accepted, ctx, inTime>>

Callbacks == {"none", "armed", "started", "stopped", "done"}

TypeOK ==
  /\ {parent, expired, mu, accepted, inTime} \subseteq BOOLEAN
  /\ onParent \in Callbacks \ {"none"} /\ timer \in Callbacks
  /\ acc \in {"idle", "locked", "asked", "checked", "accepted", "failed"}
  /\ ctx \in {"live", "bounded", "failed", "closed"}

\* Stage returned: neither bound was reached when it looked.
Init ==
  /\ parent = FALSE /\ expired = FALSE
  /\ onParent = "armed" /\ timer \in {"none", "armed"}
  /\ mu = FALSE /\ acc = "idle" /\ accepted = FALSE
  /\ ctx = "live" /\ inTime = FALSE

Cancel(cause) == ctx' = IF ctx = "live" THEN cause ELSE ctx

\* The caller's context ends; AfterFunc starts its callback.
ParentEnds ==
  /\ ~parent /\ parent' = TRUE
  /\ onParent' = IF onParent = "armed" THEN "started" ELSE onParent
  /\ UNCHANGED <<expired, timer, mu, acc, accepted, ctx, inTime>>

\* The timer runs on the local clock.
TimerFires ==
  /\ timer = "armed" /\ timer' = "started"
  /\ UNCHANGED <<parent, expired, onParent, mu, acc, accepted, ctx, inTime>>

\* The deadline is judged on the server's clock, whose offset an answer of the
\* server may move either way at any time.
ClockMoves ==
  /\ timer # "none" /\ expired' = ~expired
  /\ UNCHANGED <<parent, onParent, timer, mu, acc, accepted, ctx, inTime>>

OnParent ==
  /\ onParent = "started" /\ ~mu
  /\ IF accepted THEN UNCHANGED ctx ELSE Cancel("bounded")
  /\ onParent' = "done"
  /\ UNCHANGED <<parent, expired, timer, mu, acc, accepted, inTime>>

\* Mutant: the timer's callback does not ask whether the lease was accepted.
OnTimerAlways ==
  /\ timer = "started" /\ ~mu
  /\ Cancel("bounded")
  /\ timer' = "done"
  /\ UNCHANGED <<parent, expired, onParent, mu, acc, accepted, inTime>>

OnTimer ==
  /\ timer = "started" /\ ~mu
  /\ IF accepted THEN UNCHANGED ctx ELSE Cancel("bounded")
  /\ timer' = "done"
  /\ UNCHANGED <<parent, expired, onParent, mu, acc, accepted, inTime>>

Stopped(callback) == IF callback = "armed" THEN "stopped" ELSE callback

\* Accept takes the lock and stops what has not started.
AcceptBegins ==
  /\ acc = "idle" /\ ~mu
  /\ mu' = TRUE /\ acc' = "locked"
  /\ onParent' = Stopped(onParent) /\ timer' = Stopped(timer)
  /\ inTime' = ~parent
  /\ UNCHANGED <<parent, expired, accepted, ctx>>

\* Mutant: the failed lease is left to its setup bounds.
AcceptLeaves ==
  /\ acc' = "failed" /\ mu' = FALSE
  /\ UNCHANGED <<parent, expired, onParent, timer, accepted, ctx, inTime>>

AcceptFails ==
  /\ acc' = "failed" /\ mu' = FALSE
  /\ Cancel("failed")
  /\ UNCHANGED <<parent, expired, onParent, timer, accepted, inTime>>

Continue(next) ==
  /\ acc' = next
  /\ UNCHANGED <<parent, expired, onParent, timer, mu, accepted, ctx, inTime>>

\* Mutant: a cancelled caller is left to the callback.
AcceptTrusts == acc = "locked" /\ Continue("asked")

\* s.parent.Err()
AcceptAsksParent ==
  /\ acc = "locked"
  /\ IF parent THEN AcceptFails ELSE Continue("asked")

\* s.lease.Check()
AcceptAsksLease ==
  /\ acc = "asked"
  /\ IF ctx # "live" THEN AcceptFails ELSE Continue("checked")

\* The deadline, if there is one, then the handover.
AcceptEnds ==
  /\ acc = "checked"
  /\ IF timer # "none" /\ expired
     THEN AcceptFails
     ELSE /\ acc' = "accepted" /\ accepted' = TRUE /\ mu' = FALSE
          /\ UNCHANGED <<parent, expired, onParent, timer, ctx, inTime>>

\* Abort stops the callbacks and closes the lease.  Setup calls it when it
\* fails or takes too long, the owner of an accepted stream at its end.
Abort ==
  /\ ~mu /\ ctx # "closed"
  /\ onParent' = Stopped(onParent) /\ timer' = Stopped(timer)
  /\ Cancel("closed")
  /\ UNCHANGED <<parent, expired, mu, acc, accepted, inTime>>

Next ==
  \/ ParentEnds \/ TimerFires \/ ClockMoves \/ OnParent \/ OnTimer
  \/ AcceptBegins \/ AcceptAsksParent \/ AcceptAsksLease \/ AcceptEnds \/ Abort

Spec == Init /\ [][Next]_vars

\* A callback that has started and an Accept that has begun go on.
FairSpec ==
  /\ Spec
  /\ SF_vars(OnParent) /\ SF_vars(OnTimer)
  /\ WF_vars(AcceptAsksParent) /\ WF_vars(AcceptAsksLease) /\ WF_vars(AcceptEnds)

-----------------------------------------------------------------------------
(* Properties.                                                             *)

\* Accept "removes those setup bounds": neither the caller's context nor the
\* deadline ends an accepted lease, also when a callback had started before.
AcceptedIsFree == accepted => ctx \in {"live", "closed"}

\* Accept: nothing is handed to a caller that was gone when Accept began, even
\* while the callback that would have cancelled the setup waits for the lock.
AcceptedInTime == accepted => inTime

\* Stage, Accept: setup whose caller is gone or whose timer has fired ends: it
\* is accepted or its context is cancelled.
SetupBounded ==
  parent \/ timer \in {"started", "done"} ~> accepted \/ ctx # "live"
=============================================================================
