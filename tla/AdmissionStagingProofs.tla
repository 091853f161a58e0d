------------------------ MODULE AdmissionStagingProofs ------------------------
(***************************************************************************)
(* What Accept and the callbacks keep. Accept holds the lock from its      *)
(* first look at the caller to the handover, so what it saw of the lease   *)
(* still holds when it hands the lease over, and the caller it found alive *)
(* was there when it began.                                                *)
(***************************************************************************)
EXTENDS AdmissionStaging, TLAPS

\* The lock is Accept's while it looks; accepted is set where it ends.
Locking ==
  /\ mu <=> acc \in {"locked", "asked", "checked"}
  /\ accepted <=> acc = "accepted"

\* What Accept has seen so far.
Seen ==
  /\ acc = "locked" /\ ~parent => inTime
  /\ acc \in {"asked", "checked", "accepted"} => inTime
  /\ acc = "checked" => ctx = "live"

StagingInv == TypeOK /\ Locking /\ Seen /\ AcceptedIsFree

\* A step of Accept, of a callback, of the caller, of the clocks or of Abort
\* keeps the invariant.
LEMMA NextStagingInv == StagingInv /\ [Next]_vars => StagingInv'
<1> SUFFICES ASSUME StagingInv, [Next]_vars PROVE StagingInv'
  OBVIOUS
<1> USE DEF StagingInv, TypeOK, Locking, Seen, AcceptedIsFree, Callbacks
<1>1. CASE ParentEnds
  BY <1>1 DEF ParentEnds
<1>2. CASE TimerFires
  BY <1>2 DEF TimerFires
<1>3. CASE ClockMoves
  <2>1. expired' \in BOOLEAN
    BY <1>3, Zenon DEF ClockMoves
  <2>2. UNCHANGED <<parent, onParent, timer, mu, acc, accepted, ctx, inTime>>
    BY <1>3, Zenon DEF ClockMoves
  <2> QED
    BY <2>1, <2>2, Zenon
<1>4. CASE OnParent
  BY <1>4 DEF OnParent, Cancel
<1>5. CASE OnTimer
  BY <1>5 DEF OnTimer, Cancel
<1>6. CASE AcceptBegins
  BY <1>6 DEF AcceptBegins, Stopped
<1>7. CASE AcceptAsksParent
  BY <1>7 DEF AcceptAsksParent, AcceptFails, Continue, Cancel
<1>8. CASE AcceptAsksLease
  BY <1>8 DEF AcceptAsksLease, AcceptFails, Continue, Cancel
<1>9. CASE AcceptEnds
  BY <1>9 DEF AcceptEnds, AcceptFails, Cancel
<1>10. CASE Abort
  BY <1>10 DEF Abort, Stopped, Cancel
<1>11. CASE UNCHANGED vars
  BY <1>11 DEF vars
<1> QED
  BY <1>1, <1>2, <1>3, <1>4, <1>5, <1>6, <1>7, <1>8, <1>9, <1>10, <1>11 DEF Next

\* Stage returns with neither bound reached and Accept not begun.
LEMMA StagingInvariant == Spec => []StagingInv
<1>1. Init => StagingInv
  BY DEF Init, StagingInv, TypeOK, Locking, Seen, AcceptedIsFree, Callbacks
<1> QED
  BY <1>1, NextStagingInv, PTL DEF Spec

\* Every variable of Staging, its two callbacks and Accept stays in its type.
THEOREM StagingTypeCorrect == Spec => []TypeOK
<1>1. StagingInv => TypeOK
  BY DEF StagingInv
<1> QED
  BY <1>1, StagingInvariant, PTL

\* Accept "removes those setup bounds": a callback that had started before
\* Accept took the lock finds the lease accepted and leaves its context alone.
THEOREM AcceptedIsFreeHolds == Spec => []AcceptedIsFree
<1>1. StagingInv => AcceptedIsFree
  BY DEF StagingInv
<1> QED
  BY <1>1, StagingInvariant, PTL

\* Accept hands nothing to a caller that was gone when it took the lock.
THEOREM AcceptedInTimeHolds == Spec => []AcceptedInTime
<1>1. StagingInv => AcceptedInTime
  BY DEF StagingInv, Locking, Seen, AcceptedInTime
<1> QED
  BY <1>1, StagingInvariant, PTL
=============================================================================
