---------------------------- MODULE LeaseContract ----------------------------
(***************************************************************************)
(* What a lease promises to whoever gives it resources, runs under it or   *)
(* closes it, without locks, a WaitGroup, cleanup lists or watchers.  A    *)
(* resource it owns is released once, after the lease is over; nothing     *)
(* starts under a lease that is over; a Close returns when nothing it can  *)
(* still wait for runs.  A resource given to a closed lease is released    *)
(* by the one who gives it, and no Close waits for that.                   *)
(***************************************************************************)

CONSTANTS Releases, Closers, Goroutines

VARIABLES over,      \* the lease's context has ended
          closed,    \* somebody called Close
          busy,      \* goroutines running under the lease
          rel,       \* each resource: none, armed, running, direct, done
          waiting,   \* Closes that have begun
          returned   \* Closes that have returned

vars == <<over, closed, busy, rel, waiting, returned>>

Init ==
  /\ over = FALSE /\ closed = FALSE
  /\ busy \in SUBSET Goroutines
  /\ rel = [r \in Releases |-> "none"]
  /\ waiting = {} /\ returned = {}

End ==
  /\ over' = TRUE
  /\ UNCHANGED <<closed, busy, rel, waiting, returned>>

Spawn(g) ==
  /\ ~closed /\ ~over /\ g \notin busy
  /\ busy' = busy \union {g}
  /\ UNCHANGED <<over, closed, rel, waiting, returned>>

\* A goroutine may end the lease as it ends itself.
Exit(g) ==
  /\ g \in busy
  /\ busy' = busy \ {g}
  /\ over' \in {over, TRUE}
  /\ UNCHANGED <<closed, rel, waiting, returned>>

Moves(r, next) ==
  /\ rel' = [rel EXCEPT ![r] = next]
  /\ UNCHANGED <<over, closed, busy, waiting, returned>>

Own(r) == rel[r] = "none" /\ Moves(r, IF closed THEN "direct" ELSE "armed")

Release(r) == over /\ rel[r] = "armed" /\ Moves(r, "running")

Released(r) == rel[r] \in {"running", "direct"} /\ Moves(r, "done")

Close(c) ==
  /\ c \notin waiting \union returned
  /\ closed' = TRUE /\ over' = TRUE
  /\ waiting' = waiting \union {c}
  /\ UNCHANGED <<busy, rel, returned>>

Return(c) ==
  /\ c \in waiting
  /\ busy = {} /\ \A r \in Releases : rel[r] \notin {"armed", "running"}
  /\ waiting' = waiting \ {c} /\ returned' = returned \union {c}
  /\ UNCHANGED <<over, closed, busy, rel>>

Next ==
  \/ End
  \/ \E g \in Goroutines : Spawn(g) \/ Exit(g)
  \/ \E r \in Releases : Own(r) \/ Release(r) \/ Released(r)
  \/ \E c \in Closers : Close(c) \/ Return(c)

Spec == Init /\ [][Next]_vars
=============================================================================
