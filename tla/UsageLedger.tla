----------------------------- MODULE UsageLedger -----------------------------
(***************************************************************************)
(* What bandwidth accounting promises the workspace that pays, without     *)
(* counters, reports, stores or processes.  Bytes pass through an edge,    *)
(* the edge secures some of them against a crash, and the control plane    *)
(* charges for them, as billed or as too old to bill.  Nothing charged or  *)
(* secured is ever taken back, and nothing is charged or secured that did  *)
(* not pass.                                                               *)
(***************************************************************************)
EXTENDS Integers

CONSTANTS Ids,        \* what is accounted for separately
          MaxCounter  \* no identity is accounted for beyond this

VARIABLES recorded,  \* bytes that passed
          secured,   \* bytes a crash of the edge can no longer lose
          billed,    \* bytes charged
          expired    \* bytes acknowledged too late to charge

vars == <<recorded, secured, billed, expired>>

\* What an identity may be charged at most.
Chargeable(k) == IF recorded[k] > MaxCounter THEN MaxCounter ELSE recorded[k]

\* An edge may take over an account from an earlier version.
Init ==
  /\ recorded \in [Ids -> Nat] /\ secured \in [Ids -> Nat]
  /\ billed \in [Ids -> Nat] /\ expired \in [Ids -> Nat]
  /\ \A k \in Ids : secured[k] <= Chargeable(k) /\ billed[k] + expired[k] <= Chargeable(k)

Pass(k) ==
  /\ recorded' = [recorded EXCEPT ![k] = @ + 1]
  /\ UNCHANGED <<secured, billed, expired>>

Secure ==
  /\ secured' \in [Ids -> 0..MaxCounter]
  /\ \A k \in Ids : secured[k] <= secured'[k] /\ secured'[k] <= Chargeable(k)
  /\ UNCHANGED <<recorded, billed, expired>>

Uncharged(k, n) == billed[k] + expired[k] + n <= Chargeable(k)

Bill(k, n) ==
  /\ Uncharged(k, n)
  /\ billed' = [billed EXCEPT ![k] = @ + n]
  /\ UNCHANGED <<recorded, secured, expired>>

Expire(k, n) ==
  /\ Uncharged(k, n)
  /\ expired' = [expired EXCEPT ![k] = @ + n]
  /\ UNCHANGED <<recorded, secured, billed>>

Next ==
  \/ Secure
  \/ \E k \in Ids : Pass(k) \/ \E n \in 1..MaxCounter : Bill(k, n) \/ Expire(k, n)

Spec == Init /\ [][Next]_vars
=============================================================================
