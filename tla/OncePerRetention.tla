-------------------------- MODULE OncePerRetention --------------------------
(***************************************************************************)
(* What the operation journal promises its clients, without tables, rows   *)
(* or restarts.  An operation is claimed for one request, its claim takes  *)
(* effect at most once, and it can be claimed again only when no claim of  *)
(* it is open and every earlier one has been kept for the retention        *)
(* period.  Clients are answered with the effect of a claim for exactly    *)
(* their operation and request.  A claim may end without an answer, and    *)
(* nobody knows then whether it took effect.                               *)
(***************************************************************************)
EXTENDS Integers

CONSTANTS Ops, Hashes, Retention

VARIABLES
  now,      \* the clock
  count,    \* claims so far
  claims,   \* each claim: its operation, its request, when it was made
  due,      \* claims that have yet to take effect
  open,     \* claims whose handler may still be running
  done,     \* claims that took effect
  kept,     \* until when each claim is remembered
  answer    \* the last answer given to a client

vars == <<now, count, claims, due, open, done, kept, answer>>

Init ==
  /\ now = 0 /\ count = 0
  /\ claims = [i \in 1..0 |-> 0]
  /\ due = {} /\ open = {} /\ done = {}
  /\ kept = [i \in 1..0 |-> 0]
  /\ answer = [run |-> 0]

Time ==
  /\ now' = now + 1
  /\ UNCHANGED <<count, claims, due, open, done, kept, answer>>

\* The claim may be lost at once: remembered, but never performed.
Claim(o, h) ==
  /\ \A i \in 1..count : claims[i].op = o => i \notin open /\ kept[i] <= now
  /\ count' = count + 1
  /\ claims' = [i \in 1..count + 1 |->
                  IF i = count + 1 THEN [op |-> o, hash |-> h, at |-> now] ELSE claims[i]]
  /\ kept' = [i \in 1..count + 1 |-> IF i = count + 1 THEN now + Retention ELSE kept[i]]
  /\ \/ due' = due \cup {count + 1} /\ open' = open \cup {count + 1}
     \/ UNCHANGED <<due, open>>
  /\ UNCHANGED <<now, done, answer>>

Effect(i) ==
  /\ i \in due
  /\ due' = due \ {i}
  /\ done' = done \cup {i}
  /\ UNCHANGED <<now, count, claims, open, kept, answer>>

\* A stored outcome is remembered for a retention period of its own.
Keep(i) ==
  /\ i \in open /\ i \in done
  /\ kept' = [kept EXCEPT ![i] = now + Retention]
  /\ UNCHANGED <<now, count, claims, due, open, done, answer>>

End(S) ==
  /\ due' = due \ S
  /\ open' = open \ S
  /\ UNCHANGED <<now, count, claims, done, kept, answer>>

Answer(i) ==
  /\ i \in done
  /\ answer' = [run |-> i, op |-> claims[i].op, hash |-> claims[i].hash]
  /\ open' \in {open, open \ {i}}
  /\ UNCHANGED <<now, count, claims, due, done, kept>>

Next ==
  \/ Time
  \/ \E o \in Ops, h \in Hashes : Claim(o, h)
  \/ \E i \in 1..count : Effect(i) \/ Keep(i) \/ Answer(i)
  \/ \E S \in SUBSET open : End(S)

Spec == Init /\ [][Next]_vars
=============================================================================
