---------------------------- MODULE BandwidthGate ----------------------------
(***************************************************************************)
(* The bandwidth gate of the control plane (server/internal/bandwidthgate) *)
(* and the relays that enforce its answers.  Each observation of a relay   *)
(* asks the gate about the accounts it lists (DeniedAmong); an account     *)
(* without a valid cached answer is looked up (Denied), a failed lookup    *)
(* starts one background lookup, and the relay replaces its list of        *)
(* refused accounts by the answer (SetQuotaDenied).                        *)
(*                                                                         *)
(* Time is relative: an entry carries what is left of its validity and the *)
(* age of its last denial, so behaviours go on for ever.                   *)
(***************************************************************************)
EXTENDS Integers, FiniteSets

CONSTANTS Accounts, Relays,
          AnswerTTL, FailureTTL, KnownDeniedHold,  \* in clock units
          CacheMax,   \* entries the cache may hold
          MaxFresh,   \* relayQuotaFreshLookups
          Interval,   \* nodelifecycle.Interval: time between observations
          MaxLag      \* bound: clock units from the start of a lookup to its put

ASSUME GateAssumption ==
  /\ {AnswerTTL, FailureTTL, KnownDeniedHold, CacheMax, MaxFresh} \subseteq Nat \ {0}
  /\ FailureTTL <= AnswerTTL /\ AnswerTTL <= KnownDeniedHold
  /\ Interval \in Nat \ {0} /\ MaxLag \in Nat

VARIABLES
  over,         \* accounts whose workspaces are all out of allowance
  keys,         \* accounts with an entry in Gate.cache
  cache,        \* the entries; a Go zero entry for the others
  refresh,      \* Gate.refreshing and where the background lookup is
  call,         \* the goroutine that asks about an account for a relay
  round,        \* is an observation of the relay being answered?
  since,        \* time since the relay's last observation began
  quotaDenied,  \* Server.quotaDenied: accounts the relay closes and refuses
  lastDenied    \* history: time since a lookup last answered "denied"

gate == <<keys, cache, refresh>>
relay == <<round, since, quotaDenied>>
vars == <<over, gate, call, relay, lastDenied>>

-----------------------------------------------------------------------------
(* Data *)

\* Ages saturate where no comparison tells them apart any more.
Never == KnownDeniedHold + FailureTTL + MaxLag
Older(age, d) == IF age + d > Never THEN Never ELSE age + d
Shorter(left) == IF left > -MaxLag THEN left - 1 ELSE left

Entry == [denied : BOOLEAN, left : -MaxLag..AnswerTTL, age : 0..Never]
NoEntry == [denied |-> FALSE, left |-> -MaxLag, age |-> Never]

Results == {"denied", "allowed", "error"}
Refresh == [pc : {"off", "lookup", "put"}, lag : 0..MaxLag, res : Results]
NoRefresh == [pc |-> "off", lag |-> 0, res |-> "allowed"]

\* age is previous.deniedAt seen from now, lag the time since now.
Calls == Relays \X Accounts
Call == [pc : {"out", "ask", "lookup", "put", "skipped", "cached", "answered"},
         lag : 0..MaxLag, age : 0..Never, res : Results]
NoCall == [pc |-> "out", lag |-> 0, age |-> Never, res |-> "allowed"]
Ended(pc, denied) == [NoCall EXCEPT !.pc = pc, !.res = IF denied THEN "denied" ELSE "allowed"]

Valid(a) == cache[a].left > 0
RecentlyDenied(age) == age < KnownDeniedHold

Init ==
  /\ over \in SUBSET Accounts
  /\ keys = {}
  /\ cache = [a \in Accounts |-> NoEntry]
  /\ refresh = [a \in Accounts |-> NoRefresh]
  /\ call = [c \in Calls |-> NoCall]
  /\ round = [r \in Relays |-> FALSE]
  /\ since = [r \in Relays |-> 0]
  /\ quotaDenied = [r \in Relays |-> {}]
  /\ lastDenied = [a \in Accounts |-> Never]

-----------------------------------------------------------------------------
(* The cache *)

\* Mutant: the cache is full one entry later.
EvictLate(a, lag) == IF a \in keys \/ Cardinality(keys) <= CacheMax THEN {{}} ELSE {{k} : k \in keys}

\* put: the keys a full cache may drop to make room for a: an expired entry
\* not recently denied, else one not recently denied, else any.  The passes
\* compare with the caller's now, lag units ago.
Evictions(a, lag) ==
  LET old == {k \in keys : cache[k].age - lag >= KnownDeniedHold}
      stale == {k \in old : cache[k].left + lag <= 0}
      some == IF stale # {} THEN stale ELSE IF old # {} THEN old ELSE keys
  IN  IF a \in keys \/ Cardinality(keys) < CacheMax THEN {{}} ELSE {{k} : k \in some}

Put(a, e, lag) ==
  \E drop \in Evictions(a, lag) :
    /\ keys' = (keys \ drop) \cup {a}
    /\ cache' = [k \in Accounts |-> IF k = a THEN e ELSE IF k \in drop THEN NoEntry ELSE cache[k]]

-----------------------------------------------------------------------------
(* Denied: one goroutine per account asked about *)

\* An unexpired entry answers.
Cached(r, a) ==
  /\ call[<<r, a>>].pc = "ask"
  /\ Valid(a)
  /\ call' = [call EXCEPT ![<<r, a>>] = Ended("cached", cache[a].denied)]
  /\ UNCHANGED <<over, gate, relay, lastDenied>>

\* DeniedAmong: no more than maxFresh accounts are looked up for one
\* observation; the others count as not denied this round.
Fresh(r) == {a \in Accounts : call[<<r, a>>].pc \in {"lookup", "put", "answered"}}
Skip(r, a) ==
  /\ call[<<r, a>>].pc = "ask"
  /\ ~Valid(a)
  /\ Cardinality(Fresh(r)) >= MaxFresh
  /\ call' = [call EXCEPT ![<<r, a>>] = Ended("skipped", FALSE)]
  /\ UNCHANGED <<over, gate, relay, lastDenied>>

\* previous is read under the lock, the lookup runs outside it.
BeginLookup(r, a) ==
  /\ call[<<r, a>>].pc = "ask"
  /\ ~Valid(a)
  /\ Cardinality(Fresh(r)) < MaxFresh
  /\ call' = [call EXCEPT ![<<r, a>>] =
                [pc |-> "lookup", lag |-> 0, age |-> cache[a].age, res |-> "allowed"]]
  /\ UNCHANGED <<over, gate, relay, lastDenied>>

Answer(a) == IF a \in over THEN "denied" ELSE "allowed"
Noted(a) == IF a \in over THEN [lastDenied EXCEPT ![a] = 0] ELSE lastDenied

LookupAnswers(r, a) ==
  /\ call[<<r, a>>].pc = "lookup"
  /\ call' = [call EXCEPT ![<<r, a>>] = [@ EXCEPT !.pc = "put", !.res = Answer(a)]]
  /\ lastDenied' = Noted(a)
  /\ UNCHANGED <<over, gate, relay>>

\* refreshInBackground: at most one background lookup per account.
StartRefresh(a) ==
  IF refresh[a].pc = "off" THEN [refresh EXCEPT ![a] = [NoRefresh EXCEPT !.pc = "lookup"]] ELSE refresh

LookupFails(r, a) ==
  /\ call[<<r, a>>].pc = "lookup"
  /\ call' = [call EXCEPT ![<<r, a>>] = [@ EXCEPT !.pc = "put", !.res = "error"]]
  /\ refresh' = StartRefresh(a)
  /\ UNCHANGED <<over, keys, cache, relay, lastDenied>>

\* Mutant: a kept denial counts as a new one.
RenewedEntry(c) ==
  LET kept == c.res = "error" /\ RecentlyDenied(c.age)
      denied == c.res = "denied" \/ kept
  IN  [denied |-> denied,
       left |-> (IF c.res = "error" THEN FailureTTL ELSE AnswerTTL) - c.lag,
       age |-> IF denied THEN c.lag ELSE Older(c.age, c.lag)]

\* What Denied stores: the answer, or after a failure the recent denial that
\* previous carried, dated from the now the call began with.
EntryOf(c) ==
  LET kept == c.res = "error" /\ RecentlyDenied(c.age)
  IN  [denied |-> c.res = "denied" \/ kept,
       left |-> (IF c.res = "error" THEN FailureTTL ELSE AnswerTTL) - c.lag,
       age |-> IF c.res = "denied" THEN c.lag ELSE Older(c.age, c.lag)]

LookupPuts(r, a) ==
  LET c == call[<<r, a>>]
      e == EntryOf(c)
  IN  /\ c.pc = "put"
      /\ Put(a, e, c.lag)
      /\ call' = [call EXCEPT ![<<r, a>>] = Ended("answered", e.denied)]
      /\ UNCHANGED <<over, refresh, relay, lastDenied>>

-----------------------------------------------------------------------------
(* The background lookup *)

RefreshAnswers(a) ==
  /\ refresh[a].pc = "lookup"
  /\ refresh' = [refresh EXCEPT ![a] = [@ EXCEPT !.pc = "put", !.res = Answer(a)]]
  /\ lastDenied' = Noted(a)
  /\ UNCHANGED <<over, keys, cache, call, relay>>

RefreshFails(a) ==
  /\ refresh[a].pc = "lookup"
  /\ refresh' = [refresh EXCEPT ![a] = NoRefresh]
  /\ UNCHANGED <<over, keys, cache, call, relay, lastDenied>>

RefreshPuts(a) ==
  /\ refresh[a].pc = "put"
  /\ Put(a, [denied |-> refresh[a].res = "denied", left |-> AnswerTTL,
             age |-> IF refresh[a].res = "denied" THEN 0 ELSE cache[a].age], 0)
  /\ refresh' = [refresh EXCEPT ![a] = NoRefresh]
  /\ UNCHANGED <<over, call, relay, lastDenied>>

-----------------------------------------------------------------------------
(* The relay *)

\* An observation lists the accounts the relay holds unexpired grants of.
Observe(r) ==
  /\ ~round[r]
  /\ \E S \in SUBSET Accounts :
       call' = [c \in Calls |-> IF c[1] = r /\ c[2] \in S THEN [NoCall EXCEPT !.pc = "ask"] ELSE call[c]]
  /\ round' = [round EXCEPT ![r] = TRUE]
  /\ since' = [since EXCEPT ![r] = 0]
  /\ UNCHANGED <<over, gate, quotaDenied, lastDenied>>

RoundOver(r) == round[r] /\ \A a \in Accounts : call[<<r, a>>].pc \in {"out", "skipped", "cached", "answered"}
EndRound(r) ==
  /\ call' = [c \in Calls |-> IF c[1] = r THEN NoCall ELSE call[c]]
  /\ round' = [round EXCEPT ![r] = FALSE]

\* Mutant: the answer is added to the list.
AddQuotaDenied(r) ==
  /\ RoundOver(r)
  /\ EndRound(r)
  /\ quotaDenied' = [quotaDenied EXCEPT ![r] = @ \cup {a \in Accounts : call[<<r, a>>].res = "denied"}]
  /\ UNCHANGED <<over, gate, since, lastDenied>>

\* SetQuotaDenied replaces the list: listed accounts are closed and refused,
\* every other account is admitted again.
SetQuotaDenied(r) ==
  /\ RoundOver(r)
  /\ EndRound(r)
  /\ quotaDenied' = [quotaDenied EXCEPT ![r] = {a \in Accounts : call[<<r, a>>].res = "denied"}]
  /\ UNCHANGED <<over, gate, since, lastDenied>>

\* The answer is lost: the relay keeps its list until the next observation.
ObserveLost(r) ==
  /\ RoundOver(r)
  /\ EndRound(r)
  /\ UNCHANGED <<over, gate, since, quotaDenied, lastDenied>>

-----------------------------------------------------------------------------
(* The environment *)

\* Usage debits exhaust an allowance; a top-up or a new period restores it.
Bill(a) ==
  /\ over' = IF a \in over THEN over \ {a} ELSE over \cup {a}
  /\ UNCHANGED <<gate, call, relay, lastDenied>>

InFlight(pc) == pc \in {"lookup", "put"}

\* Time passes within the lookups' deadlines and the relays' cadence.
Tick ==
  /\ \A c \in Calls : InFlight(call[c].pc) => call[c].lag < MaxLag
  /\ \A a \in Accounts : InFlight(refresh[a].pc) => refresh[a].lag < MaxLag
  /\ \A r \in Relays : since[r] < Interval
  /\ cache' = [a \in Accounts |-> [cache[a] EXCEPT !.left = Shorter(@), !.age = Older(@, 1)]]
  /\ call' = [c \in Calls |-> IF InFlight(call[c].pc) THEN [call[c] EXCEPT !.lag = @ + 1] ELSE call[c]]
  /\ refresh' = [a \in Accounts |-> IF InFlight(refresh[a].pc) THEN [refresh[a] EXCEPT !.lag = @ + 1] ELSE refresh[a]]
  /\ since' = [r \in Relays |-> since[r] + 1]
  /\ lastDenied' = [a \in Accounts |-> Older(lastDenied[a], 1)]
  /\ UNCHANGED <<over, keys, round, quotaDenied>>

Asking(r) ==
  \E a \in Accounts : \/ Cached(r, a) \/ Skip(r, a) \/ BeginLookup(r, a)
                      \/ LookupAnswers(r, a) \/ LookupFails(r, a) \/ LookupPuts(r, a)
Refreshing == \E a \in Accounts : RefreshAnswers(a) \/ RefreshFails(a) \/ RefreshPuts(a)

Next ==
  \/ Tick \/ Refreshing
  \/ \E a \in Accounts : Bill(a)
  \/ \E r \in Relays : Observe(r) \/ Asking(r) \/ SetQuotaDenied(r) \/ ObserveLost(r)

Spec == Init /\ [][Next]_vars

\* Goroutines run, lookups end within their deadlines, observations come in
\* their cadence and not every answer is lost.  No lookup need ever succeed.
FairSpec ==
  /\ Spec
  /\ WF_vars(Tick) /\ WF_vars(Refreshing)
  /\ \A r \in Relays : WF_vars(Observe(r)) /\ WF_vars(Asking(r)) /\ SF_vars(SetQuotaDenied(r))

-----------------------------------------------------------------------------
(* Properties *)

\* Types, and cacheMax bounds the entries of the cache (put).
TypeOK ==
  /\ over \subseteq Accounts
  /\ keys \subseteq Accounts /\ Cardinality(keys) <= CacheMax
  /\ cache \in [Accounts -> Entry] /\ refresh \in [Accounts -> Refresh]
  /\ call \in [Calls -> Call]
  /\ round \in [Relays -> BOOLEAN] /\ since \in [Relays -> 0..Interval]
  /\ quotaDenied \in [Relays -> SUBSET Accounts]
  /\ lastDenied \in [Accounts -> 0..Never]

\* A failed lookup keeps a denial "only for a bounded time without a fresh
\* answer" (gate.go, knownDeniedHold): while the gate answers "denied", some
\* lookup answered "denied" less than the hold, one failure's validity and the
\* time of a lookup ago.
HoldIsBounded ==
  \A a \in Accounts :
    Valid(a) /\ cache[a].denied => lastDenied[a] < KnownDeniedHold + FailureTTL + MaxLag

\* SetQuotaDenied, "a grant ... works again as soon as the account is no longer
\* listed", and the bounded hold together: an account that keeps its allowance
\* is in the end admitted for good, even when every lookup fails.
EventuallyAdmitted ==
  \A r \in Relays, a \in Accounts : <>[](a \notin over) => <>[](a \notin quotaDenied[r])

\* "A slow lookup cannot reopen an account known to be over its allowance"
\* (package comment): a failed lookup does not replace a recent denial by
\* "not denied".
DenialNotReopened ==
  [][\A r \in Relays, a \in Accounts :
       /\ call[<<r, a>>].pc = "put" /\ call[<<r, a>>].res = "error" /\ call'[<<r, a>>].pc = "answered"
       /\ cache[a].denied /\ RecentlyDenied(cache[a].age)
       => cache'[a].denied]_vars
=============================================================================
