------------------------- MODULE BandwidthGateProofs -------------------------
(***************************************************************************)
(* TypeOK, with the bound of the cache, and HoldIsBounded, for any number  *)
(* of accounts and relays, every cache size, and lookups that take any     *)
(* time up to MaxLag.  The dates the gate stores are those of its own      *)
(* calls; the invariant relates them, in the cache and in the goroutines   *)
(* that have yet to store them, to the time of the last true denial.       *)
(***************************************************************************)
EXTENDS BandwidthGate, FiniteSetTheorems, TLAPS

\* Most leaves are first-order: Zenon is the default, and a leaf with arithmetic names SMT.
USE Zenon

\* A stored denial is dated at most MaxLag after a true one, and expires in time.
Dated(a) ==
  /\ lastDenied[a] <= cache[a].age + MaxLag
  /\ cache[a].denied /\ cache[a].left > 0 =>
       cache[a].age + cache[a].left < KnownDeniedHold + FailureTTL

\* So is what a call has read, and the answer it is about to store.
Asked(c) ==
  InFlight(call[c].pc) =>
    /\ lastDenied[c[2]] <= call[c].age + call[c].lag + MaxLag
    /\ call[c].pc = "put" /\ call[c].res = "denied" => lastDenied[c[2]] <= call[c].lag

Refreshed(a) ==
  refresh[a].pc = "put" /\ refresh[a].res = "denied" => lastDenied[a] <= refresh[a].lag

GateInv ==
  /\ TypeOK
  /\ IsFiniteSet(keys)
  /\ \A a \in Accounts : Dated(a) /\ Refreshed(a)
  /\ \A c \in Calls : Asked(c)

-----------------------------------------------------------------------------
(* Data *)

\* The constants, as the provers use them.
LEMMA Constants ==
  /\ AnswerTTL \in Nat /\ FailureTTL \in Nat /\ KnownDeniedHold \in Nat /\ CacheMax \in Nat
  /\ AnswerTTL > 0 /\ FailureTTL > 0 /\ CacheMax > 0 /\ MaxLag \in Nat /\ Interval \in Nat
  /\ FailureTTL <= AnswerTTL /\ AnswerTTL <= KnownDeniedHold
  /\ Never \in Nat /\ Never = KnownDeniedHold + FailureTTL + MaxLag
  BY GateAssumption, SMT DEF Never

\* Ages grow by what passes, until they saturate.
LEMMA OlderFacts ==
  ASSUME NEW age \in 0..Never, NEW d \in Nat
  PROVE  /\ Older(age, d) \in 0..Never /\ Older(age, d) <= age + d
         /\ Older(age, d) = age + d \/ Older(age, d) = Never
  BY Constants, SMT DEF Older

\* What a call stores is an entry whose denial expires within the hold and one
\* failure's validity, and is not dated before what it came from.
LEMMA EntryOfFacts ==
  ASSUME NEW c \in Call, NEW last \in 0..Never,
         last <= c.age + c.lag + MaxLag, c.res = "denied" => last <= c.lag
  PROVE  LET e == EntryOf(c) IN
         /\ e \in Entry
         /\ last <= e.age + MaxLag
         /\ e.denied => e.age + e.left < KnownDeniedHold + FailureTTL
<1> DEFINE e == EntryOf(c)
           kept == c.res = "error" /\ RecentlyDenied(c.age)
<1>1. /\ c.lag \in 0..MaxLag /\ c.age \in 0..Never /\ c.res \in Results
      /\ c.lag \in Nat /\ c.age \in Nat
  BY Constants, SMT DEF Call
<1>2. /\ e.denied = (c.res = "denied" \/ kept) /\ e.denied \in BOOLEAN
      /\ e.left = (IF c.res = "error" THEN FailureTTL ELSE AnswerTTL) - c.lag
      /\ e.age = IF c.res = "denied" THEN c.lag ELSE Older(c.age, c.lag)
      /\ e = [denied |-> e.denied, left |-> e.left, age |-> e.age]
  BY Zenon DEF EntryOf
<1> HIDE DEF e
<1>3. e.left \in -MaxLag..AnswerTTL
  BY <1>1, <1>2, Constants, SMT
<1>4. Older(c.age, c.lag) \in 0..Never /\ Older(c.age, c.lag) <= c.age + c.lag
      /\ (Older(c.age, c.lag) = c.age + c.lag \/ Older(c.age, c.lag) = Never)
  BY <1>1, OlderFacts, Zenon
<1>5. e.age \in 0..Never
  BY <1>1, <1>2, <1>4, Constants, SMT
<1>6. e \in Entry
  BY <1>2, <1>3, <1>5, Zenon DEF Entry
<1>7. last <= e.age + MaxLag
  BY <1>1, <1>2, <1>4, Constants, SMT
<1>8. ASSUME e.denied PROVE e.age + e.left < KnownDeniedHold + FailureTTL
  <2>1. c.res = "denied" \/ (c.res = "error" /\ c.age < KnownDeniedHold)
    BY <1>2, <1>8, Zenon DEF RecentlyDenied
  <2>2. CASE c.res = "denied"
    BY <1>1, <1>2, <2>2, Constants, SMT
  <2>3. CASE c.res = "error" /\ c.age < KnownDeniedHold
    BY <1>1, <1>2, <1>4, <2>3, Constants, SMT
  <2> QED
    BY <2>1, <2>2, <2>3
<1> QED
  BY <1>6, <1>7, <1>8 DEF e

\* put keeps the cache within its limit and writes only the account's entry.
LEMMA PutFacts ==
  ASSUME TypeOK, IsFiniteSet(keys), NEW a \in Accounts, NEW e \in Entry, NEW lag, Put(a, e, lag)
  PROVE  /\ keys' \subseteq Accounts /\ IsFiniteSet(keys') /\ Cardinality(keys') <= CacheMax
         /\ cache' \in [Accounts -> Entry] /\ cache'[a] = e
         /\ \A k \in Accounts : k # a => cache'[k] = cache[k] \/ cache'[k] = NoEntry
<1>1. PICK drop \in Evictions(a, lag) :
        /\ keys' = (keys \ drop) \cup {a}
        /\ cache' = [k \in Accounts |-> IF k = a THEN e ELSE IF k \in drop THEN NoEntry ELSE cache[k]]
  BY DEF Put
<1>2. NoEntry \in Entry
  BY Constants, SMT DEF NoEntry, Entry
<1>3. keys \subseteq Accounts /\ Cardinality(keys) <= CacheMax /\ cache \in [Accounts -> Entry]
  BY DEF TypeOK
<1>4. /\ cache' \in [Accounts -> Entry] /\ cache'[a] = e
      /\ \A k \in Accounts : k # a => cache'[k] = cache[k] \/ cache'[k] = NoEntry
  BY <1>1, <1>2, <1>3
<1>5. CASE drop = {} /\ a \in keys
  BY <1>1, <1>3, <1>4, <1>5
<1>6. CASE drop = {} /\ a \notin keys /\ Cardinality(keys) < CacheMax
  <2>1. keys' = keys \cup {a}
    BY <1>1, <1>6
  <2>2. IsFiniteSet(keys') /\ Cardinality(keys') = Cardinality(keys) + 1 /\ Cardinality(keys) \in Nat
    BY <1>6, <2>1, FS_AddElement, FS_CardinalityType
  <2>3. Cardinality(keys') <= CacheMax
    BY <1>6, <2>2, Constants, SMT
  <2> QED
    BY <1>3, <1>4, <2>1, <2>2, <2>3
<1>7. CASE a \notin keys /\ \E k \in keys : drop = {k}
  <2>1. PICK k \in keys : drop = {k}
    BY <1>7
  <2>2. IsFiniteSet(keys \ {k}) /\ Cardinality(keys \ {k}) = Cardinality(keys) - 1
    BY FS_RemoveElement, Zenon
  <2>3. /\ IsFiniteSet((keys \ {k}) \cup {a})
        /\ Cardinality((keys \ {k}) \cup {a}) = Cardinality(keys \ {k}) + 1
    BY <1>7, <2>2, FS_AddElement, Zenon
  <2>4. Cardinality(keys) \in Nat
    BY FS_CardinalityType
  <2>5. Cardinality(keys') <= CacheMax
    BY <1>1, <1>3, <2>1, <2>2, <2>3, <2>4, Constants, SMT
  <2> QED
    BY <1>1, <1>3, <1>4, <2>1, <2>3, <2>5
<1>8. \/ drop = {} /\ a \in keys
      \/ drop = {} /\ a \notin keys /\ Cardinality(keys) < CacheMax
      \/ a \notin keys /\ \E k \in keys : drop = {k}
  <2> DEFINE old == {k \in keys : cache[k].age - lag >= KnownDeniedHold}
             stale == {k \in old : cache[k].left + lag <= 0}
             some == IF stale # {} THEN stale ELSE IF old # {} THEN old ELSE keys
  <2>1. drop \in IF a \in keys \/ Cardinality(keys) < CacheMax THEN {{}} ELSE {{k} : k \in some}
    BY <1>1, Zenon DEF Evictions
  <2>2. some \subseteq keys
    BY Zenon
  <2> HIDE DEF some
  <2> QED
    BY <2>1, <2>2, Zenon
<1> QED
  BY <1>5, <1>6, <1>7, <1>8

-----------------------------------------------------------------------------
(* The goroutines *)

\* A goroutine of one account that moves on, while no true denial gets older.
LEMMA CallMoves ==
  ASSUME GateInv, NEW r \in Relays, NEW a \in Accounts, NEW n \in Call,
         call' = [call EXCEPT ![<<r, a>>] = n],
         lastDenied' \in [Accounts -> 0..Never],
         \A k \in Accounts : lastDenied'[k] <= lastDenied[k],
         InFlight(n.pc) => /\ lastDenied'[a] <= n.age + n.lag + MaxLag
                           /\ n.pc = "put" /\ n.res = "denied" => lastDenied'[a] <= n.lag
  PROVE  call' \in [Calls -> Call] /\ \A c \in Calls : Asked(c)'
<1>1. call \in [Calls -> Call] /\ <<r, a>> \in Calls /\ lastDenied \in [Accounts -> 0..Never]
  BY DEF GateInv, TypeOK, Calls
<1>2. call' \in [Calls -> Call] /\ call'[<<r, a>>] = n
      /\ \A c \in Calls : c # <<r, a>> => call'[c] = call[c]
  BY <1>1
<1>3. ASSUME NEW c \in Calls PROVE Asked(c)'
  <2>1. c[2] \in Accounts
    BY DEF Calls
  <2>2. CASE c = <<r, a>>
    <3>1. c[2] = a /\ call'[c] = n
      BY <1>2, <2>2
    <3> QED
      BY <3>1 DEF Asked
  <2>3. CASE c # <<r, a>>
    <3>1. call'[c] = call[c] /\ call[c] \in Call /\ lastDenied'[c[2]] <= lastDenied[c[2]]
      BY <1>1, <1>2, <2>1, <2>3
    <3>2. /\ call[c].age \in Nat /\ call[c].lag \in Nat /\ lastDenied[c[2]] \in Nat
          /\ lastDenied'[c[2]] \in Nat
      BY <1>1, <2>1, <3>1, Constants, SMT DEF Call
    <3>3. Asked(c)
      BY DEF GateInv
    <3> QED
      BY <3>1, <3>2, <3>3, Constants, SMT DEF Asked
  <2> QED
    BY <2>2, <2>3
<1> QED
  BY <1>2, <1>3

\* A call that is out, or that has its answer, has no obligations left.
LEMMA EndedFacts ==
  ASSUME NEW pc \in {"skipped", "cached", "answered"}, NEW denied
  PROVE  Ended(pc, denied) \in Call /\ ~InFlight(Ended(pc, denied).pc)
<1>1. 0 \in 0..MaxLag /\ Never \in 0..Never
  BY Constants, SMT
<1>2. PICK res \in Results : Ended(pc, denied) = [NoCall EXCEPT !.pc = pc, !.res = res]
  BY Zenon DEF Ended, Results
<1>3. Ended(pc, denied) = [pc |-> pc, lag |-> 0, age |-> Never, res |-> res]
  BY <1>2, Zenon DEF NoCall
<1> QED
  BY <1>1, <1>2, <1>3, SMT DEF Call, InFlight

\* A step that changes no date and no background lookup.
LEMMA AskKeeps ==
  ASSUME GateInv, NEW r \in Relays, NEW a \in Accounts, Cached(r, a) \/ Skip(r, a) \/ BeginLookup(r, a)
  PROVE  GateInv'
<1>1. UNCHANGED <<over, keys, cache, refresh, round, since, quotaDenied, lastDenied>>
  BY Zenon DEF Cached, Skip, BeginLookup, gate, relay
<1>2. /\ lastDenied \in [Accounts -> 0..Never] /\ cache[a] \in Entry
      /\ cache[a].age \in 0..Never /\ lastDenied[a] <= cache[a].age + MaxLag
      /\ cache[a].denied \in BOOLEAN
  BY DEF GateInv, TypeOK, Entry, Dated
<1>3. \A k \in Accounts : lastDenied'[k] <= lastDenied[k]
  BY <1>1, <1>2, Constants, SMT
<1>4. call' \in [Calls -> Call] /\ \A c \in Calls : Asked(c)'
  <2>1. CASE Cached(r, a) \/ Skip(r, a)
    <3>1. PICK pc \in {"skipped", "cached"}, d \in BOOLEAN : call' = [call EXCEPT ![<<r, a>>] = Ended(pc, d)]
      BY <1>2, <2>1, Zenon DEF Cached, Skip
    <3>2. Ended(pc, d) \in Call /\ ~InFlight(Ended(pc, d).pc)
      BY EndedFacts
    <3> QED
      BY <1>1, <1>2, <1>3, <3>1, <3>2, CallMoves, Zenon
  <2>2. CASE BeginLookup(r, a)
    <3> DEFINE n == [pc |-> "lookup", lag |-> 0, age |-> cache[a].age, res |-> "allowed"]
    <3>1. call' = [call EXCEPT ![<<r, a>>] = n]
      BY <2>2 DEF BeginLookup
    <3>3. 0 \in 0..MaxLag
      BY Constants, SMT
    <3>4. n \in Call /\ n.pc = "lookup" /\ n.age = cache[a].age /\ n.lag = 0
      BY <1>2, <3>3, Zenon DEF Call, Results
    <3> HIDE DEF n
    <3>5. lastDenied'[a] <= n.age + n.lag + MaxLag
      BY <1>1, <1>2, <3>4, Constants, SMT
    <3> QED
      BY <1>1, <1>2, <1>3, <3>1, <3>4, <3>5, CallMoves, Zenon
  <2> QED
    BY <2>1, <2>2
<1>5. TypeOK' /\ IsFiniteSet(keys')
  BY <1>1, <1>4, Zenon DEF GateInv, TypeOK
<1>6. \A k \in Accounts : Dated(k)' /\ Refreshed(k)'
  BY <1>1, Zenon DEF GateInv, Dated, Refreshed
<1> QED
  BY <1>4, <1>5, <1>6 DEF GateInv

\* A lookup's answer, and the true denial it is.
LEMMA NotedFacts ==
  ASSUME GateInv, NEW a \in Accounts, lastDenied' = Noted(a)
  PROVE  /\ lastDenied' \in [Accounts -> 0..Never]
         /\ \A k \in Accounts : lastDenied'[k] <= lastDenied[k]
         /\ Answer(a) \in Results /\ Answer(a) # "error"
         /\ Answer(a) = "denied" => lastDenied'[a] = 0
<1>1. lastDenied \in [Accounts -> 0..Never] /\ 0 \in 0..Never
  BY Constants, SMT DEF GateInv, TypeOK
<1>2. CASE a \in over
  BY <1>1, <1>2, Constants, SMT DEF Noted, Answer, Results
<1>3. CASE a \notin over
  BY <1>1, <1>3, Constants, SMT DEF Noted, Answer, Results
<1> QED
  BY <1>2, <1>3

\* Entries and background lookups that stay keep their dates when a newer denial is known.
LEMMA NewerKeeps ==
  ASSUME GateInv, NEW k \in Accounts, lastDenied' \in [Accounts -> 0..Never],
         lastDenied'[k] <= lastDenied[k]
  PROVE  /\ cache'[k] = cache[k] => Dated(k)'
         /\ refresh'[k] = refresh[k] => Refreshed(k)'
<1>1. /\ cache[k] \in Entry /\ refresh[k] \in Refresh /\ lastDenied[k] \in 0..Never
      /\ lastDenied'[k] \in 0..Never /\ Dated(k) /\ Refreshed(k)
  BY DEF GateInv, TypeOK
<1>2. cache[k].age \in Nat /\ refresh[k].lag \in Nat /\ lastDenied[k] \in Nat /\ lastDenied'[k] \in Nat
  BY <1>1, Constants, SMT DEF Entry, Refresh
<1> QED
  BY <1>1, <1>2, Constants, SMT DEF Dated, Refreshed

\* The answer of a lookup, or its failure, which may start a background one.
LEMMA AnswersKeep ==
  ASSUME GateInv, NEW r \in Relays, NEW a \in Accounts, LookupAnswers(r, a) \/ LookupFails(r, a)
  PROVE  GateInv'
<1> DEFINE c == call[<<r, a>>]
<1>1. /\ UNCHANGED <<over, keys, cache, round, since, quotaDenied>>
      /\ c.pc = "lookup"
  BY Zenon DEF LookupAnswers, LookupFails, gate, relay
<1>2. c \in Call /\ Asked(<<r, a>>) /\ <<r, a>> \in Calls
  BY DEF GateInv, TypeOK, Calls
<1>3. c.age \in Nat /\ c.lag \in Nat /\ lastDenied[a] <= c.age + c.lag + MaxLag
  BY <1>1, <1>2, Constants, SMT DEF Asked, InFlight, Call
<1>4. lastDenied \in [Accounts -> 0..Never] /\ refresh \in [Accounts -> Refresh]
  BY DEF GateInv, TypeOK
<1>5. /\ lastDenied' \in [Accounts -> 0..Never]
      /\ \A k \in Accounts : lastDenied'[k] <= lastDenied[k]
  <2>1. CASE LookupAnswers(r, a)
    BY <2>1, NotedFacts DEF LookupAnswers
  <2>2. CASE LookupFails(r, a)
    BY <1>4, <2>2, Constants, SMT DEF LookupFails
  <2> QED
    BY <2>1, <2>2
<1>6. PICK res \in Results : /\ call' = [call EXCEPT ![<<r, a>>] = [c EXCEPT !.pc = "put", !.res = res]]
                             /\ res = "denied" => lastDenied'[a] = 0
  <2>1. CASE LookupAnswers(r, a)
    BY <2>1, NotedFacts, Zenon DEF LookupAnswers
  <2>2. CASE LookupFails(r, a)
    BY <2>2, Zenon DEF LookupFails, Results
  <2> QED
    BY <2>1, <2>2, Zenon
<1> DEFINE n == [c EXCEPT !.pc = "put", !.res = res]
<1>7. n \in Call /\ n.pc = "put" /\ n.res = res /\ n.age = c.age /\ n.lag = c.lag
  BY <1>2, Zenon DEF Call
<1>8. lastDenied'[a] <= n.age + n.lag + MaxLag /\ (n.res = "denied" => lastDenied'[a] <= n.lag)
  <2>1. lastDenied'[a] \in Nat /\ lastDenied[a] \in Nat /\ lastDenied'[a] <= lastDenied[a]
    BY <1>4, <1>5, Constants, SMT
  <2> HIDE DEF n, c
  <2> QED
    BY <1>3, <1>6, <1>7, <2>1, Constants, SMT
<1>9. call' = [call EXCEPT ![<<r, a>>] = n]
  BY <1>6
<1> HIDE DEF n, c
<1>10. call' \in [Calls -> Call] /\ \A d \in Calls : Asked(d)'
  BY <1>5, <1>7, <1>8, <1>9, CallMoves, Zenon
<1>11. /\ refresh' \in [Accounts -> Refresh]
       /\ \A k \in Accounts : refresh'[k] = refresh[k] \/ refresh'[k].pc = "lookup"
  <2>1. CASE LookupAnswers(r, a)
    BY <1>4, <2>1 DEF LookupAnswers, gate
  <2>2. CASE LookupFails(r, a)
    <3> DEFINE started == [NoRefresh EXCEPT !.pc = "lookup"]
    <3>1. started = [pc |-> "lookup", lag |-> 0, res |-> "allowed"]
      BY SMT DEF NoRefresh
    <3>2. started \in Refresh /\ started.pc = "lookup"
      BY <3>1, Constants, SMT DEF Refresh, Results
    <3>3. refresh' = refresh \/ refresh' = [refresh EXCEPT ![a] = started]
      BY <2>2 DEF LookupFails, StartRefresh
    <3> HIDE DEF started
    <3> QED
      BY <1>4, <3>2, <3>3
  <2> QED
    BY <2>1, <2>2
<1>12. TypeOK' /\ IsFiniteSet(keys')
  BY <1>1, <1>5, <1>10, <1>11, Zenon DEF GateInv, TypeOK
<1>13. ASSUME NEW k \in Accounts PROVE Dated(k)' /\ Refreshed(k)'
  <2>1. cache'[k] = cache[k] /\ lastDenied'[k] <= lastDenied[k]
    BY <1>1, <1>5
  <2>2. refresh'[k] = refresh[k] \/ refresh'[k].pc = "lookup"
    BY <1>11
  <2> QED
    BY <1>5, <2>1, <2>2, NewerKeeps DEF Refreshed
<1> QED
  BY <1>10, <1>12, <1>13 DEF GateInv

\* A call stores what it found, whatever was stored since it read the cache.
LEMMA PutsKeep ==
  ASSUME GateInv, NEW r \in Relays, NEW a \in Accounts, LookupPuts(r, a)
  PROVE  GateInv'
<1> DEFINE c == call[<<r, a>>]
           e == EntryOf(c)
<1>1. /\ UNCHANGED <<over, refresh, round, since, quotaDenied, lastDenied>>
      /\ c.pc = "put" /\ Put(a, e, c.lag)
      /\ call' = [call EXCEPT ![<<r, a>>] = Ended("answered", e.denied)]
  BY Zenon DEF LookupPuts, relay
<1>2. c \in Call /\ Asked(<<r, a>>) /\ lastDenied \in [Accounts -> 0..Never]
  BY DEF GateInv, TypeOK, Calls
<1>3. lastDenied[a] <= c.age + c.lag + MaxLag /\ (c.res = "denied" => lastDenied[a] <= c.lag)
  BY <1>1, <1>2 DEF Asked, InFlight
<1>4. /\ e \in Entry /\ lastDenied[a] <= e.age + MaxLag
      /\ e.denied => e.age + e.left < KnownDeniedHold + FailureTTL
  BY <1>2, <1>3, EntryOfFacts, Zenon
<1> HIDE DEF c, e
<1>5. TypeOK /\ IsFiniteSet(keys)
  BY DEF GateInv
<1>6. /\ keys' \subseteq Accounts /\ IsFiniteSet(keys') /\ Cardinality(keys') <= CacheMax
      /\ cache' \in [Accounts -> Entry] /\ cache'[a] = e
      /\ \A k \in Accounts : k # a => cache'[k] = cache[k] \/ cache'[k] = NoEntry
  BY <1>1, <1>4, <1>5, PutFacts, Zenon
<1>7. \A k \in Accounts : lastDenied'[k] <= lastDenied[k]
  BY <1>1, <1>2, Constants, SMT
<1>8. call' \in [Calls -> Call] /\ \A d \in Calls : Asked(d)'
  BY <1>1, <1>2, <1>7, EndedFacts, CallMoves, Zenon
<1>9. TypeOK'
  BY <1>1, <1>5, <1>6, <1>8, Zenon DEF TypeOK
<1>10. ASSUME NEW k \in Accounts PROVE Dated(k)' /\ Refreshed(k)'
  <2>1. Refreshed(k)'
    BY <1>1, <1>2, <1>7, NewerKeeps, Zenon
  <2>2. CASE k = a
    BY <1>1, <1>4, <1>6, <2>1, <2>2, Zenon DEF Dated
  <2>3. CASE cache'[k] = cache[k]
    BY <1>1, <1>2, <1>7, <2>1, <2>3, NewerKeeps, Zenon
  <2>4. CASE cache'[k] = NoEntry
    BY <1>1, <1>2, <2>1, <2>4, Constants, SMT DEF Dated, NoEntry
  <2> QED
    BY <1>6, <2>2, <2>3, <2>4
<1> QED
  BY <1>6, <1>8, <1>9, <1>10 DEF GateInv

\* A background lookup answers, fails, or stores its answer with the time it does so.
LEMMA RefreshKeeps ==
  ASSUME GateInv, NEW a \in Accounts, RefreshAnswers(a) \/ RefreshFails(a) \/ RefreshPuts(a)
  PROVE  GateInv'
<1> DEFINE f == refresh[a]
<1>1. /\ TypeOK /\ IsFiniteSet(keys) /\ f \in Refresh /\ refresh \in [Accounts -> Refresh]
      /\ lastDenied \in [Accounts -> 0..Never] /\ cache \in [Accounts -> Entry] /\ call \in [Calls -> Call]
  BY DEF GateInv, TypeOK
<1>2. UNCHANGED <<over, call, round, since, quotaDenied>>
  BY Zenon DEF RefreshAnswers, RefreshFails, RefreshPuts, relay
<1>3. NoRefresh \in Refresh /\ NoRefresh.pc = "off"
  BY Constants, SMT DEF NoRefresh, Refresh, Results
<1>4. ASSUME lastDenied' \in [Accounts -> 0..Never],
             \A k \in Accounts : lastDenied'[k] <= lastDenied[k]
      PROVE  \A c \in Calls : Asked(c)'
  <2>1. SUFFICES ASSUME NEW c \in Calls PROVE Asked(c)'
    OBVIOUS
  <2>2. c[2] \in Accounts /\ call[c] \in Call /\ Asked(c)
    BY <1>1 DEF Calls, GateInv
  <2>3. /\ call[c].age \in Nat /\ call[c].lag \in Nat /\ lastDenied[c[2]] \in Nat
        /\ lastDenied'[c[2]] \in Nat /\ lastDenied'[c[2]] <= lastDenied[c[2]]
    BY <1>1, <1>4, <2>2, Constants, SMT DEF Call
  <2> QED
    BY <1>2, <2>2, <2>3, Constants, SMT DEF Asked
<1>5. CASE RefreshAnswers(a)
  <2> DEFINE n == [f EXCEPT !.pc = "put", !.res = Answer(a)]
  <2>1. /\ refresh' = [refresh EXCEPT ![a] = n] /\ lastDenied' = Noted(a)
        /\ UNCHANGED <<keys, cache>>
    BY <1>5 DEF RefreshAnswers
  <2>2. /\ lastDenied' \in [Accounts -> 0..Never]
        /\ \A k \in Accounts : lastDenied'[k] <= lastDenied[k]
        /\ Answer(a) \in Results
        /\ Answer(a) = "denied" => lastDenied'[a] = 0
    BY <2>1, NotedFacts, Zenon
  <2>3. n \in Refresh /\ n.res = Answer(a) /\ n.lag = f.lag /\ f.lag \in Nat
    <3>1. PICK res \in Results : res = Answer(a)
      BY <2>2
    <3>2. n = [f EXCEPT !.pc = "put", !.res = res]
      BY <3>1
    <3>3. f.lag \in Nat /\ f.lag \in 0..MaxLag
      BY <1>1, Constants, SMT DEF Refresh
    <3>4. n \in Refresh /\ n.res = res /\ n.lag = f.lag
      BY <1>1, <3>2, Zenon DEF Refresh
    <3> HIDE DEF n, f
    <3> QED
      BY <3>1, <3>3, <3>4
  <2> HIDE DEF n, f
  <2>4. /\ refresh' \in [Accounts -> Refresh] /\ refresh'[a] = n
        /\ \A k \in Accounts : k # a => refresh'[k] = refresh[k]
    BY <1>1, <2>1, <2>3
  <2>5. TypeOK'
    BY <1>1, <1>2, <2>1, <2>2, <2>4, Zenon DEF TypeOK
  <2>6. Refreshed(a)'
    BY <2>2, <2>3, <2>4, SMT DEF Refreshed
  <2>7. \A k \in Accounts : Dated(k)' /\ Refreshed(k)'
    BY <2>1, <2>2, <2>4, <2>6, NewerKeeps, Zenon
  <2> QED
    BY <1>1, <1>4, <2>1, <2>2, <2>5, <2>7, Zenon DEF GateInv
<1>6. ASSUME RefreshFails(a) \/ RefreshPuts(a)
      PROVE  /\ lastDenied' = lastDenied /\ refresh' \in [Accounts -> Refresh]
             /\ \A k \in Accounts : Refreshed(k)'
             /\ \A c \in Calls : Asked(c)'
  <2>1. refresh' = [refresh EXCEPT ![a] = NoRefresh] /\ lastDenied' = lastDenied
    BY <1>6, Zenon DEF RefreshFails, RefreshPuts
  <2>2. /\ refresh' \in [Accounts -> Refresh] /\ refresh'[a] = NoRefresh
        /\ \A k \in Accounts : k # a => refresh'[k] = refresh[k]
    BY <1>1, <1>3, <2>1
  <2>3. lastDenied' \in [Accounts -> 0..Never] /\ \A k \in Accounts : lastDenied'[k] <= lastDenied[k]
    BY <1>1, <2>1, Constants, SMT
  <2>4. Refreshed(a)'
    BY <1>3, <2>2 DEF Refreshed
  <2> QED
    BY <1>4, <2>1, <2>2, <2>3, <2>4, NewerKeeps, Zenon
<1>7. CASE RefreshFails(a)
  <2>1. UNCHANGED <<keys, cache>>
    BY <1>7 DEF RefreshFails
  <2>2. TypeOK'
    BY <1>1, <1>2, <1>6, <1>7, <2>1, Zenon DEF TypeOK
  <2>3. \A k \in Accounts : Dated(k)'
    BY <1>6, <1>7, <2>1, Zenon DEF GateInv, Dated
  <2> QED
    BY <1>1, <1>6, <1>7, <2>1, <2>2, <2>3, Zenon DEF GateInv
<1>8. CASE RefreshPuts(a)
  <2> DEFINE e == [denied |-> f.res = "denied", left |-> AnswerTTL,
                   age |-> IF f.res = "denied" THEN 0 ELSE cache[a].age]
  <2>1. f.pc = "put" /\ Put(a, e, 0)
    BY <1>8 DEF RefreshPuts
  <2>2. /\ cache[a].age \in 0..Never /\ lastDenied[a] <= cache[a].age + MaxLag
        /\ f.lag \in 0..MaxLag /\ (f.res = "denied" => lastDenied[a] <= f.lag)
    BY <1>1, <2>1 DEF GateInv, Dated, Refreshed, Entry, Refresh
  <2>3. /\ e.denied = (f.res = "denied") /\ e.left = AnswerTTL
        /\ e.age = IF f.res = "denied" THEN 0 ELSE cache[a].age
    OBVIOUS
  <2>4. e.age \in 0..Never /\ AnswerTTL \in -MaxLag..AnswerTTL
    BY <2>2, <2>3, Constants, SMT
  <2>5. e \in Entry
    BY <2>4, Zenon DEF Entry
  <2> HIDE DEF e, f
  <2>6. lastDenied[a] \in Nat
    BY <1>1, Constants, SMT
  <2>7. lastDenied[a] <= e.age + MaxLag
    BY <2>2, <2>3, <2>6, Constants, SMT
  <2>8. ASSUME e.denied PROVE e.age + e.left < KnownDeniedHold + FailureTTL
    <3>1. e.age = 0 /\ e.left = AnswerTTL
      BY <2>3, <2>8, Zenon
    <3> QED
      BY <3>1, Constants, SMT
  <2>9. /\ keys' \subseteq Accounts /\ IsFiniteSet(keys') /\ Cardinality(keys') <= CacheMax
        /\ cache' \in [Accounts -> Entry] /\ cache'[a] = e
        /\ \A k \in Accounts : k # a => cache'[k] = cache[k] \/ cache'[k] = NoEntry
    BY <1>1, <2>1, <2>5, PutFacts, Zenon
  <2>10. TypeOK'
    BY <1>1, <1>2, <1>6, <1>8, <2>9, Zenon DEF TypeOK
  <2>11. ASSUME NEW k \in Accounts PROVE Dated(k)'
    <3>1. CASE k = a
      BY <1>6, <1>8, <2>7, <2>8, <2>9, <3>1, Zenon DEF Dated
    <3>2. CASE cache'[k] = cache[k]
      BY <1>6, <1>8, <3>2, Zenon DEF GateInv, Dated
    <3>3. CASE cache'[k] = NoEntry
      BY <1>1, <1>6, <1>8, <3>3, Constants, SMT DEF Dated, NoEntry
    <3> QED
      BY <2>9, <3>1, <3>2, <3>3
  <2> QED
    BY <1>6, <1>8, <2>9, <2>10, <2>11, Zenon DEF GateInv
<1> QED
  BY <1>5, <1>7, <1>8

-----------------------------------------------------------------------------
(* The relays, billing and time *)

\* Observations begin and end, and allowances change, without touching a date.
LEMMA RelayKeeps ==
  ASSUME GateInv,
         UNCHANGED <<keys, cache, refresh, lastDenied>>,
         over' \subseteq Accounts, round' \in [Relays -> BOOLEAN], since' \in [Relays -> 0..Interval],
         quotaDenied' \in [Relays -> SUBSET Accounts], call' \in [Calls -> Call],
         \A c \in Calls : call'[c] = call[c] \/ ~InFlight(call'[c].pc)
  PROVE  GateInv'
<1>1. TypeOK' /\ IsFiniteSet(keys')
  BY Zenon DEF GateInv, TypeOK
<1>2. \A k \in Accounts : Dated(k)' /\ Refreshed(k)'
  BY Zenon DEF GateInv, Dated, Refreshed
<1>3. \A c \in Calls : Asked(c)'
  BY Zenon DEF GateInv, Asked
<1> QED
  BY <1>1, <1>2, <1>3 DEF GateInv

\* The steps of a relay, and of billing, are such steps.
LEMMA RelaySteps ==
  ASSUME GateInv,
         \/ \E r \in Relays : Observe(r) \/ SetQuotaDenied(r) \/ ObserveLost(r)
         \/ \E a \in Accounts : Bill(a)
  PROVE  GateInv'
<1>1. /\ over \subseteq Accounts /\ round \in [Relays -> BOOLEAN] /\ since \in [Relays -> 0..Interval]
      /\ quotaDenied \in [Relays -> SUBSET Accounts] /\ call \in [Calls -> Call]
  BY DEF GateInv, TypeOK
<1>2. NoCall \in Call /\ [NoCall EXCEPT !.pc = "ask"] \in Call /\ ~InFlight(NoCall.pc)
      /\ ~InFlight([NoCall EXCEPT !.pc = "ask"].pc)
  <2>1. 0 \in 0..MaxLag /\ Never \in 0..Never
    BY Constants, SMT
  <2>2. [NoCall EXCEPT !.pc = "ask"] = [pc |-> "ask", lag |-> 0, age |-> Never, res |-> "allowed"]
    BY SMT DEF NoCall
  <2> QED
    BY <2>1, <2>2 DEF NoCall, Call, Results, InFlight
<1>3. ASSUME NEW r \in Relays, Observe(r) PROVE GateInv'
  <2> DEFINE ask == [NoCall EXCEPT !.pc = "ask"]
  <2>1. /\ UNCHANGED <<over, keys, cache, refresh, lastDenied, quotaDenied>>
        /\ round' = [round EXCEPT ![r] = TRUE] /\ since' = [since EXCEPT ![r] = 0]
    BY <1>3, Zenon DEF Observe, gate
  <2>2. PICK S \in SUBSET Accounts :
          call' = [c \in Calls |-> IF c[1] = r /\ c[2] \in S THEN ask ELSE call[c]]
    BY <1>3, Zenon DEF Observe
  <2>3. ask \in Call /\ ~InFlight(ask.pc)
    BY <1>2
  <2> HIDE DEF ask
  <2>4. /\ call' \in [Calls -> Call]
        /\ \A c \in Calls : call'[c] = call[c] \/ ~InFlight(call'[c].pc)
    BY <1>1, <2>2, <2>3, Zenon
  <2>5. round' \in [Relays -> BOOLEAN]
    BY <1>1, <2>1, Zenon
  <2>6. since' \in [Relays -> 0..Interval]
    BY <1>1, <2>1, Constants, SMT
  <2> QED
    BY <1>1, <2>1, <2>4, <2>5, <2>6, RelayKeeps, Zenon
<1>4. ASSUME NEW r \in Relays, SetQuotaDenied(r) \/ ObserveLost(r) PROVE GateInv'
  <2>1. /\ UNCHANGED <<over, keys, cache, refresh, lastDenied, since>>
        /\ round' = [round EXCEPT ![r] = FALSE]
        /\ call' = [c \in Calls |-> IF c[1] = r THEN NoCall ELSE call[c]]
    BY <1>4, Zenon DEF SetQuotaDenied, ObserveLost, EndRound, gate
  <2>2. quotaDenied' \in [Relays -> SUBSET Accounts]
    <3>1. PICK T \in SUBSET Accounts : quotaDenied' = quotaDenied \/ quotaDenied' = [quotaDenied EXCEPT ![r] = T]
      BY <1>4, Zenon DEF SetQuotaDenied, ObserveLost
    <3> QED
      BY <1>1, <3>1
  <2>3. /\ call' \in [Calls -> Call]
        /\ \A c \in Calls : call'[c] = call[c] \/ ~InFlight(call'[c].pc)
    BY <1>1, <1>2, <2>1, Zenon
  <2>4. round' \in [Relays -> BOOLEAN]
    BY <1>1, <2>1, Zenon
  <2> QED
    BY <1>1, <2>1, <2>2, <2>3, <2>4, RelayKeeps, Zenon
<1>5. ASSUME NEW a \in Accounts, Bill(a) PROVE GateInv'
  <2>1. UNCHANGED <<keys, cache, refresh, lastDenied, call, round, since, quotaDenied>>
    BY <1>5, Zenon DEF Bill, gate, relay
  <2>2. over' \subseteq Accounts
    BY <1>1, <1>5 DEF Bill
  <2> QED
    BY <1>1, <2>1, <2>2, RelayKeeps, Zenon
<1> QED
  BY <1>3, <1>4, <1>5

\* As time passes, stored dates and the last true denial age alike.
LEMMA TickKeeps == ASSUME GateInv, Tick PROVE GateInv'
<1>1. /\ cache \in [Accounts -> Entry] /\ refresh \in [Accounts -> Refresh] /\ call \in [Calls -> Call]
      /\ since \in [Relays -> 0..Interval] /\ lastDenied \in [Accounts -> 0..Never]
      /\ UNCHANGED <<over, keys, round, quotaDenied>>
  BY Zenon DEF GateInv, TypeOK, Tick
<1>2. /\ since' \in [Relays -> 0..Interval]
  <2>1. since' = [r \in Relays |-> since[r] + 1] /\ \A r \in Relays : since[r] < Interval
    BY Zenon DEF Tick
  <2> QED
    BY <1>1, <2>1, Constants, SMT
<1>3. \A age \in 0..Never : /\ Older(age, 1) \in 0..Never /\ Older(age, 1) <= age + 1
                            /\ Older(age, 1) = age + 1 \/ Older(age, 1) = Never
  BY Constants, SMT DEF Older
<1>4. /\ lastDenied' \in [Accounts -> 0..Never]
      /\ \A k \in Accounts : lastDenied'[k] <= lastDenied[k] + 1
  <2>1. lastDenied' = [k \in Accounts |-> Older(lastDenied[k], 1)]
    BY Zenon DEF Tick
  <2> QED
    BY <1>1, <1>3, <2>1
<1>5. ASSUME NEW k \in Accounts
      PROVE  cache'[k] \in Entry /\ Dated(k)'
  <2> DEFINE e == cache[k]
  <2>1. cache'[k] = [e EXCEPT !.left = Shorter(@), !.age = Older(@, 1)]
    BY Zenon DEF Tick
  <2>2. /\ e \in Entry /\ e.left \in -MaxLag..AnswerTTL /\ e.age \in 0..Never
        /\ lastDenied[k] <= e.age + MaxLag
        /\ e.denied /\ e.left > 0 => e.age + e.left < KnownDeniedHold + FailureTTL
    BY <1>1 DEF Entry, GateInv, Dated
  <2>3. PICK left \in -MaxLag..AnswerTTL, age \in 0..Never :
          /\ left = Shorter(e.left) /\ age = Older(e.age, 1)
    <3>1. Shorter(e.left) \in -MaxLag..AnswerTTL
      BY <2>2, Constants, SMT DEF Shorter
    <3>2. Older(e.age, 1) \in 0..Never
      BY <1>3, <2>2
    <3> QED
      BY <3>1, <3>2
  <2>4. cache'[k] = [e EXCEPT !.left = left, !.age = age]
    BY <2>1, <2>3
  <2> HIDE DEF e
  <2>5. /\ cache'[k] \in Entry /\ cache'[k].denied = e.denied
        /\ cache'[k].left = left /\ cache'[k].age = age
    BY <2>2, <2>4, Zenon DEF Entry
  <2>6. /\ age = e.age + 1 \/ age = Never
        /\ age <= e.age + 1
    BY <1>3, <2>2, <2>3
  <2>7. lastDenied'[k] <= age + MaxLag
    <3>1. lastDenied'[k] \in 0..Never /\ lastDenied[k] \in 0..Never /\ lastDenied'[k] <= lastDenied[k] + 1
      BY <1>1, <1>4
    <3> QED
      BY <2>2, <2>6, <3>1, Constants, SMT
  <2>8. ASSUME e.denied, left > 0 PROVE age + left < KnownDeniedHold + FailureTTL
    <3>1. e.left > 0 /\ left = e.left - 1
      BY <2>2, <2>3, <2>8, Constants, SMT DEF Shorter
    <3> QED
      BY <2>2, <2>3, <2>6, <2>8, <3>1, Constants, SMT
  <2> QED
    BY <2>5, <2>7, <2>8, Zenon DEF Dated
<1>6. ASSUME NEW k \in Accounts
      PROVE  refresh'[k] \in Refresh /\ Refreshed(k)'
  <2> DEFINE f == refresh[k]
  <2>1. /\ refresh'[k] = IF InFlight(f.pc) THEN [f EXCEPT !.lag = @ + 1] ELSE f
        /\ InFlight(f.pc) => f.lag < MaxLag
    BY Zenon DEF Tick
  <2>2. f \in Refresh /\ f.lag \in 0..MaxLag /\ Refreshed(k)
    BY <1>1 DEF Refresh, GateInv
  <2>3. CASE InFlight(f.pc)
    <3>1. PICK lag \in 0..MaxLag : lag = f.lag + 1
      BY <2>1, <2>2, <2>3, Constants, SMT
    <3>2. refresh'[k] = [f EXCEPT !.lag = lag]
      BY <2>1, <2>3, <3>1
    <3>3. /\ refresh'[k] \in Refresh /\ refresh'[k].pc = f.pc /\ refresh'[k].res = f.res
          /\ refresh'[k].lag = lag
      BY <2>2, <3>2 DEF Refresh
    <3>4. lastDenied'[k] <= lastDenied[k] + 1 /\ lastDenied[k] \in 0..Never /\ lastDenied'[k] \in 0..Never
      BY <1>1, <1>4
    <3>5. ASSUME lastDenied[k] <= f.lag PROVE lastDenied'[k] <= lag
      BY <2>2, <3>1, <3>4, <3>5, Constants, SMT
    <3> QED
      BY <2>2, <3>3, <3>5, Zenon DEF Refreshed
  <2>4. CASE ~InFlight(f.pc)
    BY <2>1, <2>2, <2>4 DEF Refreshed, InFlight
  <2> QED
    BY <2>3, <2>4
<1>7. ASSUME NEW c \in Calls
      PROVE  call'[c] \in Call /\ Asked(c)'
  <2> DEFINE g == call[c]
  <2>1. /\ call'[c] = IF InFlight(g.pc) THEN [g EXCEPT !.lag = @ + 1] ELSE g
        /\ InFlight(g.pc) => g.lag < MaxLag
    BY Zenon DEF Tick
  <2>2. /\ g \in Call /\ g.lag \in 0..MaxLag /\ g.age \in 0..Never /\ Asked(c) /\ c[2] \in Accounts
    BY <1>1 DEF Call, GateInv, Calls
  <2>3. CASE InFlight(g.pc)
    <3>1. PICK lag \in 0..MaxLag : lag = g.lag + 1
      BY <2>1, <2>2, <2>3, Constants, SMT
    <3>2. call'[c] = [g EXCEPT !.lag = lag]
      BY <2>1, <2>3, <3>1
    <3>3. /\ call'[c] \in Call /\ call'[c].pc = g.pc /\ call'[c].res = g.res
          /\ call'[c].lag = lag /\ call'[c].age = g.age
      BY <2>2, <3>2 DEF Call
    <3>4. /\ lastDenied'[c[2]] <= lastDenied[c[2]] + 1
          /\ lastDenied[c[2]] \in 0..Never /\ lastDenied'[c[2]] \in 0..Never
      BY <1>1, <1>4, <2>2
    <3>5. /\ lastDenied[c[2]] <= g.age + g.lag + MaxLag
          /\ g.pc = "put" /\ g.res = "denied" => lastDenied[c[2]] <= g.lag
      BY <2>2, <2>3 DEF Asked
    <3>6. lastDenied'[c[2]] <= g.age + lag + MaxLag
      BY <2>2, <3>1, <3>4, <3>5, Constants, SMT
    <3>7. ASSUME lastDenied[c[2]] <= g.lag PROVE lastDenied'[c[2]] <= lag
      BY <2>2, <3>1, <3>4, <3>7, Constants, SMT
    <3> HIDE DEF g
    <3> QED
      BY <3>3, <3>5, <3>6, <3>7, Zenon DEF Asked
  <2>4. CASE ~InFlight(g.pc)
    BY <2>1, <2>2, <2>4 DEF Asked
  <2> QED
    BY <2>3, <2>4
<1>8. cache' \in [Accounts -> Entry] /\ refresh' \in [Accounts -> Refresh] /\ call' \in [Calls -> Call]
  BY <1>5, <1>6, <1>7, Zenon DEF Tick
<1>9. TypeOK' /\ IsFiniteSet(keys')
  BY <1>1, <1>2, <1>4, <1>8, Zenon DEF GateInv, TypeOK
<1> QED
  BY <1>5, <1>6, <1>7, <1>9 DEF GateInv

-----------------------------------------------------------------------------
\* A new gate has an empty cache and knows of no denial.
LEMMA InitGate == Init => GateInv
<1> SUFFICES ASSUME Init PROVE GateInv
  OBVIOUS
<1>1. 0 \in 0..MaxLag /\ Never \in 0..Never /\ 0 \in 0..Interval /\ -MaxLag \in -MaxLag..AnswerTTL
  BY Constants, SMT
<1>2. NoEntry \in Entry /\ NoRefresh \in Refresh /\ NoCall \in Call
  BY <1>1 DEF NoEntry, Entry, NoRefresh, Refresh, NoCall, Call, Results
<1>3. IsFiniteSet(keys) /\ Cardinality(keys) = 0
  BY FS_EmptySet DEF Init
<1>4. Cardinality(keys) <= CacheMax
  BY <1>3, Constants, SMT
<1>5. TypeOK
  BY <1>1, <1>2, <1>4 DEF Init, TypeOK
<1>6. \A a \in Accounts : Dated(a) /\ Refreshed(a)
  BY Constants, SMT DEF Init, Dated, Refreshed, NoEntry, NoRefresh
<1>7. \A c \in Calls : Asked(c)
  BY DEF Init, Asked, NoCall, InFlight
<1> QED
  BY <1>3, <1>5, <1>6, <1>7 DEF GateInv

\* Every step keeps the invariant.
LEMMA NextGate == GateInv /\ [Next]_vars => GateInv'
<1> SUFFICES ASSUME GateInv, [Next]_vars PROVE GateInv'
  OBVIOUS
<1>1. CASE Tick
  BY <1>1, TickKeeps
<1>2. CASE Refreshing
  BY <1>2, RefreshKeeps DEF Refreshing
<1>3. ASSUME NEW r \in Relays, Asking(r) PROVE GateInv'
  BY <1>3, AskKeeps, AnswersKeep, PutsKeep DEF Asking
<1>4. CASE UNCHANGED vars
  BY <1>4, Zenon DEF vars, gate, relay, GateInv, TypeOK, Dated, Refreshed, Asked
<1> QED
  BY <1>1, <1>2, <1>3, <1>4, RelaySteps DEF Next

\* The invariant holds throughout.
THEOREM GateInvariant == Spec => []GateInv
<1> QED
  BY InitGate, NextGate, PTL DEF Spec

\* Whatever lookups are under way together, and for every limit, the cache never
\* holds more entries than it (Gate.put), and every variable keeps its type.
THEOREM GateTypeCorrect == Spec => []TypeOK
<1>1. GateInv => TypeOK
  BY DEF GateInv
<1> QED
  BY <1>1, GateInvariant, PTL

\* For every time to live, hold and duration of a lookup, a denial the gate still
\* answers with is no older than the hold, one failure's validity and one lookup
\* (Gate.Denied, refreshInBackground).
THEOREM HoldIsBoundedHolds == Spec => []HoldIsBounded
<1>1. ASSUME GateInv PROVE HoldIsBounded
  <2> SUFFICES ASSUME NEW a \in Accounts, Valid(a), cache[a].denied
               PROVE  lastDenied[a] < KnownDeniedHold + FailureTTL + MaxLag
    BY DEF HoldIsBounded
  <2>1. /\ cache[a] \in Entry /\ lastDenied[a] \in 0..Never /\ cache[a].left > 0 /\ Dated(a)
    BY <1>1 DEF GateInv, TypeOK, Valid
  <2>2. cache[a].left \in -MaxLag..AnswerTTL /\ cache[a].age \in 0..Never
    BY <2>1 DEF Entry
  <2>3. /\ cache[a].age + cache[a].left < KnownDeniedHold + FailureTTL
        /\ lastDenied[a] <= cache[a].age + MaxLag
    BY <2>1, Zenon DEF Dated
  <2> QED
    BY <2>1, <2>2, <2>3, Constants, SMT
<1> QED
  BY <1>1, GateInvariant, PTL
=============================================================================
