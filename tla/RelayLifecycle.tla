--------------------------- MODULE RelayLifecycle ---------------------------
(***************************************************************************)
(* The life of one native relay node: the relay process and its state file *)
(* (relay/nodelifecycle/client.go, relay/cmd/paperboat-relay/main.go), the *)
(* endpoints it admits (relay/derpquic/server.go) and the control plane's  *)
(* registry row (server/internal/controlplane/relay_nodes.go).  A process  *)
(* registers under a generation and a process epoch, renews a short lease  *)
(* by observations that carry the set of endpoints it knows, and cuts off  *)
(* the endpoints whose revocation the answers report.                      *)
(*                                                                         *)
(* Requests may be lost, answered late, or reach the control plane after   *)
(* the relay has given up on them; the process may crash between any two   *)
(* steps and a save may fail with or without replacing the file.  One      *)
(* clock is shared; every deadline is the time left until it.              *)
(***************************************************************************)
EXTENDS Integers, FiniteSets

CONSTANTS
    Endpoints,      \* account and endpoint pairs (derpquic.AuthoritySubject)
    Namespaces,     \* carriers of an endpoint: one connection for each
    Lease,          \* relayNodeLease
    Registry,       \* relayRegistryLease
    Timeout,        \* the deadline of one control request
    GrantTTL,       \* lifetime of a relay grant
    FenceTTL,       \* how long a revocation's fence is kept
    MaxGen,         \* bound: an identity's configuration and revocation generations
    MaxEpoch,       \* bound: process epochs generated
    MaxLate         \* bound: abandoned requests still under way

ASSUME RelayAssumption ==
    /\ {Lease, Registry, Timeout, GrantTTL, FenceTTL, MaxGen, MaxEpoch} \subseteq Nat \ {0}
    /\ MaxLate \in Nat
    /\ Lease <= Registry
    /\ GrantTTL <= FenceTTL

VARIABLES
    disk,       \* the state file: generation and pending epoch (0: none)
    proc,       \* where the relay process is
    draining,   \* Server.draining
    lease,      \* Client.lease
    sent,       \* Client.sentSubjects: {} or the one set last acknowledged
    fence,      \* Server.fences: generation 0 when there is none
    peer,       \* Server.peers: generation of each carrier's grant, 0 without a connection
    rpc,        \* the request under way and its answer
    late,       \* requests given up by the relay and not yet handled
    reg,        \* the control_tunnel_nodes row
    stored,     \* the relay_subject_sets row
    build,      \* the configuration request of each generation: time left of what it may yet sign
    grants,     \* the grant it signed for the registered process: time left
    config,     \* peer_network_identities.config_generation
    floor,      \* peer_network_identities.relay_revocation_generation
    pool,       \* is the account eligible for the node's pool, has the identity been erased
    epochs,     \* process epochs generated so far
    exposed,    \* history: time an endpoint has been forwarding below its first valid generation
    barred,     \* history: the generations a revocation found issued, while its bar lasts
    drained     \* history: this epoch's drain was recorded, no resume since

relay   == <<proc, draining, lease, sent, fence, peer, barred>>
network == <<rpc, late>>
server  == <<reg, stored, drained>>
peers   == <<build, grants, config, floor, pool>>
vars    == <<disk, relay, network, server, peers, epochs, exposed>>

Gens   == 1 .. MaxGen
Epochs == 0 .. MaxEpoch
Nodes  == 1 .. MaxEpoch + 1
Smaller(a, b) == IF a <= b THEN a ELSE b
Larger(a, b) == IF a <= b THEN b ELSE a
Less(n) == IF n > 0 THEN n - 1 ELSE 0
Top == MaxGen + 2   \* math.MaxInt64: above every generation

Request == [kind : {"none", "start", "observe"}, gen : 0 .. MaxEpoch + 1, epoch : Epochs,
            ready : BOOLEAN, draining : BOOLEAN, set : SUBSET Endpoints, full : BOOLEAN]
Answer  == [kind : {"none", "ok", "fenced"}, left : 0 .. Registry, required : BOOLEAN,
            min : [Endpoints -> 0 .. Top]]

NoMin     == [e \in Endpoints |-> 0]
NoRequest == [kind |-> "none", gen |-> 0, epoch |-> 0, ready |-> FALSE, draining |-> FALSE,
              set |-> {}, full |-> FALSE]
NoAnswer  == [kind |-> "none", left |-> 0, required |-> FALSE, min |-> NoMin]
Fenced    == [NoAnswer EXCEPT !.kind = "fenced"]
Granted(left, required, min) ==
    [kind |-> "ok", left |-> left, required |-> required, min |-> min]
Later(a) == [kind |-> a.kind, left |-> Less(a.left), required |-> a.required, min |-> a.min]

Idle    == [req |-> NoRequest, wait |-> 0, answer |-> NoAnswer]
Send(q) == rpc' = [req |-> q, wait |-> Timeout, answer |-> NoAnswer]
NoFence == [gen |-> 0, left |-> 0, signed |-> FALSE]
NoPeers == [e \in Endpoints |-> [n \in Namespaces |-> 0]]
NoBars  == [e \in Endpoints |-> {}]
NoTimes == [e \in Endpoints |-> [g \in Gens |-> 0]]

Init ==
    /\ disk = [gen |-> 1, pending |-> 0]
    /\ proc = "down" /\ draining = FALSE
    /\ lease = [gen |-> 0, epoch |-> 0, left |-> 0]
    /\ sent = {}
    /\ fence = [e \in Endpoints |-> NoFence]
    /\ peer = NoPeers /\ barred = NoBars
    /\ rpc = Idle /\ late = {}
    /\ reg = [gen |-> 1, epoch |-> 0, state |-> "registered", left |-> 0]
    /\ stored = [gen |-> 0, epoch |-> 0, sets |-> {}]
    /\ drained = FALSE
    /\ build = NoTimes /\ grants = NoTimes
    \* A new identity after one change of its pool's policy: a first generation to revoke.
    /\ config = NoMin /\ floor = [e \in Endpoints |-> 1]
    /\ pool = [e \in Endpoints |-> "eligible"]
    /\ epochs = 0
    /\ exposed = NoMin

-----------------------------------------------------------------------------
(* The control plane.  Each handler is one transaction: what it leaves in   *)
(* the row, in the stored subject set, and what it answers.                 *)

Outcome(r, s, d, a) == [reg |-> r, stored |-> s, drained |-> d, answer |-> a]
Refused == Outcome(reg, stored, drained, Fenced)

\* An operator's drain keeps every process from starting.
relayNodeMayStart == reg.state # "draining"

\* The lease of a start answered again ends with the row.
RetryLease(left) == Smaller(left, Lease)
ResumableState == {"registered", "offline"}

\* Plausible slip: a start is not compared with the row's generation.
StartAnyGeneration(q) ==
    IF ~relayNodeMayStart THEN Refused
    ELSE IF reg.epoch = q.epoch
    THEN IF reg.gen # q.gen + 1 \/ (reg.left = 0 /\ reg.state \notin ResumableState) THEN Refused
         ELSE LET left == IF reg.left = 0 THEN Registry ELSE reg.left IN
              Outcome([reg EXCEPT !.left = left], stored, drained,
                      Granted(RetryLease(left), FALSE, NoMin))
    ELSE Outcome([gen |-> q.gen + 1, epoch |-> q.epoch, state |-> "registered", left |-> Registry],
                 stored, FALSE, Granted(Lease, FALSE, NoMin))

StartRelayNode(q) ==
    IF ~relayNodeMayStart THEN Refused
    ELSE IF reg.epoch = q.epoch /\ reg.gen = q.gen + 1
    THEN IF reg.left = 0 /\ reg.state \notin ResumableState THEN Refused
         ELSE LET left == IF reg.left = 0 THEN Registry ELSE reg.left IN
              Outcome([reg EXCEPT !.left = left], stored, drained,
                      Granted(RetryLease(left), FALSE, NoMin))
    ELSE IF reg.gen # q.gen \/ reg.epoch = q.epoch THEN Refused
    ELSE Outcome([gen |-> q.gen + 1, epoch |-> q.epoch, state |-> "registered", left |-> Registry],
                 stored, FALSE, Granted(Lease, FALSE, NoMin))

\* storedRelaySubjects finds the list of the observing process, with the digest it sent.
Matches(q) == stored.gen = q.gen /\ stored.epoch = q.epoch /\ q.set \in stored.sets
\* The first grant generation still valid for the endpoint: an identity outside the pool is cut above
\* every grant minted for it, a missing one above everything.
MinGeneration(e) ==
    CASE pool[e] = "erased"     -> Top
      [] pool[e] = "eligible"   -> floor[e]
      [] pool[e] = "ineligible" -> Larger(config[e], floor[e]) + 1
\* Only members above relayFirstGeneration are listed.
relayMinGenerations(set) ==
    [e \in Endpoints |-> IF e \in set /\ MinGeneration(e) > 1 THEN MinGeneration(e) ELSE 0]

\* Plausible slip: an acknowledged drain does not refuse what arrives after it.
ObservableOffline(q) ==
    /\ reg.gen = q.gen /\ reg.epoch = q.epoch /\ reg.left > 0
    /\ ~(reg.state = "draining" /\ ~q.draining)
Observable(q) ==
    /\ reg.gen = q.gen /\ reg.epoch = q.epoch
    /\ ~(reg.state = "offline" /\ ~q.draining)
    /\ reg.left > 0
    /\ ~(reg.state = "draining" /\ ~q.draining)

StateAfter(q) ==
    IF reg.state = "draining" THEN "draining"
    ELSE IF q.draining THEN "offline"
    ELSE IF q.ready THEN "ready" ELSE "registered"

ObserveRelayNode(q) ==
    IF ~Observable(q) THEN Refused
    ELSE LET required == ~q.full /\ ~Matches(q)
             list == IF q.full THEN [gen |-> q.gen, epoch |-> q.epoch, sets |-> {q.set}] ELSE stored
         IN Outcome([reg EXCEPT !.state = StateAfter(q), !.left = Registry], list,
                    drained \/ q.draining,
                    Granted(Lease, required, IF required THEN NoMin ELSE relayMinGenerations(q.set)))

Handle(q) == IF q.kind = "start" THEN StartRelayNode(q) ELSE ObserveRelayNode(q)

Handled(q) ==
    /\ reg' = Handle(q).reg
    /\ stored' = Handle(q).stored
    /\ drained' = Handle(q).drained
    \* Grants name the registered process: a new registration makes the old ones useless.
    /\ grants' = IF reg'.gen = reg.gen THEN grants ELSE NoTimes
    /\ UNCHANGED <<disk, relay, build, config, floor, pool, epochs>>

ServerAnswers ==
    /\ rpc.req.kind # "none" /\ rpc.answer.kind = "none"
    /\ Handled(rpc.req)
    /\ rpc' = [req |-> rpc.req, wait |-> rpc.wait, answer |-> Handle(rpc.req).answer]
    /\ UNCHANGED late

\* A request the relay no longer waits for; its answer goes nowhere.
ServerHandlesLate ==
    \E q \in late :
        /\ Handled(q)
        /\ late' = late \ {q}
        /\ UNCHANGED rpc

\* An operator's drain and resume of an unmanaged node.
OperatorDrain ==
    /\ reg.state \in {"ready", "registered"}
    /\ reg' = [reg EXCEPT !.state = "draining"]
    /\ UNCHANGED <<disk, relay, network, stored, drained, peers, epochs>>

OperatorResume ==
    /\ reg.state = "draining"
    /\ reg' = [reg EXCEPT !.state = "registered"]
    /\ drained' = FALSE
    /\ UNCHANGED <<disk, relay, network, stored, peers, epochs>>

\* A configuration request reads the clock and allocates its generation by a statement of its own.
Configure(e) ==
    /\ pool[e] # "erased" /\ config[e] < MaxGen
    /\ config' = [config EXCEPT ![e] = @ + 1]
    /\ build' = [build EXCEPT ![e][config[e] + 1] = GrantTTL]
    /\ UNCHANGED <<disk, relay, network, server, grants, floor, pool, epochs>>

\* Later it signs a grant for the registered process of a ready node with a fresh heartbeat.  The grant
\* ends a minute after the request's clock, with the row, or with an authority it rests on, the earliest.
Mint(e, g) ==
    /\ pool[e] = "eligible" /\ reg.state = "ready" /\ reg.left > Registry - Lease
    /\ \E left \in 1 .. Smaller(build[e][g], reg.left) : grants' = [grants EXCEPT ![e][g] = left]
    /\ build' = [build EXCEPT ![e][g] = 0]
    /\ UNCHANGED <<disk, relay, network, server, config, floor, pool, epochs>>

\* A trigger: the account's authority over the endpoint changed, every generation so far is revoked.
Withdraw(e) ==
    /\ pool[e] # "erased" /\ config[e] < MaxGen
    /\ floor' = [floor EXCEPT ![e] = config[e] + 1]
    /\ config' = [config EXCEPT ![e] = config[e] + 1]
    /\ UNCHANGED <<disk, relay, network, server, build, grants, pool, epochs>>

\* A pool policy is set, or an installation removed: revokeIneligible.
SetPool(e) ==
    /\ pool[e] # "erased" /\ floor[e] < MaxGen
    /\ \E p \in {"eligible", "ineligible"} : pool' = [pool EXCEPT ![e] = p]
    /\ floor' = [floor EXCEPT ![e] = @ + 1]
    /\ UNCHANGED <<disk, relay, network, server, build, grants, config, epochs>>

\* The account joins or leaves the team that owns the node.
ChangeMember(e) ==
    /\ pool[e] # "erased"
    /\ pool' = [pool EXCEPT ![e] = IF @ = "eligible" THEN "ineligible" ELSE "eligible"]
    /\ UNCHANGED <<disk, relay, network, server, build, grants, config, floor, epochs>>

\* The account is erased, and its identities with it.
Erase(e) ==
    /\ pool[e] # "erased"
    /\ pool' = [pool EXCEPT ![e] = "erased"]
    /\ UNCHANGED <<disk, relay, network, server, build, grants, config, floor, epochs>>

Authority(e) == Configure(e) \/ Withdraw(e) \/ SetPool(e) \/ ChangeMember(e) \/ Erase(e)
-----------------------------------------------------------------------------
(* The relay process. *)

Alive == {"up", "serving"}

\* The relay stops waiting; a request not yet handled may still be under way.
Abandon ==
    /\ rpc' = Idle
    /\ \/ late' = late
       \/ /\ rpc.req.kind # "none" /\ rpc.answer.kind = "none"
          /\ Cardinality(late) < MaxLate
          /\ late' = late \cup {rpc.req}

\* The process ends, whatever it was doing: only the file stays.
Gone ==
    /\ proc' = "down" /\ draining' = FALSE
    /\ lease' = [gen |-> 0, epoch |-> 0, left |-> 0]
    /\ sent' = {}
    /\ fence' = [e \in Endpoints |-> NoFence]
    /\ peer' = NoPeers /\ barred' = NoBars

StartRequest(d) ==
    [NoRequest EXCEPT !.kind = "start", !.gen = d.gen, !.epoch = d.pending]

\* Plausible slip: a restart always takes a new epoch.
PendingAlwaysNew == IF epochs < MaxEpoch THEN epochs + 1 ELSE disk.pending
\* Start reads the file, and saves a new pending epoch unless a start was interrupted.
PendingAfterRead == IF disk.pending = 0 THEN epochs + 1 ELSE disk.pending

Start ==
    /\ proc = "down"
    /\ disk.pending = 0 => epochs < MaxEpoch
    /\ LET d == [disk EXCEPT !.pending = PendingAfterRead] IN
       /\ disk' = d
       /\ epochs' = IF d.pending > epochs THEN d.pending ELSE epochs
       /\ Send(StartRequest(d))
    /\ proc' = "start"
    /\ UNCHANGED <<draining, lease, sent, fence, peer, barred, late, server, peers>>

\* save fails: before the rename the file is unchanged, after it the error comes from the directory's sync.
StartSaveFails ==
    /\ proc = "down" /\ disk.pending = 0 /\ epochs < MaxEpoch
    /\ disk' \in {disk, [disk EXCEPT !.pending = epochs + 1]}
    /\ epochs' = epochs + 1
    /\ UNCHANGED <<relay, network, server, peers>>

\* Plausible slip: the lease is counted from the arrival of its answer.
StartAcceptedFromNow ==
    /\ proc = "start" /\ rpc.answer.kind = "ok"
    /\ proc' = "save"
    /\ lease' = [gen |-> rpc.req.gen + 1, epoch |-> rpc.req.epoch, left |-> Lease]
    /\ rpc' = Idle
    /\ UNCHANGED <<disk, draining, sent, fence, peer, barred, late, server, peers, epochs>>

\* The answer names the next generation and the pending epoch; Start now saves them.
StartAccepted ==
    /\ proc = "start" /\ rpc.answer.kind = "ok" /\ rpc.answer.left > 0
    /\ proc' = "save"
    /\ lease' = [gen |-> rpc.req.gen + 1, epoch |-> rpc.req.epoch, left |-> rpc.answer.left]
    /\ rpc' = Idle
    /\ UNCHANGED <<disk, draining, sent, fence, peer, barred, late, server, peers, epochs>>

Started ==
    /\ proc = "save"
    /\ disk' = [gen |-> lease.gen, pending |-> 0]
    /\ proc' = "up"
    /\ UNCHANGED <<draining, lease, sent, fence, peer, barred, network, server, peers, epochs>>

StartedSaveFails ==
    /\ proc = "save"
    /\ disk' \in {disk, [gen |-> lease.gen, pending |-> 0]}
    /\ Gone
    /\ UNCHANGED <<network, server, peers, epochs>>

\* The listener is up: Server.Ready.
Listen ==
    /\ proc = "up"
    /\ proc' = "serving"
    /\ UNCHANGED <<disk, draining, lease, sent, fence, peer, barred, network, server, peers, epochs>>

\* The endpoint has a connection, on whatever carrier.
Live(e) == \E n \in Namespaces : peer[e][n] # 0
AuthoritySubjects == {e \in Endpoints : fence[e].signed /\ (fence[e].left > 0 \/ Live(e))}

Observation(drain) ==
    [kind |-> "observe", gen |-> lease.gen, epoch |-> lease.epoch,
     ready |-> proc = "serving" /\ ~drain, draining |-> drain,
     set |-> AuthoritySubjects, full |-> AuthoritySubjects \notin sent]

Observe ==
    /\ proc \in Alive /\ rpc = Idle /\ lease.left > 0
    /\ Send(Observation(draining))
    /\ UNCHANGED <<disk, relay, late, server, peers, epochs>>

\* Server.Revoke: a higher fence without a grant replaces the endpoint's, and its connections are closed.
Revokes(e) == rpc.answer.min[e] > fence[e].gen
\* Plausible slip: the fence goes before the last grant it is for.
RevocationFenceShort(e, min) == [gen |-> min, left |-> FenceTTL - 1, signed |-> FALSE]
\* The fence of a revocation outlives every grant signed before it.
RevocationFence(e, min) == [gen |-> min, left |-> FenceTTL, signed |-> FALSE]

\* Plausible slip: the request for the full list is overlooked.
SentKept(required) == IF rpc.req.full THEN {rpc.req.set} ELSE sent
\* Nothing when the full list was asked for, or the list the control plane now holds.
SentAfter(required) == IF required THEN {} ELSE IF rpc.req.full THEN {rpc.req.set} ELSE sent

ObserveAccepted ==
    /\ proc \in Alive /\ rpc.answer.kind = "ok" /\ rpc.answer.left > 0
    /\ fence' = [e \in Endpoints |->
                    IF Revokes(e) THEN RevocationFence(e, rpc.answer.min[e]) ELSE fence[e]]
    /\ peer' = [e \in Endpoints |-> IF Revokes(e) THEN NoPeers[e] ELSE peer[e]]
    /\ barred' = [e \in Endpoints |->
                     IF Revokes(e) THEN barred[e] \cup {g \in 1 .. config[e] : g < rpc.answer.min[e]}
                     ELSE barred[e]]
    /\ sent' = SentAfter(rpc.answer.required)
    /\ lease' = [lease EXCEPT !.left = rpc.answer.left]
    /\ rpc' = Idle
    /\ UNCHANGED <<disk, proc, draining, late, server, peers, epochs>>

\* No answer in time, or an error that is not a refusal: Run tries again within the lease.
ObserveFails ==
    /\ proc \in Alive /\ rpc # Idle
    /\ Abandon
    /\ UNCHANGED <<disk, relay, server, peers, epochs>>

\* Forwarding ends at once; main then sends one last observation before it exits.
Leave ==
    /\ proc' = "leaving" /\ draining' = TRUE
    /\ peer' = NoPeers
    /\ UNCHANGED <<disk, lease, sent, fence, barred, server, peers, epochs>>

ObserveFenced ==
    /\ proc \in Alive
    /\ \/ rpc.answer.kind = "fenced"
       \/ rpc.answer.kind = "ok" /\ rpc.answer.left = 0
    /\ rpc' = Idle /\ UNCHANGED late
    /\ Leave

\* Run: the lease is over, an observation still under way is given up.
LeaseOver == lease.left = 0
LeaseExpires ==
    /\ proc \in Alive /\ LeaseOver
    /\ Abandon
    /\ Leave

\* A signal: no new endpoint is admitted, the others keep forwarding for the grace period.
Drain ==
    /\ proc \in Alive /\ ~draining
    /\ draining' = TRUE
    /\ UNCHANGED <<disk, proc, lease, sent, fence, peer, barred, network, server, peers, epochs>>

\* The grace period is over, or a listener failed.
Stop ==
    /\ proc \in Alive
    /\ Abandon
    /\ Leave

LastObserve ==
    /\ proc = "leaving" /\ lease.left > 0
    /\ Send(Observation(TRUE))
    /\ proc' = "last"
    /\ UNCHANGED <<disk, draining, lease, sent, fence, peer, barred, late, server, peers, epochs>>

\* The process ends: answered, timed out, refused at start, or by a crash at any point.
Exit ==
    /\ proc # "down"
    /\ Abandon
    /\ Gone
    /\ UNCHANGED <<disk, server, peers, epochs>>

\* Server.admit: expired fences go, except a grant's that has a connection.
Pruned == [e \in Endpoints |->
    IF fence[e].left = 0 /\ (~Live(e) \/ ~fence[e].signed) THEN NoFence ELSE fence[e]]
\* The newer grant that took the revocation's place has expired, and its connections are gone.
BarLifted(e) == fence[e].signed /\ fence[e].left = 0 /\ ~Live(e)

\* A connection presents a grant: a new one, which takes the place of the carrier's old one, or the
\* carrier's own again, which a draining relay still lets through.  Grants older than the fence's or
\* than the one of the connection replaced are refused.
Admit(e, n, g) ==
    /\ proc = "serving" /\ (draining => peer[e][n] # 0)
    /\ lease.gen = reg.gen /\ lease.epoch = reg.epoch /\ grants[e][g] > 0
    /\ g >= Pruned[e].gen /\ g >= peer[e][n]
    /\ fence' = [Pruned EXCEPT ![e] = [gen |-> g, left |-> grants[e][g], signed |-> TRUE]]
    /\ peer' = [peer EXCEPT ![e][n] = g]
    /\ barred' = [f \in Endpoints |-> IF BarLifted(f) THEN {} ELSE barred[f]]
    /\ UNCHANGED <<disk, proc, draining, lease, sent, network, server, peers, epochs>>

Disconnect(e, n) ==
    /\ peer[e][n] # 0
    /\ peer' = [peer EXCEPT ![e][n] = 0]
    /\ UNCHANGED <<disk, proc, draining, lease, sent, fence, barred, network, server, peers, epochs>>

\* Time passes.  The lease timer and a request's deadline fire before it goes on.
Tick ==
    /\ ~(proc \in Alive /\ lease.left = 0)
    /\ rpc # Idle => rpc.wait > 0
    /\ lease' = [lease EXCEPT !.left = Less(@)]
    /\ rpc' = [req |-> rpc.req, wait |-> Less(rpc.wait), answer |-> Later(rpc.answer)]
    /\ reg' = [reg EXCEPT !.left = Less(@)]
    /\ fence' = [e \in Endpoints |-> [fence[e] EXCEPT !.left = Less(@)]]
    /\ build' = [e \in Endpoints |-> [g \in Gens |-> Less(build[e][g])]]
    /\ grants' = [e \in Endpoints |-> [g \in Gens |-> Less(grants[e][g])]]
    /\ UNCHANGED <<disk, proc, draining, sent, peer, barred, late, stored, drained,
                   config, floor, pool, epochs>>

Relay ==
    \/ Start \/ StartSaveFails \/ StartAccepted \/ Started \/ StartedSaveFails \/ Listen
    \/ Observe \/ ObserveAccepted \/ ObserveFails \/ ObserveFenced \/ LeaseExpires
    \/ Drain \/ Stop \/ LastObserve \/ Exit
Peering ==
    \E e \in Endpoints : \/ Authority(e)
                         \/ \E g \in Gens : Mint(e, g)
                         \/ \E n \in Namespaces : Disconnect(e, n) \/ \E g \in Gens : Admit(e, n, g)
Control ==
    ServerAnswers \/ ServerHandlesLate \/ OperatorDrain \/ OperatorResume \/ Peering

\* Connected, while the newest grant it presented is no longer valid.
Stale(e) == Live(e) /\ fence[e].gen < MinGeneration(e)
Expose(t) ==
    exposed' = [e \in Endpoints |->
                  IF Stale(e)' /\ fence'[e].gen = fence[e].gen THEN exposed[e] + t ELSE 0]

Next == (Relay /\ Expose(0)) \/ (Control /\ Expose(0)) \/ (Tick /\ Expose(1))
Spec == Init /\ [][Next]_vars
-----------------------------------------------------------------------------
TypeOK ==
    /\ disk \in [gen : Nodes, pending : Epochs]
    /\ proc \in {"down", "start", "save", "up", "serving", "leaving", "last"}
    /\ draining \in BOOLEAN /\ drained \in BOOLEAN
    /\ lease \in [gen : 0 .. MaxEpoch + 1, epoch : Epochs, left : 0 .. Lease]
    /\ sent \in SUBSET SUBSET Endpoints /\ Cardinality(sent) <= 1
    /\ fence \in [Endpoints -> [gen : 0 .. Top, left : 0 .. FenceTTL, signed : BOOLEAN]]
    /\ peer \in [Endpoints -> [Namespaces -> 0 .. MaxGen]]
    /\ barred \in [Endpoints -> SUBSET Gens]
    /\ rpc \in [req : Request, wait : 0 .. Timeout, answer : Answer]
    /\ late \subseteq Request /\ Cardinality(late) <= MaxLate
    /\ reg \in [gen : Nodes, epoch : Epochs, left : 0 .. Registry,
                state : {"registered", "ready", "offline", "draining"}]
    /\ stored \in [gen : 0 .. MaxEpoch + 1, epoch : Epochs, sets : SUBSET SUBSET Endpoints]
    /\ build \in [Endpoints -> [Gens -> 0 .. GrantTTL]] /\ grants \in [Endpoints -> [Gens -> 0 .. GrantTTL]]
    /\ config \in [Endpoints -> 0 .. MaxGen] /\ floor \in [Endpoints -> 0 .. MaxGen]
    /\ pool \in [Endpoints -> {"eligible", "ineligible", "erased"}]
    /\ epochs \in Epochs

\* The state file can always start the node again: the row is at the file's
\* generation under another epoch, or the interrupted start of the file's pending
\* epoch has registered and never published readiness, so a retry resumes it even
\* after the row expired.
StartResumable ==
    \/ reg.gen = disk.gen /\ (disk.pending # 0 => reg.epoch # disk.pending)
    \/ /\ reg.gen = disk.gen + 1 /\ disk.pending # 0 /\ reg.epoch = disk.pending
       /\ reg.state \in ResumableState \cup {"draining"}

\* A process that serves under its lease is the registered one and the registry
\* keeps it at least as long: no other process can have been started meanwhile.
ServingIsRegistered ==
    proc \in Alive => /\ reg.gen = lease.gen /\ reg.epoch = lease.epoch
                      /\ lease.left <= reg.left

\* The node changes hands cleanly: one generation at a time, to a newer process epoch
\* than any that registered before, and only while no process has got past its own
\* start.  A start that arrives late takes the node from no one.
TakeoverIsClean ==
    [][reg'.gen # reg.gen => /\ reg'.gen = reg.gen + 1 /\ reg'.epoch > reg.epoch
                             /\ proc \in {"down", "start"}]_vars

\* After a process epoch's drain was recorded, no observation that arrives late
\* lists the node as ready again, unless an operator resumed it.
DrainIsFinal == drained => reg.state # "ready"

\* An endpoint that presents no newer grant than one the control plane has revoked forwards for at
\* most two leases, whatever is lost, delayed or reordered: one when observations fail, and one more
\* when a late list makes the control plane ask for the full list in between.
RevocationBound == \A e \in Endpoints : exposed[e] <= 2 * Lease

\* Once the relay has applied a revocation, no grant that had been issued below it is admitted again,
\* even after the revocation's fence is gone: not before a newer grant was admitted, has expired and
\* its connections have ended.
RevokedStaysOut == \A e \in Endpoints, n \in Namespaces : peer[e][n] \notin barred[e]
=============================================================================
