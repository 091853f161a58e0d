------------------------ MODULE RelayLifecycleProofs ------------------------
(***************************************************************************)
(* The relay lifecycle's safety properties, for every lease, registry and  *)
(* request deadline, every lifetime of grants and fences, and any number of *)
(* endpoints, carriers, restarts and late requests.  RelayInv says which    *)
(* requests can be under way: a start that could still register belongs to *)
(* the pending epoch in the state file, an observation to a saved          *)
(* generation.  FenceInv compares the grants that a revocation bars with   *)
(* the fences, ExposeInv says what is left of the time a revoked endpoint  *)
(* has, and Numbered that epochs and generations only grow together.       *)
(***************************************************************************)
EXTENDS RelayLifecycle, FiniteSetTheorems, TLAPS

\* Most leaves are first-order: Zenon is the default, and a leaf with arithmetic names SMT.
USE Zenon

States == {"registered", "ready", "offline", "draining"}
Placed == {"up", "serving", "leaving", "last"}

\* The types the argument needs.
Types ==
    /\ disk \in [gen : Nat, pending : Nat]
    /\ lease \in [gen : Nat, epoch : Nat, left : Nat]
    /\ reg \in [gen : Nat, epoch : Nat, state : States, left : 0 .. Registry]
    /\ epochs \in Nat
    /\ rpc.answer.left \in Nat

\* A request under way is an old one, or the start of the pending epoch.
Sound(q) ==
    /\ q.kind \in {"none", "start", "observe"} /\ q.gen \in Nat /\ q.epoch \in Nat
    /\ q.kind = "start" => \/ q.gen < disk.gen
                           \/ q.gen = disk.gen /\ q.epoch = disk.pending /\ q.epoch # 0
    /\ q.kind = "observe" => q.gen <= disk.gen
Waiting(q) == Sound(q) /\ q.kind # "none"

\* What the row holds when a request of the running process was accepted.
Registered(gen, epoch, left) == reg.gen = gen /\ reg.epoch = epoch /\ left <= reg.left

Starting ==
    proc = "start" =>
        /\ rpc.req.kind = "start" /\ rpc.req.gen = disk.gen /\ rpc.req.epoch = disk.pending
        /\ disk.pending # 0
        /\ rpc.answer.kind = "ok" => Registered(disk.gen + 1, disk.pending, rpc.answer.left)
Saving ==
    proc = "save" =>
        /\ rpc.req.kind = "none" /\ rpc.answer.kind = "none"
        /\ disk.pending # 0 /\ lease.gen = disk.gen + 1 /\ lease.epoch = disk.pending
        /\ Registered(lease.gen, lease.epoch, lease.left)
Serving ==
    proc \in Placed =>
        /\ disk.pending = 0 /\ lease.gen = disk.gen /\ rpc.req.kind # "start"
        /\ Registered(lease.gen, lease.epoch, lease.left)
        /\ rpc.answer.kind = "ok" => rpc.answer.left <= reg.left

RelayInv ==
    /\ Types
    /\ StartResumable
    /\ reg.epoch <= epochs /\ disk.pending <= epochs
    /\ Sound(rpc.req) /\ \A q \in late : Waiting(q)
    /\ Starting /\ Saving /\ Serving

-----------------------------------------------------------------------------
(* The control plane's side *)

\* What handling a request that is under way does to the row.
LEMMA HandleStep ==
    ASSUME RelayInv, NEW q, Sound(q), q.kind # "none", reg' = Handle(q).reg
    PROVE  LET a == Handle(q).answer IN
           /\ reg' \in [gen : Nat, epoch : Nat, state : States, left : 0 .. Registry]
           /\ \/ /\ reg'.gen = reg.gen /\ reg'.epoch = reg.epoch /\ reg.left <= reg'.left
                 /\ reg'.state = reg.state \/ (q.kind = "observe" /\ q.gen = reg.gen)
              \/ /\ q.kind = "start" /\ q.gen = reg.gen /\ q.epoch # reg.epoch
                 /\ reg' = [gen |-> q.gen + 1, epoch |-> q.epoch, state |-> "registered", left |-> Registry]
           /\ a.left \in Nat
           /\ a.kind = "ok" => /\ a.left <= reg'.left
                               /\ q.kind = "start" => reg'.gen = q.gen + 1 /\ reg'.epoch = q.epoch
<1> DEFINE a == Handle(q).answer
<1>1. /\ reg \in [gen : Nat, epoch : Nat, state : States, left : 0 .. Registry]
      /\ Lease \in Nat /\ Registry \in Nat /\ Lease <= Registry /\ 0 < Registry
  BY RelayAssumption, SMT DEF RelayInv, Types
<1>2. q.gen \in Nat /\ q.epoch \in Nat /\ q.kind \in {"start", "observe"}
  BY DEF Sound, Waiting
<1>3. Refused.reg = reg /\ Refused.answer.kind = "fenced" /\ Refused.answer.left = 0
  BY DEF Refused, Outcome, Fenced, NoAnswer
<1>4. CASE Handle(q) = Refused
  <2>1. reg' = reg /\ a.kind = "fenced" /\ a.left = 0
    BY <1>3, <1>4
  <2> QED
    BY <1>1, <2>1, SMT
<1>5. CASE q.kind = "start" /\ StartRelayNode(q) # Refused
  <2>1. Handle(q) = StartRelayNode(q)
    BY <1>5 DEF Handle
  <2>2. CASE reg.epoch = q.epoch /\ reg.gen = q.gen + 1
    <3> DEFINE left == IF reg.left = 0 THEN Registry ELSE reg.left
    <3>1. StartRelayNode(q) = Outcome([reg EXCEPT !.left = left], stored, drained,
                                      Granted(RetryLease(left), FALSE, NoMin))
      BY <1>5, <2>2, Zenon DEF StartRelayNode
    <3>2. reg' = [reg EXCEPT !.left = left] /\ a.kind = "ok" /\ a.left = RetryLease(left)
      BY <2>1, <3>1, SMT DEF Outcome, Granted
    <3>3. left \in 0 .. Registry /\ reg.left <= left
      BY <1>1, SMT
    <3>4. RetryLease(left) \in Nat /\ RetryLease(left) <= left
      BY <1>1, <3>3, SMT DEF RetryLease, Smaller
    <3> QED
      BY <1>1, <1>2, <2>2, <3>2, <3>3, <3>4
  <2>3. CASE ~(reg.epoch = q.epoch /\ reg.gen = q.gen + 1)
    <3>1. /\ reg.gen = q.gen /\ reg.epoch # q.epoch
          /\ StartRelayNode(q) =
               Outcome([gen |-> q.gen + 1, epoch |-> q.epoch, state |-> "registered", left |-> Registry],
                       stored, FALSE, Granted(Lease, FALSE, NoMin))
      BY <1>5, <2>3, Zenon DEF StartRelayNode
    <3>2. /\ reg' = [gen |-> q.gen + 1, epoch |-> q.epoch, state |-> "registered", left |-> Registry]
          /\ a.kind = "ok" /\ a.left = Lease
      BY <2>1, <3>1, SMT DEF Outcome, Granted
    <3>3. reg' \in [gen : Nat, epoch : Nat, state : States, left : 0 .. Registry] /\ reg'.left = Registry
      BY <1>1, <1>2, <3>2, SMT DEF States
    <3> QED
      BY <1>1, <1>2, <1>5, <3>1, <3>2, <3>3, SMT
  <2> QED
    BY <2>2, <2>3
<1>6. CASE q.kind = "observe" /\ ObserveRelayNode(q) # Refused
  <2>1. Handle(q) = ObserveRelayNode(q) /\ Observable(q)
    BY <1>6 DEF Handle, ObserveRelayNode
  <2>2. /\ reg' = [reg EXCEPT !.state = StateAfter(q), !.left = Registry]
        /\ a.kind = "ok" /\ a.left = Lease
    BY <2>1, SMT DEF ObserveRelayNode, Outcome, Granted
  <2>3. StateAfter(q) \in States
    BY DEF StateAfter, States
  <2>4. reg.gen = q.gen
    BY <2>1 DEF Observable
  <2>5. /\ reg' \in [gen : Nat, epoch : Nat, state : States, left : 0 .. Registry]
        /\ reg'.gen = reg.gen /\ reg'.epoch = reg.epoch /\ reg'.left = Registry
    <3>1. PICK st \in States : st = StateAfter(q)
      BY <2>3
    <3>2. reg' = [reg EXCEPT !.state = st, !.left = Registry]
      BY <2>2, <3>1
    <3>3. reg' = [gen |-> reg.gen, epoch |-> reg.epoch, state |-> st, left |-> Registry]
      BY <1>1, <3>2, Zenon
    <3>4. Registry \in 0 .. Registry /\ reg.gen \in Nat /\ reg.epoch \in Nat
      BY <1>1, SMT
    <3> QED
      BY <3>1, <3>3, <3>4, SMT
  <2> HIDE DEF a
  <2> QED
    BY <1>1, <1>6, <2>2, <2>4, <2>5, SMT DEF a
<1> QED
  BY <1>2, <1>4, <1>5, <1>6 DEF Handle

\* A handled request, whoever still waits for it, keeps all that is said of the relay.
LEMMA HandledKeeps ==
    ASSUME RelayInv, NEW q, Sound(q), q.kind # "none", Handled(q),
           late' \subseteq late,
           rpc'.req = rpc.req,
           rpc'.answer = rpc.answer \/ (q = rpc.req /\ rpc'.answer = Handle(q).answer)
    PROVE  RelayInv'
<1> DEFINE a == Handle(q).answer
<1>1. UNCHANGED <<disk, proc, lease, epochs>> /\ reg' = Handle(q).reg
  BY DEF Handled, relay
<1>2. /\ reg' \in [gen : Nat, epoch : Nat, state : States, left : 0 .. Registry]
      /\ a.left \in Nat
      /\ a.kind = "ok" => /\ a.left <= reg'.left
                          /\ q.kind = "start" => reg'.gen = q.gen + 1 /\ reg'.epoch = q.epoch
  BY <1>1, HandleStep, Zenon
<1>3. \/ /\ reg'.gen = reg.gen /\ reg'.epoch = reg.epoch /\ reg.left <= reg'.left
         /\ reg'.state = reg.state \/ (q.kind = "observe" /\ q.gen = reg.gen)
      \/ /\ q.kind = "start" /\ q.gen = reg.gen /\ q.epoch # reg.epoch
         /\ reg' = [gen |-> q.gen + 1, epoch |-> q.epoch, state |-> "registered", left |-> Registry]
  BY <1>1, HandleStep, Zenon
<1> HIDE DEF a
<1>4. /\ disk.gen \in Nat /\ disk.pending \in Nat /\ lease.left \in Nat /\ lease.gen \in Nat
      /\ reg.gen \in Nat /\ reg.epoch \in Nat /\ reg.left \in Nat /\ rpc.answer.left \in Nat
      /\ reg'.gen \in Nat /\ reg'.epoch \in Nat /\ reg'.left \in Nat /\ epochs \in Nat
      /\ q.gen \in Nat /\ q.epoch \in Nat
  BY <1>2, SMT DEF RelayInv, Types, Sound, Waiting
<1>5. Types'
  BY <1>1, <1>2 DEF RelayInv, Types, a
<1>6. CASE /\ reg'.gen = reg.gen /\ reg'.epoch = reg.epoch /\ reg.left <= reg'.left
           /\ reg'.state = reg.state \/ (q.kind = "observe" /\ q.gen = reg.gen)
  <2>1. StartResumable'
    BY <1>1, <1>4, <1>6, SMT DEF RelayInv, StartResumable, Sound, Waiting
  <2>2. Starting'
    BY <1>1, <1>2, <1>4, <1>6, SMT DEF RelayInv, Starting, Registered, a
  <2>3. Saving'
    BY <1>1, <1>4, <1>6, SMT DEF RelayInv, Saving, Registered
  <2>4. Serving'
    BY <1>1, <1>2, <1>4, <1>6, SMT DEF RelayInv, Serving, Registered, a
  <2> QED
    BY <1>1, <1>5, <1>6, <2>1, <2>2, <2>3, <2>4 DEF RelayInv, Sound, Waiting
<1>7. CASE /\ q.kind = "start" /\ q.gen = reg.gen /\ q.epoch # reg.epoch
           /\ reg' = [gen |-> q.gen + 1, epoch |-> q.epoch, state |-> "registered", left |-> Registry]
  <2>1. /\ reg'.gen = q.gen + 1 /\ reg'.epoch = q.epoch
        /\ reg'.state = "registered" /\ reg'.left = Registry
    BY <1>7
  <2>2. /\ reg.gen = disk.gen \/ reg.gen = disk.gen + 1
        /\ q.gen < disk.gen \/ (q.gen = disk.gen /\ q.epoch = disk.pending /\ q.epoch # 0)
    BY <1>7 DEF RelayInv, StartResumable, Sound, Waiting
  <2>3. reg.gen = disk.gen /\ q.gen = disk.gen /\ q.epoch = disk.pending /\ disk.pending # 0
    BY <1>4, <1>7, <2>2, SMT
  <2>4. StartResumable'
    BY <1>1, <2>1, <2>3 DEF StartResumable, ResumableState
  <2>5. Starting'
    BY <1>1, <1>2, <1>4, <2>1, <2>3, SMT DEF RelayInv, Starting, Registered, a
  <2>6. Saving' /\ Serving'
    BY <1>1, <1>4, <2>3, SMT DEF RelayInv, Saving, Serving, Registered
  <2> QED
    BY <1>1, <1>5, <2>1, <2>3, <2>4, <2>5, <2>6 DEF RelayInv, Sound, Waiting
<1> QED
  BY <1>3, <1>6, <1>7

\* Nothing is under way in an idle exchange.
LEMMA IdleFacts ==
    /\ Idle.req.kind = "none" /\ Idle.req.gen = 0 /\ Idle.req.epoch = 0
    /\ Idle.answer.kind = "none" /\ Idle.answer.left = 0
  BY DEF Idle, NoRequest, NoAnswer

\* Giving up a request leaves it, unhandled, among the late ones at most.
LEMMA AbandonKeeps ==
    ASSUME RelayInv, UNCHANGED <<disk, reg, epochs>>,
           rpc' = Idle, late' \subseteq late \cup {q \in {rpc.req} : q.kind # "none"},
           lease' \in [gen : Nat, epoch : Nat, left : Nat],
           \/ proc' = "down"
           \/ proc \in Placed /\ proc' \in Placed /\ lease' = lease
    PROVE  RelayInv'
<1>1. Types'
  BY IdleFacts, SMT DEF RelayInv, Types
<1>2. StartResumable' /\ reg'.epoch <= epochs' /\ disk'.pending <= epochs'
  BY DEF RelayInv, StartResumable
<1>3. Sound(rpc.req)' /\ \A q \in late' : Waiting(q)'
  BY IdleFacts, SMT DEF RelayInv, Sound, Waiting
<1>4. Starting' /\ Saving'
  BY DEF Starting, Saving, Placed
<1>5. Serving'
  BY IdleFacts DEF RelayInv, Serving, Registered, Placed
<1> QED
  BY <1>1, <1>2, <1>3, <1>4, <1>5 DEF RelayInv

-----------------------------------------------------------------------------
(* The relay's side *)

\* Start, and a save of it that fails, keep the invariant: the file's new pending
\* epoch is one the row has never seen.
LEMMA StartKeeps == ASSUME RelayInv, Start \/ StartSaveFails PROVE RelayInv'
<1>1. /\ disk \in [gen : Nat, pending : Nat] /\ epochs \in Nat
      /\ disk.gen \in Nat /\ disk.pending \in Nat /\ reg.epoch \in Nat
      /\ reg.epoch <= epochs /\ disk.pending <= epochs /\ proc = "down"
      /\ UNCHANGED <<lease, reg, late>>
  BY DEF RelayInv, Types, Start, StartSaveFails, relay, network, server
<1>2. CASE Start
  <2>1. disk' = [disk EXCEPT !.pending = PendingAfterRead]
    BY <1>2 DEF Start
  <2>2. PendingAfterRead \in Nat /\ PendingAfterRead # 0
    BY <1>1, SMT DEF PendingAfterRead
  <2>3. /\ disk' \in [gen : Nat, pending : Nat] /\ disk'.gen = disk.gen
        /\ disk'.pending = PendingAfterRead
    BY <1>1, <2>1, <2>2
  <2>4. epochs' = (IF disk'.pending > epochs THEN disk'.pending ELSE epochs)
        /\ rpc' = [req |-> StartRequest(disk'), wait |-> Timeout, answer |-> NoAnswer]
        /\ proc' = "start"
    BY <1>2, <2>1, Zenon DEF Start, Send
  <2>5. /\ rpc'.req.kind = "start" /\ rpc'.req.gen = disk'.gen /\ rpc'.req.epoch = disk'.pending
        /\ rpc'.answer.kind = "none" /\ rpc'.answer.left = 0
    BY <2>4, Zenon DEF StartRequest, NoRequest, NoAnswer
  <2>6. epochs' \in Nat /\ epochs <= epochs' /\ disk'.pending <= epochs' /\ reg'.epoch <= epochs'
    BY <1>1, <2>2, <2>3, <2>4, SMT
  <2>7. Types'
    BY <1>1, <2>3, <2>5, <2>6, SMT DEF RelayInv, Types
  <2>8. disk.pending # 0 => disk'.pending = disk.pending
    BY <2>3 DEF PendingAfterRead
  <2>9. disk.pending = 0 => disk'.pending = epochs + 1 /\ reg.gen = disk.gen
    BY <2>3 DEF PendingAfterRead, RelayInv, StartResumable
  <2>10. StartResumable'
    BY <1>1, <2>3, <2>8, <2>9, SMT DEF RelayInv, StartResumable
  <2>11. Sound(rpc.req)'
    BY <2>2, <2>3, <2>5 DEF Sound, Waiting
  <2>12. \A q \in late' : Waiting(q)'
    BY <1>1, <2>3, <2>8 DEF RelayInv, Sound, Waiting
  <2>13. Starting' /\ Saving' /\ Serving'
    BY <2>2, <2>3, <2>4, <2>5 DEF Starting, Saving, Serving, Placed
  <2> QED
    BY <2>6, <2>7, <2>10, <2>11, <2>12, <2>13 DEF RelayInv
<1>3. CASE StartSaveFails
  <2>1. /\ disk.pending = 0 /\ epochs' = epochs + 1 /\ UNCHANGED <<proc, rpc>>
        /\ disk' = disk \/ disk' = [disk EXCEPT !.pending = epochs + 1]
    BY <1>3 DEF StartSaveFails, relay, network
  <2>2. /\ disk' \in [gen : Nat, pending : Nat] /\ disk'.gen = disk.gen
        /\ disk'.pending = 0 \/ disk'.pending = epochs + 1
    BY <1>1, <2>1, SMT
  <2>3. Types' /\ reg'.epoch <= epochs' /\ disk'.pending <= epochs'
    BY <1>1, <2>1, <2>2, SMT DEF RelayInv, Types
  <2>4. StartResumable'
    BY <1>1, <2>1, <2>2, SMT DEF RelayInv, StartResumable
  <2>5. Sound(rpc.req)' /\ \A q \in late' : Waiting(q)'
    BY <1>1, <2>1, <2>2 DEF RelayInv, Sound, Waiting
  <2>6. Starting' /\ Saving' /\ Serving'
    BY <1>1, <2>1 DEF Starting, Saving, Serving, Placed
  <2> QED
    BY <2>3, <2>4, <2>5, <2>6 DEF RelayInv
<1> QED
  BY <1>2, <1>3

\* The accepted start is the registered one, and its save makes the file agree with
\* the row, whether or not the process survives it.
LEMMA SaveKeeps ==
    ASSUME RelayInv, StartAccepted \/ Started \/ StartedSaveFails
    PROVE  RelayInv'
<1>1. /\ disk \in [gen : Nat, pending : Nat] /\ epochs \in Nat
      /\ disk.gen \in Nat /\ disk.pending \in Nat /\ reg.epoch <= epochs /\ disk.pending <= epochs
      /\ UNCHANGED <<reg, late, epochs>>
  BY DEF RelayInv, Types, StartAccepted, Started, StartedSaveFails, network, server
<1>2. CASE StartAccepted
  <2>1. /\ proc = "start" /\ rpc.answer.kind = "ok" /\ proc' = "save" /\ disk' = disk /\ rpc' = Idle
        /\ lease' = [gen |-> rpc.req.gen + 1, epoch |-> rpc.req.epoch, left |-> rpc.answer.left]
    BY <1>2 DEF StartAccepted
  <2>2. /\ lease'.gen = disk.gen + 1 /\ lease'.epoch = disk.pending /\ lease'.left = rpc.answer.left
        /\ disk.pending # 0 /\ reg.gen = disk.gen + 1 /\ reg.epoch = disk.pending
        /\ rpc.answer.left <= reg.left /\ rpc.req.gen = disk.gen /\ rpc.req.epoch = disk.pending
    BY <2>1 DEF RelayInv, Starting, Registered
  <2>3. Types'
    BY <1>1, <2>1, <2>2, IdleFacts, SMT DEF RelayInv, Types
  <2>4. StartResumable' /\ Sound(rpc.req)' /\ \A q \in late' : Waiting(q)'
    BY <1>1, <2>1, IdleFacts, SMT DEF RelayInv, StartResumable, Sound, Waiting
  <2>5. Starting' /\ Saving' /\ Serving'
    BY <1>1, <2>1, <2>2, IdleFacts DEF Starting, Saving, Serving, Placed, Registered
  <2> QED
    BY <1>1, <2>1, <2>3, <2>4, <2>5 DEF RelayInv
<1>3. CASE disk' = [gen |-> lease.gen, pending |-> 0] /\ (Started \/ StartedSaveFails)
  <2>1. proc = "save" /\ UNCHANGED rpc
    BY <1>3 DEF Started, StartedSaveFails, network
  <2>2. /\ disk.pending # 0 /\ lease.gen = disk.gen + 1 /\ lease.epoch = disk.pending
        /\ reg.gen = lease.gen /\ reg.epoch = lease.epoch /\ lease.left <= reg.left
        /\ rpc.req.kind = "none" /\ rpc.answer.kind = "none"
    BY <2>1 DEF RelayInv, Saving, Registered
  <2>3. /\ disk' \in [gen : Nat, pending : Nat] /\ disk'.gen = disk.gen + 1 /\ disk'.pending = 0
    BY <1>1, <1>3, <2>2, SMT
  <2>4. \/ proc' = "up" /\ lease' = lease
        \/ proc' = "down" /\ lease' = [gen |-> 0, epoch |-> 0, left |-> 0]
    BY <1>3 DEF Started, StartedSaveFails, Gone
  <2>5. lease' \in [gen : Nat, epoch : Nat, left : Nat]
    BY <2>4, SMT DEF RelayInv, Types
  <2>6. Types'
    BY <1>1, <2>1, <2>3, <2>5 DEF RelayInv, Types
  <2>7. StartResumable' /\ disk'.pending <= epochs'
    BY <1>1, <2>2, <2>3, SMT DEF StartResumable
  <2>8. Sound(rpc.req)' /\ \A q \in late' : Waiting(q)'
    BY <1>1, <2>1, <2>3, SMT DEF RelayInv, Sound, Waiting
  <2>9. Starting' /\ Saving'
    BY <2>4 DEF Starting, Saving
  <2>10. Serving'
    BY <1>1, <2>1, <2>2, <2>3, <2>4 DEF Serving, Placed, Registered
  <2> QED
    BY <1>1, <2>6, <2>7, <2>8, <2>9, <2>10 DEF RelayInv
<1>4. CASE disk' = disk /\ StartedSaveFails
  <2>1. proc = "save" /\ proc' = "down" /\ UNCHANGED rpc /\ lease' = [gen |-> 0, epoch |-> 0, left |-> 0]
    BY <1>4 DEF StartedSaveFails, Gone, network
  <2>2. Types'
    BY <1>1, <1>4, <2>1 DEF RelayInv, Types
  <2>3. StartResumable' /\ Sound(rpc.req)' /\ \A q \in late' : Waiting(q)'
    BY <1>1, <1>4, <2>1 DEF RelayInv, StartResumable, Sound, Waiting
  <2>4. Starting' /\ Saving' /\ Serving'
    BY <2>1 DEF Starting, Saving, Serving, Placed
  <2> QED
    BY <1>1, <1>4, <2>2, <2>3, <2>4 DEF RelayInv
<1> QED
  BY <1>2, <1>3, <1>4 DEF Started, StartedSaveFails

\* An observation is sent under the lease, and its answer renews the lease by no more
\* than the row was renewed.
LEMMA ObserveKeeps ==
    ASSUME RelayInv, Observe \/ LastObserve \/ ObserveAccepted
    PROVE  RelayInv'
<1>1. UNCHANGED <<disk, reg, late, epochs>> /\ proc \in Placed /\ proc' \in Placed
  BY Zenon DEF Observe, LastObserve, ObserveAccepted, server, relay, Alive, Placed
<1>2. /\ disk.pending = 0 /\ lease.gen = disk.gen /\ Registered(lease.gen, lease.epoch, lease.left)
      /\ rpc.answer.kind = "ok" => rpc.answer.left <= reg.left
  BY <1>1 DEF RelayInv, Serving
<1>3. Starting' /\ Saving'
  BY <1>1 DEF Starting, Saving, Placed
<1>4. StartResumable' /\ reg'.epoch <= epochs' /\ disk'.pending <= epochs' /\ \A q \in late' : Waiting(q)'
  BY <1>1 DEF RelayInv, StartResumable, Sound, Waiting
<1>5. CASE Observe \/ LastObserve
  <2>1. PICK d : rpc' = [req |-> Observation(d), wait |-> Timeout, answer |-> NoAnswer]
    BY <1>5, Zenon DEF Observe, LastObserve, Send
  <2>2. /\ rpc'.req.kind = "observe" /\ rpc'.req.gen = lease.gen /\ rpc'.req.epoch = lease.epoch
        /\ rpc'.answer.kind = "none" /\ rpc'.answer.left = 0
    BY <2>1, Zenon DEF Observation, NoAnswer
  <2>3. lease' = lease
    BY <1>5, Zenon DEF Observe, LastObserve, relay
  <2>4. Types' /\ Sound(rpc.req)'
    BY <1>1, <1>2, <2>2, <2>3, SMT DEF RelayInv, Types, Sound, Waiting
  <2>5. Serving'
    BY <1>1, <1>2, <2>2, <2>3 DEF Serving, Registered
  <2> QED
    BY <1>3, <1>4, <2>4, <2>5 DEF RelayInv
<1>6. CASE ObserveAccepted
  <2>1. /\ rpc.answer.kind = "ok" /\ rpc' = Idle /\ lease' = [lease EXCEPT !.left = rpc.answer.left]
    BY <1>6 DEF ObserveAccepted
  <2>2. /\ lease' \in [gen : Nat, epoch : Nat, left : Nat] /\ lease'.gen = lease.gen
        /\ lease'.epoch = lease.epoch /\ lease'.left = rpc.answer.left
    BY <2>1 DEF RelayInv, Types
  <2>3. Types' /\ Sound(rpc.req)'
    BY <1>1, <2>1, <2>2, IdleFacts, SMT DEF RelayInv, Types, Sound, Waiting
  <2>4. Serving'
    BY <1>1, <1>2, <2>1, <2>2, IdleFacts DEF Serving, Registered
  <2> QED
    BY <1>3, <1>4, <2>3, <2>4 DEF RelayInv
<1> QED
  BY <1>5, <1>6

\* The steps that end an exchange or the process.
LEMMA EndKeeps ==
    ASSUME RelayInv, ObserveFails \/ ObserveFenced \/ LeaseExpires \/ Stop \/ Exit
    PROVE  RelayInv'
<1>1. UNCHANGED <<disk, reg, epochs>>
  BY DEF ObserveFails, ObserveFenced, LeaseExpires, Stop, Exit, Leave, server
<1>2. rpc' = Idle /\ late' \subseteq late \cup {q \in {rpc.req} : q.kind # "none"}
  BY DEF ObserveFails, ObserveFenced, LeaseExpires, Stop, Exit, Abandon
<1>3. \/ proc' = "down" /\ lease' = [gen |-> 0, epoch |-> 0, left |-> 0]
      \/ proc \in Placed /\ proc' \in Placed /\ lease' = lease
  BY DEF ObserveFails, ObserveFenced, LeaseExpires, Stop, Exit, Leave, Gone, relay, Alive, Placed
<1>4. lease' \in [gen : Nat, epoch : Nat, left : Nat]
  BY <1>3, SMT DEF RelayInv, Types
<1> QED
  BY <1>1, <1>2, <1>3, <1>4, AbandonKeeps

\* The steps that touch nothing the invariant speaks of, but for the process entering
\* another serving state.
LEMMA QuietKeeps ==
    ASSUME RelayInv, UNCHANGED <<disk, lease, rpc, late, reg, epochs>>,
           proc' = proc \/ (proc \in Placed /\ proc' \in Placed)
    PROVE  RelayInv'
<1>1. Types' /\ StartResumable' /\ reg'.epoch <= epochs' /\ disk'.pending <= epochs'
  BY DEF RelayInv, Types, StartResumable
<1>2. Sound(rpc.req)' /\ \A q \in late' : Waiting(q)'
  BY DEF RelayInv, Sound, Waiting
<1>3. Starting' /\ Saving' /\ Serving'
  BY DEF RelayInv, Starting, Saving, Serving, Registered, Placed
<1> QED
  BY <1>1, <1>2, <1>3 DEF RelayInv

\* What the steps of endpoints and of the authority over them leave alone.
LEMMA PeeringFrame ==
    ASSUME Peering
    PROVE  UNCHANGED <<disk, proc, draining, lease, sent, rpc, late, reg, stored, drained, epochs>>
<1>1. PICK e \in Endpoints : \/ Authority(e) \/ \E g \in Gens : Mint(e, g)
                             \/ \E n \in Namespaces : Disconnect(e, n) \/ \E g \in Gens : Admit(e, n, g)
  BY DEF Peering
<1>2. CASE Authority(e)
  BY <1>2 DEF Authority, Configure, Withdraw, SetPool, ChangeMember, Erase, relay, network, server
<1>3. CASE \E g \in Gens : Mint(e, g)
  BY <1>3 DEF Mint, relay, network, server
<1>4. CASE \E n \in Namespaces : Disconnect(e, n) \/ \E g \in Gens : Admit(e, n, g)
  BY <1>4 DEF Disconnect, Admit, network, server
<1> QED
  BY <1>1, <1>2, <1>3, <1>4

\* An operator changes only the row's state, never to or from one a retried start needs.
LEMMA OperatorKeeps == ASSUME RelayInv, OperatorDrain \/ OperatorResume PROVE RelayInv'
<1>1. PICK st \in {"draining", "registered"} : reg' = [reg EXCEPT !.state = st]
  BY Zenon DEF OperatorDrain, OperatorResume
<1>2. UNCHANGED <<disk, proc, lease, rpc, late, epochs>>
  BY DEF OperatorDrain, OperatorResume, relay, network
<1>3. reg \in [gen : Nat, epoch : Nat, state : States, left : 0 .. Registry]
  BY DEF RelayInv, Types
<1>4. /\ reg' \in [gen : Nat, epoch : Nat, state : States, left : 0 .. Registry]
      /\ reg'.gen = reg.gen /\ reg'.epoch = reg.epoch /\ reg'.left = reg.left /\ reg'.state = st
  BY <1>1, <1>3 DEF States
<1>5. Types'
  BY <1>2, <1>4 DEF RelayInv, Types
<1>6. StartResumable' /\ reg'.epoch <= epochs' /\ disk'.pending <= epochs'
  BY <1>2, <1>4 DEF RelayInv, StartResumable, ResumableState
<1>7. Sound(rpc.req)' /\ \A q \in late' : Waiting(q)'
  BY <1>2 DEF RelayInv, Sound, Waiting
<1>8. Starting' /\ Saving' /\ Serving'
  BY <1>2, <1>4 DEF RelayInv, Starting, Saving, Serving, Registered
<1> QED
  BY <1>5, <1>6, <1>7, <1>8 DEF RelayInv

\* Time runs alike on both sides.
LEMMA TickKeeps == ASSUME RelayInv, Tick PROVE RelayInv'
<1>1. /\ UNCHANGED <<disk, proc, late, epochs>>
      /\ lease' = [lease EXCEPT !.left = Less(@)]
      /\ reg' = [reg EXCEPT !.left = Less(@)]
      /\ rpc' = [req |-> rpc.req, wait |-> Less(rpc.wait), answer |-> Later(rpc.answer)]
  BY DEF Tick
<1>2. \A n \in Nat : Less(n) \in Nat /\ Less(n) <= n
  BY SMT DEF Less
<1>3. \A n, m \in Nat : n <= m => Less(n) <= Less(m)
  BY SMT DEF Less
<1>4. /\ lease.left \in Nat /\ reg.left \in 0 .. Registry /\ reg.left \in Nat
      /\ rpc.answer.left \in Nat /\ Registry \in Nat
  BY RelayAssumption, SMT DEF RelayInv, Types
<1>5. Less(reg.left) \in 0 .. Registry /\ Less(lease.left) \in Nat /\ Less(rpc.answer.left) \in Nat
  BY <1>2, <1>4, SMT
<1>6. /\ lease' \in [gen : Nat, epoch : Nat, left : Nat]
      /\ lease'.gen = lease.gen /\ lease'.epoch = lease.epoch /\ lease'.left = Less(lease.left)
  BY <1>1, <1>5 DEF RelayInv, Types
<1>7. /\ reg' \in [gen : Nat, epoch : Nat, state : States, left : 0 .. Registry]
      /\ reg'.gen = reg.gen /\ reg'.epoch = reg.epoch /\ reg'.state = reg.state
      /\ reg'.left = Less(reg.left)
  BY <1>1, <1>5 DEF RelayInv, Types
<1>8. /\ rpc'.req = rpc.req /\ rpc'.answer.kind = rpc.answer.kind
      /\ rpc'.answer.left = Less(rpc.answer.left)
  BY <1>1 DEF Later
<1>9. Types'
  BY <1>1, <1>5, <1>6, <1>7, <1>8 DEF RelayInv, Types
<1>10. StartResumable' /\ reg'.epoch <= epochs' /\ disk'.pending <= epochs'
  BY <1>1, <1>7 DEF RelayInv, StartResumable
<1>11. Sound(rpc.req)' /\ \A q \in late' : Waiting(q)'
  BY <1>1, <1>8 DEF RelayInv, Sound, Waiting
<1>12. Starting'
  BY <1>1, <1>3, <1>4, <1>7, <1>8 DEF RelayInv, Starting, Registered
<1>13. Saving'
  BY <1>1, <1>3, <1>4, <1>6, <1>7, <1>8 DEF RelayInv, Saving, Registered
<1>14. Serving'
  BY <1>1, <1>3, <1>4, <1>6, <1>7, <1>8 DEF RelayInv, Serving, Registered
<1> QED
  BY <1>9, <1>10, <1>11, <1>12, <1>13, <1>14 DEF RelayInv

-----------------------------------------------------------------------------
\* A fresh node, never started, satisfies the invariant.
LEMMA InitRelay == Init => RelayInv
<1> SUFFICES ASSUME Init PROVE RelayInv
  OBVIOUS
<1>1. /\ disk = [gen |-> 1, pending |-> 0] /\ lease = [gen |-> 0, epoch |-> 0, left |-> 0]
      /\ reg = [gen |-> 1, epoch |-> 0, state |-> "registered", left |-> 0]
      /\ epochs = 0 /\ proc = "down" /\ rpc = Idle /\ late = {} /\ 0 \in 0 .. Registry
  BY RelayAssumption, SMT DEF Init
<1>2. Types
  BY <1>1, IdleFacts, SMT DEF Types, States
<1>3. StartResumable /\ Sound(rpc.req) /\ \A q \in late : Waiting(q)
  BY <1>1, IdleFacts, SMT DEF StartResumable, Sound, Waiting
<1>4. Starting /\ Saving /\ Serving
  BY <1>1 DEF Starting, Saving, Serving, Placed
<1> QED
  BY <1>1, <1>2, <1>3, <1>4, SMT DEF RelayInv

\* Every step keeps it.
LEMMA NextRelay == RelayInv /\ [Next]_vars => RelayInv'
<1> SUFFICES ASSUME RelayInv, [Next]_vars PROVE RelayInv'
  OBVIOUS
<1>1. CASE Start \/ StartSaveFails
  BY <1>1, StartKeeps
<1>2. CASE StartAccepted \/ Started \/ StartedSaveFails
  BY <1>2, SaveKeeps
<1>3. CASE Observe \/ LastObserve \/ ObserveAccepted
  BY <1>3, ObserveKeeps
<1>4. CASE ObserveFails \/ ObserveFenced \/ LeaseExpires \/ Stop \/ Exit
  BY <1>4, EndKeeps
<1>5. CASE Listen \/ Drain
  BY <1>5, QuietKeeps DEF Listen, Drain, network, server, Placed
<1>6. CASE ServerAnswers
  <2>1. /\ rpc.req.kind # "none" /\ Handled(rpc.req) /\ late' = late
        /\ rpc'.req = rpc.req /\ rpc'.answer = Handle(rpc.req).answer
    BY <1>6 DEF ServerAnswers
  <2> QED
    BY <2>1, HandledKeeps DEF RelayInv
<1>7. CASE ServerHandlesLate
  <2>1. PICK q \in late : Handled(q) /\ late' = late \ {q} /\ rpc' = rpc
    BY <1>7 DEF ServerHandlesLate
  <2>2. Sound(q) /\ q.kind # "none"
    BY DEF RelayInv, Waiting
  <2> QED
    BY <2>1, <2>2, HandledKeeps
<1>8. CASE OperatorDrain \/ OperatorResume
  BY <1>8, OperatorKeeps
<1>9. CASE Peering
  BY <1>9, PeeringFrame, QuietKeeps
<1>10. CASE Tick
  BY <1>10, TickKeeps
<1>11. CASE UNCHANGED vars
  BY <1>11, QuietKeeps DEF vars, relay, network, server
<1> QED
  BY <1>1, <1>2, <1>3, <1>4, <1>5, <1>6, <1>7, <1>8, <1>9, <1>10, <1>11 DEF Next, Relay, Control

\* The invariant holds throughout.
THEOREM RelayInvariant == Spec => []RelayInv
<1> QED
  BY InitRelay, NextRelay, PTL DEF Spec

\* For every lease, deadline and number of restarts, and whatever is lost, delayed or
\* fails, the state file can always start the node again (Client.Start, StartRelayNode).
THEOREM StartResumableHolds == Spec => []StartResumable
<1>1. RelayInv => StartResumable
  BY DEF RelayInv
<1> QED
  BY <1>1, RelayInvariant, PTL

\* For every lease no longer than the registry's, a process that serves is the
\* registered one, and stops before the registry forgets it (Client.Run, StartRelayNode).
THEOREM ServingIsRegisteredHolds == Spec => []ServingIsRegistered
<1>1. RelayInv => ServingIsRegistered
  BY DEF RelayInv, Serving, Registered, ServingIsRegistered, Alive, Placed
<1> QED
  BY <1>1, RelayInvariant, PTL

-----------------------------------------------------------------------------
(* Revocation.  While a relay bars the grants that a revocation found issued, *)
(* each of them has run out, before or after it was signed, or is held back   *)
(* by the endpoint's fence: the revocation's own, which outlives them, or the *)
(* fence of a newer grant, which stays while that grant is in use.            *)

Fence == [gen : Nat, left : Nat, signed : BOOLEAN]
Pools == {"eligible", "ineligible", "erased"}

FenceTypes ==
    /\ peer \in [Endpoints -> [Namespaces -> 0 .. MaxGen]] /\ barred \in [Endpoints -> SUBSET Gens]
    /\ config \in [Endpoints -> 0 .. MaxGen] /\ floor \in [Endpoints -> 0 .. MaxGen]
    /\ pool \in [Endpoints -> Pools]
    /\ fence \in [Endpoints -> Fence]
    /\ build \in [Endpoints -> [Gens -> Nat]] /\ grants \in [Endpoints -> [Gens -> Nat]]
    /\ rpc.answer.min \in [Endpoints -> 0 .. Top]

\* A grant, signed or not yet, lasts as long as grants do; what is barred has been issued.
Within(e) == \A g \in Gens : build[e][g] <= GrantTTL /\ grants[e][g] <= GrantTTL
Issued(e) == \A g \in barred[e] : g <= config[e]
Over(e, g) == build[e][g] = 0 /\ grants[e][g] = 0
Refuses(e, g) ==
    /\ g < fence[e].gen
    /\ ~fence[e].signed => build[e][g] <= fence[e].left /\ grants[e][g] <= fence[e].left
Covered(e) == \A g \in barred[e] : Over(e, g) \/ Refuses(e, g)
Out(e) == \A n \in Namespaces : peer[e][n] \notin barred[e]

FenceInv == FenceTypes /\ \A e \in Endpoints : Within(e) /\ Issued(e) /\ Covered(e) /\ Out(e)

\* The drain of a process epoch is undone by an operator or a new registration only.
DrainInv == drained => reg.state \in {"offline", "draining"}

\* The constants the fences depend on, and what a new process starts with.
LEMMA FenceConstants ==
    /\ GrantTTL \in Nat /\ FenceTTL \in Nat /\ GrantTTL <= FenceTTL /\ MaxGen \in Nat /\ 0 < MaxGen
    /\ Top \in Nat /\ MaxGen < Top /\ 0 \in 0 .. MaxGen /\ 0 \in 0 .. Top /\ 0 \notin Gens
    /\ NoMin \in [Endpoints -> 0 .. Top] /\ NoFence \in Fence
    /\ NoPeers \in [Endpoints -> [Namespaces -> 0 .. MaxGen]]
    /\ NoBars \in [Endpoints -> SUBSET Gens] /\ NoTimes \in [Endpoints -> [Gens -> Nat]]
    /\ \A e \in Endpoints : NoBars[e] = {} /\ NoMin[e] = 0
    /\ \A e \in Endpoints, n \in Namespaces : NoPeers[e][n] = 0
    /\ \A e \in Endpoints, g \in Gens : NoTimes[e][g] = 0
<1>1. /\ GrantTTL \in Nat /\ FenceTTL \in Nat /\ GrantTTL <= FenceTTL /\ MaxGen \in Nat /\ 0 < MaxGen
      /\ Top \in Nat /\ MaxGen < Top /\ 0 \in 0 .. MaxGen /\ 0 \in 0 .. Top /\ 0 \notin Gens
  BY RelayAssumption, SMT DEF Top, Gens
<1>2. NoFence \in Fence
  BY SMT DEF NoFence, Fence
<1>3. 0 \in Nat
  BY SMT
<1> QED
  BY <1>1, <1>2, <1>3 DEF NoMin, NoPeers, NoBars, NoTimes

\* Generations are positive numbers.
LEMMA GensFacts == \A g \in Gens : g \in Nat /\ 0 < g /\ g <= MaxGen /\ g \in 0 .. MaxGen
  BY FenceConstants, SMT DEF Gens

\* What an exchange holds of revocations when it begins or ends.
LEMMA NoAnswerMin == NoAnswer.min = NoMin /\ Idle.answer.min = NoMin
  BY DEF NoAnswer, Idle

\* The first valid generation is a generation, or above all of them.
LEMMA MinTypes == ASSUME FenceTypes, NEW e \in Endpoints PROVE MinGeneration(e) \in 0 .. Top
<1>1. pool[e] \in Pools /\ config[e] \in 0 .. MaxGen /\ floor[e] \in 0 .. MaxGen
  BY DEF FenceTypes
<1>2. MinGeneration(e) \in {Top, floor[e], Larger(config[e], floor[e]) + 1}
  BY <1>1 DEF MinGeneration, Pools
<1>3. Larger(config[e], floor[e]) \in 0 .. MaxGen
  BY <1>1 DEF Larger
<1> QED
  BY <1>1, <1>2, <1>3, FenceConstants, SMT DEF Top

\* A step that ends connections or the process, or makes the grants of an older process useless.
LEMMA FenceFrame ==
    ASSUME FenceInv, UNCHANGED <<build, config, floor, pool>>, grants' \in {grants, NoTimes},
           rpc'.answer.min \in [Endpoints -> 0 .. Top],
           \/ /\ UNCHANGED <<fence, barred>> /\ peer' \in [Endpoints -> [Namespaces -> 0 .. MaxGen]]
              /\ \A e \in Endpoints, n \in Namespaces : peer'[e][n] = peer[e][n] \/ peer'[e][n] = 0
           \/ fence' = [e \in Endpoints |-> NoFence] /\ peer' = NoPeers /\ barred' = NoBars
    PROVE  FenceInv'
<1>1. FenceTypes
  BY DEF FenceInv
<1>2. FenceTypes'
  <2>1. grants' \in [Endpoints -> [Gens -> Nat]]
    BY <1>1, FenceConstants DEF FenceTypes
  <2>2. barred' \in [Endpoints -> SUBSET Gens]
    BY <1>1, FenceConstants DEF FenceTypes
  <2>3. fence' \in [Endpoints -> Fence]
    BY <1>1, FenceConstants DEF FenceTypes
  <2>4. peer' \in [Endpoints -> [Namespaces -> 0 .. MaxGen]]
    BY FenceConstants
  <2> QED
    BY <1>1, <2>1, <2>2, <2>3, <2>4 DEF FenceTypes
<1>3. ASSUME NEW e \in Endpoints
      PROVE  (Within(e) /\ Issued(e) /\ Covered(e) /\ Out(e))'
  <2>1. Within(e) /\ Issued(e) /\ Covered(e) /\ Out(e) /\ barred[e] \in SUBSET Gens
    BY <1>1 DEF FenceInv, FenceTypes
  <2>2. \A g \in Gens : grants'[e][g] = grants[e][g] \/ grants'[e][g] = 0
    BY FenceConstants
  <2>3. Within(e)'
    BY <2>1, <2>2, FenceConstants, SMT DEF Within
  <2>4. CASE barred'[e] = {}
    BY <2>3, <2>4 DEF Issued, Covered, Out
  <2>5. CASE /\ UNCHANGED <<fence, barred>>
             /\ \A n \in Namespaces : peer'[e][n] = peer[e][n] \/ peer'[e][n] = 0
    <3>1. Issued(e)'
      BY <2>1, <2>5 DEF Issued
    <3>2. Out(e)'
      BY <2>1, <2>5, FenceConstants DEF Out
    <3>3. ASSUME NEW g \in barred[e] PROVE (Over(e, g) \/ Refuses(e, g))'
      <4>1. g \in Gens /\ (Over(e, g) \/ Refuses(e, g))
        BY <2>1 DEF Covered
      <4>2. CASE grants'[e][g] = grants[e][g]
        BY <2>5, <4>1, <4>2 DEF Over, Refuses
      <4>3. CASE grants'[e][g] = 0
        <5>1. fence[e].left \in Nat
          BY <1>1 DEF FenceTypes, Fence
        <5>2. 0 <= fence[e].left
          BY <5>1, SMT
        <5> QED
          BY <2>5, <4>1, <4>3, <5>2 DEF Over, Refuses
      <4> QED
        BY <2>2, <4>1, <4>2, <4>3
    <3> QED
      BY <2>3, <2>5, <3>1, <3>2, <3>3 DEF Covered
  <2> QED
    BY <2>4, <2>5, FenceConstants
<1> QED
  BY <1>2, <1>3 DEF FenceInv

\* The steps of that kind.
LEMMA FenceQuiet ==
    ASSUME FenceInv,
           \/ Start \/ StartSaveFails \/ StartAccepted \/ Started \/ StartedSaveFails \/ Listen
           \/ Observe \/ ObserveFails \/ ObserveFenced \/ LeaseExpires \/ Drain \/ Stop \/ LastObserve
           \/ Exit \/ OperatorDrain \/ OperatorResume \/ UNCHANGED vars
           \/ \E e \in Endpoints, n \in Namespaces : Disconnect(e, n)
    PROVE  FenceInv'
<1>1. FenceTypes
  BY DEF FenceInv
<1>2. UNCHANGED <<build, grants, config, floor, pool>>
  BY DEF Start, StartSaveFails, StartAccepted, Started, StartedSaveFails, Listen, Observe, ObserveFails,
     ObserveFenced, LeaseExpires, Drain, Stop, LastObserve, Exit, Leave, OperatorDrain, OperatorResume,
     Disconnect, vars, peers
<1>3. rpc'.answer.min \in {rpc.answer.min, NoMin}
  <2>1. rpc' = rpc \/ rpc' = Idle \/ \E q : rpc' = [req |-> q, wait |-> Timeout, answer |-> NoAnswer]
    BY DEF Start, StartSaveFails, StartAccepted, Started, StartedSaveFails, Listen, Observe, ObserveFails,
       ObserveFenced, LeaseExpires, Drain, Stop, LastObserve, Exit, OperatorDrain, OperatorResume,
       Disconnect, vars, network, Send, Abandon
  <2>2. (\E q : rpc' = [req |-> q, wait |-> Timeout, answer |-> NoAnswer]) => rpc'.answer = NoAnswer
    BY SMT
  <2> QED
    BY <2>1, <2>2, NoAnswerMin
<1>4. \/ UNCHANGED <<fence, barred>> /\ (peer' = peer \/ peer' = NoPeers
             \/ \E e \in Endpoints, n \in Namespaces : peer' = [peer EXCEPT ![e][n] = 0])
      \/ fence' = [e \in Endpoints |-> NoFence] /\ peer' = NoPeers /\ barred' = NoBars
  BY DEF Start, StartSaveFails, StartAccepted, Started, StartedSaveFails, Listen, Observe, ObserveFails,
     ObserveFenced, LeaseExpires, Drain, Stop, LastObserve, Exit, Leave, Gone, OperatorDrain, OperatorResume,
     Disconnect, vars, relay
<1>5. ASSUME peer' = peer \/ peer' = NoPeers
             \/ \E e \in Endpoints, n \in Namespaces : peer' = [peer EXCEPT ![e][n] = 0]
      PROVE  /\ peer' \in [Endpoints -> [Namespaces -> 0 .. MaxGen]]
             /\ \A e \in Endpoints, n \in Namespaces : peer'[e][n] = peer[e][n] \/ peer'[e][n] = 0
  <2>1. peer \in [Endpoints -> [Namespaces -> 0 .. MaxGen]] /\ 0 \in 0 .. MaxGen
    BY <1>1, FenceConstants DEF FenceTypes
  <2>2. CASE peer' = peer
    BY <2>1, <2>2
  <2>3. CASE peer' = NoPeers
    BY <2>3, FenceConstants
  <2>4. CASE \E e \in Endpoints, n \in Namespaces : peer' = [peer EXCEPT ![e][n] = 0]
    BY <2>1, <2>4, SMT
  <2> QED
    BY <1>5, <2>2, <2>3, <2>4
<1>6. rpc'.answer.min \in [Endpoints -> 0 .. Top]
  BY <1>1, <1>3, FenceConstants DEF FenceTypes
<1> QED
  BY <1>2, <1>4, <1>5, <1>6, FenceFrame

\* A handled request: its answer names generations, and a new registration ends the old grants.
LEMMA FenceHandled == ASSUME FenceInv, ServerAnswers \/ ServerHandlesLate PROVE FenceInv'
<1>1. FenceTypes
  BY DEF FenceInv
<1>2. UNCHANGED <<build, config, floor, pool, fence, barred, peer>> /\ grants' \in {grants, NoTimes}
  BY DEF ServerAnswers, ServerHandlesLate, Handled, relay
<1>3. ASSUME NEW q PROVE Handle(q).answer.min \in [Endpoints -> 0 .. Top]
  <2>1. Refused.answer.min = NoMin
    BY DEF Refused, Outcome, Fenced, NoAnswer
  <2>2. StartRelayNode(q).answer.min = NoMin
    BY <2>1 DEF StartRelayNode, Outcome, Granted
  <2>3. ObserveRelayNode(q).answer.min \in {NoMin, relayMinGenerations(q.set)}
    BY <2>1 DEF ObserveRelayNode, Outcome, Granted
  <2>4. relayMinGenerations(q.set) \in [Endpoints -> 0 .. Top]
    BY <1>1, MinTypes, FenceConstants DEF relayMinGenerations
  <2> QED
    BY <2>2, <2>3, <2>4, FenceConstants DEF Handle
<1>4. rpc'.answer.min \in [Endpoints -> 0 .. Top]
  <2>1. CASE ServerAnswers
    BY <1>3, <2>1 DEF ServerAnswers
  <2>2. CASE ServerHandlesLate
    BY <1>1, <2>2 DEF ServerHandlesLate, FenceTypes
  <2> QED
    BY <2>1, <2>2
<1>5. peer' \in [Endpoints -> [Namespaces -> 0 .. MaxGen]]
  BY <1>1, <1>2 DEF FenceTypes
<1> QED
  BY <1>2, <1>4, <1>5, FenceFrame

\* A generation is allocated above all that are barred, and the authority's other changes leave
\* what was issued alone.
LEMMA FenceAuthority == ASSUME FenceInv, NEW f \in Endpoints, Authority(f) PROVE FenceInv'
<1>1. FenceTypes /\ config \in [Endpoints -> 0 .. MaxGen] /\ floor \in [Endpoints -> 0 .. MaxGen]
      /\ config[f] \in 0 .. MaxGen /\ floor[f] \in 0 .. MaxGen /\ pool \in [Endpoints -> Pools]
      /\ build \in [Endpoints -> [Gens -> Nat]]
  BY DEF FenceInv, FenceTypes
<1>2. UNCHANGED <<fence, peer, barred, rpc, grants>>
  BY DEF Authority, Configure, Withdraw, SetPool, ChangeMember, Erase, relay, network
<1>3. /\ pool' \in [Endpoints -> Pools]
      /\ config' = config \/ (config[f] < MaxGen /\ config' = [config EXCEPT ![f] = config[f] + 1])
      /\ \/ floor' = floor
         \/ config[f] < MaxGen /\ floor' = [floor EXCEPT ![f] = config[f] + 1]
         \/ floor[f] < MaxGen /\ floor' = [floor EXCEPT ![f] = floor[f] + 1]
      /\ \/ build' = build
         \/ config[f] < MaxGen /\ build' = [build EXCEPT ![f][config[f] + 1] = GrantTTL]
  BY <1>1 DEF Authority, Configure, Withdraw, SetPool, ChangeMember, Erase, Pools
<1>4. config' \in [Endpoints -> 0 .. MaxGen] /\ floor' \in [Endpoints -> 0 .. MaxGen]
  <2>1. config[f] < MaxGen => config[f] + 1 \in 0 .. MaxGen
    BY <1>1, FenceConstants, SMT
  <2>2. floor[f] < MaxGen => floor[f] + 1 \in 0 .. MaxGen
    BY <1>1, FenceConstants, SMT
  <2>3. config' \in [Endpoints -> 0 .. MaxGen]
    BY <1>1, <1>3, <2>1
  <2>4. floor' \in [Endpoints -> 0 .. MaxGen]
    BY <1>1, <1>3, <2>1, <2>2
  <2> QED
    BY <2>3, <2>4
<1>5. ASSUME NEW e \in Endpoints PROVE config[e] <= config'[e]
  <2>1. config'[e] \in {config[e], config[e] + 1}
    BY <1>1, <1>3
  <2> QED
    BY <1>1, <2>1, FenceConstants, SMT
<1>6. /\ build' \in [Endpoints -> [Gens -> Nat]]
      /\ \A e \in Endpoints, g \in Gens :
            \/ build'[e][g] = build[e][g]
            \/ config[e] < g /\ build'[e][g] = GrantTTL
  <2>1. CASE build' = build
    BY <1>1, <2>1
  <2>2. CASE config[f] < MaxGen /\ build' = [build EXCEPT ![f][config[f] + 1] = GrantTTL]
    <3>1. config[f] + 1 \in Gens /\ config[f] < config[f] + 1
      BY <1>1, <2>2, FenceConstants, SMT DEF Gens
    <3>2. PICK h \in Gens : h = config[f] + 1
      BY <3>1
    <3>3. build' = [build EXCEPT ![f][h] = GrantTTL]
      BY <2>2, <3>2
    <3> QED
      BY <1>1, <3>1, <3>2, <3>3, FenceConstants
  <2> QED
    BY <1>3, <2>1, <2>2
<1>7. FenceTypes'
  BY <1>1, <1>2, <1>3, <1>4, <1>6 DEF FenceTypes
<1>8. ASSUME NEW e \in Endpoints
      PROVE  (Within(e) /\ Issued(e) /\ Covered(e) /\ Out(e))'
  <2>1. Within(e) /\ Issued(e) /\ Covered(e) /\ Out(e) /\ barred[e] \in SUBSET Gens
        /\ config[e] \in Nat /\ config'[e] \in Nat
    BY <1>1, <1>4, SMT DEF FenceInv, FenceTypes
  <2>2. GrantTTL <= GrantTTL
    BY FenceConstants, SMT
  <2>3. Within(e)'
    BY <1>2, <1>6, <2>1, <2>2 DEF Within
  <2>4. Issued(e)'
    BY <1>2, <1>5, <2>1, GensFacts, SMT DEF Issued
  <2>5. Out(e)'
    BY <1>2, <2>1 DEF Out
  <2>6. ASSUME NEW g \in barred[e] PROVE (Over(e, g) \/ Refuses(e, g))'
    <3>1. g \in Gens /\ g <= config[e] /\ (Over(e, g) \/ Refuses(e, g))
      BY <2>1 DEF Covered, Issued
    <3>2. ~(config[e] < g)
      BY <2>1, <3>1, GensFacts, SMT
    <3>3. build'[e][g] = build[e][g]
      BY <1>6, <3>1, <3>2
    <3> QED
      BY <1>2, <3>1, <3>3 DEF Over, Refuses
  <2> QED
    BY <1>2, <2>3, <2>4, <2>5, <2>6 DEF Covered
<1> QED
  BY <1>7, <1>8 DEF FenceInv

\* A grant ends no later than its request allowed.
LEMMA FenceMint == ASSUME RelayInv, FenceInv, NEW f \in Endpoints, NEW h \in Gens, Mint(f, h) PROVE FenceInv'
<1>1. FenceTypes /\ build \in [Endpoints -> [Gens -> Nat]] /\ grants \in [Endpoints -> [Gens -> Nat]]
      /\ build[f][h] \in Nat
  BY DEF FenceInv, FenceTypes
<1>2. UNCHANGED <<fence, peer, barred, rpc, config, floor, pool>>
  BY DEF Mint, relay, network
<1>3. PICK left \in 1 .. Smaller(build[f][h], reg.left) :
          grants' = [grants EXCEPT ![f][h] = left] /\ build' = [build EXCEPT ![f][h] = 0]
  BY DEF Mint
<1>4. left \in Nat /\ 0 < left /\ left <= build[f][h]
  <2>1. reg.left \in 0 .. Registry /\ Registry \in Nat
    BY RelayAssumption DEF RelayInv, Types
  <2> QED
    BY <1>1, <1>3, <2>1, SMT DEF Smaller
<1>5. /\ build' \in [Endpoints -> [Gens -> Nat]] /\ grants' \in [Endpoints -> [Gens -> Nat]]
      /\ build'[f][h] = 0 /\ grants'[f][h] = left
      /\ \A e \in Endpoints, g \in Gens :
            e # f \/ g # h => build'[e][g] = build[e][g] /\ grants'[e][g] = grants[e][g]
  BY <1>1, <1>3, <1>4, SMT
<1>6. FenceTypes'
  BY <1>1, <1>2, <1>5 DEF FenceTypes
<1>7. ASSUME NEW e \in Endpoints
      PROVE  (Within(e) /\ Issued(e) /\ Covered(e) /\ Out(e))'
  <2>1. Within(e) /\ Issued(e) /\ Covered(e) /\ Out(e) /\ barred[e] \in SUBSET Gens
    BY <1>1 DEF FenceInv, FenceTypes
  <2>2. Issued(e)' /\ Out(e)'
    BY <1>2, <2>1 DEF Issued, Out
  <2>3. ASSUME NEW g \in Gens PROVE build'[e][g] <= GrantTTL /\ grants'[e][g] <= GrantTTL
    <3>1. CASE e = f /\ g = h
      <4>1. build[f][h] <= GrantTTL
        BY <2>1, <3>1 DEF Within
      <4> QED
        BY <1>1, <1>4, <1>5, <3>1, <4>1, FenceConstants, SMT
    <3>2. CASE e # f \/ g # h
      BY <1>5, <2>1, <3>2 DEF Within
    <3> QED
      BY <3>1, <3>2
  <2>4. ASSUME NEW g \in barred[e] PROVE (Over(e, g) \/ Refuses(e, g))'
    <3>1. g \in Gens /\ (Over(e, g) \/ Refuses(e, g))
      BY <2>1 DEF Covered
    <3>2. CASE e = f /\ g = h
      <4>1. build[f][h] # 0
        BY <1>1, <1>4, SMT
      <4>2. Refuses(f, h)
        BY <3>1, <3>2, <4>1 DEF Over
      <4>3. fence[f].left \in Nat
        BY <1>1 DEF FenceTypes, Fence
      <4>4. build[f][h] <= fence[f].left => 0 <= fence[f].left /\ left <= fence[f].left
        BY <1>1, <1>4, <4>3, SMT
      <4> QED
        BY <1>2, <1>5, <3>2, <4>2, <4>4 DEF Refuses
    <3>3. CASE e # f \/ g # h
      <4>1. build'[e][g] = build[e][g] /\ grants'[e][g] = grants[e][g] /\ fence' = fence
        BY <1>2, <1>5, <3>1, <3>3
      <4> QED
        BY <3>1, <4>1 DEF Over, Refuses
    <3> QED
      BY <3>2, <3>3
  <2> QED
    BY <1>2, <2>2, <2>3, <2>4 DEF Within, Covered
<1> QED
  BY <1>6, <1>7 DEF FenceInv

\* A fence that goes at an admission barred nothing any more, or its bar is lifted.
LEMMA PrunedCovers ==
    ASSUME FenceInv, NEW e \in Endpoints, ~BarLifted(e), NEW g \in barred[e], ~Over(e, g)
    PROVE  Refuses(e, g) /\ Pruned[e] = fence[e]
<1>1. FenceTypes /\ Covered(e) /\ fence[e].left \in Nat /\ g \in Gens
      /\ build[e][g] \in Nat /\ grants[e][g] \in Nat
  BY DEF FenceInv, FenceTypes, Fence
<1>2. Refuses(e, g)
  BY <1>1 DEF Covered
<1>3. CASE fence[e].signed
  BY <1>2, <1>3 DEF BarLifted, Pruned
<1>4. CASE ~fence[e].signed
  <2>1. build[e][g] <= fence[e].left /\ grants[e][g] <= fence[e].left
    BY <1>2, <1>4 DEF Refuses
  <2>2. fence[e].left # 0
    BY <1>1, <2>1, SMT DEF Over
  <2> QED
    BY <1>2, <2>2 DEF Pruned
<1> QED
  BY <1>2, <1>3, <1>4

\* An admitted grant is not barred, and its fence bars what the one it replaces did.
LEMMA FenceAdmit ==
    ASSUME FenceInv, NEW f \in Endpoints, NEW m \in Namespaces, NEW h \in Gens, Admit(f, m, h)
    PROVE  FenceInv'
<1> DEFINE signed == [gen |-> h, left |-> grants[f][h], signed |-> TRUE]
<1>1. FenceTypes /\ peer \in [Endpoints -> [Namespaces -> 0 .. MaxGen]] /\ grants[f][h] \in Nat
      /\ fence \in [Endpoints -> Fence]
  BY DEF FenceInv, FenceTypes
<1>2. UNCHANGED <<rpc, build, grants, config, floor, pool>> /\ grants[f][h] > 0 /\ h >= Pruned[f].gen
  BY DEF Admit, network, peers
<1>3. /\ fence' = [Pruned EXCEPT ![f] = signed] /\ peer' = [peer EXCEPT ![f][m] = h]
      /\ barred' = [e \in Endpoints |-> IF BarLifted(e) THEN {} ELSE barred[e]]
  BY DEF Admit
<1>4. Pruned \in [Endpoints -> Fence] /\ signed \in Fence
      /\ \A e \in Endpoints : Pruned[e] = fence[e] \/ Pruned[e] = NoFence
  <2>1. h \in Nat
    BY GensFacts
  <2>2. signed \in Fence
    BY <1>1, <2>1 DEF Fence
  <2> QED
    BY <1>1, <2>2, FenceConstants DEF Pruned
<1> HIDE DEF signed
<1>5. /\ fence' \in [Endpoints -> Fence] /\ fence'[f] = signed
      /\ \A e \in Endpoints : e # f => fence'[e] = Pruned[e]
  BY <1>3, <1>4
<1>6. /\ peer' \in [Endpoints -> [Namespaces -> 0 .. MaxGen]] /\ peer'[f][m] = h
      /\ \A e \in Endpoints, n \in Namespaces : e # f \/ n # m => peer'[e][n] = peer[e][n]
  BY <1>1, <1>3, GensFacts, SMT
<1>7. FenceTypes'
  BY <1>1, <1>2, <1>3, <1>5, <1>6 DEF FenceTypes
<1>8. ASSUME NEW e \in Endpoints
      PROVE  (Within(e) /\ Issued(e) /\ Covered(e) /\ Out(e))'
  <2>1. Within(e) /\ Issued(e) /\ Covered(e) /\ Out(e) /\ barred[e] \in SUBSET Gens
    BY <1>1 DEF FenceInv, FenceTypes
  <2>2. Within(e)'
    BY <1>2, <2>1 DEF Within
  <2>3. CASE BarLifted(e)
    <3>1. barred'[e] = {}
      BY <1>3, <2>3
    <3> QED
      BY <2>2, <3>1 DEF Issued, Covered, Out
  <2>4. CASE ~BarLifted(e)
    <3>1. barred'[e] = barred[e]
      BY <1>3, <2>4
    <3>2. Issued(e)'
      BY <1>2, <2>1, <3>1 DEF Issued
    <3>3. ASSUME NEW g \in barred[e], ~Over(e, g), e = f PROVE g < h
      <4>1. g < fence[e].gen /\ Pruned[e] = fence[e]
        BY <2>4, <3>3, PrunedCovers DEF Refuses
      <4>2. g \in Nat /\ fence[e].gen \in Nat /\ h \in Nat
        BY <1>1, <2>1, GensFacts DEF Fence
      <4> QED
        BY <1>2, <3>3, <4>1, <4>2, SMT
    <3>4. e = f => h \notin barred[e]
      <4>1. grants[f][h] # 0 /\ ~(h < h)
        BY <1>1, <1>2, GensFacts, SMT
      <4> QED
        BY <3>3, <4>1 DEF Over
    <3>5. Out(e)'
      BY <1>6, <2>1, <3>1, <3>4 DEF Out
    <3>6. ASSUME NEW g \in barred[e] PROVE (Over(e, g) \/ Refuses(e, g))'
      <4>1. CASE Over(e, g)
        BY <1>2, <4>1 DEF Over
      <4>2. CASE ~Over(e, g) /\ e = f
        <5>1. g < h
          BY <3>3, <4>2
        <5>2. signed.gen = h /\ signed.signed = TRUE
          BY SMT DEF signed
        <5>3. fence'[e].gen = h /\ fence'[e].signed
          BY <1>5, <4>2, <5>2
        <5> QED
          BY <5>1, <5>3 DEF Refuses
      <4>3. CASE ~Over(e, g) /\ e # f
        <5>1. Refuses(e, g) /\ Pruned[e] = fence[e]
          BY <2>4, <4>3, PrunedCovers
        <5>2. fence'[e] = fence[e]
          BY <1>5, <4>3, <5>1
        <5> QED
          BY <1>2, <5>1, <5>2 DEF Refuses
      <4> QED
        BY <4>1, <4>2, <4>3
    <3> QED
      BY <2>2, <3>1, <3>2, <3>5, <3>6 DEF Covered
  <2> QED
    BY <2>3, <2>4
<1> QED
  BY <1>7, <1>8 DEF FenceInv

\* An applied revocation bars what has been issued below it, for longer than it lasts.
LEMMA FenceRevoke == ASSUME FenceInv, ObserveAccepted PROVE FenceInv'
<1>1. FenceTypes /\ barred \in [Endpoints -> SUBSET Gens] /\ fence \in [Endpoints -> Fence]
      /\ peer \in [Endpoints -> [Namespaces -> 0 .. MaxGen]] /\ config \in [Endpoints -> 0 .. MaxGen]
  BY DEF FenceInv, FenceTypes
<1>2. UNCHANGED <<build, grants, config, floor, pool>> /\ rpc' = Idle
  BY DEF ObserveAccepted, peers
<1>3. /\ fence' = [e \in Endpoints |->
                     IF Revokes(e) THEN RevocationFence(e, rpc.answer.min[e]) ELSE fence[e]]
      /\ peer' = [e \in Endpoints |-> IF Revokes(e) THEN NoPeers[e] ELSE peer[e]]
      /\ barred' = [e \in Endpoints |->
                     IF Revokes(e) THEN barred[e] \cup {g \in 1 .. config[e] : g < rpc.answer.min[e]}
                     ELSE barred[e]]
  BY DEF ObserveAccepted
<1>4. ASSUME NEW e \in Endpoints
      PROVE  /\ rpc.answer.min[e] \in Nat /\ 1 .. config[e] \subseteq Gens
             /\ RevocationFence(e, rpc.answer.min[e]) \in Fence
             /\ RevocationFence(e, rpc.answer.min[e]).gen = rpc.answer.min[e]
             /\ RevocationFence(e, rpc.answer.min[e]).left = FenceTTL
             /\ RevocationFence(e, rpc.answer.min[e]).signed = FALSE
  <2>1. rpc.answer.min[e] \in 0 .. Top /\ config[e] \in 0 .. MaxGen
    BY <1>1 DEF FenceTypes
  <2>2. rpc.answer.min[e] \in Nat /\ 1 .. config[e] \subseteq Gens
    BY <2>1, FenceConstants, SMT DEF Gens
  <2> QED
    BY <2>2, FenceConstants, SMT DEF RevocationFence, Fence
<1>5. FenceTypes'
  <2>1. fence' \in [Endpoints -> Fence]
    BY <1>1, <1>3, <1>4
  <2>2. peer' \in [Endpoints -> [Namespaces -> 0 .. MaxGen]]
    BY <1>1, <1>3, FenceConstants
  <2>3. barred' \in [Endpoints -> SUBSET Gens]
    BY <1>1, <1>3, <1>4
  <2>4. rpc'.answer.min \in [Endpoints -> 0 .. Top]
    BY <1>2, NoAnswerMin, FenceConstants
  <2> QED
    BY <1>1, <1>2, <2>1, <2>2, <2>3, <2>4 DEF FenceTypes
<1>6. ASSUME NEW e \in Endpoints
      PROVE  (Within(e) /\ Issued(e) /\ Covered(e) /\ Out(e))'
  <2>1. Within(e) /\ Issued(e) /\ Covered(e) /\ Out(e) /\ barred[e] \in SUBSET Gens
    BY <1>1 DEF FenceInv, FenceTypes
  <2>2. Within(e)'
    BY <1>2, <2>1 DEF Within
  <2>3. CASE ~Revokes(e)
    <3>1. barred'[e] = barred[e] /\ peer'[e] = peer[e] /\ fence'[e] = fence[e]
      BY <1>3, <2>3
    <3> QED
      BY <1>2, <2>1, <2>2, <3>1 DEF Issued, Covered, Over, Refuses, Out
  <2>4. CASE Revokes(e)
    <3> DEFINE min == rpc.answer.min[e]
    <3>1. /\ barred'[e] = barred[e] \cup {g \in 1 .. config[e] : g < min}
          /\ peer'[e] = NoPeers[e] /\ fence'[e] = RevocationFence(e, min)
      BY <1>3, <2>4
    <3>2. Issued(e)'
      <4>1. \A g \in 1 .. config[e] : g <= config[e]
        BY <1>1, SMT
      <4> QED
        BY <1>2, <2>1, <3>1, <4>1 DEF Issued
    <3>3. barred'[e] \in SUBSET Gens
      BY <1>5 DEF FenceTypes
    <3>4. Out(e)'
      <4>1. 0 \notin barred'[e]
        BY <3>3, FenceConstants
      <4>2. \A n \in Namespaces : peer'[e][n] = 0
        BY <3>1, FenceConstants
      <4> QED
        BY <4>1, <4>2 DEF Out
    <3>5. ASSUME NEW g \in barred'[e] PROVE (Over(e, g) \/ Refuses(e, g))'
      <4>1. g \in Gens /\ g \in Nat /\ min \in Nat /\ fence[e].gen \in Nat /\ fence[e].gen < min
        <5>1. g \in Gens /\ fence[e] \in Fence
          BY <1>1, <3>3
        <5>2. fence[e].gen \in Nat /\ min \in Nat /\ rpc.answer.min[e] > fence[e].gen
          BY <1>4, <2>4, <5>1 DEF Revokes, Fence
        <5> QED
          BY <5>1, <5>2, GensFacts, SMT
      <4>2. CASE g < min
        <5>1. build[e][g] <= GrantTTL /\ grants[e][g] <= GrantTTL
              /\ build[e][g] \in Nat /\ grants[e][g] \in Nat
          BY <1>1, <2>1, <4>1 DEF Within, FenceTypes
        <5>2. build[e][g] <= FenceTTL /\ grants[e][g] <= FenceTTL
          BY <5>1, FenceConstants, SMT
        <5> QED
          BY <1>2, <1>4, <3>1, <4>2, <5>2 DEF Refuses
      <4>3. CASE ~(g < min)
        <5>1. g \in barred[e] /\ ~(g < fence[e].gen)
          BY <3>1, <4>1, <4>3, SMT
        <5>2. Over(e, g)
          BY <2>1, <5>1 DEF Covered, Refuses
        <5> QED
          BY <1>2, <5>2 DEF Over
      <4> QED
        BY <4>2, <4>3
    <3> QED
      BY <2>2, <3>2, <3>4, <3>5 DEF Covered
  <2> QED
    BY <2>3, <2>4
<1> QED
  BY <1>5, <1>6 DEF FenceInv

\* Requests, grants and fences run down together.
LEMMA FenceTick == ASSUME FenceInv, Tick PROVE FenceInv'
<1>1. FenceTypes /\ fence \in [Endpoints -> Fence]
      /\ build \in [Endpoints -> [Gens -> Nat]] /\ grants \in [Endpoints -> [Gens -> Nat]]
  BY DEF FenceInv, FenceTypes
<1>2. /\ UNCHANGED <<peer, barred, config, floor, pool>>
      /\ fence' = [e \in Endpoints |-> [fence[e] EXCEPT !.left = Less(@)]]
      /\ build' = [e \in Endpoints |-> [g \in Gens |-> Less(build[e][g])]]
      /\ grants' = [e \in Endpoints |-> [g \in Gens |-> Less(grants[e][g])]]
      /\ rpc'.answer.min = rpc.answer.min
  BY DEF Tick, Later
<1>3. \A n \in Nat : Less(n) \in Nat /\ Less(n) <= n
  BY SMT DEF Less
<1>4. \A n, m \in Nat : n <= m => Less(n) <= Less(m)
  BY SMT DEF Less
<1>5. Less(0) = 0
  BY SMT DEF Less
<1>6. ASSUME NEW e \in Endpoints
      PROVE  /\ fence'[e] \in Fence /\ fence'[e].gen = fence[e].gen
             /\ fence'[e].signed = fence[e].signed /\ fence'[e].left = Less(fence[e].left)
  <2>1. fence[e] \in Fence /\ fence[e].left \in Nat
    BY <1>1 DEF Fence
  <2>2. Less(fence[e].left) \in Nat
    BY <1>3, <2>1
  <2> QED
    BY <1>2, <2>1, <2>2 DEF Fence
<1>7. ASSUME NEW e \in Endpoints, NEW g \in Gens
      PROVE  /\ build'[e][g] = Less(build[e][g]) /\ grants'[e][g] = Less(grants[e][g])
             /\ build[e][g] \in Nat /\ grants[e][g] \in Nat
             /\ build'[e][g] \in Nat /\ grants'[e][g] \in Nat
  BY <1>1, <1>2, <1>3
<1>8. FenceTypes'
  <2>1. fence' \in [Endpoints -> Fence]
    BY <1>2, <1>6
  <2>2. build' \in [Endpoints -> [Gens -> Nat]] /\ grants' \in [Endpoints -> [Gens -> Nat]]
    BY <1>1, <1>2, <1>3
  <2> QED
    BY <1>1, <1>2, <2>1, <2>2 DEF FenceTypes
<1>9. ASSUME NEW e \in Endpoints
      PROVE  (Within(e) /\ Issued(e) /\ Covered(e) /\ Out(e))'
  <2>1. Within(e) /\ Issued(e) /\ Covered(e) /\ Out(e) /\ barred[e] \in SUBSET Gens
    BY <1>1 DEF FenceInv, FenceTypes
  <2>2. Issued(e)' /\ Out(e)'
    BY <1>2, <2>1 DEF Issued, Out
  <2>3. ASSUME NEW g \in Gens PROVE build'[e][g] <= GrantTTL /\ grants'[e][g] <= GrantTTL
    <3>1. build[e][g] <= GrantTTL /\ grants[e][g] <= GrantTTL
      BY <2>1 DEF Within
    <3>2. Less(build[e][g]) <= build[e][g] /\ Less(grants[e][g]) <= grants[e][g]
      BY <1>3, <1>7
    <3> QED
      BY <1>7, <3>1, <3>2, FenceConstants, SMT
  <2>4. ASSUME NEW g \in barred[e] PROVE (Over(e, g) \/ Refuses(e, g))'
    <3>1. g \in Gens /\ (Over(e, g) \/ Refuses(e, g))
      BY <2>1 DEF Covered
    <3>2. CASE Over(e, g)
      BY <1>5, <1>7, <3>1, <3>2 DEF Over
    <3>3. CASE Refuses(e, g)
      <4>1. fence[e].left \in Nat
        BY <1>1 DEF Fence
      <4> QED
        BY <1>4, <1>6, <1>7, <3>1, <3>3, <4>1 DEF Refuses
    <3> QED
      BY <3>1, <3>2, <3>3
  <2> QED
    BY <1>2, <2>2, <2>3, <2>4 DEF Within, Covered
<1> QED
  BY <1>8, <1>9 DEF FenceInv

\* Initially nothing has been issued, admitted or revoked.
LEMMA InitFence == Init => FenceInv
<1> SUFFICES ASSUME Init PROVE FenceInv
  OBVIOUS
<1>1. /\ fence = [e \in Endpoints |-> NoFence] /\ peer = NoPeers /\ barred = NoBars /\ rpc = Idle
      /\ build = NoTimes /\ grants = NoTimes /\ config = NoMin /\ floor = [e \in Endpoints |-> 1]
      /\ pool = [e \in Endpoints |-> "eligible"]
  BY DEF Init
<1>2. 1 \in 0 .. MaxGen /\ 0 <= GrantTTL
  BY FenceConstants, SMT
<1>3. FenceTypes
  <2>1. config \in [Endpoints -> 0 .. MaxGen] /\ floor \in [Endpoints -> 0 .. MaxGen]
    BY <1>1, <1>2, FenceConstants DEF NoMin
  <2> QED
    BY <1>1, <2>1, NoAnswerMin, FenceConstants DEF FenceTypes, Pools
<1>4. \A e \in Endpoints : Within(e) /\ Issued(e) /\ Covered(e) /\ Out(e)
  BY <1>1, <1>2, FenceConstants DEF Within, Issued, Covered, Out
<1> QED
  BY <1>3, <1>4 DEF FenceInv

\* Every step keeps it.
LEMMA NextFence == RelayInv /\ FenceInv /\ [Next]_vars => FenceInv'
<1> SUFFICES ASSUME RelayInv, FenceInv, [Next]_vars PROVE FenceInv'
  OBVIOUS
<1>1. CASE ServerAnswers \/ ServerHandlesLate
  BY <1>1, FenceHandled
<1>2. CASE Peering
  <2>1. PICK e \in Endpoints : \/ Authority(e) \/ \E g \in Gens : Mint(e, g)
                               \/ \E n \in Namespaces : Disconnect(e, n) \/ \E g \in Gens : Admit(e, n, g)
    BY <1>2 DEF Peering
  <2>2. CASE Authority(e)
    BY <2>2, FenceAuthority
  <2>3. CASE \E g \in Gens : Mint(e, g)
    BY <2>3, FenceMint
  <2>4. CASE \E n \in Namespaces : Disconnect(e, n)
    BY <2>4, FenceQuiet
  <2>5. CASE \E n \in Namespaces, g \in Gens : Admit(e, n, g)
    BY <2>5, FenceAdmit
  <2> QED
    BY <2>1, <2>2, <2>3, <2>4, <2>5
<1>3. CASE ObserveAccepted
  BY <1>3, FenceRevoke
<1>4. CASE Tick
  BY <1>4, FenceTick
<1>5. CASE \/ Start \/ StartSaveFails \/ StartAccepted \/ Started \/ StartedSaveFails \/ Listen
           \/ Observe \/ ObserveFails \/ ObserveFenced \/ LeaseExpires \/ Drain \/ Stop \/ LastObserve
           \/ Exit \/ OperatorDrain \/ OperatorResume \/ UNCHANGED vars
  BY <1>5, FenceQuiet
<1> QED
  BY <1>1, <1>2, <1>3, <1>4, <1>5 DEF Next, Relay, Control

\* The fences always cover what is barred.
LEMMA AlwaysFenced == Spec => []FenceInv
<1> QED
  BY InitFence, NextFence, RelayInvariant, PTL DEF Spec

\* For every lifetime of grants no longer than that of fences, and any number of carriers, a
\* relay that has applied a revocation admits none of the grants issued below it while the bar
\* lasts, whenever they are signed or presented and however short the newer grants are that
\* replace its fence (Server.Revoke, Server.admit, relayMinGenerations, relayGrants).
THEOREM RevokedStaysOutHolds == Spec => []RevokedStaysOut
<1>1. FenceInv => RevokedStaysOut
  BY DEF FenceInv, Out, RevokedStaysOut
<1> QED
  BY <1>1, AlwaysFenced, PTL

-----------------------------------------------------------------------------
(* Drain *)

\* What a handled request does to a node whose drain was recorded.
LEMMA DrainHandled ==
    ASSUME RelayInv, DrainInv, NEW q, Handled(q)
    PROVE  DrainInv'
<1>1. reg' = Handle(q).reg /\ drained' = Handle(q).drained
  BY DEF Handled
<1>2. reg \in [gen : Nat, epoch : Nat, state : States, left : 0 .. Registry]
  BY DEF RelayInv, Types
<1>3. CASE Handle(q) = Refused
  <2>1. reg' = reg /\ drained' = drained
    BY <1>1, <1>3, SMT DEF Refused, Outcome
  <2> QED
    BY <2>1 DEF DrainInv
<1>4. CASE q.kind = "start" /\ StartRelayNode(q) # Refused
  <2>1. \/ \E left : Handle(q).reg = [reg EXCEPT !.left = left] /\ Handle(q).drained = drained
        \/ Handle(q).drained = FALSE
    <3>1. CASE reg.epoch = q.epoch /\ reg.gen = q.gen + 1
      <4> DEFINE left == IF reg.left = 0 THEN Registry ELSE reg.left
      <4>1. StartRelayNode(q) = Outcome([reg EXCEPT !.left = left], stored, drained,
                                        Granted(RetryLease(left), FALSE, NoMin))
        BY <1>4, <3>1, Zenon DEF StartRelayNode
      <4>2. Handle(q).reg = [reg EXCEPT !.left = left] /\ Handle(q).drained = drained
        BY <1>4, <4>1, SMT DEF Handle, Outcome
      <4> QED
        BY <4>2, Zenon
    <3>2. CASE ~(reg.epoch = q.epoch /\ reg.gen = q.gen + 1)
      <4>1. StartRelayNode(q) =
              Outcome([gen |-> q.gen + 1, epoch |-> q.epoch, state |-> "registered", left |-> Registry],
                      stored, FALSE, Granted(Lease, FALSE, NoMin))
        BY <1>4, <3>2, Zenon DEF StartRelayNode
      <4> QED
        BY <1>4, <4>1, SMT DEF Handle, Outcome
    <3> QED
      BY <3>1, <3>2, Zenon
  <2> QED
    BY <1>1, <1>2, <2>1, Zenon DEF DrainInv
<1>5. CASE q.kind # "start" /\ ObserveRelayNode(q) # Refused
  <2>1. Handle(q) = ObserveRelayNode(q) /\ Observable(q)
    BY <1>5 DEF Handle, ObserveRelayNode
  <2>2. Handle(q).reg = [reg EXCEPT !.state = StateAfter(q), !.left = Registry]
        /\ Handle(q).drained = (drained \/ q.draining)
    BY <2>1, SMT DEF ObserveRelayNode, Outcome
  <2>3. reg'.state = StateAfter(q) /\ drained' = (drained \/ q.draining)
    BY <1>1, <1>2, <2>2
  <2>4. (drained \/ q.draining) => StateAfter(q) \in {"offline", "draining"}
    BY <2>1, Zenon DEF DrainInv, Observable, StateAfter
  <2> QED
    BY <2>3, <2>4, Zenon DEF DrainInv
<1> QED
  BY <1>3, <1>4, <1>5 DEF Handle

\* Every step keeps a recorded drain.
LEMMA NextDrain == RelayInv /\ DrainInv /\ [Next]_vars => DrainInv'
<1> SUFFICES ASSUME RelayInv, DrainInv, [Next]_vars PROVE DrainInv'
  OBVIOUS
<1>1. CASE ServerAnswers \/ ServerHandlesLate
  BY <1>1, DrainHandled DEF ServerAnswers, ServerHandlesLate
<1>2. CASE OperatorDrain \/ OperatorResume
  <2>1. reg \in [gen : Nat, epoch : Nat, state : States, left : 0 .. Registry]
    BY DEF RelayInv, Types
  <2> QED
    BY <1>2, <2>1 DEF OperatorDrain, OperatorResume, DrainInv
<1>3. CASE Tick
  <2>1. reg \in [gen : Nat, epoch : Nat, state : States, left : 0 .. Registry]
    BY DEF RelayInv, Types
  <2>2. reg' = [reg EXCEPT !.left = Less(@)] /\ drained' = drained
    BY <1>3 DEF Tick
  <2> QED
    BY <2>1, <2>2 DEF DrainInv
<1>4. CASE UNCHANGED <<reg, drained>>
  BY <1>4 DEF DrainInv
<1>5. CASE Relay \/ Peering \/ UNCHANGED vars
  <2>1. UNCHANGED <<reg, drained>>
    BY <1>5, PeeringFrame, Zenon DEF Relay, Start, StartSaveFails, StartAccepted, Started, StartedSaveFails, Listen, Observe,
       ObserveAccepted, ObserveFails, ObserveFenced, LeaseExpires, Drain, Stop, Leave, LastObserve, Exit,
       vars, server
  <2> QED
    BY <1>4, <2>1
<1> QED
  BY <1>1, <1>2, <1>3, <1>5 DEF Next, Control

\* Whatever observations arrive late, and for any number of process epochs, a drain that
\* was recorded is not undone by one (ObserveRelayNode, contracts of the relay lifecycle).
THEOREM DrainIsFinalHolds == Spec => []DrainIsFinal
<1>1. Init => DrainInv
  BY DEF Init, DrainInv
<1>2. DrainInv => DrainIsFinal
  BY DEF DrainInv, DrainIsFinal
<1> QED
  BY <1>1, <1>2, NextDrain, RelayInvariant, PTL DEF Spec

-----------------------------------------------------------------------------
(* Exposure.  A revoked endpoint is cut by the first answer to a list that   *)
(* names it and was handled after the revocation, unless it presents a newer *)
(* grant.  Only two answers can renew the lease without it: one handled      *)
(* before, which leaves a lease from the revocation at most (Near), and one  *)
(* that asks for the full list or answers a list without the endpoint, after *)
(* which every list sent is a full one with it (Open).                       *)

Near(e) == exposed[e] + lease.left <= Lease
Open(e) ==
    /\ exposed[e] + lease.left <= 2 * Lease
    /\ \A S \in sent : e \notin S
    /\ rpc.req.kind = "observe" /\ rpc.answer.kind = "none" => rpc.req.full /\ e \in rpc.req.set

\* What accepting the answer would lead to.
Ahead(e) ==
    \/ rpc.answer.min[e] > fence[e].gen
    \/ exposed[e] + rpc.answer.left <= Lease
    \/ /\ exposed[e] + rpc.answer.left <= 2 * Lease
       /\ \A S \in SentAfter(rpc.answer.required) : e \notin S

Exposure(e) ==
    /\ ~Stale(e) => exposed[e] = 0
    /\ Stale(e) => /\ Near(e) \/ Open(e)
                   /\ rpc.answer.kind = "ok" /\ rpc.answer.left > 0 => Ahead(e)

Held(e) == Live(e) => fence[e].gen > 0 /\ fence[e].signed

\* The relay's record of the acknowledged list, and its clocks.
Listed ==
    /\ \A S, T \in sent : S = T
    /\ proc \in Alive /\ rpc.req.kind = "observe" => rpc.req.full \/ rpc.req.set \in sent
    /\ lease.left <= Lease /\ rpc.answer.left <= Lease

ExposeInv ==
    /\ proc \notin Alive => \A e \in Endpoints : ~Live(e)
    /\ Listed
    /\ exposed \in [Endpoints -> Nat]
    /\ \A e \in Endpoints : Held(e) /\ Exposure(e)

\* The types of what exposure is measured by.
LEMMA ExposeTypes ==
    ASSUME RelayInv, FenceInv, ExposeInv, NEW e \in Endpoints
    PROVE  /\ lease.left \in Nat /\ rpc.answer.left \in Nat /\ exposed[e] \in Nat
           /\ fence[e].gen \in Nat /\ MinGeneration(e) \in Nat /\ rpc.answer.min[e] \in Nat
           /\ Lease \in Nat /\ 0 < Lease
<1>1. lease.left \in Nat /\ rpc.answer.left \in Nat
  BY DEF RelayInv, Types
<1>2. exposed[e] \in Nat
  BY DEF ExposeInv
<1>3. fence[e] \in Fence /\ rpc.answer.min[e] \in 0 .. Top /\ MinGeneration(e) \in 0 .. Top
  BY MinTypes DEF FenceInv, FenceTypes
<1>4. fence[e].gen \in Nat /\ rpc.answer.min[e] \in Nat /\ MinGeneration(e) \in Nat
  BY <1>3, SMT DEF Fence
<1> QED
  BY <1>1, <1>2, <1>3, <1>4, RelayAssumption, SMT

\* Exposure that starts anew, or has not begun, is within a lease of its bound.
LEMMA ExposeReset ==
    ASSUME NEW e \in Endpoints, exposed'[e] = 0,
           lease'.left \in Nat, lease'.left <= Lease,
           rpc'.answer.left \in Nat, rpc'.answer.left <= Lease
    PROVE  Exposure(e)'
<1>1. Lease \in Nat
  BY RelayAssumption
<1>2. Near(e)'
  BY <1>1, SMT DEF Near
<1>3. Ahead(e)'
  BY <1>1, SMT DEF Ahead
<1> QED
  BY <1>2, <1>3 DEF Exposure

\* Only the endpoints that stay revoked under the same newest grant need an argument.
LEMMA ExposeStep ==
    ASSUME RelayInv', ExposeInv, Expose(0), Listed', proc' \notin Alive => \A e \in Endpoints : ~Live(e)',
           \A e \in Endpoints : Held(e)',
           \A e \in Endpoints :
               Stale(e) /\ Stale(e)' /\ fence'[e].gen = fence[e].gen /\ exposed'[e] = exposed[e] => Exposure(e)'
    PROVE  ExposeInv'
<1>1. exposed \in [Endpoints -> Nat]
  BY DEF ExposeInv
<1>2. exposed' \in [Endpoints -> Nat]
  BY <1>1, SMT DEF Expose
<1>3. lease'.left \in Nat /\ rpc'.answer.left \in Nat
  BY DEF RelayInv, Types
<1>4. lease'.left <= Lease /\ rpc'.answer.left <= Lease
  BY DEF Listed
<1>5. ASSUME NEW e \in Endpoints PROVE Exposure(e)'
  <2>1. CASE exposed'[e] = 0
    BY <1>3, <1>4, <2>1, ExposeReset
  <2>2. CASE exposed'[e] # 0
    <3>1. Stale(e)' /\ fence'[e].gen = fence[e].gen /\ exposed'[e] = exposed[e] + 0
      BY <2>2 DEF Expose
    <3>2. exposed'[e] = exposed[e]
      BY <1>1, <3>1, SMT
    <3>3. Stale(e)
      BY <2>2, <3>2 DEF ExposeInv, Exposure
    <3> QED
      BY <3>1, <3>2, <3>3
  <2> QED
    BY <2>1, <2>2
<1> QED
  BY <1>2, <1>5 DEF ExposeInv

\* A revoked connection and its fence, the lease, the list and the request stay as they are.
LEMMA ExposeSame ==
    ASSUME ExposeInv, NEW e \in Endpoints, Stale(e), Stale(e)', exposed'[e] = exposed[e],
           fence'[e].gen = fence[e].gen, UNCHANGED <<lease, sent, rpc>>
    PROVE  Exposure(e)'
<1>1. Exposure(e)
  BY DEF ExposeInv
<1>2. Near(e) => Near(e)'
  BY DEF Near
<1>3. Open(e) => Open(e)'
  BY DEF Open
<1>4. Ahead(e) => Ahead(e)'
  BY DEF Ahead, SentAfter
<1>5. (rpc'.answer.kind = "ok" /\ rpc'.answer.left > 0) => Ahead(e)'
  BY <1>1, <1>4 DEF Exposure
<1> QED
  BY <1>1, <1>2, <1>3, <1>5 DEF Exposure

\* Steps that leave the relay's lease, list, fences and request alone.
LEMMA ExposeFrame ==
    ASSUME RelayInv', ExposeInv, Expose(0), UNCHANGED <<lease, sent, fence, rpc>>,
           proc \in Alive <=> proc' \in Alive,
           \A e \in Endpoints : Live(e)' => Live(e)
    PROVE  ExposeInv'
<1>1. Listed'
  BY DEF ExposeInv, Listed
<1>2. proc' \notin Alive => \A e \in Endpoints : ~Live(e)'
  BY DEF ExposeInv
<1>3. \A e \in Endpoints : Held(e)'
  BY DEF ExposeInv, Held
<1> QED
  BY <1>1, <1>2, <1>3, ExposeSame, ExposeStep

\* Steps after which nobody is connected.
LEMMA ExposeDown ==
    ASSUME RelayInv', ExposeInv, Expose(0), Listed', \A e \in Endpoints : ~Live(e)'
    PROVE  ExposeInv'
<1>1. \A e \in Endpoints : Held(e)' /\ ~Stale(e)'
  BY DEF Held, Stale
<1> QED
  BY <1>1, ExposeStep

\* An ended exchange.
LEMMA IdleListed == ASSUME ExposeInv, sent' \in {sent, {}}, rpc' = Idle, lease'.left <= Lease PROVE Listed'
<1>1. rpc'.req.kind = "none" /\ rpc'.answer.left = 0 /\ 0 <= Lease
  BY IdleFacts, RelayAssumption, SMT
<1> QED
  BY <1>1 DEF ExposeInv, Listed

\* Starting, leaving and ending.
LEMMA ExposeEnds ==
    ASSUME RelayInv, RelayInv', ExposeInv, Expose(0),
           \/ Start \/ StartAccepted \/ Started \/ StartedSaveFails \/ ObserveFenced
           \/ LeaseExpires \/ Stop \/ LastObserve \/ Exit
    PROVE  ExposeInv'
<1>1. Lease \in Nat /\ NoAnswer.left = 0 /\ (peer' = NoPeers => \A e \in Endpoints : ~Live(e)')
  BY RelayAssumption DEF NoAnswer, NoPeers, Live
<1>2. Listed /\ lease.left <= Lease /\ rpc.answer.left <= Lease
  BY DEF ExposeInv, Listed
<1>3. CASE Start \/ LastObserve
  <2>1. proc' \notin Alive /\ rpc'.answer = NoAnswer /\ UNCHANGED <<lease, sent, peer>> /\ proc \notin Alive
    <3>1. CASE Start
      BY <3>1 DEF Start, Send, Alive
    <3>2. CASE LastObserve
      BY <3>2 DEF LastObserve, Send, Alive
    <3> QED
      BY <1>3, <3>1, <3>2
  <2>2. Listed'
    BY <1>1, <1>2, <2>1, SMT DEF Listed
  <2>3. \A e \in Endpoints : ~Live(e)'
    BY <2>1 DEF ExposeInv, Live
  <2> QED
    BY <2>2, <2>3, ExposeDown
<1>4. CASE StartAccepted
  <2>1. rpc' = Idle /\ lease'.left = rpc.answer.left /\ UNCHANGED <<sent, peer>> /\ proc \notin Alive
    BY <1>4 DEF StartAccepted, Alive
  <2>2. Listed'
    BY <1>2, <2>1, IdleListed
  <2>3. \A e \in Endpoints : ~Live(e)'
    BY <2>1 DEF ExposeInv, Live
  <2> QED
    BY <2>2, <2>3, ExposeDown
<1>5. CASE Started
  <2>1. proc = "save" /\ UNCHANGED <<rpc, lease, sent, peer>> /\ proc \notin Alive
    BY <1>5 DEF Started, Alive, network
  <2>2. rpc'.req.kind = "none"
    BY <2>1 DEF RelayInv, Saving
  <2>3. Listed'
    BY <1>2, <2>1, <2>2 DEF Listed
  <2>4. \A e \in Endpoints : ~Live(e)'
    BY <2>1 DEF ExposeInv, Live
  <2> QED
    BY <2>3, <2>4, ExposeDown
<1>6. CASE StartedSaveFails
  <2>1. rpc' = rpc /\ sent' = {} /\ lease'.left = 0 /\ peer' = NoPeers /\ proc' \notin Alive
    BY <1>6 DEF StartedSaveFails, Gone, network, Alive
  <2>2. Listed'
    BY <1>1, <1>2, <2>1, SMT DEF Listed
  <2> QED
    BY <1>1, <2>1, <2>2, ExposeDown
<1>7. CASE ObserveFenced \/ LeaseExpires \/ Stop
  <2>1. rpc' = Idle /\ UNCHANGED <<lease, sent>> /\ peer' = NoPeers
    BY <1>7 DEF ObserveFenced, LeaseExpires, Stop, Abandon, Leave
  <2>2. Listed'
    BY <1>2, <2>1, IdleListed
  <2> QED
    BY <1>1, <2>1, <2>2, ExposeDown
<1>8. CASE Exit
  <2>1. rpc' = Idle /\ sent' = {} /\ lease'.left = 0 /\ peer' = NoPeers
    BY <1>8 DEF Exit, Abandon, Gone
  <2>2. Listed'
    BY <1>1, <2>1, IdleListed, SMT
  <2> QED
    BY <1>1, <2>1, <2>2, ExposeDown
<1> QED
  BY <1>3, <1>4, <1>5, <1>6, <1>7, <1>8

\* A new observation, and one that is given up.  While the endpoint is Open the
\* acknowledged list is not the one now sent, so it is sent in full.
LEMMA ExposeObserve ==
    ASSUME RelayInv, RelayInv', FenceInv, ExposeInv, Expose(0), Observe \/ ObserveFails
    PROVE  ExposeInv'
<1>1. UNCHANGED <<proc, lease, sent, fence, peer>>
  BY DEF Observe, ObserveFails, relay
<1>2. Lease \in Nat /\ NoAnswer.left = 0 /\ NoAnswer.kind = "none"
  BY RelayAssumption DEF NoAnswer
<1>3. Listed /\ lease.left <= Lease
  BY DEF ExposeInv, Listed
<1>4. rpc'.answer = NoAnswer
  BY SMT DEF Observe, ObserveFails, Send, Abandon, Idle
<1>5. ASSUME ObserveFails
      PROVE  Listed' /\ \A e \in Endpoints : Stale(e) /\ Open(e) /\ exposed'[e] = exposed[e] => Open(e)'
  <2>1. rpc' = Idle
    BY <1>5 DEF ObserveFails, Abandon
  <2>2. Listed'
    BY <1>1, <1>3, <2>1, IdleListed
  <2>3. ASSUME NEW e \in Endpoints, Open(e), exposed'[e] = exposed[e] PROVE Open(e)'
    BY <1>1, <2>1, <2>3, IdleFacts DEF Open
  <2> QED
    BY <2>2, <2>3
<1>6. ASSUME Observe
      PROVE  Listed' /\ \A e \in Endpoints : Stale(e) /\ Open(e) /\ exposed'[e] = exposed[e] => Open(e)'
  <2>1. rpc'.req = Observation(draining)
    BY <1>6 DEF Observe, Send
  <2>2. rpc'.req.set = AuthoritySubjects /\ (rpc'.req.full <=> AuthoritySubjects \notin sent)
    <3> DEFINE q == Observation(draining)
    <3>1. q.set = AuthoritySubjects
      BY DEF Observation
    <3>2. q.full = (AuthoritySubjects \notin sent)
      BY Zenon DEF Observation
    <3> HIDE DEF q
    <3> QED
      BY <2>1, <3>1, <3>2, Zenon DEF q
  <2>3. rpc'.req.full \/ rpc'.req.set \in sent'
    BY <1>1, <2>2, Zenon
  <2>5. lease'.left <= Lease /\ rpc'.answer.left <= Lease
    BY <1>1, <1>2, <1>3, <1>4, SMT
  <2>6. Listed'
    BY <1>1, <1>3, <2>3, <2>5, Zenon DEF Listed
  <2>4. ASSUME NEW e \in Endpoints, Open(e), Stale(e), exposed'[e] = exposed[e] PROVE Open(e)'
    <3>1. e \in AuthoritySubjects
      BY <2>4 DEF ExposeInv, Held, Stale, AuthoritySubjects
    <3>2. AuthoritySubjects \notin sent
      BY <2>4, <3>1 DEF Open
    <3>3. rpc'.req.full /\ e \in rpc'.req.set
      BY <2>2, <3>1, <3>2, Zenon
    <3> QED
      BY <1>1, <2>4, <3>3, Zenon DEF Open
  <2> QED
    BY <2>4, <2>6
<1>7. Listed' /\ \A e \in Endpoints : Stale(e) /\ Open(e) /\ exposed'[e] = exposed[e] => Open(e)'
  BY <1>5, <1>6
<1>8. ASSUME NEW e \in Endpoints, Stale(e), Stale(e)', exposed'[e] = exposed[e] PROVE Exposure(e)'
  <2>1. Near(e) \/ Open(e)
    BY <1>8 DEF ExposeInv, Exposure
  <2>2. Near(e) => Near(e)'
    BY <1>1, <1>8 DEF Near
  <2> QED
    BY <1>2, <1>4, <1>7, <1>8, <2>1, <2>2 DEF Exposure
<1>9. \A e \in Endpoints : Held(e)'
  BY <1>1 DEF ExposeInv, Held, Live
<1> QED
  BY <1>1, <1>7, <1>8, <1>9, ExposeStep DEF ExposeInv, Live

\* No answer grants more than a lease.
LEMMA AnswerBound == ASSUME RelayInv, NEW q PROVE Handle(q).answer.left <= Lease
<1>1. Lease \in Nat /\ Registry \in Nat /\ reg.left \in Nat /\ 0 <= Lease
  BY RelayAssumption, SMT DEF RelayInv, Types
<1>2. Refused.answer.left = 0
  BY DEF Refused, Outcome, Fenced, NoAnswer
<1>3. \A left \in Nat : RetryLease(left) <= Lease
  BY <1>1, SMT DEF RetryLease, Smaller
<1>4. StartRelayNode(q).answer.left <= Lease
  <2> DEFINE left == IF reg.left = 0 THEN Registry ELSE reg.left
  <2>1. left \in Nat
    BY <1>1
  <2>2. \/ StartRelayNode(q) = Refused
        \/ StartRelayNode(q).answer.left = RetryLease(left)
        \/ StartRelayNode(q).answer.left = Lease
    BY DEF StartRelayNode, Outcome, Granted
  <2> HIDE DEF left
  <2> QED
    BY <1>1, <1>2, <1>3, <2>1, <2>2, SMT
<1>5. ObserveRelayNode(q).answer.left <= Lease
  BY <1>1, <1>2, SMT DEF ObserveRelayNode, Outcome, Granted
<1> QED
  BY <1>4, <1>5 DEF Handle

\* What an accepted observation is answered.
LEMMA ObserveAnswer ==
    ASSUME NEW q, ObserveRelayNode(q).answer.kind = "ok"
    PROVE  LET a == ObserveRelayNode(q).answer
               required == ~q.full /\ ~Matches(q)
           IN a = Granted(Lease, required, IF required THEN NoMin ELSE relayMinGenerations(q.set))
<1>1. Refused.answer.kind = "fenced"
  BY DEF Refused, Outcome, Fenced, NoAnswer
<1>2. Observable(q)
  BY <1>1 DEF ObserveRelayNode
<1> QED
  BY <1>2, Zenon DEF ObserveRelayNode, Outcome

\* The parts of a grant.
LEMMA GrantedFields ==
    ASSUME NEW left, NEW required, NEW min
    PROVE  LET a == Granted(left, required, min)
           IN a.kind = "ok" /\ a.left = left /\ a.required = required /\ a.min = min
  BY Zenon DEF Granted

\* The control plane answers.  A list with the endpoint brings its revocation; a
\* list without it, or the request for the full list, leaves the endpoint Open.
LEMMA ExposeAnswers ==
    ASSUME RelayInv, RelayInv', FenceInv, ExposeInv, Expose(0), ServerAnswers
    PROVE  ExposeInv'
<1> DEFINE q == rpc.req
           a == Handle(q).answer
           required == ~q.full /\ ~Matches(q)
<1>1. UNCHANGED <<proc, lease, sent, fence, peer>>
  BY DEF ServerAnswers, Handled, relay
<1>2. rpc'.req = q /\ rpc'.answer = a /\ q.kind # "none"
  BY DEF ServerAnswers
<1>3. Listed'
  BY <1>1, <1>2, AnswerBound DEF ExposeInv, Listed
<1>4. \A e \in Endpoints : Held(e)'
  BY <1>1 DEF ExposeInv, Held, Live
<1>5. proc' \notin Alive => \A e \in Endpoints : ~Live(e)'
  BY <1>1 DEF ExposeInv, Live
<1>6. ASSUME NEW e \in Endpoints, Stale(e), Stale(e)', exposed'[e] = exposed[e] PROVE Exposure(e)'
  <2>1. /\ lease.left \in Nat /\ exposed[e] \in Nat /\ fence[e].gen \in Nat /\ MinGeneration(e) \in Nat
        /\ fence[e].gen > 0 /\ fence[e].gen < MinGeneration(e) /\ Lease \in Nat
    BY <1>6, ExposeTypes DEF ExposeInv, Held, Stale
  <2>2. proc \in Alive
    BY <1>6 DEF ExposeInv, Stale
  <2>3. q.kind = "observe"
    BY <1>2, <2>2 DEF RelayInv, Sound, Serving, Placed, Alive
  <2>4. a = ObserveRelayNode(q).answer
    BY <2>3 DEF Handle
  <2>5. Near(e) \/ Open(e)
    BY <1>6 DEF ExposeInv, Exposure
  <2>6. ASSUME a.kind = "ok" PROVE Ahead(e)' /\ (Near(e)' \/ Open(e)')
    <3>1. a = Granted(Lease, required, IF required THEN NoMin ELSE relayMinGenerations(q.set))
      BY <2>4, <2>6, ObserveAnswer
    <3> DEFINE min == IF required THEN NoMin ELSE relayMinGenerations(q.set)
    <3>8. a.left = Lease /\ a.required = required /\ a.kind = "ok" /\ a.min = min
      <4> HIDE DEF a, required, min
      <4>1. a = Granted(Lease, required, min)
        BY <3>1 DEF required, min
      <4> QED
        BY <4>1, GrantedFields, SMT
    <3>2. a.left = Lease /\ (a.required <=> required) /\ a.kind = "ok"
      <4> HIDE DEF a, required, min
      <4> QED
        BY <3>8, Zenon
    <3>3. ~required => a.min = relayMinGenerations(q.set)
      <4> HIDE DEF a, required
      <4> QED
        BY <3>8, Zenon
    <3>4. Near(e) => Near(e)'
      BY <1>1, <1>6 DEF Near
    <3>5. Open(e) => Open(e)'
      BY <1>1, <1>2, <1>6, <3>2 DEF Open
    <3>6. CASE e \in q.set /\ ~required
      <4>0. MinGeneration(e) > 1 /\ MinGeneration(e) > fence[e].gen
        BY <2>1, SMT
      <4>1. a.min[e] = MinGeneration(e)
        BY <3>3, <3>6, <4>0 DEF relayMinGenerations
      <4>2. Ahead(e)'
        BY <1>1, <1>2, <4>0, <4>1 DEF Ahead
      <4> QED
        BY <2>5, <3>4, <3>5, <4>2
    <3>7. CASE required \/ e \notin q.set
      <4>1. Near(e)
        <5>1. ServerAnswers => rpc.answer.kind = "none"
          BY DEF ServerAnswers
        <5>2. Open(e) => q.full /\ e \in q.set
          BY <2>3, <5>1, Zenon DEF Open
        <5> QED
          BY <2>5, <3>7, <5>2, Zenon
      <4>2. exposed'[e] + rpc'.answer.left <= 2 * Lease
        BY <1>2, <1>6, <2>1, <3>2, <4>1, SMT DEF Near
      <4>3. \A S \in SentAfter(rpc.answer.required)' : e \notin S
        <5>1. CASE required
          BY <1>2, <3>2, <5>1, Zenon DEF SentAfter
        <5>2. CASE ~required /\ q.full
          BY <1>2, <3>2, <3>7, <5>2, Zenon DEF SentAfter
        <5>3. CASE ~required /\ ~q.full
          <6>1. q.set \in sent /\ \A S \in sent : S = q.set
            BY <2>2, <2>3, <5>3, Zenon DEF ExposeInv, Listed
          <6>2. SentAfter(rpc.answer.required)' = sent
            BY <1>1, <1>2, <3>2, <5>3, Zenon DEF SentAfter
          <6> QED
            BY <3>7, <5>3, <6>1, <6>2, Zenon
        <5> QED
          BY <5>1, <5>2, <5>3
      <4> QED
        BY <3>4, <4>1, <4>2, <4>3 DEF Ahead
    <3> QED
      BY <3>6, <3>7
  <2>7. a.kind # "ok" => Near(e)' \/ Open(e)'
    <3>1. Near(e) => Near(e)'
      BY <1>1, <1>6 DEF Near
    <3>2. a.kind # "none"
      BY <2>4, SMT DEF ObserveRelayNode, Refused, Outcome, Fenced, NoAnswer, Granted
    <3>3. Open(e) => Open(e)'
      BY <1>1, <1>2, <1>6, <3>2 DEF Open
    <3> QED
      BY <2>5, <3>1, <3>3
  <2> HIDE DEF a, q
  <2> QED
    BY <1>2, <1>6, <2>6, <2>7 DEF Exposure
<1> QED
  BY <1>3, <1>4, <1>5, <1>6, ExposeStep

\* An accepted answer cuts the endpoint off, or leaves it Near or Open.
LEMMA ExposeAccepted ==
    ASSUME RelayInv, RelayInv', FenceInv, ExposeInv, Expose(0), ObserveAccepted
    PROVE  ExposeInv'
<1>1. /\ proc \in Alive /\ proc' = proc /\ rpc' = Idle /\ rpc.answer.kind = "ok" /\ rpc.answer.left > 0
      /\ sent' = SentAfter(rpc.answer.required)
  BY DEF ObserveAccepted
<1>2. lease'.left = rpc.answer.left
  BY DEF ObserveAccepted, RelayInv, Types
<1>3. rpc'.req.kind = "none" /\ rpc'.answer.kind = "none" /\ rpc'.answer.left = 0 /\ 0 <= Lease
  BY <1>1, IdleFacts, RelayAssumption, SMT
<1>4. \A S, T \in sent' : S = T
  <2>1. sent' \in {{}, {rpc.req.set}, sent}
    BY <1>1, Zenon DEF SentAfter
  <2> QED
    BY <2>1 DEF ExposeInv, Listed
<1>5. Listed'
  BY <1>2, <1>3, <1>4 DEF ExposeInv, Listed
<1>6. ASSUME NEW e \in Endpoints
      PROVE  /\ Held(e)'
             /\ Stale(e)' => ~Revokes(e)
  <2>1. Revokes(e) => ~Live(e)'
    BY DEF ObserveAccepted, Live, NoPeers
  <2>2. ~Revokes(e) => fence'[e] = fence[e] /\ peer'[e] = peer[e]
    BY DEF ObserveAccepted
  <2> QED
    BY <2>1, <2>2 DEF ExposeInv, Held, Stale, Live
<1>7. ASSUME NEW e \in Endpoints, Stale(e), Stale(e)', exposed'[e] = exposed[e] PROVE Exposure(e)'
  <2>1. Ahead(e)
    BY <1>1, <1>7 DEF ExposeInv, Exposure
  <2>2. ~(rpc.answer.min[e] > fence[e].gen)
    BY <1>6, <1>7 DEF Revokes
  <2>3. CASE exposed[e] + rpc.answer.left <= Lease
    BY <1>2, <1>3, <1>7, <2>3 DEF Near, Exposure
  <2>4. CASE /\ exposed[e] + rpc.answer.left <= 2 * Lease
             /\ \A S \in SentAfter(rpc.answer.required) : e \notin S
    <3>1. Open(e)'
      BY <1>1, <1>2, <1>3, <1>7, <2>4 DEF Open
    <3> QED
      BY <1>3, <1>7, <3>1 DEF Exposure
  <2> QED
    BY <2>1, <2>2, <2>3, <2>4 DEF Ahead
<1> QED
  BY <1>1, <1>5, <1>6, <1>7, ExposeStep

\* Admission keeps the fences of the endpoints that are connected, but for the one admitted.
LEMMA ExposeAdmit ==
    ASSUME RelayInv', FenceInv, ExposeInv, Expose(0),
           NEW f \in Endpoints, NEW m \in Namespaces, NEW g \in Gens, Admit(f, m, g)
    PROVE  ExposeInv'
<1>1. UNCHANGED <<proc, lease, sent, rpc>> /\ proc \in Alive
  BY DEF Admit, Alive, network
<1>2. /\ peer \in [Endpoints -> [Namespaces -> 0 .. MaxGen]] /\ fence \in [Endpoints -> Fence]
      /\ Pruned \in [Endpoints -> Fence]
  BY FenceConstants DEF FenceInv, FenceTypes, Pruned
<1>3. fence'[f] = [gen |-> g, left |-> grants[f][g], signed |-> TRUE]
  BY <1>2 DEF Admit
<1>4. ASSUME NEW e \in Endpoints, e # f PROVE fence'[e] = Pruned[e] /\ peer'[e] = peer[e]
  BY <1>2, <1>4 DEF Admit
<1>5. ASSUME NEW e \in Endpoints, Live(e) PROVE Pruned[e] = fence[e]
  BY <1>5 DEF ExposeInv, Held, Pruned
<1>6. ASSUME NEW e \in Endpoints PROVE Held(e)'
  <2>1. CASE e = f
    <3>1. fence'[e].gen = g /\ fence'[e].signed = TRUE /\ g > 0
      BY <1>3, <2>1, GensFacts, SMT
    <3> QED
      BY <3>1 DEF Held
  <2>2. CASE e # f
    <3>1. fence'[e] = Pruned[e] /\ (Live(e)' => Live(e))
      BY <1>4, <2>2 DEF Live
    <3>2. Held(e)
      BY DEF ExposeInv
    <3> QED
      BY <1>5, <3>1, <3>2 DEF Held
  <2> QED
    BY <2>1, <2>2
<1>7. Listed'
  BY <1>1 DEF ExposeInv, Listed
<1> QED
  BY <1>1, <1>6, <1>7, ExposeSame, ExposeStep

\* Time: exposure grows as the lease and the answer's lease run down.
LEMMA ExposeTick ==
    ASSUME RelayInv, RelayInv', FenceInv, ExposeInv, Expose(1), Tick
    PROVE  ExposeInv'
<1>1. /\ UNCHANGED <<proc, sent, peer, config, floor, pool>>
      /\ rpc' = [req |-> rpc.req, wait |-> Less(rpc.wait), answer |-> Later(rpc.answer)]
      /\ fence' = [e \in Endpoints |-> [fence[e] EXCEPT !.left = Less(@)]]
  BY DEF Tick
<1>2. /\ rpc'.req = rpc.req /\ rpc'.answer.kind = rpc.answer.kind /\ rpc'.answer.min = rpc.answer.min
      /\ rpc'.answer.left = Less(rpc.answer.left)
  BY <1>1 DEF Later
<1>3. rpc'.answer.required = rpc.answer.required
  BY <1>1, Zenon DEF Later
<1>4. lease'.left = Less(lease.left)
  BY DEF Tick, RelayInv, Types
<1>5. /\ lease.left \in Nat /\ rpc.answer.left \in Nat /\ Lease \in Nat
      /\ lease.left <= Lease /\ rpc.answer.left <= Lease
  BY RelayAssumption DEF RelayInv, Types, ExposeInv, Listed
<1>6. /\ lease'.left \in Nat /\ lease'.left <= Lease
      /\ rpc'.answer.left \in Nat /\ rpc'.answer.left <= Lease
  BY <1>2, <1>4, <1>5, SMT DEF Less
<1>7. Listed'
  BY <1>1, <1>2, <1>6 DEF ExposeInv, Listed
<1>8. exposed' \in [Endpoints -> Nat]
  BY SMT DEF ExposeInv, Expose
<1>9. ASSUME NEW e \in Endpoints
      PROVE  Held(e)' /\ fence'[e].gen = fence[e].gen /\ (Stale(e)' <=> Stale(e)) /\ (Live(e)' <=> Live(e))
  <2>1. fence[e] \in Fence
    BY DEF FenceInv, FenceTypes
  <2>2. fence'[e].gen = fence[e].gen /\ fence'[e].signed = fence[e].signed
    BY <1>1, <2>1 DEF Fence
  <2>3. Held(e)
    BY DEF ExposeInv
  <2> QED
    BY <1>1, <2>2, <2>3, Zenon DEF Held, Stale, Live, MinGeneration
<1>10. ASSUME NEW e \in Endpoints PROVE Exposure(e)'
  <2>1. CASE ~Stale(e)
    <3>1. exposed'[e] = 0
      BY <1>9, <2>1 DEF Expose
    <3> QED
      BY <1>6, <3>1, ExposeReset
  <2>2. CASE Stale(e)
    <3>1. exposed'[e] = exposed[e] + 1 /\ Stale(e)' /\ exposed[e] \in Nat
      BY <1>9, <2>2 DEF Expose, ExposeInv
    <3>2. lease.left # 0
      BY <2>2 DEF Tick, ExposeInv, Stale
    <3>3. exposed'[e] + lease'.left = exposed[e] + lease.left
      BY <1>4, <1>5, <3>1, <3>2, SMT DEF Less
    <3>4. Near(e)' \/ Open(e)'
      <4>1. Near(e) => Near(e)'
        BY <3>3 DEF Near
      <4>2. Open(e) => Open(e)'
        BY <1>1, <1>2, <3>3 DEF Open
      <4> QED
        BY <2>2, <4>1, <4>2 DEF ExposeInv, Exposure
    <3>5. ASSUME rpc'.answer.kind = "ok", rpc'.answer.left > 0 PROVE Ahead(e)'
      <4>1. rpc.answer.left > 0 /\ exposed'[e] + rpc'.answer.left = exposed[e] + rpc.answer.left
        BY <1>2, <1>5, <3>1, <3>5, SMT DEF Less
      <4>2. Ahead(e)
        BY <1>2, <2>2, <3>5, <4>1 DEF ExposeInv, Exposure
      <4>3. SentAfter(rpc.answer.required)' = SentAfter(rpc.answer.required)
        BY <1>1, <1>2, <1>3, Zenon DEF SentAfter
      <4> QED
        BY <1>2, <1>9, <4>1, <4>2, <4>3 DEF Ahead
    <3> QED
      BY <3>1, <3>4, <3>5 DEF Exposure
  <2> QED
    BY <2>1, <2>2
<1> QED
  BY <1>1, <1>7, <1>8, <1>9, <1>10 DEF ExposeInv

\* Initially nobody is connected and nothing is under way.
LEMMA InitExpose == Init => ExposeInv
<1> SUFFICES ASSUME Init PROVE ExposeInv
  OBVIOUS
<1>1. /\ proc = "down" /\ sent = {} /\ rpc = Idle /\ lease.left = 0 /\ Lease \in Nat
      /\ exposed = NoMin /\ peer = NoPeers
  BY RelayAssumption DEF Init
<1>2. \A e \in Endpoints : ~Live(e) /\ exposed[e] = 0
  BY <1>1 DEF NoMin, NoPeers, Live
<1>3. Listed
  BY <1>1, IdleFacts, SMT DEF Listed, Alive
<1>4. exposed \in [Endpoints -> Nat]
  BY <1>1 DEF NoMin
<1>5. \A e \in Endpoints : Held(e) /\ Exposure(e)
  BY <1>2 DEF Held, Exposure, Stale
<1> QED
  BY <1>2, <1>3, <1>4, <1>5 DEF ExposeInv

\* Every step keeps the exposure within its bound.
LEMMA NextExpose == RelayInv /\ FenceInv /\ ExposeInv /\ [Next]_vars => ExposeInv'
<1> SUFFICES ASSUME RelayInv, FenceInv, ExposeInv, [Next]_vars PROVE ExposeInv'
  OBVIOUS
<1>1. RelayInv'
  BY NextRelay
<1>2. CASE Tick /\ Expose(1)
  BY <1>1, <1>2, ExposeTick
<1>3. CASE Relay /\ Expose(0)
  <2>1. CASE \/ Start \/ StartAccepted \/ Started \/ StartedSaveFails \/ ObserveFenced
             \/ LeaseExpires \/ Stop \/ LastObserve \/ Exit
    BY <1>1, <1>3, <2>1, ExposeEnds
  <2>2. CASE Observe \/ ObserveFails
    BY <1>1, <1>3, <2>2, ExposeObserve
  <2>3. CASE ObserveAccepted
    BY <1>1, <1>3, <2>3, ExposeAccepted
  <2>4. CASE StartSaveFails \/ Listen \/ Drain
    <3>1. UNCHANGED <<lease, sent, fence, rpc, peer>> /\ (proc \in Alive <=> proc' \in Alive)
      BY <2>4 DEF StartSaveFails, Listen, Drain, relay, network, Alive
    <3> QED
      BY <1>1, <1>3, <3>1, ExposeFrame DEF Live
  <2> QED
    BY <1>3, <2>1, <2>2, <2>3, <2>4 DEF Relay
<1>4. CASE Control /\ Expose(0)
  <2>1. CASE ServerAnswers
    BY <1>1, <1>4, <2>1, ExposeAnswers
  <2>2. CASE ServerHandlesLate \/ OperatorDrain \/ OperatorResume
    <3>1. UNCHANGED <<lease, sent, fence, rpc, peer, proc>>
      BY <2>2 DEF ServerHandlesLate, Handled, OperatorDrain, OperatorResume, relay, network
    <3> QED
      BY <1>1, <1>4, <3>1, ExposeFrame DEF Live
  <2>3. CASE \E e \in Endpoints : Authority(e) \/ \E g \in Gens : Mint(e, g)
    <3>1. UNCHANGED <<lease, sent, fence, rpc, proc, peer>>
      BY <2>3 DEF Authority, Configure, Withdraw, SetPool, ChangeMember, Erase, Mint, relay, network
    <3> QED
      BY <1>1, <1>4, <3>1, ExposeFrame DEF Live
  <2>4. CASE \E e \in Endpoints, n \in Namespaces : Disconnect(e, n)
    <3>1. PICK f \in Endpoints, m \in Namespaces : Disconnect(f, m)
      BY <2>4
    <3>2. UNCHANGED <<lease, sent, fence, rpc, proc>> /\ peer' = [peer EXCEPT ![f][m] = 0]
      BY <3>1 DEF Disconnect, network
    <3>3. peer \in [Endpoints -> [Namespaces -> 0 .. MaxGen]]
      BY DEF FenceInv, FenceTypes
    <3>4. \A e \in Endpoints, n \in Namespaces : peer'[e][n] = peer[e][n] \/ peer'[e][n] = 0
      BY <3>2, <3>3, SMT
    <3>5. \A e \in Endpoints : Live(e)' => Live(e)
      BY <3>4 DEF Live
    <3> QED
      BY <1>1, <1>4, <3>2, <3>5, ExposeFrame
  <2>5. CASE \E e \in Endpoints, n \in Namespaces, g \in Gens : Admit(e, n, g)
    BY <1>1, <1>4, <2>5, ExposeAdmit
  <2> QED
    BY <1>4, <2>1, <2>2, <2>3, <2>4, <2>5 DEF Control, Peering
<1>5. CASE UNCHANGED vars
  <2>1. UNCHANGED <<proc, lease, sent, fence, peer, rpc, config, floor, pool, exposed>>
    BY <1>5 DEF vars, relay, network, peers
  <2>2. Listed'
    BY <2>1 DEF ExposeInv, Listed
  <2>3. \A e \in Endpoints : Held(e)'
    BY <2>1 DEF ExposeInv, Held, Live
  <2>4. ASSUME NEW e \in Endpoints PROVE Exposure(e)'
    <3>1. CASE Stale(e)
      BY <2>1, <3>1, ExposeSame DEF Stale, Live, MinGeneration
    <3>2. CASE ~Stale(e)
      BY <2>1, <3>2 DEF ExposeInv, Exposure, Stale, Live, MinGeneration
    <3> QED
      BY <3>1, <3>2
  <2> QED
    BY <2>1, <2>2, <2>3, <2>4 DEF ExposeInv, Live
<1> QED
  BY <1>2, <1>3, <1>4, <1>5 DEF Next

\* An endpoint that presents no newer grant than one no longer valid forwards for at most two
\* leases, on all its carriers together: revocation reaches a relay by its lease, however
\* requests are lost, delayed, reordered or answered with a request for the full list, for any
\* lease, request deadline, number of endpoints, carriers, generations, restarts and late
\* requests (Client.Run, ObserveRelayNode, relayMinGenerations, Server.Revoke).
THEOREM RevocationBoundHolds == Spec => []RevocationBound
<1>1. RelayInv /\ FenceInv /\ ExposeInv => RevocationBound
  <2> SUFFICES ASSUME RelayInv, FenceInv, ExposeInv, NEW e \in Endpoints PROVE exposed[e] <= 2 * Lease
    BY DEF RevocationBound
  <2>1. lease.left \in Nat /\ exposed[e] \in Nat /\ Lease \in Nat
    BY ExposeTypes
  <2>2. exposed[e] = 0 \/ exposed[e] + lease.left <= Lease \/ exposed[e] + lease.left <= 2 * Lease
    BY DEF ExposeInv, Exposure, Near, Open
  <2> QED
    BY <2>1, <2>2, SMT
<1> QED
  BY <1>1, AlwaysFenced, InitExpose, NextExpose, RelayInvariant, PTL DEF Spec

-----------------------------------------------------------------------------
(* Takeover.  Every registration uses up an epoch, and the pending epoch of *)
(* the state file is newer than every epoch that has registered before.     *)

Numbered ==
    /\ proc \in {"down", "start", "save"} \cup Placed
    /\ 1 <= disk.gen /\ epochs <= MaxEpoch
    /\ reg.gen <= reg.epoch + 1
    /\ disk.pending # 0 => reg.epoch <= disk.pending

\* The numbers the argument is about.
LEMMA Numbers ==
    ASSUME RelayInv
    PROVE  /\ disk.gen \in Nat /\ disk.pending \in Nat /\ reg.gen \in Nat /\ reg.epoch \in Nat
           /\ epochs \in Nat /\ lease.gen \in Nat /\ lease.epoch \in Nat /\ MaxEpoch \in Nat
  BY RelayAssumption DEF RelayInv, Types

\* A handled request registers the pending epoch of the state file, or nobody.
LEMMA TakeoverHandled ==
    ASSUME RelayInv, Numbered, NEW q, Sound(q), q.kind # "none", Handled(q)
    PROVE  /\ Numbered'
           /\ reg'.gen # reg.gen => /\ reg'.gen = reg.gen + 1 /\ reg'.epoch > reg.epoch
                                    /\ proc \in {"down", "start"}
<1>1. UNCHANGED <<disk, proc, epochs>> /\ reg' = Handle(q).reg
  BY DEF Handled, relay
<1>2. CASE reg'.gen = reg.gen /\ reg'.epoch = reg.epoch
  BY <1>1, <1>2 DEF Numbered
<1>3. CASE /\ q.kind = "start" /\ q.gen = reg.gen /\ q.epoch # reg.epoch
           /\ reg' = [gen |-> q.gen + 1, epoch |-> q.epoch, state |-> "registered", left |-> Registry]
  <2>1. reg'.gen = reg.gen + 1 /\ reg'.epoch = q.epoch
    BY <1>3
  <2>2. /\ reg.gen = disk.gen \/ reg.gen = disk.gen + 1
        /\ q.gen < disk.gen \/ (q.gen = disk.gen /\ q.epoch = disk.pending /\ q.epoch # 0)
        /\ q.gen \in Nat
    BY <1>3 DEF RelayInv, StartResumable, Sound
  <2>3. reg.gen = disk.gen /\ q.epoch = disk.pending /\ disk.pending # 0
    BY <1>3, <2>2, Numbers, SMT
  <2>4. reg.epoch < disk.pending
    BY <1>3, <2>3, Numbers, SMT DEF Numbered
  <2>5. Numbered'
    BY <1>1, <2>1, <2>3, <2>4, Numbers, SMTT(60) DEF Numbered
  <2>6. proc # "save" /\ proc \notin Placed
    BY <2>3, Numbers, SMT DEF RelayInv, Saving, Serving, Registered
  <2>7. proc \in {"down", "start", "save"} \cup Placed
    BY DEF Numbered
  <2> QED
    BY <2>1, <2>3, <2>4, <2>5, <2>6, <2>7, Numbers, SMT
<1> QED
  BY <1>1, <1>2, <1>3, HandleStep

\* Every step keeps the numbering, and changes the generation by such a registration only.
LEMMA NextNumbered ==
    RelayInv /\ Numbered /\ [Next]_vars =>
        /\ Numbered'
        /\ reg'.gen # reg.gen => /\ reg'.gen = reg.gen + 1 /\ reg'.epoch > reg.epoch
                                 /\ proc \in {"down", "start"}
<1> DEFINE Clean == reg'.gen # reg.gen => /\ reg'.gen = reg.gen + 1 /\ reg'.epoch > reg.epoch
                                          /\ proc \in {"down", "start"}
<1> SUFFICES ASSUME RelayInv, Numbered, [Next]_vars PROVE Numbered' /\ Clean
  OBVIOUS
<1>1. CASE Start \/ StartSaveFails
  <2>1. reg' = reg /\ proc' \in {proc, "start"}
    BY <1>1 DEF Start, StartSaveFails, server, relay
  <2>2. /\ disk'.gen = disk.gen /\ epochs' <= MaxEpoch
        /\ disk'.pending # 0 => reg.epoch <= disk'.pending
    <3>1. CASE Start
      <4>1. /\ disk.pending = 0 => epochs < MaxEpoch
            /\ disk' = [disk EXCEPT !.pending = PendingAfterRead]
            /\ epochs' = IF disk'.pending > epochs THEN disk'.pending ELSE epochs
        BY <3>1, SMT DEF Start, Send, server, peers
      <4>2. disk'.gen = disk.gen /\ disk'.pending = PendingAfterRead
        BY <4>1 DEF RelayInv, Types
      <4> QED
        BY <4>1, <4>2, Numbers, SMT DEF PendingAfterRead, Numbered, RelayInv
    <3>2. CASE StartSaveFails
      <4>1. /\ disk.pending = 0 /\ epochs < MaxEpoch /\ epochs' = epochs + 1
            /\ disk' = disk \/ disk' = [disk EXCEPT !.pending = epochs + 1]
        BY <3>2 DEF StartSaveFails
      <4>2. disk'.gen = disk.gen /\ (disk'.pending = disk.pending \/ disk'.pending = epochs + 1)
        BY <4>1 DEF RelayInv, Types
      <4> QED
        BY <4>1, <4>2, Numbers, SMT DEF RelayInv
    <3> QED
      BY <1>1, <3>1, <3>2
  <2> QED
    BY <2>1, <2>2 DEF Numbered
<1>2. CASE Started \/ StartedSaveFails
  <2>1. /\ proc = "save" /\ proc' \in {"up", "down"} /\ UNCHANGED <<reg, epochs>>
        /\ disk' = disk \/ disk' = [gen |-> lease.gen, pending |-> 0]
    BY <1>2 DEF Started, StartedSaveFails, Gone, server
  <2>2. lease.gen = disk.gen + 1
    BY <2>1 DEF RelayInv, Saving
  <2>3. UNCHANGED disk \/ (disk'.gen = disk.gen + 1 /\ disk'.pending = 0)
    BY <2>1, <2>2, SMT
  <2>4. 1 <= disk'.gen /\ (disk'.pending # 0 => reg.epoch <= disk'.pending)
    BY <2>3, Numbers, SMT DEF Numbered
  <2> QED
    BY <2>1, <2>4 DEF Numbered, Placed
<1>3. CASE ServerAnswers \/ ServerHandlesLate
  <2>1. PICK q : Sound(q) /\ q.kind # "none" /\ Handled(q)
    BY <1>3 DEF ServerAnswers, ServerHandlesLate, RelayInv, Waiting
  <2> QED
    BY <2>1, TakeoverHandled
<1>4. CASE UNCHANGED <<disk, epochs>> /\ reg'.gen = reg.gen /\ reg'.epoch = reg.epoch
           /\ proc' \in {proc, "down", "save"} \cup Placed
  BY <1>4 DEF Numbered
<1>5. CASE OperatorDrain \/ OperatorResume \/ Tick
  <2>1. /\ UNCHANGED <<disk, epochs, proc>>
        /\ \/ \E st : reg' = [reg EXCEPT !.state = st]
           \/ \E left : reg' = [reg EXCEPT !.left = left]
    BY <1>5 DEF OperatorDrain, OperatorResume, Tick, relay
  <2> QED
    BY <1>4, <2>1 DEF RelayInv, Types
<1>6. CASE \/ StartAccepted \/ Listen \/ Observe \/ ObserveAccepted \/ ObserveFails \/ ObserveFenced
           \/ LeaseExpires \/ Drain \/ Stop \/ LastObserve \/ Exit \/ UNCHANGED vars
           \/ Peering
  <2>1. UNCHANGED <<disk, epochs, reg>> /\ proc' \in {proc, "down", "save"} \cup Placed
    BY <1>6, PeeringFrame DEF StartAccepted, Listen, Observe, ObserveAccepted, ObserveFails, ObserveFenced, LeaseExpires,
       Drain, Stop, Leave, LastObserve, Exit, Gone, vars, server, relay, Placed
  <2> QED
    BY <1>4, <2>1
<1> QED
  BY <1>1, <1>2, <1>3, <1>5, <1>6 DEF Next, Relay, Control

\* The first state is numbered.
LEMMA InitNumbered == Init => Numbered
<1> SUFFICES ASSUME Init PROVE Numbered
  OBVIOUS
<1>1. /\ proc = "down" /\ epochs = 0 /\ disk.gen = 1 /\ disk.pending = 0 /\ reg.gen = 1 /\ reg.epoch = 0
      /\ MaxEpoch \in Nat
  BY RelayAssumption DEF Init
<1> QED
  BY <1>1, SMT DEF Numbered

\* The numbering holds throughout.
LEMMA AlwaysNumbered == Spec => []Numbered
  BY InitNumbered, NextNumbered, RelayInvariant, PTL DEF Spec

\* For every lease, deadline and number of restarts, and however late a start arrives,
\* the node goes to a newer epoch only, and from no process past its start (StartRelayNode).
THEOREM TakeoverIsCleanHolds == Spec => TakeoverIsClean
<1>1. RelayInv /\ Numbered /\ [Next]_vars =>
        [reg'.gen # reg.gen => /\ reg'.gen = reg.gen + 1 /\ reg'.epoch > reg.epoch
                               /\ proc \in {"down", "start"}]_vars
  BY NextNumbered
<1> QED
  BY <1>1, RelayInvariant, AlwaysNumbered, PTL DEF Spec, TakeoverIsClean

-----------------------------------------------------------------------------
(* Types.  The numbering bounds every generation and epoch by MaxEpoch, and *)
(* the earlier invariants bound the generations of grants, the clocks and   *)
(* the acknowledged lists; what is left is the shape of what is sent.       *)

StoredList == [gen : 0 .. MaxEpoch + 1, epoch : Epochs, sets : SUBSET SUBSET Endpoints]
Exchange == [req : Request, wait : 0 .. Timeout, answer : Answer]

Shapes ==
    /\ draining \in BOOLEAN /\ drained \in BOOLEAN /\ stored \in StoredList
    /\ lease.gen \in 0 .. MaxEpoch + 1 /\ lease.epoch \in Epochs
    /\ sent \in SUBSET SUBSET Endpoints
    /\ fence \in [Endpoints -> [gen : 0 .. Top, left : 0 .. FenceTTL, signed : BOOLEAN]]
    /\ rpc \in Exchange
    /\ late \subseteq Request /\ IsFiniteSet(late) /\ Cardinality(late) <= MaxLate

\* The constants the types depend on.
LEMMA TypeConstants ==
    /\ MaxEpoch \in Nat /\ MaxLate \in Nat /\ Lease \in Nat /\ Registry \in Nat /\ Timeout \in Nat
    /\ GrantTTL \in Nat /\ FenceTTL \in Nat /\ MaxGen \in Nat
    /\ 0 < MaxGen /\ 0 < MaxEpoch /\ 0 < Timeout /\ Lease <= Registry /\ GrantTTL <= FenceTTL
  BY RelayAssumption, SMT

\* Generations and epochs are within the bound.
LEMMA NumberTypes ==
    ASSUME RelayInv, Numbered
    PROVE  /\ disk \in [gen : Nodes, pending : Epochs] /\ epochs \in Epochs
           /\ reg \in [gen : Nodes, epoch : Epochs, left : 0 .. Registry, state : States]
           /\ proc \in {"down", "start", "save", "up", "serving", "leaving", "last"}
<1>1. /\ disk \in [gen : Nat, pending : Nat] /\ epochs \in Nat
      /\ reg \in [gen : Nat, epoch : Nat, state : States, left : 0 .. Registry]
  BY DEF RelayInv, Types
<1>2. reg.gen = disk.gen \/ reg.gen = disk.gen + 1
  BY DEF RelayInv, StartResumable
<1>3. /\ disk.gen \in Nodes /\ disk.pending \in Epochs /\ reg.gen \in Nodes /\ reg.epoch \in Epochs
      /\ epochs \in Epochs
  BY <1>1, <1>2, TypeConstants, SMT DEF RelayInv, Numbered, Nodes, Epochs
<1> QED
  BY <1>1, <1>3 DEF Numbered, Placed

\* What bounds the process, the numbers, the clocks and the grants.
LEMMA BoundTypes ==
    ASSUME RelayInv, Numbered, FenceInv, ExposeInv
    PROVE  /\ lease \in [gen : Nat, epoch : Nat, left : 0 .. Lease]
           /\ build \in [Endpoints -> [Gens -> 0 .. GrantTTL]]
           /\ grants \in [Endpoints -> [Gens -> 0 .. GrantTTL]]
           /\ rpc.answer.left \in 0 .. Registry
           /\ Cardinality(sent) <= 1
<1>1. lease \in [gen : Nat, epoch : Nat, left : Nat] /\ rpc.answer.left \in Nat
  BY DEF RelayInv, Types
<1>2. lease.left \in 0 .. Lease /\ rpc.answer.left \in 0 .. Registry
  <2>1. lease.left <= Lease /\ rpc.answer.left <= Lease /\ lease.left \in Nat
    BY <1>1 DEF ExposeInv, Listed
  <2> QED
    BY <1>1, <2>1, TypeConstants, SMT
<1>3. FenceTypes
  BY DEF FenceInv
<1>4. ASSUME NEW e \in Endpoints, NEW g \in Gens
      PROVE  build[e][g] \in 0 .. GrantTTL /\ grants[e][g] \in 0 .. GrantTTL
  <2>1. /\ build[e][g] \in Nat /\ build[e][g] <= GrantTTL
        /\ grants[e][g] \in Nat /\ grants[e][g] <= GrantTTL
    BY <1>3 DEF FenceTypes, FenceInv, Within
  <2> QED
    BY <2>1, TypeConstants, SMT
<1>5. build \in [Endpoints -> [Gens -> 0 .. GrantTTL]]
  <2>1. \A e \in Endpoints : build[e] \in [Gens -> 0 .. GrantTTL]
    BY <1>3, <1>4 DEF FenceTypes
  <2> QED
    BY <1>3, <2>1 DEF FenceTypes
<1>6. grants \in [Endpoints -> [Gens -> 0 .. GrantTTL]]
  <2>1. \A e \in Endpoints : grants[e] \in [Gens -> 0 .. GrantTTL]
    BY <1>3, <1>4 DEF FenceTypes
  <2> QED
    BY <1>3, <2>1 DEF FenceTypes
<1>7. Cardinality(sent) <= 1
  <2>1. CASE sent = {}
    BY <2>1, FS_EmptySet, SMT
  <2>2. CASE sent # {}
    <3>1. PICK S \in sent : TRUE
      BY <2>2
    <3>2. sent = {S}
      BY DEF ExposeInv, Listed
    <3> QED
      BY <3>2, FS_Singleton, SMT
  <2> QED
    BY <2>1, <2>2
<1> QED
  BY <1>1, <1>2, <1>5, <1>6, <1>7

\* The answers that carry a lease, and the others, are answers.
LEMMA AnswerTypes ==
    /\ NoMin \in [Endpoints -> 0 .. Top] /\ NoAnswer \in Answer /\ Fenced \in Answer
    /\ \A left \in 0 .. Registry, required \in BOOLEAN, min \in [Endpoints -> 0 .. Top] :
           Granted(left, required, min) \in Answer
<1>1. 0 \in 0 .. Top /\ 0 \in 0 .. Registry
  BY TypeConstants, FenceConstants, SMT
<1>2. NoMin \in [Endpoints -> 0 .. Top]
  BY <1>1 DEF NoMin
<1> QED
  BY <1>1, <1>2 DEF NoAnswer, Fenced, Granted, Answer

\* What the control plane stores and answers.
LEMMA HandleTypes ==
    ASSUME RelayInv, FenceInv, Shapes, NEW q \in Request
    PROVE  Handle(q).stored \in StoredList /\ Handle(q).drained \in BOOLEAN /\ Handle(q).answer \in Answer
<1>1. /\ stored \in StoredList /\ drained \in BOOLEAN /\ FenceTypes
      /\ q.draining \in BOOLEAN /\ q.full \in BOOLEAN /\ q.set \in SUBSET Endpoints
      /\ q.gen \in 0 .. MaxEpoch + 1 /\ q.epoch \in Epochs
  BY DEF Shapes, FenceInv, Request
<1>2. reg.left \in 0 .. Registry /\ Lease \in 0 .. Registry
  BY TypeConstants, SMT DEF RelayInv, Types
<1> DEFINE Typed == \E s \in StoredList, d \in BOOLEAN, a \in Answer : \E r : Handle(q) = Outcome(r, s, d, a)
<1>4. Handle(q) = Refused => Typed
  BY <1>1, AnswerTypes DEF Refused
<1>5. ASSUME q.kind = "start", StartRelayNode(q) # Refused PROVE Typed
  <2> DEFINE left == IF reg.left = 0 THEN Registry ELSE reg.left
  <2>1. \/ StartRelayNode(q) = Outcome([reg EXCEPT !.left = left], stored, drained,
                                       Granted(RetryLease(left), FALSE, NoMin))
        \/ StartRelayNode(q) =
              Outcome([gen |-> q.gen + 1, epoch |-> q.epoch, state |-> "registered", left |-> Registry],
                      stored, FALSE, Granted(Lease, FALSE, NoMin))
    BY <1>5 DEF StartRelayNode
  <2>2. RetryLease(left) \in 0 .. Registry
    BY <1>2, TypeConstants, SMT DEF RetryLease, Smaller
  <2>3. Granted(RetryLease(left), FALSE, NoMin) \in Answer /\ Granted(Lease, FALSE, NoMin) \in Answer
    BY <1>2, <2>2, AnswerTypes
  <2> HIDE DEF left
  <2> QED
    BY <1>1, <1>5, <2>1, <2>3 DEF Handle
<1>6. ASSUME q.kind # "start", ObserveRelayNode(q) # Refused PROVE Typed
  <2> DEFINE required == ~q.full /\ ~Matches(q)
             list == IF q.full THEN [gen |-> q.gen, epoch |-> q.epoch, sets |-> {q.set}] ELSE stored
             min  == IF required THEN NoMin ELSE relayMinGenerations(q.set)
  <2>1. Handle(q) = Outcome([reg EXCEPT !.state = StateAfter(q), !.left = Registry], list,
                            drained \/ q.draining, Granted(Lease, required, min))
    BY <1>6 DEF Handle, ObserveRelayNode
  <2>2. list \in StoredList
    BY <1>1 DEF StoredList
  <2>3. min \in [Endpoints -> 0 .. Top]
    <3>1. relayMinGenerations(q.set) \in [Endpoints -> 0 .. Top]
      BY <1>1, MinTypes, FenceConstants DEF relayMinGenerations
    <3> QED
      BY <3>1, AnswerTypes
  <2>4. required \in BOOLEAN /\ (drained \/ q.draining) \in BOOLEAN
    OBVIOUS
  <2>5. Granted(Lease, required, min) \in Answer
    BY <1>2, <2>3, <2>4, AnswerTypes
  <2> HIDE DEF required, list, min
  <2> QED
    BY <2>1, <2>2, <2>4, <2>5
<1>7. PICK s \in StoredList, d \in BOOLEAN, a \in Answer : \E r : Handle(q) = Outcome(r, s, d, a)
  BY <1>4, <1>5, <1>6 DEF Handle
<1>8. Handle(q).stored = s /\ Handle(q).drained = d /\ Handle(q).answer = a
  BY <1>7, SMT DEF Outcome
<1> QED
  BY <1>8

\* Requests are well formed when they are sent.
LEMMA SentTypes ==
    ASSUME Shapes
    PROVE  /\ Idle \in Exchange /\ 0 \in 0 .. Timeout /\ Timeout \in 0 .. Timeout
           /\ \A drain \in BOOLEAN : Observation(drain) \in Request
           /\ \A d \in [gen : Nodes, pending : Epochs] : StartRequest(d) \in Request
<1>1. /\ 0 \in 0 .. Timeout /\ Timeout \in 0 .. Timeout /\ 0 \in Epochs /\ 0 \in 0 .. MaxEpoch + 1
      /\ Nodes \subseteq 0 .. MaxEpoch + 1
  BY TypeConstants, SMT DEF Epochs, Nodes
<1>2. NoRequest \in Request
  BY <1>1 DEF NoRequest, Request
<1>3. Idle \in Exchange
  BY <1>1, <1>2, AnswerTypes DEF Idle, Exchange
<1>4. ASSUME NEW drain \in BOOLEAN PROVE Observation(drain) \in Request
  <2>1. lease.gen \in 0 .. MaxEpoch + 1 /\ lease.epoch \in Epochs
    BY DEF Shapes
  <2>2. AuthoritySubjects \in SUBSET Endpoints
    BY DEF AuthoritySubjects
  <2>3. (proc = "serving" /\ ~drain) \in BOOLEAN /\ (AuthoritySubjects \notin sent) \in BOOLEAN
    OBVIOUS
  <2> QED
    BY <2>1, <2>2, <2>3 DEF Observation, Request
<1>5. ASSUME NEW d \in [gen : Nodes, pending : Epochs] PROVE StartRequest(d) \in Request
  <2>1. d.gen \in 0 .. MaxEpoch + 1 /\ d.pending \in Epochs
    BY <1>1
  <2>2. [NoRequest EXCEPT !.kind = "start"] \in Request
    BY <1>2 DEF Request
  <2>3. [[NoRequest EXCEPT !.kind = "start"] EXCEPT !.gen = d.gen] \in Request
    BY <2>1, <2>2 DEF Request
  <2>4. [[[NoRequest EXCEPT !.kind = "start"] EXCEPT !.gen = d.gen] EXCEPT !.epoch = d.pending] \in Request
    BY <2>1, <2>3 DEF Request
  <2> QED
    BY <2>4 DEF StartRequest
<1> QED
  BY <1>1, <1>3, <1>4, <1>5

\* The requests that can be handled are well formed.
LEMMA HandledTypes ==
    ASSUME Shapes, ServerAnswers \/ ServerHandlesLate
    PROVE  \E q \in Request : Handled(q)
  BY DEF ServerAnswers, ServerHandlesLate, Shapes, Exchange

\* The stored list, and the histories of drains.
LEMMA StoredTypes ==
    ASSUME RelayInv, FenceInv, Shapes, [Next]_vars
    PROVE  stored' \in StoredList /\ drained' \in BOOLEAN /\ draining' \in BOOLEAN
<1>1. stored \in StoredList /\ drained \in BOOLEAN /\ draining \in BOOLEAN
  BY DEF Shapes
<1>2. CASE ServerAnswers \/ ServerHandlesLate
  <2>1. PICK q \in Request : Handled(q)
    BY <1>2, HandledTypes
  <2>2. stored' = Handle(q).stored /\ drained' = Handle(q).drained /\ draining' = draining
    BY <2>1 DEF Handled, relay
  <2> QED
    BY <1>1, <2>2, HandleTypes
<1>3. CASE ~(ServerAnswers \/ ServerHandlesLate)
  <2>1. stored' = stored /\ drained' \in {drained, FALSE} /\ draining' \in {draining, TRUE, FALSE}
    BY <1>3, PeeringFrame DEF Next, Relay, Control, Start, StartSaveFails, StartAccepted, Started,
       StartedSaveFails, Listen, Observe, ObserveAccepted, ObserveFails, ObserveFenced, LeaseExpires, Drain, Stop,
       Leave, LastObserve, Exit, Gone, OperatorDrain, OperatorResume, Tick, vars, server, relay
  <2> QED
    BY <1>1, <2>1
<1> QED
  BY <1>2, <1>3

\* The lease names the row it was granted for, or nothing.
LEMMA LeaseTypes ==
    ASSUME RelayInv, Numbered, Shapes, [Next]_vars
    PROVE  lease'.gen \in 0 .. MaxEpoch + 1 /\ lease'.epoch \in Epochs
<1>1. /\ lease \in [gen : Nat, epoch : Nat, left : Nat]
      /\ lease.gen \in 0 .. MaxEpoch + 1 /\ lease.epoch \in Epochs
  BY DEF RelayInv, Types, Shapes
<1>2. CASE StartAccepted
  <2>1. /\ proc = "start" /\ rpc.answer.kind = "ok"
        /\ lease' = [gen |-> rpc.req.gen + 1, epoch |-> rpc.req.epoch, left |-> rpc.answer.left]
    BY <1>2 DEF StartAccepted
  <2>2. lease'.gen = reg.gen /\ lease'.epoch = reg.epoch
    BY <2>1 DEF RelayInv, Starting, Registered
  <2>3. reg.gen \in Nodes /\ reg.epoch \in Epochs
    BY NumberTypes
  <2> QED
    BY <2>2, <2>3, TypeConstants, SMT DEF Nodes
<1>3. CASE ~StartAccepted
  <2>1. \/ lease' = lease \/ lease' = [gen |-> 0, epoch |-> 0, left |-> 0]
        \/ \E left : lease' = [lease EXCEPT !.left = left]
    BY <1>3, PeeringFrame DEF Next, Relay, Control, Start, StartSaveFails, Started, StartedSaveFails, Listen,
       Observe, ObserveAccepted, ObserveFails, ObserveFenced, LeaseExpires, Drain, Stop, Leave, LastObserve, Exit,
       Gone, OperatorDrain, OperatorResume, Tick, vars, relay, Handled, ServerAnswers, ServerHandlesLate
  <2>2. \/ lease'.gen = lease.gen /\ lease'.epoch = lease.epoch
        \/ lease'.gen = 0 /\ lease'.epoch = 0
    BY <1>1, <2>1, SMT
  <2>3. 0 \in 0 .. MaxEpoch + 1 /\ 0 \in Epochs
    BY TypeConstants, SMT DEF Epochs
  <2> QED
    BY <1>1, <2>2, <2>3
<1> QED
  BY <1>2, <1>3

\* An acknowledged list is a set of endpoints.
LEMMA AcknowledgedTypes == ASSUME Shapes, [Next]_vars PROVE sent' \in SUBSET SUBSET Endpoints
<1>1. sent \in SUBSET SUBSET Endpoints /\ rpc.req.set \in SUBSET Endpoints
  BY DEF Shapes, Exchange, Request
<1>2. sent' = sent \/ sent' = {} \/ sent' = SentAfter(rpc.answer.required)
  BY PeeringFrame DEF Next, Relay, Control, Start, StartSaveFails, StartAccepted, Started, StartedSaveFails,
     Listen, Observe, ObserveAccepted, ObserveFails, ObserveFenced, LeaseExpires, Drain, Stop, Leave, LastObserve,
     Exit, Gone, OperatorDrain, OperatorResume, Tick, vars, relay, Handled, ServerAnswers, ServerHandlesLate
<1> QED
  BY <1>1, <1>2 DEF SentAfter

\* A fence is made by a revocation the relay was told of, or by a grant.
LEMMA FenceStepTypes ==
    ASSUME RelayInv, Numbered, FenceInv, ExposeInv, Shapes, [Next]_vars
    PROVE  fence' \in [Endpoints -> [gen : 0 .. Top, left : 0 .. FenceTTL, signed : BOOLEAN]]
<1> DEFINE F == [gen : 0 .. Top, left : 0 .. FenceTTL, signed : BOOLEAN]
<1>1. fence \in [Endpoints -> F]
  BY DEF Shapes
<1>2. NoFence \in F
  BY TypeConstants, FenceConstants, SMT DEF NoFence
<1>3. CASE ObserveAccepted
  <2>1. FenceTTL \in 0 .. FenceTTL
    BY TypeConstants, SMT
  <2>2. \A e \in Endpoints : rpc.answer.min[e] \in 0 .. Top
    BY DEF FenceInv, FenceTypes
  <2>3. \A e \in Endpoints : RevocationFence(e, rpc.answer.min[e]) \in F
    BY <2>1, <2>2 DEF RevocationFence
  <2> HIDE DEF F
  <2>4. fence' = [e \in Endpoints |->
                    IF Revokes(e) THEN RevocationFence(e, rpc.answer.min[e]) ELSE fence[e]]
    BY <1>3 DEF ObserveAccepted
  <2> QED
    BY <1>1, <2>3, <2>4 DEF F
<1>4. CASE \E e \in Endpoints, n \in Namespaces, g \in Gens : Admit(e, n, g)
  <2>1. PICK e \in Endpoints, n \in Namespaces, g \in Gens : Admit(e, n, g)
    BY <1>4
  <2>2. grants[e][g] \in 0 .. GrantTTL
    BY BoundTypes
  <2>3. grants[e][g] \in 0 .. FenceTTL /\ g \in 0 .. Top
    BY <2>2, TypeConstants, FenceConstants, SMT DEF Gens
  <2>4. [gen |-> g, left |-> grants[e][g], signed |-> TRUE] \in F
    BY <2>3
  <2> HIDE DEF F
  <2>5. Pruned \in [Endpoints -> F]
    BY <1>1, <1>2 DEF Pruned
  <2>6. fence' = [Pruned EXCEPT ![e] = [gen |-> g, left |-> grants[e][g], signed |-> TRUE]]
    BY <2>1 DEF Admit
  <2> QED
    BY <2>4, <2>5, <2>6 DEF F
<1>5. CASE Tick
  <2>1. ASSUME NEW e \in Endpoints PROVE [fence[e] EXCEPT !.left = Less(@)] \in F
    <3>1. fence[e] \in F /\ fence[e].left \in 0 .. FenceTTL
      BY <1>1
    <3>2. Less(fence[e].left) \in 0 .. FenceTTL
      BY <3>1, TypeConstants, SMT DEF Less
    <3> QED
      BY <3>1, <3>2
  <2> HIDE DEF F
  <2>2. fence' = [e \in Endpoints |-> [fence[e] EXCEPT !.left = Less(@)]]
    BY <1>5 DEF Tick
  <2> QED
    BY <2>1, <2>2 DEF F
<1>6. CASE ~(ObserveAccepted \/ Tick \/ \E e \in Endpoints, n \in Namespaces, g \in Gens : Admit(e, n, g))
  <2>0. Peering => fence' = fence
    BY <1>6 DEF Peering, Authority, Configure, Withdraw, SetPool, ChangeMember, Erase, Mint, Disconnect, relay
  <2>1. fence' = fence \/ fence' = [e \in Endpoints |-> NoFence]
    BY <1>6, <2>0 DEF Next, Relay, Control, Start, StartSaveFails, StartAccepted, Started, StartedSaveFails, Listen,
       Observe, ObserveFails, ObserveFenced, LeaseExpires, Drain, Stop, Leave, LastObserve, Exit,
       Gone, OperatorDrain, OperatorResume, vars, relay, Handled, ServerAnswers, ServerHandlesLate
  <2> HIDE DEF F
  <2> QED
    BY <1>1, <1>2, <2>1 DEF F
<1> QED
  BY <1>3, <1>4, <1>5, <1>6

\* The exchange under way.
LEMMA ExchangeTypes ==
    ASSUME RelayInv, Numbered, FenceInv, Shapes, [Next]_vars
    PROVE  rpc' \in Exchange
<1>1. /\ rpc \in Exchange /\ rpc.req \in Request /\ rpc.wait \in 0 .. Timeout /\ rpc.answer \in Answer
      /\ draining \in BOOLEAN
  BY DEF Shapes, Exchange
<1>2. Idle \in Exchange /\ Timeout \in 0 .. Timeout /\ NoAnswer \in Answer
  BY SentTypes, AnswerTypes
<1>3. ASSUME NEW q \in Request, Send(q) PROVE rpc' \in Exchange
  BY <1>2, <1>3 DEF Send, Exchange
<1>4. CASE Start
  <2> DEFINE d == [disk EXCEPT !.pending = PendingAfterRead]
  <2>1. Send(StartRequest(d)) /\ (disk.pending = 0 => epochs < MaxEpoch)
    BY <1>4 DEF Start
  <2>2. disk \in [gen : Nodes, pending : Epochs] /\ epochs \in Epochs
    BY NumberTypes
  <2>3. PendingAfterRead \in Epochs
    <3>1. disk.pending \in Epochs
      BY <2>2
    <3> QED
      BY <2>1, <2>2, <3>1, TypeConstants, SMT DEF PendingAfterRead, Epochs
  <2>4. d \in [gen : Nodes, pending : Epochs]
    BY <2>2, <2>3
  <2> HIDE DEF d
  <2> QED
    BY <1>3, <2>1, <2>4, SentTypes
<1>5. CASE Observe \/ LastObserve
  BY <1>1, <1>3, <1>5, SentTypes DEF Observe, LastObserve
<1>6. CASE ServerAnswers
  <2>1. rpc' = [req |-> rpc.req, wait |-> rpc.wait, answer |-> Handle(rpc.req).answer]
    BY <1>6 DEF ServerAnswers
  <2>2. Handle(rpc.req).answer \in Answer
    BY <1>1, HandleTypes
  <2> QED
    BY <1>1, <2>1, <2>2 DEF Exchange
<1>7. CASE Tick
  <2>1. rpc' = [req |-> rpc.req, wait |-> Less(rpc.wait), answer |-> Later(rpc.answer)]
    BY <1>7 DEF Tick
  <2>2. Less(rpc.wait) \in 0 .. Timeout
    BY <1>1, TypeConstants, SMT DEF Less
  <2>3. rpc.answer.left \in 0 .. Registry
    BY <1>1 DEF Answer
  <2>4. Less(rpc.answer.left) \in 0 .. Registry
    BY <2>3, TypeConstants, SMT DEF Less
  <2>5. Later(rpc.answer) \in Answer
    BY <1>1, <2>4 DEF Later, Answer
  <2> QED
    BY <1>1, <2>1, <2>2, <2>5 DEF Exchange
<1>8. CASE ~(Start \/ Observe \/ LastObserve \/ ServerAnswers \/ Tick)
  <2>1. rpc' = rpc \/ rpc' = Idle
    BY <1>8, PeeringFrame DEF Next, Relay, Control, StartSaveFails, StartAccepted, Started, StartedSaveFails, Listen,
       ObserveAccepted, ObserveFails, ObserveFenced, LeaseExpires, Drain, Stop, Exit, Abandon,
       OperatorDrain, OperatorResume, vars, network, ServerHandlesLate
  <2> QED
    BY <1>1, <1>2, <2>1
<1> QED
  BY <1>4, <1>5, <1>6, <1>7, <1>8

\* The requests given up are requests, and as many as may be under way at most.
LEMMA LateTypes ==
    ASSUME Shapes, [Next]_vars
    PROVE  late' \subseteq Request /\ IsFiniteSet(late') /\ Cardinality(late') <= MaxLate
<1>1. /\ late \subseteq Request /\ IsFiniteSet(late) /\ Cardinality(late) <= MaxLate /\ rpc.req \in Request
      /\ Cardinality(late) \in Nat
  BY FS_CardinalityType DEF Shapes, Exchange
<1>2. \/ late' = late
      \/ Cardinality(late) < MaxLate /\ late' = late \cup {rpc.req}
      \/ \E q \in late : late' = late \ {q}
  BY PeeringFrame DEF Next, Relay, Control, Start, StartSaveFails, StartAccepted, Started, StartedSaveFails,
     Listen, Observe, ObserveAccepted, ObserveFails, ObserveFenced, LeaseExpires, Drain, Stop, LastObserve, Exit,
     Abandon, OperatorDrain, OperatorResume, Tick, vars, network, ServerAnswers, ServerHandlesLate
<1>3. CASE late' = late
  BY <1>1, <1>3
<1>4. CASE Cardinality(late) < MaxLate /\ late' = late \cup {rpc.req}
  <2>1. IsFiniteSet(late') /\ (Cardinality(late') = Cardinality(late) \/ Cardinality(late') = Cardinality(late) + 1)
    BY <1>1, <1>4, FS_AddElement
  <2> QED
    BY <1>1, <1>4, <2>1, TypeConstants, SMT
<1>5. ASSUME NEW q \in late, late' = late \ {q}
      PROVE  late' \subseteq Request /\ IsFiniteSet(late') /\ Cardinality(late') <= MaxLate
  <2>1. IsFiniteSet(late') /\ Cardinality(late') = Cardinality(late) - 1
    BY <1>1, <1>5, FS_RemoveElement
  <2> QED
    BY <1>1, <1>5, <2>1, TypeConstants, SMT
<1> QED
  BY <1>2, <1>3, <1>4, <1>5

\* The first state has its shape.
LEMMA InitShapes == Init => Shapes
<1> SUFFICES ASSUME Init PROVE Shapes
  OBVIOUS
<1>1. 0 \in 0 .. MaxEpoch + 1 /\ 0 \in Epochs /\ 0 \in 0 .. Top /\ 0 \in 0 .. FenceTTL /\ 0 \in 0 .. Timeout
  BY TypeConstants, FenceConstants, SMT DEF Epochs
<1>2. /\ lease.gen \in 0 .. MaxEpoch + 1 /\ lease.epoch \in Epochs
      /\ stored \in StoredList /\ sent \in SUBSET SUBSET Endpoints
      /\ draining \in BOOLEAN /\ drained \in BOOLEAN
  BY <1>1 DEF Init, StoredList
<1>3. fence \in [Endpoints -> [gen : 0 .. Top, left : 0 .. FenceTTL, signed : BOOLEAN]]
  BY <1>1 DEF Init, NoFence
<1>4. NoRequest \in Request
  BY <1>1 DEF NoRequest, Request
<1>5. rpc \in Exchange
  BY <1>1, <1>4, AnswerTypes DEF Init, Idle, Exchange
<1>6. late = {} /\ IsFiniteSet(late) /\ Cardinality(late) <= MaxLate
  BY TypeConstants, FS_EmptySet, SMT DEF Init
<1> QED
  BY <1>2, <1>3, <1>5, <1>6 DEF Shapes

\* Every step keeps it.
LEMMA NextShapes == RelayInv /\ Numbered /\ FenceInv /\ ExposeInv /\ Shapes /\ [Next]_vars => Shapes'
  BY StoredTypes, LeaseTypes, AcknowledgedTypes, FenceStepTypes, ExchangeTypes, LateTypes DEF Shapes

\* The shapes and the bounds together are the type invariant.
LEMMA TypesFollow == RelayInv /\ Numbered /\ FenceInv /\ ExposeInv /\ Shapes => TypeOK
<1> SUFFICES ASSUME RelayInv, Numbered, FenceInv, ExposeInv, Shapes PROVE TypeOK
  OBVIOUS
<1>1. lease \in [gen : 0 .. MaxEpoch + 1, epoch : Epochs, left : 0 .. Lease]
  BY BoundTypes DEF Shapes
<1>2. FenceTypes
  BY DEF FenceInv
<1> QED
  BY <1>1, <1>2, BoundTypes, NumberTypes DEF Shapes, TypeOK, StoredList, Exchange, States, FenceTypes, Pools

\* For every value of the constants the relay's state has its types: generations and
\* epochs stay within the epochs generated, at most one acknowledged list is
\* remembered, and no more requests than MaxLate are left under way.
THEOREM RelayTypeCorrect == Spec => []TypeOK
<1>1. Spec => []Shapes
  BY InitShapes, NextShapes, AlwaysFenced, InitExpose, NextExpose, RelayInvariant, AlwaysNumbered,
     PTL DEF Spec
<1> QED
  BY <1>1, TypesFollow, AlwaysFenced, InitExpose, NextExpose, RelayInvariant, AlwaysNumbered,
     PTL DEF Spec
=============================================================================
