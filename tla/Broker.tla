------------------------------- MODULE Broker -------------------------------
(***************************************************************************)
(* The broker's reservation engine and the advertisement flow that shares  *)
(* its records.                                                            *)
(*                                                                         *)
(*  - PostReservation (handlers/reservation.go): decide, create the        *)
(*    Reservation, add the finalizer, lock the target's Reserved with      *)
(*    RetryOnConflict, and mark the Reservation Reserved or Failed.        *)
(*  - PostAdvertisement (handlers/advertisement.go) driven by the agent's  *)
(*    PublishAdvertisement client (GET, then POST retried on 5xx): it      *)
(*    overlays the agent's fields and keeps the stored Reserved.           *)
(*  - Provider-instruction fanout: piggybacked on the advertisement        *)
(*    response and pulled by the agent's InstructionPoller.                *)
(*                                                                         *)
(* Every call to the state store is a step of its own, so handlers of      *)
(* different requests and clusters interleave at the store, as goroutines  *)
(* of net/http do.  Resource versions are modelled as counters: an Update  *)
(* carrying a stale version fails with a conflict.                         *)
(***************************************************************************)
EXTENDS Integers, FiniteSets, Resources

CONSTANTS
    Clusters,        \* cluster ids (naturals: the tie-break orders them)
    Requests,        \* one id per POST /api/v1/reservations call
    Allocatable,     \* [Clusters -> Quantity], reported by each agent
    Allocated,       \* [Clusters -> Quantity], reported by each agent
    Active,          \* clusters whose advertisement Status.Active is set
    ReqChoices,      \* the requested quantities a call may carry
    LockSteps,       \* retry.DefaultRetry.Steps: attempts of the lock loop
    MaxPostRetries,  \* HTTPCommunicator.maxRetries of doWithRetry
    MaxPublish,      \* bound on advertisement cycles per cluster
    NoAdv,           \* no ClusterAdvertisement stored (NotFound)
    NoRsv            \* no Reservation stored

ASSUME ClustersAssumption == Clusters \subseteq Nat \ {0} /\ Clusters # {}
ASSUME MetricsAssumption ==
    /\ Allocatable \in [Clusters -> Quantity]
    /\ Allocated \in [Clusters -> Quantity]
ASSUME ActiveAssumption == Active \subseteq Clusters
\* Lines 63-66 reject a request unless CPU and memory are strictly positive.
ASSUME ReqChoicesAssumption ==
    ReqChoices \subseteq {q \in Quantity : \A x \in Res : q[x] > 0}
ASSUME BoundsAssumption ==
    /\ LockSteps \in Nat \ {0}
    /\ MaxPostRetries \in Nat
    /\ MaxPublish \in Nat

AdvRec == [available : Quantity, reserved : Quantity \cup {Nil}, rv : Nat]
\* brokerv1alpha1.ReservationFinalizer, the one finalizer the broker sets.
ReservationFinalizer == "reservation-finalizer"
RsvRec == [requester : Clusters, target : Clusters, req : Quantity,
           phase : {"Unset", "Reserved", "Failed"},
           finalizers : SUBSET {ReservationFinalizer}]

ASSUME SentinelAssumption == NoAdv \notin AdvRec /\ NoRsv \notin RsvRec

VARIABLES
    adv,        \* [Clusters -> AdvRec \cup {NoAdv}]: the ClusterAdvertisements
    rsv,        \* [Requests -> RsvRec \cup {NoRsv}]: the Reservations
    hs,         \* [Requests -> ...]: locals of each PostReservation goroutine
    pub,        \* [Clusters -> ...]: the agent's publish call and its intake
    provInstr,  \* [Clusters -> SUBSET Requests]: ProviderInstructions on each agent
    enforced,   \* [Clusters -> SUBSET Requests]: those the agent counts as enforced
    enforcedQ,  \* [Clusters -> Quantity]: the total they hold
    locked,     \* history: requests whose lock Update was applied
    lockTotal   \* history: [Clusters -> Quantity], sum of the applied locks

vars == <<adv, rsv, hs, pub, provInstr, enforced, enforcedQ, locked, lockTotal>>

NoCluster == 0

HandlerPC == {"idle", "decide", "create", "finalizer", "lockGet",
              "lockUpdate", "markFailed", "markReserved", "done"}
Responses == {"none", "201", "400", "409", "500"}
HandlerRec == [pc : HandlerPC, requester : Clusters \cup {NoCluster},
               req : Quantity, target : Clusters \cup {NoCluster},
               got : AdvRec \cup {NoAdv}, attempt : 0..LockSteps,
               resp : Responses]
PubRec == [pc : {"idle", "post", "write"}, avail : Quantity,
           res : Quantity \cup {Nil}, existing : AdvRec \cup {NoAdv},
           tries : 0..MaxPostRetries, count : 0..MaxPublish]

TypeOK ==
    /\ adv \in [Clusters -> AdvRec \cup {NoAdv}]
    /\ rsv \in [Requests -> RsvRec \cup {NoRsv}]
    /\ hs \in [Requests -> HandlerRec]
    /\ pub \in [Clusters -> PubRec]
    /\ provInstr \in [Clusters -> SUBSET Requests]
    /\ enforced \in [Clusters -> SUBSET Requests]
    /\ enforcedQ \in [Clusters -> Quantity]
    /\ locked \in SUBSET Requests
    /\ lockTotal \in [Clusters -> Quantity]

-----------------------------------------------------------------------------
(* Decision engine (internal/broker/decision.go, modelled from spec 4.3). *)

\* Filter: not the requester, active, non-zero allocatable, fits Available.
Candidates(requester, q) ==
    {c \in Clusters :
        /\ adv[c] # NoAdv
        /\ c # requester
        /\ c \in Active
        /\ \A x \in Res : Allocatable[c][x] > 0
        /\ CanReserve(adv[c].available, q)}

\* score = (1 - 0.5*u_cpu) + (1 - 0.5*u_mem), u = 1 - (avail - req)/alloc,
\* so the order of scores is that of (avail-req)/alloc summed over Res; the
\* fractions are compared by cross-multiplication.
ScoreNum(c, q) ==
    (adv[c].available["cpu"] - q["cpu"]) * Allocatable[c]["mem"]
  + (adv[c].available["mem"] - q["mem"]) * Allocatable[c]["cpu"]
ScoreDen(c) == Allocatable[c]["cpu"] * Allocatable[c]["mem"]

\* Higher score first; equal scores go to the smaller cluster id.
Better(c, d, q) ==
    \/ ScoreNum(c, q) * ScoreDen(d) > ScoreNum(d, q) * ScoreDen(c)
    \/ /\ ScoreNum(c, q) * ScoreDen(d) = ScoreNum(d, q) * ScoreDen(c)
       /\ c < d

\* c is the cluster SelectBestCluster returns: it beats every other candidate.
IsBestCluster(c, requester, q) ==
    /\ c \in Candidates(requester, q)
    /\ \A d \in Candidates(requester, q) \ {c} : Better(c, d, q)

-----------------------------------------------------------------------------
(* Instruction fanout: Reserved-phase Reservations whose target is c.      *)

PiggybackInstructions(c) ==
    {r \in Requests : rsv[r] # NoRsv /\ rsv[r].phase = "Reserved" /\ rsv[r].target = c}

\* Mutant: the poll endpoint filtering on the requester instead of the target.
PolledInstructionsByRequester(c) ==
    {r \in Requests : rsv[r] # NoRsv /\ rsv[r].phase = "Reserved" /\ rsv[r].requester = c}

\* Mutant: the poll endpoint without the target filter.
PolledInstructionsAnyTarget(c) ==
    {r \in Requests : rsv[r] # NoRsv /\ rsv[r].phase = "Reserved"}

PolledInstructions(c) ==
    {r \in Requests : rsv[r] # NoRsv /\ rsv[r].phase = "Reserved" /\ rsv[r].target = c}

-----------------------------------------------------------------------------
Init ==
    /\ adv = [c \in Clusters |-> NoAdv]
    /\ rsv = [r \in Requests |-> NoRsv]
    /\ hs = [r \in Requests |->
               [pc |-> "idle", requester |-> NoCluster, req |-> Zero,
                target |-> NoCluster, got |-> NoAdv, attempt |-> 0,
                resp |-> "none"]]
    /\ pub = [c \in Clusters |->
               [pc |-> "idle", avail |-> Zero, res |-> Nil,
                existing |-> NoAdv, tries |-> 0, count |-> 0]]
    /\ provInstr = [c \in Clusters |-> {}]
    /\ enforced = [c \in Clusters |-> {}]
    /\ enforcedQ = [c \in Clusters |-> Zero]
    /\ locked = {}
    /\ lockTotal = [c \in Clusters |-> Zero]

-----------------------------------------------------------------------------
(* PostReservation.  The request has been decoded and validated: the      *)
(* requester comes from the client certificate, the quantities are         *)
(* positive (malformed bodies end in 400 before any store call).           *)

Receive(r, c, q) ==
    /\ hs[r].pc = "idle"
    /\ hs' = [hs EXCEPT ![r] = [@ EXCEPT !.pc = "decide", !.requester = c, !.req = q]]
    /\ UNCHANGED <<adv, rsv, pub, provInstr, enforced, enforcedQ, locked, lockTotal>>

\* SelectBestCluster over the listed advertisements: no candidate is a 409
\* with no Reservation written; an unparsable duration, checked only after
\* the decision, is a 400.
Decide(r) ==
    LET h == hs[r]
    IN  /\ h.pc = "decide"
        /\ \/ /\ Candidates(h.requester, h.req) = {}
              /\ hs' = [hs EXCEPT ![r] = [@ EXCEPT !.pc = "done", !.resp = "409"]]
           \/ /\ Candidates(h.requester, h.req) # {}
              /\ \E t \in Candidates(h.requester, h.req) :
                    /\ IsBestCluster(t, h.requester, h.req)
                    /\ hs' = [hs EXCEPT ![r] = [@ EXCEPT !.pc = "create", !.target = t]]
           \/ /\ Candidates(h.requester, h.req) # {}
              /\ hs' = [hs EXCEPT ![r] = [@ EXCEPT !.pc = "done", !.resp = "400"]]
        /\ UNCHANGED <<adv, rsv, pub, provInstr, enforced, enforcedQ, locked, lockTotal>>

\* k8sClient.Create of the Reservation (Status.Phase left empty, written
\* "Unset" here); it fails on a name collision (rsv-<requester>-<ms>) or a
\* store error: 500.
Create(r) ==
    LET h == hs[r]
    IN  /\ h.pc = "create"
        /\ \/ /\ rsv' = [rsv EXCEPT ![r] = [requester |-> h.requester,
                                             target |-> h.target, req |-> h.req,
                                             phase |-> "Unset", finalizers |-> {}]]
              /\ hs' = [hs EXCEPT ![r].pc = "finalizer"]
           \/ /\ hs' = [hs EXCEPT ![r] = [@ EXCEPT !.pc = "done", !.resp = "500"]]
              /\ UNCHANGED rsv
        /\ UNCHANGED <<adv, pub, provInstr, enforced, enforcedQ, locked, lockTotal>>

\* AddFinalizer + Update; a failed Update is only logged.
AddFinalizer(r) ==
    /\ hs[r].pc = "finalizer"
    /\ \/ rsv' = [rsv EXCEPT ![r].finalizers = @ \cup {ReservationFinalizer}]
       \/ UNCHANGED rsv
    /\ hs' = [hs EXCEPT ![r].pc = "lockGet"]
    /\ UNCHANGED <<adv, pub, provInstr, enforced, enforcedQ, locked, lockTotal>>

\* One attempt of the RetryOnConflict closure, first half: Get the target's
\* advertisement, check the fit on its Available, apply AddReservation to
\* the local copy.  A failed fit is not a conflict: the loop ends.  (The
\* NotFound branch is unreachable: advertisements are never deleted.)
LockGet(r) ==
    LET h == hs[r]
        a == adv[h.target]
    IN  /\ h.pc = "lockGet"
        /\ \/ /\ CanReserve(a.available, h.req)
              /\ hs' = [hs EXCEPT ![r] = [@ EXCEPT !.pc = "lockUpdate",
                            !.got = AddReservation(a, Allocatable[h.target],
                                                   Allocated[h.target], h.req)]]
           \/ /\ ~CanReserve(a.available, h.req)
              /\ hs' = [hs EXCEPT ![r].pc = "markFailed"]
        /\ UNCHANGED <<adv, rsv, pub, provInstr, enforced, enforcedQ, locked, lockTotal>>

\* The outcome of a lock attempt that hit a conflict: retry while steps remain.
AfterConflict(h) ==
    IF h.attempt + 1 < LockSteps
    THEN [h EXCEPT !.pc = "lockGet", !.attempt = @ + 1]
    ELSE [h EXCEPT !.pc = "markFailed", !.attempt = @ + 1]

\* Mutant: the Update written without the resource version it was read at.
LockUpdateNoCAS(r) ==
    LET h == hs[r]
        t == h.target
    IN  /\ h.pc = "lockUpdate"
        /\ adv' = [adv EXCEPT ![t] = [h.got EXCEPT !.rv = adv[t].rv + 1]]
        /\ locked' = locked \cup {r}
        /\ lockTotal' = [lockTotal EXCEPT ![t] = AddQ(@, h.req)]
        /\ hs' = [hs EXCEPT ![r].pc = "markReserved"]
        /\ UNCHANGED <<rsv, pub, provInstr, enforced, enforcedQ>>

\* Mutant: the attempt budget checked after the Update, counting the
\* attempt that succeeded, so the last allowed attempt ends in Failed.
LockUpdateBudgetOnSuccess(r) ==
    LET h == hs[r]
        t == h.target
    IN  /\ h.pc = "lockUpdate"
        /\ \/ /\ adv[t].rv = h.got.rv
              /\ adv' = [adv EXCEPT ![t] = [h.got EXCEPT !.rv = @ + 1]]
              /\ locked' = locked \cup {r}
              /\ lockTotal' = [lockTotal EXCEPT ![t] = AddQ(@, h.req)]
              /\ hs' = [hs EXCEPT ![r].pc = IF h.attempt + 1 < LockSteps
                                             THEN "markReserved" ELSE "markFailed"]
           \/ /\ adv[t].rv # h.got.rv
              /\ hs' = [hs EXCEPT ![r] = AfterConflict(hs[r])]
              /\ UNCHANGED <<adv, locked, lockTotal>>
        /\ UNCHANGED <<rsv, pub, provInstr, enforced, enforcedQ>>

\* Second half: Update with the resource version of the Get (compare-and-swap).
LockUpdate(r) ==
    LET h == hs[r]
        t == h.target
    IN  /\ h.pc = "lockUpdate"
        /\ \/ /\ adv[t].rv = h.got.rv
              /\ adv' = [adv EXCEPT ![t] = [h.got EXCEPT !.rv = @ + 1]]
              /\ locked' = locked \cup {r}
              /\ lockTotal' = [lockTotal EXCEPT ![t] = AddQ(@, h.req)]
              /\ hs' = [hs EXCEPT ![r].pc = "markReserved"]
           \/ /\ adv[t].rv # h.got.rv
              /\ hs' = [hs EXCEPT ![r] = AfterConflict(hs[r])]
              /\ UNCHANGED <<adv, locked, lockTotal>>
        /\ UNCHANGED <<rsv, pub, provInstr, enforced, enforcedQ>>

\* lockErr != nil: Status().Update to Failed, its error discarded; 409.
MarkFailed(r) ==
    /\ hs[r].pc = "markFailed"
    /\ \/ rsv' = [rsv EXCEPT ![r].phase = "Failed"]
       \/ UNCHANGED rsv
    /\ hs' = [hs EXCEPT ![r] = [@ EXCEPT !.pc = "done", !.resp = "409"]]
    /\ UNCHANGED <<adv, pub, provInstr, enforced, enforcedQ, locked, lockTotal>>

\* Lock applied: Status().Update to Reserved, its error only logged; the
\* response is 201 with the in-memory (Reserved) object either way.
MarkReserved(r) ==
    /\ hs[r].pc = "markReserved"
    /\ \/ rsv' = [rsv EXCEPT ![r].phase = "Reserved"]
       \/ UNCHANGED rsv
    /\ hs' = [hs EXCEPT ![r] = [@ EXCEPT !.pc = "done", !.resp = "201"]]
    /\ UNCHANGED <<adv, pub, provInstr, enforced, enforcedQ, locked, lockTotal>>

-----------------------------------------------------------------------------
(* Advertisement cycle of cluster c.                                       *)

\* The metrics collector: Available = Allocatable - Allocated - the
\* enforced ProviderInstructions (TestCollectClusterResources_AvailableFormula).
AgentAvailable(c) == CalculateAvailable(Allocatable[c], Allocated[c], enforcedQ[c])

\* Reconcile collects metrics and calls PublishAdvertisement, whose STEP 1
\* GETs the stored advertisement and copies a non-nil Reserved into the DTO.
AgentCollect(c) ==
    /\ pub[c].pc = "idle"
    /\ pub[c].count < MaxPublish
    /\ pub' = [pub EXCEPT ![c] = [@ EXCEPT !.pc = "post",
                 !.avail = AgentAvailable(c),
                 !.res = IF adv[c] = NoAdv THEN Nil ELSE adv[c].reserved,
                 !.tries = 0, !.count = pub[c].count + 1]]
    /\ UNCHANGED <<adv, rsv, hs, provInstr, enforced, enforcedQ, locked, lockTotal>>

\* PostAdvertisement: the cluster id matches the certificate (an honest
\* agent); Get "<clusterID>-adv".
IntakeGet(c) ==
    /\ pub[c].pc = "post"
    /\ pub' = [pub EXCEPT ![c] = [@ EXCEPT !.pc = "write", !.existing = adv[c]]]
    /\ UNCHANGED <<adv, rsv, hs, provInstr, enforced, enforcedQ, locked, lockTotal>>

\* Mutant: the intake that writes the DTO's Reserved without preserving the stored one.
IntakeRecordNoPreserve(c, e) ==
    [available |-> pub[c].avail,
     reserved |-> pub[c].res,
     rv |-> IF e = NoAdv THEN 1 ELSE e.rv + 1]

\* The record the intake writes over the existing one e.
IntakeRecord(c, e) ==
    [available |-> pub[c].avail,
     reserved |-> IF e # NoAdv /\ e.reserved # Nil THEN e.reserved ELSE pub[c].res,
     rv |-> IF e = NoAdv THEN 1 ELSE e.rv + 1]

\* Update with the version of the Get, or Create when there was none; both
\* fail when the record changed in between (conflict, AlreadyExists).
IntakeConflict(c) ==
    IF pub[c].existing = NoAdv THEN adv[c] # NoAdv
                               ELSE adv[c] = NoAdv \/ adv[c].rv # pub[c].existing.rv

\* doWithRetry: a 5xx is retried with the same body until maxRetries.
AfterPostError(p) ==
    IF p.tries < MaxPostRetries
    THEN [p EXCEPT !.pc = "post", !.tries = @ + 1]
    ELSE [p EXCEPT !.pc = "idle"]

\* The write, the piggybacked instructions in the response, and the agent's
\* processProviderInstructions creating the ProviderInstructions it lacks;
\* the List of the intake and each Create of the agent may fail (logged
\* only), so any subset of them is created.
IntakeWrite(c) ==
    /\ pub[c].pc = "write"
    /\ \/ /\ ~IntakeConflict(c)
          /\ adv' = [adv EXCEPT ![c] = IntakeRecord(c, pub[c].existing)]
          /\ \E S \in SUBSET PiggybackInstructions(c) :
                provInstr' = [provInstr EXCEPT ![c] = @ \cup S]
          /\ pub' = [pub EXCEPT ![c].pc = "idle"]
       \/ /\ IntakeConflict(c)
          /\ pub' = [pub EXCEPT ![c] = AfterPostError(pub[c])]
          /\ UNCHANGED <<adv, provInstr>>
    /\ UNCHANGED <<rsv, hs, enforced, enforcedQ, locked, lockTotal>>

\* One tick of the InstructionPoller that finds new instructions for c
\* (a tick that finds none changes nothing).
Poll(c) ==
    /\ PolledInstructions(c) \ provInstr[c] # {}
    /\ provInstr' = [provInstr EXCEPT ![c] = @ \cup PolledInstructions(c)]
    /\ UNCHANGED <<adv, rsv, hs, pub, enforced, enforcedQ, locked, lockTotal>>

\* An instruction becomes enforced on the provider; what enforces it lies
\* outside the published sources, so it may happen at any time or never.
Enforce(c, r) ==
    /\ r \in provInstr[c] \ enforced[c]
    /\ enforced' = [enforced EXCEPT ![c] = @ \cup {r}]
    /\ enforcedQ' = [enforcedQ EXCEPT ![c] = AddQ(@, rsv[r].req)]
    /\ UNCHANGED <<adv, rsv, hs, pub, provInstr, locked, lockTotal>>

\* All bounded work is over: the model stutters.
Finished ==
    /\ \A r \in Requests : hs[r].pc = "done"
    /\ \A c \in Clusters : pub[c].pc = "idle" /\ pub[c].count = MaxPublish
    /\ UNCHANGED vars

HandlerStep(r) ==
    \/ Decide(r) \/ Create(r) \/ AddFinalizer(r) \/ LockGet(r)
    \/ LockUpdate(r) \/ MarkFailed(r) \/ MarkReserved(r)

Next ==
    \/ \E r \in Requests, c \in Clusters, q \in ReqChoices : Receive(r, c, q)
    \/ \E r \in Requests : HandlerStep(r)
    \/ \E c \in Clusters : AgentCollect(c) \/ IntakeGet(c) \/ IntakeWrite(c) \/ Poll(c)
    \/ \E c \in Clusters, r \in Requests : Enforce(c, r)
    \/ Finished

\* Handler goroutines run to completion once started, and the poller's
\* ticker fires forever; users, the advertisement timer (bounded here) and
\* the enforcement of instructions get no fairness.
Fairness ==
    /\ \A r \in Requests : WF_vars(HandlerStep(r))
    /\ \A c \in Clusters : WF_vars(IntakeGet(c)) /\ WF_vars(IntakeWrite(c))
    /\ \A c \in Clusters : WF_vars(Poll(c))

Spec == Init /\ [][Next]_vars /\ Fairness

-----------------------------------------------------------------------------
(* Properties.                                                             *)

\* The stored Reserved of every cluster is exactly the sum of the lock
\* Updates that were applied to it: no lock is lost to a concurrent lock or
\* to an advertisement overwriting Reserved (compare-and-swap in the
\* RetryOnConflict loop, preservation in PostAdvertisement).
LocksAccounted ==
    \A c \in Clusters :
        IF adv[c] = NoAdv THEN lockTotal[c] = Zero
                          ELSE ReservedOrZero(adv[c].reserved) = lockTotal[c]

\* Spec 8.4: no step, of the intake or of any handler, lowers a stored
\* Reserved or removes an advertisement.
ReservedNeverDecreases ==
    [][\A c \in Clusters :
          adv[c] # NoAdv =>
              /\ adv'[c] # NoAdv
              /\ \A x \in Res : ReservedOrZero(adv'[c].reserved)[x]
                                  >= ReservedOrZero(adv[c].reserved)[x]]_vars

\* A provider agent holds ProviderInstructions only for reservations whose
\* lock was applied to that very provider (piggyback and poll paths).
ProviderHoldsOnlyLocked ==
    \A c \in Clusters : \A r \in provInstr[c] :
        r \in locked /\ rsv[r] # NoRsv /\ rsv[r].target = c

\* Every Reservation that reaches phase Reserved is eventually materialised
\* as a ProviderInstruction on its target, by the poller if not piggybacked.
ReservedEventuallyInstructed ==
    \A r \in Requests, c \in Clusters :
        (rsv[r] # NoRsv /\ rsv[r].phase = "Reserved" /\ rsv[r].target = c)
            ~> r \in provInstr[c]

\* PostReservation's 409 leaves no lock behind (spec 4.4, 5 "abort cleanly,
\* no dangling writes", 7 "LockContended -- 409, caller may re-issue"): a
\* handler that answers 409, on no candidate, a failed fit or the last of
\* LockSteps conflicts, never had its own lock Update applied.
FailedAnswerHoldsNoLock ==
    \A r \in Requests : hs[r].resp = "409" => r \notin locked

\* Spec section 3 and 8.9: Reserved never exceeds Allocatable - Allocated.
NoOverbooking ==
    \A c \in Clusters : adv[c] # NoAdv =>
        \A x \in Res : ReservedOrZero(adv[c].reserved)[x]
                         =< Allocatable[c][x] - Allocated[c][x]

\* Spec 8.2 at the end of a call: a request whose lock was applied has a
\* Reservation in phase Reserved once its handler has answered.
LockedHasReservedRecord ==
    \A r \in Requests :
        (hs[r].pc = "done" /\ r \in locked) =>
            rsv[r] # NoRsv /\ rsv[r].phase = "Reserved"

\* Spec section 7: a request answered 409 (no suitable cluster, or the lock
\* failed) leaves a Reservation in phase Failed.
ConflictLeavesFailedRecord ==
    \A r \in Requests :
        hs[r].resp = "409" => rsv[r] # NoRsv /\ rsv[r].phase = "Failed"

====
