# TLA+ models of k8s-resource-sharing

This directory models the resource broker and the parts of the agent that
talk to it. It holds the TLA+ modules, the TLC configurations that check them
on small instances, and TLAPS proofs of the properties that matter for every
value of the constants. `PROJECT.json` lists the components, the runs, the
mutants, the map from definitions to source lines, the findings and the
hazards.

## The system

- **Broker** (`src/unnamed/part_001`: handlers). It has three handlers:
  - `PostReservation` decides on a target cluster and creates a Reservation.
    It then adds a finalizer and locks the requested quantity on the target's
    ClusterAdvertisement (`Reserved += req`). The lock runs inside
    `retry.RetryOnConflict`, with a Get followed by an Update carrying the
    resourceVersion. Finally it writes the Reservation's phase: Reserved or
    Failed.
  - `PostAdvertisement` stores an agent's published resources. It keeps the
    broker-owned `Reserved` field and piggybacks Reserved-phase reservations
    for that cluster on its response.
  - `GetInstructions` lists the same reservations for the poller.
- **Agent** (`src/resource-agent/internal`):
  - The `AdvertisementReconciler` collects metrics and calls
    `PublishAdvertisement`. That call GETs the stored advertisement, copies
    its Reserved into the body, and POSTs it with `doWithRetry`. The
    reconciler then creates the ProviderInstructions it was handed.
  - The `InstructionPoller` fetches the same instructions on every tick.
- **Not in the published sources**: the decision engine (`decision.go`) and
  the resource calculator. They are modelled from the spec (sections 4.1 and
  4.3) and marked `spec_modelled` in the map.

All handlers run as concurrent net/http goroutines. Every store call is a
step of its own, so the handlers interleave at the store.

## Modules

| Module | Models |
|---|---|
| `Resources` | Quantities over `{"cpu","mem"}`, `CalculateAvailable` (clamped at 0), `CanReserve`, `AddReservation`. |
| `Broker` | The state store (`adv`, `rsv`), the locals of each PostReservation goroutine (`hs`), each agent's publish call (`pub`), the agent-side ProviderInstructions (`provInstr`, `enforced`, `enforcedQ`), and two history variables (`locked`, `lockTotal`). |
| `MCBroker` | Constant definitions for TLC: 2 clusters with allocatable 2 and allocated 0 per resource, requests of size 1 or 2, and symmetry over request ids. |
| `Requester` | EXTENDS `Broker`. The requester cluster's ResourceRequests in the API server (`rrStore`), the informer cache the reconciler reads (`rrCache`), the work queue (`dirty`), the locals of each Reconcile (`rc`), the ResourceRequest each broker call was made for (`owner`), and the local ReservationInstructions (`resInstr`). |
| `MCRequester` | Constant definitions for TLC: cluster 1 requests and cluster 2 provides, one ResourceRequest, and three broker call ids for its sends and retries. |
| `BrokerProofs` | The TLAPS proof of type correctness. |
| `BrokerSafetyProofs` | The TLAPS proof of `ProviderHoldsOnlyLocked`, and lemmas on how each handler step moves its pc. |
| `BrokerLockProofs` | The TLAPS proofs of `LocksAccounted` and `ReservedNeverDecreases`. |
| `BrokerAnswerProofs` | The TLAPS proof of `FailedAnswerHoldsNoLock`. |
| `RequesterProofs` | The TLAPS proofs that the composition refines the broker's safety specification, of `RTypeOK` and of `ReservedRequestHasLock`. |
| `RequesterPhaseProofs` | The TLAPS proof of the action property `TerminalPhaseStable`. |

### How the Broker actions follow the code

**PostReservation** has one action per store call, and `hs[r].pc` gives the
point reached:

- `Receive` covers decoding and validation.
- `Decide` is `SelectBestCluster`. With no candidate it answers 409 with no
  record written. A bad duration answers 400.
- `Create` creates the Reservation, or ends in 500.
- `AddFinalizer` may fail silently.
- `LockGet` does the Get, the `CanReserve` check and `AddReservation` on the
  local copy.
- `LockUpdate` is the compare-and-swap Update. On a conflict, `AfterConflict`
  retries up to `LockSteps` times.
- `MarkFailed` and `MarkReserved` are the status writes. Their errors are
  discarded or only logged, so each is either a write or a no-op.

**Advertisement cycle** of cluster `c`:

- `AgentCollect` is the metrics collection plus the GET in STEP 1 of
  `PublishAdvertisement`.
- `IntakeGet` is the handler's Get.
- `IntakeWrite` is the Update or Create and has two outcomes:
  - If the record changed since the Get, there is a conflict and
    `AfterPostError` decides whether `doWithRetry` re-sends.
  - On success, the record is written by `IntakeRecord`, which preserves a
    non-nil stored Reserved. Any subset of the piggybacked instructions is
    then created, because both the List and each Create may fail with the
    error only logged.

**Instruction delivery**:

- `Poll` is a poller tick that finds new instructions.
- `Enforce` marks an instruction enforced. What enforces it is outside the
  sources, so it may happen at any time or never. The agent's Available
  subtracts enforced instructions, as the metrics tests fix.

### How the Requester actions follow the code

The requester module composes the agent's `ResourceRequestReconciler` and
`RequestReservation` with the broker. `BrokerStep` is every broker action
except `Receive`. Only `RRSend` accepts a broker call, and it picks an
unused call id.

- `RRStart` is `Reconcile` picking a queued key. Controller-runtime runs
  one worker, so only one Reconcile runs at a time. `r.Get` reads the
  informer cache. `EntryPC` is the early return on Reserved or Failed, and
  the branch on an empty phase.
- `StatusWrite` is `updateStatus`, a `Status().Update` carrying the
  resourceVersion of the object that was read:
  - a conflict or any other error returns the error and requeues the key;
  - a successful write queues the key only when its watch event reaches
    the cache (`CacheSync`). The informer updates its store before it
    calls the handlers, so the cache is at least that recent.
- `RRMarkPending`, `RRMarkReserved` and `RRMarkFailed` are the three status
  writes of `Reconcile`.
- `RRSend` is one attempt of `doWithRetry`. `RRAwait` is its outcome:
  - 201 is a reservation;
  - 400 and 409 fail the request;
  - 500 is retried;
  - a transport error is retried. It is modelled as the 30 s client
    timeout firing once the handler has applied the lock (`markReserved`)
    or has answered. A timeout earlier would cancel the handler's context,
    and its remaining store calls fail without locking anything.
- `RRInstr` is `createReservationInstruction`. The instruction is
  created, or already exists, or the Create fails.

## Runs

| Run | Checks | Result |
|---|---|---|
| `broker_safety` (`MCBroker.cfg`) | `TypeOK`, `LocksAccounted`, `ProviderHoldsOnlyLocked`, `FailedAnswerHoldsNoLock`, `ReservedNeverDecreases` | pass: 468,409 distinct states, about 25 s |
| `broker_liveness` (`MCBrokerLive.cfg`) | `ReservedEventuallyInstructed` | pass: 329,233 states, about 2 min |
| `overbooking` | `NoOverbooking` | violated (finding) |
| `lock_without_reserved_record` | `LockedHasReservedRecord` | violated (finding) |
| `conflict_without_failed_record` | `ConflictLeavesFailedRecord` | violated (finding) |
| `requester_safety` (`MCRequester.cfg`) | `RTypeOK`, `ReservedRequestHasLock`, `TerminalPhaseStable` | pass: 249,548 states, about 20 s |
| `double_lock_http_retry` | `OneLockPerRequest` | violated (finding) |
| `double_lock_stale_cache` (`MaxPostRetries = 0`) | `OneLockPerRequest` | violated (finding) |

What each property means:

- **`LocksAccounted`**: the stored Reserved of every cluster equals the sum of
  the lock Updates applied to it. It can fail in two ways:
  - two locks interleave without the resourceVersion check;
  - an advertisement write that read Reserved before a lock writes its stale
    copy back.
- **`ReservedNeverDecreases`** (an action property, spec 8.4): no step lowers
  a stored Reserved or removes an advertisement.
- **`ProviderHoldsOnlyLocked`**: an agent holds a ProviderInstruction only for
  a reservation whose lock was applied to that very agent.
- **`FailedAnswerHoldsNoLock`**: a PostReservation that answered 409 never
  had its own lock Update applied. The 409 after `RetryOnConflict` gives up
  under contention is designed (spec 4.4, 7: the caller may re-issue). It is
  harmless only if that 409 leaves no lock on the provider's Reserved. The
  handler decides 201 or 409 from the outcome of its own Update. So a 409
  with an applied lock would take a budget check that also counted the
  attempt that succeeded.
- **`ReservedEventuallyInstructed`**: every Reserved reservation eventually
  becomes a ProviderInstruction on its target.

- **`ReservedRequestHasLock`**: a ResourceRequest stored as Reserved names
  a reservation of its own. That reservation's lock was applied on the
  target the request records, and the local ReservationInstruction exists.
- **`TerminalPhaseStable`** (an action property): a stored Reserved or
  Failed phase never changes, even when a reconcile starts from a stale
  cached copy.

Each property of a passing run has a mutant in `PROJECT.json` that TLC
refutes. The mutants are:

- the Update without a compare-and-swap;
- the attempt budget checked after a successful Update;
- the intake without Reserved preservation;
- the poll filter on any target, or on the requester;
- Available without the clamp;
- `RequestReservation` without its status-code check;
- the status write without the resourceVersion.

### Findings

1. **Overbooking** (`part_001:241`). The intake stores the agent's Available,
   which subtracts only *enforced* instructions, and keeps the broker's
   Reserved. So an advertisement cycle between a lock and its enforcement
   restores the full Available. A second lock then passes `CanReserve`, and
   Reserved exceeds Allocatable - Allocated, against spec sections 3 and 8.9.
   TLC's shortest trace has 18 steps (19 states). Both requests are
   received; a publish writes the first advertisement; the first handler
   decides, creates and locks; a second publish, between that lock and its
   enforcement, restores the full Available; the second handler's lock then
   passes `CanReserve` on the same target.
2. **Lock without a Reserved record** (`part_001:172`). The status write after
   an applied lock only logs its error. The resources stay locked, but the
   record never reaches Reserved, so no instruction is ever emitted.
3. **409 without a Failed record** (`part_001:72`). The no-candidate path
   answers 409 before any record exists, while spec section 7 says the record
   persists in phase Failed.

4. **One ResourceRequest, two locks, via the HTTP retry** (`client.go:267`).
   `doWithRetry` re-sends the reservation POST after a transport error.
   When the 30 s timeout fires after the broker locked, the second call
   locks again. Spec 4.8 says the request triggers exactly one call and is
   never retried, because re-submission is not idempotent.
5. **One ResourceRequest, two locks, via the stale cache**
   (`resourcerequest_controller.go:48`). The trace needs no HTTP retry:
   - the first call times out after its lock and the request is written
     Failed;
   - the reconcile queued by the earlier Pending event reads a cache that
     still says Pending;
   - it sends again, and the broker locks a second time.

   The final status write of that second reconcile fails on the
   resourceVersion. That is why `TerminalPhaseStable` holds while
   `OneLockPerRequest` does not.

### Bounds and why they are enough

- **Two requests and two clusters** give two concurrent locks on the same
  target, and a lock racing an advertisement write. These are the two
  interleavings that `LocksAccounted` is about.
- **`MaxPublish = 2`** gives a publish both before and after a lock.
- **`MaxPostRetries = 1`** exercises the re-send of a stale body. The code
  allows 3.
- **`LockSteps = 2`** reaches both a retried conflict and an exhausted loop.
  The code allows 5.
- **Requests of 1 or 2 against an allocatable of 2** make both the fit and
  the non-fit branches of `CanReserve` reachable.
- **The requester runs** use one ResourceRequest and three call ids. That
  is enough for a retry after a timeout plus one more send from a stale
  read. One request means the single worker never has to choose between
  keys.
- **The liveness run** uses requests of size 1 only, to stay within a few
  minutes.

### Fairness

Fairness is weak fairness and covers only what the code runs on its own:

- each handler goroutine, once started, runs to its end (`HandlerStep`);
- an intake request that reached the broker is processed (`IntakeGet`,
  `IntakeWrite`);
- the poller's ticker fires forever (`Poll`).

New requests, the advertisement timer (which is bounded here) and enforcement
get no fairness.

## Proofs

`BrokerProofs.tla` proves `THEOREM TypeCorrect == Spec => []TypeOK` for all
constants that satisfy the `ASSUME`s of `Broker` and `Resources`.

`TypeOK` alone is not inductive. For example, `LockUpdate` writes `h.got`
into `adv`, which is well typed only if `got` is a record there, and
`Enforce` reads `rsv[r].req`. The proof therefore uses a strengthening
`IInv`, which adds:

- a handler past `idle` has a requester;
- past `decide`, it has a target with a stored advertisement;
- past `create`, it has a stored Reservation;
- before the lock is done, `attempt < LockSteps`;
- at `lockUpdate`, `got` is an advertisement record;
- every ProviderInstruction refers to a stored Reservation.

The proof shows `Init => IInv` and `IInv /\ [Next]_vars => IInv'`, with one
lemma per action, and `IInv => TypeOK`. Each per-action lemma has steps for
the conjuncts the action can disturb.

`BrokerSafetyProofs.tla` proves `THEOREM ProviderOnlyLocked == Spec =>
[]ProviderHoldsOnlyLocked` under the same assumptions. Instructions are
created only from Reserved-phase Reservations whose target is the agent.
The invariant is still not inductive alone, for two reasons:
- `Create` overwrites a Reservation record;
- the Reserved phase must imply an applied lock.

The strengthening `SInv` adds three facts that follow from the order of the
handler's store calls:
- `NoRsvBeforeCreate`: a handler at `idle`, `decide` or `create` has no
  Reservation stored. So `Create` never replaces a record an instruction
  names.
- `LockedBeforeMarkReserved`: a handler at `markReserved` has its lock
  applied.
- `ReservedPhaseLocked`: a stored Reserved phase implies an applied lock.

`IInv /\ SInv` is inductive. It was checked first as a TLC invariant on the
`broker_safety` instance. The lemmas `HandlerSInv` and `AgentSInv` are frame
lemmas: one for a step of a single goroutine, one for a step of an agent.
Each per-action lemma discharges their hypotheses.

`BrokerLockProofs.tla` proves two theorems:
- `THEOREM LocksAccountedInvariant == Spec => []LocksAccounted`;
- `THEOREM ReservedMonotone == Spec => ReservedNeverDecreases`.

Both writers of an advertisement write back a copy they read earlier:
- the lock Update writes the record `LockGet` computed;
- the intake writes the record its Get returned.

The write succeeds only when the stored resourceVersion is still the one
read, and every write raises it. The strengthening `LInv` states that for
both copies:
- `LockReadFresh`: the copy of a handler at `lockUpdate` is no newer than
  the store. When the versions are equal, it is exactly `AddReservation` of
  the stored record.
- `IntakeReadFresh`: the same for the intake's `existing`. With equal
  versions it is the stored record.
- `PublishedReservedStored`: a non-nil Reserved the agent copied into its
  POST is still non-nil in the store and in `existing`.

The last fact is what makes `IntakeRecord` write the stored Reserved back
unchanged: either the existing Reserved is kept, or it was nil and so was
the agent's copy.

`ReservedNeverDecreases` needs no further invariant:
- `LocksAccounted` holds before and after each step, so the stored Reserved
  is the lock history `lockTotal`;
- `lockTotal` only grows;
- no step deletes an advertisement (`StepGrows`).

`BrokerAnswerProofs.tla` proves `THEOREM FailedAnswerNoLock == Spec =>
[]FailedAnswerHoldsNoLock`. The property is not inductive alone: it says
nothing of a handler whose lock is applied but which has not answered yet.
The strengthening `AnsInv` has two parts:
- `Unanswered`: a handler that has not reached `done` has no response;
- `LockedAnswers201`: a handler with an applied lock is at `markReserved`,
  or is `done` with 201.

`IInv /\ AnsInv` was checked first as a TLC invariant on the
`broker_safety` instance. The proof has one frame lemma for a step of one
goroutine (`HandlerAnsInv`) and one lemma per handler action. The agent
steps leave `hs` and `locked` alone.

`RequesterProofs.tla` is about the requester composed with the broker
(`RSpec`). It proves three theorems.

- `THEOREM RequesterRefinesBroker == RSpec => Init /\ [][Next]_vars`. This
  is the broker's specification without its fairness, and the refinement
  mapping is the identity on the broker's variables. `RRSend` is the
  broker's `Receive` for an unused call id. `BrokerStep` is a broker step.
  Every other step of the composition leaves the broker's variables alone
  (`RStepIsBrokerStep`). So `IInv`, `SInv` and every broker theorem carry
  over to the composition.
- `THEOREM RequesterTypeCorrect == RSpec => []RTypeOK`.
- `THEOREM ReservedRequestHasLockInvariant == RSpec => []ReservedRequestHasLock`.

Both invariants come from `RInv == IInv /\ SInv /\ AInv /\ RecInv`. `AInv`
adds two broker facts:
- `TargetRecorded`: a Reservation records its handler's target.
- `AnsweredLocked`: a handler that answered 201 is done, its lock is
  applied, and its Reservation is stored.

`NextAInv` also shows `DoneStable`. A handler that answered never changes
its locals or its Reservation again, and no lock is ever removed. Every
handler step acts on a handler that has not answered.

`RecInv` follows the success path of each ResourceRequest `k`:
- `AwaitOwn`: the call the Reconcile of `k` awaits is one it made
  (`owner`).
- `Success`: at `instr` and `markReserved`, it holds the 201 of its own
  call (`Answered201`) and that call's target. At `markReserved` it also
  holds the instruction, created under the call's name.
- `StoredRes`: a stored Reserved phase was written from that path.

Why the 201 stays true: `owner` only changes for unused call ids, and an
answered handler is frozen. `ReservedRequestHasLock` then follows from
`StoredRes`, `AnsweredLocked` and `TargetRecorded`.

`RInv` was model-checked first, together with `ReservedRequestHasLock`, on
two instances:
- the `requester_safety` instance;
- an instance with two ResourceRequests and two call ids.

The proof has one lemma per reconciler action. `ReconcilerFrame` is the
frame lemma for steps that make no broker call, and `BrokerSideRecInv`
covers the broker's steps.

`RequesterPhaseProofs.tla` proves `THEOREM TerminalPhaseStableHolds ==
RSpec => TerminalPhaseStable`. Reconcile may read a stale cached copy that
still says Pending, so the reconciler's control flow does not protect a
terminal phase. The resourceVersion of `Status().Update` does. The
strengthening `PhaseInv` states, for each key:
- `CacheBehindAt`: the cache is never newer than the store, and equals it
  at the store's version;
- `ReadBehindAt`: the same holds of the object the Reconcile holds;
- `ReadLiveAt`: a Reconcile past its entry holds a non-terminal object.

So a status write whose version matches the store's was made from the
stored object itself, and that object was not terminal
(`StatusWriteTerminal`). `PhaseInv` was checked by TLC on the same two
instances before it was proved.

## Checked by TLC only

- Liveness (`ReservedEventuallyInstructed`). TLAPS does not reason about
  fairness and ENABLED.
- The properties of the `violation` runs (`NoOverbooking`,
  `LockedHasReservedRecord`, `ConflictLeavesFailedRecord`,
  `OneLockPerRequest`). They are false of the code, and TLC's
  counterexamples are the findings.

## Not modelled

- **Releasing an orphaned lock.** When `createReservationInstruction`
  fails after a successful reservation, the request is written Failed and
  the lock stays. Nothing in the sources releases it: the lifecycle
  observer of spec section 5 is not there.
- **Requester liveness.** A request reaching a terminal phase is not
  checked. Status writes may fail any number of times, and the model
  bounds the calls, so no fairness the code justifies makes it certain.
- **The Liqo peering reconciler**: it shells out to `liqoctl`.
- **The mTLS middleware**: it is assumed honest.
- **Routing, CRD types and the test scripts**.
