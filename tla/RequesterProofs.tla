-------------------------- MODULE RequesterProofs --------------------------
(***************************************************************************)
(* Proofs about the requester composed with the broker.                    *)
(*                                                                         *)
(* Every step of the composition is a step of the broker or leaves the     *)
(* broker's variables alone (RRSend is the broker's Receive), so every     *)
(* invariant proved of Broker holds of Requester too.  On top of them,     *)
(* RInv follows the ResourceRequest's success path: the 201 it takes is    *)
(* the answer of a call it made, a 201 is only answered after the lock,    *)
(* an answered handler never changes again, and the phase Reserved is only *)
(* written from that path.                                                 *)
(***************************************************************************)
EXTENDS Requester, BrokerLockProofs

\* The Reservation a handler created records the target it decided on.
TargetRecorded == \A r \in Requests : rsv[r] # NoRsv => rsv[r].target = hs[r].target

\* A handler answers 201 only once its lock was applied and its Reservation
\* stored; it has answered for good.
AnsweredLocked ==
    \A r \in Requests : hs[r].resp = "201" =>
        hs[r].pc = "done" /\ r \in locked /\ rsv[r] # NoRsv

\* The requester side's variables are well-typed.
RRType ==
    /\ rrStore \in [RRs -> RRRec]
    /\ rrCache \in [RRs -> RRRec]
    /\ dirty \in [RRs -> BOOLEAN]
    /\ rc \in [RRs -> RCRec]
    /\ owner \in [Requests -> RRs \cup {NoRR}]
    /\ resInstr \in SUBSET Requests

\* A call the reconciler of k waits for is one it made.
AwaitOwn(k) ==
    rc[k].pc = "await" => rc[k].call \in Requests /\ owner[rc[k].call] = k

AwaitOwnCall == \A k \in RRs : AwaitOwn(k)

\* The call n behind a Reserved outcome of k: k made it and it answered 201.
Answered201(k, n) ==
    n \in Requests /\ owner[n] = k /\ hs[n].pc = "done" /\ hs[n].resp = "201"

\* On the success path the reconciler of k holds the 201 of its own call,
\* with the target of that call, and the instruction once it is created.
Success(k) ==
    rc[k].pc \in {"instr", "markReserved"} =>
        /\ Answered201(k, rc[k].call)
        /\ rc[k].target = hs[rc[k].call].target
        /\ rc[k].pc = "markReserved" =>
               rc[k].name = rc[k].call /\ rc[k].call \in resInstr

SuccessPath == \A k \in RRs : Success(k)

\* A stored Reserved phase of k was written from its success path.
StoredRes(k) ==
    rrStore[k].phase = "Reserved" =>
        /\ Answered201(k, rrStore[k].name)
        /\ rrStore[k].target = hs[rrStore[k].name].target
        /\ rrStore[k].name \in resInstr

StoredReserved == \A k \in RRs : StoredRes(k)

\* The facts about the reconciler that RInv adds to those about the broker.
RecInv == RRType /\ AwaitOwnCall /\ SuccessPath /\ StoredReserved

-----------------------------------------------------------------------------
(* What a broker step does to the handlers the requester relies on.        *)

\* TargetRecorded and AnsweredLocked, the broker facts RInv adds.
AInv == TargetRecorded /\ AnsweredLocked

\* The inductive invariant of the composition.
RInv == IInv /\ SInv /\ AInv /\ RecInv

\* A step of handler r changes only r's locals and Reservation, on a
\* handler that has not answered, and removes no lock.
HandlerLocal(r) ==
    /\ hs[r].pc # "done"
    /\ OthersUnchanged(r)
    /\ \A k \in Requests \ {r} : rsv'[k] = rsv[k]
    /\ locked \subseteq locked'

\* The steps of one handler past Create that keep its target, answer 201
\* only when done and locked, and, if they rewrite its Reservation, keep
\* that record's target.
LEMMA DecidedStepAInv ==
    ASSUME IInv, SInv, AInv, NEW r \in Requests, HandlerLocal(r),
           hs[r].pc \in Decided \ {"create"},
           hs'[r].target = hs[r].target,
           hs'[r].resp = hs[r].resp \/ (hs'[r].pc = "done" /\ r \in locked'),
           rsv'[r] # NoRsv, rsv'[r].target = rsv[r].target
    PROVE  AInv'
<1>1. rsv[r] # NoRsv
  BY DEF IInv, Decided
<1>2. hs[r].resp # "201"
  BY DEF AInv, AnsweredLocked, HandlerLocal
<1>. QED
  BY <1>1, <1>2 DEF AInv, TargetRecorded, AnsweredLocked, HandlerLocal, OthersUnchanged

\* Before Create a handler has no Reservation and has not answered 201.
LEMMA PreCreateFacts ==
    ASSUME IInv, SInv, AInv, NEW r \in Requests, hs[r].pc \in PreCreate
    PROVE  hs[r] \in HandlerRec /\ rsv[r] = NoRsv /\ hs[r].resp # "201"
BY IInvTypes DEF HsType, PreCreate, SInv, NoRsvBeforeCreate, AInv, AnsweredLocked

\* A step before Create that writes no Reservation and answers no 201
\* keeps AInv.
LEMMA PreCreateStepAInv ==
    ASSUME IInv, SInv, AInv, NEW r \in Requests, hs[r].pc \in PreCreate,
           hs'[r].resp # "201", OthersUnchanged(r), UNCHANGED <<rsv, locked>>
    PROVE  AInv' /\ HandlerLocal(r)
<1>1. rsv[r] = NoRsv
  BY PreCreateFacts
<1>. QED
  BY <1>1 DEF AInv, TargetRecorded, AnsweredLocked, HandlerLocal, OthersUnchanged, PreCreate

\* Receive starts a handler, which keeps its (initial) response.
LEMMA ReceiveAInv ==
    ASSUME IInv, SInv, AInv, NEW r \in Requests, NEW c \in Clusters, NEW q \in ReqChoices,
           Receive(r, c, q)
    PROVE  AInv' /\ HandlerLocal(r)
<1>1. hs[r].pc \in PreCreate
  BY DEF Receive, PreCreate
<1>2. hs[r] \in HandlerRec /\ hs[r].resp # "201"
  BY <1>1, PreCreateFacts
<1>3. hs'[r].resp = hs[r].resp
  BY <1>2, IInvTypes DEF Receive, HsType
<1>. QED
  BY <1>1, <1>2, <1>3, ReceiveMoves, PreCreateStepAInv DEF Receive

\* The decision answers 400 or 409 or goes on to Create.
LEMMA DecideAInv ==
    ASSUME IInv, SInv, AInv, NEW r \in Requests, Decide(r)
    PROVE  AInv' /\ HandlerLocal(r)
<1>1. hs[r].pc \in PreCreate
  BY DEF Decide, PreCreate
<1>2. hs[r] \in HandlerRec /\ hs[r].resp # "201"
  BY <1>1, PreCreateFacts
<1>3. hs'[r].resp # "201"
  <2>1. CASE hs' = [hs EXCEPT ![r] = [@ EXCEPT !.pc = "done", !.resp = "409"]]
    BY ZenonT(30), <1>2, <2>1, IInvTypes DEF HsType, HandlerRec
  <2>2. CASE hs' = [hs EXCEPT ![r] = [@ EXCEPT !.pc = "done", !.resp = "400"]]
    BY ZenonT(30), <1>2, <2>2, IInvTypes DEF HsType, HandlerRec
  <2>3. CASE \E t \in Candidates(hs[r].requester, hs[r].req) :
               hs' = [hs EXCEPT ![r] = [@ EXCEPT !.pc = "create", !.target = t]]
    <3>1. PICK t \in Candidates(hs[r].requester, hs[r].req) :
               hs' = [hs EXCEPT ![r] = [@ EXCEPT !.pc = "create", !.target = t]]
      BY <2>3
    <3>. QED
      BY ZenonT(30), <1>2, <3>1, IInvTypes DEF HsType, HandlerRec
  <2>. QED
    BY <2>1, <2>2, <2>3 DEF Decide
<1>. QED
  BY <1>1, <1>3, DecideMoves, PreCreateStepAInv DEF Decide

\* Create writes a Reservation with the handler's target, or answers 500.
LEMMA CreateAInv ==
    ASSUME IInv, SInv, AInv, NEW r \in Requests, Create(r)
    PROVE  AInv' /\ HandlerLocal(r)
<1>1. hs[r].pc \in PreCreate
  BY DEF Create, PreCreate
<1>2. hs[r] \in HandlerRec /\ rsv[r] = NoRsv /\ hs[r].resp # "201"
  BY <1>1, PreCreateFacts
<1>3. UNCHANGED locked /\ OthersUnchanged(r)
  BY CreateMoves DEF Create
<1>4. CASE /\ rsv' = [rsv EXCEPT ![r] = [requester |-> hs[r].requester,
                                          target |-> hs[r].target, req |-> hs[r].req,
                                          phase |-> "Unset", finalizers |-> {}]]
           /\ hs' = [hs EXCEPT ![r].pc = "finalizer"]
  <2>1. /\ hs'[r].target = hs[r].target /\ hs'[r].resp = hs[r].resp
        /\ rsv'[r].target = hs[r].target
        /\ \A k \in Requests \ {r} : rsv'[k] = rsv[k]
    BY <1>2, <1>4, IInvTypes DEF HsType, HandlerRec, RsvType
  <2>. QED
    BY <1>1, <1>2, <1>3, <2>1 DEF AInv, TargetRecorded, AnsweredLocked, HandlerLocal,
                                  OthersUnchanged, PreCreate
<1>5. CASE /\ hs' = [hs EXCEPT ![r] = [@ EXCEPT !.pc = "done", !.resp = "500"]]
           /\ UNCHANGED rsv
  <2>1. hs'[r].resp = "500"
    BY ZenonT(30), <1>2, <1>5, IInvTypes DEF HsType, HandlerRec
  <2>. QED
    BY <1>1, <1>3, <1>5, <2>1, PreCreateStepAInv
<1>. QED
  BY <1>4, <1>5 DEF Create


\* The finalizer Update keeps the Reservation's target.
LEMMA AddFinalizerAInv ==
    ASSUME IInv, SInv, AInv, NEW r \in Requests, AddFinalizer(r)
    PROVE  AInv' /\ HandlerLocal(r)
<1>1. hs[r].pc = "finalizer" /\ rsv[r] \in RsvRec /\ hs[r] \in HandlerRec
  BY StoredPastCreate DEF AddFinalizer, Decided
<1>2. hs'[r].target = hs[r].target /\ hs'[r].resp = hs[r].resp
  BY <1>1, IInvTypes DEF AddFinalizer, HsType
<1>3. /\ rsv'[r] # NoRsv /\ rsv'[r].target = rsv[r].target
      /\ \A k \in Requests \ {r} : rsv'[k] = rsv[k]
  <2>1. CASE rsv' = [rsv EXCEPT ![r].finalizers = @ \cup {ReservationFinalizer}]
    <3>1. rsv'[r] = [rsv[r] EXCEPT !.finalizers = @ \cup {ReservationFinalizer}]
      BY <2>1, IInvTypes DEF RsvType
    <3>2. rsv'[r] \in RsvRec /\ rsv'[r].target = rsv[r].target
      BY <1>1, <3>1 DEF RsvRec
    <3>. QED
      BY <2>1, <3>2, SentinelAssumption
  <2>2. CASE UNCHANGED rsv
    BY <1>1, <2>2, SentinelAssumption
  <2>. QED
    BY <2>1, <2>2 DEF AddFinalizer
<1>4. HandlerLocal(r)
  BY <1>1, <1>3, AddFinalizerMoves DEF AddFinalizer, HandlerLocal
<1>. QED
  BY <1>1, <1>2, <1>3, <1>4, DecidedStepAInv DEF Decided

\* The Get half of a lock attempt changes only the handler's pc and copy.
LEMMA LockGetAInv ==
    ASSUME IInv, SInv, AInv, NEW r \in Requests, LockGet(r)
    PROVE  AInv' /\ HandlerLocal(r)
<1>1. hs[r].pc = "lockGet" /\ rsv[r] \in RsvRec /\ hs[r] \in HandlerRec
  BY StoredPastCreate DEF LockGet, Decided
<1>2. hs'[r].target = hs[r].target /\ hs'[r].resp = hs[r].resp
  <2>. DEFINE t == hs[r].target
  <2>1. CASE hs' = [hs EXCEPT ![r] = [@ EXCEPT !.pc = "lockUpdate",
               !.got = AddReservation(adv[t], Allocatable[t], Allocated[t], hs[r].req)]]
    BY ZenonT(30), <1>1, <2>1, IInvTypes DEF HsType, HandlerRec
  <2>2. CASE hs' = [hs EXCEPT ![r].pc = "markFailed"]
    BY <1>1, <2>2, IInvTypes DEF HsType
  <2>. QED
    BY <2>1, <2>2 DEF LockGet
<1>3. HandlerLocal(r)
  BY <1>1, LockGetMoves DEF LockGet, HandlerLocal
<1>. QED
  BY <1>1, <1>2, <1>3, SentinelAssumption, DecidedStepAInv DEF LockGet, Decided

\* The lock Update adds a lock, or goes back into the loop or out of it.
LEMMA LockUpdateAInv ==
    ASSUME IInv, SInv, AInv, NEW r \in Requests, LockUpdate(r)
    PROVE  AInv' /\ HandlerLocal(r)
<1>1. hs[r].pc = "lockUpdate" /\ rsv[r] \in RsvRec /\ hs[r] \in HandlerRec
  BY StoredPastCreate DEF LockUpdate, Decided
<1>2. hs'[r].target = hs[r].target /\ hs'[r].resp = hs[r].resp /\ locked \subseteq locked'
  <2>1. CASE hs' = [hs EXCEPT ![r].pc = "markReserved"] /\ locked' = locked \cup {r}
    BY <1>1, <2>1, IInvTypes DEF HsType
  <2>2. CASE hs' = [hs EXCEPT ![r] = AfterConflict(hs[r])] /\ UNCHANGED locked
    BY <1>1, <2>2, IInvTypes DEF HsType, AfterConflict, HandlerRec
  <2>. QED
    BY <2>1, <2>2 DEF LockUpdate
<1>3. HandlerLocal(r)
  BY <1>1, <1>2, LockUpdateMoves DEF LockUpdate, HandlerLocal
<1>. QED
  BY <1>1, <1>2, <1>3, SentinelAssumption, DecidedStepAInv DEF LockUpdate, Decided

\* A status write leaves the Reservation's target; the record stays stored.
LEMMA PhaseWriteKeeps ==
    ASSUME IInv, NEW r \in Requests, rsv[r] \in RsvRec, NEW ph \in {"Reserved", "Failed"},
           \/ rsv' = [rsv EXCEPT ![r].phase = ph]
           \/ UNCHANGED rsv
    PROVE  /\ rsv'[r] # NoRsv /\ rsv'[r].target = rsv[r].target
           /\ \A k \in Requests \ {r} : rsv'[k] = rsv[k]
<1>1. CASE rsv' = [rsv EXCEPT ![r].phase = ph]
  <2>1. rsv'[r] = [rsv[r] EXCEPT !.phase = ph]
    BY <1>1, IInvTypes DEF RsvType
  <2>2. rsv'[r] \in RsvRec /\ rsv'[r].target = rsv[r].target
    BY <2>1 DEF RsvRec
  <2>. QED
    BY <1>1, <2>2, SentinelAssumption
<1>2. CASE UNCHANGED rsv
  BY <1>2, SentinelAssumption
<1>. QED
  BY <1>1, <1>2

\* Marking Failed answers 409.
LEMMA MarkFailedAInv ==
    ASSUME IInv, SInv, AInv, NEW r \in Requests, MarkFailed(r)
    PROVE  AInv' /\ HandlerLocal(r)
<1>1. hs[r].pc = "markFailed" /\ rsv[r] \in RsvRec /\ hs[r] \in HandlerRec
  BY StoredPastCreate DEF MarkFailed, Decided
<1>2. hs'[r].target = hs[r].target /\ hs'[r].resp = "409"
  BY ZenonT(30), <1>1, IInvTypes DEF MarkFailed, HsType, HandlerRec
<1>3. /\ rsv'[r] # NoRsv /\ rsv'[r].target = rsv[r].target
      /\ \A k \in Requests \ {r} : rsv'[k] = rsv[k]
  BY <1>1, PhaseWriteKeeps DEF MarkFailed
<1>4. AnsweredLocked'
  <2>1. \A k \in Requests \ {r} : hs'[k] = hs[k] /\ rsv'[k] = rsv[k]
    BY <1>3, MarkMoves DEF OthersUnchanged
  <2>. QED
    BY <1>2, <2>1 DEF MarkFailed, AInv, AnsweredLocked
<1>5. TargetRecorded'
  <2>1. \A k \in Requests \ {r} : hs'[k] = hs[k] /\ rsv'[k] = rsv[k]
    BY <1>3, MarkMoves DEF OthersUnchanged
  <2>2. rsv[r] # NoRsv
    BY <1>1, SentinelAssumption
  <2>. QED
    BY <1>2, <1>3, <2>1, <2>2 DEF AInv, TargetRecorded
<1>6. HandlerLocal(r)
  BY <1>1, <1>3, MarkMoves DEF MarkFailed, HandlerLocal
<1>. QED
  BY <1>4, <1>5, <1>6 DEF AInv

\* Marking Reserved answers 201 after the lock Update was applied.
LEMMA MarkReservedAInv ==
    ASSUME IInv, SInv, AInv, NEW r \in Requests, MarkReserved(r)
    PROVE  AInv' /\ HandlerLocal(r)
<1>1. hs[r].pc = "markReserved" /\ rsv[r] \in RsvRec /\ hs[r] \in HandlerRec
  BY StoredPastCreate DEF MarkReserved, Decided
<1>2. hs'[r].target = hs[r].target /\ hs'[r].pc = "done"
  BY ZenonT(30), <1>1, IInvTypes DEF MarkReserved, HsType, HandlerRec
<1>3. r \in locked'
  BY <1>1 DEF SInv, LockedBeforeMarkReserved, MarkReserved
<1>4. /\ rsv'[r] # NoRsv /\ rsv'[r].target = rsv[r].target
      /\ \A k \in Requests \ {r} : rsv'[k] = rsv[k]
  BY <1>1, PhaseWriteKeeps DEF MarkReserved
<1>5. HandlerLocal(r)
  BY <1>1, <1>4, MarkMoves DEF MarkReserved, HandlerLocal
<1>. QED
  BY <1>1, <1>2, <1>3, <1>4, <1>5, DecidedStepAInv DEF Decided

\* The steps of the agents, the intake and the poller touch no handler,
\* Reservation or lock.
LEMMA AgentAInv ==
    ASSUME AInv, UNCHANGED <<hs, rsv, locked>>
    PROVE  AInv'
BY DEF AInv, TargetRecorded, AnsweredLocked

\* A handler that has answered keeps its locals and its Reservation, and no
\* lock is ever removed.
DoneStable ==
    /\ \A r \in Requests : hs[r].pc = "done" => hs'[r] = hs[r] /\ rsv'[r] = rsv[r]
    /\ locked \subseteq locked'

\* A step local to a handler that has not answered leaves the answered ones.
LEMMA LocalDoneStable ==
    ASSUME NEW r \in Requests, HandlerLocal(r)
    PROVE  DoneStable
BY DEF HandlerLocal, OthersUnchanged, DoneStable

\* Every broker step keeps AInv, and keeps what answered handlers hold.
LEMMA NextAInv ==
    ASSUME IInv, SInv, AInv, [Next]_vars
    PROVE  AInv' /\ DoneStable
<1>1. CASE \E r \in Requests, c \in Clusters, q \in ReqChoices : Receive(r, c, q)
  BY <1>1, ReceiveAInv, LocalDoneStable
<1>2. CASE \E r \in Requests : HandlerStep(r)
  <2>1. PICK r \in Requests : HandlerStep(r)
    BY <1>2
  <2>2. AInv' /\ HandlerLocal(r)
    BY <2>1, DecideAInv, CreateAInv, AddFinalizerAInv, LockGetAInv, LockUpdateAInv,
       MarkFailedAInv, MarkReservedAInv DEF HandlerStep
  <2>. QED
    BY <2>2, LocalDoneStable
<1>3. CASE \E c \in Clusters : AgentCollect(c) \/ IntakeGet(c) \/ IntakeWrite(c) \/ Poll(c)
  <2>1. UNCHANGED <<hs, rsv, locked>>
    BY <1>3 DEF AgentCollect, IntakeGet, IntakeWrite, Poll
  <2>. QED
    BY <2>1, AgentAInv DEF DoneStable
<1>4. CASE \E c \in Clusters, r \in Requests : Enforce(c, r)
  <2>1. UNCHANGED <<hs, rsv, locked>>
    BY <1>4 DEF Enforce
  <2>. QED
    BY <2>1, AgentAInv DEF DoneStable
<1>5. CASE Finished \/ UNCHANGED vars
  <2>1. UNCHANGED <<hs, rsv, locked>>
    BY <1>5 DEF Finished, vars
  <2>. QED
    BY <2>1, AgentAInv DEF DoneStable
<1>. QED
  BY <1>1, <1>2, <1>3, <1>4, <1>5 DEF Next

\* Initially no handler has a target, a Reservation or an answer.
LEMMA InitAInv == Init => AInv
BY DEF Init, AInv, TargetRecorded, AnsweredLocked

-----------------------------------------------------------------------------
(* The composition as seen by the broker.                                  *)

\* The broker's specification without its fairness: what its safety
\* theorems are about.
BrokerSafety == Init /\ [][Next]_vars

\* A step of the composition is a step of the broker or leaves it alone:
\* the reconciler reaches the broker only through a POST that a fresh
\* PostReservation goroutine receives.
LEMMA RStepIsBrokerStep ==
    ASSUME [RNext]_allVars
    PROVE  [Next]_vars
<1>1. CASE \E k \in RRs : RRSend(k)
  <2>1. PICK k \in RRs : RRSend(k)
    BY <1>1
  <2>2. Home \in Clusters /\ RRReq[k] \in ReqChoices
    BY RequesterAssumption
  <2>. QED
    BY <2>1, <2>2 DEF RRSend, Next
<1>2. CASE \E k \in RRs : \/ RRStart(k) \/ RRMarkPending(k) \/ RRAwait(k) \/ RRInstr(k)
                           \/ RRMarkReserved(k) \/ RRMarkFailed(k) \/ CacheSync(k)
  BY <1>2 DEF RRStart, RRMarkPending, RRAwait, RRInstr, RRMarkReserved, RRMarkFailed,
              CacheSync, vars
<1>3. CASE BrokerStep
  BY <1>3 DEF BrokerStep, Next
<1>4. CASE RFinished \/ UNCHANGED allVars
  BY <1>4 DEF RFinished, allVars, vars
<1>. QED
  BY <1>1, <1>2, <1>3, <1>4 DEF RNext

\* The requester composed with the broker implements the broker's safety
\* specification: every behaviour of RSpec, seen through the broker's
\* variables, is one the broker alone allows, so no reconciler step (a
\* retry, a stale cache read, a lost answer) changes a broker record.
THEOREM RequesterRefinesBroker == RSpec => BrokerSafety
<1>1. RInit => Init
  BY DEF RInit
<1>2. [RNext]_allVars => [Next]_vars
  BY RStepIsBrokerStep
<1>. QED
  BY <1>1, <1>2, PTL DEF RSpec, BrokerSafety

-----------------------------------------------------------------------------
(* The reconciler's steps.                                                 *)

\* Reconcile enters at "idle", "markPending" or "send".
LEMMA EntryPCType ==
    ASSUME NEW o \in RRRec
    PROVE  EntryPC(o) \in {"idle", "markPending", "send"}
BY DEF EntryPC, RRRec, Phases

\* doWithRetry's outcome after a failed attempt: send again or fail.
LEMMA RetryOrFailType ==
    ASSUME NEW h \in RCRec
    PROVE  RetryOrFail(h) \in RCRec /\ RetryOrFail(h).pc \in {"send", "markFailed"}
<1>1. CASE h.tries < MaxPostRetries
  <2>1. h.tries + 1 \in 0..MaxPostRetries
    BY <1>1, BoundsAssumption DEF RCRec
  <2>. QED
    BY <1>1, <2>1 DEF RetryOrFail, RCRec, RCPC
<1>2. CASE ~(h.tries < MaxPostRetries)
  BY <1>2 DEF RetryOrFail, RCRec, RCPC
<1>. QED
  BY <1>1, <1>2

\* A broker step keeps what the reconciler relies on: it touches no
\* reconciler state, and the calls it relies on have answered for good.
LEMMA BrokerSideRecInv ==
    ASSUME RecInv, DoneStable, UNCHANGED rrVars
    PROVE  RecInv'
<1>1. RRType' /\ AwaitOwnCall'
  BY DEF RecInv, RRType, AwaitOwnCall, AwaitOwn, rrVars
<1>2. \A k \in RRs, n \in Requests : Answered201(k, n) =>
          Answered201(k, n)' /\ hs'[n].target = hs[n].target
  BY DEF DoneStable, Answered201, rrVars
<1>3. SuccessPath'
  BY <1>2 DEF RecInv, SuccessPath, Success, Answered201, rrVars
<1>4. StoredReserved'
  BY <1>2 DEF RecInv, StoredReserved, StoredRes, Answered201, rrVars
<1>. QED
  BY <1>1, <1>3, <1>4 DEF RecInv

\* A step of the reconciler of k that makes no broker call: the broker and
\* the call owners stay, no other key's locals or stored object change, no
\* instruction disappears, and the facts hold of k after it.
LEMMA ReconcilerFrame ==
    ASSUME RecInv, NEW k \in RRs, UNCHANGED <<vars, owner>>,
           rc' \in [RRs -> RCRec], \A j \in RRs \ {k} : rc'[j] = rc[j],
           rrStore' \in [RRs -> RRRec], \A j \in RRs \ {k} : rrStore'[j] = rrStore[j],
           rrCache' \in [RRs -> RRRec], dirty' \in [RRs -> BOOLEAN],
           resInstr \subseteq resInstr', resInstr' \subseteq Requests,
           AwaitOwn(k)', Success(k)', StoredRes(k)'
    PROVE  RecInv'
<1>1. \A j \in RRs, n \in Requests : Answered201(j, n)' = Answered201(j, n)
  BY DEF Answered201, vars
<1>2. RRType'
  BY DEF RecInv, RRType
<1>3. AwaitOwnCall'
  BY DEF RecInv, AwaitOwnCall, AwaitOwn
<1>4. SuccessPath'
  BY <1>1 DEF RecInv, SuccessPath, Success, Answered201, vars
<1>5. StoredReserved'
  BY <1>1 DEF RecInv, StoredReserved, StoredRes, Answered201, vars
<1>. QED
  BY <1>2, <1>3, <1>4, <1>5 DEF RecInv

\* Reconcile picks up a key from the cache and enters before the broker call.
LEMMA RRStartRecInv ==
    ASSUME RecInv, NEW k \in RRs, RRStart(k)
    PROVE  RecInv'
<1>1. rrCache[k] \in RRRec /\ rc \in [RRs -> RCRec]
  BY DEF RecInv, RRType
<1>2. /\ rc'[k] = [pc |-> EntryPC(rrCache[k]), obj |-> rrCache[k], call |-> NoCall,
                   tries |-> 0, target |-> NoCluster, name |-> NoCall]
      /\ \A j \in RRs \ {k} : rc'[j] = rc[j]
  BY <1>1 DEF RRStart
<1>3. rc'[k] \in RCRec /\ rc'[k].pc \in {"idle", "markPending", "send"}
  BY <1>1, <1>2, EntryPCType, BoundsAssumption DEF RCRec, RCPC
<1>4. rc' \in [RRs -> RCRec]
  BY <1>1, <1>2, <1>3 DEF RRStart
<1>5. AwaitOwn(k)' /\ Success(k)'
  BY <1>3 DEF AwaitOwn, Success
<1>6. StoredRes(k)'
  BY DEF RRStart, RecInv, StoredReserved, StoredRes, Answered201, vars
<1>7. dirty' \in [RRs -> BOOLEAN]
  BY DEF RRStart, RecInv, RRType
<1>. QED
  BY <1>2, <1>4, <1>5, <1>6, <1>7, ReconcilerFrame DEF RRStart, RecInv, RRType

\* The informer delivers the stored object to the cache and queues the key.
LEMMA CacheSyncRecInv ==
    ASSUME RecInv, NEW k \in RRs, CacheSync(k)
    PROVE  RecInv'
<1>1. rrCache' \in [RRs -> RRRec] /\ dirty' \in [RRs -> BOOLEAN]
  BY DEF CacheSync, RecInv, RRType
<1>2. AwaitOwn(k)' /\ Success(k)' /\ StoredRes(k)'
  BY DEF CacheSync, RecInv, AwaitOwnCall, AwaitOwn, SuccessPath, Success,
         StoredReserved, StoredRes, Answered201, vars
<1>. QED
  BY <1>1, <1>2, ReconcilerFrame DEF CacheSync, RecInv, RRType

\* A status write either stores the new status at the next version or
\* fails, changing nothing stored.
LEMMA StatusWriteFacts ==
    ASSUME RecInv, NEW k \in RRs, NEW ph \in Phases, NEW t \in Clusters \cup {NoCluster},
           NEW n \in Requests \cup {NoCall}, StatusWrite(k, ph, t, n)
    PROVE  /\ rrStore' \in [RRs -> RRRec] /\ dirty' \in [RRs -> BOOLEAN]
           /\ \A j \in RRs \ {k} : rrStore'[j] = rrStore[j]
           /\ \/ rrStore' = rrStore
              \/ /\ rrStore' # rrStore
                 /\ rrStore'[k] = [phase |-> ph, target |-> t, name |-> n,
                                   rv |-> rrStore[k].rv + 1]
<1>1. rrStore \in [RRs -> RRRec] /\ dirty \in [RRs -> BOOLEAN]
  BY DEF RecInv, RRType
<1>2. CASE /\ rrStore' = [rrStore EXCEPT ![k] =
                            [phase |-> ph, target |-> t, name |-> n,
                             rv |-> rrStore[k].rv + 1]]
           /\ UNCHANGED dirty
  <2>1. rrStore'[k].rv # rrStore[k].rv
    BY <1>1, <1>2 DEF RRRec
  <2>. QED
    BY <1>1, <1>2, <2>1 DEF RRRec
<1>3. CASE UNCHANGED rrStore /\ dirty' = [dirty EXCEPT ![k] = TRUE]
  BY <1>1, <1>3
<1>. QED
  BY <1>2, <1>3 DEF StatusWrite

\* Marking Pending leads to the broker call or back to idle.
LEMMA RRMarkPendingRecInv ==
    ASSUME RecInv, NEW k \in RRs, RRMarkPending(k)
    PROVE  RecInv'
<1>1. rc \in [RRs -> RCRec] /\ rc[k].pc = "markPending"
  BY DEF RRMarkPending, RecInv, RRType
<1>2. /\ rrStore' \in [RRs -> RRRec] /\ dirty' \in [RRs -> BOOLEAN]
      /\ \A j \in RRs \ {k} : rrStore'[j] = rrStore[j]
      /\ \/ rrStore' = rrStore
         \/ /\ rrStore' # rrStore
            /\ rrStore'[k].phase = "Pending"
  <2>1. StatusWrite(k, "Pending", NoCluster, NoCall)
    BY DEF RRMarkPending
  <2>2. "Pending" \in Phases /\ NoCluster \in Clusters \cup {NoCluster}
        /\ NoCall \in Requests \cup {NoCall}
    BY DEF Phases
  <2>3. /\ rrStore' \in [RRs -> RRRec] /\ dirty' \in [RRs -> BOOLEAN]
        /\ \A j \in RRs \ {k} : rrStore'[j] = rrStore[j]
        /\ \/ rrStore' = rrStore
           \/ /\ rrStore' # rrStore
              /\ rrStore'[k] = [phase |-> "Pending", target |-> NoCluster, name |-> NoCall,
                                rv |-> rrStore[k].rv + 1]
    BY ZenonT(30), <2>1, <2>2, StatusWriteFacts
  <2>. QED
    BY <2>3
<1>3. rc'[k] \in RCRec /\ rc'[k].pc \in {"send", "idle"} /\ \A j \in RRs \ {k} : rc'[j] = rc[j]
  <2>1. CASE rrStore' # rrStore
    <3>1. rc'[k] = [rc[k] EXCEPT !.pc = "send", !.obj = rrStore'[k]]
      BY ZenonT(30), <1>1, <2>1 DEF RRMarkPending
    <3>. QED
      BY <1>1, <1>2, <2>1, <3>1 DEF RRMarkPending, RCRec, RCPC
  <2>2. CASE rrStore' = rrStore
    <3>1. rc'[k] = [rc[k] EXCEPT !.pc = "idle"]
      BY ZenonT(30), <1>1, <2>2 DEF RRMarkPending
    <3>. QED
      BY <1>1, <2>2, <3>1 DEF RRMarkPending, RCRec, RCPC
  <2>. QED
    BY <2>1, <2>2
<1>4. rc' \in [RRs -> RCRec]
  BY <1>1, <1>3 DEF RRMarkPending
<1>5. StoredRes(k)'
  BY <1>2 DEF RRMarkPending, RecInv, StoredReserved, StoredRes, Answered201, vars
<1>6. AwaitOwn(k)' /\ Success(k)'
  BY <1>3 DEF AwaitOwn, Success
<1>. QED
  BY <1>2, <1>3, <1>4, <1>5, <1>6, ReconcilerFrame DEF RRMarkPending, RecInv, RRType

\* The last status write of a Reconcile, Reserved only from "markReserved".
LEMMA FinalWriteRecInv ==
    ASSUME RecInv, NEW k \in RRs, NEW ph \in {"Reserved", "Failed"},
           rc[k].pc \in {"markReserved", "markFailed"},
           ph = "Reserved" => rc[k].pc = "markReserved",
           StatusWrite(k, ph, rc[k].target, rc[k].name),
           rc' = [rc EXCEPT ![k].pc = "idle"],
           UNCHANGED <<vars, rrCache, owner, resInstr>>
    PROVE  RecInv'
<1>1. rc \in [RRs -> RCRec]
  BY DEF RecInv, RRType
<1>2. ph \in Phases /\ rc[k].target \in Clusters \cup {NoCluster}
      /\ rc[k].name \in Requests \cup {NoCall}
  BY <1>1 DEF Phases, RCRec
<1>3. /\ rrStore' \in [RRs -> RRRec] /\ dirty' \in [RRs -> BOOLEAN]
      /\ \A j \in RRs \ {k} : rrStore'[j] = rrStore[j]
      /\ \/ rrStore' = rrStore
         \/ rrStore'[k] = [phase |-> ph, target |-> rc[k].target, name |-> rc[k].name,
                           rv |-> rrStore[k].rv + 1]
  BY ZenonT(30), <1>2, StatusWriteFacts
<1>4. rc'[k] \in RCRec /\ rc'[k].pc = "idle" /\ rc' \in [RRs -> RCRec]
  BY <1>1 DEF RCRec, RCPC
<1>5. AwaitOwn(k)' /\ Success(k)'
  BY <1>4 DEF AwaitOwn, Success
<1>6. StoredRes(k)'
  <2>1. CASE rrStore' = rrStore
    BY <2>1 DEF RecInv, StoredReserved, StoredRes, Answered201, vars
  <2>2. CASE rrStore'[k] = [phase |-> ph, target |-> rc[k].target, name |-> rc[k].name,
                            rv |-> rrStore[k].rv + 1]
    <3>1. CASE ph = "Reserved"
      <4>1. Success(k)
        BY DEF RecInv, SuccessPath
      <4>. QED
        BY <2>2, <3>1, <4>1 DEF Success, StoredRes, Answered201, vars
    <3>2. CASE ph = "Failed"
      BY <2>2, <3>2 DEF StoredRes
    <3>. QED
      BY <3>1, <3>2
  <2>. QED
    BY <1>3, <2>1, <2>2
<1>7. /\ \A j \in RRs \ {k} : rc'[j] = rc[j]
      /\ rrCache' \in [RRs -> RRRec] /\ resInstr' \subseteq Requests
  BY <1>1 DEF RecInv, RRType
<1>. QED
  BY <1>3, <1>4, <1>5, <1>6, <1>7, ReconcilerFrame

\* Writing the phase Reserved, or Failed, ends the Reconcile.
LEMMA RRMarkRecInv ==
    ASSUME RecInv, NEW k \in RRs, RRMarkReserved(k) \/ RRMarkFailed(k)
    PROVE  RecInv'
<1>1. CASE RRMarkReserved(k)
  BY <1>1, FinalWriteRecInv DEF RRMarkReserved
<1>2. CASE RRMarkFailed(k)
  BY <1>2, FinalWriteRecInv DEF RRMarkFailed
<1>. QED
  BY <1>1, <1>2

\* Replacing the locals of one Reconcile by well-typed ones.
LEMMA RcUpdate ==
    ASSUME NEW k \in RRs, rc \in [RRs -> RCRec], NEW v \in RCRec,
           rc' = [rc EXCEPT ![k] = v]
    PROVE  rc' \in [RRs -> RCRec] /\ rc'[k] = v /\ \A j \in RRs \ {k} : rc'[j] = rc[j]
OBVIOUS

\* The ReservationInstruction is created under the name of the call that
\* answered 201, or its creation fails.
LEMMA RRInstrRecInv ==
    ASSUME RecInv, NEW k \in RRs, RRInstr(k)
    PROVE  RecInv'
<1>. DEFINE n == rc[k].call
<1>1. rc \in [RRs -> RCRec] /\ rc[k].pc = "instr" /\ resInstr \subseteq Requests
  BY DEF RRInstr, RecInv, RRType
<1>2. Answered201(k, n) /\ rc[k].target = hs[n].target
  BY <1>1 DEF RecInv, SuccessPath, Success
<1>3. UNCHANGED <<vars, rrStore, rrCache, dirty, owner>>
  BY DEF RRInstr
<1>4. StoredRes(k)' /\ AwaitOwn(k)'
  <2>1. resInstr \subseteq resInstr'
    BY DEF RRInstr
  <2>2. rc'[k].pc # "await"
    BY ZenonT(30), <1>1 DEF RRInstr, RCRec
  <2>. QED
    BY <1>3, <2>1, <2>2 DEF RecInv, StoredReserved, StoredRes, Answered201, vars, AwaitOwn
<1>5. CASE resInstr' = resInstr \cup {n}
           /\ rc' = [rc EXCEPT ![k] = [@ EXCEPT !.pc = "markReserved", !.name = n]]
  <2>. DEFINE v == [rc[k] EXCEPT !.pc = "markReserved", !.name = n]
  <2>1. rc' = [rc EXCEPT ![k] = v]
    BY ZenonT(30), <1>1, <1>5
  <2>4. v \in RCRec
    BY <1>1, <1>2 DEF Answered201, RCRec, RCPC
  <2>2. rc'[k] \in RCRec /\ rc' \in [RRs -> RCRec] /\ rc'[k] = v
    BY <1>1, <2>1, <2>4, RcUpdate
  <2>3. Success(k)'
    BY <1>1, <1>2, <1>3, <1>5, <2>2 DEF Success, Answered201, vars, RCRec
  <2>. QED
    BY <1>1, <1>2, <1>3, <1>4, <1>5, <2>2, <2>3, ReconcilerFrame DEF RecInv, RRType,
       Answered201
<1>6. CASE UNCHANGED resInstr
           /\ rc' = [rc EXCEPT ![k] = [@ EXCEPT !.pc = "markFailed", !.name = n]]
  <2>. DEFINE v == [rc[k] EXCEPT !.pc = "markFailed", !.name = n]
  <2>1. rc' = [rc EXCEPT ![k] = v]
    BY ZenonT(30), <1>1, <1>6
  <2>4. v \in RCRec /\ v.pc = "markFailed"
    BY <1>1, <1>2 DEF Answered201, RCRec, RCPC
  <2>2. rc'[k] \in RCRec /\ rc' \in [RRs -> RCRec] /\ rc'[k].pc = "markFailed"
    BY <1>1, <2>1, <2>4, RcUpdate
  <2>3. Success(k)'
    BY <2>2 DEF Success
  <2>. QED
    BY <1>1, <1>3, <1>4, <1>6, <2>2, <2>3, ReconcilerFrame DEF RecInv, RRType
<1>. QED
  BY <1>5, <1>6 DEF RRInstr

\* The outcome of the call: a 201 of the reconciler's own call goes to the
\* success path, every other outcome away from it.
LEMMA RRAwaitRecInv ==
    ASSUME IInv, RecInv, NEW k \in RRs, RRAwait(k)
    PROVE  RecInv'
<1>. DEFINE r == rc[k].call
<1>1. rc \in [RRs -> RCRec] /\ rc[k].pc = "await" /\ resInstr \subseteq Requests
  BY DEF RRAwait, RecInv, RRType
<1>2. r \in Requests /\ owner[r] = k /\ hs[r] \in HandlerRec
  BY <1>1, IInvTypes DEF RecInv, AwaitOwnCall, AwaitOwn, HsType
<1>3. UNCHANGED <<vars, rrStore, rrCache, dirty, owner, resInstr>>
  BY DEF RRAwait
<1>4. StoredRes(k)'
  BY <1>3 DEF RecInv, StoredReserved, StoredRes, Answered201, vars
<1>5. \A j \in RRs \ {k} : rc'[j] = rc[j]
  BY <1>1 DEF RRAwait
<1>6. CASE hs[r].pc = "done" /\ hs[r].resp = "201"
           /\ rc' = [rc EXCEPT ![k] = [@ EXCEPT !.pc = "instr", !.target = hs[r].target]]
  <2>. DEFINE v == [rc[k] EXCEPT !.pc = "instr", !.target = hs[r].target]
  <2>1. rc' = [rc EXCEPT ![k] = v]
    BY ZenonT(30), <1>1, <1>6
  <2>5. hs[r].target \in Clusters \cup {NoCluster} /\ rc[k] \in RCRec
    BY <1>1, <1>2 DEF HandlerRec
  <2>4. v \in RCRec
    BY <2>5 DEF RCRec, RCPC
  <2>2. rc'[k] \in RCRec /\ rc' \in [RRs -> RCRec] /\ rc'[k] = v
    BY <1>1, <2>1, <2>4, RcUpdate
  <2>3. Success(k)' /\ AwaitOwn(k)'
    BY <1>1, <1>2, <1>3, <1>6, <2>2 DEF Success, AwaitOwn, Answered201, vars, RCRec
  <2>. QED
    BY <1>1, <1>3, <1>4, <1>5, <2>2, <2>3, ReconcilerFrame DEF RecInv, RRType
<1>7. CASE \/ rc' = [rc EXCEPT ![k] = [@ EXCEPT !.pc = "markFailed"]]
           \/ rc' = [rc EXCEPT ![k] = RetryOrFail(rc[k])]
  <2>1. rc'[k] \in RCRec /\ rc'[k].pc \in {"markFailed", "send"}
    BY <1>1, <1>7, RetryOrFailType DEF RCRec, RCPC
  <2>2. rc' \in [RRs -> RCRec]
    BY <1>1, <1>5, <1>7, <2>1
  <2>3. Success(k)' /\ AwaitOwn(k)'
    BY <2>1 DEF Success, AwaitOwn
  <2>. QED
    BY <1>1, <1>3, <1>4, <1>5, <2>2, <2>3, ReconcilerFrame DEF RecInv, RRType
<1>. QED
  BY <1>6, <1>7 DEF RRAwait

\* A send takes a call id no one used, which a fresh handler receives: the
\* calls the other keys rely on keep their owner and their answer.
LEMMA RRSendRecInv ==
    ASSUME IInv, SInv, AInv, RecInv, NEW k \in RRs, RRSend(k)
    PROVE  RecInv'
<1>1. rc \in [RRs -> RCRec] /\ owner \in [Requests -> RRs \cup {NoRR}]
  BY DEF RecInv, RRType
<1>2. PICK r \in Requests :
          /\ owner[r] = NoRR
          /\ Receive(r, Home, RRReq[k])
          /\ owner' = [owner EXCEPT ![r] = k]
          /\ rc' = [rc EXCEPT ![k] = [@ EXCEPT !.pc = "await", !.call = r]]
  BY DEF RRSend
<1>3. UNCHANGED <<rrStore, rrCache, dirty, resInstr>>
  BY DEF RRSend
<1>4. DoneStable
  <2>1. Home \in Clusters /\ RRReq[k] \in ReqChoices
    BY RequesterAssumption
  <2>2. HandlerLocal(r)
    BY <1>2, <2>1, ReceiveAInv
  <2>. QED
    BY <2>2, LocalDoneStable
<1>. DEFINE v == [rc[k] EXCEPT !.pc = "await", !.call = r]
<1>5. rc' \in [RRs -> RCRec] /\ rc'[k] = v /\ \A j \in RRs \ {k} : rc'[j] = rc[j]
  <2>1. rc' = [rc EXCEPT ![k] = v]
    BY ZenonT(30), <1>1, <1>2
  <2>2. v \in RCRec
    BY <1>1 DEF RCRec, RCPC
  <2>. QED
    BY <1>1, <2>1, <2>2, RcUpdate
<1>6. /\ owner' \in [Requests -> RRs \cup {NoRR}]
      /\ owner'[r] = k
      /\ \A m \in Requests : owner[m] # NoRR => owner'[m] = owner[m]
  BY <1>1, <1>2
<1>7. \A j \in RRs, n \in Requests : Answered201(j, n) =>
          Answered201(j, n)' /\ hs'[n].target = hs[n].target
  BY <1>4, <1>6, RequesterAssumption DEF DoneStable, Answered201
<1>8. RRType'
  BY <1>3, <1>5, <1>6 DEF RecInv, RRType
<1>9. AwaitOwnCall'
  <2>1. AwaitOwn(k)'
    BY <1>1, <1>5, <1>6 DEF AwaitOwn, RCRec
  <2>2. ASSUME NEW j \in RRs \ {k} PROVE AwaitOwn(j)'
    BY <1>5, <1>6, RequesterAssumption DEF RecInv, AwaitOwnCall, AwaitOwn
  <2>. QED
    BY <2>1, <2>2 DEF AwaitOwnCall
<1>10. SuccessPath'
  <2>1. Success(k)'
    BY <1>1, <1>5 DEF Success, RCRec
  <2>2. ASSUME NEW j \in RRs \ {k} PROVE Success(j)'
    <3>1. Success(j) /\ rc'[j] = rc[j]
      BY <1>5 DEF RecInv, SuccessPath
    <3>. QED
      BY <1>3, <1>7, <3>1 DEF Success, Answered201
  <2>. QED
    BY <2>1, <2>2 DEF SuccessPath
<1>11. StoredReserved'
  BY <1>3, <1>7 DEF RecInv, StoredReserved, StoredRes, Answered201
<1>. QED
  BY <1>8, <1>9, <1>10, <1>11 DEF RecInv

-----------------------------------------------------------------------------
(* RInv is inductive.                                                      *)

\* Every ResourceRequest starts unset and queued, with no call made.
LEMMA InitRInv == RInit => RInv
<1>. SUFFICES ASSUME RInit PROVE RInv
  OBVIOUS
<1>1. IInv /\ SInv /\ AInv
  BY InitIInv, InitSInv, InitAInv DEF RInit
<1>2. rrStore \in [RRs -> RRRec] /\ rrCache \in [RRs -> RRRec]
  BY DEF RInit, RRRec, Phases
<1>3. rc \in [RRs -> RCRec]
  BY <1>2, BoundsAssumption DEF RInit, RCRec, RCPC
<1>4. RRType
  BY <1>2, <1>3, RequesterAssumption DEF RInit, RRType
<1>5. AwaitOwnCall /\ SuccessPath /\ StoredReserved
  BY DEF RInit, AwaitOwnCall, AwaitOwn, SuccessPath, Success, StoredReserved, StoredRes
<1>. QED
  BY <1>1, <1>4, <1>5 DEF RInv, RecInv

\* Every step of the composition keeps RInv.
LEMMA NextRInv ==
    ASSUME RInv, [RNext]_allVars
    PROVE  RInv'
<1>1. IInv /\ SInv /\ AInv /\ RecInv
  BY DEF RInv
<1>2. [Next]_vars
  BY RStepIsBrokerStep
<1>3. IInv' /\ SInv' /\ AInv' /\ DoneStable
  BY <1>1, <1>2, NextIInv, NextSInv, NextAInv
<1>4. RecInv'
  <2>1. CASE \E k \in RRs : RRSend(k)
    BY <1>1, <2>1, RRSendRecInv
  <2>2. CASE \E k \in RRs : RRStart(k) \/ CacheSync(k) \/ RRMarkPending(k)
    BY <1>1, <2>2, RRStartRecInv, CacheSyncRecInv, RRMarkPendingRecInv
  <2>3. CASE \E k \in RRs : RRAwait(k) \/ RRInstr(k) \/ RRMarkReserved(k) \/ RRMarkFailed(k)
    BY <1>1, <2>3, RRAwaitRecInv, RRInstrRecInv, RRMarkRecInv
  <2>4. CASE BrokerStep \/ RFinished \/ UNCHANGED allVars
    <3>1. UNCHANGED rrVars
      BY <2>4 DEF BrokerStep, RFinished, allVars
    <3>. QED
      BY <1>1, <1>3, <3>1, BrokerSideRecInv
  <2>. QED
    BY <2>1, <2>2, <2>3, <2>4 DEF RNext
<1>. QED
  BY <1>3, <1>4 DEF RInv

\* RInv gives both invariants the requester run checks.
LEMMA RInvProperties ==
    ASSUME RInv
    PROVE  RTypeOK /\ ReservedRequestHasLock
<1>1. RTypeOK
  BY DEF RInv, IInv, RecInv, RRType, RTypeOK
<1>2. ASSUME NEW k \in RRs, rrStore[k].phase = "Reserved"
      PROVE  LET n == rrStore[k].name
             IN  /\ n \in locked
                 /\ owner[n] = k
                 /\ rsv[n] # NoRsv /\ rsv[n].target = rrStore[k].target
                 /\ n \in resInstr
  <2>1. StoredRes(k)
    BY DEF RInv, RecInv, StoredReserved
  <2>. QED
    BY <1>2, <2>1 DEF StoredRes, Answered201, RInv, AInv, AnsweredLocked, TargetRecorded
<1>. QED
  BY <1>1, <1>2 DEF ReservedRequestHasLock

\* The requester composed with the broker is well-typed in every reachable
\* state, retries, lost answers and stale cache reads included.
THEOREM RequesterTypeCorrect == RSpec => []RTypeOK
<1>1. RInit => RInv
  BY InitRInv
<1>2. RInv /\ [RNext]_allVars => RInv'
  BY NextRInv
<1>3. RInv => RTypeOK
  BY RInvProperties
<1>. QED
  BY <1>1, <1>2, <1>3, PTL DEF RSpec

\* A ResourceRequest stored as Reserved names a broker call of its own whose
\* lock was applied, whose Reservation records the target the
\* ResourceRequest records, and whose ReservationInstruction exists: the
\* reconciler takes only the 201 of its own call (RRAwait), the handler
\* answers 201 only after its lock Update (MarkReserved), and the status
\* write carries the target and name of that call (RRMarkReserved).
THEOREM ReservedRequestHasLockInvariant == RSpec => []ReservedRequestHasLock
<1>1. RInit => RInv
  BY InitRInv
<1>2. RInv /\ [RNext]_allVars => RInv'
  BY NextRInv
<1>3. RInv => ReservedRequestHasLock
  BY RInvProperties
<1>. QED
  BY <1>1, <1>2, <1>3, PTL DEF RSpec

====
