---------------------------- MODULE BrokerProofs ----------------------------
(***************************************************************************)
(* Proofs about Broker for every value of its constants.                   *)
(*                                                                         *)
(* TypeOK is not inductive by itself: LockGet reads the target's stored    *)
(* advertisement, LockUpdate the copy it computed, Create the requester    *)
(* and target chosen earlier, and Enforce the quantity of the Reservation  *)
(* behind a ProviderInstruction.  IInv adds the facts that make those      *)
(* reads well-typed.                                                       *)
(***************************************************************************)
EXTENDS Broker, TLAPS

\* Handler states that follow a successful decision.
Decided == {"create", "finalizer", "lockGet", "lockUpdate", "markFailed", "markReserved"}

\* Handler states in which the lock loop has not yet given up.
LockPending == {"idle", "decide", "create", "finalizer", "lockGet", "lockUpdate"}

IInv ==
    /\ TypeOK
    /\ \A r \in Requests : hs[r].pc # "idle" => hs[r].requester \in Clusters
    /\ \A r \in Requests : hs[r].pc \in Decided =>
           hs[r].target \in Clusters /\ adv[hs[r].target] # NoAdv
    /\ \A r \in Requests : hs[r].pc \in Decided \ {"create"} => rsv[r] # NoRsv
    /\ \A r \in Requests : hs[r].pc \in LockPending => hs[r].attempt < LockSteps
    /\ \A r \in Requests : hs[r].pc = "lockUpdate" => hs[r].got \in AdvRec
    /\ \A c \in Clusters : \A r \in provInstr[c] : rsv[r] # NoRsv

-----------------------------------------------------------------------------
(* Lemmas on the resource arithmetic.                                      *)

\* The availability computation of the calculator never yields a negative
\* quantity, whatever Allocated and Reserved are (the clamp at zero).
LEMMA CalculateAvailableType ==
    ASSUME NEW a \in Quantity, NEW b \in Quantity, NEW r \in Quantity \cup {Nil}
    PROVE  CalculateAvailable(a, b, r) \in Quantity
BY DEF CalculateAvailable, Clamp, ReservedOrZero, Quantity, Zero

\* Summing two quantities (AddReservation's Reserved += req, the agent's
\* enforced total) gives a quantity.
LEMMA AddQType ==
    ASSUME NEW a \in Quantity, NEW b \in Quantity
    PROVE  AddQ(a, b) \in Quantity
BY DEF AddQ, Quantity

\* AddReservation applied to a stored advertisement gives a well-formed one.
LEMMA AddReservationType ==
    ASSUME NEW a \in AdvRec, NEW al \in Quantity, NEW ad \in Quantity,
           NEW q \in Quantity
    PROVE  AddReservation(a, al, ad, q) \in AdvRec
<1>1. ReservedOrZero(a.reserved) \in Quantity
  BY DEF AdvRec, ReservedOrZero, Zero, Quantity
<1>2. AddQ(ReservedOrZero(a.reserved), q) \in Quantity
  BY <1>1, AddQType
<1>3. CalculateAvailable(al, ad, AddQ(ReservedOrZero(a.reserved), q)) \in Quantity
  BY <1>2, CalculateAvailableType
<1>. QED
  BY <1>2, <1>3 DEF AddReservation, AdvRec

-----------------------------------------------------------------------------
(* The initial state.                                                      *)

\* The broker starts with no records and every handler idle, which IInv allows.
LEMMA InitIInv == Init => IInv
<1>. SUFFICES ASSUME Init PROVE IInv
  OBVIOUS
<1>1. Zero \in Quantity
  BY DEF Zero, Quantity
<1>2. hs \in [Requests -> HandlerRec]
  BY <1>1, BoundsAssumption DEF Init, HandlerRec, HandlerPC, Responses
<1>3. pub \in [Clusters -> PubRec]
  BY <1>1, BoundsAssumption DEF Init, PubRec
<1>4. TypeOK
  BY <1>1, <1>2, <1>3 DEF Init, TypeOK
<1>. QED
  BY <1>4, BoundsAssumption DEF Init, IInv, Decided, LockPending

-----------------------------------------------------------------------------
(* One lemma per action: each preserves IInv.                              *)

\* The type facts of IInv, named so that a proof step expands only those it
\* uses.
AdvType == adv \in [Clusters -> AdvRec \cup {NoAdv}]
RsvType == rsv \in [Requests -> RsvRec \cup {NoRsv}]
HsType == hs \in [Requests -> HandlerRec]
PubType == pub \in [Clusters -> PubRec]
EnforcedQType == enforcedQ \in [Clusters -> Quantity]
ProvInstrType == provInstr \in [Clusters -> SUBSET Requests]
EnforcedType == enforced \in [Clusters -> SUBSET Requests]
LockedType == locked \in SUBSET Requests
LockTotalType == lockTotal \in [Clusters -> Quantity]

\* IInv gives each of the named type facts.
LEMMA IInvTypes ==
    ASSUME IInv
    PROVE  /\ AdvType /\ RsvType /\ HsType /\ PubType /\ EnforcedQType
           /\ ProvInstrType /\ EnforcedType /\ LockedType /\ LockTotalType
BY DEF IInv, TypeOK, AdvType, RsvType, HsType, PubType, EnforcedQType,
       ProvInstrType, EnforcedType, LockedType, LockTotalType

\* TypeOK is the conjunction of the named facts.
LEMMA TypeFromParts ==
    ASSUME AdvType', RsvType', HsType', PubType', EnforcedQType',
           ProvInstrType', EnforcedType', LockedType', LockTotalType'
    PROVE  TypeOK'
BY Zenon DEF TypeOK, AdvType, RsvType, HsType, PubType, EnforcedQType,
             ProvInstrType, EnforcedType, LockedType, LockTotalType

\* Moving a handler to another point of PostReservation keeps its locals
\* well-typed.
LEMMA HandlerPcType ==
    ASSUME HsType, NEW r \in Requests, NEW p \in HandlerPC
    PROVE  [hs EXCEPT ![r].pc = p] \in [Requests -> HandlerRec]
<1>1. [hs[r] EXCEPT !.pc = p] \in HandlerRec
  BY DEF HsType, HandlerRec
<1>. QED
  BY <1>1 DEF HsType

\* A handler that answers (pc "done" with a response code) keeps its locals
\* well-typed.
LEMMA HandlerAnswerType ==
    ASSUME HsType, NEW r \in Requests, NEW v \in Responses
    PROVE  [hs EXCEPT ![r] = [@ EXCEPT !.pc = "done", !.resp = v]]
               \in [Requests -> HandlerRec]
<1>1. "done" \in HandlerPC
  BY DEF HandlerPC
<1>2. [hs[r] EXCEPT !.pc = "done", !.resp = v] \in HandlerRec
  BY <1>1 DEF HsType, HandlerRec
<1>. QED
  BY <1>2 DEF HsType

\* A step of a PostReservation goroutine that keeps the Reservations and
\* the handler locals well-typed and touches nothing else keeps TypeOK.
LEMMA HandlerFrame ==
    ASSUME IInv, RsvType', HsType',
           UNCHANGED <<adv, pub, provInstr, enforced, enforcedQ, locked, lockTotal>>
    PROVE  TypeOK'
BY Zenon DEF IInv, TypeOK, RsvType, HsType

\* IInv' from its conjuncts, for a step that leaves provInstr alone.
LEMMA IInvFromParts ==
    ASSUME TypeOK',
           \A k \in Requests : hs'[k].pc # "idle" => hs'[k].requester \in Clusters,
           \A k \in Requests : hs'[k].pc \in Decided =>
               hs'[k].target \in Clusters /\ adv'[hs'[k].target] # NoAdv,
           \A k \in Requests : hs'[k].pc \in Decided \ {"create"} => rsv'[k] # NoRsv,
           \A k \in Requests : hs'[k].pc \in LockPending => hs'[k].attempt < LockSteps,
           \A k \in Requests : hs'[k].pc = "lockUpdate" => hs'[k].got \in AdvRec,
           \A c \in Clusters : \A k \in provInstr'[c] : rsv'[k] # NoRsv
    PROVE  IInv'
BY Zenon DEF IInv

\* A handler that answers without writing any record keeps IInv: its own
\* locals leave every constrained state, the others are unchanged.
LEMMA HandlerAnswerIInv ==
    ASSUME IInv, NEW r \in Requests, NEW v \in Responses, hs[r].pc # "idle",
           hs' = [hs EXCEPT ![r] = [@ EXCEPT !.pc = "done", !.resp = v]],
           UNCHANGED <<adv, rsv, pub, provInstr, enforced, enforcedQ, locked, lockTotal>>
    PROVE  IInv'
<1>1. HsType'
  BY Zenon, IInvTypes, HandlerAnswerType DEF HsType
<1>2. TypeOK'
  BY <1>1, HandlerFrame, IInvTypes DEF RsvType
<1>3. \A k \in Requests \ {r} : hs'[k] = hs[k]
  BY IInvTypes DEF HsType
<1>4. hs'[r].pc = "done" /\ hs'[r].requester = hs[r].requester
  BY IInvTypes DEF HsType, HandlerRec
<1>5. hs[r].requester \in Clusters
  BY DEF IInv
<1>6. \A k \in Requests : hs'[k].pc # "idle" => hs'[k].requester \in Clusters
  BY <1>3, <1>4, <1>5 DEF IInv
<1>7. \A k \in Requests : hs'[k].pc \in Decided =>
          hs'[k].target \in Clusters /\ adv'[hs'[k].target] # NoAdv
  BY <1>3, <1>4 DEF IInv, Decided
<1>8. \A k \in Requests : hs'[k].pc \in Decided \ {"create"} => rsv'[k] # NoRsv
  BY <1>3, <1>4 DEF IInv, Decided
<1>9. \A k \in Requests : hs'[k].pc \in LockPending => hs'[k].attempt < LockSteps
  BY <1>3, <1>4 DEF IInv, LockPending
<1>10. \A k \in Requests : hs'[k].pc = "lockUpdate" => hs'[k].got \in AdvRec
  BY <1>3, <1>4 DEF IInv
<1>11. \A c \in Clusters : \A k \in provInstr'[c] : rsv'[k] # NoRsv
  BY DEF IInv
<1>. QED
  BY Zenon, <1>2, <1>6, <1>7, <1>8, <1>9, <1>10, <1>11, IInvFromParts

\* Accepting a call (decoded body, requester from the certificate) keeps IInv.
LEMMA ReceiveIInv ==
    ASSUME IInv, NEW r \in Requests, NEW c \in Clusters, NEW q \in ReqChoices,
           Receive(r, c, q)
    PROVE  IInv'
<1>1. q \in Quantity
  BY ReqChoicesAssumption
<1>2. hs' \in [Requests -> HandlerRec]
  <2>1. [hs[r] EXCEPT !.pc = "decide", !.requester = c, !.req = q] \in HandlerRec
    BY <1>1, IInvTypes DEF HsType, HandlerRec, HandlerPC
  <2>. QED
    BY <2>1, IInvTypes DEF HsType, Receive
<1>3. TypeOK'
  BY <1>2 DEF IInv, TypeOK, Receive
<1>. QED
  BY <1>3 DEF IInv, Receive, Decided, LockPending

\* SelectBestCluster only picks a cluster whose advertisement is stored, so
\* the later lock Get finds it.
LEMMA DecideIInv ==
    ASSUME IInv, NEW r \in Requests, Decide(r)
    PROVE  IInv'
<1>1. hs[r].pc = "decide"
  BY DEF Decide
<1>0. UNCHANGED <<adv, rsv, pub, provInstr, enforced, enforcedQ, locked, lockTotal>>
  BY DEF Decide
<1>2. CASE hs' = [hs EXCEPT ![r] = [@ EXCEPT !.pc = "done", !.resp = "409"]]
  BY <1>0, <1>1, <1>2, HandlerAnswerIInv DEF Responses
<1>3. CASE hs' = [hs EXCEPT ![r] = [@ EXCEPT !.pc = "done", !.resp = "400"]]
  BY <1>0, <1>1, <1>3, HandlerAnswerIInv DEF Responses
<1>4. CASE \E t \in Candidates(hs[r].requester, hs[r].req) :
             hs' = [hs EXCEPT ![r] = [@ EXCEPT !.pc = "create", !.target = t]]
  <2>1. PICK t \in Candidates(hs[r].requester, hs[r].req) :
             hs' = [hs EXCEPT ![r] = [@ EXCEPT !.pc = "create", !.target = t]]
    BY <1>4
  <2>2. t \in Clusters /\ adv[t] # NoAdv
    BY DEF Candidates
  <2>3. hs' \in [Requests -> HandlerRec]
    BY ZenonT(30), <2>1, <2>2, IInvTypes DEF HsType, HandlerRec, HandlerPC
  <2>4. TypeOK'
    BY <2>3 DEF IInv, TypeOK, Decide
  <2>. QED
    BY <1>0, <1>1, <2>1, <2>2, <2>4, IInvTypes DEF IInv, HsType, Decided, LockPending
<1>. QED
  BY <1>2, <1>3, <1>4 DEF Decide

\* The Reservation the handler wrote is still there, whatever field of it
\* a later step of the handler changed.
LEMMA RsvFieldUpdate ==
    ASSUME IInv, NEW r \in Requests, rsv[r] \in RsvRec,
           NEW v \in RsvRec, rsv' = [rsv EXCEPT ![r] = v]
    PROVE  RsvType' /\ \A k \in Requests : rsv[k] # NoRsv => rsv'[k] # NoRsv
BY IInvTypes, SentinelAssumption DEF RsvType

\* Creating the Reservation, or failing to, keeps IInv; from here on the
\* handler's Reservation exists.
LEMMA CreateIInv ==
    ASSUME IInv, NEW r \in Requests, Create(r)
    PROVE  IInv'
<1>1. /\ hs[r].pc = "create"
      /\ hs[r].requester \in Clusters
      /\ hs[r].target \in Clusters
      /\ hs[r].req \in Quantity
  BY IInvTypes DEF Create, IInv, Decided, HsType, HandlerRec
<1>2. UNCHANGED <<adv, pub, provInstr, enforced, enforcedQ, locked, lockTotal>>
  BY DEF Create
<1>3. CASE /\ rsv' = [rsv EXCEPT ![r] = [requester |-> hs[r].requester,
                                          target |-> hs[r].target, req |-> hs[r].req,
                                          phase |-> "Unset", finalizers |-> {}]]
           /\ hs' = [hs EXCEPT ![r].pc = "finalizer"]
  <2>1. RsvType' /\ rsv'[r] # NoRsv
    BY <1>1, <1>3, IInvTypes, SentinelAssumption DEF RsvType, RsvRec
  <2>2. HsType'
    BY <1>3, IInvTypes, HandlerPcType DEF HsType, HandlerPC
  <2>. QED
    BY <1>1, <1>2, <1>3, <2>1, <2>2, HandlerFrame, IInvTypes
       DEF IInv, HsType, RsvType, Decided, LockPending
<1>4. CASE /\ hs' = [hs EXCEPT ![r] = [@ EXCEPT !.pc = "done", !.resp = "500"]]
           /\ UNCHANGED rsv
  BY <1>1, <1>2, <1>4, HandlerAnswerIInv DEF Responses
<1>. QED
  BY <1>3, <1>4 DEF Create

\* Adding the finalizer, whether its Update succeeds or not, keeps IInv.
LEMMA AddFinalizerIInv ==
    ASSUME IInv, NEW r \in Requests, AddFinalizer(r)
    PROVE  IInv'
<1>1. hs[r].pc = "finalizer" /\ rsv[r] \in RsvRec
  BY IInvTypes DEF AddFinalizer, IInv, Decided, RsvType
<1>2. /\ RsvType'
      /\ \A k \in Requests : rsv[k] # NoRsv => rsv'[k] # NoRsv
  <2>1. CASE rsv' = [rsv EXCEPT ![r].finalizers = @ \cup {ReservationFinalizer}]
    <3>1. [rsv[r] EXCEPT !.finalizers = @ \cup {ReservationFinalizer}] \in RsvRec
      BY <1>1 DEF RsvRec
    <3>. QED
      BY <1>1, <2>1, <3>1, RsvFieldUpdate
  <2>2. CASE UNCHANGED rsv
    BY <2>2, IInvTypes DEF RsvType
  <2>. QED
    BY <2>1, <2>2 DEF AddFinalizer
<1>3. HsType'
  BY IInvTypes DEF AddFinalizer, HsType, HandlerRec, HandlerPC
<1>4. /\ UNCHANGED <<adv, pub, provInstr, enforced, enforcedQ, locked, lockTotal>>
      /\ hs' = [hs EXCEPT ![r].pc = "lockGet"]
  BY DEF AddFinalizer
<1>5. TypeOK'
  BY <1>2, <1>3, <1>4, HandlerFrame
<1>6. \A k \in Requests : hs'[k].pc = hs[k].pc \/ (k = r /\ hs'[k].pc = "lockGet")
  BY <1>4, IInvTypes DEF HsType
<1>7. \A k \in Requests : /\ hs'[k].requester = hs[k].requester
                         /\ hs'[k].target = hs[k].target
                         /\ hs'[k].attempt = hs[k].attempt
                         /\ hs'[k].got = hs[k].got
  BY <1>4, IInvTypes DEF HsType
<1>8. \A k \in Requests : hs'[k].pc # "idle" => hs'[k].requester \in Clusters
  BY <1>1, <1>6, <1>7 DEF IInv
<1>9. \A k \in Requests : hs'[k].pc \in Decided =>
          hs'[k].target \in Clusters /\ adv'[hs'[k].target] # NoAdv
  BY <1>1, <1>4, <1>6, <1>7 DEF IInv, Decided
<1>10. \A k \in Requests : hs'[k].pc \in Decided \ {"create"} => rsv'[k] # NoRsv
  BY <1>1, <1>2, <1>6, SentinelAssumption DEF IInv, Decided
<1>11. \A k \in Requests : hs'[k].pc \in LockPending => hs'[k].attempt < LockSteps
  BY <1>1, <1>6, <1>7 DEF IInv, LockPending
<1>12. \A k \in Requests : hs'[k].pc = "lockUpdate" => hs'[k].got \in AdvRec
  BY <1>6, <1>7 DEF IInv
<1>13. \A c \in Clusters : \A k \in provInstr'[c] : rsv'[k] # NoRsv
  BY <1>2, <1>4, IInvTypes DEF IInv, ProvInstrType
<1>. QED
  BY <1>5, <1>8, <1>9, <1>10, <1>11, <1>12, <1>13 DEF IInv

\* The lock's Get and AddReservation on the local copy keep IInv.
LEMMA LockGetIInv ==
    ASSUME IInv, NEW r \in Requests, LockGet(r)
    PROVE  IInv'
<1>. DEFINE t == hs[r].target
            a == adv[t]
<1>1. /\ hs[r].pc = "lockGet"
      /\ t \in Clusters /\ a \in AdvRec
      /\ hs[r].req \in Quantity
      /\ rsv[r] # NoRsv
      /\ hs[r].attempt < LockSteps
  BY IInvTypes DEF LockGet, IInv, Decided, LockPending, AdvType, HsType, HandlerRec
<1>2. UNCHANGED <<adv, rsv, pub, provInstr, enforced, enforcedQ, locked, lockTotal>>
  BY DEF LockGet
<1>3. \A k \in Requests \ {r} : hs'[k] = hs[k]
  BY IInvTypes DEF LockGet, HsType
<1>4. /\ hs' \in [Requests -> HandlerRec]
      /\ hs'[r].pc \in {"lockUpdate", "markFailed"}
      /\ hs'[r].requester = hs[r].requester
      /\ hs'[r].target = t
      /\ hs'[r].attempt = hs[r].attempt
      /\ hs'[r].pc = "lockUpdate" => hs'[r].got \in AdvRec
  <2>1. AddReservation(a, Allocatable[t], Allocated[t], hs[r].req) \in AdvRec
    BY <1>1, MetricsAssumption, AddReservationType
  <2>2. CASE hs' = [hs EXCEPT ![r] = [@ EXCEPT !.pc = "lockUpdate",
                 !.got = AddReservation(a, Allocatable[t], Allocated[t], hs[r].req)]]
    BY ZenonT(30), <1>1, <2>1, <2>2, IInvTypes DEF HsType, HandlerRec, HandlerPC
  <2>3. CASE hs' = [hs EXCEPT ![r].pc = "markFailed"]
    BY <1>1, <2>3, IInvTypes DEF HsType, HandlerRec, HandlerPC
  <2>. QED
    BY <2>2, <2>3 DEF LockGet
<1>5. TypeOK'
  BY <1>2, <1>4, IInvTypes, HandlerFrame DEF HsType, RsvType
<1>. QED
  BY <1>1, <1>2, <1>3, <1>4, <1>5, IInvFromParts, IInvTypes
     DEF IInv, Decided, LockPending, ProvInstrType

\* The lock's compare-and-swap Update, or the retry after a conflict,
\* keeps IInv: the retry count never passes retry.DefaultRetry.Steps.
LEMMA LockUpdateIInv ==
    ASSUME IInv, NEW r \in Requests, LockUpdate(r)
    PROVE  IInv'
<1>. DEFINE hr == hs[r]
            t == hr.target
<1>1. /\ hr.pc = "lockUpdate"
      /\ t \in Clusters /\ adv[t] \in AdvRec
      /\ hr.req \in Quantity /\ hr.got \in AdvRec
      /\ rsv[r] # NoRsv
      /\ hr.attempt \in 0..LockSteps /\ hr.attempt < LockSteps
  BY IInvTypes DEF LockUpdate, IInv, Decided, LockPending, AdvType, HsType, HandlerRec
<1>2. UNCHANGED <<rsv, pub, provInstr, enforced, enforcedQ>>
  BY DEF LockUpdate
<1>3. /\ RsvType' /\ PubType' /\ ProvInstrType' /\ EnforcedType' /\ EnforcedQType'
  BY <1>2, IInvTypes DEF RsvType, PubType, ProvInstrType, EnforcedType, EnforcedQType
<1>4. \A k \in Requests \ {r} : hs'[k] = hs[k]
  BY IInvTypes DEF LockUpdate, HsType, AfterConflict
<1>5. CASE /\ adv[t].rv = hr.got.rv
           /\ adv' = [adv EXCEPT ![t] = [hr.got EXCEPT !.rv = @ + 1]]
           /\ locked' = locked \cup {r}
           /\ lockTotal' = [lockTotal EXCEPT ![t] = AddQ(@, hr.req)]
           /\ hs' = [hs EXCEPT ![r].pc = "markReserved"]
  <2>1. [hr.got EXCEPT !.rv = @ + 1] \in AdvRec
    BY <1>1 DEF AdvRec
  <2>2. AdvType' /\ \A c \in Clusters : adv'[c] # NoAdv \/ adv'[c] = adv[c]
    BY <1>1, <1>5, <2>1, IInvTypes, SentinelAssumption DEF AdvType
  <2>3. AddQ(lockTotal[t], hr.req) \in Quantity
    BY <1>1, IInvTypes, AddQType DEF LockTotalType
  <2>4. LockedType' /\ LockTotalType'
    BY <1>5, <2>3, IInvTypes DEF LockedType, LockTotalType
  <2>5. HsType' /\ hs'[r].pc = "markReserved"
    BY <1>1, <1>5, IInvTypes DEF HsType, HandlerRec, HandlerPC
  <2>6. TypeOK'
    BY <1>3, <2>2, <2>4, <2>5, TypeFromParts
  <2>7. \A k \in Requests : /\ hs'[k].requester = hs[k].requester
                            /\ hs'[k].target = hs[k].target
    BY SMTT(20), <1>5, IInvTypes DEF HsType
  <2>. QED
    BY <1>1, <1>2, <1>4, <2>2, <2>5, <2>6, <2>7, IInvFromParts, IInvTypes
       DEF IInv, Decided, LockPending, ProvInstrType
<1>6. CASE /\ adv[t].rv # hr.got.rv
           /\ hs' = [hs EXCEPT ![r] = AfterConflict(hs[r])]
           /\ UNCHANGED <<adv, locked, lockTotal>>
  <2>1. AdvType' /\ LockedType' /\ LockTotalType'
    BY <1>6, IInvTypes DEF AdvType, LockedType, LockTotalType
  <2>2. /\ AfterConflict(hr) \in HandlerRec
        /\ AfterConflict(hr).pc \in {"lockGet", "markFailed"}
        /\ AfterConflict(hr).pc = "lockGet" => AfterConflict(hr).attempt < LockSteps
        /\ AfterConflict(hr).requester = hr.requester
        /\ AfterConflict(hr).target = hr.target
    <3>0. hr \in HandlerRec
      BY IInvTypes DEF HsType
    <3>1. hr \in HandlerRec /\ hr.attempt + 1 \in 0..LockSteps
      BY <1>1, <3>0, BoundsAssumption
    <3>2. CASE hr.attempt + 1 < LockSteps
      BY <1>1, <3>1, <3>2, BoundsAssumption DEF AfterConflict, HandlerRec, HandlerPC
    <3>3. CASE ~(hr.attempt + 1 < LockSteps)
      BY <1>1, <3>1, <3>3, BoundsAssumption DEF AfterConflict, HandlerRec, HandlerPC
    <3>. QED
      BY <3>2, <3>3
  <2>3. HsType'
    BY <1>6, <2>2, IInvTypes DEF HsType
  <2>4. TypeOK'
    BY <1>3, <2>1, <2>3, TypeFromParts
  <2>. QED
    BY <1>1, <1>2, <1>4, <1>6, <2>2, <2>4, IInvFromParts, IInvTypes
       DEF IInv, Decided, LockPending, ProvInstrType, HsType
<1>. QED
  BY <1>5, <1>6 DEF LockUpdate

\* Marking the Reservation Failed (error discarded) keeps IInv.
LEMMA MarkFailedIInv ==
    ASSUME IInv, NEW r \in Requests, MarkFailed(r)
    PROVE  IInv'
<1>1. hs[r].pc = "markFailed" /\ rsv[r] \in RsvRec
  BY IInvTypes DEF MarkFailed, IInv, Decided, RsvType
<1>2. /\ RsvType'
      /\ \A k \in Requests : rsv[k] # NoRsv => rsv'[k] # NoRsv
  <2>1. CASE rsv' = [rsv EXCEPT ![r].phase = "Failed"]
    <3>1. [rsv[r] EXCEPT !.phase = "Failed"] \in RsvRec
      BY <1>1 DEF RsvRec
    <3>. QED
      BY <1>1, <2>1, <3>1, RsvFieldUpdate
  <2>2. CASE UNCHANGED rsv
    BY <2>2, IInvTypes DEF RsvType
  <2>. QED
    BY <2>1, <2>2 DEF MarkFailed
<1>3. /\ UNCHANGED <<adv, pub, provInstr, enforced, enforcedQ, locked, lockTotal>>
      /\ hs' = [hs EXCEPT ![r] = [@ EXCEPT !.pc = "done", !.resp = "409"]]
  BY DEF MarkFailed
<1>4. HsType'
  BY <1>3, IInvTypes, HandlerAnswerType DEF HsType, Responses
<1>5. TypeOK'
  BY <1>2, <1>3, <1>4, HandlerFrame
<1>6. \A k \in Requests \ {r} : hs'[k] = hs[k]
  BY <1>3, IInvTypes DEF HsType
<1>7. hs'[r].pc = "done" /\ hs'[r].requester = hs[r].requester
  BY <1>3, IInvTypes DEF HsType
<1>. QED
  BY <1>1, <1>2, <1>3, <1>5, <1>6, <1>7, IInvFromParts, IInvTypes
     DEF IInv, Decided, LockPending, ProvInstrType

\* Marking the Reservation Reserved (error only logged) keeps IInv.
LEMMA MarkReservedIInv ==
    ASSUME IInv, NEW r \in Requests, MarkReserved(r)
    PROVE  IInv'
<1>1. hs[r].pc = "markReserved" /\ rsv[r] \in RsvRec
  BY IInvTypes DEF MarkReserved, IInv, Decided, RsvType
<1>2. /\ RsvType'
      /\ \A k \in Requests : rsv[k] # NoRsv => rsv'[k] # NoRsv
  <2>1. CASE rsv' = [rsv EXCEPT ![r].phase = "Reserved"]
    <3>1. [rsv[r] EXCEPT !.phase = "Reserved"] \in RsvRec
      BY <1>1 DEF RsvRec
    <3>. QED
      BY <1>1, <2>1, <3>1, RsvFieldUpdate
  <2>2. CASE UNCHANGED rsv
    BY <2>2, IInvTypes DEF RsvType
  <2>. QED
    BY <2>1, <2>2 DEF MarkReserved
<1>3. /\ UNCHANGED <<adv, pub, provInstr, enforced, enforcedQ, locked, lockTotal>>
      /\ hs' = [hs EXCEPT ![r] = [@ EXCEPT !.pc = "done", !.resp = "201"]]
  BY DEF MarkReserved
<1>4. HsType'
  BY <1>3, IInvTypes, HandlerAnswerType DEF HsType, Responses
<1>5. TypeOK'
  BY <1>2, <1>3, <1>4, HandlerFrame
<1>6. \A k \in Requests \ {r} : hs'[k] = hs[k]
  BY <1>3, IInvTypes DEF HsType
<1>7. hs'[r].pc = "done" /\ hs'[r].requester = hs[r].requester
  BY <1>3, IInvTypes DEF HsType
<1>. QED
  BY <1>1, <1>2, <1>3, <1>5, <1>6, <1>7, IInvFromParts, IInvTypes
     DEF IInv, Decided, LockPending, ProvInstrType

\* A step of an agent or of the advertisement intake leaves the handlers
\* and the Reservations alone and never removes an advertisement.
LEMMA AgentFrame ==
    ASSUME IInv, TypeOK', hs' = hs, rsv' = rsv,
           \A c \in Clusters : adv[c] # NoAdv => adv'[c] # NoAdv,
           \A c \in Clusters : \A k \in provInstr'[c] : rsv'[k] # NoRsv
    PROVE  IInv'
<1>1. \A k \in Requests : hs'[k].pc \in Decided =>
          hs'[k].target \in Clusters /\ adv'[hs'[k].target] # NoAdv
  BY DEF IInv
<1>. QED
  BY <1>1, IInvFromParts DEF IInv

\* The agent's metrics collection and GET keep IInv: its Available is
\* clamped at zero.
LEMMA AgentCollectIInv ==
    ASSUME IInv, NEW c \in Clusters, AgentCollect(c)
    PROVE  IInv'
<1>1. /\ pub[c] \in PubRec
      /\ pub[c].count + 1 \in 0..MaxPublish
      /\ AgentAvailable(c) \in Quantity
      /\ (IF adv[c] = NoAdv THEN Nil ELSE adv[c].reserved) \in Quantity \cup {Nil}
  <2>1. pub[c] \in PubRec /\ enforcedQ[c] \in Quantity /\ adv[c] \in AdvRec \cup {NoAdv}
    BY IInvTypes DEF PubType, EnforcedQType, AdvType
  <2>2. pub[c].count + 1 \in 0..MaxPublish
    BY <2>1, BoundsAssumption DEF AgentCollect, PubRec
  <2>3. AgentAvailable(c) \in Quantity
    BY <2>1, MetricsAssumption, CalculateAvailableType DEF AgentAvailable
  <2>. QED
    BY <2>1, <2>2, <2>3 DEF AdvRec
<1>2. PubType'
  <2>. DEFINE av == AgentAvailable(c)
              rs == IF adv[c] = NoAdv THEN Nil ELSE adv[c].reserved
              n == pub[c].count + 1
  <2>1. pub' = [pub EXCEPT ![c] = [@ EXCEPT !.pc = "post", !.avail = av, !.res = rs,
                                            !.tries = 0, !.count = n]]
    BY Zenon DEF AgentCollect, av, rs, n
  <2>2. /\ av \in Quantity /\ rs \in Quantity \cup {Nil} /\ n \in 0..MaxPublish
        /\ 0 \in 0..MaxPostRetries
    BY <1>1, BoundsAssumption DEF av, rs, n
  <2>. HIDE DEF av, rs, n
  <2>. QED
    BY <1>1, <2>1, <2>2, IInvTypes DEF PubType, PubRec
<1>3. UNCHANGED <<adv, rsv, hs, provInstr, enforced, enforcedQ, locked, lockTotal>>
  BY DEF AgentCollect
<1>4. TypeOK'
  BY <1>2, <1>3, IInvTypes, TypeFromParts
     DEF AdvType, RsvType, HsType, EnforcedQType, ProvInstrType, EnforcedType,
         LockedType, LockTotalType
<1>. QED
  BY <1>3, <1>4, AgentFrame DEF IInv

\* The intake's Get of the stored advertisement keeps IInv.
LEMMA IntakeGetIInv ==
    ASSUME IInv, NEW c \in Clusters, IntakeGet(c)
    PROVE  IInv'
<1>1. pub[c] \in PubRec /\ adv[c] \in AdvRec \cup {NoAdv}
  BY IInvTypes DEF PubType, AdvType
<1>2. PubType'
  BY <1>1, IInvTypes DEF IntakeGet, PubType, PubRec
<1>3. UNCHANGED <<adv, rsv, hs, provInstr, enforced, enforcedQ, locked, lockTotal>>
  BY DEF IntakeGet
<1>4. TypeOK'
  BY <1>2, <1>3, IInvTypes, TypeFromParts
     DEF AdvType, RsvType, HsType, EnforcedQType, ProvInstrType, EnforcedType,
         LockedType, LockTotalType
<1>. QED
  BY <1>3, <1>4, AgentFrame DEF IInv

\* The intake's Update or Create, the piggybacked instructions, and the
\* doWithRetry retry after a 5xx keep IInv.
LEMMA IntakeWriteIInv ==
    ASSUME IInv, NEW c \in Clusters, IntakeWrite(c)
    PROVE  IInv'
<1>1. pub[c] \in PubRec /\ pub[c].existing \in AdvRec \cup {NoAdv}
  BY IInvTypes DEF PubType, PubRec
<1>2. UNCHANGED <<rsv, hs, enforced, enforcedQ, locked, lockTotal>>
  BY DEF IntakeWrite
<1>3. /\ RsvType' /\ HsType' /\ EnforcedType' /\ EnforcedQType'
      /\ LockedType' /\ LockTotalType'
  BY <1>2, IInvTypes DEF RsvType, HsType, EnforcedType, EnforcedQType,
                         LockedType, LockTotalType
<1>4. CASE /\ ~IntakeConflict(c)
           /\ adv' = [adv EXCEPT ![c] = IntakeRecord(c, pub[c].existing)]
           /\ \E S \in SUBSET PiggybackInstructions(c) :
                provInstr' = [provInstr EXCEPT ![c] = @ \cup S]
           /\ pub' = [pub EXCEPT ![c].pc = "idle"]
  <2>1. IntakeRecord(c, pub[c].existing) \in AdvRec
    BY <1>1 DEF IntakeRecord, AdvRec, PubRec
  <2>2. AdvType' /\ \A d \in Clusters : adv'[d] # NoAdv \/ adv'[d] = adv[d]
    BY <1>4, <2>1, IInvTypes, SentinelAssumption DEF AdvType
  <2>3. PiggybackInstructions(c) \subseteq Requests
        /\ \A k \in PiggybackInstructions(c) : rsv[k] # NoRsv
    BY DEF PiggybackInstructions
  <2>4. ProvInstrType' /\ \A d \in Clusters : \A k \in provInstr'[d] : rsv'[k] # NoRsv
    <3>1. PICK S \in SUBSET PiggybackInstructions(c) :
                provInstr' = [provInstr EXCEPT ![c] = @ \cup S]
      BY <1>4
    <3>. QED
      BY <1>2, <2>3, <3>1, IInvTypes DEF ProvInstrType, IInv
  <2>5. PubType'
    BY <1>1, <1>4, IInvTypes DEF PubType, PubRec
  <2>6. TypeOK'
    BY <1>3, <2>2, <2>4, <2>5, TypeFromParts
  <2>. QED
    BY <1>2, <2>2, <2>4, <2>6, AgentFrame
<1>5. CASE /\ IntakeConflict(c)
           /\ pub' = [pub EXCEPT ![c] = AfterPostError(pub[c])]
           /\ UNCHANGED <<adv, provInstr>>
  <2>1. AfterPostError(pub[c]) \in PubRec
    <3>1. CASE pub[c].tries < MaxPostRetries
      <4>1. pub[c].tries + 1 \in 0..MaxPostRetries
        BY <1>1, <3>1, BoundsAssumption DEF PubRec
      <4>. QED
        BY <1>1, <3>1, <4>1 DEF AfterPostError, PubRec
    <3>2. CASE ~(pub[c].tries < MaxPostRetries)
      BY <1>1, <3>2 DEF AfterPostError, PubRec
    <3>. QED
      BY <3>1, <3>2
  <2>2. AdvType' /\ ProvInstrType' /\ PubType'
    BY <1>5, <2>1, IInvTypes DEF AdvType, ProvInstrType, PubType
  <2>3. TypeOK'
    BY <1>3, <2>2, TypeFromParts
  <2>. QED
    BY <1>2, <1>5, <2>3, AgentFrame DEF IInv
<1>. QED
  BY <1>4, <1>5 DEF IntakeWrite

\* A poller tick keeps IInv: it only adds instructions of stored Reservations.
LEMMA PollIInv ==
    ASSUME IInv, NEW c \in Clusters, Poll(c)
    PROVE  IInv'
<1>1. UNCHANGED <<adv, rsv, hs, pub, enforced, enforcedQ, locked, lockTotal>>
  BY DEF Poll
<1>2. provInstr' = [provInstr EXCEPT ![c] = @ \cup PolledInstructions(c)]
  BY DEF Poll
<1>3. PolledInstructions(c) \subseteq Requests
      /\ \A k \in PolledInstructions(c) : rsv[k] # NoRsv
  BY DEF PolledInstructions
<1>4. ProvInstrType' /\ \A d \in Clusters : \A k \in provInstr'[d] : rsv'[k] # NoRsv
  BY <1>1, <1>2, <1>3, IInvTypes DEF ProvInstrType, IInv
<1>5. TypeOK'
  BY <1>1, <1>4, IInvTypes, TypeFromParts
     DEF AdvType, RsvType, HsType, PubType, EnforcedQType, EnforcedType,
         LockedType, LockTotalType
<1>. QED
  BY <1>1, <1>4, <1>5, AgentFrame

\* Enforcing an instruction reads a Reservation that exists and keeps IInv.
LEMMA EnforceIInv ==
    ASSUME IInv, NEW c \in Clusters, NEW r \in Requests, Enforce(c, r)
    PROVE  IInv'
<1>1. UNCHANGED <<adv, rsv, hs, pub, provInstr, locked, lockTotal>>
  BY DEF Enforce
<1>2. rsv[r] \in RsvRec /\ enforcedQ[c] \in Quantity
  BY IInvTypes DEF Enforce, IInv, RsvType, EnforcedQType
<1>3. AddQ(enforcedQ[c], rsv[r].req) \in Quantity
  BY <1>2, AddQType DEF RsvRec
<1>4. EnforcedType' /\ EnforcedQType'
  BY <1>3, IInvTypes DEF Enforce, EnforcedType, EnforcedQType
<1>5. TypeOK'
  BY <1>1, <1>4, IInvTypes, TypeFromParts
     DEF AdvType, RsvType, HsType, PubType, ProvInstrType, LockedType, LockTotalType
<1>. QED
  BY <1>1, <1>5, AgentFrame DEF IInv

-----------------------------------------------------------------------------
(* IInv is inductive, so TypeOK holds in every reachable state.            *)

\* A stuttering step, or the terminal Finished step, changes nothing.
LEMMA StutterIInv ==
    ASSUME IInv, UNCHANGED vars
    PROVE  IInv'
BY DEF vars, IInv, TypeOK, Decided, LockPending

\* Every step of the system keeps IInv.
LEMMA NextIInv ==
    ASSUME IInv, [Next]_vars
    PROVE  IInv'
<1>1. CASE \E r \in Requests, c \in Clusters, q \in ReqChoices : Receive(r, c, q)
  BY <1>1, ReceiveIInv
<1>2. CASE \E r \in Requests : HandlerStep(r)
  BY <1>2, DecideIInv, CreateIInv, AddFinalizerIInv, LockGetIInv, LockUpdateIInv,
     MarkFailedIInv, MarkReservedIInv DEF HandlerStep
<1>3. CASE \E c \in Clusters : AgentCollect(c) \/ IntakeGet(c) \/ IntakeWrite(c) \/ Poll(c)
  BY <1>3, AgentCollectIInv, IntakeGetIInv, IntakeWriteIInv, PollIInv
<1>4. CASE \E c \in Clusters, r \in Requests : Enforce(c, r)
  BY <1>4, EnforceIInv
<1>5. CASE Finished
  BY <1>5, StutterIInv DEF Finished
<1>6. CASE UNCHANGED vars
  BY <1>6, StutterIInv
<1>. QED
  BY <1>1, <1>2, <1>3, <1>4, <1>5, <1>6 DEF Next

\* Every state the broker, its handlers and the agents reach is well-typed:
\* in particular no lock computes a negative Available and no handler ever
\* reads a Reservation or advertisement that does not exist.
THEOREM TypeCorrect == Spec => []TypeOK
<1>1. Init => IInv
  BY InitIInv
<1>2. IInv /\ [Next]_vars => IInv'
  BY NextIInv
<1>3. IInv => TypeOK
  BY DEF IInv
<1>. QED
  BY <1>1, <1>2, <1>3, PTL DEF Spec

====
