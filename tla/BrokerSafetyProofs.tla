------------------------- MODULE BrokerSafetyProofs -------------------------
(***************************************************************************)
(* ProviderHoldsOnlyLocked for every value of the constants.               *)
(*                                                                         *)
(* A ProviderInstruction is created, by the intake or by the poller, only  *)
(* for a Reservation in phase Reserved whose target is the agent.  That is *)
(* not enough by itself: Create overwrites a Reservation, and a Reserved   *)
(* phase must imply an applied lock.  SInv adds what the handler's order   *)
(* of store calls guarantees:                                              *)
(*  - a handler that has not created its Reservation has none stored, so  *)
(*    Create never replaces a record an instruction was made for;          *)
(*  - MarkReserved runs only after the lock Update was applied;            *)
(*  - so a stored Reserved phase implies an applied lock.                  *)
(***************************************************************************)
EXTENDS BrokerProofs

\* Handler states before Create has written the Reservation.
PreCreate == {"idle", "decide", "create"}

\* A handler that has not created its Reservation has none stored.
NoRsvBeforeCreate == \A r \in Requests : hs[r].pc \in PreCreate => rsv[r] = NoRsv

\* A handler writes the Reserved phase only after its lock was applied.
LockedBeforeMarkReserved == \A r \in Requests : hs[r].pc = "markReserved" => r \in locked

\* A stored Reserved phase implies an applied lock.
ReservedPhaseLocked ==
    \A r \in Requests : rsv[r] # NoRsv /\ rsv[r].phase = "Reserved" => r \in locked

SInv ==
    /\ NoRsvBeforeCreate
    /\ LockedBeforeMarkReserved
    /\ ReservedPhaseLocked
    /\ ProviderHoldsOnlyLocked

-----------------------------------------------------------------------------
(* Two frame lemmas: one for a step of one PostReservation goroutine, one  *)
(* for a step of an agent.                                                 *)

\* A step that changes only handler r's locals and Reservation, never
\* removes a lock and creates no instruction keeps SInv, given the three
\* facts about r that the step must re-establish.
LEMMA HandlerSInv ==
    ASSUME SInv, ProvInstrType, NEW r \in Requests,
           \A k \in Requests \ {r} : hs'[k] = hs[k] /\ rsv'[k] = rsv[k],
           locked \subseteq locked', provInstr' = provInstr,
           hs'[r].pc \in PreCreate => rsv'[r] = NoRsv,
           hs'[r].pc = "markReserved" => r \in locked',
           rsv'[r] # NoRsv /\ rsv'[r].phase = "Reserved" => r \in locked',
           \A c \in Clusters : r \in provInstr[c] =>
               rsv'[r] # NoRsv /\ rsv'[r].target = c
    PROVE  SInv'
<1>1. NoRsvBeforeCreate'
  BY DEF SInv, NoRsvBeforeCreate
<1>2. LockedBeforeMarkReserved'
  BY DEF SInv, LockedBeforeMarkReserved
<1>3. ReservedPhaseLocked'
  BY DEF SInv, ReservedPhaseLocked
<1>4. ProviderHoldsOnlyLocked'
  BY DEF SInv, ProviderHoldsOnlyLocked, ProvInstrType
<1>. QED
  BY <1>1, <1>2, <1>3, <1>4 DEF SInv

\* A step that leaves the handlers, the Reservations and the locks alone
\* and adds only instructions of Reserved-phase Reservations targeting the
\* agent keeps SInv.
LEMMA AgentSInv ==
    ASSUME SInv, UNCHANGED <<rsv, hs, locked>>,
           \A c \in Clusters : provInstr'[c] \subseteq
               provInstr[c] \cup PiggybackInstructions(c)
    PROVE  SInv'
<1>1. /\ NoRsvBeforeCreate' /\ LockedBeforeMarkReserved'
      /\ ReservedPhaseLocked'
  BY DEF SInv, NoRsvBeforeCreate, LockedBeforeMarkReserved, ReservedPhaseLocked
<1>2. ProviderHoldsOnlyLocked'
  BY DEF SInv, ProviderHoldsOnlyLocked, ReservedPhaseLocked, PiggybackInstructions
<1>. QED
  BY <1>1, <1>2 DEF SInv

\* A handler step that writes no record keeps SInv when it does not reach
\* markReserved and enters a state before Create only from one.
LEMMA HandlerPcSInv ==
    ASSUME SInv, ProvInstrType, NEW r \in Requests,
           \A k \in Requests \ {r} : hs'[k] = hs[k],
           hs'[r].pc # "markReserved",
           hs'[r].pc \in PreCreate => hs[r].pc \in PreCreate,
           UNCHANGED <<rsv, provInstr, locked>>
    PROVE  SInv'
<1>1. hs'[r].pc \in PreCreate => rsv'[r] = NoRsv
  BY DEF SInv, NoRsvBeforeCreate
<1>2. rsv'[r] # NoRsv /\ rsv'[r].phase = "Reserved" => r \in locked'
  BY DEF SInv, ReservedPhaseLocked
<1>3. \A c \in Clusters : r \in provInstr[c] => rsv'[r] # NoRsv /\ rsv'[r].target = c
  BY DEF SInv, ProviderHoldsOnlyLocked
<1>. QED
  BY <1>1, <1>2, <1>3, HandlerSInv

-----------------------------------------------------------------------------
(* Where each step of a PostReservation goroutine moves it.  These facts   *)
(* are used by every invariant about the handlers.                         *)

\* No handler but r changes its locals.
OthersUnchanged(r) == \A k \in Requests \ {r} : hs'[k] = hs[k]

\* A conflict leads back to "lockGet" or to "markFailed".
LEMMA AfterConflictPc ==
    ASSUME NEW h \in HandlerRec
    PROVE  AfterConflict(h).pc \in {"lockGet", "markFailed"}
BY DEF AfterConflict, HandlerRec

\* A handler past Create has its Reservation stored.
LEMMA StoredPastCreate ==
    ASSUME IInv, NEW r \in Requests, hs[r].pc \in Decided \ {"create"}
    PROVE  rsv[r] \in RsvRec /\ hs[r] \in HandlerRec
BY IInvTypes DEF IInv, RsvType, HsType

\* Receive starts an idle handler.
LEMMA ReceiveMoves ==
    ASSUME IInv, NEW r \in Requests, NEW c \in Clusters, NEW q \in ReqChoices,
           Receive(r, c, q)
    PROVE  hs[r].pc = "idle" /\ hs'[r].pc = "decide" /\ OthersUnchanged(r)
<1>1. hs[r] \in HandlerRec /\ hs[r].pc = "idle"
  BY IInvTypes DEF HsType, Receive
<1>. QED
  BY <1>1, IInvTypes DEF Receive, HsType, OthersUnchanged

\* The decision answers or goes on to Create.
LEMMA DecideMoves ==
    ASSUME IInv, NEW r \in Requests, Decide(r)
    PROVE  hs[r].pc = "decide" /\ hs'[r].pc \in {"done", "create"} /\ OthersUnchanged(r)
<1>1. hs[r] \in HandlerRec /\ hs[r].pc = "decide"
  BY IInvTypes DEF HsType, Decide
<1>2. CASE hs' = [hs EXCEPT ![r] = [@ EXCEPT !.pc = "done", !.resp = "409"]]
  BY ZenonT(30), <1>1, <1>2, IInvTypes DEF HsType, HandlerRec, OthersUnchanged
<1>3. CASE hs' = [hs EXCEPT ![r] = [@ EXCEPT !.pc = "done", !.resp = "400"]]
  BY ZenonT(30), <1>1, <1>3, IInvTypes DEF HsType, HandlerRec, OthersUnchanged
<1>4. CASE \E t \in Candidates(hs[r].requester, hs[r].req) :
             hs' = [hs EXCEPT ![r] = [@ EXCEPT !.pc = "create", !.target = t]]
  <2>1. PICK t \in Candidates(hs[r].requester, hs[r].req) :
             hs' = [hs EXCEPT ![r] = [@ EXCEPT !.pc = "create", !.target = t]]
    BY <1>4
  <2>. QED
    BY ZenonT(30), <1>1, <2>1, IInvTypes DEF HsType, HandlerRec, OthersUnchanged
<1>. QED
  BY <1>1, <1>2, <1>3, <1>4 DEF Decide

\* Create moves on to the finalizer, or answers 500.
LEMMA CreateMoves ==
    ASSUME IInv, NEW r \in Requests, Create(r)
    PROVE  hs'[r].pc \in {"finalizer", "done"} /\ OthersUnchanged(r)
<1>1. hs[r] \in HandlerRec
  BY IInvTypes DEF HsType
<1>2. CASE hs' = [hs EXCEPT ![r].pc = "finalizer"]
  BY <1>1, <1>2, IInvTypes DEF HsType, HandlerRec, OthersUnchanged
<1>3. CASE hs' = [hs EXCEPT ![r] = [@ EXCEPT !.pc = "done", !.resp = "500"]]
  BY ZenonT(30), <1>1, <1>3, IInvTypes DEF HsType, HandlerRec, OthersUnchanged
<1>. QED
  BY <1>2, <1>3 DEF Create

\* The finalizer step moves on to the lock loop.
LEMMA AddFinalizerMoves ==
    ASSUME IInv, NEW r \in Requests, AddFinalizer(r)
    PROVE  hs'[r].pc = "lockGet" /\ OthersUnchanged(r)
<1>1. hs[r] \in HandlerRec
  BY IInvTypes DEF HsType
<1>. QED
  BY <1>1, IInvTypes DEF AddFinalizer, HsType, HandlerRec, OthersUnchanged

\* The Get half of a lock attempt moves to "lockUpdate" with the record it
\* computed, or to "markFailed".
LEMMA LockGetMoves ==
    ASSUME IInv, NEW r \in Requests, LockGet(r)
    PROVE  LET t == hs[r].target
           IN  /\ \/ /\ hs'[r].pc = "lockUpdate"
                     /\ hs'[r].got = AddReservation(adv[t], Allocatable[t],
                                                    Allocated[t], hs[r].req)
                     /\ hs'[r].target = t /\ hs'[r].req = hs[r].req
                  \/ hs'[r].pc = "markFailed"
               /\ OthersUnchanged(r)
<1>. DEFINE t == hs[r].target
<1>1. hs[r] \in HandlerRec
  BY IInvTypes DEF HsType
<1>2. CASE hs' = [hs EXCEPT ![r] = [@ EXCEPT !.pc = "lockUpdate",
               !.got = AddReservation(adv[t], Allocatable[t], Allocated[t], hs[r].req)]]
  BY ZenonT(30), <1>1, <1>2, IInvTypes DEF HsType, HandlerRec, OthersUnchanged
<1>3. CASE hs' = [hs EXCEPT ![r].pc = "markFailed"]
  BY <1>1, <1>3, IInvTypes DEF HsType, HandlerRec, OthersUnchanged
<1>. QED
  BY <1>2, <1>3 DEF LockGet

\* The lock Update moves to "markReserved", or back into the loop or out
\* of it after a conflict.
LEMMA LockUpdateMoves ==
    ASSUME IInv, NEW r \in Requests, LockUpdate(r)
    PROVE  /\ hs[r].pc = "lockUpdate"
           /\ hs'[r].pc \in {"markReserved", "lockGet", "markFailed"}
           /\ OthersUnchanged(r)
<1>1. hs[r] \in HandlerRec
  BY IInvTypes DEF HsType
<1>2. CASE hs' = [hs EXCEPT ![r].pc = "markReserved"]
  BY <1>1, <1>2, IInvTypes DEF HsType, HandlerRec, OthersUnchanged, LockUpdate
<1>3. CASE hs' = [hs EXCEPT ![r] = AfterConflict(hs[r])]
  BY <1>1, <1>3, AfterConflictPc, IInvTypes DEF HsType, OthersUnchanged, LockUpdate
<1>. QED
  BY <1>2, <1>3 DEF LockUpdate

\* A status write ends the handler.
LEMMA MarkMoves ==
    ASSUME IInv, NEW r \in Requests, MarkFailed(r) \/ MarkReserved(r)
    PROVE  hs'[r].pc = "done" /\ OthersUnchanged(r)
<1>1. hs[r] \in HandlerRec
  BY IInvTypes DEF HsType
<1>. QED
  BY ZenonT(30), <1>1, IInvTypes DEF MarkFailed, MarkReserved, HsType, HandlerRec,
                                     OthersUnchanged

-----------------------------------------------------------------------------
(* One lemma per action.                                                   *)

\* A request received is at "decide", before Create.
LEMMA ReceiveSInv ==
    ASSUME IInv, SInv, NEW r \in Requests, NEW c \in Clusters, NEW q \in ReqChoices,
           Receive(r, c, q)
    PROVE  SInv'
BY ReceiveMoves, IInvTypes, HandlerPcSInv DEF Receive, PreCreate, OthersUnchanged

\* The decision answers, or moves from "decide" to "create"; both come
\* before Create.
LEMMA DecideSInv ==
    ASSUME IInv, SInv, NEW r \in Requests, Decide(r)
    PROVE  SInv'
BY DecideMoves, IInvTypes, HandlerPcSInv DEF Decide, PreCreate, OthersUnchanged

\* The Get half of a lock attempt moves to "lockUpdate" or "markFailed".
LEMMA LockGetSInv ==
    ASSUME IInv, SInv, NEW r \in Requests, LockGet(r)
    PROVE  SInv'
<1>1. hs'[r].pc \in {"lockUpdate", "markFailed"} /\ OthersUnchanged(r)
  BY LockGetMoves
<1>. QED
  BY <1>1, IInvTypes, HandlerPcSInv DEF LockGet, PreCreate, OthersUnchanged

\* A handler step past Create that rewrites its own Reservation, keeping the
\* target and writing the Reserved phase only once locked, keeps SInv.
LEMMA RsvWriteSInv ==
    ASSUME IInv, SInv, NEW r \in Requests, rsv[r] \in RsvRec,
           NEW v \in RsvRec, v.target = rsv[r].target,
           v.phase = "Reserved" => r \in locked,
           rsv' = [rsv EXCEPT ![r] = v],
           \A k \in Requests \ {r} : hs'[k] = hs[k],
           hs'[r].pc \notin PreCreate \cup {"markReserved"},
           UNCHANGED <<provInstr, locked>>
    PROVE  SInv'
<1>1. \A k \in Requests \ {r} : rsv'[k] = rsv[k]
  BY IInvTypes DEF RsvType
<1>2. rsv'[r] = v /\ v # NoRsv
  BY SentinelAssumption, IInvTypes DEF RsvType
<1>3. \A c \in Clusters : r \in provInstr[c] => rsv'[r] # NoRsv /\ rsv'[r].target = c
  BY <1>2 DEF SInv, ProviderHoldsOnlyLocked
<1>. QED
  BY <1>1, <1>2, <1>3, IInvTypes, HandlerSInv

\* Creating the Reservation moves the handler past "create"; the record it
\* writes is not Reserved, and no instruction names it yet.
LEMMA CreateSInv ==
    ASSUME IInv, SInv, NEW r \in Requests, Create(r)
    PROVE  SInv'
<1>1. hs[r] \in HandlerRec /\ hs[r].pc = "create" /\ rsv[r] = NoRsv
  BY IInvTypes DEF HsType, Create, SInv, NoRsvBeforeCreate, PreCreate
<1>2. UNCHANGED <<provInstr, locked>>
  BY DEF Create
<1>3. CASE /\ rsv' = [rsv EXCEPT ![r] = [requester |-> hs[r].requester,
                                          target |-> hs[r].target, req |-> hs[r].req,
                                          phase |-> "Unset", finalizers |-> {}]]
           /\ hs' = [hs EXCEPT ![r].pc = "finalizer"]
  <2>1. \A k \in Requests \ {r} : hs'[k] = hs[k] /\ rsv'[k] = rsv[k]
    BY <1>3, IInvTypes DEF HsType, RsvType
  <2>2. hs'[r].pc = "finalizer" /\ rsv'[r].phase = "Unset"
    BY <1>1, <1>3, IInvTypes DEF HsType, RsvType, HandlerRec
  <2>3. \A c \in Clusters : r \notin provInstr[c]
    BY <1>1 DEF SInv, ProviderHoldsOnlyLocked
  <2>. QED
    BY <1>2, <2>1, <2>2, <2>3, IInvTypes, HandlerSInv DEF PreCreate
<1>4. CASE /\ hs' = [hs EXCEPT ![r] = [@ EXCEPT !.pc = "done", !.resp = "500"]]
           /\ UNCHANGED rsv
  <2>1. hs'[r].pc = "done" /\ \A k \in Requests \ {r} : hs'[k] = hs[k]
    BY ZenonT(30), <1>1, <1>4, IInvTypes DEF HsType, HandlerRec
  <2>. QED
    BY <1>2, <1>4, <2>1, IInvTypes, HandlerPcSInv DEF PreCreate
<1>. QED
  BY <1>3, <1>4 DEF Create

\* Adding the finalizer changes neither the phase nor the target.
LEMMA AddFinalizerSInv ==
    ASSUME IInv, SInv, NEW r \in Requests, AddFinalizer(r)
    PROVE  SInv'
<1>1. rsv[r] \in RsvRec /\ hs[r] \in HandlerRec
  BY StoredPastCreate DEF AddFinalizer, Decided
<1>2. hs'[r].pc = "lockGet" /\ \A k \in Requests \ {r} : hs'[k] = hs[k]
  BY AddFinalizerMoves DEF OthersUnchanged
<1>3. UNCHANGED <<provInstr, locked>>
  BY DEF AddFinalizer
<1>4. CASE rsv' = [rsv EXCEPT ![r].finalizers = @ \cup {ReservationFinalizer}]
  <2>. DEFINE v == [rsv[r] EXCEPT !.finalizers = @ \cup {ReservationFinalizer}]
  <2>1. v \in RsvRec /\ v.target = rsv[r].target /\ v.phase = rsv[r].phase
    BY <1>1 DEF RsvRec
  <2>2. v.phase = "Reserved" => r \in locked
    BY <1>1, <2>1, SentinelAssumption DEF SInv, ReservedPhaseLocked
  <2>3. rsv' = [rsv EXCEPT ![r] = v]
    BY <1>4
  <2>. QED
    BY <1>1, <1>2, <1>3, <2>1, <2>2, <2>3, RsvWriteSInv DEF PreCreate
<1>5. CASE UNCHANGED rsv
  BY <1>2, <1>3, <1>5, IInvTypes, HandlerPcSInv DEF PreCreate
<1>. QED
  BY <1>4, <1>5 DEF AddFinalizer

\* The lock Update adds the request to the applied locks as it moves the
\* handler to "markReserved"; after a conflict the handler never gets there.
LEMMA LockUpdateSInv ==
    ASSUME IInv, SInv, NEW r \in Requests, LockUpdate(r)
    PROVE  SInv'
<1>1. hs[r] \in HandlerRec
  BY StoredPastCreate DEF LockUpdate, Decided
<1>2. UNCHANGED <<rsv, provInstr>>
  BY DEF LockUpdate
<1>3. CASE /\ locked' = locked \cup {r}
           /\ hs' = [hs EXCEPT ![r].pc = "markReserved"]
  <2>1. \A k \in Requests \ {r} : hs'[k] = hs[k] /\ rsv'[k] = rsv[k]
    BY <1>2, <1>3, IInvTypes DEF HsType
  <2>2. hs'[r].pc = "markReserved" /\ r \in locked' /\ locked \subseteq locked'
    BY <1>1, <1>3, IInvTypes DEF HsType, HandlerRec
  <2>3. \A c \in Clusters : r \in provInstr[c] => rsv'[r] # NoRsv /\ rsv'[r].target = c
    BY <1>2 DEF SInv, ProviderHoldsOnlyLocked
  <2>. QED
    BY <1>2, <2>1, <2>2, <2>3, IInvTypes, HandlerSInv DEF PreCreate
<1>4. CASE /\ hs' = [hs EXCEPT ![r] = AfterConflict(hs[r])]
           /\ UNCHANGED locked
  <2>1. hs'[r].pc \in {"lockGet", "markFailed"} /\ \A k \in Requests \ {r} : hs'[k] = hs[k]
    BY <1>1, <1>4, AfterConflictPc, IInvTypes DEF HsType
  <2>. QED
    BY <1>2, <1>4, <2>1, IInvTypes, HandlerPcSInv DEF PreCreate
<1>. QED
  BY <1>3, <1>4 DEF LockUpdate

\* Writing the Failed phase, or failing to, keeps SInv.
LEMMA MarkFailedSInv ==
    ASSUME IInv, SInv, NEW r \in Requests, MarkFailed(r)
    PROVE  SInv'
<1>1. rsv[r] \in RsvRec /\ hs[r] \in HandlerRec
  BY StoredPastCreate DEF MarkFailed, Decided
<1>2. hs'[r].pc = "done" /\ \A k \in Requests \ {r} : hs'[k] = hs[k]
  BY MarkMoves DEF OthersUnchanged
<1>3. UNCHANGED <<provInstr, locked>>
  BY DEF MarkFailed
<1>4. CASE rsv' = [rsv EXCEPT ![r].phase = "Failed"]
  <2>. DEFINE v == [rsv[r] EXCEPT !.phase = "Failed"]
  <2>1. v \in RsvRec /\ v.target = rsv[r].target /\ v.phase = "Failed"
    BY <1>1 DEF RsvRec
  <2>. QED
    BY <1>1, <1>2, <1>3, <1>4, <2>1, RsvWriteSInv DEF PreCreate
<1>5. CASE UNCHANGED rsv
  BY <1>2, <1>3, <1>5, IInvTypes, HandlerPcSInv DEF PreCreate
<1>. QED
  BY <1>4, <1>5 DEF MarkFailed

\* The Reserved phase is written only at "markReserved", after the lock.
LEMMA MarkReservedSInv ==
    ASSUME IInv, SInv, NEW r \in Requests, MarkReserved(r)
    PROVE  SInv'
<1>1. rsv[r] \in RsvRec /\ hs[r] \in HandlerRec
  BY StoredPastCreate DEF MarkReserved, Decided
<1>2. hs'[r].pc = "done" /\ \A k \in Requests \ {r} : hs'[k] = hs[k]
  BY MarkMoves DEF OthersUnchanged
<1>3. UNCHANGED <<provInstr, locked>>
  BY DEF MarkReserved
<1>4. r \in locked
  BY DEF MarkReserved, SInv, LockedBeforeMarkReserved
<1>5. CASE rsv' = [rsv EXCEPT ![r].phase = "Reserved"]
  <2>. DEFINE v == [rsv[r] EXCEPT !.phase = "Reserved"]
  <2>1. v \in RsvRec /\ v.target = rsv[r].target
    BY <1>1 DEF RsvRec
  <2>. QED
    BY <1>1, <1>2, <1>3, <1>4, <1>5, <2>1, RsvWriteSInv DEF PreCreate
<1>6. CASE UNCHANGED rsv
  BY <1>2, <1>3, <1>6, IInvTypes, HandlerPcSInv DEF PreCreate
<1>. QED
  BY <1>5, <1>6 DEF MarkReserved

\* The intake creates only piggybacked instructions; the other agent steps
\* create none.
LEMMA AgentStepSInv ==
    ASSUME IInv, SInv, NEW c \in Clusters,
           AgentCollect(c) \/ IntakeGet(c) \/ IntakeWrite(c) \/ Poll(c)
    PROVE  SInv'
<1>1. CASE AgentCollect(c) \/ IntakeGet(c)
  BY <1>1, AgentSInv DEF AgentCollect, IntakeGet
<1>2. CASE IntakeWrite(c)
  <2>1. UNCHANGED <<rsv, hs, locked>>
    BY <1>2 DEF IntakeWrite
  <2>2. \A d \in Clusters : provInstr'[d] \subseteq provInstr[d] \cup PiggybackInstructions(d)
    BY <1>2, IInvTypes DEF IntakeWrite, ProvInstrType
  <2>. QED
    BY <2>1, <2>2, AgentSInv
<1>3. CASE Poll(c)
  <2>1. PolledInstructions(c) = PiggybackInstructions(c)
    BY DEF PolledInstructions, PiggybackInstructions
  <2>2. \A d \in Clusters : provInstr'[d] \subseteq provInstr[d] \cup PiggybackInstructions(d)
    BY <1>3, <2>1, IInvTypes DEF Poll, ProvInstrType
  <2>. QED
    BY <1>3, <2>2, AgentSInv DEF Poll
<1>. QED
  BY <1>1, <1>2, <1>3

-----------------------------------------------------------------------------
(* IInv /\ SInv is inductive.                                              *)

\* Initially there are no Reservations, no locks and no instructions.
LEMMA InitSInv == Init => SInv
BY DEF Init, SInv, NoRsvBeforeCreate, LockedBeforeMarkReserved,
       ReservedPhaseLocked, ProviderHoldsOnlyLocked

\* Every step of the system keeps SInv, given IInv before it.
LEMMA NextSInv ==
    ASSUME IInv, SInv, [Next]_vars
    PROVE  SInv'
<1>1. CASE \E r \in Requests, c \in Clusters, q \in ReqChoices : Receive(r, c, q)
  BY <1>1, ReceiveSInv
<1>2. CASE \E r \in Requests : HandlerStep(r)
  BY <1>2, DecideSInv, CreateSInv, AddFinalizerSInv, LockGetSInv, LockUpdateSInv,
     MarkFailedSInv, MarkReservedSInv DEF HandlerStep
<1>3. CASE \E c \in Clusters : AgentCollect(c) \/ IntakeGet(c) \/ IntakeWrite(c) \/ Poll(c)
  BY <1>3, AgentStepSInv
<1>4. CASE \E c \in Clusters, r \in Requests : Enforce(c, r)
  BY <1>4, AgentSInv DEF Enforce
<1>5. CASE Finished \/ UNCHANGED vars
  BY <1>5, AgentSInv DEF Finished, vars
<1>. QED
  BY <1>1, <1>2, <1>3, <1>4, <1>5 DEF Next

\* A provider agent holds a ProviderInstruction only for a Reservation whose
\* lock Update was applied, on that very agent's advertisement: neither the
\* advertisement piggyback nor the InstructionPoller can hand an agent a
\* reservation that PostReservation did not lock there.
THEOREM ProviderOnlyLocked == Spec => []ProviderHoldsOnlyLocked
<1>1. Init => IInv /\ SInv
  BY InitIInv, InitSInv
<1>2. IInv /\ SInv /\ [Next]_vars => IInv' /\ SInv'
  BY NextIInv, NextSInv
<1>3. IInv /\ SInv => ProviderHoldsOnlyLocked
  BY DEF SInv
<1>. QED
  BY <1>1, <1>2, <1>3, PTL DEF Spec

====
