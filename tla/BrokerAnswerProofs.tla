------------------------- MODULE BrokerAnswerProofs -------------------------
(***************************************************************************)
(* FailedAnswerHoldsNoLock for every value of the constants.               *)
(*                                                                         *)
(* A 409 is written only where the handler leaves the lock loop without   *)
(* an applied Update (no candidate, a failed fit, the last conflict), and  *)
(* an applied Update leads only to MarkReserved and its 201.  The          *)
(* property is not inductive by itself: it says nothing of a handler that *)
(* holds a lock and has not answered yet.  AnsInv adds                     *)
(*  - a handler that has not finished has not answered (resp "none");     *)
(*  - a handler whose lock was applied is at "markReserved", or has        *)
(*    finished with 201.                                                   *)
(***************************************************************************)
EXTENDS BrokerSafetyProofs

\* A handler that has not finished has written no response.
Unanswered == \A r \in Requests : hs[r].pc # "done" => hs[r].resp = "none"

\* A handler with an applied lock is about to write Reserved, or answered 201.
LockedAnswers201 ==
    \A r \in locked : \/ hs[r].pc = "markReserved"
                      \/ hs[r].pc = "done" /\ hs[r].resp = "201"

AnsInv == Unanswered /\ LockedAnswers201

-----------------------------------------------------------------------------
(* Frame lemma for a step of one PostReservation goroutine.                *)

\* A step of handler r, which had not finished, that keeps r's response
\* unless it finishes, adds no lock but r's, and leaves r in a state
\* LockedAnswers201 allows if r is locked after it, keeps AnsInv.
LEMMA HandlerAnsInv ==
    ASSUME IInv, AnsInv, NEW r \in Requests, OthersUnchanged(r),
           hs[r].pc # "done",
           hs'[r].pc # "done" => hs'[r].resp = hs[r].resp,
           locked' \subseteq locked \cup {r},
           r \in locked' => \/ hs'[r].pc = "markReserved"
                            \/ hs'[r].pc = "done" /\ hs'[r].resp = "201"
    PROVE  AnsInv'
<1>1. Unanswered'
  BY DEF AnsInv, Unanswered, OthersUnchanged
<1>2. LockedAnswers201'
  BY IInvTypes DEF AnsInv, LockedAnswers201, OthersUnchanged, LockedType
<1>. QED
  BY <1>1, <1>2 DEF AnsInv

\* A handler in a state before the lock Update holds no lock.
LEMMA NotYetLocked ==
    ASSUME AnsInv, NEW r \in Requests,
           hs[r].pc \notin {"markReserved", "done"}
    PROVE  r \notin locked
BY DEF AnsInv, LockedAnswers201

-----------------------------------------------------------------------------
(* One lemma per action of PostReservation.                                *)

\* Receive starts an idle handler and leaves its response alone.
LEMMA ReceiveAnsInv ==
    ASSUME IInv, AnsInv, NEW r \in Requests, NEW c \in Clusters, NEW q \in ReqChoices,
           Receive(r, c, q)
    PROVE  AnsInv'
<1>1. hs[r] \in HandlerRec
  BY IInvTypes DEF HsType
<1>2. hs'[r].resp = hs[r].resp
  BY ZenonT(30), <1>1, IInvTypes DEF Receive, HsType, HandlerRec
<1>3. hs[r].pc = "idle" /\ hs'[r].pc = "decide" /\ OthersUnchanged(r)
  BY ReceiveMoves
<1>4. r \notin locked /\ locked' = locked
  BY <1>3, NotYetLocked DEF Receive
<1>. QED
  BY <1>2, <1>3, <1>4, HandlerAnsInv

\* The decision answers, or goes on to Create with its response unset.
LEMMA DecideAnsInv ==
    ASSUME IInv, AnsInv, NEW r \in Requests, Decide(r)
    PROVE  AnsInv'
<1>1. hs[r] \in HandlerRec
  BY IInvTypes DEF HsType
<1>2. hs[r].pc = "decide" /\ OthersUnchanged(r)
  BY DecideMoves
<1>3. r \notin locked /\ locked' = locked
  BY <1>2, NotYetLocked DEF Decide
<1>4. hs'[r].pc # "done" => hs'[r].resp = hs[r].resp
  <2>1. CASE \E t \in Candidates(hs[r].requester, hs[r].req) :
               hs' = [hs EXCEPT ![r] = [@ EXCEPT !.pc = "create", !.target = t]]
    <3>1. PICK t \in Candidates(hs[r].requester, hs[r].req) :
               hs' = [hs EXCEPT ![r] = [@ EXCEPT !.pc = "create", !.target = t]]
      BY <2>1
    <3>. QED
      BY ZenonT(30), <1>1, <3>1, IInvTypes DEF HsType, HandlerRec
  <2>2. CASE hs' = [hs EXCEPT ![r] = [@ EXCEPT !.pc = "done", !.resp = "409"]]
    BY ZenonT(30), <1>1, <2>2, IInvTypes DEF HsType, HandlerRec
  <2>3. CASE hs' = [hs EXCEPT ![r] = [@ EXCEPT !.pc = "done", !.resp = "400"]]
    BY ZenonT(30), <1>1, <2>3, IInvTypes DEF HsType, HandlerRec
  <2>. QED
    BY <2>1, <2>2, <2>3 DEF Decide
<1>. QED
  BY <1>2, <1>3, <1>4, HandlerAnsInv

\* Create moves on to the finalizer with its response unset, or answers 500.
LEMMA CreateAnsInv ==
    ASSUME IInv, AnsInv, NEW r \in Requests, Create(r)
    PROVE  AnsInv'
<1>1. hs[r] \in HandlerRec
  BY IInvTypes DEF HsType
<1>2. hs[r].pc = "create" /\ OthersUnchanged(r)
  BY CreateMoves DEF Create
<1>3. r \notin locked /\ locked' = locked
  BY <1>2, NotYetLocked DEF Create
<1>4. hs'[r].pc # "done" => hs'[r].resp = hs[r].resp
  <2>1. CASE hs' = [hs EXCEPT ![r].pc = "finalizer"]
    BY <1>1, <2>1, IInvTypes DEF HsType, HandlerRec
  <2>2. CASE hs' = [hs EXCEPT ![r] = [@ EXCEPT !.pc = "done", !.resp = "500"]]
    BY ZenonT(30), <1>1, <2>2, IInvTypes DEF HsType, HandlerRec
  <2>. QED
    BY <2>1, <2>2 DEF Create
<1>. QED
  BY <1>2, <1>3, <1>4, HandlerAnsInv

\* The finalizer step and the Get half of a lock attempt change the
\* handler's point and its copy of the advertisement only.
LEMMA FinalizerLockGetAnsInv ==
    ASSUME IInv, AnsInv, NEW r \in Requests, AddFinalizer(r) \/ LockGet(r)
    PROVE  AnsInv'
<1>1. hs[r] \in HandlerRec
  BY IInvTypes DEF HsType
<1>2. hs[r].pc \in {"finalizer", "lockGet"} /\ OthersUnchanged(r) /\ locked' = locked
  BY AddFinalizerMoves, LockGetMoves DEF AddFinalizer, LockGet
<1>3. r \notin locked
  BY <1>2, NotYetLocked
<1>4. hs'[r].resp = hs[r].resp
  <2>1. CASE AddFinalizer(r)
    BY <1>1, <2>1, IInvTypes DEF AddFinalizer, HsType, HandlerRec
  <2>2. CASE LockGet(r)
    <3>. DEFINE t == hs[r].target
    <3>1. CASE hs' = [hs EXCEPT ![r] = [@ EXCEPT !.pc = "lockUpdate",
                 !.got = AddReservation(adv[t], Allocatable[t], Allocated[t], hs[r].req)]]
      BY ZenonT(30), <1>1, <3>1, IInvTypes DEF HsType, HandlerRec
    <3>2. CASE hs' = [hs EXCEPT ![r].pc = "markFailed"]
      BY <1>1, <3>2, IInvTypes DEF HsType, HandlerRec
    <3>. QED
      BY <2>2, <3>1, <3>2 DEF LockGet
  <2>. QED
    BY <2>1, <2>2
<1>. QED
  BY <1>2, <1>3, <1>4, HandlerAnsInv

\* The lock Update: applied, the handler is locked at "markReserved";
\* after a conflict it is back in the loop or at "markFailed", unlocked.
LEMMA LockUpdateAnsInv ==
    ASSUME IInv, AnsInv, NEW r \in Requests, LockUpdate(r)
    PROVE  AnsInv'
<1>1. hs[r] \in HandlerRec
  BY IInvTypes DEF HsType
<1>2. hs[r].pc = "lockUpdate" /\ OthersUnchanged(r)
      /\ hs'[r].pc \in {"markReserved", "lockGet", "markFailed"}
  BY LockUpdateMoves
<1>3. r \notin locked
  BY <1>2, NotYetLocked
<1>4. CASE hs' = [hs EXCEPT ![r].pc = "markReserved"] /\ locked' = locked \cup {r}
  <2>1. hs'[r].resp = hs[r].resp
    BY <1>1, <1>4, IInvTypes DEF HsType, HandlerRec
  <2>. QED
    BY <1>2, <1>4, <2>1, HandlerAnsInv
<1>5. CASE hs' = [hs EXCEPT ![r] = AfterConflict(hs[r])] /\ locked' = locked
  <2>1. hs'[r].resp = hs[r].resp
    BY <1>1, <1>5, IInvTypes DEF HsType, HandlerRec, AfterConflict
  <2>. QED
    BY <1>2, <1>3, <1>5, <2>1, HandlerAnsInv
<1>. QED
  BY <1>4, <1>5 DEF LockUpdate

\* MarkFailed answers 409 for a handler that holds no lock; MarkReserved
\* answers 201.
LEMMA MarkAnsInv ==
    ASSUME IInv, AnsInv, NEW r \in Requests, MarkFailed(r) \/ MarkReserved(r)
    PROVE  AnsInv'
<1>1. hs[r] \in HandlerRec
  BY IInvTypes DEF HsType
<1>2. hs'[r].pc = "done" /\ OthersUnchanged(r) /\ locked' = locked
  BY MarkMoves DEF MarkFailed, MarkReserved
<1>3. CASE MarkFailed(r)
  <2>1. hs[r].pc = "markFailed"
    BY <1>3 DEF MarkFailed
  <2>2. r \notin locked
    BY <2>1, NotYetLocked
  <2>. QED
    BY <1>2, <2>1, <2>2, HandlerAnsInv
<1>4. CASE MarkReserved(r)
  <2>1. hs[r].pc = "markReserved"
    BY <1>4 DEF MarkReserved
  <2>2. hs'[r].resp = "201"
    BY ZenonT(30), <1>1, <1>4, IInvTypes DEF MarkReserved, HsType, HandlerRec
  <2>. QED
    BY <1>2, <2>1, <2>2, HandlerAnsInv
<1>. QED
  BY <1>3, <1>4

-----------------------------------------------------------------------------
(* IInv /\ AnsInv is inductive.                                            *)

\* Initially no handler has answered and no lock is applied.
LEMMA InitAnsInv == Init => AnsInv
BY DEF Init, AnsInv, Unanswered, LockedAnswers201

\* Every step of the system keeps AnsInv, given IInv before it.
LEMMA NextAnsInv ==
    ASSUME IInv, AnsInv, [Next]_vars
    PROVE  AnsInv'
<1>1. CASE \E r \in Requests, c \in Clusters, q \in ReqChoices : Receive(r, c, q)
  BY <1>1, ReceiveAnsInv
<1>2. CASE \E r \in Requests : HandlerStep(r)
  BY <1>2, DecideAnsInv, CreateAnsInv, FinalizerLockGetAnsInv, LockUpdateAnsInv,
     MarkAnsInv DEF HandlerStep
<1>3. CASE UNCHANGED <<hs, locked>>
  BY <1>3 DEF AnsInv, Unanswered, LockedAnswers201
<1>4. CASE \/ \E c \in Clusters : AgentCollect(c) \/ IntakeGet(c) \/ IntakeWrite(c) \/ Poll(c)
           \/ \E c \in Clusters, r \in Requests : Enforce(c, r)
           \/ Finished \/ UNCHANGED vars
  <2>1. UNCHANGED <<hs, locked>>
    BY <1>4 DEF AgentCollect, IntakeGet, IntakeWrite, Poll, Enforce, Finished, vars
  <2>. QED
    BY <1>3, <2>1
<1>. QED
  BY <1>1, <1>2, <1>4 DEF Next

\* A PostReservation whose lock loop gave up, whether on no candidate, a
\* failed fit or the last of its conflicts, and answered 409 never has a
\* lock Update of its own applied: the 409 leaves no dangling lock on a
\* provider's advertisement.
THEOREM FailedAnswerNoLock == Spec => []FailedAnswerHoldsNoLock
<1>1. Init => IInv /\ AnsInv
  BY InitIInv, InitAnsInv
<1>2. IInv /\ AnsInv /\ [Next]_vars => IInv' /\ AnsInv'
  BY NextIInv, NextAnsInv
<1>3. AnsInv => FailedAnswerHoldsNoLock
  BY DEF AnsInv, Unanswered, LockedAnswers201, FailedAnswerHoldsNoLock
<1>. QED
  BY <1>1, <1>2, <1>3, PTL DEF Spec

====
