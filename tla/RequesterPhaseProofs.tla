------------------------ MODULE RequesterPhaseProofs ------------------------
(***************************************************************************)
(* Proof that a terminal phase of a ResourceRequest is never overwritten.  *)
(*                                                                         *)
(* Reconcile may start from a cached copy that lags the API server, so     *)
(* nothing in the reconciler's control flow stops it from writing over a   *)
(* Reserved or Failed phase: the resourceVersion of Status().Update does.  *)
(* The argument: the cache and the object a Reconcile holds are never      *)
(* ahead of the store, and equal to it when at its version; a Reconcile    *)
(* past its entry holds an object whose phase was not terminal.  So a      *)
(* write whose version matches the store's was made from the stored        *)
(* object itself, and that object was not terminal.                        *)
(***************************************************************************)
EXTENDS RequesterProofs

\* The informer cache of k is at most as new as the store, and equal to it
\* at the store's version.
CacheBehindAt(k) ==
    /\ rrCache[k].rv =< rrStore[k].rv
    /\ rrCache[k].rv = rrStore[k].rv => rrCache[k] = rrStore[k]

\* The same of the object the Reconcile of k holds.
ReadBehindAt(k) ==
    /\ rc[k].obj.rv =< rrStore[k].rv
    /\ rc[k].obj.rv = rrStore[k].rv => rc[k].obj = rrStore[k]

\* A Reconcile past its entry holds an object that was not terminal.
ReadLiveAt(k) ==
    rc[k].pc # "idle" => rc[k].obj.phase \in {"Unset", "Pending"}

Fresh(k) == CacheBehindAt(k) /\ ReadBehindAt(k) /\ ReadLiveAt(k)

PhaseInv == \A k \in RRs : Fresh(k)

\* The step TerminalPhaseStable allows.
TerminalStep ==
    \A k \in RRs : rrStore[k].phase \in {"Reserved", "Failed"} =>
                      rrStore'[k] = rrStore[k]

-----------------------------------------------------------------------------
(* Lemmas.                                                                 *)

\* Reconcile goes past its entry only from a non-terminal phase.
LEMMA EntryPCLive ==
    ASSUME NEW o \in RRRec, EntryPC(o) # "idle"
    PROVE  o.phase \in {"Unset", "Pending"}
BY DEF EntryPC, RRRec, Phases

\* A step that changes the reconciler state of k alone keeps PhaseInv if it
\* keeps Fresh(k).
LEMMA PhaseFrame ==
    ASSUME PhaseInv, NEW k \in RRs,
           \A j \in RRs \ {k} : /\ rc'[j] = rc[j] /\ rrStore'[j] = rrStore[j]
                                /\ rrCache'[j] = rrCache[j],
           Fresh(k)'
    PROVE  PhaseInv'
BY DEF PhaseInv, Fresh, CacheBehindAt, ReadBehindAt, ReadLiveAt

\* A step that keeps the stores and the object, from past the entry to
\* past the entry: RRSend, RRAwait and RRInstr.
LEMMA ObjKeptFresh ==
    ASSUME PhaseInv, NEW k \in RRs, UNCHANGED <<rrStore, rrCache>>,
           rc[k].pc # "idle", rc'[k].obj = rc[k].obj
    PROVE  Fresh(k)'
BY DEF PhaseInv, Fresh, CacheBehindAt, ReadBehindAt, ReadLiveAt

\* A status write made from an object past the entry changes no terminal
\* phase: the version it carries matches only a non-terminal stored object.
LEMMA StatusWriteTerminal ==
    ASSUME RRType, PhaseInv, NEW k \in RRs, rc[k].pc # "idle",
           NEW ph, NEW t, NEW n, StatusWrite(k, ph, t, n)
    PROVE  TerminalStep
<1>1. CASE /\ rrStore[k].rv = rc[k].obj.rv
           /\ rrStore' = [rrStore EXCEPT ![k] =
                            [phase |-> ph, target |-> t, name |-> n,
                             rv |-> rrStore[k].rv + 1]]
  <2>1. rc[k].obj = rrStore[k]
    BY <1>1 DEF PhaseInv, Fresh, ReadBehindAt
  <2>2. rrStore[k].phase \in {"Unset", "Pending"}
    BY <2>1 DEF PhaseInv, Fresh, ReadLiveAt
  <2>. QED
    BY <1>1, <2>2 DEF RRType, TerminalStep
<1>2. CASE UNCHANGED rrStore
  BY <1>2 DEF TerminalStep
<1>. QED
  BY <1>1, <1>2 DEF StatusWrite

-----------------------------------------------------------------------------
(* Each reconciler step keeps Fresh of its key.                            *)

\* Reconcile enters with the cached object.
LEMMA RRStartFresh ==
    ASSUME RRType, PhaseInv, NEW k \in RRs, RRStart(k)
    PROVE  Fresh(k)'
<1>1. rrCache[k] \in RRRec
  BY DEF RRType
<1>2. rc'[k].pc = EntryPC(rrCache[k]) /\ rc'[k].obj = rrCache[k]
  BY DEF RRStart, RRType
<1>3. ReadLiveAt(k)'
  BY <1>1, <1>2, EntryPCLive DEF ReadLiveAt
<1>. QED
  BY <1>2, <1>3 DEF RRStart, PhaseInv, Fresh, CacheBehindAt, ReadBehindAt

\* The informer brings the cache up to the store.
LEMMA CacheSyncFresh ==
    ASSUME RRType, PhaseInv, NEW k \in RRs, CacheSync(k)
    PROVE  Fresh(k)'
<1>1. rrCache'[k] = rrStore[k] /\ rrStore[k].rv \in Nat
  BY DEF CacheSync, RRType, RRRec
<1>2. UNCHANGED <<rrStore, rc>>
  BY DEF CacheSync
<1>. QED
  BY <1>1, <1>2 DEF PhaseInv, Fresh, CacheBehindAt, ReadBehindAt, ReadLiveAt

\* Marking Pending: on success the Reconcile holds the object it stored.
LEMMA RRMarkPendingFresh ==
    ASSUME RInv, PhaseInv, NEW k \in RRs, RRMarkPending(k)
    PROVE  Fresh(k)'
<1>1. rc \in [RRs -> RCRec] /\ rrStore \in [RRs -> RRRec] /\ rrCache \in [RRs -> RRRec]
  BY DEF RInv, RecInv, RRType
<1>2. \/ rrStore' = rrStore
      \/ /\ rrStore' # rrStore
         /\ rrStore'[k] = [phase |-> "Pending", target |-> NoCluster, name |-> NoCall,
                           rv |-> rrStore[k].rv + 1]
  <2>1. StatusWrite(k, "Pending", NoCluster, NoCall)
    BY DEF RRMarkPending
  <2>2. "Pending" \in Phases /\ NoCluster \in Clusters \cup {NoCluster}
        /\ NoCall \in Requests \cup {NoCall}
    BY DEF Phases
  <2>. QED
    BY ZenonT(30), <2>1, <2>2, StatusWriteFacts DEF RInv
<1>3. UNCHANGED rrCache
  BY DEF RRMarkPending
<1>4. CASE rrStore' # rrStore
  <2>1. rc'[k] = [rc[k] EXCEPT !.pc = "send", !.obj = rrStore'[k]]
    BY ZenonT(30), <1>1, <1>4 DEF RRMarkPending
  <2>2. rrStore'[k] = [phase |-> "Pending", target |-> NoCluster, name |-> NoCall,
                       rv |-> rrStore[k].rv + 1]
    BY <1>2, <1>4
  <2>3. rc'[k].obj = rrStore'[k] /\ rrStore'[k].phase = "Pending"
        /\ rrStore'[k].rv = rrStore[k].rv + 1
    BY <1>1, <2>1, <2>2 DEF RCRec
  <2>4. rrCache[k].rv =< rrStore[k].rv /\ rrStore[k].rv \in Nat /\ rrCache[k].rv \in Nat
    BY <1>1 DEF PhaseInv, Fresh, CacheBehindAt, RRRec
  <2>. QED
    BY <1>3, <2>3, <2>4 DEF Fresh, CacheBehindAt, ReadBehindAt, ReadLiveAt
<1>5. CASE rrStore' = rrStore
  <2>1. rc'[k] = [rc[k] EXCEPT !.pc = "idle"]
    BY ZenonT(30), <1>1, <1>5 DEF RRMarkPending
  <2>2. rc'[k].pc = "idle" /\ rc'[k].obj = rc[k].obj
    BY <1>1, <2>1 DEF RCRec
  <2>. QED
    BY <1>3, <1>5, <2>2 DEF PhaseInv, Fresh, CacheBehindAt, ReadBehindAt, ReadLiveAt
<1>. QED
  BY <1>2, <1>4, <1>5

\* The last status write ends the Reconcile; a successful one moves the
\* store past the object the Reconcile held.
LEMMA FinalWriteFresh ==
    ASSUME RRType, PhaseInv, NEW k \in RRs, NEW ph, NEW t, NEW n,
           StatusWrite(k, ph, t, n), rc' = [rc EXCEPT ![k].pc = "idle"],
           UNCHANGED rrCache
    PROVE  Fresh(k)'
<1>1. rc'[k].pc = "idle" /\ rc'[k].obj = rc[k].obj
  BY DEF RRType
<1>2. rrStore[k].rv \in Nat /\ rrCache[k].rv \in Nat /\ rc[k].obj.rv \in Nat
  BY DEF RRType, RRRec, RCRec
<1>3. CASE rrStore' = [rrStore EXCEPT ![k] =
                         [phase |-> ph, target |-> t, name |-> n, rv |-> rrStore[k].rv + 1]]
  <2>1. rrStore'[k].rv = rrStore[k].rv + 1
    BY <1>3 DEF RRType
  <2>. QED
    BY <1>1, <1>2, <2>1 DEF PhaseInv, Fresh, CacheBehindAt, ReadBehindAt, ReadLiveAt
<1>4. CASE UNCHANGED rrStore
  BY <1>1, <1>4 DEF PhaseInv, Fresh, CacheBehindAt, ReadBehindAt, ReadLiveAt
<1>. QED
  BY <1>3, <1>4 DEF StatusWrite

\* A status write changes the stored object of its own key only.
LEMMA StatusWriteFrame ==
    ASSUME RRType, NEW k \in RRs, NEW ph, NEW t, NEW n, StatusWrite(k, ph, t, n)
    PROVE  \A j \in RRs \ {k} : rrStore'[j] = rrStore[j]
BY DEF StatusWrite, RRType

\* The steps between the entry and the last status write keep the object
\* the Reconcile read.
LEMMA MiddleStepFresh ==
    ASSUME RRType, PhaseInv, NEW k \in RRs, RRSend(k) \/ RRAwait(k) \/ RRInstr(k)
    PROVE  PhaseInv' /\ TerminalStep
<1>1. rc \in [RRs -> RCRec] /\ rc[k] \in RCRec
  BY DEF RRType
<1>2. UNCHANGED <<rrStore, rrCache>> /\ \A j \in RRs \ {k} : rc'[j] = rc[j]
  BY <1>1 DEF RRSend, RRAwait, RRInstr
<1>3. rc[k].pc # "idle" /\ rc'[k].obj = rc[k].obj
  <2>1. CASE RRSend(k)
    <3>1. PICK r \in Requests : rc' = [rc EXCEPT ![k] = [@ EXCEPT !.pc = "await", !.call = r]]
      BY <2>1 DEF RRSend
    <3>. QED
      BY ZenonT(30), <1>1, <2>1, <3>1 DEF RRSend, RCRec
  <2>2. CASE RRAwait(k)
    <3>1. RetryOrFail(rc[k]).obj = rc[k].obj
      BY <1>1 DEF RetryOrFail, RCRec
    <3>. QED
      BY ZenonT(30), <1>1, <2>2, <3>1 DEF RRAwait, RCRec
  <2>3. CASE RRInstr(k)
    BY ZenonT(30), <1>1, <2>3 DEF RRInstr, RCRec
  <2>. QED
    BY <2>1, <2>2, <2>3
<1>4. Fresh(k)'
  BY <1>2, <1>3, ObjKeptFresh
<1>. QED
  BY <1>2, <1>4, PhaseFrame DEF TerminalStep

\* The status writes: marking Pending, Reserved or Failed.
LEMMA WriteStepFresh ==
    ASSUME RInv, PhaseInv, NEW k \in RRs,
           RRMarkPending(k) \/ RRMarkReserved(k) \/ RRMarkFailed(k)
    PROVE  PhaseInv' /\ TerminalStep
<1>1. RRType /\ rc \in [RRs -> RCRec]
  BY DEF RInv, RecInv, RRType
<1>2. \A j \in RRs \ {k} : rc'[j] = rc[j] /\ rrStore'[j] = rrStore[j] /\ rrCache'[j] = rrCache[j]
  <2>1. \A j \in RRs \ {k} : rc'[j] = rc[j]
    BY ZenonT(30), <1>1 DEF RRMarkPending, RRMarkReserved, RRMarkFailed
  <2>2. \A j \in RRs \ {k} : rrStore'[j] = rrStore[j]
    BY <1>1, StatusWriteFrame DEF RRMarkPending, RRMarkReserved, RRMarkFailed
  <2>. QED
    BY <2>1, <2>2 DEF RRMarkPending, RRMarkReserved, RRMarkFailed
<1>3. Fresh(k)'
  <2>1. CASE RRMarkPending(k)
    BY <2>1, RRMarkPendingFresh
  <2>2. CASE RRMarkReserved(k) \/ RRMarkFailed(k)
    BY <1>1, <2>2, FinalWriteFresh DEF RRMarkReserved, RRMarkFailed
  <2>. QED
    BY <2>1, <2>2
<1>4. TerminalStep
  <2>1. rc[k].pc # "idle"
    BY DEF RRMarkPending, RRMarkReserved, RRMarkFailed
  <2>. QED
    BY <1>1, <2>1, StatusWriteTerminal DEF RRMarkPending, RRMarkReserved, RRMarkFailed
<1>. QED
  BY <1>2, <1>3, <1>4, PhaseFrame

\* Every step of the composition keeps PhaseInv and leaves terminal phases.
LEMMA NextPhaseInv ==
    ASSUME RInv, PhaseInv, [RNext]_allVars
    PROVE  PhaseInv' /\ TerminalStep
<1>1. RRType
  BY DEF RInv, RecInv
<1>2. CASE \E k \in RRs : RRStart(k) \/ CacheSync(k)
  <2>1. PICK k \in RRs : RRStart(k) \/ CacheSync(k)
    BY <1>2
  <2>2. \A j \in RRs \ {k} : rc'[j] = rc[j] /\ rrStore'[j] = rrStore[j]
                              /\ rrCache'[j] = rrCache[j]
    BY <1>1, <2>1 DEF RRStart, CacheSync, RRType
  <2>3. Fresh(k)'
    BY <1>1, <2>1, RRStartFresh, CacheSyncFresh
  <2>4. TerminalStep
    BY <2>1 DEF RRStart, CacheSync, TerminalStep
  <2>. QED
    BY <2>2, <2>3, <2>4, PhaseFrame
<1>3. CASE \E k \in RRs : RRSend(k) \/ RRAwait(k) \/ RRInstr(k)
  BY <1>1, <1>3, MiddleStepFresh
<1>4. CASE \E k \in RRs : RRMarkPending(k) \/ RRMarkReserved(k) \/ RRMarkFailed(k)
  BY <1>4, WriteStepFresh
<1>5. CASE BrokerStep \/ RFinished \/ UNCHANGED allVars
  <2>1. UNCHANGED rrVars
    BY <1>5 DEF BrokerStep, RFinished, allVars
  <2>. QED
    BY <2>1 DEF rrVars, PhaseInv, Fresh, CacheBehindAt, ReadBehindAt, ReadLiveAt,
                TerminalStep
<1>. QED
  BY <1>2, <1>3, <1>4, <1>5 DEF RNext

\* Initially the cache, and every Reconcile's object, is the stored object.
LEMMA InitPhaseInv == RInit => PhaseInv
BY DEF RInit, PhaseInv, Fresh, CacheBehindAt, ReadBehindAt, ReadLiveAt

\* A ResourceRequest's Reserved or Failed phase is never overwritten, though
\* Reconcile may read a stale cached copy still saying Pending and go on to
\* the broker call and a status write: the write carries the
\* resourceVersion of what was read, and the store has moved past it.
THEOREM TerminalPhaseStableHolds == RSpec => TerminalPhaseStable
<1>1. RInit => RInv /\ PhaseInv
  BY InitRInv, InitPhaseInv
<1>2. RInv /\ PhaseInv /\ [RNext]_allVars => RInv' /\ PhaseInv'
  BY NextRInv, NextPhaseInv
<1>3. RInv /\ PhaseInv /\ [RNext]_allVars => [TerminalStep]_allVars
  BY NextPhaseInv
<1>. QED
  BY <1>1, <1>2, <1>3, PTL DEF RSpec, TerminalPhaseStable, TerminalStep

====
