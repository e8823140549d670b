----------------------------- MODULE Requester -----------------------------
(***************************************************************************)
(* The requester side of a reservation, composed with the broker.          *)
(*                                                                         *)
(*  - ResourceRequestReconciler.Reconcile (resourcerequest_controller.go): *)
(*    read the ResourceRequest from the informer cache, skip a terminal    *)
(*    phase, mark it Pending, call RequestReservation, create the local    *)
(*    ReservationInstruction and write the phase Reserved or Failed.       *)
(*  - HTTPCommunicator.RequestReservation through doWithRetry              *)
(*    (client.go): a 5xx or a transport error (the 30 s client timeout)    *)
(*    re-sends the POST; every send is a new PostReservation call of the   *)
(*    broker.                                                              *)
(*                                                                         *)
(* The cache of controller-runtime lags the API server: CacheSync delivers *)
(* the stored object to it.  Status writes carry the resourceVersion of    *)
(* the object they were made from and fail on a conflict.  A failed write *)
(* requeues the key (Reconcile returns the error); a successful one queues *)
(* it when its watch event reaches the cache.                              *)
(***************************************************************************)
EXTENDS Broker

CONSTANTS
    RRs,          \* the ResourceRequests created on the requester cluster
    Home,         \* the requester cluster (its certificate identity)
    RRReq,        \* [RRs -> Quantity]: spec.requestedCPU/Memory of each
    NoCall,       \* no reservation name recorded
    NoRR          \* a broker call made by nobody yet

ASSUME RequesterAssumption ==
    /\ Home \in Clusters
    /\ RRReq \in [RRs -> ReqChoices]
    /\ NoCall \notin Requests
    /\ NoRR \notin RRs

Phases == {"Unset", "Pending", "Reserved", "Failed"}
\* status of a ResourceRequest as stored (phase "" is written "Unset").
RRRec == [phase : Phases, target : Clusters \cup {NoCluster},
          name : Requests \cup {NoCall}, rv : Nat]
RCPC == {"idle", "markPending", "send", "await", "instr",
         "markReserved", "markFailed"}

VARIABLES
    rrStore,   \* [RRs -> RRRec]: the ResourceRequests in the API server
    rrCache,   \* [RRs -> RRRec]: the informer cache the reconciler reads
    dirty,     \* [RRs -> BOOLEAN]: the key is queued for a reconcile
    rc,        \* [RRs -> ...]: locals of the Reconcile call of each key
    owner,     \* [Requests -> RRs \cup {NoRR}]: who made each broker call
    resInstr   \* the ReservationInstructions on the requester, by name

rrVars == <<rrStore, rrCache, dirty, rc, owner, resInstr>>
allVars == <<vars, rrVars>>

RCRec == [pc : RCPC, obj : RRRec, call : Requests \cup {NoCall},
          tries : 0..MaxPostRetries, target : Clusters \cup {NoCluster},
          name : Requests \cup {NoCall}]

RTypeOK ==
    /\ TypeOK
    /\ rrStore \in [RRs -> RRRec]
    /\ rrCache \in [RRs -> RRRec]
    /\ dirty \in [RRs -> BOOLEAN]
    /\ rc \in [RRs -> RCRec]
    /\ owner \in [Requests -> RRs \cup {NoRR}]
    /\ resInstr \in SUBSET Requests

RInit ==
    /\ Init
    /\ rrStore = [k \in RRs |-> [phase |-> "Unset", target |-> NoCluster,
                                  name |-> NoCall, rv |-> 1]]
    /\ rrCache = rrStore
    /\ dirty = [k \in RRs |-> TRUE]
    /\ rc = [k \in RRs |-> [pc |-> "idle", obj |-> rrStore[k], call |-> NoCall,
                             tries |-> 0, target |-> NoCluster, name |-> NoCall]]
    /\ owner = [r \in Requests |-> NoRR]
    /\ resInstr = {}

-----------------------------------------------------------------------------
(* The reconciler: one worker (MaxConcurrentReconciles defaults to 1).    *)

\* Where Reconcile goes with the object it read: terminal phases are
\* skipped, an empty phase is first marked Pending, Pending goes straight
\* to the broker call.
EntryPC(o) ==
    CASE o.phase \in {"Reserved", "Failed"} -> "idle"
      [] o.phase = "Unset"                  -> "markPending"
      [] o.phase = "Pending"                -> "send"

\* A queued key is picked up; r.Get reads the informer cache.
RRStart(k) ==
    /\ dirty[k]
    /\ \A j \in RRs : rc[j].pc = "idle"
    /\ dirty' = [dirty EXCEPT ![k] = FALSE]
    /\ rc' = [rc EXCEPT ![k] = [pc |-> EntryPC(rrCache[k]), obj |-> rrCache[k],
                                call |-> NoCall, tries |-> 0,
                                target |-> NoCluster, name |-> NoCall]]
    /\ UNCHANGED <<vars, rrStore, rrCache, owner, resInstr>>

\* Mutant: the status write without the object's resourceVersion (a merge
\* patch instead of Status().Update).
StatusWriteNoVersion(k, ph, t, n) ==
    \/ /\ rrStore' = [rrStore EXCEPT ![k] =
                        [phase |-> ph, target |-> t, name |-> n,
                         rv |-> rrStore[k].rv + 1]]
       /\ UNCHANGED dirty
    \/ /\ UNCHANGED rrStore
       /\ dirty' = [dirty EXCEPT ![k] = TRUE]

\* updateStatus: Status().Update of the object read, with its
\* resourceVersion; a conflict or any other error is returned, and the
\* key is requeued.  (A successful write queues the key through its watch
\* event, in CacheSync.)
StatusWrite(k, ph, t, n) ==
    \/ /\ rrStore[k].rv = rc[k].obj.rv
       /\ rrStore' = [rrStore EXCEPT ![k] =
                        [phase |-> ph, target |-> t, name |-> n,
                         rv |-> rrStore[k].rv + 1]]
       /\ UNCHANGED dirty
    \/ /\ UNCHANGED rrStore
       /\ dirty' = [dirty EXCEPT ![k] = TRUE]

\* Mark Pending; on success the in-memory object carries the new version
\* and Reconcile goes on to the broker call.
RRMarkPending(k) ==
    /\ rc[k].pc = "markPending"
    /\ StatusWrite(k, "Pending", NoCluster, NoCall)
    /\ rc' = [rc EXCEPT ![k] =
                IF rrStore' # rrStore
                THEN [@ EXCEPT !.pc = "send", !.obj = rrStore'[k]]
                ELSE [@ EXCEPT !.pc = "idle"]]
    /\ UNCHANGED <<vars, rrCache, owner, resInstr>>

\* One attempt of doWithRetry: a POST /api/v1/reservations, accepted by a
\* fresh PostReservation goroutine of the broker.
RRSend(k) ==
    /\ rc[k].pc = "send"
    /\ \E r \in Requests :
          /\ owner[r] = NoRR
          /\ Receive(r, Home, RRReq[k])
          /\ owner' = [owner EXCEPT ![r] = k]
          /\ rc' = [rc EXCEPT ![k] = [@ EXCEPT !.pc = "await", !.call = r]]
    /\ UNCHANGED <<rrStore, rrCache, dirty, resInstr>>

\* Mutant: doWithRetry retrying without its attempt bound.
RetryOrFailUnbounded(h) ==
    [h EXCEPT !.pc = "send", !.tries = @ + 1]

\* doWithRetry after a 5xx or a transport error: again while attempts
\* remain, else RequestReservation fails.
RetryOrFail(h) ==
    IF h.tries < MaxPostRetries
    THEN [h EXCEPT !.pc = "send", !.tries = @ + 1]
    ELSE [h EXCEPT !.pc = "markFailed"]

\* Mutant: RequestReservation without its status-code check, taking any
\* answer for a reservation.
RRAwaitAnyAnswer(k) ==
    LET r == rc[k].call
    IN  /\ rc[k].pc = "await"
        /\ \/ /\ hs[r].pc = "done"
              /\ rc' = [rc EXCEPT ![k] = [@ EXCEPT !.pc = "instr", !.target = hs[r].target]]
           \/ /\ hs[r].pc \in {"markReserved", "done"}
              /\ rc' = [rc EXCEPT ![k] = RetryOrFail(rc[k])]
        /\ UNCHANGED <<vars, rrStore, rrCache, dirty, owner, resInstr>>

\* The outcome of the attempt.  201 is a reservation; 400 and 409 are not
\* retried and fail the call; 500 is retried.  The client times out, or
\* the response is lost, once the handler applied the lock and is writing
\* the status or has answered.
RRAwait(k) ==
    LET r == rc[k].call
    IN  /\ rc[k].pc = "await"
        /\ \/ /\ hs[r].pc = "done" /\ hs[r].resp = "201"
              /\ rc' = [rc EXCEPT ![k] = [@ EXCEPT !.pc = "instr", !.target = hs[r].target]]
           \/ /\ hs[r].pc = "done" /\ hs[r].resp \in {"400", "409"}
              /\ rc' = [rc EXCEPT ![k] = [@ EXCEPT !.pc = "markFailed"]]
           \/ /\ hs[r].pc = "done" /\ hs[r].resp = "500"
              /\ rc' = [rc EXCEPT ![k] = RetryOrFail(rc[k])]
           \/ /\ hs[r].pc \in {"markReserved", "done"}
              /\ rc' = [rc EXCEPT ![k] = RetryOrFail(rc[k])]
        /\ UNCHANGED <<vars, rrStore, rrCache, dirty, owner, resInstr>>

\* createReservationInstruction: Get by reservation id, Create if absent;
\* an error fails the ResourceRequest with the reservation recorded.
RRInstr(k) ==
    LET n == rc[k].call
    IN  /\ rc[k].pc = "instr"
        /\ \/ /\ resInstr' = resInstr \cup {n}
              /\ rc' = [rc EXCEPT ![k] = [@ EXCEPT !.pc = "markReserved", !.name = n]]
           \/ /\ UNCHANGED resInstr
              /\ rc' = [rc EXCEPT ![k] = [@ EXCEPT !.pc = "markFailed", !.name = n]]
        /\ UNCHANGED <<vars, rrStore, rrCache, dirty, owner>>

RRMarkReserved(k) ==
    /\ rc[k].pc = "markReserved"
    /\ StatusWrite(k, "Reserved", rc[k].target, rc[k].name)
    /\ rc' = [rc EXCEPT ![k].pc = "idle"]
    /\ UNCHANGED <<vars, rrCache, owner, resInstr>>

RRMarkFailed(k) ==
    /\ rc[k].pc = "markFailed"
    /\ StatusWrite(k, "Failed", rc[k].target, rc[k].name)
    /\ rc' = [rc EXCEPT ![k].pc = "idle"]
    /\ UNCHANGED <<vars, rrCache, owner, resInstr>>

\* The informer receives the watch event of the latest write, stores it
\* in the cache, then queues the key.
CacheSync(k) ==
    /\ rrCache[k] # rrStore[k]
    /\ rrCache' = [rrCache EXCEPT ![k] = rrStore[k]]
    /\ dirty' = [dirty EXCEPT ![k] = TRUE]
    /\ UNCHANGED <<vars, rrStore, rc, owner, resInstr>>

-----------------------------------------------------------------------------
\* The broker's steps other than accepting a call, which only RRSend does.
BrokerStep ==
    /\ \/ \E r \in Requests : HandlerStep(r)
       \/ \E c \in Clusters : AgentCollect(c) \/ IntakeGet(c) \/ IntakeWrite(c) \/ Poll(c)
       \/ \E c \in Clusters, r \in Requests : Enforce(c, r)
    /\ UNCHANGED rrVars

\* Nothing is left to do: the reconciler is idle with nothing queued, or
\* waits to send with every call id of the model used; handlers answered;
\* the advertisement cycles are over.
RFinished ==
    /\ \A k \in RRs : \/ rc[k].pc = "idle" /\ ~dirty[k]
                      \/ rc[k].pc = "send" /\ \A r \in Requests : owner[r] # NoRR
    /\ \A r \in Requests : hs[r].pc \in {"idle", "done"}
    /\ \A c \in Clusters : pub[c].pc = "idle" /\ pub[c].count = MaxPublish
    /\ UNCHANGED allVars

RNext ==
    \/ \E k \in RRs :
          \/ RRStart(k) \/ RRMarkPending(k) \/ RRSend(k) \/ RRAwait(k)
          \/ RRInstr(k) \/ RRMarkReserved(k) \/ RRMarkFailed(k) \/ CacheSync(k)
    \/ BrokerStep
    \/ RFinished

RSpec == RInit /\ [][RNext]_allVars

-----------------------------------------------------------------------------
(* Properties.                                                             *)

\* A ResourceRequest stored as Reserved names a reservation of its own whose
\* lock was applied on the target it records, and the local
\* ReservationInstruction exists: the 201 is only taken after the lock and
\* the status write never mixes the outcomes of two calls.
ReservedRequestHasLock ==
    \A k \in RRs : rrStore[k].phase = "Reserved" =>
        LET n == rrStore[k].name
        IN  /\ n \in locked
            /\ owner[n] = k
            /\ rsv[n] # NoRsv /\ rsv[n].target = rrStore[k].target
            /\ n \in resInstr

\* A stored Reserved or Failed phase is never overwritten, though a
\* reconcile may start from a stale cached copy still saying Pending: the
\* resourceVersion of the status write refuses it.
TerminalPhaseStable ==
    [][\A k \in RRs : rrStore[k].phase \in {"Reserved", "Failed"} =>
                         rrStore'[k] = rrStore[k]]_allVars

\* Spec 4.8: one ResourceRequest triggers exactly one reservation call and
\* is never retried, so at most one lock is applied on its behalf.
OneLockPerRequest ==
    \A k \in RRs : \A r1, r2 \in locked :
        owner[r1] = k /\ owner[r2] = k => r1 = r2
====
