-------------------------- MODULE BrokerLockProofs --------------------------
(***************************************************************************)
(* LocksAccounted and ReservedNeverDecreases for every value of the        *)
(* constants.                                                              *)
(*                                                                         *)
(* Both writers of an advertisement write a copy they read earlier: the   *)
(* lock Update the record LockGet computed, the intake the record its Get  *)
(* returned.  The write succeeds only when the stored resourceVersion is  *)
(* still the one read, and every write raises it, so an equal version     *)
(* means an unchanged record.  LInv states that of both copies, and that  *)
(* a non-nil Reserved the agent copied into its POST is still stored.      *)
(***************************************************************************)
EXTENDS BrokerSafetyProofs

\* The copy a handler holds at "lockUpdate" is AddReservation of the stored
\* advertisement as long as the stored version is the one it read.
LockReadFresh ==
    \A r \in Requests : hs[r].pc = "lockUpdate" =>
        LET t == hs[r].target
        IN  /\ hs[r].got.rv =< adv[t].rv
            /\ hs[r].got.rv = adv[t].rv =>
                   hs[r].got = AddReservation(adv[t], Allocatable[t], Allocated[t], hs[r].req)

\* The record the intake's Get returned is the stored one as long as the
\* stored version is the one it read.
IntakeReadFresh ==
    \A c \in Clusters : pub[c].pc = "write" /\ pub[c].existing # NoAdv =>
        /\ adv[c] # NoAdv
        /\ pub[c].existing.rv =< adv[c].rv
        /\ pub[c].existing.rv = adv[c].rv => pub[c].existing = adv[c]

\* A non-nil Reserved the agent copied into its POST is non-nil in the store
\* and in the record the intake read.
PublishedReservedStored ==
    \A c \in Clusters : pub[c].pc \in {"post", "write"} /\ pub[c].res # Nil =>
        /\ adv[c] # NoAdv /\ adv[c].reserved # Nil
        /\ pub[c].pc = "write" =>
               pub[c].existing # NoAdv /\ pub[c].existing.reserved # Nil

LInv ==
    /\ LocksAccounted
    /\ LockReadFresh
    /\ IntakeReadFresh
    /\ PublishedReservedStored

-----------------------------------------------------------------------------
(* Lemmas on the resource operators.                                      *)

\* A stored Reserved, nil or not, counts as a quantity.
LEMMA ReservedOrZeroType ==
    ASSUME NEW q \in Quantity \cup {Nil}
    PROVE  ReservedOrZero(q) \in Quantity
BY DEF ReservedOrZero, Zero, Quantity

\* AddReservation keeps the version of the record it was applied to and
\* sets a non-nil Reserved of the old one plus the request.
LEMMA AddReservationFields ==
    ASSUME NEW a \in AdvRec, NEW al \in Quantity, NEW ad \in Quantity, NEW q \in Quantity
    PROVE  /\ AddReservation(a, al, ad, q).rv = a.rv
           /\ AddReservation(a, al, ad, q).reserved = AddQ(ReservedOrZero(a.reserved), q)
           /\ AddReservation(a, al, ad, q).reserved \in Quantity
<1>1. ReservedOrZero(a.reserved) \in Quantity
  BY ReservedOrZeroType DEF AdvRec
<1>2. AddQ(ReservedOrZero(a.reserved), q) \in Quantity
  BY <1>1, AddQType
<1>. QED
  BY <1>2 DEF AddReservation, AdvRec

-----------------------------------------------------------------------------
(* Steps that write no advertisement.                                      *)

\* A handler step that leaves "lockUpdate" alone, and touches neither the
\* advertisements, the publish calls nor the lock history, keeps LInv.
LEMMA HandlerLInv ==
    ASSUME LInv, NEW r \in Requests, OthersUnchanged(r), hs'[r].pc # "lockUpdate",
           UNCHANGED <<adv, pub, lockTotal>>
    PROVE  LInv'
<1>1. LockReadFresh'
  BY DEF LInv, LockReadFresh, OthersUnchanged
<1>. QED
  BY <1>1 DEF LInv, LocksAccounted, IntakeReadFresh, PublishedReservedStored

\* Every handler step but LockGet and LockUpdate leaves "lockUpdate" alone
\* and writes no advertisement.
LEMMA PassiveHandlerLInv ==
    ASSUME IInv, LInv, NEW r \in Requests,
           \/ \E c \in Clusters, q \in ReqChoices : Receive(r, c, q)
           \/ Decide(r) \/ Create(r) \/ AddFinalizer(r) \/ MarkFailed(r) \/ MarkReserved(r)
    PROVE  LInv'
<1>1. CASE \E c \in Clusters, q \in ReqChoices : Receive(r, c, q)
  BY <1>1, ReceiveMoves, HandlerLInv DEF Receive
<1>2. CASE Decide(r)
  BY <1>2, DecideMoves, HandlerLInv DEF Decide
<1>3. CASE Create(r)
  BY <1>3, CreateMoves, HandlerLInv DEF Create
<1>4. CASE AddFinalizer(r)
  BY <1>4, AddFinalizerMoves, HandlerLInv DEF AddFinalizer
<1>5. CASE MarkFailed(r) \/ MarkReserved(r)
  BY <1>5, MarkMoves, HandlerLInv DEF MarkFailed, MarkReserved
<1>. QED
  BY <1>1, <1>2, <1>3, <1>4, <1>5

\* The Get half of a lock attempt records AddReservation of the stored
\* advertisement at its current version.
LEMMA LockGetLInv ==
    ASSUME IInv, LInv, NEW r \in Requests, LockGet(r)
    PROVE  LInv'
<1>. DEFINE t == hs[r].target
<1>1. t \in Clusters /\ adv[t] \in AdvRec /\ hs[r].req \in Quantity
  BY IInvTypes DEF LockGet, IInv, Decided, AdvType, HsType, HandlerRec
<1>2. UNCHANGED <<adv, pub, lockTotal>>
  BY DEF LockGet
<1>3. CASE hs'[r].pc = "markFailed"
  BY <1>2, <1>3, LockGetMoves, HandlerLInv
<1>4. CASE /\ hs'[r].pc = "lockUpdate"
           /\ hs'[r].got = AddReservation(adv[t], Allocatable[t], Allocated[t], hs[r].req)
           /\ hs'[r].target = t /\ hs'[r].req = hs[r].req
  <2>1. hs'[r].got.rv = adv'[t].rv
    BY <1>1, <1>2, <1>4, AddReservationFields, MetricsAssumption
  <2>2. LockReadFresh'
    <3>1. OthersUnchanged(r)
      BY LockGetMoves
    <3>2. SUFFICES ASSUME NEW k \in Requests, hs'[k].pc = "lockUpdate"
                   PROVE  LET u == hs'[k].target
                          IN  /\ hs'[k].got.rv =< adv'[u].rv
                              /\ hs'[k].got.rv = adv'[u].rv =>
                                     hs'[k].got = AddReservation(adv'[u], Allocatable[u],
                                                                Allocated[u], hs'[k].req)
      BY DEF LockReadFresh
    <3>3. CASE k = r
      BY <1>1, <1>2, <1>4, <2>1, <3>3 DEF AdvRec
    <3>4. CASE k # r
      BY <1>2, <3>1, <3>2, <3>4 DEF LInv, LockReadFresh, OthersUnchanged
    <3>. QED
      BY <3>3, <3>4
  <2>. QED
    BY <1>2, <2>2 DEF LInv, LocksAccounted, IntakeReadFresh, PublishedReservedStored
<1>. QED
  BY <1>3, <1>4, LockGetMoves

-----------------------------------------------------------------------------
(* The lock Update.                                                        *)

\* A write that raises the stored version of one advertisement and keeps
\* it non-nil, with everything else of the intake unchanged, keeps the two
\* freshness facts about every copy read before it.
LEMMA VersionBumpFresh ==
    ASSUME IInv, LInv, NEW t \in Clusters, adv[t] \in AdvRec, adv'[t] \in AdvRec,
           adv'[t].rv > adv[t].rv, \A d \in Clusters \ {t} : adv'[d] = adv[d],
           UNCHANGED pub,
           NEW r \in Requests, OthersUnchanged(r), hs'[r].pc # "lockUpdate"
    PROVE  LockReadFresh' /\ IntakeReadFresh'
<1>1. LockReadFresh'
  <2>1. SUFFICES ASSUME NEW k \in Requests, hs'[k].pc = "lockUpdate"
                 PROVE  LET u == hs'[k].target
                        IN  /\ hs'[k].got.rv =< adv'[u].rv
                            /\ hs'[k].got.rv = adv'[u].rv =>
                                   hs'[k].got = AddReservation(adv'[u], Allocatable[u],
                                                              Allocated[u], hs'[k].req)
    BY DEF LockReadFresh
  <2>2. k # r /\ hs'[k] = hs[k]
    BY <2>1 DEF OthersUnchanged
  <2>3. hs[k].target \in Clusters /\ hs[k].got \in AdvRec
    BY <2>1, <2>2 DEF IInv, Decided
  <2>4. CASE hs[k].target = t
    BY <2>1, <2>2, <2>3, <2>4 DEF LInv, LockReadFresh, AdvRec
  <2>5. CASE hs[k].target # t
    BY <2>1, <2>2, <2>3, <2>5 DEF LInv, LockReadFresh
  <2>. QED
    BY <2>4, <2>5
<1>2. IntakeReadFresh'
  <2>1. SUFFICES ASSUME NEW c \in Clusters, pub'[c].pc = "write", pub'[c].existing # NoAdv
                 PROVE  /\ adv'[c] # NoAdv
                        /\ pub'[c].existing.rv =< adv'[c].rv
                        /\ pub'[c].existing.rv = adv'[c].rv => pub'[c].existing = adv'[c]
    BY DEF IntakeReadFresh
  <2>2. pub[c].existing \in AdvRec
    BY <2>1, IInvTypes, SentinelAssumption DEF PubType, PubRec
  <2>3. CASE c = t
    BY <2>1, <2>2, <2>3, SentinelAssumption DEF LInv, IntakeReadFresh, AdvRec
  <2>4. CASE c # t
    BY <2>1, <2>4 DEF LInv, IntakeReadFresh
  <2>. QED
    BY <2>3, <2>4
<1>. QED
  BY <1>1, <1>2

\* The compare-and-swap Update writes AddReservation of the stored record,
\* so the stored Reserved grows by the request exactly as the lock history
\* does; a conflict writes nothing.
LEMMA LockUpdateLInv ==
    ASSUME IInv, LInv, NEW r \in Requests, LockUpdate(r)
    PROVE  LInv'
<1>. DEFINE t == hs[r].target
            g == hs[r].got
            q == hs[r].req
<1>1. /\ hs[r].pc = "lockUpdate"
      /\ t \in Clusters /\ adv[t] \in AdvRec /\ g \in AdvRec /\ q \in Quantity
      /\ lockTotal[t] \in Quantity
  BY IInvTypes DEF LockUpdate, IInv, Decided, AdvType, HsType, HandlerRec, LockTotalType
<1>2. UNCHANGED pub
  BY DEF LockUpdate
<1>3. CASE /\ adv[t].rv = g.rv
           /\ adv' = [adv EXCEPT ![t] = [g EXCEPT !.rv = @ + 1]]
           /\ lockTotal' = [lockTotal EXCEPT ![t] = AddQ(@, q)]
           /\ hs' = [hs EXCEPT ![r].pc = "markReserved"]
  <2>1. g = AddReservation(adv[t], Allocatable[t], Allocated[t], q)
    BY <1>1, <1>3 DEF LInv, LockReadFresh
  <2>2. /\ g.reserved = AddQ(ReservedOrZero(adv[t].reserved), q)
        /\ g.reserved \in Quantity
    BY <1>1, <2>1, AddReservationFields, MetricsAssumption
  <2>3. /\ adv'[t] = [g EXCEPT !.rv = g.rv + 1]
        /\ \A d \in Clusters \ {t} : adv'[d] = adv[d] /\ lockTotal'[d] = lockTotal[d]
        /\ lockTotal'[t] = AddQ(lockTotal[t], q)
    BY <1>1, <1>3, IInvTypes DEF AdvType, LockTotalType
  <2>4. /\ adv'[t] \in AdvRec /\ adv'[t].rv > adv[t].rv
        /\ adv'[t].reserved = g.reserved /\ adv'[t] # NoAdv
    BY <1>1, <1>3, <2>3, SentinelAssumption DEF AdvRec
  <2>5. LocksAccounted'
    <3>1. ReservedOrZero(adv'[t].reserved) = lockTotal'[t]
      <4>1. adv'[t].reserved # Nil
        BY <2>2, <2>4, NilAssumption
      <4>2. ReservedOrZero(adv[t].reserved) = lockTotal[t]
        BY <1>1, SentinelAssumption DEF LInv, LocksAccounted
      <4>. QED
        BY <2>2, <2>3, <2>4, <4>1, <4>2 DEF ReservedOrZero
    <3>. QED
      BY <2>3, <2>4, <3>1 DEF LInv, LocksAccounted
  <2>6. OthersUnchanged(r) /\ hs'[r].pc = "markReserved"
    BY <1>1, IInvTypes, LockUpdateMoves, <1>3 DEF HsType, HandlerRec
  <2>7. LockReadFresh' /\ IntakeReadFresh'
    BY <1>1, <1>2, <2>3, <2>4, <2>6, VersionBumpFresh
  <2>8. PublishedReservedStored'
    <3>1. SUFFICES ASSUME NEW c \in Clusters, pub'[c].pc \in {"post", "write"},
                          pub'[c].res # Nil
                   PROVE  /\ adv'[c] # NoAdv /\ adv'[c].reserved # Nil
                          /\ pub'[c].pc = "write" =>
                                 pub'[c].existing # NoAdv /\ pub'[c].existing.reserved # Nil
      BY DEF PublishedReservedStored
    <3>2. CASE c = t
      BY <1>2, <2>2, <2>4, <3>1, <3>2, NilAssumption DEF LInv, PublishedReservedStored
    <3>3. CASE c # t
      BY <1>2, <2>3, <3>1, <3>3 DEF LInv, PublishedReservedStored
    <3>. QED
      BY <3>2, <3>3
  <2>. QED
    BY <2>5, <2>7, <2>8 DEF LInv
<1>4. CASE /\ hs' = [hs EXCEPT ![r] = AfterConflict(hs[r])]
           /\ UNCHANGED <<adv, locked, lockTotal>>
  <2>1. hs'[r].pc \in {"lockGet", "markFailed"} /\ OthersUnchanged(r)
    BY <1>1, <1>4, AfterConflictPc, IInvTypes, LockUpdateMoves DEF HsType
  <2>. QED
    BY <1>2, <1>4, <2>1, HandlerLInv
<1>. QED
  BY <1>3, <1>4 DEF LockUpdate

-----------------------------------------------------------------------------
(* The advertisement cycle.                                                *)

\* No publish call but c's changes.
OtherPubsUnchanged(c) == \A d \in Clusters \ {c} : pub'[d] = pub[d]

\* The agent's GET copies the stored Reserved, nil when there is none.
LEMMA AgentCollectLInv ==
    ASSUME IInv, LInv, NEW c \in Clusters, AgentCollect(c)
    PROVE  LInv'
<1>1. pub[c] \in PubRec
  BY IInvTypes DEF PubType
<1>2. /\ pub'[c].pc = "post"
      /\ pub'[c].res = IF adv[c] = NoAdv THEN Nil ELSE adv[c].reserved
      /\ OtherPubsUnchanged(c)
  BY <1>1, IInvTypes DEF AgentCollect, PubType, PubRec, OtherPubsUnchanged
<1>3. UNCHANGED <<adv, hs, lockTotal>>
  BY DEF AgentCollect
<1>4. IntakeReadFresh'
  BY <1>2, <1>3 DEF LInv, IntakeReadFresh, OtherPubsUnchanged
<1>5. PublishedReservedStored'
  BY <1>2, <1>3 DEF LInv, PublishedReservedStored, OtherPubsUnchanged
<1>. QED
  BY <1>3, <1>4, <1>5 DEF LInv, LocksAccounted, LockReadFresh

\* The intake's Get reads the stored record at its current version.
LEMMA IntakeGetLInv ==
    ASSUME IInv, LInv, NEW c \in Clusters, IntakeGet(c)
    PROVE  LInv'
<1>1. pub[c] \in PubRec /\ pub[c].pc = "post"
  BY IInvTypes DEF PubType, IntakeGet
<1>2. /\ pub'[c].pc = "write" /\ pub'[c].existing = adv[c] /\ pub'[c].res = pub[c].res
      /\ OtherPubsUnchanged(c)
  BY <1>1, IInvTypes DEF IntakeGet, PubType, PubRec, OtherPubsUnchanged
<1>3. UNCHANGED <<adv, hs, lockTotal>>
  BY DEF IntakeGet
<1>4. adv[c] # NoAdv => adv[c].rv \in Nat
  BY IInvTypes DEF AdvType, AdvRec
<1>5. IntakeReadFresh'
  BY <1>2, <1>3, <1>4 DEF LInv, IntakeReadFresh, OtherPubsUnchanged
<1>6. PublishedReservedStored'
  BY <1>1, <1>2, <1>3 DEF LInv, PublishedReservedStored, OtherPubsUnchanged
<1>. QED
  BY <1>3, <1>5, <1>6 DEF LInv, LocksAccounted, LockReadFresh

\* Without a conflict the intake writes the stored Reserved back unchanged
\* (nil when there was no record) at a higher version: the record its Get
\* returned is the stored one, and a non-nil Reserved in the POST implies
\* a non-nil one in that record.
LEMMA IntakeRecordFields ==
    ASSUME IInv, LInv, NEW c \in Clusters, pub[c].pc = "write", ~IntakeConflict(c)
    PROVE  LET w == IntakeRecord(c, pub[c].existing)
           IN  /\ w \in AdvRec
               /\ w.reserved = IF adv[c] = NoAdv THEN Nil ELSE adv[c].reserved
               /\ adv[c] # NoAdv => w.rv > adv[c].rv
<1>. DEFINE e == pub[c].existing
            w == IntakeRecord(c, e)
<1>1. pub[c] \in PubRec /\ e \in AdvRec \cup {NoAdv}
  BY IInvTypes DEF PubType, PubRec
<1>2. w \in AdvRec
  BY <1>1 DEF IntakeRecord, AdvRec, PubRec
<1>3. CASE e = NoAdv
  <2>1. adv[c] = NoAdv
    BY <1>3 DEF IntakeConflict
  <2>2. pub[c].res = Nil
    BY <1>3 DEF LInv, PublishedReservedStored
  <2>. QED
    BY <1>2, <1>3, <2>1, <2>2 DEF IntakeRecord
<1>4. CASE e # NoAdv
  <2>1. adv[c] # NoAdv /\ e.rv = adv[c].rv
    BY <1>4 DEF IntakeConflict
  <2>2. e = adv[c]
    BY <1>4, <2>1 DEF LInv, IntakeReadFresh
  <2>3. e.reserved = Nil => pub[c].res = Nil
    BY <1>4 DEF LInv, PublishedReservedStored
  <2>4. w.reserved = adv[c].reserved
    BY <1>4, <2>2, <2>3 DEF IntakeRecord
  <2>5. w.rv > adv[c].rv
    BY <1>1, <1>4, <2>1 DEF IntakeRecord, AdvRec
  <2>. QED
    BY <1>2, <2>1, <2>4, <2>5
<1>. QED
  BY <1>2, <1>3, <1>4

\* The intake's write keeps every stored Reserved and every copy fresh;
\* after a conflict it writes nothing and the retry keeps its copies.
LEMMA IntakeWriteLInv ==
    ASSUME IInv, LInv, NEW c \in Clusters, IntakeWrite(c)
    PROVE  LInv'
<1>1. pub[c] \in PubRec /\ pub[c].pc = "write"
  BY IInvTypes DEF PubType, IntakeWrite
<1>2. UNCHANGED <<hs, lockTotal>>
  BY DEF IntakeWrite
<1>3. CASE /\ ~IntakeConflict(c)
           /\ adv' = [adv EXCEPT ![c] = IntakeRecord(c, pub[c].existing)]
           /\ pub' = [pub EXCEPT ![c].pc = "idle"]
  <2>. DEFINE w == IntakeRecord(c, pub[c].existing)
  <2>1. /\ w \in AdvRec
        /\ w.reserved = IF adv[c] = NoAdv THEN Nil ELSE adv[c].reserved
        /\ adv[c] # NoAdv => w.rv > adv[c].rv
    BY <1>1, <1>3, IntakeRecordFields
  <2>2. adv'[c] = w /\ \A d \in Clusters \ {c} : adv'[d] = adv[d]
    BY <1>3, IInvTypes DEF AdvType
  <2>3. pub'[c].pc = "idle" /\ OtherPubsUnchanged(c)
    BY <1>1, <1>3, IInvTypes DEF PubType, PubRec, OtherPubsUnchanged
  <2>4. w # NoAdv
    BY <2>1, SentinelAssumption
  <2>5. LocksAccounted'
    <3>1. ReservedOrZero(w.reserved) = lockTotal[c]
      <4>1. CASE adv[c] = NoAdv
        BY <2>1, <4>1 DEF LInv, LocksAccounted, ReservedOrZero
      <4>2. CASE adv[c] # NoAdv
        BY <2>1, <4>2 DEF LInv, LocksAccounted
      <4>. QED
        BY <4>1, <4>2
    <3>. QED
      BY <1>2, <2>2, <2>4, <3>1 DEF LInv, LocksAccounted
  <2>6. LockReadFresh'
    <3>1. SUFFICES ASSUME NEW k \in Requests, hs'[k].pc = "lockUpdate"
                   PROVE  LET u == hs'[k].target
                          IN  /\ hs'[k].got.rv =< adv'[u].rv
                              /\ hs'[k].got.rv = adv'[u].rv =>
                                     hs'[k].got = AddReservation(adv'[u], Allocatable[u],
                                                                Allocated[u], hs'[k].req)
      BY DEF LockReadFresh
    <3>2. hs[k].target \in Clusters /\ adv[hs[k].target] # NoAdv /\ hs[k].got \in AdvRec
      BY <1>2, <3>1 DEF IInv, Decided
    <3>3. CASE hs[k].target = c
      <4>1. adv[c] \in AdvRec
        BY <3>2, <3>3, IInvTypes DEF AdvType
      <4>. QED
        BY <1>2, <2>1, <2>2, <3>1, <3>2, <3>3, <4>1 DEF LInv, LockReadFresh, AdvRec
    <3>4. CASE hs[k].target # c
      BY <1>2, <2>2, <3>1, <3>2, <3>4 DEF LInv, LockReadFresh
    <3>. QED
      BY <3>3, <3>4
  <2>7. IntakeReadFresh' /\ PublishedReservedStored'
    BY <2>2, <2>3 DEF LInv, IntakeReadFresh, PublishedReservedStored, OtherPubsUnchanged
  <2>. QED
    BY <2>5, <2>6, <2>7 DEF LInv
<1>4. CASE /\ IntakeConflict(c)
           /\ pub' = [pub EXCEPT ![c] = AfterPostError(pub[c])]
           /\ UNCHANGED adv
  <2>1. /\ pub'[c].pc \in {"post", "idle"}
        /\ pub'[c].res = pub[c].res /\ pub'[c].existing = pub[c].existing
        /\ OtherPubsUnchanged(c)
    BY <1>1, <1>4, IInvTypes DEF AfterPostError, PubType, PubRec, OtherPubsUnchanged
  <2>2. IntakeReadFresh' /\ PublishedReservedStored'
    BY <1>1, <1>4, <2>1 DEF LInv, IntakeReadFresh, PublishedReservedStored, OtherPubsUnchanged
  <2>. QED
    BY <1>2, <1>4, <2>2 DEF LInv, LocksAccounted, LockReadFresh
<1>. QED
  BY <1>3, <1>4 DEF IntakeWrite

-----------------------------------------------------------------------------
(* LInv is inductive.                                                      *)

\* The poller, the enforcement of instructions and the stuttering steps
\* touch none of the state LInv is about.
LEMMA FrameLInv ==
    ASSUME LInv, UNCHANGED <<adv, hs, pub, lockTotal>>
    PROVE  LInv'
BY DEF LInv, LocksAccounted, LockReadFresh, IntakeReadFresh, PublishedReservedStored

\* Initially there are no advertisements and no locks.
LEMMA InitLInv == Init => LInv
BY DEF Init, LInv, LocksAccounted, LockReadFresh, IntakeReadFresh, PublishedReservedStored

\* Every step of the system keeps LInv, given IInv before it.
LEMMA NextLInv ==
    ASSUME IInv, LInv, [Next]_vars
    PROVE  LInv'
<1>1. CASE \E r \in Requests, c \in Clusters, q \in ReqChoices : Receive(r, c, q)
  BY <1>1, PassiveHandlerLInv
<1>2. CASE \E r \in Requests : HandlerStep(r)
  BY <1>2, PassiveHandlerLInv, LockGetLInv, LockUpdateLInv DEF HandlerStep
<1>3. CASE \E c \in Clusters : AgentCollect(c) \/ IntakeGet(c) \/ IntakeWrite(c) \/ Poll(c)
  BY <1>3, AgentCollectLInv, IntakeGetLInv, IntakeWriteLInv, FrameLInv DEF Poll
<1>4. CASE \E c \in Clusters, r \in Requests : Enforce(c, r)
  BY <1>4, FrameLInv DEF Enforce
<1>5. CASE Finished \/ UNCHANGED vars
  BY <1>5, FrameLInv DEF Finished, vars
<1>. QED
  BY <1>1, <1>2, <1>3, <1>4, <1>5 DEF Next

\* The stored Reserved of every cluster is exactly the sum of the lock
\* Updates applied to it: no lock is lost to a concurrent lock of another
\* PostReservation goroutine (the compare-and-swap of the RetryOnConflict
\* loop) or to PostAdvertisement writing back a copy it read before the
\* lock (the preservation of the stored Reserved).
THEOREM LocksAccountedInvariant == Spec => []LocksAccounted
<1>1. Init => IInv /\ LInv
  BY InitIInv, InitLInv
<1>2. IInv /\ LInv /\ [Next]_vars => IInv' /\ LInv'
  BY NextIInv, NextLInv
<1>3. IInv /\ LInv => LocksAccounted
  BY DEF LInv
<1>. QED
  BY <1>1, <1>2, <1>3, PTL DEF Spec

-----------------------------------------------------------------------------
(* ReservedNeverDecreases from LocksAccounted.                             *)

\* The step ReservedNeverDecreases constrains.
ReservedStep ==
    \A c \in Clusters :
        adv[c] # NoAdv =>
            /\ adv'[c] # NoAdv
            /\ \A x \in Res : ReservedOrZero(adv'[c].reserved)[x]
                                >= ReservedOrZero(adv[c].reserved)[x]

\* No step deletes an advertisement, and the lock history only grows.
LEMMA StepGrows ==
    ASSUME IInv, [Next]_vars
    PROVE  \A c \in Clusters :
               /\ adv[c] # NoAdv => adv'[c] # NoAdv
               /\ \A x \in Res : lockTotal'[c][x] >= lockTotal[c][x]
<1>1. \A c \in Clusters : \A x \in Res : lockTotal[c][x] \in Nat
  BY IInvTypes DEF LockTotalType, Quantity
<1>2. CASE UNCHANGED <<adv, lockTotal>>
  BY <1>1, <1>2
<1>3. CASE \E r \in Requests : LockUpdate(r)
  <2>1. PICK r \in Requests : LockUpdate(r)
    BY <1>3
  <2>. DEFINE t == hs[r].target
  <2>2. t \in Clusters /\ hs[r].got \in AdvRec /\ hs[r].req \in Quantity
    BY <2>1, IInvTypes DEF LockUpdate, IInv, Decided, HsType, HandlerRec
  <2>3. CASE /\ adv' = [adv EXCEPT ![t] = [hs[r].got EXCEPT !.rv = @ + 1]]
             /\ lockTotal' = [lockTotal EXCEPT ![t] = AddQ(@, hs[r].req)]
    <3>1. adv'[t] # NoAdv
      BY <2>2, <2>3, IInvTypes, SentinelAssumption DEF AdvType, AdvRec
    <3>2. \A x \in Res : lockTotal'[t][x] >= lockTotal[t][x]
      BY <1>1, <2>2, <2>3, IInvTypes DEF LockTotalType, AddQ, Quantity
    <3>. QED
      BY <1>1, <2>3, <3>1, <3>2, IInvTypes DEF AdvType, LockTotalType
  <2>. QED
    BY <1>2, <2>1, <2>3 DEF LockUpdate
<1>4. CASE \E c \in Clusters : IntakeWrite(c)
  <2>1. PICK c \in Clusters : IntakeWrite(c)
    BY <1>4
  <2>2. CASE adv' = [adv EXCEPT ![c] = IntakeRecord(c, pub[c].existing)]
    <3>1. IntakeRecord(c, pub[c].existing) # NoAdv
      BY IInvTypes, SentinelAssumption DEF PubType, PubRec, IntakeRecord, AdvRec
    <3>. QED
      BY <1>1, <2>1, <2>2, <3>1, IInvTypes DEF IntakeWrite, AdvType
  <2>. QED
    BY <1>2, <2>1, <2>2 DEF IntakeWrite
<1>5. \/ UNCHANGED <<adv, lockTotal>>
      \/ \E r \in Requests : LockUpdate(r)
      \/ \E c \in Clusters : IntakeWrite(c)
  <2>1. CASE \E r \in Requests, c \in Clusters, q \in ReqChoices : Receive(r, c, q)
    BY <2>1 DEF Receive
  <2>2. CASE \E r \in Requests : HandlerStep(r)
    BY <2>2 DEF HandlerStep, Decide, Create, AddFinalizer, LockGet, MarkFailed, MarkReserved
  <2>3. CASE \E c \in Clusters : AgentCollect(c) \/ IntakeGet(c) \/ IntakeWrite(c) \/ Poll(c)
    BY <2>3 DEF AgentCollect, IntakeGet, Poll
  <2>4. CASE \E c \in Clusters, r \in Requests : Enforce(c, r)
    BY <2>4 DEF Enforce
  <2>5. CASE Finished \/ UNCHANGED vars
    BY <2>5 DEF Finished, vars
  <2>. QED
    BY <2>1, <2>2, <2>3, <2>4, <2>5 DEF Next
<1>. QED
  BY <1>2, <1>3, <1>4, <1>5

\* Spec 8.4: no step, of the intake or of any PostReservation goroutine,
\* lowers a stored Reserved or removes an advertisement.  The stored
\* Reserved is the lock history (LocksAccounted before and after the
\* step), which only grows.
THEOREM ReservedMonotone == Spec => ReservedNeverDecreases
<1>1. IInv /\ LInv /\ [Next]_vars => [ReservedStep]_vars
  <2>. SUFFICES ASSUME IInv, LInv, [Next]_vars PROVE ReservedStep
    OBVIOUS
  <2>1. LInv'
    BY NextLInv
  <2>2. \A c \in Clusters : adv[c] # NoAdv =>
            /\ ReservedOrZero(adv[c].reserved) = lockTotal[c]
            /\ ReservedOrZero(adv'[c].reserved) = lockTotal'[c]
    BY <2>1, StepGrows DEF LInv, LocksAccounted
  <2>. QED
    BY <2>2, StepGrows DEF ReservedStep
<1>2. Init => IInv /\ LInv
  BY InitIInv, InitLInv
<1>3. IInv /\ LInv /\ [Next]_vars => IInv' /\ LInv'
  BY NextIInv, NextLInv
<1>. QED
  BY <1>1, <1>2, <1>3, PTL DEF Spec, ReservedNeverDecreases, ReservedStep

====
