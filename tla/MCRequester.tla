----------------------------- MODULE MCRequester -----------------------------
(* Small instances of Requester for TLC: cluster 1 requests, cluster 2     *)
(* provides, one ResourceRequest and three broker call ids for its sends.  *)
EXTENDS Requester, TLC

MCClusters == {1, 2}
Unit(n) == [x \in Res |-> n]
MCAllocatable == [c \in MCClusters |-> Unit(2)]
MCAllocated == [c \in MCClusters |-> Zero]
MCReqChoices == {Unit(1)}
MCRRReq == [k \in RRs |-> Unit(1)]

\* The broker call ids are interchangeable: RRSend takes any unused one.
MCCallSymmetry == Permutations(Requests)
====
