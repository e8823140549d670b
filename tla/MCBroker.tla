------------------------------ MODULE MCBroker ------------------------------
(* Small instances of Broker for TLC: two or three clusters of two units   *)
(* of each resource, and two reservation calls racing at the store.        *)
EXTENDS Broker, TLC

MCClusters == {1, 2}
MCClusters3 == {1, 2, 3}

Unit(n) == [x \in Res |-> n]

MCAllocatable == [c \in MCClusters |-> Unit(2)]
MCAllocated == [c \in MCClusters |-> Zero]
MCAllocatable3 == [c \in MCClusters3 |-> Unit(2)]
MCAllocated3 == [c \in MCClusters3 |-> Zero]

MCReqChoices == {Unit(1), Unit(2)}

\* One requested size, for the liveness run.
MCReqChoices1 == {Unit(1)}

\* The requests are interchangeable: no definition names one of them.
MCSymmetry == Permutations(Requests)
====
