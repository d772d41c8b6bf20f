------------------------------ MODULE MCPolice ------------------------------
(***************************************************************************)
(* The police for TLC: the threads of an officer (PoliceOfficer) and the   *)
(* verification of batches with headers of other nodes (PoliceHeaders).    *)
(* A behaviour shows one of them; part says which.                         *)
(***************************************************************************)
EXTENDS Police, TLC

CONSTANTS p1, p2, p3, j1, j2, j3    \* threads and peers

VARIABLE part

mcvars == <<part, vars, headers>>

-----------------------------------------------------------------------------
(* The officer: conflicting batches, one of them invalid, a channel with   *)
(* room for one, two starts and a stop.                                    *)

A1 == [shard |-> 0, height |-> 1, id |-> 1]
B1 == [shard |-> 0, height |-> 1, id |-> 2]
A2 == [shard |-> 0, height |-> 2, id |-> 3]

MCBatches == {A1, B1, A2}
MCValid   == {A1, A2}

-----------------------------------------------------------------------------
(* The headers: a chain of six with a fork at height 2, peers that are     *)
(* complete, short or on the fork, answers lost or late.                   *)

H(n, f) == [num |-> n, fork |-> f]

MCBatch ==
    (j1 :> [height |-> 4, header |-> H(4, "a"), from |-> 1, good |-> TRUE, own |-> FALSE])
 @@ (j2 :> [height |-> 3, header |-> H(3, "b"), from |-> 1, good |-> TRUE, own |-> FALSE])
 @@ (j3 :> [height |-> 4, header |-> H(4, "a"), from |-> 0, good |-> TRUE, own |-> TRUE])

MCFork == (p1 :> "a") @@ (p2 :> "b") @@ (p3 :> "a")
MCHead == (p1 :> 5) @@ (p2 :> 4) @@ (p3 :> 2)

-----------------------------------------------------------------------------
MCInit ==
    /\ part \in {"officer", "headers"}
    /\ Init /\ Headers!Init

MCNext ==
    /\ UNCHANGED part
    /\ \/ part = "officer" /\ Next /\ UNCHANGED headers
       \/ part = "headers" /\ Headers!Next /\ UNCHANGED vars

MCSpec == MCInit /\ [][MCNext]_mcvars
=============================================================================
