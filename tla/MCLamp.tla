------------------------------- MODULE MCLamp -------------------------------
(***************************************************************************)
(* What the election blocks of the lamp chain are made of, for TLC: the    *)
(* verified headers (VerifiedHeaders), the elections (ElectionPool) and    *)
(* the miner that is started and stopped (MinerControl).  A behaviour      *)
(* shows one of them; part says which.                                     *)
(***************************************************************************)
EXTENDS LampElections, TLC

CONSTANTS o1, o2, o3, n1, n2, h1, h2

VARIABLE part

mcvars == <<part, vars, evars, mvars>>

\* The police changes by one officer after the first term.
Changing == [t \in 1..MaxTerm |-> IF t = 1 THEN {o1, o2} ELSE {o2, o3}]

-----------------------------------------------------------------------------
(* Elections: an election block every two blocks, an address that is up    *)
(* for two of them, a restart, a refused block.                            *)

E(a, k, n) == [addr |-> a, kind |-> k, num |-> n]

MCElections == {E(1, "sealers", 2), E(1, "sealers", 4)}
MCGenesis   == [k \in {"sealers", "police"} |-> {7, 8}]

-----------------------------------------------------------------------------
MCInit ==
    /\ part \in {"headers", "elections", "control"}
    /\ Init /\ Elections!Init /\ Control!Init

MCNext ==
    /\ UNCHANGED part
    /\ \/ part = "headers" /\ Next /\ UNCHANGED <<evars, mvars>>
       \/ part = "elections" /\ Elections!Next /\ UNCHANGED <<vars, mvars>>
       \/ part = "control" /\ Control!Next /\ UNCHANGED <<vars, evars>>

MCSpec == MCInit /\ [][MCNext]_mcvars

Alike == Permutations(Miner) \cup Permutations({n1, n2}) \cup Permutations({h1, h2})
=============================================================================
