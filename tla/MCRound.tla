------------------------------- MODULE MCRound -------------------------------
(***************************************************************************)
(* The threads of one HBFT round for TLC: those of a replica that answer   *)
(* messages (BftRelay) and those of the primary that work on the answers   *)
(* (HbftPrimary).  A behaviour shows one of them; part says which.         *)
(***************************************************************************)
EXTENDS HbftRound, TLC

CONSTANTS r1, r2, r3, s1, s2, s3    \* replicas

VARIABLE part

mcvars == <<vars, pvars, part>>

-----------------------------------------------------------------------------
(* The relay: two queries of one primary (its pre-confirm and its confirm  *)
(* message), one of another, and a reply.                                  *)

Query(p, k) == [prim |-> p, type |-> "query", k |-> k]
AnyReply    == [prim |-> "p1", type |-> "reply", k |-> 1]

MCPrims == {"p1", "p2"}
MCMsg   == {Query("p1", 1), Query("p1", 2), Query("p2", 1), AnyReply}

\* Either all queries come, or one and the reply.
Comes(q) == IF q.query THEN MCMsg \ {AnyReply} ELSE {Query("p1", 1), AnyReply}

RelayPart == {[query |-> TRUE], [query |-> FALSE]}

-----------------------------------------------------------------------------
(* The primary: three replicas answer both messages, a goroutine of a      *)
(* reply and the primary's own run at once; two answer, and all goroutines *)
(* run at once; two answer while the parent is imported and an old reply   *)
(* is in the buffer.                                                       *)

Three == [replica |-> Replica, answering |-> Answering, open |-> MaxOpen, import |-> Import, stale |-> Stale]
Two   == [replica |-> {s1, s2, s3}, answering |-> {s1, s2}, open |-> 2, import |-> FALSE, stale |-> 0]
Head  == [replica |-> {s1, s2, s3}, answering |-> {s1, s2}, open |-> 1, import |-> TRUE, stale |-> 1]

PrimaryPart == {Three, Two, Head}

Primary(k) ==
    INSTANCE HbftPrimary WITH
        Replica <- k.replica, Answering <- k.answering,
        Import <- k.import, Stale <- k.stale, MaxOpen <- k.open

Alike == Permutations({r1, r2, r3}) \cup Permutations({s1, s2})

MCInit ==
    /\ Init
    /\ \/ part \in RelayPart /\ P!Init
       \/ \E k \in PrimaryPart : part = k /\ ~busy /\ Primary(k)!Init

MCNext ==
    /\ UNCHANGED part
    /\ \/ \E q \in RelayPart :
            /\ part = q /\ Next /\ \A m \in Msg \ Comes(q) : hand'[m] = Off
            /\ UNCHANGED pvars
       \/ \E k \in PrimaryPart : part = k /\ Primary(k)!Next /\ UNCHANGED vars

MCSpec == MCInit /\ [][MCNext]_mcvars
=============================================================================
