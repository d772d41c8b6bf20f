------------------------------- MODULE MCHbft -------------------------------
(***************************************************************************)
(* Hbft for TLC.  The next-state relation is Hbft's, scheduled: a sealer   *)
(* in Prompt is never overtaken by other nodes while one of its own        *)
(* threads can move or a message waits for it, and messages lost, turns    *)
(* missed and blocks not imported within their slot are counted as faults  *)
(* and bounded.  With Prompt empty and MaxFaults large this is Hbft's own  *)
(* relation.                                                               *)
(***************************************************************************)
EXTENDS HbftRefinement

CONSTANT Scenarios  \* bound: what may happen, a record per scenario

VARIABLES
    faults,     \* faults so far
    scene       \* the scenario of the behaviour

mcvars == <<vars, faults, scene>>

(* prompt: sealers whose threads and messages are not delayed; unstable:   *)
(* those that may restart; slots, blocks: how far the behaviour goes;      *)
(* faults: losses, missed turns, missed imports, races; skew: FALSE if all *)
(* clocks tick together.                                                   *)
Scene(prompt, unstable, slots, blocks, mayFail, skew) ==
    [prompt |-> prompt, unstable |-> unstable, slots |-> slots, blocks |-> blocks,
     faults |-> mayFail, skew |-> skew]

\* A seal that fails in either stage and what the next primaries make of it.
Rounds  == Scene(Sealer, {}, 3, 4, 2, FALSE)
\* All orders of the threads of the second primary.
Threads == Scene(Sealer \ {2}, {}, 2, 3, 0, FALSE)
\* Clocks one slot apart.
Skewed  == Scene(Sealer, {}, 2, 3, 1, TRUE)
\* Replicas split between head, future block and nothing.
Split   == Scene(Sealer, {}, 2, 3, 3, FALSE)
\* The second primary forgets what it has confirmed, or proposed.
Restarted == Scene(Sealer, {2}, 2, 3, 2, FALSE)
\* One fault and what becomes of it in the end.
Recovery  == Scene(Sealer, {}, 2, 3, 1, FALSE)
\* The worker of the first primary is late.
LateWorker == Scene(Sealer \ {1}, {}, 2, 3, 0, FALSE)

MCRounds   == {Rounds, Skewed}
MCFaults   == {Split, Restarted, Threads}
MCRecovery == {Recovery}
MCLate     == {LateWorker}

Prompt == scene.prompt

\* A thread of i can move, or a reply i waits for has arrived.
Pending(i) ==
    LET r == node[i]
    IN  \/ r.mine.phase = "fin" \/ r.abort \/ r.recv # <<>> \/ r.sleep
        \/ r.evHead < Len(r.chain) \/ r.wEv < Len(r.chain)
        \/ r.mine.phase = "seal" /\ r.mine.blk \in r.sealT
        \/ \E m \in net : ReplyAccepted(i, m)

\* A message waits for the handlers of i.
Arriving(i) ==
    /\ ~node[i].busy
    /\ \E m \in net : /\ m.type # "reply" /\ m.to = i
                      /\ m.type = "pre" => Num(m.blk) > CurrentNum(node[i])

Importable(i) ==
    \E j \in Sealer : \E k \in DOMAIN node[j].chain :
        LET e == node[j].chain[k]
        IN  ~InChain(node[i], e.blk) /\ InChain(node[i], blk[e.blk].parent)

\* i is the first node, of itself and the prompt ones, with something to do.
FirstPending(i)  == \A j \in Prompt \cup {i} : j <= i => (Pending(j) <=> j = i)
FirstArriving(i) ==
    /\ \A j \in Prompt : ~Pending(j)
    /\ \A j \in Prompt \cup {i} : j <= i => (Arriving(j) <=> j = i)

Quiet            == \A j \in Prompt : ~Pending(j) /\ ~Arriving(j)
InStep           == scene.skew \/ \A i, j \in Sealer : clock[i] = clock[j]

Fault(n) == faults + n <= scene.faults /\ faults' = faults + n /\ scene' = scene

\* The prompt sealers of S that have not imported a block, or not taken their
\* turn, when their slot ends.  Clocks that tick together pay together.
Missed(S) ==
    Cardinality({j \in S \cap Prompt : Importable(j)})
      + Cardinality({j \in S \cap Prompt : Waiting(j) /\ ~FuturesFirst(node[j])})

TickCost(i) ==
    IF scene.skew THEN Missed({i}) ELSE IF i = 1 THEN Missed(Sealer) ELSE 0

\* Steps at no cost.
Run(i)   == FirstPending(i) /\ (Collector(i) \/ Thread(i) \/ SealDone(i)) /\ Fault(0)
Serve(i) == FirstArriving(i) /\ Handler(i) /\ Fault(0)
Turn(i)  == Quiet /\ InStep /\ (Miner(i) \/ ChainSync(i)) /\ Len(blk') <= scene.blocks /\ Fault(0)

\* A seal that times out is a fault only when a reply or the sealed flag is
\* already there.
GiveUp(i) ==
    \/ SealTimeout(i) /\ Quiet /\ Fault(0)
    \/ SealTimeout(i) /\ FirstPending(i) /\ Fault(1)

Drop(i) ==
    \/ Fault(1) /\ FirstPending(i) /\ Lose(i, {"reply"})
    \/ Fault(1) /\ FirstArriving(i) /\ Lose(i, {"pre", "conf"})

Advance(i) ==
    /\ clock[i] < scene.slots
    /\ scene.skew \/ \A j \in 1..(i - 1) : clock[j] > clock[i]
    /\ Tick(i)
    /\ Quiet
    /\ Fault(TickCost(i))

Restart(i) == i \in scene.unstable /\ Crash(i) /\ InStep /\ Quiet /\ Fault(0)

MCNext ==
    \E i \in Sealer :
        \/ Run(i) \/ Serve(i) \/ Turn(i) \/ GiveUp(i) \/ Drop(i) \/ Advance(i)
        \/ Restart(i)

MCInit == Init /\ faults = 0 /\ scene \in Scenarios

MCSpec == MCInit /\ [][MCNext]_mcvars

\* Goroutines are scheduled, messages that are not lost arrive, the sealing
\* goroutine's ticker runs and time goes on: the system does not stop while
\* one of these steps is possible.  Announced blocks are fetched by threads of
\* their own; their fairness is strong because Sync waits for quiet moments.
Sync == \E i \in Sealer : Quiet /\ InStep /\ ChainSync(i) /\ Fault(0)

MCFairness ==
    /\ WF_mcvars(\E i \in Sealer : Run(i) \/ Serve(i) \/ GiveUp(i) \/ Advance(i))
    /\ SF_mcvars(Sync)

MCFairSpec == MCSpec /\ MCFairness
=============================================================================
