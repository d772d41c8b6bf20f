---------------------------- MODULE MCFutureSync ----------------------------
(***************************************************************************)
(* FutureSync for TLC: four sealers, splits the failed views can leave,    *)
(* and a schedule.  A sealer in Prompt is not overtaken while it can move  *)
(* or a message waits for it; a message or a reply that is lost is counted *)
(* as a fault.  With Prompt empty and MaxFaults large this is FutureSync's *)
(* own relation.                                                           *)
(***************************************************************************)
EXTENDS FutureSync

VARIABLES
    faults,     \* faults so far
    scene       \* the scenario of the behaviour

mcvars == <<vars, faults, scene>>

(* prompt: sealers that are not delayed; views, blocks: how far the        *)
(* behaviour goes; faults: messages and replies lost, turns missed; skew:  *)
(* FALSE if all clocks tick together.                                      *)
Scene(prompt, views, blocks, mayFail, skew) ==
    [prompt |-> prompt, views |-> views, blocks |-> blocks, faults |-> mayFail, skew |-> skew]

\* Losses and missed turns over four views.
Faulty == Scene(Sealer, 4, 6, 3, FALSE)
\* Clocks a view apart, and a sealer that handles its messages at any time.
Skewed == Scene(Sealer \ {4}, 2, 4, 0, TRUE)
\* Nothing goes wrong any more, for two rounds of primaries.
Calm   == Scene(Sealer, 8, 10, 0, FALSE)

Prompt == scene.prompt

Left(fs, ss, D) == [fut |-> fs, stage |-> ss, confirmed |-> D]

\* Sealer 1 is alone with the block of its view; its confirm message was lost.
Alone == Left(<<1, 0, 0, 0>>, <<"Confirm", "PreConfirm", "PreConfirm", "PreConfirm">>, {})

\* Then sealer 2, which had missed that round, was alone with its own block.
Two == Left(<<1, 2, 0, 0>>, <<"Confirm", "Confirm", "PreConfirm", "PreConfirm">>, {})

\* The second block was confirmed by a quorum, and the first primary missed it.
Late == Left(<<1, 2, 2, 2>>, <<"Confirm", "Idle", "Confirm", "Confirm">>, {2})

\* Sealer 4 was alone with a second block, and its turn is the last.
Newer == Left(<<1, 0, 0, 2>>, <<"Confirm", "PreConfirm", "PreConfirm", "Confirm">>, {})

MCSplits == {Alone, Two, Late, Newer}
NewerAlone == {Newer}

Heard(i, m) ==
    CASE m.type = "ask"    -> AskHeard(i, m)
      [] m.type = "answer" -> AnswerHeard(i, m)
      [] m.type = "pre"    -> PreConfirmAccepted(i, m)
      [] m.type = "conf"   -> ConfirmAccepted(i, m)

\* The primary's own threads, and what the messages of i can change.
Pending(i) ==
    \/ my[i].view # view[i]
    \/ own[i] # NoMsg
    \/ prim[i].phase \in {"pre", "conf"} /\ Cardinality(prim[i].signers) >= Quorum
    \/ \E m \in net : Heard(i, m)

First(i) == \A j \in Prompt \cup {i} : j <= i => (Pending(j) <=> j = i)
Quiet    == \A j \in Prompt : ~Pending(j)

InStep   == scene.skew \/ \A i, j \in Sealer : view[i] = view[j]

Fault(n) == faults + n <= scene.faults /\ faults' = faults + n /\ scene' = scene

Local(i)  == GenMyOldestFutureMsg(i) \/ AppendOwn(i) \/ PreConfirmQuorum(i) \/ ConfirmQuorum(i)
Listen(i) == ResolveAsk(i) \/ ResolveAnswer(i)
Sign(i)   == HandlePreConfirmMsg(i) \/ HandleConfirmMsg(i)

\* A reply is lost if it could have reached its primary and did not.
ReplyLost ==
    \E m \in net \ net' :
        LET p == prim[Primary(m.view)]
        IN  /\ p.blk = m.blk /\ view[Primary(m.view)] = m.view
            /\ p.phase = m.type /\ prim' = prim

\* The turn of a sealer of S ends before it has sent its pre-confirm message.
Missed(S) ==
    Cardinality({i \in S \cap Prompt : ItsTimeToDoHbftWork(i) \/ prim[i].phase = "sync"})

\* Clocks that tick together pay together.
TickCost(i) == IF scene.skew THEN Missed({i}) ELSE IF i = 1 THEN Missed(Sealer) ELSE 0

Run(i)   == First(i) /\ (Local(i) \/ Listen(i)) /\ Fault(0)
Serve(i) == First(i) /\ Sign(i) /\ Fault(IF ReplyLost THEN 1 ELSE 0)
Turn(i)  == /\ Quiet /\ InStep /\ (GetRequest(i) \/ HandleReq(i)) /\ Fault(0)
            /\ Len(blk') <= scene.blocks
Early(i) == full[i] /\ HandleReq(i) /\ First(i) /\ Fault(0) /\ Len(blk') <= scene.blocks
Clock(i) == /\ Quiet /\ Tick(i) /\ view[i] < scene.views
            /\ Fault(TickCost(i))
            /\ scene.skew \/ \A j \in 1..(i - 1) : view[j] > view[i]

Lose(i) ==
    /\ First(i)
    /\ \E m \in net : Heard(i, m) /\ net' = net \ {m}
    /\ Fault(1)
    /\ UNCHANGED <<blk, view, state, futures, sealing>>

MCNext == \E i \in Sealer : Run(i) \/ Serve(i) \/ Turn(i) \/ Early(i) \/ Clock(i) \/ Lose(i)

MCInit == Init /\ faults = 0 /\ scene \in {Faulty, Skewed, Calm}

MCSpec == MCInit /\ [][MCNext]_mcvars

\* What the synchronisation is for ("It's been a long time for sealing a new
\* block since the last block, start future block synchronisation"): once
\* nothing goes wrong any more, the split has ended and some candidate is
\* decided before the second round of primaries is over.
SplitEnds == scene = Calm /\ (\A i \in Sealer : view[i] = scene.views) => decided # {}
=============================================================================
