-------------------------------- MODULE Hbft --------------------------------
(***************************************************************************)
(* The HBFT consensus of the elephant chain: the replicas of one sealer    *)
(* term, their chains, the messages between them, and in every node the    *)
(* three threads that touch the consensus state: the message handlers, the *)
(* sealing goroutine (elephanthash) and the worker that connects blocks.   *)
(*                                                                         *)
(* Nodes are honest.  Messages may be lost, delayed and reordered; a node  *)
(* may restart and then keeps only its chain.  A view is a slot of         *)
(* BlockMinPeriodHbft + BlockMaxPeriodHbft; the clocks of two nodes, and   *)
(* the phases of their slots, differ by at most one slot.                  *)
(***************************************************************************)
EXTENDS HbftWorker, SequencesExt

CONSTANTS
    MaxSlot,    \* bound: the last slot of a behaviour
    MaxBlocks,  \* bound: blocks ever proposed, the base block included
    MaxCrash    \* bound: restarts

ASSUME BoundsAssumption == MaxSlot \in Nat /\ MaxBlocks \in Nat /\ MaxCrash \in Nat

VARIABLES
    node,       \* node[i]: the record of sealer i
    clock,      \* clock[i]: the slot sealer i is in
    net,        \* messages in flight
    crashes     \* restarts so far

vars == <<blk, stg, node, clock, net, crashes>>

-----------------------------------------------------------------------------
(* Messages.  The fields a pre-confirm message repeats from its request    *)
(* are those of blk[b]; a confirm message carries its stage list.          *)

PreMsg(i, b)           == [type |-> "pre", to |-> i, blk |-> b]
ConfMsg(i, b, comp)    == [type |-> "conf", to |-> i, blk |-> b, comp |-> comp]
ReplyMsg(i, b, t)      == [type |-> "reply", from |-> i, blk |-> b, mtype |-> t]

\* Replies to block b of the types T.  Once nobody waits for them any more
\* they are taken off the network: delivering them would change nothing.
Replies(b, T) == {m \in net : m.type = "reply" /\ m.blk = b /\ m.mtype \in T}

-----------------------------------------------------------------------------
(* Whose turn it is.                                                       *)

\* GetCurrentSealer: NodeTable was filled from the last head event handled.
GetCurrentSealer(i) ==
    LET tb == blk[node[i].chain[node[i].evHead].blk]
    IN  IF clock[i] <= tb.slot THEN 0
        ELSE ((tb.sealer + clock[i] - tb.slot - 1) % N) + 1

\* Mutant of GetCurrentViewID: slots without a block do not count.
GetCurrentViewIDOfHead(i) == stg[GetCurrentBlock(node[i]).s1].view + 1

\* GetCurrentViewID: computed from the head itself.
GetCurrentViewID(i) ==
    LET h    == GetCurrentBlock(node[i])
        late == clock[i] - blk[h.blk].slot - 1
    IN  stg[h.s1].view + 1 + (IF late > 0 THEN late ELSE 0)

-----------------------------------------------------------------------------
(* Initial state: every node has the base block and prepares its successor.*)

FreshNode(chain) ==
    [live |-> FALSE, stage |-> IDLE, view |-> 0, prim |-> 0, msgHash |-> NoHash,
     blocks |-> <<>>, signed |-> <<>>, completed |-> {}, cfmCnt |-> 0,
     replies |-> {}, busy |-> FALSE, sealT |-> {}, sealF |-> {},
     evHead |-> Len(chain), chain |-> chain, futures |-> <<>>,
     work |-> chain[Len(chain)].blk, wEv |-> Len(chain), abort |-> FALSE,
     mine |-> NOMINE, recv |-> <<>>, wFut |-> 0, wWork |-> 0, must |-> TRUE,
     sleep |-> FALSE, late |-> FALSE, panic |-> FALSE]

BaseBlock == [num |-> 1, parent |-> 0, sealer |-> N, slot |-> 0, view |-> 0, comp |-> 0]

BaseStage(t, p) == [type |-> t, blk |-> 1, view |-> 0, parent |-> p, signs |-> Sealer]

Init ==
    /\ blk = <<BaseBlock>>
    /\ stg = <<BaseStage(PRE, 0), BaseStage(CONF, 1)>>
    /\ node = [i \in Sealer |-> FreshNode(<<Entry(1, <<1, 2>>, 1)>>)]
    /\ clock = [i \in Sealer |-> 1]
    /\ net = {}
    /\ crashes = 0

-----------------------------------------------------------------------------
(* The sealing goroutine: elephanthash.mine.                               *)

Waiting(i) ==
    LET r == node[i]
    IN  /\ r.work # 0
        /\ r.mine.phase = "none"
        /\ ~r.busy
        /\ ~r.late
        /\ GetCurrentSealer(i) = i

\* ItsTimeToDoHbftWork(block, future): the futures must be handled before a
\* block on top of r.work may be proposed.
FuturesFirst(r) ==
    LET pair == GetSealedBlockStages(r.completed)
        old  == Oldest(r.futures)
    IN  /\ r.futures # <<>>
        /\ \/ Len(r.futures) > 1 /\ blk[r.futures[2]].parent = old
           \/ old # r.work
           \/ /\ Len(r.futures) = 1
              /\ pair # <<>>
              /\ stg[pair[1]].blk = old
              /\ stg[pair[2]].blk = old

Finish(r, b, code, pair) ==
    [r EXCEPT !.mine = [phase |-> "fin", blk |-> b, code |-> code, pair |-> pair,
                        chain |-> BuildCompletedStageChain(r.completed),
                        stop |-> r.mine.stop]]

\* The goroutine reports "retry" without having proposed anything.
MineFuture(i) ==
    LET r == node[i]
    IN  /\ Waiting(i)
        /\ FuturesFirst(r)
        /\ node' = [node EXCEPT ![i] = [Finish(r, 0, "retry", <<>>) EXCEPT !.work = 0]]
        /\ UNCHANGED <<blk, stg, clock, net, crashes>>

\* StartHbftWork, GetRequest, resolveRequestMsg, HandleReq, StartConsensus:
\* propose a block and send the pre-confirm message with completed stage c,
\* or (failed) leave the state idle and only wait for the time out.  The
\* goroutine that adds the primary's own reply runs before any other reply.
Propose(i, c, failed) ==
    LET b    == Len(blk) + 1
        p    == node[i].work
        view == GetCurrentViewID(i)
        new  == [num |-> Num(p) + 1, parent |-> p, sealer |-> i, slot |-> clock[i],
                 view |-> view, comp |-> c]
        r0   == CreateStateForNewConsensus(node[i], i, view)
        r1   == [r0 EXCEPT !.blocks = Append(@, b), !.busy = TRUE, !.work = 0,
                           !.mine = Sealing(b)]
        r2   == [r1 EXCEPT !.signed = Append(@, b), !.prim = i, !.stage = PRECFM,
                           !.view = view, !.msgHash = <<PRE, b>>, !.replies = {i}]
    IN  /\ blk' = Append(blk, new)
        /\ node' = [node EXCEPT ![i] = IF failed THEN [r1 EXCEPT !.stage = IDLE] ELSE r2]
        /\ net' = IF failed THEN net
                  ELSE net \cup {PreMsg(j, b) : j \in Sealer \ {i}}
        /\ UNCHANGED <<stg, clock, crashes>>

Request(i) ==
    LET r == node[i]
    IN  /\ Waiting(i)
        /\ ~FuturesFirst(r)
        /\ Len(blk) < MaxBlocks
        /\ IF r.work = GetCurrentBlock(r).blk THEN Propose(i, 0, FALSE)
           ELSE \/ \E c \in StartStages(r, r.work) : Propose(i, c, FALSE)
                \/ StartMayFail(r, r.work) /\ Propose(i, 0, TRUE)

\* BlockSealedCompleted gives up, after BlockMaxPeriodHbft or because the turn
\* has gone to another sealer.  In the first case BlockMaxStartDelayHbft is
\* over too, so the node starts no other seal in this slot.  It may have
\* looked at Sealed just before the last reply arrived, so a sealed block can
\* time out as well.
SealTimeout(i) ==
    LET r == node[i]
        b == r.mine.blk
        code == CASE r.stage = PRECFM  -> "retry"
                  [] r.stage = IDLE    -> "request"
                  [] r.stage = CONFIRM -> "confirm"
    IN  /\ r.mine.phase = "seal"
        /\ node' = [node EXCEPT ![i] =
              [Finish(r, b, code, <<>>) EXCEPT !.sealT = @ \ {b}, !.sealF = @ \cup {b},
                                               !.replies = {},
                                               !.late = GetCurrentSealer(i) = i]]
        /\ UNCHANGED <<blk, stg, clock, net, crashes>>

\* BlockSealedCompleted sees the block sealed; the stages put into it are the
\* newest completed one and its parent.
SealDone(i) ==
    LET r    == node[i]
        pair == GetSealedBlockStages(r.completed)
    IN  /\ r.mine.phase = "seal"
        /\ r.mine.blk \in r.sealT
        /\ node' = [node EXCEPT ![i] =
              Finish(r, r.mine.blk, IF pair = <<>> THEN "confirm" ELSE "sealed", pair)]
        /\ UNCHANGED <<blk, stg, clock, net, crashes>>

\* Mutant of MineReturn: the busy flag is cleared only for a sealed block.
MineReturnBusy(i) ==
    LET r == node[i]
    IN  /\ r.mine.phase = "fin"
        /\ node' = [node EXCEPT ![i] =
              [r EXCEPT !.busy = @ /\ r.mine.code # "sealed", !.mine = NOMINE,
                        !.recv = IF r.mine.stop THEN @ ELSE Append(@, r.mine)]]
        /\ net' = net \ Replies(r.mine.blk, {PRE, CONF})
        /\ UNCHANGED <<blk, stg, clock, crashes>>

\* Mutant of MineReturn: the result of an aborted goroutine is delivered.
MineReturnAborted(i) ==
    LET r == node[i]
    IN  /\ r.mine.phase = "fin"
        /\ node' = [node EXCEPT ![i] =
              [r EXCEPT !.busy = FALSE, !.mine = NOMINE, !.recv = Append(@, r.mine)]]
        /\ net' = net \ Replies(r.mine.blk, {PRE, CONF})
        /\ UNCHANGED <<blk, stg, clock, crashes>>

\* After its sleep the goroutine clears the busy flag and Seal returns; the
\* result of an aborted goroutine is dropped.
MineReturn(i) ==
    LET r == node[i]
    IN  /\ r.mine.phase = "fin"
        /\ node' = [node EXCEPT ![i] =
              [r EXCEPT !.busy = FALSE, !.mine = NOMINE,
                        !.recv = IF r.mine.stop THEN @ ELSE Append(@, r.mine)]]
        /\ net' = net \ Replies(r.mine.blk, {PRE, CONF})
        /\ UNCHANGED <<blk, stg, clock, crashes>>

\* A waiting goroutine whose work was replaced leaves mine: SetBusy(false).
MineAbort(i) ==
    /\ node[i].abort
    /\ node' = [node EXCEPT ![i] = [@ EXCEPT !.abort = FALSE, !.busy = FALSE]]
    /\ UNCHANGED <<blk, stg, clock, net, crashes>>

-----------------------------------------------------------------------------
(* Replicas.                                                               *)

\* resolvePreConfirmMsg / HandlePreConfirmMsg.  A refused message still
\* resets the confirm counter, may update an idle state and leaves its blocks
\* in the block list.
HandlePreConfirm(r, b, cur) ==
    LET fut == StageBlock(blk[b].comp)
        r0  == CreateStateForNewConsensus(r, blk[b].sealer, blk[b].view)
        r1  == [r0 EXCEPT !.blocks = Append(@, b)]
        r2  == IF fut # 0 /\ ~Has(r1.blocks, fut)
               THEN [r1 EXCEPT !.blocks = Append(@, fut)] ELSE r1
        ok  == /\ CheckViewPreConfirm(r2, b, cur)
               /\ CheckCurrentStatePreConfirm(r2, b)
               /\ ValidateNewBlocks(r2, b)
    IN  IF ok THEN Done([r2 EXCEPT !.prim = blk[b].sealer, !.signed = Append(@, b),
                                   !.stage = PRECFM, !.view = blk[b].view,
                                   !.msgHash = <<PRE, b>>])
              ELSE GaveUp(r2)

DeliverPreConfirm(i) ==
    \E m \in net :
      LET b == m.blk
          c == HandlePreConfirm(node[i], b, GetCurrentViewID(i))
      IN  /\ m.type = "pre" /\ m.to = i
          /\ ~node[i].busy
          /\ Num(b) > CurrentNum(node[i])
          /\ node' = [node EXCEPT ![i] = c.n]
          /\ net' = (net \ {m}) \cup (IF c.ok THEN {ReplyMsg(i, b, PRE)} ELSE {})
          /\ UNCHANGED <<blk, stg, clock, crashes>>

\* Mutant of addNewFutureBlockAndSetCompleted: the block is not added.
SetCompletedOnly(r, S) == [r EXCEPT !.completed = @ \cup S]

\* addNewFutureBlockAndSetCompleted for the newest signed block.
AddNewFutureBlockAndSetCompleted(r, S) ==
    [r EXCEPT !.futures = Append(@, Newest(r.signed)), !.completed = @ \cup S]

\* resolveConfirmMsg / HandleConfirmMsg.
HandleConfirm(r, b, comp) ==
    LET r0 == [r EXCEPT !.cfmCnt = 0]
    IN  IF ~r0.live \/ r0.stage = IDLE \/ ~CheckViewConfirm(r0, b) THEN GaveUp(r0)
        ELSE IF ~CheckCurrentStateConfirm(r0, comp) THEN GaveUp(ConfirmRefusal(r0, comp))
        ELSE Done([AddNewFutureBlockAndSetCompleted(r0, Range(comp))
                     EXCEPT !.prim = blk[b].sealer, !.stage = CONFIRM, !.view = blk[b].view])

DeliverConfirm(i) ==
    \E m \in net :
      LET c == HandleConfirm(node[i], m.blk, m.comp)
      IN  /\ m.type = "conf" /\ m.to = i
          /\ ~node[i].busy
          /\ node' = [node EXCEPT ![i] = c.n]
          /\ net' = (net \ {m}) \cup (IF c.ok THEN {ReplyMsg(i, m.blk, CONF)} ELSE {})
          /\ UNCHANGED <<blk, stg, clock, crashes>>

-----------------------------------------------------------------------------
(* The primary collects replies: HbftProcess and AddReplyMsg.              *)

\* A reply needs the busy flag and the current turn; any other is lost.
ReplyAccepted(i, m) ==
    /\ m.type = "reply" /\ blk[m.blk].sealer = i
    /\ node[i].busy
    /\ GetCurrentSealer(i) = i
    /\ GetCurrentViewID(i) = blk[m.blk].view
    /\ node[i].stage # IDLE
    /\ node[i].msgHash = <<m.mtype, m.blk>>

\* A pre-confirm reply below the quorum, or a quorum for a block that is no
\* longer signed or has already timed out.
CollectPreReply(i) ==
    \E m \in net :
      LET r == [node[i] EXCEPT !.replies = @ \cup {m.from}]
          full == Cardinality(r.replies) = Quorum
          timedOut == m.blk \in r.sealT \cup r.sealF
      IN  /\ ReplyAccepted(i, m) /\ m.mtype = PRE
          /\ ~full \/ ~Has(r.signed, m.blk) \/ timedOut
          /\ node' = [node EXCEPT ![i] =
                IF full /\ Has(r.signed, m.blk) THEN [r EXCEPT !.replies = {}] ELSE r]
          /\ net' = net \ {m}
          /\ UNCHANGED <<blk, stg, clock, crashes>>

\* GetConfirmMsg: the quorum becomes a completed pre-confirm stage, the block
\* a future block, and the confirm message carries all completed stages in
\* the order of a map walk, the new one last.  The primary's own confirm
\* reply is added at once.
PreConfirmQuorum(i) ==
    \E m \in net :
      LET r   == [node[i] EXCEPT !.replies = @ \cup {m.from}]
          s   == Len(stg) + 1
          new == [type |-> PRE, blk |-> m.blk, view |-> r.view, signs |-> r.replies,
                  parent |-> GetNewestCompletedStage(r.completed, GetCurrentBlock(r))]
      IN  /\ ReplyAccepted(i, m) /\ m.mtype = PRE
          /\ Cardinality(r.replies) = Quorum
          /\ Has(r.signed, m.blk)
          /\ m.blk \notin r.sealT \cup r.sealF
          /\ stg' = Append(stg, new)
          /\ node' = [node EXCEPT ![i] =
                [AddNewFutureBlockAndSetCompleted(r, {s}) EXCEPT
                    !.stage = CONFIRM, !.msgHash = <<CONF, m.blk>>,
                    !.replies = {i}, !.cfmCnt = @ + 1]]
          /\ \E order \in SetToSeqs(r.completed) :
                net' = (net \ Replies(m.blk, {PRE})) \cup
                       {ConfMsg(j, m.blk, Append(order, s)) : j \in Sealer \ {i}}
          /\ UNCHANGED <<blk, clock, crashes>>

\* A confirm reply: below the quorum, without a signed block left, for a
\* block that is sealed already, or with replies lost to a time out.
CollectConfirmReply(i) ==
    \E m \in net :
      LET r == [node[i] EXCEPT !.replies = @ \cup {m.from}, !.cfmCnt = @ + 1]
          full == r.cfmCnt = Quorum
          enough == Cardinality(r.replies) > Get2fRealSealersCnt
      IN  /\ ReplyAccepted(i, m) /\ m.mtype = CONF
          /\ ~full \/ r.signed = <<>> \/ Newest(r.signed) \in r.sealT \/ ~enough
          /\ node' = [node EXCEPT ![i] =
                IF ~full THEN r
                ELSE IF r.signed = <<>> THEN [r EXCEPT !.cfmCnt = 0]
                ELSE IF Newest(r.signed) \in r.sealT THEN r
                ELSE [r EXCEPT !.cfmCnt = @ - 1]]
          /\ net' = net \ {m}
          /\ UNCHANGED <<blk, stg, clock, crashes>>

\* Mutant of ConfirmQuorum: 2f replies seal a block.
ConfirmQuorum2f(i) ==
    \E m \in net :
      LET r   == [node[i] EXCEPT !.replies = @ \cup {m.from}, !.cfmCnt = @ + 1]
          s   == Len(stg) + 1
          b   == Newest(r.signed)
          new == [type |-> CONF, blk |-> b, view |-> r.view, signs |-> r.replies,
                  parent |-> GetNewestStateCompletedStage(r.completed)]
          r1  == Reset(r, Num(b) - 1, FALSE)
      IN  /\ ReplyAccepted(i, m) /\ m.mtype = CONF
          /\ r.cfmCnt = Get2fRealSealersCnt
          /\ r.signed # <<>>
          /\ b \notin r.sealT
          /\ stg' = Append(stg, new)
          /\ node' = [node EXCEPT ![i] =
                [r1 EXCEPT !.completed = @ \cup {s}, !.sealT = @ \cup {b},
                           !.sealF = @ \ {b}, !.replies = {}]]
          /\ net' = net \ Replies(m.blk, {CONF})
          /\ UNCHANGED <<blk, clock, crashes>>

\* The confirm quorum: the newest signed block is sealed.
ConfirmQuorum(i) ==
    \E m \in net :
      LET r   == [node[i] EXCEPT !.replies = @ \cup {m.from}, !.cfmCnt = @ + 1]
          s   == Len(stg) + 1
          b   == Newest(r.signed)
          new == [type |-> CONF, blk |-> b, view |-> r.view, signs |-> r.replies,
                  parent |-> GetNewestStateCompletedStage(r.completed)]
          r1  == Reset(r, Num(b) - 1, FALSE)
      IN  /\ ReplyAccepted(i, m) /\ m.mtype = CONF
          /\ r.cfmCnt = Quorum
          /\ r.signed # <<>>
          /\ b \notin r.sealT
          /\ Cardinality(r.replies) > Get2fRealSealersCnt
          /\ stg' = Append(stg, new)
          /\ node' = [node EXCEPT ![i] =
                [r1 EXCEPT !.completed = @ \cup {s}, !.sealT = @ \cup {b},
                           !.sealF = @ \ {b}, !.replies = {}]]
          /\ net' = net \ Replies(m.blk, {CONF})
          /\ UNCHANGED <<blk, clock, crashes>>

-----------------------------------------------------------------------------
(* The worker and the chain.                                               *)

WaitBranch(i, code, Branch(_, _)) ==
    LET r == node[i]
        m == Head(r.recv)
    IN  /\ ~r.sleep
        /\ r.recv # <<>>
        /\ m.code = code
        /\ node' = [node EXCEPT ![i] = Branch([r EXCEPT !.recv = Tail(@)], m)]
        /\ UNCHANGED <<blk, stg, clock, net, crashes>>

WaitRequestFailed(i)    == WaitBranch(i, "request", WaitRequest)
WaitRetryFutures(i)     == WaitBranch(i, "retry", WaitRetry)
WaitConfirmTimedOut(i)  == WaitBranch(i, "confirm", WaitConfirm)
WaitBlockSealed(i)      == WaitBranch(i, "sealed", WaitSealed)

\* The sleep before CommitNewWork is over.
WaitCommit(i) ==
    /\ node[i].sleep
    /\ node' = [node EXCEPT ![i] = [CommitNewWork(node[i]) EXCEPT !.sleep = FALSE]]
    /\ UNCHANGED <<blk, stg, clock, net, crashes>>

\* insertChain of a block of a peer: unknown, its parent known, its stages
\* verified.  The block is executed, so its state is its own.
Import(i) ==
    \E j \in Sealer \ {i} : \E k \in DOMAIN node[j].chain :
      LET e == node[j].chain[k]
          f == [e EXCEPT !.work = e.blk]
          r == node[i]
      IN  /\ ~InChain(r, e.blk)
          /\ InChain(r, blk[e.blk].parent)
          /\ VerifyBFT(e)
          /\ node' = [node EXCEPT ![i] =
                ClearOutDatedBFTFutureBlock(WriteBlockWithState(r, f), Num(e.blk))]
          /\ UNCHANGED <<blk, stg, clock, net, crashes>>

\* handleNewBlock for a known block that arrives with other stages.
ReplaceStages(i) ==
    \E j \in Sealer \ {i} : \E k \in DOMAIN node[j].chain :
      LET e == node[j].chain[k]
          r == ReplaceBlockWithoutState(node[i], e.blk, <<e.s0, e.s1>>)
      IN  /\ InChain(node[i], e.blk)
          /\ r # node[i]
          /\ node' = [node EXCEPT ![i] = r]
          /\ UNCHANGED <<blk, stg, clock, net, crashes>>

\* Node.loop handles the next chain head event: reset, then the node table.
NodeHeadEvent(i) ==
    LET r   == node[i]
        old == Num(r.chain[r.evHead].blk)
        num == Num(r.chain[r.evHead + 1].blk)
        b   == StageBlock(GetNewestStateCompletedStage(r.completed))
        newest == IF b # 0 /\ Has(r.blocks, b) THEN Num(b) ELSE old
        r1  == IF ~r.live THEN r
               ELSE IF num >= newest THEN Reset(r, num, TRUE) ELSE ClearConnected(r, num)
    IN  /\ r.evHead < Len(r.chain)
        /\ node' = [node EXCEPT ![i] = [r1 EXCEPT !.evHead = @ + 1]]
        /\ UNCHANGED <<blk, stg, clock, net, crashes>>

\* Worker.Update handles the next chain head event.
WorkerHeadEvent(i) ==
    /\ node[i].wEv < Len(node[i].chain)
    /\ node' = [node EXCEPT ![i] = CommitNewWork([node[i] EXCEPT !.wEv = @ + 1])]
    /\ UNCHANGED <<blk, stg, clock, net, crashes>>

-----------------------------------------------------------------------------
(* Time and restarts.                                                      *)

\* A slot is longer than BlockMaxPeriodHbft, after which a sealing goroutine
\* has given up.
Tick(i) ==
    /\ clock[i] < MaxSlot
    /\ node[i].mine.phase # "seal"
    /\ \A j \in Sealer : clock[i] <= clock[j]
    /\ clock' = [clock EXCEPT ![i] = @ + 1]
    /\ node' = [node EXCEPT ![i].late = FALSE]
    /\ UNCHANGED <<blk, stg, net, crashes>>

\* A message to i is lost with its connection.
Recipient(m) == IF m.type = "reply" THEN blk[m.blk].sealer ELSE m.to

Lose(i, types) ==
    /\ \E m \in net : m.type \in types /\ Recipient(m) = i /\ net' = net \ {m}
    /\ UNCHANGED <<blk, stg, node, clock, crashes>>

Crash(i) ==
    /\ crashes < MaxCrash
    /\ crashes' = crashes + 1
    /\ node' = [node EXCEPT ![i] = FreshNode(node[i].chain)]
    /\ net' = {m \in net : m.type = "reply" \/ m.to # i}
    /\ UNCHANGED <<blk, stg, clock>>

-----------------------------------------------------------------------------
\* The handlers of messages from the network.
Handler(i) ==
    \/ DeliverPreConfirm(i) \/ DeliverConfirm(i)

\* A primary handling a reply.
Collector(i) ==
    \/ CollectPreReply(i) \/ PreConfirmQuorum(i)
    \/ CollectConfirmReply(i) \/ ConfirmQuorum(i)

\* The worker, the miner's way out and the two event loops.
Thread(i) ==
    \/ MineReturn(i) \/ MineAbort(i)
    \/ WaitRequestFailed(i) \/ WaitRetryFutures(i)
    \/ WaitConfirmTimedOut(i) \/ WaitBlockSealed(i) \/ WaitCommit(i)
    \/ NodeHeadEvent(i) \/ WorkerHeadEvent(i)

\* A sealer's turn.
Miner(i) ==
    \/ MineFuture(i) \/ Request(i)

ChainSync(i) ==
    \/ Import(i) \/ ReplaceStages(i)

Next ==
    \E i \in Sealer :
        \/ Handler(i) \/ Collector(i) \/ Thread(i) \/ Miner(i) \/ ChainSync(i)
        \/ SealDone(i) \/ SealTimeout(i)
        \/ Tick(i) \/ Lose(i, {"pre", "conf", "reply"}) \/ Crash(i)

Spec == Init /\ [][Next]_vars

-----------------------------------------------------------------------------
(* Types.                                                                  *)

PairType == StgIds \X StgIds

\* A goroutine that seals has a block, and so has the result that reports it
\* sealed or timed out; a sealed one has its stages.
MineType ==
    {m \in [phase : {"none", "seal", "fin"}, blk : 0..Len(blk),
            code : {"none", "request", "retry", "confirm", "sealed"},
            pair : {<<>>} \cup PairType, chain : Seq(StgIds), stop : BOOLEAN] :
        /\ m.phase = "seal" \/ m.code \in {"confirm", "sealed"} => m.blk # 0
        /\ m.code = "sealed" => m.pair # <<>>}

\* What the worker may receive: finished and not dropped by Seal.
ResultType == {m \in MineType : m.phase = "fin" /\ ~m.stop}

EntryType == [blk : BlkIds, s0 : StgIds, s1 : StgIds, work : BlkIds]

\* The types of the fields of a node's record, each under a name of its own
\* so that a proof can leave it folded.
Flag     == BOOLEAN
Phase    == {IDLE, PRECFM, CONFIRM}
MaybeBlk == 0..Len(blk)
BlkSeq   == Seq(BlkIds)
BlkSet   == SUBSET BlkIds
StgSet   == SUBSET StgIds
StgSeq   == Seq(StgIds)
Position == Nat \ {0}
HashType == {NoHash} \cup ({PRE, CONF} \X BlkIds)
ChainType == Seq(EntryType) \ {<<>>}
Results  == Seq(ResultType)

NodeRecord ==
    [live : Flag, stage : Phase, view : Nat, prim : 0..N,
     msgHash : HashType,
     blocks : BlkSeq, signed : BlkSeq, completed : StgSet,
     cfmCnt : Int, replies : SUBSET Sealer, busy : Flag,
     sealT : BlkSet, sealF : BlkSet, evHead : Position,
     chain : ChainType, futures : BlkSeq, work : MaybeBlk,
     wEv : Position, abort : Flag, mine : MineType, recv : Results,
     wFut : MaybeBlk, wWork : MaybeBlk, must : Flag, sleep : Flag, late : Flag,
     panic : Flag]

NodeType == {r \in NodeRecord : r.wFut # 0 => r.wWork # 0}

MsgType ==
    [type : {"pre"}, to : Sealer, blk : BlkIds]
    \cup [type : {"conf"}, to : Sealer, blk : BlkIds, comp : Seq(StgIds)]
    \cup [type : {"reply"}, from : Sealer, blk : BlkIds, mtype : {PRE, CONF}]

\* Every variable has its type; in particular the block and stage numbers a
\* node, a message or a stage refers to exist, no result of an aborted
\* goroutine reaches the worker, a sealed result brings its stages and a
\* saved future parent its work.
TypeOK ==
    /\ HistoryOK
    /\ node \in [Sealer -> NodeType]
    /\ clock \in [Sealer -> Nat]
    /\ net \in SUBSET MsgType
    /\ crashes \in 0..MaxCrash

-----------------------------------------------------------------------------
(* What the consensus promises.                                            *)

\* The chains of two nodes never disagree on a height.  No single check of
\* the code says so: it rests on the quorums of the two stages and on the
\* cases 1 to 3 of CheckCurrentState, which bind a node to the block it
\* confirmed.
Agreement ==
    \A i, j \in Sealer : \A k \in DOMAIN node[i].chain \cap DOMAIN node[j].chain :
        node[i].chain[k].blk = node[j].chain[k].blk

\* Every connected block carries two adjacent stages, the first about the
\* block itself, each signed by a quorum: what ConnectBlock writes without
\* looking would pass the VerifyBFT of every importing peer.
CertifiedChain ==
    \A i \in Sealer : \A k \in DOMAIN node[i].chain : VerifyBFT(node[i].chain[k])

\* Every chain is a path of parents from the base block with one block per
\* height, and each block of it carries two adjacent stages with a quorum of
\* signatures each, although ConnectBlock and insertChain may cut the chain
\* back to any known parent and ReplaceBlockWithoutState exchanges stages.
ChainLinked ==
    \A i \in Sealer : \A k \in DOMAIN node[i].chain :
      LET e == node[i].chain[k]
      IN  /\ Num(e.blk) = k
          /\ k > 1 => blk[e.blk].parent = node[i].chain[k - 1].blk
          /\ stg[e.s1].parent = e.s0
          /\ \A s \in {e.s0, e.s1} : Cardinality(stg[s].signs) >= Quorum

\* Any two completed stages share more sealers than the fault bound the
\* quorum is computed from, so at least one sealer that is not faulty signed
\* both: the fact every argument about Get2fRealSealersCnt rests on.  A stage
\* is made of replies collected over time outs, duplicates and resets.
QuorumsMeet ==
    \A s, t \in StgIds :
        Cardinality(stg[s].signs \cap stg[t].signs) > FaultBound(N)

\* The confirm lock: a sealer whose signature is in the confirm stage of a
\* block never signs a later pre-confirm for another block of that height
\* (CheckCurrentState cases 1 to 3 across time outs, resets and new views).
LockKept ==
    \A s, t \in StgIds :
        /\ stg[s].type = CONF /\ stg[t].type = PRE
        /\ stg[t].view > stg[s].view
        /\ Num(stg[s].blk) = Num(stg[t].blk)
        => stg[s].signs \cap stg[t].signs = {}

\* All stages of one view are about one block, although each node computes
\* the view from its own head and clock and the primary from its node table.
\* It holds while sealers handle in time what they have, and no longer when
\* the table is refreshed late or older stages replace those of the head.
OneBlockPerView ==
    \A s, t \in StgIds : stg[s].view = stg[t].view => stg[s].blk = stg[t].blk

\* A sealed block is not lost: a quorum of sealers, less the restarted ones,
\* has it in the chain or among the future blocks, so some later primary must
\* build on it.
SealedHeld ==
    \A s \in StgIds : stg[s].type = CONF =>
        Cardinality({i \in Sealer : \/ InChain(node[i], stg[s].blk)
                                    \/ Has(node[i].futures, stg[s].blk)})
            >= Quorum - crashes

\* A block is written with the state computed for that block, although
\* ConnectBlock takes the block and the work from different places.
OwnState ==
    \A i \in Sealer : \A k \in DOMAIN node[i].chain :
        node[i].chain[k].work = node[i].chain[k].blk

\* The comment on the worker's fields: futureParentWork is the work of
\* futureParentBlock.  The block is the newest future block when the worker
\* gets to the timed out result, the work is that of the result.
SavedWork == \A i \in Sealer : node[i].wFut # 0 => node[i].wWork = node[i].wFut

\* The comment in Worker.wait: an unfinished block, one future block with both
\* of its stages, comes from a confirm stage that timed out, so its work has
\* been saved when the goroutine reports it.
UnfinishedSaved ==
    \A i \in Sealer : \A k \in DOMAIN node[i].recv :
      LET r == node[i]
          m == r.recv[k]
      IN  /\ m.code = "retry" /\ Len(m.chain) = 2 /\ Len(r.futures) = 1
          /\ \A x \in {1, 2} : stg[m.chain[x]].blk = r.futures[1]
          => r.wFut # 0

\* A state that exists has a block: Reset, which slices Blocks down to its last
\* element, never meets an empty list, although ClearConnected cuts it.
BlocksHeld == \A i \in Sealer : node[i].live => node[i].blocks # <<>>

\* No node panics: Reset never meets an empty block list and ConnectBlock
\* never a missing parent.
NoPanic == \A i \in Sealer : ~node[i].panic

\* What Worker.wait logs before it handles a failed round, that it will
\* commit new work: unless its goroutine is sealing, a result or a head event
\* is waiting or it sleeps before CommitNewWork, the worker has work out.
WorkCommitted ==
    \A i \in Sealer :
      LET r == node[i]
      IN  \/ r.work # 0 \/ r.mine.phase # "none" \/ r.recv # <<>>
          \/ r.sleep \/ r.wEv < Len(r.chain)

\* A primary does not stay busy: BlockSealedCompleted gives up after
\* BlockMaxPeriodHbft at the latest and mine clears the flag on its way out.
\* While it is set every pre-confirm and confirm message is put off.
BusyReleased == \A i \in Sealer : node[i].busy ~> ~node[i].busy

\* A block reported as sealed reaches every chain: the worker connects it,
\* the saved future parent first, and the peers import it.
SealedConnected ==
    \A i \in Sealer : \A b \in 2..MaxBlocks :
        (\E k \in DOMAIN node[i].recv :
              node[i].recv[k].code = "sealed" /\ node[i].recv[k].blk = b)
        ~> (\A j \in Sealer : InChain(node[j], b))
=============================================================================
