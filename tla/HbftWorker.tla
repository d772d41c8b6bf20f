----------------------------- MODULE HbftWorker -----------------------------
(***************************************************************************)
(* The worker that turns sealing results into blocks of the local chain    *)
(* (miner_elephant/worker.go, core_elephant/blockchain.go), as operators   *)
(* on the node's record r.  An operator that can give up half way returns  *)
(* [n |-> record, ok |-> its Boolean result].                              *)
(***************************************************************************)
EXTENDS HbftState

Done(r)   == [n |-> r, ok |-> TRUE]
GaveUp(r) == [n |-> r, ok |-> FALSE]

\* Phases of the goroutine that holds the sealer lock, or slept after it.
NOMINE == [phase |-> "none", blk |-> 0, code |-> "none", pair |-> <<>>,
           chain |-> <<>>, stop |-> FALSE]
Sealing(b) == [phase |-> "seal", blk |-> b, code |-> "none", pair |-> <<>>,
               chain |-> <<>>, stop |-> FALSE]

\* CommitNewWork: prepare a block on the newest future block, else on the
\* head, and push it to the agent.  The agent closes the stop channel of the
\* previous goroutine: a sealing one will drop its result, a waiting one will
\* leave through its deferred SetBusy(false).
CommitNewWork(r) ==
    [r EXCEPT !.work = IF r.futures # <<>> THEN Newest(r.futures)
                                           ELSE GetCurrentBlock(r).blk,
              !.mine = [@ EXCEPT !.stop = r.mine.stop \/ r.mine.phase = "seal"],
              !.abort = @ \/ (r.work # 0 /\ r.mine.phase # "none")]

-----------------------------------------------------------------------------
(* Writing blocks.                                                         *)

Entry(b, pair, w) == [blk |-> b, s0 |-> pair[1], s1 |-> pair[2], work |-> w]

\* Position of block b in the chain, 0 if it is not there.
Pos(r, b) == IF InChain(r, b) THEN CHOOSE k \in DOMAIN r.chain : r.chain[k].blk = b
                              ELSE 0

\* WriteBlockWithState: the written block becomes the head, whatever the head
\* was, on top of its parent.
WriteBlockWithState(r, e) ==
    [r EXCEPT !.chain = Append(SubSeq(@, 1, Pos(r, blk[e.blk].parent)), e)]

\* The stages of a known block are exchanged unless the new ones are newer
\* (ConnectBlock and handleNewBlock share the condition).
NotNewer(s, t) ==
    ~(stg[s].view > stg[t].view \/ (stg[s].view = stg[t].view /\ s > t))

ReplaceBlockWithoutState(r, b, pair) ==
    LET k == Pos(r, b)
    IN  IF <<r.chain[k].s0, r.chain[k].s1>> # pair /\ NotNewer(pair[2], r.chain[k].s1)
        THEN [r EXCEPT !.chain = [@ EXCEPT ![k] = Entry(b, pair, r.chain[k].work)]]
        ELSE r

ClearOutDatedBFTFutureBlock(r, num) == [r EXCEPT !.futures = Above(@, num)]

\* ConnectBlock of block b with the state computed for block w.  A missing
\* parent is dereferenced.
ConnectBlock(r, b, pair, w, isFuture) ==
    LET known  == InChain(r, b)
        r1     == IF known THEN ReplaceBlockWithoutState(r, b, pair)
                  ELSE [WriteBlockWithState(r, Entry(b, pair, w)) EXCEPT !.must = FALSE]
        r2     == ClearOutDatedBFTFutureBlock(r1, Num(b))
    IN  IF ~known /\ ~InChain(r, blk[b].parent)
        THEN GaveUp([r EXCEPT !.panic = TRUE])
        ELSE Done(IF ~isFuture /\ r2.must THEN CommitNewWork(r2) ELSE r2)

-----------------------------------------------------------------------------
(* Connecting earlier blocks first.                                        *)

\* Worker.getSealedBlockStages: the first two adjacent stages of the chain
\* that seal block b.
SealedPairs(b, chain) ==
    {k \in 1..(Len(chain) - 1) :
        stg[chain[k]].blk = b /\ stg[chain[k + 1]].parent = chain[k]}

GetSealedStagesOf(b, chain) ==
    LET k == Nth(SealedPairs(b, chain), 1)
    IN  IF SealedPairs(b, chain) = {} THEN <<>> ELSE <<chain[k], chain[k + 1]>>

ConnectParentFuture(r, b, w, chain) ==
    LET pair == GetSealedStagesOf(b, chain)
    IN  IF pair = <<>> THEN GaveUp(r) ELSE ConnectBlock(r, b, pair, w, TRUE)

\* Mutant of HandleBFTFutures: the saved work is taken instead of a new one.
HandleBFTFuturesSavedWork(r, chain) ==
    LET f == Oldest(r.futures)
    IN  IF blk[f].parent # GetCurrentBlock(r).blk THEN GaveUp(r)
        ELSE ConnectParentFuture(r, f, r.wWork, chain)

\* The work of the oldest future is recomputed, so its state is its own.
HandleBFTFutures(r, chain) ==
    LET f == Oldest(r.futures)
    IN  IF blk[f].parent # GetCurrentBlock(r).blk THEN GaveUp(r)
        ELSE ConnectParentFuture(r, f, f, chain)

ClearWorkerFutureParent(r) == [r EXCEPT !.wFut = 0, !.wWork = 0]

HandleFutureParent(r, chain, timedOut) ==
    IF CurrentNum(r) >= Num(r.wFut)
    THEN LET r1 == ClearWorkerFutureParent([r EXCEPT !.futures = Without(@, r.wFut)])
         IN  IF Len(r1.futures) > 1 THEN HandleBFTFutures(r1, chain)
             ELSE Done([r1 EXCEPT !.must = TRUE])
    ELSE IF timedOut THEN ConnectParentFuture(r, r.wFut, r.wWork, chain)
    ELSE LET c == ConnectParentFuture(r, r.wFut, r.wWork, chain)
         IN  IF c.ok THEN Done(ClearWorkerFutureParent(c.n)) ELSE c

-----------------------------------------------------------------------------
(* The branches of Worker.wait, for the result m of the miner.  A failed   *)
(* round sleeps BlockMinPeriodHbft before it commits new work: r.sleep.    *)

SleepThenCommit(r) == [r EXCEPT !.sleep = TRUE]

\* The request stage failed: only new work is committed.
WaitRequest(r, m) == SleepThenCommit(r)

\* The pre-confirm stage failed, or future blocks must be handled first.
WaitRetry(r, m) ==
    IF Len(r.futures) > 1 THEN HandleBFTFutures(r, m.chain).n
    ELSE IF /\ Len(r.futures) = 1
            /\ Len(m.chain) = 2
            /\ stg[m.chain[1]].blk = r.futures[1]
            /\ stg[m.chain[2]].blk = r.futures[1]
            /\ stg[m.chain[2]].parent = m.chain[1]
            /\ r.wFut # 0
    THEN LET c == HandleFutureParent(r, m.chain, TRUE)
         IN  IF c.ok THEN SleepThenCommit(c.n) ELSE c.n
    ELSE SleepThenCommit(r)

\* The confirm stage failed: connect the saved parent, save this block.
WaitConfirm(r, m) ==
    LET r0 == ClearOutDatedBFTFutureBlock(r, CurrentNum(r))
        c  == IF r.wFut # 0 THEN HandleFutureParent(r, m.chain, TRUE)
              ELSE IF Len(r0.futures) > 1 THEN HandleBFTFutures(r0, m.chain)
              ELSE Done([r0 EXCEPT !.must = TRUE])
        r1 == [c.n EXCEPT !.wFut = Newest(c.n.futures), !.wWork = m.blk]
    IN  IF ~c.ok THEN c.n
        ELSE IF r1.must THEN SleepThenCommit(r1) ELSE r1

\* Mutant of WaitSealed: after the saved parent the block itself is forgotten.
WaitSealedParentOnly(r, m) ==
    IF r.wFut # 0 THEN HandleFutureParent(r, m.chain, FALSE).n
    ELSE IF Len(r.futures) > 1 THEN HandleBFTFutures(r, m.chain).n
    ELSE r

\* Mutant of WaitSealed: the saved parent is not connected first.
WaitSealedNoParent(r, m) == ConnectBlock(r, m.blk, m.pair, m.blk, FALSE).n

\* The block is sealed: connect the saved parent, then the block itself.
WaitSealed(r, m) ==
    LET c == IF r.wFut # 0 THEN HandleFutureParent(r, m.chain, FALSE)
             ELSE IF Len(r.futures) > 1 THEN HandleBFTFutures(r, m.chain)
             ELSE Done(r)
    IN  IF c.ok THEN ConnectBlock(c.n, m.blk, m.pair, m.blk, FALSE).n ELSE c.n
=============================================================================
