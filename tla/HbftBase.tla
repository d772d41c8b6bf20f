------------------------------ MODULE HbftBase ------------------------------
(***************************************************************************)
(* The data every HBFT component of the elephant chain shares: the sealers *)
(* of one term, the blocks that have been proposed and the completed       *)
(* stages (quorum certificates) that have been formed.                     *)
(*                                                                         *)
(* A block or a stage is named by its position in the history blk or stg.  *)
(* That one number stands for the hash and for the time stamp of the       *)
(* object, since both are fresh at creation: an older object has a smaller *)
(* number.  Number 0 is the empty block, the empty stage, the empty hash.  *)
(***************************************************************************)
EXTENDS Integers, Sequences, FiniteSets

CONSTANT N              \* number of real sealers of the term

ASSUME NAssumption == N \in Nat /\ N >= 4   \* NodeServerMinCountHbft

VARIABLES
    blk,    \* Seq of proposed blocks; blk[1] is the base block of the run
    stg     \* Seq of completed stages; 1 and 2 are the stages of the base block

Sealer == 1..N          \* the address list, in the order NodeTable walks it

-----------------------------------------------------------------------------
(* Quorum arithmetic: Get2fRealSealersCnt and the 2f+1 every check uses.   *)

FaultBound(n) == IF (n - 1) % 3 = 0 THEN (n - 1) \div 3 ELSE (n - 1) \div 3 + 1

\* Mutant of Get2fRealSealersCnt: f instead of 2f.
GetfRealSealersCnt == FaultBound(N)

Get2fRealSealersCnt == 2 * FaultBound(N)

Quorum == Get2fRealSealersCnt + 1

-----------------------------------------------------------------------------
(* Completed stages.  MsgPreConfirm < MsgConfirm as in the message types.  *)

PRE  == 1
CONF == 2

BlkIds == 1..Len(blk)
StgIds == 1..Len(stg)

BlockType ==
    [num : Nat, parent : 0..Len(blk), sealer : Sealer, slot : Nat, view : Nat,
     comp : 0..Len(stg)]

StageType ==
    [type : {PRE, CONF}, blk : BlkIds, view : Nat, parent : 0..Len(stg),
     signs : SUBSET Sealer]

HistoryOK == blk \in Seq(BlockType) /\ stg \in Seq(StageType)

Num(b) == blk[b].num

\* The order GetNewestStateCompletedStage compares by; the sequence id is
\* constant in a term and a tie in all three is broken by map order.
Newer(s, t) ==
    \/ stg[s].view > stg[t].view
    \/ stg[s].view = stg[t].view /\ stg[s].type > stg[t].type
    \/ stg[s].view = stg[t].view /\ stg[s].type = stg[t].type
         /\ Num(stg[s].blk) > Num(stg[t].blk)

GetNewestStateCompletedStage(S) ==
    IF S = {} THEN 0 ELSE CHOOSE s \in S : \A t \in S : ~Newer(t, s)

StageBlock(s) == IF s = 0 THEN 0 ELSE stg[s].blk

\* The state's newest stage if it is strictly newer than the head's stage 1.
GetNewestCompletedStage(S, head) ==
    LET s == GetNewestStateCompletedStage(S)
        h == head.s1
    IN  IF /\ s # 0
           /\ \/ stg[s].view > stg[h].view
              \/ stg[s].view = stg[h].view /\ stg[s].type > stg[h].type
        THEN s ELSE h

-----------------------------------------------------------------------------
(* Order-preserving selections.                                            *)

Rank(S, k) == Cardinality({x \in S : x <= k})

\* The n-th smallest member of a finite set of numbers.
Nth(S, n) == CHOOSE k \in S : Rank(S, k) = n

Sorted(S) == [n \in 1..Cardinality(S) |-> Nth(S, n)]

\* The blocks of s above height h, in their order (the two clearOutdated
\* loops and ClearOutDatedBFTFutureBlock).
Above(s, h) ==
    LET K == {k \in DOMAIN s : Num(s[k]) > h}
    IN  [n \in 1..Cardinality(K) |-> s[Nth(K, n)]]

\* The elements of s other than b (ClearBFTFutureBlock).
Without(s, b) ==
    LET K == {k \in DOMAIN s : s[k] # b}
    IN  [n \in 1..Cardinality(K) |-> s[Nth(K, n)]]

Has(s, b) == \E k \in DOMAIN s : s[k] = b

Newest(s) == IF s = <<>> THEN 0 ELSE s[Len(s)]
Oldest(s) == IF s = <<>> THEN 0 ELSE s[1]

-----------------------------------------------------------------------------
\* All completed stages as one chain, or nothing if they are not one chain.
\* A parent stage is always older than its child, so the only candidate is
\* the order of creation.
BuildCompletedStageChain(S) ==
    LET c == Sorted(S)
    IN  IF \A k \in 2..Len(c) : stg[c[k]].parent = c[k - 1] THEN c ELSE <<>>

\* The pair of stages the miner puts into the block it sealed.
GetSealedBlockStages(S) ==
    LET s == GetNewestStateCompletedStage(S)
    IN  IF s # 0 /\ stg[s].parent \in S THEN <<stg[s].parent, s>> ELSE <<>>

\* What an importing node demands of the two stages of a block.
VerifyBFT(e) ==
    /\ stg[e.s0].blk = e.blk
    /\ stg[e.s1].parent = e.s0
    /\ \A s \in {e.s0, e.s1} :
          stg[s].signs \subseteq Sealer /\ Cardinality(stg[s].signs) >= Quorum
=============================================================================
