----------------------------- MODULE HbftState ------------------------------
(***************************************************************************)
(* The consensus state of one node (bft/nodeHbft/state.go) as operators on *)
(* the node's record r: what each method reads of r and the record it      *)
(* leaves.  The record is declared in module Hbft.                         *)
(*                                                                         *)
(* Scope: heights above 0, one sealer term, and fewer than failureLimit    *)
(* views without a new block.  In that range no oldest-future message is   *)
(* ever sent, so addFutureParent is false in every handler.                *)
(***************************************************************************)
EXTENDS HbftBase

IDLE      == "Idle"
PRECFM    == "PreConfirm"
CONFIRM   == "Confirm"

NoHash == <<0, 0>>

GetCurrentBlock(r) == r.chain[Len(r.chain)]     \* with its two stages
CurrentNum(r) == Num(GetCurrentBlock(r).blk)

-----------------------------------------------------------------------------
(* Creation, reset and cleaning.                                           *)

\* createStateForNewConsensus for a request or a pre-confirm message:
\* CreateState when there is none, UpdateState when it is idle.
CreateStateForNewConsensus(r, prim, view) ==
    IF ~r.live
    THEN [r EXCEPT !.cfmCnt = 0, !.live = TRUE, !.stage = IDLE, !.prim = prim,
                   !.view = view, !.msgHash = NoHash, !.blocks = <<>>,
                   !.signed = <<>>, !.completed = {}]
    ELSE IF r.stage = IDLE
    THEN [r EXCEPT !.cfmCnt = 0, !.prim = prim, !.view = view]
    ELSE [r EXCEPT !.cfmCnt = 0]

ClearOutdatedCompleted(S, num) == {s \in S : Num(stg[s].blk) > num}

\* Reset slices Blocks down to its last element, which panics on an empty list.
Reset(r, num, clearCompleted) ==
    IF r.blocks = <<>> THEN [r EXCEPT !.panic = TRUE]
    ELSE [r EXCEPT !.stage = IDLE, !.msgHash = NoHash,
                   !.blocks = <<r.blocks[Len(r.blocks)]>>,
                   !.signed = Above(r.signed, num),
                   !.completed = IF clearCompleted
                                 THEN ClearOutdatedCompleted(r.completed, num)
                                 ELSE r.completed]

\* The number of blocks below the head decides how many are cut off, from
\* the front, whichever they are.
ClearConnected(r, num) ==
    LET del == Cardinality({k \in DOMAIN r.blocks : Num(r.blocks[k]) < num})
    IN  [r EXCEPT !.completed = ClearOutdatedCompleted(r.completed, num),
                  !.blocks = SubSeq(r.blocks, del + 1, Len(r.blocks))]

-----------------------------------------------------------------------------
(* Checks a replica makes before it signs.                                 *)

\* CheckCompletedStage: comp continues the stage chain of the head block h,
\* every stage of it carries a quorum and is about a block the node holds.
CheckCompletedStage(r, comp, h) ==
    LET s1 == stg[h.s1]
        First(c) ==
          IF s1.type = PRE
          THEN \/ c = h.s1
               \/ stg[c].parent = s1.parent /\ stg[c].blk > s1.blk
          ELSE \/ stg[c].parent = h.s1
               \/ Num(stg[c].blk) = Num(s1.blk) + 1 /\ c > h.s1
    IN  \A k \in DOMAIN comp :
          /\ IF k = 1 THEN First(comp[k]) ELSE stg[comp[k]].parent = comp[k - 1]
          /\ Cardinality(stg[comp[k]].signs) > Get2fRealSealersCnt
          /\ Has(r.blocks, stg[comp[k]].blk)

\* CheckView of a pre-confirm message for block b; cur is the node's own view.
CheckViewPreConfirm(r, b, cur) ==
    /\ ~ /\ r.stage # IDLE
         /\ r.view = blk[b].view
         /\ r.prim = blk[b].sealer
         /\ Num(b) # 1
    /\ blk[b].view = cur

CheckViewConfirm(r, b) ==
    r.stage = IDLE \/ (r.view = blk[b].view /\ r.prim = blk[b].sealer)

\* The stage list of a pre-confirm message: at most the stage of the future
\* parent.
CompletedOf(b) == IF blk[b].comp = 0 THEN <<>> ELSE <<blk[b].comp>>

\* Mutant of CheckCurrentStatePreConfirm: only case 4 is left.
CheckCurrentStateNoLock(r, b) ==
    /\ CheckCompletedStage(r, CompletedOf(b), GetCurrentBlock(r))
    /\ r.futures = <<>> /\ r.stage # CONFIRM => GetCurrentBlock(r).blk = blk[b].parent

\* CheckCurrentState of a pre-confirm message, cases 1 to 4.
CheckCurrentStatePreConfirm(r, b) ==
    LET newest == StageBlock(GetNewestStateCompletedStage(r.completed))
        future == Oldest(r.futures)
    IN  /\ CheckCompletedStage(r, CompletedOf(b), GetCurrentBlock(r))
        /\ r.stage = CONFIRM => newest = blk[b].parent
        /\ future # 0 =>
              /\ Num(b) = Num(future) + 1 => newest = blk[b].parent
              /\ Num(b) = Num(future) => newest = b
        /\ future = 0 /\ r.stage # CONFIRM => GetCurrentBlock(r).blk = blk[b].parent

\* CheckCurrentState of a confirm message carrying the stages comp.
CheckCurrentStateConfirm(r, comp) ==
    /\ CheckCompletedStage(r, comp, GetCurrentBlock(r))
    /\ r.signed # <<>>
    /\ comp # <<>>
    /\ r.stage = PRECFM => stg[comp[Len(comp)]].blk = Newest(r.signed)
    /\ r.stage # CONFIRM

\* ... and the reset it performs before refusing a second confirm message.
ConfirmRefusal(r, comp) ==
    IF /\ CheckCompletedStage(r, comp, GetCurrentBlock(r))
       /\ r.signed # <<>> /\ comp # <<>>
       /\ r.stage = CONFIRM
       /\ CurrentNum(r) >= Num(Newest(r.signed))
    THEN Reset(r, CurrentNum(r), TRUE)
    ELSE r

\* ValidateNewBlocks: the future parent if the node signed it, then the new
\* block; the first must extend a block of the chain and be unknown, the
\* second must extend the first.
InChain(r, b) == \E k \in DOMAIN r.chain : r.chain[k].blk = b

ValidateNewBlocks(r, b) ==
    LET future == StageBlock(blk[b].comp)
        blocks == IF future # 0 /\ Has(r.signed, future) THEN <<future, b>> ELSE <<b>>
    IN  /\ ~InChain(r, blocks[1])
        /\ InChain(r, blk[blocks[1]].parent)
        /\ Len(blocks) = 2 => blk[b].parent = blocks[1]

-----------------------------------------------------------------------------
(* StartConsensus: the completed stage a primary may build upon when the   *)
(* parent p of its new block is a future block and not the head.           *)

DirectStages(r, p) ==
    LET h == GetCurrentBlock(r)
    IN  {c \in r.completed : stg[c].blk = p /\ (stg[c].parent = h.s1 \/ c = h.s1)}

CandidateStages(r, p) ==
    LET h  == GetCurrentBlock(r)
        n1 == Num(stg[h.s1].blk)
    IN  {c \in r.completed \ DirectStages(r, p) :
           /\ stg[c].blk = p
           /\ \/ n1 = Num(h.blk) + 1 /\ Num(p) = n1
              \/ n1 = Num(h.blk) /\ Num(p) = n1 + 1}

\* The stages StartConsensus may pick; the map is walked in any order and the
\* walk stops at the first direct stage or candidate.
StartStages(r, p) ==
    LET h == GetCurrentBlock(r)
    IN  {c \in DirectStages(r, p) \cup CandidateStages(r, p) :
           /\ c \in DirectStages(r, p) \/ stg[c].parent = h.s0
           /\ Has(r.signed, p)
           /\ blk[p].parent = h.blk}

\* The walk may also stop at a candidate that is then refused.
StartMayFail(r, p) ==
    LET h == GetCurrentBlock(r)
    IN  \/ DirectStages(r, p) = {} /\ CandidateStages(r, p) = {}
        \/ \E c \in CandidateStages(r, p) : stg[c].parent # h.s0
        \/ ~Has(r.signed, p)
        \/ blk[p].parent # h.blk
=============================================================================
