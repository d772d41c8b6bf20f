--------------------------- MODULE HbftRefinement ---------------------------
(***************************************************************************)
(* Hbft implements HbftAgreement: the map from the stages and chains of    *)
(* the nodes to decided blocks and abstract chains.                        *)
(***************************************************************************)
EXTENDS Hbft

Named(b) == [id |-> b, num |-> Num(b), parent |-> blk[b].parent]

\* The blocks with two adjacent stages: the parent of a completed stage is
\* about the block.
DecidedBlocks == {stg[stg[s].parent].blk : s \in {t \in StgIds : stg[t].parent # 0}}

ChainOf(i) == {Named(node[i].chain[k].blk) : k \in DOMAIN node[i].chain}

Promise == INSTANCE HbftAgreement WITH
    Genesis <- [id |-> 1, num |-> 1, parent |-> 0],
    Id      <- 1..MaxBlocks,
    decided <- {Named(b) : b \in DecidedBlocks},
    chains  <- [i \in Sealer |-> ChainOf(i)]

\* Every behaviour of the nodes is one of the abstract specification: a
\* quorum of either stage decides at most the next block on top of the last
\* decided one, a worker or an import connects decided blocks only and in
\* their order, and no time out, reset, replacement of stages or restart takes
\* anything back.
ImplementsAgreement == Promise!ASpec
=============================================================================
