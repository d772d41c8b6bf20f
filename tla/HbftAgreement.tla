--------------------------- MODULE HbftAgreement ----------------------------
(***************************************************************************)
(* What the HBFT consensus promises to the chain above it, without views,  *)
(* stages, messages or time: one list of decided blocks that only grows,   *)
(* and in every sealer a chain that follows it.  A block is decided by two *)
(* adjacent completed stages (a confirm stage, or the pre-confirm stage of *)
(* its successor), before any node connects it.                            *)
(***************************************************************************)
EXTENDS Integers, FiniteSets

CONSTANTS
    Sealer,     \* the sealers of the term
    Id,         \* names of blocks
    Genesis     \* the block all chains start with


VARIABLES
    decided,    \* the decided blocks
    chains      \* chains[i]: the blocks in the chain of sealer i

avars == <<decided, chains>>

\* The decided blocks are a chain, so its last one has its length as height.
Last == CHOOSE b \in decided : b.num = Cardinality(decided)

UpTo(h) == {b \in decided : b.num <= h}

AInit ==
    /\ decided = {Genesis}
    /\ chains = [i \in Sealer |-> {Genesis}]

\* A quorum completes the second stage about a block on top of the last
\* decided one.
Decide ==
    LET last == Last
    IN  /\ \E x \in Id : decided' =
              decided \cup {[id |-> x, num |-> last.num + 1, parent |-> last.id]}
        /\ UNCHANGED chains

\* Sealer i connects decided blocks: a sealed block with its future parent
\* makes two at once.
Connect(i) ==
    /\ \E h \in (Cardinality(chains[i]) + 1)..Cardinality(decided) :
          chains' = [chains EXCEPT ![i] = UpTo(h)]
    /\ UNCHANGED decided

ANext ==
    \/ Decide
    \/ \E i \in Sealer : Connect(i)

ASpec == AInit /\ [][ANext]_avars
=============================================================================
