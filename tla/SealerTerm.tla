------------------------------ MODULE SealerTerm ------------------------------
(***************************************************************************)
(* Which sealers are entitled to seal (elephant/backend.go).  Every        *)
(* ElectionBlockCount-th block of the lamp chain elects sealers; a block   *)
(* of the elephant chain names the newest election its primary knows, its  *)
(* lamp base, and every node works out the sealers for itself: from the    *)
(* lamp bases of its last blocks and from the lamp chain as it has it NOW. *)
(*                                                                         *)
(* One lamp chain without forks, which nodes receive at their own pace,    *)
(* one sharding, and one elephant chain: that a block is sealed by a       *)
(* quorum and that there is one per number is the subject of module Hbft.  *)
(* A committee stands for a list of sealers; two elections may elect one   *)
(* committee or two.                                                       *)
(***************************************************************************)
EXTENDS Integers, Sequences, FiniteSets

CONSTANTS
    Node,
    Committee,              \* lists of sealers that may be elected
    ElectionBlockCount,
    BFTSealersWorkDelay,
    MaxLamp, MaxBlocks      \* bounds of the two chains

\* types.EmptyLampBaseHash, the lamp base of the elephant genesis block.
EmptyLampBase == -1

\* A nil list of sealers, and the one of the lamp genesis block.
NoSealers == "none"
GenesisSealers == "genesis"

ASSUME TermAssumption ==
    /\ IsFiniteSet(Node) /\ {NoSealers, GenesisSealers} \cap Committee = {}
    /\ ElectionBlockCount \in Nat \ {0} /\ BFTSealersWorkDelay \in Nat \ {0, 1}
    /\ MaxLamp \in Nat /\ MaxBlocks \in Nat

VARIABLES
    lampTop,    \* blocks of the lamp chain
    elected,    \* elected[k]: committee of the k-th election, and the height of
                \* the elephant chain at that time
    lamp,       \* lamp[i]: number of the lamp block that is current at i
    chain,      \* elephant chain: lamp base, sealers, sequence ID of each block
    head        \* head[i]: number of the elephant block that is current at i

vars == <<lampTop, elected, lamp, chain, head>>

Init ==
    /\ lampTop = 0 /\ elected = <<>>
    /\ lamp = [i \in Node |-> 0]
    /\ chain = <<>>
    /\ head = [i \in Node |-> 0]

-----------------------------------------------------------------------------
(* Elections as the lamp chain of node i has them.                         *)

CurrEleSealersBlockNum(i) == lamp[i] - (lamp[i] % ElectionBlockCount)

\* The code subtracts in uint64 and converts to int64: negative again.
LastEleSealersBlockNum(i) == CurrEleSealersBlockNum(i) - ElectionBlockCount

\* NextSealers of an election block.
NextSealers(num) ==
    IF num = 0 THEN GenesisSealers ELSE elected[num \div ElectionBlockCount].who

GetNewestEleSealers(i) == NextSealers(CurrEleSealersBlockNum(i))

GetLastEleSealers(i) ==
    IF LastEleSealersBlockNum(i) > 0
    THEN NextSealers(LastEleSealersBlockNum(i)) ELSE NoSealers

-----------------------------------------------------------------------------
(* Entitled sealers.                                                       *)

LampOf(n) == IF n = 0 THEN EmptyLampBase ELSE chain[n].lamp

\* The blocks a .. n have one lamp base.
SameLamp(a, n) == \A k \in a..n : LampOf(k) = LampOf(n)

\* Mutant of UseNew: the delay is one block short.
UseNewEarly(n) ==
    \/ n = 0
    \/ n < BFTSealersWorkDelay /\ SameLamp(1, n)
    \/ n >= BFTSealersWorkDelay /\ SameLamp(n - BFTSealersWorkDelay + 2, n)

\* The loop of GetRealSealersByNum: the last blocks up to number n, as many
\* as the delay or all of them, have the lamp base of block n.
UseNew(n) ==
    \/ n = 0
    \/ n < BFTSealersWorkDelay /\ SameLamp(1, n)
    \/ n >= BFTSealersWorkDelay /\ SameLamp(n - BFTSealersWorkDelay + 1, n)

GetRealSealersByNum(i, n) ==
    IF UseNew(n) THEN GetNewestEleSealers(i) ELSE GetLastEleSealers(i)

GetCurRealSealers(i) == GetRealSealersByNum(i, head[i])

\* The last blocks up to number n, exactly as many as the delay, have the
\* lamp base of block n; never so when they are all there are.
NextIsNewSealersFirstBlock(n) ==
    \/ n = 0
    \/ /\ n > BFTSealersWorkDelay
       /\ SameLamp(n - BFTSealersWorkDelay + 1, n)
       /\ LampOf(n - BFTSealersWorkDelay) # LampOf(n)

GetCurrentSequenceID(n) ==
    IF n = 0 THEN 0
    ELSE chain[n].seq + IF NextIsNewSealersFirstBlock(n) THEN 1 ELSE 0

\* The loop finds the least f with 3f + 1 sealers.  Every node of the model is
\* elected every time.
Get2fRealSealersCnt == 2 * ((Cardinality(Node) + 1) \div 3)

-----------------------------------------------------------------------------
(* Verification.                                                           *)

\* Mutant of VerifyHeaderLampBase: any election up to the newest will do.
VerifyHeaderLampBaseAny(i, base) ==
    base % ElectionBlockCount = 0 /\ base <= CurrEleSealersBlockNum(i)

\* Mutant of VerifyHeaderLampBase: an election that is not known yet will do.
VerifyHeaderLampBaseNewer(i, base) ==
    LastEleSealersBlockNum(i) >= 0 /\ base >= LastEleSealersBlockNum(i)

VerifyHeaderLampBase(i, base) ==
    \/ LastEleSealersBlockNum(i) > 0
       /\ base \in {CurrEleSealersBlockNum(i), LastEleSealersBlockNum(i)}
    \/ LastEleSealersBlockNum(i) = 0
       /\ base = CurrEleSealersBlockNum(i) /\ base = ElectionBlockCount

\* VerifyBFT: the signatures of block b, the child of block n, are of the
\* sealers i finds for number n.
VerifyBFT(i, b, n) ==
    /\ GetRealSealersByNum(i, n) # NoSealers
    /\ b.sealers = GetRealSealersByNum(i, n)

Importable(i) ==
    LET b == chain[head[i] + 1]
    IN  VerifyHeaderLampBase(i, b.lamp) /\ VerifyBFT(i, b, head[i])

\* i may synchronise from j.
CheckSync(i, j) ==
    /\ lamp[j] = lamp[i]
    /\ head[j] > head[i]
    /\ LampOf(head[j]) >= LampOf(head[i])

-----------------------------------------------------------------------------
(* A block of the lamp chain is mined; node i receives the next one.       *)

MineLamp ==
    /\ lampTop < MaxLamp
    /\ lampTop' = lampTop + 1
    /\ IF lampTop' % ElectionBlockCount = 0
       THEN \E c \in Committee :
               elected' = Append(elected, [who |-> c, at |-> Len(chain)])
       ELSE UNCHANGED elected
    /\ UNCHANGED <<lamp, chain, head>>

SyncLamp(i) ==
    /\ lamp[i] < lampTop
    /\ lamp' = [lamp EXCEPT ![i] = @ + 1]
    /\ UNCHANGED <<lampTop, elected, chain, head>>

\* Those who would sign a block of primary i: they have its parent, take i
\* for one of the sealers and accept the lamp base.
Voters(i, base) ==
    {j \in Node : /\ head[j] = head[i]
                  /\ GetCurRealSealers(j) = GetCurRealSealers(i)
                  /\ VerifyHeaderLampBase(j, base)}

\* A block is built by primary i on the newest election it knows, and sealed.
Seal(i) ==
    /\ head[i] = Len(chain) /\ Len(chain) < MaxBlocks
    /\ GetCurRealSealers(i) # NoSealers
    /\ Cardinality(Voters(i, CurrEleSealersBlockNum(i))) > Get2fRealSealersCnt
    /\ chain' = Append(chain, [lamp |-> CurrEleSealersBlockNum(i),
                               sealers |-> GetCurRealSealers(i),
                               seq |-> GetCurrentSequenceID(head[i])])
    /\ UNCHANGED <<lampTop, elected, lamp, head>>

Import(i) ==
    /\ head[i] < Len(chain) /\ Importable(i)
    /\ head' = [head EXCEPT ![i] = @ + 1]
    /\ UNCHANGED <<lampTop, elected, lamp, chain>>

Next ==
    \/ MineLamp
    \/ \E i \in Node : SyncLamp(i) \/ Seal(i) \/ Import(i)

Spec == Init /\ [][Next]_vars

-----------------------------------------------------------------------------
(* Properties.                                                             *)

BlockRec == [lamp : Nat \ {0}, sealers : Committee, seq : Nat]

\* Every node is within both chains, and every block was built on an election
\* block and by elected sealers: neither the genesis block of the lamp chain
\* nor an empty list ever stands in for an election.
TermTypeOK ==
    /\ lampTop \in 0..MaxLamp
    /\ elected \in Seq([who : Committee, at : Nat])
    /\ Len(elected) = lampTop \div ElectionBlockCount
    /\ lamp \in [Node -> 0..lampTop]
    /\ chain \in Seq(BlockRec)
    /\ head \in [Node -> 0..Len(chain)]
    /\ \A n \in DOMAIN chain : chain[n].lamp % ElectionBlockCount = 0

\* The sequence ID moves on exactly where the choice of sealers does: the
\* two loops of GetRealSealersByNum and NextIsNewSealersFirstBlock, which
\* count separately, agree on the block after which the delay is over.
TermBoundary ==
    \A n \in 1..Len(chain) :
       NextIsNewSealersFirstBlock(n) <=> UseNew(n) /\ ~UseNew(n - 1)

\* A sequence ID lasts for as many blocks as the delay at least, however the
\* elections and the blocks that name them fall together.
TermsLast ==
    \A a, b \in DOMAIN chain :
       a < b /\ NextIsNewSealersFirstBlock(a) /\ NextIsNewSealersFirstBlock(b)
          => b - a >= BFTSealersWorkDelay

\* Lamp bases never go back, although the next primary may be behind the last
\* one on the lamp chain: to build on a block it has to have verified it, and
\* so to know the election the block names.
LampBaseMonotone ==
    \A a, b \in DOMAIN chain : a < b => chain[a].lamp <= chain[b].lamp

\* A node knows the elections its blocks name.
ElectionsKnown ==
    \A i \in Node : \A n \in 1..head[i] : chain[n].lamp <= CurrEleSealersBlockNum(i)

\* The inductive invariant: types, and why lamp bases do not go back.
TermInv == TermTypeOK /\ ElectionsKnown /\ LampBaseMonotone

\* Wherever the two chains stand, a node with a block of the elephant chain
\* knows some sealers: GetLastEleSealers is never asked before there were two
\* elections.
SealersKnown ==
    \A i \in Node : head[i] > 0 =>
       \A n \in 0..head[i] : GetRealSealersByNum(i, n) # NoSealers

\* "When new valid election block mined in the lamp chain, new sealers will
\* start to work after specific number of blocks": a committee that takes over
\* from another, and that was elected once, was elected that many blocks ago.
WorkDelayKept ==
    \A n \in 1..Len(chain) - 1 : \A k \in DOMAIN elected :
       /\ chain[n].sealers # chain[n + 1].sealers
       /\ elected[k].who = chain[n + 1].sealers
       /\ \A m \in DOMAIN elected : elected[m].who = elected[k].who => m = k
       => n - elected[k].at >= BFTSealersWorkDelay

\* "whether the next block after the input block is first one to be produced
\* by new sealers", of NextIsNewSealersFirstBlock.
NextIsTheFirst ==
    \A n \in 1..Len(chain) - 1 :
       NextIsNewSealersFirstBlock(n) <=> chain[n + 1].sealers # chain[n].sealers

\* "returns real elephant sealers of the number of the block given", of
\* GetRealSealersByNum: for an old number too, the sealers who then worked.
SealersOfNumber ==
    \A i \in Node : \A n \in 1..head[i] - 1 :
       GetRealSealersByNum(i, n) = chain[n + 1].sealers

\* "checkSync returns whether we can synchronise from the peer": the next
\* block of a peer that is found fit is one that can be imported.
CheckSyncTrue == \A i, j \in Node : CheckSync(i, j) => Importable(i)

=============================================================================
