----------------------------- MODULE HbftProofs -----------------------------
(***************************************************************************)
(* Type correctness of Hbft, for every number of sealers and every bound,  *)
(* and what its certificates are worth.  In four parts: the operators of   *)
(* HbftBase (quorums meet, the n-th member of a set exists, a newest stage *)
(* exists); the operators of HbftState and HbftWorker, which map typed     *)
(* records to typed records (NodeType stays folded: a record is changed    *)
(* one field at a time, and each change cites the lemma of that field);    *)
(* one lemma per action and the theorem of the types; and certificates,    *)
(* where QuorumsMeet is about pairs of stages and the inductive invariant  *)
(* StagesSigned about each stage alone.                                    *)
(***************************************************************************)
EXTENDS Hbft, FiniteSetTheorems, FunctionTheorems, TLAPS

-----------------------------------------------------------------------------
(* Quorum arithmetic.                                                      *)

\* FaultBound is the ceiling of (N - 1) / 3, so 3 f lies between N - 1 and
\* N + 1.
LEMMA FaultBoundRange ==
    /\ FaultBound(N) \in Nat
    /\ FaultBound(N) >= 1
    /\ 3 * FaultBound(N) >= N - 1
    /\ 3 * FaultBound(N) <= N + 1
  BY NAssumption DEF FaultBound

\* Any two quorums of Get2fRealSealersCnt + 1 sealers share more than
\* FaultBound(N) of them.
LEMMA QuorumIntersection ==
    ASSUME NEW S \in SUBSET Sealer, Cardinality(S) >= Quorum,
           NEW T \in SUBSET Sealer, Cardinality(T) >= Quorum
    PROVE  Cardinality(S \cap T) > FaultBound(N)
<1>1. IsFiniteSet(Sealer) /\ Cardinality(Sealer) = N
  BY FS_Interval, NAssumption DEF Sealer
<1>2. IsFiniteSet(S) /\ IsFiniteSet(T)
  BY <1>1, FS_Subset
<1>3. Cardinality(S \cup T) <= N
  <2>1. S \cup T \in SUBSET Sealer
    OBVIOUS
  <2> QED BY <1>1, <2>1, FS_Subset
<1>4. Cardinality(S \cup T) = Cardinality(S) + Cardinality(T) - Cardinality(S \cap T)
  BY <1>2, FS_Union
<1>5. /\ Cardinality(S) \in Nat /\ Cardinality(T) \in Nat
      /\ Cardinality(S \cap T) \in Nat
  BY <1>2, FS_CardinalityType, FS_Intersection
<1> QED
  BY <1>3, <1>4, <1>5, FaultBoundRange, NAssumption DEF Quorum, Get2fRealSealersCnt

-----------------------------------------------------------------------------
(* The n-th member of a finite set of natural numbers.                     *)

\* Rank maps a finite set one to one onto 1..Cardinality(S), so the CHOOSE in
\* Nth finds a member.
LEMMA NthExists ==
    ASSUME NEW S \in SUBSET Nat, IsFiniteSet(S), NEW n \in 1..Cardinality(S)
    PROVE  Nth(S, n) \in S /\ Rank(S, Nth(S, n)) = n
<1> DEFINE Upto(k) == {x \in S : x <= k}
           f == [k \in S |-> Rank(S, k)]
<1>1. Cardinality(S) \in Nat
  BY FS_CardinalityType
<1>2. \A k \in S : /\ IsFiniteSet(Upto(k)) /\ Cardinality(Upto(k)) \in Nat
                   /\ Cardinality(Upto(k)) <= Cardinality(S)
                   /\ Cardinality(Upto(k)) >= 1
  <2> TAKE k \in S
  <2>1. Upto(k) \in SUBSET S
    OBVIOUS
  <2>2. IsFiniteSet(Upto(k)) /\ Cardinality(Upto(k)) <= Cardinality(S)
    BY <2>1, FS_Subset
  <2>3. k \in Upto(k)
    OBVIOUS
  <2>4. Cardinality(Upto(k)) \in Nat /\ Cardinality(Upto(k)) # 0
    BY <2>2, <2>3, FS_CardinalityType, FS_EmptySet
  <2> QED BY <2>2, <2>4
<1>3. f \in [S -> 1..Cardinality(S)]
  BY <1>1, <1>2 DEF Rank
<1>4. \A j, k \in S : f[j] = f[k] => j = k
  <2>1. ASSUME NEW j \in S, NEW k \in S, j < k PROVE f[j] # f[k]
    <3>1. Upto(j) \in SUBSET Upto(k)
      <4>1. \A x \in S : x <= j => x <= k
        BY <2>1
      <4> QED BY <4>1
    <3>2. k \in Upto(k) /\ k \notin Upto(j)
      <4>1. j \in Nat /\ k \in Nat
        OBVIOUS
      <4> QED BY <2>1, <4>1
    <3>3. Cardinality(Upto(j)) # Cardinality(Upto(k))
      BY <1>2, <3>1, <3>2, FS_Subset
    <3> QED BY <3>3 DEF Rank
  <2> QED BY <2>1
<1>5. f \in Injection(S, 1..Cardinality(S))
  BY <1>3, <1>4 DEF Injection, IsInjective
<1>6. IsFiniteSet(1..Cardinality(S)) /\ Cardinality(1..Cardinality(S)) = Cardinality(S)
  BY <1>1, FS_Interval
<1>7. f \in Surjection(S, 1..Cardinality(S))
  BY <1>5, <1>6, FS_Injection
<1>8. \E k \in S : Rank(S, k) = n
  BY <1>7 DEF Surjection
<1> QED BY <1>8 DEF Nth

\* A finite set of natural numbers has a greatest member.
LEMMA GreatestExists ==
    ASSUME NEW S \in SUBSET Nat, IsFiniteSet(S), S # {}
    PROVE  \E k \in S : \A x \in S : x <= k
<1> DEFINE n == Cardinality(S)
           k == Nth(S, n)
           U == {x \in S : x <= k}
<1>1. n \in 1..n
  BY FS_CardinalityType, FS_EmptySet
<1>2. k \in S /\ Cardinality(U) = n
  BY <1>1, NthExists DEF Rank
<1>3. U \in SUBSET S
  OBVIOUS
<1>4. U = S
  BY <1>2, <1>3, FS_Subset
<1> QED BY <1>2, <1>4

\* ... and so have the values of a function on a finite set.
LEMMA GreatestValueExists ==
    ASSUME NEW S, IsFiniteSet(S), S # {}, NEW f \in [S -> Nat]
    PROVE  \E s \in S : \A t \in S : f[t] <= f[s]
<1> DEFINE V == {f[s] : s \in S}
<1>1. f \in Surjection(S, V)
  BY DEF Surjection
<1>2. IsFiniteSet(V)
  BY <1>1, FS_Surjection
<1>3. PICK v \in V : \A x \in V : x <= v
  <2>1. V \in SUBSET Nat /\ V # {}
    OBVIOUS
  <2> QED BY <1>2, <2>1, GreatestExists
<1>4. PICK s \in S : v = f[s]
  OBVIOUS
<1> QED BY <1>3, <1>4

-----------------------------------------------------------------------------
(* The newest completed stage.                                             *)

\* The fields of a block and of a stage.
LEMMA BlockFields ==
    ASSUME HistoryOK, NEW b \in BlkIds
    PROVE  /\ blk[b].num \in Nat /\ blk[b].parent \in 0..Len(blk)
           /\ blk[b].sealer \in Sealer /\ blk[b].slot \in Nat
           /\ blk[b].view \in Nat /\ blk[b].comp \in 0..Len(stg)
<1>1. blk[b] \in BlockType
  BY DEF HistoryOK, BlkIds
<1> QED BY <1>1 DEF BlockType

\* The fields of a stage; its block exists and its signers are sealers.
LEMMA StageFields ==
    ASSUME HistoryOK, NEW s \in StgIds
    PROVE  /\ stg[s].type \in {PRE, CONF} /\ stg[s].blk \in BlkIds
           /\ stg[s].view \in Nat /\ stg[s].parent \in 0..Len(stg)
           /\ stg[s].signs \in SUBSET Sealer
<1>1. stg[s] \in StageType
  BY DEF HistoryOK, StgIds
<1> QED BY <1>1 DEF StageType

\* The histories are finite sequences.
LEMMA LengthsNat ==
    ASSUME HistoryOK
    PROVE  Len(blk) \in Nat /\ Len(stg) \in Nat
  BY DEF HistoryOK

\* The block a stage is about exists, unless the stage is the empty one.
LEMMA StageBlockType ==
    ASSUME HistoryOK, NEW s \in 0..Len(stg)
    PROVE  /\ StageBlock(s) \in 0..Len(blk)
           /\ s # 0 => StageBlock(s) \in BlkIds
<1>1. s # 0 => s \in StgIds
  BY LengthsNat DEF StgIds
<1>2. s # 0 => stg[s].blk \in BlkIds
  BY <1>1, StageFields
<1> QED BY <1>2, LengthsNat DEF StageBlock, BlkIds

\* Sets of stages are finite, so they can be counted and walked.
LEMMA StagesFinite ==
    ASSUME HistoryOK, NEW S \in SUBSET StgIds
    PROVE  IsFiniteSet(S) /\ Cardinality(S) \in Nat
<1>1. Len(stg) \in Int /\ 1 \in Int
  BY LengthsNat
<1>2. IsFiniteSet(StgIds)
  BY <1>1, FS_Interval, Zenon DEF StgIds
<1> QED BY <1>2, FS_Subset, FS_CardinalityType

\* What the map walk of GetNewestStateCompletedStage finds is one of the
\* stages it walks over, and none of them is newer.
LEMMA NewestStage ==
    ASSUME HistoryOK, NEW S \in SUBSET StgIds, S # {}
    PROVE  /\ GetNewestStateCompletedStage(S) \in S
           /\ \A t \in S : ~Newer(t, GetNewestStateCompletedStage(S))
<1>1. IsFiniteSet(S)
  BY StagesFinite
<1>2. \A s \in S : /\ stg[s].view \in Nat /\ stg[s].type \in Nat
                   /\ Num(stg[s].blk) \in Nat
  <2> TAKE s \in S
  <2> QED BY StageFields, BlockFields DEF PRE, CONF, Num
<1> DEFINE view == [s \in S |-> stg[s].view]
<1>3. PICK v \in S : \A t \in S : stg[t].view <= stg[v].view
  <2>1. view \in [S -> Nat]
    BY <1>2
  <2>3. \E v \in S : \A t \in S : view[t] <= view[v]
    <3> HIDE DEF view
    <3> QED BY <1>1, <2>1, GreatestValueExists
  <2> QED BY <2>3
<1> DEFINE V == {s \in S : stg[s].view = stg[v].view}
           type == [s \in V |-> stg[s].type]
<1>4. PICK w \in V : \A t \in V : stg[t].type <= stg[w].type
  <2>1. type \in [V -> Nat]
    BY <1>2
  <2>2. IsFiniteSet(V) /\ V # {}
    BY <1>1, FS_Subset
  <2>3. \E w \in V : \A t \in V : type[t] <= type[w]
    <3> HIDE DEF type, V
    <3> QED BY <2>1, <2>2, GreatestValueExists
  <2> QED BY <2>3
<1> DEFINE W == {s \in V : stg[s].type = stg[w].type}
           num == [s \in W |-> Num(stg[s].blk)]
<1>5. PICK s \in W : \A t \in W : Num(stg[t].blk) <= Num(stg[s].blk)
  <2>1. num \in [W -> Nat]
    BY <1>2
  <2>2. IsFiniteSet(W) /\ W # {}
    BY <1>1, FS_Subset
  <2>3. \E s \in W : \A t \in W : num[t] <= num[s]
    <3> HIDE DEF num, W
    <3> QED BY <2>1, <2>2, GreatestValueExists
  <2> QED BY <2>3
<1>6. ASSUME NEW t \in S PROVE ~Newer(t, s)
  <2>1. stg[t].view <= stg[s].view
    BY <1>3
  <2>2. stg[t].view = stg[s].view => stg[t].type <= stg[s].type
    BY <1>4
  <2>3. stg[t].view = stg[s].view /\ stg[t].type = stg[s].type
          => Num(stg[t].blk) <= Num(stg[s].blk)
    BY <1>5
  <2> QED BY <1>2, <2>1, <2>2, <2>3 DEF Newer
<1> QED BY <1>6 DEF GetNewestStateCompletedStage

\* GetNewestStateCompletedStage returns a stage of the state or none.
LEMMA NewestStageType ==
    ASSUME HistoryOK, NEW S \in SUBSET StgIds
    PROVE  /\ GetNewestStateCompletedStage(S) \in S \cup {0}
           /\ GetNewestStateCompletedStage(S) \in 0..Len(stg)
<1>1. GetNewestStateCompletedStage(S) \in S \cup {0}
  BY NewestStage DEF GetNewestStateCompletedStage
<1>2. S \cup {0} \subseteq 0..Len(stg)
  <2>1. Len(stg) \in Nat /\ S \subseteq 1..Len(stg)
    BY LengthsNat DEF StgIds
  <2> QED BY <2>1
<1> QED BY <1>1, <1>2

\* The pair GetSealedBlockStages returns is adjacent and taken from S.
LEMMA SealedPairType ==
    ASSUME HistoryOK, NEW S \in SUBSET StgIds
    PROVE  GetSealedBlockStages(S) \in {<<>>} \cup (StgIds \X StgIds)
<1> DEFINE s == GetNewestStateCompletedStage(S)
<1>1. s # 0 => s \in S
  BY NewestStageType
<1> HIDE DEF s
<1>2. s # 0 /\ stg[s].parent \in S => <<stg[s].parent, s>> \in StgIds \X StgIds
  BY <1>1
<1> QED BY <1>2 DEF GetSealedBlockStages, s

-----------------------------------------------------------------------------
(* Selections from sequences.                                              *)

\* Positions of a sequence are finitely many natural numbers.
LEMMA DomainFinite ==
    ASSUME NEW T, NEW s \in Seq(T), NEW K \in SUBSET (DOMAIN s)
    PROVE  /\ K \in SUBSET Nat /\ IsFiniteSet(K) /\ Cardinality(K) \in Nat
<1>1. Len(s) \in Int /\ 1 \in Int /\ DOMAIN s = 1..Len(s) /\ Len(s) \in Nat
  OBVIOUS
<1>2. IsFiniteSet(DOMAIN s)
  BY <1>1, FS_Interval, Zenon
<1>3. DOMAIN s \in SUBSET Nat
  BY <1>1
<1> QED BY <1>2, <1>3, FS_Subset, FS_CardinalityType

\* Picking the elements at the positions K of a sequence, in order, gives a
\* sequence of the same elements.
LEMMA SelectionType ==
    ASSUME NEW T, NEW s \in Seq(T), NEW K \in SUBSET (DOMAIN s)
    PROVE  [n \in 1..Cardinality(K) |-> s[Nth(K, n)]] \in Seq(T)
<1>1. K \in SUBSET Nat /\ IsFiniteSet(K) /\ Cardinality(K) \in Nat
  BY DomainFinite
<1>2. \A n \in 1..Cardinality(K) : Nth(K, n) \in K
  BY <1>1, NthExists
<1>3. \A k \in K : s[k] \in T
  OBVIOUS
<1> DEFINE f == [n \in 1..Cardinality(K) |-> s[Nth(K, n)]]
<1>4. f \in [1..Cardinality(K) -> T]
  BY <1>2, <1>3
<1> QED BY <1>1, <1>4

\* The clearOutdated loops keep a list of the same kind.
LEMMA AboveType ==
    ASSUME NEW T, NEW s \in Seq(T), NEW h
    PROVE  Above(s, h) \in Seq(T)
<1> DEFINE K == {k \in DOMAIN s : Num(s[k]) > h}
<1>1. K \in SUBSET (DOMAIN s)
  OBVIOUS
<1> HIDE DEF K
<1>2. [n \in 1..Cardinality(K) |-> s[Nth(K, n)]] \in Seq(T)
  BY <1>1, SelectionType
<1> QED BY <1>2 DEF Above, K

\* ClearBFTFutureBlock keeps a list of the same kind.
LEMMA WithoutType ==
    ASSUME NEW T, NEW s \in Seq(T), NEW b
    PROVE  Without(s, b) \in Seq(T)
<1> DEFINE K == {k \in DOMAIN s : s[k] # b}
<1>1. K \in SUBSET (DOMAIN s)
  OBVIOUS
<1> HIDE DEF K
<1>2. [n \in 1..Cardinality(K) |-> s[Nth(K, n)]] \in Seq(T)
  BY <1>1, SelectionType
<1> QED BY <1>2 DEF Without, K

\* The chain of completed stages consists of stages.
LEMMA StageChainType ==
    ASSUME HistoryOK, NEW S \in SUBSET StgIds
    PROVE  BuildCompletedStageChain(S) \in Seq(StgIds)
<1>1. S \in SUBSET Nat
  BY LengthsNat DEF StgIds
<1>2. IsFiniteSet(S) /\ Cardinality(S) \in Nat
  BY StagesFinite
<1>3. \A n \in 1..Cardinality(S) : Nth(S, n) \in S
  BY <1>1, <1>2, NthExists
<1>4. Sorted(S) \in [1..Cardinality(S) -> StgIds]
  BY <1>3 DEF Sorted
<1>5. Sorted(S) \in Seq(StgIds)
  BY <1>2, <1>4
<1>6. <<>> \in Seq(StgIds)
  OBVIOUS
<1> QED BY <1>5, <1>6 DEF BuildCompletedStageChain

\* The first and the last element of a list, when there is one, belong to it.
LEMMA EndsType ==
    ASSUME NEW T, NEW s \in Seq(T)
    PROVE  /\ Newest(s) \in T \cup {0} /\ Oldest(s) \in T \cup {0}
           /\ s # <<>> => Newest(s) \in T /\ Oldest(s) \in T
  BY DEF Newest, Oldest

-----------------------------------------------------------------------------
(* The operators of the state and of the worker.                           *)

\* Assigning one field of a node a value of its type keeps the record typed.
\* One lemma per kind of field; every operator below is a sequence of these.
LEMMA SetFlag ==
    ASSUME NEW r \in NodeType, NEW v \in Flag
    PROVE  /\ [r EXCEPT !.live = v] \in NodeType
           /\ [r EXCEPT !.busy = v] \in NodeType
           /\ [r EXCEPT !.abort = v] \in NodeType
           /\ [r EXCEPT !.must = v] \in NodeType
           /\ [r EXCEPT !.sleep = v] \in NodeType
           /\ [r EXCEPT !.late = v] \in NodeType
           /\ [r EXCEPT !.panic = v] \in NodeType
  BY SMTT(60) DEF NodeType, NodeRecord

\* ... the lists of blocks: State.Blocks, State.SignedBlocks, the futures.
LEMMA SetBlkSeq ==
    ASSUME NEW r \in NodeType, NEW v \in BlkSeq
    PROVE  /\ [r EXCEPT !.blocks = v] \in NodeType
           /\ [r EXCEPT !.signed = v] \in NodeType
           /\ [r EXCEPT !.futures = v] \in NodeType
  BY SMTT(60) DEF NodeType, NodeRecord

\* ... the two halves of the Sealed map.
LEMMA SetBlkSet ==
    ASSUME NEW r \in NodeType, NEW v \in BlkSet
    PROVE  /\ [r EXCEPT !.sealT = v] \in NodeType
           /\ [r EXCEPT !.sealF = v] \in NodeType
  BY SMTT(60) DEF NodeType, NodeRecord

\* ... the positions of the two event loops.
LEMMA SetPosition ==
    ASSUME NEW r \in NodeType, NEW v \in Position
    PROVE  /\ [r EXCEPT !.evHead = v] \in NodeType
           /\ [r EXCEPT !.wEv = v] \in NodeType
  BY SMTT(60) DEF NodeType, NodeRecord

\* ... State.CurrentStage.
LEMMA SetStage ==
    ASSUME NEW r \in NodeType, NEW v \in Phase
    PROVE  [r EXCEPT !.stage = v] \in NodeType
  BY SMTT(60) DEF NodeType, NodeRecord

\* ... State.ViewID.
LEMMA SetView ==
    ASSUME NEW r \in NodeType, NEW v \in Nat
    PROVE  [r EXCEPT !.view = v] \in NodeType
  BY SMTT(60) DEF NodeType, NodeRecord

\* ... State.ViewPrimary.
LEMMA SetPrim ==
    ASSUME NEW r \in NodeType, NEW v \in 0..N
    PROVE  [r EXCEPT !.prim = v] \in NodeType
  BY SMTT(60) DEF NodeType, NodeRecord

\* ... State.MsgHash.
LEMMA SetMsghash ==
    ASSUME NEW r \in NodeType, NEW v \in HashType
    PROVE  [r EXCEPT !.msgHash = v] \in NodeType
  BY SMTT(60) DEF NodeType, NodeRecord

\* ... State.Completed.
LEMMA SetCompleted ==
    ASSUME NEW r \in NodeType, NEW v \in StgSet
    PROVE  [r EXCEPT !.completed = v] \in NodeType
  BY SMTT(60) DEF NodeType, NodeRecord

\* ... confirmReplyCnt.
LEMMA SetCfmcnt ==
    ASSUME NEW r \in NodeType, NEW v \in Int
    PROVE  [r EXCEPT !.cfmCnt = v] \in NodeType
  BY SMTT(60) DEF NodeType, NodeRecord

\* ... the replies of the current round.
LEMMA SetReplies ==
    ASSUME NEW r \in NodeType, NEW v \in SUBSET Sealer
    PROVE  [r EXCEPT !.replies = v] \in NodeType
  BY SMTT(60) DEF NodeType, NodeRecord

\* ... the local chain.
LEMMA SetChain ==
    ASSUME NEW r \in NodeType, NEW v \in ChainType
    PROVE  [r EXCEPT !.chain = v] \in NodeType
  BY SMTT(60) DEF NodeType, NodeRecord

\* ... the work handed to the agent.
LEMMA SetWork ==
    ASSUME NEW r \in NodeType, NEW v \in MaybeBlk
    PROVE  [r EXCEPT !.work = v] \in NodeType
  BY SMTT(60) DEF NodeType, NodeRecord

\* ... the sealing goroutine.
LEMMA SetMine ==
    ASSUME NEW r \in NodeType, NEW v \in MineType
    PROVE  [r EXCEPT !.mine = v] \in NodeType
  BY SMTT(60) DEF NodeType, NodeRecord

\* ... the results on their way to the worker.
LEMMA SetRecv ==
    ASSUME NEW r \in NodeType, NEW v \in Results
    PROVE  [r EXCEPT !.recv = v] \in NodeType
  BY SMTT(60) DEF NodeType, NodeRecord

\* futureParentBlock and futureParentWork are assigned together: a saved
\* parent always comes with a work.
LEMMA SetSaved ==
    ASSUME NEW r \in NodeType, NEW f \in MaybeBlk, NEW w \in MaybeBlk, f # 0 => w # 0
    PROVE  [r EXCEPT !.wFut = f, !.wWork = w] \in NodeType
<1>1. [r EXCEPT !.wFut = f] \in NodeRecord
  BY DEF NodeType, NodeRecord
<1>2. \A q \in NodeRecord : [q EXCEPT !.wWork = w] \in NodeRecord
  BY DEF NodeRecord
<1>3. [r EXCEPT !.wFut = f, !.wWork = w] \in NodeRecord
  BY <1>1, <1>2
<1>4. /\ [r EXCEPT !.wFut = f, !.wWork = w].wFut = f
      /\ [r EXCEPT !.wFut = f, !.wWork = w].wWork = w
  BY DEF NodeType, NodeRecord
<1> QED BY <1>3, <1>4 DEF NodeType

\* The types of the fields that the operators read.
LEMMA NodeFields ==
    ASSUME NEW r \in NodeType
    PROVE  /\ r.stage \in Phase /\ r.view \in Nat /\ r.blocks \in BlkSeq
           /\ r.signed \in BlkSeq /\ r.completed \in StgSet /\ r.cfmCnt \in Int
           /\ r.replies \in SUBSET Sealer /\ r.sealT \in BlkSet /\ r.sealF \in BlkSet
           /\ r.evHead \in Position /\ r.chain \in ChainType /\ r.futures \in BlkSeq
           /\ r.work \in MaybeBlk /\ r.wEv \in Position /\ r.mine \in MineType
           /\ r.recv \in Results /\ r.wFut \in MaybeBlk /\ r.wWork \in MaybeBlk
           /\ r.wFut # 0 => r.wWork # 0
  BY DEF NodeType, NodeRecord

\* The values that resets and creations assign have their types.
LEMMA SmallTypes ==
    /\ TRUE \in Flag /\ FALSE \in Flag /\ IDLE \in Phase /\ PRECFM \in Phase
    /\ CONFIRM \in Phase /\ NoHash \in HashType /\ <<>> \in BlkSeq /\ {} \in StgSet
    /\ <<>> \in StgSeq /\ 0 \in Int /\ {} \in SUBSET Sealer /\ {} \in BlkSet
    /\ <<>> \in Results
  BY DEF Flag, Phase, HashType, BlkSeq, StgSet, StgSeq, BlkSet, Results

\* createStateForNewConsensus
LEMMA CreateStateType ==
    ASSUME NEW r \in NodeType, NEW prim \in Sealer, NEW view \in Nat
    PROVE  CreateStateForNewConsensus(r, prim, view) \in NodeType
<1>1. prim \in 0..N
  BY NAssumption DEF Sealer
<1>2. [r EXCEPT !.cfmCnt = 0, !.live = TRUE, !.stage = IDLE, !.prim = prim,
                !.view = view, !.msgHash = NoHash, !.blocks = <<>>,
                !.signed = <<>>, !.completed = {}] \in NodeType
  BY <1>1, SmallTypes, SetCfmcnt, SetFlag, SetStage, SetPrim, SetView, SetMsghash,
     SetBlkSeq, SetCompleted
<1>3. [r EXCEPT !.cfmCnt = 0, !.prim = prim, !.view = view] \in NodeType
  BY <1>1, SmallTypes, SetCfmcnt, SetPrim, SetView
<1>4. [r EXCEPT !.cfmCnt = 0] \in NodeType
  BY SmallTypes, SetCfmcnt
<1> QED BY <1>2, <1>3, <1>4 DEF CreateStateForNewConsensus

\* State.Reset keeps the types, the panic on an empty block list included.
LEMMA ResetType ==
    ASSUME NEW r \in NodeType, NEW num, NEW clear \in BOOLEAN
    PROVE  Reset(r, num, clear) \in NodeType
<1>1. [r EXCEPT !.panic = TRUE] \in NodeType
  BY SmallTypes, SetFlag
<1>2. ASSUME r.blocks # <<>> PROVE <<r.blocks[Len(r.blocks)]>> \in BlkSeq
  BY <1>2, NodeFields DEF BlkSeq
<1>3. Above(r.signed, num) \in BlkSeq
  BY NodeFields, AboveType DEF BlkSeq
<1>4. ClearOutdatedCompleted(r.completed, num) \in StgSet
  BY NodeFields DEF ClearOutdatedCompleted, StgSet
<1>5. (IF clear THEN ClearOutdatedCompleted(r.completed, num) ELSE r.completed) \in StgSet
  BY <1>4, NodeFields
<1> QED
  BY <1>1, <1>2, <1>3, <1>5, SmallTypes, SetStage, SetMsghash, SetBlkSeq, SetCompleted
  DEF Reset

\* State.ClearConnected keeps the types.
LEMMA ClearConnectedType ==
    ASSUME NEW r \in NodeType, NEW num
    PROVE  ClearConnected(r, num) \in NodeType
<1> DEFINE K == {k \in DOMAIN r.blocks : Num(r.blocks[k]) < num}
<1>1. Cardinality(K) \in Nat
  <2>1. K \in SUBSET (DOMAIN r.blocks) /\ r.blocks \in Seq(BlkIds)
    BY NodeFields DEF BlkSeq
  <2> HIDE DEF K
  <2> QED BY <2>1, DomainFinite
<1>2. SubSeq(r.blocks, Cardinality(K) + 1, Len(r.blocks)) \in BlkSeq
  <2> HIDE DEF K
  <2> QED BY <1>1, NodeFields DEF BlkSeq
<1>3. ClearOutdatedCompleted(r.completed, num) \in StgSet
  BY NodeFields DEF ClearOutdatedCompleted, StgSet
<1> QED BY <1>2, <1>3, SetCompleted, SetBlkSeq DEF ClearConnected

-----------------------------------------------------------------------------
(* The worker.                                                             *)

\* The head block and every other entry of the chain are entries.
LEMMA HeadType ==
    ASSUME NEW r \in NodeType
    PROVE  /\ GetCurrentBlock(r) \in EntryType
           /\ \A k \in DOMAIN r.chain : r.chain[k] \in EntryType
<1>1. r.chain \in Seq(EntryType) /\ r.chain # <<>>
  BY NodeFields DEF ChainType
<1> QED BY <1>1 DEF GetCurrentBlock

\* A block number is a proposed block or 0.
LEMMA MaybeBlkType ==
    ASSUME HistoryOK
    PROVE  /\ BlkIds \subseteq MaybeBlk /\ 0 \in MaybeBlk
           /\ \A b \in MaybeBlk : b # 0 => b \in BlkIds
  BY LengthsNat DEF MaybeBlk, BlkIds

\* Worker.CommitNewWork builds on a block that exists.
LEMMA CommitNewWorkType ==
    ASSUME HistoryOK, NEW r \in NodeType
    PROVE  CommitNewWork(r) \in NodeType
<1>1. GetCurrentBlock(r).blk \in MaybeBlk
  BY HeadType, MaybeBlkType DEF EntryType
<1>2. Newest(r.futures) \in MaybeBlk
  BY NodeFields, EndsType, MaybeBlkType DEF BlkSeq
<1>3. \A m \in MineType, x \in BOOLEAN : [m EXCEPT !.stop = x] \in MineType
  BY DEF MineType
<1>4. [r.mine EXCEPT !.stop = r.mine.stop \/ r.mine.phase = "seal"] \in MineType
  <2>1. (r.mine.stop \/ r.mine.phase = "seal") \in BOOLEAN
    OBVIOUS
  <2> QED BY <1>3, <2>1, NodeFields
<1>5. \A q \in NodeType : (q.abort \/ (r.work # 0 /\ r.mine.phase # "none")) \in Flag
  BY DEF Flag
<1> QED BY <1>1, <1>2, <1>4, <1>5, SetWork, SetMine, SetFlag DEF CommitNewWork

\* A block, two stages and a state make an entry of the chain.
LEMMA EntryIsEntry ==
    ASSUME NEW b \in BlkIds, NEW pair \in PairType, NEW w \in BlkIds
    PROVE  Entry(b, pair, w) \in EntryType
  BY DEF Entry, EntryType, PairType

\* WriteBlockWithState on a known parent leaves a chain that is not empty.
LEMMA WriteBlockType ==
    ASSUME NEW r \in NodeType, NEW e \in EntryType, InChain(r, blk[e.blk].parent)
    PROVE  WriteBlockWithState(r, e) \in NodeType
<1> DEFINE k == Pos(r, blk[e.blk].parent)
<1>1. k \in DOMAIN r.chain
  BY DEF Pos, InChain
<1>2. r.chain \in Seq(EntryType)
  BY NodeFields DEF ChainType
<1> HIDE DEF k
<1>3. SubSeq(r.chain, 1, k) \in Seq(EntryType)
  BY <1>1, <1>2
<1>4. Append(SubSeq(r.chain, 1, k), e) \in ChainType
  <2> DEFINE t == SubSeq(r.chain, 1, k)
  <2> HIDE DEF t
  <2>1. t \in Seq(EntryType) => Append(t, e) \in Seq(EntryType) \ {<<>>}
    OBVIOUS
  <2> QED BY <1>3, <2>1 DEF t, ChainType
<1> QED BY <1>4, SetChain DEF WriteBlockWithState, k

\* ReplaceBlockWithoutState exchanges the stages of a known block only.
LEMMA ReplaceBlockType ==
    ASSUME NEW r \in NodeType, NEW b \in BlkIds, InChain(r, b), NEW pair \in PairType
    PROVE  ReplaceBlockWithoutState(r, b, pair) \in NodeType
<1> DEFINE k == Pos(r, b)
           e == Entry(b, pair, r.chain[k].work)
<1>1. k \in DOMAIN r.chain
  BY DEF Pos, InChain
<1>2. e \in EntryType
  BY <1>1, HeadType, EntryIsEntry DEF EntryType
<1> HIDE DEF k, e
<1>3. [r.chain EXCEPT ![k] = e] \in ChainType
  <2>1. r.chain \in Seq(EntryType) /\ r.chain # <<>>
    BY NodeFields DEF ChainType
  <2>2. [r.chain EXCEPT ![k] = e] \in Seq(EntryType)
    BY <1>1, <1>2, <2>1
  <2>3. DOMAIN [r.chain EXCEPT ![k] = e] = DOMAIN r.chain /\ DOMAIN <<>> = {}
    OBVIOUS
  <2> QED BY <1>1, <2>2, <2>3 DEF ChainType
<1> QED BY <1>3, SetChain DEF ReplaceBlockWithoutState, k, e

\* ClearOutDatedBFTFutureBlock keeps the types.
LEMMA ClearOutDatedType ==
    ASSUME NEW r \in NodeType, NEW num
    PROVE  ClearOutDatedBFTFutureBlock(r, num) \in NodeType
<1>1. Above(r.futures, num) \in BlkSeq
  BY NodeFields, AboveType DEF BlkSeq
<1> QED BY <1>1, SetBlkSeq DEF ClearOutDatedBFTFutureBlock

\* Worker.ConnectBlock keeps the types on each of its ways out.
LEMMA ConnectBlockType ==
    ASSUME HistoryOK, NEW r \in NodeType, NEW b \in BlkIds, NEW pair \in PairType,
           NEW w \in BlkIds, NEW isFuture \in BOOLEAN
    PROVE  ConnectBlock(r, b, pair, w, isFuture).n \in NodeType
<1> DEFINE known == InChain(r, b)
           r1 == IF known THEN ReplaceBlockWithoutState(r, b, pair)
                 ELSE [WriteBlockWithState(r, Entry(b, pair, w)) EXCEPT !.must = FALSE]
           r2 == ClearOutDatedBFTFutureBlock(r1, Num(b))
<1>1. [r EXCEPT !.panic = TRUE] \in NodeType
  BY SmallTypes, SetFlag
<1>2. ASSUME known \/ InChain(r, blk[b].parent) PROVE r1 \in NodeType
  <2>1. CASE known
    BY <2>1, ReplaceBlockType
  <2>2. CASE ~known
    <3>1. Entry(b, pair, w) \in EntryType /\ Entry(b, pair, w).blk = b
      BY EntryIsEntry DEF Entry
    <3>2. WriteBlockWithState(r, Entry(b, pair, w)) \in NodeType
      BY <1>2, <2>2, <3>1, WriteBlockType
    <3> QED BY <2>2, <3>2, SmallTypes, SetFlag
  <2> QED BY <2>1, <2>2
<1>3. ASSUME known \/ InChain(r, blk[b].parent)
      PROVE  r2 \in NodeType /\ CommitNewWork(r2) \in NodeType
  BY <1>2, <1>3, ClearOutDatedType, CommitNewWorkType
<1> QED BY <1>1, <1>3 DEF ConnectBlock, Done, GaveUp

\* Worker.getSealedBlockStages returns two stages of the chain, or nothing.
LEMMA SealedStagesType ==
    ASSUME NEW b, NEW chain \in StgSeq, GetSealedStagesOf(b, chain) # <<>>
    PROVE  GetSealedStagesOf(b, chain) \in PairType
<1> DEFINE K == SealedPairs(b, chain)
           k == Nth(K, 1)
<1>1. chain \in Seq(StgIds) /\ K \in SUBSET (DOMAIN chain)
  BY DEF StgSeq, SealedPairs
<1>2. K # {}
  BY DEF GetSealedStagesOf
<1> HIDE DEF K
<1>3. K \in SUBSET Nat /\ IsFiniteSet(K) /\ Cardinality(K) \in Nat /\ Cardinality(K) # 0
  BY <1>1, <1>2, DomainFinite, FS_EmptySet
<1>4. k \in K
  <2>1. 1 \in 1..Cardinality(K)
    BY <1>3
  <2> QED BY <1>3, <2>1, NthExists
<1>5. k \in DOMAIN chain /\ k + 1 \in DOMAIN chain
  <2>1. ASSUME NEW x \in K PROVE x \in 1..(Len(chain) - 1)
    BY <2>1 DEF K, SealedPairs
  <2>2. k \in 1..(Len(chain) - 1)
    BY <1>4, <2>1
  <2> HIDE DEF k
  <2> QED BY <1>1, <2>2
<1> HIDE DEF k
<1>6. <<chain[k], chain[k + 1]>> \in PairType
  BY <1>1, <1>5 DEF PairType
<1> QED BY <1>2, <1>6 DEF GetSealedStagesOf, K, k

\* Worker.connectParentFuture keeps the types.
LEMMA ConnectParentType ==
    ASSUME HistoryOK, NEW r \in NodeType, NEW b \in BlkIds, NEW w \in BlkIds,
           NEW chain \in StgSeq
    PROVE  ConnectParentFuture(r, b, w, chain).n \in NodeType
<1> DEFINE pair == GetSealedStagesOf(b, chain)
<1>1. ASSUME pair # <<>> PROVE ConnectBlock(r, b, pair, w, TRUE).n \in NodeType
  BY <1>1, SealedStagesType, ConnectBlockType
<1> QED BY <1>1 DEF ConnectParentFuture, GaveUp

\* Worker.handleBFTFutures, called with several futures, keeps the types.
LEMMA HandleFuturesType ==
    ASSUME HistoryOK, NEW r \in NodeType, NEW chain \in StgSeq, Len(r.futures) > 1
    PROVE  HandleBFTFutures(r, chain).n \in NodeType
<1>1. Oldest(r.futures) \in BlkIds
  <2>1. r.futures \in Seq(BlkIds) /\ r.futures # <<>>
    BY NodeFields DEF BlkSeq
  <2> QED BY <2>1, EndsType
<1> QED BY <1>1, ConnectParentType DEF HandleBFTFutures, GaveUp

\* Worker.ClearWorkerFutureParent forgets block and work together.
LEMMA ClearParentType ==
    ASSUME HistoryOK, NEW r \in NodeType
    PROVE  ClearWorkerFutureParent(r) \in NodeType
  BY MaybeBlkType, SetSaved DEF ClearWorkerFutureParent

\* Worker.handleFutureParent keeps the types.
LEMMA HandleParentType ==
    ASSUME HistoryOK, NEW r \in NodeType, NEW chain \in StgSeq, r.wFut # 0,
           NEW timedOut \in BOOLEAN
    PROVE  HandleFutureParent(r, chain, timedOut).n \in NodeType
<1> DEFINE r1 == ClearWorkerFutureParent([r EXCEPT !.futures = Without(@, r.wFut)])
           c  == ConnectParentFuture(r, r.wFut, r.wWork, chain)
<1>1. r1 \in NodeType
  <2>1. Without(r.futures, r.wFut) \in BlkSeq
    BY NodeFields, WithoutType DEF BlkSeq
  <2> QED BY <2>1, SetBlkSeq, ClearParentType
<1>2. ASSUME Len(r1.futures) > 1 PROVE HandleBFTFutures(r1, chain).n \in NodeType
  BY <1>1, <1>2, HandleFuturesType
<1>3. [r1 EXCEPT !.must = TRUE] \in NodeType
  BY <1>1, SmallTypes, SetFlag
<1>4. c.n \in NodeType
  BY NodeFields, MaybeBlkType, ConnectParentType
<1>5. ClearWorkerFutureParent(c.n) \in NodeType
  BY <1>4, ClearParentType
<1> HIDE DEF r1, c
<1> QED BY <1>2, <1>3, <1>4, <1>5 DEF HandleFutureParent, Done, r1, c

\* The results of the miner as Worker.wait takes them.
LEMMA ResultFields ==
    ASSUME NEW m \in ResultType
    PROVE  /\ m.blk \in MaybeBlk /\ m.chain \in StgSeq
           /\ m.code \in {"confirm", "sealed"} => m.blk # 0
           /\ m.code = "sealed" => m.pair \in PairType
  BY DEF ResultType, MineType, MaybeBlk, StgSeq

\* The sleep before CommitNewWork keeps the types.
LEMMA SleepType ==
    ASSUME NEW r \in NodeType
    PROVE  SleepThenCommit(r) \in NodeType
  BY SmallTypes, SetFlag DEF SleepThenCommit

\* The retry branch of Worker.wait keeps the types.
LEMMA WaitRetryType ==
    ASSUME HistoryOK, NEW r \in NodeType, NEW m \in ResultType
    PROVE  WaitRetry(r, m) \in NodeType
<1>1. ASSUME Len(r.futures) > 1 PROVE HandleBFTFutures(r, m.chain).n \in NodeType
  BY <1>1, ResultFields, HandleFuturesType
<1>2. ASSUME r.wFut # 0 PROVE HandleFutureParent(r, m.chain, TRUE).n \in NodeType
  BY <1>2, ResultFields, HandleParentType
<1>3. ASSUME r.wFut # 0
      PROVE  SleepThenCommit(HandleFutureParent(r, m.chain, TRUE).n) \in NodeType
  BY <1>2, <1>3, SleepType
<1> QED BY <1>1, <1>2, <1>3, SleepType DEF WaitRetry

\* The confirm branch of Worker.wait saves a block that exists.
LEMMA WaitConfirmType ==
    ASSUME HistoryOK, NEW r \in NodeType, NEW m \in ResultType, m.code = "confirm"
    PROVE  WaitConfirm(r, m) \in NodeType
<1> DEFINE r0 == ClearOutDatedBFTFutureBlock(r, CurrentNum(r))
           c  == IF r.wFut # 0 THEN HandleFutureParent(r, m.chain, TRUE)
                 ELSE IF Len(r0.futures) > 1 THEN HandleBFTFutures(r0, m.chain)
                 ELSE Done([r0 EXCEPT !.must = TRUE])
           r1 == [c.n EXCEPT !.wFut = Newest(c.n.futures), !.wWork = m.blk]
<1>1. r0 \in NodeType
  BY ClearOutDatedType
<1>2. c.n \in NodeType
  <2>1. CASE r.wFut # 0
    BY <2>1, ResultFields, HandleParentType
  <2>2. CASE r.wFut = 0 /\ Len(r0.futures) > 1
    BY <1>1, <2>2, ResultFields, HandleFuturesType
  <2>3. [r0 EXCEPT !.must = TRUE] \in NodeType
    BY <1>1, SmallTypes, SetFlag
  <2> HIDE DEF r0
  <2> QED BY <2>1, <2>2, <2>3 DEF Done
<1> HIDE DEF c
<1>3. Newest(c.n.futures) \in MaybeBlk
  BY <1>2, NodeFields, EndsType, MaybeBlkType DEF BlkSeq
<1>4. r1 \in NodeType
  BY <1>2, <1>3, ResultFields, SetSaved
<1>5. SleepThenCommit(r1) \in NodeType
  BY <1>4, SleepType
<1> HIDE DEF r1
<1> QED BY <1>2, <1>4, <1>5 DEF WaitConfirm, c, r1

\* The sealed branch of Worker.wait connects with stages that exist.
LEMMA WaitSealedType ==
    ASSUME HistoryOK, NEW r \in NodeType, NEW m \in ResultType, m.code = "sealed"
    PROVE  WaitSealed(r, m) \in NodeType
<1> DEFINE c == IF r.wFut # 0 THEN HandleFutureParent(r, m.chain, FALSE)
                ELSE IF Len(r.futures) > 1 THEN HandleBFTFutures(r, m.chain)
                ELSE Done(r)
<1>1. c.n \in NodeType
  <2>1. CASE r.wFut # 0
    BY <2>1, ResultFields, HandleParentType
  <2>2. CASE r.wFut = 0 /\ Len(r.futures) > 1
    BY <2>2, ResultFields, HandleFuturesType
  <2> QED BY <2>1, <2>2 DEF Done
<1> HIDE DEF c
<1>2. ConnectBlock(c.n, m.blk, m.pair, m.blk, FALSE).n \in NodeType
  BY <1>1, ResultFields, MaybeBlkType, ConnectBlockType
<1> QED BY <1>1, <1>2 DEF WaitSealed, c

-----------------------------------------------------------------------------
(* The histories only grow, and the types grow with them.                  *)

\* The types depend on the two histories only.
LEMMA SameTypes ==
    ASSUME UNCHANGED <<blk, stg>>
    PROVE  NodeType' = NodeType /\ MsgType' = MsgType /\ HistoryOK' = HistoryOK
<1>1. blk' = blk /\ stg' = stg
  OBVIOUS
<1> QED
  BY <1>1 DEF NodeType, NodeRecord, MsgType, HistoryOK, BlockType, StageType, HashType,
     ChainType, EntryType, Results, ResultType, MineType, PairType, BlkSeq, BlkSet,
     StgSet, StgSeq, MaybeBlk, BlkIds, StgIds, Phase, Flag, Position, Sealer

\* A list over a smaller set is a list over a larger one.
LEMMA SubsetSeq ==
    ASSUME NEW S, NEW T, S \subseteq T
    PROVE  Seq(S) \subseteq Seq(T)
  OBVIOUS

\* A longer history leaves every typed record and message typed.
LEMMA TypesGrow ==
    ASSUME HistoryOK, HistoryOK', Len(blk) <= Len(blk'), Len(stg) <= Len(stg')
    PROVE  /\ NodeType \subseteq NodeType' /\ MsgType \subseteq MsgType'
           /\ MineType \subseteq MineType'
<1>1. BlkIds \subseteq BlkIds' /\ StgIds \subseteq StgIds' /\ MaybeBlk \subseteq MaybeBlk'
  <2>1. /\ Len(blk) \in Nat /\ Len(stg) \in Nat /\ Len(blk') \in Nat /\ Len(stg') \in Nat
    BY DEF HistoryOK
  <2> QED BY <2>1 DEF BlkIds, StgIds, MaybeBlk
<1>2. /\ BlkSeq \subseteq BlkSeq' /\ StgSeq \subseteq StgSeq'
  BY <1>1, SubsetSeq DEF BlkSeq, StgSeq
<1>3. BlkSet \subseteq BlkSet' /\ StgSet \subseteq StgSet'
  BY <1>1 DEF BlkSet, StgSet
<1>4. PairType \subseteq PairType' /\ HashType \subseteq HashType'
  BY <1>1 DEF PairType, HashType, PRE, CONF, NoHash
<1>5. ChainType \subseteq ChainType'
  <2>1. EntryType \subseteq EntryType'
    BY <1>1 DEF EntryType
  <2> QED BY <2>1, SubsetSeq DEF ChainType
<1>6. MineType \subseteq MineType'
  BY <1>1, <1>2, <1>4 DEF MineType, MaybeBlk, StgSeq
<1>7. Results \subseteq Results'
  <2>1. ResultType \subseteq ResultType'
    BY <1>6 DEF ResultType
  <2> QED BY <2>1, SubsetSeq DEF Results
<1>8. NodeRecord \subseteq NodeRecord'
  <2>1. Flag' = Flag /\ Phase' = Phase /\ Position' = Position /\ Sealer' = Sealer
    BY DEF Flag, Phase, Position, Sealer, IDLE, PRECFM, CONFIRM
  <2> QED BY <1>1, <1>2, <1>3, <1>4, <1>5, <1>6, <1>7, <2>1 DEF NodeRecord
<1>9. NodeType \subseteq NodeType'
  BY <1>8 DEF NodeType
<1>10. MsgType \subseteq MsgType'
  BY <1>1, <1>2 DEF MsgType, StgSeq, PRE, CONF, Sealer
<1> QED BY <1>6, <1>9, <1>10

-----------------------------------------------------------------------------
(* The handlers on the record of a node.                                   *)

\* Appending a proposed block to a list of blocks.
LEMMA AppendBlkType ==
    ASSUME NEW s \in BlkSeq, NEW b \in BlkIds
    PROVE  Append(s, b) \in BlkSeq
  BY DEF BlkSeq

\* HandlePreConfirmMsg keeps the types, accepted or refused.
LEMMA HandlePreConfirmType ==
    ASSUME HistoryOK, NEW r \in NodeType, NEW b \in BlkIds, NEW cur
    PROVE  HandlePreConfirm(r, b, cur).n \in NodeType
<1> DEFINE fut == StageBlock(blk[b].comp)
           r0  == CreateStateForNewConsensus(r, blk[b].sealer, blk[b].view)
           r1  == [r0 EXCEPT !.blocks = Append(@, b)]
           r2  == IF fut # 0 /\ ~Has(r1.blocks, fut)
                  THEN [r1 EXCEPT !.blocks = Append(@, fut)] ELSE r1
           r3  == [r2 EXCEPT !.prim = blk[b].sealer, !.signed = Append(@, b),
                             !.stage = PRECFM, !.view = blk[b].view,
                             !.msgHash = <<PRE, b>>]
<1>1. /\ blk[b].sealer \in Sealer /\ blk[b].view \in Nat /\ blk[b].comp \in 0..Len(stg)
      /\ blk[b].sealer \in 0..N
  BY BlockFields, NAssumption DEF Sealer
<1>2. fut \in 0..Len(blk) /\ (fut # 0 => fut \in BlkIds)
  <2>1. fut \in 0..Len(blk)
    BY <1>1, StageBlockType
  <2> QED BY <2>1, LengthsNat DEF BlkIds
<1>3. r0 \in NodeType
  BY <1>1, CreateStateType
<1> HIDE DEF fut, r0
<1>4. r1 \in NodeType
  BY <1>3, NodeFields, AppendBlkType, SetBlkSeq
<1> HIDE DEF r1
<1>5. r2 \in NodeType
  BY <1>2, <1>4, NodeFields, AppendBlkType, SetBlkSeq
<1> HIDE DEF r2
<1>6. r3 \in NodeType
  <2>1. <<PRE, b>> \in HashType
    BY DEF HashType
  <2>2. [r2 EXCEPT !.prim = blk[b].sealer] \in NodeType
    BY <1>1, <1>5, SetPrim
  <2>3. [r2 EXCEPT !.prim = blk[b].sealer, !.signed = Append(@, b)] \in NodeType
    BY <2>2, NodeFields, AppendBlkType, SetBlkSeq
  <2> QED BY <1>1, <2>1, <2>3, SmallTypes, SetStage, SetView, SetMsghash
<1> HIDE DEF r3
<1> QED BY <1>5, <1>6 DEF HandlePreConfirm, Done, GaveUp, fut, r0, r1, r2, r3

\* addNewFutureBlockAndSetCompleted needs a signed block to add.
LEMMA AddNewFutureType ==
    ASSUME NEW r \in NodeType, r.signed # <<>>, NEW S \in StgSet
    PROVE  AddNewFutureBlockAndSetCompleted(r, S) \in NodeType
<1>1. Newest(r.signed) \in BlkIds
  BY NodeFields, EndsType DEF BlkSeq
<1>2. [r EXCEPT !.futures = Append(@, Newest(r.signed))] \in NodeType
  BY <1>1, NodeFields, AppendBlkType, SetBlkSeq
<1>3. \A q \in NodeType : q.completed \cup S \in StgSet
  BY NodeFields DEF StgSet
<1> QED BY <1>2, <1>3, SetCompleted DEF AddNewFutureBlockAndSetCompleted

\* HandleConfirmMsg keeps the types, accepted or refused.
LEMMA HandleConfirmType ==
    ASSUME HistoryOK, NEW r \in NodeType, NEW b \in BlkIds, NEW comp \in StgSeq
    PROVE  HandleConfirm(r, b, comp).n \in NodeType
<1> DEFINE r0 == [r EXCEPT !.cfmCnt = 0]
           r1 == AddNewFutureBlockAndSetCompleted(r0, Range(comp))
           r2 == [r1 EXCEPT !.prim = blk[b].sealer, !.stage = CONFIRM, !.view = blk[b].view]
<1>1. r0 \in NodeType
  BY SmallTypes, SetCfmcnt
<1> HIDE DEF r0
<1>2. ConfirmRefusal(r0, comp) \in NodeType
  BY <1>1, ResetType DEF ConfirmRefusal
<1>3. ASSUME CheckCurrentStateConfirm(r0, comp) PROVE r2 \in NodeType
  <2>1. r0.signed # <<>>
    BY <1>3 DEF CheckCurrentStateConfirm
  <2>2. Range(comp) \in StgSet
    BY DEF StgSet, StgSeq, Range
  <2>3. r1 \in NodeType
    BY <1>1, <2>1, <2>2, AddNewFutureType
  <2> HIDE DEF r1
  <2>4. blk[b].sealer \in 0..N /\ blk[b].view \in Nat
    BY BlockFields, NAssumption DEF Sealer
  <2> QED BY <2>3, <2>4, SmallTypes, SetPrim, SetStage, SetView
<1> HIDE DEF r2
<1> QED BY <1>1, <1>2, <1>3 DEF HandleConfirm, Done, GaveUp, r0, r1, r2

\* A finished goroutine.  The result that reports a sealed block has stages.
LEMMA FinishType ==
    ASSUME HistoryOK, NEW r \in NodeType, NEW b \in MaybeBlk,
           NEW code \in {"request", "retry", "confirm", "sealed"},
           code \in {"confirm", "sealed"} => b # 0,
           NEW pair \in {<<>>} \cup PairType, code = "sealed" => pair # <<>>
    PROVE  Finish(r, b, code, pair) \in NodeType
<1>1. r.mine.stop \in BOOLEAN
  BY NodeFields DEF MineType
<1>2. BuildCompletedStageChain(r.completed) \in Seq(StgIds)
  BY NodeFields, StageChainType DEF StgSet
<1>3. [phase |-> "fin", blk |-> b, code |-> code, pair |-> pair,
       chain |-> BuildCompletedStageChain(r.completed), stop |-> r.mine.stop] \in MineType
  BY <1>1, <1>2 DEF MineType, MaybeBlk
<1> QED BY <1>3, SetMine DEF Finish

-----------------------------------------------------------------------------
(* An action that extends a history builds its record in the types of the  *)
(* next state.  These facts hold in every state, so in the next one too.   *)

\* An assignment to a field keeps the type of a node.
NodeUpdates ==
    \A r \in NodeType :
      /\ r.blocks \in BlkSeq /\ r.signed \in BlkSeq /\ r.completed \in StgSet
      /\ r.cfmCnt \in Int
      /\ \A v \in Flag : [r EXCEPT !.busy = v] \in NodeType
      /\ \A v \in BlkSeq : /\ [r EXCEPT !.blocks = v] \in NodeType
                           /\ [r EXCEPT !.signed = v] \in NodeType
      /\ \A v \in BlkSet : /\ [r EXCEPT !.sealT = v] \in NodeType
                           /\ [r EXCEPT !.sealF = v] \in NodeType
      /\ \A v \in Phase : [r EXCEPT !.stage = v] \in NodeType
      /\ \A v \in Nat : [r EXCEPT !.view = v] \in NodeType
      /\ \A v \in 0..N : [r EXCEPT !.prim = v] \in NodeType
      /\ \A v \in HashType : [r EXCEPT !.msgHash = v] \in NodeType
      /\ \A v \in StgSet : [r EXCEPT !.completed = v] \in NodeType
      /\ \A v \in Int : [r EXCEPT !.cfmCnt = v] \in NodeType
      /\ \A v \in SUBSET Sealer : [r EXCEPT !.replies = v] \in NodeType
      /\ \A v \in MaybeBlk : [r EXCEPT !.work = v] \in NodeType
      /\ \A b \in BlkIds : [r EXCEPT !.mine = Sealing(b)] \in NodeType
      /\ \A S \in StgSet : r.signed # <<>> =>
            AddNewFutureBlockAndSetCompleted(r, S) \in NodeType

\* The facts hold in any state ...
LEMMA NodeUpdatesHold == NodeUpdates
<1> SUFFICES ASSUME NEW r \in NodeType
             PROVE  NodeUpdates!(r)
  BY DEF NodeUpdates
<1>1. \A b \in BlkIds : Sealing(b) \in MineType
  BY DEF Sealing, MineType, BlkIds
<1> QED
  BY <1>1, NodeFields, SetFlag, SetBlkSeq, SetBlkSet, SetStage, SetView, SetPrim, SetMsghash,
     SetCompleted, SetCfmcnt, SetReplies, SetWork, SetMine, AddNewFutureType

\* ... hence in the next one.
LEMMA NodeUpdatesNext == NodeUpdates'
  BY NodeUpdatesHold, PTL

-----------------------------------------------------------------------------
(* Steps.                                                                  *)

\* A step of node i that leaves the histories alone.
LEMMA NodeStep ==
    ASSUME TypeOK, NEW i \in Sealer, NEW q \in NodeType,
           node' = [node EXCEPT ![i] = q], net' \in SUBSET MsgType,
           UNCHANGED <<blk, stg, clock, crashes>>
    PROVE  TypeOK'
<1>1. node' \in [Sealer -> NodeType]
  BY DEF TypeOK
<1>2. NodeType' = NodeType /\ MsgType' = MsgType /\ HistoryOK'
  BY SameTypes DEF TypeOK
<1>3. clock' = clock /\ crashes' = crashes /\ Sealer' = Sealer
  BY DEF Sealer
<1> QED BY <1>1, <1>2, <1>3 DEF TypeOK

\* A step of node i that extends a history.
LEMMA GrowStep ==
    ASSUME TypeOK, NEW i \in Sealer, NEW q \in NodeType',
           HistoryOK', Len(blk) <= Len(blk'), Len(stg) <= Len(stg'),
           node' = [node EXCEPT ![i] = q], net' \in SUBSET MsgType',
           UNCHANGED <<clock, crashes>>
    PROVE  TypeOK'
<1>1. NodeType \subseteq NodeType'
  BY TypesGrow DEF TypeOK
<1>2. node \in [Sealer -> NodeType']
  BY <1>1 DEF TypeOK
<1>3. node' \in [Sealer -> NodeType']
  BY <1>2
<1>4. clock' = clock /\ crashes' = crashes /\ Sealer' = Sealer
  BY DEF Sealer
<1> QED BY <1>3, <1>4 DEF TypeOK

\* What TypeOK says of one node and of the network.
LEMMA NodeTyped ==
    ASSUME TypeOK, NEW i \in Sealer
    PROVE  HistoryOK /\ node[i] \in NodeType /\ net \in SUBSET MsgType
  BY DEF TypeOK

\* GetCurrentViewID is a natural number.
LEMMA ViewNat ==
    ASSUME TypeOK, NEW i \in Sealer
    PROVE  GetCurrentViewID(i) \in Nat
<1> DEFINE h == GetCurrentBlock(node[i])
<1>1. h \in EntryType
  BY NodeTyped, HeadType
<1> HIDE DEF h
<1>2. h.s1 \in StgIds /\ h.blk \in BlkIds
  BY <1>1 DEF EntryType
<1>3. stg[h.s1].view \in Nat /\ blk[h.blk].slot \in Nat
  BY <1>2, StageFields, BlockFields, NodeTyped
<1>4. clock[i] \in Nat
  BY DEF TypeOK
<1> QED BY <1>3, <1>4 DEF GetCurrentViewID, h

-----------------------------------------------------------------------------
(* The sealing goroutine keeps the types.                                  *)

\* A goroutine that reports unhandled futures.
LEMMA MineFutureStep ==
    ASSUME TypeOK, NEW i \in Sealer, MineFuture(i)
    PROVE  TypeOK'
<1> DEFINE f == Finish(node[i], 0, "retry", <<>>)
<1>1. f \in NodeType
  BY NodeTyped, FinishType, MaybeBlkType
<1> HIDE DEF f
<1>2. [f EXCEPT !.work = 0] \in NodeType
  BY <1>1, NodeTyped, MaybeBlkType, SetWork
<1> QED BY <1>2, NodeTyped, NodeStep DEF MineFuture, f

\* A proposal adds its block to the history before any list names it.
LEMMA ProposeStep ==
    ASSUME TypeOK, NEW i \in Sealer, NEW c \in 0..Len(stg), NEW failed \in BOOLEAN,
           node[i].work # 0, Propose(i, c, failed)
    PROVE  TypeOK'
<1> DEFINE b    == Len(blk) + 1
           p    == node[i].work
           view == GetCurrentViewID(i)
           new  == [num |-> Num(p) + 1, parent |-> p, sealer |-> i, slot |-> clock[i],
                    view |-> view, comp |-> c]
           r0   == CreateStateForNewConsensus(node[i], i, view)
           r1   == [r0 EXCEPT !.blocks = Append(@, b), !.busy = TRUE, !.work = 0,
                              !.mine = Sealing(b)]
           r2   == [r1 EXCEPT !.signed = Append(@, b), !.prim = i, !.stage = PRECFM,
                              !.view = view, !.msgHash = <<PRE, b>>, !.replies = {i}]
           r3   == [r1 EXCEPT !.stage = IDLE]
<1>1. HistoryOK /\ node[i] \in NodeType /\ net \in SUBSET MsgType /\ clock[i] \in Nat
  BY NodeTyped DEF TypeOK
<1>2. Len(blk) \in Nat /\ Len(stg) \in Nat
  BY <1>1, LengthsNat
<1>3. p \in BlkIds /\ Num(p) \in Nat
  BY <1>1, NodeFields, MaybeBlkType, BlockFields DEF Num
<1>4. view \in Nat
  BY ViewNat
<1> HIDE DEF p, view
<1>5. r0 \in NodeType
  BY <1>1, <1>4, CreateStateType
<1> HIDE DEF r0
<1>6. blk' = Append(blk, new) /\ stg' = stg /\ Len(blk') = b /\ UNCHANGED <<clock, crashes>>
  BY <1>1 DEF Propose, r0, p, view, HistoryOK
<1>7. HistoryOK'
  <2>1. BlockType \subseteq BlockType' /\ StageType \subseteq StageType'
    <3>1. /\ 0..Len(blk) \subseteq 0..Len(blk)' /\ BlkIds \subseteq BlkIds'
          /\ Len(stg)' = Len(stg) /\ Sealer' = Sealer
      BY <1>2, <1>6 DEF BlkIds, Sealer
    <3> QED BY <3>1 DEF BlockType, StageType, PRE, CONF
  <2>2. new \in BlockType'
    <3>1. p \in 0..Len(blk)' /\ Num(p) + 1 \in Nat /\ c \in 0..Len(stg)' /\ i \in Sealer'
      BY <1>2, <1>3, <1>6 DEF BlkIds, Sealer
    <3> QED BY <1>1, <1>4, <3>1 DEF BlockType
  <2> HIDE DEF new
  <2>3. blk \in Seq(BlockType') /\ stg \in Seq(StageType')
    BY <1>1, <2>1, SubsetSeq DEF HistoryOK
  <2> QED BY <1>6, <2>2, <2>3 DEF HistoryOK
<1>8. NodeType \subseteq NodeType' /\ MsgType \subseteq MsgType'
  BY <1>1, <1>2, <1>6, <1>7, TypesGrow
<1>9. /\ b \in BlkIds' /\ 0 \in MaybeBlk' /\ i \in 0..N /\ {i} \in SUBSET Sealer
      /\ <<PRE, b>> \in HashType' /\ Sealer' = Sealer
  <2>1. b \in BlkIds'
    BY <1>2, <1>6 DEF BlkIds
  <2>2. 0 \in MaybeBlk'
    BY <1>2, <1>6 DEF MaybeBlk
  <2>3. i \in 0..N
    BY NAssumption DEF Sealer
  <2>4. <<PRE, b>> \in HashType'
    BY <2>1 DEF HashType
  <2> QED BY <2>1, <2>2, <2>3, <2>4 DEF Sealer
<1>10. \A r \in NodeType' : [r EXCEPT !.mine = Sealing(b)] \in NodeType'
  BY <1>9, NodeUpdatesNext DEF NodeUpdates
<1>11. /\ TRUE \in Flag' /\ IDLE \in Phase' /\ PRECFM \in Phase' /\ Sealer' = Sealer
  BY DEF Flag, Phase, Sealer
<1>12. \A s \in BlkSeq' : Append(s, b) \in BlkSeq'
  BY <1>9 DEF BlkSeq
<1> HIDE DEF b
<1>13. r1 \in NodeType'
  <2>1. r0 \in NodeType'
    BY <1>5, <1>8
  <2>2. [r0 EXCEPT !.blocks = Append(@, b)] \in NodeType'
    BY <1>12, <2>1, NodeUpdatesNext DEF NodeUpdates
  <2>3. [r0 EXCEPT !.blocks = Append(@, b), !.busy = TRUE, !.work = 0] \in NodeType'
    BY <1>9, <1>11, <2>2, NodeUpdatesNext DEF NodeUpdates
  <2> QED BY <1>10, <2>3
<1> HIDE DEF r1
<1>14. r2 \in NodeType'
  <2>1. [r1 EXCEPT !.signed = Append(@, b)] \in NodeType'
    BY <1>12, <1>13, NodeUpdatesNext DEF NodeUpdates
  <2>2. [r1 EXCEPT !.signed = Append(@, b), !.prim = i, !.stage = PRECFM] \in NodeType'
    BY <1>9, <1>11, <2>1, NodeUpdatesNext DEF NodeUpdates
  <2>3. [r1 EXCEPT !.signed = Append(@, b), !.prim = i, !.stage = PRECFM,
                   !.view = view, !.msgHash = <<PRE, b>>] \in NodeType'
    BY <1>4, <1>9, <2>2, NodeUpdatesNext DEF NodeUpdates
  <2> QED BY <1>9, <1>11, <2>3, NodeUpdatesNext DEF NodeUpdates
<1>15. r3 \in NodeType'
  BY <1>11, <1>13, NodeUpdatesNext DEF NodeUpdates
<1> HIDE DEF r2, r3
<1>16. net' \in SUBSET MsgType'
  <2>1. {PreMsg(j, b) : j \in Sealer \ {i}} \in SUBSET MsgType'
    BY <1>9 DEF PreMsg, MsgType
  <2>2. net' \in {net, net \cup {PreMsg(j, b) : j \in Sealer \ {i}}}
    BY DEF Propose, b
  <2> QED BY <1>1, <1>8, <2>1, <2>2
<1>17. node' = [node EXCEPT ![i] = IF failed THEN r3 ELSE r2]
  BY DEF Propose, r0, r1, r2, r3, b, p, view
<1>18. Len(blk) <= Len(blk') /\ Len(stg) <= Len(stg')
  BY <1>2, <1>6 DEF b
<1> QED BY <1>6, <1>7, <1>14, <1>15, <1>16, <1>17, <1>18, GrowStep

\* StartConsensus proposes with one of its own completed stages or none.
LEMMA RequestStep ==
    ASSUME TypeOK, NEW i \in Sealer, Request(i)
    PROVE  TypeOK'
<1>1. node[i].work # 0
  BY DEF Request, Waiting
<1>2. StartStages(node[i], node[i].work) \subseteq 0..Len(stg)
  <2>1. StartStages(node[i], node[i].work) \subseteq node[i].completed
    BY DEF StartStages, DirectStages, CandidateStages
  <2>2. node[i].completed \subseteq StgIds
    BY NodeTyped, NodeFields DEF StgSet
  <2>3. StgIds \subseteq 0..Len(stg)
    BY NodeTyped, LengthsNat DEF StgIds
  <2> QED BY <2>1, <2>2, <2>3
<1>3. 0 \in 0..Len(stg)
  BY NodeTyped, LengthsNat
<1>4. \/ Propose(i, 0, FALSE) \/ Propose(i, 0, TRUE)
      \/ \E c \in StartStages(node[i], node[i].work) : Propose(i, c, FALSE)
  BY DEF Request
<1> QED BY <1>1, <1>2, <1>3, <1>4, ProposeStep

\* A seal that times out leaves a result for one of the three stages.
LEMMA SealTimeoutStep ==
    ASSUME TypeOK, NEW i \in Sealer, SealTimeout(i)
    PROVE  TypeOK'
<1> DEFINE r == node[i]
           b == r.mine.blk
           code == CASE r.stage = PRECFM  -> "retry"
                     [] r.stage = IDLE    -> "request"
                     [] r.stage = CONFIRM -> "confirm"
           f == Finish(r, b, code, <<>>)
           q == [f EXCEPT !.sealT = @ \ {b}, !.sealF = @ \cup {b}, !.replies = {},
                          !.late = GetCurrentSealer(i) = i]
<1>1. r \in NodeType /\ HistoryOK /\ net \in SUBSET MsgType
  BY NodeTyped
<1>2. b \in MaybeBlk /\ b # 0 /\ b \in BlkIds
  <2>1. r.mine \in MineType /\ r.mine.phase = "seal"
    BY <1>1, NodeFields DEF SealTimeout
  <2>2. b \in MaybeBlk /\ b # 0
    BY <2>1 DEF MineType, MaybeBlk
  <2> QED BY <1>1, <2>2, MaybeBlkType
<1>3. code \in {"retry", "request", "confirm"}
  <2>1. r.stage \in {IDLE, PRECFM, CONFIRM}
    BY <1>1, NodeFields DEF Phase
  <2> QED BY <2>1 DEF IDLE, PRECFM, CONFIRM
<1> HIDE DEF b, code
<1>4. f \in NodeType
  BY <1>1, <1>2, <1>3, FinishType
<1> HIDE DEF f
<1>5. [f EXCEPT !.sealT = @ \ {b}] \in NodeType
  BY <1>4, NodeFields, SetBlkSet DEF BlkSet
<1>6. [f EXCEPT !.sealT = @ \ {b}, !.sealF = @ \cup {b}] \in NodeType
  <2>1. [f EXCEPT !.sealT = @ \ {b}].sealF \cup {b} \in BlkSet
    BY <1>2, <1>5, NodeFields DEF BlkSet
  <2> QED BY <1>5, <2>1, SetBlkSet
<1>7. q \in NodeType
  <2>1. (GetCurrentSealer(i) = i) \in Flag
    BY DEF Flag
  <2> QED BY <1>6, <2>1, SmallTypes, SetReplies, SetFlag
<1>8. node' = [node EXCEPT ![i] = q]
  BY DEF SealTimeout, f, b, code
<1> HIDE DEF q
<1> QED BY <1>1, <1>7, <1>8, NodeStep DEF SealTimeout

\* A sealed result carries two stages, otherwise it is reported as confirm.
LEMMA SealDoneStep ==
    ASSUME TypeOK, NEW i \in Sealer, SealDone(i)
    PROVE  TypeOK'
<1> DEFINE r == node[i]
           b == r.mine.blk
           pair == GetSealedBlockStages(r.completed)
           code == IF pair = <<>> THEN "confirm" ELSE "sealed"
<1>1. r \in NodeType /\ HistoryOK /\ net \in SUBSET MsgType
  BY NodeTyped
<1>2. b \in MaybeBlk /\ b # 0
  <2>1. r.mine \in MineType /\ r.mine.phase = "seal"
    BY <1>1, NodeFields DEF SealDone
  <2> QED BY <2>1 DEF MineType, MaybeBlk
<1>3. pair \in {<<>>} \cup PairType
  BY <1>1, NodeFields, SealedPairType DEF StgSet, PairType
<1>4. node' = [node EXCEPT ![i] = Finish(r, b, code, pair)]
  BY DEF SealDone
<1> HIDE DEF b, pair
<1>5. Finish(r, b, code, pair) \in NodeType
  BY <1>1, <1>2, <1>3, FinishType
<1> QED BY <1>1, <1>4, <1>5, NodeStep DEF SealDone

\* Seal hands over finished results and drops aborted ones.
LEMMA MineReturnStep ==
    ASSUME TypeOK, NEW i \in Sealer, MineReturn(i)
    PROVE  TypeOK'
<1> DEFINE r == node[i]
           s == IF r.mine.stop THEN r.recv ELSE Append(r.recv, r.mine)
           q == [r EXCEPT !.busy = FALSE, !.mine = NOMINE,
                          !.recv = IF r.mine.stop THEN @ ELSE Append(@, r.mine)]
<1>1. r \in NodeType /\ HistoryOK /\ net \in SUBSET MsgType
  BY NodeTyped
<1>2. r.mine \in MineType /\ r.mine.phase = "fin" /\ r.recv \in Results
  BY <1>1, NodeFields DEF MineReturn
<1>3. s \in Results
  <2>1. ~r.mine.stop => r.mine \in ResultType
    BY <1>2 DEF ResultType
  <2> QED BY <1>2, <2>1 DEF Results
<1>4. NOMINE \in MineType
  BY <1>1, LengthsNat DEF NOMINE, MineType
<1>5. [r EXCEPT !.busy = FALSE, !.mine = NOMINE] \in NodeType
  BY <1>1, <1>4, SmallTypes, SetFlag, SetMine
<1>6. [r EXCEPT !.busy = FALSE, !.mine = NOMINE].recv = r.recv
  BY <1>1 DEF NodeType, NodeRecord
<1>7. q \in NodeType
  BY <1>3, <1>5, <1>6, SetRecv
<1>8. node' = [node EXCEPT ![i] = q] /\ net' \in SUBSET MsgType
  BY <1>1 DEF MineReturn
<1> HIDE DEF q
<1> QED BY <1>1, <1>7, <1>8, NodeStep DEF MineReturn

\* An aborted waiting goroutine clears two flags.
LEMMA MineAbortStep ==
    ASSUME TypeOK, NEW i \in Sealer, MineAbort(i)
    PROVE  TypeOK'
<1>1. [node[i] EXCEPT !.abort = FALSE, !.busy = FALSE] \in NodeType
  BY NodeTyped, SmallTypes, SetFlag
<1> QED BY <1>1, NodeTyped, NodeStep DEF MineAbort

-----------------------------------------------------------------------------
(* The message handlers keep the types.                                    *)

\* The fields of a message of each type.
LEMMA MessageFields ==
    ASSUME NEW m \in MsgType
    PROVE  /\ m.blk \in BlkIds
           /\ m.type = "conf" => m.comp \in StgSeq
           /\ m.type = "reply" => m.from \in Sealer
  BY DEF MsgType, StgSeq

\* A pre-confirm message, and the reply to it.
LEMMA DeliverPreConfirmStep ==
    ASSUME TypeOK, NEW i \in Sealer, DeliverPreConfirm(i)
    PROVE  TypeOK'
<1>1. PICK m \in net :
        LET c == HandlePreConfirm(node[i], m.blk, GetCurrentViewID(i))
        IN  /\ node' = [node EXCEPT ![i] = c.n]
            /\ net' = (net \ {m}) \cup (IF c.ok THEN {ReplyMsg(i, m.blk, PRE)} ELSE {})
            /\ UNCHANGED <<blk, stg, clock, crashes>>
  BY DEF DeliverPreConfirm
<1>2. m.blk \in BlkIds /\ net \in SUBSET MsgType
  BY NodeTyped, MessageFields
<1>3. ReplyMsg(i, m.blk, PRE) \in MsgType
  BY <1>2 DEF ReplyMsg, MsgType
<1>4. net' \in SUBSET MsgType
  BY <1>1, <1>2, <1>3
<1>5. HandlePreConfirm(node[i], m.blk, GetCurrentViewID(i)).n \in NodeType
  BY <1>2, NodeTyped, HandlePreConfirmType
<1> QED BY <1>1, <1>4, <1>5, NodeStep

\* A confirm message, and the reply to it.
LEMMA DeliverConfirmStep ==
    ASSUME TypeOK, NEW i \in Sealer, DeliverConfirm(i)
    PROVE  TypeOK'
<1>1. PICK m \in net :
        LET c == HandleConfirm(node[i], m.blk, m.comp)
        IN  /\ m.type = "conf"
            /\ node' = [node EXCEPT ![i] = c.n]
            /\ net' = (net \ {m}) \cup (IF c.ok THEN {ReplyMsg(i, m.blk, CONF)} ELSE {})
            /\ UNCHANGED <<blk, stg, clock, crashes>>
  BY DEF DeliverConfirm
<1>2. m.blk \in BlkIds /\ m.comp \in StgSeq /\ net \in SUBSET MsgType
  BY <1>1, NodeTyped, MessageFields
<1>3. ReplyMsg(i, m.blk, CONF) \in MsgType
  BY <1>2 DEF ReplyMsg, MsgType
<1>4. net' \in SUBSET MsgType
  BY <1>1, <1>2, <1>3
<1>5. HandleConfirm(node[i], m.blk, m.comp).n \in NodeType
  BY <1>2, NodeTyped, HandleConfirmType
<1> QED BY <1>1, <1>4, <1>5, NodeStep

-----------------------------------------------------------------------------
(* The primary keeps the types.                                            *)

\* An accepted reply: its sender is a sealer.
LEMMA ReplyFields ==
    ASSUME TypeOK, NEW i \in Sealer, NEW m \in net, ReplyAccepted(i, m)
    PROVE  m.from \in Sealer /\ m.blk \in BlkIds
  BY NodeTyped, MessageFields DEF ReplyAccepted

\* Counting a reply keeps the types.
LEMMA AddReplyType ==
    ASSUME NEW r \in NodeType, NEW j \in Sealer
    PROVE  /\ [r EXCEPT !.replies = @ \cup {j}] \in NodeType
           /\ [r EXCEPT !.replies = @ \cup {j}, !.cfmCnt = @ + 1] \in NodeType
<1>1. r.replies \cup {j} \in SUBSET Sealer
  BY NodeFields
<1>2. [r EXCEPT !.replies = @ \cup {j}] \in NodeType
  BY <1>1, SetReplies
<1>3. \A q \in NodeType : q.cfmCnt + 1 \in Int
  BY NodeFields
<1> QED BY <1>2, <1>3, SetCfmcnt

\* A pre-confirm reply that completes nothing.
LEMMA CollectPreReplyStep ==
    ASSUME TypeOK, NEW i \in Sealer, CollectPreReply(i)
    PROVE  TypeOK'
<1>1. PICK m \in net :
        LET r == [node[i] EXCEPT !.replies = @ \cup {m.from}]
            full == Cardinality(r.replies) = Quorum
        IN  /\ ReplyAccepted(i, m)
            /\ node' = [node EXCEPT ![i] =
                  IF full /\ Has(r.signed, m.blk) THEN [r EXCEPT !.replies = {}] ELSE r]
            /\ net' = net \ {m}
            /\ UNCHANGED <<blk, stg, clock, crashes>>
  BY DEF CollectPreReply
<1> DEFINE r == [node[i] EXCEPT !.replies = @ \cup {m.from}]
<1>2. r \in NodeType
  BY <1>1, NodeTyped, ReplyFields, AddReplyType
<1>3. [r EXCEPT !.replies = {}] \in NodeType
  BY <1>2, SmallTypes, SetReplies
<1>4. net' \in SUBSET MsgType
  BY <1>1, NodeTyped
<1>5. PICK q \in {r, [r EXCEPT !.replies = {}]} : node' = [node EXCEPT ![i] = q]
  BY <1>1
<1> HIDE DEF r
<1> QED BY <1>1, <1>2, <1>3, <1>4, <1>5, NodeStep

\* A confirm reply that completes nothing.
LEMMA CollectConfirmReplyStep ==
    ASSUME TypeOK, NEW i \in Sealer, CollectConfirmReply(i)
    PROVE  TypeOK'
<1>1. PICK m \in net :
        LET r == [node[i] EXCEPT !.replies = @ \cup {m.from}, !.cfmCnt = @ + 1]
        IN  /\ ReplyAccepted(i, m)
            /\ \E q \in {r, [r EXCEPT !.cfmCnt = 0], [r EXCEPT !.cfmCnt = @ - 1]} :
                  node' = [node EXCEPT ![i] = q]
            /\ net' = net \ {m}
            /\ UNCHANGED <<blk, stg, clock, crashes>>
  BY DEF CollectConfirmReply
<1> DEFINE r == [node[i] EXCEPT !.replies = @ \cup {m.from}, !.cfmCnt = @ + 1]
<1>2. r \in NodeType
  BY <1>1, NodeTyped, ReplyFields, AddReplyType
<1>3. PICK q \in {r, [r EXCEPT !.cfmCnt = 0], [r EXCEPT !.cfmCnt = @ - 1]} :
         node' = [node EXCEPT ![i] = q]
  BY <1>1
<1> HIDE DEF r
<1>4. [r EXCEPT !.cfmCnt = 0] \in NodeType /\ [r EXCEPT !.cfmCnt = @ - 1] \in NodeType
  <2>1. r.cfmCnt - 1 \in Int
    BY <1>2, NodeFields
  <2> QED BY <1>2, <2>1, SmallTypes, SetCfmcnt
<1>5. net' \in SUBSET MsgType
  BY <1>1, NodeTyped
<1> QED BY <1>1, <1>2, <1>3, <1>4, <1>5, NodeStep

\* A new stage joins the history.
LEMMA StageAppended ==
    ASSUME HistoryOK, NEW new \in StageType, stg' = Append(stg, new), blk' = blk
    PROVE  /\ HistoryOK' /\ Len(blk) <= Len(blk') /\ Len(stg) <= Len(stg')
           /\ NodeType \subseteq NodeType' /\ MsgType \subseteq MsgType'
           /\ Len(stg) + 1 \in StgIds' /\ StgIds \subseteq StgIds' /\ BlkIds' = BlkIds
<1>1. Len(blk) \in Nat /\ Len(stg) \in Nat /\ Len(stg') = Len(stg) + 1 /\ Len(blk') = Len(blk)
  BY LengthsNat DEF HistoryOK
<1>2. /\ 0..Len(stg) \subseteq 0..Len(stg)' /\ BlkIds' = BlkIds /\ Sealer' = Sealer
      /\ 0..Len(blk)' = 0..Len(blk)
  BY <1>1 DEF BlkIds, Sealer
<1>3. BlockType \subseteq BlockType' /\ StageType \subseteq StageType'
  BY <1>2 DEF BlockType, StageType, PRE, CONF
<1>4. blk \in Seq(BlockType') /\ stg \in Seq(StageType') /\ new \in StageType'
  BY <1>3, SubsetSeq DEF HistoryOK
<1>5. HistoryOK'
  BY <1>4 DEF HistoryOK
<1>6. Len(blk) <= Len(blk') /\ Len(stg) <= Len(stg')
  BY <1>1
<1>7. Len(stg) + 1 \in StgIds' /\ StgIds \subseteq StgIds'
  BY <1>1 DEF StgIds
<1> QED BY <1>2, <1>5, <1>6, <1>7, TypesGrow

\* A completed pre-confirm stage is in the history before it is sent.
LEMMA PreConfirmQuorumStep ==
    ASSUME TypeOK, NEW i \in Sealer, PreConfirmQuorum(i)
    PROVE  TypeOK'
<1> DEFINE s == Len(stg) + 1
           R(m) == [node[i] EXCEPT !.replies = @ \cup {m.from}]
           New(m) == [type |-> PRE, blk |-> m.blk, view |-> R(m).view, signs |-> R(m).replies,
                      parent |-> GetNewestCompletedStage(R(m).completed, GetCurrentBlock(R(m)))]
           Q(m) == [AddNewFutureBlockAndSetCompleted(R(m), {s}) EXCEPT
                       !.stage = CONFIRM, !.msgHash = <<CONF, m.blk>>,
                       !.replies = {i}, !.cfmCnt = @ + 1]
<1>1. PICK m \in net :
        /\ ReplyAccepted(i, m)
        /\ Has(R(m).signed, m.blk)
        /\ stg' = Append(stg, New(m))
        /\ node' = [node EXCEPT ![i] = Q(m)]
        /\ \E order \in SetToSeqs(R(m).completed) :
              net' = (net \ Replies(m.blk, {PRE})) \cup
                     {ConfMsg(j, m.blk, Append(order, s)) : j \in Sealer \ {i}}
        /\ UNCHANGED <<blk, clock, crashes>>
  BY DEF PreConfirmQuorum
<1> DEFINE r == R(m)
<1>2. m.from \in Sealer /\ m.blk \in BlkIds
  BY <1>1, ReplyFields
<1>3. HistoryOK /\ r \in NodeType /\ net \in SUBSET MsgType
  BY <1>2, NodeTyped, AddReplyType
<1> HIDE DEF R
<1>4. r.view \in Nat /\ r.replies \in SUBSET Sealer /\ r.completed \in SUBSET StgIds
      /\ r.signed \in Seq(BlkIds)
  BY <1>3, NodeFields DEF StgSet, BlkSeq
<1>5. New(m) \in StageType
  <2>1. GetCurrentBlock(r).s1 \in 0..Len(stg)
    BY <1>3, HeadType, LengthsNat DEF EntryType, StgIds
  <2>2. GetNewestStateCompletedStage(r.completed) \in 0..Len(stg)
    BY <1>3, <1>4, NewestStageType
  <2>3. GetNewestCompletedStage(r.completed, GetCurrentBlock(r)) \in 0..Len(stg)
    BY <2>1, <2>2 DEF GetNewestCompletedStage
  <2> QED BY <1>2, <1>4, <2>3 DEF StageType
<1> HIDE DEF New
<1>6. /\ HistoryOK' /\ Len(blk) <= Len(blk') /\ Len(stg) <= Len(stg')
      /\ NodeType \subseteq NodeType' /\ MsgType \subseteq MsgType'
      /\ s \in StgIds' /\ StgIds \subseteq StgIds' /\ BlkIds' = BlkIds
  BY <1>1, <1>3, <1>5, StageAppended
<1> HIDE DEF s
<1>7. Q(m) \in NodeType'
  <2> DEFINE a == AddNewFutureBlockAndSetCompleted(r, {s})
  <2>1. r.signed # <<>>
    BY <1>1 DEF Has
  <2>2. a \in NodeType'
    <3>1. {s} \in StgSet' /\ r \in NodeType'
      BY <1>3, <1>6 DEF StgSet
    <3> QED BY <2>1, <3>1, NodeUpdatesNext DEF NodeUpdates
  <2>3. /\ CONFIRM \in Phase' /\ <<CONF, m.blk>> \in HashType' /\ {i} \in SUBSET Sealer'
    BY <1>2, <1>6 DEF Phase, HashType, Sealer
  <2> HIDE DEF a
  <2>4. [a EXCEPT !.stage = CONFIRM, !.msgHash = <<CONF, m.blk>>, !.replies = {i}] \in NodeType'
    BY <2>2, <2>3, NodeUpdatesNext DEF NodeUpdates
  <2>5. a.cfmCnt + 1 \in Int
    <3>1. a.cfmCnt \in Int
      BY <2>2, NodeUpdatesNext DEF NodeUpdates
    <3> QED BY <3>1
  <2>6. [a EXCEPT !.stage = CONFIRM, !.msgHash = <<CONF, m.blk>>, !.replies = {i},
                  !.cfmCnt = @ + 1] \in NodeType'
    BY <2>4, <2>5, NodeUpdatesNext DEF NodeUpdates
  <2> QED BY <2>6 DEF a
<1>8. net' \in SUBSET MsgType'
  <2>1. PICK order \in SetToSeqs(r.completed) :
          net' = (net \ Replies(m.blk, {PRE})) \cup
                 {ConfMsg(j, m.blk, Append(order, s)) : j \in Sealer \ {i}}
    BY <1>1
  <2>2. order \in Seq(StgIds')
    <3>1. Cardinality(r.completed) \in Nat
      BY <1>3, <1>4, StagesFinite
    <3>2. order \in [1..Cardinality(r.completed) -> StgIds]
      BY <1>4 DEF SetToSeqs
    <3> QED BY <1>6, <3>1, <3>2
  <2>3. \A j \in Sealer : ConfMsg(j, m.blk, Append(order, s)) \in MsgType'
    <3>1. Append(order, s) \in Seq(StgIds')
      BY <1>6, <2>2
    <3>2. m.blk \in BlkIds' /\ Sealer' = Sealer
      BY <1>2, <1>6 DEF Sealer
    <3> QED BY <3>1, <3>2 DEF ConfMsg, MsgType
  <2> QED BY <1>3, <1>6, <2>1, <2>3
<1> HIDE DEF Q
<1> QED BY <1>1, <1>6, <1>7, <1>8, GrowStep

\* A completed confirm stage is about a block the primary signed.
LEMMA ConfirmQuorumStep ==
    ASSUME TypeOK, NEW i \in Sealer, ConfirmQuorum(i)
    PROVE  TypeOK'
<1> DEFINE s == Len(stg) + 1
           R(m) == [node[i] EXCEPT !.replies = @ \cup {m.from}, !.cfmCnt = @ + 1]
           B(m) == Newest(R(m).signed)
           New(m) == [type |-> CONF, blk |-> B(m), view |-> R(m).view, signs |-> R(m).replies,
                      parent |-> GetNewestStateCompletedStage(R(m).completed)]
           Q(m) == [Reset(R(m), Num(B(m)) - 1, FALSE) EXCEPT
                       !.completed = @ \cup {s}, !.sealT = @ \cup {B(m)},
                       !.sealF = @ \ {B(m)}, !.replies = {}]
<1>1. PICK m \in net :
        /\ ReplyAccepted(i, m)
        /\ R(m).signed # <<>>
        /\ stg' = Append(stg, New(m))
        /\ node' = [node EXCEPT ![i] = Q(m)]
        /\ net' = net \ Replies(m.blk, {CONF})
        /\ UNCHANGED <<blk, clock, crashes>>
  BY DEF ConfirmQuorum
<1> DEFINE r == R(m)
           b == B(m)
<1>2. HistoryOK /\ r \in NodeType /\ net \in SUBSET MsgType
  BY <1>1, ReplyFields, NodeTyped, AddReplyType
<1> HIDE DEF R
<1>3. r.view \in Nat /\ r.replies \in SUBSET Sealer /\ r.completed \in SUBSET StgIds
      /\ r.signed \in Seq(BlkIds)
  BY <1>2, NodeFields DEF StgSet, BlkSeq
<1>4. b \in BlkIds
  BY <1>1, <1>3, EndsType
<1> HIDE DEF B
<1>5. New(m) \in StageType
  <2>1. GetNewestStateCompletedStage(r.completed) \in 0..Len(stg)
    BY <1>2, <1>3, NewestStageType
  <2> QED BY <1>3, <1>4, <2>1 DEF StageType
<1> HIDE DEF New
<1>6. /\ HistoryOK' /\ Len(blk) <= Len(blk') /\ Len(stg) <= Len(stg')
      /\ NodeType \subseteq NodeType' /\ MsgType \subseteq MsgType'
      /\ s \in StgIds' /\ StgIds \subseteq StgIds' /\ BlkIds' = BlkIds
  BY <1>1, <1>2, <1>5, StageAppended
<1> HIDE DEF s
<1>7. Q(m) \in NodeType'
  <2> DEFINE a == Reset(r, Num(b) - 1, FALSE)
             d == [a EXCEPT !.completed = @ \cup {s}]
             e == [d EXCEPT !.sealT = @ \cup {b}]
             f == [e EXCEPT !.sealF = @ \ {b}]
  <2>1. a \in NodeType'
    BY <1>2, <1>6, ResetType
  <2> HIDE DEF a
  <2>2. d \in NodeType'
    <3>1. a.completed \cup {s} \in StgSet'
      BY <1>6, <2>1 DEF NodeType, NodeRecord, StgSet
    <3> QED BY <2>1, <3>1, NodeUpdatesNext DEF NodeUpdates
  <2> HIDE DEF d
  <2>3. e \in NodeType'
    <3>1. d.sealT \cup {b} \in BlkSet'
      BY <1>4, <1>6, <2>2 DEF NodeType, NodeRecord, BlkSet
    <3> QED BY <2>2, <3>1, NodeUpdatesNext DEF NodeUpdates
  <2> HIDE DEF e
  <2>4. f \in NodeType'
    <3>1. e.sealF \ {b} \in BlkSet'
      BY <2>3 DEF NodeType, NodeRecord, BlkSet
    <3> QED BY <2>3, <3>1, NodeUpdatesNext DEF NodeUpdates
  <2> HIDE DEF f
  <2>5. [f EXCEPT !.replies = {}] \in NodeType'
    <3>1. {} \in SUBSET Sealer'
      OBVIOUS
    <3> QED BY <2>4, <3>1, NodeUpdatesNext DEF NodeUpdates
  <2> QED BY <2>5 DEF f, e, d, a
<1>8. net' \in SUBSET MsgType'
  BY <1>1, <1>2, <1>6
<1> HIDE DEF Q
<1> QED BY <1>1, <1>6, <1>7, <1>8, GrowStep

-----------------------------------------------------------------------------
(* The worker, the chain and the environment keep the types.               *)

\* The four branches of Worker.wait.
LEMMA WaitStep ==
    ASSUME TypeOK, NEW i \in Sealer,
           \/ WaitRequestFailed(i) \/ WaitRetryFutures(i)
           \/ WaitConfirmTimedOut(i) \/ WaitBlockSealed(i)
    PROVE  TypeOK'
<1> DEFINE m == Head(node[i].recv)
           r == [node[i] EXCEPT !.recv = Tail(@)]
<1>1. /\ node[i].recv # <<>>
      /\ UNCHANGED <<blk, stg, clock, net, crashes>>
      /\ \/ node' = [node EXCEPT ![i] = WaitRequest(r, m)]
         \/ node' = [node EXCEPT ![i] = WaitRetry(r, m)]
         \/ m.code = "confirm" /\ node' = [node EXCEPT ![i] = WaitConfirm(r, m)]
         \/ m.code = "sealed" /\ node' = [node EXCEPT ![i] = WaitSealed(r, m)]
  BY DEF WaitRequestFailed, WaitRetryFutures, WaitConfirmTimedOut, WaitBlockSealed,
         WaitBranch
<1>2. HistoryOK /\ node[i] \in NodeType /\ net \in SUBSET MsgType
  BY NodeTyped
<1>3. m \in ResultType /\ Tail(node[i].recv) \in Results
  <2>1. node[i].recv \in Seq(ResultType)
    BY <1>2, NodeFields DEF Results
  <2> QED BY <1>1, <2>1 DEF Results
<1>4. r \in NodeType
  BY <1>2, <1>3, SetRecv
<1> HIDE DEF m, r
<1>5. WaitRequest(r, m) \in NodeType
  BY <1>4, SleepType DEF WaitRequest
<1>6. WaitRetry(r, m) \in NodeType
  BY <1>2, <1>3, <1>4, WaitRetryType
<1>7. m.code = "confirm" => WaitConfirm(r, m) \in NodeType
  BY <1>2, <1>3, <1>4, WaitConfirmType
<1>8. m.code = "sealed" => WaitSealed(r, m) \in NodeType
  BY <1>2, <1>3, <1>4, WaitSealedType
<1>9. net' \in SUBSET MsgType
  BY <1>1, <1>2
<1>10. PICK q \in NodeType : node' = [node EXCEPT ![i] = q]
  BY <1>1, <1>5, <1>6, <1>7, <1>8
<1> QED BY <1>1, <1>9, <1>10, NodeStep

\* The worker commits new work after its sleep.
LEMMA WaitCommitStep ==
    ASSUME TypeOK, NEW i \in Sealer, WaitCommit(i)
    PROVE  TypeOK'
<1>1. [CommitNewWork(node[i]) EXCEPT !.sleep = FALSE] \in NodeType
  BY NodeTyped, CommitNewWorkType, SmallTypes, SetFlag
<1> QED BY <1>1, NodeTyped, NodeStep DEF WaitCommit

\* A block imported from a peer.
LEMMA ImportStep ==
    ASSUME TypeOK, NEW i \in Sealer, Import(i)
    PROVE  TypeOK'
<1> DEFINE E(j, k) == node[j].chain[k]
           F(j, k) == [E(j, k) EXCEPT !.work = E(j, k).blk]
<1> SUFFICES ASSUME NEW j \in Sealer, NEW k \in DOMAIN node[j].chain,
                    InChain(node[i], blk[E(j, k).blk].parent),
                    node' = [node EXCEPT ![i] = ClearOutDatedBFTFutureBlock(
                       WriteBlockWithState(node[i], F(j, k)), Num(E(j, k).blk))],
                    UNCHANGED <<blk, stg, clock, net, crashes>>
             PROVE  TypeOK'
  BY DEF Import
<1> DEFINE e == E(j, k)
           f == F(j, k)
<1>1. e \in EntryType
  BY NodeTyped, HeadType
<1>2. f \in EntryType /\ f.blk = e.blk
  <2> HIDE DEF E
  <2> QED BY <1>1 DEF EntryType
<1> HIDE DEF E, F
<1>3. WriteBlockWithState(node[i], f) \in NodeType
  BY <1>2, NodeTyped, WriteBlockType
<1>4. ClearOutDatedBFTFutureBlock(WriteBlockWithState(node[i], f), Num(e.blk)) \in NodeType
  BY <1>3, ClearOutDatedType
<1> QED BY <1>4, NodeTyped, NodeStep

\* The stages of a known block exchanged for those of a peer.
LEMMA ReplaceStagesStep ==
    ASSUME TypeOK, NEW i \in Sealer, ReplaceStages(i)
    PROVE  TypeOK'
<1> SUFFICES ASSUME NEW j \in Sealer, NEW k \in DOMAIN node[j].chain,
                    InChain(node[i], node[j].chain[k].blk),
                    node' = [node EXCEPT ![i] =
                       ReplaceBlockWithoutState(node[i], node[j].chain[k].blk,
                          <<node[j].chain[k].s0, node[j].chain[k].s1>>)],
                    UNCHANGED <<blk, stg, clock, net, crashes>>
             PROVE  TypeOK'
  BY DEF ReplaceStages
<1> DEFINE e == node[j].chain[k]
<1>2. e \in EntryType
  BY NodeTyped, HeadType
<1>3. e.blk \in BlkIds /\ <<e.s0, e.s1>> \in PairType
  BY <1>2 DEF EntryType, PairType
<1>4. ReplaceBlockWithoutState(node[i], e.blk, <<e.s0, e.s1>>) \in NodeType
  BY <1>3, NodeTyped, ReplaceBlockType
<1> QED BY <1>4, NodeTyped, NodeStep

\* The node's loop handles a chain head event.
LEMMA NodeHeadEventStep ==
    ASSUME TypeOK, NEW i \in Sealer, NodeHeadEvent(i)
    PROVE  TypeOK'
<1> DEFINE r == node[i]
           num == Num(r.chain[r.evHead + 1].blk)
<1>1. PICK r1 \in {r, Reset(r, num, TRUE), ClearConnected(r, num)} :
        /\ node' = [node EXCEPT ![i] = [r1 EXCEPT !.evHead = @ + 1]]
        /\ UNCHANGED <<blk, stg, clock, net, crashes>>
  BY DEF NodeHeadEvent
<1>2. r1 \in NodeType
  BY <1>1, NodeTyped, ResetType, ClearConnectedType
<1>3. r1.evHead + 1 \in Position
  BY <1>2, NodeFields DEF Position
<1>4. [r1 EXCEPT !.evHead = @ + 1] \in NodeType
  BY <1>2, <1>3, SetPosition
<1> QED BY <1>1, <1>4, NodeTyped, NodeStep

\* The worker's loop handles a chain head event.
LEMMA WorkerHeadEventStep ==
    ASSUME TypeOK, NEW i \in Sealer, WorkerHeadEvent(i)
    PROVE  TypeOK'
<1>1. node[i].wEv + 1 \in Position
  BY NodeTyped, NodeFields DEF Position
<1>2. [node[i] EXCEPT !.wEv = @ + 1] \in NodeType
  BY <1>1, NodeTyped, SetPosition
<1>3. CommitNewWork([node[i] EXCEPT !.wEv = @ + 1]) \in NodeType
  BY <1>2, NodeTyped, CommitNewWorkType
<1> QED BY <1>3, NodeTyped, NodeStep DEF WorkerHeadEvent

\* A clock tick.
LEMMA TickStep ==
    ASSUME TypeOK, NEW i \in Sealer, Tick(i)
    PROVE  TypeOK'
<1>1. [node[i] EXCEPT !.late = FALSE] \in NodeType
  BY NodeTyped, SmallTypes, SetFlag
<1>2. node' = [node EXCEPT ![i] = [node[i] EXCEPT !.late = FALSE]]
  BY DEF Tick
<1>3. node' \in [Sealer -> NodeType]
  BY <1>1, <1>2 DEF TypeOK
<1>4. clock' \in [Sealer -> Nat]
  BY DEF Tick, TypeOK
<1>5. UNCHANGED <<blk, stg, net, crashes>>
  BY DEF Tick
<1>6. NodeType' = NodeType /\ MsgType' = MsgType /\ HistoryOK' /\ Sealer' = Sealer
  BY <1>5, SameTypes DEF TypeOK, Sealer
<1> QED BY <1>3, <1>4, <1>5, <1>6 DEF TypeOK

\* A lost message.
LEMMA LoseStep ==
    ASSUME TypeOK, NEW i \in Sealer, NEW types, Lose(i, types)
    PROVE  TypeOK'
<1>1. UNCHANGED <<blk, stg, node, clock, crashes>> /\ net' \subseteq net
  BY DEF Lose
<1>2. NodeType' = NodeType /\ MsgType' = MsgType /\ HistoryOK' /\ Sealer' = Sealer
  BY <1>1, SameTypes DEF TypeOK, Sealer
<1> QED BY <1>1, <1>2 DEF TypeOK

\* A node that starts with a chain.
LEMMA FreshNodeType ==
    ASSUME HistoryOK, NEW chain \in ChainType
    PROVE  FreshNode(chain) \in NodeType
<1>1. chain \in Seq(EntryType) /\ chain # <<>>
  BY DEF ChainType
<1>2. Len(chain) \in Position /\ chain[Len(chain)] \in EntryType
  BY <1>1 DEF Position
<1>3. chain[Len(chain)].blk \in MaybeBlk /\ 0 \in MaybeBlk
  BY <1>2, MaybeBlkType DEF EntryType
<1>4. NOMINE \in MineType
  BY LengthsNat DEF NOMINE, MineType
<1>5. 0 \in 0..N /\ 0 \in Nat
  BY NAssumption
<1> HIDE DEF NOMINE
<1>6. FreshNode(chain) \in NodeRecord
  BY <1>2, <1>3, <1>4, <1>5, SmallTypes DEF FreshNode, NodeRecord
<1>7. FreshNode(chain).wFut = 0
  BY DEF FreshNode
<1> QED BY <1>6, <1>7 DEF NodeType

\* A restart, which keeps the chain only.
LEMMA CrashStep ==
    ASSUME TypeOK, NEW i \in Sealer, Crash(i)
    PROVE  TypeOK'
<1>1. FreshNode(node[i].chain) \in NodeType
  BY NodeTyped, NodeFields, FreshNodeType
<1>2. node' = [node EXCEPT ![i] = FreshNode(node[i].chain)]
  BY DEF Crash
<1>3. node' \in [Sealer -> NodeType]
  BY <1>1, <1>2 DEF TypeOK
<1>4. net' \subseteq net /\ UNCHANGED <<blk, stg, clock>>
  BY DEF Crash
<1>5. NodeType' = NodeType /\ MsgType' = MsgType /\ HistoryOK' /\ Sealer' = Sealer
  BY <1>4, SameTypes DEF TypeOK, Sealer
<1>6. crashes' \in 0..MaxCrash
  BY BoundsAssumption DEF Crash, TypeOK
<1> QED BY <1>3, <1>4, <1>5, <1>6 DEF TypeOK

-----------------------------------------------------------------------------
\* The base block and its stages are typed.
LEMMA InitTypes ==
    ASSUME Init
    PROVE  TypeOK
<1>1. blk = <<BaseBlock>> /\ stg = <<BaseStage(PRE, 0), BaseStage(CONF, 1)>>
  BY DEF Init
<1>2. /\ Len(blk) = 1 /\ Len(stg) = 2 /\ BlkIds = {1} /\ StgIds = {1, 2}
  BY <1>1 DEF BlkIds, StgIds
<1>3. N \in Sealer
  BY NAssumption DEF Sealer
<1>4. BaseBlock \in BlockType
  BY <1>2, <1>3 DEF BaseBlock, BlockType
<1>5. BaseStage(PRE, 0) \in StageType /\ BaseStage(CONF, 1) \in StageType
  BY <1>2 DEF BaseStage, StageType
<1>6. HistoryOK
  BY <1>1, <1>4, <1>5 DEF HistoryOK
<1> DEFINE e == Entry(1, <<1, 2>>, 1)
<1>7. e \in EntryType
  BY <1>2 DEF Entry, EntryType
<1> HIDE DEF e
<1>8. <<e>> \in ChainType
  BY <1>7 DEF ChainType
<1>9. FreshNode(<<e>>) \in NodeType
  BY <1>6, <1>8, FreshNodeType
<1>10. node \in [Sealer -> NodeType]
  BY <1>9 DEF Init, e
<1> QED BY <1>6, <1>10, BoundsAssumption DEF TypeOK, Init

\* Every step of every thread, message handler, clock tick, loss and restart
\* keeps the types.
LEMMA NextTypes ==
    ASSUME TypeOK, [Next]_vars
    PROVE  TypeOK'
<1>1. CASE UNCHANGED vars
  <2>1. UNCHANGED <<blk, stg, node, clock, net, crashes>>
    BY <1>1 DEF vars
  <2>2. NodeType' = NodeType /\ MsgType' = MsgType /\ HistoryOK' /\ Sealer' = Sealer
    BY <2>1, SameTypes DEF TypeOK, Sealer
  <2> QED BY <2>1, <2>2 DEF TypeOK
<1>2. ASSUME NEW i \in Sealer, Handler(i) PROVE TypeOK'
  BY <1>2, DeliverPreConfirmStep, DeliverConfirmStep DEF Handler
<1>3. ASSUME NEW i \in Sealer, Collector(i) PROVE TypeOK'
  BY <1>3, CollectPreReplyStep, PreConfirmQuorumStep, CollectConfirmReplyStep,
     ConfirmQuorumStep DEF Collector
<1>4. ASSUME NEW i \in Sealer, Thread(i) PROVE TypeOK'
  BY <1>4, MineReturnStep, MineAbortStep, WaitStep, WaitCommitStep, NodeHeadEventStep,
     WorkerHeadEventStep DEF Thread
<1>5. ASSUME NEW i \in Sealer, Miner(i) PROVE TypeOK'
  BY <1>5, MineFutureStep, RequestStep DEF Miner
<1>6. ASSUME NEW i \in Sealer, ChainSync(i) PROVE TypeOK'
  BY <1>6, ImportStep, ReplaceStagesStep DEF ChainSync
<1> QED
  BY <1>1, <1>2, <1>3, <1>4, <1>5, <1>6, SealDoneStep, SealTimeoutStep, TickStep,
     LoseStep, CrashStep DEF Next

\* In every behaviour of the protocol every variable keeps its type: no block,
\* stage or result is referred to before it exists, whatever is lost,
\* reordered or restarted.
THEOREM TypeCorrect == Spec => []TypeOK
<1>1. Init => TypeOK
  BY InitTypes
<1>2. TypeOK /\ [Next]_vars => TypeOK'
  BY NextTypes
<1> QED BY <1>1, <1>2, PTL DEF Spec

-----------------------------------------------------------------------------
(* Certificates.                                                           *)

\* Every completed stage carries the signatures of a quorum.
StagesSigned == \A s \in StgIds : Cardinality(stg[s].signs) >= Quorum

\* A quorum never asks for more sealers than there are.
LEMMA QuorumSize == Quorum \in Nat /\ Quorum <= N
  BY FaultBoundRange, NAssumption DEF Quorum, Get2fRealSealersCnt

\* The stages of the base block are signed by all sealers.
LEMMA InitSigned ==
    ASSUME Init
    PROVE  StagesSigned
<1>1. Cardinality(Sealer) = N
  BY FS_Interval, NAssumption DEF Sealer
<1>2. StgIds = {1, 2} /\ stg[1].signs = Sealer /\ stg[2].signs = Sealer
  BY DEF Init, StgIds, BaseStage
<1> QED BY <1>1, <1>2, QuorumSize, NAssumption DEF StagesSigned

\* AddReplyMsg makes a stage only of a full set of replies.
LEMMA NewStageSigned ==
    ASSUME HistoryOK, StagesSigned, NEW new, Cardinality(new.signs) >= Quorum,
           stg' = Append(stg, new)
    PROVE  StagesSigned'
<1>1. /\ Len(stg) \in Nat /\ Len(stg') = Len(stg) + 1
      /\ \A s \in 1..Len(stg) : stg'[s] = stg[s]
      /\ stg'[Len(stg) + 1] = new
  BY DEF HistoryOK
<1>2. ASSUME NEW s \in StgIds' PROVE Cardinality(stg'[s].signs) >= Quorum
  <2>1. s \in 1..Len(stg) \/ s = Len(stg) + 1
    BY <1>1 DEF StgIds
  <2> QED BY <1>1, <2>1 DEF StagesSigned, StgIds
<1>3. Quorum' = Quorum
  BY DEF Quorum, Get2fRealSealersCnt
<1> QED BY <1>2, <1>3 DEF StagesSigned

\* Only the two quorums of AddReplyMsg extend the stages.
LEMMA NextSigned ==
    ASSUME TypeOK, StagesSigned, [Next]_vars
    PROVE  StagesSigned'
<1>1. CASE UNCHANGED stg
  BY <1>1 DEF StagesSigned, StgIds, Quorum, Get2fRealSealersCnt
<1>2. ASSUME NEW i \in Sealer, PreConfirmQuorum(i) PROVE StagesSigned'
  <2> DEFINE R(m) == [node[i] EXCEPT !.replies = @ \cup {m.from}]
             New(m) == [type |-> PRE, blk |-> m.blk, view |-> R(m).view,
                        signs |-> R(m).replies,
                        parent |-> GetNewestCompletedStage(R(m).completed,
                                                           GetCurrentBlock(R(m)))]
  <2>1. PICK m \in net : Cardinality(R(m).replies) = Quorum /\ stg' = Append(stg, New(m))
    BY <1>2 DEF PreConfirmQuorum
  <2>2. New(m).signs = R(m).replies
    OBVIOUS
  <2> HIDE DEF R, New
  <2> QED BY <2>1, <2>2, QuorumSize, NewStageSigned DEF TypeOK
<1>3. ASSUME NEW i \in Sealer, ConfirmQuorum(i) PROVE StagesSigned'
  <2> DEFINE R(m) == [node[i] EXCEPT !.replies = @ \cup {m.from}, !.cfmCnt = @ + 1]
             New(m) == [type |-> CONF, blk |-> Newest(R(m).signed), view |-> R(m).view,
                        signs |-> R(m).replies,
                        parent |-> GetNewestStateCompletedStage(R(m).completed)]
  <2>1. PICK m \in net : /\ ReplyAccepted(i, m)
                         /\ Cardinality(R(m).replies) > Get2fRealSealersCnt
                         /\ stg' = Append(stg, New(m))
    BY <1>3 DEF ConfirmQuorum
  <2>2. New(m).signs = R(m).replies
    OBVIOUS
  <2>3. Cardinality(R(m).replies) \in Nat
    <3>1. R(m) \in NodeType
      BY <2>1, NodeTyped, ReplyFields, AddReplyType
    <3> HIDE DEF R
    <3>2. R(m).replies \in SUBSET Sealer /\ IsFiniteSet(Sealer)
      BY <3>1, NodeFields, FS_Interval, NAssumption DEF Sealer
    <3> QED BY <3>2, FS_Subset, FS_CardinalityType
  <2> HIDE DEF R, New
  <2>4. Cardinality(New(m).signs) >= Quorum
    BY <2>1, <2>2, <2>3, FaultBoundRange DEF Quorum, Get2fRealSealersCnt
  <2> QED BY <2>1, <2>4, NewStageSigned DEF TypeOK
<1>4. ASSUME NEW i \in Sealer, Handler(i) PROVE UNCHANGED stg
  BY <1>4 DEF Handler, DeliverPreConfirm, DeliverConfirm
<1>5. ASSUME NEW i \in Sealer, CollectPreReply(i) \/ CollectConfirmReply(i)
      PROVE  UNCHANGED stg
  BY <1>5 DEF CollectPreReply, CollectConfirmReply
<1>6. ASSUME NEW i \in Sealer, Thread(i) PROVE UNCHANGED stg
  BY <1>6 DEF Thread, MineReturn, MineAbort, WaitRequestFailed, WaitRetryFutures,
     WaitConfirmTimedOut, WaitBlockSealed, WaitBranch, WaitCommit, NodeHeadEvent,
     WorkerHeadEvent
<1>7. ASSUME NEW i \in Sealer, Miner(i) PROVE UNCHANGED stg
  BY <1>7 DEF Miner, MineFuture, Request, Propose
<1>8. ASSUME NEW i \in Sealer, ChainSync(i) PROVE UNCHANGED stg
  BY <1>8 DEF ChainSync, Import, ReplaceStages
<1>9. ASSUME NEW i \in Sealer,
             \/ SealDone(i) \/ SealTimeout(i) \/ Tick(i)
             \/ Lose(i, {"pre", "conf", "reply"}) \/ Crash(i)
      PROVE  UNCHANGED stg
  BY <1>9 DEF SealDone, SealTimeout, Tick, Lose, Crash
<1>10. CASE UNCHANGED vars
  BY <1>1, <1>10 DEF vars
<1> QED
  BY <1>1, <1>2, <1>3, <1>4, <1>5, <1>6, <1>7, <1>8, <1>9, <1>10 DEF Next, Collector

\* In every behaviour, for every number of sealers, two completed stages share
\* a sealer that is not among FaultBound(N) faulty ones.
THEOREM CertificatesIntersect == Spec => []QuorumsMeet
<1>1. Init => TypeOK /\ StagesSigned
  BY InitTypes, InitSigned
<1>2. TypeOK /\ StagesSigned /\ [Next]_vars => TypeOK' /\ StagesSigned'
  BY NextTypes, NextSigned
<1>3. TypeOK /\ StagesSigned => QuorumsMeet
  <2> SUFFICES ASSUME TypeOK, StagesSigned, NEW s \in StgIds, NEW t \in StgIds
               PROVE  Cardinality(stg[s].signs \cap stg[t].signs) > FaultBound(N)
    BY DEF QuorumsMeet
  <2>1. /\ stg[s].signs \in SUBSET Sealer /\ Cardinality(stg[s].signs) >= Quorum
        /\ stg[t].signs \in SUBSET Sealer /\ Cardinality(stg[t].signs) >= Quorum
    BY StageFields DEF TypeOK, StagesSigned
  <2> QED BY <2>1, QuorumIntersection
<1> QED BY <1>1, <1>2, <1>3, PTL DEF Spec

-----------------------------------------------------------------------------
(* Chains and block lists.                                                 *)

\* A block is one above its parent.
Heights == \A b \in BlkIds : blk[b].parent # 0 => Num(b) = Num(blk[b].parent) + 1

\* A chain is a path of parents, and the two stages of a block are adjacent.
ChainOK(c) ==
    \A k \in DOMAIN c :
      /\ Num(c[k].blk) = k
      /\ k > 1 => blk[c[k].blk].parent = c[k - 1].blk
      /\ stg[c[k].s1].parent = c[k].s0

\* The stages of a block reported as sealed are adjacent.
ResultOK(m) == m.code = "sealed" => stg[m.pair[2]].parent = m.pair[1]

\* What is inductive of a node: the results on their way to the chain too.
NodeOK(r) ==
    /\ ChainOK(r.chain)
    /\ r.live => r.blocks # <<>>
    /\ ResultOK(r.mine)
    /\ \A k \in DOMAIN r.recv : ResultOK(r.recv[k])

ChainInv == Heights /\ \A i \in Sealer : NodeOK(node[i])

\* Record q has the chain and the results of r.
Shape(r) == {"chain", "live", "blocks", "mine", "recv"} \subseteq DOMAIN r
Near(r, q) ==
    /\ Shape(q)
    /\ q.chain = r.chain /\ q.recv = r.recv
    /\ q.mine.code = r.mine.code /\ q.mine.pair = r.mine.pair

\* ... and its state's blocks as well.
Alike(r, q) == Near(r, q) /\ q.live = r.live /\ q.blocks = r.blocks

\* A typed record has these fields.
LEMMA NodeShape ==
    ASSUME NEW r \in NodeType
    PROVE  Shape(r) /\ Alike(r, r)
<1>1. Shape(r)
  BY DEF NodeType, NodeRecord, Shape
<1> QED BY <1>1 DEF Alike, Near

\* Assignments to other fields.
LEMMA AlikeSet ==
    ASSUME NEW r, Shape(r), NEW v
    PROVE  /\ Alike(r, [r EXCEPT !.stage = v]) /\ Alike(r, [r EXCEPT !.view = v])
           /\ Alike(r, [r EXCEPT !.prim = v]) /\ Alike(r, [r EXCEPT !.msgHash = v])
           /\ Alike(r, [r EXCEPT !.signed = v]) /\ Alike(r, [r EXCEPT !.completed = v])
           /\ Alike(r, [r EXCEPT !.cfmCnt = v]) /\ Alike(r, [r EXCEPT !.replies = v])
           /\ Alike(r, [r EXCEPT !.busy = v]) /\ Alike(r, [r EXCEPT !.sealT = v])
           /\ Alike(r, [r EXCEPT !.sealF = v]) /\ Alike(r, [r EXCEPT !.evHead = v])
           /\ Alike(r, [r EXCEPT !.futures = v]) /\ Alike(r, [r EXCEPT !.work = v])
           /\ Alike(r, [r EXCEPT !.wEv = v]) /\ Alike(r, [r EXCEPT !.abort = v])
           /\ Alike(r, [r EXCEPT !.wFut = v]) /\ Alike(r, [r EXCEPT !.wWork = v])
           /\ Alike(r, [r EXCEPT !.must = v]) /\ Alike(r, [r EXCEPT !.sleep = v])
           /\ Alike(r, [r EXCEPT !.late = v]) /\ Alike(r, [r EXCEPT !.panic = v])
  BY SMTT(30) DEF Alike, Near, Shape

\* Several assignments in a row.
LEMMA AlikeTrans ==
    ASSUME NEW r, NEW p, NEW q, Alike(r, p), Alike(p, q)
    PROVE  Alike(r, q) /\ Shape(p) /\ Shape(q)
  BY DEF Alike, Near

\* Alike records have the fields.
LEMMA AlikeShape ==
    ASSUME NEW r, NEW q, Alike(r, q)
    PROVE  Shape(q)
  BY DEF Alike, Near

\* The same for chain and results only.
LEMMA NearTrans ==
    ASSUME NEW r, NEW p, NEW q, Near(r, p), Near(p, q)
    PROVE  Near(r, q)
  BY DEF Near

\* A record with the chain and results of a good one, and a block if it has a
\* state, is good.
LEMMA NearOK ==
    ASSUME NEW r, NEW q, NodeOK(r), Near(r, q), q.live => q.blocks # <<>>
    PROVE  NodeOK(q)
  BY DEF NodeOK, Near, ResultOK

\* In particular one that has the blocks too.
LEMMA AlikeOK ==
    ASSUME NEW r, NEW q, NodeOK(r), Alike(r, q)
    PROVE  NodeOK(q)
  BY NearOK DEF Alike, NodeOK

\* WriteBlockWithState puts the block on top of its parent.
LEMMA WriteBlockOK ==
    ASSUME HistoryOK, Heights, NEW r \in NodeType, NodeOK(r), NEW e \in EntryType,
           InChain(r, blk[e.blk].parent), stg[e.s1].parent = e.s0
    PROVE  NodeOK(WriteBlockWithState(r, e)) /\ Shape(WriteBlockWithState(r, e))
<1> DEFINE k == Pos(r, blk[e.blk].parent)
           c == Append(SubSeq(r.chain, 1, k), e)
           q == [r EXCEPT !.chain = c]
<1>1. k \in DOMAIN r.chain /\ r.chain[k].blk = blk[e.blk].parent
  BY DEF Pos, InChain
<1>2. r.chain \in Seq(EntryType) /\ ChainOK(r.chain)
  BY NodeFields DEF ChainType, NodeOK
<1>3. e.blk \in BlkIds /\ r.chain[k].blk \in BlkIds
  BY <1>1, HeadType DEF EntryType
<1>4. blk[e.blk].parent # 0 /\ Num(e.blk) = Num(r.chain[k].blk) + 1
  BY <1>1, <1>3 DEF Heights, BlkIds
<1> HIDE DEF k
<1>5. /\ DOMAIN c = 1..(k + 1) /\ c[k + 1] = e
      /\ \A j \in 1..k : c[j] = r.chain[j] /\ j \in DOMAIN r.chain
      /\ k \in Nat
  BY <1>1, <1>2
<1> HIDE DEF c
<1>6. ChainOK(c)
  <2> SUFFICES ASSUME NEW j \in DOMAIN c
               PROVE  /\ Num(c[j].blk) = j
                      /\ j > 1 => blk[c[j].blk].parent = c[j - 1].blk
                      /\ stg[c[j].s1].parent = c[j].s0
    BY DEF ChainOK
  <2>1. CASE j \in 1..k
    <3>1. j > 1 => j - 1 \in 1..k
      BY <1>5, <2>1
    <3> QED BY <1>2, <1>5, <2>1, <3>1 DEF ChainOK
  <2>2. CASE j = k + 1
    <3>1. j - 1 = k /\ k \in 1..k
      BY <1>1, <1>2, <1>5, <2>2
    <3>2. c[j] = e /\ c[j - 1] = r.chain[k]
      BY <1>5, <2>2, <3>1
    <3>3. Num(r.chain[k].blk) = k
      BY <1>1, <1>2 DEF ChainOK
    <3> QED BY <1>1, <1>4, <2>2, <3>2, <3>3
  <2> QED BY <1>5, <2>1, <2>2
<1>7. /\ Shape(q) /\ q.chain = c /\ q.live = r.live /\ q.blocks = r.blocks
      /\ q.mine = r.mine /\ q.recv = r.recv
  BY NodeShape DEF Shape
<1>8. NodeOK(q)
  BY <1>6, <1>7 DEF NodeOK
<1> QED BY <1>7, <1>8 DEF WriteBlockWithState, c, k

\* ReplaceBlockWithoutState leaves the blocks of the chain alone.
LEMMA ReplaceBlockOK ==
    ASSUME NEW r \in NodeType, NodeOK(r), NEW b, InChain(r, b), NEW pair,
           stg[pair[2]].parent = pair[1]
    PROVE  NodeOK(ReplaceBlockWithoutState(r, b, pair)) /\ Shape(ReplaceBlockWithoutState(r, b, pair))
<1> DEFINE k == Pos(r, b)
           e == Entry(b, pair, r.chain[k].work)
           c == [r.chain EXCEPT ![k] = e]
           q == [r EXCEPT !.chain = c]
<1>1. k \in DOMAIN r.chain /\ r.chain[k].blk = b
  BY DEF Pos, InChain
<1>2. e.blk = b /\ e.s0 = pair[1] /\ e.s1 = pair[2]
  BY DEF Entry
<1> HIDE DEF k, e
<1>3. /\ DOMAIN c = DOMAIN r.chain /\ c[k] = e
      /\ \A j \in DOMAIN r.chain : j # k => c[j] = r.chain[j]
  BY <1>1
<1> HIDE DEF c
<1>4. \A j \in DOMAIN r.chain : c[j].blk = r.chain[j].blk
  BY <1>1, <1>2, <1>3
<1>5. \A j \in DOMAIN r.chain : j > 1 => j - 1 \in DOMAIN r.chain
  <2>1. r.chain \in Seq(EntryType)
    BY NodeFields DEF ChainType
  <2> QED BY <2>1
<1>6. ChainOK(c)
  BY <1>2, <1>3, <1>4, <1>5 DEF ChainOK, NodeOK
<1>7. /\ Shape(q) /\ q.chain = c /\ q.live = r.live /\ q.blocks = r.blocks
      /\ q.mine = r.mine /\ q.recv = r.recv
  BY NodeShape DEF Shape
<1>8. NodeOK(q)
  BY <1>6, <1>7 DEF NodeOK
<1> QED BY <1>7, <1>8, NodeShape DEF ReplaceBlockWithoutState, c, k, e

\* CommitNewWork touches neither chain nor state.
LEMMA CommitAlike ==
    ASSUME NEW r \in NodeType
    PROVE  Alike(r, CommitNewWork(r))
<1> DEFINE m == [r.mine EXCEPT !.stop = r.mine.stop \/ r.mine.phase = "seal"]
           q == [r EXCEPT !.work = IF r.futures # <<>> THEN Newest(r.futures)
                                                       ELSE GetCurrentBlock(r).blk,
                          !.mine = m]
<1>1. m.code = r.mine.code /\ m.pair = r.mine.pair
  BY NodeFields DEF MineType
<1> HIDE DEF m
<1>2. Alike(r, q)
  BY <1>1, NodeShape DEF Alike, Near, Shape
<1>3. Alike(q, [q EXCEPT !.abort = @ \/ (r.work # 0 /\ r.mine.phase # "none")])
  <2>1. Shape(q)
    BY <1>2, AlikeShape
  <2> HIDE DEF q
  <2> QED BY <2>1, AlikeSet
<1>4. CommitNewWork(r) = [q EXCEPT !.abort = @ \/ (r.work # 0 /\ r.mine.phase # "none")]
  BY NodeShape DEF CommitNewWork, m
<1> QED BY <1>2, <1>3, <1>4, AlikeTrans

\* ConnectBlock with adjacent stages.
LEMMA ConnectBlockOK ==
    ASSUME HistoryOK, Heights, NEW r \in NodeType, NodeOK(r), NEW b \in BlkIds,
           NEW pair \in PairType, stg[pair[2]].parent = pair[1],
           NEW w \in BlkIds, NEW isFuture \in BOOLEAN
    PROVE  NodeOK(ConnectBlock(r, b, pair, w, isFuture).n)
<1> DEFINE known == InChain(r, b)
           e  == Entry(b, pair, w)
           r1 == IF known THEN ReplaceBlockWithoutState(r, b, pair)
                 ELSE [WriteBlockWithState(r, e) EXCEPT !.must = FALSE]
           r2 == ClearOutDatedBFTFutureBlock(r1, Num(b))
<1>1. NodeOK([r EXCEPT !.panic = TRUE])
  BY NodeShape, AlikeSet, AlikeOK
<1>2. ASSUME known \/ InChain(r, blk[b].parent)
      PROVE  NodeOK(r1) /\ Shape(r1) /\ r1 \in NodeType
  <2>1. CASE known
    BY <2>1, ReplaceBlockOK, ReplaceBlockType
  <2>2. CASE ~known
    <3>1. e \in EntryType /\ e.blk = b /\ e.s0 = pair[1] /\ e.s1 = pair[2]
      BY EntryIsEntry DEF Entry
    <3> DEFINE t == WriteBlockWithState(r, e)
    <3>2. NodeOK(t) /\ Shape(t) /\ t \in NodeType
      BY <1>2, <2>2, <3>1, WriteBlockOK, WriteBlockType
    <3> HIDE DEF t
    <3>3. Alike(t, [t EXCEPT !.must = FALSE]) /\ [t EXCEPT !.must = FALSE] \in NodeType
      BY <3>2, AlikeSet, SmallTypes, SetFlag
    <3>4. NodeOK([t EXCEPT !.must = FALSE]) /\ Shape([t EXCEPT !.must = FALSE])
      BY <3>2, <3>3, AlikeOK DEF Alike, Near
    <3> QED BY <2>2, <3>3, <3>4 DEF t
  <2> QED BY <2>1, <2>2
<1> HIDE DEF r1
<1>3. ASSUME known \/ InChain(r, blk[b].parent)
      PROVE  NodeOK(r2) /\ NodeOK(CommitNewWork(r2))
  <2>1. Alike(r1, r2) /\ r2 \in NodeType
    BY <1>2, <1>3, AlikeSet, ClearOutDatedType DEF ClearOutDatedBFTFutureBlock
  <2>2. NodeOK(r2)
    BY <1>2, <1>3, <2>1, AlikeOK
  <2> HIDE DEF r2
  <2> QED BY <2>1, <2>2, CommitAlike, AlikeOK
<1> HIDE DEF r2
<1> QED BY <1>1, <1>3 DEF ConnectBlock, Done, GaveUp, r1, r2, e

\* getSealedBlockStages takes adjacent stages.
LEMMA SealedStagesAdjacent ==
    ASSUME NEW b, NEW chain \in StgSeq, GetSealedStagesOf(b, chain) # <<>>
    PROVE  LET pair == GetSealedStagesOf(b, chain) IN stg[pair[2]].parent = pair[1]
<1> DEFINE K == SealedPairs(b, chain)
           k == Nth(K, 1)
<1>1. chain \in Seq(StgIds) /\ K \in SUBSET (DOMAIN chain)
  BY DEF StgSeq, SealedPairs
<1>2. K # {}
  BY DEF GetSealedStagesOf
<1> HIDE DEF K
<1>3. K \in SUBSET Nat /\ IsFiniteSet(K) /\ Cardinality(K) \in Nat /\ Cardinality(K) # 0
  BY <1>1, <1>2, DomainFinite, FS_EmptySet
<1>4. k \in K
  <2>1. 1 \in 1..Cardinality(K)
    BY <1>3
  <2> QED BY <1>3, <2>1, NthExists
<1> HIDE DEF k
<1>5. stg[chain[k + 1]].parent = chain[k]
  BY <1>4 DEF K, SealedPairs
<1> QED BY <1>2, <1>5 DEF GetSealedStagesOf, K, k

\* connectParentFuture.
LEMMA ConnectParentOK ==
    ASSUME HistoryOK, Heights, NEW r \in NodeType, NodeOK(r), NEW b \in BlkIds,
           NEW w \in BlkIds, NEW chain \in StgSeq
    PROVE  NodeOK(ConnectParentFuture(r, b, w, chain).n)
<1> DEFINE pair == GetSealedStagesOf(b, chain)
<1>1. ASSUME pair # <<>> PROVE NodeOK(ConnectBlock(r, b, pair, w, TRUE).n)
  BY <1>1, SealedStagesType, SealedStagesAdjacent, ConnectBlockOK
<1> QED BY <1>1 DEF ConnectParentFuture, GaveUp

\* handleBFTFutures.
LEMMA HandleFuturesOK ==
    ASSUME HistoryOK, Heights, NEW r \in NodeType, NodeOK(r), NEW chain \in StgSeq,
           Len(r.futures) > 1
    PROVE  NodeOK(HandleBFTFutures(r, chain).n)
<1>1. Oldest(r.futures) \in BlkIds
  <2>1. r.futures \in Seq(BlkIds) /\ r.futures # <<>>
    BY NodeFields DEF BlkSeq
  <2> QED BY <2>1, EndsType
<1> QED BY <1>1, ConnectParentOK DEF HandleBFTFutures, GaveUp

\* ClearWorkerFutureParent.
LEMMA ClearParentAlike ==
    ASSUME NEW r, Shape(r)
    PROVE  Alike(r, ClearWorkerFutureParent(r))
<1> DEFINE t == [r EXCEPT !.wFut = 0]
<1>1. Alike(r, t)
  BY AlikeSet
<1>2. ClearWorkerFutureParent(r) = [t EXCEPT !.wWork = 0]
  BY DEF ClearWorkerFutureParent
<1> HIDE DEF t
<1>3. Alike(t, [t EXCEPT !.wWork = 0])
  BY <1>1, AlikeShape, AlikeSet
<1> QED BY <1>1, <1>2, <1>3, AlikeTrans

\* handleFutureParent.
LEMMA HandleParentOK ==
    ASSUME HistoryOK, Heights, NEW r \in NodeType, NodeOK(r), NEW chain \in StgSeq,
           r.wFut # 0, NEW timedOut \in BOOLEAN
    PROVE  NodeOK(HandleFutureParent(r, chain, timedOut).n)
<1> DEFINE r0 == [r EXCEPT !.futures = Without(@, r.wFut)]
           r1 == ClearWorkerFutureParent(r0)
           c  == ConnectParentFuture(r, r.wFut, r.wWork, chain)
<1>1. r0 \in NodeType /\ Alike(r, r0)
  <2>1. Without(r.futures, r.wFut) \in BlkSeq
    BY NodeFields, WithoutType DEF BlkSeq
  <2> QED BY <2>1, SetBlkSeq, NodeShape, AlikeSet
<1> HIDE DEF r0
<1>2. r1 \in NodeType /\ Alike(r, r1)
  BY <1>1, ClearParentType, ClearParentAlike, NodeShape, AlikeTrans
<1> HIDE DEF r1
<1>3. NodeOK(r1)
  BY <1>2, AlikeOK
<1>4. ASSUME Len(r1.futures) > 1 PROVE NodeOK(HandleBFTFutures(r1, chain).n)
  BY <1>2, <1>3, <1>4, HandleFuturesOK
<1>5. NodeOK([r1 EXCEPT !.must = TRUE])
  BY <1>2, <1>3, NodeShape, AlikeSet, AlikeOK
<1>6. c.n \in NodeType /\ NodeOK(c.n)
  BY NodeFields, MaybeBlkType, ConnectParentType, ConnectParentOK
<1> HIDE DEF c
<1>7. NodeOK(ClearWorkerFutureParent(c.n))
  BY <1>6, NodeShape, ClearParentAlike, AlikeOK
<1> QED BY <1>4, <1>5, <1>6, <1>7 DEF HandleFutureParent, Done, c, r1, r0

\* The sleep before CommitNewWork.
LEMMA SleepOK ==
    ASSUME NEW r \in NodeType, NodeOK(r)
    PROVE  NodeOK(SleepThenCommit(r))
  BY NodeShape, AlikeSet, AlikeOK DEF SleepThenCommit

\* The retry branch of Worker.wait.
LEMMA WaitRetryOK ==
    ASSUME HistoryOK, Heights, NEW r \in NodeType, NodeOK(r), NEW m \in ResultType
    PROVE  NodeOK(WaitRetry(r, m))
<1>1. ASSUME Len(r.futures) > 1 PROVE NodeOK(HandleBFTFutures(r, m.chain).n)
  BY <1>1, ResultFields, HandleFuturesOK
<1>2. ASSUME r.wFut # 0
      PROVE  /\ NodeOK(HandleFutureParent(r, m.chain, TRUE).n)
             /\ HandleFutureParent(r, m.chain, TRUE).n \in NodeType
  BY <1>2, ResultFields, HandleParentOK, HandleParentType
<1>3. ASSUME r.wFut # 0 PROVE NodeOK(SleepThenCommit(HandleFutureParent(r, m.chain, TRUE).n))
  BY <1>2, <1>3, SleepOK
<1> QED BY <1>1, <1>2, <1>3, SleepOK DEF WaitRetry

\* The confirm branch of Worker.wait.
LEMMA WaitConfirmOK ==
    ASSUME HistoryOK, Heights, NEW r \in NodeType, NodeOK(r), NEW m \in ResultType,
           m.code = "confirm"
    PROVE  NodeOK(WaitConfirm(r, m))
<1> DEFINE r0 == ClearOutDatedBFTFutureBlock(r, CurrentNum(r))
           c  == IF r.wFut # 0 THEN HandleFutureParent(r, m.chain, TRUE)
                 ELSE IF Len(r0.futures) > 1 THEN HandleBFTFutures(r0, m.chain)
                 ELSE Done([r0 EXCEPT !.must = TRUE])
           r1 == [c.n EXCEPT !.wFut = Newest(c.n.futures), !.wWork = m.blk]
<1>1. r0 \in NodeType /\ NodeOK(r0)
  <2>1. Alike(r, r0)
    BY NodeShape, AlikeSet DEF ClearOutDatedBFTFutureBlock
  <2> QED BY <2>1, ClearOutDatedType, AlikeOK
<1> HIDE DEF r0
<1>2. c.n \in NodeType /\ NodeOK(c.n)
  <2>1. CASE r.wFut # 0
    BY <2>1, ResultFields, HandleParentType, HandleParentOK
  <2>2. CASE r.wFut = 0 /\ Len(r0.futures) > 1
    BY <1>1, <2>2, ResultFields, HandleFuturesType, HandleFuturesOK
  <2>3. [r0 EXCEPT !.must = TRUE] \in NodeType /\ NodeOK([r0 EXCEPT !.must = TRUE])
    BY <1>1, SmallTypes, SetFlag, NodeShape, AlikeSet, AlikeOK
  <2> QED BY <2>1, <2>2, <2>3 DEF Done
<1> HIDE DEF c
<1>3. r1 \in NodeType
  <2>1. Newest(c.n.futures) \in MaybeBlk
    BY <1>2, NodeFields, EndsType, MaybeBlkType DEF BlkSeq
  <2> QED BY <1>2, <2>1, ResultFields, SetSaved
<1>4. NodeOK(r1)
  <2> DEFINE t == [c.n EXCEPT !.wFut = Newest(c.n.futures)]
  <2>1. Alike(c.n, t)
    BY <1>2, NodeShape, AlikeSet
  <2>2. r1 = [t EXCEPT !.wWork = m.blk]
    OBVIOUS
  <2> HIDE DEF t, r1
  <2>3. Alike(t, [t EXCEPT !.wWork = m.blk])
    BY <2>1, AlikeShape, AlikeSet
  <2> QED BY <1>2, <2>1, <2>2, <2>3, AlikeTrans, AlikeOK
<1>5. NodeOK(SleepThenCommit(r1))
  BY <1>3, <1>4, SleepOK
<1> HIDE DEF r1
<1> QED BY <1>2, <1>4, <1>5 DEF WaitConfirm, c, r0, r1

\* The sealed branch of Worker.wait.
LEMMA WaitSealedOK ==
    ASSUME HistoryOK, Heights, NEW r \in NodeType, NodeOK(r), NEW m \in ResultType,
           m.code = "sealed", ResultOK(m)
    PROVE  NodeOK(WaitSealed(r, m))
<1> DEFINE c == IF r.wFut # 0 THEN HandleFutureParent(r, m.chain, FALSE)
                ELSE IF Len(r.futures) > 1 THEN HandleBFTFutures(r, m.chain)
                ELSE Done(r)
<1>1. c.n \in NodeType /\ NodeOK(c.n)
  <2>1. CASE r.wFut # 0
    BY <2>1, ResultFields, HandleParentType, HandleParentOK
  <2>2. CASE r.wFut = 0 /\ Len(r.futures) > 1
    BY <2>2, ResultFields, HandleFuturesType, HandleFuturesOK
  <2> QED BY <2>1, <2>2 DEF Done
<1> HIDE DEF c
<1>2. m.blk \in BlkIds /\ m.pair \in PairType /\ stg[m.pair[2]].parent = m.pair[1]
  BY ResultFields, MaybeBlkType DEF ResultOK
<1>3. NodeOK(ConnectBlock(c.n, m.blk, m.pair, m.blk, FALSE).n)
  BY <1>1, <1>2, ConnectBlockOK
<1> QED BY <1>1, <1>3 DEF WaitSealed, c

-----------------------------------------------------------------------------
(* The steps keep chains and block lists.                                  *)

\* The histories only grow.
Grown == (\A b \in BlkIds : blk'[b] = blk[b]) /\ (\A s \in StgIds : stg'[s] = stg[s])

\* The chain and the results of r speak of blocks and stages that exist.
Rooted(r) ==
    /\ r.chain \in ChainType
    /\ r.mine.code = "sealed" => r.mine.pair \in PairType
    /\ \A k \in DOMAIN r.recv : r.recv[k].code = "sealed" => r.recv[k].pair \in PairType

\* A typed record is rooted, and so is one with its chain and results.
LEMMA TypedRooted ==
    ASSUME NEW r \in NodeType
    PROVE  Rooted(r) /\ \A q : Near(r, q) => Rooted(q)
<1>1. r.chain \in ChainType /\ r.mine \in MineType /\ r.recv \in Results
  BY NodeFields
<1>2. r.mine.code = "sealed" => r.mine.pair \in PairType
  BY <1>1 DEF MineType
<1>3. ASSUME NEW k \in DOMAIN r.recv, r.recv[k].code = "sealed" PROVE r.recv[k].pair \in PairType
  <2>1. r.recv[k] \in ResultType
    BY <1>1 DEF Results
  <2> QED BY <1>3, <2>1, ResultFields
<1> QED BY <1>1, <1>2, <1>3 DEF Rooted, Near

\* A good record stays good when the histories grow.
LEMMA OKGrows ==
    ASSUME NEW r, Rooted(r), NodeOK(r), Grown
    PROVE  NodeOK(r)'
<1>1. ASSUME NEW k \in DOMAIN r.chain
      PROVE  blk'[r.chain[k].blk] = blk[r.chain[k].blk] /\ stg'[r.chain[k].s1] = stg[r.chain[k].s1]
  <2>1. r.chain[k] \in EntryType
    BY DEF Rooted, ChainType
  <2> QED BY <2>1 DEF EntryType, Grown
<1>2. ChainOK(r.chain)'
  BY <1>1 DEF NodeOK, ChainOK, Num
<1>3. ASSUME NEW m, m.code = "sealed" => m.pair \in PairType, ResultOK(m) PROVE ResultOK(m)'
  <2>1. m.code = "sealed" => stg'[m.pair[2]] = stg[m.pair[2]]
    BY <1>3 DEF PairType, Grown
  <2> QED BY <1>3, <2>1 DEF ResultOK
<1>4. ResultOK(r.mine)' /\ \A k \in DOMAIN r.recv : ResultOK(r.recv[k])'
  BY <1>3 DEF Rooted, NodeOK
<1> QED BY <1>2, <1>4 DEF NodeOK

\* A step of node i to a good record.
LEMMA OKStep ==
    ASSUME TypeOK, ChainInv, NEW i \in Sealer, NEW q, Rooted(q), NodeOK(q), Grown, Heights',
           node' = [node EXCEPT ![i] = q]
    PROVE  ChainInv'
<1>1. ASSUME NEW j \in Sealer PROVE NodeOK(node[j])'
  <2>1. CASE j = i
    <3>1. node'[j] = q
      BY <2>1 DEF TypeOK
    <3>2. NodeOK(q)'
      BY OKGrows
    <3> QED BY <3>1, <3>2 DEF NodeOK, ChainOK, ResultOK, Num
  <2>2. CASE j # i
    <3>1. PICK x : x = node[j]
      OBVIOUS
    <3>2. node'[j] = x
      BY <2>2, <3>1 DEF TypeOK
    <3>3. NodeOK(x) /\ Rooted(x)
      BY <3>1, NodeTyped, TypedRooted DEF ChainInv
    <3>4. NodeOK(x)'
      BY <3>3, OKGrows
    <3> QED BY <3>2, <3>4 DEF NodeOK, ChainOK, ResultOK, Num
  <2> QED BY <2>1, <2>2
<1> QED BY <1>1 DEF ChainInv, Sealer

\* A step that leaves the histories alone.
LEMMA SameStep ==
    ASSUME TypeOK, TypeOK', ChainInv, NEW i \in Sealer, NEW q, NodeOK(q),
           node' = [node EXCEPT ![i] = q], UNCHANGED <<blk, stg>>
    PROVE  ChainInv'
<1>1. Grown
  BY DEF Grown
<1>2. Heights'
  BY DEF ChainInv, Heights, BlkIds, Num
<1>3. q \in NodeType
  <2>1. node'[i] = q
    BY DEF TypeOK
  <2>2. node'[i] \in NodeType'
    BY DEF TypeOK, Sealer
  <2> QED BY <2>1, <2>2, SameTypes
<1> QED BY <1>1, <1>2, <1>3, TypedRooted, OKStep

\* The node that takes the step is typed and good.
LEMMA NodeGood ==
    ASSUME TypeOK, ChainInv, NEW i \in Sealer
    PROVE  HistoryOK /\ node[i] \in NodeType /\ NodeOK(node[i]) /\ Shape(node[i]) /\ Heights
  BY NodeTyped, NodeShape DEF ChainInv

\* A finished goroutine; the stages of a sealed block are adjacent.
LEMMA FinishOK ==
    ASSUME NEW r, Shape(r), NodeOK(r), NEW b, NEW code, NEW pair,
           code = "sealed" => stg[pair[2]].parent = pair[1]
    PROVE  NodeOK(Finish(r, b, code, pair)) /\ Shape(Finish(r, b, code, pair))
<1> DEFINE m == [phase |-> "fin", blk |-> b, code |-> code, pair |-> pair,
                 chain |-> BuildCompletedStageChain(r.completed), stop |-> r.mine.stop]
           q == [r EXCEPT !.mine = m]
<1>1. m.code = code /\ m.pair = pair
  OBVIOUS
<1> HIDE DEF m
<1>2. /\ Shape(q) /\ q.chain = r.chain /\ q.live = r.live /\ q.blocks = r.blocks
      /\ q.mine = m /\ q.recv = r.recv
  BY DEF Shape
<1>3. NodeOK(q)
  BY <1>1, <1>2 DEF NodeOK, ResultOK
<1> QED BY <1>2, <1>3 DEF Finish, m

\* MineFuture and the end of a seal.
LEMMA MineFutureOK ==
    ASSUME TypeOK, TypeOK', ChainInv, NEW i \in Sealer, MineFuture(i)
    PROVE  ChainInv'
<1> DEFINE f == Finish(node[i], 0, "retry", <<>>)
<1>1. NodeOK(f) /\ Shape(f)
  BY NodeGood, FinishOK
<1> HIDE DEF f
<1>2. NodeOK([f EXCEPT !.work = 0])
  BY <1>1, AlikeSet, AlikeOK
<1> QED BY <1>2, SameStep DEF MineFuture, f

\* BlockSealedCompleted gives up.
LEMMA SealTimeoutOK ==
    ASSUME TypeOK, TypeOK', ChainInv, NEW i \in Sealer, SealTimeout(i)
    PROVE  ChainInv'
<1> DEFINE b == node[i].mine.blk
           code == CASE node[i].stage = PRECFM  -> "retry"
                     [] node[i].stage = IDLE    -> "request"
                     [] node[i].stage = CONFIRM -> "confirm"
           f == Finish(node[i], b, code, <<>>)
           f1 == [f EXCEPT !.sealT = @ \ {b}]
           f2 == [f1 EXCEPT !.sealF = @ \cup {b}]
           f3 == [f2 EXCEPT !.replies = {}]
           f4 == [f3 EXCEPT !.late = GetCurrentSealer(i) = i]
<1>1. code \in {"retry", "request", "confirm"}
  <2>1. node[i].stage \in {IDLE, PRECFM, CONFIRM}
    BY NodeTyped, NodeFields DEF Phase
  <2> QED BY <2>1 DEF IDLE, PRECFM, CONFIRM
<1> HIDE DEF b, code
<1>3. NodeOK(f) /\ Shape(f)
  BY <1>1, NodeGood, FinishOK
<1> HIDE DEF f
<1>2. node' = [node EXCEPT ![i] = f4] /\ UNCHANGED <<blk, stg>>
  <2> DEFINE q == [f EXCEPT !.sealT = @ \ {b}, !.sealF = @ \cup {b}, !.replies = {},
                            !.late = GetCurrentSealer(i) = i]
  <2>1. node' = [node EXCEPT ![i] = q] /\ UNCHANGED <<blk, stg>>
    BY DEF SealTimeout, f, b, code
  <2>2. q = f4
    OBVIOUS
  <2> QED BY <2>1, <2>2
<1>4. Alike(f, f1)
  BY <1>3, AlikeSet
<1> HIDE DEF f1
<1>5. Alike(f1, f2)
  BY <1>4, AlikeShape, AlikeSet
<1> HIDE DEF f2
<1>6. Alike(f2, f3)
  BY <1>5, AlikeShape, AlikeSet
<1> HIDE DEF f3
<1>7. Alike(f3, f4)
  BY <1>6, AlikeShape, AlikeSet
<1> HIDE DEF f4
<1>8. NodeOK(f4)
  BY <1>3, <1>4, <1>5, <1>6, <1>7, AlikeOK
<1> QED BY <1>2, <1>8, SameStep

\* BlockSealedCompleted sees the block sealed: the newest stage and its parent.
LEMMA SealDoneOK ==
    ASSUME TypeOK, TypeOK', ChainInv, NEW i \in Sealer, SealDone(i)
    PROVE  ChainInv'
<1> DEFINE pair == GetSealedBlockStages(node[i].completed)
           code == IF pair = <<>> THEN "confirm" ELSE "sealed"
           q == Finish(node[i], node[i].mine.blk, code, pair)
<1>1. code = "sealed" => stg[pair[2]].parent = pair[1]
  <2> DEFINE s == GetNewestStateCompletedStage(node[i].completed)
  <2>1. pair = <<>> \/ pair = <<stg[s].parent, s>>
    BY DEF GetSealedBlockStages
  <2> HIDE DEF s, pair
  <2> QED BY <2>1
<1>2. node' = [node EXCEPT ![i] = q] /\ UNCHANGED <<blk, stg>>
  BY DEF SealDone
<1> HIDE DEF pair, code
<1>3. NodeOK(q)
  BY <1>1, NodeGood, FinishOK
<1> HIDE DEF q
<1> QED BY <1>2, <1>3, SameStep

\* The result goes to the worker as it is.
LEMMA MineReturnOK ==
    ASSUME TypeOK, TypeOK', ChainInv, NEW i \in Sealer, MineReturn(i)
    PROVE  ChainInv'
<1> DEFINE r == node[i]
           s == IF r.mine.stop THEN r.recv ELSE Append(r.recv, r.mine)
           q == [r EXCEPT !.busy = FALSE, !.mine = NOMINE, !.recv = s]
<1>1. r \in NodeType /\ NodeOK(r) /\ Shape(r)
  BY NodeGood
<1>2. node' = [node EXCEPT ![i] = q] /\ UNCHANGED <<blk, stg>>
  BY <1>1 DEF MineReturn, Shape
<1>3. \A k \in DOMAIN s : ResultOK(s[k])
  <2>1. r.recv \in Seq(ResultType)
    BY <1>1, NodeFields DEF Results
  <2>2. ResultOK(r.mine) /\ \A k \in DOMAIN r.recv : ResultOK(r.recv[k])
    BY <1>1 DEF NodeOK
  <2>3. \A k \in DOMAIN s : s[k] = r.mine \/ (k \in DOMAIN r.recv /\ s[k] = r.recv[k])
    <3> DEFINE l == r.recv
               m == r.mine
    <3>1. l \in Seq(ResultType)
      BY <2>1
    <3> HIDE DEF l, m
    <3>2. \A k \in DOMAIN Append(l, m) : Append(l, m)[k] = m \/ (k \in DOMAIN l /\ Append(l, m)[k] = l[k])
      BY <3>1
    <3>3. s = l \/ s = Append(l, m)
      BY DEF l, m
    <3> QED BY <3>2, <3>3 DEF l, m
  <2> HIDE DEF s
  <2> QED BY <2>2, <2>3
<1> HIDE DEF s
<1>4. /\ q.chain = r.chain /\ q.live = r.live /\ q.blocks = r.blocks
      /\ q.mine = NOMINE /\ q.recv = s
  BY <1>1 DEF Shape
<1>5. NodeOK(q)
  BY <1>1, <1>3, <1>4 DEF NodeOK, ResultOK, NOMINE
<1> HIDE DEF q
<1> QED BY <1>2, <1>5, SameStep

\* An aborted waiting goroutine.
LEMMA MineAbortOK ==
    ASSUME TypeOK, TypeOK', ChainInv, NEW i \in Sealer, MineAbort(i)
    PROVE  ChainInv'
<1> DEFINE t == [node[i] EXCEPT !.abort = FALSE]
           q == [t EXCEPT !.busy = FALSE]
<1>1. Alike(node[i], t)
  BY NodeGood, AlikeSet
<1>2. node' = [node EXCEPT ![i] = q] /\ UNCHANGED <<blk, stg>>
  BY DEF MineAbort
<1> HIDE DEF t
<1>3. Alike(t, q)
  BY <1>1, AlikeShape, AlikeSet
<1> HIDE DEF q
<1>4. NodeOK(q)
  BY <1>1, <1>3, NodeGood, AlikeOK
<1> QED BY <1>2, <1>4, SameStep

\* createStateForNewConsensus: the blocks follow.
LEMMA CreateNear ==
    ASSUME NEW r \in NodeType, NEW prim, NEW view
    PROVE  Near(r, CreateStateForNewConsensus(r, prim, view))
<1>1. Shape(r)
  BY NodeShape
<1>2. Near(r, [r EXCEPT !.cfmCnt = 0, !.live = TRUE, !.stage = IDLE, !.prim = prim,
                        !.view = view, !.msgHash = NoHash, !.blocks = <<>>,
                        !.signed = <<>>, !.completed = {}])
  BY <1>1 DEF Near, Shape
<1>3. Near(r, [r EXCEPT !.cfmCnt = 0, !.prim = prim, !.view = view])
  BY <1>1 DEF Near, Shape
<1>4. Near(r, [r EXCEPT !.cfmCnt = 0])
  BY <1>1 DEF Near, Shape
<1> QED BY <1>2, <1>3, <1>4 DEF CreateStateForNewConsensus

\* A list with a block appended is not empty.
LEMMA AppendHolds ==
    ASSUME NEW r \in NodeType, NEW b
    PROVE  Append(r.blocks, b) # <<>>
<1>1. r.blocks \in Seq(BlkIds)
  BY NodeFields DEF BlkSeq
<1> QED BY <1>1

\* A new block list.
LEMMA BlocksSet ==
    ASSUME NEW r, Shape(r), NEW v
    PROVE  /\ Near(r, [r EXCEPT !.blocks = v]) /\ [r EXCEPT !.blocks = v].blocks = v
  BY DEF Near, Shape

\* State.Reset leaves the last block, unless there is none.
LEMMA ResetOK ==
    ASSUME NEW r \in NodeType, NodeOK(r), NEW num, NEW clear \in BOOLEAN
    PROVE  NodeOK(Reset(r, num, clear)) /\ Shape(Reset(r, num, clear)) /\ Near(r, Reset(r, num, clear))
<1>1. CASE r.blocks = <<>>
  BY <1>1, NodeShape, AlikeSet, AlikeOK, AlikeShape DEF Reset, Alike
<1>2. CASE r.blocks # <<>>
  <2> DEFINE C == IF clear THEN ClearOutdatedCompleted(r.completed, num) ELSE r.completed
             q == [r EXCEPT !.stage = IDLE, !.msgHash = NoHash,
                            !.blocks = <<r.blocks[Len(r.blocks)]>>,
                            !.signed = Above(r.signed, num), !.completed = C]
  <2>1. Reset(r, num, clear) = q
    BY <1>2 DEF Reset
  <2> HIDE DEF C
  <2>2. Near(r, q) /\ q.blocks # <<>>
    BY NodeShape DEF Near, Shape
  <2> HIDE DEF q
  <2> QED BY <2>1, <2>2, NearOK DEF Near
<1> QED BY <1>1, <1>2

\* HandlePreConfirmMsg: the block of the message joins the list first.
LEMMA HandlePreConfirmOK ==
    ASSUME HistoryOK, NEW r \in NodeType, NodeOK(r), NEW b \in BlkIds, NEW cur
    PROVE  NodeOK(HandlePreConfirm(r, b, cur).n)
<1> DEFINE fut == StageBlock(blk[b].comp)
           r0  == CreateStateForNewConsensus(r, blk[b].sealer, blk[b].view)
           r1  == [r0 EXCEPT !.blocks = Append(@, b)]
           r2  == IF fut # 0 /\ ~Has(r1.blocks, fut)
                  THEN [r1 EXCEPT !.blocks = Append(@, fut)] ELSE r1
           r3  == [r2 EXCEPT !.prim = blk[b].sealer, !.signed = Append(@, b),
                             !.stage = PRECFM, !.view = blk[b].view,
                             !.msgHash = <<PRE, b>>]
<1>1. fut # 0 => fut \in BlkIds
  <2>1. fut \in 0..Len(blk)
    BY BlockFields, StageBlockType
  <2> QED BY <2>1, LengthsNat DEF BlkIds
<1>2. r0 \in NodeType /\ Near(r, r0)
  BY CreateStateType, CreateNear, BlockFields
<1> HIDE DEF fut, r0
<1>3. r1 \in NodeType /\ Near(r, r1) /\ r1.blocks # <<>>
  <2>1. r1 \in NodeType
    BY <1>2, NodeFields, AppendBlkType, SetBlkSeq
  <2>2. Near(r0, r1) /\ r1.blocks = Append(r0.blocks, b)
    BY <1>2, NodeShape, BlocksSet
  <2>3. r1.blocks # <<>>
    BY <1>2, <2>2, AppendHolds
  <2> HIDE DEF r1
  <2> QED BY <1>2, <2>1, <2>2, <2>3, NearTrans
<1> HIDE DEF r1
<1>4. r2 \in NodeType /\ Near(r, r2) /\ r2.blocks # <<>>
  <2> DEFINE t == [r1 EXCEPT !.blocks = Append(@, fut)]
  <2>1. fut # 0 => t \in NodeType
    BY <1>1, <1>3, NodeFields, AppendBlkType, SetBlkSeq
  <2>2. Near(r1, t) /\ t.blocks = Append(r1.blocks, fut)
    BY <1>3, NodeShape, BlocksSet
  <2>3. t.blocks # <<>>
    BY <1>3, <2>2, AppendHolds
  <2> HIDE DEF t
  <2>4. Near(r, t)
    BY <1>3, <2>2, NearTrans
  <2> QED BY <1>3, <2>1, <2>3, <2>4 DEF t
<1> HIDE DEF r2
<1>5. NodeOK(r2)
  BY <1>4, NearOK
<1>6. Alike(r2, r3)
  BY <1>4, NodeShape DEF Alike, Near, Shape
<1> HIDE DEF r3
<1>7. NodeOK(r3)
  BY <1>5, <1>6, AlikeOK
<1> QED BY <1>5, <1>7 DEF HandlePreConfirm, Done, GaveUp, fut, r0, r1, r2, r3

\* HandleConfirmMsg: accepted, refused, or refused with a reset.
LEMMA HandleConfirmOK ==
    ASSUME HistoryOK, NEW r \in NodeType, NodeOK(r), NEW b, NEW comp
    PROVE  NodeOK(HandleConfirm(r, b, comp).n)
<1> DEFINE r0 == [r EXCEPT !.cfmCnt = 0]
           r2 == [AddNewFutureBlockAndSetCompleted(r0, Range(comp))
                    EXCEPT !.prim = blk[b].sealer, !.stage = CONFIRM, !.view = blk[b].view]
<1>1. r0 \in NodeType /\ Alike(r, r0)
  BY SmallTypes, SetCfmcnt, NodeShape, AlikeSet
<1> HIDE DEF r0
<1>2. NodeOK(r0)
  BY <1>1, AlikeOK
<1>3. NodeOK(ConfirmRefusal(r0, comp))
  BY <1>1, <1>2, ResetOK DEF ConfirmRefusal
<1>4. Alike(r0, r2)
  BY <1>1, NodeShape DEF Alike, Near, Shape, AddNewFutureBlockAndSetCompleted
<1> HIDE DEF r2
<1>5. NodeOK(r2)
  BY <1>2, <1>4, AlikeOK
<1> QED BY <1>2, <1>3, <1>5 DEF HandleConfirm, Done, GaveUp, r0, r2

\* The two messages of a primary.
LEMMA DeliverOK ==
    ASSUME TypeOK, TypeOK', ChainInv, NEW i \in Sealer, Handler(i)
    PROVE  ChainInv'
<1>1. ASSUME DeliverPreConfirm(i) PROVE ChainInv'
  <2>1. PICK m \in net :
          /\ node' = [node EXCEPT ![i] = HandlePreConfirm(node[i], m.blk, GetCurrentViewID(i)).n]
          /\ UNCHANGED <<blk, stg>>
    BY <1>1 DEF DeliverPreConfirm
  <2>2. m.blk \in BlkIds
    BY <2>1, NodeTyped, MessageFields
  <2>3. NodeOK(HandlePreConfirm(node[i], m.blk, GetCurrentViewID(i)).n)
    BY <2>2, NodeGood, HandlePreConfirmOK
  <2> QED BY <2>1, <2>3, SameStep
<1>2. ASSUME DeliverConfirm(i) PROVE ChainInv'
  <2>1. PICK m \in net :
          /\ node' = [node EXCEPT ![i] = HandleConfirm(node[i], m.blk, m.comp).n]
          /\ UNCHANGED <<blk, stg>>
    BY <1>2 DEF DeliverConfirm
  <2>2. NodeOK(HandleConfirm(node[i], m.blk, m.comp).n)
    BY NodeGood, HandleConfirmOK
  <2> QED BY <2>1, <2>2, SameStep
<1> QED BY <1>1, <1>2 DEF Handler

\* A reply that completes nothing.
LEMMA CollectOK ==
    ASSUME TypeOK, TypeOK', ChainInv, NEW i \in Sealer, CollectPreReply(i) \/ CollectConfirmReply(i)
    PROVE  ChainInv'
<1>1. ASSUME CollectPreReply(i) PROVE ChainInv'
  <2>1. PICK m \in net :
          LET r == [node[i] EXCEPT !.replies = @ \cup {m.from}]
          IN  /\ \E q \in {r, [r EXCEPT !.replies = {}]} : node' = [node EXCEPT ![i] = q]
              /\ UNCHANGED <<blk, stg>>
    BY <1>1 DEF CollectPreReply
  <2> DEFINE r == [node[i] EXCEPT !.replies = @ \cup {m.from}]
  <2>2. PICK q \in {r, [r EXCEPT !.replies = {}]} : node' = [node EXCEPT ![i] = q]
    BY <2>1
  <2>3. Alike(node[i], r)
    BY NodeGood, AlikeSet
  <2> HIDE DEF r
  <2>4. Alike(r, [r EXCEPT !.replies = {}])
    BY <2>3, AlikeShape, AlikeSet
  <2>5. NodeOK(q)
    BY <2>2, <2>3, <2>4, NodeGood, AlikeOK
  <2> QED BY <2>1, <2>2, <2>5, SameStep
<1>2. ASSUME CollectConfirmReply(i) PROVE ChainInv'
  <2>1. PICK m \in net :
          LET r == [node[i] EXCEPT !.replies = @ \cup {m.from}, !.cfmCnt = @ + 1]
          IN  /\ \E q \in {r, [r EXCEPT !.cfmCnt = 0], [r EXCEPT !.cfmCnt = @ - 1]} :
                    node' = [node EXCEPT ![i] = q]
              /\ UNCHANGED <<blk, stg>>
    BY <1>2 DEF CollectConfirmReply
  <2> DEFINE r == [node[i] EXCEPT !.replies = @ \cup {m.from}, !.cfmCnt = @ + 1]
  <2>2. PICK q \in {r, [r EXCEPT !.cfmCnt = 0], [r EXCEPT !.cfmCnt = @ - 1]} :
          node' = [node EXCEPT ![i] = q]
    BY <2>1
  <2>3. Alike(node[i], r)
    BY NodeGood DEF Alike, Near, Shape
  <2> HIDE DEF r
  <2>4. Alike(r, [r EXCEPT !.cfmCnt = 0]) /\ Alike(r, [r EXCEPT !.cfmCnt = @ - 1])
    BY <2>3, AlikeShape, AlikeSet
  <2>5. NodeOK(q)
    BY <2>2, <2>3, <2>4, NodeGood, AlikeOK
  <2> QED BY <2>1, <2>2, <2>5, SameStep
<1> QED BY <1>1, <1>2

\* A new stage changes no earlier one.
LEMMA StageGrown ==
    ASSUME HistoryOK, Heights, NEW new, stg' = Append(stg, new), blk' = blk
    PROVE  Grown /\ Heights'
<1>1. \A s \in StgIds : stg'[s] = stg[s]
  BY DEF HistoryOK, StgIds
<1>2. Heights'
  BY DEF Heights, BlkIds, Num
<1> QED BY <1>1, <1>2 DEF Grown

\* The two quorums.
LEMMA QuorumOK ==
    ASSUME TypeOK, ChainInv, NEW i \in Sealer, PreConfirmQuorum(i) \/ ConfirmQuorum(i)
    PROVE  ChainInv'
<1>1. ASSUME PreConfirmQuorum(i) PROVE ChainInv'
  <2> DEFINE R(m) == [node[i] EXCEPT !.replies = @ \cup {m.from}]
             Q(m) == [AddNewFutureBlockAndSetCompleted(R(m), {Len(stg) + 1}) EXCEPT
                         !.stage = CONFIRM, !.msgHash = <<CONF, m.blk>>,
                         !.replies = {i}, !.cfmCnt = @ + 1]
  <2>1. PICK m \in net :
          /\ \E new : stg' = Append(stg, new)
          /\ node' = [node EXCEPT ![i] = Q(m)]
          /\ blk' = blk
    BY <1>1 DEF PreConfirmQuorum
  <2>2. Alike(node[i], R(m))
    BY NodeGood, AlikeSet
  <2> HIDE DEF R
  <2>3. Alike(R(m), Q(m))
    <3>1. Shape(R(m))
      BY <2>2, AlikeShape
    <3> QED BY <3>1 DEF Alike, Near, Shape, AddNewFutureBlockAndSetCompleted
  <2> HIDE DEF Q
  <2>4. Alike(node[i], Q(m))
    BY <2>2, <2>3, AlikeTrans
  <2>5. NodeOK(Q(m)) /\ Rooted(Q(m))
    BY <2>4, NodeGood, AlikeOK, TypedRooted DEF Alike
  <2> QED BY <2>1, <2>5, NodeGood, StageGrown, OKStep
<1>2. ASSUME ConfirmQuorum(i) PROVE ChainInv'
  <2> DEFINE R(m) == [node[i] EXCEPT !.replies = @ \cup {m.from}, !.cfmCnt = @ + 1]
             B(m) == Newest(R(m).signed)
             T(m) == Reset(R(m), Num(B(m)) - 1, FALSE)
             Q(m) == [T(m) EXCEPT
                         !.completed = @ \cup {Len(stg) + 1}, !.sealT = @ \cup {B(m)},
                         !.sealF = @ \ {B(m)}, !.replies = {}]
  <2>1. PICK m \in net :
          /\ ReplyAccepted(i, m)
          /\ \E new : stg' = Append(stg, new)
          /\ node' = [node EXCEPT ![i] = Q(m)]
          /\ blk' = blk
    BY <1>2 DEF ConfirmQuorum
  <2>2. Alike(node[i], R(m)) /\ R(m) \in NodeType
    <3>1. Alike(node[i], R(m))
      BY NodeGood DEF Alike, Near, Shape
    <3>2. R(m) \in NodeType
      BY <2>1, ReplyFields, NodeTyped, AddReplyType
    <3> QED BY <3>1, <3>2
  <2> HIDE DEF R, B
  <2>3. NodeOK(R(m))
    BY <2>2, NodeGood, AlikeOK
  <2>4. NodeOK(T(m)) /\ Shape(T(m)) /\ Near(R(m), T(m))
    BY <2>2, <2>3, ResetOK
  <2> HIDE DEF T
  <2>5. Alike(T(m), Q(m))
    BY <2>4 DEF Alike, Near, Shape
  <2> HIDE DEF Q
  <2>6. NodeOK(Q(m)) /\ Near(node[i], Q(m))
    BY <2>2, <2>4, <2>5, AlikeOK, NearTrans DEF Alike
  <2>7. Rooted(Q(m))
    BY <2>6, NodeGood, TypedRooted
  <2> QED BY <2>1, <2>6, <2>7, NodeGood, StageGrown, OKStep
<1> QED BY <1>1, <1>2

\* The branches of Worker.wait.
LEMMA WaitOK ==
    ASSUME TypeOK, TypeOK', ChainInv, NEW i \in Sealer,
           \/ WaitRequestFailed(i) \/ WaitRetryFutures(i)
           \/ WaitConfirmTimedOut(i) \/ WaitBlockSealed(i)
    PROVE  ChainInv'
<1> DEFINE m == Head(node[i].recv)
           r == [node[i] EXCEPT !.recv = Tail(@)]
<1>1. /\ node[i].recv # <<>>
      /\ UNCHANGED <<blk, stg>>
      /\ \/ node' = [node EXCEPT ![i] = WaitRequest(r, m)]
         \/ node' = [node EXCEPT ![i] = WaitRetry(r, m)]
         \/ m.code = "confirm" /\ node' = [node EXCEPT ![i] = WaitConfirm(r, m)]
         \/ m.code = "sealed" /\ node' = [node EXCEPT ![i] = WaitSealed(r, m)]
  BY DEF WaitRequestFailed, WaitRetryFutures, WaitConfirmTimedOut, WaitBlockSealed, WaitBranch
<1>2. HistoryOK /\ Heights /\ node[i] \in NodeType /\ NodeOK(node[i]) /\ Shape(node[i])
  BY NodeGood
<1>3. node[i].recv \in Seq(ResultType)
  BY <1>2, NodeFields DEF Results
<1>4. m \in ResultType /\ Tail(node[i].recv) \in Results /\ ResultOK(m)
  <2>1. m = node[i].recv[1] /\ 1 \in DOMAIN node[i].recv
    BY <1>1, <1>3
  <2>2. m \in ResultType /\ Tail(node[i].recv) \in Results
    BY <1>1, <1>3 DEF Results
  <2> QED BY <1>2, <2>1, <2>2 DEF NodeOK
<1>5. r \in NodeType /\ NodeOK(r)
  <2>1. r \in NodeType
    BY <1>2, <1>4, SetRecv
  <2>2. /\ r.chain = node[i].chain /\ r.live = node[i].live /\ r.blocks = node[i].blocks
        /\ r.mine = node[i].mine /\ r.recv = Tail(node[i].recv)
    BY <1>2 DEF Shape
  <2>3. \A k \in DOMAIN Tail(node[i].recv) :
          k + 1 \in DOMAIN node[i].recv /\ Tail(node[i].recv)[k] = node[i].recv[k + 1]
    <3> DEFINE l == node[i].recv
    <3>1. l \in Seq(ResultType) /\ l # <<>>
      BY <1>1, <1>3
    <3> HIDE DEF l
    <3>2. \A k \in DOMAIN Tail(l) : k + 1 \in DOMAIN l /\ Tail(l)[k] = l[k + 1]
      BY <3>1
    <3> QED BY <3>2 DEF l
  <2> HIDE DEF r
  <2> QED BY <1>2, <2>1, <2>2, <2>3 DEF NodeOK
<1> HIDE DEF m, r
<1>6. NodeOK(WaitRequest(r, m)) /\ NodeOK(WaitRetry(r, m))
  BY <1>2, <1>4, <1>5, SleepOK, WaitRetryOK DEF WaitRequest
<1>7. m.code = "confirm" => NodeOK(WaitConfirm(r, m))
  BY <1>2, <1>4, <1>5, WaitConfirmOK
<1>8. m.code = "sealed" => NodeOK(WaitSealed(r, m))
  BY <1>2, <1>4, <1>5, WaitSealedOK
<1>9. PICK q : NodeOK(q) /\ node' = [node EXCEPT ![i] = q]
  BY <1>1, <1>6, <1>7, <1>8
<1> QED BY <1>1, <1>9, SameStep

\* New work is committed, after the sleep or for a head event.
LEMMA CommitOK ==
    ASSUME TypeOK, TypeOK', ChainInv, NEW i \in Sealer, WaitCommit(i) \/ WorkerHeadEvent(i)
    PROVE  ChainInv'
<1>1. ASSUME WaitCommit(i) PROVE ChainInv'
  <2> DEFINE t == CommitNewWork(node[i])
  <2>1. node' = [node EXCEPT ![i] = [t EXCEPT !.sleep = FALSE]] /\ UNCHANGED <<blk, stg>>
    BY <1>1 DEF WaitCommit
  <2>2. Alike(node[i], t)
    BY NodeGood, CommitAlike
  <2> HIDE DEF t
  <2>3. Alike(t, [t EXCEPT !.sleep = FALSE])
    BY <2>2, AlikeShape, AlikeSet
  <2>4. NodeOK([t EXCEPT !.sleep = FALSE])
    BY <2>2, <2>3, NodeGood, AlikeOK
  <2> QED BY <2>1, <2>4, SameStep
<1>2. ASSUME WorkerHeadEvent(i) PROVE ChainInv'
  <2> DEFINE t == [node[i] EXCEPT !.wEv = @ + 1]
  <2>1. node' = [node EXCEPT ![i] = CommitNewWork(t)] /\ UNCHANGED <<blk, stg>>
    BY <1>2 DEF WorkerHeadEvent
  <2>2. Alike(node[i], t) /\ t \in NodeType
    <3>1. node[i].wEv + 1 \in Position
      BY NodeTyped, NodeFields DEF Position
    <3> QED BY <3>1, NodeGood, AlikeSet, SetPosition
  <2> HIDE DEF t
  <2>3. NodeOK(CommitNewWork(t))
    BY <2>2, NodeGood, CommitAlike, AlikeOK
  <2> QED BY <2>1, <2>3, SameStep
<1> QED BY <1>1, <1>2

\* Blocks and stages of peers.
LEMMA ChainSyncOK ==
    ASSUME TypeOK, TypeOK', ChainInv, NEW i \in Sealer, ChainSync(i)
    PROVE  ChainInv'
<1>1. ASSUME NEW j \in Sealer, NEW k \in DOMAIN node[j].chain
      PROVE  LET e == node[j].chain[k] IN e \in EntryType /\ stg[e.s1].parent = e.s0
  BY NodeGood, HeadType DEF NodeOK, ChainOK
<1>2. ASSUME Import(i) PROVE ChainInv'
  <2> DEFINE E(j, k) == node[j].chain[k]
             F(j, k) == [E(j, k) EXCEPT !.work = E(j, k).blk]
             T(j, k) == WriteBlockWithState(node[i], F(j, k))
  <2>1. SUFFICES ASSUME NEW j \in Sealer, NEW k \in DOMAIN node[j].chain,
                        InChain(node[i], blk[E(j, k).blk].parent),
                        node' = [node EXCEPT ![i] =
                           ClearOutDatedBFTFutureBlock(T(j, k), Num(E(j, k).blk))],
                        UNCHANGED <<blk, stg>>
                 PROVE  ChainInv'
    BY <1>2 DEF Import
  <2>2. E(j, k) \in EntryType /\ stg[E(j, k).s1].parent = E(j, k).s0
    BY <1>1
  <2> HIDE DEF E
  <2>3. /\ F(j, k) \in EntryType /\ F(j, k).blk = E(j, k).blk /\ F(j, k).s0 = E(j, k).s0
        /\ F(j, k).s1 = E(j, k).s1
    BY <2>2 DEF EntryType
  <2> HIDE DEF F
  <2>4. NodeOK(T(j, k)) /\ Shape(T(j, k))
    BY <2>1, <2>2, <2>3, NodeGood, WriteBlockOK
  <2> HIDE DEF T
  <2>5. NodeOK(ClearOutDatedBFTFutureBlock(T(j, k), Num(E(j, k).blk)))
    <3>1. Alike(T(j, k), ClearOutDatedBFTFutureBlock(T(j, k), Num(E(j, k).blk)))
      BY <2>4, AlikeSet DEF ClearOutDatedBFTFutureBlock
    <3> QED BY <2>4, <3>1, AlikeOK
  <2> QED BY <2>1, <2>5, SameStep
<1>3. ASSUME ReplaceStages(i) PROVE ChainInv'
  <2> DEFINE P(j, k) == <<node[j].chain[k].s0, node[j].chain[k].s1>>
  <2>1. SUFFICES ASSUME NEW j \in Sealer, NEW k \in DOMAIN node[j].chain,
                        InChain(node[i], node[j].chain[k].blk),
                        node' = [node EXCEPT ![i] =
                           ReplaceBlockWithoutState(node[i], node[j].chain[k].blk, P(j, k))],
                        UNCHANGED <<blk, stg>>
                 PROVE  ChainInv'
    BY <1>3 DEF ReplaceStages
  <2>2. stg[P(j, k)[2]].parent = P(j, k)[1]
    BY <1>1
  <2> HIDE DEF P
  <2>3. NodeOK(ReplaceBlockWithoutState(node[i], node[j].chain[k].blk, P(j, k)))
    BY <2>1, <2>2, NodeGood, ReplaceBlockOK
  <2> QED BY <2>1, <2>3, SameStep
<1> QED BY <1>2, <1>3 DEF ChainSync

\* ClearConnected cuts as many blocks as are below the head: one that is not
\* below it keeps the list from being emptied.
LEMMA ClearConnectedOK ==
    ASSUME NEW r \in NodeType, NodeOK(r), NEW num \in Int, NEW b \in BlkIds, HistoryOK,
           Has(r.blocks, b), Num(b) > num
    PROVE  NodeOK(ClearConnected(r, num)) /\ Shape(ClearConnected(r, num))
<1> DEFINE K == {k \in DOMAIN r.blocks : Num(r.blocks[k]) < num}
           del == Cardinality(K)
           v == SubSeq(r.blocks, del + 1, Len(r.blocks))
           q == [r EXCEPT !.completed = ClearOutdatedCompleted(r.completed, num), !.blocks = v]
<1>1. r.blocks \in Seq(BlkIds) /\ K \subseteq DOMAIN r.blocks
  BY NodeFields DEF BlkSeq
<1>2. PICK x \in DOMAIN r.blocks : r.blocks[x] = b
  BY DEF Has
<1>3. Num(b) \in Nat
  BY BlockFields DEF Num
<1>4. x \notin K
  BY <1>2, <1>3
<1> HIDE DEF K
<1>5. del \in Nat /\ del < Len(r.blocks)
  <2> DEFINE n == Len(r.blocks)
  <2>1. n \in Nat /\ DOMAIN r.blocks = 1..n /\ 1 <= n
    BY <1>1, <1>2
  <2>2. IsFiniteSet(1..n) /\ Cardinality(1..n) = n
    BY <2>1, FS_Interval
  <2>3. (1..n) \ {x} \subseteq 1..n /\ K \subseteq (1..n) \ {x} /\ x \in 1..n
    BY <1>1, <1>2, <1>4, <2>1
  <2>4. IsFiniteSet((1..n) \ {x}) /\ Cardinality((1..n) \ {x}) = n - 1
    BY <2>2, <2>3, FS_RemoveElement
  <2>5. Cardinality(K) <= Cardinality((1..n) \ {x}) /\ IsFiniteSet(K)
    BY <2>3, <2>4, FS_Subset
  <2> HIDE DEF n
  <2>6. Cardinality(K) \in Nat
    BY <2>5, FS_CardinalityType
  <2> QED BY <2>1, <2>4, <2>5, <2>6 DEF n
<1> HIDE DEF del
<1>6. v # <<>>
  <2> DEFINE l == r.blocks
  <2>1. l \in Seq(BlkIds) /\ del \in Nat /\ del < Len(l)
    BY <1>1, <1>5
  <2> HIDE DEF l
  <2>2. Len(SubSeq(l, del + 1, Len(l))) = Len(l) - del
    BY <2>1
  <2>3. Len(SubSeq(l, del + 1, Len(l))) # 0
    BY <2>1, <2>2
  <2> DEFINE w == SubSeq(l, del + 1, Len(l))
  <2>4. Len(w) # 0
    BY <2>3
  <2> HIDE DEF w
  <2>5. w # <<>>
    <3>1. SUFFICES ASSUME w = <<>> PROVE Len(w) = 0
      BY <2>4
    <3> QED BY <3>1
  <2> QED BY <2>5 DEF l, w
<1> HIDE DEF v
<1>7. Near(r, q) /\ q.blocks = v
  BY NodeShape DEF Near, Shape
<1>8. ClearConnected(r, num) = q
  BY DEF ClearConnected, v, del, K
<1> HIDE DEF q
<1>9. NodeOK(q)
  BY <1>6, <1>7, NearOK
<1> QED BY <1>7, <1>8, <1>9 DEF Near

\* Node.loop handles a head event: the next head is one above the last, so
\* ClearConnected runs only for a completed block above it that is held.
LEMMA NodeHeadEventOK ==
    ASSUME TypeOK, TypeOK', ChainInv, NEW i \in Sealer, NodeHeadEvent(i)
    PROVE  ChainInv'
<1> DEFINE r == node[i]
           old == Num(r.chain[r.evHead].blk)
           num == Num(r.chain[r.evHead + 1].blk)
           b   == StageBlock(GetNewestStateCompletedStage(r.completed))
           newest == IF b # 0 /\ Has(r.blocks, b) THEN Num(b) ELSE old
           r1  == IF ~r.live THEN r
                  ELSE IF num >= newest THEN Reset(r, num, TRUE) ELSE ClearConnected(r, num)
<1>1. /\ r.evHead < Len(r.chain)
      /\ node' = [node EXCEPT ![i] = [r1 EXCEPT !.evHead = @ + 1]]
      /\ UNCHANGED <<blk, stg>>
  BY DEF NodeHeadEvent
<1>2. HistoryOK /\ r \in NodeType /\ NodeOK(r) /\ Shape(r)
  BY NodeGood
<1>3. old = r.evHead /\ num = r.evHead + 1 /\ r.evHead \in Nat
  <2>1. r.chain \in Seq(EntryType) /\ r.evHead \in Nat \ {0}
    BY <1>2, NodeFields DEF ChainType, Position
  <2>2. r.evHead \in DOMAIN r.chain /\ r.evHead + 1 \in DOMAIN r.chain
    BY <1>1, <2>1
  <2> QED BY <1>2, <2>1, <2>2 DEF NodeOK, ChainOK
<1>4. b # 0 => b \in BlkIds
  <2>1. GetNewestStateCompletedStage(r.completed) \in 0..Len(stg)
    BY <1>2, NodeFields, NewestStageType DEF StgSet
  <2>2. b \in 0..Len(blk)
    BY <1>2, <2>1, StageBlockType
  <2> QED BY <1>2, <2>2, LengthsNat DEF BlkIds
<1>5. b # 0 => Num(b) \in Nat
  BY <1>2, <1>4, BlockFields DEF Num
<1> HIDE DEF r, old, num, b
<1>6. NodeOK(r1) /\ Shape(r1)
  <2>1. CASE ~r.live
    BY <1>2, <2>1
  <2>2. CASE r.live /\ num >= newest
    BY <1>2, <2>2, ResetOK
  <2>3. CASE r.live /\ ~(num >= newest)
    <3>1. b # 0 /\ Has(r.blocks, b) /\ Num(b) > num /\ num \in Int
      BY <1>3, <1>5, <2>3
    <3>2. NodeOK(ClearConnected(r, num)) /\ Shape(ClearConnected(r, num))
      BY <1>2, <1>4, <3>1, ClearConnectedOK
    <3> QED BY <2>3, <3>2
  <2> QED BY <2>1, <2>2, <2>3
<1> HIDE DEF r1
<1>7. NodeOK([r1 EXCEPT !.evHead = @ + 1])
  <2> DEFINE e == r1.evHead + 1
             q == [r1 EXCEPT !.evHead = e]
  <2> HIDE DEF e
  <2>1. Alike(r1, q)
    BY <1>6, AlikeSet
  <2> HIDE DEF q
  <2>2. NodeOK(q)
    BY <1>6, <2>1, AlikeOK
  <2> QED BY <2>2 DEF q, e
<1> QED BY <1>1, <1>7, SameStep

\* A clock tick and a restart.
LEMMA TickCrashOK ==
    ASSUME TypeOK, TypeOK', ChainInv, NEW i \in Sealer, Tick(i) \/ Crash(i)
    PROVE  ChainInv'
<1>1. ASSUME Tick(i) PROVE ChainInv'
  <2>1. node' = [node EXCEPT ![i] = [node[i] EXCEPT !.late = FALSE]] /\ UNCHANGED <<blk, stg>>
    BY <1>1 DEF Tick
  <2>2. NodeOK([node[i] EXCEPT !.late = FALSE])
    BY NodeGood, AlikeSet, AlikeOK
  <2> QED BY <2>1, <2>2, SameStep
<1>2. ASSUME Crash(i) PROVE ChainInv'
  <2> DEFINE q == FreshNode(node[i].chain)
  <2>1. node' = [node EXCEPT ![i] = q] /\ UNCHANGED <<blk, stg>>
    BY <1>2 DEF Crash
  <2>2. q.chain = node[i].chain /\ q.live = FALSE /\ q.mine = NOMINE /\ q.recv = <<>>
    BY DEF FreshNode
  <2> HIDE DEF q
  <2>3. NodeOK(q)
    BY <2>2, NodeGood DEF NodeOK, ResultOK, NOMINE
  <2> QED BY <2>1, <2>3, SameStep
<1> QED BY <1>1, <1>2

\* A proposal: its block is one above its parent and joins the list.
LEMMA ProposeOK ==
    ASSUME TypeOK, ChainInv, NEW i \in Sealer, NEW c, NEW failed \in BOOLEAN,
           node[i].work # 0, Propose(i, c, failed)
    PROVE  ChainInv'
<1> DEFINE b    == Len(blk) + 1
           p    == node[i].work
           view == GetCurrentViewID(i)
           new  == [num |-> Num(p) + 1, parent |-> p, sealer |-> i, slot |-> clock[i],
                    view |-> view, comp |-> c]
           r0   == CreateStateForNewConsensus(node[i], i, view)
           r1   == [r0 EXCEPT !.blocks = Append(@, b), !.busy = TRUE, !.work = 0,
                              !.mine = Sealing(b)]
           r2   == [r1 EXCEPT !.signed = Append(@, b), !.prim = i, !.stage = PRECFM,
                              !.view = view, !.msgHash = <<PRE, b>>, !.replies = {i}]
           r3   == [r1 EXCEPT !.stage = IDLE]
<1>1. HistoryOK /\ Heights /\ node[i] \in NodeType /\ NodeOK(node[i])
  BY NodeGood
<1>2. p \in BlkIds /\ view \in Nat
  BY <1>1, NodeFields, MaybeBlkType, ViewNat
<1>3. blk' = Append(blk, new) /\ stg' = stg /\ node' = [node EXCEPT ![i] = IF failed THEN r3 ELSE r2]
  BY DEF Propose
<1>4. /\ \A x \in BlkIds : blk'[x] = blk[x]
      /\ blk'[b] = new /\ \A x \in BlkIds' : x \in BlkIds \/ x = b
  BY <1>1, <1>3 DEF HistoryOK, BlkIds
<1>5. Grown
  BY <1>3, <1>4 DEF Grown
<1>6. Heights'
  <2>1. new.parent = p /\ new.num = Num(p) + 1
    OBVIOUS
  <2> HIDE DEF new, b
  <2>2. ASSUME NEW x \in BlkIds', blk'[x].parent # 0
        PROVE  blk'[x].num = blk'[blk'[x].parent].num + 1
    <3>1. CASE x \in BlkIds
      <4>1. blk[x].parent \in BlkIds
        <5>1. blk[x].parent \in 0..Len(blk) /\ blk[x].parent # 0
          BY <1>1, <1>4, <2>2, <3>1, BlockFields
        <5> QED BY <1>1, <5>1, LengthsNat DEF BlkIds
      <4> QED BY <1>1, <1>4, <2>2, <3>1, <4>1 DEF Heights, Num
    <3>2. CASE x = b
      BY <1>2, <1>4, <2>1, <3>2 DEF Num
    <3> QED BY <1>4, <3>1, <3>2
  <2> QED BY <2>2 DEF Heights, Num
<1> HIDE DEF b, p, view
<1>7. r0 \in NodeType /\ Near(node[i], r0)
  BY <1>1, <1>2, CreateStateType, CreateNear
<1> HIDE DEF r0
<1>8. /\ Shape(r1) /\ r1.chain = node[i].chain /\ r1.recv = node[i].recv /\ r1.mine = Sealing(b)
      /\ r1.blocks # <<>>
  <2>1. Shape(r1) /\ r1.chain = r0.chain /\ r1.recv = r0.recv /\ r1.mine = Sealing(b)
        /\ r1.blocks = Append(r0.blocks, b)
    BY <1>7 DEF Near, Shape
  <2> QED BY <1>7, <2>1, AppendHolds DEF Near
<1> HIDE DEF r1
<1>9. Alike(r1, r2) /\ Alike(r1, r3)
  BY <1>8 DEF Alike, Near, Shape
<1> HIDE DEF r2, r3
<1>10. NodeOK(r1) /\ r1.mine.code = "none"
  BY <1>1, <1>8 DEF NodeOK, ResultOK, Sealing
<1>11. NodeOK(r2) /\ NodeOK(r3)
  BY <1>9, <1>10, AlikeOK
<1>12. Rooted(r1)
  BY <1>1, <1>8, <1>10, TypedRooted DEF Rooted
<1>13. Rooted(r2) /\ Rooted(r3)
  BY <1>9, <1>12 DEF Rooted, Alike, Near
<1>14. PICK q \in {r2, r3} : node' = [node EXCEPT ![i] = q]
  BY <1>3
<1> QED BY <1>5, <1>6, <1>11, <1>13, <1>14, OKStep

\* The base block alone is a chain.
LEMMA ChainInit ==
    ASSUME Init
    PROVE  ChainInv
<1> DEFINE e == Entry(1, <<1, 2>>, 1)
<1>1. e.blk = 1 /\ e.s0 = 1 /\ e.s1 = 2
  BY DEF Entry
<1>2. blk[1].num = 1 /\ blk[1].parent = 0 /\ BlkIds = {1} /\ stg[2].parent = 1
  BY DEF Init, BaseBlock, BaseStage, BlkIds
<1>3. Heights
  BY <1>2 DEF Heights
<1>4. \A i \in Sealer : node[i] = FreshNode(<<e>>)
  BY DEF Init
<1> HIDE DEF e
<1>5. ChainOK(<<e>>)
  BY <1>1, <1>2 DEF ChainOK, Num
<1>6. /\ FreshNode(<<e>>).chain = <<e>> /\ FreshNode(<<e>>).live = FALSE
      /\ FreshNode(<<e>>).mine = NOMINE /\ FreshNode(<<e>>).recv = <<>>
  BY DEF FreshNode
<1>7. NodeOK(FreshNode(<<e>>))
  BY <1>5, <1>6 DEF NodeOK, ResultOK, NOMINE
<1> QED BY <1>3, <1>4, <1>7 DEF ChainInv

\* Every step keeps chains and block lists.
LEMMA NextChains ==
    ASSUME TypeOK, ChainInv, [Next]_vars
    PROVE  ChainInv'
<1>1. TypeOK'
  BY NextTypes
<1>2. CASE UNCHANGED <<blk, stg, node>>
  BY <1>2 DEF ChainInv, Heights, NodeOK, ChainOK, ResultOK, Num, BlkIds, Sealer
<1>3. ASSUME NEW i \in Sealer, Collector(i) PROVE ChainInv'
  BY <1>1, <1>3, CollectOK, QuorumOK DEF Collector
<1>4. ASSUME NEW i \in Sealer, Thread(i) PROVE ChainInv'
  BY <1>1, <1>4, MineReturnOK, MineAbortOK, WaitOK, CommitOK, NodeHeadEventOK DEF Thread
<1>5. ASSUME NEW i \in Sealer, Miner(i) PROVE ChainInv'
  <2>1. ASSUME Request(i) PROVE ChainInv'
    <3>1. node[i].work # 0
      BY <2>1 DEF Request, Waiting
    <3>2. \E c : Propose(i, c, TRUE) \/ Propose(i, c, FALSE)
      BY <2>1 DEF Request
    <3> QED BY <3>1, <3>2, ProposeOK
  <2> QED BY <1>1, <1>5, <2>1, MineFutureOK DEF Miner
<1>6. ASSUME NEW i \in Sealer, Lose(i, {"pre", "conf", "reply"}) PROVE ChainInv'
  BY <1>2, <1>6 DEF Lose
<1>7. CASE UNCHANGED vars
  BY <1>2, <1>7 DEF vars
<1> QED
  BY <1>1, <1>3, <1>4, <1>5, <1>6, <1>7, DeliverOK, ChainSyncOK, SealDoneOK, SealTimeoutOK,
     TickCrashOK DEF Next

\* Every chain is a path of parents with one block per height, each with two
\* adjacent stages signed by a quorum (ChainLinked): for every number of
\* sealers, whatever ConnectBlock and insertChain cut off and whatever stages
\* are exchanged.
THEOREM ChainsAlwaysLinked == Spec => []ChainLinked
<1>1. Init => TypeOK /\ StagesSigned /\ ChainInv
  BY InitTypes, InitSigned, ChainInit
<1>2. TypeOK /\ StagesSigned /\ ChainInv /\ [Next]_vars => TypeOK' /\ StagesSigned' /\ ChainInv'
  BY NextTypes, NextSigned, NextChains
<1>3. TypeOK /\ StagesSigned /\ ChainInv => ChainLinked
  <2> SUFFICES ASSUME TypeOK, StagesSigned, ChainInv, NEW i \in Sealer,
                      NEW k \in DOMAIN node[i].chain
               PROVE  LET e == node[i].chain[k]
                      IN  /\ Num(e.blk) = k
                          /\ k > 1 => blk[e.blk].parent = node[i].chain[k - 1].blk
                          /\ stg[e.s1].parent = e.s0
                          /\ \A s \in {e.s0, e.s1} : Cardinality(stg[s].signs) >= Quorum
    BY DEF ChainLinked
  <2>1. node[i].chain[k] \in EntryType
    BY NodeTyped, HeadType
  <2>2. ChainOK(node[i].chain)
    BY DEF ChainInv, NodeOK
  <2> QED BY <2>1, <2>2 DEF ChainOK, EntryType, StagesSigned
<1> QED BY <1>1, <1>2, <1>3, PTL DEF Spec

\* A state that exists has a block (BlocksHeld), so Reset never slices an
\* empty list, although ClearConnected cuts blocks by their number.
THEOREM ResetNeverEmpty == Spec => []BlocksHeld
<1>1. Init => TypeOK /\ ChainInv
  BY InitTypes, ChainInit
<1>2. TypeOK /\ ChainInv /\ [Next]_vars => TypeOK' /\ ChainInv'
  BY NextTypes, NextChains
<1>3. TypeOK /\ ChainInv => BlocksHeld
  BY DEF ChainInv, NodeOK, BlocksHeld
<1> QED BY <1>1, <1>2, <1>3, PTL DEF Spec
=============================================================================
