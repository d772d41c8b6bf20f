----------------------------- MODULE LampProofs -----------------------------
(***************************************************************************)
(* What election blocks are made of, for every value of the constants: the *)
(* verified header pools (VerifiedHeaders), the election pools             *)
(* (ElectionPool) and the miner that is started and stopped (MinerControl).*)
(*                                                                         *)
(* NewestHeld needs that everything in valid has its confirmations.        *)
(* SignedByPolice counts officers where the code counts signatures: it     *)
(* needs that nobody's signature is twice in a pool, which holds when no   *)
(* result reaches a pool twice (Duplicates = FALSE), and that follows a    *)
(* result through AddVerified from its check to the lists.                 *)
(*                                                                         *)
(* JournalKeeps needs that a journal holds elections of its own kind only, *)
(* or loading one would make others pending, and what a fold over a list   *)
(* keeps.  StopFindsLoop needs that a loop receives exactly while its stop *)
(* channel is there.                                                       *)
(***************************************************************************)
EXTENDS LampElections, WellFoundedInduction, FiniteSetTheorems, FunctionTheorems, SequenceTheorems, TLAPS

\* Lists of signatures, headers of election blocks, results and calls of AddVerified.
Signs == Seq(Officer)
Val   == [num : 0..MaxNum, lamp : 0..MaxTerm, from : 0..MaxNum, signs : Signs]
Res   == [num : 1..MaxNum, lamp : 1..MaxTerm, from : 0..MaxNum, officer : Officer]
Add   == [to : Miner, r : Res]

\* A pool maps headers to lists of signatures.
IsPool(f) == DOMAIN f \subseteq HeaderKey /\ \A k \in DOMAIN f : f[k] \in Signs

\* The chains and the calls under way have their types.
ChainTypes ==
    /\ chain \in Seq(Val) /\ Len(chain) \in 1..MaxTerm
    /\ ele \in Seq(1..MaxTerm) /\ Len(ele) <= MaxNum
    /\ adds \subseteq Add
    /\ work \in [Miner -> SUBSET Val]
    /\ refused \in BOOLEAN

\* ... and so have the pools.
PoolTypes ==
    /\ DOMAIN pending = Miner /\ DOMAIN valid = Miner
    /\ newest \in [Miner -> 0..MaxNum]
    /\ \A m \in Miner : IsPool(pending[m]) /\ IsPool(valid[m])

\* What is in valid has its confirmations, and newest is in it.
Confirmed  == \A m \in Miner : \A k \in DOMAIN valid[m] : Len(valid[m][k]) > Half
NewestThere == \A m \in Miner : newest[m] # 0 => \E k \in DOMAIN valid[m] : k.num = newest[m]

\* The inductive invariant for NewestHeld.
PoolInv == ChainTypes /\ PoolTypes /\ Confirmed /\ NewestThere

-----------------------------------------------------------------------------
\* The first election block has the type of all.
LEMMA NilValType == NilVal \in Val /\ NilVal.signs = <<>> /\ NilVal.num = 0
<1>1. <<>> \in Signs
  BY DEF Signs
<1> QED
  BY <1>1, HeadersAssumption DEF NilVal, Val

\* A pool without headers.
LEMMA NoHeadersPool == DOMAIN NoHeaders = {} /\ IsPool(NoHeaders)
BY DEF NoHeaders, IsPool

\* What Put does to a pool: one header more, or another list for one.
LEMMA PutPool ==
    ASSUME NEW f, IsPool(f), NEW k \in HeaderKey, NEW s \in Signs
    PROVE  /\ IsPool(Put(f, k, s))
           /\ DOMAIN Put(f, k, s) = DOMAIN f \cup {k}
           /\ \A x \in DOMAIN Put(f, k, s) : Put(f, k, s)[x] = IF x = k THEN s ELSE f[x]
BY DEF Put, IsPool

\* The key of a result and its officer.
LEMMA KeyType ==
    ASSUME NEW a \in Add
    PROVE  /\ a.to \in Miner /\ a.r \in Res /\ a.r.officer \in Officer /\ a.r.num \in 1..MaxNum
           /\ Key(a.r) \in HeaderKey /\ Key(a.r).num = a.r.num
BY DEF Add, Res, Key, HeaderKey

\* A list with one more signature.
LEMMA OneMoreSign ==
    ASSUME NEW s \in Signs, NEW o \in Officer
    PROVE  /\ Append(s, o) \in Signs
           /\ Len(s) \in Nat /\ Len(Append(s, o)) = Len(s) + 1
           /\ DOMAIN s = 1..Len(s) /\ DOMAIN Append(s, o) = 1..(Len(s) + 1)
           /\ \A i \in 1..Len(s) : Append(s, o)[i] = s[i]
           /\ Append(s, o)[Len(s) + 1] = o
BY AppendProperties DEF Signs

\* The lists AddVerified appends to.
LEMMA SignsOfType ==
    ASSUME NEW f, IsPool(f), NEW k
    PROVE  SignsOf(f, k) \in Signs
BY DEF SignsOf, IsPool, Signs

\* Nothing is in the pools in the beginning.
LEMMA PoolInit == Init => PoolInv
<1> SUFFICES ASSUME Init PROVE PoolInv
  OBVIOUS
<1>1. chain \in Seq(Val) /\ Len(chain) \in 1..MaxTerm
  <2>1. chain = <<NilVal>> /\ NilVal \in Val
    BY NilValType DEF Init
  <2> HIDE DEF Val
  <2> QED
    BY <2>1, HeadersAssumption
<1>2. ele \in Seq(1..MaxTerm) /\ Len(ele) <= MaxNum
  BY HeadersAssumption DEF Init
<1>3. ChainTypes
  BY <1>1, <1>2 DEF ChainTypes, Init
<1>4. \A m \in Miner : pending[m] = NoHeaders /\ valid[m] = NoHeaders /\ newest[m] = 0
  BY DEF Init
<1>5. PoolTypes
  BY <1>4, NoHeadersPool, HeadersAssumption DEF PoolTypes, Init
<1>6. Confirmed /\ NewestThere
  BY <1>4, NoHeadersPool DEF Confirmed, NewestThere
<1> QED
  BY <1>3, <1>5, <1>6 DEF PoolInv

\* AddVerified: a header comes into valid with more than Half confirmations,
\* and newest with it.
LEMMA AddVerifiedPools ==
    ASSUME PoolInv, NEW a \in adds, AddVerified(a)
    PROVE  PoolTypes' /\ Confirmed' /\ NewestThere'
<1> DEFINE m == a.to
           k == Key(a.r)
           s == SignsOf(pending[m], k)
           signs == Append(s, a.r.officer)
           vs == IF k \in DOMAIN valid[m] THEN Append(valid[m][k], a.r.officer) ELSE signs
<1>1. /\ a \in Add /\ m \in Miner /\ a.r.officer \in Officer /\ k \in HeaderKey
      /\ k.num = a.r.num /\ a.r.num \in 1..MaxNum
  BY KeyType DEF PoolInv, ChainTypes
<1>2. IsPool(pending[m]) /\ IsPool(valid[m])
  BY <1>1 DEF PoolInv, PoolTypes
<1>3. signs \in Signs
  BY <1>1, <1>2, SignsOfType, OneMoreSign
<1>4. vs \in Signs /\ (Len(signs) > Half => Len(vs) > Half)
  <2>1. CASE k \in DOMAIN valid[m]
    <3>1. valid[m][k] \in Signs /\ Len(valid[m][k]) > Half
      BY <1>1, <1>2, <2>1 DEF IsPool, PoolInv, Confirmed
    <3>2. /\ Append(valid[m][k], a.r.officer) \in Signs
          /\ Len(Append(valid[m][k], a.r.officer)) = Len(valid[m][k]) + 1
          /\ Len(valid[m][k]) \in Nat
      BY <3>1, <1>1, OneMoreSign
    <3> HIDE DEF m, k
    <3> QED
      BY <2>1, <3>1, <3>2, HeadersAssumption
  <2>2. CASE k \notin DOMAIN valid[m]
    BY <2>2, <1>3
  <2> QED
    BY <2>1, <2>2
<1>5. /\ pending' = [pending EXCEPT ![m] = Put(pending[m], k, signs)]
      /\ \/ Len(signs) > Half /\ valid' = [valid EXCEPT ![m] = Put(valid[m], k, vs)]
                              /\ newest' = [newest EXCEPT ![m] = a.r.num]
         \/ valid' = valid /\ newest' = newest
  BY DEF AddVerified
<1> HIDE DEF m, k, s, signs, vs
<1>6. IsPool(Put(pending[m], k, signs)) /\ IsPool(Put(valid[m], k, vs))
  BY <1>1, <1>2, <1>3, <1>4, PutPool
<1>7. /\ DOMAIN Put(valid[m], k, vs) = DOMAIN valid[m] \cup {k}
      /\ \A x \in DOMAIN Put(valid[m], k, vs) : Put(valid[m], k, vs)[x] = IF x = k THEN vs ELSE valid[m][x]
  BY DEF Put
<1>8. PoolTypes'
  BY <1>1, <1>5, <1>6 DEF PoolInv, PoolTypes
<1>9. CASE valid' = valid /\ newest' = newest
  BY <1>8, <1>9 DEF PoolInv, Confirmed, NewestThere
<1>10. CASE /\ Len(signs) > Half /\ valid' = [valid EXCEPT ![m] = Put(valid[m], k, vs)]
            /\ newest' = [newest EXCEPT ![m] = a.r.num]
  <2>1. \A x \in Miner : /\ valid'[x] = IF x = m THEN Put(valid[m], k, vs) ELSE valid[x]
                         /\ newest'[x] = IF x = m THEN a.r.num ELSE newest[x]
    BY <1>10 DEF PoolInv, PoolTypes
  <2>2. Confirmed'
    BY <1>4, <1>7, <1>10, <2>1 DEF PoolInv, Confirmed
  <2>3. NewestThere'
    BY <1>1, <1>7, <2>1 DEF PoolInv, NewestThere
  <2> QED
    BY <1>8, <2>2, <2>3
<1> QED
  BY <1>5, <1>8, <1>9, <1>10

\* What Verified returns has the type of an election block.
LEMMA VerifiedType ==
    ASSUME PoolInv, NEW m \in Miner, NEW v \in Verified(m)
    PROVE  v \in Val
<1>1. Last \in Val
  <2>1. chain \in Seq(Val) /\ Len(chain) \in DOMAIN chain
    BY HeadersAssumption DEF PoolInv, ChainTypes
  <2> HIDE DEF Val
  <2> QED
    BY <2>1, ElementOfSeq DEF Last, Term
<1>2. ASSUME NEW k \in DOMAIN valid[m]
      PROVE  [num |-> k.num, lamp |-> k.lamp, from |-> k.from, signs |-> valid[m][k]] \in Val
  <2>1. k \in HeaderKey /\ valid[m][k] \in Signs
    BY DEF PoolInv, PoolTypes, IsPool
  <2> HIDE DEF Signs
  <2>2. k.num \in 0..MaxNum /\ k.lamp \in 0..MaxTerm /\ k.from \in 0..MaxNum
    BY <2>1, HeadersAssumption DEF HeaderKey
  <2> QED
    BY <2>1, <2>2 DEF Val
<1> QED
  BY <1>1, <1>2 DEF Verified, Highest

\* A result that reaches a pool has the type of one.
LEMMA ResultType ==
    ASSUME PoolInv, NEW m \in Miner, NEW n \in DOMAIN ele, NEW o \in Police[ele[n]], NEW t \in 1..Term
    PROVE  [to |-> m, r |-> Result(o, n, t)] \in Add
<1>1. n \in 1..MaxNum /\ ele[n] \in 1..MaxTerm
  BY HeadersAssumption DEF PoolInv, ChainTypes
<1>2. o \in Officer
  BY <1>1, HeadersAssumption
<1>3. chain[t] \in Val
  <2>1. chain \in Seq(Val) /\ t \in DOMAIN chain
    BY HeadersAssumption DEF PoolInv, ChainTypes, Term
  <2> HIDE DEF Val
  <2> QED
    BY <2>1, ElementOfSeq
<1>4. chain[t].num \in 0..MaxNum
  BY <1>3 DEF Val
<1> QED
  BY <1>1, <1>2, <1>4 DEF Result, Add, Res

\* ClearSharding: a pool is emptied, newest with it, or left alone.
LEMMA ClearPools ==
    ASSUME PoolInv, NEW m \in Miner, NEW v, ClearSharding(m, v)
    PROVE  PoolTypes' /\ Confirmed' /\ NewestThere'
<1>1. CASE UNCHANGED pools
  BY <1>1 DEF pools, PoolInv, PoolTypes, Confirmed, NewestThere
<1>2. CASE /\ pending' = [pending EXCEPT ![m] = NoHeaders]
           /\ valid' = [valid EXCEPT ![m] = NoHeaders]
           /\ newest' = [newest EXCEPT ![m] = 0]
  <2>1. \A x \in Miner : /\ pending'[x] = IF x = m THEN NoHeaders ELSE pending[x]
                         /\ valid'[x] = IF x = m THEN NoHeaders ELSE valid[x]
                         /\ newest'[x] = IF x = m THEN 0 ELSE newest[x]
    BY <1>2 DEF PoolInv, PoolTypes
  <2>2. PoolTypes'
    BY <1>2, <2>1, NoHeadersPool, HeadersAssumption DEF PoolInv, PoolTypes
  <2>3. Confirmed' /\ NewestThere'
    BY <2>1, NoHeadersPool DEF PoolInv, Confirmed, NewestThere
  <2> QED
    BY <2>2, <2>3
<1> QED
  BY <1>1, <1>2 DEF ClearSharding

\* The chain with one election block more.
LEMMA OneMoreBlock ==
    ASSUME PoolInv, NEW v \in Val, chain' = Append(chain, v), Term < MaxTerm
    PROVE  /\ chain' \in Seq(Val) /\ Len(chain') = Len(chain) + 1 /\ Len(chain') \in 1..MaxTerm
           /\ \A t \in 1..Len(chain) : chain'[t] = chain[t]
           /\ chain'[Len(chain) + 1] = v
<1>1. chain \in Seq(Val) /\ Len(chain) \in 1..MaxTerm
  BY DEF PoolInv, ChainTypes
<1> HIDE DEF Val
<1>2. /\ chain' \in Seq(Val) /\ Len(chain') = Len(chain) + 1
      /\ \A t \in 1..Len(chain) : chain'[t] = chain[t]
      /\ chain'[Len(chain) + 1] = v
  BY <1>1, AppendProperties
<1> QED
  BY <1>1, <1>2, HeadersAssumption DEF Term

\* Every step keeps types, confirmations and newest.
LEMMA PoolNext == PoolInv /\ [Next]_vars => PoolInv'
<1> SUFFICES ASSUME PoolInv, [Next]_vars PROVE PoolInv'
  OBVIOUS
<1> USE DEF PoolInv
<1>1. ASSUME UNCHANGED pools PROVE PoolTypes' /\ Confirmed' /\ NewestThere'
  BY <1>1 DEF pools, PoolTypes, Confirmed, NewestThere
<1>2. CASE EleBlock
  <2>1. Append(ele, Term) \in Seq(1..MaxTerm) /\ Len(Append(ele, Term)) <= MaxNum
    BY <1>2, HeadersAssumption DEF EleBlock, ChainTypes, Term
  <2> QED
    BY <1>1, <1>2, <2>1 DEF EleBlock, ChainTypes
<1>3. ASSUME NEW m \in Miner, AddCheck(m) PROVE PoolInv'
  <2>1. adds' \subseteq Add
    BY <1>3, ResultType DEF AddCheck, ChainTypes
  <2> QED
    BY <1>1, <1>3, <2>1 DEF AddCheck, ChainTypes
<1>4. ASSUME NEW a \in adds, AddVerified(a) PROVE PoolInv'
  <2>1. ChainTypes'
    BY <1>4 DEF AddVerified, ChainTypes
  <2> QED
    BY <1>4, <2>1, AddVerifiedPools
<1>5. ASSUME NEW m \in Miner, CommitNewWork(m) PROVE PoolInv'
  <2>1. work' \in [Miner -> SUBSET Val]
    BY <1>5, VerifiedType DEF CommitNewWork, ChainTypes
  <2> QED
    BY <1>1, <1>5, <2>1 DEF CommitNewWork, ChainTypes
<1>6. ASSUME NEW m \in Miner, Mine(m) PROVE PoolInv'
  <2>1. PICK v \in work[m] : Term < MaxTerm /\ chain' = Append(chain, v) /\ ClearSharding(m, v)
    BY <1>6 DEF Mine
  <2>2. v \in Val
    BY <2>1 DEF ChainTypes
  <2>3. chain' \in Seq(Val) /\ Len(chain') \in 1..MaxTerm
    BY <2>1, <2>2, OneMoreBlock
  <2>4. ChainTypes'
    BY <1>6, <2>3 DEF Mine, ChainTypes
  <2> QED
    BY <2>1, <2>4, ClearPools
<1>7. ASSUME NEW m \in Miner, MineRefused(m) PROVE PoolInv'
  BY <1>1, <1>7 DEF MineRefused, ChainTypes
<1>8. CASE UNCHANGED vars
  BY <1>1, <1>8 DEF vars, pools, ChainTypes
<1> QED
  BY <1>2, <1>3, <1>4, <1>5, <1>6, <1>7, <1>8 DEF Next

\* A pool that has a newest header holds it in valid with more than Half
\* confirmations (NewestHeld), whatever AddVerified, Verified and
\* ClearSharding do to it and in whatever order.
THEOREM PoolKeepsNewest == Spec => []NewestHeld
<1>1. PoolInv => NewestHeld
  BY DEF PoolInv, Confirmed, NewestThere, NewestHeld
<1> QED
  BY <1>1, PoolInit, PoolNext, PTL DEF Spec

-----------------------------------------------------------------------------
(* Signatures and signers.                                                 *)

\* Nobody is twice in a list of signatures.
Distinct(s) == \A i, j \in DOMAIN s : s[i] = s[j] => i = j

\* The result with key k that officer o sent to miner m has come and is done.
ResultOf(m, k, o) ==
    [to |-> m, r |-> [num |-> k.num, lamp |-> k.lamp, from |-> k.from, officer |-> o]]
Done(m, k, o) == ResultOf(m, k, o) \in got /\ ResultOf(m, k, o) \notin adds

\* Nobody has signed twice in f, and who has signed is through.
OnceIn(f, m) ==
    \A k \in DOMAIN f : Distinct(f[k]) /\ \A i \in DOMAIN f[k] : Done(m, k, f[k][i])

\* The same after a step, of a pool that is given.
OnceThen(f, m) ==
    \A k \in DOMAIN f : /\ Distinct(f[k])
                        /\ \A i \in DOMAIN f[k] : /\ ResultOf(m, k, f[k][i]) \in got'
                                                  /\ ResultOf(m, k, f[k][i]) \notin adds'

\* Nobody has signed twice, in a pool or in an election block.
PoolOnce  == adds \subseteq got /\ \A m \in Miner : OnceIn(pending[m], m) /\ OnceIn(valid[m], m)
BlockOnce == /\ \A t \in 1..Len(chain) : Distinct(chain[t].signs)
             /\ \A m \in Miner : \A v \in work[m] : Distinct(v.signs)

\* The inductive invariant for SignedByPolice.
SignInv == PoolInv /\ PoolOnce /\ BlockOnce /\ SignedByPolice

\* A list without repetitions has as many members of a set P as places with
\* one.
LEMMA PlacesAreSigners ==
    ASSUME NEW s \in Signs, Distinct(s), NEW P
    PROVE  Cardinality({i \in DOMAIN s : s[i] \in P}) = Cardinality({s[i] : i \in DOMAIN s} \cap P)
<1> DEFINE I == {i \in DOMAIN s : s[i] \in P}
           R == {s[i] : i \in DOMAIN s} \cap P
           f == [i \in I |-> s[i]]
<1>1. IsFiniteSet(I)
  <2>1. Len(s) \in Nat /\ DOMAIN s = 1..Len(s)
    BY LenProperties DEF Signs
  <2>2. IsFiniteSet(1..Len(s))
    BY <2>1, FS_Interval
  <2> QED
    BY <2>1, <2>2, FS_Subset
<1>2. f \in Bijection(I, R)
  <2>1. f \in [I -> R]
    OBVIOUS
  <2>2. \A i, j \in I : f[i] = f[j] => i = j
    BY DEF Distinct
  <2>3. \A o \in R : \E i \in I : f[i] = o
    OBVIOUS
  <2> HIDE DEF I, R, f
  <2> QED
    BY <2>1, <2>2, <2>3, Fun_IsBij
<1>3. Cardinality(I) = Cardinality(R)
  BY <1>1, <1>2, FS_Bijection DEF ExistsBijection
<1> QED
  BY <1>3

\* A signature that is not in a list yet makes no repetition.
LEMMA DistinctAppend ==
    ASSUME NEW s \in Signs, Distinct(s), NEW o \in Officer, \A i \in DOMAIN s : s[i] # o
    PROVE  Distinct(Append(s, o))
<1>1. /\ Len(s) \in Nat
      /\ DOMAIN s = 1..Len(s) /\ DOMAIN Append(s, o) = 1..(Len(s) + 1)
      /\ \A i \in 1..Len(s) : Append(s, o)[i] = s[i]
      /\ Append(s, o)[Len(s) + 1] = o
  BY OneMoreSign
<1> SUFFICES ASSUME NEW i \in 1..(Len(s) + 1), NEW j \in 1..(Len(s) + 1),
                    Append(s, o)[i] = Append(s, o)[j]
             PROVE  i = j
  BY <1>1 DEF Distinct
<1>2. CASE i \in 1..Len(s) /\ j \in 1..Len(s)
  BY <1>1, <1>2 DEF Distinct
<1>3. CASE i \notin 1..Len(s) \/ j \notin 1..Len(s)
  <2>1. \A x \in 1..(Len(s) + 1) : x \notin 1..Len(s) => x = Len(s) + 1
    BY <1>1
  <2> QED
    BY <1>1, <1>3, <2>1
<1> QED
  BY <1>2, <1>3

\* The result being added is the one its key and officer name.
LEMMA ResultOfKey ==
    ASSUME NEW a \in Add
    PROVE  ResultOf(a.to, Key(a.r), a.r.officer) = a
BY DEF Add, Res, ResultOf, Key

\* Nothing is signed in the beginning.
LEMMA SignInit == Init => SignInv
<1> SUFFICES ASSUME Init PROVE SignInv
  OBVIOUS
<1>1. \A m \in Miner : DOMAIN pending[m] = {} /\ DOMAIN valid[m] = {} /\ work[m] = {}
  BY NoHeadersPool DEF Init
<1>2. PoolOnce
  BY <1>1 DEF PoolOnce, OnceIn, Init
<1>3. Len(chain) = 1 /\ chain[1] = NilVal
  BY DEF Init
<1>4. BlockOnce
  <2>1. Distinct(NilVal.signs)
    BY NilValType DEF Distinct
  <2> QED
    BY <1>1, <1>3, <2>1 DEF BlockOnce
<1>5. SignedByPolice
  BY <1>3 DEF SignedByPolice, Term
<1> QED
  BY <1>2, <1>4, <1>5, PoolInit DEF SignInv

\* A pool whose results are all done stays so while none of them comes again.
LEMMA OnceStays ==
    ASSUME NEW f, NEW m, OnceIn(f, m), got \subseteq got', adds' \cap got \subseteq adds
    PROVE  OnceThen(f, m)
BY DEF OnceIn, OnceThen, Done

\* What is to be shown of a step.
LEMMA OnceAfter ==
    ASSUME adds' \subseteq got',
           \A m \in Miner : OnceThen(pending'[m], m) /\ OnceThen(valid'[m], m)
    PROVE  PoolOnce'
BY DEF OnceThen, PoolOnce, OnceIn, Done

\* AddVerified: the officer of the result is not in the lists of its key yet,
\* as the result is not done.
LEMMA AddVerifiedOnce ==
    ASSUME SignInv, NEW a \in adds, AddVerified(a)
    PROVE  PoolOnce'
<1> DEFINE m == a.to
           k == Key(a.r)
           o == a.r.officer
<1>1. a \in Add /\ m \in Miner /\ o \in Officer /\ k \in HeaderKey
  BY KeyType DEF SignInv, PoolInv, ChainTypes
<1>2. ResultOf(m, k, o) = a /\ a \in got
  BY <1>1, ResultOfKey DEF SignInv, PoolOnce
<1>3. adds' = adds \ {a} /\ got' = got
  BY DEF AddVerified
<1>4. ASSUME NEW f, IsPool(f), OnceIn(f, m), NEW s \in Signs, Distinct(s),
             \A i \in DOMAIN s : Done(m, k, s[i])
      PROVE  OnceThen(Put(f, k, Append(s, o)), m)
  <2>1. \A i \in DOMAIN s : s[i] # o
    BY <1>2, <1>4 DEF Done
  <2>2. Distinct(Append(s, o))
    BY <1>1, <1>4, <2>1, DistinctAppend
  <2>3. \A i \in DOMAIN Append(s, o) : Append(s, o)[i] = o \/ \E j \in DOMAIN s : Append(s, o)[i] = s[j]
    <3>1. /\ Len(s) \in Nat
          /\ DOMAIN s = 1..Len(s) /\ DOMAIN Append(s, o) = 1..(Len(s) + 1)
          /\ \A i \in 1..Len(s) : Append(s, o)[i] = s[i]
          /\ Append(s, o)[Len(s) + 1] = o
      BY <1>1, <1>4, OneMoreSign
    <3>2. \A i \in 1..(Len(s) + 1) : i \in 1..Len(s) \/ i = Len(s) + 1
      BY <3>1
    <3> QED
      BY <3>1, <3>2
  <2> DEFINE Then(x, y) == ResultOf(m, x, y) \in got' /\ ResultOf(m, x, y) \notin adds'
  <2>4. Then(k, o) /\ \A x, y : Done(m, x, y) => Then(x, y)
    BY <1>2, <1>3 DEF Done
  <2> HIDE DEF Then
  <2>5. \A i \in DOMAIN Append(s, o) : Then(k, Append(s, o)[i])
    BY <1>4, <2>3, <2>4
  <2> DEFINE g == Put(f, k, Append(s, o))
  <2>6. DOMAIN g = DOMAIN f \cup {k} /\ \A x \in DOMAIN g : g[x] = IF x = k THEN Append(s, o) ELSE f[x]
    BY DEF Put
  <2> HIDE DEF g
  <2>7. ASSUME NEW x \in DOMAIN g PROVE Distinct(g[x]) /\ \A i \in DOMAIN g[x] : Then(x, g[x][i])
    BY <1>4, <2>2, <2>4, <2>5, <2>6, <2>7 DEF OnceIn
  <2> QED
    BY <2>7 DEF OnceThen, Then, g
<1>5. \A x \in Miner : IsPool(pending[x]) /\ IsPool(valid[x]) /\ OnceIn(pending[x], x) /\ OnceIn(valid[x], x)
  BY DEF SignInv, PoolInv, PoolTypes, PoolOnce
<1>6. \A x \in Miner : OnceThen(pending[x], x) /\ OnceThen(valid[x], x)
  BY <1>3, <1>5, OnceStays
<1> DEFINE s == SignsOf(pending[m], k)
           v == IF k \in DOMAIN valid[m] THEN valid[m][k] ELSE s
<1>7. s \in Signs /\ Distinct(s) /\ \A i \in DOMAIN s : Done(m, k, s[i])
  <2>1. s \in Signs
    BY <1>1, <1>5, SignsOfType
  <2>2. CASE k \in DOMAIN pending[m]
    BY <1>1, <1>5, <2>1, <2>2 DEF SignsOf, OnceIn
  <2>3. CASE k \notin DOMAIN pending[m]
    <3>1. s = <<>>
      BY <2>3 DEF SignsOf
    <3> QED
      BY <2>1, <3>1 DEF Distinct
  <2> QED
    BY <2>2, <2>3
<1>8. v \in Signs /\ Distinct(v) /\ \A i \in DOMAIN v : Done(m, k, v[i])
  BY <1>1, <1>5, <1>7 DEF IsPool, OnceIn
<1>9. /\ pending' = [pending EXCEPT ![m] = Put(pending[m], k, Append(s, o))]
      /\ \/ valid' = [valid EXCEPT ![m] = Put(valid[m], k, Append(v, o))]
         \/ valid' = valid
  BY DEF AddVerified
<1> HIDE DEF m, k, o, s, v
<1>10. OnceThen(Put(pending[m], k, Append(s, o)), m) /\ OnceThen(Put(valid[m], k, Append(v, o)), m)
  BY <1>1, <1>4, <1>5, <1>7, <1>8
<1>11. \A x \in Miner : /\ pending'[x] = IF x = m THEN Put(pending[m], k, Append(s, o)) ELSE pending[x]
                        /\ \/ valid'[x] = valid[x]
                           \/ x = m /\ valid'[x] = Put(valid[m], k, Append(v, o))
  BY <1>9 DEF SignInv, PoolInv, PoolTypes
<1>12. \A x \in Miner : OnceThen(pending'[x], x) /\ OnceThen(valid'[x], x)
  BY <1>6, <1>10, <1>11
<1>13. adds' \subseteq got'
  BY <1>3 DEF SignInv, PoolOnce
<1> QED
  BY <1>12, <1>13, OnceAfter

\* What Verified returns is signed by nobody twice.
LEMMA VerifiedOnce ==
    ASSUME SignInv, NEW m \in Miner, NEW v \in Verified(m)
    PROVE  Distinct(v.signs)
<1>1. Distinct(Last.signs)
  BY HeadersAssumption DEF SignInv, PoolInv, ChainTypes, BlockOnce, Last, Term
<1>2. \A k \in DOMAIN valid[m] : Distinct(valid[m][k])
  BY DEF SignInv, PoolOnce, OnceIn
<1>3. \/ v = Last
      \/ \E k \in DOMAIN valid[m] :
            v = [num |-> k.num, lamp |-> k.lamp, from |-> k.from, signs |-> valid[m][k]]
  BY DEF Verified, Highest
<1> QED
  BY <1>1, <1>2, <1>3

\* Mine: the check of the other nodes counts the police among the signatures,
\* and these are of different officers.
LEMMA MineSigned ==
    ASSUME SignInv, NEW m \in Miner, Mine(m)
    PROVE  BlockOnce' /\ SignedByPolice'
<1>1. PICK v \in work[m] : /\ Term < MaxTerm /\ Valid(v) /\ chain' = Append(chain, v)
                           /\ work' = [x \in Miner |-> {}]
  BY DEF Mine
<1>2. v \in Val /\ Distinct(v.signs)
  BY <1>1 DEF SignInv, PoolInv, ChainTypes, BlockOnce
<1>3. /\ Len(chain') = Len(chain) + 1
      /\ \A t \in 1..Len(chain) : chain'[t] = chain[t]
      /\ chain'[Len(chain) + 1] = v
  BY <1>1, <1>2, OneMoreBlock DEF SignInv
<1>4. Len(chain) \in Nat /\ Len(chain) >= 1 /\ Last.num \in 0..MaxNum
  <2>1. chain \in Seq(Val) /\ Len(chain) \in DOMAIN chain
    BY HeadersAssumption DEF SignInv, PoolInv, ChainTypes
  <2>2. Last \in Val
    <3> HIDE DEF Val
    <3> QED
      BY <2>1, ElementOfSeq DEF Last, Term
  <2> QED
    BY <2>2, HeadersAssumption DEF SignInv, PoolInv, ChainTypes, Val
<1>5. BlockOnce'
  <2>1. \A t \in 1..(Len(chain) + 1) : t \in 1..Len(chain) \/ t = Len(chain) + 1
    BY <1>4
  <2>2. \A t \in 1..Len(chain') : Distinct(chain'[t].signs)
    BY <1>2, <1>3, <2>1 DEF SignInv, BlockOnce
  <2> QED
    BY <1>1, <2>2 DEF BlockOnce
<1>6. SignedByPolice'
  <2> DEFINE Signers(x, t) == Cardinality({x.signs[i] : i \in DOMAIN x.signs} \cap Police[t])
  <2> SUFFICES ASSUME NEW t \in 2..Len(chain'), chain'[t].num # chain'[t - 1].num
               PROVE  Signers(chain'[t], t - 1) > Half
    BY DEF SignedByPolice, Term
  <2>1. CASE t \in 2..Len(chain)
    <3>1. chain'[t] = chain[t] /\ chain'[t - 1] = chain[t - 1]
      BY <1>3, <1>4, <2>1
    <3> QED
      BY <2>1, <3>1 DEF SignInv, SignedByPolice, Term
  <2>2. CASE t = Len(chain) + 1
    <3>1. t - 1 = Term /\ chain'[t] = v /\ chain'[t - 1] = Last
      BY <1>3, <1>4, <2>2 DEF Last, Term
    <3>2. v.num # 0 /\ v.num # Last.num
      <4>1. v.num \in 0..MaxNum /\ v.num # Last.num
        BY <1>2, <3>1 DEF Val
      <4> QED
        BY <1>1, <1>4, <4>1, HeadersAssumption DEF Valid
    <3>3. EnoughSigns(v)
      BY <1>1, <3>2 DEF Valid
    <3>4. v.signs \in Signs
      BY <1>2 DEF Val
    <3>5. Cardinality({i \in DOMAIN v.signs : v.signs[i] \in Police[Term]}) = Signers(v, Term)
      BY <1>2, <3>4, PlacesAreSigners
    <3> QED
      BY <3>1, <3>3, <3>5 DEF EnoughSigns
  <2> QED
    BY <1>3, <1>4, <2>1, <2>2
<1> QED
  BY <1>5, <1>6

\* Every step keeps the signatures apart.
LEMMA SignNext ==
    ASSUME ~Duplicates, SignInv, [Next]_vars
    PROVE  SignInv'
<1>1. PoolInv'
  BY PoolNext DEF SignInv
<1>2. ASSUME UNCHANGED <<chain, work>> PROVE BlockOnce' /\ SignedByPolice'
  BY <1>2 DEF SignInv, BlockOnce, SignedByPolice, Term
<1>3. \A m \in Miner : OnceIn(pending[m], m) /\ OnceIn(valid[m], m)
  BY DEF SignInv, PoolOnce
<1>4. ASSUME got \subseteq got', adds' \cap got \subseteq adds, adds' \subseteq got', UNCHANGED pools
      PROVE  PoolOnce'
  BY <1>3, <1>4, OnceStays, OnceAfter DEF pools
<1>5. ASSUME UNCHANGED <<adds, got, pools>> PROVE PoolOnce'
  BY <1>4, <1>5 DEF SignInv, PoolOnce
<1>6. CASE EleBlock
  BY <1>1, <1>2, <1>5, <1>6 DEF EleBlock, SignInv
<1>7. ASSUME NEW m \in Miner, AddCheck(m) PROVE SignInv'
  <2>1. PICK a : a \notin got /\ got' = got \cup {a} /\ (adds' = adds \/ adds' = adds \cup {a})
    BY <1>7 DEF AddCheck
  <2>2. PoolOnce'
    BY <1>4, <1>7, <2>1 DEF AddCheck, SignInv, PoolOnce
  <2> QED
    BY <1>1, <1>2, <1>7, <2>2 DEF AddCheck, SignInv
<1>8. ASSUME NEW a \in adds, AddVerified(a) PROVE SignInv'
  BY <1>1, <1>2, <1>8, AddVerifiedOnce DEF AddVerified, SignInv
<1>9. ASSUME NEW m \in Miner, CommitNewWork(m) PROVE SignInv'
  <2>1. PICK v \in Verified(m) : work' = [work EXCEPT ![m] = {v}]
    BY <1>9 DEF CommitNewWork
  <2>2. \A x \in Miner : work'[x] = IF x = m THEN {v} ELSE work[x]
    BY <2>1 DEF SignInv, PoolInv, ChainTypes
  <2>3. BlockOnce'
    BY <1>9, <2>2, VerifiedOnce DEF CommitNewWork, SignInv, BlockOnce
  <2>4. SignedByPolice'
    BY <1>9 DEF CommitNewWork, SignInv, SignedByPolice, Term
  <2> QED
    BY <1>1, <1>5, <1>9, <2>3, <2>4 DEF CommitNewWork, SignInv
<1>10. ASSUME NEW m \in Miner, Mine(m) PROVE SignInv'
  <2>1. PICK v : ClearSharding(m, v) /\ UNCHANGED <<adds, got>>
    BY <1>10 DEF Mine
  <2>2. \A x \in Miner : /\ pending'[x] = pending[x] \/ pending'[x] = NoHeaders
                         /\ valid'[x] = valid[x] \/ valid'[x] = NoHeaders
    BY <2>1 DEF ClearSharding, pools, SignInv, PoolInv, PoolTypes
  <2>3. \A x \in Miner : OnceThen(pending[x], x) /\ OnceThen(valid[x], x) /\ OnceThen(NoHeaders, x)
    BY <1>3, <2>1, OnceStays, NoHeadersPool DEF OnceThen
  <2>4. adds' \subseteq got'
    BY <2>1 DEF SignInv, PoolOnce
  <2>5. PoolOnce'
    BY <2>2, <2>3, <2>4, OnceAfter
  <2> QED
    BY <1>1, <1>10, <2>5, MineSigned DEF SignInv
<1>11. ASSUME NEW m \in Miner, MineRefused(m) PROVE SignInv'
  BY <1>1, <1>2, <1>5, <1>11 DEF MineRefused, SignInv
<1>12. CASE UNCHANGED vars
  BY <1>1, <1>2, <1>5, <1>12 DEF vars, SignInv
<1> QED
  BY <1>6, <1>7, <1>8, <1>9, <1>10, <1>11, <1>12 DEF Next

\* When no result reaches a pool twice, a header that is new in an election
\* block is signed by more than Half different officers elected by the block
\* before (SignedByPolice): validateVerifiedHeaders counts signatures, not
\* signers, and that is enough.
THEOREM NewHeadersSigned == ASSUME ~Duplicates PROVE Spec => []SignedByPolice
<1>1. SignInv /\ [Next]_vars => SignInv'
  BY SignNext
<1>2. SignInv => SignedByPolice
  BY DEF SignInv
<1> QED
  BY <1>1, <1>2, SignInit, PTL DEF Spec

-----------------------------------------------------------------------------
(* Every header below the newest verified height is found.  The search     *)
(* GetValidPrevious is a recursive function over the election blocks; what *)
(* it finds in a longer chain is proved by looking at the first election   *)
(* block at which an argument would fail.                                  *)

\* A set of numbers has a least one.
LEMMA LeastNumber ==
    ASSUME NEW T, T \subseteq Nat, T # {}
    PROVE  \E x \in T : \A y \in T : x <= y
<1> DEFINE R == OpToRel(<, Nat)
<1>1. IsWellFoundedOn(R, Nat)
  BY NatLessThanWellFounded
<1>2. \A x, y \in Nat : <<y, x>> \in R <=> y < x
  BY DEF OpToRel
<1> HIDE DEF R
<1>3. PICK x \in T : \A y \in T : ~(<<y, x>> \in R)
  BY <1>1, WFMin
<1>4. \A y \in T : y \in Nat /\ x \in Nat /\ ~(y < x)
  BY <1>2, <1>3
<1> QED
  BY <1>4

\* What the search for height h makes of election block b, when it makes r of
\* those before.
Look(b, h, r) ==
    IF Previous(b) = 0 THEN r
    ELSE IF h >= b.num THEN {}
    ELSE IF b.num - h > Previous(b) THEN r
    ELSE {h}

\* f is the search for h in the first t blocks of c.
Searches(f, c, h, t) == f = [i \in 0..t |-> IF i = 0 THEN {} ELSE Look(c[i], h, f[i - 1])]

\* GetValidPrevious, of any chain.
FoundIn(c, t, h) ==
    LET find[i \in 0..t] ==
          IF i = 0 THEN {}
          ELSE IF Previous(c[i]) = 0 THEN find[i - 1]
          ELSE IF h >= c[i].num THEN {}
          ELSE IF c[i].num - h > Previous(c[i]) THEN find[i - 1]
          ELSE {h}
    IN  find[t]

\* There is such a function for every number of blocks.
LEMMA SearchExists ==
    ASSUME NEW c, NEW h, NEW t \in Nat
    PROVE  \E f : Searches(f, c, h, t)
<1> DEFINE T == {k \in Nat : ~ \E f : Searches(f, c, h, k)}
<1> SUFFICES ASSUME T # {} PROVE FALSE
  OBVIOUS
<1>1. PICK k \in T : \A y \in T : k <= y
  <2>1. T \subseteq Nat
    OBVIOUS
  <2> HIDE DEF T
  <2> QED
    BY <2>1, LeastNumber
<1>2. CASE k = 0
  <2> DEFINE f == [i \in 0..0 |-> {}]
  <2>1. Searches(f, c, h, 0)
    BY DEF Searches
  <2> QED
    BY <1>1, <1>2, <2>1
<1>3. CASE k # 0
  <2>1. k \in Nat /\ k - 1 \in Nat /\ ~(k <= k - 1)
    BY <1>3
  <2>2. k - 1 \notin T
    BY <1>1, <2>1
  <2>3. PICK f : Searches(f, c, h, k - 1)
    BY <2>1, <2>2
  <2> DEFINE g == [i \in 0..k |-> IF i = k THEN Look(c[k], h, f[k - 1]) ELSE f[i]]
  <2>4. \A i \in 0..(k - 1) : f[i] = IF i = 0 THEN {} ELSE Look(c[i], h, f[i - 1])
    BY <2>1, <2>3 DEF Searches
  <2>5. ASSUME NEW i \in 0..k PROVE g[i] = IF i = 0 THEN {} ELSE Look(c[i], h, g[i - 1])
    <3>1. CASE i = k
      <4>1. g[k] = Look(c[k], h, f[k - 1])
        BY <2>1
      <4>2. g[k - 1] = f[k - 1]
        BY <2>1
      <4> QED
        BY <1>3, <3>1, <4>1, <4>2
    <3>2. CASE i = 0
      BY <2>1, <2>4, <3>2, <1>3
    <3>3. CASE i # k /\ i # 0
      <4>1. i \in 0..(k - 1) /\ i - 1 \in 0..(k - 1) /\ i - 1 # k
        BY <2>1, <3>3
      <4>2. g[i] = f[i] /\ g[i - 1] = f[i - 1]
        BY <2>1, <3>3, <4>1
      <4> QED
        BY <2>4, <3>3, <4>1, <4>2
    <3> QED
      BY <3>1, <3>2, <3>3
  <2>6. Searches(g, c, h, k)
    BY <2>5 DEF Searches
  <2> QED
    BY <1>1, <2>6
<1> QED
  BY <1>2, <1>3

\* The first t blocks of two chains are the same.
Agree(c, d, t) == \A i \in 1..t : c[i] = d[i]

\* Two searches agree as long as their chains do.
LEMMA SearchSame ==
    ASSUME NEW c, NEW d, NEW h, NEW t \in Nat, NEW u \in Nat, t <= u,
           NEW f, NEW g, Searches(f, c, h, t), Searches(g, d, h, u), Agree(c, d, t)
    PROVE  \A i \in 0..t : f[i] = g[i]
<1> DEFINE T == {k \in 0..t : f[k] # g[k]}
<1> SUFFICES ASSUME T # {} PROVE FALSE
  OBVIOUS
<1>1. PICK k \in T : \A y \in T : k <= y
  <2>1. T \subseteq Nat
    OBVIOUS
  <2> HIDE DEF T
  <2> QED
    BY <2>1, LeastNumber
<1>2. k \in 0..t /\ k \in 0..u /\ f[k] # g[k]
  OBVIOUS
<1>3. /\ f[k] = IF k = 0 THEN {} ELSE Look(c[k], h, f[k - 1])
      /\ g[k] = IF k = 0 THEN {} ELSE Look(d[k], h, g[k - 1])
  BY <1>2 DEF Searches
<1>4. k # 0 /\ k - 1 \in 0..t /\ k \in 1..t /\ ~(k <= k - 1)
  BY <1>2, <1>3
<1>5. f[k - 1] = g[k - 1]
  BY <1>1, <1>4
<1> QED
  BY <1>2, <1>3, <1>4, <1>5 DEF Agree

\* The definition of GetValidPrevious is a search.
LEMMA FoundSearches ==
    ASSUME NEW c, NEW h, NEW t \in Nat
    PROVE  \E f : Searches(f, c, h, t) /\ FoundIn(c, t, h) = f[t]
<1> DEFINE P(f) == f = [i \in 0..t |->
                          IF i = 0 THEN {}
                          ELSE IF Previous(c[i]) = 0 THEN f[i - 1]
                          ELSE IF h >= c[i].num THEN {}
                          ELSE IF c[i].num - h > Previous(c[i]) THEN f[i - 1]
                          ELSE {h}]
           F == CHOOSE f : P(f)
<1>1. \A f : P(f) <=> Searches(f, c, h, t)
  BY DEF Searches, Look
<1>2. \E f : P(f)
  BY <1>1, SearchExists
<1>3. P(F)
  <2> HIDE DEF P
  <2> QED
    BY <1>2
<1>4. FoundIn(c, t, h) = F[t]
  BY DEF FoundIn
<1> HIDE DEF F
<1> QED
  BY <1>1, <1>3, <1>4

\* One election block more.
LEMMA FoundNext ==
    ASSUME NEW c, NEW d, NEW h, NEW t \in Nat, Agree(c, d, t)
    PROVE  FoundIn(d, t + 1, h) = Look(d[t + 1], h, FoundIn(c, t, h))
<1>1. PICK f : Searches(f, c, h, t) /\ FoundIn(c, t, h) = f[t]
  BY FoundSearches
<1>2. PICK g : Searches(g, d, h, t + 1) /\ FoundIn(d, t + 1, h) = g[t + 1]
  BY FoundSearches
<1>3. f[t] = g[t]
  <2> DEFINE u == t + 1
  <2>1. u \in Nat /\ t <= u /\ t \in 0..t /\ Searches(g, d, h, u)
    BY <1>2
  <2> HIDE DEF u
  <2>2. \A i \in 0..t : f[i] = g[i]
    BY <1>1, <2>1, SearchSame
  <2> QED
    BY <2>1, <2>2
<1>4. g[t + 1] = Look(d[t + 1], h, g[t])
  <2>1. t + 1 \in 0..(t + 1) /\ t + 1 # 0 /\ (t + 1) - 1 = t
    OBVIOUS
  <2>2. \A i \in 0..(t + 1) : g[i] = IF i = 0 THEN {} ELSE Look(d[i], h, g[i - 1])
    BY <1>2 DEF Searches
  <2> QED
    BY <2>1, <2>2
<1> QED
  BY <1>1, <1>2, <1>3, <1>4

\* The definition in the model is FoundIn of the chain.
LEMMA FoundIsPrevious ==
    /\ \A h : GetValidPrevious(Term, h) = FoundIn(chain, Term, h)
    /\ \A h : GetValidPrevious(Term, h)' = FoundIn(chain', Term', h)
BY DEF GetValidPrevious, FoundIn

\* Nothing is below the height of the first election block.
LEMMA FoundInit == Init => PreviousFound
<1> SUFFICES ASSUME Init PROVE PreviousFound
  OBVIOUS
<1>1. Term = 1 /\ Last = NilVal /\ Last.num = 0
  BY NilValType DEF Init, Term, Last
<1> QED
  BY <1>1 DEF PreviousFound

\* Mine: the headers of a block the others accept begin at the last verified
\* header or before, at the one of the block before that, and what is below
\* was found already.
LEMMA MineFound ==
    ASSUME PoolInv, PreviousFound, NEW m \in Miner, Mine(m)
    PROVE  PreviousFound'
<1>1. PICK v \in work[m] : Valid(v) /\ chain' = Append(chain, v)
  BY DEF Mine
<1>2. v \in Val /\ v.num \in Nat /\ v.from \in Nat
  BY DEF PoolInv, ChainTypes, Val
<1>3. /\ Term' = Term + 1 /\ Term \in Nat \ {0} /\ Last' = v /\ chain'[Term + 1] = v
      /\ \A i \in 1..Term : chain'[i] = chain[i] /\ chain[i].num \in Nat
  <2>1. chain \in Seq(Val) /\ Len(chain) \in Nat \ {0}
    BY HeadersAssumption DEF PoolInv, ChainTypes
  <2>2. /\ Len(chain') = Len(chain) + 1 /\ chain'[Len(chain) + 1] = v
        /\ \A i \in 1..Len(chain) : chain'[i] = chain[i]
    BY <1>1, <1>2, <2>1, AppendProperties
  <2>3. \A i \in 1..Len(chain) : chain[i].num \in Nat
    <3>1. \A i \in 1..Len(chain) : chain[i] \in Val
      BY <2>1
    <3> QED
      BY <3>1 DEF Val
  <2> QED
    BY <2>1, <2>2, <2>3 DEF Term, Last
<1>4. v.num >= Last.num /\ Last = chain[Term] /\ Last.num \in Nat
  BY <1>1, <1>2, <1>3 DEF Valid, Last
<1>5. \A t \in 2..Term' : chain'[t].num >= chain'[t - 1].num
  <2> SUFFICES ASSUME NEW t \in 2..(Term + 1) PROVE chain'[t].num >= chain'[t - 1].num
    BY <1>3
  <2>1. CASE t = Term + 1
    BY <1>3, <1>4, <2>1
  <2>2. CASE t # Term + 1
    <3>1. t \in 2..Term /\ t \in 1..Term /\ t - 1 \in 1..Term
      BY <1>3, <2>2
    <3> QED
      BY <1>3, <3>1 DEF PreviousFound
  <2> QED
    BY <2>1, <2>2
<1>6. v.num > Last.num => v.from <= Last.num
  <2> SUFFICES ASSUME v.num > Last.num PROVE v.from <= Last.num
    OBVIOUS
  <2>1. Continues(v)
    BY <1>1, <1>2, <1>4 DEF Valid
  <2>2. CASE Last.num = 0
    BY <1>2, <2>1, <2>2 DEF Continues, Previous
  <2>3. CASE Last.num # 0 /\ {v.from} = HeaderOf(Last)
    BY <1>4, <2>3 DEF HeaderOf
  <2>4. CASE Term > 1 /\ {v.from} = HeaderOf(chain[Term - 1])
    <3>1. v.from = chain[Term - 1].num
      BY <2>4 DEF HeaderOf
    <3>2. Term \in 2..Term /\ Term - 1 \in 1..Term
      BY <1>3, <2>4
    <3>3. chain[Term].num >= chain[Term - 1].num
      BY <3>2 DEF PreviousFound
    <3> QED
      BY <1>3, <1>4, <3>1, <3>2, <3>3
  <2> QED
    BY <2>1, <2>2, <2>3, <2>4 DEF Continues
<1>7. ASSUME NEW h \in 0..(v.num - 1) PROVE GetValidPrevious(Term, h)' = {h}
  <2>1. FoundIn(chain', Term + 1, h) = Look(v, h, FoundIn(chain, Term, h))
    BY <1>3, FoundNext DEF Agree
  <2>2. h \in Nat /\ h < v.num
    BY <1>2
  <2>3. h < Last.num => FoundIn(chain, Term, h) = {h}
    BY <1>4, <2>2, FoundIsPrevious DEF PreviousFound
  <2>4. Look(v, h, FoundIn(chain, Term, h)) = {h}
    <3>1. CASE h < Last.num
      BY <1>2, <2>2, <2>3, <3>1 DEF Look
    <3>2. CASE ~(h < Last.num)
      BY <1>2, <1>4, <1>6, <2>2, <3>2 DEF Look, Previous
    <3> QED
      BY <3>1, <3>2
  <2> QED
    BY <1>3, <2>1, <2>4, FoundIsPrevious
<1>8. \A h \in (0..(Last.num - 1))' : GetValidPrevious(Term, h)' = {h}
  BY <1>3, <1>7
<1> QED
  BY <1>5, <1>8 DEF PreviousFound

\* GetValidPrevious finds every header below the newest verified height, and
\* the verified heights never go back (PreviousFound), whatever election
\* blocks validateVerifiedHeaders accepts and however long the chain is.
THEOREM PreviousAlwaysFound == Spec => []PreviousFound
<1> DEFINE FoundInv == PoolInv /\ PreviousFound
<1>1. FoundInv /\ [Next]_vars => FoundInv'
  <2> SUFFICES ASSUME PoolInv, PreviousFound, [Next]_vars PROVE PreviousFound'
    BY PoolNext
  <2>1. ASSUME NEW m \in Miner, Mine(m) PROVE PreviousFound'
    BY <2>1, MineFound
  <2>2. ASSUME UNCHANGED chain PROVE PreviousFound'
    BY <2>2, FoundIsPrevious DEF PreviousFound, Term, Last
  <2>3. CASE EleBlock \/ (\E m \in Miner : AddCheck(m) \/ CommitNewWork(m) \/ MineRefused(m))
             \/ (\E a \in adds : AddVerified(a)) \/ UNCHANGED vars
    BY <2>2, <2>3 DEF EleBlock, AddCheck, CommitNewWork, MineRefused, AddVerified, vars
  <2> QED
    BY <2>1, <2>3 DEF Next
<1>2. Init => FoundInv
  BY PoolInit, FoundInit
<1> QED
  BY <1>1, <1>2, PTL DEF Spec

-----------------------------------------------------------------------------
(* The miner.                                                              *)


\* A loop receives exactly while its stop channel is there, and StopMining
\* waits only with one.
LoopInv ==
    /\ stopRcv \in BOOLEAN
    /\ receiving = (IF stopRcv THEN 1 ELSE 0)
    /\ console = "send" => stopRcv = TRUE

\* The start and the stop of the loop keep that in step; nothing else touches it.
LEMMA LoopStep ==
    ASSUME LoopInv, [Control!Next]_Control!vars
    PROVE  LoopInv'
<1>1. CASE Control!StartMining
  BY <1>1 DEF Control!StartMining, Control!StartReceive, LoopInv
<1>2. CASE Control!StopMining
  BY <1>2 DEF Control!StopMining, Control!feed, LoopInv
<1>3. CASE Control!StopFlag
  BY <1>3 DEF Control!StopFlag, Control!feed, LoopInv
<1>4. CASE Control!StopReceive
  <2>1. receiving = 1
    BY <1>4 DEF Control!StopReceive, LoopInv
  <2>2. receiving' = 0
    BY <1>4, <2>1 DEF Control!StopReceive
  <2>3. stopRcv' = FALSE /\ console' = "idle"
    BY <1>4 DEF Control!StopReceive
  <2> QED BY <2>2, <2>3 DEF LoopInv
<1>5. CASE Control!SyncStart \/ Control!Sync
  BY <1>5 DEF Control!SyncStart, Control!Sync, Control!SyncMining, Control!SyncStop,
     Control!SyncShould, Control!SyncDone, Control!SyncRestart, Control!SyncRestarted,
     Control!feed, LoopInv
<1>6. CASE \E i \in DOMAIN starters : Control!StarterFlag(i) \/ Control!StarterCheck(i)
  BY <1>6 DEF Control!StarterFlag, Control!StarterCheck, Control!feed, LoopInv
<1>7. CASE \E h \in Handler : Control!HandlerCheck(h) \/ Control!HandlerSend(h)
  BY <1>7 DEF Control!HandlerCheck, Control!HandlerSend, Control!feed, LoopInv
<1>8. CASE UNCHANGED Control!vars
  BY <1>8 DEF Control!vars, Control!feed, LoopInv
<1> QED
  BY <1>1, <1>2, <1>3, <1>4, <1>5, <1>6, <1>7, <1>8 DEF Control!Next

\* For any number of handlers and calls: while StopMining waits for a loop to
\* take its signal there is one, and there is never a second (eth/backend.go).
THEOREM StopAlwaysFindsLoop == Control!Spec => []StopFindsLoop
<1>1. Control!Init => LoopInv
  BY DEF Control!Init, LoopInv
<1>2. LoopInv /\ [Control!Next]_Control!vars => LoopInv'
  BY LoopStep
<1>3. LoopInv => StopFindsLoop
  BY DEF LoopInv, StopFindsLoop, Control!StopFindsLoop
<1> QED BY <1>1, <1>2, <1>3, PTL DEF Control!Spec

-----------------------------------------------------------------------------
(* Folding a list, which the library does over the set of its positions,   *)
(* the largest first.                                                      *)

\* The largest of a set of positions.
Largest(S) == CHOOSE x \in S : \A y \in S : x >= y

\* What the fold makes of the positions S of s when it makes g[...] of fewer.
Fold(F, p, s, g, S) == IF S = {} THEN p ELSE F[<<g[S \ {Largest(S)}], s[Largest(S)]>>]

\* What one step of a fold does.
Steps(P, E) == [P \X E -> P]

\* There is a function that folds s with F from p, with results in P.
Folds(F, P, p, s) ==
    \E g \in [SUBSET (1..Len(s)) -> P] : \A S \in SUBSET (1..Len(s)) : g[S] = Fold(F, p, s, g, S)

\* Of the positions up to n + 1 the largest is n + 1 or they are up to n.
LEMMA LargestOne ==
    ASSUME NEW n \in Nat, NEW S \in SUBSET (1..(n + 1)), S # {}, n + 1 \in S
    PROVE  Largest(S) = n + 1 /\ S \ {Largest(S)} \in SUBSET (1..n)
<1>1. \A y \in S : n + 1 >= y
  OBVIOUS
<1>2. \A x \in S : (\A y \in S : x >= y) => x = n + 1
  OBVIOUS
<1>3. Largest(S) = n + 1
  BY <1>1, <1>2 DEF Largest
<1> QED BY <1>3

\* The largest position is one, and the others are up to the one before.
LEMMA LargestIn ==
    ASSUME NEW n \in Nat, NEW S \in SUBSET (1..n), S # {}
    PROVE  Largest(S) \in S /\ \A y \in S : Largest(S) >= y
<1> DEFINE T == {k \in 0..n : \A y \in S : k >= y}
<1>1. n \in T
  OBVIOUS
<1>2. PICK x \in T : \A y \in T : x <= y
  <2>1. T # {} /\ T \subseteq Nat
    BY <1>1
  <2> HIDE DEF T
  <2> QED BY <2>1, LeastNumber
<1>3. x \in S
  <2>1. ASSUME x \notin S PROVE FALSE
    <3>1. \A y \in S : y \in 1..n /\ x >= y /\ x # y
      BY <1>2, <2>1
    <3>2. x # 0
      <4>1. PICK y : y \in S
        OBVIOUS
      <4>2. y \in 1..n /\ x >= y /\ x \in 0..n
        BY <1>2, <3>1, <4>1
      <4> QED BY <4>2
    <3>3. x - 1 \in T
      BY <1>2, <3>1, <3>2
    <3> QED BY <1>2, <3>3
  <2> QED BY <2>1
<1>4. \A y \in S : x >= y
  BY <1>2
<1> HIDE DEF T
<1> QED BY <1>3, <1>4 DEF Largest

\* A fold over a set of values has a result.
LEMMA FoldExists ==
    ASSUME NEW P, NEW E, NEW F \in Steps(P, E), NEW p \in P, NEW s \in Seq(E)
    PROVE  Folds(F, P, p, s)
<1> USE DEF Steps, Folds
<1> DEFINE Has(n) == \E g \in [SUBSET (1..n) -> P] :
                        \A S \in SUBSET (1..n) : g[S] = Fold(F, p, s, g, S)
           Bad == {n \in 0..Len(s) : ~Has(n)}
<1>0. Len(s) \in Nat
  OBVIOUS
<1>1. SUFFICES ASSUME ~Has(Len(s)) PROVE FALSE
  OBVIOUS
<1>2. PICK n \in Bad : \A m \in Bad : n <= m
  <2> HIDE DEF Has
  <2>1. Len(s) \in Bad
    BY <1>0, <1>1
  <2>2. Bad \subseteq Nat
    BY <1>0
  <2> HIDE DEF Bad
  <2> QED BY <2>1, <2>2, LeastNumber
<1>3. n \in 0..Len(s) /\ ~Has(n)
  <2> HIDE DEF Has
  <2> QED OBVIOUS
<1>4. n # 0
  <2>1. Has(0)
    <3> DEFINE g == [S \in SUBSET (1..0) |-> p]
    <3>1. SUBSET (1..0) = {{}}
      OBVIOUS
    <3>2. g \in [SUBSET (1..0) -> P] /\ g[{}] = p
      BY <3>1
    <3>3. \A S \in SUBSET (1..0) : g[S] = Fold(F, p, s, g, S)
      BY <3>1, <3>2 DEF Fold
    <3> QED BY <3>2, <3>3
  <2> QED BY <1>3, <2>1
<1>5. PICK m \in Nat : n = m + 1 /\ m \in 0..Len(s)
  <2>1. n - 1 \in Nat /\ n = (n - 1) + 1 /\ n - 1 \in 0..Len(s)
    BY <1>0, <1>3, <1>4
  <2> QED BY <2>1
<1>6. Has(m)
  <2> HIDE DEF Has
  <2>1. m \notin Bad
    BY <1>0, <1>2, <1>3, <1>5
  <2> QED BY <1>5, <2>1
<1>7. PICK h \in [SUBSET (1..m) -> P] : \A S \in SUBSET (1..m) : h[S] = Fold(F, p, s, h, S)
  BY <1>6
<1> DEFINE g == [S \in SUBSET (1..(m + 1)) |->
                    IF m + 1 \in S THEN F[<<h[S \ {m + 1}], s[m + 1]>>] ELSE h[S]]
<1>8. \A S \in SUBSET (1..(m + 1)) : m + 1 \notin S => S \in SUBSET (1..m)
  OBVIOUS
<1>9. \A S \in SUBSET (1..(m + 1)) : S \ {m + 1} \in SUBSET (1..m)
  OBVIOUS
<1>10. s[m + 1] \in E
  BY <1>0, <1>3, <1>5
<1>11. g \in [SUBSET (1..(m + 1)) -> P]
  <2>1. ASSUME NEW S \in SUBSET (1..(m + 1))
        PROVE  (IF m + 1 \in S THEN F[<<h[S \ {m + 1}], s[m + 1]>>] ELSE h[S]) \in P
    <3>1. CASE m + 1 \in S
      BY <1>9, <1>10, <3>1
    <3>2. CASE m + 1 \notin S
      BY <1>8, <3>2
    <3> QED BY <3>1, <3>2
  <2> QED BY <2>1
<1>12. \A S \in SUBSET (1..m) : g[S] = h[S]
  <2>1. \A S \in SUBSET (1..m) : S \in SUBSET (1..(m + 1)) /\ m + 1 \notin S
    OBVIOUS
  <2> QED BY <2>1
<1>13. \A S \in SUBSET (1..(m + 1)) : m + 1 \in S => g[S] = F[<<h[S \ {m + 1}], s[m + 1]>>]
  OBVIOUS
<1> HIDE DEF g
<1>14. ASSUME NEW S \in SUBSET (1..(m + 1)) PROVE g[S] = Fold(F, p, s, g, S)
  <2>1. CASE m + 1 \in S
    <3>1. S # {} /\ Largest(S) = m + 1 /\ S \ {Largest(S)} \in SUBSET (1..m)
      BY <2>1, LargestOne
    <3> QED BY <1>12, <1>13, <2>1, <3>1 DEF Fold
  <2>2. CASE m + 1 \notin S
    <3>1. S \in SUBSET (1..m)
      BY <1>8, <2>2
    <3>2. g[S] = Fold(F, p, s, h, S)
      BY <1>7, <1>12, <3>1
    <3>3. h[S \ {Largest(S)}] = g[S \ {Largest(S)}]
      BY <1>12, <3>1
    <3> QED BY <3>2, <3>3 DEF Fold
  <2> QED BY <2>1, <2>2
<1>15. Has(n)
  BY <1>5, <1>11, <1>14
<1> QED BY <1>3, <1>15

\* What holds of the start and is kept by every step holds of the result.
LEMMA FoldKeeps ==
    ASSUME NEW P, NEW n \in Nat, NEW h, h[{}] \in P,
           \A S \in SUBSET (1..n) : S # {} /\ h[S \ {Largest(S)}] \in P => h[S] \in P
    PROVE  h[1..n] \in P
<1> DEFINE Bad == {m \in 0..n : ~(\A S \in SUBSET (1..m) : h[S] \in P)}
<1>1. SUFFICES ASSUME h[1..n] \notin P PROVE FALSE
  OBVIOUS
<1>2. PICK m \in Bad : \A k \in Bad : m <= k
  <2>1. n \in Bad
    BY <1>1
  <2>2. Bad \subseteq Nat
    OBVIOUS
  <2> HIDE DEF Bad
  <2> QED BY <2>1, <2>2, LeastNumber
<1>3. PICK S \in SUBSET (1..m) : h[S] \notin P
  OBVIOUS
<1>4. S # {} /\ S \in SUBSET (1..n)
  <2>1. m \in 0..n
    OBVIOUS
  <2>2. 1..m \subseteq 1..n
    BY <2>1
  <2> QED BY <1>3, <2>2
<1>5. h[S \ {Largest(S)}] \notin P
  BY <1>3, <1>4
<1>6. Largest(S) \in S /\ \A y \in S : Largest(S) >= y
  BY <1>4, LargestIn
<1>7. m \in 1..n /\ S \ {Largest(S)} \in SUBSET (1..(m - 1))
  <2>1. m \in 0..n /\ Largest(S) \in 1..m
    BY <1>3, <1>6
  <2>2. \A y \in S \ {Largest(S)} : y \in 1..m /\ Largest(S) >= y /\ y # Largest(S)
    BY <1>3, <1>6
  <2>3. \A y \in S \ {Largest(S)} : y \in 1..(m - 1)
    BY <2>1, <2>2
  <2>4. S \ {Largest(S)} \subseteq 1..(m - 1)
    BY <2>3
  <2>5. m \in 1..n
    BY <2>1
  <2> QED BY <2>4, <2>5
<1>8. m - 1 \in Bad
  BY <1>5, <1>7
<1> QED BY <1>2, <1>7, <1>8

-----------------------------------------------------------------------------
(* The election pool.                                                      *)

\* The two kinds of election.
Kind == {"sealers", "police"}

\* An election is of one of the kinds the pool knows.
ElectionConstants == \A e \in Election : e.kind \in Kind

\* The elections of one kind.
OfKind(k) == {e \in Election : e.kind = k}

\* The pool of a node as a record.
PoolType == [pending : [Kind -> SUBSET Election], all : SUBSET Election,
             journal : [Kind -> Seq(Election)], ok : BOOLEAN]

\* What is pending of kind k is finite and of that kind.
Pends(p, k) == IsFiniteSet(p.pending[k]) /\ p.pending[k] \subseteq OfKind(k)

\* The journal of kind k holds elections of that kind, and all that is pending.
Logs(p, k) ==
    /\ p.journal[k] \in Seq(OfKind(k))
    /\ \A e \in p.pending[k] : \E i \in 1..Len(p.journal[k]) : p.journal[k][i] = e

\* A pool whose journals keep what is pending.
Kept == {p \in PoolType : \A k \in Kind : Pends(p, k) /\ Logs(p, k)}

\* A pool in which elections of kind k are being loaded, the rest being as in q.
Loading(q, k) ==
    {p \in PoolType : /\ p.journal = q.journal /\ Pends(p, k)
                      /\ \A j \in Kind \ {k} : p.pending[j] = q.pending[j]}

\* Assignments to the fields of a pool.
LEMMA PoolFields ==
    ASSUME NEW p \in PoolType, NEW t, NEW k \in Kind, NEW v \in SUBSET Election,
           NEW a \in SUBSET Election, NEW l \in Seq(Election), NEW b \in BOOLEAN
    PROVE  /\ t = [p EXCEPT !.pending[k] = v, !.all = a] =>
                 /\ t \in PoolType /\ t.pending[k] = v /\ t.journal = p.journal
                 /\ \A j \in Kind \ {k} : t.pending[j] = p.pending[j]
           /\ t = [p EXCEPT !.journal[k] = l] =>
                 /\ t \in PoolType /\ t.pending = p.pending /\ t.all = p.all /\ t.journal[k] = l
                 /\ \A j \in Kind \ {k} : t.journal[j] = p.journal[j]
           /\ t = [p EXCEPT !.ok = b] =>
                 t \in PoolType /\ t.pending = p.pending /\ t.journal = p.journal
<1>1. ASSUME t = [p EXCEPT !.pending[k] = v, !.all = a]
      PROVE  /\ t \in PoolType /\ t.pending[k] = v /\ t.journal = p.journal
             /\ \A j \in Kind \ {k} : t.pending[j] = p.pending[j]
  BY <1>1, ZenonT(30) DEF PoolType
<1>2. ASSUME t = [p EXCEPT !.journal[k] = l]
      PROVE  /\ t \in PoolType /\ t.pending = p.pending /\ t.all = p.all /\ t.journal[k] = l
             /\ \A j \in Kind \ {k} : t.journal[j] = p.journal[j]
  BY <1>2, ZenonT(30) DEF PoolType
<1>3. ASSUME t = [p EXCEPT !.ok = b]
      PROVE  t \in PoolType /\ t.pending = p.pending /\ t.journal = p.journal
  BY <1>3, ZenonT(30) DEF PoolType
<1> QED BY <1>1, <1>2, <1>3

\* promoteElection.
LEMMA PromoteFields ==
    ASSUME ElectionConstants, NEW p \in PoolType, NEW e \in Election, Pends(p, e.kind)
    PROVE  /\ Elections!Promote(p, e) \in PoolType
           /\ Elections!Promote(p, e).journal = p.journal
           /\ Pends(Elections!Promote(p, e), e.kind)
           /\ Elections!Promote(p, e).pending[e.kind] \subseteq p.pending[e.kind] \cup {e}
           /\ \A j \in Kind \ {e.kind} : Elections!Promote(p, e).pending[j] = p.pending[j]
<1> DEFINE k == e.kind
           v == p.pending[k] \cup {e}
           a == p.all \cup {e}
           t == [p EXCEPT !.pending[k] = v, !.all = a]
<1>1. Elections!Promote(p, e) = p \/ Elections!Promote(p, e) = t
  BY DEF Elections!Promote
<1>2. k \in Kind
  BY DEF ElectionConstants
<1>3. v \in SUBSET Election /\ a \in SUBSET Election
  BY <1>2 DEF PoolType
<1>4. /\ t \in PoolType /\ t.pending[k] = v /\ t.journal = p.journal
      /\ \A j \in Kind \ {k} : t.pending[j] = p.pending[j]
  <2> HIDE DEF k, v, a
  <2> QED BY <1>2, <1>3 DEF PoolType
<1>5. IsFiniteSet(v) /\ v \subseteq OfKind(k)
  BY FS_AddElement DEF Pends, OfKind
<1> HIDE DEF t, v, a
<1>6. CASE Elections!Promote(p, e) = p
  BY <1>6
<1>7. CASE Elections!Promote(p, e) = t
  <2>1. Pends(t, k)
    BY <1>4, <1>5 DEF Pends
  <2> QED BY <1>4, <1>7, <2>1 DEF v
<1> QED BY <1>1, <1>6, <1>7


\* A sequence made of a finite set holds its elements, all of them.
LEMMA SetListed ==
    ASSUME NEW S, IsFiniteSet(S)
    PROVE  /\ Elections!SetToSeq(S) \in Seq(S)
           /\ \A e \in S : \E i \in 1..Len(Elections!SetToSeq(S)) : Elections!SetToSeq(S)[i] = e
<1> DEFINE n == Cardinality(S)
<1>1. n \in Nat /\ ExistsBijection(1..n, S)
  BY FS_CardinalityType
<1>2. \E f \in [1..n -> S] : Elections!IsInjective(f)
  BY <1>1 DEF ExistsBijection, Bijection, Injection, IsInjective, Elections!IsInjective
<1>3. PICK f \in [1..n -> S] : f = Elections!SetToSeq(S) /\ Elections!IsInjective(f)
  <2>1. Elections!Cardinality(S) = n
    BY DEF Elections!Cardinality, Cardinality
  <2> QED BY <1>2, <2>1 DEF Elections!SetToSeq
<1>4. f \in Injection(1..n, S)
  BY <1>3 DEF Injection, IsInjective, Elections!IsInjective
<1>5. f \in Surjection(1..n, S)
  <2>1. IsFiniteSet(1..n) /\ Cardinality(1..n) = n
    BY <1>1, FS_Interval
  <2> QED BY <1>4, <2>1, FS_Injection
<1>6. \A e \in S : \E i \in 1..n : f[i] = e
  BY <1>5 DEF Surjection
<1>7. f \in Seq(S) /\ Len(f) = n
  BY <1>1, <1>3
<1> QED BY <1>3, <1>6, <1>7

\* Rotating a journal makes it hold what is pending of its kind.
LEMMA RotateKeeps ==
    ASSUME NEW p \in PoolType, NEW k \in Kind, Pends(p, k), NEW t, t = Elections!Rotate(p, k)
    PROVE  /\ t \in PoolType /\ t.pending = p.pending /\ Pends(t, k) /\ Logs(t, k)
           /\ \A j \in Kind \ {k} : t.journal[j] = p.journal[j]
<1>1. PICK l : l = Elections!SetToSeq(p.pending[k])
  OBVIOUS
<1>2. /\ l \in Seq(p.pending[k])
      /\ \A e \in p.pending[k] : \E i \in 1..Len(l) : l[i] = e
  BY <1>1, SetListed DEF Pends
<1>3. l \in Seq(Election) /\ l \in Seq(OfKind(k))
  BY <1>2 DEF Pends, OfKind
<1>4. t = [p EXCEPT !.journal[k] = l]
  BY <1>1 DEF Elections!Rotate
<1>5. /\ t \in PoolType /\ t.pending = p.pending /\ t.journal[k] = l
      /\ \A j \in Kind \ {k} : t.journal[j] = p.journal[j]
  BY <1>3, <1>4 DEF PoolType
<1> QED BY <1>2, <1>3, <1>5 DEF Pends, Logs

\* Adding an election journals it before it is promoted.
LEMMA AddKeeps ==
    ASSUME ElectionConstants, NEW p \in Kept, NEW e \in Election
    PROVE  Elections!Add(p, e) \in Kept
<1> DEFINE k == e.kind
           l == Append(p.journal[k], e)
           r == [p EXCEPT !.journal[k] = l]
<1>0. p \in PoolType /\ k \in Kind /\ \A j \in Kind : Pends(p, j) /\ Logs(p, j)
  BY DEF Kept, ElectionConstants
<1>1. CASE e \in p.all
  BY <1>1 DEF Elections!Add
<1>2. CASE e \notin p.all /\ Elections!Cardinality(p.all) >= Slots
  <2>1. PICK t : t = [p EXCEPT !.ok = FALSE]
    OBVIOUS
  <2>2. t \in PoolType /\ t.pending = p.pending /\ t.journal = p.journal
    BY <1>0, <2>1 DEF PoolType
  <2>3. t \in Kept
    BY <1>0, <2>2 DEF Kept, Pends, Logs
  <2> QED BY <1>2, <2>1, <2>3 DEF Elections!Add
<1>3. CASE e \notin p.all /\ ~(Elections!Cardinality(p.all) >= Slots)
  <2>1. p.journal[k] \in Seq(Election) /\ p.journal[k] \in Seq(OfKind(k)) /\ e \in OfKind(k)
    BY <1>0 DEF PoolType, Logs, OfKind
  <2>2. /\ l \in Seq(Election) /\ l \in Seq(OfKind(k)) /\ Len(l) = Len(p.journal[k]) + 1
        /\ l[Len(l)] = e /\ \A i \in 1..Len(p.journal[k]) : l[i] = p.journal[k][i]
    BY <2>1
  <2>3. PICK q : q = r
    OBVIOUS
  <2>4. /\ q \in PoolType /\ q.pending = p.pending /\ q.journal[k] = l
        /\ \A j \in Kind \ {k} : q.journal[j] = p.journal[j]
    <3> HIDE DEF k, l
    <3> QED BY <1>0, <2>2, <2>3 DEF PoolType, r
  <2>5. Elections!Add(p, e) = Elections!Promote(q, e)
    BY <1>3, <2>3 DEF Elections!Add
  <2>6. Pends(q, k)
    BY <1>0, <2>4 DEF Pends
  <2>7. PICK t : t = Elections!Promote(q, e)
    OBVIOUS
  <2>8. /\ t \in PoolType /\ t.journal = q.journal /\ Pends(t, k)
        /\ t.pending[k] \subseteq q.pending[k] \cup {e}
        /\ \A j \in Kind \ {k} : t.pending[j] = q.pending[j]
    BY <2>4, <2>6, <2>7, PromoteFields
  <2>9. Logs(t, k)
    <3>1. t.journal[k] = l
      BY <2>4, <2>8
    <3>2. ASSUME NEW f \in t.pending[k] PROVE \E i \in 1..Len(l) : l[i] = f
      <4>1. CASE f = e
        <5>1. Len(l) \in 1..Len(l)
          BY <2>1, <2>2
        <5> QED BY <2>2, <4>1, <5>1
      <4>2. CASE f # e
        <5>1. f \in p.pending[k]
          BY <2>4, <2>8, <4>2
        <5>2. PICK i \in 1..Len(p.journal[k]) : p.journal[k][i] = f
          BY <1>0, <5>1 DEF Logs
        <5>3. i \in 1..Len(l) /\ l[i] = f
          BY <2>1, <2>2, <5>2
        <5> QED BY <5>3
      <4> QED BY <4>1, <4>2
    <3> HIDE DEF l
    <3> QED BY <2>2, <3>1, <3>2 DEF Logs
  <2>10. ASSUME NEW j \in Kind \ {k} PROVE Pends(t, j) /\ Logs(t, j)
    <3>1. t.pending[j] = p.pending[j] /\ t.journal[j] = p.journal[j]
      BY <2>4, <2>8
    <3> QED BY <1>0, <3>1 DEF Pends, Logs
  <2>11. t \in Kept
    BY <2>8, <2>9, <2>10 DEF Kept
  <2> QED BY <2>5, <2>7, <2>11
<1> QED BY <1>1, <1>2, <1>3

\* Executing an election of a block.
LEMMA ProcessOneKeeps ==
    ASSUME ElectionConstants, NEW p \in Kept, NEW e \in Election
    PROVE  Elections!ProcessOne(p, e) \in Kept
  BY AddKeeps DEF Elections!ProcessOne

\* Loading an election of the journal of kind k leaves the journals alone.
LEMMA LoadOneKeeps ==
    ASSUME ElectionConstants, NEW k \in Kind, NEW q, NEW p \in Loading(q, k), NEW e \in OfKind(k)
    PROVE  Elections!LoadOne(p, e) \in Loading(q, k)
<1>0. /\ p \in PoolType /\ p.journal = q.journal /\ Pends(p, k) /\ e \in Election /\ e.kind = k
      /\ \A j \in Kind \ {k} : p.pending[j] = q.pending[j]
  BY DEF Loading, OfKind
<1>1. PICK a : a = Elections!Add(p, e)
  OBVIOUS
<1>2. a \in PoolType /\ Pends(a, k) /\ \A j \in Kind \ {k} : a.pending[j] = p.pending[j]
  <2>1. CASE e \in p.all
    BY <1>0, <1>1, <2>1 DEF Elections!Add
  <2>2. CASE e \notin p.all /\ Elections!Cardinality(p.all) >= Slots
    <3>1. a = [p EXCEPT !.ok = FALSE]
      BY <1>1, <2>2 DEF Elections!Add
    <3>2. a \in PoolType /\ a.pending = p.pending
      BY <1>0, <3>1 DEF PoolType
    <3> QED BY <1>0, <3>2 DEF Pends
  <2>3. CASE e \notin p.all /\ ~(Elections!Cardinality(p.all) >= Slots)
    <3>1. PICK r : r = [p EXCEPT !.journal[k] = Append(p.journal[k], e)]
      OBVIOUS
    <3>2. PICK l : l = Append(p.journal[k], e)
      OBVIOUS
    <3>3. l \in Seq(Election)
      BY <1>0, <3>2 DEF PoolType
    <3>4. r \in PoolType /\ r.pending = p.pending
      BY <1>0, <3>1, <3>2, <3>3 DEF PoolType
    <3>5. a = Elections!Promote(r, e)
      BY <1>0, <1>1, <2>3, <3>1 DEF Elections!Add
    <3>6. Pends(r, k)
      BY <1>0, <3>4 DEF Pends
    <3> QED BY <1>0, <3>4, <3>5, <3>6, PromoteFields
  <2> QED BY <2>1, <2>2, <2>3
<1>3. PICK t : t = Elections!LoadOne(p, e)
  OBVIOUS
<1>4. t = [a EXCEPT !.journal = p.journal, !.ok = TRUE]
  BY <1>1, <1>3 DEF Elections!LoadOne
<1>5. t \in PoolType /\ t.pending = a.pending /\ t.journal = p.journal
  BY <1>0, <1>2, <1>4 DEF PoolType
<1>6. t \in Loading(q, k)
  BY <1>0, <1>2, <1>5 DEF Loading, Pends
<1> QED BY <1>3, <1>6

\* Loading a journal of kind k changes what is pending of that kind.
LEMMA LoadKeeps ==
    ASSUME ElectionConstants, NEW k \in Kind, NEW q, NEW p \in Loading(q, k), NEW s \in Seq(OfKind(k))
    PROVE  Elections!FoldLeft(Elections!LoadOne, p, s) \in Loading(q, k)
<1> DEFINE P == Loading(q, k)
           E == OfKind(k)
           D == SUBSET (1..Len(s))
           F == [x \in P \X E |-> Elections!LoadOne(x[1], x[2])]
           Is(h) == h = [S \in SUBSET DOMAIN s |->
                            IF S = {} THEN p
                            ELSE Elections!LoadOne(h[S \ {Largest(S)}], s[Largest(S)])]
<1>1. Len(s) \in Nat /\ DOMAIN s = 1..Len(s) /\ \A i \in 1..Len(s) : s[i] \in E
  OBVIOUS
<1>2. \A x \in P, e \in E : Elections!LoadOne(x, e) \in P
  BY LoadOneKeeps
<1>3. \A S \in D : S # {} => S \ {Largest(S)} \in D /\ s[Largest(S)] \in E
  BY <1>1, LargestIn
<1>4. \E h : Is(h)
  <2>1. F \in [P \X E -> P] /\ \A x \in P, e \in E : F[<<x, e>>] = Elections!LoadOne(x, e)
    <3> HIDE DEF P, E
    <3> QED BY <1>2
  <2> HIDE DEF F
  <2>2. PICK g \in [D -> P] : \A S \in D : g[S] = Fold(F, p, s, g, S)
    <3>1. p \in P /\ s \in Seq(E)
      OBVIOUS
    <3> HIDE DEF P, E
    <3>2. F \in Steps(P, E)
      BY <2>1 DEF Steps
    <3>3. Folds(F, P, p, s)
      BY <3>1, <3>2, FoldExists
    <3> QED BY <3>3 DEF Folds
  <2>3. ASSUME NEW S \in D
        PROVE  g[S] = IF S = {} THEN p
                      ELSE Elections!LoadOne(g[S \ {Largest(S)}], s[Largest(S)])
    <3> HIDE DEF P, E, D
    <3>1. g[S] = Fold(F, p, s, g, S)
      BY <2>2
    <3>2. S # {} => g[S \ {Largest(S)}] \in P /\ s[Largest(S)] \in E
      BY <1>3, <2>2
    <3> QED BY <2>1, <3>1, <3>2 DEF Fold
  <2>4. g = [S \in SUBSET DOMAIN s |-> g[S]]
    BY <1>1, <2>2
  <2>5. Is(g)
    BY <1>1, <2>3, <2>4
  <2> QED BY <2>5
<1>5. PICK h : Is(h) /\ Elections!FoldLeft(Elections!LoadOne, p, s) = h[DOMAIN s]
  <2>1. PICK h : h = CHOOSE g : Is(g)
    OBVIOUS
  <2>2. Is(h)
    <3> HIDE DEF Is
    <3> QED BY <1>4, <2>1
  <2>3. Elections!FoldLeft(Elections!LoadOne, p, s) = (CHOOSE g : Is(g))[DOMAIN s]
    BY DEF Elections!FoldLeft, Elections!MapThenFoldSet, Elections!Max, Largest
  <2> QED BY <2>1, <2>2, <2>3
<1>6. h[{}] = p
  BY <1>5
<1>7. \A S \in D : S # {} => h[S] = Elections!LoadOne(h[S \ {Largest(S)}], s[Largest(S)])
  BY <1>1, <1>5
<1>8. h[1..Len(s)] \in P
  <2>1. p \in P
    OBVIOUS
  <2> HIDE DEF P, E, Is
  <2>2. \A S \in SUBSET (1..Len(s)) : S # {} /\ h[S \ {Largest(S)}] \in P => h[S] \in P
    BY <1>2, <1>3, <1>7
  <2> HIDE DEF D
  <2> QED BY <1>1, <1>6, <2>1, <2>2, FoldKeeps
<1> QED BY <1>1, <1>5, <1>8

\* Executing the elections of a block.
LEMMA ProcessKeeps ==
    ASSUME ElectionConstants, NEW p \in Kept, NEW s \in Seq(Election)
    PROVE  Elections!FoldLeft(Elections!ProcessOne, p, s) \in Kept
<1> DEFINE P == Kept
           E == Election
           D == SUBSET (1..Len(s))
           F == [x \in P \X E |-> Elections!ProcessOne(x[1], x[2])]
           Is(h) == h = [S \in SUBSET DOMAIN s |->
                            IF S = {} THEN p
                            ELSE Elections!ProcessOne(h[S \ {Largest(S)}], s[Largest(S)])]
<1>1. Len(s) \in Nat /\ DOMAIN s = 1..Len(s) /\ \A i \in 1..Len(s) : s[i] \in E
  OBVIOUS
<1>2. \A x \in P, e \in E : Elections!ProcessOne(x, e) \in P
  BY ProcessOneKeeps
<1>3. \A S \in D : S # {} => S \ {Largest(S)} \in D /\ s[Largest(S)] \in E
  BY <1>1, LargestIn
<1>4. \E h : Is(h)
  <2>1. F \in [P \X E -> P] /\ \A x \in P, e \in E : F[<<x, e>>] = Elections!ProcessOne(x, e)
    <3> HIDE DEF P, E
    <3> QED BY <1>2
  <2> HIDE DEF F
  <2>2. PICK g \in [D -> P] : \A S \in D : g[S] = Fold(F, p, s, g, S)
    <3>1. p \in P /\ s \in Seq(E)
      OBVIOUS
    <3> HIDE DEF P, E
    <3>2. F \in Steps(P, E)
      BY <2>1 DEF Steps
    <3>3. Folds(F, P, p, s)
      BY <3>1, <3>2, FoldExists
    <3> QED BY <3>3 DEF Folds
  <2>3. ASSUME NEW S \in D
        PROVE  g[S] = IF S = {} THEN p
                      ELSE Elections!ProcessOne(g[S \ {Largest(S)}], s[Largest(S)])
    <3> HIDE DEF P, E, D
    <3>1. g[S] = Fold(F, p, s, g, S)
      BY <2>2
    <3>2. S # {} => g[S \ {Largest(S)}] \in P /\ s[Largest(S)] \in E
      BY <1>3, <2>2
    <3> QED BY <2>1, <3>1, <3>2 DEF Fold
  <2>4. g = [S \in SUBSET DOMAIN s |-> g[S]]
    BY <1>1, <2>2
  <2>5. Is(g)
    BY <1>1, <2>3, <2>4
  <2> QED BY <2>5
<1>5. PICK h : Is(h) /\ Elections!FoldLeft(Elections!ProcessOne, p, s) = h[DOMAIN s]
  <2>1. PICK h : h = CHOOSE g : Is(g)
    OBVIOUS
  <2>2. Is(h)
    <3> HIDE DEF Is
    <3> QED BY <1>4, <2>1
  <2>3. Elections!FoldLeft(Elections!ProcessOne, p, s) = (CHOOSE g : Is(g))[DOMAIN s]
    BY DEF Elections!FoldLeft, Elections!MapThenFoldSet, Elections!Max, Largest
  <2> QED BY <2>1, <2>2, <2>3
<1>6. h[{}] = p
  BY <1>5
<1>7. \A S \in D : S # {} => h[S] = Elections!ProcessOne(h[S \ {Largest(S)}], s[Largest(S)])
  BY <1>1, <1>5
<1>8. h[1..Len(s)] \in P
  <2>1. p \in P
    OBVIOUS
  <2> HIDE DEF P, E, Is
  <2>2. \A S \in SUBSET (1..Len(s)) : S # {} /\ h[S \ {Largest(S)}] \in P => h[S] \in P
    BY <1>2, <1>3, <1>7
  <2> HIDE DEF D
  <2> QED BY <1>1, <1>6, <2>1, <2>2, FoldKeeps
<1> QED BY <1>1, <1>5, <1>8

\* Loading the journal of one kind leaves it holding what is pending of it.
LEMMA LoadLogs ==
    ASSUME ElectionConstants, NEW k \in Kind, NEW p \in PoolType, Pends(p, k),
           p.journal[k] \in Seq(OfKind(k)), NEW t, t = Elections!Load(p, k)
    PROVE  /\ t \in PoolType /\ Pends(t, k) /\ Logs(t, k)
           /\ \A j \in Kind \ {k} : t.pending[j] = p.pending[j] /\ t.journal[j] = p.journal[j]
<1>1. PICK q : q = Elections!FoldLeft(Elections!LoadOne, p, p.journal[k])
  OBVIOUS
<1>2. p \in Loading(p, k)
  BY DEF Loading
<1>3. q \in Loading(p, k)
  BY <1>1, <1>2, LoadKeeps
<1>4. /\ q \in PoolType /\ q.journal = p.journal /\ Pends(q, k)
      /\ \A j \in Kind \ {k} : q.pending[j] = p.pending[j]
  BY <1>3 DEF Loading
<1>5. t = Elections!Rotate(q, k)
  BY <1>1 DEF Elections!Load
<1>6. /\ t \in PoolType /\ t.pending = q.pending /\ Pends(t, k) /\ Logs(t, k)
      /\ \A j \in Kind \ {k} : t.journal[j] = q.journal[j]
  BY <1>4, <1>5, RotateKeeps
<1> QED BY <1>4, <1>6

\* The pool with these fields keeps what is pending.
Held(pe, al, jo) == [pending |-> pe, all |-> al, journal |-> jo, ok |-> TRUE] \in Kept

\* ... field by field.
LEMMA HeldFields ==
    ASSUME NEW pe, NEW al, NEW jo
    PROVE  Held(pe, al, jo) <=>
             /\ pe \in [Kind -> SUBSET Election] /\ al \in SUBSET Election
             /\ jo \in [Kind -> Seq(Election)]
             /\ \A k \in Kind :
                  /\ IsFiniteSet(pe[k]) /\ pe[k] \subseteq OfKind(k)
                  /\ jo[k] \in Seq(OfKind(k))
                  /\ \A e \in pe[k] : \E i \in 1..Len(jo[k]) : jo[k][i] = e
<1>1. PICK p : p = [pending |-> pe, all |-> al, journal |-> jo, ok |-> TRUE]
  OBVIOUS
<1>2. p.pending = pe /\ p.all = al /\ p.journal = jo
  BY <1>1
<1>3. p \in PoolType <=> /\ pe \in [Kind -> SUBSET Election] /\ al \in SUBSET Election
                         /\ jo \in [Kind -> Seq(Election)]
  BY <1>1 DEF PoolType
<1>4. Held(pe, al, jo) <=> p \in Kept
  BY <1>1 DEF Held
<1> QED BY <1>2, <1>3, <1>4 DEF Kept, Pends, Logs

\* The fields of a pool that keeps what is pending.
LEMMA KeptHeld ==
    ASSUME NEW p \in Kept PROVE Held(p.pending, p.all, p.journal)
<1>1. /\ p.pending \in [Kind -> SUBSET Election] /\ p.all \in SUBSET Election
      /\ p.journal \in [Kind -> Seq(Election)]
  BY DEF Kept, PoolType
<1>2. \A k \in Kind :
        /\ IsFiniteSet(p.pending[k]) /\ p.pending[k] \subseteq OfKind(k)
        /\ p.journal[k] \in Seq(OfKind(k))
        /\ \A e \in p.pending[k] : \E i \in 1..Len(p.journal[k]) : p.journal[k][i] = e
  BY DEF Kept, Pends, Logs
<1> QED BY <1>1, <1>2, HeldFields

-----------------------------------------------------------------------------
\* The blocks of the chain have their elections.
ChainTyped ==
    \E B : (\A b \in B : b.elections \in Seq(Election)) /\ eChain \in Seq(B)

\* The inductive invariant of the election pools.
JournalInv ==
    /\ ChainTyped
    /\ head \in [Node -> Nat]
    /\ eWork \in [Node -> Seq(Election)]
    /\ DOMAIN ePending = Node /\ DOMAIN all = Node /\ DOMAIN journal = Node
    /\ \A n \in Node : Held(ePending[n], all[n], journal[n])

\* Writing a pool that keeps what is pending back to its node.
LEMMA SetPoolHeld ==
    ASSUME JournalInv, NEW n \in Node, NEW p \in Kept, Elections!SetPool(n, p)
    PROVE  /\ DOMAIN ePending' = Node /\ DOMAIN all' = Node /\ DOMAIN journal' = Node
           /\ \A m \in Node : Held(ePending'[m], all'[m], journal'[m])
<1>1. /\ ePending' = [ePending EXCEPT ![n] = p.pending] /\ all' = [all EXCEPT ![n] = p.all]
      /\ journal' = [journal EXCEPT ![n] = p.journal]
  BY DEF Elections!SetPool
<1>2. Held(p.pending, p.all, p.journal)
  BY KeptHeld
<1> QED BY <1>1, <1>2 DEF JournalInv

\* Clearing keeps a journal that holds more than what is pending.
LEMMA ClearedHeld ==
    ASSUME NEW pe, NEW al, NEW jo, Held(pe, al, jo)
    PROVE  /\ Held([k \in Kind |-> {}], al, jo)
           /\ Held([k \in Kind |-> {}], {}, jo)
           /\ Held(pe, {}, jo)
<1>1. PICK none : none = [k \in Kind |-> {}]
  OBVIOUS
<1>2. none \in [Kind -> SUBSET Election] /\ \A k \in Kind : none[k] = {}
  BY <1>1
<1>3. IsFiniteSet({})
  BY FS_EmptySet
<1>4. al \in SUBSET Election /\ jo \in [Kind -> Seq(Election)] /\ \A k \in Kind : jo[k] \in Seq(OfKind(k))
  BY HeldFields
<1>5. Held(none, al, jo) /\ Held(none, {}, jo)
  BY <1>2, <1>3, <1>4, HeldFields
<1>6. Held(pe, {}, jo)
  BY HeldFields
<1> QED BY <1>1, <1>5, <1>6

\* The pool of a node as a record.
LEMMA PoolOfKept ==
    ASSUME JournalInv, NEW n \in Node PROVE Elections!PoolOf(n) \in Kept
  BY DEF JournalInv, Held, Elections!PoolOf

\* A transaction executed for a block being mined.
LEMMA CommitKeeps ==
    ASSUME ElectionConstants, JournalInv, NEW n \in Node, NEW e \in Election,
           Elections!CommitTransaction(n, e)
    PROVE  JournalInv'
<1>1. PICK p : p = Elections!Add(Elections!PoolOf(n), e)
  OBVIOUS
<1>2. p \in Kept
  BY <1>1, PoolOfKept, AddKeeps
<1>3. /\ Elections!SetPool(n, p) /\ eWork' = [eWork EXCEPT ![n] = Append(eWork[n], e)]
      /\ UNCHANGED <<eChain, head>>
  BY <1>1 DEF Elections!CommitTransaction
<1>4. eWork' \in [Node -> Seq(Election)]
  BY <1>3 DEF JournalInv
<1> QED BY <1>2, <1>3, <1>4, SetPoolHeld DEF JournalInv, ChainTyped

\* A mined block has the elections that were executed for it.
LEMMA MineKeeps ==
    ASSUME JournalInv, NEW n \in Node, Elections!Mine(n)
    PROVE  JournalInv'
<1>1. PICK b : b.elections = eWork[n] /\ eChain' = Append(eChain, b)
  BY DEF Elections!Mine
<1>2. /\ head' = [head EXCEPT ![n] = head[n] + 1] /\ eWork' = [eWork EXCEPT ![n] = <<>>]
      /\ UNCHANGED <<ePending, all, journal>>
  BY DEF Elections!Mine, Elections!pool
<1>3. PICK B : (\A c \in B : c.elections \in Seq(Election)) /\ eChain \in Seq(B)
  BY DEF JournalInv, ChainTyped
<1>4. b.elections \in Seq(Election)
  BY <1>1 DEF JournalInv
<1>5. eChain \in Seq(B \cup {b})
  BY <1>3
<1>6. eChain' \in Seq(B \cup {b})
  BY <1>1, <1>5
<1>7. ChainTyped'
  BY <1>3, <1>4, <1>6 DEF ChainTyped
<1>8. head' \in [Node -> Nat] /\ eWork' \in [Node -> Seq(Election)]
  BY <1>2 DEF JournalInv
<1> QED BY <1>2, <1>7, <1>8 DEF JournalInv

\* A block that is imported, up to its election of sealers and police.
LEMMA ImportProcessKeeps ==
    ASSUME ElectionConstants, JournalInv, NEW n \in Node, Elections!ImportProcess(n)
    PROVE  JournalInv'
<1>1. PICK s : s = eChain[head[n] + 1].elections
  OBVIOUS
<1>2. s \in Seq(Election)
  <2>1. PICK B : (\A c \in B : c.elections \in Seq(Election)) /\ eChain \in Seq(B)
    BY DEF JournalInv, ChainTyped
  <2>2. head[n] \in Nat /\ head[n] < Len(eChain)
    BY DEF JournalInv, Elections!ImportProcess
  <2>3. eChain[head[n] + 1] \in B
    BY <2>1, <2>2
  <2> QED BY <1>1, <2>1, <2>3
<1>3. PICK p : p = Elections!FoldLeft(Elections!ProcessOne, Elections!PoolOf(n), s)
  OBVIOUS
<1>4. p \in Kept
  BY <1>2, <1>3, PoolOfKept, ProcessKeeps
<1>5. Elections!SetPool(n, p) /\ UNCHANGED eChain
  BY <1>1, <1>3 DEF Elections!ImportProcess, Elections!Process
<1>6. \/ UNCHANGED <<head, eWork>>
      \/ head' = [head EXCEPT ![n] = head[n] + 1] /\ eWork' = [eWork EXCEPT ![n] = <<>>]
  BY DEF Elections!ImportProcess
<1>7. head' \in [Node -> Nat] /\ eWork' \in [Node -> Seq(Election)]
  <2>1. head \in [Node -> Nat] /\ eWork \in [Node -> Seq(Election)] /\ <<>> \in Seq(Election)
    BY DEF JournalInv
  <2>2. CASE UNCHANGED <<head, eWork>>
    BY <2>1, <2>2
  <2>3. CASE head' = [head EXCEPT ![n] = head[n] + 1] /\ eWork' = [eWork EXCEPT ![n] = <<>>]
    BY <2>1, <2>3
  <2> QED BY <1>6, <2>2, <2>3
<1> QED BY <1>4, <1>5, <1>7, SetPoolHeld DEF JournalInv, ChainTyped

\* The steps of an import after its elections, and the head event.
LEMMA ClearKeeps ==
    ASSUME JournalInv, NEW n \in Node,
           \/ Elections!ImportRefusable(n) \/ Elections!ImportClear(n) \/ Elections!ImportClearAll(n)
           \/ Elections!ImportWrite(n) \/ Elections!Reset(n)
    PROVE  JournalInv'
<1>1. CASE Elections!ImportRefusable(n)
  BY <1>1 DEF Elections!ImportRefusable, Elections!pool, JournalInv, ChainTyped
<1>2. CASE Elections!ImportClear(n)
  <2>1. /\ ePending' = [ePending EXCEPT ![n] = [k \in Kind |-> {}]]
        /\ UNCHANGED <<eChain, head, all, journal, eWork>>
    BY <1>2 DEF Elections!ImportClear, Elections!Kind, Kind
  <2>2. \A m \in Node : Held(ePending'[m], all'[m], journal'[m])
    BY <2>1, ClearedHeld DEF JournalInv
  <2> QED BY <2>1, <2>2 DEF JournalInv, ChainTyped
<1>3. CASE Elections!ImportClearAll(n)
  <2>1. all' = [all EXCEPT ![n] = {}] /\ UNCHANGED <<eChain, head, ePending, journal, eWork>>
    BY <1>3 DEF Elections!ImportClearAll
  <2>2. \A m \in Node : Held(ePending'[m], all'[m], journal'[m])
    BY <2>1, ClearedHeld DEF JournalInv
  <2> QED BY <2>1, <2>2 DEF JournalInv, ChainTyped
<1>4. CASE Elections!ImportWrite(n)
  <2>1. UNCHANGED <<eChain, ePending, all, journal>>
    BY <1>4 DEF Elections!ImportWrite, Elections!pool
  <2>2. \/ UNCHANGED <<head, eWork>>
        \/ head' = [head EXCEPT ![n] = head[n] + 1] /\ eWork' = [eWork EXCEPT ![n] = <<>>]
    BY <1>4 DEF Elections!ImportWrite
  <2>3. head' \in [Node -> Nat] /\ eWork' \in [Node -> Seq(Election)]
    <3>1. head \in [Node -> Nat] /\ eWork \in [Node -> Seq(Election)] /\ <<>> \in Seq(Election)
      BY DEF JournalInv
    <3>2. CASE UNCHANGED <<head, eWork>>
      BY <3>1, <3>2
    <3>3. CASE head' = [head EXCEPT ![n] = head[n] + 1] /\ eWork' = [eWork EXCEPT ![n] = <<>>]
      BY <3>1, <3>3
    <3> QED BY <2>2, <3>2, <3>3
  <2> QED BY <2>1, <2>3 DEF JournalInv, ChainTyped
<1>5. CASE Elections!Reset(n)
  <2>1. /\ ePending' = [ePending EXCEPT ![n] = [k \in Kind |-> {}]]
        /\ all' = [all EXCEPT ![n] = {}] /\ UNCHANGED <<eChain, head, journal, eWork>>
    BY <1>5 DEF Elections!Reset, Elections!Kind, Kind
  <2>2. \A m \in Node : Held(ePending'[m], all'[m], journal'[m])
    BY <2>1, ClearedHeld DEF JournalInv
  <2> QED BY <2>1, <2>2 DEF JournalInv, ChainTyped
<1> QED BY <1>1, <1>2, <1>3, <1>4, <1>5

\* The hourly rotation of both journals.
LEMMA RejournalKeeps ==
    ASSUME JournalInv, NEW n \in Node, Elections!Rejournal(n)
    PROVE  JournalInv'
<1>1. PICK p : p = Elections!PoolOf(n)
  OBVIOUS
<1>2. PICK q : q = Elections!Rotate(p, "sealers")
  OBVIOUS
<1>3. PICK r : r = Elections!Rotate(q, "police")
  OBVIOUS
<1>4. p \in Kept
  BY <1>1, PoolOfKept
<1>5. p \in PoolType /\ \A k \in Kind : Pends(p, k) /\ Logs(p, k)
  BY <1>4 DEF Kept
<1>6. "sealers" \in Kind /\ "police" \in Kind
  BY DEF Kind
<1>7. q \in PoolType /\ q.pending = p.pending /\ Logs(q, "sealers")
  BY <1>2, <1>5, <1>6, RotateKeeps
<1>8. Pends(q, "police") /\ Pends(q, "sealers")
  BY <1>5, <1>6, <1>7 DEF Pends
<1>9. /\ r \in PoolType /\ r.pending = q.pending /\ Logs(r, "police") /\ Pends(r, "police")
      /\ r.journal["sealers"] = q.journal["sealers"]
  BY <1>3, <1>6, <1>7, <1>8, RotateKeeps
<1>10. Pends(r, "sealers") /\ Logs(r, "sealers")
  BY <1>7, <1>8, <1>9 DEF Pends, Logs
<1>11. r \in Kept
  BY <1>9, <1>10 DEF Kept, Kind
<1>12. Elections!SetPool(n, r) /\ UNCHANGED <<eChain, head, eWork>>
  BY <1>1, <1>2, <1>3 DEF Elections!Rejournal
<1> QED BY <1>11, <1>12, SetPoolHeld DEF JournalInv, ChainTyped

\* A restart loads both journals into an empty pool, and rotates each.
LEMMA RestartKeeps ==
    ASSUME ElectionConstants, JournalInv, NEW n \in Node, Elections!Restart(n)
    PROVE  JournalInv'
<1>1. PICK p : p = [Elections!PoolOf(n) EXCEPT !.pending = [k \in Elections!Kind |-> {}], !.all = {}]
  OBVIOUS
<1>2. PICK q : q = Elections!Load(p, "sealers")
  OBVIOUS
<1>3. PICK r : r = Elections!Load(q, "police")
  OBVIOUS
<1>4. p \in Kept
  <2>1. p = [pending |-> [k \in Kind |-> {}], all |-> {}, journal |-> journal[n], ok |-> TRUE]
    BY <1>1 DEF Elections!PoolOf, Elections!Kind, Kind
  <2>2. Held([k \in Kind |-> {}], {}, journal[n])
    BY ClearedHeld DEF JournalInv
  <2> QED BY <2>1, <2>2 DEF Held
<1>5. p \in PoolType /\ \A k \in Kind : Pends(p, k) /\ p.journal[k] \in Seq(OfKind(k))
  BY <1>4 DEF Kept, Logs
<1>6. "sealers" \in Kind /\ "police" \in Kind
  BY DEF Kind
<1>7. /\ q \in PoolType /\ Pends(q, "sealers") /\ Logs(q, "sealers")
      /\ q.pending["police"] = p.pending["police"] /\ q.journal["police"] = p.journal["police"]
  BY <1>2, <1>5, <1>6, LoadLogs
<1>8. Pends(q, "police") /\ q.journal["police"] \in Seq(OfKind("police"))
  BY <1>5, <1>6, <1>7 DEF Pends
<1>9. /\ r \in PoolType /\ Pends(r, "police") /\ Logs(r, "police")
      /\ r.pending["sealers"] = q.pending["sealers"] /\ r.journal["sealers"] = q.journal["sealers"]
  BY <1>3, <1>6, <1>7, <1>8, LoadLogs
<1>10. Pends(r, "sealers") /\ Logs(r, "sealers")
  BY <1>7, <1>9 DEF Pends, Logs
<1>11. r \in Kept
  BY <1>9, <1>10 DEF Kept, Kind
<1>12. /\ Elections!SetPool(n, r) /\ UNCHANGED <<eChain, head>>
       /\ eWork' = [eWork EXCEPT ![n] = <<>>]
  BY <1>1, <1>2, <1>3 DEF Elections!Restart
<1>13. eWork' \in [Node -> Seq(Election)]
  BY <1>12 DEF JournalInv
<1> QED BY <1>11, <1>12, <1>13, SetPoolHeld DEF JournalInv, ChainTyped

\* For any number of nodes, any elections and any limits of the pool: what is
\* pending is in the journal on disk, through executed blocks, imports that
\* clear the pool, head events, rotations and restarts (election_pool.go).
THEOREM PendingAlwaysJournaled ==
    ASSUME ElectionConstants PROVE Elections!Spec => []JournalKeeps
<1>1. Elections!Init => JournalInv
  <2> SUFFICES ASSUME Elections!Init PROVE JournalInv
    OBVIOUS
  <2>1. /\ eChain = <<>> /\ head = [n \in Node |-> 0] /\ eWork = [n \in Node |-> <<>>]
        /\ ePending = [n \in Node |-> [k \in Kind |-> {}]] /\ all = [n \in Node |-> {}]
        /\ journal = [n \in Node |-> [k \in Kind |-> <<>>]]
    BY DEF Elections!Init, Elections!Kind, Kind
  <2>2. ChainTyped
    <3>1. (\A b \in {} : b.elections \in Seq(Election)) /\ eChain \in Seq({})
      BY <2>1
    <3> QED BY <3>1 DEF ChainTyped
  <2>3. Held([k \in Kind |-> {}], {}, [k \in Kind |-> <<>>])
    <3>1. PICK pe, jo : pe = [k \in Kind |-> {}] /\ jo = [k \in Kind |-> <<>>]
      OBVIOUS
    <3>2. /\ pe \in [Kind -> SUBSET Election] /\ \A k \in Kind : pe[k] = {}
          /\ jo \in [Kind -> Seq(Election)] /\ \A k \in Kind : jo[k] \in Seq(OfKind(k))
      BY <3>1
    <3>3. Held(pe, {}, jo)
      BY <3>2, FS_EmptySet, HeldFields
    <3> QED BY <3>1, <3>3
  <2> QED BY <2>1, <2>2, <2>3 DEF JournalInv
<1>2. JournalInv /\ [Elections!Next]_Elections!vars => JournalInv'
  <2> SUFFICES ASSUME JournalInv, [Elections!Next]_Elections!vars PROVE JournalInv'
    OBVIOUS
  <2>1. CASE UNCHANGED Elections!vars
    BY <2>1 DEF Elections!vars, Elections!pool, JournalInv, ChainTyped
  <2>2. CASE Elections!Next
    BY <2>2, CommitKeeps, MineKeeps, ImportProcessKeeps, ClearKeeps, RejournalKeeps, RestartKeeps
       DEF Elections!Next
  <2> QED BY <2>1, <2>2
<1>3. JournalInv => JournalKeeps
  <2> SUFFICES ASSUME JournalInv, NEW n \in Node, NEW k \in Kind, NEW e \in ePending[n][k]
               PROVE  \E i \in 1..Len(journal[n][k]) : journal[n][k][i] = e
    BY DEF JournalKeeps, Elections!JournalKeeps, Elections!Contains, Elections!Kind, Kind
  <2> QED BY HeldFields DEF JournalInv
<1> QED BY <1>1, <1>2, <1>3, PTL DEF Elections!Spec
=============================================================================
