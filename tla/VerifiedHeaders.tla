--------------------------- MODULE VerifiedHeaders ---------------------------
(***************************************************************************)
(* How headers verified by the police get into the election blocks of the  *)
(* lamp chain: the verified header pool of every miner                     *)
(* (core_eth/verifiedHead_pool.go), the work on an election block          *)
(* (miner/worker.go) and the check of an election block by everybody else  *)
(* (core_eth/blockchain.go: validateVerifiedHeaders).                      *)
(*                                                                         *)
(* There is one sharding, as in this build (common.MaxShardingTotal = 1).  *)
(* The elephant chain does not fork here, so a header is its number.  Time *)
(* is counted in terms: the t-th election block is chain[t].  A verified   *)
(* header [num, lamp, from] stands for block num, made under the election  *)
(* block lamp, with its previous headers num - 1 down to from.             *)
(***************************************************************************)
EXTENDS Integers, Sequences, FiniteSets

CONSTANTS
    Miner,
    Officer,
    Police,     \* Police[t]: the officers elected by election block t
    Half,       \* halfPoliceCnt
    IgnoreGap,
    Duplicates, \* TRUE: a result may reach a pool more than once
    MaxTerm,    \* bound: election blocks
    MaxNum,     \* bound: elephant blocks
    MaxAdds,    \* bound: calls of AddVerified at the same time
    MaxCalls    \* bound: calls of AddVerified at all

ASSUME HeadersAssumption ==
    /\ Half \in Nat /\ IgnoreGap \in Nat /\ Duplicates \in BOOLEAN
    /\ MaxTerm \in Nat \ {0} /\ MaxNum \in Nat /\ MaxAdds \in Nat /\ MaxCalls \in Nat
    /\ Police \in [1..MaxTerm -> SUBSET Officer]

VARIABLES
    chain,      \* election blocks: their verified header and its signers
    ele,        \* ele[n]: the election block elephant block n is based on
    pending,    \* pending[m]: verified header -> officers, in order
    valid,      \* the same for those with enough confirmations
    newest,     \* newest[m]: a block number, 0 when there is none
    adds,       \* calls of AddVerified between their check and the lock
    got,        \* results that reached a pool before
    calls,      \* calls of AddVerified so far
    work,       \* work[m]: the election block m is mining, as a set of at most one
    refused     \* a mined block was refused by the other nodes

pools == <<pending, valid, newest>>
vars  == <<chain, ele, pools, adds, got, calls, work, refused>>

\* What the first election block says: nothing is verified yet.
NilVal == [num |-> 0, lamp |-> 0, from |-> 0, signs |-> <<>>]

NoHeaders == [k \in {} |-> <<>>]

Term == Len(chain)
Last == chain[Term]

\* Officers report nothing before the first election block: the genesis block
\* has no verified headers to continue.
Init ==
    /\ chain = <<NilVal>>
    /\ ele = <<>>
    /\ pending = [m \in Miner |-> NoHeaders]
    /\ valid = [m \in Miner |-> NoHeaders]
    /\ newest = [m \in Miner |-> 0]
    /\ adds = {} /\ got = {} /\ calls = 0
    /\ work = [m \in Miner |-> {}]
    /\ refused = FALSE

-----------------------------------------------------------------------------
(* The elephant chain grows, based on the newest election block.           *)

EleBlock ==
    /\ Len(ele) < MaxNum
    /\ ele' = Append(ele, Term)
    /\ UNCHANGED <<chain, pools, adds, got, calls, work, refused>>

\* Results of the police: the signer is an officer of the election block the
\* header is based on, and "from" the verified height some election block
\* had when the officer looked, which was after the header was made or, on a
\* node that lags behind, one term earlier.
Result(o, n, t) ==
    [num |-> n, lamp |-> ele[n], from |-> chain[t].num, officer |-> o]

Key(r) == [num |-> r.num, lamp |-> r.lamp, from |-> r.from]

TooOld(m, r) ==
    newest[m] > IgnoreGap /\ r.num <= newest[m] - IgnoreGap

\* The head of AddVerified, which reads newest without the lock.
AddCheck(m) ==
    /\ Cardinality(adds) < MaxAdds
    /\ calls < MaxCalls
    /\ calls' = calls + 1
    /\ \E n \in DOMAIN ele : \E o \in Police[ele[n]], t \in 1..Term :
         LET r == Result(o, n, t)
             a == [to |-> m, r |-> r]
         IN  /\ t >= ele[n] - 1
             /\ r.from <= r.num
             /\ ~Duplicates => a \notin got
             /\ a \notin adds
             /\ got' = IF Duplicates THEN got ELSE got \cup {a}
             /\ adds' = IF TooOld(m, r) THEN adds ELSE adds \cup {a}
    /\ UNCHANGED <<chain, ele, pools, work, refused>>

Put(f, k, seq) == [x \in DOMAIN f \cup {k} |-> IF x = k THEN seq ELSE f[x]]

SignsOf(f, k) == IF k \in DOMAIN f THEN f[k] ELSE <<>>

\* The rest of AddVerified, under the lock.  A result signed by nobody of the
\* police of its lamp base is an error and not among the results above.
AddVerified(a) ==
    LET m     == a.to
        k     == Key(a.r)
        signs == Append(SignsOf(pending[m], k), a.r.officer)
    IN  /\ adds' = adds \ {a}
        /\ pending' = [pending EXCEPT ![m] = Put(pending[m], k, signs)]
        /\ IF Len(signs) > Half
           THEN /\ valid' = [valid EXCEPT ![m] =
                     Put(valid[m], k, IF k \in DOMAIN valid[m]
                                      THEN Append(valid[m][k], a.r.officer) ELSE signs)]
                /\ newest' = [newest EXCEPT ![m] = a.r.num]
           ELSE UNCHANGED <<valid, newest>>
        /\ UNCHANGED <<chain, ele, got, calls, work, refused>>

-----------------------------------------------------------------------------
(* Verified: what goes into the next election block.                       *)

\* Nothing newer than the last election block's header: it is used again.
UseLast(m) == newest[m] = 0 \/ valid[m] = NoHeaders \/ Last.num >= newest[m]

Highest(m) == {k \in DOMAIN valid[m] : \A j \in DOMAIN valid[m] : j.num <= k.num}

\* "the var heightest must be equal to var height"
HighestIsNewest(m) == \A k \in Highest(m) : k.num = newest[m]

\* The headers Verified may return; none stands for its error.
Verified(m) ==
    IF UseLast(m) THEN {Last}
    ELSE IF ~HighestIsNewest(m) THEN {}
    ELSE {[num |-> k.num, lamp |-> k.lamp, from |-> k.from, signs |-> valid[m][k]] :
             k \in Highest(m)}

\* commitNewWork for the next election block: without verified headers it
\* returns and there is no work.
CommitNewWork(m) ==
    /\ Term < MaxTerm
    /\ \E v \in Verified(m) : work[m] # {v} /\ work' = [work EXCEPT ![m] = {v}]
    /\ UNCHANGED <<chain, ele, pools, adds, got, calls, refused>>

-----------------------------------------------------------------------------
(* validateVerifiedHeaders.                                                *)

Previous(v) == v.num - v.from

\* The header hash in an election block; that of NilVal is empty.
HeaderOf(v) == IF v.num = 0 THEN {} ELSE {v.num}

\* The previous headers begin with the last verified header, or, after a
\* delay, with the one before.
Continues(v) ==
    IF Last.num = 0 THEN Previous(v) = v.num
    ELSE \/ {v.from} = HeaderOf(Last)
         \/ Term > 1 /\ {v.from} = HeaderOf(chain[Term - 1])

\* Mutant of EnoughSigns: a signature need not be of the police.
EnoughAnySigns(v) == Len(v.signs) > Half

EnoughSigns(v) ==
    Cardinality({i \in DOMAIN v.signs : v.signs[i] \in Police[Term]}) > Half

\* A header of unchanged height is not looked at.
Valid(v) ==
    \/ Last.num # 0 /\ v.num = Last.num
    \/ v.num >= Last.num /\ Continues(v) /\ (v.num # 0 => EnoughSigns(v))

\* Mutant of ClearSharding: newest is kept.
ClearShardingKeepNewest(m, v) ==
    IF v.num > Last.num
    THEN /\ pending' = [pending EXCEPT ![m] = NoHeaders]
         /\ valid' = [valid EXCEPT ![m] = NoHeaders]
         /\ UNCHANGED newest
    ELSE UNCHANGED pools

\* The miner of a block with a new height empties its pool.
ClearSharding(m, v) ==
    IF v.num > Last.num
    THEN /\ pending' = [pending EXCEPT ![m] = NoHeaders]
         /\ valid' = [valid EXCEPT ![m] = NoHeaders]
         /\ newest' = [newest EXCEPT ![m] = 0]
    ELSE UNCHANGED pools

\* An election block is mined and the other nodes accept it.  Everybody
\* starts new work on top of it.
Mine(m) ==
    \E v \in work[m] :
        /\ Term < MaxTerm
        /\ Valid(v)
        /\ chain' = Append(chain, v)
        /\ ClearSharding(m, v)
        /\ work' = [x \in Miner |-> {}]
        /\ UNCHANGED <<ele, adds, got, calls, refused>>

\* The miner does not check its own block: it is on its own from here.
MineRefused(m) ==
    \E v \in work[m] :
        /\ ~Valid(v)
        /\ refused' = TRUE
        /\ UNCHANGED <<chain, ele, pools, adds, got, calls, work>>

Next ==
    /\ ~refused
    /\ \/ EleBlock
       \/ \E m \in Miner : AddCheck(m) \/ CommitNewWork(m) \/ Mine(m) \/ MineRefused(m)
       \/ \E a \in adds : AddVerified(a)

Spec == Init /\ [][Next]_vars

-----------------------------------------------------------------------------
HeaderKey == [num : 1..MaxNum, lamp : 1..MaxTerm, from : 0..MaxNum]

\* Every variable has its type.
PoolTypeOK ==
    /\ \A t \in DOMAIN chain : chain[t].num \in 0..MaxNum /\ chain[t].from \in 0..MaxNum
    /\ ele \in Seq(1..MaxTerm)
    /\ \A m \in Miner : \A f \in {pending[m], valid[m]} :
         DOMAIN f \subseteq HeaderKey /\ \A k \in DOMAIN f : f[k] \in Seq(Officer)
    /\ newest \in [Miner -> 0..MaxNum]
    /\ refused \in BOOLEAN

\* A pool that knows a newest header holds it with its confirmations: "must
\* have valid sharding info" is never reported.  newest, pending and valid
\* are changed by message goroutines and by the worker that has mined.
NewestHeld ==
    \A m \in Miner : newest[m] # 0 =>
        \E k \in DOMAIN valid[m] : k.num = newest[m] /\ Len(valid[m][k]) > Half

\* Mutant of GetValidPrevious: off by one at the end of the previous headers.
GetValidPreviousShort(t, h) ==
    LET find[i \in 0..t] ==
          IF i = 0 THEN {}
          ELSE IF Previous(chain[i]) = 0 THEN find[i - 1]
          ELSE IF h >= chain[i].num THEN {}
          ELSE IF chain[i].num - h >= Previous(chain[i]) THEN find[i - 1]
          ELSE {h}
    IN  find[t]

\* GetValidPrevious of the election block t: the header of height h, as a set
\* that is empty when it is not found.
GetValidPrevious(t, h) ==
    LET find[i \in 0..t] ==
          IF i = 0 THEN {}
          ELSE IF Previous(chain[i]) = 0 THEN find[i - 1]
          ELSE IF h >= chain[i].num THEN {}
          ELSE IF chain[i].num - h > Previous(chain[i]) THEN find[i - 1]
          ELSE {h}
    IN  find[t]

\* Every header below the newest verified height is found on the lamp chain,
\* whatever officers lagged behind and whoever mined the election blocks.
PreviousFound ==
    /\ \A h \in 0..(Last.num - 1) : GetValidPrevious(Term, h) = {h}
    /\ \A t \in 2..Term : chain[t].num >= chain[t - 1].num

\* A header that is new in an election block is signed by more than Half
\* different officers elected by the block before.
SignedByPolice ==
    \A t \in 2..Term : chain[t].num # chain[t - 1].num =>
        Cardinality({chain[t].signs[i] : i \in DOMAIN chain[t].signs} \cap Police[t - 1]) > Half

\* A header is in valid with more than Half confirmations: of different
\* officers, that is.
ConfirmedByDistinct ==
    \A m \in Miner : \A k \in DOMAIN valid[m] :
        Cardinality({valid[m][k][i] : i \in DOMAIN valid[m][k]}) > Half

\* Verified does not report that heightest and height differ.
HighestConsistent == \A m \in Miner : ~UseLast(m) => HighestIsNewest(m)

\* What an honest miner puts into its election block is accepted by the
\* others, also when officers lag behind by one term.
MinedAccepted == ~refused
=============================================================================
