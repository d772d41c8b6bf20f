--------------------------- MODULE SealerTermProofs ---------------------------
(***************************************************************************)
(* Proofs about SealerTerm, for every value of its constants: arithmetic   *)
(* of election numbers, the inductive invariant TermInv, and what follows. *)
(***************************************************************************)
EXTENDS SealerTerm, FiniteSetTheorems, SequenceTheorems, TLAPS

\* Quotient and remainder.
LEMMA DivMod ==
    ASSUME NEW a \in Nat, NEW E \in Nat \ {0}
    PROVE  /\ a \div E \in Nat /\ a % E \in Nat /\ a % E < E
           /\ a = E * (a \div E) + (a % E)
OBVIOUS

\* They are unique.
LEMMA DivModUnique ==
    ASSUME NEW E \in Nat \ {0}, NEW q \in Nat, NEW p \in Nat, NEW r \in Nat, NEW s \in Nat,
           r < E, s < E, E * q + r = E * p + s
    PROVE  q = p /\ r = s
<1>1. ~(q < p)
  <2> SUFFICES ASSUME q < p PROVE FALSE
    OBVIOUS
  <2>1. p - q - 1 \in Nat
    OBVIOUS
  <2>2. E * p = E * q + E + E * (p - q - 1)
    OBVIOUS
  <2>3. E * (p - q - 1) >= 0
    BY <2>1
  <2> QED BY <2>2, <2>3
<1>2. ~(p < q)
  <2> SUFFICES ASSUME p < q PROVE FALSE
    OBVIOUS
  <2>1. q - p - 1 \in Nat
    OBVIOUS
  <2>2. E * q = E * p + E + E * (q - p - 1)
    OBVIOUS
  <2>3. E * (q - p - 1) >= 0
    BY <2>1
  <2> QED BY <2>2, <2>3
<1> QED BY <1>1, <1>2

\* The last election block before a lamp block.
LEMMA ElectionNum ==
    ASSUME NEW a \in Nat, NEW E \in Nat \ {0}
    PROVE  /\ a - (a % E) \in Nat /\ a - (a % E) <= a
           /\ (a - (a % E)) % E = 0
           /\ (a - (a % E)) \div E = a \div E
<1> DEFINE q == a \div E
           c == a - (a % E)
<1>1. q \in Nat /\ c = E * q /\ c \in Nat /\ c <= a
  BY DivMod
<1>2. /\ c \div E \in Nat /\ c % E \in Nat /\ c % E < E
      /\ c = E * (c \div E) + (c % E)
  BY <1>1, DivMod
<1>3. c \div E = q /\ c % E = 0
  <2> DEFINE p == c \div E
             r == c % E
  <2>1. p \in Nat /\ r \in Nat /\ r < E /\ E * q + 0 = E * p + r
    BY <1>1, <1>2
  <2> HIDE DEF p, r, q, c
  <2>2. q \in Nat
    BY <1>1 DEF q
  <2>3. q = p /\ 0 = r
    BY <2>1, <2>2, DivModUnique
  <2> QED BY <2>3 DEF p, r
<1> QED BY <1>1, <1>3

\* Multiples are a factor apart.
LEMMA MulMono ==
    ASSUME NEW E \in Nat \ {0}, NEW p \in Nat, NEW q \in Nat, p < q
    PROVE  E * p + E <= E * q
<1>1. q - p - 1 \in Nat
  OBVIOUS
<1>2. E * q = E * p + E + E * (q - p - 1)
  OBVIOUS
<1>3. E * (q - p - 1) >= 0
  BY <1>1
<1> QED BY <1>2, <1>3

\* Later blocks have later election blocks.
LEMMA DivMono ==
    ASSUME NEW a \in Nat, NEW b \in Nat, a <= b, NEW E \in Nat \ {0}
    PROVE  /\ a \div E <= b \div E
           /\ a - (a % E) <= b - (b % E)
<1> DEFINE p == a \div E
           q == b \div E
           r == a % E
           s == b % E
<1>1. /\ p \in Nat /\ q \in Nat /\ r \in Nat /\ s \in Nat
      /\ r < E /\ s < E /\ a = E * p + r /\ b = E * q + s
  BY DivMod
<1> HIDE DEF p, q, r, s
<1>2. ~(q < p)
  <2> SUFFICES ASSUME q < p PROVE FALSE
    OBVIOUS
  <2>1. E * q + E <= E * p
    BY <1>1, MulMono
  <2> QED BY <1>1, <2>1
<1>3. E * p <= E * q
  <2>1. CASE p = q
    BY <1>1, <2>1
  <2>2. CASE p < q
    BY <1>1, <2>2, MulMono
  <2> QED BY <1>1, <1>2, <2>1, <2>2
<1>4. a - r <= b - s
  BY <1>1, <1>3
<1> QED BY <1>1, <1>2, <1>4 DEF p, q, r, s

\* Two election blocks are a period apart.
LEMMA ElectionGap ==
    ASSUME NEW x \in Nat, NEW y \in Nat, NEW E \in Nat \ {0},
           x % E = 0, y % E = 0, x < y
    PROVE  x + E <= y
<1> DEFINE p == x \div E
           q == y \div E
<1>1. p \in Nat /\ q \in Nat /\ x = E * p /\ y = E * q
  BY DivMod
<1> HIDE DEF p, q
<1>2. p < q
  <2>1. CASE q < p
    BY <1>1, <2>1, MulMono
  <2>2. CASE q = p
    BY <1>1, <2>2
  <2> QED BY <1>1, <2>1, <2>2
<1> QED BY <1>1, <1>2, MulMono

\* The election block before an election block.
LEMMA PreviousElection ==
    ASSUME NEW c \in Nat, NEW E \in Nat \ {0}, c % E = 0, c > 0
    PROVE  /\ c - E \in Nat /\ (c - E) % E = 0
           /\ c \div E >= 1 /\ (c - E) \div E = (c \div E) - 1
<1> DEFINE q == c \div E
           d == c - E
<1>1. q \in Nat /\ c = E * q
  BY DivMod
<1>2. q >= 1
  <2>1. q # 0
    BY <1>1
  <2> QED BY <1>1, <2>1
<1>3. d \in Nat /\ d = E * (q - 1)
  <2> HIDE DEF q
  <2>1. d = E * (q - 1)
    BY <1>1
  <2>2. E * (q - 1) >= 0
    BY <1>1, <1>2
  <2> QED BY <1>1, <2>1, <2>2
<1>4. d \div E = q - 1 /\ d % E = 0
  <2> DEFINE p == d \div E
             r == d % E
  <2>1. p \in Nat /\ r \in Nat /\ r < E /\ d = E * p + r
    BY <1>3, DivMod
  <2>2. E * (q - 1) + 0 = E * p + r
    BY <1>3, <2>1
  <2>3. q - 1 \in Nat
    BY <1>1, <1>2
  <2> HIDE DEF p, r, d, q
  <2>4. q - 1 = p /\ 0 = r
    BY <2>1, <2>2, <2>3, DivModUnique
  <2> QED BY <2>4 DEF p, r
<1> QED BY <1>2, <1>3, <1>4

\* One block more is in the same period or begins the next.
LEMMA NextDiv ==
    ASSUME NEW a \in Nat, NEW E \in Nat \ {0}
    PROVE  /\ (a + 1) % E = 0 => (a + 1) \div E = (a \div E) + 1
           /\ (a + 1) % E # 0 => (a + 1) \div E = a \div E
<1> DEFINE q == a \div E
           r == a % E
           p == (a + 1) \div E
           s == (a + 1) % E
<1>1. /\ q \in Nat /\ r \in Nat /\ r < E /\ a = E * q + r
      /\ p \in Nat /\ s \in Nat /\ s < E /\ a + 1 = E * p + s
  BY DivMod
<1> HIDE DEF p, q, r, s
<1>2. CASE r + 1 < E
  <2>1. E * q + (r + 1) = E * p + s
    BY <1>1
  <2>2. q = p /\ r + 1 = s
    BY <1>1, <1>2, <2>1, DivModUnique
  <2> QED BY <1>1, <2>2 DEF p, q, r, s
<1>3. CASE ~(r + 1 < E)
  <2>1. r + 1 = E
    BY <1>1, <1>3
  <2>2. E * (q + 1) = E * q + E
    BY <1>1
  <2>3. E * (q + 1) + 0 = E * p + s
    BY <1>1, <2>1, <2>2
  <2>4. q + 1 = p /\ 0 = s
    BY <1>1, <2>3, DivModUnique
  <2> QED BY <1>1, <2>4 DEF p, q, r, s
<1> QED BY <1>2, <1>3

-----------------------------------------------------------------------------
(* What the lamp chain of a node says.                                     *)

\* The election block a node is at.
Curr(i) == CurrEleSealersBlockNum(i)

\* The fields of a block have their types.
LEMMA BlockType ==
    ASSUME TermTypeOK, NEW n \in 1..Len(chain)
    PROVE  /\ chain[n] \in BlockRec
           /\ chain[n].lamp \in Nat \ {0} /\ chain[n].seq \in Nat
           /\ chain[n].lamp % ElectionBlockCount = 0
<1>1. chain \in Seq(BlockRec)
  BY DEF TermTypeOK
<1>2. chain[n] \in BlockRec
  BY <1>1, ElementOfSeq
<1>3. n \in DOMAIN chain
  BY <1>1
<1> QED BY <1>2, <1>3 DEF BlockRec, TermTypeOK

\* The head of a node is in the chain.
LEMMA HeadType ==
    ASSUME TermTypeOK, NEW i \in Node
    PROVE  /\ Len(chain) \in Nat /\ head[i] \in 0..Len(chain)
           /\ \A n \in 1..head[i] : n \in 1..Len(chain)
BY DEF TermTypeOK

\* The election block a node is at has been mined.
LEMMA CurrType ==
    ASSUME TermTypeOK, NEW i \in Node
    PROVE  /\ Curr(i) \in Nat /\ Curr(i) % ElectionBlockCount = 0
           /\ Curr(i) \div ElectionBlockCount <= Len(elected)
<1>1. lamp[i] \in Nat /\ lampTop \in Nat /\ lamp[i] <= lampTop
  BY TermAssumption DEF TermTypeOK
<1>2. ElectionBlockCount \in Nat \ {0}
  BY TermAssumption
<1>3. lamp[i] \div ElectionBlockCount <= lampTop \div ElectionBlockCount
  BY <1>1, <1>2, DivMono
<1>4. Len(elected) = lampTop \div ElectionBlockCount
  BY DEF TermTypeOK
<1> QED BY <1>1, <1>2, <1>3, <1>4, ElectionNum DEF Curr, CurrEleSealersBlockNum

\* The sealers of an election block are known once it is mined.
LEMMA NextSealersType ==
    ASSUME TermTypeOK, NEW c \in Nat, c > 0, c % ElectionBlockCount = 0,
           c \div ElectionBlockCount <= Len(elected)
    PROVE  NextSealers(c) \in Committee
<1>1. c \div ElectionBlockCount \in 1..Len(elected)
  <2>1. c \div ElectionBlockCount >= 1 /\ c \div ElectionBlockCount \in Nat
    BY TermAssumption, PreviousElection, DivMod
  <2>2. Len(elected) \in Nat
    BY DEF TermTypeOK
  <2> QED BY <2>1, <2>2
<1>2. elected \in Seq([who : Committee, at : Nat])
  BY DEF TermTypeOK
<1>3. elected[c \div ElectionBlockCount] \in [who : Committee, at : Nat]
  <2> DEFINE k == c \div ElectionBlockCount
             R == [who : Committee, at : Nat]
  <2>1. k \in 1..Len(elected) /\ elected \in Seq(R)
    BY <1>1, <1>2
  <2> HIDE DEF k, R
  <2>2. elected[k] \in R
    BY <2>1, ElementOfSeq
  <2> QED BY <2>2 DEF k, R
<1> QED BY <1>3 DEF NextSealers

\* So are the newest sealers of a node.
LEMMA NewestType ==
    ASSUME TermTypeOK, NEW i \in Node, Curr(i) > 0
    PROVE  GetNewestEleSealers(i) \in Committee
BY CurrType, NextSealersType DEF GetNewestEleSealers, Curr

\* ... and the ones before.
LEMMA LastType ==
    ASSUME TermTypeOK, NEW i \in Node, LastEleSealersBlockNum(i) > 0
    PROVE  GetLastEleSealers(i) \in Committee
<1> DEFINE c == Curr(i)
           E == ElectionBlockCount
           d == c - E
<1>1. c \in Nat /\ c % E = 0 /\ c \div E <= Len(elected)
  BY CurrType
<1>2. E \in Nat \ {0} /\ Len(elected) \in Nat
  BY TermAssumption DEF TermTypeOK
<1>3. d = LastEleSealersBlockNum(i)
  BY DEF LastEleSealersBlockNum, Curr
<1> HIDE DEF c, E
<1>4. c > 0
  BY <1>1, <1>2, <1>3
<1>5. d \in Nat /\ d % E = 0 /\ d \div E = (c \div E) - 1
  BY <1>1, <1>2, <1>4, PreviousElection
<1>6. d \div E <= Len(elected)
  <2>1. c \div E \in Nat
    BY <1>1, <1>2, DivMod
  <2> QED BY <1>1, <1>2, <1>5, <2>1
<1>7. NextSealers(d) \in Committee
  BY <1>3, <1>5, <1>6, NextSealersType DEF E
<1> QED BY <1>3, <1>7 DEF GetLastEleSealers

\* An accepted lamp base is an election block that the node knows.
LEMMA AcceptedBase ==
    ASSUME TermTypeOK, NEW i \in Node, NEW base, VerifyHeaderLampBase(i, base)
    PROVE  /\ base \in Nat \ {0} /\ base <= Curr(i)
           /\ Curr(i) > 0
<1>1. Curr(i) \in Nat /\ Curr(i) = CurrEleSealersBlockNum(i)
  BY CurrType DEF Curr
<1>2. ElectionBlockCount \in Nat \ {0}
  BY TermAssumption
<1>3. LastEleSealersBlockNum(i) = Curr(i) - ElectionBlockCount
  BY DEF LastEleSealersBlockNum, Curr
<1> QED BY <1>1, <1>2, <1>3 DEF VerifyHeaderLampBase

-----------------------------------------------------------------------------
(* The invariant.                                                          *)

\* The invariant holds to begin with.
LEMMA TermInvInit == Init => TermInv
<1> SUFFICES ASSUME Init PROVE TermInv
  OBVIOUS
<1>1. TermTypeOK
  <2>1. 0 \div ElectionBlockCount = 0
    <3> DEFINE E == ElectionBlockCount
    <3>1. E \in Nat \ {0}
      BY TermAssumption
    <3> HIDE DEF E
    <3>2. 0 \div E \in Nat /\ 0 % E \in Nat /\ 0 = E * (0 \div E) + (0 % E)
      BY <3>1, DivMod
    <3> DEFINE q == 0 \div E
    <3>3. q \in Nat /\ E * q <= 0
      BY <3>1, <3>2
    <3> HIDE DEF q
    <3>4. ~(0 < q)
      <4> SUFFICES ASSUME 0 < q PROVE FALSE
        OBVIOUS
      <4>1. E * 0 + E <= E * q
        BY <3>1, <3>3, MulMono
      <4> QED BY <3>1, <3>3, <4>1
    <3> QED BY <3>3, <3>4 DEF q, E
  <2> QED BY <2>1, TermAssumption DEF Init, TermTypeOK
<1>2. ElectionsKnown
  BY DEF Init, ElectionsKnown
<1>3. LampBaseMonotone
  BY DEF Init, LampBaseMonotone
<1> QED BY <1>1, <1>2, <1>3 DEF TermInv

\* A lamp block keeps it.
LEMMA MineLampInv ==
    ASSUME TermInv, MineLamp
    PROVE  TermInv'
<1> USE DEF TermInv
<1>1. TermTypeOK'
  <2>1. lampTop \in Nat /\ lampTop' = lampTop + 1 /\ lampTop' \in 0..MaxLamp
    BY TermAssumption DEF TermTypeOK, MineLamp
  <2>2. /\ lampTop' % ElectionBlockCount = 0
           => lampTop' \div ElectionBlockCount = (lampTop \div ElectionBlockCount) + 1
        /\ lampTop' % ElectionBlockCount # 0
           => lampTop' \div ElectionBlockCount = lampTop \div ElectionBlockCount
    BY <2>1, TermAssumption, NextDiv
  <2>3. /\ elected' \in Seq([who : Committee, at : Nat])
        /\ Len(elected') = lampTop' \div ElectionBlockCount
    <3> DEFINE R == [who : Committee, at : Nat]
    <3>1. elected \in Seq(R) /\ Len(elected) = lampTop \div ElectionBlockCount
      BY DEF TermTypeOK
    <3>2. CASE lampTop' % ElectionBlockCount = 0
      <4>1. PICK c \in Committee : elected' = Append(elected, [who |-> c, at |-> Len(chain)])
        BY <3>2 DEF MineLamp
      <4>2. [who |-> c, at |-> Len(chain)] \in R
        BY DEF TermTypeOK
      <4> DEFINE e == [who |-> c, at |-> Len(chain)]
      <4> HIDE DEF R, e
      <4>3. elected' \in Seq(R) /\ Len(elected') = Len(elected) + 1
        BY <3>1, <4>1, <4>2, AppendProperties DEF e
      <4> QED BY <2>2, <3>1, <3>2, <4>3 DEF R
    <3>3. CASE lampTop' % ElectionBlockCount # 0
      BY <2>2, <3>1, <3>3 DEF MineLamp
    <3> QED BY <3>2, <3>3
  <2>4. lamp' \in [Node -> 0..lampTop']
    BY <2>1 DEF TermTypeOK, MineLamp
  <2> QED BY <2>1, <2>3, <2>4 DEF TermTypeOK, MineLamp
<1>2. ElectionsKnown'
  BY DEF ElectionsKnown, MineLamp, CurrEleSealersBlockNum
<1>3. LampBaseMonotone'
  BY DEF LampBaseMonotone, MineLamp
<1> QED BY <1>1, <1>2, <1>3

\* A node that follows the lamp chain keeps it.
LEMMA SyncLampInv ==
    ASSUME TermInv, NEW i \in Node, SyncLamp(i)
    PROVE  TermInv'
<1> USE DEF TermInv
<1>0. /\ lamp \in [Node -> 0..lampTop] /\ lampTop \in Nat
      /\ lamp[i] < lampTop /\ lamp' = [lamp EXCEPT ![i] = lamp[i] + 1]
  BY TermAssumption DEF TermTypeOK, SyncLamp
<1>1. TermTypeOK'
  <2>1. lamp' \in [Node -> 0..lampTop]
    BY <1>0
  <2> QED BY <2>1 DEF TermTypeOK, SyncLamp
<1>2. \A j \in Node : Curr(j) \in Nat /\ Curr(j)' \in Nat /\ Curr(j) <= Curr(j)'
  <2> SUFFICES ASSUME NEW j \in Node
              PROVE  Curr(j) \in Nat /\ Curr(j)' \in Nat /\ Curr(j) <= Curr(j)'
    OBVIOUS
  <2>1. lamp[j] \in Nat /\ lamp'[j] \in Nat /\ lamp[j] <= lamp'[j]
    BY <1>0
  <2> QED BY <2>1, TermAssumption, DivMono, ElectionNum DEF Curr, CurrEleSealersBlockNum
<1>3. ElectionsKnown'
  <2> SUFFICES ASSUME NEW j \in Node, NEW n \in 1..head'[j]
              PROVE  chain'[n].lamp <= Curr(j)'
    BY DEF ElectionsKnown, Curr
  <2>1. chain' = chain /\ head' = head
    BY DEF SyncLamp
  <2>2. chain[n].lamp <= Curr(j)
    BY <2>1 DEF ElectionsKnown, Curr
  <2>3. chain[n].lamp \in Nat
    BY <2>1, HeadType, BlockType
  <2> QED BY <1>2, <2>1, <2>2, <2>3
<1>4. LampBaseMonotone'
  BY DEF LampBaseMonotone, SyncLamp
<1> QED BY <1>1, <1>3, <1>4

\* An imported block keeps it.
LEMMA ImportInv ==
    ASSUME TermInv, NEW i \in Node, Import(i)
    PROVE  TermInv'
<1> USE DEF TermInv
<1>0. /\ head \in [Node -> 0..Len(chain)] /\ Len(chain) \in Nat
      /\ head[i] < Len(chain) /\ head' = [head EXCEPT ![i] = head[i] + 1]
      /\ chain' = chain /\ lamp' = lamp
  BY DEF TermTypeOK, Import
<1>1. TermTypeOK'
  <2>1. head' \in [Node -> 0..Len(chain)]
    BY <1>0
  <2> QED BY <2>1 DEF TermTypeOK, Import
<1>2. ElectionsKnown'
  <2> SUFFICES ASSUME NEW j \in Node, NEW n \in 1..head'[j]
              PROVE  chain[n].lamp <= Curr(j)
    BY <1>0 DEF ElectionsKnown, Curr, CurrEleSealersBlockNum
  <2>1. CASE n \in 1..head[j]
    BY <2>1 DEF ElectionsKnown, Curr
  <2>2. CASE n \notin 1..head[j]
    <3>1. j = i /\ n = head[i] + 1
      BY <1>0, <2>2
    <3>2. VerifyHeaderLampBase(i, chain[head[i] + 1].lamp)
      BY DEF Import, Importable
    <3> QED BY <3>1, <3>2, AcceptedBase
  <2> QED BY <2>1, <2>2
<1>3. LampBaseMonotone'
  BY DEF LampBaseMonotone, Import
<1> QED BY <1>1, <1>2, <1>3

\* The block that Seal appends.
NewBlock(i) == [lamp |-> CurrEleSealersBlockNum(i),
                sealers |-> GetCurRealSealers(i),
                seq |-> GetCurrentSequenceID(head[i])]

\* A sealed block has been voted for.
LEMMA SomeVoter ==
    ASSUME NEW i \in Node, Seal(i)
    PROVE  \E j \in Node : VerifyHeaderLampBase(j, Curr(i))
<1> DEFINE V == Voters(i, Curr(i))
<1>1. Cardinality(V) > Get2fRealSealersCnt
  BY DEF Seal, Curr
<1>2. Get2fRealSealersCnt \in Nat
  <2>1. Cardinality(Node) \in Nat
    BY TermAssumption, FS_CardinalityType
  <2> DEFINE c == Cardinality(Node)
  <2> HIDE DEF c
  <2>2. c \in Nat => 2 * ((c + 1) \div 3) \in Nat
    OBVIOUS
  <2> QED BY <2>1, <2>2 DEF c, Get2fRealSealersCnt
<1>3. V # {}
  BY <1>1, <1>2, FS_EmptySet
<1> QED BY <1>3 DEF Voters

\* ... so that its base is an election block somebody knows.
LEMMA NewBlockType ==
    ASSUME TermTypeOK, NEW i \in Node, Seal(i)
    PROVE  NewBlock(i) \in BlockRec /\ Curr(i) % ElectionBlockCount = 0
<1>1. Curr(i) \in Nat \ {0} /\ Curr(i) % ElectionBlockCount = 0
  BY SomeVoter, AcceptedBase, CurrType
<1>2. GetCurRealSealers(i) \in Committee
  <2>1. GetNewestEleSealers(i) \in Committee
    BY <1>1, NewestType
  <2>2. GetCurRealSealers(i) # NoSealers
    BY DEF Seal
  <2>3. CASE UseNew(head[i])
    BY <2>1, <2>3 DEF GetCurRealSealers, GetRealSealersByNum
  <2>4. CASE ~UseNew(head[i])
    <3>1. GetLastEleSealers(i) # NoSealers /\ GetCurRealSealers(i) = GetLastEleSealers(i)
      BY <2>2, <2>4 DEF GetCurRealSealers, GetRealSealersByNum
    <3>2. LastEleSealersBlockNum(i) > 0
      BY <3>1 DEF GetLastEleSealers
    <3> QED BY <3>1, <3>2, LastType
  <2> QED BY <2>3, <2>4
<1>3. GetCurrentSequenceID(head[i]) \in Nat
  <2>1. CASE head[i] = 0
    BY <2>1 DEF GetCurrentSequenceID
  <2>2. CASE head[i] # 0
    <3>1. head[i] \in 1..Len(chain)
      BY <2>2, HeadType
    <3>2. chain[head[i]].seq \in Nat
      BY <3>1, BlockType
    <3> QED BY <2>2, <3>2 DEF GetCurrentSequenceID
  <2> QED BY <2>1, <2>2
<1> QED BY <1>1, <1>2, <1>3 DEF NewBlock, BlockRec, Curr

\* A sealed block keeps the invariant.
LEMMA SealInv ==
    ASSUME TermInv, NEW i \in Node, Seal(i)
    PROVE  TermInv'
<1> USE DEF TermInv
<1> DEFINE L == Len(chain)
           b == NewBlock(i)
<1>0. /\ chain \in Seq(BlockRec) /\ b \in BlockRec /\ L \in Nat
      /\ chain' = Append(chain, b)
      /\ b.lamp = Curr(i) /\ Curr(i) \in Nat /\ Curr(i) % ElectionBlockCount = 0
  <2>1. chain \in Seq(BlockRec) /\ L \in Nat
    BY DEF TermTypeOK
  <2>2. chain' = Append(chain, b)
    BY DEF Seal, NewBlock
  <2>3. b.lamp = Curr(i)
    BY DEF NewBlock, Curr
  <2>4. b \in BlockRec /\ Curr(i) \in Nat /\ Curr(i) % ElectionBlockCount = 0
    BY NewBlockType, CurrType
  <2> QED BY <2>1, <2>2, <2>3, <2>4
<1>1. /\ head[i] = L /\ head' = head /\ lamp' = lamp
      /\ elected' = elected /\ lampTop' = lampTop
  BY DEF Seal
<1> HIDE DEF b
<1>2. /\ chain' \in Seq(BlockRec) /\ Len(chain') = L + 1 /\ chain'[L + 1] = b
      /\ \A n \in 1..L : chain'[n] = chain[n]
      /\ DOMAIN chain = 1..L /\ DOMAIN chain' = 1..(L + 1)
  BY <1>0, AppendProperties
<1>3. TermTypeOK'
  <2>1. head' \in [Node -> 0..Len(chain')]
    BY <1>0, <1>1, <1>2 DEF TermTypeOK
  <2>2. \A n \in DOMAIN chain' : chain'[n].lamp % ElectionBlockCount = 0
    <3> SUFFICES ASSUME NEW n \in 1..(L + 1)
                PROVE  chain'[n].lamp % ElectionBlockCount = 0
      BY <1>2
    <3>1. CASE n = L + 1
      BY <1>0, <1>2, <3>1
    <3>2. CASE n \in 1..L
      BY <1>2, <3>2, BlockType
    <3> QED BY <1>0, <3>1, <3>2
  <2> QED BY <1>1, <1>2, <2>1, <2>2 DEF TermTypeOK
<1>4. ElectionsKnown'
  <2> SUFFICES ASSUME NEW j \in Node, NEW n \in 1..head[j]
              PROVE  chain'[n].lamp <= Curr(j)
    BY <1>1 DEF ElectionsKnown, Curr, CurrEleSealersBlockNum
  <2>1. n \in 1..L
    BY HeadType
  <2> QED BY <1>2, <2>1 DEF ElectionsKnown, Curr
<1>5. LampBaseMonotone'
  <2> SUFFICES ASSUME NEW m \in 1..(L + 1), NEW n \in 1..(L + 1), m < n
              PROVE  chain'[m].lamp <= chain'[n].lamp
    BY <1>2 DEF LampBaseMonotone
  <2>1. m \in 1..L
    BY <1>0
  <2>2. CASE n \in 1..L
    BY <1>2, <2>1, <2>2 DEF LampBaseMonotone
  <2>3. CASE n = L + 1
    <3>1. chain[m].lamp <= Curr(i)
      BY <1>1, <2>1 DEF ElectionsKnown, Curr
    <3> QED BY <1>0, <1>2, <2>1, <2>3, <3>1
  <2> QED BY <1>0, <2>2, <2>3
<1> QED BY <1>3, <1>4, <1>5

\* Every step keeps the invariant.
LEMMA TermInvStep == TermInv /\ [Next]_vars => TermInv'
<1> SUFFICES ASSUME TermInv, [Next]_vars PROVE TermInv'
  OBVIOUS
<1>1. CASE MineLamp
  BY <1>1, MineLampInv
<1>2. ASSUME NEW i \in Node, SyncLamp(i) PROVE TermInv'
  BY <1>2, SyncLampInv
<1>3. ASSUME NEW i \in Node, Seal(i) PROVE TermInv'
  BY <1>3, SealInv
<1>4. ASSUME NEW i \in Node, Import(i) PROVE TermInv'
  BY <1>4, ImportInv
<1>5. CASE UNCHANGED vars
  BY <1>5 DEF vars, TermInv, TermTypeOK, ElectionsKnown, LampBaseMonotone,
             CurrEleSealersBlockNum
<1> QED BY <1>1, <1>2, <1>3, <1>4, <1>5 DEF Next

-----------------------------------------------------------------------------
(* What follows from it.                                                   *)

\* Where terms begin.
LEMMA BoundaryHolds ==
    ASSUME TermTypeOK
    PROVE  TermBoundary
<1> DEFINE D == BFTSealersWorkDelay
<1>1. D \in Nat /\ D > 1
  BY TermAssumption
<1> SUFFICES ASSUME NEW n \in 1..Len(chain)
            PROVE  NextIsNewSealersFirstBlock(n) <=> UseNew(n) /\ ~UseNew(n - 1)
  BY DEF TermBoundary
<1>2. n \in Nat /\ n > 0
  BY DEF TermTypeOK
<1>3. CASE n <= D
  <2>1. ~NextIsNewSealersFirstBlock(n)
    BY <1>1, <1>2, <1>3 DEF NextIsNewSealersFirstBlock
  <2>2. UseNew(n) => SameLamp(1, n)
    <3>1. CASE n = D
      BY <1>1, <1>2, <3>1 DEF UseNew, SameLamp
    <3>2. CASE n < D
      BY <1>1, <1>2, <3>2 DEF UseNew
    <3> QED BY <1>1, <1>2, <1>3, <3>1, <3>2
  <2>3. SameLamp(1, n) => n = 1 \/ SameLamp(1, n - 1)
    BY <1>2 DEF SameLamp
  <2>4. n = 1 \/ SameLamp(1, n - 1) => UseNew(n - 1)
    BY <1>1, <1>2, <1>3 DEF UseNew
  <2> QED BY <2>1, <2>2, <2>3, <2>4
<1>4. CASE n > D
  <2>1. NextIsNewSealersFirstBlock(n)
          <=> SameLamp(n - D + 1, n) /\ LampOf(n - D) # LampOf(n)
    BY <1>1, <1>2, <1>4 DEF NextIsNewSealersFirstBlock
  <2>2. UseNew(n) <=> SameLamp(n - D + 1, n)
    BY <1>1, <1>2, <1>4 DEF UseNew
  <2>3. UseNew(n - 1) <=> SameLamp(n - D, n - 1)
    <3>1. n - 1 >= D /\ n - 1 # 0 /\ ~(n - 1 < D) /\ n - 1 - D + 1 = n - D
      BY <1>1, <1>2, <1>4
    <3> QED BY <3>1 DEF UseNew
  <2>4. ASSUME SameLamp(n - D + 1, n)
        PROVE  SameLamp(n - D, n - 1) <=> LampOf(n - D) = LampOf(n)
    <3>1. LampOf(n - 1) = LampOf(n)
      BY <1>1, <1>2, <1>4, <2>4 DEF SameLamp
    <3>2. SameLamp(n - D, n - 1) => LampOf(n - D) = LampOf(n)
      BY <1>1, <1>2, <1>4, <3>1 DEF SameLamp
    <3>3. ASSUME LampOf(n - D) = LampOf(n), NEW k \in (n - D)..(n - 1)
          PROVE  LampOf(k) = LampOf(n - 1)
      <4>1. CASE k = n - D
        BY <3>1, <3>3, <4>1
      <4>2. CASE k # n - D
        <5>1. k \in (n - D + 1)..n
          BY <1>1, <1>2, <4>2
        <5> QED BY <2>4, <3>1, <5>1 DEF SameLamp
      <4> QED BY <4>1, <4>2
    <3> QED BY <3>2, <3>3 DEF SameLamp
  <2> QED BY <2>1, <2>2, <2>3, <2>4
<1> QED BY <1>1, <1>2, <1>3, <1>4

\* How long they last.
LEMMA TermsLastHolds ==
    ASSUME TermTypeOK
    PROVE  TermsLast
<1> DEFINE D == BFTSealersWorkDelay
<1>1. D \in Nat /\ D > 1
  BY TermAssumption
<1>2. DOMAIN chain = 1..Len(chain) /\ Len(chain) \in Nat
  BY DEF TermTypeOK
<1> SUFFICES ASSUME NEW a \in 1..Len(chain), NEW b \in 1..Len(chain), a < b,
                    NextIsNewSealersFirstBlock(a), NextIsNewSealersFirstBlock(b),
                    b - a < D
            PROVE  FALSE
  BY <1>1, <1>2 DEF TermsLast
<1>3. /\ SameLamp(a - D + 1, a) /\ SameLamp(b - D + 1, b)
      /\ LampOf(b - D) # LampOf(b)
  BY <1>2 DEF NextIsNewSealersFirstBlock
<1>4. a \in (b - D + 1)..b /\ b - D \in (a - D + 1)..a
  BY <1>1, <1>2
<1>5. LampOf(a) = LampOf(b) /\ LampOf(b - D) = LampOf(a)
  BY <1>3, <1>4 DEF SameLamp
<1> QED BY <1>3, <1>5

\* Every node knows the sealers of the blocks it has.
LEMMA SealersKnownHolds ==
    ASSUME TermInv
    PROVE  SealersKnown
<1> USE DEF TermInv
<1> SUFFICES ASSUME NEW i \in Node, head[i] > 0, NEW n \in 0..head[i]
            PROVE  GetRealSealersByNum(i, n) # NoSealers
  BY DEF SealersKnown
<1>1. Curr(i) \in Nat /\ Curr(i) % ElectionBlockCount = 0
  BY CurrType
<1>2. head[i] \in Nat /\ head[i] <= Len(chain) /\ Len(chain) \in Nat
  BY HeadType
<1>3. \A k \in 1..head[i] :
         /\ k \in 1..Len(chain) /\ chain[k].lamp \in Nat \ {0}
         /\ chain[k].lamp % ElectionBlockCount = 0 /\ chain[k].lamp <= Curr(i)
  BY HeadType, BlockType DEF ElectionsKnown, Curr
<1>4. CASE UseNew(n)
  <2>1. Curr(i) > 0
    <3>1. 1 \in 1..head[i]
      BY <1>2
    <3> QED BY <1>1, <1>3, <3>1
  <2>2. GetNewestEleSealers(i) \in Committee
    BY <2>1, NewestType
  <2> QED BY <1>4, <2>2, TermAssumption DEF GetRealSealersByNum
<1>5. CASE ~UseNew(n)
  <2>1. BFTSealersWorkDelay \in Nat /\ n \in Nat /\ n # 0
    BY <1>2, <1>5, TermAssumption DEF UseNew
  <2>2. PICK k \in 1..n : LampOf(k) # LampOf(n)
    <3>1. CASE n < BFTSealersWorkDelay
      BY <1>5, <2>1, <3>1 DEF UseNew, SameLamp
    <3>2. CASE ~(n < BFTSealersWorkDelay)
      <4>1. PICK k \in (n - BFTSealersWorkDelay + 1)..n : LampOf(k) # LampOf(n)
        BY <1>5, <2>1, <3>2 DEF UseNew, SameLamp
      <4>2. k \in 1..n
        BY <2>1, <3>2
      <4> QED BY <4>1, <4>2
    <3> QED BY <3>1, <3>2
  <2>3. k \in 1..head[i] /\ n \in 1..head[i] /\ k <= n
    BY <1>2, <2>1
  <2>4. chain[k].lamp # chain[n].lamp /\ k < n
    BY <2>1, <2>2, <2>3 DEF LampOf
  <2>5. chain[k].lamp <= chain[n].lamp
    <3>1. k \in DOMAIN chain /\ n \in DOMAIN chain
      BY <1>3, <2>3 DEF TermTypeOK
    <3> QED BY <2>4, <3>1 DEF LampBaseMonotone
  <2>6. chain[k].lamp + ElectionBlockCount <= chain[n].lamp
    <3> DEFINE x == chain[k].lamp
               y == chain[n].lamp
               E == ElectionBlockCount
    <3>1. x \in Nat /\ y \in Nat /\ x % E = 0 /\ y % E = 0
      BY <1>3, <2>3
    <3>2. E \in Nat \ {0}
      BY TermAssumption
    <3>3. x # y /\ x <= y
      BY <2>4, <2>5
    <3> HIDE DEF x, y, E
    <3>4. x < y
      BY <3>1, <3>3
    <3>5. x + E <= y
      BY <3>1, <3>2, <3>4, ElectionGap
    <3> QED BY <3>5 DEF x, y, E
  <2>7. LastEleSealersBlockNum(i) > 0
    <3>1. LastEleSealersBlockNum(i) = Curr(i) - ElectionBlockCount
      BY DEF LastEleSealersBlockNum, Curr
    <3>2. ElectionBlockCount \in Nat
      BY TermAssumption
    <3> QED BY <1>1, <1>3, <2>3, <2>6, <3>1, <3>2
  <2>8. GetLastEleSealers(i) \in Committee
    BY <2>7, LastType
  <2> QED BY <1>5, <2>8, TermAssumption DEF GetRealSealersByNum
<1> QED BY <1>4, <1>5

\* For every number of nodes, every election period and every delay of two
\* blocks or more: TermTypeOK, and lamp bases never go back
\* (VerifyHeaderLampBase, finalizeWork).
THEOREM TermSafe == Spec => [](TermTypeOK /\ LampBaseMonotone)
<1>1. Spec => []TermInv
  BY TermInvInit, TermInvStep, PTL DEF Spec
<1>2. TermInv => TermTypeOK /\ LampBaseMonotone
  BY DEF TermInv
<1> QED BY <1>1, <1>2, PTL

\* The loops of GetRealSealersByNum and NextIsNewSealersFirstBlock agree on
\* where a term begins, and terms last for the delay at least.
THEOREM TermsAgree == Spec => [](TermBoundary /\ TermsLast)
<1>1. TermTypeOK => TermBoundary /\ TermsLast
  BY BoundaryHolds, TermsLastHolds
<1> QED BY <1>1, TermSafe, PTL

\* A node with a block always finds a list of sealers in GetRealSealersByNum,
\* for every number up to its head: the last election is asked for only when
\* there were two.
THEOREM SealersAlwaysKnown == Spec => []SealersKnown
<1>1. Spec => []TermInv
  BY TermInvInit, TermInvStep, PTL DEF Spec
<1>2. TermInv => SealersKnown
  BY SealersKnownHolds
<1> QED BY <1>1, <1>2, PTL

=============================================================================
