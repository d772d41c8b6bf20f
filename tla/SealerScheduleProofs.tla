------------------------- MODULE SealerScheduleProofs -------------------------
(* Proofs about SealerSchedule.                                            *)
EXTENDS SealerSchedule, TLAPS

(* Division and remainder.                                                 *)

\* Quotient and remainder.
LEMMA DivMod ==
    ASSUME NEW a \in Int, NEW b \in Nat \ {0}
    PROVE  /\ a \div b \in Int /\ a % b \in 0..(b - 1)
           /\ a = b * (a \div b) + (a % b)
           /\ a >= 0 => a \div b >= 0
OBVIOUS

\* The quotient of a multiple and a remainder.
LEMMA DivUnique ==
    ASSUME NEW b \in Nat \ {0}, NEW q \in Int, NEW r \in 0..(b - 1)
    PROVE  (q * b + r) \div b = q
OBVIOUS

\* The quotient of Go, which rounds to zero, of what is not too far below it.
LEMMA QuotientNat ==
    ASSUME NEW a \in Int, NEW b \in Nat \ {0}, a > -b
    PROVE  Quotient(a, b) \in Nat
BY DivMod DEF Quotient

\* Two places in the turn with the same view are the same.
LEMMA SameTurn ==
    ASSUME NEW n \in Nat \ {0}, NEW p \in 0..(n - 1), NEW r \in 0..(n - 1),
           NEW q \in Nat, NEW x \in Nat, NEW v \in Int, NEW view \in Int,
           view = p + q * n + 1 + v, view = r + x * n + 1 + v
    PROVE  p = r
<1>1. q * n \in Nat /\ x * n \in Nat
  OBVIOUS
<1>2. p + q * n = r + x * n
  BY <1>1
<1>3. CASE q = x
  BY <1>1, <1>2, <1>3
<1>4. CASE q > x
  <2>1. (q - x - 1) * n >= 0
    BY <1>4
  <2>2. q * n = x * n + n + (q - x - 1) * n
    BY <1>4
  <2> QED BY <1>1, <1>2, <2>1, <2>2
<1>5. CASE q < x
  <2>1. (x - q - 1) * n >= 0
    BY <1>5
  <2>2. x * n = q * n + n + (x - q - 1) * n
    BY <1>5
  <2> QED BY <1>1, <1>2, <2>1, <2>2
<1> QED BY <1>3, <1>4, <1>5

\* Two sealers with the same distance to a third are the same.
LEMMA SameModulo ==
    ASSUME NEW n \in Nat \ {0}, NEW x \in 1..n, NEW y \in 1..n, NEW c \in Int,
           (x - c) % n = (y - c) % n
    PROVE  x = y
<1> DEFINE a == (x - c) \div n
           b == (y - c) \div n
<1>1. a \in Int /\ x - c = n * a + ((x - c) % n) /\ (x - c) % n \in Int
  <2>1. x - c \in Int
    OBVIOUS
  <2> QED BY <2>1, DivMod
<1>2. b \in Int /\ y - c = n * b + ((y - c) % n)
  <2>1. y - c \in Int
    OBVIOUS
  <2> QED BY <2>1, DivMod
<1> HIDE DEF a, b
<1>3. (x - 1) + b * n = (y - 1) + a * n
  BY <1>1, <1>2
<1> QED BY <1>1, <1>2, <1>3

-----------------------------------------------------------------------------
(* The inductive invariant.                                                *)

\* While i does not add up, its table is that of the last event it handled.
TableKept ==
    \A i \in Node : ~adding[i] =>
        /\ table[i] = TableOf(event[i], exp[i])
        /\ exp[i] <= Max

\* i adds up only for an event it has not handled.
AddingAhead == \A i \in Node : adding[i] => event[i] < head[i]

\* A request was made by a clock that is not far ahead.
ReqPast == \A k \in 1..Len(block) : block[k].req <= time + Skew

\* The inductive invariant.
ScheduleInv == ScheduleTypeOK /\ TableKept /\ AddingAhead /\ ReqPast

\* What the assumptions say of the durations.
LEMMA Durations ==
    /\ ViewDuration \in Nat \ {0} /\ MaxStartDelay \in Nat /\ Cycle \in Nat \ {0}
    /\ Min \div 2 \in Nat
    /\ Skew + (Min \div 2) < Min
    /\ Skew <= Min - (Min \div 2)
    /\ Min - (Min \div 2) + MaxStartDelay + Skew < ViewDuration
BY ScheduleAssumption DEF ViewDuration, MaxStartDelay, Cycle

\* The fields of a block have their types.
LEMMA BlockFields ==
    ASSUME ScheduleTypeOK, NEW k \in 1..Len(block)
    PROVE  /\ block[k].sealer \in Sealer /\ block[k].req \in Nat
           /\ block[k].view \in Int /\ block[k].avg \in Nat
<1>1. block[k] \in BlockType
  BY DEF ScheduleTypeOK
<1> QED BY <1>1 DEF BlockType

\* The table made of a block has its type.
LEMMA TableType ==
    ASSUME ScheduleTypeOK, NEW k \in 1..Len(block), NEW e \in Nat
    PROVE  TableOf(k, e) \in [sealer : Sealer, last : Nat]
BY BlockFields DEF TableOf, CalculateLastTime

\* A view is an integer.
LEMMA ViewType ==
    ASSUME ScheduleTypeOK, NEW i \in Node
    PROVE  GetCurrentViewID(i) \in Int
<1>1. /\ time \in Nat /\ off[i] \in Nat /\ head[i] \in 1..Len(block) /\ exp[i] \in Nat
  BY DEF ScheduleTypeOK
<1>4. block[head[i]].req \in Nat /\ block[head[i]].view \in Int
  BY <1>1, BlockFields
<1> DEFINE a == GetTimeNowMs(i) - ViewStart(i)
<1>2. a \in Int
  <2>1. Min \div 2 \in Nat
    BY Durations
  <2>2. GetTimeNowMs(i) \in Int
    BY <1>1 DEF GetTimeNowMs
  <2>3. ViewStart(i) \in Int
    BY <1>1, <1>4, <2>1 DEF ViewStart, CalculateLastTime
  <2> QED BY <2>2, <2>3
<1>3. Quotient(a, ViewDuration) \in Int
  <2>1. CASE a >= 0
    BY <1>2, <2>1, DivMod, Durations DEF Quotient
  <2>2. CASE ~(a >= 0)
    <3>1. -a \in Int
      BY <1>2
    <3>2. (-a) \div ViewDuration \in Int
      BY <3>1, DivMod, Durations
    <3> QED BY <2>2, <3>2 DEF Quotient
  <2> QED BY <2>1, <2>2
<1> QED BY <1>4, <1>3 DEF GetCurrentViewID

\* The invariant holds to begin with.
LEMMA InitInv == Init => ScheduleInv
<1> SUFFICES ASSUME Init PROVE ScheduleInv
  OBVIOUS
<1> USE ScheduleAssumption DEF Init, Sealer
<1>1. Len(block) = 1 /\ block \in Seq(BlockType) /\ block[1].req = 0
  BY DEF BlockType
<1>2. TableOf(1, Max) \in [sealer : Sealer, last : Nat]
  BY <1>1 DEF TableOf, CalculateLastTime
<1>3. ScheduleTypeOK
  BY <1>1, <1>2 DEF ScheduleTypeOK
<1>4. TableKept /\ AddingAhead
  BY DEF TableKept, AddingAhead
<1>5. ReqPast
  BY <1>1 DEF ReqPast
<1> QED BY <1>3, <1>4, <1>5 DEF ScheduleInv

\* A tick of the clock keeps it.
LEMMA TickInv == ScheduleInv /\ Tick => ScheduleInv'
<1> SUFFICES ASSUME ScheduleInv, Tick PROVE ScheduleInv'
  OBVIOUS
<1>1. ScheduleTypeOK'
  BY DEF ScheduleInv, ScheduleTypeOK, Tick
<1>2. TableKept' /\ AddingAhead'
  BY DEF ScheduleInv, TableKept, AddingAhead, TableOf, CalculateLastTime, Tick
<1>3. ReqPast'
  <2>1. /\ time \in Nat /\ time' = time + 1 /\ block' = block
        /\ \A k \in 1..Len(block) : block[k].req \in Nat /\ block[k].req <= time + Skew
    BY BlockFields DEF ScheduleInv, ScheduleTypeOK, ReqPast, Tick
  <2> QED BY <2>1, ScheduleAssumption DEF ReqPast
<1> QED BY <1>1, <1>2, <1>3 DEF ScheduleInv

\* A sealed block keeps it.
LEMMA SealInv == ASSUME ScheduleInv, NEW i \in Node, Seal(i) PROVE ScheduleInv'
<1> USE DEF ScheduleInv
<1>1. PICK a \in Avgs : block' = Append(block, [sealer |-> i, req |-> GetTimeNowMs(i),
                                 view |-> GetCurrentViewID(i), avg |-> a])
  BY DEF Seal
<1>2. /\ GetTimeNowMs(i) \in Nat /\ GetTimeNowMs(i) <= time + Skew
      /\ GetCurrentViewID(i) \in Int /\ a \in Nat /\ i \in Sealer
  <2>1. time \in Nat /\ off[i] \in 0..Skew
    BY DEF ScheduleTypeOK
  <2>2. GetTimeNowMs(i) \in Nat /\ GetTimeNowMs(i) <= time + Skew
    BY <2>1, ScheduleAssumption DEF GetTimeNowMs
  <2>3. GetCurrentViewID(i) \in Int
    BY ViewType
  <2>4. a \in Nat /\ i \in Sealer
    BY ScheduleAssumption DEF Sealer
  <2> QED BY <2>2, <2>3, <2>4
<1> DEFINE new == [sealer |-> i, req |-> GetTimeNowMs(i),
                   view |-> GetCurrentViewID(i), avg |-> a]
<1>8. new \in BlockType /\ new.req = GetTimeNowMs(i)
  BY <1>2 DEF BlockType
<1> HIDE DEF new
<1>3. /\ block' \in Seq(BlockType) /\ Len(block') = Len(block) + 1 /\ block' # <<>>
      /\ \A k \in 1..Len(block) : block'[k] = block[k]
      /\ block'[Len(block) + 1] = new
  BY <1>1, <1>8 DEF ScheduleTypeOK, new
<1>4. ScheduleTypeOK'
  BY <1>3 DEF ScheduleTypeOK, Seal
<1>5. TableKept'
  <2> SUFFICES ASSUME NEW j \in Node, ~adding'[j]
               PROVE  table'[j] = TableOf(event[j], exp[j])' /\ exp'[j] <= Max
    BY DEF TableKept
  <2>1. event[j] \in 1..Len(block) /\ table[j] = TableOf(event[j], exp[j]) /\ exp[j] <= Max
    BY DEF TableKept, ScheduleTypeOK, Seal
  <2> QED BY <2>1, <1>3 DEF TableOf, CalculateLastTime, Seal
<1>6. AddingAhead'
  BY DEF AddingAhead, ScheduleTypeOK, Seal
<1>7. ReqPast'
  BY <1>2, <1>3, <1>8 DEF ReqPast, ScheduleTypeOK, Seal
<1> QED BY <1>4, <1>5, <1>6, <1>7

\* An imported block keeps it.
LEMMA ImportInv == ASSUME ScheduleInv, NEW i \in Node, Import(i) PROVE ScheduleInv'
<1> USE DEF ScheduleInv
<1>1. ScheduleTypeOK'
  BY DEF ScheduleTypeOK, Import
<1>2. TableKept'
  BY DEF TableKept, TableOf, CalculateLastTime, Import
<1>3. AddingAhead'
  BY DEF AddingAhead, ScheduleTypeOK, Import
<1>4. ReqPast'
  BY DEF ReqPast, Import
<1> QED BY <1>1, <1>2, <1>3, <1>4

\* The sum under way in expBlockPeriod keeps it.
LEMMA HeadEventSumInv == ASSUME ScheduleInv, NEW i \in Node, HeadEventSum(i) PROVE ScheduleInv'
<1> USE DEF ScheduleInv
<1>1. ScheduleTypeOK'
  BY ScheduleAssumption DEF ScheduleTypeOK, HeadEventSum
<1>2. TableKept'
  BY DEF TableKept, TableOf, CalculateLastTime, HeadEventSum, ScheduleTypeOK
<1>3. AddingAhead'
  BY DEF AddingAhead, ScheduleTypeOK, HeadEventSum
<1>4. ReqPast'
  BY DEF ReqPast, HeadEventSum
<1> QED BY <1>1, <1>2, <1>3, <1>4

\* A head event keeps it: the table is made of the head anew.
LEMMA HeadEventInv == ASSUME ScheduleInv, NEW i \in Node, HeadEvent(i) PROVE ScheduleInv'
<1> USE DEF ScheduleInv
<1> DEFINE k == event[i] + 1
           e == IF k > Cnt THEN Capped(block[k].avg) ELSE exp[i]
<1>1. /\ event[i] \in 1..Len(block) /\ head[i] \in 1..Len(block) /\ event[i] < head[i]
      /\ exp[i] \in Nat
  BY DEF ScheduleTypeOK, HeadEvent
<1>2. k \in 1..Len(block) /\ k <= head[i]
  BY <1>1
<1>3. e \in Nat /\ e <= Max
  <2>1. CASE k > Cnt
    <3>1. block[k].avg \in Nat
      BY <1>2, BlockFields
    <3> QED BY <2>1, <3>1, ScheduleAssumption DEF Capped
  <2>2. CASE ~(k > Cnt)
    <3>1. ~adding[i]
      BY <2>2 DEF HeadEvent, ScheduleTypeOK
    <3> QED BY <2>2, <3>1, <1>1 DEF TableKept
  <2> QED BY <2>1, <2>2
<1>4. TableOf(k, e) \in [sealer : Sealer, last : Nat]
  BY <1>2, <1>3, TableType
<1>5. /\ adding' = [adding EXCEPT ![i] = FALSE]
      /\ exp' = [exp EXCEPT ![i] = e]
      /\ table' = [table EXCEPT ![i] = TableOf(k, e)]
      /\ event' = [event EXCEPT ![i] = k]
      /\ UNCHANGED <<time, off, block, head, restarts>>
  BY DEF HeadEvent
<1> HIDE DEF k, e
<1>6. ScheduleTypeOK'
  BY <1>2, <1>3, <1>4, <1>5 DEF ScheduleTypeOK
<1>7. TableKept'
  <2> SUFFICES ASSUME NEW j \in Node, ~adding'[j]
               PROVE  table'[j] = TableOf(event[j], exp[j])' /\ exp'[j] <= Max
    BY DEF TableKept
  <2>1. CASE j = i
    BY <2>1, <1>3, <1>5 DEF TableOf, CalculateLastTime, ScheduleTypeOK
  <2>2. CASE j # i
    BY <2>2, <1>5 DEF TableKept, TableOf, CalculateLastTime, ScheduleTypeOK
  <2> QED BY <2>1, <2>2
<1>8. AddingAhead'
  BY <1>5 DEF AddingAhead, ScheduleTypeOK
<1>9. ReqPast'
  BY <1>5 DEF ReqPast
<1> QED BY <1>6, <1>7, <1>8, <1>9

\* A restart keeps it: the table is made of the head anew.
LEMMA RestartInv == ASSUME ScheduleInv, NEW i \in Node, Restart(i) PROVE ScheduleInv'
<1> USE DEF ScheduleInv
<1>1. head[i] \in 1..Len(block) /\ Max \in Nat /\ restarts \in Nat
  BY ScheduleAssumption DEF ScheduleTypeOK
<1>2. TableOf(head[i], Max) \in [sealer : Sealer, last : Nat]
  BY <1>1, TableType
<1>3. ScheduleTypeOK'
  BY <1>1, <1>2 DEF ScheduleTypeOK, Restart
<1>4. TableKept'
  <2> SUFFICES ASSUME NEW j \in Node, ~adding'[j]
               PROVE  table'[j] = TableOf(event[j], exp[j])' /\ exp'[j] <= Max
    BY DEF TableKept
  <2>1. CASE j = i
    BY <2>1, <1>1 DEF TableOf, CalculateLastTime, ScheduleTypeOK, Restart
  <2>2. CASE j # i
    BY <2>2 DEF TableKept, TableOf, CalculateLastTime, ScheduleTypeOK, Restart
  <2> QED BY <2>1, <2>2
<1>5. AddingAhead'
  BY DEF AddingAhead, ScheduleTypeOK, Restart
<1>6. ReqPast'
  BY DEF ReqPast, Restart
<1> QED BY <1>3, <1>4, <1>5, <1>6

\* The invariant holds in every state.
THEOREM ScheduleInvariant == Spec => []ScheduleInv
<1>1. ScheduleInv /\ [Next]_vars => ScheduleInv'
  <2> SUFFICES ASSUME ScheduleInv, [Next]_vars PROVE ScheduleInv'
    OBVIOUS
  <2>1. CASE Tick
    BY <2>1, TickInv
  <2>2. ASSUME NEW i \in Node, Seal(i) PROVE ScheduleInv'
    BY <2>2, SealInv
  <2>3. ASSUME NEW i \in Node, Import(i) PROVE ScheduleInv'
    BY <2>3, ImportInv
  <2>4. ASSUME NEW i \in Node, HeadEventSum(i) PROVE ScheduleInv'
    BY <2>4, HeadEventSumInv
  <2>5. ASSUME NEW i \in Node, HeadEvent(i) PROVE ScheduleInv'
    BY <2>5, HeadEventInv
  <2>6. ASSUME NEW i \in Node, Restart(i) PROVE ScheduleInv'
    BY <2>6, RestartInv
  <2>7. CASE UNCHANGED vars
    BY <2>7 DEF vars, ScheduleInv, ScheduleTypeOK, TableKept, AddingAhead, ReqPast,
       TableOf, CalculateLastTime
  <2> QED BY <2>1, <2>2, <2>3, <2>4, <2>5, <2>6, <2>7 DEF Next
<1> QED BY InitInv, <1>1, PTL DEF Spec

-----------------------------------------------------------------------------
(* Turns and views.                                                        *)

\* The variables of one node have their types.
LEMMA NodeTypes ==
    ASSUME ScheduleTypeOK, NEW i \in Node
    PROVE  /\ time \in Nat /\ off[i] \in 0..Skew /\ exp[i] \in Nat /\ head[i] \in 1..Len(block)
           /\ table[i].sealer \in Sealer /\ table[i].last \in Nat
           /\ GetTimeNowMs(i) \in Nat
BY ScheduleAssumption DEF ScheduleTypeOK, GetTimeNowMs

\* A settled node has the table of its head.
LEMMA SettledTable ==
    ASSUME ScheduleInv, NEW i \in Node, Settled(i)
    PROVE  table[i] = TableOf(head[i], exp[i]) /\ exp[i] <= Max
<1>1. ~adding[i]
  BY NodeTypes DEF ScheduleInv, AddingAhead, Settled
<1> QED BY <1>1 DEF ScheduleInv, TableKept, Settled

\* A place in the turn is one of N.
LEMMA PlaceType ==
    ASSUME ScheduleTypeOK, NEW i \in Node, NEW s \in Sealer
    PROVE  Place(i, s) \in 0..(N - 1)
<1>1. s - table[i].sealer - 1 \in Int
  BY NodeTypes, ScheduleAssumption DEF Sealer
<1> QED BY <1>1, DivMod, ScheduleAssumption DEF Place

\* The time of a turn: d after the start of the k-th turn since the head.
LEMMA TurnTime ==
    ASSUME ScheduleInv, NEW i \in Node, OwnTurn(i)
    PROVE  \E q \in Nat, d \in 0..MaxStartDelay :
             GetTimeNowMs(i) = table[i].last + Min + (Place(i, i) + q * N) * ViewDuration + d
<1> USE DEF ScheduleInv
<1> DEFINE P == Place(i, i)
           a == GetTimeNowMs(i) - StartTime(i, i)
           q == a \div Cycle
           d == a % Cycle
<1>1. P \in Nat /\ N \in Nat /\ ViewDuration \in Nat /\ Cycle \in Nat \ {0} /\ MaxStartDelay \in Nat
  BY PlaceType, Durations, ScheduleAssumption DEF Sealer
<1>2. GetTimeNowMs(i) \in Nat /\ table[i].last \in Nat /\ Min \in Nat
  BY NodeTypes, ScheduleAssumption
<1>3. StartTime(i, i) = table[i].last + Min + P * ViewDuration /\ P * ViewDuration \in Nat
  BY <1>1 DEF StartTime
<1>4. a \in Nat
  BY <1>1, <1>2, <1>3 DEF OwnTurn, IsCurrentSealer, Started
<1>5. d <= MaxStartDelay
  BY DEF OwnTurn, IsCurrentSealer, TimeDiff
<1>6. q \in Nat /\ d \in Nat /\ a = Cycle * q + d
  <2> HIDE DEF a
  <2> QED BY <1>1, <1>4, DivMod
<1> HIDE DEF P, q, d
<1>7. Cycle * q = (q * N) * ViewDuration
  BY <1>1, <1>6 DEF Cycle
<1>8. (P + q * N) * ViewDuration = P * ViewDuration + (q * N) * ViewDuration
  BY <1>1, <1>6
<1>10. q * N \in Nat
  BY <1>1, <1>6
<1>11. (q * N) * ViewDuration \in Nat
  BY <1>1, <1>10
<1>9. GetTimeNowMs(i) = table[i].last + Min + (P + q * N) * ViewDuration + d
  BY <1>2, <1>3, <1>6, <1>7, <1>8, <1>11
<1> QED BY <1>1, <1>5, <1>6, <1>9 DEF P

\* A clock that differs by at most Skew is in the k-th view during the k-th turn.
LEMMA ViewInTurn ==
    ASSUME NEW k \in Nat, NEW d \in 0..MaxStartDelay, NEW last \in Nat, NEW u \in Int,
           u >= last + Min + k * ViewDuration + d - Skew,
           u <= last + Min + k * ViewDuration + d + Skew
    PROVE  Quotient(u - (last + (Min \div 2)), ViewDuration) = k
<1> DEFINE r == u - last - (Min \div 2) - k * ViewDuration
<1>1. /\ ViewDuration \in Nat \ {0} /\ Min \div 2 \in Nat /\ Min \in Nat /\ Skew \in Nat
      /\ MaxStartDelay \in Nat
  BY Durations, ScheduleAssumption
<1>2. k * ViewDuration \in Nat
  BY <1>1
<1>3. r \in 0..(ViewDuration - 1)
  BY <1>1, <1>2, Durations
<1>4. u - (last + (Min \div 2)) = k * ViewDuration + r
  BY <1>1, <1>2
<1> HIDE DEF r
<1>5. k * ViewDuration + r >= 0
  BY <1>2, <1>3, <1>1
<1>6. (k * ViewDuration + r) \div ViewDuration = k
  BY <1>1, <1>3, DivUnique
<1> QED BY <1>4, <1>5, <1>6 DEF Quotient

\* Two clocks differ by the skew at most.
LEMMA ClocksNear ==
    ASSUME ScheduleTypeOK, NEW i \in Node, NEW j \in Node
    PROVE  /\ GetTimeNowMs(j) >= GetTimeNowMs(i) - Skew
           /\ GetTimeNowMs(j) <= GetTimeNowMs(i) + Skew
<1>1. time \in Nat /\ off[i] \in 0..Skew /\ off[j] \in 0..Skew /\ Skew \in Nat
  BY NodeTypes, ScheduleAssumption
<1> QED BY <1>1 DEF GetTimeNowMs

\* In the turn of i, both are in the view given by its place.
LEMMA ViewOfTurn ==
    ASSUME ScheduleInv, NEW i \in Node, NEW j \in Node, NEW q \in Nat, NEW d \in 0..MaxStartDelay,
           Settled(i), head[i] = head[j], exp[i] = exp[j],
           GetTimeNowMs(i) = table[i].last + Min + (Place(i, i) + q * N) * ViewDuration + d
    PROVE  GetCurrentViewID(j) = Place(i, i) + q * N + 1 + block[head[j]].view
<1> USE DEF ScheduleInv
<1> DEFINE k == Place(i, i) + q * N
<1>1. k \in Nat
  BY PlaceType, ScheduleAssumption DEF Sealer
<1>2. table[i].last = CalculateLastTime(head[j], exp[j]) /\ table[i].last \in Nat
  <2>1. table[i] = TableOf(head[i], exp[i])
    BY SettledTable
  <2>2. table[i].last = CalculateLastTime(head[i], exp[i])
    BY <2>1 DEF TableOf
  <2> QED BY <2>2, NodeTypes
<1>3. /\ GetTimeNowMs(j) \in Int
      /\ GetTimeNowMs(j) >= table[i].last + Min + k * ViewDuration + d - Skew
      /\ GetTimeNowMs(j) <= table[i].last + Min + k * ViewDuration + d + Skew
  <2>1. /\ GetTimeNowMs(j) >= GetTimeNowMs(i) - Skew
        /\ GetTimeNowMs(j) <= GetTimeNowMs(i) + Skew
    BY ClocksNear
  <2>2. GetTimeNowMs(j) \in Nat /\ GetTimeNowMs(i) \in Nat
    BY NodeTypes
  <2>3. GetTimeNowMs(i) = table[i].last + Min + k * ViewDuration + d
    OBVIOUS
  <2> HIDE DEF k
  <2>4. k * ViewDuration \in Nat /\ Min \in Nat /\ Skew \in Nat /\ d \in Nat
    BY <1>1, Durations, ScheduleAssumption
  <2> QED BY <2>1, <2>2, <2>3, <2>4, <1>2
<1> HIDE DEF k
<1>4. Quotient(GetTimeNowMs(j) - (table[i].last + (Min \div 2)), ViewDuration) = k
  BY <1>1, <1>2, <1>3, ViewInTurn
<1>5. block[head[j]].view \in Int
  BY NodeTypes, BlockFields
<1> QED BY <1>1, <1>2, <1>4, <1>5 DEF GetCurrentViewID, ViewStart, k

\* Two nodes that are equally far agree on the view in the turn of either.
LEMMA InvSameView == ScheduleInv => SameView
<1> SUFFICES ASSUME ScheduleInv, NEW i \in Node, NEW j \in Node, OwnTurn(i), Settled(j),
                    head[i] = head[j], exp[i] = exp[j]
             PROVE  GetCurrentViewID(i) = GetCurrentViewID(j)
  BY DEF SameView
<1>1. PICK q \in Nat, d \in 0..MaxStartDelay :
        GetTimeNowMs(i) = table[i].last + Min + (Place(i, i) + q * N) * ViewDuration + d
  BY TurnTime
<1>2. GetCurrentViewID(j) = Place(i, i) + q * N + 1 + block[head[j]].view
  BY <1>1, ViewOfTurn DEF OwnTurn
<1>3. GetCurrentViewID(i) = Place(i, i) + q * N + 1 + block[head[i]].view
  BY <1>1, ViewOfTurn DEF OwnTurn
<1> QED BY <1>2, <1>3

\* With the same view, who has the turn is the same too.
LEMMA InvOneProposer == ScheduleInv => OneProposer
<1> SUFFICES ASSUME ScheduleInv, NEW i \in Node, NEW j \in Node, OwnTurn(i), OwnTurn(j),
                    head[i] = head[j], exp[i] = exp[j]
             PROVE  i = j
  BY DEF OneProposer
<1>1. PICK q \in Nat, d \in 0..MaxStartDelay :
        GetTimeNowMs(i) = table[i].last + Min + (Place(i, i) + q * N) * ViewDuration + d
  BY TurnTime
<1>2. PICK x \in Nat, y \in 0..MaxStartDelay :
        GetTimeNowMs(j) = table[j].last + Min + (Place(j, j) + x * N) * ViewDuration + y
  BY TurnTime
<1>3. GetCurrentViewID(j) = Place(i, i) + q * N + 1 + block[head[j]].view
  BY <1>1, ViewOfTurn DEF OwnTurn
<1>4. GetCurrentViewID(j) = Place(j, j) + x * N + 1 + block[head[j]].view
  BY <1>2, ViewOfTurn DEF OwnTurn
<1>5. Place(i, i) \in 0..(N - 1) /\ Place(j, j) \in 0..(N - 1) /\ N \in Nat \ {0}
  BY PlaceType, ScheduleAssumption DEF ScheduleInv, Sealer
<1>6. block[head[j]].view \in Int
  BY NodeTypes, BlockFields DEF ScheduleInv
<1>7. GetCurrentViewID(j) \in Int
  BY ViewType DEF ScheduleInv
<1>8. Place(i, i) = Place(j, j)
  <2> DEFINE p == Place(i, i)
             r == Place(j, j)
             v == block[head[j]].view
             view == GetCurrentViewID(j)
             n == N
  <2>1. n \in Nat \ {0} /\ p \in 0..(n - 1) /\ r \in 0..(n - 1)
    BY <1>5
  <2>2. v \in Int /\ view \in Int
    BY <1>6, <1>7
  <2>3. view = p + q * n + 1 + v
    BY <1>3
  <2>4. view = r + x * n + 1 + v
    BY <1>4
  <2>5. q \in Nat /\ x \in Nat
    BY <1>1, <1>2
  <2> HIDE DEF p, r, v, view, n
  <2>6. p = r
    BY <2>1, <2>2, <2>3, <2>4, <2>5, SameTurn
  <2> QED BY <2>6 DEF p, r
<1>9. table[i] = table[j]
  BY SettledTable DEF OwnTurn
<1>10. table[i].sealer + 1 \in Int /\ i \in 1..N /\ j \in 1..N
  BY NodeTypes, ScheduleAssumption DEF ScheduleInv, Sealer
<1>11. (i - (table[i].sealer + 1)) % N = (j - (table[i].sealer + 1)) % N
  <2>1. table[i].sealer \in Int /\ i \in Int /\ j \in Int
    BY <1>10, NodeTypes DEF ScheduleInv, Sealer
  <2>2. (i - table[i].sealer - 1) % N = (j - table[i].sealer - 1) % N
    BY <1>8, <1>9 DEF Place
  <2>3. /\ i - table[i].sealer - 1 = i - (table[i].sealer + 1)
        /\ j - table[i].sealer - 1 = j - (table[i].sealer + 1)
    BY <2>1
  <2> QED BY <2>2, <2>3
<1> QED BY <1>5, <1>10, <1>11, SameModulo

\* The view of a node is after that of its head.
LEMMA InvViewAfterHead == ScheduleInv => ViewAfterHead
<1> SUFFICES ASSUME ScheduleInv, NEW i \in Node, Settled(i)
             PROVE  GetCurrentViewID(i) > block[head[i]].view
  BY DEF ViewAfterHead
<1> USE DEF ScheduleInv
<1>1. /\ block[head[i]].req \in Nat /\ block[head[i]].view \in Int
      /\ block[head[i]].req <= time + Skew
  BY NodeTypes, BlockFields DEF ReqPast
<1>2. exp[i] \in Nat /\ exp[i] <= Max
  BY SettledTable, NodeTypes
<1> DEFINE a == GetTimeNowMs(i) - ViewStart(i)
<1>3. a \in Int /\ a > -ViewDuration
  <2>1. time \in Nat /\ off[i] \in Nat /\ Max \in Nat /\ Min \in Nat /\ Skew \in Nat
    BY NodeTypes, ScheduleAssumption
  <2>2. Min \div 2 \in Nat /\ Skew + (Min \div 2) < Min
    BY Durations
  <2>3. a = time + off[i] - (block[head[i]].req + exp[i] + (Min \div 2))
    BY <2>1, <2>2, <1>1, <1>2 DEF GetTimeNowMs, ViewStart, CalculateLastTime
  <2> HIDE DEF a
  <2> QED BY <2>1, <2>2, <2>3, <1>1, <1>2 DEF ViewDuration
<1>4. Quotient(a, ViewDuration) \in Nat
  BY <1>3, QuotientNat, Durations
<1> QED BY <1>1, <1>4 DEF GetCurrentViewID

\* An honest proposal is never refused for its view: for every number of
\* sealers, every period and every skew below half of the minimal period, the
\* nodes that are as far as the sealer whose turn it is are in its view.
THEOREM ScheduleSameView == Spec => []SameView
BY ScheduleInvariant, InvSameView, PTL

\* Nodes that are equally far never both start to seal.
THEOREM ScheduleOneProposer == Spec => []OneProposer
BY ScheduleInvariant, InvOneProposer, PTL

\* The view of a settled node is after the view of its head, also while the
\* time since the view's start is negative.
THEOREM ScheduleViewAfterHead == Spec => []ViewAfterHead
BY ScheduleInvariant, InvViewAfterHead, PTL
=============================================================================
