---------------------------- MODULE SealerSchedule ----------------------------
(***************************************************************************)
(* Whose turn it is to seal and which view it is, in milliseconds          *)
(* (bft/nodeHbft/proxy_server.go, node.go).  Both are computed by every    *)
(* node for itself from its clock, the head block and the period it        *)
(* expects a block to take.  Module Hbft takes the outcome: slots.         *)
(*                                                                         *)
(* One sealer term.  Block number k is block[k]; the sealing of a block is *)
(* one step here, its time stamps are what the schedule is made of.        *)
(***************************************************************************)
EXTENDS Integers, Sequences

CONSTANTS
    N,          \* real sealers of the term
    Min, Max,   \* BlockMinPeriodHbft, BlockMaxPeriodHbft
    Cnt,        \* expPeriodBlockSealingCnt
    Avgs,       \* what twice the average stage time of Cnt blocks may be
    Sums,       \* what the sum may be while it is being added up
    Skew,       \* clocks differ by at most Skew
    Node,       \* sealers that are up
    MaxTime, MaxBlocks, MaxRestart  \* bounds

ASSUME ScheduleAssumption ==
    /\ N \in Nat \ {0} /\ Node \subseteq 1..N
    /\ Min \in Nat /\ Max \in Nat /\ Min > 1 /\ Min <= Max
    /\ Cnt \in Nat /\ Avgs \subseteq Nat /\ Sums \subseteq Nat
    /\ Skew \in Nat /\ 2 * Skew < Min - 1
    /\ MaxTime \in Nat /\ MaxBlocks \in Nat /\ MaxRestart \in Nat

Sealer == 1..N

ViewDuration == Min + Max

\* Mutant of MaxStartDelay: sealing may start until the next turn begins.
MaxStartDelayLong == Min + Max

MaxStartDelay == (Max - Min) \div 2

Cycle == N * ViewDuration

VARIABLES
    time,       \* real time
    off,        \* off[i]: how much the clock of i is ahead
    block,      \* blocks of the chain
    head,       \* head[i]: number of the current block of i
    event,      \* event[i]: number of the last block whose head event i handled
    adding,     \* adding[i]: i is adding up expBlockPeriod
    exp,        \* expBlockPeriod
    table,      \* NodeTable: the last sealer and time it is made from
    restarts

vars == <<time, off, block, head, event, adding, exp, table, restarts>>

GetTimeNowMs(i) == time + off[i]

CalculateLastTime(k, e) == block[k].req + e

TableOf(k, e) == [sealer |-> block[k].sealer, last |-> CalculateLastTime(k, e)]

Init ==
    /\ time = 0
    /\ off \in [Node -> 0..Skew]
    /\ block = <<[sealer |-> N, req |-> 0, view |-> 0, avg |-> 0]>>
    /\ head = [i \in Node |-> 1]
    /\ event = [i \in Node |-> 1]
    /\ adding = [i \in Node |-> FALSE]
    /\ exp = [i \in Node |-> Max]
    /\ table = [i \in Node |-> TableOf(1, Max)]
    /\ restarts = 0

-----------------------------------------------------------------------------
(* Turns.                                                                  *)

\* The place of s in the order that begins after the last sealer.
Place(i, s) == (s - table[i].sealer - 1) % N

StartTime(i, s) == table[i].last + Min + Place(i, s) * ViewDuration

TimeDiff(i, s) == (GetTimeNowMs(i) - StartTime(i, s)) % Cycle

Started(i, s) == GetTimeNowMs(i) >= StartTime(i, s)

\* s is the current sealer for i: of the sealers that have started the one
\* with the smallest difference, if it is within the limit.
IsCurrentSealer(i, s, limit) ==
    /\ Started(i, s)
    /\ TimeDiff(i, s) <= limit
    /\ \A x \in Sealer : Started(i, x) => TimeDiff(i, s) <= TimeDiff(i, x)

-----------------------------------------------------------------------------
(* Views.                                                                  *)

\* Integer division of Go rounds towards zero.
Quotient(a, b) == IF a >= 0 THEN a \div b ELSE -((-a) \div b)

\* Mutant of ViewStart: views begin with the turns.
ViewStartAtTurn(i) == CalculateLastTime(head[i], exp[i]) + Min

ViewStart(i) == CalculateLastTime(head[i], exp[i]) + Min \div 2

GetCurrentViewID(i) ==
    Quotient(GetTimeNowMs(i) - ViewStart(i), ViewDuration) + 1 + block[head[i]].view

-----------------------------------------------------------------------------
Tick ==
    /\ time < MaxTime
    /\ time' = time + 1
    /\ UNCHANGED <<off, block, head, event, adding, exp, table, restarts>>

\* A node on the newest head whose turn it is makes the next block.
Seal(i) ==
    /\ head[i] = Len(block) /\ Len(block) < MaxBlocks
    /\ IsCurrentSealer(i, i, MaxStartDelay)
    /\ \E a \in Avgs :
         block' = Append(block, [sealer |-> i, req |-> GetTimeNowMs(i),
                                 view |-> GetCurrentViewID(i), avg |-> a])
    /\ head' = [head EXCEPT ![i] = Len(block) + 1]
    /\ UNCHANGED <<time, off, event, adding, exp, table, restarts>>

Import(i) ==
    /\ head[i] < Len(block)
    /\ head' = [head EXCEPT ![i] = head[i] + 1]
    /\ UNCHANGED <<time, off, block, event, adding, exp, table, restarts>>

\* loop: expBlockPeriod itself is the variable the sum is added up in.
HeadEventSum(i) ==
    /\ event[i] < head[i] /\ ~adding[i]
    /\ event[i] + 1 > Cnt
    /\ adding' = [adding EXCEPT ![i] = TRUE]
    /\ \E s \in Sums : exp' = [exp EXCEPT ![i] = s]
    /\ UNCHANGED <<time, off, block, head, event, table, restarts>>

\* Mutant of Capped: the limit is missing.
CappedNot(a) == a

Capped(a) == IF a > Max THEN Max ELSE a

HeadEvent(i) ==
    LET k == event[i] + 1
        e == IF k > Cnt THEN Capped(block[k].avg) ELSE exp[i]
    IN  /\ event[i] < head[i]
        /\ adding[i] = (k > Cnt)
        /\ adding' = [adding EXCEPT ![i] = FALSE]
        /\ exp' = [exp EXCEPT ![i] = e]
        /\ table' = [table EXCEPT ![i] = TableOf(k, e)]
        /\ event' = [event EXCEPT ![i] = k]
        /\ UNCHANGED <<time, off, block, head, restarts>>

\* A node that comes back expects the longest period.
Restart(i) ==
    /\ restarts < MaxRestart
    /\ restarts' = restarts + 1
    /\ event' = [event EXCEPT ![i] = head[i]]
    /\ adding' = [adding EXCEPT ![i] = FALSE]
    /\ exp' = [exp EXCEPT ![i] = Max]
    /\ table' = [table EXCEPT ![i] = TableOf(head[i], Max)]
    /\ UNCHANGED <<time, off, block, head>>

Next ==
    \/ Tick
    \/ \E i \in Node : Seal(i) \/ Import(i) \/ HeadEventSum(i) \/ HeadEvent(i) \/ Restart(i)

Spec == Init /\ [][Next]_vars

-----------------------------------------------------------------------------
BlockType == [sealer : Sealer, req : Nat, view : Int, avg : Nat]

\* Every variable has its type.
ScheduleTypeOK ==
    /\ time \in Nat
    /\ off \in [Node -> 0..Skew]
    /\ block \in Seq(BlockType) /\ block # <<>>
    /\ head \in [Node -> 1..Len(block)]
    /\ event \in [Node -> 1..Len(block)] /\ \A i \in Node : event[i] <= head[i]
    /\ adding \in [Node -> BOOLEAN]
    /\ exp \in [Node -> Nat]
    /\ table \in [Node -> [sealer : Sealer, last : Nat]]
    /\ restarts \in Nat

\* i has handled the head event of its current block.
Settled(i) == event[i] = head[i]

\* i may start to seal now.
OwnTurn(i) == Settled(i) /\ IsCurrentSealer(i, i, MaxStartDelay)

\* When a sealer may start to seal, every node that is as far as it is is in
\* the view of the request, whatever their clocks within half of the minimal
\* period: an honest proposal is never refused for its view.
SameView ==
    \A i, j \in Node :
        OwnTurn(i) /\ Settled(j) /\ head[i] = head[j] /\ exp[i] = exp[j] =>
            GetCurrentViewID(i) = GetCurrentViewID(j)

\* Two nodes that are equally far never both start to seal.
OneProposer ==
    \A i, j \in Node :
        OwnTurn(i) /\ OwnTurn(j) /\ head[i] = head[j] /\ exp[i] = exp[j] => i = j

\* A settled node is in a view after the one its head was sealed in: the
\* quotient of a negative time is never as low as minus one.
ViewAfterHead ==
    \A i \in Node : Settled(i) => GetCurrentViewID(i) > block[head[i]].view

\* expBlockPeriod is computed from the last blocks of the chain, so nodes with
\* the same head agree about the view of a proposal.
RestartAgrees ==
    \A i, j \in Node :
        OwnTurn(i) /\ Settled(j) /\ head[i] = head[j] =>
            GetCurrentViewID(i) = GetCurrentViewID(j)
=============================================================================
