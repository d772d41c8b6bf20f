----------------------------- MODULE FutureSync -----------------------------
(***************************************************************************)
(* The synchronisation of future blocks: what the HBFT nodes do when more  *)
(* than failureLimit views have passed without a block and the views that  *)
(* failed have left different future blocks, or none, in different nodes.  *)
(* The primary asks for the oldest future block of everybody; with 2f + 1  *)
(* answers it may make the others take its own instead of theirs.          *)
(*                                                                         *)
(* All nodes have the same head; blocks on top of it are candidates, and   *)
(* only their successors come after them.  A candidate is decided by its   *)
(* confirm stage or by the pre-confirm stage of a successor.  The request  *)
(* time stamp of a block is its position in blk: later is greater.  Nodes  *)
(* are honest; messages are late, lost or reordered; the views of two      *)
(* nodes differ by one at most.                                            *)
(***************************************************************************)
EXTENDS Integers, Sequences, FiniteSets, FiniteSetsExt

CONSTANTS
    N,          \* sealers
    Splits,     \* what the failed views left: records fut, stage, confirmed
    MaxBlk,     \* bound: blocks, those of the split included
    MaxView     \* bound: the last view, counted from the first one past the limit

ASSUME SyncAssumption ==
    /\ N \in Nat /\ N >= 4
    /\ MaxBlk \in Nat /\ MaxView \in Nat
    /\ \A s \in Splits : /\ s.fut \in [1..N -> 0..MaxBlk]
                         /\ s.stage \in [1..N -> {"Idle", "PreConfirm", "Confirm"}]
                         /\ s.confirmed \subseteq 1..MaxBlk

VARIABLES
    blk,        \* blk[b] = [parent, view]: parent 0 is the head
    view,       \* view[i]: the view node i is in
    fut,        \* fut[i]: its oldest future block, 0 for none
    second,     \* second[i]: a successor of fut[i] it has confirmed too
    stage,      \* stage[i], round[i], signed[i]: stage and view of the state,
    round,      \*   and the last of SignedBlocks
    signed,
    my,         \* my[i]: myOldestFutureMsg
    list,       \* list[i]: oldestFutureMsgs
    full,       \* full[i]: oldestFutureFull
    own,        \* own[i]: the own message a goroutine is still to append
    prim,       \* prim[i]: the seal of a primary
    net,        \* messages not delivered yet
    decided,    \* candidates with two completed stages,
    confirmed   \*   and those of them whose second is their own confirm stage

certs   == <<decided, confirmed>>
sealing == <<prim, certs>>
state   == <<fut, second, stage, round, signed>>
futures == <<my, list, full, own>>
vars    == <<blk, view, state, futures, net, sealing>>

Sealer == 1..N
f      == (N + 1) \div 3
Quorum == 2 * f + 1

Primary(v) == ((v - 1) % N) + 1

NoSeal == [phase |-> "none", blk |-> 0, view |-> 0, signers |-> {}]
NoMsg  == [from |-> 0, view |-> 0, fut |-> 0]

Max0(S) == IF S = {} THEN 0 ELSE Max(S)

\* The blocks of a split come from views before the first.
Init ==
    \E s \in Splits :
      /\ blk = [b \in 1..Max0({s.fut[i] : i \in Sealer}) |-> [parent |-> 0, view |-> 0]]
      /\ view = [i \in Sealer |-> 1]
      /\ fut = s.fut /\ stage = s.stage
      /\ decided = s.confirmed /\ confirmed = s.confirmed
      /\ second = [i \in Sealer |-> 0]
      /\ round = [i \in Sealer |-> 0]
      /\ signed = s.fut
      /\ my = [i \in Sealer |-> NoMsg]
      /\ list = [i \in Sealer |-> <<>>]
      /\ full = [i \in Sealer |-> FALSE]
      /\ own = [i \in Sealer |-> NoMsg]
      /\ prim = [i \in Sealer |-> NoSeal]
      /\ net = {}

\* The block of GetNewestStateCompletedStage.
NewestCompleted(i) == IF second[i] # 0 THEN second[i] ELSE fut[i]

-----------------------------------------------------------------------------
(* The rule.                                                               *)

\* checkIfOldestFuturesCanReplace: whether the messages are enough, the block
\* they choose (0 for none), and whether other blocks must give way to it.
CheckIfOldestFuturesCanReplace(msgs, v) ==
    LET inView   == {k \in DOMAIN msgs : msgs[k].view = v}
        twice    == \E j, k \in inView : j # k /\ msgs[j].from = msgs[k].from
        Count(b) == Cardinality({k \in DOMAIN msgs : msgs[k].fut = b})
        blocks   == {msgs[k].fut : k \in DOMAIN msgs} \ {0}
        many     == {b \in blocks : Count(b) > f}
        newest   == Max0(blocks)
    IN  IF twice \/ Cardinality(inView) < Quorum \/ blocks = {} THEN [blk |-> 0, all |-> FALSE]
        ELSE IF Cardinality(blocks) = 1 THEN [blk |-> newest, all |-> many # {}]
        ELSE IF many # {} THEN [blk |-> CHOOSE b \in many : TRUE, all |-> TRUE]
        ELSE [blk |-> newest, all |-> TRUE]

\* appendValidOldestFutureMsgs: a message of the same sender about the same
\* block is kept as it is, one about an older block replaced.
Appended(msgs, m) ==
    LET same == {k \in DOMAIN msgs : msgs[k].from = m.from /\ msgs[k].fut <= m.fut}
    IN  IF same = {} THEN Append(msgs, m)
        ELSE IF msgs[Min(same)].fut = m.fut THEN msgs
        ELSE [msgs EXCEPT ![Min(same)] = m]

\* ... and when the quorum is there it is used or thrown away.
AppendValidOldestFutureMsgs(i, m) ==
    LET msgs  == Appended(list[i], m)
        whole == Len(msgs) = Quorum /\ Len(list[i]) < Quorum
        ok    == CheckIfOldestFuturesCanReplace(msgs, m.view).blk # 0
    IN  IF full[i] THEN UNCHANGED <<list, full>>
        ELSE /\ list' = [list EXCEPT ![i] = IF whole /\ ~ok THEN <<>> ELSE msgs]
             /\ full' = [full EXCEPT ![i] = whole /\ ok]

-----------------------------------------------------------------------------
(* Asking and answering.                                                   *)

Asks(j, m)    == [type |-> "ask", to |-> j, msg |-> m]
Answers(j, m) == [type |-> "answer", to |-> j, msg |-> m]
Others(i)     == Sealer \ {i}

\* genMyOldestFutureMsgLoop: the message with which a node answers is made
\* once in a view.  A node whose newest stage is not about its oldest future
\* block says that it has none.
GenMyOldestFutureMsg(i) ==
    /\ my[i].view # view[i]
    /\ my' = [my EXCEPT ![i] =
          [from |-> i, view |-> view[i], fut |-> IF second[i] = 0 THEN fut[i] ELSE 0]]
    /\ UNCHANGED <<blk, view, state, list, full, own, net, sealing>>

\* Mutant of Current: messages of earlier views stay.
CurrentAll(msgs, v) == msgs

\* clearOutDatedOldestFutureMsgs.
Current(msgs, v) == SelectSeq(msgs, LAMBDA m : m.view >= v)

\* ItsTimeToDoHbftWork: the turn of i, once; a decided or a second future
\* block is connected first.
ItsTimeToDoHbftWork(i) ==
    /\ Primary(view[i]) = i
    /\ prim[i].phase = "none" /\ prim[i].view < view[i]
    /\ second[i] = 0 /\ fut[i] \notin decided

\* GetRequest: the primary takes its turn; with a future block of its own it
\* first asks for those of the others.
GetRequest(i) ==
    LET kept == Current(list[i], view[i])
        mine == [from |-> i, view |-> view[i], fut |-> fut[i]]
        sync == fut[i] # 0
    IN  /\ ItsTimeToDoHbftWork(i)
        /\ list' = [list EXCEPT ![i] = kept]
        /\ full' = [full EXCEPT ![i] = @ /\ kept = list[i]]
        /\ own' = [own EXCEPT ![i] = IF sync THEN mine ELSE @]
        /\ net' = IF sync THEN net \cup {Asks(j, mine) : j \in Others(i)} ELSE net
        /\ prim' = [prim EXCEPT ![i] = [NoSeal EXCEPT !.phase = "sync", !.view = view[i]]]
        /\ UNCHANGED <<blk, view, state, my, certs>>

\* The goroutine of startFutureBlockSync.
AppendOwn(i) ==
    /\ own[i] # NoMsg
    /\ AppendValidOldestFutureMsgs(i, own[i])
    /\ own' = [own EXCEPT ![i] = NoMsg]
    /\ UNCHANGED <<blk, view, state, my, net, sealing>>

\* handleNewOldestFuture keeps a message if the node has one future block.
Keeps(j) == fut[j] # 0 /\ second[j] = 0

Keep(j, m) ==
    IF Keeps(j) THEN AppendValidOldestFutureMsgs(j, m) ELSE UNCHANGED <<list, full>>

\* resolveOldestFutureMsg for the question of a primary: the answer goes to
\* everybody.  A node that waits in vain for its own message does not answer.
AskHeard(j, q) ==
    q.type = "ask" /\ q.to = j /\ q.msg.view \in {view[j], view[j] + 1} /\ ~full[j]

ResolveAsk(j) ==
    \E q \in net :
      LET m == q.msg
      IN  /\ AskHeard(j, q)
          /\ Keep(j, m)
          /\ \/ /\ my[j].view >= m.view
                /\ net' = (net \ {q}) \cup {Answers(k, my[j]) : k \in Others(j)}
             \/ /\ my[j].view < m.view
                /\ net' = net \ {q}
          /\ UNCHANGED <<blk, view, state, my, own, sealing>>

AnswerHeard(j, q) ==
    q.type = "answer" /\ q.to = j /\ q.msg.view = view[j] /\ ~full[j] /\ Keeps(j)

ResolveAnswer(j) ==
    \E q \in net :
      /\ AnswerHeard(j, q)
      /\ Keep(j, q.msg)
      /\ net' = net \ {q}
      /\ UNCHANGED <<blk, view, state, my, own, sealing>>

-----------------------------------------------------------------------------
(* The round of the primary.                                               *)

PreMsg(j, b, v, ofs) == [type |-> "pre", to |-> j, blk |-> b, view |-> v, ofs |-> ofs]
ConfMsg(j, b, v)     == [type |-> "conf", to |-> j, blk |-> b, view |-> v]

\* HandleReq after waitForFutureBlockSync, which ends with the quorum, with
\* its time or with the turn; resolveRequestMsg.  A quorum that chooses
\* another block than the primary's is thrown away.
HandleReq(i) ==
    LET b    == Len(blk) + 1
        v    == prim[i].view
        fits == CheckIfOldestFuturesCanReplace(list[i], v).blk = fut[i]
        ofs  == IF full[i] /\ fut[i] # 0 /\ fits THEN list[i] ELSE <<>>
        drop == full[i] /\ fut[i] # 0 /\ ~fits
    IN  /\ prim[i].phase = "sync"
        /\ b <= MaxBlk
        /\ blk' = Append(blk, [parent |-> fut[i], view |-> v])
        /\ stage' = [stage EXCEPT ![i] = "PreConfirm"]
        /\ round' = [round EXCEPT ![i] = v]
        /\ signed' = [signed EXCEPT ![i] = b]
        /\ list' = IF drop THEN [list EXCEPT ![i] = <<>>] ELSE list
        /\ full' = IF drop THEN [full EXCEPT ![i] = FALSE] ELSE full
        /\ net' = net \cup {PreMsg(j, b, v, ofs) : j \in Others(i)}
        /\ prim' = [prim EXCEPT ![i] =
              [phase |-> IF view[i] = v THEN "pre" ELSE "none", blk |-> b, view |-> v,
               signers |-> {i}]]
        /\ UNCHANGED <<view, fut, second, my, own, certs>>

\* checkIfAddFutureParent: whether node j takes the future parent p of a
\* pre-confirm message with the messages ofs.
CheckIfAddFutureParent(j, p, v, ofs) ==
    LET c == CheckIfOldestFuturesCanReplace(ofs, v)
    IN  /\ p # 0
        /\ c.blk = p
        /\ \/ fut[j] = 0 /\ Len(ofs) = Quorum
           \/ fut[j] # 0 /\ fut[j] # p /\ NewestCompleted(j) = fut[j] /\ c.all

\* Mutant of CheckCurrentState: case 1 forgets the block the node has confirmed.
CheckCurrentStateNoCase1(j, p, add) ==
    IF fut[j] # 0 THEN p = 0 \/ NewestCompleted(j) = p \/ add
    ELSE add \/ p = 0

\* CheckCurrentState for a new block with parent p.  Case 1 comes first: a
\* node in the confirm stage takes successors of its newest block only.
CheckCurrentState(j, p, add) ==
    /\ stage[j] = "Confirm" => NewestCompleted(j) # 0 /\ NewestCompleted(j) = p
    /\ IF fut[j] # 0 THEN p # 0 /\ (NewestCompleted(j) = p \/ add)
       ELSE add \/ p = 0

\* The reply of j reaches the primary in its turn, or never.
Reply(j, m, phase) ==
    LET i == Primary(m.view)
    IN  \/ /\ prim[i].phase = phase /\ prim[i].blk = m.blk /\ view[i] = m.view
           /\ prim' = [prim EXCEPT ![i].signers = @ \cup {j}]
        \/ UNCHANGED prim

\* HandlePreConfirmMsg signs what passes its checks.
PreConfirmAccepted(j, m) ==
    /\ m.type = "pre" /\ m.to = j
    /\ prim[j].phase = "none"
    /\ m.view = view[j]
    /\ stage[j] = "Idle" \/ round[j] # m.view
    /\ LET p == blk[m.blk].parent
       IN  CheckCurrentState(j, p, CheckIfAddFutureParent(j, p, m.view, m.ofs))

\* resolvePreConfirmMsg.  After a new future parent the list of signed blocks
\* ends with that block.
HandlePreConfirmMsg(j) ==
    \E m \in net :
      LET p   == blk[m.blk].parent
          add == CheckIfAddFutureParent(j, p, m.view, m.ofs)
      IN  /\ PreConfirmAccepted(j, m)
          /\ stage' = [stage EXCEPT ![j] = "PreConfirm"]
          /\ round' = [round EXCEPT ![j] = m.view]
          /\ signed' = [signed EXCEPT ![j] = IF add THEN p ELSE m.blk]
          /\ fut' = [fut EXCEPT ![j] = IF add THEN p ELSE @]
          /\ Reply(j, m, "pre")
          /\ net' = net \ {m}
          /\ UNCHANGED <<blk, view, second, futures, certs>>

\* The block becomes a future block: addNewFutureBlockAndSetCompleted.
AddNewFutureBlock(j, b) ==
    IF blk[b].parent = 0
    THEN fut' = [fut EXCEPT ![j] = b] /\ UNCHANGED second
    ELSE second' = [second EXCEPT ![j] = b] /\ UNCHANGED fut

\* AddReplyMsg, the pre-confirm quorum: a successor decides its parent.
PreConfirmQuorum(i) ==
    LET b == prim[i].blk
    IN  /\ prim[i].phase = "pre"
        /\ Cardinality(prim[i].signers) >= Quorum
        /\ AddNewFutureBlock(i, b)
        /\ decided' = decided \cup ({blk[b].parent} \ {0})
        /\ stage' = [stage EXCEPT ![i] = "Confirm"]
        /\ prim' = [prim EXCEPT ![i].phase = "conf", ![i].signers = {i}]
        /\ net' = net \cup {ConfMsg(j, b, prim[i].view) : j \in Others(i)}
        /\ UNCHANGED <<blk, view, round, signed, futures, confirmed>>

ConfirmAccepted(j, m) ==
    /\ m.type = "conf" /\ m.to = j
    /\ prim[j].phase = "none"
    /\ stage[j] = "PreConfirm" /\ round[j] = m.view /\ signed[j] = m.blk

\* resolveConfirmMsg, HandleConfirmMsg.
HandleConfirmMsg(j) ==
    \E m \in net :
      /\ ConfirmAccepted(j, m)
      /\ AddNewFutureBlock(j, m.blk)
      /\ stage' = [stage EXCEPT ![j] = "Confirm"]
      /\ Reply(j, m, "conf")
      /\ net' = net \ {m}
      /\ UNCHANGED <<blk, view, round, signed, futures, certs>>

\* AddReplyMsg, the confirm quorum.
ConfirmQuorum(i) ==
    LET b    == prim[i].blk
        cand == IF blk[b].parent = 0 THEN {b} ELSE {}
    IN  /\ prim[i].phase = "conf"
        /\ Cardinality(prim[i].signers) >= Quorum
        /\ decided' = decided \cup cand
        /\ confirmed' = confirmed \cup cand
        /\ stage' = [stage EXCEPT ![i] = "Idle"]
        /\ prim' = [prim EXCEPT ![i].phase = "none"]
        /\ UNCHANGED <<blk, view, fut, second, round, signed, futures, net>>

\* The clock of i goes on; a seal in its last stages has lost its turn.
Tick(i) ==
    /\ view[i] < MaxView
    /\ \A j \in Sealer : view[i] <= view[j]
    /\ view' = [view EXCEPT ![i] = @ + 1]
    /\ prim' = IF prim[i].phase = "sync" THEN prim ELSE [prim EXCEPT ![i].phase = "none"]
    /\ net' = {m \in net : m.to = i /\ m.type # "conf" =>
                  IF m.type = "pre" THEN m.view > view[i] ELSE m.msg.view > view[i]}
    /\ UNCHANGED <<blk, state, futures, certs>>

Exchange(i) == GenMyOldestFutureMsg(i) \/ AppendOwn(i) \/ ResolveAsk(i) \/ ResolveAnswer(i)

Sealing(i)  == \/ GetRequest(i) \/ HandleReq(i) \/ HandlePreConfirmMsg(i)
               \/ PreConfirmQuorum(i) \/ HandleConfirmMsg(i) \/ ConfirmQuorum(i)

Next == \E i \in Sealer : Exchange(i) \/ Sealing(i) \/ Tick(i)

Spec == Init /\ [][Next]_vars

-----------------------------------------------------------------------------
(* Properties.                                                             *)

MsgType == [from : 0..N, view : 0..MaxView, fut : 0..MaxBlk]

SyncTypeOK ==
    /\ blk \in Seq([parent : 0..MaxBlk, view : 0..MaxView]) /\ Len(blk) <= MaxBlk
    /\ view \in [Sealer -> 1..MaxView]
    /\ fut \in [Sealer -> 0..Len(blk)] /\ second \in [Sealer -> 0..Len(blk)]
    /\ \A i \in Sealer : second[i] # 0 => blk[second[i]].parent = fut[i]
    /\ stage \in [Sealer -> {"Idle", "PreConfirm", "Confirm"}]
    /\ my \in [Sealer -> MsgType] /\ own \in [Sealer -> MsgType]
    /\ \A i \in Sealer : list[i] \in Seq(MsgType) /\ Len(list[i]) <= Quorum
    /\ full \in [Sealer -> BOOLEAN]

\* "Inserted different global blocks in number" must never be logged: at most
\* one candidate is decided.  It does not hold: the votes of nodes that have a
\* second future block count for none, and without a block of more than f votes
\* the newest time stamp wins over a decided one.
OneDecided == Cardinality(decided) <= 1

\* A candidate with its own confirm stage is not given up, whatever the
\* synchronisation makes nodes take instead: it stays the only decided one,
\* and as many nodes as signed that stage hold it.
ConfirmedStays ==
    \A b \in confirmed :
        decided = {b} /\ Cardinality({i \in Sealer : fut[i] = b}) >= Quorum
=============================================================================
