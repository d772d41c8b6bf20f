---------------------------- MODULE HbftPrimary -----------------------------
(***************************************************************************)
(* The threads of a primary that seals block b on top of block p, which it *)
(* still holds as a future block: the goroutine that sealed it and waits,  *)
(* one goroutine per reply (AddReplyMsg, which takes no MsgMutex), the     *)
(* import of p that drops it from the future list, and the loop that       *)
(* resets the state for the new head.  Module Hbft takes each of these as  *)
(* one step; here every access to shared state that another thread may     *)
(* fall into is a step.                                                    *)
(*                                                                         *)
(* p has number 1 and b number 2.  A reply is delivered within the turn.   *)
(***************************************************************************)
EXTENDS Integers, Sequences, FiniteSets

CONSTANTS
    Replica,    \* the other sealers
    Me,         \* the primary
    Stale,      \* bound: replies to an old message left in the buffer
    Answering,  \* bound: replicas whose replies arrive
    MaxOpen,    \* bound: reply goroutines at once, the primary's own not counted
    Import,     \* bound: whether p is imported during the round
    Delayed     \* bound: FALSE if no goroutine sleeps while a message goes to
                \* the replicas and its reply comes back

Sealer == Replica \cup {Me}
N      == Cardinality(Sealer)
f      == (N + 1) \div 3
Quorum == 2 * f + 1

PRE  == "pre"
CONF == "conf"
Kind == {PRE, CONF}

VARIABLES
    state,      \* CurrentState: stage, hash, signed (b is in SignedBlocks), completed
    reply,      \* buf: ReplyBuffer, lock: its mutex is taken, cnt: confirmReplyCnt
    sealed,     \* the entry of b in Sealed: "absent", "false" or "true"
    futures,    \* futureBFTBlocks
    seal,       \* the sealing goroutine: pc and what it reports
    th,         \* th[k][j]: the goroutine of j's reply to message k
    head,       \* the head event of p: pc and what was read
    sent,       \* how many confirm messages were sent
    quorum,     \* history: at the time out 2f + 1 replies to the confirm message
                \*   were in the buffer, and all that had come were worked off
    panic

vars == <<state, reply, sealed, futures, seal, th, head, sent, quorum, panic>>

\* A completed stage: the time stamp of the goroutine that formed it makes two
\* stages of one message differ.  id stands for its hash.
Stage(msg, at, par, signs) == [id |-> <<msg, at>>, msg |-> msg, par |-> par, signs |-> signs]
NoId        == <<"none", Me>>
ParentStage == Stage("p", Me, NoId, {})

Thread(pc) == [pc |-> pc, msg |-> "none", par |-> NoId, signs |-> {}, list |-> <<>>]
Stopped    == Thread("done")

\* A buffer may hold late replies of an earlier round; p may be imported
\* during the round or not.
Init ==
    /\ state = [stage |-> "Idle", hash |-> "none", signed |-> FALSE, completed |-> {ParentStage}]
    /\ \E n \in 0..Stale :
         reply = [buf |-> {[msg |-> "old", from |-> k] : k \in 1..n}, lock |-> FALSE, cnt |-> n]
    /\ sealed = "absent"
    /\ futures = <<"p">>
    /\ seal = [pc |-> "request", result |-> "none", stages |-> {}]
    /\ th = [k \in Kind |-> [j \in Sealer |-> Thread("none")]]
    /\ head \in {[pc |-> pc, list |-> <<>>, reset |-> FALSE, signed |-> FALSE] :
                  pc \in {"none"} \cup (IF Import THEN {"import"} ELSE {})}
    /\ sent = 0 /\ quorum = FALSE /\ panic = FALSE

Signs(msg) == {r.from : r \in {x \in reply.buf : x.msg = msg}}

\* GetNewestStateCompletedStage walks a map: of two stages of the same view
\* and type it takes either.  Without a stage it returns an empty one.
Newest(S) ==
    LET Of(msg) == {s \in S : s.msg = msg}
    IN  IF S = {} THEN {Stage("none", Me, NoId, {})}
        ELSE IF Of(CONF) # {} THEN Of(CONF) ELSE IF Of(PRE) # {} THEN Of(PRE) ELSE S

-----------------------------------------------------------------------------
(* The sealing goroutine.                                                  *)

\* HandleReq: the pre-confirm message is on its way before the stage is set.
HandleReq ==
    /\ seal.pc = "request"
    /\ reply' = [reply EXCEPT !.cnt = 0]
    /\ state' = [state EXCEPT !.signed = TRUE]
    /\ seal' = [seal EXCEPT !.pc = "sent"]
    /\ UNCHANGED <<sealed, futures, th, head, sent, quorum, panic>>

SetPreConfirm ==
    /\ seal.pc = "sent"
    /\ state' = [state EXCEPT !.stage = "PreConfirm", !.hash = PRE]
    /\ seal' = [seal EXCEPT !.pc = "stage"]
    /\ UNCHANGED <<reply, sealed, futures, th, head, sent, quorum, panic>>

\* The buffer is emptied without its mutex; the own reply has a goroutine.
ResolveRequestMsg ==
    /\ seal.pc = "stage"
    /\ reply' = [reply EXCEPT !.buf = {}]
    /\ th' = [th EXCEPT ![PRE][Me] = Thread("new")]
    /\ seal' = [seal EXCEPT !.pc = "wait"]
    /\ UNCHANGED <<state, sealed, futures, head, sent, quorum, panic>>

\* BlockSealedCompleted sees the block sealed; GetSealedBlockStages looks for
\* the newest stage and the one before it, which go into the block.
SealFound ==
    /\ seal.pc = "wait" /\ sealed = "true"
    /\ \E s \in Newest(state.completed) :
         LET before == {t \in state.completed : t.id = s.par}
         IN  seal' = [pc |-> "done", result |-> IF before = {} THEN "unlinked" ELSE "sealed",
                      stages |-> {t.msg : t \in before} \cup {s.msg}]
    /\ UNCHANGED <<state, reply, sealed, futures, th, head, sent, quorum, panic>>

\* It finds its turn over after a look at Sealed ...
TimedOut ==
    /\ seal.pc = "wait" /\ sealed # "true"
    /\ seal' = [seal EXCEPT !.pc = "late"]
    /\ quorum' = /\ Cardinality(Signs(CONF)) >= Quorum
                 /\ \A j \in Sealer : th[CONF][j].pc \in {"none", "done"}
    /\ UNCHANGED <<state, reply, sealed, futures, th, head, sent, panic>>

\* ... and gives the block up, whatever Sealed says by now.
GiveUp ==
    /\ seal.pc = "late"
    /\ sealed' = "false"
    /\ seal' = [seal EXCEPT !.pc = "empty"]
    /\ UNCHANGED <<state, reply, futures, th, head, sent, quorum, panic>>

EmptyBuffer ==
    /\ seal.pc = "empty" /\ ~reply.lock
    /\ reply' = [reply EXCEPT !.buf = {}]
    /\ seal' = [seal EXCEPT !.pc = "report"]
    /\ UNCHANGED <<state, sealed, futures, th, head, sent, quorum, panic>>

\* mine reads which stage has failed.
Report ==
    /\ seal.pc = "report"
    /\ seal' = [seal EXCEPT !.pc = "done",
                !.result = CASE state.stage = "PreConfirm" -> "pre-confirm failed"
                             [] state.stage = "Idle"       -> "request failed"
                             [] state.stage = "Confirm"    -> "confirm failed"]
    /\ UNCHANGED <<state, reply, sealed, futures, th, head, sent, quorum, panic>>

Sealing == \/ HandleReq \/ SetPreConfirm \/ ResolveRequestMsg
           \/ SealFound \/ TimedOut \/ GiveUp \/ EmptyBuffer \/ Report

-----------------------------------------------------------------------------
(* AddReplyMsg.                                                            *)

Step(k, j, t) == th' = [th EXCEPT ![k][j] = t]

\* Goroutines between the check of a reply and what they do about it.
Pending(k) == \E j \in Sealer : th[k][j].pc \in {"append", "quorum"}

\* Mutant of Checked: a reply is not compared with the current message.
CheckedStage(k) == IF state.stage # "Idle" THEN Thread("append") ELSE Stopped

\* The stage and the message hash are looked at without a lock.
Checked(k) == IF state.stage # "Idle" /\ state.hash = k THEN Thread("append") ELSE Stopped

Open == {x \in Kind \X Replica : th[x[1]][x[2]].pc \notin {"none", "done"}}

\* HbftProcess: a reply to a message that was sent, within the turn.
HbftProcess(k, j) ==
    /\ j \in Answering /\ th[k][j].pc = "none"
    /\ seal.pc \in {"sent", "stage", "wait"}
    /\ Cardinality(Open) < MaxOpen
    /\ k = CONF => sent > 0 /\ (Delayed \/ ~Pending(PRE))
    /\ Step(k, j, Checked(k))
    /\ UNCHANGED <<state, reply, sealed, futures, seal, head, sent, quorum, panic>>

\* The primary's own reply.
OwnReply(k) ==
    /\ th[k][Me].pc = "new"
    /\ Step(k, Me, Checked(k))
    /\ UNCHANGED <<state, reply, sealed, futures, seal, head, sent, quorum, panic>>

\* The length is taken under the mutex, so one reply sees the quorum.
AppendPre(j) ==
    LET buf == reply.buf \cup {[msg |-> PRE, from |-> j]}
    IN  /\ th[PRE][j].pc = "append" /\ ~reply.lock
        /\ reply' = [reply EXCEPT !.buf = buf]
        /\ Step(PRE, j, IF Cardinality(buf) = Quorum THEN Thread("quorum") ELSE Stopped)
        /\ UNCHANGED <<state, sealed, futures, seal, head, sent, quorum, panic>>

\* Mutant of EnoughSigns: replies to other messages count.
AnySigns(msg) == Cardinality(reply.buf) >= Quorum

EnoughSigns(msg) == Cardinality(Signs(msg)) >= Quorum

\* getReplyBlockInfo and the first half of GetConfirmMsg, with the mutex.
\* GetSignedBlock waits for a reset of the state that is under way.
GetConfirmMsg(j) ==
    /\ th[PRE][j].pc = "quorum" /\ ~reply.lock /\ head.pc # "restore"
    /\ \/ /\ ~state.signed \/ (sealed = "absent" /\ ~EnoughSigns(state.hash))
          /\ Step(PRE, j, Stopped)
          /\ UNCHANGED reply
       \/ /\ state.signed /\ sealed # "absent"
          /\ Step(PRE, j, Stopped)
          /\ reply' = [reply EXCEPT !.buf = {}]
       \/ /\ state.signed /\ sealed = "absent" /\ EnoughSigns(state.hash)
          /\ Step(PRE, j, [Thread("build") EXCEPT !.msg = state.hash, !.par = ParentStage.id,
                                                  !.signs = Signs(state.hash)])
          /\ reply' = [reply EXCEPT !.lock = TRUE]
    /\ UNCHANGED <<state, sealed, futures, seal, head, sent, quorum, panic>>

\* Its second half indexes SignedBlocks and starts to append to the future
\* list, with a read lock that keeps nobody out.
AddFuture(j) ==
    /\ th[PRE][j].pc = "build"
    /\ IF state.signed
       THEN Step(PRE, j, [th[PRE][j] EXCEPT !.pc = "add", !.list = futures]) /\ UNCHANGED panic
       ELSE panic' = TRUE /\ UNCHANGED th
    /\ UNCHANGED <<state, reply, sealed, futures, seal, head, sent, quorum>>

\* Change the stage to confirm; send; the own reply comes next.
SetConfirm(j) ==
    LET t == th[PRE][j]
    IN  /\ t.pc = "add"
        /\ futures' = Append(t.list, "b")
        /\ state' = [state EXCEPT !.stage = "Confirm", !.hash = CONF,
                                  !.completed = @ \cup {Stage(t.msg, j, t.par, t.signs)}]
        /\ reply' = [reply EXCEPT !.buf = {}, !.lock = FALSE]
        /\ sent' = sent + 1
        /\ th' = [th EXCEPT ![PRE][j] = Stopped, ![CONF][Me] = Thread("new")]
        /\ UNCHANGED <<sealed, seal, head, quorum, panic>>

\* The counter is raised under the mutex ...
AppendConfirm(j) ==
    /\ th[CONF][j].pc = "append" /\ ~reply.lock
    /\ reply' = [reply EXCEPT !.buf = @ \cup {[msg |-> CONF, from |-> j]}, !.cnt = @ + 1]
    /\ Step(CONF, j, Thread("count"))
    /\ UNCHANGED <<state, sealed, futures, seal, head, sent, quorum, panic>>

\* ... and compared after it, when other replies may have raised it again.
CountConfirm(j) ==
    /\ th[CONF][j].pc = "count"
    /\ \/ /\ reply.cnt # Quorum
          /\ Step(CONF, j, Stopped) /\ UNCHANGED reply
       \/ /\ reply.cnt = Quorum /\ ~state.signed
          /\ Step(CONF, j, Stopped) /\ reply' = [reply EXCEPT !.cnt = 0]
       \/ /\ reply.cnt = Quorum /\ state.signed
          /\ Step(CONF, j, Thread("index")) /\ UNCHANGED reply
    /\ UNCHANGED <<state, sealed, futures, seal, head, sent, quorum, panic>>

\* The newest signed block and the message hash ...
ReadSigned(j) ==
    /\ th[CONF][j].pc = "index"
    /\ \/ /\ ~state.signed
          /\ panic' = TRUE /\ UNCHANGED th
       \/ /\ state.signed /\ sealed = "true"
          /\ Step(CONF, j, Stopped) /\ UNCHANGED panic
       \/ /\ state.signed /\ sealed # "true"
          /\ Step(CONF, j, [Thread("newest") EXCEPT !.msg = state.hash])
          /\ UNCHANGED panic
    /\ UNCHANGED <<state, reply, sealed, futures, seal, head, sent, quorum>>

\* ... then the newest stage ...
ReadNewest(j) ==
    /\ th[CONF][j].pc = "newest"
    /\ \E s \in Newest(state.completed) :
         Step(CONF, j, [th[CONF][j] EXCEPT !.pc = "signs", !.par = s.id])
    /\ UNCHANGED <<state, reply, sealed, futures, seal, head, sent, quorum, panic>>

\* Mutant of CountSigns: the block is sealed before its stage is completed.
CountSignsSealing(j) ==
    LET t == th[CONF][j]
    IN  /\ t.pc = "signs" /\ ~reply.lock
        /\ EnoughSigns(t.msg)
        /\ Step(CONF, j, [t EXCEPT !.pc = "complete", !.signs = Signs(t.msg)])
        /\ sealed' = "true"
        /\ UNCHANGED <<state, reply, futures, seal, head, sent, quorum, panic>>

\* ... then the replies to that message.
CountSigns(j) ==
    LET t == th[CONF][j]
    IN  /\ t.pc = "signs" /\ ~reply.lock
        /\ \/ /\ EnoughSigns(t.msg)
              /\ Step(CONF, j, [t EXCEPT !.pc = "complete", !.signs = Signs(t.msg)])
              /\ UNCHANGED reply
           \/ /\ ~EnoughSigns(t.msg)
              /\ Step(CONF, j, Stopped)
              /\ reply' = [reply EXCEPT !.cnt = @ - 1]
        /\ UNCHANGED <<state, sealed, futures, seal, head, sent, quorum, panic>>

\* CurrentState.Reset keeps b and the completed stages; SetStageCompleted.
CompleteConfirm(j) ==
    LET t == th[CONF][j]
    IN  /\ t.pc = "complete" /\ head.pc # "restore"
        /\ state' = [state EXCEPT !.stage = "Idle", !.hash = "none",
                                  !.completed = @ \cup {Stage(t.msg, j, t.par, t.signs)}]
        /\ Step(CONF, j, Thread("store"))
        /\ UNCHANGED <<reply, sealed, futures, seal, head, sent, quorum, panic>>

StoreSealed(j) ==
    /\ th[CONF][j].pc = "store"
    /\ sealed' = "true"
    /\ Step(CONF, j, Thread("clear"))
    /\ UNCHANGED <<state, reply, futures, seal, head, sent, quorum, panic>>

ClearReplies(j) ==
    /\ th[CONF][j].pc = "clear" /\ ~reply.lock
    /\ reply' = [reply EXCEPT !.buf = {}]
    /\ Step(CONF, j, Stopped)
    /\ UNCHANGED <<state, sealed, futures, seal, head, sent, quorum, panic>>

AddReplyMsg(j) ==
    \/ \E k \in Kind : HbftProcess(k, j)
    \/ AppendPre(j) \/ GetConfirmMsg(j) \/ AddFuture(j) \/ SetConfirm(j)
    \/ AppendConfirm(j) \/ CountConfirm(j) \/ ReadSigned(j) \/ ReadNewest(j) \/ CountSigns(j)
    \/ CompleteConfirm(j) \/ StoreSealed(j) \/ ClearReplies(j)

-----------------------------------------------------------------------------
(* The new head p.                                                         *)

Above(s) == SelectSeq(s, LAMBDA x : x # "p")

\* ClearOutDatedBFTFutureBlock of the import: the list is read ...
ClearRead ==
    /\ head.pc = "import"
    /\ head' = IF Above(futures) = futures THEN [head EXCEPT !.pc = "event"]
               ELSE [head EXCEPT !.pc = "cut", !.list = futures]
    /\ UNCHANGED <<state, reply, sealed, futures, seal, th, sent, quorum, panic>>

\* ... and written, until nothing outdated is left.
ClearWrite ==
    /\ head.pc = "cut"
    /\ futures' = Above(head.list)
    /\ head' = [head EXCEPT !.pc = "import"]
    /\ UNCHANGED <<state, reply, sealed, seal, th, sent, quorum, panic>>

\* reset waits for the request (MsgMutex) and decides by the newest stage ...
HeadRead ==
    /\ head.pc = "event" /\ seal.pc \notin {"sent", "stage"}
    /\ head' = [head EXCEPT !.pc = "clear",
                            !.reset = \A s \in Newest(state.completed) : s.msg \notin Kind]
    /\ UNCHANGED <<state, reply, sealed, futures, seal, th, sent, quorum, panic>>

\* ... for ClearConnected, or for Reset, which empties SignedBlocks ...
HeadClear ==
    /\ head.pc = "clear"
    /\ IF head.reset
       THEN /\ state' = [state EXCEPT !.stage = "Idle", !.hash = "none", !.signed = FALSE]
            /\ head' = [head EXCEPT !.pc = "restore", !.signed = state.signed]
       ELSE /\ state' = [state EXCEPT !.completed = @ \ {ParentStage}]
            /\ head' = [head EXCEPT !.pc = "done"]
    /\ UNCHANGED <<reply, sealed, futures, seal, th, sent, quorum, panic>>

\* ... and fills it again with the blocks above the head.
HeadRestore ==
    /\ head.pc = "restore"
    /\ state' = [state EXCEPT !.signed = head.signed, !.completed = @ \ {ParentStage}]
    /\ head' = [head EXCEPT !.pc = "done"]
    /\ UNCHANGED <<reply, sealed, futures, seal, th, sent, quorum, panic>>

NewHead == ClearRead \/ ClearWrite \/ HeadRead \/ HeadClear \/ HeadRestore

Next == /\ ~panic
        /\ \/ Sealing \/ NewHead
           \/ \E k \in Kind : OwnReply(k)
           \/ \E j \in Sealer : AddReplyMsg(j)

Spec == Init /\ [][Next]_vars

-----------------------------------------------------------------------------
(* Properties.                                                             *)

PrimaryTypeOK ==
    /\ state.stage \in {"Idle", "PreConfirm", "Confirm"}
    /\ state.hash \in Kind \cup {"none"}
    /\ reply.cnt \in (-N)..(N + Stale) /\ reply.lock \in BOOLEAN
    /\ sealed \in {"absent", "false", "true"}
    /\ futures \in Seq({"p", "b"}) /\ Len(futures) <= 2
    /\ seal.result \in {"none", "sealed", "unlinked", "pre-confirm failed", "request failed", "confirm failed"}
    /\ sent \in Nat

\* However the reply goroutines, the time out and the head event interleave:
\* a stage carries the signatures of 2f + 1 sealers on its own message, and the
\* pre-confirm stage follows the one of the parent.
StagesSigned ==
    \A s \in state.completed \ {ParentStage} :
        /\ s.msg \in Kind /\ Cardinality(s.signs) >= Quorum
        /\ s.msg = PRE => s.par = ParentStage.id
        /\ s.msg = CONF => \E t \in state.completed : t.msg = PRE

\* The block is in Sealed as sealed only when its confirm stage is there, and
\* the goroutine that sees it there finds a stage before the newest.
SealedLinked ==
    /\ sealed = "true" => \E s \in state.completed : s.msg = CONF
    /\ seal.result # "unlinked"

\* The primary sends one confirm message in a round, although 2f + 1 and more
\* goroutines work on the replies and the buffer may hold old ones.
OneConfirmMsg == sent <= 1

\* "represents that HBFT confirm stage failed" (sealer.go): a primary reports
\* that only if the replies to its confirm message had not been enough when
\* the turn ended.
ConfirmFailedTrue == seal.result = "confirm failed" => ~quorum

\* GetSealedBlockStages calls the first of the two stages it returns
\* stagePreConfirm: a sealed block has a pre-confirm and a confirm stage.
SealedByTwoStages == seal.result = "sealed" => seal.stages = Kind

\* GetConfirmMsg and AddReplyMsg test SignedBlocks and return an error if it is
\* empty, so they never index an empty list.
SignedIndexed == ~panic

\* "AddBFTFutureBlock adds the future head": what it has added is in the list
\* while the head is below it.
FutureAdded == sent > 0 => \E k \in DOMAIN futures : futures[k] = "b"
=============================================================================
