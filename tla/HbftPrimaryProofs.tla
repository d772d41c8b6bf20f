------------------------- MODULE HbftPrimaryProofs -------------------------
(***************************************************************************)
(* A primary's round for every number of replicas, of old replies in the   *)
(* buffer and of goroutines at once, with the parent imported or not: the  *)
(* stages are signed, a sealed block has its stages, and there is one      *)
(* confirm message.                                                        *)
(*                                                                         *)
(* AddReplyMsg looks at the stage and at the message hash without a lock,  *)
(* so what holds a goroutine back is the order of things: the hash is PRE  *)
(* until the confirm message is sent and never again, only the holder of   *)
(* the reply mutex builds that message, and as long as a goroutine of the  *)
(* pre-confirm stage is left the only confirm reply is the primary's own.  *)
(***************************************************************************)
EXTENDS HbftRound, FiniteSetTheorems, TLAPS

\* The primary is not its own replica, and no goroutine sleeps while a message
\* goes to a replica and back (the bound Delayed).
PrimaryConstants == Me \notin Replica /\ IsFiniteSet(Replica) /\ Replica # {} /\ ~Delayed

\* A thread is a record of these fields.
IsThread(t) == t = [pc |-> t.pc, msg |-> t.msg, par |-> t.par, signs |-> t.signs, list |-> t.list]

\* Where a thread of either kind can be.
PrePc  == {"none", "new", "append", "quorum", "build", "add", "done"}
ConfPc == {"none", "new", "append", "count", "index", "newest", "signs", "complete", "store", "clear", "done"}

\* The records and functions the state is made of.
StateShape ==
    /\ state = [stage |-> state.stage, hash |-> state.hash, signed |-> state.signed,
                completed |-> state.completed]
    /\ state.hash \in {P!PRE, P!CONF, "none"} /\ state.stage \in {"Idle", "PreConfirm", "Confirm"}

\* The variables of the replies and of the sealing thread are records.
ReplyShape ==
    /\ reply = [buf |-> reply.buf, lock |-> reply.lock, cnt |-> reply.cnt] /\ reply.lock \in BOOLEAN
    /\ \A r \in reply.buf : r.msg \in {"old", P!PRE, P!CONF}

SealShape == seal = [pc |-> seal.pc, result |-> seal.result, stages |-> seal.stages]

\* A thread is at a place of its kind.
IsPc(k, pc) == (k = P!PRE => pc \in PrePc) /\ (k = P!CONF => pc \in ConfPc)

ThShape ==
    /\ th = [k \in P!Kind |-> [j \in P!Sealer |-> th[k][j]]]
    /\ \A k \in P!Kind, j \in P!Sealer : IsThread(th[k][j]) /\ IsPc(k, th[k][j].pc)

\* The shape of every variable.
Shape == StateShape /\ ReplyShape /\ SealShape /\ ThShape

\* What precedes the confirm message: before the stage is set no reply is
\* taken, before the message is sent nothing is about it.
Before ==
    /\ seal.pc \in {"request", "sent"} =>
         state.hash = "none" /\ sent = 0 /\ \A j \in P!Sealer : th[P!PRE][j].pc \in {"none", "done"}
    /\ sent = 0 => /\ state.hash # P!CONF /\ \A r \in reply.buf : r.msg # P!CONF
                   /\ \A j \in P!Sealer : th[P!CONF][j].pc = "none"

\* One of the threads S handles a message of K.
HasStage(S, K) == \E t \in S : t.msg \in K

\* What follows it: the hash is not PRE again, the pre-confirm stage is there,
\* and no replica's confirm reply is looked at while a goroutine of the
\* pre-confirm stage may take it for its own.
After ==
    /\ sent \in {0, 1}
    /\ sent = 1 => /\ state.hash # P!PRE
                   /\ HasStage(state.completed, {P!PRE})
                   /\ P!Pending(P!PRE) => /\ \A j \in Replica : th[P!CONF][j].pc = "none"
                                      /\ \A r \in reply.buf : r.msg = P!CONF => r.from = Me

\* The goroutine that builds the confirm message holds the mutex, alone.
Builds ==
    /\ \A j \in P!Sealer : th[P!PRE][j].pc \in {"build", "add"} =>
         /\ reply.lock /\ sent = 0
         /\ th[P!PRE][j].msg = P!PRE /\ th[P!PRE][j].par = P!ParentStage.id
         /\ Cardinality(th[P!PRE][j].signs) >= P!Quorum
    /\ \A i, j \in P!Sealer : th[P!PRE][i].pc \in {"build", "add"} /\ th[P!PRE][j].pc \in {"build", "add"} => i = j

\* id is a stage of this round.
Follows(S, id) == \E t \in S : t.msg \in P!Kind /\ t.id = id

\* A goroutine that completes the confirm stage, over the stages S.
ConfirmsOf(S, t) ==
    /\ t.pc \in {"newest", "signs", "complete"} => t.msg \in {P!CONF, "none"}
    /\ t.pc \in {"signs", "complete"} => Follows(S, t.par)
    /\ t.pc = "complete" => t.msg = P!CONF /\ Cardinality(t.signs) >= P!Quorum
    /\ t.pc = "store" => HasStage(S, {P!CONF})

\* What a confirm thread has come to, for every sealer.
Confirms == \A j \in P!Sealer : ConfirmsOf(state.completed, th[P!CONF][j])

\* Completed stages of this round are signed and linked.
Linked ==
    \A s \in state.completed \ {P!ParentStage} :
        /\ s.msg \in P!Kind /\ Cardinality(s.signs) >= P!Quorum
        /\ s.msg = P!PRE => s.par = P!ParentStage.id
        /\ s.msg = P!CONF => HasStage(state.completed, {P!PRE}) /\ Follows(state.completed, s.par)

\* The inductive invariant.
PrimaryInv == Shape /\ Before /\ After /\ Builds /\ Confirms /\ Linked /\ P!SealedLinked

-----------------------------------------------------------------------------
(* What a step does to the goroutines, and the quorum.                     *)

\* Only the goroutine of j's reply to k moves.
Moves(k, j) == \A m \in P!Kind, i \in P!Sealer : ~(m = k /\ i = j) => th'[m][i] = th[m][i]

\* Step changes one goroutine and leaves the others.
LEMMA StepMoves ==
    ASSUME ThShape, NEW k \in P!Kind, NEW j \in P!Sealer, NEW t, IsThread(t), IsPc(k, t.pc), P!Step(k, j, t)
    PROVE  ThShape' /\ th'[k][j] = t /\ Moves(k, j)
<1>1. th'[k][j] = t
  BY DEF ThShape, P!Step
<1>2. Moves(k, j)
  BY DEF ThShape, P!Step, Moves
<1>3. th' = [m \in P!Kind |-> [i \in P!Sealer |-> th'[m][i]]]
  BY DEF ThShape, P!Step
<1>4. \A m \in P!Kind, i \in P!Sealer : IsThread(th'[m][i]) /\ IsPc(m, th'[m][i].pc)
  BY <1>1, <1>2 DEF ThShape, Moves
<1> QED
  BY <1>1, <1>2, <1>3, <1>4 DEF ThShape

\* A fresh goroutine is a goroutine.
LEMMA FreshThread ==
    ASSUME NEW pc
    PROVE  IsThread(P!Thread(pc)) /\ P!Thread(pc).pc = pc
BY DEF IsThread, P!Thread

\* The primary counts as everybody does.
LEMMA SameCardinality == ASSUME NEW S PROVE P!Cardinality(S) = Cardinality(S)
  BY DEF P!Cardinality, Cardinality

\* With another sealer beside the primary a quorum is three at least.
LEMMA QuorumThree ==
    ASSUME PrimaryConstants
    PROVE  P!Quorum \in Int /\ P!Quorum >= 3 /\ Me \in P!Sealer
<1>1. Cardinality(Replica) \in Nat /\ Cardinality(Replica) # 0
  BY FS_CardinalityType, FS_EmptySet DEF PrimaryConstants
<1>2. P!N = Cardinality(Replica) + 1
  BY SameCardinality, FS_AddElement DEF PrimaryConstants, P!N, P!Sealer
<1>3. P!f \in Int /\ P!f >= 1
  BY <1>1, <1>2 DEF P!f
<1> QED
  BY <1>3 DEF P!Quorum, P!Sealer

\* Nobody signs what no reply is about, and the primary alone is no quorum.
LEMMA TooFew ==
    ASSUME PrimaryConstants, NEW m, \A r \in reply.buf : r.msg = m => r.from = Me
    PROVE  ~P!EnoughSigns(m)
<1>1. P!Signs(m) \subseteq {Me}
  BY DEF P!Signs
<1>2. IsFiniteSet({Me}) /\ Cardinality({Me}) = 1
  BY FS_Singleton
<1>3. Cardinality(P!Signs(m)) <= 1 /\ Cardinality(P!Signs(m)) \in Nat
  BY <1>1, <1>2, FS_Subset, FS_CardinalityType
<1> QED
  BY <1>3, SameCardinality, QuorumThree DEF P!EnoughSigns

\* The buffer after a step: the mutex as before, and no reply but to message k
\* from j is new.
Buffers(k, j) ==
    /\ reply' = [buf |-> reply'.buf, lock |-> reply.lock, cnt |-> reply'.cnt]
    /\ \A r \in reply'.buf : r \in reply.buf \/ (r.msg = k /\ r.from = j)

\* A goroutine of the pre-confirm stage that does not build the confirm message.
LEMMA PreMoves ==
    ASSUME PrimaryInv, NEW j \in P!Sealer, ThShape', Moves(P!PRE, j), Buffers(P!PRE, j),
           UNCHANGED <<state, sent>>,
           th'[P!PRE][j].pc \in {"new", "append", "quorum", "done"},
           th'[P!PRE][j].pc \in {"append", "quorum"} => state.hash = P!PRE \/ P!Pending(P!PRE),
           seal'.pc \in {"request", "sent"} => seal.pc = seal'.pc /\ th'[P!PRE][j].pc = "done"
    PROVE  StateShape' /\ ReplyShape' /\ Before' /\ After' /\ Builds' /\ Confirms' /\ Linked'
<1>1. StateShape' /\ Linked'
  BY DEF PrimaryInv, Shape, StateShape, Linked
<1>2. ReplyShape'
  BY DEF PrimaryInv, Shape, ReplyShape, Buffers
<1>3. \A i \in P!Sealer : th'[P!CONF][i] = th[P!CONF][i]
  BY DEF Moves, P!Kind, P!PRE, P!CONF
<1>4. Confirms'
  BY <1>3 DEF PrimaryInv, Confirms
<1>5. \A i \in P!Sealer : i # j => th'[P!PRE][i] = th[P!PRE][i]
  BY DEF Moves, P!Kind
<1>6. reply'.lock = reply.lock /\ \A r \in reply'.buf : r \in reply.buf \/ r.msg = P!PRE
  BY DEF Buffers
<1>7. Builds'
  BY <1>5, <1>6 DEF PrimaryInv, Builds
<1>8. Before'
  BY <1>3, <1>5, <1>6 DEF PrimaryInv, Before, P!PRE, P!CONF
<1>9. sent = 1 /\ P!Pending(P!PRE)' => P!Pending(P!PRE)
  BY <1>5 DEF PrimaryInv, After, P!Pending
<1>10. sent = 1 /\ P!Pending(P!PRE)' => /\ \A i \in Replica : th'[P!CONF][i].pc = "none"
                                    /\ \A r \in reply'.buf : r.msg = P!CONF => r.from = Me
  BY <1>3, <1>6, <1>9 DEF PrimaryInv, After, P!Sealer, P!PRE, P!CONF
<1>11. After'
  BY <1>10 DEF PrimaryInv, After
<1> QED
  BY <1>1, <1>2, <1>4, <1>7, <1>8, <1>11

\* A goroutine of the confirm stage that does not complete it.
LEMMA ConfMoves ==
    ASSUME PrimaryInv, NEW j \in P!Sealer, ThShape', Moves(P!CONF, j), Buffers(P!CONF, j),
           UNCHANGED <<state, sent, seal>>,
           th[P!CONF][j].pc = "none" => sent = 1 /\ ~P!Pending(P!PRE),
           ConfirmsOf(state.completed, th'[P!CONF][j])
    PROVE  StateShape' /\ ReplyShape' /\ SealShape' /\ Before' /\ After' /\ Builds' /\ Confirms' /\ Linked'
<1>1. StateShape' /\ SealShape' /\ Linked'
  BY DEF PrimaryInv, Shape, StateShape, SealShape, Linked
<1>2. ReplyShape'
  BY DEF PrimaryInv, Shape, ReplyShape, Buffers
<1>3. \A i \in P!Sealer : th'[P!PRE][i] = th[P!PRE][i]
  BY DEF Moves, P!Kind, P!PRE, P!CONF
<1>4. \A i \in P!Sealer : i # j => th'[P!CONF][i] = th[P!CONF][i]
  BY DEF Moves, P!Kind
<1>5. Confirms'
  BY <1>4 DEF PrimaryInv, Confirms
<1>6. reply'.lock = reply.lock /\ \A r \in reply'.buf : r \in reply.buf \/ (r.msg = P!CONF /\ r.from = j)
  BY DEF Buffers
<1>7. Builds'
  BY <1>3, <1>6 DEF PrimaryInv, Builds
<1>8. sent = 1 /\ (P!Pending(P!PRE) => j = Me)
  BY DEF PrimaryInv, Before, After, P!Sealer
<1>9. Before'
  BY <1>3, <1>8 DEF PrimaryInv, Before
<1>10. P!Pending(P!PRE)' <=> P!Pending(P!PRE)
  BY <1>3 DEF P!Pending
<1>11. P!Pending(P!PRE) => /\ \A i \in Replica : i # j => th'[P!CONF][i].pc = "none"
                       /\ \A r \in reply'.buf : r.msg = P!CONF => r.from = Me
  BY <1>4, <1>6, <1>8 DEF PrimaryInv, After, P!Sealer
<1>12. After'
  BY <1>8, <1>10, <1>11 DEF PrimaryInv, After
<1> QED
  BY <1>1, <1>2, <1>5, <1>7, <1>9, <1>12

-----------------------------------------------------------------------------
(* The sealing goroutine.                                                  *)

\* The buffer is emptied, or only the counter is set.
Shrinks == /\ reply' = [buf |-> reply'.buf, lock |-> reply.lock, cnt |-> reply'.cnt]
           /\ reply'.buf \subseteq reply.buf

\* What a smaller buffer and the same stages keep.
LEMMA ShrinkKeeps ==
    ASSUME PrimaryInv, Shrinks, UNCHANGED <<state, th, sent>>
    PROVE  /\ StateShape' /\ ReplyShape' /\ ThShape' /\ After' /\ Builds' /\ Confirms' /\ Linked'
           /\ Before' <=> (seal'.pc \in {"request", "sent"} =>
                state.hash = "none" /\ sent = 0 /\ \A j \in P!Sealer : th[P!PRE][j].pc \in {"none", "done"})
<1>1. StateShape' /\ ThShape' /\ Confirms' /\ Linked'
  BY DEF PrimaryInv, Shape, StateShape, ThShape, Confirms, Linked
<1>2. ReplyShape'
  BY DEF PrimaryInv, Shape, ReplyShape, Shrinks
<1>3. reply'.lock = reply.lock /\ \A r \in reply'.buf : r \in reply.buf
  BY DEF Shrinks
<1>4. After'
  BY <1>3 DEF PrimaryInv, After, P!Pending
<1>5. Builds'
  BY <1>3 DEF PrimaryInv, Builds
<1>6. Before' <=> (seal'.pc \in {"request", "sent"} =>
        state.hash = "none" /\ sent = 0 /\ \A j \in P!Sealer : th[P!PRE][j].pc \in {"none", "done"})
  BY <1>3 DEF PrimaryInv, Before
<1> QED
  BY <1>1, <1>2, <1>4, <1>5, <1>6

\* HandleReq sends the pre-confirm message: no reply is taken yet.
LEMMA HandleReqKeeps ==
    ASSUME PrimaryInv, P!HandleReq
    PROVE  PrimaryInv'
<1>1. seal' = [pc |-> "sent", result |-> seal.result, stages |-> seal.stages]
  BY DEF PrimaryInv, Shape, SealShape, P!HandleReq
<1>2. state' = [stage |-> state.stage, hash |-> state.hash, signed |-> TRUE,
                completed |-> state.completed]
  BY DEF PrimaryInv, Shape, StateShape, P!HandleReq
<1>3. reply' = [buf |-> reply.buf, lock |-> reply.lock, cnt |-> 0]
  BY DEF PrimaryInv, Shape, ReplyShape, P!HandleReq
<1>4. UNCHANGED <<sealed, th, sent>> /\ seal.pc = "request"
  BY DEF P!HandleReq
<1>5. Shape'
  BY <1>1, <1>2, <1>3, <1>4 DEF PrimaryInv, Shape, StateShape, SealShape, ReplyShape, ThShape
<1>6. Before'
  BY <1>1, <1>2, <1>3, <1>4 DEF PrimaryInv, Before
<1>7. After' /\ Builds'
  BY <1>2, <1>3, <1>4 DEF PrimaryInv, After, Builds, P!Pending
<1>8. Confirms' /\ Linked' /\ P!SealedLinked'
  BY <1>1, <1>2, <1>4 DEF PrimaryInv, Confirms, Linked, P!SealedLinked
<1> QED
  BY <1>5, <1>6, <1>7, <1>8 DEF PrimaryInv

\* The stage is set: replies to the pre-confirm message are taken from here.
LEMMA SetPreConfirmKeeps ==
    ASSUME PrimaryInv, P!SetPreConfirm
    PROVE  PrimaryInv'
<1>1. seal' = [pc |-> "stage", result |-> seal.result, stages |-> seal.stages]
  BY DEF PrimaryInv, Shape, SealShape, P!SetPreConfirm
<1>2. state' = [stage |-> "PreConfirm", hash |-> P!PRE, signed |-> state.signed,
                completed |-> state.completed]
  BY DEF PrimaryInv, Shape, StateShape, P!SetPreConfirm
<1>3. UNCHANGED <<sealed, reply, th, sent>> /\ seal.pc = "sent" /\ sent = 0
  BY DEF PrimaryInv, Before, P!SetPreConfirm
<1>4. Shape'
  BY <1>1, <1>2, <1>3 DEF PrimaryInv, Shape, StateShape, SealShape, ReplyShape, ThShape
<1>5. Before'
  BY <1>1, <1>2, <1>3 DEF PrimaryInv, Before, P!PRE, P!CONF
<1>6. After' /\ Builds'
  BY <1>2, <1>3 DEF PrimaryInv, After, Builds
<1>7. Confirms' /\ Linked' /\ P!SealedLinked'
  BY <1>1, <1>2, <1>3 DEF PrimaryInv, Confirms, Linked, P!SealedLinked
<1> QED
  BY <1>4, <1>5, <1>6, <1>7 DEF PrimaryInv

\* The own reply starts: it is not checked yet.
LEMMA ResolveRequestMsgKeeps ==
    ASSUME PrimaryConstants, PrimaryInv, P!ResolveRequestMsg
    PROVE  PrimaryInv'
<1>1. seal' = [pc |-> "wait", result |-> seal.result, stages |-> seal.stages]
  BY DEF PrimaryInv, Shape, SealShape, P!ResolveRequestMsg
<1>2. Buffers(P!PRE, Me)
  BY DEF PrimaryInv, Shape, ReplyShape, P!ResolveRequestMsg, Buffers
<1>3. UNCHANGED <<sealed, state, sent>> /\ P!Step(P!PRE, Me, P!Thread("new"))
  BY DEF P!ResolveRequestMsg, P!Step
<1>4. ThShape' /\ th'[P!PRE][Me] = P!Thread("new") /\ Moves(P!PRE, Me)
  BY <1>3, StepMoves, FreshThread, QuorumThree DEF PrimaryInv, Shape, IsPc, PrePc, P!Kind, P!PRE, P!CONF
<1>5. th'[P!PRE][Me].pc = "new"
  BY <1>4, FreshThread
<1>6. StateShape' /\ ReplyShape' /\ Before' /\ After' /\ Builds' /\ Confirms' /\ Linked'
  BY <1>1, <1>2, <1>3, <1>4, <1>5, PreMoves, QuorumThree
<1>7. SealShape' /\ P!SealedLinked'
  BY <1>1, <1>3 DEF PrimaryInv, SealShape, P!SealedLinked
<1> QED
  BY <1>4, <1>6, <1>7 DEF PrimaryInv, Shape

\* The newest stage of a sealed block is a confirm stage, which follows another.
LEMMA SealFoundKeeps ==
    ASSUME PrimaryInv, P!SealFound
    PROVE  PrimaryInv'
<1>1. PICK s \in P!Newest(state.completed) :
         LET before == {t \in state.completed : t.id = s.par}
         IN  seal' = [pc |-> "done", result |-> IF before = {} THEN "unlinked" ELSE "sealed",
                      stages |-> {t.msg : t \in before} \cup {s.msg}]
  BY DEF P!SealFound
<1>2. UNCHANGED <<sealed, state, reply, th, sent>> /\ sealed = "true"
  BY DEF P!SealFound
<1>3. s \in state.completed /\ s.msg = P!CONF
  BY <1>2 DEF PrimaryInv, P!SealedLinked, P!Newest
<1>4. s # P!ParentStage
  BY <1>3 DEF P!ParentStage, P!Stage, P!CONF
<1>5. {t \in state.completed : t.id = s.par} # {}
  BY <1>3, <1>4 DEF PrimaryInv, Linked, Follows
<1>6. seal' = [pc |-> "done", result |-> "sealed", stages |-> seal'.stages]
  BY <1>1, <1>5
<1>7. Shrinks
  BY <1>2 DEF PrimaryInv, Shape, ReplyShape, Shrinks
<1>8. SealShape' /\ P!SealedLinked'
  BY <1>2, <1>6 DEF PrimaryInv, SealShape, P!SealedLinked
<1>9. seal'.pc = "done"
  BY <1>6
<1> QED
  BY <1>2, <1>7, <1>8, <1>9, ShrinkKeeps DEF PrimaryInv, Shape

\* The steps of a goroutine whose turn is over touch the buffer and no stage.
LEMMA LateKeeps ==
    ASSUME PrimaryInv, P!TimedOut \/ P!GiveUp \/ P!EmptyBuffer \/ P!Report
    PROVE  PrimaryInv'
<1>1. UNCHANGED <<state, th, sent>> /\ Shrinks
  BY DEF PrimaryInv, Shape, ReplyShape, Shrinks, P!TimedOut, P!GiveUp, P!EmptyBuffer, P!Report
<1>2. /\ seal' = [pc |-> seal'.pc, result |-> seal'.result, stages |-> seal'.stages]
      /\ seal'.pc \in {"late", "empty", "report", "done"}
      /\ sealed' # "true" \/ sealed' = sealed
  BY DEF PrimaryInv, Shape, SealShape, P!TimedOut, P!GiveUp, P!EmptyBuffer, P!Report
<1>3. seal'.result # "unlinked"
  <2>1. CASE P!TimedOut \/ P!GiveUp \/ P!EmptyBuffer
    BY <2>1 DEF PrimaryInv, Shape, SealShape, P!SealedLinked, P!TimedOut, P!GiveUp, P!EmptyBuffer
  <2>2. CASE P!Report
    BY <2>2 DEF PrimaryInv, Shape, StateShape, SealShape, P!SealedLinked, P!Report
  <2> QED
    BY <2>1, <2>2
<1>4. SealShape' /\ P!SealedLinked'
  BY <1>1, <1>2, <1>3 DEF PrimaryInv, SealShape, P!SealedLinked
<1> QED
  BY <1>1, <1>2, <1>4, ShrinkKeeps DEF PrimaryInv, Shape

-----------------------------------------------------------------------------
(* The new head.                                                           *)

\* Dropping the parent's stage leaves the stages of this round.
LEMMA WithoutParent ==
    ASSUME NEW S
    PROVE  /\ \A K \in SUBSET P!Kind : HasStage(S \ {P!ParentStage}, K) <=> HasStage(S, K)
           /\ \A id : Follows(S \ {P!ParentStage}, id) <=> Follows(S, id)
<1>1. \A t : t.msg \in P!Kind => t # P!ParentStage
  BY DEF P!ParentStage, P!Stage, P!Kind, P!PRE, P!CONF
<1> QED
  BY <1>1 DEF HasStage, Follows

\* Reset puts the hash to none, ClearConnected drops the parent's stage.
LEMMA NewHeadKeeps ==
    ASSUME PrimaryInv, P!NewHead
    PROVE  PrimaryInv'
<1>1. UNCHANGED <<reply, sealed, seal, th, sent>>
  BY DEF P!NewHead, P!ClearRead, P!ClearWrite, P!HeadRead, P!HeadClear, P!HeadRestore
<1>2. /\ state' = [stage |-> state'.stage, hash |-> state'.hash, signed |-> state'.signed,
                   completed |-> state'.completed]
      /\ state'.hash = state.hash \/ state'.hash = "none"
      /\ state'.stage = state.stage \/ state'.stage = "Idle"
      /\ state'.completed = state.completed \/ state'.completed = state.completed \ {P!ParentStage}
  BY DEF PrimaryInv, Shape, StateShape, P!NewHead, P!ClearRead, P!ClearWrite, P!HeadRead, P!HeadClear, P!HeadRestore
<1>3. /\ \A K \in SUBSET P!Kind : HasStage(state'.completed, K) <=> HasStage(state.completed, K)
      /\ \A id : Follows(state'.completed, id) <=> Follows(state.completed, id)
  BY <1>2, WithoutParent
<1>4. Shape'
  BY <1>1, <1>2 DEF PrimaryInv, Shape, StateShape, SealShape, ReplyShape, ThShape
<1>5. Before' /\ Builds'
  BY <1>1, <1>2 DEF PrimaryInv, Before, Builds, P!CONF
<1>6. After'
  BY <1>1, <1>2, <1>3 DEF PrimaryInv, After, P!Pending, P!Kind, P!PRE
<1>7. Confirms'
  BY <1>1, <1>3 DEF PrimaryInv, Confirms, ConfirmsOf, P!Kind
<1>8. Linked'
  BY <1>2, <1>3 DEF PrimaryInv, Linked, P!Kind
<1>9. (\E s \in state.completed : s.msg = P!CONF) => \E s \in state'.completed : s.msg = P!CONF
  <2>1. HasStage(state'.completed, {P!CONF}) <=> HasStage(state.completed, {P!CONF})
    BY <1>3 DEF P!Kind
  <2> QED
    BY <2>1 DEF HasStage
<1>10. P!SealedLinked'
  BY <1>1, <1>9 DEF PrimaryInv, P!SealedLinked
<1> QED
  BY <1>4, <1>5, <1>6, <1>7, <1>8, <1>10 DEF PrimaryInv

-----------------------------------------------------------------------------
(* AddReplyMsg, the pre-confirm stage.                                     *)

\* A reply that passes the check is about the current message.
LEMMA CheckedIs ==
    ASSUME NEW k \in P!Kind
    PROVE  /\ IsThread(P!Checked(k)) /\ IsPc(k, P!Checked(k).pc) /\ P!Checked(k).pc \in {"append", "done"}
           /\ P!Checked(k).pc = "append" => state.hash = k
<1>1. CASE state.stage # "Idle" /\ state.hash = k
  BY <1>1, FreshThread DEF P!Checked, IsPc, PrePc, ConfPc
<1>2. CASE ~(state.stage # "Idle" /\ state.hash = k)
  BY <1>2, FreshThread DEF P!Checked, P!Stopped, IsPc, PrePc, ConfPc
<1> QED
  BY <1>1, <1>2

\* A reply comes in, of a replica or of the primary.
LEMMA ReplyKeeps ==
    ASSUME PrimaryConstants, PrimaryInv, NEW k \in P!Kind, NEW j \in P!Sealer,
           P!HbftProcess(k, j) \/ (j = Me /\ P!OwnReply(k))
    PROVE  PrimaryInv'
<1>1. P!Step(k, j, P!Checked(k)) /\ UNCHANGED <<state, reply, sealed, seal, sent>>
  BY DEF P!HbftProcess, P!OwnReply
<1>2. ThShape' /\ th'[k][j] = P!Checked(k) /\ Moves(k, j)
  BY <1>1, StepMoves, CheckedIs DEF PrimaryInv, Shape
<1>3. Buffers(k, j)
  BY <1>1 DEF PrimaryInv, Shape, ReplyShape, Buffers
<1>4. SealShape' /\ P!SealedLinked'
  BY <1>1 DEF PrimaryInv, Shape, SealShape, P!SealedLinked
<1>5. CASE k = P!PRE
  <2>1. th'[P!PRE][j].pc \in {"append", "done"} /\ (th'[P!PRE][j].pc = "append" => state.hash = P!PRE)
    BY <1>2, <1>5, CheckedIs
  <2>2. seal'.pc \in {"request", "sent"} => seal.pc = seal'.pc /\ th'[P!PRE][j].pc = "done"
    BY <1>1, <2>1 DEF PrimaryInv, Before, P!PRE
  <2>3. StateShape' /\ ReplyShape' /\ Before' /\ After' /\ Builds' /\ Confirms' /\ Linked'
    BY <1>1, <1>2, <1>3, <1>5, <2>1, <2>2, PreMoves
  <2> QED
    BY <1>2, <1>4, <2>3 DEF PrimaryInv, Shape
<1>6. CASE k = P!CONF
  <2>1. ConfirmsOf(state.completed, th'[P!CONF][j])
    BY <1>2, <1>6, CheckedIs DEF ConfirmsOf
  <2>2. th[P!CONF][j].pc = "none" => sent = 1 /\ ~P!Pending(P!PRE)
    BY <1>6 DEF PrimaryConstants, PrimaryInv, After, P!HbftProcess, P!OwnReply
  <2>3. StateShape' /\ ReplyShape' /\ SealShape' /\ Before' /\ After' /\ Builds' /\ Confirms' /\ Linked'
    BY <1>1, <1>2, <1>3, <1>6, <2>1, <2>2, ConfMoves
  <2> QED
    BY <1>2, <1>4, <2>3 DEF PrimaryInv, Shape
<1> QED
  BY <1>5, <1>6 DEF P!Kind

\* The goroutine that stops, or sees the quorum, without the mutex.
LEMMA AppendPreKeeps ==
    ASSUME PrimaryInv, NEW j \in P!Sealer, P!AppendPre(j)
    PROVE  PrimaryInv'
<1> DEFINE t == IF P!Cardinality(reply.buf \cup {[msg |-> P!PRE, from |-> j]}) = P!Quorum
                THEN P!Thread("quorum") ELSE P!Stopped
<1>1. /\ P!Step(P!PRE, j, t) /\ UNCHANGED <<state, sealed, seal, sent>>
      /\ th[P!PRE][j].pc = "append"
      /\ reply' = [reply EXCEPT !.buf = reply.buf \cup {[msg |-> P!PRE, from |-> j]}]
  BY DEF P!AppendPre
<1>2. IsThread(t) /\ IsPc(P!PRE, t.pc) /\ t.pc \in {"quorum", "done"}
  BY FreshThread DEF P!Stopped, IsPc, PrePc, P!PRE, P!CONF
<1>3. ThShape' /\ th'[P!PRE][j] = t /\ Moves(P!PRE, j)
  <2> HIDE DEF t
  <2> QED
    BY <1>1, <1>2, StepMoves DEF PrimaryInv, Shape, P!Kind
<1>4. Buffers(P!PRE, j)
  <2>1. reply' = [buf |-> reply.buf \cup {[msg |-> P!PRE, from |-> j]}, lock |-> reply.lock, cnt |-> reply.cnt]
    BY <1>1 DEF PrimaryInv, Shape, ReplyShape
  <2> QED
    BY <2>1 DEF Buffers
<1>5. th'[P!PRE][j].pc \in {"quorum", "done"} /\ P!Pending(P!PRE)
  BY <1>1, <1>2, <1>3 DEF P!Pending
<1>6. ~(seal'.pc \in {"request", "sent"})
  BY <1>1 DEF PrimaryInv, Before
<1>7. StateShape' /\ ReplyShape' /\ Before' /\ After' /\ Builds' /\ Confirms' /\ Linked'
  BY <1>1, <1>3, <1>4, <1>5, <1>6, PreMoves
<1>8. SealShape' /\ P!SealedLinked'
  BY <1>1 DEF PrimaryInv, Shape, SealShape, P!SealedLinked
<1> QED
  BY <1>3, <1>7, <1>8 DEF PrimaryInv, Shape

\* With the mutex free nobody builds the confirm message, and a quorum of
\* signatures on the current message can only be one on the pre-confirm message.
LEMMA GetConfirmMsgKeeps ==
    ASSUME PrimaryConstants, PrimaryInv, NEW j \in P!Sealer, P!GetConfirmMsg(j)
    PROVE  PrimaryInv'
<1>1. /\ th[P!PRE][j].pc = "quorum" /\ ~reply.lock /\ P!Pending(P!PRE)
      /\ UNCHANGED <<state, sealed, seal, sent>>
  BY DEF P!GetConfirmMsg, P!Pending
<1>2. SealShape' /\ P!SealedLinked'
  BY <1>1 DEF PrimaryInv, Shape, SealShape, P!SealedLinked
<1>3. ~(seal'.pc \in {"request", "sent"})
  BY <1>1 DEF PrimaryInv, Before
<1>4. CASE P!Step(P!PRE, j, P!Stopped) /\ (UNCHANGED reply \/ reply' = [reply EXCEPT !.buf = {}])
  <2>1. ThShape' /\ th'[P!PRE][j] = P!Stopped /\ Moves(P!PRE, j)
    BY <1>4, StepMoves, FreshThread DEF PrimaryInv, Shape, P!Stopped, P!Kind, IsPc, PrePc, P!PRE, P!CONF
  <2>2. Buffers(P!PRE, j)
    BY <1>4 DEF PrimaryInv, Shape, ReplyShape, Buffers
  <2>3. th'[P!PRE][j].pc = "done"
    BY <2>1, FreshThread DEF P!Stopped
  <2>4. StateShape' /\ ReplyShape' /\ Before' /\ After' /\ Builds' /\ Confirms' /\ Linked'
    BY <1>1, <1>3, <2>1, <2>2, <2>3, PreMoves
  <2> QED
    BY <1>2, <2>1, <2>4 DEF PrimaryInv, Shape
<1>5. CASE /\ P!EnoughSigns(state.hash)
           /\ P!Step(P!PRE, j, [P!Thread("build") EXCEPT !.msg = state.hash, !.par = P!ParentStage.id,
                                                   !.signs = P!Signs(state.hash)])
           /\ reply' = [reply EXCEPT !.lock = TRUE]
  <2> DEFINE t == [P!Thread("build") EXCEPT !.msg = state.hash, !.par = P!ParentStage.id,
                                          !.signs = P!Signs(state.hash)]
  <2>1. state.hash # "none"
    BY <1>5, TooFew DEF PrimaryInv, Shape, ReplyShape, P!PRE, P!CONF
  <2>2. state.hash # P!CONF
    BY <1>1, <1>5, TooFew DEF PrimaryInv, Before, After
  <2>3. state.hash = P!PRE /\ sent = 0
    BY <2>1, <2>2 DEF PrimaryInv, Shape, StateShape, After
  <2>4. P!Step(P!PRE, j, t)
    BY <1>5
  <2>5. IsThread(t) /\ IsPc(P!PRE, t.pc) /\ t.pc = "build" /\ t.msg = P!PRE
        /\ t.par = P!ParentStage.id /\ Cardinality(t.signs) >= P!Quorum
    <3>1. IsThread(t) /\ t.pc = "build" /\ t.msg = state.hash /\ t.par = P!ParentStage.id
          /\ t.signs = P!Signs(state.hash)
      <4> DEFINE r == P!Thread("build")
      <4>1. IsThread(r) /\ r.pc = "build"
        BY FreshThread
      <4>2. t = [r EXCEPT !.msg = state.hash, !.par = P!ParentStage.id, !.signs = P!Signs(state.hash)]
        OBVIOUS
      <4> HIDE DEF r, t
      <4> QED
        BY <4>1, <4>2 DEF IsThread
    <3> QED
      BY <1>5, <2>3, <3>1, SameCardinality DEF IsPc, PrePc, P!PRE, P!CONF, P!EnoughSigns
  <2> HIDE DEF t
  <2>6. ThShape' /\ th'[P!PRE][j] = t /\ Moves(P!PRE, j)
    BY <2>4, <2>5, StepMoves DEF PrimaryInv, Shape, P!Kind
  <2>7. \A i \in P!Sealer : th'[P!CONF][i] = th[P!CONF][i]
    BY <2>6 DEF Moves, P!Kind, P!PRE, P!CONF
  <2>8. \A i \in P!Sealer : i # j => th'[P!PRE][i] = th[P!PRE][i]
    BY <2>6 DEF Moves, P!Kind
  <2>9. reply' = [buf |-> reply.buf, lock |-> TRUE, cnt |-> reply.cnt]
    BY <1>5 DEF PrimaryInv, Shape, ReplyShape
  <2>10. StateShape' /\ ReplyShape'
    BY <1>1, <2>9 DEF PrimaryInv, Shape, StateShape, ReplyShape
  <2>11. Before' /\ After'
    BY <1>1, <1>3, <2>3, <2>7, <2>9 DEF PrimaryInv, Before, After
  <2>12. \A i \in P!Sealer : ~(th[P!PRE][i].pc \in {"build", "add"})
    BY <1>1 DEF PrimaryInv, Builds
  <2>13. Builds'
    BY <1>1, <2>3, <2>5, <2>6, <2>8, <2>9, <2>12 DEF Builds
  <2>14. Confirms' /\ Linked'
    BY <1>1, <2>7 DEF PrimaryInv, Confirms, Linked
  <2> QED
    BY <1>2, <2>6, <2>10, <2>11, <2>13, <2>14 DEF PrimaryInv, Shape
<1> QED
  BY <1>4, <1>5 DEF P!GetConfirmMsg

\* The builder starts to append to the future list, or finds no signed block.
LEMMA AddFutureKeeps ==
    ASSUME PrimaryInv, NEW j \in P!Sealer, P!AddFuture(j)
    PROVE  PrimaryInv'
<1>1. th[P!PRE][j].pc = "build" /\ UNCHANGED <<state, reply, sealed, seal, sent>>
  BY DEF P!AddFuture
<1>2. StateShape' /\ ReplyShape' /\ SealShape' /\ P!SealedLinked' /\ Linked'
  BY <1>1 DEF PrimaryInv, Shape, StateShape, ReplyShape, SealShape, P!SealedLinked, Linked
<1>3. CASE UNCHANGED th
  BY <1>1, <1>2, <1>3 DEF PrimaryInv, Shape, ThShape, Before, After, Builds, Confirms, P!Pending
<1>4. CASE P!Step(P!PRE, j, [th[P!PRE][j] EXCEPT !.pc = "add", !.list = futures])
  <2> DEFINE t == [th[P!PRE][j] EXCEPT !.pc = "add", !.list = futures]
  <2>1. P!Step(P!PRE, j, t)
    BY <1>4
  <2>2. IsThread(t) /\ IsPc(P!PRE, t.pc) /\ t.pc = "add" /\ t.msg = th[P!PRE][j].msg
        /\ t.par = th[P!PRE][j].par /\ t.signs = th[P!PRE][j].signs
    <3>1. IsThread(th[P!PRE][j])
      BY DEF PrimaryInv, Shape, ThShape, P!Kind
    <3>2. IsThread(t) /\ t.pc = "add" /\ t.msg = th[P!PRE][j].msg
          /\ t.par = th[P!PRE][j].par /\ t.signs = th[P!PRE][j].signs
      <4>1. t = [th[P!PRE][j] EXCEPT !.pc = "add", !.list = futures]
        OBVIOUS
      <4> HIDE DEF t
      <4> QED
        BY <3>1, <4>1 DEF IsThread
    <3> QED
      BY <3>2 DEF IsPc, PrePc, P!PRE, P!CONF
  <2> HIDE DEF t
  <2>3. ThShape' /\ th'[P!PRE][j] = t /\ Moves(P!PRE, j)
    BY <2>1, <2>2, StepMoves DEF PrimaryInv, Shape, P!Kind
  <2>4. \A i \in P!Sealer : th'[P!CONF][i] = th[P!CONF][i]
    BY <2>3 DEF Moves, P!Kind, P!PRE, P!CONF
  <2>5. \A i \in P!Sealer : i # j => th'[P!PRE][i] = th[P!PRE][i]
    BY <2>3 DEF Moves, P!Kind
  <2>6. Before'
    BY <1>1, <2>4 DEF PrimaryInv, Before
  <2>7. sent = 0
    BY <1>1 DEF PrimaryInv, Builds
  <2>8. After'
    BY <1>1, <2>7 DEF After
  <2>9. Builds'
    BY <1>1, <2>2, <2>3, <2>5 DEF PrimaryInv, Builds
  <2>10. Confirms'
    BY <1>1, <2>4 DEF PrimaryInv, Confirms
  <2> QED
    BY <1>2, <2>3, <2>6, <2>8, <2>9, <2>10 DEF PrimaryInv, Shape
<1> QED
  BY <1>3, <1>4 DEF P!AddFuture

\* More stages keep what is there.
LEMMA MoreStages ==
    ASSUME NEW S, NEW T, S \subseteq T
    PROVE  /\ \A K : HasStage(S, K) => HasStage(T, K)
           /\ \A id : Follows(S, id) => Follows(T, id)
           /\ \A t : ConfirmsOf(S, t) => ConfirmsOf(T, t)
<1>1. /\ \A K : HasStage(S, K) => HasStage(T, K)
      /\ \A id : Follows(S, id) => Follows(T, id)
  BY DEF HasStage, Follows
<1> QED
  BY <1>1 DEF ConfirmsOf

\* The one builder sends the confirm message: before it there was none.
LEMMA SetConfirmKeeps ==
    ASSUME PrimaryConstants, PrimaryInv, NEW j \in P!Sealer, P!SetConfirm(j)
    PROVE  PrimaryInv'
<1> DEFINE s == P!Stage(th[P!PRE][j].msg, j, th[P!PRE][j].par, th[P!PRE][j].signs)
<1>1. /\ th[P!PRE][j].pc = "add" /\ UNCHANGED <<sealed, seal>> /\ sent' = sent + 1
      /\ state' = [state EXCEPT !.stage = "Confirm", !.hash = P!CONF, !.completed = @ \cup {s}]
      /\ reply' = [reply EXCEPT !.buf = {}, !.lock = FALSE]
      /\ th' = [th EXCEPT ![P!PRE][j] = P!Stopped, ![P!CONF][Me] = P!Thread("new")]
  BY DEF P!SetConfirm
<1>2. /\ sent = 0 /\ th[P!PRE][j].msg = P!PRE /\ th[P!PRE][j].par = P!ParentStage.id
      /\ Cardinality(th[P!PRE][j].signs) >= P!Quorum
      /\ \A i \in P!Sealer : th[P!PRE][i].pc \in {"build", "add"} => i = j
  BY <1>1 DEF PrimaryInv, Builds
<1>3. s.msg = P!PRE /\ s.par = P!ParentStage.id /\ Cardinality(s.signs) >= P!Quorum
  BY <1>2 DEF P!Stage
<1> HIDE DEF s
<1>4. state' = [stage |-> "Confirm", hash |-> P!CONF, signed |-> state.signed,
                completed |-> state.completed \cup {s}]
  BY <1>1 DEF PrimaryInv, Shape, StateShape
<1>5. reply' = [buf |-> {}, lock |-> FALSE, cnt |-> reply.cnt]
  BY <1>1 DEF PrimaryInv, Shape, ReplyShape
<1>6. Me \in P!Sealer /\ P!PRE # P!CONF /\ P!PRE \in P!Kind /\ P!CONF \in P!Kind
  BY DEF P!Sealer, P!Kind, P!PRE, P!CONF
<1>7. /\ th'[P!PRE][j] = P!Stopped /\ th'[P!CONF][Me] = P!Thread("new")
      /\ \A i \in P!Sealer : i # j => th'[P!PRE][i] = th[P!PRE][i]
      /\ \A i \in P!Sealer : i # Me => th'[P!CONF][i] = th[P!CONF][i]
  BY <1>1, <1>6 DEF PrimaryInv, Shape, ThShape
<1>8. th' = [k \in P!Kind |-> [i \in P!Sealer |-> th'[k][i]]]
  BY <1>1, <1>6 DEF PrimaryInv, Shape, ThShape
<1>9. th'[P!PRE][j].pc = "done" /\ th'[P!CONF][Me].pc = "new"
  BY <1>7, FreshThread DEF P!Stopped
<1>10. ThShape'
  <2>1. IsThread(th'[P!PRE][j]) /\ IsThread(th'[P!CONF][Me])
    BY <1>7, FreshThread DEF P!Stopped
  <2>2. IsPc(P!PRE, th'[P!PRE][j].pc) /\ IsPc(P!CONF, th'[P!CONF][Me].pc)
    BY <1>9 DEF IsPc, PrePc, ConfPc, P!PRE, P!CONF
  <2>3. \A i \in P!Sealer : IsThread(th'[P!PRE][i]) /\ IsPc(P!PRE, th'[P!PRE][i].pc)
    BY <1>6, <1>7, <2>1, <2>2 DEF PrimaryInv, Shape, ThShape
  <2>4. \A i \in P!Sealer : IsThread(th'[P!CONF][i]) /\ IsPc(P!CONF, th'[P!CONF][i].pc)
    BY <1>6, <1>7, <2>1, <2>2 DEF PrimaryInv, Shape, ThShape
  <2> QED
    BY <1>8, <2>3, <2>4 DEF ThShape, P!Kind
<1>11. StateShape' /\ ReplyShape' /\ SealShape'
  BY <1>1, <1>4, <1>5 DEF PrimaryInv, Shape, StateShape, ReplyShape, SealShape
<1>12. sent' = 1 /\ ~(seal'.pc \in {"request", "sent"})
  BY <1>1, <1>2 DEF PrimaryInv, Before
<1>13. Before'
  BY <1>12 DEF Before
<1>14. \A i \in P!Sealer : i # Me => th'[P!CONF][i].pc = "none"
  BY <1>2, <1>7 DEF PrimaryInv, Before
<1>15. After'
  BY <1>3, <1>4, <1>5, <1>6, <1>12, <1>14 DEF After, HasStage, PrimaryConstants, P!Sealer
<1>16. Builds'
  BY <1>2, <1>7, <1>9 DEF Builds
<1>17. Confirms'
  BY <1>9, <1>14 DEF Confirms, ConfirmsOf
<1>18. Linked'
  BY <1>3, <1>4, <1>6, MoreStages DEF PrimaryInv, Linked
<1>19. P!SealedLinked'
  BY <1>1, <1>4 DEF PrimaryInv, P!SealedLinked
<1> QED
  BY <1>10, <1>11, <1>13, <1>15, <1>16, <1>17, <1>18, <1>19 DEF PrimaryInv, Shape

-----------------------------------------------------------------------------
(* AddReplyMsg, the confirm stage.                                         *)

\* A goroutine of the confirm stage that has started and goes to thread t:
\* what its step has to show of t and of the buffer.
LEMMA ConfSteps ==
    ASSUME PrimaryInv, NEW j \in P!Sealer, NEW t, P!Step(P!CONF, j, t), th[P!CONF][j].pc # "none",
           IsThread(t), t.pc \in ConfPc, ConfirmsOf(state.completed, t), Buffers(P!CONF, j),
           UNCHANGED <<state, sent, seal>>,
           sealed' = "true" => sealed = "true" \/ HasStage(state.completed, {P!CONF})
    PROVE  PrimaryInv'
<1>1. ThShape' /\ th'[P!CONF][j] = t /\ Moves(P!CONF, j)
  BY StepMoves DEF PrimaryInv, Shape, P!Kind, IsPc, P!PRE, P!CONF
<1>2. StateShape' /\ ReplyShape' /\ SealShape' /\ Before' /\ After' /\ Builds' /\ Confirms' /\ Linked'
  BY <1>1, ConfMoves
<1>3. P!SealedLinked'
  BY DEF PrimaryInv, P!SealedLinked, HasStage
<1> QED
  BY <1>1, <1>2, <1>3 DEF PrimaryInv, Shape

\* A fresh goroutine at one of these places has nothing to show.
LEMMA FreshConfirms ==
    ASSUME NEW S, NEW pc \in {"count", "index", "clear", "done"}
    PROVE  IsThread(P!Thread(pc)) /\ P!Thread(pc).pc \in ConfPc /\ ConfirmsOf(S, P!Thread(pc))
BY FreshThread DEF ConfPc, ConfirmsOf

\* The reply is counted; the count is compared.
LEMMA CountKeeps ==
    ASSUME PrimaryInv, NEW j \in P!Sealer, P!AppendConfirm(j) \/ P!CountConfirm(j) \/ P!ClearReplies(j)
    PROVE  PrimaryInv'
<1>1. UNCHANGED <<state, sent, seal, sealed>> /\ th[P!CONF][j].pc # "none"
  BY DEF P!AppendConfirm, P!CountConfirm, P!ClearReplies
<1>2. Buffers(P!CONF, j)
  <2>1. CASE P!AppendConfirm(j)
    <3>1. reply' = [buf |-> reply.buf \cup {[msg |-> P!CONF, from |-> j]}, lock |-> reply.lock,
                    cnt |-> reply.cnt + 1]
      BY <2>1 DEF PrimaryInv, Shape, ReplyShape, P!AppendConfirm
    <3> QED
      BY <3>1 DEF Buffers
  <2>2. CASE P!CountConfirm(j)
    <3>1. UNCHANGED reply \/ reply' = [reply EXCEPT !.cnt = 0]
      BY <2>2 DEF P!CountConfirm
    <3> QED
      BY <3>1 DEF PrimaryInv, Shape, ReplyShape, Buffers
  <2>3. CASE P!ClearReplies(j)
    BY <2>3 DEF PrimaryInv, Shape, ReplyShape, Buffers, P!ClearReplies
  <2> QED
    BY <2>1, <2>2, <2>3
<1>3. PICK pc \in {"count", "index", "clear", "done"} : P!Step(P!CONF, j, P!Thread(pc))
  BY DEF P!AppendConfirm, P!CountConfirm, P!ClearReplies, P!Stopped
<1> QED
  BY <1>1, <1>2, <1>3, FreshConfirms, ConfSteps

\* After the confirm message is sent the hash that is read is not PRE.
LEMMA ReadSignedKeeps ==
    ASSUME PrimaryInv, NEW j \in P!Sealer, P!ReadSigned(j)
    PROVE  PrimaryInv'
<1>1. UNCHANGED <<state, reply, sent, seal, sealed>> /\ th[P!CONF][j].pc = "index"
  BY DEF P!ReadSigned
<1>2. Buffers(P!CONF, j)
  BY <1>1 DEF PrimaryInv, Shape, ReplyShape, Buffers
<1>3. CASE UNCHANGED th
  BY <1>1, <1>3 DEF PrimaryInv, Shape, StateShape, ReplyShape, SealShape, ThShape, Before, After,
                    Builds, Confirms, Linked, P!SealedLinked, P!Pending
<1>4. CASE P!Step(P!CONF, j, P!Stopped)
  BY <1>1, <1>2, <1>4, FreshConfirms, ConfSteps DEF P!Stopped
<1>5. CASE P!Step(P!CONF, j, [P!Thread("newest") EXCEPT !.msg = state.hash])
  <2> DEFINE r == P!Thread("newest")
             t == [r EXCEPT !.msg = state.hash]
  <2>1. IsThread(r) /\ r.pc = "newest" /\ P!Step(P!CONF, j, t) /\ t = [r EXCEPT !.msg = state.hash]
    BY <1>5, FreshThread
  <2> HIDE DEF r, t
  <2>2. IsThread(t) /\ t.pc = "newest" /\ t.msg = state.hash
    BY <2>1 DEF IsThread
  <2>3. state.hash \in {P!CONF, "none"}
    BY <1>1 DEF PrimaryInv, Before, After, Shape, StateShape
  <2>4. t.pc \in ConfPc /\ ConfirmsOf(state.completed, t)
    BY <2>2, <2>3 DEF ConfPc, ConfirmsOf
  <2> QED
    BY <1>1, <1>2, <2>1, <2>2, <2>4, ConfSteps
<1> QED
  BY <1>3, <1>4, <1>5 DEF P!ReadSigned

\* The newest stage is one of this round: the pre-confirm stage is there.
LEMMA NewestOfRound ==
    ASSUME NEW S, HasStage(S, {P!PRE}), NEW s \in P!Newest(S)
    PROVE  Follows(S, s.id)
<1>1. PICK q \in S : q.msg = P!PRE
  BY DEF HasStage
<1>2. s \in S /\ s.msg \in P!Kind
  BY <1>1 DEF P!Newest, P!Kind
<1> QED
  BY <1>2 DEF Follows

\* The newest stage is read.
LEMMA ReadNewestKeeps ==
    ASSUME PrimaryInv, NEW j \in P!Sealer, P!ReadNewest(j)
    PROVE  PrimaryInv'
<1>1. UNCHANGED <<state, reply, sent, seal, sealed>> /\ th[P!CONF][j].pc = "newest"
  BY DEF P!ReadNewest
<1>2. Buffers(P!CONF, j)
  BY <1>1 DEF PrimaryInv, Shape, ReplyShape, Buffers
<1>3. PICK s \in P!Newest(state.completed) :
        P!Step(P!CONF, j, [th[P!CONF][j] EXCEPT !.pc = "signs", !.par = s.id])
  BY DEF P!ReadNewest
<1>4. Follows(state.completed, s.id)
  BY <1>1, NewestOfRound DEF PrimaryInv, Before, After
<1>5. IsThread(th[P!CONF][j]) /\ th[P!CONF][j].msg \in {P!CONF, "none"}
  BY <1>1 DEF PrimaryInv, Shape, ThShape, P!Kind, Confirms, ConfirmsOf
<1> DEFINE t == [th[P!CONF][j] EXCEPT !.pc = "signs", !.par = s.id]
<1>6. t = [th[P!CONF][j] EXCEPT !.pc = "signs", !.par = s.id] /\ P!Step(P!CONF, j, t)
  BY <1>3
<1> HIDE DEF t
<1>7. IsThread(t) /\ t.pc = "signs" /\ t.msg = th[P!CONF][j].msg /\ t.par = s.id
  BY <1>5, <1>6 DEF IsThread
<1>8. t.pc \in ConfPc /\ ConfirmsOf(state.completed, t)
  BY <1>4, <1>5, <1>7 DEF ConfPc, ConfirmsOf
<1> QED
  BY <1>1, <1>2, <1>6, <1>7, <1>8, ConfSteps

\* A quorum of replies is one to the confirm message.
LEMMA CountSignsKeeps ==
    ASSUME PrimaryConstants, PrimaryInv, NEW j \in P!Sealer, P!CountSigns(j)
    PROVE  PrimaryInv'
<1>1. UNCHANGED <<state, sent, seal, sealed>> /\ th[P!CONF][j].pc = "signs"
  BY DEF P!CountSigns
<1>2. CASE /\ P!EnoughSigns(th[P!CONF][j].msg) /\ UNCHANGED reply
           /\ P!Step(P!CONF, j, [th[P!CONF][j] EXCEPT !.pc = "complete", !.signs = P!Signs(th[P!CONF][j].msg)])
  <2>1. Buffers(P!CONF, j)
    BY <1>2 DEF PrimaryInv, Shape, ReplyShape, Buffers
  <2>2. /\ IsThread(th[P!CONF][j]) /\ th[P!CONF][j].msg \in {P!CONF, "none"}
        /\ Follows(state.completed, th[P!CONF][j].par)
    BY <1>1 DEF PrimaryInv, Shape, ThShape, P!Kind, Confirms, ConfirmsOf
  <2>3. th[P!CONF][j].msg # "none"
    BY <1>2, TooFew DEF PrimaryInv, Shape, ReplyShape, P!PRE, P!CONF
  <2> DEFINE t == [th[P!CONF][j] EXCEPT !.pc = "complete", !.signs = P!Signs(th[P!CONF][j].msg)]
  <2>4. t = [th[P!CONF][j] EXCEPT !.pc = "complete", !.signs = P!Signs(th[P!CONF][j].msg)] /\ P!Step(P!CONF, j, t)
    BY <1>2
  <2> HIDE DEF t
  <2>5. IsThread(t) /\ t.pc = "complete" /\ t.msg = th[P!CONF][j].msg /\ t.par = th[P!CONF][j].par
        /\ t.signs = P!Signs(th[P!CONF][j].msg)
    BY <2>2, <2>4 DEF IsThread
  <2>6. t.pc \in ConfPc /\ ConfirmsOf(state.completed, t)
    BY <1>2, <2>2, <2>3, <2>5, SameCardinality DEF ConfPc, ConfirmsOf, P!EnoughSigns
  <2> QED
    BY <1>1, <2>1, <2>4, <2>5, <2>6, ConfSteps
<1>3. CASE P!Step(P!CONF, j, P!Stopped) /\ reply' = [reply EXCEPT !.cnt = reply.cnt - 1]
  <2>1. Buffers(P!CONF, j)
    BY <1>3 DEF PrimaryInv, Shape, ReplyShape, Buffers
  <2> QED
    BY <1>1, <1>3, <2>1, FreshConfirms, ConfSteps DEF P!Stopped
<1> QED
  BY <1>2, <1>3 DEF P!CountSigns

\* Sealed is stored after the confirm stage is completed.
LEMMA StoreSealedKeeps ==
    ASSUME PrimaryInv, NEW j \in P!Sealer, P!StoreSealed(j)
    PROVE  PrimaryInv'
<1>1. /\ UNCHANGED <<state, reply, sent, seal>> /\ th[P!CONF][j].pc = "store"
      /\ P!Step(P!CONF, j, P!Thread("clear"))
  BY DEF P!StoreSealed
<1>2. Buffers(P!CONF, j)
  BY <1>1 DEF PrimaryInv, Shape, ReplyShape, Buffers
<1>3. HasStage(state.completed, {P!CONF})
  BY <1>1 DEF PrimaryInv, Confirms, ConfirmsOf
<1> QED
  BY <1>1, <1>2, <1>3, FreshConfirms, ConfSteps

\* The confirm stage joins the stages, after the one it follows.
LEMMA CompleteConfirmKeeps ==
    ASSUME PrimaryConstants, PrimaryInv, NEW j \in P!Sealer, P!CompleteConfirm(j)
    PROVE  PrimaryInv'
<1> DEFINE s == P!Stage(th[P!CONF][j].msg, j, th[P!CONF][j].par, th[P!CONF][j].signs)
<1>1. /\ th[P!CONF][j].pc = "complete" /\ UNCHANGED <<sealed, reply, seal, sent>>
      /\ state' = [state EXCEPT !.stage = "Idle", !.hash = "none", !.completed = @ \cup {s}]
      /\ P!Step(P!CONF, j, P!Thread("store"))
  BY DEF P!CompleteConfirm
<1>2. /\ th[P!CONF][j].msg = P!CONF /\ Follows(state.completed, th[P!CONF][j].par)
      /\ Cardinality(th[P!CONF][j].signs) >= P!Quorum
  BY <1>1 DEF PrimaryInv, Confirms, ConfirmsOf
<1>3. s.msg = P!CONF /\ Follows(state.completed, s.par) /\ Cardinality(s.signs) >= P!Quorum
  BY <1>2 DEF P!Stage
<1> HIDE DEF s
<1>4. state' = [stage |-> "Idle", hash |-> "none", signed |-> state.signed,
                completed |-> state.completed \cup {s}]
  BY <1>1 DEF PrimaryInv, Shape, StateShape
<1>5. ThShape' /\ th'[P!CONF][j] = P!Thread("store") /\ Moves(P!CONF, j)
  BY <1>1, StepMoves, FreshThread DEF PrimaryInv, Shape, P!Kind, IsPc, ConfPc, P!PRE, P!CONF
<1>6. /\ \A i \in P!Sealer : th'[P!PRE][i] = th[P!PRE][i]
      /\ \A i \in P!Sealer : i # j => th'[P!CONF][i] = th[P!CONF][i]
  BY <1>5 DEF Moves, P!Kind, P!PRE, P!CONF
<1>7. sent = 1 /\ HasStage(state.completed, {P!PRE}) /\ (P!Pending(P!PRE) => j = Me)
  BY <1>1 DEF PrimaryInv, Before, After, P!Sealer
<1>8. StateShape' /\ ReplyShape' /\ SealShape'
  BY <1>1, <1>4 DEF PrimaryInv, Shape, StateShape, ReplyShape, SealShape
<1>9. Before'
  BY <1>1, <1>4, <1>7 DEF PrimaryInv, Before
<1>10. /\ \A K : HasStage(state.completed, K) => HasStage(state'.completed, K)
       /\ \A id : Follows(state.completed, id) => Follows(state'.completed, id)
       /\ \A t : ConfirmsOf(state.completed, t) => ConfirmsOf(state'.completed, t)
  BY <1>4, MoreStages
<1>11. P!Pending(P!PRE)' <=> P!Pending(P!PRE)
  BY <1>6 DEF P!Pending
<1>12. After'
  <2>1. P!Pending(P!PRE) => /\ \A i \in Replica : th'[P!CONF][i].pc = "none"
                        /\ \A r \in reply'.buf : r.msg = P!CONF => r.from = Me
    BY <1>1, <1>6, <1>7 DEF PrimaryInv, After, PrimaryConstants, P!Sealer
  <2>2. HasStage(state'.completed, {P!PRE}) /\ state'.hash # P!PRE /\ sent' = 1
    BY <1>1, <1>4, <1>7, <1>10 DEF P!PRE
  <2> QED
    BY <1>11, <2>1, <2>2 DEF After
<1>13. Builds'
  BY <1>1, <1>6 DEF PrimaryInv, Builds
<1>14. HasStage(state'.completed, {P!CONF})
  BY <1>3, <1>4 DEF HasStage
<1>15. ConfirmsOf(state'.completed, th'[P!CONF][j])
  BY <1>5, <1>14, FreshThread DEF ConfirmsOf
<1>16. Confirms'
  BY <1>6, <1>10, <1>15 DEF PrimaryInv, Confirms
<1>17. Linked'
  <2>1. ASSUME NEW q \in state'.completed \ {P!ParentStage}
        PROVE  /\ q.msg \in P!Kind /\ Cardinality(q.signs) >= P!Quorum
               /\ q.msg = P!PRE => q.par = P!ParentStage.id
               /\ q.msg = P!CONF => HasStage(state'.completed, {P!PRE}) /\ Follows(state'.completed, q.par)
    <3>1. CASE q \in state.completed
      BY <1>10, <3>1 DEF PrimaryInv, Linked
    <3>2. CASE q = s
      BY <1>3, <1>7, <1>10, <3>2 DEF P!Kind, P!PRE, P!CONF
    <3> QED
      BY <1>4, <3>1, <3>2
  <2> QED
    BY <2>1 DEF Linked
<1>18. P!SealedLinked'
  BY <1>1, <1>14 DEF PrimaryInv, P!SealedLinked, HasStage
<1> QED
  BY <1>5, <1>8, <1>9, <1>12, <1>13, <1>16, <1>17, <1>18 DEF PrimaryInv, Shape

-----------------------------------------------------------------------------
(* The round.                                                              *)

\* The round starts with replies to old messages at most.
LEMMA PrimaryInit ==
    ASSUME PrimaryConstants, P!Init
    PROVE  PrimaryInv
<1>1. /\ state = [stage |-> "Idle", hash |-> "none", signed |-> FALSE, completed |-> {P!ParentStage}]
      /\ seal = [pc |-> "request", result |-> "none", stages |-> {}] /\ sent = 0 /\ sealed = "absent"
      /\ th = [k \in P!Kind |-> [j \in P!Sealer |-> P!Thread("none")]]
  BY DEF P!Init
<1>2. PICK n \in 0..Stale :
        reply = [buf |-> {[msg |-> "old", from |-> k] : k \in 1..n}, lock |-> FALSE, cnt |-> n]
  BY DEF P!Init
<1>3. /\ reply = [buf |-> reply.buf, lock |-> FALSE, cnt |-> reply.cnt]
      /\ \A r \in reply.buf : r.msg = "old"
  BY <1>2
<1>4. \A k \in P!Kind, j \in P!Sealer : th[k][j] = P!Thread("none")
  BY <1>1
<1>5. \A k \in P!Kind, j \in P!Sealer : IsThread(th[k][j]) /\ th[k][j].pc = "none"
  BY <1>4, FreshThread
<1>6. ThShape
  BY <1>1, <1>5 DEF ThShape, IsPc, PrePc, ConfPc
<1>7. StateShape /\ ReplyShape /\ SealShape
  <2>1. StateShape
    BY <1>1 DEF StateShape
  <2>2. ReplyShape
    <3>1. reply.lock = FALSE
      BY <1>3
    <3>2. reply = [buf |-> reply.buf, lock |-> reply.lock, cnt |-> reply.cnt]
      BY <1>3, <3>1
    <3> QED
      BY <1>3, <3>1, <3>2, Zenon DEF ReplyShape
  <2>3. SealShape
    BY <1>1 DEF SealShape
  <2> QED
    BY <2>1, <2>2, <2>3
<1>8. Before /\ After
  BY <1>1, <1>3, <1>5 DEF Before, After, P!Kind, P!PRE, P!CONF
<1>9. Builds /\ Confirms
  BY <1>5 DEF Builds, Confirms, ConfirmsOf, P!Kind
<1>10. Linked /\ P!SealedLinked
  BY <1>1 DEF Linked, P!SealedLinked
<1> QED
  BY <1>6, <1>7, <1>8, <1>9, <1>10 DEF PrimaryInv, Shape

\* Every step of every goroutine keeps it.
LEMMA PrimaryNext ==
    ASSUME PrimaryConstants, PrimaryInv, [P!Next]_P!vars
    PROVE  PrimaryInv'
<1>1. CASE P!Sealing
  BY <1>1, HandleReqKeeps, SetPreConfirmKeeps, ResolveRequestMsgKeeps, SealFoundKeeps, LateKeeps DEF P!Sealing
<1>2. CASE P!NewHead
  BY <1>2, NewHeadKeeps
<1>3. ASSUME NEW k \in P!Kind, P!OwnReply(k)
      PROVE  PrimaryInv'
  BY <1>3, ReplyKeeps, QuorumThree
<1>4. ASSUME NEW j \in P!Sealer, P!AddReplyMsg(j)
      PROVE  PrimaryInv'
  BY <1>4, ReplyKeeps, AppendPreKeeps, GetConfirmMsgKeeps, AddFutureKeeps, SetConfirmKeeps, CountKeeps,
     ReadSignedKeeps, ReadNewestKeeps, CountSignsKeeps, CompleteConfirmKeeps, StoreSealedKeeps DEF P!AddReplyMsg
<1>5. CASE UNCHANGED P!vars
  BY <1>5 DEF P!vars, PrimaryInv, Shape, StateShape, ReplyShape, SealShape, ThShape, Before, After, Builds,
              Confirms, Linked, P!SealedLinked, P!Pending
<1> QED
  BY <1>1, <1>2, <1>3, <1>4, <1>5 DEF P!Next

\* The invariant of a primary's round.
LEMMA PrimaryAlways ==
    ASSUME PrimaryConstants
    PROVE  P!Spec => []PrimaryInv
BY PrimaryInit, PrimaryNext, PTL DEF P!Spec

\* Whatever the number of replicas, of old replies and of goroutines, and with
\* the import of the parent falling anywhere: a stage that a primary completes
\* carries a quorum of signatures on its own message, a pre-confirm stage
\* follows the parent's and a confirm stage comes after the pre-confirm one
\* (AddReplyMsg, GetConfirmMsg, SetStageCompleted).
THEOREM PrimaryStagesSigned ==
    ASSUME PrimaryConstants
    PROVE  P!Spec => []StagesSigned
<1>1. PrimaryInv => StagesSigned
  BY SameCardinality DEF PrimaryInv, Linked, StagesSigned, P!StagesSigned, HasStage
<1> QED
  BY <1>1, PrimaryAlways, PTL

\* A block marked as sealed has its confirm stage, and the sealing goroutine
\* finds the stage before it (GetSealedBlockStages).
THEOREM PrimarySealedLinked ==
    ASSUME PrimaryConstants
    PROVE  P!Spec => []SealedLinked
<1>1. PrimaryInv => SealedLinked
  BY DEF PrimaryInv, SealedLinked
<1> QED
  BY <1>1, PrimaryAlways, PTL

\* A primary sends its confirm message once: GetConfirmMsg is reached by one
\* goroutine with a quorum on the pre-confirm message.
THEOREM PrimaryConfirmsOnce ==
    ASSUME PrimaryConstants
    PROVE  P!Spec => []OneConfirmMsg
<1>1. PrimaryInv => OneConfirmMsg
  BY DEF PrimaryInv, After, OneConfirmMsg, P!OneConfirmMsg
<1> QED
  BY <1>1, PrimaryAlways, PTL
=============================================================================
