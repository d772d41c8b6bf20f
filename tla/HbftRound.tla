----------------------------- MODULE HbftRound ------------------------------
(***************************************************************************)
(* The threads of one HBFT round: those of a replica that answer messages  *)
(* (BftRelay) and those of the primary that work on the answers            *)
(* (HbftPrimary).                                                          *)
(***************************************************************************)
EXTENDS BftRelay

CONSTANTS Replica, Me, Stale, Answering, MaxOpen, Import, Delayed

VARIABLES state, reply, sealed, futures, seal, th, head, sent, quorum, panic

pvars == <<state, reply, sealed, futures, seal, th, head, sent, quorum, panic>>

\* The primary.
P == INSTANCE HbftPrimary

\* A stage carries the signatures of 2f + 1 sealers on its own message and
\* follows the stage before, however the goroutines of AddReplyMsg, the time
\* out and the head event interleave.
StagesSigned == P!StagesSigned

\* A block is reported as sealed only when its confirm stage is there, and the
\* goroutine that looks for its two stages finds them (BlockSealedCompleted,
\* GetSealedBlockStages).
SealedLinked == P!SealedLinked

\* GetConfirmMsg is called once in a round, although 2f + 1 and more goroutines
\* of AddReplyMsg work on the replies.
OneConfirmMsg == P!OneConfirmMsg
=============================================================================
