------------------------------- MODULE Police -------------------------------
(***************************************************************************)
(* The police officer as a whole: its threads (PoliceOfficer) and, for the *)
(* goroutines that verify a batch, the verification with headers of other  *)
(* nodes (PoliceHeaders).                                                  *)
(***************************************************************************)
EXTENDS PoliceOfficer

CONSTANTS Job, JobBatch, Peer, PeerFork, PeerHead, OwnHead, ForkAt, MaxFetch, Faulty

VARIABLES branch, job, requests, answers

headers == <<branch, job, requests, answers>>

\* The verification of the batches the officer's goroutines work on.
Headers == INSTANCE PoliceHeaders WITH Batch <- JobBatch

\* What verify matches are the ancestors of the block, whatever mixture of
\* answers the one header channel brought to the job.
MatchSound == Headers!MatchSound
=============================================================================
