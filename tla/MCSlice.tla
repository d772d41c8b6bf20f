------------------------------ MODULE MCSlice -------------------------------
(***************************************************************************)
(* SliceSync for TLC: two farmers and two slices, in four scenarios with   *)
(* bounds of their own.                                                    *)
(***************************************************************************)
EXTENDS TLC

CONSTANTS Farmer, s1, s2

VARIABLES disk, prog, queue, cache, known, syncing, halfway, req, msgs,
          client, acked, faults, scene

Slice == {s1, s2}

\* Two slices are written, and nothing goes wrong.
Calm == INSTANCE SliceSync WITH WriteCheckCount <- 1, MaxWrites <- 3,
  MaxLoss <- 0, MaxCrash <- 0, MaxReopen <- 0, Allowed <- {}
\* A message is lost, a farmer restarts and the client opens the object again.
Faulty == INSTANCE SliceSync WITH WriteCheckCount <- 1, MaxWrites <- 3,
  MaxLoss <- 1, MaxCrash <- 1, MaxReopen <- 1, Allowed <- {}
\* Handlers are interrupted between two disk accesses.
Interrupted == INSTANCE SliceSync WITH WriteCheckCount <- 1, MaxWrites <- 2,
  MaxLoss <- 0, MaxCrash <- 0, MaxReopen <- 0, Allowed <- {"slowSign", "slowCopy"}
\* Every write goes to both farmers, and a reply may come too late.
Pair == INSTANCE SliceSync WITH WriteCheckCount <- 2, MaxWrites <- 3,
  MaxLoss <- 0, MaxCrash <- 0, MaxReopen <- 1, Allowed <- {"lateReply"}

MCInit == Calm!Init /\ scene \in {"calm", "faulty", "slow", "pair"}

MCNext ==
  /\ \/ scene = "calm" /\ Calm!Next
     \/ scene = "faulty" /\ Faulty!Next
     \/ scene = "slow" /\ Interrupted!Next
     \/ scene = "pair" /\ Pair!Next
  /\ scene # "calm" => client'.call.slice # s2    \* bound: one slice written
  /\ UNCHANGED scene

CalmWork == scene = "calm" /\ Calm!Work /\ UNCHANGED scene

\* What MCStorage checks of the scenarios.
WritesSpread  == Calm!AckedSpreads
OpIdIsContent == scene = "faulty" => Faulty!SameContent /\ Faulty!ReadsAcked
WritesKept    == scene \in {"slow", "pair"} => Calm!AckedKept
=============================================================================
