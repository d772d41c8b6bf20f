--------------------------- MODULE LampElections ----------------------------
(***************************************************************************)
(* What the election blocks of the lamp chain are made of: the verified    *)
(* headers (VerifiedHeaders), the elections (ElectionPool), and the miner  *)
(* that is started and stopped (MinerControl).                             *)
(***************************************************************************)
EXTENDS VerifiedHeaders

CONSTANTS
    Handler, MaxStarts, MaxStops,
    Node, Election, Genesis, Period, Slots, MinLen, MaxRestart, MaxRefused

VARIABLES
    eChain, head, ePending, all, journal, eWork, import, event, invalid, restarts, refusals,
    mining, canStart, shouldStart, starters, update, console, receiving, stopRcv, handler, stops

evars == <<eChain, head, ePending, all, journal, eWork, import, event, invalid, restarts, refusals>>
mvars == <<mining, canStart, shouldStart, starters, update, console, receiving, stopRcv, handler, stops>>

\* The election pools; their chain, pool and work are other variables.
Elections == INSTANCE ElectionPool WITH chain <- eChain, pending <- ePending, work <- eWork

\* The miner and its loop.
Control == INSTANCE MinerControl

\* What is pending in an election pool is in the journal on disk, so that a
\* restart finds it, through loading, rotation and clearing (election_pool.go).
JournalKeeps == Elections!JournalKeeps

\* While StopMining waits, the one loop that takes its signal is there
\* (eth/backend.go).
StopFindsLoop == Control!StopFindsLoop
=============================================================================
