----------------------------- MODULE MinerControl -----------------------------
(***************************************************************************)
(* Starting and stopping the lamp miner (miner/miner.go) and, with it, the *)
(* loop that takes headers verified by the police off an unbuffered        *)
(* channel (eth/backend.go).  The console starts and stops, the downloader *)
(* interrupts, and message handlers of the elephant protocol deliver       *)
(* headers while they believe that the node is mining.                     *)
(***************************************************************************)
EXTENDS Integers, Sequences

CONSTANTS
    Handler,    \* message goroutines
    MaxStarts,  \* bound: calls of StartMining
    MaxStops    \* bound: calls of StopMining

VARIABLES
    mining, canStart, shouldStart,  \* the atomics of the miner
    starters,   \* where each goroutine "go miner.Start" is
    update,     \* where Miner.update is
    console,    \* where the thread of the RPC calls is
    receiving,  \* number of loops verifiedHeaderPoolUpdate
    stopRcv,    \* stopRcvHeader is not nil
    handler,    \* where each message goroutine is
    stops       \* calls of StopMining

miner == <<mining, canStart, shouldStart>>
feed  == <<receiving, stopRcv>>
vars  == <<miner, feed, starters, update, console, handler, stops>>

Init ==
    /\ mining = FALSE /\ canStart = TRUE /\ shouldStart = FALSE
    /\ starters = <<>> /\ update = "wait" /\ console = "idle"
    /\ receiving = 0 /\ stopRcv = FALSE
    /\ handler = [h \in Handler |-> "idle"]
    /\ stops = 0

-----------------------------------------------------------------------------
(* Miner.Start, run by a goroutine of StartMining and by Miner.update.     *)

StartFlag == shouldStart' = TRUE /\ UNCHANGED <<mining, canStart>>

StartCheck ==
    /\ mining' = (mining \/ canStart)
    /\ UNCHANGED <<canStart, shouldStart>>

StarterFlag(i) ==
    /\ starters[i] = "flag"
    /\ StartFlag
    /\ starters' = [starters EXCEPT ![i] = "check"]
    /\ UNCHANGED <<feed, update, console, handler, stops>>

StarterCheck(i) ==
    /\ starters[i] = "check"
    /\ StartCheck
    /\ starters' = [starters EXCEPT ![i] = "end"]
    /\ UNCHANGED <<feed, update, console, handler, stops>>

-----------------------------------------------------------------------------
(* The console.                                                            *)

\* Mutant of StartReceive: a loop is started whether there is one or not.
StartReceiveAlways ==
    /\ receiving' = receiving + 1
    /\ stopRcv' = TRUE

StartReceive ==
    /\ receiving' = IF stopRcv THEN receiving ELSE receiving + 1
    /\ stopRcv' = TRUE

StartMining ==
    /\ console = "idle"
    /\ ~mining
    /\ Len(starters) < MaxStarts
    /\ starters' = Append(starters, "flag")
    /\ StartReceive
    /\ UNCHANGED <<miner, update, console, handler, stops>>

\* Miner.Stop, first the flag of the miner, then the one for after the sync.
StopMining ==
    /\ console = "idle"
    /\ stops < MaxStops
    /\ stops' = stops + 1
    /\ mining' = FALSE
    /\ console' = "flag"
    /\ UNCHANGED <<canStart, shouldStart, feed, starters, update, handler>>

StopFlag ==
    /\ console = "flag"
    /\ shouldStart' = FALSE
    /\ console' = IF stopRcv THEN "send" ELSE "idle"
    /\ UNCHANGED <<mining, canStart, feed, starters, update, handler, stops>>

\* The rendezvous on stopRcvHeader ends a loop.
StopReceive ==
    /\ console = "send"
    /\ receiving > 0
    /\ receiving' = receiving - 1
    /\ stopRcv' = FALSE
    /\ console' = "idle"
    /\ UNCHANGED <<miner, starters, update, handler, stops>>

-----------------------------------------------------------------------------
(* Miner.update: a synchronisation starts and ends once.                   *)

SyncStart ==
    /\ update = "wait"
    /\ canStart' = FALSE
    /\ update' = "mining"
    /\ UNCHANGED <<mining, shouldStart, feed, starters, console, handler, stops>>

SyncMining ==
    /\ update = "mining"
    /\ update' = IF mining THEN "stop" ELSE "sync"
    /\ UNCHANGED <<miner, feed, starters, console, handler, stops>>

SyncStop ==
    /\ update = "stop"
    /\ mining' = FALSE /\ shouldStart' = FALSE
    /\ update' = "should"
    /\ UNCHANGED <<canStart, feed, starters, console, handler, stops>>

SyncShould ==
    /\ update = "should"
    /\ shouldStart' = TRUE
    /\ update' = "sync"
    /\ UNCHANGED <<mining, canStart, feed, starters, console, handler, stops>>

SyncDone ==
    /\ update = "sync"
    /\ update' = IF shouldStart THEN "start" ELSE "end"
    /\ canStart' = TRUE /\ shouldStart' = FALSE
    /\ UNCHANGED <<mining, feed, starters, console, handler, stops>>

SyncRestart ==
    /\ update = "start"
    /\ StartFlag
    /\ update' = "check"
    /\ UNCHANGED <<feed, starters, console, handler, stops>>

SyncRestarted ==
    /\ update = "check"
    /\ StartCheck
    /\ update' = "end"
    /\ UNCHANGED <<feed, starters, console, handler, stops>>

-----------------------------------------------------------------------------
(* A handler of VerifiedHeaderMsg, or DeliverVerifiedResult.               *)

HandlerCheck(h) ==
    /\ handler[h] = "idle"
    /\ mining
    /\ handler' = [handler EXCEPT ![h] = "send"]
    /\ UNCHANGED <<miner, feed, starters, update, console, stops>>

\* The unbuffered channel needs a receiver.
HandlerSend(h) ==
    /\ handler[h] = "send"
    /\ receiving > 0
    /\ handler' = [handler EXCEPT ![h] = "idle"]
    /\ UNCHANGED <<miner, feed, starters, update, console, stops>>

Sync == SyncMining \/ SyncStop \/ SyncShould \/ SyncDone \/ SyncRestart \/ SyncRestarted

Next ==
    \/ StartMining \/ StopMining \/ StopFlag \/ StopReceive
    \/ SyncStart \/ Sync
    \/ \E i \in DOMAIN starters : StarterFlag(i) \/ StarterCheck(i)
    \/ \E h \in Handler : HandlerCheck(h) \/ HandlerSend(h)

\* Goroutines are scheduled and a synchronisation ends; nobody has to call
\* anything.
Spec ==
    /\ Init /\ [][Next]_vars
    /\ WF_vars(StopFlag \/ StopReceive) /\ WF_vars(Sync)
    /\ \A i \in 1..MaxStarts :
         WF_vars(i \in DOMAIN starters /\ (StarterFlag(i) \/ StarterCheck(i)))
    /\ \A h \in Handler : SF_vars(HandlerSend(h))

-----------------------------------------------------------------------------
\* Every variable has its type, and there is never a second receiving loop.
ControlTypeOK ==
    /\ mining \in BOOLEAN /\ canStart \in BOOLEAN /\ shouldStart \in BOOLEAN
    /\ starters \in Seq({"flag", "check", "end"})
    /\ update \in {"wait", "mining", "stop", "should", "sync", "start", "check", "end"}
    /\ console \in {"idle", "flag", "send"}
    /\ receiving \in 0..1 /\ stopRcv \in BOOLEAN
    /\ handler \in [Handler -> {"idle", "send"}]

\* StopMining returns, whatever handlers wait for the loop and whichever start
\* is under way: while it waits, the loop that takes its signal is there, and
\* there is never a second one, which would be left over.
StopFindsLoop == receiving <= 1 /\ (console = "send" => receiving = 1)

\* A header delivered by a handler that saw the node mining reaches the pool.
HeaderDelivered == \A h \in Handler : handler[h] = "send" ~> handler[h] = "idle"

\* Stop stops the miner: after it, until the next call of StartMining, the
\* node does not begin to mine.
StopLasts == [][console = "idle" /\ ~stopRcv /\ ~mining => ~mining']_vars
=============================================================================
