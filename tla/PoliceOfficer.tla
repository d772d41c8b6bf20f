--------------------------- MODULE PoliceOfficer ----------------------------
(***************************************************************************)
(* The police officer of the elephant chain (police/officer.go): message   *)
(* goroutines push batches of sharding transactions, update loops start a  *)
(* goroutine per batch, which verifies it, marks it complete and hands the *)
(* result on; the console starts and stops the officer.                    *)
(*                                                                         *)
(* The two mutexes and the bounded work channel are in the model, so that  *)
(* threads may wait for each other.  A batch is a record [shard, height,   *)
(* id]; whether its headers verify is a constant (PoliceHeaders looks into *)
(* the verification itself).                                               *)
(***************************************************************************)
EXTENDS Integers, Sequences, FiniteSets

CONSTANTS
    Batch,      \* batches that arrive, records with fields shard, height, id
    Valid,      \* those whose verification succeeds
    Pusher,     \* message goroutines
    Cap,        \* workSimultaneouslySize
    MaxCalls,   \* bound: calls of PushWork
    MaxStarts,  \* bound: calls of StartPoliceWorking
    MaxStops    \* bound: calls of StopPoliceWorking

Free    == "free"       \* an unlocked mutex
Console == "console"    \* the thread of the RPC calls Start and Stop

VARIABLES
    mu, currentMu,  \* who holds the mutex
    workCh,         \* the bounded channel of batches
    current,        \* hashes being verified
    completed,      \* hashes verified before
    highest,        \* highest[s]: greatest height completed in sharding s
    working,        \* the atomic counter
    ready,          \* readyToWork
    isWorking,      \* policeIsWorking, read and written without a lock
    push,           \* push[p]: program counter and batch of a pusher
    loops,          \* one record per update loop ever started
    jobs,           \* one record per goroutine work() ever started
    console,        \* where the RPC thread is
    starting,       \* goroutines "go police.Start" not run yet
    delivered,      \* results handed on, in order
    calls, starts, stops,
    panicked        \* a nil dereference has ended the process

threads == <<push, loops, jobs, console, starting>>
shared  == <<workCh, current, completed, highest, working, ready, isWorking>>
bounds  == <<calls, starts, stops>>
vars    == <<mu, currentMu, shared, threads, delivered, bounds, panicked>>

Shards == {b.shard : b \in Batch}

Init ==
    /\ mu = Free /\ currentMu = Free
    /\ workCh = <<>> /\ current = {} /\ completed = {}
    /\ highest = [s \in Shards |-> 0]
    /\ working = 0 /\ ready = 0 /\ isWorking = FALSE
    /\ push = [p \in Pusher |-> [pc |-> "idle"]]
    /\ loops = <<>> /\ jobs = <<>>
    /\ console = "idle" /\ starting = 0
    /\ delivered = <<>>
    /\ calls = 0 /\ starts = 0 /\ stops = 0
    /\ panicked = FALSE

-----------------------------------------------------------------------------
(* PushWork, called by the handler of ShardingTxMsg and by                 *)
(* DeliverShardingTxs while policeIsWorking.                               *)

CallPush(p) ==
    /\ push[p].pc = "idle"
    /\ isWorking
    /\ calls < MaxCalls
    /\ calls' = calls + 1
    /\ \E b \in Batch : push' = [push EXCEPT ![p] = [pc |-> "lock", b |-> b]]
    /\ UNCHANGED <<mu, currentMu, shared, loops, jobs, console, starting,
                   delivered, starts, stops, panicked>>

PushLock(p) ==
    /\ push[p].pc = "lock"
    /\ mu = Free
    /\ mu' = p
    /\ push' = [push EXCEPT ![p].pc = "check"]
    /\ UNCHANGED <<currentMu, shared, loops, jobs, console, starting, delivered,
                   bounds, panicked>>

\* Mutant of Refused: the batches being verified are not looked at.
RefusedCompleted(b) ==
    \/ b \in completed
    \/ \E c \in completed : c.shard = b.shard /\ c.height = b.height

\* A batch is refused when it is being verified, was verified, or another
\* batch of its height in its sharding was.
Refused(b) ==
    \/ b \in current
    \/ b \in completed
    \/ \E c \in completed : c.shard = b.shard /\ c.height = b.height

PushCheck(p) ==
    /\ push[p].pc = "check"
    /\ currentMu = Free
    /\ IF Refused(push[p].b)
       THEN /\ push' = [push EXCEPT ![p] = [pc |-> "idle"]]
            /\ mu' = Free
            /\ UNCHANGED currentMu
       ELSE /\ push' = [push EXCEPT ![p].pc = "send"]
            /\ currentMu' = p
            /\ UNCHANGED mu
    /\ UNCHANGED <<shared, loops, jobs, console, starting, delivered, bounds, panicked>>

\* The send blocks, with both mutexes held, while the channel is full.
PushSend(p) ==
    /\ push[p].pc = "send"
    /\ Len(workCh) < Cap
    /\ workCh' = Append(workCh, push[p].b)
    /\ current' = current \cup {push[p].b}
    /\ working' = working + 1
    /\ mu' = Free /\ currentMu' = Free
    /\ push' = [push EXCEPT ![p] = [pc |-> "idle"]]
    /\ UNCHANGED <<completed, highest, ready, isWorking, loops, jobs, console,
                   starting, delivered, bounds, panicked>>

-----------------------------------------------------------------------------
(* updateLoop.  Closing quitCurrentOp is left out: verify never looks at   *)
(* the channel it is given.                                                *)

LoopTake(l) ==
    /\ loops[l].pc = "select"
    /\ workCh # <<>>
    /\ loops' = [loops EXCEPT ![l] = [pc |-> "spawn", b |-> Head(workCh)]]
    /\ workCh' = Tail(workCh)
    /\ UNCHANGED <<mu, currentMu, current, completed, highest, working, ready,
                   isWorking, push, jobs, console, starting, delivered, bounds,
                   panicked>>

\* Mutant of LoopSpawn: the update loop keeps the mutex.
LoopSpawnLocked(l) ==
    /\ loops[l].pc = "spawn"
    /\ mu = Free
    /\ mu' = "loop"
    /\ jobs' = Append(jobs, [pc |-> "verify", b |-> loops[l].b])
    /\ loops' = [loops EXCEPT ![l] = [pc |-> "select"]]
    /\ UNCHANGED <<currentMu, shared, push, console, starting, delivered,
                   bounds, panicked>>

LoopSpawn(l) ==
    /\ loops[l].pc = "spawn"
    /\ mu = Free
    /\ jobs' = Append(jobs, [pc |-> "verify", b |-> loops[l].b])
    /\ loops' = [loops EXCEPT ![l] = [pc |-> "select"]]
    /\ UNCHANGED <<mu, currentMu, shared, push, console, starting, delivered,
                   bounds, panicked>>

LoopEnd(l) ==
    /\ loops[l].pc = "stop"
    /\ mu = Free
    /\ loops' = [loops EXCEPT ![l] = [pc |-> "end"]]
    /\ UNCHANGED <<mu, currentMu, shared, push, jobs, console, starting,
                   delivered, bounds, panicked>>

-----------------------------------------------------------------------------
(* work: verify, markComplete, hand over to wait().                        *)

\* A failed verification has no Match, and the warning about it reads its
\* fields.
JobVerify(j) ==
    /\ jobs[j].pc = "verify"
    /\ IF jobs[j].b \in Valid
       THEN jobs' = [jobs EXCEPT ![j].pc = "mark"] /\ UNCHANGED panicked
       ELSE panicked' = TRUE /\ UNCHANGED jobs
    /\ UNCHANGED <<mu, currentMu, shared, push, loops, console, starting,
                   delivered, bounds>>

\* First half of markComplete, under currentMu.
JobMark(j) ==
    /\ jobs[j].pc = "mark"
    /\ currentMu = Free
    /\ current' = current \ {jobs[j].b}
    /\ working' = working - 1
    /\ jobs' = [jobs EXCEPT ![j].pc = "store"]
    /\ UNCHANGED <<mu, currentMu, workCh, completed, highest, ready, isWorking,
                   push, loops, console, starting, delivered, bounds, panicked>>

\* Second half of markComplete, after the unlock.
JobStore(j) ==
    LET b == jobs[j].b
    IN  /\ jobs[j].pc = "store"
        /\ completed' = completed \cup {b}
        /\ highest' = [highest EXCEPT ![b.shard] = IF @ < b.height THEN b.height ELSE @]
        /\ jobs' = [jobs EXCEPT ![j].pc = "report"]
        /\ UNCHANGED <<mu, currentMu, workCh, current, working, ready, isWorking,
                       push, loops, console, starting, delivered, bounds, panicked>>

\* The unbuffered channel recv and wait(), which delivers and broadcasts.
JobReport(j) ==
    /\ jobs[j].pc = "report"
    /\ delivered' = Append(delivered, jobs[j].b)
    /\ jobs' = [jobs EXCEPT ![j].pc = "end"]
    /\ UNCHANGED <<mu, currentMu, shared, push, loops, console, starting,
                   bounds, panicked>>

-----------------------------------------------------------------------------
(* The console: PublicPoliceAPI.Start and Stop.                            *)

\* StartPoliceWorking runs Start in a goroutine of its own and sets the flag.
ConsoleStart ==
    /\ console = "idle"
    /\ starts < MaxStarts
    /\ starts' = starts + 1
    /\ ~isWorking
    /\ starting' = starting + 1
    /\ isWorking' = TRUE
    /\ UNCHANGED <<mu, currentMu, workCh, current, completed, highest, working,
                   ready, push, loops, jobs, console, delivered, calls, stops,
                   panicked>>

StartRuns ==
    /\ starting > 0
    /\ mu = Free
    /\ starting' = starting - 1
    /\ ready' = ready + 1
    /\ loops' = Append(loops, [pc |-> "select"])
    /\ UNCHANGED <<mu, currentMu, workCh, current, completed, highest, working,
                   isWorking, push, jobs, console, delivered, bounds, panicked>>

ConsoleStop ==
    /\ console = "idle"
    /\ stops < MaxStops
    /\ stops' = stops + 1
    /\ console' = "lock"
    /\ UNCHANGED <<mu, currentMu, shared, push, loops, jobs, starting, delivered,
                   calls, starts, panicked>>

\* Stop returns at once unless it can swap readyToWork from 1 to 0.
StopLock ==
    /\ console = "lock"
    /\ mu = Free
    /\ IF ready = 1
       THEN /\ mu' = Console /\ ready' = 0 /\ console' = "send"
            /\ UNCHANGED isWorking
       ELSE /\ console' = "idle" /\ isWorking' = FALSE
            /\ UNCHANGED <<mu, ready>>
    /\ UNCHANGED <<currentMu, workCh, current, completed, highest, working, push,
                   loops, jobs, starting, delivered, bounds, panicked>>

\* The rendezvous on the stop channel needs a loop in its select.
StopSend(l) ==
    /\ console = "send"
    /\ loops[l].pc = "select"
    /\ loops' = [loops EXCEPT ![l] = [pc |-> "stop"]]
    /\ console' = "drain"
    /\ UNCHANGED <<mu, currentMu, shared, push, jobs, starting, delivered,
                   bounds, panicked>>

StopDrain ==
    /\ console = "drain"
    /\ ready' = ready - 1
    /\ workCh' = <<>>
    /\ mu' = Free
    /\ console' = "idle"
    /\ isWorking' = FALSE
    /\ UNCHANGED <<currentMu, current, completed, highest, working, push, loops,
                   jobs, starting, delivered, bounds, panicked>>

-----------------------------------------------------------------------------
Officer ==
    \/ \E p \in Pusher : PushLock(p) \/ PushCheck(p) \/ PushSend(p)
    \/ \E l \in DOMAIN loops : LoopTake(l) \/ LoopSpawn(l) \/ LoopEnd(l) \/ StopSend(l)
    \/ \E j \in DOMAIN jobs :
          JobVerify(j) \/ JobMark(j) \/ JobStore(j) \/ JobReport(j)
    \/ StartRuns \/ StopLock \/ StopDrain

Calls == ConsoleStart \/ ConsoleStop \/ \E p \in Pusher : CallPush(p)

Next == ~panicked /\ (Officer \/ Calls)

Spec == Init /\ [][Next]_vars

\* Goroutines are scheduled and mutexes are fair (Go hands a contended mutex
\* over within a millisecond); nobody has to call anything.
FairSpec ==
    /\ Spec
    /\ \A p \in Pusher : SF_vars(~panicked /\ PushLock(p))
    /\ \A p \in Pusher : SF_vars(~panicked /\ PushCheck(p))
    /\ \A p \in Pusher : WF_vars(~panicked /\ PushSend(p))
    /\ \A l \in 1..MaxStarts :
         /\ WF_vars(~panicked /\ l \in DOMAIN loops /\ LoopTake(l))
         /\ SF_vars(~panicked /\ l \in DOMAIN loops /\ LoopSpawn(l))
         /\ SF_vars(~panicked /\ l \in DOMAIN loops /\ LoopEnd(l))
         /\ WF_vars(~panicked /\ l \in DOMAIN loops /\ StopSend(l))
    /\ \A j \in 1..MaxCalls :
         /\ WF_vars(~panicked /\ j \in DOMAIN jobs /\ JobVerify(j))
         /\ SF_vars(~panicked /\ j \in DOMAIN jobs /\ JobMark(j))
         /\ WF_vars(~panicked /\ j \in DOMAIN jobs /\ (JobStore(j) \/ JobReport(j)))
    /\ SF_vars(~panicked /\ StartRuns)
    /\ SF_vars(~panicked /\ StopLock)
    /\ WF_vars(~panicked /\ StopDrain)

-----------------------------------------------------------------------------
LoopState == [pc : {"select", "stop", "end"}] \cup [pc : {"spawn"}, b : Batch]
JobState  == [pc : {"verify", "mark", "store", "report", "end"}, b : Batch]
PushState == [pc : {"idle"}] \cup [pc : {"lock", "check", "send"}, b : Batch]

\* Every variable has its type; the work channel never exceeds its capacity.
OfficerTypeOK ==
    /\ mu \in Pusher \cup {Free, Console}
    /\ currentMu \in Pusher \cup {Free}
    /\ workCh \in Seq(Batch) /\ Len(workCh) <= Cap
    /\ current \subseteq Batch /\ completed \subseteq Batch
    /\ highest \in [Shards -> Nat]
    /\ working \in Int /\ ready \in Int /\ starting \in Nat
    /\ isWorking \in BOOLEAN /\ panicked \in BOOLEAN
    /\ push \in [Pusher -> PushState]
    /\ loops \in Seq(LoopState) /\ jobs \in Seq(JobState)
    /\ console \in {"idle", "lock", "send", "drain"}
    /\ delivered \in Seq(Batch)
    /\ calls \in 0..MaxCalls /\ starts \in 0..MaxStarts /\ stops \in 0..MaxStops

\* The places where batch b is on its way to being marked complete: in the
\* channel, taken by an update loop, or being verified.
InFlight(b) ==
    {<<"queue", k>> : k \in {k \in DOMAIN workCh : workCh[k] = b}}
    \cup {<<"loop", l>> : l \in {l \in DOMAIN loops :
                                   loops[l].pc = "spawn" /\ loops[l].b = b}}
    \cup {<<"job", j>> : j \in {j \in DOMAIN jobs :
                                  jobs[j].pc \in {"verify", "mark"} /\ jobs[j].b = b}}

\* No batch is verified twice at the same time, however many goroutines push
\* it and however many update loops run: whatever is on its way is in
\* current, and only once.  PushWork checks and appends under currentMu while
\* the batch travels through channel, loop and goroutine without it.
OneVerification ==
    \A b \in Batch : /\ Cardinality(InFlight(b)) <= 1
                     /\ InFlight(b) # {} => b \in current

\* No goroutine of the officer can take a step: whoever is not at its end waits
\* for a mutex, for room in the channel or for somebody to receive.
Stuck ==
    /\ \A p \in Pusher : /\ push[p].pc = "lock" => mu # Free
                         /\ push[p].pc = "check" => currentMu # Free
                         /\ push[p].pc = "send" => Len(workCh) >= Cap
    /\ \A l \in DOMAIN loops : /\ loops[l].pc = "select" => workCh = <<>> /\ console # "send"
                               /\ loops[l].pc \in {"spawn", "stop"} => mu # Free
    /\ \A j \in DOMAIN jobs : \/ jobs[j].pc = "end"
                              \/ jobs[j].pc = "mark" /\ currentMu # Free
    /\ starting > 0 => mu # Free
    /\ console = "lock" => mu # Free
    /\ console # "drain"

\* A full channel is the only thing the officer's goroutines can end up waiting
\* for: unless PushWork hangs on it with both mutexes held, every call of
\* PushWork returns, and every batch it accepted is verified, marked and handed
\* on by the time nothing moves any more.  A stop may throw batches away.
AcceptedReported ==
    stops = 0 /\ Stuck =>
        \/ \E p \in Pusher : push[p].pc = "send" /\ Len(workCh) = Cap
        \/ /\ \A p \in Pusher : push[p].pc = "idle"
           /\ \A b \in current \cup completed : \E k \in DOMAIN delivered : delivered[k] = b

\* The handler of ShardingTxMsg goes on to deliver the batches to the
\* transaction pool: a call of PushWork returns.
PushReturns == \A p \in Pusher : push[p].pc # "idle" ~> push[p].pc = "idle"

\* Stop returns early only because the officer is already stopped.
AlreadyStopped ==
    [][console = "lock" /\ console' = "idle" =>
         \A l \in DOMAIN loops : loops[l].pc \in {"stop", "end"}]_vars

\* Stop empties the work channel: a console that calls Stop gets that far.
StopEmpties == console = "lock" ~> console = "idle"

\* completed stores the work done before, so a batch is reported once.
ReportedOnce ==
    \A k, m \in DOMAIN delivered : delivered[k] = delivered[m] => k = m

\* A failed verification is logged and the goroutine goes on.
FailureLogged == ~panicked
=============================================================================
