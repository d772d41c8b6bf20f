---------------------------- MODULE PoliceProofs ----------------------------
(***************************************************************************)
(* No batch is verified twice at the same time, for every number of        *)
(* pushing goroutines, update loops and batches and every capacity.        *)
(*                                                                         *)
(* A batch travels from the channel to an update loop to a goroutine work, *)
(* and the loop and the hand-over take no lock that PushWork holds.  What  *)
(* is inductive is that it is in one of these places and, as long as it    *)
(* is, in current; and that the batch PushWork is about to send is not in  *)
(* current, which only the holder of currentMu can keep.                   *)
(*                                                                         *)
(* A full channel is the only thing its goroutines can end up waiting for: *)
(* who holds a mutex is a pusher that goes on, unless it sends, and there  *)
(* is an update loop for what is in the channel.                           *)
(*                                                                         *)
(* And a match lists the ancestors of the batch's header, for every number *)
(* of jobs and peers and whatever answers a job has taken from the channel *)
(* (PoliceHeaders).                                                        *)
(***************************************************************************)
EXTENDS Police, WellFoundedInduction, FiniteSetTheorems, SequenceTheorems, TLAPS

\* A mutex is held by a goroutine or by nobody; the bounds are numbers.
OfficerConstants ==
    /\ Pusher \cap {Free, Console} = {}
    /\ \A b \in Batch : b.height \in Nat
    /\ Cap \in Nat /\ MaxCalls \in Nat /\ MaxStarts \in Nat /\ MaxStops \in Nat

\* The parts of a batch's way: in the channel, with an update loop, with a
\* goroutine that verifies it or is about to mark it.
Spawning(l)  == loops[l].pc = "spawn"
Verifying(j) == jobs[j].pc \in {"verify", "mark"}

\* A batch is in one of these places at most.
QueueOnce == \A k, m \in DOMAIN workCh : workCh[k] = workCh[m] => k = m
LoopOnce  == \A l, m \in DOMAIN loops : Spawning(l) /\ Spawning(m) /\ loops[l].b = loops[m].b => l = m
JobOnce   == \A j, m \in DOMAIN jobs : Verifying(j) /\ Verifying(m) /\ jobs[j].b = jobs[m].b => j = m
QueueLoop == \A k \in DOMAIN workCh, l \in DOMAIN loops : Spawning(l) => workCh[k] # loops[l].b
QueueJob  == \A k \in DOMAIN workCh, j \in DOMAIN jobs : Verifying(j) => workCh[k] # jobs[j].b
LoopJob   == \A l \in DOMAIN loops, j \in DOMAIN jobs : Spawning(l) /\ Verifying(j) => loops[l].b # jobs[j].b

\* What is on its way is in current.
InCurrent ==
    /\ \A k \in DOMAIN workCh : workCh[k] \in current
    /\ \A l \in DOMAIN loops : Spawning(l) => loops[l].b \in current
    /\ \A j \in DOMAIN jobs : Verifying(j) => jobs[j].b \in current

\* A goroutine that is about to send holds currentMu, and its batch is new.
SendHolds == \A p \in Pusher : push[p].pc = "send" => currentMu = p /\ push[p].b \notin current

\* The inductive invariant: one place for each batch, and a lock for each send.
WayInv == QueueOnce /\ LoopOnce /\ JobOnce /\ QueueLoop /\ QueueJob /\ LoopJob /\ InCurrent
OfficerInv == OfficerTypeOK /\ WayInv /\ SendHolds

-----------------------------------------------------------------------------
\* Nothing is on its way in the beginning.
LEMMA OfficerInit == ASSUME OfficerConstants, Init PROVE OfficerInv
<1>1. OfficerTypeOK
  <2>1. push \in [Pusher -> PushState]
    BY DEF Init, PushState
  <2>2. <<>> \in Seq(Batch) /\ <<>> \in Seq(LoopState) /\ <<>> \in Seq(JobState) /\ Len(<<>>) = 0
    BY EmptySeq
  <2>3. highest \in [Shards -> Nat] /\ calls \in 0..MaxCalls /\ starts \in 0..MaxStarts /\ stops \in 0..MaxStops
    BY DEF Init, OfficerConstants
  <2>4. isWorking \in BOOLEAN /\ panicked \in BOOLEAN
    BY Zenon DEF Init
  <2>5. workCh \in Seq(Batch) /\ Len(workCh) <= Cap
    BY <2>2 DEF Init, OfficerConstants
  <2>6. loops \in Seq(LoopState) /\ jobs \in Seq(JobState) /\ delivered \in Seq(Batch)
    BY <2>2 DEF Init
  <2>7. /\ working \in Int /\ ready \in Int /\ starting \in Nat /\ current \subseteq Batch /\ completed \subseteq Batch
        /\ mu \in Pusher \cup {Free, Console} /\ currentMu \in Pusher \cup {Free}
        /\ console \in {"idle", "lock", "send", "drain"}
    BY DEF Init
  <2> QED
    BY <2>1, <2>3, <2>4, <2>5, <2>6, <2>7 DEF OfficerTypeOK
<1>2. WayInv
  BY DEF Init, WayInv, QueueOnce, LoopOnce, JobOnce, QueueLoop, QueueJob, LoopJob, InCurrent
<1>3. SendHolds
  BY DEF Init, SendHolds
<1> QED
  BY <1>1, <1>2, <1>3 DEF OfficerInv

\* What a pusher, a loop and a goroutine work are, by their program counter.
LEMMA OfficerRecords ==
    ASSUME OfficerTypeOK
    PROVE  /\ \A p \in Pusher : push[p] \in PushState /\ (push[p].pc # "idle" => push[p].b \in Batch)
           /\ \A l \in DOMAIN loops : loops[l] \in LoopState /\ (Spawning(l) => loops[l].b \in Batch)
           /\ \A j \in DOMAIN jobs : jobs[j] \in JobState /\ jobs[j].b \in Batch
           /\ \A k \in DOMAIN workCh : workCh[k] \in Batch
           /\ DOMAIN loops = 1..Len(loops) /\ Len(loops) \in Nat
           /\ DOMAIN jobs = 1..Len(jobs) /\ Len(jobs) \in Nat
           /\ DOMAIN workCh = 1..Len(workCh) /\ Len(workCh) \in Nat
<1>1. \A p \in Pusher : push[p] \in PushState /\ (push[p].pc # "idle" => push[p].b \in Batch)
  BY DEF OfficerTypeOK, PushState
<1>2. \A l \in DOMAIN loops : loops[l] \in LoopState /\ (Spawning(l) => loops[l].b \in Batch)
  BY DEF OfficerTypeOK, LoopState, Spawning
<1>3. \A j \in DOMAIN jobs : jobs[j] \in JobState /\ jobs[j].b \in Batch
  <2>1. \A j \in DOMAIN jobs : jobs[j] \in JobState
    BY DEF OfficerTypeOK
  <2> QED
    BY <2>1 DEF JobState
<1>4. \A k \in DOMAIN workCh : workCh[k] \in Batch
  BY DEF OfficerTypeOK
<1> QED
  BY <1>1, <1>2, <1>3, <1>4 DEF OfficerTypeOK

\* The steps of a pusher before it sends.
LEMMA PushKeeps ==
    ASSUME OfficerConstants, OfficerInv, NEW p \in Pusher, CallPush(p) \/ PushLock(p) \/ PushCheck(p)
    PROVE  OfficerInv'
<1> USE OfficerRecords DEF OfficerInv
<1>1. UNCHANGED <<workCh, current, completed, highest, working, ready, isWorking, loops, jobs,
                  console, starting, delivered, panicked>>
  BY DEF CallPush, PushLock, PushCheck, shared
<1>2. WayInv'
  BY <1>1 DEF WayInv, QueueOnce, LoopOnce, JobOnce, QueueLoop, QueueJob, LoopJob, InCurrent,
              Spawning, Verifying
<1>3. /\ push' \in [Pusher -> PushState]
      /\ \A q \in Pusher : q # p => push'[q] = push[q]
      /\ push'[p].pc = "send" => PushCheck(p) /\ push'[p].b = push[p].b
  <2>1. push \in [Pusher -> PushState] /\ push[p] \in PushState
    BY DEF OfficerTypeOK
  <2>2. \/ push' = [push EXCEPT ![p] = [pc |-> "idle"]]
        \/ \E b \in Batch : push' = [push EXCEPT ![p] = [pc |-> "lock", b |-> b]]
        \/ /\ push[p].pc \in {"lock", "check"}
           /\ \/ push' = [push EXCEPT ![p] = [push[p] EXCEPT !.pc = "check"]]
              \/ push' = [push EXCEPT ![p] = [push[p] EXCEPT !.pc = "send"]] /\ PushCheck(p)
    BY <2>1 DEF CallPush, PushLock, PushCheck
  <2>3. [pc |-> "idle"] \in PushState /\ \A b \in Batch : [pc |-> "lock", b |-> b] \in PushState
    BY DEF PushState
  <2>4. ASSUME push[p].pc \in {"lock", "check"}, NEW c \in {"check", "send"}
        PROVE  /\ [push[p] EXCEPT !.pc = c] \in PushState
               /\ [push[p] EXCEPT !.pc = c].pc = c /\ [push[p] EXCEPT !.pc = c].b = push[p].b
    BY <2>1, <2>4 DEF PushState
  <2>5. CASE push' = [push EXCEPT ![p] = [pc |-> "idle"]]
    BY <2>1, <2>3, <2>5
  <2>6. CASE \E b \in Batch : push' = [push EXCEPT ![p] = [pc |-> "lock", b |-> b]]
    BY <2>1, <2>3, <2>6
  <2>7. ASSUME push[p].pc \in {"lock", "check"}, NEW c \in {"check", "send"}, c = "send" => PushCheck(p),
               push' = [push EXCEPT ![p] = [push[p] EXCEPT !.pc = c]]
        PROVE  /\ push' \in [Pusher -> PushState]
               /\ \A q \in Pusher : q # p => push'[q] = push[q]
               /\ push'[p].pc = "send" => PushCheck(p) /\ push'[p].b = push[p].b
    <3>1. push'[p] = [push[p] EXCEPT !.pc = c]
      BY <2>1, <2>7
    <3>2. /\ push' \in [Pusher -> PushState]
          /\ \A q \in Pusher : q # p => push'[q] = push[q]
      BY <2>1, <2>4, <2>7
    <3> QED
      BY <2>4, <2>7, <3>1, <3>2
  <2> QED
    BY <2>2, <2>5, <2>6, <2>7
<1>4. /\ mu' \in Pusher \cup {Free, Console} /\ currentMu' \in Pusher \cup {Free}
      /\ calls' \in 0..MaxCalls /\ starts' = starts /\ stops' = stops
  BY DEF CallPush, PushLock, PushCheck, OfficerTypeOK, OfficerConstants, bounds
<1>5. OfficerTypeOK'
  BY <1>1, <1>3, <1>4 DEF OfficerTypeOK
<1>6. SendHolds'
  <2>1. CASE CallPush(p) \/ PushLock(p)
    BY <1>1, <1>3, <2>1 DEF SendHolds, CallPush, PushLock, OfficerTypeOK, PushState
  <2>2. CASE PushCheck(p)
    <3>1. currentMu = Free /\ \A q \in Pusher : q # Free
      BY <2>2 DEF PushCheck, OfficerConstants
    <3>2. \A q \in Pusher : push[q].pc # "send"
      BY <3>1 DEF SendHolds
    <3>3. push'[p].pc = "send" => currentMu' = p /\ push'[p].b \notin current
      <4>1. ~Refused(push[p].b) => push[p].b \notin current
        BY DEF Refused
      <4>2. Refused(push[p].b) => push'[p].pc = "idle"
        BY <2>2 DEF PushCheck, OfficerTypeOK
      <4>3. ~Refused(push[p].b) => currentMu' = p
        BY <2>2 DEF PushCheck
      <4> QED
        BY <1>3, <4>1, <4>2, <4>3
    <3> QED
      BY <1>1, <1>3, <3>2, <3>3 DEF SendHolds
  <2> QED
    BY <2>1, <2>2
<1> QED
  BY <1>2, <1>5, <1>6

\* PushSend: the batch was in no place, as it was not in current.
LEMMA SendKeeps ==
    ASSUME OfficerConstants, OfficerInv, NEW p \in Pusher, PushSend(p)
    PROVE  OfficerInv'
<1> USE OfficerRecords DEF OfficerInv
<1> DEFINE b == push[p].b
<1>1. b \in Batch /\ b \notin current /\ currentMu = p
  BY DEF PushSend, SendHolds
<1>2. /\ workCh' \in Seq(Batch) /\ Len(workCh') = Len(workCh) + 1
      /\ \A k \in 1..Len(workCh) : workCh'[k] = workCh[k]
      /\ workCh'[Len(workCh) + 1] = b
      /\ DOMAIN workCh' = 1..(Len(workCh) + 1)
      /\ Len(workCh) < Cap
  BY <1>1, AppendProperties DEF PushSend, OfficerTypeOK
<1>3. /\ current' = current \cup {b}
      /\ UNCHANGED <<completed, highest, ready, isWorking, loops, jobs, console, starting,
                     delivered, calls, starts, stops, panicked>>
      /\ mu' = Free /\ currentMu' = Free /\ working' = working + 1
      /\ push' = [push EXCEPT ![p] = [pc |-> "idle"]]
  BY DEF PushSend, bounds
<1>4. OfficerTypeOK'
  BY <1>1, <1>2, <1>3 DEF OfficerTypeOK, OfficerConstants, PushState
<1>5. SendHolds'
  BY <1>1, <1>3 DEF SendHolds, OfficerTypeOK
<1> HIDE DEF b
<1>6. LoopOnce' /\ JobOnce' /\ LoopJob'
  BY <1>3 DEF WayInv, LoopOnce, JobOnce, LoopJob, Spawning, Verifying
<1>7. QueueOnce'
  BY <1>1, <1>2 DEF WayInv, QueueOnce, InCurrent
<1>8. QueueLoop' /\ QueueJob'
  <2>1. \A k \in DOMAIN workCh' : (k \in DOMAIN workCh /\ workCh'[k] = workCh[k]) \/ workCh'[k] = b
    BY <1>2
  <2>2. QueueLoop'
    BY <1>1, <1>3, <2>1 DEF WayInv, QueueLoop, InCurrent, Spawning
  <2>3. QueueJob'
    BY <1>1, <1>3, <2>1 DEF WayInv, QueueJob, InCurrent, Verifying
  <2> QED
    BY <2>2, <2>3
<1>9. InCurrent'
  BY <1>1, <1>2, <1>3 DEF WayInv, InCurrent, Spawning, Verifying
<1> QED
  BY <1>4, <1>5, <1>6, <1>7, <1>8, <1>9 DEF WayInv

\* LoopTake: the batch leaves the channel, in which it was once.
LEMMA TakeKeeps ==
    ASSUME OfficerConstants, OfficerInv, NEW x \in DOMAIN loops, LoopTake(x)
    PROVE  OfficerInv'
<1> USE OfficerRecords DEF OfficerInv
<1> DEFINE b == workCh[1]
<1>1. /\ workCh # <<>> /\ Len(workCh) \in Nat \ {0} /\ b = Head(workCh) /\ b \in Batch
      /\ workCh' = Tail(workCh) /\ loops' = [loops EXCEPT ![x] = [pc |-> "spawn", b |-> b]]
      /\ ~Spawning(x)
  BY EmptySeq DEF LoopTake, OfficerTypeOK, Spawning
<1>2. /\ workCh' \in Seq(Batch) /\ Len(workCh') = Len(workCh) - 1
      /\ DOMAIN workCh' = 1..(Len(workCh) - 1)
      /\ \A k \in 1..(Len(workCh) - 1) : workCh'[k] = workCh[k + 1]
  BY <1>1, HeadTailProperties DEF OfficerTypeOK
<1>3. UNCHANGED <<mu, currentMu, current, completed, highest, working, ready, isWorking, push, jobs,
                  console, starting, delivered, calls, starts, stops, panicked>>
  BY DEF LoopTake, bounds
<1>4. /\ loops' \in Seq(LoopState) /\ DOMAIN loops' = DOMAIN loops
      /\ loops'[x].pc = "spawn" /\ loops'[x].b = b
      /\ \A l \in DOMAIN loops : l # x => loops'[l] = loops[l]
  BY <1>1, ExceptSeq DEF OfficerTypeOK, LoopState
<1>5. OfficerTypeOK'
  BY <1>2, <1>3, <1>4 DEF OfficerTypeOK, OfficerConstants
<1>6. SendHolds'
  BY <1>3 DEF SendHolds
<1>7. 1 \in DOMAIN workCh /\ \A k \in DOMAIN workCh' : k + 1 \in DOMAIN workCh /\ k + 1 # 1
  BY <1>1, <1>2
<1> HIDE DEF b
<1>8. b = workCh[1]
  BY DEF b
<1>9. QueueOnce' /\ JobOnce'
  <2>1. QueueOnce'
    BY <1>2, <1>7 DEF WayInv, QueueOnce
  <2>2. JobOnce'
    BY <1>3 DEF WayInv, JobOnce, Verifying
  <2> QED
    BY <2>1, <2>2
<1>10. LoopOnce'
  BY <1>4, <1>7, <1>8 DEF WayInv, LoopOnce, QueueLoop, Spawning
<1>11. QueueLoop'
  <2> SUFFICES ASSUME NEW k \in DOMAIN workCh', NEW l \in DOMAIN loops, Spawning(l)'
               PROVE  workCh'[k] # loops'[l].b
    BY <1>4 DEF QueueLoop
  <2>1. workCh'[k] = workCh[k + 1] /\ k + 1 \in DOMAIN workCh /\ k + 1 # 1
    BY <1>2, <1>7
  <2> QED
    BY <1>4, <1>7, <1>8, <2>1 DEF WayInv, QueueOnce, QueueLoop, Spawning
<1>12. QueueJob'
  BY <1>2, <1>3, <1>7 DEF WayInv, QueueJob, Verifying
<1>13. LoopJob'
  BY <1>3, <1>4, <1>7, <1>8 DEF WayInv, LoopJob, QueueJob, Spawning, Verifying
<1>14. InCurrent'
  BY <1>2, <1>3, <1>4, <1>7, <1>8 DEF WayInv, InCurrent, Spawning, Verifying
<1> QED
  BY <1>5, <1>6, <1>9, <1>10, <1>11, <1>12, <1>13, <1>14 DEF WayInv

\* LoopSpawn: the batch goes from the loop to a new goroutine.
LEMMA SpawnKeeps ==
    ASSUME OfficerConstants, OfficerInv, NEW x \in DOMAIN loops, LoopSpawn(x)
    PROVE  OfficerInv'
<1> USE OfficerRecords DEF OfficerInv
<1> DEFINE b == loops[x].b
           n == Len(jobs) + 1
<1>1. Spawning(x) /\ b \in Batch /\ [pc |-> "verify", b |-> b] \in JobState
  BY DEF LoopSpawn, Spawning, JobState
<1>2. /\ jobs' \in Seq(JobState) /\ DOMAIN jobs' = 1..n
      /\ \A j \in DOMAIN jobs : jobs'[j] = jobs[j]
      /\ jobs'[n].b = b
  BY <1>1, AppendProperties DEF LoopSpawn, OfficerTypeOK
<1>3. /\ loops' \in Seq(LoopState) /\ DOMAIN loops' = DOMAIN loops
      /\ loops'[x].pc = "select"
      /\ \A l \in DOMAIN loops : l # x => loops'[l] = loops[l]
  BY ExceptSeq DEF LoopSpawn, OfficerTypeOK, LoopState
<1>4. UNCHANGED <<mu, currentMu, workCh, current, completed, highest, working, ready, isWorking, push,
                  console, starting, delivered, calls, starts, stops, panicked>>
  BY DEF LoopSpawn, shared, bounds
<1>5. OfficerTypeOK'
  BY <1>2, <1>3, <1>4 DEF OfficerTypeOK
<1>6. SendHolds'
  BY <1>4 DEF SendHolds
<1>7. \A j \in DOMAIN jobs' : j = n \/ (j \in DOMAIN jobs /\ jobs'[j] = jobs[j])
  BY <1>2
<1>8. ~Spawning(x)' /\ \A l \in DOMAIN loops : l # x => (Spawning(l)' <=> Spawning(l))
  BY <1>3 DEF Spawning
<1>9. \A j \in DOMAIN jobs : Verifying(j)' <=> Verifying(j)
  BY <1>2 DEF Verifying
<1> HIDE DEF b, n
<1>10. b = loops[x].b
  BY DEF b
<1>11. QueueOnce' /\ QueueLoop' /\ LoopOnce'
  BY <1>3, <1>4, <1>8 DEF WayInv, QueueOnce, QueueLoop, LoopOnce
<1>12. JobOnce'
  BY <1>1, <1>2, <1>7, <1>9, <1>10 DEF WayInv, JobOnce, LoopJob
<1>13. QueueJob'
  BY <1>1, <1>2, <1>4, <1>7, <1>9, <1>10 DEF WayInv, QueueJob, QueueLoop
<1>14. LoopJob'
  BY <1>1, <1>2, <1>3, <1>7, <1>8, <1>9, <1>10 DEF WayInv, LoopJob, LoopOnce
<1>15. InCurrent'
  BY <1>1, <1>2, <1>3, <1>4, <1>7, <1>8, <1>9, <1>10 DEF WayInv, InCurrent
<1> QED
  BY <1>5, <1>6, <1>11, <1>12, <1>13, <1>14, <1>15 DEF WayInv

\* A step that changes one goroutine work, which does not begin to verify.
LEMMA JobMoves ==
    ASSUME WayInv, NEW x \in DOMAIN jobs, UNCHANGED <<workCh, loops>>,
           DOMAIN jobs' = DOMAIN jobs,
           \A j \in DOMAIN jobs : j # x => jobs'[j] = jobs[j],
           jobs'[x].b = jobs[x].b, Verifying(x)' => Verifying(x)
    PROVE  QueueOnce' /\ LoopOnce' /\ JobOnce' /\ QueueLoop' /\ QueueJob' /\ LoopJob'
<1>1. \A j \in DOMAIN jobs : (Verifying(j)' => Verifying(j)) /\ jobs'[j].b = jobs[j].b
  BY DEF Verifying
<1>2. QueueOnce' /\ LoopOnce' /\ QueueLoop'
  BY DEF WayInv, QueueOnce, LoopOnce, QueueLoop, Spawning
<1>3. JobOnce'
  BY <1>1 DEF WayInv, JobOnce
<1>4. QueueJob' /\ LoopJob'
  BY <1>1 DEF WayInv, QueueJob, LoopJob, Spawning
<1> QED
  BY <1>2, <1>3, <1>4

\* JobVerify, JobStore and JobReport leave current alone.
LEMMA JobKeeps ==
    ASSUME OfficerConstants, OfficerInv, NEW x \in DOMAIN jobs,
           JobVerify(x) \/ JobStore(x) \/ JobReport(x)
    PROVE  OfficerInv'
<1> USE OfficerRecords DEF OfficerInv
<1>1. /\ jobs[x] \in JobState
      /\ jobs' = jobs \/ \E c \in {"mark", "report", "end"} :
                            /\ jobs' = [jobs EXCEPT ![x] = [jobs[x] EXCEPT !.pc = c]]
                            /\ c = "mark" => Verifying(x)
  BY DEF JobVerify, JobStore, JobReport, Verifying
<1>2. /\ jobs' \in Seq(JobState) /\ DOMAIN jobs' = DOMAIN jobs
      /\ \A j \in DOMAIN jobs : j # x => jobs'[j] = jobs[j]
      /\ jobs'[x].b = jobs[x].b /\ (Verifying(x)' => Verifying(x))
  <2>1. CASE jobs' = jobs
    BY <2>1 DEF OfficerTypeOK, Verifying
  <2>2. ASSUME NEW c \in {"mark", "report", "end"}, c = "mark" => Verifying(x),
               jobs' = [jobs EXCEPT ![x] = [jobs[x] EXCEPT !.pc = c]]
        PROVE  /\ jobs' \in Seq(JobState) /\ DOMAIN jobs' = DOMAIN jobs
               /\ \A j \in DOMAIN jobs : j # x => jobs'[j] = jobs[j]
               /\ jobs'[x].b = jobs[x].b /\ (Verifying(x)' => Verifying(x))
    <3>1. /\ [jobs[x] EXCEPT !.pc = c] \in JobState
          /\ [jobs[x] EXCEPT !.pc = c].pc = c /\ [jobs[x] EXCEPT !.pc = c].b = jobs[x].b
      BY <1>1 DEF JobState
    <3>2. jobs' \in Seq(JobState) /\ DOMAIN jobs' = DOMAIN jobs
      BY <2>2, <3>1, ExceptSeq DEF OfficerTypeOK
    <3>3. /\ \A j \in DOMAIN jobs : j # x => jobs'[j] = jobs[j]
          /\ jobs'[x] = [jobs[x] EXCEPT !.pc = c]
      BY <2>2
    <3> QED
      BY <2>2, <3>1, <3>2, <3>3 DEF Verifying
  <2> QED
    BY <1>1, <2>1, <2>2
<1>3. UNCHANGED <<mu, currentMu, workCh, current, working, ready, isWorking, push, loops,
                  console, starting, calls, starts, stops>>
  BY DEF JobVerify, JobStore, JobReport, shared, bounds
<1>4. completed' \subseteq Batch /\ panicked' \in BOOLEAN
  BY DEF JobVerify, JobStore, JobReport, shared, OfficerTypeOK
<1>5. highest' \in [Shards -> Nat]
  BY DEF JobVerify, JobStore, JobReport, shared, OfficerTypeOK, OfficerConstants, Shards
<1>6. delivered' \in Seq(Batch)
  <2>1. delivered' = delivered \/ delivered' = Append(delivered, jobs[x].b)
    BY DEF JobVerify, JobStore, JobReport
  <2>2. jobs[x].b \in Batch /\ delivered \in Seq(Batch)
    BY DEF OfficerTypeOK
  <2>3. Append(delivered, jobs[x].b) \in Seq(Batch)
    BY <2>2, AppendProperties
  <2> QED
    BY <2>1, <2>2, <2>3
<1>7. OfficerTypeOK'
  BY <1>2, <1>3, <1>4, <1>5, <1>6 DEF OfficerTypeOK
<1>8. SendHolds'
  BY <1>3 DEF SendHolds
<1>9. InCurrent'
  BY <1>2, <1>3 DEF WayInv, InCurrent, Spawning, Verifying
<1> QED
  BY <1>2, <1>3, <1>7, <1>8, <1>9, JobMoves DEF WayInv

\* JobMark: the batch leaves current and its last place at once.
LEMMA MarkKeeps ==
    ASSUME OfficerConstants, OfficerInv, NEW x \in DOMAIN jobs, JobMark(x)
    PROVE  OfficerInv'
<1> USE OfficerRecords DEF OfficerInv
<1> DEFINE b == jobs[x].b
<1>1. jobs[x] \in JobState /\ Verifying(x) /\ jobs' = [jobs EXCEPT ![x] = [jobs[x] EXCEPT !.pc = "store"]]
  BY DEF JobMark, Verifying
<1>2. /\ jobs' \in Seq(JobState) /\ DOMAIN jobs' = DOMAIN jobs
      /\ \A j \in DOMAIN jobs : j # x => jobs'[j] = jobs[j]
      /\ jobs'[x].b = b /\ ~Verifying(x)'
  BY <1>1, ExceptSeq DEF OfficerTypeOK, JobState, Verifying
<1>3. /\ UNCHANGED <<mu, currentMu, workCh, completed, highest, ready, isWorking, push, loops,
                     console, starting, delivered, calls, starts, stops, panicked>>
      /\ current' = current \ {b} /\ working' = working - 1
  BY DEF JobMark, bounds
<1>4. OfficerTypeOK'
  BY <1>2, <1>3 DEF OfficerTypeOK
<1>5. SendHolds'
  BY <1>3 DEF SendHolds
<1>6. InCurrent'
  <2>1. \A k \in DOMAIN workCh : workCh[k] # b
    BY <1>1 DEF WayInv, QueueJob
  <2>2. \A l \in DOMAIN loops : Spawning(l) => loops[l].b # b
    BY <1>1 DEF WayInv, LoopJob
  <2>3. \A j \in DOMAIN jobs : Verifying(j)' => j # x /\ Verifying(j) /\ jobs[j].b # b
    BY <1>1, <1>2 DEF WayInv, JobOnce, Verifying
  <2> QED
    BY <1>2, <1>3, <2>1, <2>2, <2>3 DEF WayInv, InCurrent, Spawning
<1> QED
  BY <1>1, <1>2, <1>3, <1>4, <1>5, <1>6, JobMoves DEF WayInv

\* Start and stop: loops come and go and the channel is emptied, but nothing
\* is put anywhere.
LEMMA ConsoleKeeps ==
    ASSUME OfficerConstants, OfficerInv,
           ConsoleStart \/ StartRuns \/ ConsoleStop \/ StopLock \/ StopDrain
             \/ \E x \in DOMAIN loops : LoopEnd(x) \/ StopSend(x)
    PROVE  OfficerInv'
<1> USE OfficerRecords DEF OfficerInv
<1>1. UNCHANGED <<currentMu, current, completed, highest, working, push, jobs, delivered, calls, panicked>>
  BY DEF ConsoleStart, StartRuns, ConsoleStop, StopLock, StopDrain, LoopEnd, StopSend, shared, bounds
<1>2. SendHolds'
  BY <1>1 DEF SendHolds
<1>3. /\ mu' \in Pusher \cup {Free, Console} /\ ready' \in Int /\ starting' \in Nat
      /\ isWorking' \in BOOLEAN /\ console' \in {"idle", "lock", "send", "drain"}
      /\ starts' \in 0..MaxStarts /\ stops' \in 0..MaxStops
  <2>1. isWorking' \in BOOLEAN
    <3>1. isWorking' \in {isWorking, TRUE, FALSE}
      BY DEF ConsoleStart, StartRuns, ConsoleStop, StopLock, StopDrain, LoopEnd, StopSend, shared
    <3> QED
      BY <3>1 DEF OfficerTypeOK
  <2>2. mu' \in {mu, Free, Console} /\ console' \in {console, "idle", "lock", "send", "drain"}
    BY DEF ConsoleStart, StartRuns, ConsoleStop, StopLock, StopDrain, LoopEnd, StopSend, shared
  <2>3. /\ ready' \in {ready, ready + 1, ready - 1, 0}
        /\ starting' \in {starting, starting + 1} \/ (starting > 0 /\ starting' = starting - 1)
        /\ starts' = starts \/ (starts < MaxStarts /\ starts' = starts + 1)
        /\ stops' = stops \/ (stops < MaxStops /\ stops' = stops + 1)
    BY DEF ConsoleStart, StartRuns, ConsoleStop, StopLock, StopDrain, LoopEnd, StopSend, shared, bounds
  <2>4. ready' \in Int /\ starting' \in Nat /\ starts' \in 0..MaxStarts /\ stops' \in 0..MaxStops
    <3>1. /\ ready \in Int /\ starting \in Nat /\ starts \in 0..MaxStarts /\ stops \in 0..MaxStops
          /\ MaxStarts \in Nat /\ MaxStops \in Nat
      BY DEF OfficerTypeOK, OfficerConstants
    <3>2. ready' \in Int /\ starting' \in Nat
      BY <2>3, <3>1
    <3>3. starts' \in 0..MaxStarts /\ stops' \in 0..MaxStops
      BY <2>3, <3>1
    <3> QED
      BY <3>2, <3>3
  <2> QED
    BY <2>1, <2>2, <2>4 DEF OfficerTypeOK
<1>4. workCh' = workCh \/ workCh' = <<>>
  BY DEF ConsoleStart, StartRuns, ConsoleStop, StopLock, StopDrain, LoopEnd, StopSend, shared
<1>5. workCh' \in Seq(Batch) /\ Len(workCh') <= Cap
  <2>1. <<>> \in Seq(Batch) /\ Len(<<>>) = 0
    BY EmptySeq
  <2>2. workCh \in Seq(Batch) /\ Len(workCh) <= Cap /\ Cap \in Nat
    BY DEF OfficerTypeOK, OfficerConstants
  <2>3. CASE workCh' = workCh
    BY <2>2, <2>3
  <2>4. CASE workCh' = <<>>
    BY <2>1, <2>2, <2>4
  <2> QED
    BY <1>4, <2>3, <2>4
<1>6. loops' \in Seq(LoopState) /\ \A l \in DOMAIN loops' : Spawning(l)' => l \in DOMAIN loops /\ loops'[l] = loops[l]
  <2>1. CASE StartRuns
    <3>1. loops' = Append(loops, [pc |-> "select"]) /\ [pc |-> "select"] \in LoopState
      BY <2>1 DEF StartRuns, LoopState
    <3> QED
      BY <3>1, AppendProperties DEF OfficerTypeOK, Spawning
  <2>2. ASSUME NEW x \in DOMAIN loops, LoopEnd(x) \/ StopSend(x)
        PROVE  loops' \in Seq(LoopState) /\ \A l \in DOMAIN loops' : Spawning(l)' => l \in DOMAIN loops /\ loops'[l] = loops[l]
    <3>1. PICK c \in {"end", "stop"} : loops' = [loops EXCEPT ![x] = [pc |-> c]]
      BY <2>2 DEF LoopEnd, StopSend
    <3>2. [pc |-> c] \in LoopState
      BY DEF LoopState
    <3> QED
      BY <3>1, <3>2, ExceptSeq DEF OfficerTypeOK, Spawning
  <2>3. CASE loops' = loops
    BY <2>3 DEF OfficerTypeOK
  <2> QED
    BY <2>1, <2>2, <2>3 DEF ConsoleStart, ConsoleStop, StopLock, StopDrain
<1>7. OfficerTypeOK'
  BY <1>1, <1>3, <1>5, <1>6 DEF OfficerTypeOK
<1>8. \A k \in DOMAIN workCh' : k \in DOMAIN workCh /\ workCh'[k] = workCh[k]
  BY <1>4
<1>9. \A l \in DOMAIN loops' : Spawning(l)' => l \in DOMAIN loops /\ Spawning(l) /\ loops'[l].b = loops[l].b
  BY <1>6 DEF Spawning
<1>10. QueueOnce' /\ QueueJob' /\ JobOnce'
  BY <1>1, <1>8 DEF WayInv, QueueOnce, QueueJob, JobOnce, Verifying
<1>11. LoopOnce' /\ QueueLoop' /\ LoopJob'
  BY <1>1, <1>8, <1>9 DEF WayInv, LoopOnce, QueueLoop, LoopJob, Verifying
<1>12. InCurrent'
  BY <1>1, <1>8, <1>9 DEF WayInv, InCurrent, Verifying
<1> QED
  BY <1>2, <1>7, <1>10, <1>11, <1>12 DEF WayInv

\* Every step of the officer and of its callers keeps the invariant.
LEMMA OfficerStep == ASSUME OfficerConstants, OfficerInv, [Next]_vars PROVE OfficerInv'
<1>1. ASSUME NEW p \in Pusher, CallPush(p) \/ PushLock(p) \/ PushCheck(p) PROVE OfficerInv'
  BY <1>1, PushKeeps
<1>2. ASSUME NEW p \in Pusher, PushSend(p) PROVE OfficerInv'
  BY <1>2, SendKeeps
<1>3. ASSUME NEW l \in DOMAIN loops, LoopTake(l) PROVE OfficerInv'
  BY <1>3, TakeKeeps
<1>4. ASSUME NEW l \in DOMAIN loops, LoopSpawn(l) PROVE OfficerInv'
  BY <1>4, SpawnKeeps
<1>5. ASSUME NEW j \in DOMAIN jobs, JobVerify(j) \/ JobStore(j) \/ JobReport(j) PROVE OfficerInv'
  BY <1>5, JobKeeps
<1>6. ASSUME NEW j \in DOMAIN jobs, JobMark(j) PROVE OfficerInv'
  BY <1>6, MarkKeeps
<1>7. CASE ConsoleStart \/ StartRuns \/ ConsoleStop \/ StopLock \/ StopDrain
             \/ \E l \in DOMAIN loops : LoopEnd(l) \/ StopSend(l)
  BY <1>7, ConsoleKeeps
<1>8. CASE UNCHANGED vars
  BY <1>8 DEF vars, shared, threads, bounds, OfficerInv, OfficerTypeOK, SendHolds, WayInv, QueueOnce, LoopOnce,
              JobOnce, QueueLoop, QueueJob, LoopJob, InCurrent, Spawning, Verifying
<1> QED
  BY <1>1, <1>2, <1>3, <1>4, <1>5, <1>6, <1>7, <1>8 DEF Next, Officer, Calls

\* One place at most, and current: what OneVerification says with sets.
LEMMA WayOnce == ASSUME OfficerInv PROVE OneVerification
<1> SUFFICES ASSUME NEW b \in Batch
             PROVE  Cardinality(InFlight(b)) <= 1 /\ (InFlight(b) # {} => b \in current)
  BY DEF OneVerification
<1> USE DEF OfficerInv, WayInv
<1>1. ASSUME NEW x \in InFlight(b), NEW y \in InFlight(b) PROVE x = y
  <2>1. \/ \E k \in DOMAIN workCh : x = <<"queue", k>> /\ workCh[k] = b
        \/ \E l \in DOMAIN loops : x = <<"loop", l>> /\ Spawning(l) /\ loops[l].b = b
        \/ \E j \in DOMAIN jobs : x = <<"job", j>> /\ Verifying(j) /\ jobs[j].b = b
    BY DEF InFlight, Spawning, Verifying
  <2>2. \/ \E k \in DOMAIN workCh : y = <<"queue", k>> /\ workCh[k] = b
        \/ \E l \in DOMAIN loops : y = <<"loop", l>> /\ Spawning(l) /\ loops[l].b = b
        \/ \E j \in DOMAIN jobs : y = <<"job", j>> /\ Verifying(j) /\ jobs[j].b = b
    BY DEF InFlight, Spawning, Verifying
  <2> QED
    BY <2>1, <2>2 DEF QueueOnce, LoopOnce, JobOnce, QueueLoop, QueueJob, LoopJob
<1>2. Cardinality(InFlight(b)) <= 1
  <2>1. CASE InFlight(b) = {}
    BY <2>1, FS_EmptySet
  <2>2. CASE InFlight(b) # {}
    <3>1. PICK x : x \in InFlight(b)
      BY <2>2
    <3>2. InFlight(b) = {x}
      BY <1>1, <3>1
    <3>3. Cardinality({x}) = 1
      BY FS_Singleton
    <3>4. Cardinality(InFlight(b)) = 1
      BY <3>2, <3>3
    <3> QED
      BY <3>4
  <2> QED
    BY <2>1, <2>2
<1>3. InFlight(b) # {} => b \in current
  BY DEF InFlight, InCurrent, Spawning, Verifying
<1> QED
  BY <1>2, <1>3

-----------------------------------------------------------------------------
\* The types of the officer hold, for every bound and every capacity.
THEOREM OfficerTyped == ASSUME OfficerConstants PROVE Spec => []OfficerTypeOK
<1>1. Init => OfficerInv
  BY OfficerInit
<1>2. OfficerInv /\ [Next]_vars => OfficerInv'
  BY OfficerStep
<1>3. OfficerInv => OfficerTypeOK
  BY DEF OfficerInv
<1> QED
  BY <1>1, <1>2, <1>3, PTL DEF Spec

\* PushWork, updateLoop, work and markComplete never have a batch verified
\* twice at the same time (OneVerification), however many goroutines push it,
\* however many update loops run, and whenever the officer is stopped.
THEOREM OfficerVerifiesOnce == ASSUME OfficerConstants PROVE Spec => []OneVerification
<1>1. Init => OfficerInv
  BY OfficerInit
<1>2. OfficerInv /\ [Next]_vars => OfficerInv'
  BY OfficerStep
<1>3. OfficerInv => OneVerification
  BY WayOnce
<1> QED
  BY <1>1, <1>2, <1>3, PTL DEF Spec

-----------------------------------------------------------------------------
(* A full channel is all the officer's goroutines can end up waiting for.  *)

\* Who holds a mutex is on its way to unlock it: a pusher that checks or sends.
HolderMoves ==
    \A p \in Pusher : /\ mu = p => push[p].pc \in {"check", "send"}
                      /\ currentMu = p => push[p].pc = "send"

\* Without a stop the console holds nothing and every update loop goes on.
NoStop ==
    stops = 0 => /\ console = "idle" /\ mu # Console
                 /\ \A l \in DOMAIN loops : loops[l].pc \in {"select", "spawn"}

\* Since the first call of PushWork there is an update loop, or one to come.
LoopThere ==
    (isWorking \/ workCh # <<>> \/ \E p \in Pusher : push[p].pc # "idle")
        => starting > 0 \/ loops # <<>>

\* What is in current is on its way.
Placed(b) ==
    \/ \E k \in DOMAIN workCh : workCh[k] = b
    \/ \E l \in DOMAIN loops : Spawning(l) /\ loops[l].b = b
    \/ \E j \in DOMAIN jobs : Verifying(j) /\ jobs[j].b = b

CurrentPlaced == stops = 0 => \A b \in current : Placed(b)

\* What is marked is handed on, or a goroutine is about to do so.
CompletedTold ==
    \A b \in completed :
        \/ \E k \in DOMAIN delivered : delivered[k] = b
        \/ \E j \in DOMAIN jobs : jobs[j].pc = "report" /\ jobs[j].b = b

\* The inductive invariant, on top of OfficerInv.
WaitInv == HolderMoves /\ NoStop /\ LoopThere /\ CurrentPlaced /\ CompletedTold

\* Nobody holds anything in the beginning.
LEMMA WaitInit == ASSUME OfficerConstants, Init PROVE WaitInv
<1>1. HolderMoves /\ NoStop /\ LoopThere
  BY DEF Init, OfficerConstants, HolderMoves, NoStop, LoopThere, Free, Console
<1>2. CurrentPlaced /\ CompletedTold
  BY DEF Init, CurrentPlaced, CompletedTold
<1> QED
  BY <1>1, <1>2 DEF WaitInv

\* The steps of a pusher before it sends: mutexes go to who checks and sends.
LEMMA PushWaits ==
    ASSUME OfficerConstants, OfficerInv, WaitInv, NEW p \in Pusher,
           CallPush(p) \/ PushLock(p) \/ PushCheck(p)
    PROVE  WaitInv'
<1> USE OfficerRecords DEF OfficerInv
<1>1. UNCHANGED <<workCh, current, completed, isWorking, loops, jobs, console, starting, delivered, stops>>
  BY DEF CallPush, PushLock, PushCheck, shared, bounds
<1>2. \A q \in Pusher : q # p => push'[q] = push[q]
  BY DEF CallPush, PushLock, PushCheck, OfficerTypeOK
<1>3. HolderMoves'
  <2>1. \A q \in Pusher : q # Free
    BY DEF OfficerConstants
  <2>2. /\ push \in [Pusher -> PushState] /\ push[p] \in PushState
        /\ mu \in Pusher \cup {Free, Console} /\ currentMu \in Pusher \cup {Free}
    BY DEF OfficerTypeOK
  <2>3. CASE CallPush(p)
    <3>1. mu' = mu /\ currentMu' = currentMu /\ push[p].pc = "idle"
      BY <2>3 DEF CallPush
    <3>2. mu # p /\ currentMu # p
      BY <3>1 DEF WaitInv, HolderMoves
    <3> QED BY <1>2, <3>1, <3>2 DEF WaitInv, HolderMoves
  <2>4. CASE PushLock(p)
    <3>1. /\ mu' = p /\ currentMu' = currentMu /\ push[p].pc = "lock"
          /\ push' = [push EXCEPT ![p] = [push[p] EXCEPT !.pc = "check"]]
      BY <2>4 DEF PushLock
    <3>2. push'[p].pc = "check"
      BY <2>2, <3>1 DEF PushState
    <3>3. currentMu # p
      BY <3>1 DEF WaitInv, HolderMoves
    <3> QED BY <1>2, <3>1, <3>2, <3>3 DEF WaitInv, HolderMoves
  <2>5. CASE PushCheck(p)
    <3>1. CASE Refused(push[p].b)
      <4>1. mu' = Free /\ currentMu' = Free
        BY <2>5, <3>1 DEF PushCheck
      <4> QED BY <2>1, <4>1 DEF HolderMoves
    <3>2. CASE ~Refused(push[p].b)
      <4>1. /\ mu' = mu /\ currentMu' = p /\ push[p].pc = "check"
            /\ push' = [push EXCEPT ![p] = [push[p] EXCEPT !.pc = "send"]]
        BY <2>5, <3>2 DEF PushCheck
      <4>2. push'[p].pc = "send"
        BY <2>2, <4>1 DEF PushState
      <4> QED BY <1>2, <4>1, <4>2 DEF WaitInv, HolderMoves
    <3> QED BY <3>1, <3>2
  <2> QED BY <2>3, <2>4, <2>5
<1>4. NoStop'
  <2>1. mu' \in {mu, p, Free} /\ p # Console /\ Free # Console
    BY DEF CallPush, PushLock, PushCheck, OfficerConstants, Free, Console
  <2> QED BY <1>1, <2>1 DEF WaitInv, NoStop
<1>5. LoopThere'
  <2>1. isWorking \/ push[p].pc # "idle"
    BY DEF CallPush, PushLock, PushCheck
  <2> QED BY <1>1, <2>1 DEF WaitInv, LoopThere
<1>6. CurrentPlaced' /\ CompletedTold'
  BY <1>1 DEF WaitInv, CurrentPlaced, CompletedTold, Placed, Spawning, Verifying
<1> QED
  BY <1>3, <1>4, <1>5, <1>6 DEF WaitInv

\* PushSend: both mutexes are free again, and the batch is in the channel.
LEMMA SendWaits ==
    ASSUME OfficerConstants, OfficerInv, WaitInv, NEW p \in Pusher, PushSend(p)
    PROVE  WaitInv'
<1> USE OfficerRecords DEF OfficerInv
<1>1. /\ UNCHANGED <<completed, isWorking, loops, jobs, console, starting, delivered, stops>>
      /\ mu' = Free /\ currentMu' = Free /\ current' = current \cup {push[p].b}
      /\ push[p].pc = "send"
  BY DEF PushSend, bounds
<1>2. /\ DOMAIN workCh' = 1..(Len(workCh) + 1)
      /\ \A k \in 1..Len(workCh) : workCh'[k] = workCh[k]
      /\ workCh'[Len(workCh) + 1] = push[p].b
  BY <1>1, AppendProperties DEF PushSend, OfficerTypeOK
<1>3. HolderMoves' /\ NoStop'
  BY <1>1 DEF WaitInv, HolderMoves, NoStop, OfficerConstants, Free, Console
<1>4. LoopThere'
  BY <1>1 DEF WaitInv, LoopThere
<1>5. CurrentPlaced'
  <2>1. \A b : Placed(b) => Placed(b)'
    BY <1>1, <1>2 DEF Placed, Spawning, Verifying
  <2>2. ASSUME NEW b, b = push[p].b PROVE Placed(b)'
    BY <1>2, <2>2 DEF Placed
  <2> QED BY <1>1, <2>1, <2>2 DEF WaitInv, CurrentPlaced
<1>6. CompletedTold'
  BY <1>1 DEF WaitInv, CompletedTold
<1> QED
  BY <1>3, <1>4, <1>5, <1>6 DEF WaitInv

\* The update loops: a batch goes from the channel to the loop and on to a
\* goroutine of its own.
LEMMA LoopWaits ==
    ASSUME OfficerConstants, OfficerInv, WaitInv, NEW x \in DOMAIN loops, LoopTake(x) \/ LoopSpawn(x)
    PROVE  WaitInv'
<1> USE OfficerRecords DEF OfficerInv
<1>1. /\ UNCHANGED <<mu, currentMu, push, current, completed, isWorking, console, starting, delivered, stops>>
      /\ loops # <<>>
  BY DEF LoopTake, LoopSpawn, shared, bounds
<1>2. HolderMoves'
  BY <1>1 DEF WaitInv, HolderMoves
<1>3. /\ DOMAIN loops' = DOMAIN loops /\ loops' # <<>>
      /\ \A l \in DOMAIN loops : l # x => loops'[l] = loops[l]
      /\ loops'[x].pc \in {"select", "spawn"}
  BY DEF LoopTake, LoopSpawn, OfficerTypeOK
<1>4. NoStop' /\ LoopThere'
  BY <1>1, <1>3 DEF WaitInv, NoStop, LoopThere
<1>5. (\A b : Placed(b) => Placed(b)') /\ CompletedTold'
  <2>1. CASE LoopTake(x)
    <3>1. /\ jobs' = jobs /\ ~Spawning(x) /\ Len(workCh) \in Nat \ {0}
          /\ workCh' = Tail(workCh) /\ loops'[x] = [pc |-> "spawn", b |-> Head(workCh)]
      BY <2>1, EmptySeq DEF LoopTake, OfficerTypeOK, Spawning
    <3>2. /\ DOMAIN workCh' = 1..(Len(workCh) - 1) /\ Head(workCh) = workCh[1]
          /\ \A k \in 1..(Len(workCh) - 1) : workCh'[k] = workCh[k + 1]
      BY <3>1, HeadTailProperties DEF OfficerTypeOK
    <3>3. Spawning(x)' /\ loops'[x].b = workCh[1]
      BY <3>1, <3>2 DEF Spawning
    <3>4. \A l \in DOMAIN loops : Spawning(l) => Spawning(l)' /\ loops'[l] = loops[l]
      BY <1>3, <3>1 DEF Spawning
    <3>5. ASSUME NEW k \in DOMAIN workCh, NEW b, b = workCh[k] PROVE Placed(b)'
      <4>1. CASE k = 1
        BY <1>3, <3>3, <3>5, <4>1 DEF Placed
      <4>2. CASE k # 1
        <5>1. k - 1 \in DOMAIN workCh' /\ workCh'[k - 1] = workCh[k]
          BY <3>1, <3>2, <4>2
        <5> QED BY <3>5, <5>1 DEF Placed
      <4> QED BY <4>1, <4>2
    <3>6. \A b : Placed(b) => Placed(b)'
      BY <1>3, <3>1, <3>4, <3>5 DEF Placed, Verifying
    <3>7. CompletedTold'
      BY <1>1, <3>1 DEF WaitInv, CompletedTold
    <3> QED BY <3>6, <3>7
  <2>2. CASE LoopSpawn(x)
    <3>1. [pc |-> "verify", b |-> loops[x].b] \in JobState /\ Spawning(x)
      BY <2>2 DEF LoopSpawn, JobState, Spawning
    <3>2. /\ workCh' = workCh /\ DOMAIN jobs' = 1..(Len(jobs) + 1)
          /\ \A j \in DOMAIN jobs : jobs'[j] = jobs[j]
          /\ jobs'[Len(jobs) + 1] = [pc |-> "verify", b |-> loops[x].b]
      BY <2>2, <3>1, AppendProperties DEF LoopSpawn, OfficerTypeOK, shared
    <3>3. DOMAIN jobs \subseteq DOMAIN jobs' /\ Len(jobs) + 1 \in DOMAIN jobs'
      BY <3>2
    <3>4. \A j \in DOMAIN jobs : Verifying(j) => Verifying(j)'
      BY <3>2 DEF Verifying
    <3>5. ASSUME NEW b, Placed(b) PROVE Placed(b)'
      <4>1. CASE b = loops[x].b
        <5>1. PICK j \in DOMAIN jobs' : j = Len(jobs) + 1
          BY <3>3
        <5>2. jobs'[j] = [pc |-> "verify", b |-> b]
          BY <3>2, <4>1, <5>1
        <5>3. Verifying(j)' /\ jobs'[j].b = b
          BY ONLY <5>2 DEF Verifying
        <5> QED BY ONLY <5>3 DEF Placed
      <4>2. CASE b # loops[x].b
        BY <1>3, <3>2, <3>3, <3>4, <3>5, <4>2 DEF Placed, Spawning
      <4> QED BY <4>1, <4>2
    <3>6. CompletedTold'
      BY <1>1, <3>2, <3>3 DEF WaitInv, CompletedTold
    <3> QED BY <3>5, <3>6
  <2> QED BY <2>1, <2>2
<1> QED
  BY <1>1, <1>2, <1>4, <1>5 DEF WaitInv, CurrentPlaced

\* The goroutine work: it leaves its place with the batch it takes out of
\* current, and its report with the batch it hands on.
LEMMA JobWaits ==
    ASSUME OfficerConstants, OfficerInv, WaitInv, NEW x \in DOMAIN jobs,
           JobVerify(x) \/ JobMark(x) \/ JobStore(x) \/ JobReport(x)
    PROVE  WaitInv'
<1> USE OfficerRecords DEF OfficerInv
<1>1. UNCHANGED <<mu, currentMu, workCh, push, loops, isWorking, console, starting, stops>>
  BY DEF JobVerify, JobMark, JobStore, JobReport, shared, bounds
<1>2. HolderMoves' /\ NoStop' /\ LoopThere'
  BY <1>1 DEF WaitInv, HolderMoves, NoStop, LoopThere
<1>3. /\ DOMAIN jobs' = DOMAIN jobs
      /\ \A j \in DOMAIN jobs : j # x => jobs'[j] = jobs[j]
      /\ jobs'[x].b = jobs[x].b
      /\ JobVerify(x) => jobs'[x].pc \in {"verify", "mark"}
      /\ JobStore(x) => jobs'[x].pc = "report"
  <2>1. jobs[x] \in JobState
    OBVIOUS
  <2>2. \/ jobs' = jobs /\ JobVerify(x) /\ jobs[x].pc = "verify"
        \/ \E c \in {"mark", "store", "report", "end"} :
              /\ jobs' = [jobs EXCEPT ![x] = [jobs[x] EXCEPT !.pc = c]]
              /\ (JobVerify(x) => c = "mark") /\ (JobStore(x) => c = "report")
    BY DEF JobVerify, JobMark, JobStore, JobReport
  <2>3. CASE jobs' = jobs /\ JobVerify(x) /\ jobs[x].pc = "verify"
    BY <2>3 DEF JobStore
  <2>4. ASSUME NEW c \in {"mark", "store", "report", "end"},
               jobs' = [jobs EXCEPT ![x] = [jobs[x] EXCEPT !.pc = c]],
               JobVerify(x) => c = "mark", JobStore(x) => c = "report"
        PROVE  /\ DOMAIN jobs' = DOMAIN jobs
               /\ \A j \in DOMAIN jobs : j # x => jobs'[j] = jobs[j]
               /\ jobs'[x].b = jobs[x].b
               /\ JobVerify(x) => jobs'[x].pc \in {"verify", "mark"}
               /\ JobStore(x) => jobs'[x].pc = "report"
    <3>1. [jobs[x] EXCEPT !.pc = c].pc = c /\ [jobs[x] EXCEPT !.pc = c].b = jobs[x].b
      BY <2>1 DEF JobState
    <3>2. jobs'[x] = [jobs[x] EXCEPT !.pc = c]
      BY <2>4
    <3> QED BY <2>4, <3>1, <3>2
  <2> QED BY <2>2, <2>3, <2>4
<1>4. CurrentPlaced'
  <2> SUFFICES ASSUME stops = 0, NEW b \in current', ~Placed(b)' PROVE FALSE
    BY <1>1 DEF CurrentPlaced
  <2>1. b \in current /\ (JobMark(x) => b # jobs[x].b)
    BY DEF JobVerify, JobMark, JobStore, JobReport, shared
  <2>2. Placed(b)
    BY <2>1 DEF WaitInv, CurrentPlaced
  <2>3. PICK j \in DOMAIN jobs : Verifying(j) /\ jobs[j].b = b
    BY <1>1, <2>2 DEF Placed, Spawning
  <2>4. j = x
    BY <1>3, <2>3 DEF Placed, Verifying
  <2>5. JobVerify(x)
    BY <2>1, <2>3, <2>4 DEF Verifying, JobStore, JobReport
  <2> QED BY <1>3, <2>3, <2>4, <2>5 DEF Placed, Verifying
<1>5. CompletedTold'
  <2> SUFFICES ASSUME NEW b \in completed'
               PROVE  \/ \E k \in DOMAIN delivered' : delivered'[k] = b
                      \/ \E j \in DOMAIN jobs' : jobs'[j].pc = "report" /\ jobs'[j].b = b
    BY DEF CompletedTold
  <2>1. CASE JobReport(x)
    <3>1. jobs[x].pc = "report" /\ completed' = completed /\ delivered' = Append(delivered, jobs[x].b)
      BY <2>1 DEF JobReport, shared
    <3>2. /\ DOMAIN delivered' = 1..(Len(delivered) + 1) /\ delivered'[Len(delivered) + 1] = jobs[x].b
          /\ DOMAIN delivered = 1..Len(delivered) /\ Len(delivered) \in Nat
          /\ \A k \in DOMAIN delivered : delivered'[k] = delivered[k]
      BY <3>1, AppendProperties DEF OfficerTypeOK
    <3>3. Len(delivered) + 1 \in DOMAIN delivered' /\ DOMAIN delivered \subseteq DOMAIN delivered'
      BY <3>2
    <3> QED BY <1>3, <3>1, <3>2, <3>3 DEF WaitInv, CompletedTold
  <2>2. CASE JobStore(x)
    <3>1. completed' = completed \cup {jobs[x].b} /\ delivered' = delivered /\ jobs[x].pc = "store"
      BY <2>2 DEF JobStore
    <3> QED BY <1>3, <2>2, <3>1 DEF WaitInv, CompletedTold
  <2>3. CASE JobVerify(x) \/ JobMark(x)
    <3>1. completed' = completed /\ delivered' = delivered /\ jobs[x].pc # "report"
      BY <2>3 DEF JobVerify, JobMark, shared
    <3> QED BY <1>3, <3>1 DEF WaitInv, CompletedTold
  <2> QED BY <2>1, <2>2, <2>3
<1> QED
  BY <1>2, <1>4, <1>5 DEF WaitInv

\* Start and stop: a start adds a loop; everything a stop does is counted.
LEMMA ConsoleWaits ==
    ASSUME OfficerConstants, OfficerInv, WaitInv,
           ConsoleStart \/ StartRuns \/ ConsoleStop \/ StopLock \/ StopDrain
             \/ \E x \in DOMAIN loops : LoopEnd(x) \/ StopSend(x)
    PROVE  WaitInv'
<1> USE OfficerRecords DEF OfficerInv
<1>1. UNCHANGED <<currentMu, push, current, completed, jobs, delivered>>
  BY DEF ConsoleStart, StartRuns, ConsoleStop, StopLock, StopDrain, LoopEnd, StopSend, shared
<1>2. CompletedTold'
  BY <1>1 DEF WaitInv, CompletedTold
<1>3. CASE ConsoleStart
  <2>1. UNCHANGED <<mu, workCh, loops, console, stops>> /\ starting' = starting + 1
    BY <1>3 DEF ConsoleStart
  <2>2. starting' > 0
    BY <2>1 DEF OfficerTypeOK
  <2>3. HolderMoves' /\ NoStop' /\ LoopThere'
    BY <1>1, <2>1, <2>2 DEF WaitInv, HolderMoves, NoStop, LoopThere
  <2>4. CurrentPlaced'
    BY <1>1, <2>1 DEF WaitInv, CurrentPlaced, Placed, Spawning, Verifying
  <2> QED BY <1>2, <2>3, <2>4 DEF WaitInv
<1>4. CASE StartRuns
  <2>1. UNCHANGED <<mu, workCh, console, stops, isWorking>> /\ loops' = Append(loops, [pc |-> "select"])
    BY <1>4 DEF StartRuns, bounds
  <2>2. [pc |-> "select"] \in LoopState
    BY DEF LoopState
  <2>3. /\ DOMAIN loops' = 1..(Len(loops) + 1) /\ loops'[Len(loops) + 1] = [pc |-> "select"]
        /\ \A l \in DOMAIN loops : loops'[l] = loops[l]
    BY <2>1, <2>2, AppendProperties DEF OfficerTypeOK
  <2>4. loops' # <<>> /\ DOMAIN loops \subseteq DOMAIN loops'
    BY <2>3
  <2>5. HolderMoves' /\ LoopThere'
    BY <1>1, <2>1, <2>4 DEF WaitInv, HolderMoves, LoopThere
  <2>6. NoStop'
    BY <2>1, <2>3 DEF WaitInv, NoStop
  <2>7. CurrentPlaced'
    BY <1>1, <2>1, <2>3, <2>4 DEF WaitInv, CurrentPlaced, Placed, Spawning, Verifying
  <2> QED BY <1>2, <2>5, <2>6, <2>7 DEF WaitInv
<1>5. CASE ConsoleStop \/ StopLock \/ StopDrain \/ \E x \in DOMAIN loops : LoopEnd(x) \/ StopSend(x)
  <2>1. stops \in Nat
    BY DEF OfficerTypeOK, OfficerConstants
  <2>2. stops' # 0
    <3>1. CASE ConsoleStop
      BY <2>1, <3>1 DEF ConsoleStop
    <3>2. CASE StopLock \/ StopDrain
      BY <3>2 DEF StopLock, StopDrain, WaitInv, NoStop, bounds
    <3>3. CASE \E x \in DOMAIN loops : LoopEnd(x) \/ StopSend(x)
      BY <3>3 DEF LoopEnd, StopSend, WaitInv, NoStop, bounds
    <3> QED BY <1>5, <3>1, <3>2, <3>3
  <2>3. mu' \in {mu, Free, Console} /\ UNCHANGED starting /\ (isWorking' => isWorking)
    BY <1>5 DEF ConsoleStop, StopLock, StopDrain, LoopEnd, StopSend, shared, bounds
  <2>4. workCh' = workCh \/ workCh' = <<>>
    BY <1>5 DEF ConsoleStop, StopLock, StopDrain, LoopEnd, StopSend, shared
  <2>5. loops # <<>> => loops' # <<>>
    BY <1>5 DEF ConsoleStop, StopLock, StopDrain, LoopEnd, StopSend, OfficerTypeOK
  <2>6. HolderMoves'
    BY <1>1, <2>3 DEF WaitInv, HolderMoves, OfficerConstants
  <2>7. LoopThere'
    BY <1>1, <2>3, <2>4, <2>5 DEF WaitInv, LoopThere
  <2>8. NoStop' /\ CurrentPlaced'
    BY <2>2 DEF NoStop, CurrentPlaced
  <2> QED BY <1>2, <2>6, <2>7, <2>8 DEF WaitInv
<1> QED
  BY <1>3, <1>4, <1>5

\* Every step keeps it.
LEMMA WaitStep == ASSUME OfficerConstants, OfficerInv, WaitInv, [Next]_vars PROVE WaitInv'
<1>1. ASSUME NEW p \in Pusher, CallPush(p) \/ PushLock(p) \/ PushCheck(p) PROVE WaitInv'
  BY <1>1, PushWaits
<1>2. ASSUME NEW p \in Pusher, PushSend(p) PROVE WaitInv'
  BY <1>2, SendWaits
<1>3. ASSUME NEW l \in DOMAIN loops, LoopTake(l) \/ LoopSpawn(l) PROVE WaitInv'
  BY <1>3, LoopWaits
<1>4. ASSUME NEW j \in DOMAIN jobs, JobVerify(j) \/ JobMark(j) \/ JobStore(j) \/ JobReport(j) PROVE WaitInv'
  BY <1>4, JobWaits
<1>5. CASE ConsoleStart \/ StartRuns \/ ConsoleStop \/ StopLock \/ StopDrain
             \/ \E l \in DOMAIN loops : LoopEnd(l) \/ StopSend(l)
  BY <1>5, ConsoleWaits
<1>6. CASE UNCHANGED vars
  BY <1>6 DEF vars, shared, threads, bounds, WaitInv, HolderMoves, NoStop, LoopThere, CurrentPlaced,
              CompletedTold, Placed, Spawning, Verifying
<1> QED
  BY <1>1, <1>2, <1>3, <1>4, <1>5, <1>6 DEF Next, Officer, Calls

\* Who is stuck waits for a holder, and the last holder waits for room.
LEMMA StuckReported == ASSUME OfficerConstants, OfficerInv, WaitInv PROVE AcceptedReported
<1> USE OfficerRecords DEF OfficerInv
<1> SUFFICES ASSUME stops = 0, Stuck, ~\E p \in Pusher : push[p].pc = "send" /\ Len(workCh) = Cap
             PROVE  /\ \A p \in Pusher : push[p].pc = "idle"
                    /\ \A b \in current \cup completed : \E k \in DOMAIN delivered : delivered[k] = b
  BY DEF AcceptedReported
<1>1. \A p \in Pusher : push[p].pc # "send"
  <2>1. Len(workCh) \in Nat /\ Cap \in Nat /\ Len(workCh) <= Cap
    BY DEF OfficerTypeOK, OfficerConstants
  <2>2. \A p \in Pusher : push[p].pc = "send" => Len(workCh) >= Cap
    BY DEF Stuck
  <2>3. Len(workCh) >= Cap => Len(workCh) = Cap
    BY ONLY <2>1
  <2> QED BY <2>2, <2>3
<1>2. currentMu = Free
  BY <1>1 DEF WaitInv, HolderMoves, OfficerTypeOK
<1>3. mu = Free
  BY <1>1, <1>2 DEF Stuck, WaitInv, HolderMoves, NoStop, OfficerTypeOK
<1>4. \A p \in Pusher : push[p].pc = "idle"
  <2>1. \A p \in Pusher : push[p].pc \in {"idle", "lock", "check", "send"}
    BY DEF PushState
  <2> QED BY <1>1, <1>2, <1>3, <2>1 DEF Stuck
<1>5. /\ \A l \in DOMAIN loops : loops[l].pc = "select"
      /\ \A j \in DOMAIN jobs : jobs[j].pc = "end"
      /\ starting = 0
  BY <1>2, <1>3 DEF Stuck, WaitInv, NoStop, OfficerTypeOK
<1>6. workCh = <<>>
  <2> SUFFICES ASSUME workCh # <<>> PROVE FALSE
    OBVIOUS
  <2>1. loops # <<>>
    BY <1>5 DEF WaitInv, LoopThere
  <2>2. 1 \in DOMAIN loops
    BY <2>1, EmptySeq DEF OfficerTypeOK
  <2> QED BY <1>5, <2>2 DEF Stuck
<1>7. current = {}
  BY <1>5, <1>6 DEF WaitInv, CurrentPlaced, Placed, Spawning, Verifying
<1> QED
  BY <1>4, <1>5, <1>7 DEF WaitInv, CompletedTold

\* For every number of goroutines, loops and batches and every capacity the
\* officer's goroutines wait for nothing but a full channel in the end, and what
\* was accepted is reported (PushWork, updateLoop, work, markComplete).
THEOREM OfficerReports == ASSUME OfficerConstants PROVE Spec => []AcceptedReported
<1>1. Init => OfficerInv /\ WaitInv
  BY OfficerInit, WaitInit
<1>2. (OfficerInv /\ WaitInv) /\ [Next]_vars => (OfficerInv /\ WaitInv)'
  BY OfficerStep, WaitStep
<1>3. OfficerInv /\ WaitInv => AcceptedReported
  BY StuckReported
<1> QED
  BY <1>1, <1>2, <1>3, PTL DEF Spec

-----------------------------------------------------------------------------
(* The headers a match reports.                                            *)

\* Heights and numbers are numbers; a batch names a header.
HeaderConstants ==
    /\ ForkAt \in Int
    /\ \A j \in Job :
         /\ JobBatch[j].height \in Nat /\ JobBatch[j].from \in Nat
         /\ JobBatch[j].header.num \in Int

\* A result is sound for batch b: nothing matches, or the batch is right and
\* the headers are its ancestors.
SoundResult(b, r) ==
    r.ok => /\ b.good
            /\ b.height > b.from => r.previous = Headers!AncestorsOf(b.header, b.height - b.from)

\* The inductive invariant: jobs that have ended have a sound result.
MatchInv ==
    /\ DOMAIN job = Job
    /\ \A j \in Job : "pc" \in DOMAIN job[j]
    /\ \A j \in Job : job[j].pc = "end" => SoundResult(JobBatch[j], job[j].result)

\* A set of numbers has a least one.
LEMMA LeastNumber ==
    ASSUME NEW T, T \subseteq Nat, T # {}
    PROVE  \E x \in T : \A y \in T : x <= y
<1> DEFINE R == OpToRel(<, Nat)
<1>1. IsWellFoundedOn(R, Nat)
  BY NatLessThanWellFounded
<1>2. \A x, y \in Nat : <<y, x>> \in R <=> y < x
  BY DEF OpToRel
<1> HIDE DEF R
<1>3. PICK x \in T : \A y \in T : ~(<<y, x>> \in R)
  BY <1>1, WFMin
<1>4. \A y \in T : y \in Nat /\ x \in Nat /\ ~(y < x)
  BY <1>2, <1>3
<1> QED
  BY <1>4

\* The parent of a header on a chain is the header below it on that chain, at
\* the fork too.
LEMMA ParentOnChain ==
    ASSUME ForkAt \in Int, NEW f, NEW n \in Int
    PROVE  Headers!Parent(Headers!HeaderOn(f, n)) = Headers!HeaderOn(f, n - 1)
BY DEF Headers!Parent, Headers!HeaderOn

\* So is that of the batch's header itself.
LEMMA ParentOfHeader ==
    ASSUME ForkAt \in Int, NEW h, h.num \in Int
    PROVE  Headers!Parent(h) = Headers!HeaderOn(h.fork, h.num - 1)
BY DEF Headers!Parent, Headers!HeaderOn

\* What verify finds at each height down to the verified one is the ancestor
\* at that height: look at the highest one that were not.
LEMMA LinkedAncestors ==
    ASSUME HeaderConstants, NEW j \in Job, NEW hs,
           \A h \in JobBatch[j].from..(JobBatch[j].height - 1) : Headers!Linked(JobBatch[j], hs, h)
    PROVE  \A k \in 1..(JobBatch[j].height - JobBatch[j].from) :
             Headers!PreviousAt(JobBatch[j], hs, JobBatch[j].height - k)
               = Headers!HeaderOn(JobBatch[j].header.fork, JobBatch[j].header.num - k)
<1> DEFINE b == JobBatch[j]
           d == b.height - b.from
           At(k) == Headers!PreviousAt(b, hs, b.height - k)
           On(k) == Headers!HeaderOn(b.header.fork, b.header.num - k)
           Off == {k \in 1..d : At(k) # On(k)}
<1>1. b.height \in Nat /\ b.from \in Nat /\ b.header.num \in Int /\ ForkAt \in Int /\ d \in Int
  BY DEF HeaderConstants
<1>2. ASSUME NEW k \in 1..d
      PROVE  At(k) = Headers!Parent(IF k = 1 THEN b.header ELSE At(k - 1))
  <2>1. b.height - k \in b.from..(b.height - 1) /\ b.height - k + 1 = b.height - (k - 1)
        /\ (b.height - k = b.height - 1 <=> k = 1)
    BY <1>1
  <2> QED
    BY <2>1 DEF Headers!Linked
<1>3. At(1) = On(1) \/ d < 1
  BY <1>1, <1>2, ParentOfHeader
<1>4. ASSUME NEW k \in 1..d, k # 1, At(k - 1) = On(k - 1) PROVE At(k) = On(k)
  <2>1. At(k) = Headers!Parent(On(k - 1))
    BY <1>2, <1>4
  <2>2. b.header.num - (k - 1) \in Int /\ b.header.num - (k - 1) - 1 = b.header.num - k
    BY <1>1
  <2> QED
    BY <2>1, <2>2, <1>1, ParentOnChain
<1> HIDE DEF At, On
<1>5. Off = {}
  <2> SUFFICES ASSUME Off # {} PROVE FALSE
    OBVIOUS
  <2>1. Off \subseteq Nat
    BY <1>1
  <2>2. PICK k \in Off : \A m \in Off : k <= m
    BY <2>1, LeastNumber
  <2>3. k \in 1..d /\ At(k) # On(k) /\ k # 1
    BY <2>2, <1>1, <1>3
  <2>4. k - 1 \in 1..d /\ k - 1 \notin Off
    BY <2>2, <2>3, <1>1
  <2> QED
    BY <2>3, <2>4, <1>4
<1> QED
  BY <1>5 DEF At, On

\* verify matches soundly, whatever headers it is given.
LEMMA VerifySound ==
    ASSUME HeaderConstants, NEW j \in Job, NEW hs
    PROVE  SoundResult(JobBatch[j], Headers!Verify(JobBatch[j], hs))
<1> DEFINE b == JobBatch[j]
           r == Headers!Verify(b, hs)
<1>1. b.height \in Nat /\ b.from \in Nat
  BY DEF HeaderConstants
<1>2. SUFFICES ASSUME r.ok PROVE b.good /\ (b.height > b.from =>
                r.previous = Headers!AncestorsOf(b.header, b.height - b.from))
  BY DEF SoundResult
<1>3. /\ b.good
      /\ \A h \in b.from..(b.height - 1) : Headers!Linked(b, hs, h)
      /\ r.previous = [k \in 1..(IF b.height - b.from > 0 THEN b.height - b.from ELSE 0) |->
                         Headers!PreviousAt(b, hs, b.height - k)]
  BY <1>2 DEF Headers!Verify, Headers!NoMatch
<1>4. \A k \in 1..(b.height - b.from) :
        Headers!PreviousAt(b, hs, b.height - k) = Headers!HeaderOn(b.header.fork, b.header.num - k)
  BY <1>3, LinkedAncestors
<1>5. ASSUME b.height > b.from PROVE r.previous = Headers!AncestorsOf(b.header, b.height - b.from)
  <2>1. b.height - b.from > 0
    BY <1>1, <1>5
  <2> QED
    BY <2>1, <1>3, <1>4 DEF Headers!AncestorsOf
<1> QED
  BY <1>3, <1>5

\* No match is a sound result.
LEMMA NoMatchSound == \A b : SoundResult(b, Headers!NoMatch)
BY DEF SoundResult, Headers!NoMatch

\* A job that ends with a sound result keeps the invariant.
LEMMA FinishSound ==
    ASSUME MatchInv, NEW j \in Job, NEW r, Headers!Finish(j, r), SoundResult(JobBatch[j], r)
    PROVE  MatchInv'
BY DEF MatchInv, Headers!Finish, SoundResult

\* Every step of jobs, peers and channel keeps it.
LEMMA MatchStep ==
    ASSUME HeaderConstants, MatchInv, [Headers!Next]_Headers!vars
    PROVE  MatchInv'
<1>1. ASSUME NEW j \in Job, Headers!VerifyOwn(j) PROVE MatchInv'
  BY <1>1, FinishSound, VerifySound DEF Headers!VerifyOwn
<1>2. ASSUME NEW j \in Job, Headers!Ask(j) PROVE MatchInv'
  <2>1. CASE Peer = {}
    BY <1>2, <2>1, FinishSound, NoMatchSound DEF Headers!Ask
  <2>2. CASE Peer # {}
    BY <1>2, <2>2 DEF Headers!Ask, MatchInv
  <2> QED
    BY <2>1, <2>2
<1>3. ASSUME NEW j \in Job, Headers!Receive(j) PROVE MatchInv'
  <2>1. CASE Headers!Finish(j, Headers!NoMatch)
    BY <2>1, FinishSound, NoMatchSound
  <2>2. CASE \E hs : Headers!Finish(j, Headers!Verify(JobBatch[j], hs))
    BY <2>2, FinishSound, VerifySound
  <2>3. CASE \E got : job' = [job EXCEPT ![j].got = got, ![j].n = job[j].n + 1]
    BY <1>3, <2>3 DEF Headers!Receive, MatchInv
  <2> QED
    BY <1>3, <2>1, <2>2, <2>3 DEF Headers!Receive
<1>4. ASSUME NEW j \in Job, Headers!TimeOut(j) PROVE MatchInv'
  BY <1>4, FinishSound, NoMatchSound DEF Headers!TimeOut
<1>5. CASE UNCHANGED job
  BY <1>5 DEF MatchInv, SoundResult
<1>6. Headers!PeerAnswers \/ Headers!PeerGone \/ (\E p \in Peer : Headers!PeerReorg(p)) \/ Headers!Expire
        \/ UNCHANGED Headers!vars => UNCHANGED job
  BY DEF Headers!PeerAnswers, Headers!PeerGone, Headers!PeerReorg, Headers!Expire, Headers!vars
<1> QED
  BY <1>1, <1>2, <1>3, <1>4, <1>5, <1>6 DEF Headers!Next

\* A match lists the ancestors of the batch's header from the newest down to
\* the verified height (MatchSound), for every number of jobs, peers and
\* headers, although verify takes whatever answers the one channel brought:
\* those of other jobs, of peers on another fork, of peers that reorganised.
THEOREM MatchAlwaysSound == ASSUME HeaderConstants PROVE Headers!Spec => []MatchSound
<1>1. Headers!Init => MatchInv
  BY DEF Headers!Init, MatchInv
<1>2. MatchInv /\ [Headers!Next]_Headers!vars => MatchInv'
  BY MatchStep
<1>3. MatchInv => MatchSound
  BY DEF MatchInv, MatchSound, Headers!MatchSound, SoundResult
<1> QED
  BY <1>1, <1>2, <1>3, PTL DEF Headers!Spec
=============================================================================
