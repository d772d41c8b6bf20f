---------------------------- MODULE FileDownload ----------------------------
(***************************************************************************)
(* The download of files from the storage server (ftransfer: ReadFile,     *)
(* receiveFile2Disk, sendCSFile, TransmitFromCS, DoReadDataRet and the     *)
(* handlers of both sides), one after the other on one connection.         *)
(*                                                                         *)
(* A piece is <<file, k>>, the k-th of the file; pieces are kept under the *)
(* number of their message only, on the server (peerDownDatas) as on the   *)
(* client (localDatas).                                                    *)
(***************************************************************************)
EXTENDS Naturals, Sequences

CONSTANTS
    Chunks,     \* the number of pieces of each file
    Slow,       \* may a time-out strike while what it waits for is under way?
    Faults,     \* what may go wrong: "err" (a read fails), "share" (it fails and
                \* has no buffer), "nil" (it has no result), "disk" (saving fails)
    MaxFaults   \* bound on faults

Files  == DOMAIN Chunks
Seqs   == UNION {1..(Chunks[f] + MaxFaults + 1) : f \in Files}  \* as many as are used
Pieces == {p \in Files \X Nat : p[2] \in 1..Chunks[p[1]]}
None   == <<0, 0>>
Empty  == <<0, 1>>      \* no bytes
Zeros  == <<0, 2>>      \* the buffer of a failed read, RawSize 0

VARIABLES
    (* the client *)
    cur, ret,   \* the file of the last call of ReadFile and what each returned
    busy,       \* does that call still run?
    head,       \* the file in fileHead, 0 for none
    failed,     \* interactWithCSfailed of the client's heads
    rcv,        \* receiveFile2Disk: [st, seq, got]
    disk,       \* the pieces saved
    local,      \* localDatas
    pct, exits, fin,  \* goroutines that offer a percentage, an exit, a failure
    (* the connection *)
    c2s, s2c, data,
    (* the server *)
    csMap, csHead,    \* the file in fileHead, and [ack, failed] of the heads
    snd,        \* sendCSFile: [st, seq, got, fh, again]
    bak,        \* msgDataBak of each sendCSFile
    store,      \* peerDownDatas
    rd,         \* TransmitFromCS: [f, fh, seq, k]
    faults, hit,      \* how many faults, and which files met one
    cut         \* the connection has been given up

clientVars == <<cur, ret, busy, head, failed, rcv, disk, local, pct, exits, fin>>
netVars    == <<c2s, s2c, data>>
csVars     == <<csMap, csHead, snd, bak, store, rd>>
vars       == <<clientVars, netVars, csVars, faults, hit, cut>>

Init ==
    /\ cur = 0 /\ ret = [f \in Files |-> "none"] /\ busy = FALSE
    /\ head = 0 /\ failed = [f \in Files |-> FALSE]
    /\ rcv = [f \in Files |-> [st |-> "none", seq |-> 1, got |-> 0]]
    /\ disk = [f \in Files |-> <<>>] /\ local = [s \in Seqs |-> None]
    /\ pct = {} /\ exits = 0 /\ fin = 0
    /\ c2s = <<>> /\ s2c = <<>> /\ data = {}
    /\ csMap = 0 /\ csHead = [f \in Files |-> [ack |-> 0, failed |-> FALSE]]
    /\ snd = [f \in Files |-> [st |-> "none", seq |-> 1, got |-> 0, fh |-> 0, again |-> FALSE]]
    /\ bak = [f \in Files |-> [s \in Seqs |-> None]]
    /\ store = [s \in Seqs |-> None] /\ rd = {}
    /\ faults = 0 /\ hit = {} /\ cut = FALSE

Fault(kind, f) ==
    /\ kind \in Faults /\ faults < MaxFaults
    /\ faults' = faults + 1 /\ hit' = hit \union {f}

-----------------------------------------------------------------------------
(* ReadFile.                                                               *)

\* SendReadFileReq.
ReadFile ==
    /\ ~busy /\ cur < Len(Chunks)
    /\ cur' = cur + 1 /\ busy' = TRUE /\ head' = cur + 1
    /\ c2s' = Append(c2s, cur + 1)
    /\ UNCHANGED <<ret, failed, rcv, disk, local, pct, exits, fin, s2c, data, csVars, faults, hit, cut>>

Return(r) == busy' = FALSE /\ ret' = [ret EXCEPT ![cur] = r]

\* A percentage, whoever offers it: 100 ends the call.
TakeRate(p) ==
    /\ busy
    /\ pct' = pct \ {p}
    /\ IF p[2] = Chunks[p[1]] THEN Return("true") ELSE UNCHANGED <<busy, ret>>
    /\ UNCHANGED <<cur, head, failed, rcv, disk, local, exits, fin, netVars, csVars, faults, hit, cut>>

TakeExit ==
    /\ busy /\ exits > 0
    /\ exits' = exits - 1 /\ Return("false")
    /\ UNCHANGED <<cur, head, failed, rcv, disk, local, pct, fin, netVars, csVars, faults, hit, cut>>

TakeFailure ==
    /\ busy /\ fin > 0
    /\ fin' = fin - 1 /\ exits' = exits + 1
    /\ UNCHANGED <<cur, ret, busy, head, failed, rcv, disk, local, pct, netVars, csVars, faults, hit, cut>>

-----------------------------------------------------------------------------
(* The handlers of the client.                                             *)

\* DoFileReadOp; without a file head the connection is given up.
HandleRsp ==
    /\ s2c # <<>> /\ Head(s2c) = "rsp"
    /\ s2c' = Tail(s2c)
    /\ IF head = 0 THEN cut' = TRUE /\ UNCHANGED <<failed, rcv, disk>>
       ELSE /\ failed' = [failed EXCEPT ![head] = FALSE]
            /\ rcv' = [rcv EXCEPT ![head] = [st |-> "top", seq |-> 1, got |-> 0]]
            /\ disk' = [disk EXCEPT ![head] = <<>>]
            /\ UNCHANGED cut
    /\ UNCHANGED <<cur, ret, busy, head, local, pct, exits, fin, c2s, data, csVars, faults, hit>>

\* ReadFileTerminateMsg, of whatever file is being read now.
HandleTerminate ==
    /\ s2c # <<>> /\ Head(s2c) = "terminate" /\ (Slow \/ data = {})
    /\ s2c' = Tail(s2c)
    /\ failed' = IF head # 0 THEN [failed EXCEPT ![head] = TRUE] ELSE failed
    /\ fin' = fin + 1
    /\ UNCHANGED <<cur, ret, busy, head, rcv, disk, local, pct, exits, c2s, data, csVars, faults, hit, cut>>

\* pushLocalData, a goroutine for each message.
PushLocalData(d) ==
    /\ data' = data \ {d}
    /\ local' = [local EXCEPT ![d.seq] = d.piece]
    /\ UNCHANGED <<cur, ret, busy, head, failed, rcv, disk, pct, exits, fin, c2s, s2c, csVars, faults, hit, cut>>

-----------------------------------------------------------------------------
(* receiveFile2Disk.                                                       *)

\* The deferred delete takes whatever head there is.
ReceiveDone(f) == rcv' = [rcv EXCEPT ![f].st = "done"] /\ head' = 0

ReceiveTop(f) ==
    /\ rcv[f].st = "top"
    /\ IF failed[f] THEN ReceiveDone(f) ELSE rcv' = [rcv EXCEPT ![f].st = "wait"] /\ UNCHANGED head
    /\ UNCHANGED <<cur, ret, busy, failed, disk, local, pct, exits, fin, netVars, csVars, faults, hit, cut>>

Final(f, got) == got >= Chunks[f]

\* Mutant of PopLocalData: the piece stays where it is kept.
PopLocalDataKept(seq) == local

\* popLocalData takes the piece out of localDatas.
PopLocalData(seq) == [local EXCEPT ![seq] = None]

\* GetLocalData, and the piece is saved.  Zeros count as no bytes at all.
ReceivePiece(f) ==
    LET r == rcv[f]
        p == local[r.seq]
        n == IF p = Zeros THEN r.got ELSE r.got + 1
    IN  /\ r.st = "wait" /\ p # None
        /\ local' = PopLocalData(r.seq)
        /\ disk' = IF p = Zeros THEN disk ELSE [disk EXCEPT ![f] = Append(disk[f], p)]
        /\ pct' = IF n = 0 THEN pct
                  ELSE pct \union {<<f, IF Final(f, n) THEN Chunks[f] ELSE n>>}
        /\ IF Final(f, n) THEN ReceiveDone(f)
           ELSE rcv' = [rcv EXCEPT ![f] = [st |-> "top", seq |-> r.seq + 1, got |-> n]] /\ UNCHANGED head
        /\ UNCHANGED <<cur, ret, busy, failed, exits, fin, netVars, csVars, faults, hit, cut>>

\* No key, or the disk is full: the server is not told.
ReceiveError(f) ==
    LET r == rcv[f]
    IN  /\ r.st = "wait" /\ local[r.seq] # None /\ Fault("disk", f)
        /\ local' = PopLocalData(r.seq)
        /\ ReceiveDone(f) /\ fin' = fin + 1
        /\ UNCHANGED <<cur, ret, busy, failed, disk, pct, exits, netVars, csVars, cut>>

\* seqAckDiff
Behind(f) == snd[f].seq > csHead[snd[f].fh].ack + 1

\* Nothing is under way that a waiting goroutine could still get.
Quiet == /\ rd = {} /\ data = {} /\ c2s = <<>> /\ s2c = <<>>
         /\ \A f \in Files :
               /\ rcv[f].st # "top" /\ (rcv[f].st = "wait" => local[rcv[f].seq] = None)
               /\ snd[f].st \notin {"start", "top"} /\ (snd[f].st = "get" => store[snd[f].seq] = None)
               /\ (snd[f].st = "ack" => Behind(f))

TimedOut == Slow \/ Quiet

\* Mutant of ReceiveTimeout: the failure is not reported.
ReceiveTimeoutSilent(f) ==
    /\ rcv[f].st = "wait" /\ local[rcv[f].seq] = None /\ TimedOut
    /\ ReceiveDone(f)
    /\ UNCHANGED <<cur, ret, busy, failed, disk, local, pct, exits, fin, netVars, csVars, faults, hit, cut>>

ReceiveTimeout(f) ==
    /\ rcv[f].st = "wait" /\ local[rcv[f].seq] = None /\ TimedOut
    /\ ReceiveDone(f) /\ fin' = fin + 1
    /\ UNCHANGED <<cur, ret, busy, failed, disk, local, pct, exits, netVars, csVars, faults, hit, cut>>

-----------------------------------------------------------------------------
(* The server: HandleTransferReq, DoFileReadRsp and sendCSFile.            *)

HandleReq ==
    /\ c2s # <<>>
    /\ c2s' = Tail(c2s) /\ s2c' = Append(s2c, "rsp")
    /\ csMap' = Head(c2s)
    /\ csHead' = [csHead EXCEPT ![Head(c2s)] = [ack |-> 0, failed |-> FALSE]]
    /\ snd' = [snd EXCEPT ![Head(c2s)].st = "start"]
    /\ UNCHANGED <<clientVars, data, bak, store, rd, faults, hit, cut>>

SendStart(f) ==
    /\ snd[f].st = "start"
    /\ snd' = IF csMap = 0 THEN [snd EXCEPT ![f].st = "done"]
              ELSE [snd EXCEPT ![f].st = "top", ![f].fh = csMap]
    /\ UNCHANGED <<clientVars, netVars, csMap, csHead, bak, store, rd, faults, hit, cut>>

SendDone(f) == snd' = [snd EXCEPT ![f].st = "done"] /\ csMap' = 0

\* Is there anything left of the file whose head was found?
SendTop(f) ==
    LET s == snd[f]
    IN  /\ s.st = "top"
        /\ IF csHead[s.fh].failed \/ s.got >= Chunks[s.fh] THEN SendDone(f)
           ELSE snd' = [snd EXCEPT ![f].st = "ack"] /\ UNCHANGED csMap
        /\ UNCHANGED <<clientVars, netVars, csHead, bak, store, rd, faults, hit, cut>>

\* The next read is started.
SendRead(f) ==
    LET s == snd[f]
    IN  /\ s.st = "ack" /\ ~Behind(f)
        /\ rd' = rd \union {[f |-> f, fh |-> s.fh, seq |-> s.seq, k |-> s.got + 1]}
        /\ snd' = [snd EXCEPT ![f].st = "get", ![f].again = FALSE]
        /\ UNCHANGED <<clientVars, netVars, csMap, csHead, bak, store, faults, hit, cut>>

\* downloadTryCount is reached for the first time.
SendAgain(f) ==
    LET a == csHead[snd[f].fh].ack + 1
    IN  /\ snd[f].st = "ack" /\ Behind(f) /\ ~snd[f].again /\ TimedOut
        /\ data' = data \union {[f |-> f, seq |-> a, piece |-> bak[f][a]]}
        /\ snd' = [snd EXCEPT ![f].again = TRUE]
        /\ UNCHANGED <<clientVars, c2s, s2c, csMap, csHead, bak, store, rd, faults, hit, cut>>

\* getDownData, and the piece is sent.
SendPiece(f) ==
    LET s == snd[f]
        p == store[s.seq]
        n == IF p = Zeros THEN s.got ELSE s.got + 1
    IN  /\ s.st = "get" /\ p \notin {None, Empty}
        /\ store' = [store EXCEPT ![s.seq] = None]
        /\ data' = data \union {[f |-> f, seq |-> s.seq, piece |-> p]}
        /\ bak' = [bak EXCEPT ![f][s.seq] = p]
        /\ IF n >= Chunks[f] THEN SendDone(f)
           ELSE /\ snd' = [snd EXCEPT ![f].st = "top", ![f].seq = s.seq + 1, ![f].got = n]
                /\ UNCHANGED csMap
        /\ UNCHANGED <<clientVars, c2s, s2c, csHead, rd, faults, hit, cut>>

\* The entry is empty, and stays, or the wait is over.
SendFails(f) ==
    LET s == snd[f]
        p == store[s.seq]
    IN  /\ \/ s.st = "get" /\ (p = Empty \/ (p = None /\ TimedOut))
           \/ s.st = "ack" /\ Behind(f) /\ s.again /\ TimedOut
        /\ s2c' = Append(s2c, "terminate")
        /\ SendDone(f)
        /\ UNCHANGED <<clientVars, c2s, data, csHead, bak, store, rd, faults, hit, cut>>

-----------------------------------------------------------------------------
(* TransmitFromCS and DoReadDataRet, for the file head the peer has now.   *)

Answer(r, p) ==
    /\ rd' = rd \ {r}
    /\ store' = IF csMap = 0 THEN store ELSE [store EXCEPT ![r.seq] = p]

ReadRet(r) ==
    /\ Answer(r, <<r.fh, r.k>>)
    /\ csHead' = IF csMap # 0 /\ csHead[csMap].ack < r.seq
                 THEN [csHead EXCEPT ![csMap].ack = r.seq] ELSE csHead
    /\ UNCHANGED <<clientVars, netVars, csMap, snd, bak, faults, hit, cut>>

ReadRetError(r) ==
    /\ \/ Fault("err", r.f) /\ Answer(r, Zeros)
       \/ Fault("share", r.f) /\ Answer(r, Empty)
    /\ IF csMap = 0 THEN UNCHANGED <<csMap, csHead, s2c>>
       ELSE /\ csHead' = [csHead EXCEPT ![csMap].failed = TRUE]
            /\ csMap' = 0
            /\ s2c' = Append(s2c, "terminate")
    /\ UNCHANGED <<clientVars, c2s, data, snd, bak, cut>>

\* The read has no result: nobody is told.
ReadRetNil(r) ==
    /\ Fault("nil", r.f)
    /\ rd' = rd \ {r}
    /\ UNCHANGED <<clientVars, netVars, csMap, csHead, snd, bak, store, cut>>

Next ==
    /\ ~cut
    /\ \/ ReadFile \/ TakeExit \/ TakeFailure
       \/ \E p \in pct : TakeRate(p)
       \/ HandleRsp \/ HandleTerminate \/ HandleReq
       \/ \E d \in data : PushLocalData(d)
       \/ \E f \in Files : \/ ReceiveTop(f) \/ ReceivePiece(f) \/ ReceiveError(f) \/ ReceiveTimeout(f)
                           \/ SendStart(f) \/ SendTop(f) \/ SendRead(f) \/ SendAgain(f) \/ SendPiece(f) \/ SendFails(f)
       \/ \E r \in rd : ReadRet(r) \/ ReadRetError(r) \/ ReadRetNil(r)

Spec == Init /\ [][Next]_vars

\* Goroutines run on and timers go off.
FairSpec == Spec /\ WF_vars(Next)

-----------------------------------------------------------------------------
(* Properties.                                                             *)

DownloadTypeOK ==
    /\ cur \in 0..Len(Chunks) /\ ret \in [Files -> {"none", "true", "false"}] /\ busy \in BOOLEAN
    /\ head \in Files \union {0} /\ failed \in [Files -> BOOLEAN]
    /\ rcv \in [Files -> [st : {"none", "top", "wait", "done"}, seq : Seqs, got : Nat]]
    /\ disk \in [Files -> Seq(Pieces)] /\ local \in [Seqs -> Pieces \union {None, Zeros}]
    /\ pct \subseteq Pieces /\ exits \in Nat /\ fin \in Nat
    /\ data \subseteq [f : Files, seq : Seqs, piece : Pieces \union {Zeros}]
    /\ csMap \in Files \union {0} /\ csHead \in [Files -> [ack : Nat, failed : BOOLEAN]]
    /\ snd \in [Files -> [st : {"none", "start", "top", "ack", "get", "done"}, seq : Seqs,
                          got : Nat, fh : Files \union {0}, again : BOOLEAN]]
    /\ bak \in [Files -> [Seqs -> Pieces \union {None, Zeros}]]
    /\ store \in [Seqs -> Pieces \union {None, Empty, Zeros}]
    /\ rd \subseteq [f : Files, fh : Files, seq : Seqs, k : Nat]

\* "The file saved in ... successfully": ReadFile returns this only when the
\* file on the disk is whole, every piece once and in its place, although
\* pieces and percentages do not say which file they are of.
SavedWhole ==
    \A f \in Files : ret[f] = "true" => disk[f] = [k \in 1..Chunks[f] |-> <<f, k>>]

\* A download fails ("File transfer failed, cs error") only when something
\* failed while it was carried out, not for what happened to an earlier one.
FailsForCause == \A f \in Files : ret[f] = "false" => f \in hit
=============================================================================
