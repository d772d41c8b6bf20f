----------------------------- MODULE FileUpload -----------------------------
(***************************************************************************)
(* The upload of files from a client to its storage server (ftransfer:     *)
(* WriteFile, sendFile, receiveFile2CS, TransmitToCS, DoWriteDataRet and   *)
(* the message handlers of both sides), one after the other on one         *)
(* connection.  Every loop is a goroutine of its own, and so is every      *)
(* write, every push of a piece and every value on its way to a channel.   *)
(*                                                                         *)
(* A file is a number, a piece of it <<file, seq>>.  A message carries one *)
(* piece, a bag of the receiver (UploadBuffers shows what happens to the   *)
(* others).  All files go to places of one object, and all requests and    *)
(* pieces are signed by the one client.                                    *)
(***************************************************************************)
EXTENDS Naturals, Sequences

CONSTANTS
    Chunks,     \* the number of pieces of each file
    Slow,       \* may a time-out strike while what it waits for is under way?
    Lagging,    \* may WriteFile be behind with its channels by a round trip?
    Faults,     \* what may go wrong with a write: "err" (it fails), "nil" (no object)
    MaxFaults   \* bound on faults

Files == DOMAIN Chunks
None  == <<0, 0>>
Seqs  == UNION {1..Chunks[f] : f \in Files}
Data  == Files \X Seqs

VARIABLES
    (* the client *)
    cur,    \* the file of the last call of WriteFile
    api,    \* where that call is: "idle", "outer", "inner", "crit"
    ret,    \* what it returned
    head,   \* the file in fileHead and fileToTransfer, 0 for none: [f, ack, failed]
    snd,    \* sendFile: [st, seq, again]
    pct,    \* goroutines that offer a percentage: pieces
    exits,  \* goroutines that offer TransferPercentExit
    fin,    \* goroutines that offer a result: how many of each
    (* the connection *)
    c2s, s2c,
    data,   \* pieces sent and not yet pushed: [f, seq, again]
    (* the server *)
    csMap,  \* the file in fileHead, 0 for none
    csHead, \* [size, failed] of each file
    up,     \* peerUpDatas: the piece kept under each number
    rcv,    \* receiveFile2CS of each file: [st, seq, fh]
    arr,    \* the array behind leftBuf of each receiver
    wr,     \* TransmitToCS: [f, fh, seq, buff, pc, ok]
    csOff,  \* the offset of the object
    store,  \* what the object holds
    faults, down

clientVars == <<cur, api, ret, head, snd, pct, exits, fin>>
netVars    == <<c2s, s2c, data>>
csVars     == <<csMap, csHead, up, rcv, arr, wr, csOff, store, faults, down>>
vars       == <<clientVars, netVars, csVars>>

NoHead == [f |-> 0, ack |-> 0, failed |-> FALSE]
NoSend == [st |-> "none", seq |-> 0, again |-> FALSE]
NoData == [s \in Seqs |-> None]

Init ==
    /\ cur = 0 /\ api = "idle" /\ ret = [f \in Files |-> "none"]
    /\ head = NoHead /\ snd = NoSend
    /\ pct = {} /\ exits = 0 /\ fin = [r \in BOOLEAN |-> 0]
    /\ c2s = <<>> /\ s2c = <<>> /\ data = {}
    /\ csMap = 0 /\ csHead = [f \in Files |-> [size |-> 0, failed |-> FALSE]]
    /\ up = NoData /\ rcv = [f \in Files |-> [st |-> "none", seq |-> 0, fh |-> 0]]
    /\ arr = [f \in Files |-> None] /\ wr = {} /\ csOff = None
    /\ store = [p \in Data |-> None]
    /\ faults = 0 /\ down = FALSE

Rsp            == [t |-> "rsp"]
Progress(seq)  == [t |-> "progress", seq |-> seq]
Result(r)      == [t |-> "result", ret |-> r]

-----------------------------------------------------------------------------
(* WriteFile.  Called while a file is in fileToTransfer it returns at once *)
(* ("can not transfer two files simultaneously").                          *)

WriteFile ==
    /\ api = "idle" /\ cur < Len(Chunks) /\ head = NoHead
    /\ cur' = cur + 1 /\ api' = "outer"
    /\ head' = [NoHead EXCEPT !.f = cur + 1]
    /\ c2s' = Append(c2s, [t |-> "req", f |-> cur + 1])
    /\ UNCHANGED <<ret, snd, pct, exits, fin, s2c, data, csVars>>

Last(p) == p[2] = Chunks[p[1]]

Return(r) == /\ api' = "idle" /\ ret' = [ret EXCEPT ![cur] = r]

\* A percentage, 100 of the last piece.
TakeRate(p) ==
    /\ api = "outer"
    /\ pct' = pct \ {p}
    /\ api' = IF Last(p) THEN "inner" ELSE "outer"
    /\ UNCHANGED <<cur, ret, head, snd, exits, fin, netVars, csVars>>

TakeExit ==
    /\ api = "outer" /\ exits > 0
    /\ exits' = exits - 1
    /\ Return("false")
    /\ UNCHANGED <<cur, head, snd, pct, fin, netVars, csVars>>

\* A result before 100 percent: "there can not be true".
TakeResultEarly(r) ==
    /\ api = "outer" /\ fin[r] > 0 /\ (Lagging \/ pct = {})
    /\ fin' = [fin EXCEPT ![r] = fin[r] - 1]
    /\ IF r THEN api' = "crit" /\ UNCHANGED exits ELSE exits' = exits + 1 /\ UNCHANGED api
    /\ UNCHANGED <<cur, ret, head, snd, pct, netVars, csVars>>

TakeResult(r) ==
    /\ api = "inner" /\ fin[r] > 0
    /\ fin' = [fin EXCEPT ![r] = fin[r] - 1]
    /\ Return(IF r THEN "true" ELSE "false")
    /\ UNCHANGED <<cur, head, snd, pct, exits, netVars, csVars>>

-----------------------------------------------------------------------------
(* The handlers of the client.                                             *)

\* DoFileSendOp.
HandleRsp ==
    /\ s2c # <<>> /\ Head(s2c).t = "rsp" /\ head.f # 0
    /\ s2c' = Tail(s2c)
    /\ head' = [head EXCEPT !.failed = FALSE]
    /\ snd' = [st |-> "top", seq |-> 1, again |-> FALSE]
    /\ UNCHANGED <<cur, api, ret, pct, exits, fin, c2s, data, csVars>>

\* SetAckID of whatever file is being sent now.
HandleProgress ==
    /\ s2c # <<>> /\ Head(s2c).t = "progress"
    /\ s2c' = Tail(s2c)
    /\ head' = IF head.f # 0 /\ head.ack < Head(s2c).seq
               THEN [head EXCEPT !.ack = Head(s2c).seq] ELSE head
    /\ UNCHANGED <<cur, api, ret, snd, pct, exits, fin, c2s, data, csVars>>

HandleResult ==
    /\ s2c # <<>> /\ Head(s2c).t = "result"
    /\ s2c' = Tail(s2c)
    /\ head' = IF head.f # 0 THEN [head EXCEPT !.failed = TRUE] ELSE head
    /\ fin' = [fin EXCEPT ![Head(s2c).ret] = fin[Head(s2c).ret] + 1]
    /\ UNCHANGED <<cur, api, ret, snd, pct, exits, c2s, data, csVars>>

-----------------------------------------------------------------------------
(* sendFile.                                                               *)

\* Mutant of SeqAckDiff: two pieces may be on their way.
SeqAckDiffTwo == 2

SeqAckDiff == 1

Behind == snd.seq > head.ack + SeqAckDiff

\* Nothing is under way that a waiting goroutine could still get.
Quiet == /\ wr = {} /\ data = {} /\ c2s = <<>> /\ s2c = <<>>
         /\ snd.st # "top" /\ (snd.st = "wait" => Behind)
         /\ \A f \in Files : \/ rcv[f].st \in {"none", "done"}
                            \/ (rcv[f].st = "wait" /\ up[rcv[f].seq] = None)

TimedOut == Slow \/ Quiet

EndSend == snd' = NoSend /\ head' = NoHead

SendTop ==
    /\ snd.st = "top"
    /\ IF head.failed THEN EndSend
       ELSE snd' = [snd EXCEPT !.st = "wait", !.again = FALSE] /\ UNCHANGED head
    /\ UNCHANGED <<cur, api, ret, pct, exits, fin, netVars, csVars>>

SendPiece ==
    /\ snd.st = "wait" /\ ~Behind
    /\ data' = data \union {[f |-> head.f, seq |-> snd.seq, again |-> FALSE]}
    /\ pct' = pct \union {<<head.f, snd.seq>>}
    /\ IF snd.seq = Chunks[head.f] THEN EndSend
       ELSE snd' = [snd EXCEPT !.st = "top", !.seq = snd.seq + 1] /\ UNCHANGED head
    /\ UNCHANGED <<cur, api, ret, exits, fin, c2s, s2c, csVars>>

\* uploadTryCount is reached for the first time.
SendAgain ==
    /\ snd.st = "wait" /\ Behind /\ ~snd.again /\ TimedOut
    /\ data' = data \union {[f |-> head.f, seq |-> head.ack + 1, again |-> TRUE]}
    /\ snd' = [snd EXCEPT !.again = TRUE]
    /\ UNCHANGED <<cur, api, ret, head, pct, exits, fin, c2s, s2c, csVars>>

\* And for the second: the server is told, and WriteFile is not.
SendFails ==
    /\ snd.st = "wait" /\ Behind /\ snd.again /\ TimedOut
    /\ c2s' = Append(c2s, [t |-> "terminate"])
    /\ EndSend
    /\ UNCHANGED <<cur, api, ret, pct, exits, fin, s2c, data, csVars>>

-----------------------------------------------------------------------------
(* The handlers of the server.                                             *)

\* HandleTransferReq and DoFileSendRsp.
HandleReq ==
    /\ c2s # <<>> /\ Head(c2s).t = "req"
    /\ c2s' = Tail(c2s)
    /\ csMap' = Head(c2s).f
    /\ csHead' = [csHead EXCEPT ![Head(c2s).f] = [size |-> 0, failed |-> FALSE]]
    /\ rcv' = [rcv EXCEPT ![Head(c2s).f] = [st |-> "start", seq |-> 1, fh |-> 0]]
    /\ s2c' = Append(s2c, Rsp)
    /\ UNCHANGED <<clientVars, data, up, arr, wr, csOff, store, faults, down>>

HandleTerminate ==
    /\ c2s # <<>> /\ Head(c2s).t = "terminate"
    /\ c2s' = Tail(c2s)
    /\ csHead' = IF csMap # 0 THEN [csHead EXCEPT ![csMap].failed = TRUE] ELSE csHead
    /\ UNCHANGED <<clientVars, s2c, data, csMap, up, rcv, arr, wr, csOff, store, faults, down>>

\* pushFileData, a goroutine for each message.
PushFileData(d) ==
    /\ data' = data \ {d}
    /\ up' = [up EXCEPT ![d.seq] = <<d.f, d.seq>>]
    /\ UNCHANGED <<clientVars, c2s, s2c, csMap, csHead, rcv, arr, wr, csOff, store, faults, down>>

-----------------------------------------------------------------------------
(* receiveFile2CS.                                                         *)

\* The goroutine looks its file head up; without one it dereferences nil.
ReceiveStart(f) ==
    /\ rcv[f].st = "start"
    /\ IF csMap = 0 THEN down' = TRUE /\ UNCHANGED <<rcv, csHead>>
       ELSE /\ rcv' = [rcv EXCEPT ![f].st = "top", ![f].fh = csMap]
            /\ csHead' = [csHead EXCEPT ![csMap].size = 0]
            /\ UNCHANGED down
    /\ UNCHANGED <<clientVars, netVars, csMap, up, arr, wr, csOff, store, faults>>

ReceiveTop(f) ==
    /\ rcv[f].st = "top"
    /\ IF csHead[rcv[f].fh].failed
       THEN /\ csMap' = 0 /\ up' = NoData
            /\ s2c' = Append(s2c, Result(FALSE))
            /\ rcv' = [rcv EXCEPT ![f].st = "done"]
       ELSE /\ rcv' = [rcv EXCEPT ![f].st = "wait"]
            /\ UNCHANGED <<csMap, up, s2c>>
    /\ UNCHANGED <<clientVars, c2s, data, csHead, arr, wr, csOff, store, faults, down>>

\* popUpData, and the piece is handed to a goroutine that writes it, in the
\* array the next piece will be put in.
ReceivePiece(f) ==
    LET r == rcv[f]
    IN  /\ r.st = "wait" /\ up[r.seq] # None
        /\ up' = [up EXCEPT ![r.seq] = None]
        /\ arr' = [arr EXCEPT ![f] = up[r.seq]]
        /\ wr' = wr \union {[f |-> f, fh |-> r.fh, seq |-> r.seq, buff |-> up[r.seq],
                             pc |-> "seek", ok |-> FALSE]}
        /\ rcv' = IF r.seq = Chunks[f] THEN [rcv EXCEPT ![f].st = "done"]
                  ELSE [rcv EXCEPT ![f].st = "top", ![f].seq = r.seq + 1]
        /\ UNCHANGED <<clientVars, netVars, csMap, csHead, csOff, store, faults, down>>

\* getUpData gives up, and nobody is told.
ReceiveTimeout(f) ==
    /\ rcv[f].st = "wait" /\ up[rcv[f].seq] = None /\ TimedOut
    /\ rcv' = [rcv EXCEPT ![f].st = "done"]
    /\ UNCHANGED <<clientVars, netVars, csMap, csHead, up, arr, wr, csOff, store, faults, down>>

-----------------------------------------------------------------------------
(* TransmitToCS.                                                           *)

Becomes(w, v) == wr' = (wr \ {w}) \union {v}

\* GetObject fails: "rsp nil", and nobody is told.
NoObject(w) ==
    /\ w.pc = "seek" /\ "nil" \in Faults /\ faults < MaxFaults
    /\ wr' = wr \ {w} /\ faults' = faults + 1
    /\ UNCHANGED <<clientVars, netVars, csMap, csHead, up, rcv, arr, csOff, store, down>>

DoSeek(w) ==
    /\ w.pc = "seek"
    /\ csOff' = <<w.fh, w.seq>>
    /\ Becomes(w, [w EXCEPT !.pc = "write"])
    /\ UNCHANGED <<clientVars, netVars, csMap, csHead, up, rcv, arr, store, faults, down>>

\* The offset and the array are read by now.
Write(w) ==
    /\ w.pc = "write"
    /\ store' = [store EXCEPT ![csOff] = arr[w.f]]
    /\ Becomes(w, [w EXCEPT !.pc = "rsp", !.ok = TRUE])
    /\ UNCHANGED <<clientVars, netVars, csMap, csHead, up, rcv, arr, csOff, faults, down>>

\* The object may hold the piece all the same.
WriteFails(w) ==
    /\ w.pc = "write" /\ "err" \in Faults /\ faults < MaxFaults
    /\ store' \in {store, [store EXCEPT ![csOff] = arr[w.f]]}
    /\ faults' = faults + 1
    /\ Becomes(w, [w EXCEPT !.pc = "rsp"])
    /\ UNCHANGED <<clientVars, netVars, csMap, csHead, up, rcv, arr, csOff, down>>

\* Mutant of Stored: one piece may be missing.
StoredAlmost(size, f) == size + 1 >= Chunks[f]

Stored(size, f) == size >= Chunks[f]

\* The result goes to the file head the peer has now.
DoWriteDataRet(w) ==
    LET size == csHead[csMap].size + 1
    IN  /\ w.pc = "rsp"
        /\ wr' = wr \ {w}
        /\ \/ /\ csMap = 0
              /\ UNCHANGED <<csMap, csHead, s2c>>
           \/ /\ csMap # 0 /\ ~w.ok
              /\ csHead' = [csHead EXCEPT ![csMap].failed = TRUE]
              /\ s2c' = Append(s2c, Result(FALSE))
              /\ csMap' = 0
           \/ /\ csMap # 0 /\ w.ok
              /\ csHead' = [csHead EXCEPT ![csMap].size = size]
              /\ IF Stored(size, csMap)
                 THEN csMap' = 0 /\ s2c' = s2c \o <<Progress(w.seq), Result(TRUE)>>
                 ELSE s2c' = Append(s2c, Progress(w.seq)) /\ UNCHANGED csMap
        /\ UNCHANGED <<clientVars, c2s, data, up, rcv, arr, csOff, store, faults, down>>

-----------------------------------------------------------------------------

Dead == api = "crit" \/ down

Next ==
    /\ ~Dead
    /\ \/ WriteFile \/ TakeExit
       \/ \E p \in pct : TakeRate(p)
       \/ \E r \in BOOLEAN : TakeResultEarly(r) \/ TakeResult(r)
       \/ HandleRsp \/ HandleProgress \/ HandleResult
       \/ SendTop \/ SendPiece \/ SendAgain \/ SendFails
       \/ HandleReq \/ HandleTerminate
       \/ \E d \in data : PushFileData(d)
       \/ \E f \in Files : \/ ReceiveStart(f) \/ ReceiveTop(f)
                           \/ ReceivePiece(f) \/ ReceiveTimeout(f)
       \/ \E w \in wr : NoObject(w) \/ DoSeek(w) \/ Write(w) \/ WriteFails(w) \/ DoWriteDataRet(w)

Spec == Init /\ [][Next]_vars

\* Goroutines run on and timers go off.
FairSpec == Spec /\ WF_vars(Next)

-----------------------------------------------------------------------------
(* Properties.                                                             *)

UploadTypeOK ==
    /\ cur \in 0..Len(Chunks) /\ api \in {"idle", "outer", "inner", "crit"}
    /\ ret \in [Files -> {"none", "true", "false"}]
    /\ head \in [f : Files \union {0}, ack : Nat, failed : BOOLEAN]
    /\ snd \in [st : {"none", "top", "wait"}, seq : Nat, again : BOOLEAN]
    /\ snd.st # "none" => head.f # 0
    /\ pct \subseteq Data /\ exits \in Nat /\ fin \in [BOOLEAN -> Nat]
    /\ data \subseteq [f : Files, seq : Seqs, again : BOOLEAN]
    /\ csMap \in Files \union {0} /\ csHead \in [Files -> [size : Nat, failed : BOOLEAN]]
    /\ up \in [Seqs -> Data \union {None}]
    /\ rcv \in [Files -> [st : {"none", "start", "top", "wait", "done"}, seq : Nat, fh : Files \union {0}]]
    /\ arr \in [Files -> Data \union {None}]
    /\ wr \subseteq [f : Files, fh : Files, seq : Seqs, buff : Data,
                     pc : {"seek", "write", "rsp"}, ok : BOOLEAN]
    /\ csOff \in Data \union {None} /\ store \in [Data -> Data \union {None}]
    /\ faults \in 0..MaxFaults /\ down \in BOOLEAN

\* WriteFile returns true only when the object holds every piece of the file,
\* each at its place: the counting of written bytes per peer, the pieces kept
\* under their numbers only, the shared offset and the shared array together
\* never let a wrong piece through.
SuccessStored ==
    \A f \in Files : ret[f] = "true" => \A s \in 1..Chunks[f] : store[<<f, s>>] = <<f, s>>

\* The array a piece is being written from is not filled with the next one
\* (leftBuf[:0] keeps it) as long as no upload has failed: only the window of
\* one piece sees to that.  Late pieces of an upload that gave up may be taken
\* for the next one's.
BufferStable ==
    \A w \in wr : w.pc # "rsp" /\ (\A g \in 1..(w.f - 1) : ret[g] # "false") => arr[w.f] = w.buff

\* "Wait for transfer to complete": every upload ends, one way or the other.
UploadEnds == \A f \in Files : (cur = f) ~> (ret[f] # "none")

\* "there can not be true": a good result never comes before 100 percent.
NoCrit == api # "crit"

\* "file head does not exist" is reported to the client.
HeadMissingReported == ~down
=============================================================================
