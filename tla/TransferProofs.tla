--------------------------- MODULE TransferProofs ---------------------------
(***************************************************************************)
(* The upload or download of one file of any length, with time-outs at any *)
(* moment, pieces sent again and writes and reads that fail or find        *)
(* nothing, for every bound on the faults; and the cipher on the way of its *)
(* bytes, for all sizes of blocks and pieces.                              *)
(*                                                                         *)
(* Uploads: the receiver fills one array with every piece and the write    *)
(* reads it later, in a goroutine of its own; the offset of the object is  *)
(* shared in the same way.  Nothing on the server holds the next piece     *)
(* back: the client sends it when the last one was acknowledged, and that  *)
(* is said after the write.  The invariant UInv follows the window from the *)
(* write to the acknowledgement, the client's count, the piece sent for it *)
(* and the piece kept by the server.                                       *)
(*                                                                         *)
(* Downloads: sendCSFile counts the piece that was read as acknowledged, so *)
(* it is never behind and sends nothing twice; a read that fails leaves    *)
(* zeros, which are not counted by either side and after which nothing is  *)
(* sent; the receiver has saved what it has counted (DInv).                *)
(*                                                                         *)
(* Cipher: what is stored is the file and its padding, byte by byte; whole *)
(* blocks do not change how much the last piece is filled (CInv).          *)
(***************************************************************************)
EXTENDS FileTransfer, SequenceTheorems, TLAPS

\* A single file, of any number of pieces.
OneUpload == \E c \in Nat \ {0} : Chunks = <<c>>

\* The receiver is past piece k; the object has the pieces up to k.
Past(k)  == k = 0 \/ rcv[1].st = "done" \/ k < rcv[1].seq
Whole(k) == \A s \in Seqs : s <= k => store[<<1, s>>] = <<1, s>>

\* What an acknowledgement of k promises: the pieces up to k are in the
\* object, and nothing is writing one of them any more.
Confirmed(k) == Past(k) /\ Whole(k) /\ \A w \in wr : w.seq > k

\* The types of the records.
HeadType  == [f : {0, 1}, ack : Nat, failed : BOOLEAN]
SendType  == [st : {"none", "top", "wait"}, seq : Nat, again : BOOLEAN]
PieceType == [f : {1}, seq : Seqs, again : BOOLEAN]
WriteType ==
    [f : {1}, fh : {1}, seq : Seqs, buff : Data, pc : {"seek", "write", "rsp"}, ok : BOOLEAN]

\* The variables of the client have their types.
ClientTypes ==
    /\ ret \in [{1} -> {"none", "true", "false"}]
    /\ cur \in {0, 1}
    /\ api # "idle" => cur = 1
    /\ head \in HeadType
    /\ snd \in SendType
    /\ snd.st # "none" => head.f = 1 /\ snd.seq \in Seqs
    /\ fin \in [BOOLEAN -> Nat]
    /\ data \subseteq PieceType

\* ... and so have those of the server, which keeps a piece under its number.
ServerTypes ==
    /\ csMap \in {0, 1} /\ csHead \in [{1} -> [size : Nat, failed : BOOLEAN]]
    /\ up \in [Seqs -> Data \union {None}]
    /\ \A s \in Seqs : up[s] \in {None, <<1, s>>}
    /\ rcv \in [{1} -> [st : {"none", "start", "top", "wait", "done"}, seq : Nat, fh : {0, 1}]]
    /\ IF rcv[1].st = "none" THEN rcv[1].seq = 0 ELSE rcv[1].seq \in Seqs
    /\ rcv[1].st \in {"top", "wait"} => rcv[1].fh = 1
    /\ wr \subseteq WriteType
    /\ arr \in [{1} -> Data \union {None}]
    /\ store \in [Data -> Data \union {None}]

\* The messages of the client.
Req == [t |-> "req", f |-> 1]
Terminate == [t |-> "terminate"]

\* Before the request is handled there is nothing else; after it the client
\* sends terminations only.
Requested ==
    /\ rcv[1].st = "none" =>
          /\ s2c = <<>> /\ data = {} /\ wr = {} /\ snd.st = "none"
          /\ \A s \in Seqs : up[s] = None
          /\ c2s = <<>> \/ c2s = <<Req>>
    /\ cur = 0 => rcv[1].st = "none" /\ c2s = <<>>
    /\ rcv[1].st # "none" => c2s \in Seq({Terminate})

\* An answer on its way tells the truth.
Answered(m) ==
    \/ m = Rsp
    \/ \E s \in Seqs : m = Progress(s) /\ Confirmed(s)
    \/ m = Result(FALSE)
    \/ m = Result(TRUE) /\ Whole(Chunks[1])

\* A write has its own piece in the array, and the offset of it when it comes
\* to write; it is the only one.
Writer(w) ==
    /\ w.buff = <<1, w.seq>> /\ Past(w.seq) /\ Whole(w.seq - 1)
    /\ w.pc = "write" => csOff = <<1, w.seq>>
    /\ w.pc # "rsp" => arr[1] = w.buff
    /\ w.pc # "rsp" => w.ok = FALSE
    /\ w.ok = TRUE => store[<<1, w.seq>>] = <<1, w.seq>>
    /\ csHead[1].size < w.seq
    /\ \A v \in wr : v = w

\* The messages of the server.
AnswerType ==
    [t : {"rsp"}] \cup [t : {"progress"}, seq : Seqs] \cup [t : {"result"}, ret : BOOLEAN]

\* The window of one piece: whatever comes after piece k, at the client, on its
\* way or kept by the server, is there because k was confirmed.
AckWindow  == Confirmed(head.ack)
Answers    == s2c \in Seq(AnswerType) /\ \A i \in 1..Len(s2c) : Answered(s2c[i])
DataWindow == \A d \in data : Confirmed(d.seq - 1)
UpWindow   == \A s \in Seqs : up[s] # None => Confirmed(s - 1)
Writers    == \A w \in wr : Writer(w)
Counted    == Past(csHead[1].size) /\ Whole(csHead[1].size)
Told       == /\ fin[TRUE] > 0 => Whole(Chunks[1])
              /\ ret[1] = "true" => Whole(Chunks[1])

\* The inductive invariant.
UInv == /\ ClientTypes /\ ServerTypes /\ Requested
        /\ AckWindow /\ Answers /\ DataWindow /\ UpWindow /\ Writers /\ Counted /\ Told

\* The sets of the model when there is one file.
LEMMA Consts ==
    ASSUME OneUpload
    PROVE  /\ Files = {1} /\ Chunks[1] \in Nat \ {0} /\ Seqs = 1..Chunks[1] /\ Len(Chunks) = 1
           /\ Data = {1} \X Seqs
           /\ \A s \in Seqs : <<1, s>> \in Data /\ <<1, s>> # None
           /\ 1 \in Seqs /\ Seqs \subseteq Nat /\ 0 \notin Seqs
<1>1. PICK c \in Nat \ {0} : Chunks = <<c>>
  BY DEF OneUpload
<1>2. Files = {1} /\ Chunks[1] = c /\ Len(Chunks) = 1
  BY <1>1 DEF Files
<1>3. Seqs = 1..c
  BY <1>1, <1>2 DEF Seqs
<1> QED BY <1>1, <1>2, <1>3 DEF Data, None

\* Assignments to the fields of the file head.
LEMMA HeadFields ==
    ASSUME NEW h \in HeadType, NEW k \in Nat, NEW b \in BOOLEAN
    PROVE  /\ [h EXCEPT !.failed = b] \in HeadType
           /\ [h EXCEPT !.failed = b].ack = h.ack /\ [h EXCEPT !.failed = b].f = h.f
           /\ [h EXCEPT !.ack = k] \in HeadType
           /\ [h EXCEPT !.ack = k].ack = k /\ [h EXCEPT !.ack = k].f = h.f
           /\ [h EXCEPT !.f = 1] \in HeadType
           /\ [h EXCEPT !.f = 1].ack = h.ack /\ [h EXCEPT !.f = 1].f = 1
  BY DEF HeadType

\* No file is under way.
LEMMA NoHeadFields == NoHead \in HeadType /\ NoHead.ack = 0 /\ NoHead.f = 0
  BY DEF NoHead, HeadType

\* ... and of the record of sendFile.
LEMMA SendFields ==
    ASSUME NEW r \in SendType, NEW k \in Nat
    PROVE  /\ [r EXCEPT !.st = "wait", !.again = FALSE] \in SendType
           /\ [r EXCEPT !.st = "wait", !.again = FALSE].seq = r.seq
           /\ [r EXCEPT !.st = "top", !.seq = k] \in SendType
           /\ [r EXCEPT !.st = "top", !.seq = k].seq = k
           /\ [r EXCEPT !.again = TRUE] \in SendType
           /\ [r EXCEPT !.again = TRUE].seq = r.seq
  BY DEF SendType

\* Nothing is being sent.
LEMMA NoSendFields == NoSend \in SendType /\ NoSend.st = "none"
  BY DEF NoSend, SendType

\* The invariant holds to begin with.
LEMMA InitInv ==
    ASSUME OneUpload, Init
    PROVE  UInv
<1>1. ClientTypes
  BY Consts, NoHeadFields, NoSendFields DEF Init, ClientTypes
<1>2. ServerTypes
  BY Consts DEF Init, ServerTypes, NoData, None
<1>3. Requested
  BY Consts, NoSendFields DEF Init, Requested, NoData
<1>4. AckWindow /\ Answers /\ DataWindow /\ UpWindow /\ Writers /\ Counted /\ Told
  BY Consts, NoHeadFields DEF Init, AckWindow, Answers, DataWindow, UpWindow, Writers, Counted, Told,
     Confirmed, Past, Whole, NoData
<1> QED BY <1>1, <1>2, <1>3, <1>4 DEF UInv

\* Nothing that Confirmed speaks of has changed.
LEMMA SameServer ==
    ASSUME UNCHANGED <<rcv, wr, store>>
    PROVE  /\ \A k : Confirmed(k)' = Confirmed(k) /\ Past(k)' = Past(k) /\ Whole(k)' = Whole(k)
           /\ \A m : Answered(m)' = Answered(m)
<1>1. \A k : Confirmed(k)' = Confirmed(k) /\ Past(k)' = Past(k) /\ Whole(k)' = Whole(k)
  BY DEF Confirmed, Past, Whole
<1> QED BY <1>1 DEF Answered

\* An acknowledged piece comes with those before it.
LEMMA ConfirmedDown ==
    ASSUME OneUpload, ServerTypes, NEW k \in Nat, Confirmed(k), NEW j \in Nat, j <= k
    PROVE  Confirmed(j)
<1>1. Past(j)
  BY DEF Confirmed, Past, ServerTypes
<1>2. Whole(j)
  <2>1. \A s \in Seqs : s <= j => s <= k
    BY Consts
  <2> QED BY <2>1 DEF Confirmed, Whole
<1>3. \A w \in wr : w.seq > j
  <2>1. \A w \in wr : w.seq \in Nat
    BY Consts DEF ServerTypes, WriteType
  <2> QED BY <2>1 DEF Confirmed
<1> QED BY <1>1, <1>2, <1>3 DEF Confirmed

\* What the client does leaves the server as it is.
LEMMA ServerKept ==
    ASSUME UNCHANGED csVars, ServerTypes, UpWindow, Writers, Counted
    PROVE  ServerTypes' /\ UpWindow' /\ Writers' /\ Counted'
<1>1. UNCHANGED <<rcv, wr, store, csMap, csHead, up, arr, csOff>>
  BY DEF csVars
<1>2. ServerTypes'
  BY <1>1 DEF ServerTypes
<1>3. UpWindow' /\ Counted'
  BY <1>1, SameServer DEF UpWindow, Counted
<1>4. Writers'
  BY <1>1, SameServer DEF Writers, Writer
<1> QED BY <1>2, <1>3, <1>4

\* The call of WriteFile.
LEMMA WriteFileInv ==
    ASSUME OneUpload, UInv, WriteFile
    PROVE  UInv'
<1>0. UNCHANGED csVars
  BY DEF WriteFile
<1>1. ServerTypes' /\ UpWindow' /\ Writers' /\ Counted'
  BY <1>0, ServerKept DEF UInv
<1>2. UNCHANGED <<rcv, wr, store, up>>
  BY <1>0 DEF csVars
<1>3. cur = 0 /\ cur' = 1 /\ head' \in HeadType /\ head'.f = 1 /\ head'.ack = 0
      /\ c2s' = Append(c2s, Req) /\ UNCHANGED <<ret, snd, fin, s2c, data>>
  <2>1. cur \in {0, 1} /\ cur < 1
    BY Consts DEF WriteFile, UInv, ClientTypes
  <2>2. cur = 0
    BY <2>1
  <2>3. /\ cur' = cur + 1 /\ head' = [NoHead EXCEPT !.f = cur + 1]
        /\ c2s' = Append(c2s, [t |-> "req", f |-> cur + 1])
        /\ UNCHANGED <<ret, snd, fin, s2c, data>>
    BY DEF WriteFile
  <2>4. head' = [NoHead EXCEPT !.f = 1]
    BY <2>2, <2>3
  <2>5. head' \in HeadType /\ head'.f = 1 /\ head'.ack = 0
    BY <2>4, HeadFields, NoHeadFields
  <2> QED BY <2>2, <2>3, <2>5 DEF Req
<1>4. ClientTypes'
  BY <1>3 DEF UInv, ClientTypes
<1>5. Requested'
  BY <1>2, <1>3 DEF UInv, Requested
<1>6. AckWindow'
  <2>1. Past(0) /\ Whole(0)
    BY Consts DEF Past, Whole
  <2>2. wr = {}
    BY <1>3 DEF UInv, Requested
  <2> QED BY <2>1, <2>2, <1>2, <1>3, SameServer DEF AckWindow, Confirmed
<1>7. Answers' /\ DataWindow' /\ Told'
  BY <1>2, <1>3, SameServer DEF UInv, Answers, DataWindow, Told
<1> QED BY <1>1, <1>4, <1>5, <1>6, <1>7 DEF UInv

\* The select of WriteFile.
LEMMA SelectInv ==
    ASSUME OneUpload, UInv,
           (\E p \in pct : TakeRate(p)) \/ TakeExit
              \/ (\E r \in BOOLEAN : TakeResultEarly(r) \/ TakeResult(r))
    PROVE  UInv'
<1>0. UNCHANGED csVars /\ UNCHANGED netVars /\ UNCHANGED <<cur, head, snd>>
  BY DEF TakeRate, TakeExit, TakeResultEarly, TakeResult
<1>1. ServerTypes' /\ UpWindow' /\ Writers' /\ Counted'
  BY <1>0, ServerKept DEF UInv
<1>2. UNCHANGED <<rcv, wr, store, up, c2s, s2c, data, cur, head, snd>>
  BY <1>0 DEF csVars, netVars
<1>3. api # "idle"
  BY DEF TakeRate, TakeExit, TakeResultEarly, TakeResult
<1>4. /\ fin' \in [BOOLEAN -> Nat] /\ (fin'[TRUE] > 0 => fin[TRUE] > 0)
      /\ ret' \in [{1} -> {"none", "true", "false"}]
      /\ ret'[1] = "true" => ret[1] = "true" \/ fin[TRUE] > 0
  <2>0. /\ fin \in [BOOLEAN -> Nat] /\ ret \in [{1} -> {"none", "true", "false"}] /\ cur = 1
    BY <1>3 DEF UInv, ClientTypes
  <2>1. CASE \E p \in pct : TakeRate(p)
    BY <2>0, <2>1 DEF TakeRate
  <2>2. CASE TakeExit
    BY <2>0, <2>2 DEF TakeExit, Return
  <2>3. CASE \E r \in BOOLEAN : TakeResultEarly(r) \/ TakeResult(r)
    <3>1. PICK r \in BOOLEAN : TakeResultEarly(r) \/ TakeResult(r)
      BY <2>3
    <3>2. fin[r] > 0 /\ fin' = [fin EXCEPT ![r] = fin[r] - 1]
      BY <3>1 DEF TakeResultEarly, TakeResult
    <3>3. fin' \in [BOOLEAN -> Nat] /\ (fin'[TRUE] > 0 => fin[TRUE] > 0)
      <4>1. fin[r] - 1 \in Nat
        BY <2>0, <3>1, <3>2
      <4>2. CASE r = TRUE
        BY <2>0, <3>2, <4>1, <4>2
      <4>3. CASE r = FALSE
        BY <2>0, <3>2, <4>1, <4>3
      <4> QED BY <3>1, <4>2, <4>3
    <3>4. CASE TakeResultEarly(r)
      BY <2>0, <3>3, <3>4 DEF TakeResultEarly
    <3>5. CASE TakeResult(r)
      <4>1. ret' = [ret EXCEPT ![1] = IF r THEN "true" ELSE "false"]
        BY <2>0, <3>5 DEF TakeResult, Return
      <4>2. CASE r = TRUE
        BY <2>0, <3>2, <3>3, <4>1, <4>2
      <4>3. CASE r = FALSE
        BY <2>0, <3>2, <3>3, <4>1, <4>3
      <4> QED BY <3>1, <4>2, <4>3
    <3> QED BY <3>1, <3>4, <3>5
  <2> QED BY <2>1, <2>2, <2>3
<1>5. ClientTypes'
  BY <1>2, <1>3, <1>4 DEF UInv, ClientTypes
<1>6. Requested'
  BY <1>2 DEF UInv, Requested
<1>7. AckWindow' /\ Answers' /\ DataWindow'
  BY <1>2, SameServer DEF UInv, AckWindow, Answers, DataWindow
<1>8. Told'
  BY <1>2, <1>4, SameServer DEF UInv, Told
<1> QED BY <1>1, <1>5, <1>6, <1>7, <1>8 DEF UInv

\* What is left of a list is part of it.
LEMMA TailKept ==
    ASSUME NEW s, s # <<>>, NEW T, s \in Seq(T)
    PROVE  /\ Tail(s) \in Seq(T) /\ Len(Tail(s)) = Len(s) - 1
           /\ \A i \in 1..Len(Tail(s)) : i + 1 \in 1..Len(s) /\ Tail(s)[i] = s[i + 1]
           /\ Head(s) = s[1] /\ 1 \in 1..Len(s) /\ Head(s) \in T
  OBVIOUS

\* Taking an answer off the connection.
LEMMA AnswersTail ==
    ASSUME Answers, s2c # <<>>, s2c' = Tail(s2c), UNCHANGED <<rcv, wr, store>>
    PROVE  Answers' /\ Answered(Head(s2c))
<1>1. /\ Tail(s2c) \in Seq(AnswerType)
      /\ \A i \in 1..Len(Tail(s2c)) : i + 1 \in 1..Len(s2c) /\ Tail(s2c)[i] = s2c[i + 1]
      /\ Head(s2c) = s2c[1] /\ 1 \in 1..Len(s2c)
  BY TailKept DEF Answers
<1>2. \A i \in 1..Len(s2c') : Answered(s2c'[i])
  BY <1>1 DEF Answers
<1> QED BY <1>1, <1>2, SameServer DEF Answers, AnswerType

\* The handlers of the answers, at the client.
LEMMA HandlersInv ==
    ASSUME OneUpload, UInv, HandleRsp \/ HandleProgress \/ HandleResult
    PROVE  UInv'
<1>0. UNCHANGED csVars /\ UNCHANGED <<cur, api, ret, c2s, data>>
  BY DEF HandleRsp, HandleProgress, HandleResult
<1>1. ServerTypes' /\ UpWindow' /\ Writers' /\ Counted'
  BY <1>0, ServerKept DEF UInv
<1>2. UNCHANGED <<rcv, wr, store, up>>
  BY <1>0 DEF csVars
<1>3. s2c # <<>> /\ s2c' = Tail(s2c)
  BY DEF HandleRsp, HandleProgress, HandleResult
<1>4. Answers' /\ Answered(Head(s2c))
  BY <1>2, <1>3, AnswersTail DEF UInv
<1>5. DataWindow'
  BY <1>0, <1>2, SameServer DEF UInv, DataWindow
<1>6. Requested'
  BY <1>0, <1>2, <1>3 DEF UInv, Requested
<1>7. ClientTypes' /\ AckWindow' /\ Told'
  <2>1. CASE HandleRsp
    <3>1. /\ head' = [head EXCEPT !.failed = FALSE]
          /\ snd' = [st |-> "top", seq |-> 1, again |-> FALSE]
          /\ UNCHANGED fin /\ head.f # 0
      BY <2>1 DEF HandleRsp
    <3>2. ClientTypes' /\ head'.ack = head.ack
      <4>1. head' \in HeadType /\ head'.ack = head.ack /\ head'.f = head.f
        BY <3>1, HeadFields DEF UInv, ClientTypes
      <4>2. snd' \in SendType /\ snd'.seq \in Seqs
        BY <3>1, Consts DEF SendType
      <4> QED BY <1>0, <3>1, <4>1, <4>2 DEF UInv, ClientTypes, HeadType
    <3> QED BY <1>0, <1>2, <3>1, <3>2, SameServer DEF UInv, AckWindow, Told
  <2>2. CASE HandleProgress
    <3>1. PICK s \in Seqs : Head(s2c) = Progress(s) /\ Confirmed(s)
      BY <1>4, <2>2 DEF HandleProgress, Answered, Rsp, Result
    <3>2. Head(s2c).seq = s
      BY <3>1 DEF Progress
    <3>3. /\ head' = IF head.f # 0 /\ head.ack < s THEN [head EXCEPT !.ack = s] ELSE head
          /\ UNCHANGED <<fin, snd>>
      BY <2>2, <3>2 DEF HandleProgress
    <3>4. ClientTypes' /\ head'.ack \in {head.ack, s}
      <4>1. head' \in HeadType /\ head'.ack \in {head.ack, s} /\ head'.f = head.f
        BY <3>3, HeadFields, Consts DEF UInv, ClientTypes
      <4> QED BY <1>0, <3>3, <4>1 DEF UInv, ClientTypes
    <3> QED BY <1>0, <1>2, <3>1, <3>3, <3>4, SameServer DEF UInv, AckWindow, Told
  <2>3. CASE HandleResult
    <3>1. PICK r \in BOOLEAN : Head(s2c) = Result(r) /\ (r = TRUE => Whole(Chunks[1]))
      <4>1. Head(s2c).t = "result"
        BY <2>3 DEF HandleResult
      <4>2. Head(s2c) # Rsp /\ \A s \in Seqs : Head(s2c) # Progress(s)
        BY <4>1 DEF Rsp, Progress
      <4>3. Head(s2c) = Result(FALSE) \/ (Head(s2c) = Result(TRUE) /\ Whole(Chunks[1]))
        BY <1>4, <4>2 DEF Answered
      <4> QED BY <4>3
    <3>2. Head(s2c).ret = r
      BY <3>1 DEF Result
    <3>3. /\ head' = IF head.f # 0 THEN [head EXCEPT !.failed = TRUE] ELSE head
          /\ fin' = [fin EXCEPT ![r] = fin[r] + 1]
          /\ UNCHANGED snd
      BY <2>3, <3>2 DEF HandleResult
    <3>4. fin' \in [BOOLEAN -> Nat] /\ (fin'[TRUE] > 0 => fin[TRUE] > 0 \/ r = TRUE)
      <4>0. fin \in [BOOLEAN -> Nat] /\ fin[r] + 1 \in Nat
        BY <3>1 DEF UInv, ClientTypes
      <4>1. CASE r = TRUE
        BY <3>3, <4>0, <4>1
      <4>2. CASE r = FALSE
        BY <3>3, <4>0, <4>2
      <4> QED BY <3>1, <4>1, <4>2
    <3>5. ClientTypes' /\ head'.ack = head.ack
      <4>1. head' \in HeadType /\ head'.ack = head.ack /\ head'.f = head.f
        BY <3>3, HeadFields DEF UInv, ClientTypes
      <4> QED BY <1>0, <3>3, <3>4, <4>1 DEF UInv, ClientTypes
    <3> QED BY <1>0, <1>2, <3>1, <3>4, <3>5, SameServer DEF UInv, AckWindow, Told
  <2> QED BY <2>1, <2>2, <2>3
<1> QED BY <1>1, <1>4, <1>5, <1>6, <1>7 DEF UInv

\* sendFile.
LEMMA SendInv ==
    ASSUME OneUpload, UInv, SendTop \/ SendPiece \/ SendAgain \/ SendFails
    PROVE  UInv'
<1>0. UNCHANGED csVars /\ UNCHANGED <<cur, api, ret, fin, s2c>> /\ snd.st # "none"
  BY DEF SendTop, SendPiece, SendAgain, SendFails, netVars
<1>1. ServerTypes' /\ UpWindow' /\ Writers' /\ Counted'
  BY <1>0, ServerKept DEF UInv
<1>2. UNCHANGED <<rcv, wr, store, up>>
  BY <1>0 DEF csVars
<1>3. rcv[1].st # "none" /\ head.f = 1 /\ snd.seq \in Seqs /\ cur # 0
      /\ head \in HeadType
      /\ snd \in SendType
  BY <1>0 DEF UInv, Requested, ClientTypes
<1>4. Answers' /\ Told'
  BY <1>0, <1>2, SameServer DEF UInv, Answers, Told
<1>5. Confirmed(0)
  BY Consts DEF UInv, Confirmed, Past, Whole, ServerTypes, WriteType
<1>6. /\ head' = head \/ head' = NoHead
      /\ snd' \in SendType
      /\ snd'.st # "none" => head' = head /\ snd'.seq \in Seqs
  <2>0. EndSend => /\ head' = NoHead /\ snd'.st = "none"
                   /\ snd' \in SendType
    BY NoSendFields DEF EndSend
  <2>1. CASE SendTop
    <3>1. EndSend \/ (snd' = [snd EXCEPT !.st = "wait", !.again = FALSE] /\ UNCHANGED head)
      BY <2>1 DEF SendTop
    <3>2. /\ [snd EXCEPT !.st = "wait", !.again = FALSE] \in SendType
          /\ [snd EXCEPT !.st = "wait", !.again = FALSE].seq = snd.seq
      BY <1>3, SendFields
    <3> QED BY <1>3, <2>0, <3>1, <3>2
  <2>2. CASE SendPiece
    <3>1. \/ EndSend
          \/ /\ snd.seq # Chunks[1] /\ UNCHANGED head
             /\ snd' = [snd EXCEPT !.st = "top", !.seq = snd.seq + 1]
      BY <1>3, <2>2 DEF SendPiece
    <3>2. /\ [snd EXCEPT !.st = "top", !.seq = snd.seq + 1] \in SendType
          /\ [snd EXCEPT !.st = "top", !.seq = snd.seq + 1].seq = snd.seq + 1
      <4>1. snd.seq + 1 \in Nat
        BY <1>3, Consts
      <4> QED BY <1>3, <4>1, SendFields
    <3>3. snd.seq # Chunks[1] => snd.seq + 1 \in Seqs
      BY <1>3, Consts
    <3> QED BY <1>3, <2>0, <3>1, <3>2, <3>3
  <2>3. CASE SendAgain
    <3>1. snd' = [snd EXCEPT !.again = TRUE] /\ UNCHANGED head
      BY <2>3 DEF SendAgain
    <3>2. /\ [snd EXCEPT !.again = TRUE] \in SendType
          /\ [snd EXCEPT !.again = TRUE].seq = snd.seq
      BY <1>3, SendFields
    <3> QED BY <1>3, <3>1, <3>2
  <2>4. CASE SendFails
    BY <2>0, <2>4 DEF SendFails
  <2> QED BY <2>1, <2>2, <2>3, <2>4
<1>7. AckWindow'
  BY <1>2, <1>5, <1>6, SameServer, NoHeadFields DEF UInv, AckWindow
<1>8. \A d \in data' : d \in data \/
         (d \in PieceType /\ d.seq <= head.ack + 1)
  <2>1. CASE SendTop \/ SendFails
    BY <2>1 DEF SendTop, SendFails, netVars
  <2>2. CASE SendPiece
    <3> DEFINE e == [f |-> 1, seq |-> snd.seq, again |-> FALSE]
    <3>1. data' = data \union {e}
      BY <1>3, <2>2 DEF SendPiece
    <3>2. snd.seq <= head.ack + 1
      BY <1>3, <2>2, Consts DEF SendPiece, Behind, SeqAckDiff, HeadType
    <3>3. e \in PieceType /\ e.seq <= head.ack + 1
      BY <1>3, <3>2 DEF PieceType
    <3> HIDE DEF e
    <3> QED BY <3>1, <3>3
  <2>3. CASE SendAgain
    <3> DEFINE e == [f |-> 1, seq |-> head.ack + 1, again |-> TRUE]
    <3>1. data' = data \union {e}
      BY <1>3, <2>3 DEF SendAgain
    <3>2. head.ack + 1 \in Seqs
      BY <1>3, <2>3, Consts DEF SendAgain, Behind, SeqAckDiff, HeadType
    <3>3. head.ack + 1 <= head.ack + 1
      BY <1>3 DEF HeadType
    <3>4. e \in PieceType /\ e.seq <= head.ack + 1
      BY <3>2, <3>3 DEF PieceType
    <3> HIDE DEF e
    <3> QED BY <3>1, <3>4
  <2> QED BY <2>1, <2>2, <2>3
<1>9. ClientTypes'
  <2>1. head' \in HeadType
    BY <1>3, <1>6, NoHeadFields
  <2>2. data' \subseteq PieceType
    BY <1>8 DEF UInv, ClientTypes
  <2>3. snd'.st # "none" => head'.f = 1 /\ snd'.seq \in Seqs
    BY <1>3, <1>6
  <2> QED BY <1>0, <1>6, <2>1, <2>2, <2>3 DEF UInv, ClientTypes
<1>10. DataWindow'
  <2>1. SUFFICES ASSUME NEW d \in data' PROVE Confirmed(d.seq - 1)
    BY <1>2, SameServer DEF DataWindow
  <2>2. CASE d \in data
    BY <2>2 DEF UInv, DataWindow
  <2>3. CASE d.seq \in Seqs /\ d.seq <= head.ack + 1
    <3>1. d.seq - 1 \in Nat /\ d.seq - 1 <= head.ack /\ head.ack \in Nat
      BY <1>3, <2>3, Consts DEF HeadType
    <3>2. Confirmed(head.ack)
      BY DEF UInv, AckWindow
    <3> QED BY <3>1, <3>2, <1>3, ConfirmedDown DEF UInv
  <2> QED BY <1>8, <2>2, <2>3 DEF PieceType
<1>11. Requested'
  <2>1. c2s' \in Seq({Terminate})
    <3>1. c2s \in Seq({Terminate})
      BY <1>3 DEF UInv, Requested
    <3>2. c2s' = c2s \/ c2s' = Append(c2s, Terminate)
      BY DEF SendTop, SendPiece, SendAgain, SendFails, netVars, Terminate
    <3> QED BY <3>1, <3>2
  <2> QED BY <1>0, <1>2, <1>3, <2>1 DEF Requested
<1> QED BY <1>1, <1>4, <1>7, <1>9, <1>10, <1>11 DEF UInv

-----------------------------------------------------------------------------
(* The server.                                                             *)

\* What has been acknowledged stays acknowledged when the receiver goes on,
\* the object is written with what belongs there and no write is added.
LEMMA StaysConfirmed ==
    ASSUME \A k \in Nat : Past(k) => Past(k)',
           \A k \in Nat : Whole(k) => Whole(k)',
           \A v \in wr' : \E w \in wr : v.seq = w.seq
    PROVE  \A k \in Nat : Confirmed(k) => Confirmed(k)'
  BY DEF Confirmed

\* The client and the messages are none the wiser.
LEMMA ClientKept ==
    ASSUME OneUpload, UInv, UNCHANGED clientVars, data' \subseteq data,
           \A k \in Nat : Confirmed(k) => Confirmed(k)',
           \A k \in Nat : Whole(k) => Whole(k)'
    PROVE  ClientTypes' /\ AckWindow' /\ Told' /\ DataWindow'
<1>1. UNCHANGED <<cur, api, ret, head, snd, fin>>
  BY DEF clientVars
<1>2. ClientTypes'
  BY <1>1 DEF UInv, ClientTypes
<1>3. head.ack \in Nat
  BY DEF UInv, ClientTypes, HeadType
<1>4. AckWindow'
  BY <1>1, <1>3 DEF UInv, AckWindow
<1>5. Told'
  BY <1>1, Consts DEF UInv, Told
<1>6. DataWindow'
  <2>1. \A d \in data : d.seq - 1 \in Nat
    BY Consts DEF UInv, ClientTypes, PieceType
  <2> QED BY <2>1 DEF UInv, DataWindow
<1> QED BY <1>2, <1>4, <1>5, <1>6

\* An answer stays good.
LEMMA AnsweredKept ==
    ASSUME OneUpload,
           \A k \in Nat : Confirmed(k) => Confirmed(k)',
           \A k \in Nat : Whole(k) => Whole(k)',
           NEW m, Answered(m)
    PROVE  Answered(m)'
  BY Consts DEF Answered

\* The answers on their way stay good.
LEMMA AnswersKept ==
    ASSUME OneUpload, Answers, UNCHANGED s2c,
           \A k \in Nat : Confirmed(k) => Confirmed(k)',
           \A k \in Nat : Whole(k) => Whole(k)'
    PROVE  Answers'
<1>1. \A i \in 1..Len(s2c) : Answered(s2c[i])'
  BY AnsweredKept DEF Answers
<1> QED BY <1>1 DEF Answers

\* ... and so does a new one.
LEMMA AnswersAppend ==
    ASSUME OneUpload, Answers,
           \A k \in Nat : Confirmed(k) => Confirmed(k)',
           \A k \in Nat : Whole(k) => Whole(k)',
           NEW m \in AnswerType, Answered(m)', s2c' = Append(s2c, m)
    PROVE  Answers'
<1>1. \A x : Answered(x) => Answered(x)'
  BY AnsweredKept
<1>2. s2c' \in Seq(AnswerType)
  BY DEF Answers
<1>3. \A i \in 1..Len(s2c') : s2c'[i] = m \/ (i \in 1..Len(s2c) /\ s2c'[i] = s2c[i])
  BY DEF Answers
<1>4. (\A i \in 1..Len(s2c) : Answered(s2c[i]))'
  BY <1>1, <1>3 DEF Answers
<1> QED BY <1>2, <1>4 DEF Answers

\* ... and so do two new ones.
LEMMA AnswersAppend2 ==
    ASSUME OneUpload, Answers,
           \A k \in Nat : Confirmed(k) => Confirmed(k)',
           \A k \in Nat : Whole(k) => Whole(k)',
           NEW m \in AnswerType, Answered(m)', NEW n \in AnswerType, Answered(n)',
           s2c' = s2c \o <<m, n>>
    PROVE  Answers'
<1>1. \A x : Answered(x) => Answered(x)'
  BY AnsweredKept
<1>2. s2c' \in Seq(AnswerType)
  BY DEF Answers
<1>3. \A i \in 1..Len(s2c') :
        s2c'[i] = m \/ s2c'[i] = n \/ (i \in 1..Len(s2c) /\ s2c'[i] = s2c[i])
  BY DEF Answers
<1>4. (\A i \in 1..Len(s2c) : Answered(s2c[i]))'
  BY <1>1, <1>3 DEF Answers
<1> QED BY <1>2, <1>4 DEF Answers

\* The pieces kept stay acknowledged.
LEMMA UpKept ==
    ASSUME OneUpload, UpWindow, \A s \in Seqs : up'[s] # None => up[s] # None,
           \A k \in Nat : Confirmed(k) => Confirmed(k)'
    PROVE  UpWindow'
<1>1. \A s \in Seqs : s - 1 \in Nat
  BY Consts
<1> QED BY <1>1 DEF UpWindow

\* The request of the file is the only one.
LEMMA HandleReqInv ==
    ASSUME OneUpload, UInv, HandleReq
    PROVE  UInv'
<1>0. /\ c2s # <<>> /\ Head(c2s).t = "req" /\ c2s' = Tail(c2s)
      /\ UNCHANGED <<data, up, arr, wr, csOff, store>> /\ UNCHANGED clientVars
  BY DEF HandleReq
<1>1. rcv[1].st = "none"
  <2>1. ASSUME rcv[1].st # "none" PROVE FALSE
    <3>1. c2s \in Seq({Terminate})
      BY <2>1 DEF UInv, Requested
    <3>2. Head(c2s) \in {Terminate}
      BY <1>0, <3>1, TailKept
    <3> QED BY <1>0, <3>2 DEF Terminate
  <2> QED BY <2>1
<1>2. /\ s2c = <<>> /\ data = {} /\ wr = {} /\ snd.st = "none" /\ c2s = <<Req>>
      /\ \A s \in Seqs : up[s] = None
      /\ cur # 0
  BY <1>0, <1>1 DEF UInv, Requested
<1>3. Head(c2s).f = 1 /\ Tail(c2s) = <<>>
  BY <1>2 DEF Req
<1>4. /\ csMap' = 1 /\ s2c' = Append(s2c, Rsp)
      /\ csHead' = [csHead EXCEPT ![1] = [size |-> 0, failed |-> FALSE]]
      /\ rcv' = [rcv EXCEPT ![1] = [st |-> "start", seq |-> 1, fh |-> 0]]
  BY <1>3 DEF HandleReq
<1>5. /\ csHead' \in [{1} -> [size : Nat, failed : BOOLEAN]] /\ csHead'[1].size = 0
      /\ rcv' \in [{1} -> [st : {"none", "start", "top", "wait", "done"}, seq : Nat, fh : {0, 1}]]
      /\ rcv'[1] = [st |-> "start", seq |-> 1, fh |-> 0]
  BY <1>4 DEF UInv, ServerTypes
<1>6. ServerTypes'
  BY <1>0, <1>4, <1>5, Consts DEF UInv, ServerTypes
<1>7. Requested'
  BY <1>0, <1>2, <1>3, <1>5 DEF Requested, clientVars
<1>8. /\ \A k \in Nat : Past(k) => Past(k)'
      /\ \A k \in Nat : Whole(k) => Whole(k)'
  <2>1. \A k \in Nat : Past(k) => k = 0 \/ k < rcv[1].seq
    BY <1>1 DEF Past
  <2>2. rcv[1].seq = 0
    BY <1>1 DEF UInv, ServerTypes
  <2> QED BY <1>0, <2>1, <2>2 DEF Past, Whole
<1>9. \A k \in Nat : Confirmed(k) => Confirmed(k)'
  BY <1>0, <1>8, StaysConfirmed
<1>10. ClientTypes' /\ AckWindow' /\ Told' /\ DataWindow'
  BY <1>0, <1>8, <1>9, ClientKept
<1>11. UpWindow' /\ Writers'
  BY <1>0, <1>2 DEF UpWindow, Writers
<1>12. Counted'
  BY <1>5, Consts DEF Counted, Past, Whole
<1>13. Answers'
  <2>1. Rsp \in AnswerType /\ Answered(Rsp)'
    BY DEF Rsp, AnswerType, Answered
  <2> QED BY <1>4, <1>8, <1>9, <2>1, AnswersAppend DEF UInv
<1> QED BY <1>6, <1>7, <1>10, <1>11, <1>12, <1>13 DEF UInv

\* The termination marks the file, nothing more.
LEMMA HandleTerminateInv ==
    ASSUME OneUpload, UInv, HandleTerminate
    PROVE  UInv'
<1>0. /\ c2s # <<>> /\ Head(c2s).t = "terminate" /\ c2s' = Tail(c2s)
      /\ csHead' = IF csMap # 0 THEN [csHead EXCEPT ![csMap].failed = TRUE] ELSE csHead
      /\ UNCHANGED <<s2c, data, csMap, up, rcv, arr, wr, csOff, store>> /\ UNCHANGED clientVars
  BY DEF HandleTerminate
<1>1. /\ csHead' \in [{1} -> [size : Nat, failed : BOOLEAN]]
      /\ csHead'[1].size = csHead[1].size
  BY <1>0 DEF UInv, ServerTypes
<1>2. ServerTypes'
  BY <1>0, <1>1 DEF UInv, ServerTypes
<1>3. rcv[1].st # "none"
  BY <1>0 DEF UInv, Requested, Req
<1>4. Requested'
  <2>1. c2s \in Seq({Terminate})
    BY <1>3 DEF UInv, Requested
  <2>2. c2s' \in Seq({Terminate})
    BY <1>0, <2>1, TailKept
  <2> QED BY <1>0, <1>3, <2>2 DEF UInv, Requested, clientVars
<1>5. /\ \A k \in Nat : Confirmed(k) => Confirmed(k)'
      /\ \A k \in Nat : Whole(k) => Whole(k)'
  BY <1>0, SameServer
<1>6. ClientTypes' /\ AckWindow' /\ Told' /\ DataWindow'
  BY <1>0, <1>5, ClientKept
<1>7. Answers' /\ UpWindow'
  BY <1>0, <1>5, AnswersKept, UpKept DEF UInv
<1>8. Writers' /\ Counted'
  BY <1>0, <1>1, SameServer DEF UInv, Writers, Writer, Counted
<1> QED BY <1>2, <1>4, <1>6, <1>7, <1>8 DEF UInv

\* A piece is kept under its number.
LEMMA PushInv ==
    ASSUME OneUpload, UInv, NEW d \in data, PushFileData(d)
    PROVE  UInv'
<1>0. /\ data' = data \ {d} /\ up' = [up EXCEPT ![d.seq] = <<d.f, d.seq>>]
      /\ UNCHANGED <<c2s, s2c, csMap, csHead, rcv, arr, wr, csOff, store>> /\ UNCHANGED clientVars
  BY DEF PushFileData
<1>1. d.f = 1 /\ d.seq \in Seqs
  BY DEF UInv, ClientTypes, PieceType
<1>2. /\ up' \in [Seqs -> Data \union {None}] /\ up'[d.seq] = <<1, d.seq>>
      /\ \A s \in Seqs : s # d.seq => up'[s] = up[s]
  BY <1>0, <1>1, Consts DEF UInv, ServerTypes
<1>3. ServerTypes'
  BY <1>0, <1>2 DEF UInv, ServerTypes
<1>4. rcv[1].st # "none"
  BY DEF UInv, Requested
<1>5. Requested'
  BY <1>0, <1>4 DEF UInv, Requested, clientVars
<1>6. /\ \A k \in Nat : Confirmed(k) => Confirmed(k)'
      /\ \A k \in Nat : Whole(k) => Whole(k)'
  BY <1>0, SameServer
<1>7. ClientTypes' /\ AckWindow' /\ Told' /\ DataWindow'
  BY <1>0, <1>6, ClientKept
<1>8. Answers'
  BY <1>0, <1>6, AnswersKept DEF UInv
<1>9. UpWindow'
  <2>1. SUFFICES ASSUME NEW s \in Seqs, up'[s] # None PROVE Confirmed(s - 1)'
    BY DEF UpWindow
  <2>2. Confirmed(s - 1)
    BY <1>2, <2>1 DEF UInv, UpWindow, DataWindow
  <2> QED BY <1>0, <2>2, SameServer
<1>10. Writers' /\ Counted'
  BY <1>0, SameServer DEF UInv, Writers, Writer, Counted
<1> QED BY <1>3, <1>5, <1>7, <1>8, <1>9, <1>10 DEF UInv

\* The record of a receiver.
RcvType == [st : {"none", "start", "top", "wait", "done"}, seq : Nat, fh : {0, 1}]

\* Assignments to the fields of a receiver.
LEMMA RcvFields ==
    ASSUME NEW r \in [{1} -> RcvType]
    PROVE  /\ [r EXCEPT ![1].st = "done"] \in [{1} -> RcvType]
           /\ [r EXCEPT ![1].st = "done"][1].st = "done"
           /\ [r EXCEPT ![1].st = "done"][1].seq = r[1].seq
           /\ [r EXCEPT ![1].st = "wait"] \in [{1} -> RcvType]
           /\ [r EXCEPT ![1].st = "wait"][1].st = "wait"
           /\ [r EXCEPT ![1].st = "wait"][1].seq = r[1].seq
           /\ [r EXCEPT ![1].st = "wait"][1].fh = r[1].fh
           /\ [r EXCEPT ![1].st = "top", ![1].fh = 1] \in [{1} -> RcvType]
           /\ [r EXCEPT ![1].st = "top", ![1].fh = 1][1].st = "top"
           /\ [r EXCEPT ![1].st = "top", ![1].fh = 1][1].seq = r[1].seq
           /\ [r EXCEPT ![1].st = "top", ![1].fh = 1][1].fh = 1
  BY DEF RcvType

\* A receiver that goes on to another place of its loop or ends: whatever was
\* past stays past.
LEMMA ReceiverMoves ==
    ASSUME OneUpload, UInv, rcv[1].st \notin {"none", "done"},
           rcv' \in [{1} -> RcvType], rcv'[1].seq = rcv[1].seq, rcv'[1].st # "none",
           rcv'[1].st \in {"top", "wait"} => rcv'[1].fh = 1,
           csMap' \in {0, 1}, csHead' \in [{1} -> [size : Nat, failed : BOOLEAN]],
           csHead'[1].size \in {0, csHead[1].size},
           up' \in [Seqs -> Data \union {None}],
           \A s \in Seqs : up'[s] \in {None, up[s]},
           UNCHANGED <<c2s, data, arr, wr, csOff, store>>, UNCHANGED clientVars
    PROVE  /\ ClientTypes' /\ ServerTypes' /\ Requested' /\ AckWindow' /\ DataWindow'
           /\ UpWindow' /\ Writers' /\ Counted' /\ Told'
           /\ \A k \in Nat : Confirmed(k) => Confirmed(k)'
           /\ \A k \in Nat : Whole(k) => Whole(k)'
<1>1. ServerTypes'
  BY DEF UInv, ServerTypes, RcvType
<1>2. Requested'
  BY DEF UInv, Requested, clientVars
<1>3. /\ \A k : Past(k) => Past(k)'
      /\ \A k : Whole(k) = Whole(k)'
  BY DEF Past, Whole
<1>4. \A k \in Nat : Confirmed(k) => Confirmed(k)'
  BY <1>3, StaysConfirmed
<1>5. ClientTypes' /\ AckWindow' /\ Told' /\ DataWindow'
  BY <1>3, <1>4, ClientKept
<1>6. UpWindow'
  BY <1>4, UpKept DEF UInv
<1>7. Writers'
  <2>1. SUFFICES ASSUME NEW w \in wr PROVE Writer(w)'
    BY DEF Writers
  <2>2. Writer(w) /\ w.seq \in Seqs
    BY DEF UInv, Writers, ServerTypes, WriteType
  <2>3. csHead'[1].size < w.seq
    BY <2>2, Consts DEF Writer
  <2> QED BY <1>3, <2>2, <2>3 DEF Writer
<1>8. Counted'
  <2>1. CASE csHead'[1].size = 0
    BY <2>1, Consts DEF Counted, Past, Whole
  <2>2. CASE csHead'[1].size = csHead[1].size
    BY <1>3, <2>2 DEF UInv, Counted
  <2> QED BY <2>1, <2>2
<1> QED BY <1>1, <1>2, <1>3, <1>4, <1>5, <1>6, <1>7, <1>8

\* The types a receiver needs.
LEMMA ReceiverTypes ==
    ASSUME UInv
    PROVE  /\ rcv \in [{1} -> RcvType]
           /\ csHead \in [{1} -> [size : Nat, failed : BOOLEAN]] /\ csMap \in {0, 1}
           /\ up \in [Seqs -> Data \union {None}]
  BY DEF UInv, ServerTypes, RcvType

\* receiveFile2CS looks for the head of its file.
LEMMA ReceiveStartInv ==
    ASSUME OneUpload, UInv, ReceiveStart(1)
    PROVE  UInv'
<1>0. /\ rcv[1].st = "start" /\ UNCHANGED clientVars
      /\ UNCHANGED <<c2s, s2c, data, csMap, up, arr, wr, csOff, store>>
  BY DEF ReceiveStart, netVars
<1>1. /\ rcv' \in [{1} -> RcvType] /\ rcv'[1].seq = rcv[1].seq
      /\ rcv'[1].st \in {"start", "top"} /\ (rcv'[1].st = "top" => rcv'[1].fh = 1)
  <2>1. CASE csMap = 0
    BY <1>0, <2>1, ReceiverTypes DEF ReceiveStart
  <2>2. CASE csMap # 0
    <3>1. rcv' = [rcv EXCEPT ![1].st = "top", ![1].fh = 1]
      BY <1>0, <2>2, ReceiverTypes DEF ReceiveStart
    <3> QED BY <3>1, ReceiverTypes, RcvFields
  <2> QED BY <2>1, <2>2
<1>2. /\ csHead' \in [{1} -> [size : Nat, failed : BOOLEAN]]
      /\ csHead'[1].size \in {0, csHead[1].size}
  <2>1. csHead' = csHead \/ (csMap = 1 /\ csHead' = [csHead EXCEPT ![csMap].size = 0])
    BY ReceiverTypes DEF ReceiveStart
  <2> QED BY <2>1, ReceiverTypes
<1>3. /\ ClientTypes' /\ ServerTypes' /\ Requested' /\ AckWindow' /\ DataWindow'
      /\ UpWindow' /\ Writers' /\ Counted' /\ Told'
      /\ \A k \in Nat : Confirmed(k) => Confirmed(k)'
      /\ \A k \in Nat : Whole(k) => Whole(k)'
  BY <1>0, <1>1, <1>2, ReceiverTypes, ReceiverMoves
<1>4. Answers'
  BY <1>0, <1>3, AnswersKept DEF UInv
<1> QED BY <1>3, <1>4 DEF UInv

\* The top of its loop, where it may find the file failed.
LEMMA ReceiveTopInv ==
    ASSUME OneUpload, UInv, ReceiveTop(1)
    PROVE  UInv'
<1>0. /\ rcv[1].st = "top" /\ UNCHANGED clientVars
      /\ UNCHANGED <<c2s, data, csHead, arr, wr, csOff, store>>
  BY DEF ReceiveTop
<1>1. \/ /\ csMap' = 0 /\ up' = NoData /\ s2c' = Append(s2c, Result(FALSE))
         /\ rcv' = [rcv EXCEPT ![1].st = "done"]
      \/ rcv' = [rcv EXCEPT ![1].st = "wait"] /\ UNCHANGED <<csMap, up, s2c>>
  BY DEF ReceiveTop
<1>2. rcv[1].fh = 1
  BY <1>0 DEF UInv, ServerTypes
<1>3. /\ rcv' \in [{1} -> RcvType] /\ rcv'[1].seq = rcv[1].seq
      /\ rcv'[1].st \in {"done", "wait"} /\ (rcv'[1].st = "wait" => rcv'[1].fh = 1)
  <2>1. CASE rcv' = [rcv EXCEPT ![1].st = "done"]
    BY <2>1, ReceiverTypes, RcvFields
  <2>2. CASE rcv' = [rcv EXCEPT ![1].st = "wait"]
    BY <1>2, <2>2, ReceiverTypes, RcvFields
  <2> QED BY <1>1, <2>1, <2>2
<1>4. /\ up' \in [Seqs -> Data \union {None}] /\ \A s \in Seqs : up'[s] \in {None, up[s]}
      /\ csMap' \in {0, 1}
  BY <1>1, ReceiverTypes DEF NoData
<1>5. /\ ClientTypes' /\ ServerTypes' /\ Requested' /\ AckWindow' /\ DataWindow'
      /\ UpWindow' /\ Writers' /\ Counted' /\ Told'
      /\ \A k \in Nat : Confirmed(k) => Confirmed(k)'
      /\ \A k \in Nat : Whole(k) => Whole(k)'
  BY <1>0, <1>3, <1>4, ReceiverTypes, ReceiverMoves
<1>6. Answers'
  <2>1. CASE UNCHANGED s2c
    BY <1>5, <2>1, AnswersKept DEF UInv
  <2>2. CASE s2c' = Append(s2c, Result(FALSE))
    <3>1. Result(FALSE) \in AnswerType /\ Answered(Result(FALSE))'
      BY DEF Result, AnswerType, Answered
    <3> QED BY <1>5, <2>2, <3>1, AnswersAppend DEF UInv
  <2> QED BY <1>1, <2>1, <2>2
<1> QED BY <1>5, <1>6 DEF UInv

\* It gives up waiting for a piece.
LEMMA ReceiveTimeoutInv ==
    ASSUME OneUpload, UInv, ReceiveTimeout(1)
    PROVE  UInv'
<1>0. /\ rcv[1].st = "wait" /\ UNCHANGED clientVars
      /\ UNCHANGED <<c2s, s2c, data, csMap, csHead, up, arr, wr, csOff, store>>
      /\ rcv' = [rcv EXCEPT ![1].st = "done"]
  BY DEF ReceiveTimeout, netVars
<1>1. rcv' \in [{1} -> RcvType] /\ rcv'[1].seq = rcv[1].seq /\ rcv'[1].st = "done"
  BY <1>0, ReceiverTypes, RcvFields
<1>2. /\ ClientTypes' /\ ServerTypes' /\ Requested' /\ AckWindow' /\ DataWindow'
      /\ UpWindow' /\ Writers' /\ Counted' /\ Told'
      /\ \A k \in Nat : Confirmed(k) => Confirmed(k)'
      /\ \A k \in Nat : Whole(k) => Whole(k)'
  BY <1>0, <1>1, ReceiverTypes, ReceiverMoves
<1>3. Answers'
  BY <1>0, <1>2, AnswersKept DEF UInv
<1> QED BY <1>2, <1>3 DEF UInv

\* The window: a piece that can be received finds no write under way.
LEMMA NoWriteUnderWay ==
    ASSUME OneUpload, UInv, rcv[1].st = "wait", up[rcv[1].seq] # None
    PROVE  wr = {} /\ Confirmed(rcv[1].seq - 1) /\ rcv[1].seq \in Seqs
<1>1. rcv[1].seq \in Seqs
  BY DEF UInv, ServerTypes
<1>2. Confirmed(rcv[1].seq - 1)
  BY <1>1 DEF UInv, UpWindow
<1>3. ASSUME NEW w \in wr PROVE FALSE
  <2>1. w.seq \in Seqs /\ Past(w.seq)
    BY DEF UInv, ServerTypes, WriteType, Writers, Writer
  <2>2. w.seq < rcv[1].seq
    BY <2>1, Consts DEF Past
  <2>3. w.seq > rcv[1].seq - 1
    BY <1>2 DEF Confirmed
  <2> QED BY <1>1, <2>1, <2>2, <2>3, Consts
<1> QED BY <1>1, <1>2, <1>3

\* It takes a piece, fills its array and starts the write.
LEMMA ReceivePieceInv ==
    ASSUME OneUpload, UInv, ReceivePiece(1)
    PROVE  UInv'
<1>q. PICK q \in Seqs : q = rcv[1].seq
  BY DEF ReceivePiece, UInv, ServerTypes
<1> DEFINE v == [f |-> 1, fh |-> 1, seq |-> q, buff |-> <<1, q>>, pc |-> "seek", ok |-> FALSE]
<1>0. /\ rcv[1].st = "wait" /\ up[q] # None
      /\ UNCHANGED clientVars
      /\ UNCHANGED <<c2s, s2c, data, csMap, csHead, csOff, store>>
      /\ up' = [up EXCEPT ![q] = None]
  BY <1>q DEF ReceivePiece, netVars
<1>1. wr = {} /\ Confirmed(q - 1) /\ q \in Seqs
  BY <1>0, <1>q, NoWriteUnderWay
<1>2. rcv[1].fh = 1 /\ up[q] = <<1, q>>
  BY <1>0, <1>1 DEF UInv, ServerTypes
<1>3. wr' = {v} /\ arr' = [arr EXCEPT ![1] = <<1, q>>]
  BY <1>1, <1>2, <1>q DEF ReceivePiece
<1>4. /\ v \in WriteType /\ v.seq = q /\ v.buff = <<1, q>> /\ v.pc = "seek" /\ v.ok = FALSE
  BY <1>1, Consts DEF WriteType
<1> HIDE DEF v
<1>5. /\ rcv' \in [{1} -> RcvType]
      /\ rcv'[1].st = "done" \/ (rcv'[1].st = "top" /\ rcv'[1].seq = q + 1 /\ rcv'[1].fh = 1)
      /\ rcv'[1].seq \in Seqs
  <2>1. CASE q = Chunks[1]
    <3>1. rcv' = [rcv EXCEPT ![1].st = "done"]
      BY <1>q, <2>1 DEF ReceivePiece
    <3> QED BY <1>1, <1>q, <3>1, ReceiverTypes, RcvFields
  <2>2. CASE q # Chunks[1]
    <3>1. rcv' = [rcv EXCEPT ![1].st = "top", ![1].seq = q + 1]
      BY <1>q, <2>2 DEF ReceivePiece
    <3>2. q + 1 \in Nat /\ q + 1 \in Seqs
      BY <1>1, <2>2, Consts
    <3>3. PICK k \in Nat : k = q + 1
      BY <3>2
    <3>4. rcv' = [rcv EXCEPT ![1].st = "top", ![1].seq = k]
      BY <3>1, <3>3
    <3>5. rcv' \in [{1} -> RcvType] /\ rcv'[1].st = "top" /\ rcv'[1].seq = k /\ rcv'[1].fh = rcv[1].fh
      <4>1. rcv \in [{1} -> RcvType]
        BY ReceiverTypes
      <4> QED BY <3>4, <4>1 DEF RcvType
    <3> QED BY <1>2, <3>2, <3>3, <3>5
  <2> QED BY <2>1, <2>2
<1>6. /\ up' \in [Seqs -> Data \union {None}] /\ \A s \in Seqs : up'[s] \in {None, up[s]}
      /\ arr' \in [{1} -> Data \union {None}] /\ arr'[1] = <<1, q>>
  BY <1>0, <1>1, <1>3, ReceiverTypes, Consts DEF UInv, ServerTypes
<1>7. ServerTypes'
  BY <1>0, <1>3, <1>4, <1>5, <1>6 DEF UInv, ServerTypes, RcvType
<1>8. Requested'
  BY <1>0, <1>5 DEF UInv, Requested, clientVars
<1>9. \A k \in Nat : Past(k) => Past(k)'
  <2>1. \A k \in Nat : Past(k) => k < q
    BY <1>0, <1>1, <1>q, Consts DEF Past
  <2> QED BY <1>1, <1>5, <2>1, Consts DEF Past
<1>10. \A k \in Nat : Whole(k) = Whole(k)'
  BY <1>0 DEF Whole
<1>11. \A k \in Nat : Confirmed(k) => Confirmed(k)'
  <2>1. \A k \in Nat : Past(k) => q > k
    BY <1>0, <1>1, <1>q, Consts DEF Past
  <2> QED BY <1>3, <1>4, <1>9, <1>10, <2>1 DEF Confirmed
<1>12. ClientTypes' /\ AckWindow' /\ Told' /\ DataWindow'
  BY <1>0, <1>10, <1>11, ClientKept
<1>13. Answers' /\ UpWindow'
  BY <1>0, <1>6, <1>10, <1>11, AnswersKept, UpKept DEF UInv
<1>14. csHead[1].size \in Nat /\ csHead[1].size < q
  BY <1>0, <1>1, <1>q, ReceiverTypes, Consts DEF UInv, Counted, Past
<1>15. Counted'
  BY <1>0, <1>9, <1>10, <1>14 DEF UInv, Counted
<1>16. Writer(v)'
  <2>1. Past(q)'
    BY <1>1, <1>5, Consts DEF Past
  <2>2. Whole(q - 1)'
    <3>1. q - 1 \in Nat
      BY <1>1, Consts
    <3> QED BY <1>1, <1>10, <3>1 DEF Confirmed
  <2> QED BY <1>0, <1>3, <1>4, <1>6, <1>14, <2>1, <2>2 DEF Writer
<1>17. Writers'
  BY <1>3, <1>16 DEF Writers
<1> QED BY <1>7, <1>8, <1>12, <1>13, <1>15, <1>17 DEF UInv

-----------------------------------------------------------------------------
(* The writes.                                                             *)

\* The one write there is, and what is left when it is over.
LEMMA OneWriter ==
    ASSUME OneUpload, UInv, NEW w \in wr
    PROVE  wr = {w} /\ Writer(w) /\ w \in WriteType /\ w.seq \in Seqs /\ w.f = 1
           /\ rcv[1].st # "none" /\ cur # 0
  BY DEF UInv, Writers, Writer, ServerTypes, WriteType, Requested

\* Assignments to the fields of a write.
LEMMA WriteFields ==
    ASSUME NEW w \in WriteType
    PROVE  /\ [w EXCEPT !.pc = "write"] \in WriteType
           /\ [w EXCEPT !.pc = "write"].seq = w.seq /\ [w EXCEPT !.pc = "write"].buff = w.buff
           /\ [w EXCEPT !.pc = "write"].pc = "write" /\ [w EXCEPT !.pc = "write"].ok = w.ok
           /\ [w EXCEPT !.pc = "rsp"] \in WriteType
           /\ [w EXCEPT !.pc = "rsp"].seq = w.seq /\ [w EXCEPT !.pc = "rsp"].buff = w.buff
           /\ [w EXCEPT !.pc = "rsp"].pc = "rsp" /\ [w EXCEPT !.pc = "rsp"].ok = w.ok
           /\ [w EXCEPT !.pc = "rsp", !.ok = TRUE] \in WriteType
           /\ [w EXCEPT !.pc = "rsp", !.ok = TRUE].seq = w.seq
           /\ [w EXCEPT !.pc = "rsp", !.ok = TRUE].buff = w.buff
           /\ [w EXCEPT !.pc = "rsp", !.ok = TRUE].pc = "rsp"
           /\ [w EXCEPT !.pc = "rsp", !.ok = TRUE].ok = TRUE
  BY DEF WriteType

\* A write goes on or is dropped: nothing else changes but the object, which
\* gets what belongs there, and the offset.
LEMMA WriteMoves ==
    ASSUME OneUpload, UInv, NEW w \in wr,
           wr' = {} \/ (\E v \in WriteType : wr' = {v} /\ v.seq = w.seq /\ Writer(v)'),
           store' \in [Data -> Data \union {None}],
           \A s \in Seqs : store[<<1, s>>] = <<1, s>> => store'[<<1, s>>] = <<1, s>>,
           UNCHANGED <<c2s, s2c, data, csMap, csHead, up, rcv, arr>>, UNCHANGED clientVars
    PROVE  UInv'
<1>1. ServerTypes'
  BY DEF UInv, ServerTypes
<1>2. Requested'
  BY OneWriter DEF UInv, Requested, clientVars
<1>3. \A k \in Nat : Past(k) => Past(k)'
  BY DEF Past
<1>4. \A k \in Nat : Whole(k) => Whole(k)'
  BY DEF Whole
<1>5. \A v \in wr' : \E x \in wr : v.seq = x.seq
  OBVIOUS
<1>6. \A k \in Nat : Confirmed(k) => Confirmed(k)'
  BY <1>3, <1>4, <1>5, StaysConfirmed
<1>7. ClientTypes' /\ AckWindow' /\ Told' /\ DataWindow'
  BY <1>4, <1>6, ClientKept
<1>8. Answers' /\ UpWindow'
  BY <1>4, <1>6, AnswersKept, UpKept DEF UInv
<1>9. Counted'
  <2>1. csHead[1].size \in Nat
    BY ReceiverTypes
  <2> QED BY <1>3, <1>4, <2>1 DEF UInv, Counted
<1>10. Writers'
  BY DEF Writers
<1> QED BY <1>1, <1>2, <1>7, <1>8, <1>9, <1>10 DEF UInv

\* The write that replaces another in its place keeps what does not depend on
\* the place.
LEMMA WriterMoves ==
    ASSUME OneUpload, UInv, NEW w \in wr, NEW v \in WriteType,
           v.seq = w.seq, v.buff = w.buff, wr' = {v},
           \A s \in Seqs : store[<<1, s>>] = <<1, s>> => store'[<<1, s>>] = <<1, s>>,
           UNCHANGED <<csHead, rcv, arr>>
    PROVE  /\ v.buff = <<1, v.seq>> /\ Past(v.seq)' /\ Whole(v.seq - 1)'
           /\ csHead'[1].size < v.seq /\ \A x \in wr' : x = v
           /\ w.pc # "rsp" => arr'[1] = v.buff
<1>1. Writer(w) /\ w.seq \in Seqs
  BY OneWriter
<1>2. Past(v.seq)' /\ Whole(v.seq - 1)'
  BY <1>1 DEF Writer, Past, Whole
<1> QED BY <1>1, <1>2 DEF Writer

\* A write that finds no object is dropped.
LEMMA NoObjectInv ==
    ASSUME OneUpload, UInv, NEW w \in wr, NoObject(w)
    PROVE  UInv'
<1>1. /\ wr' = wr \ {w} /\ UNCHANGED clientVars
      /\ UNCHANGED <<c2s, s2c, data, csMap, csHead, up, rcv, arr, store>>
  BY DEF NoObject, netVars
<1>2. wr' = {}
  BY <1>1, OneWriter
<1>3. store' \in [Data -> Data \union {None}]
  BY <1>1 DEF UInv, ServerTypes
<1> QED BY <1>1, <1>2, <1>3, WriteMoves

\* A write sets the offset of the object.
LEMMA DoSeekInv ==
    ASSUME OneUpload, UInv, NEW w \in wr, DoSeek(w)
    PROVE  UInv'
<1> DEFINE v == [w EXCEPT !.pc = "write"]
<1>1. /\ w.pc = "seek" /\ csOff' = <<w.fh, w.seq>> /\ wr' = (wr \ {w}) \union {v}
      /\ UNCHANGED clientVars
      /\ UNCHANGED <<c2s, s2c, data, csMap, csHead, up, rcv, arr, store>>
  BY DEF DoSeek, netVars, Becomes
<1>2. wr = {w} /\ Writer(w) /\ w \in WriteType /\ w.fh = 1
  BY OneWriter DEF WriteType
<1>3. v \in WriteType /\ v.seq = w.seq /\ v.buff = w.buff /\ v.pc = "write" /\ v.ok = w.ok
  BY <1>2, WriteFields
<1> HIDE DEF v
<1>4. wr' = {v}
  BY <1>1, <1>2
<1>5. Writer(v)'
  <2>1. /\ v.buff = <<1, v.seq>> /\ Past(v.seq)' /\ Whole(v.seq - 1)'
        /\ csHead'[1].size < v.seq /\ (\A x \in wr' : x = v) /\ arr'[1] = v.buff
    BY <1>1, <1>3, <1>4, WriterMoves
  <2>2. csOff' = <<1, v.seq>> /\ v.ok = FALSE
    BY <1>1, <1>2, <1>3 DEF Writer
  <2> QED BY <2>1, <2>2 DEF Writer
<1>6. store' \in [Data -> Data \union {None}]
  BY <1>1 DEF UInv, ServerTypes
<1> QED BY <1>1, <1>3, <1>4, <1>5, <1>6, WriteMoves

\* The offset and the array are those of the piece: the object gets it.
LEMMA RightPlace ==
    ASSUME OneUpload, UInv, NEW w \in wr, w.pc = "write",
           NEW t, t = [store EXCEPT ![csOff] = arr[w.f]]
    PROVE  /\ t \in [Data -> Data \union {None}] /\ t[<<1, w.seq>>] = <<1, w.seq>>
           /\ \A s \in Seqs : store[<<1, s>>] = <<1, s>> => t[<<1, s>>] = <<1, s>>
<1>1. Writer(w) /\ w.seq \in Seqs /\ w.f = 1
  BY OneWriter
<1>2. csOff = <<1, w.seq>> /\ arr[w.f] = <<1, w.seq>>
  BY <1>1 DEF Writer
<1>3. store \in [Data -> Data \union {None}] /\ <<1, w.seq>> \in Data
  BY <1>1, Consts DEF UInv, ServerTypes
<1>4. t = [store EXCEPT ![<<1, w.seq>>] = <<1, w.seq>>]
  BY <1>2
<1>5. \A s \in Seqs : <<1, s>> \in Data
  BY Consts
<1> QED BY <1>3, <1>4, <1>5

\* A write writes, or fails.
LEMMA WriteInv ==
    ASSUME OneUpload, UInv, NEW w \in wr, Write(w) \/ WriteFails(w)
    PROVE  UInv'
<1>0. /\ w.pc = "write" /\ UNCHANGED clientVars
      /\ UNCHANGED <<c2s, s2c, data, csMap, csHead, up, rcv, arr, csOff>>
  BY DEF Write, WriteFails, netVars
<1>1. wr = {w} /\ Writer(w) /\ w \in WriteType
  BY OneWriter
<1>2. /\ store' \in [Data -> Data \union {None}]
      /\ \A s \in Seqs : store[<<1, s>>] = <<1, s>> => store'[<<1, s>>] = <<1, s>>
      /\ Write(w) => store'[<<1, w.seq>>] = <<1, w.seq>>
  <2>1. CASE Write(w)
    BY <1>0, <2>1, RightPlace DEF Write
  <2>2. CASE WriteFails(w)
    <3>1. store' = store \/ store' = [store EXCEPT ![csOff] = arr[w.f]]
      BY <2>2 DEF WriteFails
    <3>2. store \in [Data -> Data \union {None}]
      BY DEF UInv, ServerTypes
    <3>3. ~Write(w) \/ store'[<<1, w.seq>>] = <<1, w.seq>>
      BY <1>0, RightPlace DEF Write
    <3> QED BY <1>0, <3>1, <3>2, <3>3, RightPlace
  <2> QED BY <2>1, <2>2
<1>3. PICK v \in WriteType :
          /\ wr' = {v} /\ v.seq = w.seq /\ v.buff = w.buff /\ v.pc = "rsp"
          /\ v.ok = TRUE => Write(w)
  <2>1. CASE Write(w)
    <3>1. wr' = (wr \ {w}) \union {[w EXCEPT !.pc = "rsp", !.ok = TRUE]}
      BY <2>1 DEF Write, Becomes
    <3> QED BY <1>1, <2>1, <3>1, WriteFields
  <2>2. CASE WriteFails(w)
    <3> DEFINE v == [w EXCEPT !.pc = "rsp"]
    <3>1. wr' = (wr \ {w}) \union {v}
      BY <2>2 DEF WriteFails, Becomes
    <3>2. w.ok = FALSE
      BY <1>0, <1>1 DEF Writer
    <3>3. v \in WriteType /\ v.seq = w.seq /\ v.buff = w.buff /\ v.pc = "rsp" /\ v.ok = w.ok
      BY <1>1, WriteFields
    <3> HIDE DEF v
    <3>4. wr' = {v} /\ (v.ok = TRUE => Write(w))
      BY <1>1, <3>1, <3>2, <3>3
    <3> QED BY <3>3, <3>4
  <2> QED BY <2>1, <2>2
<1>4. Writer(v)'
  <2>1. /\ v.buff = <<1, v.seq>> /\ Past(v.seq)' /\ Whole(v.seq - 1)'
        /\ csHead'[1].size < v.seq /\ (\A x \in wr' : x = v)
    BY <1>0, <1>2, <1>3, WriterMoves
  <2>2. v.ok = TRUE => store'[<<1, v.seq>>] = <<1, v.seq>>
    BY <1>2, <1>3
  <2> QED BY <1>3, <2>1, <2>2 DEF Writer
<1> QED BY <1>0, <1>2, <1>3, <1>4, WriteMoves

\* The piece is counted, and the client told.
LEMMA DoWriteDataRetInv ==
    ASSUME OneUpload, UInv, NEW w \in wr, DoWriteDataRet(w)
    PROVE  UInv'
<1>0. /\ w.pc = "rsp" /\ wr' = wr \ {w} /\ UNCHANGED clientVars
      /\ UNCHANGED <<c2s, data, up, rcv, arr, csOff, store>>
  BY DEF DoWriteDataRet
<1>1. wr = {w} /\ Writer(w) /\ w.seq \in Seqs /\ rcv[1].st # "none" /\ cur # 0
  BY OneWriter
<1>2. wr' = {}
  BY <1>0, <1>1
<1>3. /\ \A k \in Nat : Past(k) = Past(k)'
      /\ \A k \in Nat : Whole(k) = Whole(k)'
  BY <1>0 DEF Past, Whole
<1>4. \A k \in Nat : Confirmed(k) => Confirmed(k)'
  BY <1>2, <1>3 DEF Confirmed
<1>5. ClientTypes' /\ AckWindow' /\ Told' /\ DataWindow'
  BY <1>0, <1>3, <1>4, ClientKept
<1>6. UpWindow' /\ Writers'
  BY <1>0, <1>2, <1>4, UpKept DEF UInv, Writers
<1>7. Requested'
  BY <1>0, <1>1 DEF UInv, Requested, clientVars
<1>8. csHead[1].size \in Nat /\ csHead[1].size + 1 \in Nat /\ csHead[1].size + 1 <= w.seq
  BY <1>1, ReceiverTypes, Consts DEF Writer
<1>9. w.ok = TRUE => Whole(w.seq) /\ Past(w.seq)
  BY <1>1, Consts DEF Writer, Whole
<1>10. w.ok = TRUE => Past(csHead[1].size + 1) /\ Whole(csHead[1].size + 1)
  BY <1>1, <1>8, <1>9, Consts, ReceiverTypes DEF Past, Whole, RcvType
<1>11. CASE csMap = 0
  <2>1. UNCHANGED <<csMap, csHead, s2c>>
    BY <1>11 DEF DoWriteDataRet
  <2>2. ServerTypes' /\ Counted'
    BY <1>0, <1>2, <1>3, <1>8, <2>1 DEF UInv, ServerTypes, Counted
  <2>3. Answers'
    BY <1>3, <1>4, <2>1, AnswersKept DEF UInv
  <2> QED BY <1>5, <1>6, <1>7, <2>2, <2>3 DEF UInv
<1>12. CASE csMap # 0 /\ w.ok = FALSE
  <2>1. /\ csHead' = [csHead EXCEPT ![1].failed = TRUE] /\ csMap' = 0
        /\ s2c' = Append(s2c, Result(FALSE))
    BY <1>12, ReceiverTypes DEF DoWriteDataRet
  <2>2. csHead' \in [{1} -> [size : Nat, failed : BOOLEAN]] /\ csHead'[1].size = csHead[1].size
    BY <2>1, ReceiverTypes
  <2>3. ServerTypes' /\ Counted'
    BY <1>0, <1>2, <1>3, <1>8, <2>1, <2>2 DEF UInv, ServerTypes, Counted
  <2>4. Answers'
    <3>1. Result(FALSE) \in AnswerType /\ Answered(Result(FALSE))'
      BY DEF Result, AnswerType, Answered
    <3> QED BY <1>3, <1>4, <2>1, <3>1, AnswersAppend DEF UInv
  <2> QED BY <1>5, <1>6, <1>7, <2>3, <2>4 DEF UInv
<1>13. CASE csMap # 0 /\ w.ok = TRUE
  <2> DEFINE size == csHead[1].size + 1
  <2>0. csMap = 1
    BY <1>13, ReceiverTypes
  <2>1. /\ csHead' = [csHead EXCEPT ![1].size = size]
        /\ \/ /\ size >= Chunks[1] /\ csMap' = 0
              /\ s2c' = s2c \o <<Progress(w.seq), Result(TRUE)>>
           \/ s2c' = Append(s2c, Progress(w.seq)) /\ UNCHANGED csMap
    BY <1>13, <2>0 DEF DoWriteDataRet, Stored
  <2>2. csHead' \in [{1} -> [size : Nat, failed : BOOLEAN]] /\ csHead'[1].size = size
    BY <1>8, <2>1, ReceiverTypes
  <2>3. ServerTypes'
    BY <1>0, <1>2, <2>1, <2>2 DEF UInv, ServerTypes
  <2>4. Counted'
    BY <1>3, <1>8, <1>10, <1>13, <2>2 DEF Counted
  <2>5. Progress(w.seq) \in AnswerType /\ Answered(Progress(w.seq))'
    <3>1. w.seq \in Nat
      BY <1>1, Consts
    <3>2. Confirmed(w.seq)'
      BY <1>2, <1>3, <1>9, <1>13, <3>1 DEF Confirmed
    <3> QED BY <1>1, <3>2 DEF Progress, AnswerType, Answered
  <2>6. CASE size >= Chunks[1] /\ s2c' = s2c \o <<Progress(w.seq), Result(TRUE)>>
    <3>1. Whole(Chunks[1])'
      <4>1. Whole(csHead[1].size + 1)
        BY <1>10, <1>13
      <4>2. \A s \in Seqs : s <= csHead[1].size + 1
        BY <1>8, <2>6, Consts
      <4>3. \A s \in Seqs : store[<<1, s>>] = <<1, s>>
        BY <4>1, <4>2 DEF Whole
      <4> QED BY <1>0, <4>3 DEF Whole
    <3>2. Result(TRUE) \in AnswerType /\ Answered(Result(TRUE))'
      BY <3>1 DEF Result, AnswerType, Answered
    <3>3. Answers'
      BY <1>3, <1>4, <2>5, <2>6, <3>2, AnswersAppend2 DEF UInv
    <3> QED BY <1>5, <1>6, <1>7, <2>3, <2>4, <3>3 DEF UInv
  <2>7. CASE s2c' = Append(s2c, Progress(w.seq))
    <3>1. Answers'
      BY <1>3, <1>4, <2>5, <2>7, AnswersAppend DEF UInv
    <3> QED BY <1>5, <1>6, <1>7, <2>3, <2>4, <3>1 DEF UInv
  <2> QED BY <2>1, <2>6, <2>7
<1>14. w.ok \in BOOLEAN
  BY OneWriter DEF WriteType
<1> QED BY <1>11, <1>12, <1>13, <1>14

-----------------------------------------------------------------------------

\* Every step keeps the invariant.
LEMMA NextInv ==
    ASSUME OneUpload, UInv, [Next]_vars
    PROVE  UInv'
<1>1. CASE Next
  <2>1. CASE WriteFile
    BY <2>1, WriteFileInv
  <2>2. CASE TakeExit \/ (\E p \in pct : TakeRate(p))
             \/ (\E r \in BOOLEAN : TakeResultEarly(r) \/ TakeResult(r))
    BY <2>2, SelectInv
  <2>3. CASE HandleRsp \/ HandleProgress \/ HandleResult
    BY <2>3, HandlersInv
  <2>4. CASE SendTop \/ SendPiece \/ SendAgain \/ SendFails
    BY <2>4, SendInv
  <2>5. CASE HandleReq
    BY <2>5, HandleReqInv
  <2>6. CASE HandleTerminate
    BY <2>6, HandleTerminateInv
  <2>7. CASE \E d \in data : PushFileData(d)
    BY <2>7, PushInv
  <2>8. CASE \E f \in Files : ReceiveStart(f) \/ ReceiveTop(f) \/ ReceivePiece(f) \/ ReceiveTimeout(f)
    <3>1. ReceiveStart(1) \/ ReceiveTop(1) \/ ReceivePiece(1) \/ ReceiveTimeout(1)
      BY <2>8, Consts
    <3> QED BY <3>1, ReceiveStartInv, ReceiveTopInv, ReceivePieceInv, ReceiveTimeoutInv
  <2>9. CASE \E w \in wr : NoObject(w) \/ DoSeek(w) \/ Write(w) \/ WriteFails(w) \/ DoWriteDataRet(w)
    BY <2>9, NoObjectInv, DoSeekInv, WriteInv, DoWriteDataRetInv
  <2> QED BY <1>1, <2>1, <2>2, <2>3, <2>4, <2>5, <2>6, <2>7, <2>8, <2>9 DEF Next
<1>2. CASE UNCHANGED vars
  <2>1. UNCHANGED <<clientVars, c2s, s2c, data, csMap, csHead, up, rcv, arr, wr, csOff, store>>
    BY <1>2 DEF vars, netVars, csVars
  <2>2. UNCHANGED csVars /\ UNCHANGED <<cur, api, ret, head, snd, fin>>
    BY <1>2 DEF vars, clientVars
  <2>3. ServerTypes' /\ UpWindow' /\ Writers' /\ Counted'
    BY <2>2, ServerKept DEF UInv
  <2>4. ClientTypes' /\ Requested'
    BY <2>1, <2>2 DEF UInv, ClientTypes, Requested
  <2>5. AckWindow' /\ Answers' /\ DataWindow' /\ Told'
    BY <2>1, <2>2, SameServer DEF UInv, AckWindow, Answers, DataWindow, Told
  <2> QED BY <2>3, <2>4, <2>5 DEF UInv
<1> QED BY <1>1, <1>2

\* One upload of any number of pieces: whatever times out, is sent twice or
\* fails, the array a piece is written from is not filled with the next one
\* (receiveFile2CS, TransmitToCS).
THEOREM UploadBufferStable ==
    ASSUME OneUpload
    PROVE  Spec => []BufferStable
<1>1. Init => UInv
  BY InitInv
<1>2. UInv /\ [Next]_vars => UInv'
  BY NextInv
<1>3. UInv => BufferStable
  <2>1. ASSUME UInv, NEW w \in wr, w.pc # "rsp" PROVE arr[w.f] = w.buff
    <3>1. Writer(w) /\ w.f = 1
      BY <2>1, OneWriter
    <3> QED BY <2>1, <3>1 DEF Writer
  <2> QED BY <2>1 DEF BufferStable
<1> QED BY <1>1, <1>2, <1>3, PTL DEF Spec

\* ... and WriteFile returns true only of a file that is whole in the object.
LEMMA UInvStored ==
    ASSUME OneUpload, UInv
    PROVE  SuccessStored
<1>1. ASSUME ret[1] = "true", NEW s \in 1..Chunks[1]
      PROVE  store[<<1, s>>] = <<1, s>>
  <2>1. Whole(Chunks[1])
    BY <1>1 DEF UInv, Told
  <2>2. s \in Seqs /\ s <= Chunks[1]
    BY Consts
  <2> QED BY <2>1, <2>2 DEF Whole
<1> QED BY <1>1, Consts DEF SuccessStored

-----------------------------------------------------------------------------
(* Downloads.                                                              *)

OneDownload == OneUpload /\ MaxFaults \in Nat

\* sendCSFile and receiveFile2Disk of the file; the buffer of a failed read was
\* sent, after which sendCSFile sends nothing more.
Sender    == snd[1]
Receiver  == rcv[1]
ZerosSent == Sender.got + 2 = Sender.seq

\* What is kept under a number, and the types of the records.
Held      == ({1} \X Nat) \cup {Down!None, Down!Empty, Down!Zeros}
SendState == [st : {"none", "start", "top", "ack", "get", "done"}, seq : Nat \ {0}, got : Nat,
              fh : {0, 1}, again : BOOLEAN]
RecvState == [st : {"none", "top", "wait", "done"}, seq : Nat \ {0}, got : Nat]
CSState   == [ack : Nat, failed : BOOLEAN]

\* The variables have their types.
DTypes ==
    /\ cur \in {0, 1} /\ ret \in [{1} -> {"none", "true", "false"}] /\ (busy => cur = 1)
    /\ head \in {0, 1} /\ failed \in [{1} -> BOOLEAN]
    /\ rcv \in [{1} -> RecvState] /\ disk \in [{1} -> Seq(Held)]
    /\ local \in [Down!Seqs -> Held] /\ store \in [Down!Seqs -> Held]
    /\ csMap \in {0, 1} /\ csHead \in [{1} -> CSState]
    /\ snd \in [{1} -> SendState]

\* One request, and one response that comes before everything else.
DOrder ==
    /\ cur = 0 => Sender.st = "none" /\ c2s = <<>>
    /\ c2s # <<>> => c2s = <<1>> /\ Sender.st = "none"
    /\ Sender.st = "none" => s2c = <<>> /\ Receiver.st = "none"
    /\ s2c \in Seq({"rsp", "terminate"})
    /\ \A i \in 1..Len(s2c) : s2c[i] = "rsp" => i = 1 /\ Receiver.st = "none"

\* sendCSFile is never behind with what was read, so it sends no piece twice,
\* and after a failed read the peer has no file head.
DSender ==
    /\ Sender.st \in {"none", "start"} => Sender.seq = 1 /\ Sender.got = 0
    /\ Sender.st \in {"top", "ack", "get"} => Sender.fh = 1
    /\ Sender.st = "done" \/ csHead[1].failed => csMap = 0
    /\ \/ Sender.got + 1 = Sender.seq
       \/ ZerosSent /\ csHead[1].failed /\ Sender.st \in {"top", "done"}
    /\ Sender.got <= Chunks[1]
    /\ Sender.st \in {"ack", "get"} => Sender.got < Chunks[1]
    /\ Sender.st # "done" /\ ~ZerosSent => Sender.seq <= csHead[1].ack + 1

\* The one read under way is of the piece sendCSFile waits for or gave up.
DReads ==
    /\ rd \subseteq {[f |-> 1, fh |-> 1, seq |-> Sender.seq, k |-> Sender.seq]}
    /\ rd # {} => Sender.st \in {"get", "done"}

\* ... and so is the one answer that is kept.
DStore ==
    \A s \in Down!Seqs : store[s] # Down!None =>
        /\ s = Sender.seq /\ Sender.st \in {"get", "done"} /\ rd = {}
        /\ store[s] \in {<<1, s>>, Down!Zeros, Down!Empty}
        /\ store[s] = Down!Zeros => csHead[1].failed
        /\ store[s] = <<1, s>> => csHead[1].ack >= s

\* What was sent under a number is its piece, or the zeros, which are the last.
Sent(s, p) ==
    /\ p \in {<<1, s>>, Down!Zeros}
    /\ s \in Nat /\ s <= Sender.seq
    /\ s = Sender.seq => Sender.st = "done" /\ ~ZerosSent
    /\ p = Down!Zeros => ZerosSent /\ s + 1 = Sender.seq

DData  == \A d \in data : Sent(d.seq, d.piece)
DLocal == \A s \in Down!Seqs : local[s] # Down!None => Sent(s, local[s])

\* The disk has the pieces up to k.
Saved(k) == Len(disk[1]) = k /\ \A j \in 1..k : disk[1][j] = <<1, j>>

\* receiveFile2Disk has saved what it counted, or has got the zeros and will
\* get nothing more.
DReceiver ==
    Receiver.st \in {"top", "wait"} =>
        /\ Receiver.got < Chunks[1]
        /\ \/ Receiver.seq = Receiver.got + 1 /\ Saved(Receiver.got)
           \/ Receiver.seq = Receiver.got + 2 /\ ZerosSent /\ Receiver.seq = Sender.seq

\* A hundred percent and success are of a file that is whole.
DTold ==
    /\ \A p \in pct : p[1] = 1 /\ (p[2] = Chunks[1] => Receiver.st = "done" /\ Saved(Chunks[1]))
    /\ ret[1] = "true" => Receiver.st = "done" /\ Saved(Chunks[1])

\* The inductive invariant of a download.
DInv == /\ DTypes /\ DOrder /\ DSender /\ DReads /\ DStore
        /\ DData /\ DLocal /\ DReceiver /\ DTold


\* The sets of the model when there is one file to download.
LEMMA DConsts ==
    ASSUME OneDownload
    PROVE  /\ Down!Files = {1} /\ Chunks[1] \in Nat \ {0} /\ Len(Chunks) = 1
           /\ Down!Seqs = 1..(Chunks[1] + MaxFaults + 1)
           /\ \A s \in Nat \ {0} : s <= Chunks[1] + 1 => s \in Down!Seqs
<1>1. PICK c \in Nat \ {0} : Chunks = <<c>>
  BY DEF OneDownload, OneUpload
<1>2. Down!Files = {1} /\ Chunks[1] = c /\ Len(Chunks) = 1
  BY <1>1 DEF Down!Files
<1>3. Down!Seqs = 1..(Chunks[1] + MaxFaults + 1)
  BY <1>2 DEF Down!Seqs
<1> QED BY <1>2, <1>3 DEF OneDownload

\* The pieces differ from what stands for none, no bytes and zeros.
LEMMA DValues ==
    /\ Down!None # Down!Zeros /\ Down!None # Down!Empty /\ Down!Empty # Down!Zeros
    /\ \A s \in Nat : /\ <<1, s>> # Down!None /\ <<1, s>> # Down!Empty /\ <<1, s>> # Down!Zeros
                      /\ <<1, s>> \in Held
    /\ Down!None \in Held /\ Down!Zeros \in Held /\ Down!Empty \in Held
BY DEF Down!None, Down!Zeros, Down!Empty, Held

\* The invariant holds to begin with.
LEMMA DInitInv ==
    ASSUME OneDownload, Down!Init
    PROVE  DInv
<1>1. DTypes
  BY DConsts, DValues DEF Down!Init, DTypes, RecvState, SendState, CSState
<1>2. Sender = [st |-> "none", seq |-> 1, got |-> 0, fh |-> 0, again |-> FALSE]
  BY DConsts DEF Down!Init, Sender
<1>3. Receiver.st = "none" /\ csHead[1] = [ack |-> 0, failed |-> FALSE]
  BY DConsts DEF Down!Init, Receiver
<1>4. DOrder
  BY <1>2, <1>3 DEF Down!Init, DOrder
<1>5. DSender /\ DReads
  BY <1>2, <1>3, DConsts DEF Down!Init, DSender, DReads, ZerosSent
<1>6. DStore /\ DData /\ DLocal
  BY DConsts DEF Down!Init, DStore, DData, DLocal
<1>7. DReceiver /\ DTold
  BY <1>3, DConsts DEF Down!Init, DReceiver, DTold
<1> QED BY <1>1, <1>4, <1>5, <1>6, <1>7 DEF DInv

\* What is said of the server follows from its variables.
LEMMA DServerKept ==
    ASSUME DInv, UNCHANGED <<snd, csHead, csMap, rd, store>>
    PROVE  /\ DSender' /\ DReads' /\ DStore' /\ Sender' = Sender /\ (ZerosSent' <=> ZerosSent)
           /\ \A s, p : Sent(s, p)' <=> Sent(s, p)
<1>1. Sender' = Sender /\ (ZerosSent' <=> ZerosSent)
  BY DEF Sender, ZerosSent
<1>2. DSender' /\ DReads' /\ DStore'
  BY <1>1 DEF DInv, DSender, DReads, DStore
<1>3. \A s, p : Sent(s, p)' <=> Sent(s, p)
  BY <1>1 DEF Sent
<1> QED BY <1>1, <1>2, <1>3

\* ReadFile and its select.
LEMMA DSelectInv ==
    ASSUME OneDownload, DInv,
           Down!ReadFile \/ Down!TakeExit \/ Down!TakeFailure \/ (\E p \in pct : Down!TakeRate(p))
    PROVE  DInv'
<1>1. UNCHANGED <<rcv, disk, local, failed, s2c, data, snd, csHead, csMap, rd, store>>
  BY DEF Down!ReadFile, Down!TakeExit, Down!TakeFailure, Down!TakeRate, Down!netVars, Down!csVars
<1>2. DSender' /\ DReads' /\ DStore' /\ Sender' = Sender /\ (ZerosSent' <=> ZerosSent)
      /\ \A s, p : Sent(s, p)' <=> Sent(s, p)
  BY <1>1, DServerKept
<1>3. Receiver' = Receiver /\ (\A k : Saved(k)' <=> Saved(k))
  BY <1>1 DEF Receiver, Saved
<1>4. DData' /\ DLocal'
  BY <1>1, <1>2 DEF DInv, DData, DLocal
<1>5. DReceiver'
  BY <1>2, <1>3 DEF DInv, DReceiver
<1>6. CASE Down!ReadFile
  <2>1. cur = 0 /\ cur' = 1 /\ head' = 1 /\ c2s = <<>> /\ c2s' = Append(c2s, 1) /\ UNCHANGED <<ret, pct>>
    <3>1. cur = 0
      <4>1. cur \in {0, 1}
        BY DEF DInv, DTypes
      <4>2. cur < Len(Chunks)
        BY <1>6 DEF Down!ReadFile
      <4>3. Len(Chunks) = 1
        BY DConsts
      <4> QED BY <4>1, <4>2, <4>3
    <3>2. c2s = <<>>
      BY <3>1 DEF DInv, DOrder
    <3> QED BY <1>6, <3>1, <3>2 DEF Down!ReadFile
  <2>2. c2s' = <<1>>
    BY <2>1
  <2>3. DTypes'
    BY <1>1, <2>1 DEF DInv, DTypes
  <2>4. DOrder'
    BY <1>1, <1>2, <1>3, <2>1, <2>2 DEF DInv, DOrder
  <2>5. DTold'
    BY <1>3, <2>1 DEF DInv, DTold
  <2> QED BY <1>2, <1>4, <1>5, <2>3, <2>4, <2>5 DEF DInv
<1>7. CASE Down!TakeExit \/ Down!TakeFailure \/ (\E p \in pct : Down!TakeRate(p))
  <2>1. UNCHANGED <<cur, head, c2s>> /\ pct' \subseteq pct
    BY <1>7 DEF Down!TakeExit, Down!TakeFailure, Down!TakeRate, Down!netVars
  <2>2. DOrder'
    BY <1>1, <1>2, <1>3, <2>1 DEF DInv, DOrder
  <2>3. /\ ret' \in [{1} -> {"none", "true", "false"}] /\ (busy' => cur = 1)
        /\ ret'[1] = "true" => ret[1] = "true" \/ \E p \in pct : p[2] = Chunks[p[1]]
    <3>1. ASSUME NEW r \in {"true", "false"}, Down!Return(r), busy
          PROVE  ret' \in [{1} -> {"none", "true", "false"}] /\ ret'[1] = r /\ busy' = FALSE
      BY <3>1 DEF Down!Return, DInv, DTypes
    <3>2. CASE Down!TakeExit
      BY <3>2, <3>1 DEF Down!TakeExit
    <3>3. CASE Down!TakeFailure
      BY <3>3 DEF Down!TakeFailure, DInv, DTypes
    <3>4. ASSUME NEW p \in pct, Down!TakeRate(p)
          PROVE  /\ ret' \in [{1} -> {"none", "true", "false"}] /\ (busy' => cur = 1)
                 /\ ret'[1] = "true" => ret[1] = "true" \/ p[2] = Chunks[p[1]]
      <4>1. CASE p[2] = Chunks[p[1]]
        BY <3>4, <4>1, <3>1 DEF Down!TakeRate
      <4>2. CASE p[2] # Chunks[p[1]]
        BY <3>4, <4>2 DEF Down!TakeRate, DInv, DTypes
      <4> QED BY <4>1, <4>2
    <3> QED BY <1>7, <3>2, <3>3, <3>4
  <2>4. DTypes'
    BY <1>1, <2>1, <2>3 DEF DInv, DTypes
  <2>5. DTold'
    <3>1. ret'[1] = "true" => Receiver.st = "done" /\ Saved(Chunks[1])
      BY <2>3 DEF DInv, DTold
    <3>2. \A p \in pct' : p[1] = 1 /\ (p[2] = Chunks[1] => Receiver.st = "done" /\ Saved(Chunks[1]))
      BY <2>1 DEF DInv, DTold
    <3> QED BY <1>3, <3>1, <3>2 DEF DTold
  <2> QED BY <1>2, <1>4, <1>5, <2>2, <2>4, <2>5 DEF DInv
<1> QED BY <1>6, <1>7

\* The handlers of the client.
LEMMA DHandlersInv ==
    ASSUME OneDownload, DInv, Down!HandleRsp \/ Down!HandleTerminate
    PROVE  DInv'
<1>1. /\ UNCHANGED <<cur, ret, busy, head, local, pct, c2s, data, snd, csHead, csMap, rd, store>>
      /\ s2c # <<>> /\ s2c' = Tail(s2c)
  BY DEF Down!HandleRsp, Down!HandleTerminate, Down!netVars, Down!csVars
<1>2. DSender' /\ DReads' /\ DStore' /\ Sender' = Sender /\ (ZerosSent' <=> ZerosSent)
      /\ \A s, p : Sent(s, p)' <=> Sent(s, p)
  BY <1>1, DServerKept
<1>3. DData' /\ DLocal'
  BY <1>1, <1>2 DEF DInv, DData, DLocal
<1>4. /\ Tail(s2c) \in Seq({"rsp", "terminate"}) /\ Len(Tail(s2c)) = Len(s2c) - 1
      /\ \A i \in 1..Len(Tail(s2c)) : i + 1 \in 1..Len(s2c) /\ Tail(s2c)[i] = s2c[i + 1]
      /\ Head(s2c) = s2c[1] /\ 1 \in 1..Len(s2c)
  BY <1>1, TailKept DEF DInv, DOrder
<1>5. \A i \in 1..Len(s2c') : s2c'[i] # "rsp"
  <2>1. \A i \in 1..Len(s2c') : i + 1 # 1
    OBVIOUS
  <2> QED BY <1>1, <1>4, <2>1 DEF DInv, DOrder
<1>6. Sender.st # "none"
  BY <1>1 DEF DInv, DOrder
<1>7. DOrder'
  BY <1>1, <1>2, <1>4, <1>5, <1>6 DEF DInv, DOrder
<1>8. CASE UNCHANGED <<rcv, disk>>
  <2>1. Receiver' = Receiver /\ (\A k : Saved(k)' <=> Saved(k))
    BY <1>8 DEF Receiver, Saved
  <2>2. failed' \in [{1} -> BOOLEAN]
    BY DEF Down!HandleRsp, Down!HandleTerminate, DInv, DTypes
  <2>3. DTypes'
    BY <1>1, <1>8, <2>2 DEF DInv, DTypes
  <2>4. DReceiver' /\ DTold'
    BY <1>1, <1>2, <2>1 DEF DInv, DReceiver, DTold
  <2> QED BY <1>2, <1>3, <1>7, <2>3, <2>4 DEF DInv
<1>9. CASE ~UNCHANGED <<rcv, disk>>
  <2>1. /\ Down!HandleRsp /\ head = 1 /\ Head(s2c) = "rsp"
        /\ failed' = [failed EXCEPT ![1] = FALSE]
        /\ rcv' = [rcv EXCEPT ![1] = [st |-> "top", seq |-> 1, got |-> 0]]
        /\ disk' = [disk EXCEPT ![1] = <<>>]
    BY <1>9 DEF Down!HandleRsp, Down!HandleTerminate, DInv, DTypes
  <2>2. Receiver.st = "none"
    BY <2>1, <1>4 DEF DInv, DOrder
  <2>3. rcv'[1] = [st |-> "top", seq |-> 1, got |-> 0] /\ disk'[1] = <<>>
    BY <2>1 DEF DInv, DTypes
  <2>4. DTypes'
    <3>1. <<>> \in Seq(Held) /\ [st |-> "top", seq |-> 1, got |-> 0] \in RecvState
      BY DEF RecvState
    <3>2. rcv' \in [{1} -> RecvState] /\ disk' \in [{1} -> Seq(Held)] /\ failed' \in [{1} -> BOOLEAN]
      BY <2>1, <3>1 DEF DInv, DTypes
    <3> QED BY <1>1, <3>2 DEF DInv, DTypes
  <2>5. DReceiver'
    BY <2>3, DConsts DEF DReceiver, Receiver, Saved
  <2>6. DTold'
    BY <1>1, <2>2, DConsts DEF DInv, DTold
  <2> QED BY <1>2, <1>3, <1>7, <2>4, <2>5, <2>6 DEF DInv
<1> QED BY <1>8, <1>9

\* pushLocalData.
LEMMA DPushInv ==
    ASSUME OneDownload, DInv, NEW d \in data, Down!PushLocalData(d)
    PROVE  DInv'
<1>1. /\ UNCHANGED <<cur, ret, busy, head, failed, rcv, disk, pct, c2s, s2c, snd, csHead, csMap, rd, store>>
      /\ data' = data \ {d} /\ local' = [local EXCEPT ![d.seq] = d.piece]
  BY DEF Down!PushLocalData, Down!csVars
<1>2. DSender' /\ DReads' /\ DStore' /\ Sender' = Sender /\ (ZerosSent' <=> ZerosSent)
      /\ \A s, p : Sent(s, p)' <=> Sent(s, p)
  BY <1>1, DServerKept
<1>3. Receiver' = Receiver /\ (\A k : Saved(k)' <=> Saved(k))
  BY <1>1 DEF Receiver, Saved
<1>4. Sent(d.seq, d.piece)
  BY DEF DInv, DData
<1>5. d.piece \in Held
  BY <1>4, DValues DEF Sent
<1>6. DTypes'
  BY <1>1, <1>5 DEF DInv, DTypes
<1>7. DOrder' /\ DReceiver' /\ DTold'
  BY <1>1, <1>2, <1>3 DEF DInv, DOrder, DReceiver, DTold
<1>8. DData'
  BY <1>1, <1>2 DEF DInv, DData
<1>9. DLocal'
  <2>1. \A s \in Down!Seqs : local'[s] = local[s] \/ (s = d.seq /\ local'[s] = d.piece)
    BY <1>1 DEF DInv, DTypes
  <2> QED BY <1>2, <1>4, <2>1 DEF DInv, DLocal
<1> QED BY <1>2, <1>6, <1>7, <1>8, <1>9 DEF DInv

\* The record of receiveFile2Disk.
LEMMA DRecvFields ==
    ASSUME NEW r \in [{1} -> RecvState], NEW x \in {"wait", "done"}
    PROVE  /\ [r EXCEPT ![1].st = x] \in [{1} -> RecvState]
           /\ [r EXCEPT ![1].st = x][1].st = x
           /\ [r EXCEPT ![1].st = x][1].seq = r[1].seq
           /\ [r EXCEPT ![1].st = x][1].got = r[1].got
BY DEF RecvState

\* What is received lies below what was sent, and is a number of Seqs.
LEMMA DRecvSeq ==
    ASSUME OneDownload, DInv, Receiver.st \in {"top", "wait"}
    PROVE  Receiver.seq \in Down!Seqs /\ Receiver.got \in Nat /\ Receiver.seq \in Nat \ {0}
<1>1. Receiver.got \in Nat /\ Receiver.seq \in Nat \ {0}
  BY DEF DInv, DTypes, Receiver, RecvState
<1>2. Receiver.seq <= Chunks[1] + 1
  BY <1>1, DConsts DEF DInv, DReceiver
<1> QED BY <1>1, <1>2, DConsts

\* receiveFile2Disk goes on or ends without having saved anything.
LEMMA DReceiveStepInv ==
    ASSUME OneDownload, DInv, NEW x \in {"wait", "done"},
           Receiver.st \in {"top", "wait"},
           rcv' = [rcv EXCEPT ![1].st = x], head' \in {0, 1},
           local' = local \/ local' = [local EXCEPT ![Receiver.seq] = Down!None],
           UNCHANGED <<cur, ret, busy, failed, disk, pct, Down!netVars, Down!csVars>>
    PROVE  DInv'
<1>1. UNCHANGED <<c2s, s2c, data, snd, csHead, csMap, rd, store>>
  BY DEF Down!netVars, Down!csVars
<1>2. DSender' /\ DReads' /\ DStore' /\ Sender' = Sender /\ (ZerosSent' <=> ZerosSent)
      /\ \A s, p : Sent(s, p)' <=> Sent(s, p)
  BY <1>1, DServerKept
<1>3. /\ rcv' \in [{1} -> RecvState] /\ Receiver'.st = x
      /\ Receiver'.seq = Receiver.seq /\ Receiver'.got = Receiver.got
  <2>1. rcv \in [{1} -> RecvState]
    BY DEF DInv, DTypes
  <2>2. /\ rcv' \in [{1} -> RecvState] /\ rcv'[1].st = x
        /\ rcv'[1].seq = rcv[1].seq /\ rcv'[1].got = rcv[1].got
    <3>1. rcv' = [rcv EXCEPT ![1].st = x]
      OBVIOUS
    <3>2. /\ [rcv EXCEPT ![1].st = x] \in [{1} -> RecvState]
          /\ [rcv EXCEPT ![1].st = x][1].st = x
          /\ [rcv EXCEPT ![1].st = x][1].seq = rcv[1].seq
          /\ [rcv EXCEPT ![1].st = x][1].got = rcv[1].got
      BY ONLY <2>1, x \in {"wait", "done"} DEF RecvState
    <3> QED BY ONLY <3>1, <3>2, Zenon
  <2> QED BY <2>2 DEF Receiver
<1>4. \A k : Saved(k)' <=> Saved(k)
  BY DEF Saved
<1>5. local' \in [Down!Seqs -> Held] /\ \A s \in Down!Seqs : local'[s] \in {local[s], Down!None}
  BY DValues DEF DInv, DTypes
<1>6. DTypes'
  BY <1>1, <1>3, <1>5 DEF DInv, DTypes
<1>7. DOrder'
  BY <1>1, <1>2, <1>3 DEF DInv, DOrder
<1>8. DData' /\ DLocal'
  BY <1>1, <1>2, <1>5 DEF DInv, DData, DLocal
<1>9. DReceiver'
  BY <1>2, <1>3, <1>4 DEF DInv, DReceiver
<1>10. DTold'
  BY <1>3, <1>4 DEF DInv, DTold
<1> QED BY <1>2, <1>6, <1>7, <1>8, <1>9, <1>10 DEF DInv

\* receiveFile2Disk, but for the pieces it saves.
LEMMA DReceiveInv ==
    ASSUME OneDownload, DInv, Down!ReceiveTop(1) \/ Down!ReceiveError(1) \/ Down!ReceiveTimeout(1)
    PROVE  DInv'
<1>1. Receiver.st \in {"top", "wait"}
  BY DEF Down!ReceiveTop, Down!ReceiveError, Down!PopLocalData, Down!ReceiveTimeout, Receiver
<1>2. UNCHANGED <<cur, ret, busy, failed, disk, pct, Down!netVars, Down!csVars>>
  BY DEF Down!ReceiveTop, Down!ReceiveError, Down!PopLocalData, Down!ReceiveTimeout
<1>3. local' = local \/ local' = [local EXCEPT ![Receiver.seq] = Down!None]
  BY DEF Down!ReceiveTop, Down!ReceiveError, Down!PopLocalData, Down!ReceiveTimeout, Receiver
<1>4. \E x \in {"wait", "done"} : rcv' = [rcv EXCEPT ![1].st = x] /\ head' \in {0, 1}
  BY DEF Down!ReceiveTop, Down!ReceiveError, Down!PopLocalData, Down!ReceiveTimeout, Down!ReceiveDone, DInv, DTypes
<1> QED BY <1>1, <1>2, <1>3, <1>4, DReceiveStepInv

\* A piece is saved.
LEMMA DReceivePieceInv ==
    ASSUME OneDownload, DInv, Down!ReceivePiece(1)
    PROVE  DInv'
<1> DEFINE r == Receiver
           p == local[r.seq]
           n == IF p = Down!Zeros THEN r.got ELSE r.got + 1
<1>1. /\ UNCHANGED <<cur, ret, busy, failed, c2s, s2c, data, snd, csHead, csMap, rd, store>>
      /\ r.st = "wait" /\ p # Down!None /\ local' = [local EXCEPT ![r.seq] = Down!None]
  BY DEF Down!ReceivePiece, Down!PopLocalData, Down!netVars, Down!csVars, Receiver
<1>2. DSender' /\ DReads' /\ DStore' /\ Sender' = Sender /\ (ZerosSent' <=> ZerosSent)
      /\ \A s, q : Sent(s, q)' <=> Sent(s, q)
  BY <1>1, DServerKept
<1>3. r.seq \in Down!Seqs /\ r.got \in Nat /\ r.seq \in Nat \ {0} /\ r.got < Chunks[1]
  BY <1>1, DRecvSeq DEF DInv, DReceiver
<1>4. Sent(r.seq, p)
  BY <1>1, <1>3 DEF DInv, DLocal
<1>5. r.seq = r.got + 1 /\ Saved(r.got)
  BY <1>1, <1>4 DEF DInv, DReceiver, Sent
<1>6. p \in Held /\ (p = Down!Zeros \/ p = <<1, r.got + 1>>)
  BY <1>3, <1>4, <1>5, DValues DEF Sent
<1>7. local' \in [Down!Seqs -> Held] /\ \A s \in Down!Seqs : local'[s] \in {local[s], Down!None}
  BY <1>1, DValues DEF DInv, DTypes
<1>8. DData' /\ DLocal'
  BY <1>1, <1>2, <1>7 DEF DInv, DData, DLocal
<1>9. PICK m \in Nat : m = n /\ m <= Chunks[1]
  BY <1>3, DConsts
<1>10. /\ disk' \in [{1} -> Seq(Held)]
       /\ disk'[1] = IF p = Down!Zeros THEN disk[1] ELSE Append(disk[1], p)
  <2>1. disk' = IF p = Down!Zeros THEN disk ELSE [disk EXCEPT ![1] = Append(disk[1], p)]
    BY DEF Down!ReceivePiece, Down!PopLocalData, Receiver
  <2>2. disk[1] \in Seq(Held) /\ Append(disk[1], p) \in Seq(Held)
    BY <1>6 DEF DInv, DTypes
  <2> QED BY <2>1, <2>2 DEF DInv, DTypes
<1>11. Saved(m)'
  <2>1. CASE p = Down!Zeros
    BY <2>1, <1>5, <1>9, <1>10 DEF Saved
  <2>2. CASE p # Down!Zeros
    <3>1. disk[1] \in Seq(Held) /\ Len(disk[1]) = r.got /\ \A j \in 1..r.got : disk[1][j] = <<1, j>>
      BY <1>5 DEF DInv, DTypes, Saved
    <3>2. disk'[1] = Append(disk[1], <<1, r.got + 1>>) /\ m = r.got + 1
      BY <2>2, <1>6, <1>9, <1>10
    <3>3. Len(disk'[1]) = m /\ \A j \in 1..m : disk'[1][j] = <<1, j>>
      BY <3>1, <3>2, <1>3
    <3> QED BY <3>3 DEF Saved
  <2> QED BY <2>1, <2>2
<1>12. pct' = IF m = 0 THEN pct ELSE pct \union {<<1, IF Down!Final(1, m) THEN Chunks[1] ELSE m>>}
  BY <1>9 DEF Down!ReceivePiece, Down!PopLocalData, Receiver
<1>13. ret[1] # "true" /\ \A q \in pct : q[1] = 1 /\ q[2] # Chunks[1]
  BY <1>1 DEF DInv, DTold
<1>14. CASE m >= Chunks[1]
  <2>1. m = Chunks[1]
    BY <1>9, <1>14, DConsts
  <2>2. rcv' = [rcv EXCEPT ![1].st = "done"] /\ head' = 0
    BY <1>9, <1>14 DEF Down!ReceivePiece, Down!PopLocalData, Down!Final, Down!ReceiveDone, Receiver
  <2>3. rcv' \in [{1} -> RecvState] /\ Receiver'.st = "done"
    BY <2>2, DRecvFields DEF DInv, DTypes, Receiver
  <2>4. DTypes'
    BY <1>1, <1>7, <1>10, <2>2, <2>3 DEF DInv, DTypes
  <2>5. DOrder'
    BY <1>1, <1>2, <2>3 DEF DInv, DOrder
  <2>6. DReceiver'
    BY <2>3 DEF DReceiver
  <2>7. DTold'
    <3>1. \A q \in pct' : q[1] = 1
      BY <1>12, <1>13
    <3> QED BY <1>1, <1>11, <2>1, <2>3, <3>1 DEF DTold
  <2> QED BY <1>2, <1>8, <2>4, <2>5, <2>6, <2>7 DEF DInv
<1>15. CASE ~(m >= Chunks[1])
  <2>1. /\ rcv' = [rcv EXCEPT ![1] = [st |-> "top", seq |-> r.seq + 1, got |-> m]]
        /\ UNCHANGED head
    BY <1>9, <1>15 DEF Down!ReceivePiece, Down!PopLocalData, Down!Final, Receiver
  <2>2. /\ rcv' \in [{1} -> RecvState]
        /\ Receiver' = [st |-> "top", seq |-> r.seq + 1, got |-> m]
    <3>1. [st |-> "top", seq |-> r.seq + 1, got |-> m] \in RecvState
      BY <1>3, <1>9 DEF RecvState
    <3> QED BY <2>1, <3>1 DEF DInv, DTypes, Receiver
  <2>3. DTypes'
    BY <1>1, <1>7, <1>10, <2>1, <2>2 DEF DInv, DTypes
  <2>4. DOrder'
    BY <1>1, <1>2, <2>2 DEF DInv, DOrder
  <2>5. DReceiver'
    <3>1. Receiver'.got = m /\ Receiver'.seq = r.seq + 1
      BY <2>2
    <3>2. CASE p = Down!Zeros
      BY <3>1, <3>2, <1>2, <1>3, <1>4, <1>5, <1>15, <1>9, DConsts DEF DReceiver, Sent
    <3>3. CASE p # Down!Zeros
      BY <3>1, <3>3, <1>3, <1>5, <1>9, <1>11, <1>15, DConsts DEF DReceiver
    <3> QED BY <3>2, <3>3
  <2>6. DTold'
    <3>1. \A q \in pct' : q[1] = 1 /\ q[2] # Chunks[1]
      BY <1>9, <1>12, <1>13, <1>15, DConsts DEF Down!Final
    <3> QED BY <1>1, <1>13, <3>1 DEF DTold
  <2> QED BY <1>2, <1>8, <2>3, <2>4, <2>5, <2>6 DEF DInv
<1> QED BY <1>14, <1>15

\* sendCSFile goes on: what was sent stays what it was, and so does what is said
\* of the client.
LEMMA DClientKept ==
    ASSUME OneDownload, DInv, UNCHANGED Down!clientVars, Sender' \in SendState,
           \/ /\ Sender'.seq = Sender.seq /\ Sender'.got = Sender.got
              /\ Sender.st = "done" => Sender'.st = "done"
           \/ Sender'.seq = Sender.seq + 1 /\ ~ZerosSent
    PROVE  /\ UNCHANGED <<cur, ret, busy, head, failed, rcv, disk, local, pct>>
           /\ Receiver' = Receiver /\ DLocal' /\ DReceiver' /\ DTold'
           /\ \A s, p : Sent(s, p) => Sent(s, p)'
<1>1. UNCHANGED <<cur, ret, busy, head, failed, rcv, disk, local, pct>>
  BY DEF Down!clientVars
<1>2. Sender.seq \in Nat /\ Sender'.seq \in Nat
  BY DEF DInv, DTypes, Sender, SendState
<1>3. ZerosSent => ZerosSent' /\ Sender'.seq = Sender.seq
  BY DEF ZerosSent
<1>4. \A s, p : Sent(s, p) => Sent(s, p)'
  BY <1>2, <1>3 DEF Sent, ZerosSent
<1>5. Receiver' = Receiver /\ (\A k : Saved(k)' <=> Saved(k))
  BY <1>1 DEF Receiver, Saved
<1>6. DLocal'
  BY <1>1, <1>4 DEF DInv, DLocal
<1>7. DReceiver'
  BY <1>3, <1>5 DEF DInv, DReceiver
<1>8. DTold'
  BY <1>1, <1>5 DEF DInv, DTold
<1> QED BY <1>1, <1>4, <1>5, <1>6, <1>7, <1>8

\* The response is appended to nothing, a termination to anything.
LEMMA DOrderAppend ==
    ASSUME DInv, UNCHANGED <<cur, rcv>>, UNCHANGED c2s,
           Sender.st # "none" /\ Sender'.st # "none",
           s2c' = s2c \/ s2c' = Append(s2c, "terminate")
    PROVE  DOrder'
<1>1. Receiver' = Receiver
  BY DEF Receiver
<1>2. s2c \in Seq({"rsp", "terminate"}) /\ \A i \in 1..Len(s2c) : s2c[i] = "rsp" => i = 1 /\ Receiver.st = "none"
  BY DEF DInv, DOrder
<1>3. /\ s2c' \in Seq({"rsp", "terminate"})
      /\ \A i \in 1..Len(s2c') : s2c'[i] = "rsp" => i = 1 /\ Receiver.st = "none"
  <2>1. CASE s2c' = s2c
    BY <2>1, <1>2
  <2>2. CASE s2c' = Append(s2c, "terminate")
    <3>1. Len(s2c') = Len(s2c) + 1 /\ s2c'[Len(s2c) + 1] = "terminate" /\ s2c' \in Seq({"rsp", "terminate"})
      BY <2>2, <1>2
    <3>2. \A i \in 1..Len(s2c) : s2c'[i] = s2c[i]
      BY <2>2, <1>2
    <3>3. \A i \in 1..Len(s2c') : i \in 1..Len(s2c) \/ i = Len(s2c) + 1
      BY <3>1, <1>2
    <3> QED BY <3>1, <3>2, <3>3, <1>2
  <2> QED BY <2>1, <2>2
<1>4. c2s = <<>> /\ cur # 0
  BY DEF DInv, DOrder
<1> QED BY <1>1, <1>3, <1>4 DEF DOrder

\* HandleTransferReq and DoFileReadRsp.
LEMMA DHandleReqInv ==
    ASSUME OneDownload, DInv, Down!HandleReq
    PROVE  DInv'
<1>1. c2s # <<>> /\ c2s = <<1>> /\ Sender.st = "none" /\ s2c = <<>> /\ Receiver.st = "none" /\ cur # 0
  BY DEF Down!HandleReq, DInv, DOrder
<1>2. Head(c2s) = 1 /\ Tail(c2s) = <<>>
  BY <1>1
<1>3. /\ UNCHANGED Down!clientVars /\ UNCHANGED <<data, store, rd>> /\ c2s' = <<>>
      /\ s2c' = Append(<<>>, "rsp") /\ csMap' = 1
      /\ csHead' = [csHead EXCEPT ![1] = [ack |-> 0, failed |-> FALSE]]
      /\ snd' = [snd EXCEPT ![1].st = "start"]
  BY <1>1, <1>2 DEF Down!HandleReq
<1>4. s2c' = <<"rsp">>
  BY <1>3
<1>5. /\ snd' \in [{1} -> SendState] /\ Sender' \in SendState /\ Sender'.st = "start"
      /\ Sender'.seq = Sender.seq /\ Sender'.got = Sender.got /\ Sender'.fh = Sender.fh
  <2>1. snd \in [{1} -> SendState]
    BY DEF DInv, DTypes
  <2> QED BY ONLY <2>1, <1>3 DEF SendState, Sender
<1>6. csHead' \in [{1} -> CSState] /\ csHead'[1] = [ack |-> 0, failed |-> FALSE]
  BY <1>3 DEF DInv, DTypes, CSState
<1>7. /\ UNCHANGED <<cur, ret, busy, head, failed, rcv, disk, local, pct>>
      /\ Receiver' = Receiver /\ DLocal' /\ DReceiver' /\ DTold'
      /\ \A s, p : Sent(s, p) => Sent(s, p)'
  BY <1>1, <1>3, <1>5, DClientKept
<1>8. DTypes'
  BY <1>3, <1>5, <1>6, <1>7 DEF DInv, DTypes
<1>9. DOrder'
  <2>1. s2c' \in Seq({"rsp", "terminate"}) /\ \A i \in 1..Len(s2c') : i = 1
    BY <1>4
  <2>2. c2s' = <<>> /\ cur' # 0 /\ Sender'.st # "none" /\ Receiver'.st = "none"
    BY <1>1, <1>3, <1>5, <1>7
  <2> QED BY <2>1, <2>2 DEF DOrder
<1>10. Sender.seq = 1 /\ Sender.got = 0
  BY <1>1 DEF DInv, DSender
<1>11. DSender'
  BY <1>3, <1>5, <1>6, <1>10, DConsts DEF DSender, ZerosSent
<1>12. rd = {} /\ \A s \in Down!Seqs : store[s] = Down!None
  BY <1>1 DEF DInv, DReads, DStore
<1>13. DReads' /\ DStore'
  BY <1>3, <1>12 DEF DReads, DStore
<1>14. DData'
  BY <1>3, <1>7 DEF DInv, DData
<1> QED BY <1>7, <1>8, <1>9, <1>11, <1>13, <1>14 DEF DInv

\* sendCSFile takes a step that neither sends nor reads, or ends.
LEMMA DSendStepInv ==
    ASSUME OneDownload, DInv, UNCHANGED Down!clientVars,
           UNCHANGED <<c2s, data, csHead, store, rd>>,
           s2c' = s2c \/ s2c' = Append(s2c, "terminate"),
           csMap' \in {0, 1}, snd' \in [{1} -> SendState],
           Sender.st \notin {"none", "done"}, Sender'.seq = Sender.seq, Sender'.got = Sender.got,
           \/ Sender'.st = "done" /\ csMap' = 0
           \/ Sender.st = "start" /\ Sender'.st = "top" /\ Sender'.fh = 1 /\ UNCHANGED csMap
           \/ /\ Sender.st = "top" /\ Sender'.st = "ack" /\ Sender'.fh = Sender.fh /\ UNCHANGED csMap
              /\ ~csHead[1].failed /\ Sender.got < Chunks[1]
    PROVE  DInv'
<1>1. Sender' \in SendState
  BY DEF Sender
<1>2. /\ UNCHANGED <<cur, ret, busy, head, failed, rcv, disk, local, pct>>
      /\ Receiver' = Receiver /\ DLocal' /\ DReceiver' /\ DTold'
      /\ \A s, p : Sent(s, p) => Sent(s, p)'
  BY <1>1, DClientKept
<1>3. DTypes'
  BY <1>2 DEF DInv, DTypes
<1>4. DOrder'
  BY <1>2, DOrderAppend
<1>5. ZerosSent' <=> ZerosSent
  BY DEF ZerosSent
<1>6. DSender'
  BY <1>5 DEF DInv, DSender
<1>7. DReads'
  BY DEF DInv, DReads
<1>8. DStore'
  BY DEF DInv, DStore
<1>9. DData'
  BY <1>2 DEF DInv, DData
<1> QED BY <1>2, <1>3, <1>4, <1>6, <1>7, <1>8, <1>9 DEF DInv

\* The records of sendCSFile.
LEMMA DSendFields ==
    ASSUME NEW r \in [{1} -> SendState]
    PROVE  /\ \A x \in {"top", "ack", "done"} :
                 /\ [r EXCEPT ![1].st = x] \in [{1} -> SendState]
                 /\ [r EXCEPT ![1].st = x][1].st = x
                 /\ [r EXCEPT ![1].st = x][1].seq = r[1].seq
                 /\ [r EXCEPT ![1].st = x][1].got = r[1].got
                 /\ [r EXCEPT ![1].st = x][1].fh = r[1].fh
           /\ [r EXCEPT ![1].st = "top", ![1].fh = 1] \in [{1} -> SendState]
           /\ [r EXCEPT ![1].st = "top", ![1].fh = 1][1].st = "top"
           /\ [r EXCEPT ![1].st = "top", ![1].fh = 1][1].seq = r[1].seq
           /\ [r EXCEPT ![1].st = "top", ![1].fh = 1][1].got = r[1].got
           /\ [r EXCEPT ![1].st = "top", ![1].fh = 1][1].fh = 1
BY DEF SendState

\* sendCSFile finds its file head, looks whether anything is left, gives up.
LEMMA DSendInv ==
    ASSUME OneDownload, DInv, Down!SendStart(1) \/ Down!SendTop(1) \/ Down!SendFails(1)
    PROVE  DInv'
<1>1. snd \in [{1} -> SendState] /\ csMap \in {0, 1}
  BY DEF DInv, DTypes
<1>2. /\ UNCHANGED Down!clientVars /\ UNCHANGED <<c2s, data, csHead, store, rd>>
      /\ s2c' = s2c \/ s2c' = Append(s2c, "terminate")
      /\ Sender.st \notin {"none", "done"}
  BY DEF Down!SendStart, Down!SendTop, Down!SendFails, Down!netVars, Sender
<1>3. CASE snd' = [snd EXCEPT ![1].st = "done"] /\ csMap' = 0
  <2>1. /\ snd' \in [{1} -> SendState] /\ Sender'.st = "done"
        /\ Sender'.seq = Sender.seq /\ Sender'.got = Sender.got
    BY <1>1, <1>3, DSendFields DEF Sender
  <2> QED BY <1>2, <1>3, <2>1, DSendStepInv
<1>4. CASE Down!SendStart(1)
  <2>1. CASE csMap = 0
    BY <1>3, <1>4, <2>1 DEF Down!SendStart
  <2>2. CASE csMap = 1
    <3>1. /\ snd' = [snd EXCEPT ![1].st = "top", ![1].fh = 1] /\ UNCHANGED csMap /\ Sender.st = "start"
      BY <1>4, <2>2 DEF Down!SendStart, Sender
    <3>2. /\ snd' \in [{1} -> SendState] /\ Sender'.st = "top" /\ Sender'.fh = 1
          /\ Sender'.seq = Sender.seq /\ Sender'.got = Sender.got
      BY <1>1, <3>1, DSendFields DEF Sender
    <3> QED BY <1>1, <1>2, <3>1, <3>2, DSendStepInv
  <2> QED BY <1>1, <2>1, <2>2
<1>5. CASE Down!SendTop(1)
  <2>1. Sender.fh = 1 /\ Sender.st = "top"
    BY <1>5 DEF Down!SendTop, DInv, DSender, Sender
  <2>2. CASE csHead[1].failed \/ Sender.got >= Chunks[1]
    BY <1>3, <1>5, <2>1, <2>2 DEF Down!SendTop, Down!SendDone, Sender
  <2>3. CASE ~(csHead[1].failed \/ Sender.got >= Chunks[1])
    <3>1. snd' = [snd EXCEPT ![1].st = "ack"] /\ UNCHANGED csMap
      BY <1>5, <2>1, <2>3 DEF Down!SendTop, Sender
    <3>2. /\ snd' \in [{1} -> SendState] /\ Sender'.st = "ack" /\ Sender'.fh = Sender.fh
          /\ Sender'.seq = Sender.seq /\ Sender'.got = Sender.got
      BY <1>1, <3>1, DSendFields DEF Sender
    <3>3. Sender.got < Chunks[1]
      BY <1>1, <2>3, DConsts DEF Sender, SendState
    <3> QED BY <1>1, <1>2, <2>1, <2>3, <3>1, <3>2, <3>3, DSendStepInv
  <2> QED BY <2>2, <2>3
<1>6. CASE Down!SendFails(1)
  BY <1>3, <1>6 DEF Down!SendFails, Down!SendDone
<1> QED BY <1>4, <1>5, <1>6

\* sendCSFile starts the read of the next piece.
LEMMA DSendReadInv ==
    ASSUME OneDownload, DInv, Down!SendRead(1)
    PROVE  DInv'
<1>1. snd \in [{1} -> SendState] /\ Sender.st = "ack"
  BY DEF Down!SendRead, Sender, DInv, DTypes
<1>2. /\ UNCHANGED Down!clientVars /\ UNCHANGED <<c2s, s2c, data, csMap, csHead, store>>
      /\ snd' = [snd EXCEPT ![1].st = "get", ![1].again = FALSE]
  BY DEF Down!SendRead, Down!netVars
<1>3. /\ snd' \in [{1} -> SendState] /\ Sender' \in SendState /\ Sender'.st = "get"
      /\ Sender'.seq = Sender.seq /\ Sender'.got = Sender.got /\ Sender'.fh = Sender.fh
  BY ONLY <1>1, <1>2 DEF SendState, Sender
<1>4. Sender.got + 1 = Sender.seq /\ Sender.fh = 1 /\ ~ZerosSent
  <2>1. Sender.got + 1 = Sender.seq /\ Sender.fh = 1
    BY <1>1 DEF DInv, DSender
  <2>2. Sender.got \in Nat
    BY <1>1 DEF Sender, SendState
  <2> QED BY <2>1, <2>2 DEF ZerosSent
<1>5. rd = {} /\ \A s \in Down!Seqs : store[s] = Down!None
  BY <1>1 DEF DInv, DReads, DStore
<1>6. rd' = {[f |-> 1, fh |-> 1, seq |-> Sender.seq, k |-> Sender.seq]}
  BY <1>4, <1>5 DEF Down!SendRead, Sender
<1>7. /\ UNCHANGED <<cur, ret, busy, head, failed, rcv, disk, local, pct>>
      /\ Receiver' = Receiver /\ DLocal' /\ DReceiver' /\ DTold'
      /\ \A s, p : Sent(s, p) => Sent(s, p)'
  BY <1>1, <1>2, <1>3, DClientKept
<1>8. DTypes'
  BY <1>2, <1>3, <1>7 DEF DInv, DTypes
<1>9. DOrder'
  BY <1>1, <1>2, <1>3, <1>7, DOrderAppend
<1>10. DSender'
  BY <1>1, <1>2, <1>3, <1>4 DEF DInv, DSender, ZerosSent
<1>11. DReads' /\ DStore'
  BY <1>2, <1>3, <1>5, <1>6 DEF DReads, DStore
<1>12. DData'
  BY <1>2, <1>7 DEF DInv, DData
<1> QED BY <1>7, <1>8, <1>9, <1>10, <1>11, <1>12 DEF DInv

\* It is never behind, so nothing is sent twice.
LEMMA DNeverAgain ==
    ASSUME OneDownload, DInv
    PROVE  ~Down!SendAgain(1)
<1>1. SUFFICES ASSUME Sender.st = "ack", Down!Behind(1) PROVE FALSE
  BY DEF Down!SendAgain, Sender
<1>2. Sender.fh = 1 /\ Sender.got + 1 = Sender.seq
  BY <1>1 DEF DInv, DSender
<1>3. Sender.got \in Nat /\ csHead[1].ack \in Nat
  BY DEF DInv, DTypes, Sender, SendState, CSState
<1>4. Sender.seq <= csHead[1].ack + 1
  BY <1>1, <1>2, <1>3 DEF DInv, DSender, ZerosSent
<1>5. Sender.seq > csHead[1].ack + 1
  BY <1>1, <1>2 DEF Down!Behind, Sender
<1> QED BY <1>2, <1>3, <1>4, <1>5

\* It sends a piece.
LEMMA DSendPieceInv ==
    ASSUME OneDownload, DInv, Down!SendPiece(1)
    PROVE  DInv'
<1> DEFINE p == store[Sender.seq]
           n == IF p = Down!Zeros THEN Sender.got ELSE Sender.got + 1
<1>1. snd \in [{1} -> SendState] /\ Sender.st = "get" /\ p # Down!None /\ p # Down!Empty
  BY DEF Down!SendPiece, Sender, DInv, DTypes
<1>2. /\ UNCHANGED Down!clientVars /\ UNCHANGED <<c2s, s2c, csHead, rd>>
      /\ store' = [store EXCEPT ![Sender.seq] = Down!None]
      /\ data' = data \union {[f |-> 1, seq |-> Sender.seq, piece |-> p]}
  BY DEF Down!SendPiece, Sender
<1>3. /\ Sender.got \in Nat /\ Sender.seq = Sender.got + 1 /\ Sender.got < Chunks[1] /\ ~ZerosSent
      /\ Sender.seq \in Down!Seqs /\ Sender.fh = 1
  <2>1. Sender.got \in Nat /\ Sender.seq \in Nat \ {0}
    BY <1>1 DEF Sender, SendState
  <2>2. Sender.got + 1 = Sender.seq /\ Sender.got < Chunks[1] /\ Sender.fh = 1
    BY <1>1 DEF DInv, DSender
  <2>3. Sender.seq <= Chunks[1] + 1
    BY <2>1, <2>2, DConsts
  <2> QED BY <2>1, <2>2, <2>3, DConsts DEF ZerosSent
<1>4. /\ rd = {} /\ p \in {<<1, Sender.seq>>, Down!Zeros} /\ (p = Down!Zeros => csHead[1].failed)
      /\ p = <<1, Sender.seq>> => csHead[1].ack >= Sender.seq
  BY <1>1, <1>3 DEF DInv, DStore
<1>5. \A s \in Down!Seqs : store'[s] = Down!None
  <2>1. \A s \in Down!Seqs : s # Sender.seq => store[s] = Down!None
    BY DEF DInv, DStore
  <2> QED BY <1>2, <2>1 DEF DInv, DTypes
<1>6. store' \in [Down!Seqs -> Held] /\ csHead[1].ack \in Nat /\ csMap \in {0, 1}
  BY <1>2, DValues DEF DInv, DTypes, CSState
<1>7. CASE n >= Chunks[1]
  <2>1. snd' = [snd EXCEPT ![1].st = "done"] /\ csMap' = 0
    BY <1>7 DEF Down!SendPiece, Down!SendDone, Sender
  <2>2. /\ snd' \in [{1} -> SendState] /\ Sender'.st = "done"
        /\ Sender'.seq = Sender.seq /\ Sender'.got = Sender.got
    BY <1>1, <2>1, DSendFields DEF Sender
  <2>3. Sender' \in SendState /\ (ZerosSent' <=> ZerosSent)
    BY <2>2 DEF Sender, ZerosSent
  <2>4. /\ UNCHANGED <<cur, ret, busy, head, failed, rcv, disk, local, pct>>
        /\ Receiver' = Receiver /\ DLocal' /\ DReceiver' /\ DTold'
        /\ \A s, q : Sent(s, q) => Sent(s, q)'
    BY <1>2, <2>2, <2>3, DClientKept
  <2>5. p = <<1, Sender.seq>> /\ p # Down!Zeros
    BY <1>3, <1>4, <1>7, DConsts
  <2>6. DTypes'
    BY <1>2, <1>6, <2>1, <2>2, <2>4 DEF DInv, DTypes
  <2>7. DOrder'
    BY <1>1, <1>2, <2>2, <2>4, DOrderAppend
  <2>8. DSender'
    BY <1>2, <1>3, <2>1, <2>2, <2>3 DEF DInv, DSender
  <2>9. DReads' /\ DStore'
    BY <1>2, <1>4, <1>5 DEF DReads, DStore
  <2>10. DData'
    <3>1. \A d \in data : Sent(d.seq, d.piece)'
      BY <2>4 DEF DInv, DData
    <3>2. ASSUME NEW s, NEW q, s = Sender.seq, q = p PROVE Sent(s, q)'
      BY <3>2, <1>3, <2>2, <2>3, <2>5 DEF Sent
    <3>3. \A d \in data' : d \in data \/ (d.seq = Sender.seq /\ d.piece = p)
      BY <1>2
    <3> QED BY <3>1, <3>2, <3>3 DEF DData
  <2> QED BY <2>4, <2>6, <2>7, <2>8, <2>9, <2>10 DEF DInv
<1>8. CASE ~(n >= Chunks[1])
  <2>1. /\ snd' = [snd EXCEPT ![1].st = "top", ![1].seq = Sender.seq + 1, ![1].got = n]
        /\ UNCHANGED csMap
    BY <1>8 DEF Down!SendPiece, Sender
  <2>2. n \in Nat /\ Sender.seq + 1 \in Nat \ {0}
    BY <1>3
  <2>3. /\ snd' \in [{1} -> SendState] /\ Sender' \in SendState /\ Sender'.st = "top"
        /\ Sender'.seq = Sender.seq + 1 /\ Sender'.got = n /\ Sender'.fh = Sender.fh
    <3>1. ASSUME NEW a \in Nat \ {0}, NEW b \in Nat, snd' = [snd EXCEPT ![1].st = "top", ![1].seq = a, ![1].got = b]
          PROVE  /\ snd' \in [{1} -> SendState] /\ Sender' \in SendState /\ Sender'.st = "top"
                 /\ Sender'.seq = a /\ Sender'.got = b /\ Sender'.fh = Sender.fh
      BY ONLY <1>1, <3>1 DEF SendState, Sender
    <3> QED BY <2>1, <2>2, <3>1
  <2>4. /\ UNCHANGED <<cur, ret, busy, head, failed, rcv, disk, local, pct>>
        /\ Receiver' = Receiver /\ DLocal' /\ DReceiver' /\ DTold'
        /\ \A s, q : Sent(s, q) => Sent(s, q)'
    BY <1>2, <1>3, <2>3, DClientKept
  <2>5. DTypes'
    BY <1>2, <1>6, <2>1, <2>3, <2>4 DEF DInv, DTypes
  <2>6. DOrder'
    BY <1>1, <1>2, <2>3, <2>4, DOrderAppend
  <2>7. IF p = Down!Zeros THEN ZerosSent' ELSE Sender'.got + 1 = Sender'.seq /\ ~ZerosSent'
    BY <1>3, <2>3 DEF ZerosSent
  <2>8. DSender'
    <3>1. Sender'.got <= Chunks[1]
      BY <1>3, <2>3, <1>8, DConsts
    <3>2. csHead[1].failed => csMap' = 0
      BY <2>1 DEF DInv, DSender
    <3>3. p # Down!Zeros => Sender'.seq <= csHead[1].ack + 1
      BY <1>3, <1>4, <1>6, <2>3
    <3> QED BY <1>2, <1>3, <1>4, <2>3, <2>7, <3>1, <3>2, <3>3 DEF DSender
  <2>9. DReads' /\ DStore'
    BY <1>2, <1>4, <1>5 DEF DReads, DStore
  <2>10. DData'
    <3>1. \A d \in data : Sent(d.seq, d.piece)'
      BY <2>4 DEF DInv, DData
    <3>2. ASSUME NEW s, NEW q, s = Sender.seq, q = p PROVE Sent(s, q)'
      BY <3>2, <1>3, <1>4, <2>3, <2>7 DEF Sent
    <3>3. \A d \in data' : d \in data \/ (d.seq = Sender.seq /\ d.piece = p)
      BY <1>2
    <3> QED BY <3>1, <3>2, <3>3 DEF DData
  <2> QED BY <2>4, <2>5, <2>6, <2>8, <2>9, <2>10 DEF DInv
<1> QED BY <1>7, <1>8

\* TransmitFromCS and DoReadDataRet: a read ends, with or without an answer.
LEMMA DReadInv ==
    ASSUME OneDownload, DInv, NEW r \in rd, Down!ReadRet(r) \/ Down!ReadRetError(r) \/ Down!ReadRetNil(r)
    PROVE  DInv'
<1>1. /\ UNCHANGED Down!clientVars /\ UNCHANGED <<c2s, data, snd>> /\ rd' = rd \ {r}
      /\ s2c' = s2c \/ s2c' = Append(s2c, "terminate")
  BY DEF Down!ReadRet, Down!ReadRetError, Down!ReadRetNil, Down!Answer, Down!netVars
<1>2. r = [f |-> 1, fh |-> 1, seq |-> Sender.seq, k |-> Sender.seq] /\ Sender.st \in {"get", "done"}
  BY DEF DInv, DReads
<1>3. rd' = {} /\ \A s \in Down!Seqs : store[s] = Down!None
  BY <1>1 DEF DInv, DReads, DStore
<1>4. /\ Sender' = Sender /\ Sender \in SendState /\ (ZerosSent' <=> ZerosSent)
      /\ Sender.seq \in Nat \ {0} /\ Sender.got \in Nat
  BY <1>1 DEF DInv, DTypes, Sender, ZerosSent, SendState
<1>5. /\ UNCHANGED <<cur, ret, busy, head, failed, rcv, disk, local, pct>>
      /\ Receiver' = Receiver /\ DLocal' /\ DReceiver' /\ DTold'
      /\ \A s, p : Sent(s, p) => Sent(s, p)'
  BY <1>1, <1>4, DClientKept
<1>6. DOrder'
  BY <1>1, <1>2, <1>4, <1>5, DOrderAppend
<1>7. DData'
  BY <1>1, <1>5 DEF DInv, DData
<1>8. DReads'
  BY <1>3 DEF DReads
<1>9. CASE UNCHANGED <<csMap, csHead, store>>
  <2>1. DTypes' /\ DSender' /\ DStore'
    BY <1>1, <1>3, <1>4, <1>5, <1>9 DEF DInv, DTypes, DSender, DStore
  <2> QED BY <1>5, <1>6, <1>7, <1>8, <2>1 DEF DInv
<1>10. ASSUME csMap = 1, NEW p \in {<<1, Sender.seq>>, Down!Zeros, Down!Empty},
              store' = [store EXCEPT ![Sender.seq] = p], csMap' \in {0, 1},
              csHead' \in [{1} -> CSState], csHead'[1].ack >= csHead[1].ack,
              csHead'[1].failed => csMap' = 0,
              p = Down!Zeros => csHead'[1].failed,
              p = <<1, Sender.seq>> => csHead'[1].ack >= Sender.seq
       PROVE  DInv'
  <2>1. Sender.st = "get" /\ ~csHead[1].failed
    BY <1>2, <1>10 DEF DInv, DSender
  <2>2. p \in Held
    BY <1>4, DValues
  <2>3. DTypes'
    BY <1>1, <1>5, <1>10, <2>2 DEF DInv, DTypes
  <2>4. csHead[1].ack \in Nat /\ csHead'[1].ack \in Nat
    BY <1>10 DEF DInv, DTypes, CSState
  <2>5. DSender'
    BY <1>4, <1>10, <2>1, <2>4 DEF DInv, DSender
  <2>6. \A s \in Down!Seqs : store'[s] # Down!None => s = Sender.seq /\ store'[s] = p
    BY <1>3, <1>10 DEF DInv, DTypes
  <2>7. DStore'
    BY <1>3, <1>4, <1>10, <2>1, <2>6 DEF DStore
  <2> QED BY <1>5, <1>6, <1>7, <1>8, <2>3, <2>5, <2>7 DEF DInv
<1>11. csMap \in {0, 1} /\ csHead \in [{1} -> CSState] /\ csHead[1].ack \in Nat
  BY DEF DInv, DTypes, CSState
<1>12. CASE Down!ReadRet(r)
  <2>1. CASE csMap = 0
    BY <1>9, <1>12, <2>1 DEF Down!ReadRet, Down!Answer
  <2>2. CASE csMap = 1
    <3>1. store' = [store EXCEPT ![Sender.seq] = <<1, Sender.seq>>] /\ csMap' = 1
      BY <1>2, <1>12, <2>2 DEF Down!ReadRet, Down!Answer
    <3>2. csHead' = IF csHead[1].ack < Sender.seq THEN [csHead EXCEPT ![1].ack = Sender.seq] ELSE csHead
      BY <1>2, <1>12, <2>2 DEF Down!ReadRet
    <3>3. ~csHead[1].failed
      BY <2>2 DEF DInv, DSender
    <3>4. /\ csHead' \in [{1} -> CSState] /\ csHead'[1].ack >= csHead[1].ack
          /\ csHead'[1].failed = csHead[1].failed /\ csHead'[1].ack >= Sender.seq
      <4>1. CASE csHead[1].ack < Sender.seq
        <5>1. csHead' = [csHead EXCEPT ![1].ack = Sender.seq]
          BY <3>2, <4>1
        <5>2. csHead' \in [{1} -> CSState] /\ csHead'[1].ack = Sender.seq /\ csHead'[1].failed = csHead[1].failed
          BY ONLY <5>1, <1>4, <1>11 DEF CSState
        <5> QED BY <4>1, <5>2, <1>4, <1>11
      <4>2. CASE ~(csHead[1].ack < Sender.seq)
        BY <3>2, <4>2, <1>4, <1>11
      <4> QED BY <4>1, <4>2
    <3> QED BY <1>4, <1>10, <2>2, <3>1, <3>3, <3>4, DValues
  <2> QED BY <1>11, <2>1, <2>2
<1>13. CASE Down!ReadRetError(r)
  <2>1. CASE csMap = 0
    BY <1>9, <1>13, <2>1 DEF Down!ReadRetError, Down!Answer
  <2>2. CASE csMap = 1
    <3>1. PICK p \in {Down!Zeros, Down!Empty} : store' = [store EXCEPT ![Sender.seq] = p]
      BY <1>2, <1>13, <2>2 DEF Down!ReadRetError, Down!Answer
    <3>2. csMap' = 0 /\ csHead' = [csHead EXCEPT ![1].failed = TRUE]
      BY <1>13, <2>2 DEF Down!ReadRetError
    <3>3. csHead' \in [{1} -> CSState] /\ csHead'[1].ack = csHead[1].ack /\ csHead'[1].failed = TRUE
      BY ONLY <3>2, <1>11 DEF CSState
    <3>4. p # <<1, Sender.seq>> /\ csHead'[1].ack >= csHead[1].ack
      BY <1>4, <1>11, <3>3, DValues
    <3> QED BY <1>10, <2>2, <3>1, <3>2, <3>3, <3>4
  <2> QED BY <1>11, <2>1, <2>2
<1>14. CASE Down!ReadRetNil(r)
  BY <1>9, <1>14 DEF Down!ReadRetNil
<1> QED BY <1>12, <1>13, <1>14

\* Every step keeps the invariant of a download.
LEMMA DNextInv ==
    ASSUME OneDownload, DInv, Down!Next
    PROVE  DInv'
<1>1. CASE Down!ReadFile \/ Down!TakeExit \/ Down!TakeFailure \/ (\E p \in pct : Down!TakeRate(p))
  BY <1>1, DSelectInv
<1>2. CASE Down!HandleRsp \/ Down!HandleTerminate
  BY <1>2, DHandlersInv
<1>3. CASE Down!HandleReq
  BY <1>3, DHandleReqInv
<1>4. CASE \E d \in data : Down!PushLocalData(d)
  BY <1>4, DPushInv
<1>5. CASE \E f \in Down!Files : \/ Down!ReceiveTop(f) \/ Down!ReceivePiece(f)
                                 \/ Down!ReceiveError(f) \/ Down!ReceiveTimeout(f)
  <2>1. Down!ReceiveTop(1) \/ Down!ReceivePiece(1) \/ Down!ReceiveError(1) \/ Down!ReceiveTimeout(1)
    BY <1>5, DConsts
  <2> QED BY <2>1, DReceiveInv, DReceivePieceInv
<1>6. CASE \E f \in Down!Files : \/ Down!SendStart(f) \/ Down!SendTop(f) \/ Down!SendRead(f)
                                 \/ Down!SendAgain(f) \/ Down!SendPiece(f) \/ Down!SendFails(f)
  <2>1. \/ Down!SendStart(1) \/ Down!SendTop(1) \/ Down!SendRead(1)
        \/ Down!SendAgain(1) \/ Down!SendPiece(1) \/ Down!SendFails(1)
    BY <1>6, DConsts
  <2> QED BY <2>1, DSendInv, DSendReadInv, DNeverAgain, DSendPieceInv
<1>7. CASE \E r \in rd : Down!ReadRet(r) \/ Down!ReadRetError(r) \/ Down!ReadRetNil(r)
  BY <1>7, DReadInv
<1> QED BY <1>1, <1>2, <1>3, <1>4, <1>5, <1>6, <1>7 DEF Down!Next

\* Nothing changes.
LEMMA DStutter ==
    ASSUME DInv, UNCHANGED <<transfer, download>>
    PROVE  DInv'
<1>1. UNCHANGED <<cur, ret, busy, head, failed, rcv, disk, local, pct, c2s, s2c, data, snd, csHead, csMap, rd, store>>
  BY DEF transfer, download
<1>2. DSender' /\ DReads' /\ DStore' /\ Sender' = Sender /\ (ZerosSent' <=> ZerosSent)
      /\ \A s, p : Sent(s, p)' <=> Sent(s, p)
  BY <1>1, DServerKept
<1>3. Receiver' = Receiver /\ (\A k : Saved(k)' <=> Saved(k))
  BY <1>1 DEF Receiver, Saved
<1>4. DTypes' /\ DOrder'
  BY <1>1, <1>2, <1>3 DEF DInv, DTypes, DOrder
<1>5. DData' /\ DLocal' /\ DReceiver' /\ DTold'
  BY <1>1, <1>2, <1>3 DEF DInv, DData, DLocal, DReceiver, DTold
<1> QED BY <1>2, <1>4, <1>5 DEF DInv

\* Success is of a file that is whole.
LEMMA DInvSaved ==
    ASSUME OneDownload, DInv
    PROVE  Down!SavedWhole
<1>1. SUFFICES ASSUME ret[1] = "true" PROVE disk[1] = [k \in 1..Chunks[1] |-> <<1, k>>]
  BY DConsts DEF Down!SavedWhole
<1>2. Len(disk[1]) = Chunks[1] /\ \A k \in 1..Chunks[1] : disk[1][k] = <<1, k>>
  BY <1>1 DEF DInv, DTold, Saved
<1>3. disk[1] \in Seq(Held)
  BY DEF DInv, DTypes
<1>4. disk[1] = [k \in 1..Len(disk[1]) |-> disk[1][k]]
  BY <1>3
<1> QED BY <1>2, <1>4

-----------------------------------------------------------------------------
(* The cipher.                                                             *)

\* A piece is whole blocks, and no file is (a file of whole blocks is not read
\* back, see ReadBack).
CipherSizes ==
    /\ Block \in Nat \ {0} /\ Piece \in Nat \ {0} /\ Piece % Block = 0
    /\ Sizes \subseteq {n \in Nat : n % Block # 0}

Aligned(n) == \E q \in Nat : n = q * Block

\* How many bytes fill adds to the file, and the first n bytes of what is stored
\* of the file.
Pad       == Block - (Len(file) % Block)
Ciphered(n) == [i \in 1..n |-> [enc |-> IF i <= Len(file) THEN file[i] ELSE Pad]]

\* The inductive invariant of the cipher: byte by byte, what is stored is the
\* file and its padding, and what is saved is the file.
CInv ==
    /\ file \in Seq(Bytes) /\ Len(file) \in Sizes
    /\ sent \in Nat /\ sent <= Len(file) /\ (sent < Len(file) => Aligned(sent))
    /\ object = Ciphered(IF sent < Len(file) THEN sent ELSE Len(file) + Pad)
    /\ saved \in Seq(Bytes) /\ Len(saved) <= Len(file)
    /\ Len(saved) < Len(file) => Aligned(Len(saved))
    /\ \A i \in 1..Len(saved) : saved[i] = file[i]

\* Division with remainder, and its uniqueness.
LEMMA Remainder ==
    ASSUME NEW a \in Nat, NEW b \in Nat \ {0}
    PROVE  /\ a \div b \in Nat /\ a % b \in 0..(b - 1)
           /\ a = b * (a \div b) + (a % b)
OBVIOUS

LEMMA RemainderUnique ==
    ASSUME NEW b \in Nat \ {0}, NEW q \in Nat, NEW x \in Nat,
           NEW r \in 0..(b - 1), NEW s \in 0..(b - 1), b * q + r = b * x + s
    PROVE  r = s
<1>1. CASE q = x
  BY <1>1
<1>2. CASE q > x
  <2>1. b * (q - x - 1) >= 0
    BY <1>2
  <2>2. b * q = b * x + b + b * (q - x - 1)
    BY <1>2
  <2> QED BY <2>1, <2>2
<1>3. CASE q < x
  <2>1. b * (x - q - 1) >= 0
    BY <1>3
  <2>2. b * x = b * q + b + b * (x - q - 1)
    BY <1>3
  <2> QED BY <2>1, <2>2
<1> QED BY <1>1, <1>2, <1>3

\* Whole blocks do not change what is left over.
LEMMA AlignedRest ==
    ASSUME NEW b \in Nat \ {0}, NEW n \in Nat, NEW q \in Nat, q * b <= n
    PROVE  (n - q * b) % b = n % b
<1> DEFINE m == n - q * b
<1>1. m \in Nat
  OBVIOUS
<1>2. /\ m \div b \in Nat /\ m % b \in 0..(b - 1) /\ m = b * (m \div b) + (m % b)
      /\ n \div b \in Nat /\ n % b \in 0..(b - 1) /\ n = b * (n \div b) + (n % b)
  BY <1>1, Remainder
<1> DEFINE x == m \div b
           y == m % b
<1>3. n = b * (x + q) + y
  <2>1. x \in Nat /\ y \in Nat /\ m = b * x + y
    BY <1>2
  <2>2. b * (x + q) = b * x + q * b
    BY <2>1
  <2> HIDE DEF x, y
  <2> QED BY <2>1, <2>2
<1>4. x + q \in Nat /\ n \div b \in Nat
  BY <1>2
<1>5. b * (x + q) + y = b * (n \div b) + (n % b)
  BY <1>2, <1>3
<1> HIDE DEF m, x, y
<1>6. y \in 0..(b - 1)
  BY <1>2 DEF y
<1>7. y = n % b
  BY <1>2, <1>4, <1>5, <1>6, RemainderUnique
<1> QED BY <1>7 DEF y, m

\* What the sizes say: the padding is a number below the block size, what is
\* left of the file after whole blocks is padded in the same way, a whole piece
\* moves on by whole blocks.
LEMMA Padding ==
    ASSUME CipherSizes, file \in Seq(Bytes), Len(file) \in Sizes
    PROVE  /\ Block \in Nat /\ Block > 0 /\ Piece \in Nat /\ Piece > 0 /\ Piece % Block = 0
           /\ Len(file) \in Nat /\ Len(file) > 0
           /\ Pad \in 1..(Block - 1)
           /\ Aligned(0)
           /\ \A n \in Nat : Aligned(n) => Aligned(n + Piece)
           /\ \A n \in Nat : Aligned(n) /\ n <= Len(file)
                  => (Len(file) - n) % Block = Len(file) % Block /\ (Len(file) - n) % Block # 0
<1>1. /\ Block \in Nat \ {0} /\ Piece \in Nat \ {0} /\ Piece % Block = 0
      /\ Len(file) \in Nat /\ Len(file) % Block # 0
  BY DEF CipherSizes
<1>2. Len(file) % Block \in 1..(Block - 1)
  BY <1>1, Remainder
<1>3. Pad \in 1..(Block - 1)
  BY <1>1, <1>2 DEF Pad
<1>4. Len(file) > 0
  <2>1. SUFFICES ASSUME Len(file) = 0 PROVE FALSE
    BY <1>1
  <2>2. Len(file) % Block <= Len(file)
    <3>1. Len(file) = Block * (Len(file) \div Block) + (Len(file) % Block) /\ Len(file) \div Block \in Nat
      BY <1>1, Remainder
    <3>2. Block * (Len(file) \div Block) \in Nat
      BY <1>1, <3>1
    <3> QED BY <1>2, <3>1, <3>2
  <2> QED BY <1>2, <2>1, <2>2
<1>5. Aligned(0)
  BY <1>1 DEF Aligned
<1>6. ASSUME NEW n \in Nat, Aligned(n) PROVE Aligned(n + Piece)
  <2>1. PICK q \in Nat : n = q * Block
    BY <1>6 DEF Aligned
  <2>2. Piece = Block * (Piece \div Block) /\ Piece \div Block \in Nat
    BY <1>1, Remainder
  <2> DEFINE x == Piece \div Block
  <2> HIDE DEF x
  <2>3. x \in Nat /\ Piece = Block * x
    BY <2>2 DEF x
  <2>4. q + x \in Nat /\ n + Piece = (q + x) * Block
    BY <1>1, <2>1, <2>3
  <2> QED BY <2>4 DEF Aligned
<1>7. ASSUME NEW n \in Nat, Aligned(n), n <= Len(file)
      PROVE  (Len(file) - n) % Block = Len(file) % Block /\ (Len(file) - n) % Block # 0
  <2>1. PICK q \in Nat : n = q * Block
    BY <1>7 DEF Aligned
  <2>2. (Len(file) - q * Block) % Block = Len(file) % Block
    BY <1>1, <1>7, <2>1, AlignedRest
  <2> QED BY <1>1, <2>1, <2>2
<1> QED BY <1>1, <1>3, <1>4, <1>5, <1>6, <1>7

\* Two sequences put together byte by byte.
LEMMA CipheredAppend ==
    ASSUME NEW n \in Nat, NEW k \in Nat, file \in Seq(Bytes), Pad \in Nat
    PROVE  Ciphered(n) \o [i \in 1..k |-> Ciphered(n + k)[n + i]] = Ciphered(n + k)
<1> DEFINE T == [enc : Bytes \cup {Pad}]
<1>0. \A j \in Nat : Ciphered(j) \in Seq(T) /\ Len(Ciphered(j)) = j
  BY DEF Ciphered
<1>1. n + k \in Nat
  OBVIOUS
<1>2. Ciphered(n) \in Seq(T) /\ Len(Ciphered(n)) = n /\ Ciphered(n + k) \in Seq(T) /\ Len(Ciphered(n + k)) = n + k
  BY <1>0, <1>1
<1>3. \A i \in 1..n : Ciphered(n)[i] = Ciphered(n + k)[i]
  BY DEF Ciphered
<1> DEFINE A == Ciphered(n)
           B == Ciphered(n + k)
           s == [i \in 1..k |-> B[n + i]]
<1>4. A \in Seq(T) /\ Len(A) = n /\ B \in Seq(T) /\ Len(B) = n + k /\ \A i \in 1..n : A[i] = B[i]
  BY <1>2, <1>3
<1>5. s = [i \in 1..k |-> B[n + i]]
  OBVIOUS
<1> HIDE DEF A, B, T, s
<1>6. s \in Seq(T) /\ Len(s) = k /\ \A i \in 1..k : s[i] = B[n + i]
  <2>1. \A i \in 1..k : n + i \in 1..Len(B)
    BY <1>4
  <2>2. \A i \in 1..Len(B) : B[i] \in T
    BY <1>4
  <2>3. s \in [1..k -> T] /\ \A i \in 1..k : s[i] = B[n + i]
    BY <1>5, <2>1, <2>2
  <2> QED BY ONLY <2>3, k \in Nat
<1>7. /\ A \o s \in Seq(T) /\ Len(A \o s) = n + k
      /\ \A i \in 1..(n + k) : (A \o s)[i] = IF i <= n THEN A[i] ELSE s[i - n]
  BY ONLY <1>4, <1>6, ConcatProperties
<1>8. ASSUME NEW i \in 1..(n + k) PROVE (A \o s)[i] = B[i]
  <2>1. CASE i <= n
    BY <1>4, <1>7, <2>1
  <2>2. CASE i > n
    <3>1. (A \o s)[i] = s[i - n] /\ i - n \in 1..k /\ n + (i - n) = i
      BY <1>7, <2>2
    <3> QED BY <1>6, <3>1
  <2>3. i <= n \/ i > n
    BY ONLY i \in 1..(n + k), n \in Nat, k \in Nat
  <2> QED BY ONLY <2>1, <2>2, <2>3
<1>9. A \o s = B
  BY <1>4, <1>7, <1>8, SeqEqual
<1> QED BY <1>9 DEF A, B, s

\* Before anything is sent.
LEMMA CInitInv ==
    ASSUME CipherSizes, Cip!Init
    PROVE  CInv
<1>1. PICK n \in Sizes : file \in [1..n -> Bytes]
  BY DEF Cip!Init
<1>2. n \in Nat
  BY DEF CipherSizes
<1>3. file \in Seq(Bytes) /\ Len(file) = n
  BY <1>1, <1>2
<1>4. Len(file) > 0 /\ Aligned(0)
  BY <1>3, Padding
<1>5. object = <<>> /\ sent = 0 /\ saved = <<>>
  BY DEF Cip!Init
<1>6. Ciphered(0) = <<>>
  BY DEF Ciphered
<1> QED BY <1>3, <1>4, <1>5, <1>6 DEF CInv

\* A piece of the file, as SubSeq cuts it.
LEMMA Cut ==
    ASSUME NEW S, NEW s \in Seq(S), NEW a \in Nat, NEW n \in Nat, a + n <= Len(s)
    PROVE  /\ SubSeq(s, a + 1, a + n) \in Seq(S)
           /\ Len(SubSeq(s, a + 1, a + n)) = n
           /\ \A i \in 1..n : SubSeq(s, a + 1, a + n)[i] = s[a + i]
<1>1. \A i \in (a + 1)..(a + n) : s[i] \in S
  OBVIOUS
<1>2. a + 1 \in Int /\ a + n \in Int /\ (IF a + 1 <= a + n THEN (a + n) - (a + 1) + 1 ELSE 0) = n
      /\ (a + n) - (a + 1) + 1 = n /\ \A i \in 1..n : a + 1 + i - 1 = a + i
  OBVIOUS
<1> QED BY <1>1, <1>2, SubSeqProperties

\* sendFile: a piece of whole blocks, or the last one with its padding.
LEMMA CSendInv ==
    ASSUME CipherSizes, CInv, Cip!SendPiece
    PROVE  CInv'
<1> DEFINE L == Len(file)
           n == Cip!Least(Piece, L - sent)
           x == SubSeq(file, sent + 1, sent + n)
<1>1. /\ file \in Seq(Bytes) /\ L \in Sizes /\ sent \in Nat /\ sent < L /\ Aligned(sent)
      /\ object = Ciphered(sent)
  BY DEF CInv, Cip!SendPiece
<1>2. /\ Block \in Nat /\ Block > 0 /\ Piece \in Nat /\ Piece > 0 /\ L \in Nat
      /\ Pad \in 1..(Block - 1) /\ Aligned(sent + Piece)
      /\ (L - sent) % Block = L % Block
  BY <1>1, Padding
<1>3. n \in Nat /\ sent + n <= L /\ (n = Piece \/ sent + n = L)
  BY <1>1, <1>2 DEF Cip!Least
<1>4. /\ object' = object \o Cip!Encrypt(x, sent + n >= L)
      /\ sent' = sent + n /\ file' = file /\ saved' = saved
  BY DEF Cip!SendPiece
<1>5. Pad' = Pad /\ \A k : Ciphered(k)' = Ciphered(k)
  BY <1>4 DEF Pad, Ciphered
<1>6. x \in Seq(Bytes) /\ Len(x) = n /\ \A i \in 1..n : x[i] = file[sent + i]
  BY <1>1, <1>3, Cut
<1> HIDE DEF n, x
<1>9. /\ file' \in Seq(Bytes) /\ Len(file') \in Sizes /\ Len(file') \in Nat
      /\ saved' \in Seq(Bytes) /\ Len(saved') <= Len(file')
      /\ (Len(saved) < Len(file) => Aligned(Len(saved)))'
      /\ \A i \in 1..Len(saved') : saved'[i] = file'[i]
  BY <1>4 DEF CInv, Aligned
<1>7. CASE sent + n < L
  <2>1. Cip!Encrypt(x, sent + n >= L) = [i \in 1..n |-> [enc |-> x[i]]]
    BY <1>1, <1>2, <1>3, <1>6, <1>7 DEF Cip!Encrypt
  <2>2. \A i \in 1..n : Ciphered(sent + n)[sent + i] = [enc |-> file[sent + i]]
    BY <1>1, <1>2, <1>3, <1>7 DEF Ciphered
  <2>3. Cip!Encrypt(x, sent + n >= L) = [i \in 1..n |-> Ciphered(sent + n)[sent + i]]
    <3>1. \A i \in 1..n : [enc |-> x[i]] = Ciphered(sent + n)[sent + i]
      BY ONLY <1>6, <2>2
    <3> QED BY ONLY <2>1, <3>1
  <2>4. object' = Ciphered(sent + n)
    <3>1. Ciphered(sent) \o Cip!Encrypt(x, sent + n >= L) = Ciphered(sent + n)
      <4>1. Pad \in Nat
        BY <1>2
      <4>2. Ciphered(sent) \o [i \in 1..n |-> Ciphered(sent + n)[sent + i]] = Ciphered(sent + n)
        BY ONLY <1>1, <1>3, <4>1, CipheredAppend
      <4> QED BY ONLY <2>3, <4>2
    <3> QED BY ONLY <1>1, <1>4, <3>1
  <2>5. Aligned(sent + n)
    BY <1>2, <1>3, <1>7
  <2>6. Aligned(sent)' /\ Ciphered(sent)' = Ciphered(sent + n) /\ sent' \in Nat /\ sent' < Len(file')
    BY ONLY <1>1, <1>3, <1>4, <1>5, <1>7, <2>5 DEF Aligned, Ciphered, Pad
  <2> QED BY <1>4, <1>7, <1>9, <2>4, <2>6 DEF CInv
<1>8. CASE sent + n = L
  <2>1. n = L - sent /\ n % Block = L % Block
    BY <1>1, <1>2, <1>3, <1>8
  <2>2. Block - (Len(x) % Block) = Pad
    BY <1>6, <2>1 DEF Pad
  <2> DEFINE y == x \o [i \in 1..Pad |-> Pad]
  <2>3. Cip!Encrypt(x, sent + n >= L) = [i \in 1..Len(y) |-> [enc |-> y[i]]]
    <3>1. sent + n >= L
      BY <1>1, <1>2, <1>3, <1>8
    <3>2. Cip!Fill(x) = y
      BY <2>2 DEF Cip!Fill
    <3> HIDE DEF y
    <3> QED BY <3>1, <3>2 DEF Cip!Encrypt
  <2>4. Len(y) = n + Pad /\ \A i \in 1..(n + Pad) : y[i] = IF i <= n THEN x[i] ELSE Pad
    <3> DEFINE p == [i \in 1..Pad |-> Pad]
               T == Bytes \cup {Pad}
    <3>1. p \in Seq(T) /\ Len(p) = Pad /\ \A i \in 1..Pad : p[i] = Pad
      BY <1>2
    <3>2. x \in Seq(T)
      BY <1>6
    <3> HIDE DEF p, T
    <3>3. Len(x \o p) = n + Pad /\ \A i \in 1..(n + Pad) : (x \o p)[i] = IF i <= n THEN x[i] ELSE Pad
      <4>1. \A i \in 1..(n + Pad) : (x \o p)[i] = IF i <= n THEN x[i] ELSE p[i - n]
        BY <1>6, <3>1, <3>2, ConcatProperties
      <4>2. Len(x \o p) = n + Pad
        BY <1>6, <3>1, <3>2, ConcatProperties
      <4>3. \A i \in 1..(n + Pad) : i > n => i - n \in 1..Pad
        BY <1>2, <1>3
      <4> QED BY <1>2, <1>3, <3>1, <4>1, <4>2, <4>3
    <3> QED BY <3>3 DEF p
  <2> HIDE DEF y
  <2>5. n + Pad \in Nat /\ sent + (n + Pad) = L + Pad
    BY <1>1, <1>2, <1>3, <1>8
  <2>6. ASSUME NEW i \in 1..(n + Pad)
        PROVE  Ciphered(sent + (n + Pad))[sent + i] = [enc |-> y[i]]
    <3>1. sent + i \in 1..(sent + (n + Pad)) /\ (sent + i <= L <=> i <= n)
      BY <1>1, <1>2, <1>3, <1>8
    <3>2. Ciphered(sent + (n + Pad))[sent + i] = [enc |-> IF sent + i <= L THEN file[sent + i] ELSE Pad]
      BY <3>1 DEF Ciphered
    <3> QED BY <1>6, <2>4, <3>1, <3>2
  <2>7. Cip!Encrypt(x, sent + n >= L) = [i \in 1..(n + Pad) |-> Ciphered(sent + (n + Pad))[sent + i]]
    <3>1. \A i \in 1..(n + Pad) : [enc |-> y[i]] = Ciphered(sent + (n + Pad))[sent + i]
      BY ONLY <2>6
    <3>2. Cip!Encrypt(x, sent + n >= L) = [i \in 1..(n + Pad) |-> [enc |-> y[i]]]
      BY ONLY <2>3, <2>4
    <3> QED BY ONLY <3>1, <3>2
  <2>8. object' = Ciphered(L + Pad)
    <3>1. Ciphered(sent) \o Cip!Encrypt(x, sent + n >= L) = Ciphered(sent + (n + Pad))
      <4>1. Pad \in Nat
        BY <1>2
      <4> DEFINE k == n + Pad
      <4>2. k \in Nat /\ Cip!Encrypt(x, sent + n >= L) = [i \in 1..k |-> Ciphered(sent + k)[sent + i]]
        BY <2>5, <2>7
      <4> HIDE DEF k
      <4>3. Ciphered(sent) \o [i \in 1..k |-> Ciphered(sent + k)[sent + i]] = Ciphered(sent + k)
        BY ONLY <1>1, <4>1, <4>2, CipheredAppend
      <4>4. Ciphered(sent) \o Cip!Encrypt(x, sent + n >= L) = Ciphered(sent + k)
        BY ONLY <4>2, <4>3
      <4> QED BY <4>4 DEF k
    <3> QED BY ONLY <1>1, <1>4, <2>5, <3>1
  <2>9. Ciphered(Len(file) + Pad)' = Ciphered(L + Pad) /\ sent' = Len(file') /\ sent' \in Nat
    BY ONLY <1>1, <1>2, <1>4, <1>5, <1>8 DEF Ciphered, Pad
  <2> QED BY <1>4, <1>9, <2>8, <2>9 DEF CInv
<1> QED BY <1>1, <1>2, <1>3, <1>7, <1>8

\* ObjReadFtp2CSFunc, Decrypt and what is saved: a piece of whole blocks, or the
\* last one, whose padding tells trim how much to take off.
LEMMA CReceiveInv ==
    ASSUME CipherSizes, CInv, Cip!ReceivePiece
    PROVE  CInv'
<1> DEFINE L == Len(file)
           v == Len(saved)
           n == Cip!Least(Piece, L - v)
           z == Cip!Read(v, n)
           b == Cip!Decrypt(z, v + n >= L)
           w == b \o [i \in 1..(n - Len(b)) |-> 0]
<1>1. /\ file \in Seq(Bytes) /\ L \in Sizes /\ sent = L /\ saved \in Seq(Bytes) /\ v \in Nat /\ v < L
      /\ Aligned(v) /\ object = Ciphered(L + Pad) /\ \A i \in 1..v : saved[i] = file[i]
  BY DEF CInv, Cip!ReceivePiece
<1>2. /\ Block \in Nat /\ Block > 0 /\ Piece \in Nat /\ Piece > 0 /\ Piece % Block = 0 /\ L \in Nat
      /\ Pad \in 1..(Block - 1) /\ Aligned(v + Piece)
      /\ (L - v) % Block = L % Block /\ (L - v) % Block # 0
  <2>1. L \in Nat
    BY <1>1
  <2>2. v <= L
    BY <1>1, <2>1
  <2> HIDE DEF L, v
  <2>3. v \in Nat /\ Aligned(v)
    BY <1>1
  <2> QED BY <1>1, <2>2, <2>3, Padding DEF L
<1>3. n \in Nat /\ n > 0 /\ v + n <= L /\ ((n = Piece /\ v + n < L) \/ n = L - v)
  BY <1>1, <1>2 DEF Cip!Least
<1>4. saved' = saved \o SubSeq(w, 1, n) /\ file' = file /\ object' = object /\ sent' = sent
  BY DEF Cip!ReceivePiece
<1>5. Len(object) = L + Pad
      /\ \A j \in 1..(L + Pad) : object[j].enc = IF j <= L THEN file[j] ELSE Pad
  BY <1>1, <1>2 DEF Ciphered
<1> HIDE DEF n
<1>6. b \in Seq(Bytes) /\ Len(b) = n /\ \A i \in 1..n : b[i] = file[v + i]
  <2>1. CASE n = Piece /\ v + n < L
    <3>1. Cip!AlignSize(n) = n
      BY <1>2, <2>1 DEF Cip!AlignSize
    <3>2. z = [i \in 1..n |-> IF v + i <= Len(object) THEN object[v + i] ELSE [enc |-> 0]]
      BY <3>1 DEF Cip!Read
    <3>3. Len(z) = n
      BY <1>3, <3>2
    <3>4. ASSUME NEW i \in 1..n PROVE z[i].enc = file[v + i] /\ file[v + i] \in Bytes
      <4>1. v + i \in 1..L /\ v + i \in 1..(L + Pad) /\ v + i <= Len(object)
        BY <1>1, <1>2, <1>3, <1>5, <2>1
      <4>2. z[i] = object[v + i]
        BY <3>2, <4>1
      <4> QED BY <1>1, <1>5, <4>1, <4>2
    <3> HIDE DEF z
    <3>5. b = [i \in 1..n |-> z[i].enc]
      <4>1. ~(v + n >= L)
        BY <1>1, <1>2, <1>3, <2>1
      <4> QED BY <3>3, <4>1 DEF Cip!Decrypt
    <3> HIDE DEF b
    <3>6. b \in [1..n -> Bytes] /\ \A i \in 1..n : b[i] = file[v + i]
      BY <3>4, <3>5
    <3> QED BY ONLY <1>3, <3>6
  <2>2. CASE n = L - v
    <3>1. Cip!AlignSize(n) = n + Pad
      <4>1. n % Block = L % Block /\ n % Block # 0 /\ L % Block \in Nat
        BY <1>2, <2>2
      <4> QED BY <1>2, <1>3, <4>1 DEF Cip!AlignSize, Pad
    <3> DEFINE m == n + Pad
    <3>2. m \in Nat /\ m > 0 /\ v + m = L + Pad
      BY <1>1, <1>2, <1>3, <2>2
    <3>3. z = [i \in 1..m |-> IF v + i <= Len(object) THEN object[v + i] ELSE [enc |-> 0]]
      BY <3>1 DEF Cip!Read
    <3> HIDE DEF z, m
    <3>4. Len(z) = m
      BY <3>2, <3>3
    <3>5. ASSUME NEW i \in 1..m PROVE z[i].enc = IF i <= n THEN file[v + i] ELSE Pad
      <4>1. v + i \in 1..(L + Pad) /\ v + i <= Len(object) /\ (v + i <= L <=> i <= n)
        BY <1>1, <1>2, <1>3, <1>5, <2>2, <3>2
      <4>2. z[i] = object[v + i]
        BY <3>3, <4>1
      <4> QED BY <1>5, <4>1, <4>2
    <3> DEFINE x == [i \in 1..m |-> z[i].enc]
               T == Bytes \cup {Pad}
    <3>6. \A i \in 1..n : v + i \in 1..L /\ file[v + i] \in Bytes
      BY <1>1, <1>2, <1>3, <2>2
    <3>7. x \in Seq(T) /\ Len(x) = m /\ x[m] = Pad /\ \A i \in 1..n : x[i] = file[v + i]
      <4>1. \A i \in 1..m : x[i] = IF i <= n THEN file[v + i] ELSE Pad
        BY <3>5
      <4>2. m = n + Pad
        BY DEF m
      <4>3. \A i \in 1..m : x[i] \in T
        BY <1>3, <3>2, <3>6, <4>1
      <4>4. x \in [1..m -> T]
        BY <4>3
      <4> HIDE DEF x, T
      <4>5. x \in Seq(T) /\ Len(x) = m
        BY ONLY <3>2, <4>4
      <4>6. x[m] = Pad
        BY <1>2, <1>3, <3>2, <4>1, <4>2
      <4>7. \A i \in 1..n : i \in 1..m
        BY <1>2, <1>3, <4>2
      <4> QED BY <4>1, <4>5, <4>6, <4>7
    <3>8. b = Cip!Trim(x)
      BY <1>1, <1>2, <1>3, <2>2, <3>4 DEF Cip!Decrypt
    <3> HIDE DEF x, b, T
    <3>9. x # <<>> /\ ~(m < Pad) /\ m - Pad = n
      BY <1>2, <1>3, <3>2, <3>7 DEF m
    <3>10. Cip!Trim(x) = SubSeq(x, 1, n)
      BY <3>7, <3>9 DEF Cip!Trim, Cip!Last
    <3>11. /\ Len(SubSeq(x, 1, n)) = n /\ \A i \in 1..n : SubSeq(x, 1, n)[i] = x[i]
           /\ SubSeq(x, 1, n) \in Seq(T)
      <4>1. 0 \in Nat /\ 0 + n <= Len(x) /\ 0 + 1 = 1 /\ 0 + n = n /\ \A i \in 1..n : 0 + i = i
        BY <1>2, <1>3, <3>7 DEF m
      <4> QED BY ONLY <1>3, <3>7, <4>1, Cut
    <3>12. Len(b) = n /\ (\A i \in 1..n : b[i] = file[v + i]) /\ b \in Seq(T)
      BY <3>7, <3>8, <3>10, <3>11
    <3>13. b \in Seq(Bytes)
      <4>1. \A i \in 1..n : b[i] \in Bytes
        BY <3>6, <3>12
      <4> QED BY <3>12, <4>1
    <3> QED BY <3>12, <3>13
  <2> QED BY <1>3, <2>1, <2>2
<1> HIDE DEF b
<1>7. SubSeq(w, 1, n) = b
  <2> DEFINE e == [i \in 1..(n - Len(b)) |-> 0]
  <2>1. e = <<>>
    BY <1>3, <1>6
  <2>2. w = b
    BY <1>6, <2>1, ConcatEmptySeq
  <2> HIDE DEF w
  <2> QED BY <1>3, <1>6, <2>2
<1> HIDE DEF w
<1>8. /\ saved' \in Seq(Bytes) /\ Len(saved') = v + n
      /\ \A i \in 1..(v + n) : saved'[i] = IF i <= v THEN saved[i] ELSE b[i - v]
  BY <1>1, <1>4, <1>6, <1>7, ConcatProperties
<1>9. ASSUME NEW i \in 1..(v + n) PROVE saved'[i] = file[i]
  <2>1. CASE i <= v
    BY <1>1, <1>8, <2>1
  <2>2. CASE i > v
    <3>1. i - v \in 1..n /\ v + (i - v) = i
      BY <1>1, <1>3, <2>2
    <3> QED BY <1>6, <1>8, <2>2, <3>1
  <2> QED BY <1>1, <1>3, <2>1, <2>2
<1>10. v + n < L => Aligned(v + n)
  <2>1. ASSUME v + n < L PROVE n = Piece
    BY <1>1, <1>2, <1>3, <2>1
  <2> QED BY <1>2, <2>1
<1>11. /\ file' \in Seq(Bytes) /\ Len(file') \in Sizes
       /\ sent' \in Nat /\ sent' <= Len(file') /\ (sent < Len(file) => Aligned(sent))'
       /\ (object = Ciphered(IF sent < Len(file) THEN sent ELSE Len(file) + Pad))'
  BY <1>4 DEF CInv, Aligned, Ciphered, Pad
<1>12. Len(saved') <= Len(file') /\ (Len(saved) < Len(file) => Aligned(Len(saved)))'
       /\ \A i \in 1..Len(saved') : saved'[i] = file'[i]
  BY <1>3, <1>4, <1>8, <1>9, <1>10 DEF Aligned
<1> QED BY <1>8, <1>11, <1>12 DEF CInv

\* What is saved is a prefix of the file.
LEMMA CInvReadBack ==
    ASSUME CipherSizes, CInv
    PROVE  Cip!ReadBack
<1>1. /\ file \in Seq(Bytes) /\ saved \in Seq(Bytes) /\ Len(saved) <= Len(file)
      /\ \A i \in 1..Len(saved) : saved[i] = file[i]
  BY DEF CInv
<1> QED BY <1>1 DEF Cip!ReadBack, Cip!IsPrefix

-----------------------------------------------------------------------------
(* File transfer as a whole.                                               *)

\* The invariant of whatever the behaviour shows.
TInv == /\ part \in {"up", "down", "cipher"}
        /\ part = "up" => UInv
        /\ part = "down" => DInv
        /\ part = "cipher" => CInv

\* One file of any number of pieces, uploaded or downloaded: whatever times out,
\* is sent twice or fails, WriteFile and ReadFile return true only of a file that
\* is whole at its place.  And any file that is not whole blocks, whatever is in
\* it, comes back from the cipher as it was.
THEOREM TransferSuccessIsTrue ==
    ASSUME OneDownload, CipherSizes
    PROVE  TransferSpec => []SuccessIsTrue
<1>0. OneUpload
  BY DEF OneDownload
<1>1. TransferInit => TInv
  BY <1>0, InitInv, DInitInv, CInitInv DEF TransferInit, TInv
<1>2. TInv /\ [TransferNext]_tvars => TInv'
  <2> SUFFICES ASSUME TInv, [TransferNext]_tvars PROVE TInv'
    OBVIOUS
  <2>1. UNCHANGED part
    BY DEF TransferNext, tvars
  <2>2. CASE part = "up"
    <3>1. [Next]_vars
      BY <2>2 DEF TransferNext, tvars, transfer, upload, vars, clientVars, netVars, csVars
    <3>2. UInv'
      BY <1>0, <2>2, <3>1, NextInv DEF TInv
    <3> QED BY <2>1, <2>2, <3>2 DEF TInv
  <2>3. CASE part = "down"
    <3>1. CASE TransferNext
      BY <2>1, <2>3, <3>1, DNextInv DEF TInv, TransferNext
    <3>2. CASE UNCHANGED tvars
      <4>1. UNCHANGED <<transfer, download>>
        BY <3>2 DEF tvars
      <4>2. DInv'
        BY <2>3, <4>1, DStutter DEF TInv
      <4> QED BY <2>1, <2>3, <4>2 DEF TInv
    <3> QED BY <3>1, <3>2
  <2>4. CASE part = "cipher"
    <3>1. CASE TransferNext
      BY <2>1, <2>4, <3>1, CSendInv, CReceiveInv DEF TInv, TransferNext, Cip!Next
    <3>2. CASE UNCHANGED tvars
      <4>1. CInv'
        BY <2>4, <3>2 DEF TInv, tvars, cipher, CInv, Ciphered, Pad, Aligned
      <4> QED BY <2>1, <2>4, <4>1 DEF TInv
    <3> QED BY <3>1, <3>2
  <2> QED BY <2>2, <2>3, <2>4 DEF TInv
<1>3. TInv => SuccessIsTrue
  BY <1>0, UInvStored, DInvSaved, CInvReadBack DEF TInv, SuccessIsTrue
<1> QED BY <1>1, <1>2, <1>3, PTL DEF TransferSpec
=============================================================================
