---------------------------- MODULE UploadBuffers ----------------------------
(***************************************************************************)
(* How the bytes of an uploaded file get from the messages of the client   *)
(* to the writes of the storage service (ftransfer/protocol.go: sendFile,  *)
(* receiveFile2CS, reorganizeBuff, handleReceivedBuff,                     *)
(* handleReceivedBuff2).  A file is read in pieces, each encrypted (the    *)
(* last one is padded) and signed; the receiver cuts what comes into bags, *)
(* checks their signatures and writes up to multiples of a piece, so that  *)
(* a write does not cross them.                                            *)
(*                                                                         *)
(* A byte is <<"sig", k>>, of the signature of piece k, or <<"dat", i>>,   *)
(* the i-th one of the encrypted file.                                     *)
(***************************************************************************)
EXTENDS Integers, Sequences, SequencesExt

CONSTANTS
    Piece,      \* FileTransferSize and mSize, the same number
    SigSize,    \* FileSignatureSize
    Block,      \* the block size of the cipher
    Sizes,      \* sizes of files
    Offsets     \* places in the object they are written to

VARIABLES
    fsize, offset,  \* of the request
    seqID,          \* the next message
    fragmentBuf, leftBuf, actualSize, transferedSize,  \* of receiveFile2CS
    writes,         \* the calls of TransmitToCS: [off, buff]
    state           \* "receiving", "completed", "invalid" (signature), "gaveup"

vars == <<fsize, offset, seqID, fragmentBuf, leftBuf, actualSize, transferedSize, writes, state>>

-----------------------------------------------------------------------------
(* The sender.                                                             *)

RawSize(k) == IF k * Piece <= fsize THEN Piece ELSE fsize - (k - 1) * Piece
Final(k)   == (k - 1) * Piece + RawSize(k) >= fsize
Sent(k)    == k > 1 => ~Final(k - 1)

\* Encrypt: the last piece is filled up, by a whole block if it needs none.
EncSize(k) == IF Final(k) THEN RawSize(k) + Block - (RawSize(k) % Block) ELSE RawSize(k)

Plain(k)   == [i \in 1..EncSize(k) |-> <<"dat", (k - 1) * Piece + i>>]
Message(k) == [i \in 1..SigSize |-> <<"sig", k>>] \o Plain(k)

-----------------------------------------------------------------------------
(* The receiver.                                                           *)

BagSize == Piece + SigSize

\* reorganizeBuff, which takes its bags off the front of what it has.
Reorganize(buff, frag) ==
    LET all == frag \o buff
        n   == Len(all) \div BagSize
    IN  [bags |-> [i \in 1..n |-> SubSeq(all, (i - 1) * BagSize + 1, i * BagSize)],
         rest |-> SubSeq(all, n * BagSize + 1, Len(all))]

Body(bag) == SubSeq(bag, SigSize + 1, Len(bag))

\* VerifySignature: the signature is that of what comes with it.
Verified(bag) == \E k \in 1..seqID : bag = Message(k)

\* Mutant of WriteSize: the place of the file in the object is not looked at.
WriteSizeNoOffset(size, left, finish) ==
    LET over == (size + Len(left)) % Piece
    IN  IF over = 0 \/ finish THEN Len(left) ELSE Len(left) - over

\* handleReceivedBuff2: how much of what is left is written.
WriteSize(size, left, finish) ==
    LET over == (offset + size + Len(left)) % Piece
    IN  IF over = 0 \/ finish THEN Len(left) ELSE Len(left) - over

\* What the receiver has after some bags.
Now(left, size, xfer, ws, st) ==
    [left |-> left, size |-> size, xfer |-> xfer, ws |-> ws, st |-> st]

\* handleReceivedBuff2.
WriteOut(x, finish) ==
    LET n == WriteSize(x.size, x.left, finish)
    IN  [x EXCEPT !.left = SubSeq(x.left, n + 1, Len(x.left)),
                  !.size = x.size + n,
                  !.ws   = Append(x.ws, [off |-> offset + x.size, buff |-> SubSeq(x.left, 1, n)]),
                  !.st   = IF finish THEN "completed" ELSE x.st]

\* handleReceivedBuff.
TakeBag(x, bag) ==
    IF Verified(bag) THEN [x EXCEPT !.left = x.left \o Body(bag)] ELSE [x EXCEPT !.st = "invalid"]

\* The loop over the bags of a message.
HandleBag(x, bag) ==
    LET y == TakeBag(x, bag)
        z == WriteOut(y, FALSE)
        t == x.xfer + Len(bag) - SigSize
    IN  IF x.st # "receiving" THEN x
        ELSE IF y.st = "invalid" THEN y
        ELSE IF t >= fsize THEN [WriteOut(z, TRUE) EXCEPT !.xfer = fsize]
        ELSE [z EXCEPT !.xfer = t]

\* The last message may be smaller than a bag.
HandleRest(x, rest, message) ==
    IF x.st = "receiving"
       /\ fsize - x.xfer = Len(rest) - SigSize - (Len(message) - SigSize - RawSize(seqID))
    THEN LET y == TakeBag(x, rest) IN IF y.st = "invalid" THEN y ELSE WriteOut(y, TRUE)
    ELSE x

Init ==
    /\ fsize \in Sizes /\ offset \in Offsets
    /\ seqID = 1 /\ fragmentBuf = <<>> /\ leftBuf = <<>>
    /\ actualSize = 0 /\ transferedSize = 0
    /\ writes = <<>> /\ state = "receiving"

\* One turn of the loop of receiveFile2CS.
ReceiveFile2CS ==
    /\ state = "receiving" /\ Sent(seqID)
    /\ LET m == Message(seqID)
           r == Reorganize(m, fragmentBuf)
           x == FoldLeft(HandleBag, Now(leftBuf, actualSize, transferedSize, writes, state), r.bags)
           y == HandleRest(x, r.rest, m)
       IN  /\ fragmentBuf' = r.rest
           /\ leftBuf' = y.left /\ actualSize' = y.size /\ transferedSize' = y.xfer
           /\ writes' = y.ws /\ state' = y.st
    /\ seqID' = seqID + 1
    /\ UNCHANGED <<fsize, offset>>

\* getUpData gives up: the sender has stopped or the message is late.
GetUpDataTimeout ==
    /\ state = "receiving"
    /\ state' = "gaveup"
    /\ UNCHANGED <<fsize, offset, seqID, fragmentBuf, leftBuf, actualSize, transferedSize, writes>>

Next == ReceiveFile2CS \/ GetUpDataTimeout

Spec == Init /\ [][Next]_vars

-----------------------------------------------------------------------------
(* Properties.                                                             *)

Pieces    == IF fsize % Piece = 0 THEN fsize \div Piece ELSE fsize \div Piece + 1
Encrypted == FlattenSeq([k \in 1..Pieces |-> Plain(k)])

\* A completed file has been written as it was encrypted, one write after the
\* other from its offset on, and none but the last ends anywhere else than at
\* a multiple of a piece: across messages, bags, padding and alignment no byte
\* is lost, repeated or moved.
WrittenWhole ==
    state = "completed" =>
        /\ FlattenSeq([i \in DOMAIN writes |-> writes[i].buff]) = Encrypted
        /\ \A i \in DOMAIN writes :
              writes[i].off = offset + Len(FlattenSeq([j \in 1..(i - 1) |-> writes[j].buff]))
        /\ \A i \in 1..(Len(writes) - 1) : (writes[i].off + Len(writes[i].buff)) % Piece = 0

\* The receiver is done with the last message and not before: it neither waits
\* for one that is never sent nor leaves one behind for the next file.
EndsWithLastMessage ==
    /\ ~Sent(seqID) => state # "receiving"
    /\ state = "completed" => ~Sent(seqID)

\* "the file size is invalid" is said of size 0 only: every other file is
\* received.
EverySizeReceived == state # "invalid"

\* WriteSlices refuses a write without data.
WritesHaveData == \A i \in DOMAIN writes : writes[i].buff # <<>>
=============================================================================
