----------------------------- MODULE FileCipher -----------------------------
(***************************************************************************)
(* What a file goes through between the disk it is uploaded from and the   *)
(* disk it is downloaded to: fill and Encrypt of the pieces (sendFile),    *)
(* reads of whole cipher blocks (GetBlockAlignSize), Decrypt and trim, and *)
(* what receiveFile2Disk saves.  The reference is the file itself.         *)
(*                                                                         *)
(* The cipher works on blocks and each piece is encrypted by itself, so a  *)
(* prefix of whole blocks decrypts to the same prefix: an encrypted byte   *)
(* is the byte in a wrapping that only Decrypt takes off.                  *)
(***************************************************************************)
EXTENDS Integers, Sequences, SequencesExt

CONSTANTS
    Piece,      \* FileTransferSize
    Block,      \* the block size of the cipher
    Bytes,      \* values of bytes
    Sizes       \* sizes of files

VARIABLES
    file,       \* the file, bytes
    object,     \* what is stored of it: encrypted bytes
    sent,       \* the bytes of the file sent
    saved       \* the file on the other disk

vars == <<file, object, sent, saved>>

Least(a, b) == IF a < b THEN a ELSE b

-----------------------------------------------------------------------------
(* crypto.go                                                               *)

\* fill: always at least one byte, each the number of them.
Fill(src) ==
    LET m == Block - (Len(src) % Block)
    IN  src \o [i \in 1..m |-> m]

\* trim
Trim(src) ==
    LET m == IF src = <<>> THEN 0 ELSE Last(src)
    IN  IF Len(src) < m THEN <<>> ELSE SubSeq(src, 1, Len(src) - m)

Encrypt(in, final) ==
    LET x == IF final THEN Fill(in) ELSE in
    IN  [i \in 1..Len(x) |-> [enc |-> x[i]]]

Decrypt(in, final) ==
    LET x == [i \in 1..Len(in) |-> in[i].enc]
    IN  IF final THEN Trim(x) ELSE x

\* datacrypto.alignSize
AlignSize(size) == IF size % Block = 0 THEN size ELSE size + Block - (size % Block)

-----------------------------------------------------------------------------

Init ==
    /\ \E n \in Sizes : file \in [1..n -> Bytes]
    /\ object = <<>> /\ sent = 0 /\ saved = <<>>

\* sendFile: the next piece.
SendPiece ==
    LET n == Least(Piece, Len(file) - sent)
    IN  /\ sent < Len(file)
        /\ object' = object \o Encrypt(SubSeq(file, sent + 1, sent + n), sent + n >= Len(file))
        /\ sent' = sent + n
        /\ UNCHANGED <<file, saved>>

\* ObjReadFtp2CSFunc: a new buffer, filled with what is stored.
Read(off, len) ==
    [i \in 1..AlignSize(len) |-> IF off + i <= Len(object) THEN object[off + i] ELSE [enc |-> 0]]

\* receiveFile2Disk: the next piece, made as long as it should be.
ReceivePiece ==
    LET n    == Least(Piece, Len(file) - Len(saved))
        buff == Decrypt(Read(Len(saved), n), Len(saved) + n >= Len(file))
        full == buff \o [i \in 1..(n - Len(buff)) |-> 0]
    IN  /\ sent = Len(file) /\ Len(saved) < Len(file)
        /\ saved' = saved \o SubSeq(full, 1, n)
        /\ UNCHANGED <<file, object, sent>>

Next == SendPiece \/ ReceivePiece

Spec == Init /\ [][Next]_vars

-----------------------------------------------------------------------------

\* A file comes back as it was: what has been saved of it is what was sent,
\* for all contents of the files, those that look like padding too.
ReadBack == IsPrefix(saved, file)
=============================================================================
