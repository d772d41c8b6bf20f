---------------------------- MODULE FileTransfer ----------------------------
(***************************************************************************)
(* File transfer as a whole: a connection carries uploads (FileUpload) or  *)
(* downloads (FileDownload), and the bytes of a file go through the cipher *)
(* on both ways (FileCipher); part says which of them a behaviour shows.   *)
(* Uploads and downloads keep their state in the same places (fileHead,    *)
(* the channels of the API), which are the variables with the same names.  *)
(***************************************************************************)
EXTENDS FileUpload

CONSTANTS
    DownFaults,                 \* what may go wrong with a read
    Piece, Block, Bytes, Sizes  \* of FileCipher

VARIABLES
    part,
    busy, failed, disk, local, bak, rd, hit, cut,   \* of downloads only
    file, object, sent, saved                       \* of the cipher

transfer == <<cur, ret, head, snd, pct, exits, fin, c2s, s2c, data, csMap, csHead, rcv, store, faults>>
upload   == <<api, up, arr, wr, csOff, down>>
download == <<busy, failed, disk, local, bak, rd, hit, cut>>
cipher   == <<file, object, sent, saved>>
tvars    == <<part, transfer, upload, download, cipher>>

Down == INSTANCE FileDownload WITH Faults <- DownFaults
Cip  == INSTANCE FileCipher

\* What has no part in the behaviour.
TransferOff ==
    /\ cur = 0 /\ ret = 0 /\ head = 0 /\ snd = 0 /\ pct = 0 /\ exits = 0 /\ fin = 0
    /\ c2s = 0 /\ s2c = 0 /\ data = 0 /\ csMap = 0 /\ csHead = 0 /\ rcv = 0 /\ store = 0
    /\ faults = 0
UploadOff ==
    /\ api = 0 /\ up = 0 /\ arr = 0 /\ wr = {} /\ csOff = 0 /\ down = 0
DownloadOff ==
    /\ busy = 0 /\ failed = 0 /\ disk = 0 /\ local = 0 /\ bak = 0 /\ rd = 0 /\ hit = 0
    /\ cut = 0
CipherOff ==
    /\ file = 0 /\ object = 0 /\ sent = 0 /\ saved = 0

TransferInit ==
    \/ part = "up" /\ Init /\ DownloadOff /\ CipherOff
    \/ part = "down" /\ Down!Init /\ UploadOff /\ CipherOff
    \/ part = "cipher" /\ Cip!Init /\ TransferOff /\ UploadOff /\ DownloadOff

TransferNext ==
    /\ UNCHANGED part
    /\ \/ part = "up" /\ Next /\ UNCHANGED <<download, cipher>>
       \/ part = "down" /\ Down!Next /\ UNCHANGED <<upload, cipher>>
       \/ part = "cipher" /\ Cip!Next /\ UNCHANGED <<transfer, upload, download>>

TransferSpec == TransferInit /\ [][TransferNext]_tvars

\* WriteFile and ReadFile return true only of a file that is whole at its
\* place, however time-outs, pieces sent twice and failed writes or reads fall:
\* what is counted and what is kept under a number does not say of which file.
\* And its bytes come back from the cipher as they were (fill, alignSize, trim).
SuccessIsTrue ==
    /\ part = "up" => SuccessStored
    /\ part = "down" => Down!SavedWhole
    /\ part = "cipher" => Cip!ReadBack
=============================================================================
