------------------------------ MODULE MCStorage ------------------------------
(***************************************************************************)
(* Storage for TLC: FileTransfer with its constants, uploads (FileUpload)  *)
(* and downloads (FileDownload) with others, the bytes of an upload on     *)
(* their way to the writes (UploadBuffers), and the slices the farmers     *)
(* replicate (MCSlice).  A behaviour shows one of them; part says which.   *)
(***************************************************************************)
EXTENDS FileTransfer, Integers, TLC

CONSTANTS Farmer, s1, s2

VARIABLES
    fsize, offset, seqID, fragmentBuf, leftBuf, actualSize, transferedSize, writes, state,
    slices, prog, queue, cache, known, syncing, halfway, req, msgs, client, acked,
    accidents, scene

buffers  == <<fsize, offset, seqID, fragmentBuf, leftBuf, actualSize, transferedSize, writes, state>>
farmers  == <<slices, prog, queue, cache, known, syncing, halfway, req, msgs, client, acked,
              accidents, scene>>
mcvars   == <<tvars, buffers, farmers>>

BuffersOff ==
    /\ fsize = 0 /\ offset = 0 /\ seqID = 0 /\ fragmentBuf = 0 /\ leftBuf = 0
    /\ actualSize = 0 /\ transferedSize = 0 /\ writes = 0 /\ state = 0

-----------------------------------------------------------------------------
Scene(chunks, slow, faulty, max) ==
    [chunks |-> chunks, slow |-> slow, faults |-> faulty, max |-> max]

\* The pieces of the one file of FileTransfer, which meets every fault.
MCChunks == <<3>>

\* Three files in good time; one file whose writes fail in good time; two
\* files, time-outs at any moment.
Uploads ==
    [UpCalm  |-> Scene(<<2, 3, 1>>, FALSE, {}, 0),
     UpFails |-> Scene(<<3>>, FALSE, {"err"}, 2),
     UpSlow  |-> Scene(<<2, 1>>, TRUE, {"err", "nil"}, 1)]
Downloads ==
    [DownCalm |-> Scene(<<2, 3, 1>>, FALSE, {}, 0),
     DownSlow |-> Scene(<<2, 1>>, TRUE, {"disk"}, 1)]

UpOf(k) == INSTANCE FileUpload WITH
    Chunks <- Uploads[k].chunks, Slow <- Uploads[k].slow, Lagging <- Uploads[k].slow,
    Faults <- Uploads[k].faults, MaxFaults <- Uploads[k].max
DownOf(k) == INSTANCE FileDownload WITH
    Chunks <- Downloads[k].chunks, Slow <- Downloads[k].slow,
    Faults <- Downloads[k].faults, MaxFaults <- Downloads[k].max

\* Pieces of four bytes and blocks of two; no file is a multiple of a piece.
Buf == INSTANCE UploadBuffers WITH
    SigSize <- 1, Sizes <- {n \in 1..14 : n % 4 # 0}, Offsets <- 0..9

\* No file is whole blocks.
MCSizes == {1, 3, 5, 7}

\* Slices in scenarios of their own; their disk and faults are other variables.
Slices == INSTANCE MCSlice WITH disk <- slices, faults <- accidents

FilesInit ==
    \/ TransferInit /\ BuffersOff
    \/ \E k \in DOMAIN Uploads :
          part = k /\ UpOf(k)!Init /\ DownloadOff /\ CipherOff /\ BuffersOff
    \/ \E k \in DOMAIN Downloads :
          part = k /\ DownOf(k)!Init /\ UploadOff /\ CipherOff /\ BuffersOff
    \/ part = "Buffers" /\ Buf!Init /\ TransferOff /\ UploadOff /\ DownloadOff /\ CipherOff

FilesNext ==
    /\ UNCHANGED farmers
    /\ \/ TransferNext /\ UNCHANGED buffers
       \/ /\ UNCHANGED part
          /\ \/ \E k \in DOMAIN Uploads :
                   part = k /\ UpOf(k)!Next /\ UNCHANGED <<download, cipher, buffers>>
             \/ \E k \in DOMAIN Downloads :
                   part = k /\ DownOf(k)!Next /\ UNCHANGED <<upload, cipher, buffers>>
             \/ part = "Buffers" /\ Buf!Next /\ UNCHANGED <<transfer, upload, download, cipher>>

\* What has no part in the behaviour: farmers that are not asked for anything.
FarmersOff == Slices!MCInit /\ scene = "calm"

FilesOff == TransferOff /\ UploadOff /\ DownloadOff /\ CipherOff /\ BuffersOff

MCInit ==
    \/ FilesInit /\ FarmersOff
    \/ part = "slices" /\ Slices!MCInit /\ FilesOff

SlicesNext == part = "slices" /\ Slices!MCNext /\ UNCHANGED <<tvars, buffers>>

MCNext == FilesNext \/ SlicesNext

\* Goroutines run on and timers go off, as far as a property is about it; the
\* client of the slices has to call nothing.
Timed    == DOMAIN Uploads \cup DOMAIN Downloads \cup {"down"}
FileWork == part \in Timed /\ FilesNext
CalmWork == part = "slices" /\ Slices!CalmWork /\ UNCHANGED <<tvars, buffers>>

MCSpec == MCInit /\ [][MCNext]_mcvars /\ WF_mcvars(FileWork) /\ WF_mcvars(CalmWork)

-----------------------------------------------------------------------------
\* The same of several files one after the other in good time, and of writes
\* that fail: WriteFile and ReadFile return true only of a whole file, although
\* the pieces of all files are kept under the same numbers.
NextSuccessIsTrue ==
    /\ \A k \in {"UpCalm", "UpFails"} : part = k => UpOf(k)!SuccessStored
    /\ part = "DownCalm" => DownOf("DownCalm")!SavedWhole

\* No byte is lost, repeated or moved on the way from the messages to the writes
\* (reorganizeBuff, handleReceivedBuff2), and the receiver is done with the last
\* message.
BytesKept == part = "Buffers" => Buf!WrittenWhole /\ Buf!EndsWithLastMessage

Returned(f, results) == ret[f] \in results

\* Nobody waits any more, and in good time no call has failed.
Settled ==
    /\ part \in {"UpCalm", "DownCalm"} => \A f \in 1..cur : Returned(f, {"true"})
    /\ part = "UpFails" => \A f \in 1..cur : Returned(f, {"true", "false"})
    /\ part = "UpSlow" => head.f = 0 \/ UpOf("UpSlow")!Dead
    /\ part = "down" => cut \/ \A f \in 1..cur : Returned(f, {"true", "false"})
    /\ part = "DownSlow" => cut \/ \A f \in 1..2 : snd[f].st \in {"none", "done"}

\* Every upload without faults or with failing writes ends, every download ends
\* whatever happens, and sendFile and sendCSFile let go of their file even when
\* time-outs strike at any moment (WriteFile, ReadFile).
TransfersSettle == <>[]Settled

\* A write the client was told had succeeded (WriteSlices) reaches every farmer
\* in the end, although the queue of a partner may answer with operations of
\* the wrong slice (GetWriteOpDataFromQueue) and a copy has to be asked for.
WritesSpread == part = "slices" /\ scene = "calm" => Slices!WritesSpread

\* Farmers at one OpId hold one content, and a read at the client's OpId returns
\* every acknowledged write, through a lost message, a restart and a client that
\* opens the object again (SynchronizeWrite, WriteOpDataFromMsg, doReadReq).
OpIdIsContent == part = "slices" => Slices!OpIdIsContent

\* No acknowledged write is lost while handlers are interrupted between two
\* disk accesses (SignChunkSlice, SynchronizeWrite) or replies come too late.
WritesKept == part = "slices" => Slices!WritesKept
=============================================================================
