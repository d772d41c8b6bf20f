------------------------------ MODULE SliceSync ------------------------------
(***************************************************************************)
(* Replication of the slices of one chunk among the farmers that store it. *)
(* A client (blizcs) writes a slice on WriteCheckCount of them, in two     *)
(* messages: the data, answered with a hash of the slice header, and, once *)
(* enough equal hashes are back, a signed confirmation.  A confirmed write *)
(* enters the farmer's synchronisation queue and its advertised progress;  *)
(* the other farmers (blizzard) learn of it from heartbeats and fetch it,  *)
(* from the queue of a partner when it is there, else as a copy of the     *)
(* partner's whole slice.                                                  *)
(*                                                                         *)
(* Every write covers a part of the slice of its own, so the content of a  *)
(* slice is the set of writes whose data it holds.  A Write call covers    *)
(* one slice.  The messages of a client to a farmer arrive in the order    *)
(* they were sent; those between farmers, and the farmers' replies, in any *)
(* order.                                                                  *)
(***************************************************************************)
EXTENDS Integers, FiniteSets, Sequences, SequencesExt, FiniteSetsExt

CONSTANTS
  Farmer,           \* the farmers of the chunk, all partners of each other
  Slice,            \* the slices of the chunk the client rents
  WriteCheckCount,  \* farmers a write is sent to, equal hashes it waits for
  MaxWrites,        \* bound: calls of Write
  MaxLoss,          \* bound: messages lost with a connection
  MaxCrash,         \* bound: farmers restarted
  MaxReopen,        \* bound: times the client opens the object again
  Allowed           \* which of the delays and faults below happen

\* A reply may be on its way when the client gives up waiting for it.
LateReply == "lateReply"
\* A partner's answer may be on its way when the farmer gives up waiting.
LateSync == "lateSync"
\* Another goroutine of a farmer may run inside SignChunkSlice, or inside
\* SynchronizeWrite: both access the disk twice, each time under the lock.
SlowSign == "slowSign"
SlowCopy == "slowCopy"
\* The client opens the object on a machine without its records.
Amnesia == "amnesia"

VARIABLES
  disk,     \* disk[f][s]: OpId of the slice header, writes the data holds
  prog,     \* prog[f][s]: asso.WopProgs, the progress f advertises
  queue,    \* queue[f]: asso.WopSyncQueue, the writes confirmed at f
  cache,    \* cache[f]: written data kept for the confirmation
  known,    \* known[f][g][s]: progress of g as f heard it, chunkWopProgs
  syncing,  \* syncing[f][s]: entry of asso.syncingSlice, or NotSyncing
  halfway,  \* halfway[f]: handlers of f stopped between two disk accesses
  req,      \* req[f]: messages of the client on their way to f, in order
  msgs,     \* replies to the client, and messages between farmers
  client,   \* the client's records and its current call of Write
  acked,    \* the writes the client reported as successful
  faults    \* messages lost, farmers restarted, objects reopened so far

vars == <<disk, prog, queue, cache, known, syncing, halfway, req, msgs,
          client, acked, faults>>

farmerVars == <<disk, prog, queue, cache, known, syncing, halfway>>
clientVars == <<client, acked>>

Ops == 0..MaxWrites
Writes == 1..MaxWrites
Unknown == -1
Nobody == "nobody"
NotSyncing == [partner |-> Nobody, from |-> "nowhere"]

Pieces == [slice : Slice, op : Ops, w : Writes]

WopMsgs == [type : {"wop"}, slice : Slice, op : Ops, w : Writes]
SignMsgs == [type : {"sign"}, slice : Slice, op : Ops, w : Writes]

Msgs ==
  UNION
    {[type : {"rsp"}, from : Farmer, slice : Slice, op : Ops, w : Writes],
     [type : {"getop"}, from : Farmer, to : Farmer, slice : Slice,
        first : Ops, count : Ops],
     [type : {"ops"}, from : Farmer, to : Farmer, slice : Slice,
        list : BoundedSeq(Pieces, MaxWrites)],
     [type : {"getdata"}, from : Farmer, to : Farmer, slice : Slice],
     [type : {"data"}, from : Farmer, to : Farmer, slice : Slice, op : Ops,
        data : SUBSET Writes]}

TypeOK ==
  /\ disk \in [Farmer -> [Slice -> [op : Ops, data : SUBSET Writes]]]
  /\ prog \in [Farmer -> [Slice -> Ops]]
  /\ \A f \in Farmer : /\ queue[f] \in Seq(Pieces)
                       /\ cache[f] \subseteq Pieces
                       /\ req[f] \in Seq(WopMsgs \cup SignMsgs)
  /\ known \in [Farmer -> [Farmer -> [Slice -> Ops]]]
  /\ \A f \in Farmer, s \in Slice :
       \/ syncing[f][s] = NotSyncing
       \/ /\ syncing[f][s].partner \in Farmer \cup {Nobody}
          /\ syncing[f][s].from \in {"cache", "file"}
  /\ \A f \in Farmer : \A h \in halfway[f] : h.slice \in Slice /\ h.op \in Ops
  /\ msgs \subseteq Msgs
  /\ client.local \in [Slice -> Ops]
  /\ client.view \in [Slice -> [Farmer -> Ops \cup {Unknown}]]
  /\ client.phase \in {"idle", "sent", "waiting"}
  /\ client.writes \in 0..MaxWrites
  /\ acked \subseteq Pieces
  /\ faults \in [loss : 0..MaxLoss, crash : 0..MaxCrash, reopen : 0..MaxReopen]

NoCall == [slice |-> Nobody, w |-> 0, nodes |-> {}, hash |-> Unknown, count |-> 0]

Init ==
  /\ disk = [f \in Farmer |-> [s \in Slice |-> [op |-> 0, data |-> {}]]]
  /\ prog = [f \in Farmer |-> [s \in Slice |-> 0]]
  /\ queue = [f \in Farmer |-> <<>>]
  /\ cache = [f \in Farmer |-> {}]
  /\ known = [f \in Farmer |-> [g \in Farmer |-> [s \in Slice |-> 0]]]
  /\ syncing = [f \in Farmer |-> [s \in Slice |-> NotSyncing]]
  /\ halfway = [f \in Farmer |-> {}]
  /\ req = [f \in Farmer |-> <<>>]
  /\ msgs = {}
  /\ client = [local |-> [s \in Slice |-> 0],
               view |-> [s \in Slice |-> [f \in Farmer |-> Unknown]],
               phase |-> "idle", call |-> NoCall, writes |-> 0]
  /\ acked = {}
  /\ faults = [loss |-> 0, crash |-> 0, reopen |-> 0]

-----------------------------------------------------------------------------
\* The client.

\* LoginFarmer asks the farmer that (re)connected for the OpId of every slice
\* header; UpdateFarmersSliceOps keeps the larger of the old and the new one.
LoginFarmer(f) ==
  LET seen == [s \in Slice |-> Max({client.view[s][f], disk[f][s].op})]
  IN /\ \E s \in Slice : seen[s] # client.view[s][f]
     /\ client' = [client EXCEPT !.view =
          [s \in Slice |-> [client.view[s] EXCEPT ![f] = seen[s]]]]
     /\ UNCHANGED <<farmerVars, req, msgs, acked, faults>>

\* The OpId the next write of s builds on: the client's own record, or the
\* largest one among the farmers it asked.
LastOp(s) ==
  IF client.local[s] > 0 THEN client.local[s]
                         ELSE Max({client.view[s][f] : f \in Farmer} \cup {0})

\* Mutant: farmers that are behind are written to as well.
WritableBehind(s) == {f \in Farmer : client.view[s][f] # Unknown}

\* The farmers the client believes to be at that OpId.
Writable(s) == {f \in Farmer : client.view[s][f] = LastOp(s)}

SendToFarmers(nodes, m) ==
  req' = [f \in Farmer |-> IF f \in nodes THEN Append(req[f], m) ELSE req[f]]

\* WriteOneSlice: the write gets the next OpId and is sent to WriteCheckCount
\* farmers, in no order of their own; the client's record and its view of
\* these farmers move on before any of them has answered.
WriteOneSlice(s, nodes) ==
  LET op == LastOp(s) + 1
      w == client.writes + 1
  IN /\ client.phase = "idle"
     /\ client.writes < MaxWrites
     /\ nodes \in kSubset(WriteCheckCount, Writable(s))
     /\ SendToFarmers(nodes, [type |-> "wop", slice |-> s, op |-> op, w |-> w])
     /\ client' = [client EXCEPT
          !.local[s] = op,
          !.view[s] = [f \in Farmer |->
             IF f \in nodes THEN Max({client.view[s][f], op})
                            ELSE client.view[s][f]],
          !.phase = "sent",
          !.writes = w,
          !.call = [NoCall EXCEPT !.slice = s, !.w = w, !.nodes = nodes]]
     /\ UNCHANGED <<farmerVars, msgs, acked, faults>>

\* WriteOneSlice with a record of the slice and too few farmers at that OpId:
\* the write has been sent to those there are when the call returns
\* ErrWouldBlock, and nothing is recorded of it.
WriteTooFew(s) ==
  LET op == LastOp(s) + 1
      w == client.writes + 1
  IN /\ client.phase = "idle"
     /\ client.writes < MaxWrites
     /\ client.local[s] > 0
     /\ Cardinality(Writable(s)) \in 1..(WriteCheckCount - 1)
     /\ SendToFarmers(Writable(s),
          [type |-> "wop", slice |-> s, op |-> op, w |-> w])
     /\ client' = [client EXCEPT !.writes = w]
     /\ UNCHANGED <<farmerVars, msgs, acked, faults>>

\* WriteSlices subscribes to the replies after everything has been sent.
Subscribe ==
  /\ client.phase = "sent"
  /\ client' = [client EXCEPT !.phase = "waiting"]
  /\ UNCHANGED <<farmerVars, req, msgs, acked, faults>>

EndCall == [client EXCEPT !.phase = "idle", !.call = NoCall]

\* doWriteRes without a subscriber: the feed drops the reply.  A reply about
\* a slice the call does not write is dropped as well.
ReplyDropped(m) ==
  /\ m.type = "rsp"
  /\ client.phase # "waiting" \/ m.slice # client.call.slice
  /\ msgs' = msgs \ {m}
  /\ UNCHANGED <<farmerVars, req, clientVars, faults>>

\* Two replies with different hashes end the call with ErrHash.  The hash
\* covers the OpId of the header and not the data.
ReplyDiffers(m) ==
  /\ m.type = "rsp"
  /\ client.phase = "waiting" /\ m.slice = client.call.slice
  /\ client.call.hash \notin {Unknown, m.op}
  /\ msgs' = msgs \ {m}
  /\ client' = EndCall
  /\ UNCHANGED <<farmerVars, req, acked, faults>>

ReplyAgrees(m) ==
  /\ m.type = "rsp"
  /\ client.phase = "waiting" /\ m.slice = client.call.slice
  /\ client.call.hash \in {Unknown, m.op}
  /\ msgs' = msgs \ {m}

ReplyCounted(m) ==
  /\ ReplyAgrees(m)
  /\ client.call.count + 1 < WriteCheckCount
  /\ client' = [client EXCEPT !.call.hash = m.op, !.call.count = @ + 1]
  /\ UNCHANGED <<farmerVars, req, acked, faults>>

\* The last reply that was missing: the client signs what the reply is about
\* (no check that it answers this call's write), sends the confirmation to
\* the farmers of the call and reports success.
ReplyConfirms(m) ==
  /\ ReplyAgrees(m)
  /\ client.call.count + 1 >= WriteCheckCount
  /\ SendToFarmers(client.call.nodes,
       [type |-> "sign", slice |-> m.slice, op |-> m.op, w |-> m.w])
  /\ client' = EndCall
  /\ acked' = acked \cup {[slice |-> m.slice, op |-> client.local[m.slice],
                           w |-> client.call.w]}
  /\ UNCHANGED <<farmerVars, faults>>

\* A farmer of the call is gone: the call fails, after the confirmation has
\* been sent to those before it.
ConfirmFails(m, sent) ==
  /\ ReplyAgrees(m)
  /\ client.call.count + 1 >= WriteCheckCount
  /\ sent \subseteq client.call.nodes /\ sent # client.call.nodes
  /\ faults.loss < MaxLoss
  /\ SendToFarmers(sent,
       [type |-> "sign", slice |-> m.slice, op |-> m.op, w |-> m.w])
  /\ client' = EndCall
  /\ faults' = [faults EXCEPT !.loss = @ + 1]
  /\ UNCHANGED <<farmerVars, acked>>

ReplyExpected ==
  \/ \E m \in msgs : m.type = "rsp" /\ m.slice = client.call.slice
  \/ \E f \in Farmer : \E m \in ToSet(req[f]) :
        m.type = "wop" /\ m.slice = client.call.slice

\* The call gives up after a minute without a reply.
WriteTimeout ==
  /\ client.phase = "waiting"
  /\ LateReply \notin Allowed => ~ReplyExpected
  /\ client' = EndCall
  /\ UNCHANGED <<farmerVars, req, msgs, acked, faults>>

\* The client opens the object again, between two calls and with nothing of
\* them on its way: the last OpIds are read from the database
\* (LoadSliceInfos), what the farmers said is gone.
Reopen(kept) ==
  /\ faults.reopen < MaxReopen
  /\ kept \/ Amnesia \in Allowed
  /\ client.phase = "idle"
  /\ \A f \in Farmer : req[f] = <<>>
  /\ client' = [client EXCEPT
       !.local = IF kept THEN @ ELSE [s \in Slice |-> 0],
       !.view = [s \in Slice |-> [f \in Farmer |-> Unknown]]]
  /\ msgs' = {m \in msgs : m.type # "rsp"}
  /\ faults' = [faults EXCEPT !.reopen = @ + 1]
  /\ UNCHANGED <<farmerVars, req, acked>>

-----------------------------------------------------------------------------
\* A farmer serving the client.

Took(f) == req' = [req EXCEPT ![f] = Tail(@)]

PieceOf(m) == [slice |-> m.slice, op |-> m.op, w |-> m.w]

\* Mutant: opening the file for the write truncates it.
DoWriteDataTruncates(f) ==
  /\ req[f] # <<>> /\ Head(req[f]).type = "wop"
  /\ LET m == Head(req[f])
     IN /\ disk' = [disk EXCEPT ![f][m.slice] = [op |-> m.op, data |-> {m.w}]]
        /\ cache' = [cache EXCEPT ![f] = @ \cup {PieceOf(m)}]
        /\ msgs' = msgs \cup {[type |-> "rsp", from |-> f, slice |-> m.slice,
                               op |-> m.op, w |-> m.w]}
  /\ Took(f)
  /\ UNCHANGED <<prog, queue, known, syncing, halfway, clientVars, faults>>

\* doWriteReq, type 0: the checks of the OpId and of the signature log and do
\* not return, so the data is written, the header takes the OpId it is given.
DoWriteData(f) ==
  /\ req[f] # <<>> /\ Head(req[f]).type = "wop"
  /\ LET m == Head(req[f])
     IN /\ disk' = [disk EXCEPT ![f][m.slice] =
                      [op |-> m.op, data |-> @.data \cup {m.w}]]
        /\ cache' = [cache EXCEPT ![f] = @ \cup {PieceOf(m)}]
        /\ msgs' = msgs \cup {[type |-> "rsp", from |-> f, slice |-> m.slice,
                               op |-> m.op, w |-> m.w]}
  /\ Took(f)
  /\ UNCHANGED <<prog, queue, known, syncing, halfway, clientVars, faults>>

\* AddNewWopSyncCache: into the queue, and the progress is set to the OpId.
AddNewWopSyncCache(f, p) ==
  /\ queue' = [queue EXCEPT ![f] = Append(@, p)]
  /\ prog' = [prog EXCEPT ![f][p.slice] = p.op]

\* doWriteReq, type 1: without the cached data nothing happens.
DoWriteUncached(f) ==
  /\ req[f] # <<>> /\ Head(req[f]).type = "sign"
  /\ ~\E p \in cache[f] : p.w = Head(req[f]).w
  /\ Took(f)
  /\ UNCHANGED <<farmerVars, msgs, clientVars, faults>>

\* doWriteReq, type 1: SignChunkSlice reads the header and writes it back with
\* the signature, then the write goes to the synchronisation queue.
DoWriteSign(f) ==
  /\ req[f] # <<>> /\ Head(req[f]).type = "sign"
  /\ \E p \in cache[f] :
       /\ p.w = Head(req[f]).w
       /\ cache' = [cache EXCEPT ![f] = @ \ {p}]
  /\ AddNewWopSyncCache(f, PieceOf(Head(req[f])))
  /\ Took(f)
  /\ UNCHANGED <<disk, known, syncing, halfway, msgs, clientVars, faults>>

\* The same, with the goroutine of the client's next message between the two
\* accesses: the header written back is the one read before.
SignReads(f) ==
  /\ SlowSign \in Allowed
  /\ req[f] # <<>> /\ Head(req[f]).type = "sign"
  /\ LET m == Head(req[f])
     IN \E p \in cache[f] :
          /\ p.w = m.w
          /\ cache' = [cache EXCEPT ![f] = @ \ {p}]
          /\ halfway' = [halfway EXCEPT ![f] = @ \cup
               {[type |-> "sign", slice |-> m.slice, op |-> m.op, w |-> m.w,
                 header |-> disk[f][m.slice].op]}]
  /\ Took(f)
  /\ UNCHANGED <<disk, prog, queue, known, syncing, msgs, clientVars, faults>>

SignWrites(f, h) ==
  /\ h.type = "sign"
  /\ halfway' = [halfway EXCEPT ![f] = @ \ {h}]
  /\ disk' = [disk EXCEPT ![f][h.slice].op = h.header]
  /\ AddNewWopSyncCache(f, PieceOf(h))
  /\ UNCHANGED <<cache, known, syncing, req, msgs, clientVars, faults>>

-----------------------------------------------------------------------------
\* Farmers among each other.

\* The heartbeat of f reaches g: doPartnerHeartBeat merges the progress of
\* every slice, keeping the larger one.
HeartBeat(f, g) ==
  LET merged == [s \in Slice |-> Max({known[g][f][s], prog[f][s]})]
  IN /\ f # g
     /\ merged # known[g][f]
     /\ known' = [known EXCEPT ![g][f] = merged]
     /\ UNCHANGED <<disk, prog, queue, cache, syncing, halfway, req, msgs,
                    clientVars, faults>>

\* The synchronisation tick picks, for a slice not being fetched yet, a
\* partner with the highest progress above the farmer's own, and asks it for
\* the operations that are missing.
StartSync(f, s, g) ==
  /\ syncing[f][s] = NotSyncing
  /\ known[f][g][s] > prog[f][s]
  /\ \A h \in Farmer : known[f][h][s] <= known[f][g][s]
  /\ syncing' = [syncing EXCEPT ![f][s] = [partner |-> g, from |-> "cache"]]
  /\ msgs' = msgs \cup
       {[type |-> "getop", from |-> f, to |-> g, slice |-> s,
         first |-> prog[f][s] + 1, count |-> known[f][g][s] - prog[f][s]]}
  /\ UNCHANGED <<disk, prog, queue, cache, known, halfway, req, clientVars, faults>>

\* The farmer still waits for an answer about the slice.
AnswerExpected(f, s) ==
  \/ \E m \in msgs : m.type # "rsp" /\ m.slice = s
                     /\ f = (IF m.type \in {"getop", "getdata"}
                               THEN m.from ELSE m.to)
  \/ \E h \in halfway[f] : h.type = "file" /\ h.slice = s

\* Mutant: the entry changes to file and the partner is not asked.
CacheTimeoutSilent(f, s) ==
  /\ syncing[f][s].from = "cache"
  /\ LateSync \notin Allowed => ~AnswerExpected(f, s)
  /\ syncing' = [syncing EXCEPT ![f][s].from = "file"]
  /\ UNCHANGED <<disk, prog, queue, cache, known, halfway, req, msgs, clientVars, faults>>

\* No operations after fromCacheTimeout: ask the same partner for the slice.
CacheTimeout(f, s) ==
  /\ syncing[f][s].from = "cache"
  /\ LateSync \notin Allowed => ~AnswerExpected(f, s)
  /\ syncing' = [syncing EXCEPT ![f][s].from = "file"]
  /\ msgs' = IF syncing[f][s].partner = Nobody THEN msgs
             ELSE msgs \cup {[type |-> "getdata", from |-> f,
                              to |-> syncing[f][s].partner, slice |-> s]}
  /\ UNCHANGED <<disk, prog, queue, cache, known, halfway, req, clientVars, faults>>

\* No copy after fromFileTimeout: the entry goes, the next tick starts anew.
FileTimeout(f, s) ==
  /\ syncing[f][s].from = "file"
  /\ LateSync \notin Allowed => ~AnswerExpected(f, s)
  /\ syncing' = [syncing EXCEPT ![f][s] = NotSyncing]
  /\ UNCHANGED <<disk, prog, queue, cache, known, halfway, req, msgs,
                 clientVars, faults>>

\* GetWriteOpDataFromQueue compares the OpId only: the first operation of the
\* queue with that OpId is the answer, of whatever slice it is.
OfOp(f, op) == SelectSeq(queue[f], LAMBDA p : p.op = op)

\* GetAllWriteOpDataFromQueue stops at the first operation that is missing.
AllFromQueue(f, first, count) ==
  LET found == {k \in 0..count : \A i \in 0..(k - 1) : OfOp(f, first + i) # <<>>}
  IN [i \in 1..Max(found) |-> Head(OfOp(f, first + i - 1))]

\* An answer without operations is sent too, and does nothing at the receiver.
DoGetWriteOp(m) ==
  LET list == AllFromQueue(m.to, m.first, m.count)
  IN /\ m.type = "getop"
     /\ msgs' = (msgs \ {m}) \cup
          (IF list = <<>> THEN {}
           ELSE {[type |-> "ops", from |-> m.to, to |-> m.from,
                  slice |-> m.slice, list |-> list]})
     /\ UNCHANGED <<farmerVars, req, clientVars, faults>>

\* WriteOpDataFromMsg: an operation that does not follow the OpId of the
\* header is discarded; one that does is written and becomes the progress.
WriteOpDataFromMsg(p, st) ==
  IF p.op # st.disk[p.slice].op + 1 THEN st
  ELSE [disk |-> [st.disk EXCEPT ![p.slice] =
                    [op |-> p.op, data |-> @.data \cup {p.w}]],
        prog |-> [st.prog EXCEPT ![p.slice] = p.op]]

\* deleteSyncingSlice: the entry of the slice goes if it names that partner.
DeleteSyncing(f, s, g) ==
  syncing' = [syncing EXCEPT ![f][s] = IF @.partner = g THEN NotSyncing ELSE @]

\* The operations are applied one after the other; the entry removed is that
\* of the slice the first of them is about.
DoWriteOp(m) ==
  LET f == m.to
      st == FoldLeft(LAMBDA acc, p : WriteOpDataFromMsg(p, acc),
                     [disk |-> disk[f], prog |-> prog[f]], m.list)
  IN /\ m.type = "ops"
     /\ disk' = [disk EXCEPT ![f] = st.disk]
     /\ prog' = [prog EXCEPT ![f] = st.prog]
     /\ DeleteSyncing(f, m.list[1].slice, m.from)
     /\ msgs' = msgs \ {m}
     /\ UNCHANGED <<queue, cache, known, halfway, req, clientVars, faults>>

\* doGetWriteData: header and data as they are on the disk.
DoGetWriteData(m) ==
  LET d == disk[m.to][m.slice]
  IN /\ m.type = "getdata"
     /\ msgs' = (msgs \ {m}) \cup
          {[type |-> "data", from |-> m.to, to |-> m.from, slice |-> m.slice,
            op |-> d.op, data |-> d.data]}
     /\ UNCHANGED <<farmerVars, req, clientVars, faults>>

\* SynchronizeWrite: the copy replaces header and data, whatever they are,
\* and its OpId becomes the progress.
DoWriteSlice(m) ==
  LET f == m.to
  IN /\ m.type = "data"
     /\ disk' = [disk EXCEPT ![f][m.slice] = [op |-> m.op, data |-> m.data]]
     /\ prog' = [prog EXCEPT ![f][m.slice] = m.op]
     /\ DeleteSyncing(f, m.slice, m.from)
     /\ msgs' = msgs \ {m}
     /\ UNCHANGED <<queue, cache, known, halfway, req, clientVars, faults>>

\* The same with its two disk accesses apart: the header first, then the data.
SliceHeaderWritten(m) ==
  LET f == m.to
  IN /\ SlowCopy \in Allowed
     /\ m.type = "data"
     /\ disk' = [disk EXCEPT ![f][m.slice].op = m.op]
     /\ halfway' = [halfway EXCEPT ![f] = @ \cup
          {[type |-> "file", slice |-> m.slice, op |-> m.op, data |-> m.data,
            partner |-> m.from]}]
     /\ msgs' = msgs \ {m}
     /\ UNCHANGED <<prog, queue, cache, known, syncing, req, clientVars, faults>>

SliceDataWritten(f, h) ==
  /\ h.type = "file"
  /\ halfway' = [halfway EXCEPT ![f] = @ \ {h}]
  /\ disk' = [disk EXCEPT ![f][h.slice] = [op |-> h.op, data |-> h.data]]
  /\ prog' = [prog EXCEPT ![f][h.slice] = h.op]
  /\ DeleteSyncing(f, h.slice, h.partner)
  /\ UNCHANGED <<queue, cache, known, req, msgs, clientVars, faults>>

-----------------------------------------------------------------------------
\* Faults.

\* A connection breaks with the client's next message to f unread.
LoseRequest(f) ==
  /\ faults.loss < MaxLoss
  /\ req[f] # <<>>
  /\ Took(f)
  /\ faults' = [faults EXCEPT !.loss = @ + 1]
  /\ UNCHANGED <<farmerVars, msgs, clientVars>>

LoseMessage(m) ==
  /\ faults.loss < MaxLoss
  /\ msgs' = msgs \ {m}
  /\ faults' = [faults EXCEPT !.loss = @ + 1]
  /\ UNCHANGED <<farmerVars, req, clientVars>>

Touches(m, f) == m.from = f \/ (m.type # "rsp" /\ m.to = f)

\* A farmer restarts: the disk stays, PrepareLocalStorage takes the progress
\* from the slice headers, the rest is lost, and the partners meet it as a
\* new one (an entry that names the old connection only ends by timeout).
Restart(f) ==
  /\ faults.crash < MaxCrash
  /\ faults' = [faults EXCEPT !.crash = @ + 1]
  /\ prog' = [prog EXCEPT ![f] = [s \in Slice |-> disk[f][s].op]]
  /\ queue' = [queue EXCEPT ![f] = <<>>]
  /\ cache' = [cache EXCEPT ![f] = {}]
  /\ halfway' = [halfway EXCEPT ![f] = {}]
  /\ known' = [g \in Farmer |-> [h \in Farmer |->
       IF f \in {g, h} THEN [s \in Slice |-> 0] ELSE known[g][h]]]
  /\ syncing' = [g \in Farmer |-> [s \in Slice |->
       IF g = f THEN NotSyncing
       ELSE IF syncing[g][s].partner = f
         THEN [syncing[g][s] EXCEPT !.partner = Nobody]
         ELSE syncing[g][s]]]
  /\ req' = [req EXCEPT ![f] = <<>>]
  /\ msgs' = {m \in msgs : ~Touches(m, f)}
  /\ UNCHANGED <<disk, clientVars>>

-----------------------------------------------------------------------------
TakeReply(m) ==
  \/ ReplyDropped(m)
  \/ ReplyDiffers(m)
  \/ ReplyCounted(m)
  \/ ReplyConfirms(m)

TakeRequest(f) ==
  \/ DoWriteData(f)
  \/ DoWriteUncached(f)
  \/ DoWriteSign(f)

TakeMessage(m) ==
  \/ DoGetWriteOp(m)
  \/ DoWriteOp(m)
  \/ DoGetWriteData(m)
  \/ DoWriteSlice(m)

Finish(f, h) == SignWrites(f, h) \/ SliceDataWritten(f, h)

Next ==
  \/ \E f \in Farmer : LoginFarmer(f) \/ TakeRequest(f) \/ SignReads(f)
  \/ \E s \in Slice, nodes \in SUBSET Farmer : WriteOneSlice(s, nodes)
  \/ \E s \in Slice : WriteTooFew(s)
  \/ Subscribe
  \/ WriteTimeout
  \/ \E kept \in BOOLEAN : Reopen(kept)
  \/ \E m \in msgs : TakeReply(m) \/ TakeMessage(m) \/ SliceHeaderWritten(m)
  \/ \E m \in msgs, sent \in SUBSET Farmer : ConfirmFails(m, sent)
  \/ \E f \in Farmer : \E h \in halfway[f] : Finish(f, h)
  \/ \E f, g \in Farmer : HeartBeat(f, g)
  \/ \E f, g \in Farmer, s \in Slice : StartSync(f, s, g)
  \/ \E f \in Farmer, s \in Slice : CacheTimeout(f, s) \/ FileTimeout(f, s)
  \/ \E f \in Farmer : LoseRequest(f) \/ Restart(f)
  \/ \E m \in msgs : LoseMessage(m)

Spec == Init /\ [][Next]_vars

\* What a farmer or the client does without being asked: handlers, timers,
\* heartbeats and synchronisation ticks.  The client need not write and farmers
\* need not reconnect.
Work ==
  \/ Subscribe
  \/ WriteTimeout
  \/ \E m \in msgs : TakeReply(m) \/ TakeMessage(m)
  \/ \E f \in Farmer : TakeRequest(f)
  \/ \E f \in Farmer : \E h \in halfway[f] : Finish(f, h)
  \/ \E f, g \in Farmer : HeartBeat(f, g)
  \/ \E f, g \in Farmer, s \in Slice : StartSync(f, s, g)
  \/ \E f \in Farmer, s \in Slice : CacheTimeout(f, s) \/ FileTimeout(f, s)

\* Some of it happens as long as there is any to do.
Fairness == WF_vars(Work)

FairSpec == Spec /\ Fairness

-----------------------------------------------------------------------------
\* Two farmers whose headers carry the same OpId hold the same content, once
\* neither is in the middle of writing a slice: all that synchronisation and
\* doReadReq compare is the OpId.
SameContent ==
  \A f, g \in Farmer, s \in Slice :
    /\ disk[f][s].op = disk[g][s].op
    /\ halfway[f] = {} /\ halfway[g] = {}
    => disk[f][s].data = disk[g][s].data

\* A read that a farmer answers returns every write of the slice the client
\* was told had succeeded: doReadReq answers when the OpId asked for, the
\* client's last one, is that of the header.
ReadsAcked ==
  \A f \in Farmer, s \in Slice :
    disk[f][s].op = client.local[s] /\ client.local[s] > 0
    => \A a \in acked : a.slice = s => a.w \in disk[f][s].data

\* A write the client was told had succeeded is not lost: it is on the disk of
\* a farmer, and stays there, or still on its way to one.
AckedKept ==
  \A a \in acked : \E f \in Farmer :
    \/ a.w \in disk[f][a.slice].data
    \/ \E m \in ToSet(req[f]) : m.type = "wop" /\ m.w = a.w

\* A write the client was told had succeeded reaches every farmer in the end.
AckedSpreads ==
  \A w \in Writes :
    (\E a \in acked : a.w = w)
    ~> (\A f \in Farmer : \E s \in Slice : w \in disk[f][s].data)

=============================================================================
