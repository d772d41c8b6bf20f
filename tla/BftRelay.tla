------------------------------ MODULE BftRelay ------------------------------
(***************************************************************************)
(* How a sealer answers HBFT messages (elephant/handler.go and backend.go).*)
(* Every message from a peer has a goroutine that waits for the node not   *)
(* to be busy, has the message handled by another goroutine, makes a       *)
(* channel for the primary and waits on it; the reply is offered on that   *)
(* channel by a third goroutine.  The channels are in a map keyed by the   *)
(* primary, and both sides look the channel up again with every tick.      *)
(*                                                                         *)
(* A beat is a tick of every goroutine that waits.                         *)
(***************************************************************************)
EXTENDS Integers, FiniteSets

CONSTANTS
    Msg,            \* messages from peers: [prim, type], type "query" or "reply"
    Prim,           \* primaries
    HandleTicks,    \* bound: ticks waitForBFTHandleAndReply waits, 30 in the code
    SendTicks       \* bound: ticks SendBFTMsg waits, 5 in the code

None == "none"

ASSUME RelayAssumption ==
    /\ None \notin Prim
    /\ IsFiniteSet(Msg) /\ \A m \in Msg : m.prim \in Prim /\ m.type \in {"query", "reply"}
    /\ SendTicks \in Nat /\ HandleTicks \in Nat /\ SendTicks < HandleTicks

VARIABLES
    busy,       \* hbftNode.IsBusy()
    chan,       \* chan[p]: replyBftChan, 0 for nil
    made,       \* channels made
    hand,       \* hand[m]: the goroutine of message m
    proc,       \* proc[m]: the goroutine that handles m
    send,       \* send[m]: the goroutine that offers the reply to m
    due,        \* goroutines that have not ticked in this beat
    taken       \* taken[m]: the message whose goroutine sent the reply to m

vars == <<busy, chan, made, hand, proc, send, due, taken>>

Key  == Prim \cup {None}

Wait(pc, ch, num) == [pc |-> pc, ch |-> ch, num |-> num]
Off == Wait("off", 0, 0)

Init ==
    /\ busy \in BOOLEAN
    /\ chan = [p \in Key |-> 0] /\ made = 0
    /\ hand = [m \in Msg |-> Off] /\ send = [m \in Msg |-> Off]
    /\ proc = [m \in Msg |-> "off"]
    /\ due = {}
    /\ taken = [m \in Msg |-> None]

\* The key under which the goroutine of m waits: a reply sets no primary.
KeyOf(m) == IF m.type = "query" THEN m.prim ELSE None

-----------------------------------------------------------------------------
(* The goroutine of a message.                                             *)

\* handleBFTQueryMsg: a message comes.
Arrive(m) ==
    /\ hand[m] = Off
    /\ hand' = [hand EXCEPT ![m] = Wait("gate", 0, 0)]
    /\ UNCHANGED <<busy, chan, made, proc, send, due, taken>>

\* waitForBFTNotBusyAndHandle: a busy node handles replies only, one that is
\* not busy handles all but replies.
Gate(m) ==
    /\ hand[m].pc = "gate"
    /\ \/ /\ ~busy
          /\ hand' = [hand EXCEPT ![m].pc = "create"]
          /\ proc' = IF m.type = "query" THEN [proc EXCEPT ![m] = "on"] ELSE proc
       \/ /\ busy /\ m.type = "reply"
          /\ hand' = [hand EXCEPT ![m].pc = "end"]
          /\ proc' = [proc EXCEPT ![m] = "done"]
    /\ UNCHANGED <<busy, chan, made, send, due, taken>>

\* CreateBftMsgChan replaces the channel others may be waiting on.
CreateBftMsgChan(m) ==
    /\ hand[m].pc = "create"
    /\ made' = made + 1
    /\ chan' = [chan EXCEPT ![KeyOf(m)] = made + 1]
    /\ hand' = [hand EXCEPT ![m] = Wait("wait", made + 1, 0)]
    /\ UNCHANGED <<busy, proc, send, due, taken>>

\* HbftProcess answers the message, in its own time, or refuses it.
HbftProcess(m) ==
    /\ proc[m] = "on"
    /\ proc' = [proc EXCEPT ![m] = "done"]
    /\ \/ send' = [send EXCEPT ![m] = Wait("wait", chan[m.prim], 0)]
       \/ UNCHANGED send
    /\ UNCHANGED <<busy, chan, made, hand, due, taken>>

\* The unbuffered channel: a reply goes to a goroutine that waits on it, which
\* sends it to the peer its own message came from.
Meets(h, s) == hand[h].pc = "wait" /\ send[s].pc = "wait" /\ hand[h].ch = send[s].ch /\ send[s].ch # 0

Meet(h, s) ==
    /\ Meets(h, s)
    /\ hand' = [hand EXCEPT ![h].pc = "end"]
    /\ send' = [send EXCEPT ![s].pc = "end"]
    /\ taken' = [taken EXCEPT ![s] = h.prim]
    /\ UNCHANGED <<busy, chan, made, proc, due>>

-----------------------------------------------------------------------------
(* Tickers.                                                                *)

Running  == {<<"hand", m>> : m \in {x \in Msg : hand[x].pc = "wait"}}
            \cup {<<"send", m>> : m \in {x \in Msg : send[x].pc = "wait"}}

\* Mutant of LookUp: the channel is looked up once.
LookUpOnce(w, p) == w.ch

\* Mutant of LookUp: there is one channel for all primaries.
LookUpNewest(w, p) == made

\* The select of the next turn of the loop evaluates the map again.
LookUp(w, p) == chan[p]

\* waitForBFTHandleAndReply.
HandTick(m) ==
    LET w == hand[m]
    IN  /\ <<"hand", m>> \in due
        /\ due' = due \ {<<"hand", m>>}
        /\ hand' = [hand EXCEPT ![m] =
              IF w.pc # "wait" THEN w
              ELSE IF w.num > HandleTicks THEN Wait("end", 0, 0)
              ELSE Wait("wait", LookUp(w, KeyOf(m)), w.num + 1)]
        /\ UNCHANGED <<busy, chan, made, proc, send, taken>>

\* SendBFTMsg.
SendTick(m) ==
    LET w == send[m]
    IN  /\ <<"send", m>> \in due
        /\ due' = due \ {<<"send", m>>}
        /\ send' = [send EXCEPT ![m] =
              IF w.pc # "wait" THEN w
              ELSE IF w.num >= SendTicks THEN Wait("lost", 0, 0)
              ELSE Wait("wait", LookUp(w, m.prim), w.num + 1)]
        /\ UNCHANGED <<busy, chan, made, hand, proc, taken>>

\* A goroutine that can run is not put off until the next tick.
Beat ==
    /\ due = {} /\ Running # {}
    /\ \A m \in Msg : hand[m].pc # "create"
    /\ due' = Running
    /\ UNCHANGED <<busy, chan, made, hand, proc, send, taken>>

\* The node begins or ends its own turn.
SetBusy ==
    /\ busy' = ~busy
    /\ UNCHANGED <<chan, made, hand, proc, send, due, taken>>

\* What two goroutines do at once on a channel takes no time.
Urgent == \E h, s \in Msg : Meets(h, s)

Next ==
    \/ \E h, s \in Msg : Meet(h, s)
    \/ ~Urgent /\ ( \/ SetBusy \/ Beat
                    \/ \E m \in Msg : \/ Arrive(m) \/ Gate(m) \/ CreateBftMsgChan(m)
                                      \/ HbftProcess(m) \/ HandTick(m) \/ SendTick(m) )

Spec == Init /\ [][Next]_vars

\* Goroutines run and tickers tick; a turn ends (the sealing has a time out).
FairSpec ==
    /\ Spec
    /\ WF_vars(Beat) /\ WF_vars(busy /\ SetBusy)
    /\ \A m \in Msg : /\ WF_vars(HandTick(m)) /\ WF_vars(SendTick(m))
                      /\ SF_vars(Gate(m)) /\ WF_vars(CreateBftMsgChan(m)) /\ WF_vars(HbftProcess(m))
    /\ \A h, s \in Msg : WF_vars(Meet(h, s))

-----------------------------------------------------------------------------
(* Properties.                                                             *)

RelayTypeOK ==
    /\ busy \in BOOLEAN
    /\ \A p \in Key : chan[p] \in 0..made
    /\ made \in 0..Cardinality(Msg)
    /\ \A m \in Msg : /\ hand[m].pc \in {"off", "gate", "create", "wait", "end"}
                      /\ send[m].pc \in {"off", "wait", "end", "lost"}
                      /\ hand[m].num \in 0..(HandleTicks + 1) /\ send[m].num \in 0..SendTicks

\* Messages of several primaries are answered at once, and those of one primary
\* share a channel that is replaced under them: a reply still goes to the
\* primary it is for.
ReplyToItsPrimary == \A m \in Msg : taken[m] # None => taken[m] = m.prim

\* replyBftChan is the "Channel for replying BFT message to the primary": a
\* reply is not given up while the goroutine of its message waits for one,
\* although that one and others keep replacing the channel.
ReplyHandedOver == \A m \in Msg : send[m].pc = "lost" => hand[m].pc # "wait"

=============================================================================
