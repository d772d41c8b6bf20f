--------------------------- MODULE BftRelayProofs ---------------------------
(***************************************************************************)
(* The BFT relay for every set of messages and primaries and all numbers   *)
(* of ticks: a reply goes to the primary it is for, and it is not given up *)
(* while the goroutine of its message waits.                               *)
(*                                                                         *)
(* ReplyToItsPrimary says nothing of channels; what is inductive is that   *)
(* no two primaries share one: a channel in the map is under one key, and  *)
(* a goroutine holds a channel that is, or was, under its own key.         *)
(*                                                                         *)
(* ReplyHandedOver is a race: both sides look the channel up with every    *)
(* tick, and miss each other only when the channel was replaced between    *)
(* the two.  So the ticks of a reply are counted against the messages of   *)
(* its primary that have replaced the channel.                             *)
(***************************************************************************)
EXTENDS BftRelay, FiniteSetTheorems, TLAPS

\* Where a message is on its way, and what its goroutine waits with.
Place == {"off", "gate", "create", "wait", "end", "lost"}
Waiting == [pc : Place, ch : Nat, num : Nat]

\* Every variable has its type.
RelayTypes ==
    /\ made \in Nat
    /\ chan \in [Key -> Nat]
    /\ hand \in [Msg -> Waiting]
    /\ send \in [Msg -> Waiting]
    /\ taken \in [Msg -> Key]

\* No channel is used before it is made.
MadeOnly ==
    /\ \A p \in Key : chan[p] <= made
    /\ \A m \in Msg : hand[m].ch <= made /\ send[m].ch <= made

\* A channel is under one key.
OneKey == \A p, q \in Key : chan[p] = chan[q] /\ chan[p] # 0 => p = q

\* A channel that is in the map is held under the key it has there.
HandKey == \A m \in Msg, p \in Key : hand[m].ch = chan[p] /\ chan[p] # 0 => KeyOf(m) = p
SendKey == \A m \in Msg, p \in Key : send[m].ch = chan[p] /\ chan[p] # 0 => m.prim = p

\* A channel that is no longer in the map is still held under one key only.
PairKey == \A h, s \in Msg : hand[h].ch = send[s].ch /\ send[s].ch # 0 => KeyOf(h) = s.prim

\* The inductive invariant for the channels.
RelayInv == RelayTypes /\ MadeOnly /\ OneKey /\ HandKey /\ SendKey /\ PairKey /\ ReplyToItsPrimary

-----------------------------------------------------------------------------
\* What the messages of the relay are keyed by: members of Key, and a message
\* keyed by a primary is a query of that primary.
LEMMA KeyFacts ==
    /\ None \in Key /\ Prim \subseteq Key
    /\ \A m \in Msg : m.prim \in Prim /\ m.prim \in Key /\ KeyOf(m) \in Key
    /\ \A m \in Msg, p \in Prim : KeyOf(m) = p => m.prim = p
BY RelayAssumption DEF Key, KeyOf

\* The records goroutines wait with.
LEMMA WaitType ==
    ASSUME NEW pc \in Place, NEW c \in Nat, NEW n \in Nat
    PROVE  /\ Wait(pc, c, n) \in Waiting
           /\ Wait(pc, c, n).pc = pc /\ Wait(pc, c, n).ch = c /\ Wait(pc, c, n).num = n
BY DEF Wait, Waiting

\* Nothing is held in the beginning.
LEMMA RelayInit == Init => RelayInv
<1> SUFFICES ASSUME Init PROVE RelayInv
  OBVIOUS
<1>1. Off \in Waiting /\ Off.ch = 0
  BY WaitType DEF Off, Place
<1>2. RelayTypes
  BY <1>1, KeyFacts DEF Init, RelayTypes
<1>3. MadeOnly /\ OneKey /\ HandKey /\ SendKey /\ PairKey /\ ReplyToItsPrimary
  BY <1>1 DEF Init, MadeOnly, OneKey, HandKey, SendKey, PairKey, ReplyToItsPrimary
<1> QED
  BY <1>2, <1>3 DEF RelayInv

\* A step in which one goroutine of a message comes to hold channel c, with
\* the map as it is: c is the goroutine's channel of before, nil, or the one
\* under its key.
LEMMA HandTakes ==
    ASSUME RelayInv, NEW m \in Msg, NEW w \in Waiting,
           w.ch \in {hand[m].ch, 0, chan[KeyOf(m)]},
           hand' = [hand EXCEPT ![m] = w],
           UNCHANGED <<chan, made, send>>
    PROVE  /\ hand' \in [Msg -> Waiting]
           /\ MadeOnly' /\ OneKey' /\ HandKey' /\ SendKey' /\ PairKey'
<1> USE KeyFacts
<1>1. hand' \in [Msg -> Waiting]
  BY DEF RelayInv, RelayTypes
<1>2. \A x \in Msg : hand'[x].ch = (IF x = m THEN w.ch ELSE hand[x].ch)
  BY DEF RelayInv, RelayTypes
<1>2a. \A x \in Msg, p \in Key : hand[x].ch \in Nat /\ send[x].ch \in Nat /\ chan[p] \in Nat
  BY DEF RelayInv, RelayTypes, Waiting
<1>3. MadeOnly'
  BY <1>2, <1>2a DEF RelayInv, RelayTypes, MadeOnly
<1>4. OneKey' /\ SendKey'
  BY DEF RelayInv, OneKey, SendKey
<1>5. HandKey'
  <2> SUFFICES ASSUME NEW x \in Msg, NEW p \in Key, hand'[x].ch = chan[p], chan[p] # 0
               PROVE  KeyOf(x) = p
    BY DEF HandKey
  <2>1. CASE x # m
    BY <2>1, <1>2 DEF RelayInv, HandKey
  <2>2. CASE x = m
    BY <2>2, <1>2 DEF RelayInv, HandKey, OneKey
  <2> QED
    BY <2>1, <2>2
<1>6. PairKey'
  <2> SUFFICES ASSUME NEW x \in Msg, NEW s \in Msg, hand'[x].ch = send[s].ch, send[s].ch # 0
               PROVE  KeyOf(x) = s.prim
    BY DEF PairKey
  <2>1. CASE x # m
    BY <2>1, <1>2 DEF RelayInv, PairKey
  <2>2. CASE x = m
    BY <2>2, <1>2 DEF RelayInv, PairKey, SendKey
  <2> QED
    BY <2>1, <2>2
<1> QED
  BY <1>1, <1>3, <1>4, <1>5, <1>6

\* The same for a goroutine that offers a reply.
LEMMA SendTakes ==
    ASSUME RelayInv, NEW m \in Msg, NEW w \in Waiting,
           w.ch \in {send[m].ch, 0, chan[m.prim]},
           send' = [send EXCEPT ![m] = w],
           UNCHANGED <<chan, made, hand>>
    PROVE  /\ send' \in [Msg -> Waiting]
           /\ MadeOnly' /\ OneKey' /\ HandKey' /\ SendKey' /\ PairKey'
<1> USE KeyFacts
<1>1. send' \in [Msg -> Waiting]
  BY DEF RelayInv, RelayTypes
<1>2. \A x \in Msg : send'[x].ch = (IF x = m THEN w.ch ELSE send[x].ch)
  BY DEF RelayInv, RelayTypes
<1>2a. \A x \in Msg, p \in Key : hand[x].ch \in Nat /\ send[x].ch \in Nat /\ chan[p] \in Nat
  BY DEF RelayInv, RelayTypes, Waiting
<1>3. MadeOnly'
  BY <1>2, <1>2a DEF RelayInv, RelayTypes, MadeOnly
<1>4. OneKey' /\ HandKey'
  BY DEF RelayInv, OneKey, HandKey
<1>5. SendKey'
  <2> SUFFICES ASSUME NEW x \in Msg, NEW p \in Key, send'[x].ch = chan[p], chan[p] # 0
               PROVE  x.prim = p
    BY DEF SendKey
  <2>1. CASE x # m
    BY <2>1, <1>2 DEF RelayInv, SendKey
  <2>2. CASE x = m
    BY <2>2, <1>2 DEF RelayInv, SendKey, OneKey
  <2> QED
    BY <2>1, <2>2
<1>6. PairKey'
  <2> SUFFICES ASSUME NEW h \in Msg, NEW x \in Msg, hand[h].ch = send'[x].ch, send'[x].ch # 0
               PROVE  KeyOf(h) = x.prim
    BY DEF PairKey
  <2>1. CASE x # m
    BY <2>1, <1>2 DEF RelayInv, PairKey
  <2>2. CASE x = m
    BY <2>2, <1>2 DEF RelayInv, PairKey, HandKey
  <2> QED
    BY <2>1, <2>2
<1> QED
  BY <1>1, <1>3, <1>4, <1>5, <1>6

\* CreateBftMsgChan: the new channel is held by nobody, so the invariant is
\* kept although the channel it replaces may be held by many.
LEMMA CreateKeeps ==
    ASSUME RelayInv, NEW m \in Msg, CreateBftMsgChan(m)
    PROVE  RelayInv'
<1> USE KeyFacts
<1> DEFINE c == made + 1
           k == KeyOf(m)
<1>1. /\ c \in Nat /\ c # 0 /\ k \in Key
      /\ \A x \in Msg, p \in Key : /\ hand[x].ch \in Nat /\ send[x].ch \in Nat /\ chan[p] \in Nat
                                   /\ hand[x].ch # c /\ send[x].ch # c /\ chan[p] # c
  BY DEF RelayInv, RelayTypes, Waiting, MadeOnly
<1>2. Wait("wait", c, 0) \in Waiting /\ Wait("wait", c, 0).ch = c
  BY <1>1, WaitType DEF Place
<1>3. made' = c /\ chan' = [chan EXCEPT ![k] = c] /\ hand' = [hand EXCEPT ![m] = Wait("wait", c, 0)]
      /\ send' = send /\ taken' = taken
  BY DEF CreateBftMsgChan
<1>4. RelayTypes'
  BY <1>1, <1>2, <1>3 DEF RelayInv, RelayTypes
<1>5. /\ \A p \in Key : chan'[p] = IF p = k THEN c ELSE chan[p]
      /\ \A x \in Msg : hand'[x].ch = IF x = m THEN c ELSE hand[x].ch
  BY <1>2, <1>3 DEF RelayInv, RelayTypes
<1>6. MadeOnly'
  BY <1>1, <1>3, <1>5 DEF RelayInv, RelayTypes, MadeOnly
<1> HIDE DEF c
<1>7. OneKey'
  BY <1>1, <1>5 DEF RelayInv, OneKey
<1>8. HandKey'
  BY <1>1, <1>5 DEF RelayInv, HandKey
<1>9. SendKey'
  BY <1>1, <1>3, <1>5 DEF RelayInv, SendKey
<1>10. PairKey'
  BY <1>1, <1>3, <1>5 DEF RelayInv, PairKey
<1>11. ReplyToItsPrimary'
  BY <1>3 DEF RelayInv, ReplyToItsPrimary
<1> QED
  BY <1>4, <1>6, <1>7, <1>8, <1>9, <1>10, <1>11 DEF RelayInv

\* Meet: two goroutines that meet hold one channel, so the primary that gets
\* the reply is the one it is for.
LEMMA MeetKeeps ==
    ASSUME RelayInv, NEW h \in Msg, NEW s \in Msg, Meet(h, s)
    PROVE  RelayInv'
<1> USE KeyFacts
<1>1. h.prim = s.prim
  BY DEF Meet, Meets, RelayInv, PairKey
<1>2. hand' \in [Msg -> Waiting] /\ send' \in [Msg -> Waiting]
  BY DEF Meet, RelayInv, RelayTypes, Waiting, Place
<1>3. \A x \in Msg : hand'[x].ch = hand[x].ch /\ send'[x].ch = send[x].ch
  BY DEF Meet, RelayInv, RelayTypes, Waiting
<1>4. chan' = chan /\ made' = made /\ taken' = [taken EXCEPT ![s] = h.prim]
  BY DEF Meet
<1>5. RelayTypes'
  BY <1>2, <1>4 DEF RelayInv, RelayTypes
<1>6. MadeOnly' /\ OneKey' /\ HandKey' /\ SendKey' /\ PairKey'
  BY <1>3, <1>4 DEF RelayInv, MadeOnly, OneKey, HandKey, SendKey, PairKey
<1>7. ReplyToItsPrimary'
  BY <1>1, <1>4 DEF RelayInv, RelayTypes, ReplyToItsPrimary
<1> QED
  BY <1>5, <1>6, <1>7 DEF RelayInv

\* The steps in which a goroutine of a message goes on.
LEMMA HandKeeps ==
    ASSUME RelayInv, NEW m \in Msg, Arrive(m) \/ Gate(m) \/ HandTick(m)
    PROVE  RelayInv'
<1> USE KeyFacts
<1>1. hand[m] \in Waiting /\ chan[KeyOf(m)] \in Nat
  BY DEF RelayInv, RelayTypes
<1>2. UNCHANGED <<chan, made, send, taken>>
  BY DEF Arrive, Gate, HandTick
<1>3. PICK w \in Waiting : /\ hand' = [hand EXCEPT ![m] = w]
                           /\ w.ch \in {hand[m].ch, 0, chan[KeyOf(m)]}
  <2>1. CASE Arrive(m)
    <3>1. Wait("gate", 0, 0) \in Waiting /\ Wait("gate", 0, 0).ch = 0
      BY WaitType DEF Place
    <3> QED
      BY <2>1, <3>1 DEF Arrive
  <2>2. CASE Gate(m)
    <3>1. \A pc \in Place : /\ [hand[m] EXCEPT !.pc = pc] \in Waiting
                             /\ [hand[m] EXCEPT !.pc = pc].ch = hand[m].ch
      BY <1>1 DEF Waiting
    <3>2. PICK pc \in Place : hand' = [hand EXCEPT ![m] = [hand[m] EXCEPT !.pc = pc]]
      BY <2>2 DEF Gate, RelayInv, RelayTypes, Place
    <3> QED
      BY <3>1, <3>2
  <2>3. CASE HandTick(m)
    <3>1. hand[m].num + 1 \in Nat
      BY <1>1 DEF Waiting
    <3>2. /\ Wait("end", 0, 0) \in Waiting /\ Wait("end", 0, 0).ch = 0
          /\ Wait("wait", chan[KeyOf(m)], hand[m].num + 1) \in Waiting
          /\ Wait("wait", chan[KeyOf(m)], hand[m].num + 1).ch = chan[KeyOf(m)]
      BY <1>1, <3>1, WaitType DEF Place
    <3>3. \/ hand' = [hand EXCEPT ![m] = hand[m]]
          \/ hand' = [hand EXCEPT ![m] = Wait("end", 0, 0)]
          \/ hand' = [hand EXCEPT ![m] = Wait("wait", chan[KeyOf(m)], hand[m].num + 1)]
      BY <2>3 DEF HandTick, LookUp
    <3> QED
      BY <1>1, <3>2, <3>3
  <2> QED
    BY <2>1, <2>2, <2>3
<1>4. hand' \in [Msg -> Waiting] /\ MadeOnly' /\ OneKey' /\ HandKey' /\ SendKey' /\ PairKey'
  BY <1>2, <1>3, HandTakes
<1>5. RelayTypes' /\ ReplyToItsPrimary'
  BY <1>2, <1>4 DEF RelayInv, RelayTypes, ReplyToItsPrimary
<1> QED
  BY <1>4, <1>5 DEF RelayInv

\* The steps in which the goroutine of a reply begins or goes on.
LEMMA SendKeeps ==
    ASSUME RelayInv, NEW m \in Msg, HbftProcess(m) \/ SendTick(m)
    PROVE  RelayInv'
<1> USE KeyFacts
<1>1. send[m] \in Waiting /\ chan[m.prim] \in Nat
  BY DEF RelayInv, RelayTypes
<1>2. UNCHANGED <<chan, made, hand, taken>>
  BY DEF HbftProcess, SendTick
<1>3. PICK w \in Waiting : /\ send' = [send EXCEPT ![m] = w]
                           /\ w.ch \in {send[m].ch, 0, chan[m.prim]}
  <2>1. send[m].num + 1 \in Nat
    BY <1>1 DEF Waiting
  <2>2. /\ Wait("lost", 0, 0) \in Waiting /\ Wait("lost", 0, 0).ch = 0
        /\ \A n \in Nat : /\ Wait("wait", chan[m.prim], n) \in Waiting
                          /\ Wait("wait", chan[m.prim], n).ch = chan[m.prim]
    <3>1. "wait" \in Place /\ "lost" \in Place
      BY DEF Place
    <3>2. Wait("lost", 0, 0) \in Waiting /\ Wait("lost", 0, 0).ch = 0
      BY <3>1, WaitType
    <3>3. ASSUME NEW n \in Nat
          PROVE  /\ Wait("wait", chan[m.prim], n) \in Waiting
                 /\ Wait("wait", chan[m.prim], n).ch = chan[m.prim]
      BY <1>1, <3>1, WaitType
    <3> QED
      BY <3>2, <3>3
  <2>3. \/ send' = [send EXCEPT ![m] = send[m]]
        \/ send' = [send EXCEPT ![m] = Wait("lost", 0, 0)]
        \/ send' = [send EXCEPT ![m] = Wait("wait", chan[m.prim], 0)]
        \/ send' = [send EXCEPT ![m] = Wait("wait", chan[m.prim], send[m].num + 1)]
    BY DEF HbftProcess, SendTick, LookUp, RelayInv, RelayTypes
  <2> QED
    BY <1>1, <2>1, <2>2, <2>3
<1>4. send' \in [Msg -> Waiting] /\ MadeOnly' /\ OneKey' /\ HandKey' /\ SendKey' /\ PairKey'
  BY <1>2, <1>3, SendTakes
<1>5. RelayTypes' /\ ReplyToItsPrimary'
  BY <1>2, <1>4 DEF RelayInv, RelayTypes, ReplyToItsPrimary
<1> QED
  BY <1>4, <1>5 DEF RelayInv

\* Steps that leave channels and goroutines alone keep the invariant.
LEMMA RestKeeps ==
    ASSUME RelayInv, UNCHANGED <<chan, made, hand, send, taken>>
    PROVE  RelayInv'
BY DEF RelayInv, RelayTypes, MadeOnly, OneKey, HandKey, SendKey, PairKey, ReplyToItsPrimary

-----------------------------------------------------------------------------
\* Every step keeps the invariant.
LEMMA RelayStep == RelayInv /\ [Next]_vars => RelayInv'
<1> SUFFICES ASSUME RelayInv, [Next]_vars PROVE RelayInv'
  OBVIOUS
<1>1. ASSUME NEW h \in Msg, NEW s \in Msg, Meet(h, s) PROVE RelayInv'
  BY <1>1, MeetKeeps
<1>2. CASE SetBusy
  BY <1>2, RestKeeps DEF SetBusy
<1>3. CASE Beat
  BY <1>3, RestKeeps DEF Beat
<1>4. ASSUME NEW m \in Msg, Arrive(m) \/ Gate(m) \/ HandTick(m) PROVE RelayInv'
  BY <1>4, HandKeeps
<1>5. ASSUME NEW m \in Msg, CreateBftMsgChan(m) PROVE RelayInv'
  BY <1>5, CreateKeeps
<1>6. ASSUME NEW m \in Msg, HbftProcess(m) \/ SendTick(m) PROVE RelayInv'
  BY <1>6, SendKeeps
<1>7. CASE UNCHANGED vars
  BY <1>7, RestKeeps DEF vars
<1> QED
  BY <1>1, <1>2, <1>3, <1>4, <1>5, <1>6, <1>7 DEF Next

\* A reply is sent to the primary it is for (ReplyToItsPrimary), although
\* CreateBftMsgChan replaces the channels that goroutines wait on.
THEOREM RelayRepliesRight == Spec => []ReplyToItsPrimary
<1>1. RelayInv => ReplyToItsPrimary
  BY DEF RelayInv
<1> QED
  BY <1>1, RelayInit, RelayStep, PTL DEF Spec

-----------------------------------------------------------------------------
(* A reply is handed over.                                                 *)

\* The queries of one sealer.
Queries(p) == {x \in Msg : x.type = "query" /\ x.prim = p}

\* The other queries of m's primary whose goroutines have replaced its channel.
Replaced(h, m) == {x \in Queries(m.prim) \ {m} : h[x].pc \in {"wait", "end"}}

\* A reply is waited for in more ticks than its primary has messages; in the
\* code a primary has at most two in a round, and SendTicks is 5.
FewQueries == \A p \in Prim : Cardinality(Queries(p)) <= SendTicks

\* Who answers: the reply to a query begins after the goroutine of the query
\* went on to make its channel, and ticks after that channel was made.
ReplyPlace ==
    /\ proc \in [Msg -> {"off", "on", "done"}]
    /\ \A m \in Msg :
         /\ proc[m] = "on" => send[m].pc = "off"
         /\ proc[m] = "on" \/ send[m].pc # "off" =>
               m.type = "query" /\ hand[m].pc \in {"create", "wait", "end"}
         /\ hand[m].pc \in {"off", "gate", "create"} => send[m].num = 0
         /\ <<"send", m>> \in due => send[m].pc # "off" /\ hand[m].pc \in {"wait", "end"}
         /\ m.type = "query" /\ hand[m].pc = "wait" => chan[m.prim] # 0
         /\ send[m].pc = "lost" => hand[m].pc = "end"

\* While both sides wait, the reply has ticked no more often than others have
\* replaced the channel, unless the two hold the same one; in the middle of a
\* beat, the side that has ticked may be waiting for the other on the channel
\* of the map.
Paced(m) ==
    send[m].pc = "wait" /\ hand[m].pc = "wait" =>
      LET n  == send[m].num
          c  == Cardinality(Replaced(hand, m))
          hd == <<"hand", m>> \in due
          sd == <<"send", m>> \in due
      IN  /\ (hd /\ sd) \/ (~hd /\ ~sd) => Meets(m, m) \/ n <= c
          /\ sd /\ ~hd => n <= c /\ (n + 1 <= c \/ hand[m].ch = chan[m.prim])
          /\ hd /\ ~sd => n <= c \/ (n <= c + 1 /\ send[m].ch = chan[m.prim])

\* The inductive invariant for the replies.
HandInv == RelayInv /\ ReplyPlace /\ \A m \in Msg : Paced(m)

\* The messages that replaced a channel are finitely many, and fewer than the
\* queries of the primary, of which m is one.
LEMMA ReplacedFew ==
    ASSUME NEW m \in Msg, NEW h, m.type = "query"
    PROVE  /\ Cardinality(Replaced(h, m)) \in Nat
           /\ Cardinality(Queries(m.prim)) \in Nat
           /\ Cardinality(Replaced(h, m)) + 1 <= Cardinality(Queries(m.prim))
<1>1. IsFiniteSet(Queries(m.prim))
  BY RelayAssumption, FS_Subset DEF Queries
<1>2. Replaced(h, m) \subseteq Queries(m.prim) /\ m \notin Replaced(h, m) /\ m \in Queries(m.prim)
  BY DEF Replaced, Queries
<1>3. IsFiniteSet(Replaced(h, m))
  BY <1>1, <1>2, FS_Subset
<1>4. /\ IsFiniteSet(Replaced(h, m) \cup {m})
      /\ Cardinality(Replaced(h, m) \cup {m}) = Cardinality(Replaced(h, m)) + 1
  BY <1>2, <1>3, FS_AddElement
<1>5. Cardinality(Replaced(h, m) \cup {m}) <= Cardinality(Queries(m.prim))
  <2>1. Replaced(h, m) \cup {m} \subseteq Queries(m.prim)
    BY <1>2
  <2> QED
    BY <1>1, <2>1, FS_Subset
<1> QED
  BY <1>1, <1>3, <1>4, <1>5, FS_CardinalityType

\* A step in which no goroutine of a query makes a channel replaces none.
LEMMA ReplacedSame ==
    ASSUME NEW m \in Msg, NEW h, NEW g,
           \A x \in Msg : x.type = "query" =>
              (h[x].pc \in {"wait", "end"} <=> g[x].pc \in {"wait", "end"})
    PROVE  Replaced(g, m) = Replaced(h, m)
BY DEF Replaced, Queries

\* A query of the same primary that makes its channel replaces one.
LEMMA ReplacedGrows ==
    ASSUME NEW m \in Msg, NEW y \in Msg, NEW h, NEW g,
           m.type = "query", y.type = "query", y.prim = m.prim, y # m,
           h[y].pc = "create", g[y].pc = "wait",
           \A x \in Msg : x # y => g[x] = h[x]
    PROVE  Cardinality(Replaced(g, m)) = Cardinality(Replaced(h, m)) + 1
<1>1. Replaced(g, m) = Replaced(h, m) \cup {y} /\ y \notin Replaced(h, m)
  BY DEF Replaced, Queries
<1>2. IsFiniteSet(Replaced(h, m))
  <2>1. Replaced(h, m) \subseteq Msg
    BY DEF Replaced, Queries
  <2> QED
    BY <2>1, RelayAssumption, FS_Subset
<1> QED
  BY <1>1, <1>2, FS_AddElement

\* Paced(m) is about the goroutines of m alone, and what was replaced.
LEMMA PacedSame ==
    ASSUME NEW m \in Msg, Paced(m),
           hand'[m] = hand[m], send'[m] = send[m], chan'[m.prim] = chan[m.prim],
           <<"hand", m>> \in due' <=> <<"hand", m>> \in due,
           <<"send", m>> \in due' <=> <<"send", m>> \in due,
           Replaced(hand', m) = Replaced(hand, m)
    PROVE  Paced(m)'
BY DEF Paced, Meets

\* A goroutine whose message or whose reply does not wait is not paced.
LEMMA PacedIdle ==
    ASSUME NEW m \in Msg, hand'[m].pc # "wait" \/ send'[m].pc # "wait"
    PROVE  Paced(m)'
BY DEF Paced

\* Nothing is answered in the beginning.
LEMMA HandInit == Init => HandInv
<1> SUFFICES ASSUME Init PROVE HandInv
  OBVIOUS
<1>1. Off.pc = "off" /\ Off.num = 0
  BY DEF Off, Wait
<1>2. ReplyPlace
  BY <1>1 DEF Init, ReplyPlace
<1>3. \A m \in Msg : Paced(m)
  BY <1>1 DEF Init, Paced
<1> QED
  BY <1>2, <1>3, RelayInit DEF HandInv

\* Arrive and Gate: the message has no reply yet.
LEMMA ComesKeeps ==
    ASSUME HandInv, NEW y \in Msg, Arrive(y) \/ Gate(y)
    PROVE  ReplyPlace' /\ \A m \in Msg : Paced(m)'
<1>1. /\ hand[y].pc \in {"off", "gate"} /\ hand[y] \in Waiting
      /\ hand \in [Msg -> Waiting] /\ proc \in [Msg -> {"off", "on", "done"}]
      /\ y.type \in {"query", "reply"}
  BY RelayAssumption DEF Arrive, Gate, Off, Wait, HandInv, RelayInv, RelayTypes, ReplyPlace
<1>2. /\ proc[y] # "on" /\ send[y].pc = "off" /\ send[y].num = 0 /\ <<"send", y>> \notin due
  BY <1>1 DEF HandInv, ReplyPlace
<1>3. \A pc : [hand[y] EXCEPT !.pc = pc].pc = pc
  BY <1>1 DEF Waiting
<1>4. /\ \A x \in Msg : x # y => hand'[x] = hand[x]
      /\ \/ hand'[y].pc = "gate" /\ proc' = proc
         \/ hand'[y].pc = "create" /\ y.type = "query" /\ proc' = [proc EXCEPT ![y] = "on"]
         \/ hand'[y].pc = "create" /\ proc' = proc
         \/ hand'[y].pc = "end" /\ y.type = "reply" /\ proc' = [proc EXCEPT ![y] = "done"]
  <2>1. CASE Arrive(y)
    BY <2>1, <1>1 DEF Arrive, Wait
  <2>2. CASE Gate(y)
    BY <2>2, <1>1, <1>3 DEF Gate
  <2> QED
    BY <2>1, <2>2
<1>5. /\ UNCHANGED <<chan, send, due>>
      /\ proc' \in [Msg -> {"off", "on", "done"}]
      /\ \A x \in Msg : x # y => proc'[x] = proc[x]
      /\ proc'[y] = "on" => y.type = "query" /\ hand'[y].pc = "create"
  BY <1>1, <1>2, <1>4 DEF Arrive, Gate
<1>7. ReplyPlace'
  BY <1>1, <1>2, <1>4, <1>5 DEF HandInv, ReplyPlace
<1>8. ASSUME NEW m \in Msg PROVE Paced(m)'
  <2>1. CASE m = y
    BY <2>1, <1>4, PacedIdle
  <2>2. CASE m # y
    <3>1. Replaced(hand', m) = Replaced(hand, m)
      <4>1. \A x \in Msg : x.type = "query" =>
               (hand[x].pc \in {"wait", "end"} <=> hand'[x].pc \in {"wait", "end"})
        BY <1>1, <1>4
      <4> QED
        BY <4>1, ReplacedSame
    <3> QED
      BY <2>2, <3>1, <1>4, <1>5, PacedSame DEF HandInv
  <2> QED
    BY <2>1, <2>2
<1> QED
  BY <1>7, <1>8

\* CreateBftMsgChan: the channel of every other query of the primary is
\* replaced, which is one more for each of them; the reply of the query itself
\* has not ticked yet.
LEMMA CreatePaces ==
    ASSUME HandInv, NEW y \in Msg, CreateBftMsgChan(y)
    PROVE  ReplyPlace' /\ \A m \in Msg : Paced(m)'
<1> USE KeyFacts
<1>1. /\ hand[y].pc = "create" /\ made \in Nat
      /\ hand \in [Msg -> Waiting] /\ chan \in [Key -> Nat] /\ send \in [Msg -> Waiting]
  BY DEF CreateBftMsgChan, HandInv, RelayInv, RelayTypes
<1>2. UNCHANGED <<proc, send, due>>
  BY DEF CreateBftMsgChan
<1>3. /\ \A x \in Msg : x # y => hand'[x] = hand[x]
      /\ hand'[y].pc = "wait"
      /\ \A p \in Key : chan'[p] = IF p = KeyOf(y) THEN made + 1 ELSE chan[p]
  BY <1>1 DEF CreateBftMsgChan, Wait
<1>4. <<"send", y>> \notin due /\ send[y].num = 0 /\ send[y].pc # "lost"
  BY <1>1 DEF HandInv, ReplyPlace
<1>5. ReplyPlace'
  <2>1. ASSUME NEW m \in Msg, m.type = "query", hand'[m].pc = "wait" PROVE chan'[m.prim] # 0
    <3>1. CASE m = y
      BY <1>1, <1>3, <2>1, <3>1 DEF KeyOf
    <3>2. CASE m # y
      <4>1. chan[m.prim] # 0 /\ m.prim \in Key
        BY <1>3, <2>1, <3>2 DEF HandInv, ReplyPlace
      <4> QED
        BY <1>1, <1>3, <4>1
    <3> QED
      BY <3>1, <3>2
  <2> QED
    BY <1>1, <1>2, <1>3, <1>4, <2>1 DEF HandInv, ReplyPlace
<1>6. ASSUME NEW m \in Msg, send[m].pc = "wait", hand'[m].pc = "wait" PROVE Paced(m)'
  <2>0. m.type = "query" /\ send[m].num \in Nat
    BY <1>1, <1>6 DEF HandInv, ReplyPlace, Waiting
  <2>1. CASE m = y
    <3>1. Cardinality(Replaced(hand', m)) \in Nat
      BY <2>0, ReplacedFew
    <3> QED
      BY <2>1, <1>2, <1>4, <3>1 DEF Paced
  <2>2. CASE m # y /\ y.type = "query" /\ y.prim = m.prim
    <3>1. Cardinality(Replaced(hand', m)) = Cardinality(Replaced(hand, m)) + 1
      BY <1>1, <1>3, <2>0, <2>2, ReplacedGrows
    <3>2. Cardinality(Replaced(hand, m)) \in Nat
      BY <2>0, ReplacedFew
    <3>3. Paced(m) /\ hand[m].pc = "wait" /\ hand'[m] = hand[m]
      BY <1>3, <1>6, <2>2 DEF HandInv
    <3> HIDE DEF Replaced
    <3> QED
      BY <1>2, <1>6, <2>0, <3>1, <3>2, <3>3 DEF Paced, Meets
  <2>3. CASE m # y /\ ~(y.type = "query" /\ y.prim = m.prim)
    <3>1. Replaced(hand', m) = Replaced(hand, m)
      BY <1>3, <2>3 DEF Replaced, Queries
    <3>2. chan'[m.prim] = chan[m.prim]
      BY <1>3, <2>3, RelayAssumption DEF KeyOf
    <3> QED
      BY <1>2, <1>3, <2>3, <3>1, <3>2, PacedSame DEF HandInv
  <2> QED
    BY <2>1, <2>2, <2>3
<1>7. \A m \in Msg : Paced(m)'
  BY <1>2, <1>6, PacedIdle
<1> QED
  BY <1>5, <1>7

\* HbftProcess: a reply begins with no ticks.
LEMMA ProcessPaces ==
    ASSUME HandInv, NEW y \in Msg, HbftProcess(y)
    PROVE  ReplyPlace' /\ \A m \in Msg : Paced(m)'
<1>1. /\ proc[y] = "on" /\ send \in [Msg -> Waiting] /\ proc \in [Msg -> {"off", "on", "done"}]
      /\ y.type = "query" /\ send[y].pc = "off" /\ <<"send", y>> \notin due
      /\ hand[y].pc \in {"create", "wait", "end"}
  BY DEF HbftProcess, HandInv, RelayInv, RelayTypes, ReplyPlace
<1>2. /\ UNCHANGED <<chan, hand, due>>
      /\ proc' = [proc EXCEPT ![y] = "done"]
      /\ \A x \in Msg : x # y => send'[x] = send[x]
      /\ send'[y] = send[y] \/ (send'[y].pc = "wait" /\ send'[y].num = 0)
  BY <1>1 DEF HbftProcess, Wait
<1>3. ReplyPlace'
  BY <1>1, <1>2 DEF HandInv, ReplyPlace
<1>4. ASSUME NEW m \in Msg PROVE Paced(m)'
  <2>1. CASE m = y
    <3>1. Cardinality(Replaced(hand, m)) \in Nat
      BY <1>1, <2>1, ReplacedFew
    <3> QED
      BY <1>1, <1>2, <2>1, <3>1 DEF Paced
  <2>2. CASE m # y
    BY <1>2, <2>2, PacedSame DEF HandInv
  <2> QED
    BY <2>1, <2>2
<1> QED
  BY <1>3, <1>4

\* Meet: who meets ends, and waits for nothing any more.
LEMMA MeetPaces ==
    ASSUME HandInv, NEW h \in Msg, NEW s \in Msg, Meet(h, s)
    PROVE  ReplyPlace' /\ \A m \in Msg : Paced(m)'
<1>1. /\ hand \in [Msg -> Waiting] /\ send \in [Msg -> Waiting]
      /\ hand[h].pc = "wait" /\ send[s].pc = "wait"
  BY DEF Meet, Meets, HandInv, RelayInv, RelayTypes
<1>2. /\ UNCHANGED <<chan, proc, due>>
      /\ \A x \in Msg : x # h => hand'[x] = hand[x]
      /\ \A x \in Msg : x # s => send'[x] = send[x]
      /\ hand'[h].pc = "end" /\ send'[s].pc = "end" /\ send'[s].num = send[s].num
  BY <1>1 DEF Meet, Waiting
<1>3. ReplyPlace'
  BY <1>1, <1>2 DEF HandInv, ReplyPlace
<1>4. ASSUME NEW m \in Msg PROVE Paced(m)'
  <2>1. CASE m = h \/ m = s
    BY <1>2, <2>1, PacedIdle
  <2>2. CASE m # h /\ m # s
    <3>1. \A x \in Msg : x.type = "query" =>
               (hand[x].pc \in {"wait", "end"} <=> hand'[x].pc \in {"wait", "end"})
      BY <1>1, <1>2
    <3>2. Replaced(hand', m) = Replaced(hand, m)
      BY <3>1, ReplacedSame
    <3> QED
      BY <1>2, <2>2, <3>2, PacedSame DEF HandInv
  <2> QED
    BY <2>1, <2>2
<1> QED
  BY <1>3, <1>4

\* HandTick: the goroutine of the message takes the channel of the map, on
\* which the reply may be waiting already.
LEMMA HandTickPaces ==
    ASSUME HandInv, NEW y \in Msg, HandTick(y), ~Urgent
    PROVE  ReplyPlace' /\ \A m \in Msg : Paced(m)'
<1> USE KeyFacts
<1>1. /\ hand \in [Msg -> Waiting] /\ send \in [Msg -> Waiting] /\ hand[y] \in Waiting
      /\ send[y].num \in Nat
  BY DEF HandInv, RelayInv, RelayTypes, Waiting
<1>2. /\ UNCHANGED <<chan, proc, send>>
      /\ <<"hand", y>> \in due /\ due' = due \ {<<"hand", y>>}
      /\ \A x \in Msg : x # y => hand'[x] = hand[x]
      /\ hand[y].pc # "wait" => hand'[y] = hand[y]
      /\ hand[y].pc = "wait" =>
            \/ hand'[y].pc = "end"
            \/ hand'[y].pc = "wait" /\ hand'[y].ch = chan[KeyOf(y)]
  BY <1>1 DEF HandTick, LookUp, Wait
<1>3. /\ \A x \in Msg : <<"send", x>> \in due' <=> <<"send", x>> \in due
      /\ \A x \in Msg : x # y => (<<"hand", x>> \in due' <=> <<"hand", x>> \in due)
      /\ <<"hand", y>> \notin due'
  BY <1>2
<1>4. ReplyPlace'
  BY <1>1, <1>2, <1>3 DEF HandInv, ReplyPlace
<1>5. \A x \in Msg : hand[x].pc \in {"wait", "end"} <=> hand'[x].pc \in {"wait", "end"}
  BY <1>2
<1>6. ASSUME NEW m \in Msg, hand'[m].pc = "wait", send'[m].pc = "wait" PROVE Paced(m)'
  <2>1. Replaced(hand', m) = Replaced(hand, m)
    BY <1>5, ReplacedSame
  <2>2. CASE m = y
    <3>1. /\ m.type = "query" /\ KeyOf(m) = m.prim /\ hand[m].pc = "wait" /\ chan[m.prim] # 0
          /\ hand'[m].ch = chan[m.prim] /\ send'[m] = send[m] /\ chan' = chan
      BY <1>2, <1>6, <2>2 DEF HandInv, ReplyPlace, KeyOf
    <3>2. Paced(m) /\ ~Meets(m, m)
      BY DEF Urgent, HandInv
    <3>3. Cardinality(Replaced(hand, m)) \in Nat
      BY <3>1, ReplacedFew
    <3>4. CASE <<"send", m>> \in due
      BY <1>1, <1>2, <1>3, <1>6, <2>1, <2>2, <3>1, <3>2, <3>3, <3>4 DEF Paced
    <3>5. CASE <<"send", m>> \notin due
      BY <1>1, <1>2, <1>3, <1>6, <2>1, <2>2, <3>1, <3>2, <3>3, <3>5 DEF Paced, Meets
    <3> QED
      BY <3>4, <3>5
  <2>3. CASE m # y
    BY <1>2, <1>3, <2>1, <2>3, PacedSame DEF HandInv
  <2> QED
    BY <2>2, <2>3
<1> QED
  BY <1>4, <1>6, PacedIdle

\* SendTick: the reply takes the channel of the map; it is given up only by
\* a reply that has ticked more often than its channel can have been replaced,
\* so that nobody waits for it.
LEMMA SendTickPaces ==
    ASSUME HandInv, FewQueries, NEW y \in Msg, SendTick(y), ~Urgent
    PROVE  ReplyPlace' /\ \A m \in Msg : Paced(m)'
<1> USE KeyFacts
<1>1. /\ hand \in [Msg -> Waiting] /\ send \in [Msg -> Waiting] /\ send[y] \in Waiting
      /\ send[y].num \in Nat /\ SendTicks \in Nat
  BY RelayAssumption DEF HandInv, RelayInv, RelayTypes, Waiting
<1>2. /\ UNCHANGED <<chan, proc, hand>>
      /\ <<"send", y>> \in due /\ due' = due \ {<<"send", y>>}
      /\ \A x \in Msg : x # y => send'[x] = send[x]
      /\ send[y].pc # "wait" => send'[y] = send[y]
      /\ send[y].pc = "wait" =>
            \/ send'[y].pc = "lost" /\ send[y].num >= SendTicks
            \/ /\ send'[y].pc = "wait" /\ send'[y].ch = chan[y.prim]
               /\ send'[y].num = send[y].num + 1
  BY <1>1 DEF SendTick, LookUp, Wait
<1>3. /\ \A x \in Msg : <<"hand", x>> \in due' <=> <<"hand", x>> \in due
      /\ \A x \in Msg : x # y => (<<"send", x>> \in due' <=> <<"send", x>> \in due)
      /\ <<"send", y>> \notin due'
  BY <1>2
<1>4. y.type = "query" /\ hand[y].pc \in {"wait", "end"} /\ send[y].pc # "off"
  BY <1>2 DEF HandInv, ReplyPlace
<1>5. /\ Cardinality(Replaced(hand, y)) \in Nat
      /\ Cardinality(Replaced(hand, y)) + 1 <= SendTicks
  BY <1>1, <1>4, ReplacedFew DEF FewQueries
<1>6. ~Meets(y, y) /\ Paced(y)
  BY DEF Urgent, HandInv
<1>7. send[y].pc = "wait" /\ hand[y].pc = "wait" => send[y].num <= Cardinality(Replaced(hand, y))
  BY <1>2, <1>6 DEF Paced
<1>8. ReplyPlace'
  <2>1. send'[y].pc = "lost" => hand[y].pc = "end"
    BY <1>1, <1>2, <1>4, <1>5, <1>7 DEF HandInv, ReplyPlace
  <2> QED
    BY <1>1, <1>2, <1>3, <1>4, <2>1 DEF HandInv, ReplyPlace
<1>9. ASSUME NEW m \in Msg, hand'[m].pc = "wait", send'[m].pc = "wait" PROVE Paced(m)'
  <2>1. CASE m = y
    <3>1. chan[m.prim] # 0 /\ send[m].pc = "wait" /\ hand[m].pc = "wait" /\ hand' = hand /\ chan' = chan
      BY <1>2, <1>4, <1>9, <2>1 DEF HandInv, ReplyPlace
    <3>2. CASE <<"hand", m>> \in due
      BY <1>1, <1>2, <1>3, <1>5, <1>7, <1>9, <2>1, <3>1, <3>2 DEF Paced
    <3>3. CASE <<"hand", m>> \notin due
      BY <1>1, <1>2, <1>3, <1>5, <1>6, <1>9, <2>1, <3>1, <3>3 DEF Paced, Meets
    <3> QED
      BY <3>2, <3>3
  <2>2. CASE m # y
    BY <1>2, <1>3, <2>2, PacedSame DEF HandInv
  <2> QED
    BY <2>1, <2>2
<1> QED
  BY <1>8, <1>9, PacedIdle

\* Beat: nobody meets and nobody is about to make a channel, and all who wait
\* have to tick.
LEMMA BeatPaces ==
    ASSUME HandInv, Beat, ~Urgent
    PROVE  ReplyPlace' /\ \A m \in Msg : Paced(m)'
<1>1. /\ due = {} /\ UNCHANGED <<chan, hand, proc, send>>
      /\ \A m \in Msg : hand[m].pc # "create"
      /\ \A m \in Msg : <<"hand", m>> \in due' <=> hand[m].pc = "wait"
      /\ \A m \in Msg : <<"send", m>> \in due' <=> send[m].pc = "wait"
  BY DEF Beat, Running
<1>2. ReplyPlace'
  BY <1>1 DEF HandInv, ReplyPlace
<1>3. ASSUME NEW m \in Msg PROVE Paced(m)'
  <2>1. Paced(m) /\ ~Meets(m, m)
    BY DEF HandInv, Urgent
  <2> QED
    BY <1>1, <2>1 DEF Paced
<1> QED
  BY <1>2, <1>3

\* When no primary has more queries than a reply has ticks, a reply is not
\* given up while the goroutine of its message waits (ReplyHandedOver of
\* SendBFTMsg and waitForBFTHandleAndReply), although both look the channel up
\* at different times and CreateBftMsgChan replaces it between them.
THEOREM RelayHandsOver == ASSUME FewQueries PROVE Spec => []ReplyHandedOver
<1>1. HandInv /\ [Next]_vars => HandInv'
  <2> SUFFICES ASSUME HandInv, [Next]_vars PROVE HandInv'
    OBVIOUS
  <2>0. RelayInv'
    BY RelayStep DEF HandInv
  <2>1. ReplyPlace' /\ \A m \in Msg : Paced(m)'
    <3>1. ASSUME NEW h \in Msg, NEW s \in Msg, Meet(h, s)
          PROVE  ReplyPlace' /\ \A m \in Msg : Paced(m)'
      BY <3>1, MeetPaces
    <3>2. CASE SetBusy \/ UNCHANGED vars
      <4>1. UNCHANGED <<chan, hand, proc, send, due>>
        BY <3>2 DEF SetBusy, vars
      <4> QED
        BY <4>1 DEF HandInv, ReplyPlace, Paced, Meets
    <3>3. CASE Beat /\ ~Urgent
      BY <3>3, BeatPaces
    <3>4. ASSUME NEW y \in Msg, Arrive(y) \/ Gate(y)
          PROVE  ReplyPlace' /\ \A m \in Msg : Paced(m)'
      BY <3>4, ComesKeeps
    <3>5. ASSUME NEW y \in Msg, CreateBftMsgChan(y)
          PROVE  ReplyPlace' /\ \A m \in Msg : Paced(m)'
      BY <3>5, CreatePaces
    <3>6. ASSUME NEW y \in Msg, HbftProcess(y)
          PROVE  ReplyPlace' /\ \A m \in Msg : Paced(m)'
      BY <3>6, ProcessPaces
    <3>7. ASSUME NEW y \in Msg, HandTick(y), ~Urgent
          PROVE  ReplyPlace' /\ \A m \in Msg : Paced(m)'
      BY <3>7, HandTickPaces
    <3>8. ASSUME NEW y \in Msg, SendTick(y), ~Urgent
          PROVE  ReplyPlace' /\ \A m \in Msg : Paced(m)'
      BY <3>8, SendTickPaces
    <3> QED
      BY <3>1, <3>2, <3>3, <3>4, <3>5, <3>6, <3>7, <3>8 DEF Next
  <2> QED
    BY <2>0, <2>1 DEF HandInv
<1>2. HandInv => ReplyHandedOver
  BY DEF HandInv, ReplyPlace, ReplyHandedOver
<1> QED
  BY <1>1, <1>2, HandInit, PTL DEF Spec
=============================================================================
