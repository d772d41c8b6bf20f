----------------------------- MODULE ElectionPool -----------------------------
(***************************************************************************)
(* The election of sealers and police on the lamp chain: elections are     *)
(* transactions, which enter the election pool (core_eth/election_pool.go) *)
(* of a node whenever it executes them, for a block of its own or for one  *)
(* it imports (core_eth/state_processor.go, core_eth/blockchain.go); the   *)
(* miner of an election block takes the electors from its pool             *)
(* (miner/worker.go).                                                      *)
(*                                                                         *)
(* Block number n is chain[n].  An election is [addr, kind, num], num being*)
(* the election block it is for.                                           *)
(***************************************************************************)
EXTENDS Integers, FiniteSets, SequencesExt

CONSTANTS
    Node,
    Election,   \* election transactions there are
    Genesis,    \* Genesis[k]: the electors of kind k to begin with
    Period,     \* ElectionBlockCount
    Slots,      \* GlobalSlots
    MinLen,     \* MinElectionPoolLen
    MaxNum,     \* bound: blocks
    MaxRestart, \* bound: restarts
    MaxRefused  \* bound: election blocks that turn out to be invalid

Kind == {"sealers", "police"}

VARIABLES
    chain,      \* blocks: their elections in order and, if any, electors
    head,       \* head[n]: number of the head block of node n
    pending,    \* pending[n][k]: elections of kind k, at most one per address
    all,        \* all[n]: known elections
    journal,    \* journal[n][k]: what the journal on disk holds, in order
    work,       \* work[n]: elections executed for the block being mined
    import,     \* import[n]: where the import of an election block is
    event,      \* event[n]: a head event of an election block is on its way
    invalid,    \* nodes that refused a block of the chain
    restarts, refusals

pool == <<pending, all, journal>>
vars == <<chain, head, pool, work, import, event, invalid, restarts, refusals>>

IsElectionBlock(num) == num % Period = 0

NextElection(num) == num - (num % Period) + Period

Idle == [pc |-> "idle", ok |-> TRUE]

Init ==
    /\ chain = <<>>
    /\ head = [n \in Node |-> 0]
    /\ pending = [n \in Node |-> [k \in Kind |-> {}]]
    /\ all = [n \in Node |-> {}]
    /\ journal = [n \in Node |-> [k \in Kind |-> <<>>]]
    /\ work = [n \in Node |-> <<>>]
    /\ import = [n \in Node |-> Idle]
    /\ event = [n \in Node |-> FALSE]
    /\ invalid = {}
    /\ restarts = 0 /\ refusals = 0

-----------------------------------------------------------------------------
(* The pool of one node as a record, and what adding an election does.     *)

PoolOf(n) == [pending |-> pending[n], all |-> all[n], journal |-> journal[n], ok |-> TRUE]

SetPool(n, p) ==
    /\ pending' = [pending EXCEPT ![n] = p.pending]
    /\ all' = [all EXCEPT ![n] = p.all]
    /\ journal' = [journal EXCEPT ![n] = p.journal]

\* promoteElection: an address has one election of each kind.
Promote(p, e) ==
    IF \E f \in p.pending[e.kind] : f.addr = e.addr THEN p
    ELSE [p EXCEPT !.pending[e.kind] = p.pending[e.kind] \cup {e},
                   !.all = p.all \cup {e}]

\* Mutant of Add: the journal is written by those that are not promoted.
AddUnjournaled(p, e) ==
    IF e \in p.all THEN p
    ELSE IF Cardinality(p.all) >= Slots THEN [p EXCEPT !.ok = FALSE]
    ELSE Promote(p, e)

\* Known elections change nothing; a full pool is an error.
Add(p, e) ==
    IF e \in p.all THEN p
    ELSE IF Cardinality(p.all) >= Slots THEN [p EXCEPT !.ok = FALSE]
    ELSE Promote([p EXCEPT !.journal[e.kind] = Append(p.journal[e.kind], e)], e)

\* Rotating a journal leaves what is pending.
Rotate(p, k) == [p EXCEPT !.journal[k] = SetToSeq(p.pending[k])]

\* Loading: elections of the journal are added without journaling them, one
\* that does not fit is dropped.
LoadOne(p, e) == [Add(p, e) EXCEPT !.journal = p.journal, !.ok = TRUE]
Load(p, k) == Rotate(FoldLeft(LoadOne, p, p.journal[k]), k)

\* Executing a block adds its elections in order and stops at the first
\* error, which makes the block invalid.
ProcessOne(p, e) == IF p.ok THEN Add(p, e) ELSE p
Process(p, elections) == FoldLeft(ProcessOne, p, elections)

-----------------------------------------------------------------------------
(* Mining.                                                                 *)

Included(num) == {e \in Election : \E i \in 1..num : Contains(chain[i].elections, e)}

\* A transaction is executed for the block being mined; when the pool is full
\* it is left out.  The block may never be mined.
CommitTransaction(n, e) ==
    LET p == Add(PoolOf(n), e)
    IN  /\ n \notin invalid
        /\ head[n] < MaxNum
        /\ e \notin Included(head[n])
        /\ ~Contains(work[n], e)
        /\ p.ok
        /\ SetPool(n, p)
        /\ work' = [work EXCEPT ![n] = Append(work[n], e)]
        /\ UNCHANGED <<chain, head, import, event, invalid, restarts, refusals>>

Electors(num, k) ==
    LET last == num - Period
    IN  IF last <= 0 THEN Genesis[k] ELSE chain[last].electors[k]

\* The candidates in the pool, or the last electors when they are too few.
CommitElections(n, num, k) ==
    LET new == {e.addr : e \in {x \in pending[n][k] : x.num = NextElection(num - 1)}}
    IN  IF Cardinality(new) >= MinLen THEN new
        ELSE IF Cardinality(Electors(num, k)) >= MinLen THEN Electors(num, k)
        ELSE {}

\* A block is committed and mined on top of the chain, its electors being those
\* of the pool at that point; its head event will clear the pool.
Mine(n) ==
    LET num == head[n] + 1
    IN  /\ n \notin invalid /\ import[n].pc = "idle"
        /\ head[n] = Len(chain) /\ num <= MaxNum
        /\ chain' = Append(chain,
             [elections |-> work[n],
              electors |-> [k \in Kind |-> IF IsElectionBlock(num)
                                           THEN CommitElections(n, num, k) ELSE {}]])
        /\ head' = [head EXCEPT ![n] = num]
        /\ work' = [work EXCEPT ![n] = <<>>]
        /\ event' = [event EXCEPT ![n] = event[n] \/ IsElectionBlock(num)]
        /\ UNCHANGED <<pool, import, invalid, restarts, refusals>>

-----------------------------------------------------------------------------
(* Importing the next block of the chain.                                  *)

\* insertChain up to validateElections.
ImportProcess(n) ==
    LET num == head[n] + 1
        p   == Process(PoolOf(n), chain[num].elections)
    IN  /\ n \notin invalid /\ import[n].pc = "idle"
        /\ head[n] < Len(chain)
        /\ SetPool(n, p)
        /\ IF ~p.ok
           THEN invalid' = invalid \cup {n} /\ UNCHANGED <<head, work, import>>
           ELSE IF IsElectionBlock(num)
           THEN import' = [import EXCEPT ![n] = [pc |-> "clear", ok |-> TRUE]]
                /\ UNCHANGED <<head, work, invalid>>
           ELSE /\ head' = [head EXCEPT ![n] = num]
                /\ work' = [work EXCEPT ![n] = <<>>]
                /\ UNCHANGED <<import, invalid>>
        /\ UNCHANGED <<chain, event, restarts, refusals>>

\* An election block arrives whose verified headers will be found invalid
\* after its elections.
ImportRefusable(n) ==
    /\ n \notin invalid /\ import[n].pc = "idle"
    /\ refusals < MaxRefused
    /\ refusals' = refusals + 1
    /\ IsElectionBlock(head[n] + 1)
    /\ import' = [import EXCEPT ![n] = [pc |-> "clear", ok |-> FALSE]]
    /\ UNCHANGED <<chain, head, pool, work, event, invalid, restarts>>

\* Clear, called by validateElections without the lock of the pool.
ImportClear(n) ==
    /\ import[n].pc = "clear"
    /\ pending' = [pending EXCEPT ![n] = [k \in Kind |-> {}]]
    /\ import' = [import EXCEPT ![n].pc = "all"]
    /\ UNCHANGED <<chain, head, all, journal, work, event, invalid, restarts, refusals>>

ImportClearAll(n) ==
    /\ import[n].pc = "all"
    /\ all' = [all EXCEPT ![n] = {}]
    /\ import' = [import EXCEPT ![n].pc = "write"]
    /\ UNCHANGED <<chain, head, pending, journal, work, event, invalid, restarts, refusals>>

\* The rest of insertChain: the block is connected or refused.
ImportWrite(n) ==
    /\ import[n].pc = "write"
    /\ import' = [import EXCEPT ![n] = Idle]
    /\ IF import[n].ok
       THEN /\ head' = [head EXCEPT ![n] = head[n] + 1]
            /\ work' = [work EXCEPT ![n] = <<>>]
            /\ event' = [event EXCEPT ![n] = TRUE]
       ELSE UNCHANGED <<head, work, event>>
    /\ UNCHANGED <<chain, pool, invalid, restarts, refusals>>

\* loop: the head event of an election block, under the lock.
Reset(n) ==
    /\ event[n]
    /\ event' = [event EXCEPT ![n] = FALSE]
    /\ pending' = [pending EXCEPT ![n] = [k \in Kind |-> {}]]
    /\ all' = [all EXCEPT ![n] = {}]
    /\ UNCHANGED <<chain, head, journal, work, import, invalid, restarts, refusals>>

-----------------------------------------------------------------------------
\* The hourly regeneration of the journals.
Rejournal(n) ==
    LET p == Rotate(Rotate(PoolOf(n), "sealers"), "police")
    IN  /\ p # PoolOf(n)
        /\ SetPool(n, p)
        /\ UNCHANGED <<chain, head, work, import, event, invalid, restarts, refusals>>

\* The node goes down and comes back with what its journals hold.
Restart(n) ==
    LET empty == [PoolOf(n) EXCEPT !.pending = [k \in Kind |-> {}], !.all = {}]
    IN  /\ restarts < MaxRestart
        /\ restarts' = restarts + 1
        /\ SetPool(n, Load(Load(empty, "sealers"), "police"))
        /\ work' = [work EXCEPT ![n] = <<>>]
        /\ import' = [import EXCEPT ![n] = Idle]
        /\ event' = [event EXCEPT ![n] = FALSE]
        /\ UNCHANGED <<chain, head, invalid, refusals>>

Next ==
    \E n \in Node :
        \/ \E e \in Election : CommitTransaction(n, e)
        \/ Mine(n)
        \/ ImportProcess(n) \/ ImportRefusable(n)
        \/ ImportClear(n) \/ ImportClearAll(n) \/ ImportWrite(n)
        \/ Reset(n) \/ Rejournal(n) \/ Restart(n)

Spec == Init /\ [][Next]_vars

-----------------------------------------------------------------------------
\* Every variable has its type; an address has one pending election of a kind.
ElectionTypeOK ==
    /\ \A i \in DOMAIN chain : chain[i].elections \in Seq(Election)
    /\ head \in [Node -> 0..MaxNum]
    /\ \A n \in Node : \A k \in Kind :
         /\ pending[n][k] \subseteq {e \in Election : e.kind = k}
         /\ \A e, f \in pending[n][k] : e.addr = f.addr => e = f
    /\ all \in [Node -> SUBSET Election]
    /\ \A n \in Node : \A k \in Kind : journal[n][k] \in Seq(Election)
    /\ work \in [Node -> Seq(Election)]
    /\ invalid \subseteq Node

\* What is pending is in the journal of its kind, so that a restart can find
\* it, through loading, rotation and the clearing of the pool.
JournalKeeps ==
    \A n \in Node : \A k \in Kind : \A e \in pending[n][k] : Contains(journal[n][k], e)

\* pendingSealers and pendingPolice hold all currently valid elections: every
\* address whose election for the next election block is in the chain is
\* pending with that election, unless the pool is being cleared.
AllValidPending ==
    \A n \in Node : import[n].pc = "idle" /\ ~event[n] =>
        \A e \in Included(head[n]) : e.num = NextElection(head[n]) => e \in pending[n][e.kind]

\* all allows to look up every pending election.
PendingKnown ==
    \A n \in Node : \A k \in Kind : import[n].pc = "idle" => pending[n][k] \subseteq all[n]

\* The journal lets elections that are not executed yet survive a restart.
SurvivesRestart ==
    [][\A n \in Node : \A k \in Kind : \A e \in pending[n][k] :
         /\ restarts' > restarts /\ import[n].pc = "idle" /\ ~event[n]
         /\ e.num = NextElection(head[n])
         => e \in pending'[n][k]]_vars

\* Elections for the next election block leave the pool when that block is
\* connected.
ExitIncluded ==
    [][\A n \in Node : \A k \in Kind : \A e \in pending[n][k] \ pending'[n][k] :
         e.num = NextElection(head[n]) =>
             import[n].ok /\ head[n] + 1 = e.num /\ import[n].pc # "idle"]_vars

\* A block that one node has built on the common chain is valid for every
\* other node.
BlockValidEverywhere == invalid = {}
=============================================================================
