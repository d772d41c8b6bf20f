--------------------------- MODULE PoliceHeaders ----------------------------
(***************************************************************************)
(* How the police officer verifies a batch (police/officer.go: verify,     *)
(* getHeaders) with headers it asks other shardings for                    *)
(* (elephant/handler.go: GetEleHeadersFromPeer).  Every job of the officer *)
(* takes its headers from one channel of the protocol manager, whoever     *)
(* asked for them.                                                         *)
(*                                                                         *)
(* A header is [num, fork]; fork "b" leaves the main chain "a" at height   *)
(* ForkAt.  A batch names a header, its height and the verified height     *)
(* its ancestors must reach back to; "good" says that roots, lamp base and *)
(* sharding match that header.                                             *)
(***************************************************************************)
EXTENDS Integers, Sequences, FiniteSets

CONSTANTS
    Job,        \* goroutines of the officer
    Batch,      \* Batch[j]: the batch of job j
    Peer,       \* peers of the sharding asked
    PeerFork,   \* PeerFork[p]: the fork p has connected at first
    PeerHead,   \* PeerHead[p]: the height of its chain
    OwnHead,    \* height of the officer's own chain
    ForkAt,     \* the first height of fork "b"
    MaxFetch,   \* downloader.MaxHeaderFetch
    Faulty      \* TRUE: answers may be lost or take longer than 15 seconds

VARIABLES
    branch,     \* branch[p]: the fork p has connected
    job,        \* job[j]: where it is, its peer and the headers it has got
    requests,   \* header requests on their way
    answers     \* goroutines that offer a peer's headers on the channel

vars == <<branch, job, requests, answers>>

-----------------------------------------------------------------------------
(* Headers.                                                                *)

Parent(h) ==
    [num |-> h.num - 1,
     fork |-> IF h.fork = "b" /\ h.num > ForkAt THEN "b" ELSE "a"]

\* The header of number n on the chain with the given fork.
HeaderOn(fork, n) == [num |-> n, fork |-> IF fork = "b" /\ n >= ForkAt THEN "b" ELSE "a"]

\* Headers from number n downwards, as many as asked for and as there are.
Downwards(fork, head, n, amount) ==
    LET have == IF n \in 0..head THEN n + 1 ELSE 0
        len  == IF amount < have THEN amount ELSE have
    IN  [k \in 1..(IF len < 0 THEN 0 ELSE len) |-> HeaderOn(fork, n - k + 1)]

\* The handler of GetBlockHeadersMsg, by number and in reverse.
Serve(p, n, amount) ==
    Downwards(branch[p], PeerHead[p], n, IF amount < MaxFetch THEN amount ELSE MaxFetch)

-----------------------------------------------------------------------------
(* Officer.verify on the headers it has got.                               *)

NoMatch == [ok |-> FALSE, previous |-> <<>>]

\* The last header of each number that is not the batch's own.
PreviousAt(b, headers, n) ==
    LET K == {k \in DOMAIN headers : headers[k].num = n /\ headers[k] # b.header}
    IN  headers[CHOOSE k \in K : \A m \in K : m <= k]

HasPrevious(b, headers, n) ==
    \E k \in DOMAIN headers : headers[k].num = n /\ headers[k] # b.header

\* Mutant of Linked: that the header is there is enough.
LinkedIfPresent(b, headers, h) == HasPrevious(b, headers, h)

\* The header found for height h is the parent of the one above it.
Linked(b, headers, h) ==
    /\ HasPrevious(b, headers, h)
    /\ h # b.height - 1 => HasPrevious(b, headers, h + 1)
    /\ PreviousAt(b, headers, h) =
         Parent(IF h = b.height - 1 THEN b.header ELSE PreviousAt(b, headers, h + 1))

Verify(b, headers) ==
    LET down == b.height - b.from
    IN  IF /\ b.good
           /\ \E k \in DOMAIN headers : headers[k] = b.header
           /\ b.height # 0      \* blockHeight - 1 wraps around
           /\ \A h \in b.from..(b.height - 1) : Linked(b, headers, h)
        THEN [ok |-> TRUE,
              previous |-> [k \in 1..(IF down > 0 THEN down ELSE 0) |->
                              PreviousAt(b, headers, b.height - k)]]
        ELSE NoMatch

-----------------------------------------------------------------------------
Amount(b) == b.height - b.from + 1

Init ==
    /\ branch = PeerFork
    /\ job = [j \in Job |-> [pc |-> "start", n |-> 0]]
    /\ requests = {}
    /\ answers = {}

Finish(j, result) == job' = [job EXCEPT ![j] = [pc |-> "end", n |-> job[j].n, result |-> result]]

\* The batch is of the officer's own sharding: getHeaders reads the chain.
VerifyOwn(j) ==
    LET b == Batch[j]
    IN  /\ job[j].pc = "start"
        /\ b.own
        /\ Finish(j, Verify(b, Downwards("a", OwnHead, b.height, Amount(b))))
        /\ UNCHANGED <<branch, requests, answers>>

\* Ask one peer of the other sharding.
Ask(j) ==
    LET b == Batch[j]
    IN  /\ job[j].pc = "start"
        /\ ~b.own
        /\ IF Peer = {} THEN Finish(j, NoMatch) /\ UNCHANGED requests
           ELSE \E p \in Peer :
             /\ job' = [job EXCEPT ![j] = [pc |-> "wait", n |-> 1, peer |-> p, got |-> <<>>]]
             /\ requests' = requests \cup
                  {[job |-> j, n |-> 1, peer |-> p, num |-> b.height, amount |-> Amount(b)]}
        /\ UNCHANGED <<branch, answers>>

PeerAnswers ==
    \E r \in requests :
        /\ requests' = requests \ {r}
        /\ answers' = answers \cup
             {[job |-> r.job, n |-> r.n, peer |-> r.peer,
               headers |-> Serve(r.peer, r.num, r.amount)]}
        /\ UNCHANGED <<branch, job>>

\* The peer goes away: the goroutine that sent the request ignores the error.
PeerGone ==
    /\ Faulty
    /\ \E r \in requests : requests' = requests \ {r}
    /\ UNCHANGED <<branch, job, answers>>

\* Without BFT a peer reorganises its chain, between two answers too.
PeerReorg(p) ==
    /\ Faulty
    /\ branch[p] = "a" /\ PeerFork[p] = "a"
    /\ branch' = [branch EXCEPT ![p] = "b"]
    /\ UNCHANGED <<job, requests, answers>>

Waiting == {j \in Job : job[j].pc = "wait"}

\* A job that waits on the channel gets whatever answer is offered.
Receive(j) ==
    LET b == Batch[j]
        J == job[j]
    IN  /\ J.pc = "wait"
        /\ \E a \in answers :
             LET got  == J.got \o a.headers
                 more == Len(got) < Amount(b) /\ Len(a.headers) < Amount(b)
             IN  /\ answers' = answers \ {a}
                 /\ IF a.peer # J.peer \/ a.headers = <<>>
                    THEN Finish(j, NoMatch) /\ UNCHANGED requests
                    ELSE IF more
                    THEN /\ job' = [job EXCEPT ![j].got = got, ![j].n = J.n + 1]
                         /\ requests' = requests \cup
                              {[job |-> j, n |-> J.n + 1, peer |-> J.peer,
                                num |-> b.height - Len(a.headers),
                                amount |-> Amount(b) - Len(a.headers)]}
                    ELSE Finish(j, Verify(b, got)) /\ UNCHANGED requests
        /\ UNCHANGED branch

\* The goroutine that offers an answer gives up after half a second in which
\* nobody waits.
Expire ==
    /\ Waiting = {}
    /\ \E a \in answers : answers' = answers \ {a}
    /\ UNCHANGED <<branch, job, requests>>

\* Fifteen seconds without the headers.
TimeOut(j) ==
    /\ job[j].pc = "wait"
    /\ Faulty \/ (requests = {} /\ answers = {})
    /\ Finish(j, NoMatch)
    /\ UNCHANGED <<branch, requests, answers>>

Next ==
    \/ \E j \in Job : VerifyOwn(j) \/ Ask(j) \/ Receive(j) \/ TimeOut(j)
    \/ PeerAnswers \/ PeerGone \/ \E p \in Peer : PeerReorg(p)
    \/ Expire

Spec == Init /\ [][Next]_vars

FairSpec == Spec /\ WF_vars(Next)

-----------------------------------------------------------------------------
\* The n headers below h on the chain that h is on, newest first.
AncestorsOf(h, n) == [k \in 1..n |-> HeaderOn(h.fork, h.num - k)]

\* A match reports exactly the ancestors of the verified block, newest first,
\* down to the verified height, whatever mixture of answers the job consumed:
\* those of other jobs, of short peers, of peers on another fork.
MatchSound ==
    \A j \in Job : job[j].pc = "end" /\ job[j].result.ok =>
        LET b == Batch[j]
        IN  /\ b.good
            /\ b.height > b.from =>
                 job[j].result.previous = AncestorsOf(b.header, b.height - b.from)

\* The peers of the sharding can serve batch b completely.
Servable(b) ==
    /\ b.good /\ b.height # 0 /\ b.height >= b.from
    /\ \A p \in Peer : PeerHead[p] >= b.height /\ HeaderOn(PeerFork[p], b.height) = b.header

\* "received no header from peer" is reported only when the peer has none: a
\* job whose peers all hold the headers it asks for, and answer in time, ends
\* with a match.
ServableMatched ==
    \A j \in Job : Peer # {} /\ ~Batch[j].own /\ Servable(Batch[j]) /\ job[j].pc = "end"
        => job[j].result.ok

=============================================================================
