----------------------------- MODULE ChainSync ------------------------------
(***************************************************************************)
(* How two nodes keep their chains in step over one connection             *)
(* (session_loop of net.cpp).  Both run the same handlers.  Messages       *)
(* arrive in order; each is handled completely before the next one.        *)
(*                                                                         *)
(* The chain and the side store of a node also change behind the back of   *)
(* the session, when another session or generate advances the chain.       *)
(*                                                                         *)
(* Both nodes are honest and their disks work.  Of the transactions that   *)
(* they exchange only the refusals are here, for their scores: mempools    *)
(* differ where chains do, so an honest peer sends some that are refused.  *)
(* notfound is left out: its receiver ignores it.                          *)
(***************************************************************************)
EXTENDS Headers, Sequences, SequencesExt

CONSTANTS
    Node,       \* the two nodes
    Dialer,     \* the node for which the connection is outbound
    MaxMoves,   \* bound on changes of a chain from outside
    MaxDrops,   \* bound on lost connections
    MaxRefusals, \* bound on refused transactions
    MaxEvents,  \* bound on all three together
    BanThreshold \* policy_.ban_threshold (100)

VARIABLES
    chain,      \* chain[n]: the tip of the active chain of n
    side,       \* side[n]: the side store of n
    inbox,      \* inbox[n]: the messages on their way to n
    announced,  \* announced[n]: the tip whose download n is about to start
    candidate,  \* candidate[n]: the CandidateSync of n, None if inactive
    knows,      \* knows[n]: remote_knows_blocks of n
    score,      \* score[n]: misbehavior_score that n has given its peer, without
                \* what refused transactions have added to it
    up,         \* the connection exists
    stale,      \* another session has replaced the chain below a candidate by one
                \* on another branch: the fork height of the candidate may be wrong
    refused,    \* refused[n]: the transactions of its peer that n has refused
    banned,     \* the nodes that have banned their peer
    moves, refusals, drops

data == <<chain, side>>
session == <<inbox, announced, candidate, knows, score, up>>
blame == <<refused, banned, refusals>>
outside == <<stale, moves, blame>>
vars == <<data, session, outside, drops>>

ASSUME SyncAssumption ==
    /\ IsFiniteSet(Node) /\ Cardinality(Node) = 2 /\ Dialer \in Node
    /\ MaxMoves \in Nat /\ MaxDrops \in Nat /\ MaxRefusals \in Nat /\ MaxEvents \in Nat
    /\ BanThreshold \in Nat /\ BanThreshold > 25

Other(n) == CHOOSE m \in Node : m # n

\* base: the tip of the prefix; fork: the block at fork_height; tip: the announced
\* tip; last: the last header; pending: the blocks that have been requested.
Candidate == [base : Block, fork : Block, tip : Block, last : Block \cup {None},
              pending : SUBSET Block]

ASSUME NoneAssumption == None \notin Candidate

\* A headers message holds the blocks after from, up to and including to.
Message ==
    [type : {"version", "status", "inv", "block"}, block : Block]
    \cup [type : {"getstatus"}]
    \cup [type : {"getheaders"}, locator : SUBSET Block]
    \cup [type : {"headers"}, from : Block, to : Block]
    \cup [type : {"getdata"}, blocks : SUBSET Block]

Has(n) == Chain[chain[n]] \cup side[n]

\* misbehavior_score
Misbehavior(n) == score[n] + 25 * refused[n]

\* One more event is within the bound.
Room == moves + drops + refusals < MaxEvents

-----------------------------------------------------------------------------
Init ==
    /\ chain \in [Node -> Block]
    /\ side = [n \in Node |-> {}]
    /\ inbox = [n \in Node |-> <<>>]
    /\ announced = [n \in Node |-> None]
    /\ candidate = [n \in Node |-> None]
    /\ knows = [n \in Node |-> {}]
    /\ score = [n \in Node |-> 0]
    /\ up = FALSE
    /\ refused = [n \in Node |-> 0] /\ banned = {}
    /\ stale = FALSE /\ moves = 0 /\ refusals = 0 /\ drops = 0

\* The dialer connects; both send the tip of the chain they have loaded.  A ban on
\* either side is in the way.
Connect ==
    /\ ~up /\ banned = {}
    /\ up' = TRUE
    /\ inbox' = [n \in Node |-> << [type |-> "version", block |-> chain[Other(n)]] >>]
    /\ UNCHANGED <<data, announced, candidate, knows, score, outside, drops>>

\* The connection is gone; both sessions end, and with them what they know.
End ==
    /\ up
    /\ up' = FALSE
    /\ inbox' = [n \in Node |-> <<>>]
    /\ announced' = [n \in Node |-> None]
    /\ candidate' = [n \in Node |-> None]
    /\ knows' = [n \in Node |-> {}]
    /\ score' = [n \in Node |-> 0]
    /\ refused' = [n \in Node |-> 0]
    /\ UNCHANGED <<data, stale, moves, refusals>>

\* The connection is lost.
Drop ==
    /\ End
    /\ drops < MaxDrops /\ Room
    /\ drops' = drops + 1
    /\ UNCHANGED banned

\* The session of n finds the score of its peer too high, bans the peer and ends.
Ban(n) ==
    /\ End
    /\ announced[n] = None
    /\ Misbehavior(n) >= BanThreshold
    /\ banned' = banned \cup {n}
    /\ UNCHANGED drops

\* The time of the ban is over.
BanEnds(n) ==
    /\ n \in banned
    /\ banned' = banned \ {n}
    /\ UNCHANGED <<data, session, stale, moves, refused, refusals, drops>>

\* Another session or generate gives n a chain with more work, on the same branch
\* or on another one.
Advance(n, b) ==
    /\ moves < MaxMoves /\ Room
    /\ Work(b) > Work(chain[n])
    /\ chain' = [chain EXCEPT ![n] = b]
    /\ side' = [side EXCEPT ![n] = (@ \cup Chain[chain[n]]) \ Chain[b]]
    /\ stale' = (stale \/ (candidate[n] # None /\ chain[n] \notin Chain[b]))
    /\ moves' = moves + 1
    /\ UNCHANGED <<session, blame, drops>>

-----------------------------------------------------------------------------
(* Handlers.                                                               *)

\* The session of n handles a message of this type.  It looks at the score first.
Handles(n, type) ==
    /\ announced[n] = None /\ Misbehavior(n) < BanThreshold
    /\ inbox[n] # <<>>
    /\ Head(inbox[n]).type = type

\* The message has been handled, and these are sent.
Reply(n, messages) ==
    inbox' = [inbox EXCEPT ![n] = Tail(@), ![Other(n)] = @ \o messages]

\* An exception ends the handler: the message is gone, everything else stays.
Throw(n) ==
    /\ score' = [score EXCEPT ![n] = @ + 25]
    /\ Reply(n, <<>>)

Requested(b) == << [type |-> "getheaders", locator |-> Locator[b]] >>

\* Whether n, without a candidate, should download the chain that ends in b.
ShouldSync(n, b) == b # chain[n] /\ Work(b) > Work(chain[n])

\* After the handshake; only the dialer compares the chains.
HandleVersion(n) ==
    /\ Handles(n, "version")
    /\ LET tip == Head(inbox[n]).block
       IN /\ knows' = [knows EXCEPT ![n] = {tip}]
          /\ announced' = [announced EXCEPT ![n] =
               IF n = Dialer /\ ShouldSync(n, tip) THEN tip ELSE None]
    /\ Reply(n, <<>>)
    /\ UNCHANGED <<data, candidate, score, up, outside, drops>>

HandleGetStatus(n) ==
    /\ Handles(n, "getstatus")
    /\ Reply(n, << [type |-> "status", block |-> chain[n]] >>)
    /\ UNCHANGED <<data, announced, candidate, knows, score, up, outside, drops>>

\* Mutant: a status starts a candidate although one is under way.
HandleStatusAgain(n) ==
    /\ Handles(n, "status")
    /\ LET tip == Head(inbox[n]).block
       IN announced' = [announced EXCEPT ![n] = IF ShouldSync(n, tip) THEN tip ELSE None]
    /\ Reply(n, <<>>)
    /\ UNCHANGED <<data, candidate, knows, score, up, outside, drops>>

HandleStatus(n) ==
    /\ Handles(n, "status")
    /\ LET tip == Head(inbox[n]).block
       IN announced' = [announced EXCEPT ![n] =
            IF candidate[n] = None /\ ShouldSync(n, tip) THEN tip ELSE None]
    /\ Reply(n, <<>>)
    /\ UNCHANGED <<data, candidate, knows, score, up, outside, drops>>

\* Mutant: the fork is not set before the headers arrive.
StartCandidateNoFork(n) ==
    /\ announced[n] # None
    /\ candidate' = [candidate EXCEPT ![n] =
         [base |-> chain[n], fork |-> None, tip |-> announced[n], last |-> None, pending |-> {}]]
    /\ announced' = [announced EXCEPT ![n] = None]
    /\ inbox' = [inbox EXCEPT ![Other(n)] = @ \o Requested(chain[n])]
    /\ UNCHANGED <<data, knows, score, up, outside, drops>>

\* start_candidate_sync, after data_mutex has been given back and taken again.
StartCandidate(n) ==
    /\ announced[n] # None
    /\ candidate' = [candidate EXCEPT ![n] =
         [base |-> chain[n], fork |-> chain[n], tip |-> announced[n], last |-> None, pending |-> {}]]
    /\ announced' = [announced EXCEPT ![n] = None]
    /\ inbox' = [inbox EXCEPT ![Other(n)] = @ \o Requested(chain[n])]
    /\ UNCHANGED <<data, knows, score, up, outside, drops>>

\* Mutant: an empty list of headers is not sent.
HandleGetHeadersIfAny(n) ==
    /\ Handles(n, "getheaders")
    /\ LET from == ForkOf(Head(inbox[n]).locator, chain[n])
       IN Reply(n, IF from = chain[n] THEN <<>>
                   ELSE << [type |-> "headers", from |-> from, to |-> LastHeader(from, chain[n])] >>)
    /\ UNCHANGED <<data, announced, candidate, knows, score, up, outside, drops>>

HandleGetHeaders(n) ==
    /\ Handles(n, "getheaders")
    /\ LET from == ForkOf(Head(inbox[n]).locator, chain[n])
       IN Reply(n, << [type |-> "headers", from |-> from, to |-> LastHeader(from, chain[n])] >>)
    /\ UNCHANGED <<data, announced, candidate, knows, score, up, outside, drops>>

\* Mutant: the disconnected blocks are not put into the side store.
ActivateUnstored(n, c, stored) ==
    IF Work(c.tip) > Work(chain[n])
    THEN /\ chain' = [chain EXCEPT ![n] = c.tip]
         /\ side' = [side EXCEPT ![n] = stored \ Chain[c.tip]]
    ELSE /\ side' = [side EXCEPT ![n] = stored]
         /\ UNCHANGED chain

\* What activate_candidate does to the data of n (NodeData has its steps), with
\* the side store as it is after the last block of candidate c has been put.
Activate(n, c, stored) ==
    LET all == stored \cup {b \in Chain[chain[n]] : Work(b) > Work(c.fork)}
    IN IF Work(c.tip) > Work(chain[n])
       THEN /\ chain' = [chain EXCEPT ![n] = c.tip]
            /\ side' = [side EXCEPT ![n] = all \ Chain[c.tip]]
       ELSE /\ side' = [side EXCEPT ![n] = all]
            /\ UNCHANGED chain

\* The candidate once the headers of message m have been appended to it.
WithHeaders(c, m) ==
    IF c.last = None THEN [c EXCEPT !.base = m.from, !.fork = m.from, !.last = m.to]
                     ELSE [c EXCEPT !.last = m.to]

\* The headers do not begin where they should, or there are none.
Unconnected(c, m) ==
    \/ m.from = m.to
    \/ c.last = None /\ m.from \notin Chain[c.base]
    \/ c.last # None /\ m.from # c.last

\* Nobody asked for headers, or they are refused as they are.
RefuseHeaders(n) ==
    /\ Handles(n, "headers")
    /\ LET c == candidate[n]
       IN IF c = None THEN score' = [score EXCEPT ![n] = @ + 10] /\ Reply(n, <<>>)
                      ELSE Unconnected(c, Head(inbox[n])) /\ Throw(n)
    /\ UNCHANGED <<data, announced, candidate, knows, up, outside, drops>>

\* Headers beyond the advertised height: they are appended, then the handler
\* throws.
OverrunHeaders(n) ==
    /\ Handles(n, "headers")
    /\ candidate[n] # None
    /\ LET c == candidate[n]
           m == Head(inbox[n])
       IN /\ ~Unconnected(c, m)
          /\ Work(m.to) > Work(c.tip)
          /\ candidate' = [candidate EXCEPT ![n] = WithHeaders(c, m)]
          /\ Throw(n)
    /\ UNCHANGED <<data, announced, knows, up, outside, drops>>

\* There are more headers to come.
ContinueHeaders(n) ==
    /\ Handles(n, "headers")
    /\ candidate[n] # None
    /\ LET c == candidate[n]
           m == Head(inbox[n])
       IN /\ ~Unconnected(c, m)
          /\ Work(m.to) <= Work(c.tip) /\ m.to # c.tip
          /\ candidate' = [candidate EXCEPT ![n] = WithHeaders(c, m)]
          /\ Reply(n, << [type |-> "getheaders", locator |-> {m.to, Genesis}] >>)
    /\ UNCHANGED <<data, announced, knows, score, up, outside, drops>>

\* The announced tip is reached: request_candidate_blocks.
FinishHeaders(n) ==
    /\ Handles(n, "headers")
    /\ candidate[n] # None
    /\ LET m == Head(inbox[n])
           c == WithHeaders(candidate[n], m)
           missing == Chain[c.tip] \ (Chain[c.base] \cup Has(n))
       IN /\ ~Unconnected(candidate[n], m)
          /\ m.to = c.tip
          /\ IF missing = {}
             THEN /\ Activate(n, c, side[n])
                  /\ candidate' = [candidate EXCEPT ![n] = None]
                  /\ Reply(n, <<>>)
             ELSE /\ candidate' = [candidate EXCEPT ![n] = [c EXCEPT !.pending = missing]]
                  /\ Reply(n, << [type |-> "getdata", blocks |-> missing] >>)
                  /\ UNCHANGED data
    /\ UNCHANGED <<announced, knows, score, up, outside, drops>>

HandleInv(n) ==
    /\ Handles(n, "inv")
    /\ LET b == Head(inbox[n]).block
       IN /\ knows' = [knows EXCEPT ![n] = @ \cup {b}]
          /\ Reply(n, IF b \in Has(n) THEN <<>> ELSE << [type |-> "getdata", blocks |-> {b}] >>)
    /\ UNCHANGED <<data, announced, candidate, score, up, outside, drops>>

\* The blocks are sent in the order of their hashes.
HandleGetData(n) ==
    /\ Handles(n, "getdata")
    /\ LET asked == Head(inbox[n]).blocks
       IN \E order \in SetToSeqs(asked \cap Has(n)) :
            Reply(n, [i \in DOMAIN order |-> [type |-> "block", block |-> order[i]]])
    /\ UNCHANGED <<data, announced, candidate, knows, score, up, outside, drops>>

\* The session of n handles block b, as part of its candidate or not.
Arrives(n, b, wanted) ==
    /\ Handles(n, "block")
    /\ Head(inbox[n]).block = b
    /\ wanted <=> candidate[n] # None /\ b \in candidate[n].pending
    /\ knows' = [knows EXCEPT ![n] = @ \cup {b}]

\* A block of the candidate; the last one activates it.
HandleCandidateBlock(n, b) ==
    /\ Arrives(n, b, TRUE)
    /\ LET c == [candidate[n] EXCEPT !.pending = @ \ {b}]
       IN IF c.pending = {}
          THEN /\ Activate(n, c, side[n] \cup {b})
               /\ candidate' = [candidate EXCEPT ![n] = None]
          ELSE /\ side' = [side EXCEPT ![n] = @ \cup {b}]
               /\ candidate' = [candidate EXCEPT ![n] = c]
               /\ UNCHANGED chain
    /\ Reply(n, <<>>)
    /\ UNCHANGED <<announced, score, up, outside, drops>>

\* Mutant: the peer is not asked for its status.
HandleOtherBlockSilently(n, b) ==
    /\ Arrives(n, b, FALSE)
    /\ Reply(n, <<>>)
    /\ IF Chain[b] = Chain[chain[n]] \cup {b}
       THEN /\ chain' = [chain EXCEPT ![n] = b]
            /\ side' = [side EXCEPT ![n] = @ \ Chain[b]]
       ELSE /\ side' = [side EXCEPT ![n] = @ \cup ({b} \ Chain[chain[n]])]
            /\ UNCHANGED chain
    /\ UNCHANGED <<announced, candidate, score, up, outside, drops>>

\* Another block: it is on the active chain, extends it, or goes to the side store;
\* then the peer is asked for its status, unless a candidate is under way.
HandleOtherBlock(n, b) ==
    /\ Arrives(n, b, FALSE)
    /\ \/ /\ b \in Chain[chain[n]]
          /\ UNCHANGED data
          /\ Reply(n, <<>>)
       \/ /\ b \notin Chain[chain[n]] /\ Chain[b] = Chain[chain[n]] \cup {b}
          /\ chain' = [chain EXCEPT ![n] = b]
          /\ side' = [side EXCEPT ![n] = @ \ Chain[b]]
          /\ Reply(n, <<>>)
       \/ /\ b \notin Chain[chain[n]] /\ Chain[b] # Chain[chain[n]] \cup {b}
          /\ side' = [side EXCEPT ![n] = @ \cup {b}]
          /\ Reply(n, IF candidate[n] = None THEN << [type |-> "getstatus"] >> ELSE <<>>)
          /\ UNCHANGED chain
    /\ UNCHANGED <<announced, candidate, score, up, outside, drops>>

\* Mutant: whoever knows the tip is taken to know the chain below it.
ScanChain(n) ==
    /\ up
    /\ announced[n] = None
    /\ knows[n] # {}
    /\ chain[n] \notin knows[n]
    /\ knows' = [knows EXCEPT ![n] = @ \cup Chain[chain[n]]]
    /\ inbox' = [inbox EXCEPT ![Other(n)] = Append(@, [type |-> "inv", block |-> chain[n]])]
    /\ UNCHANGED <<data, announced, candidate, score, up, outside, drops>>

\* The inventory scan: the tip is announced if the peer is not known to have it.
\* The session is past the handshake.
Scan(n) ==
    /\ up
    /\ announced[n] = None /\ Misbehavior(n) < BanThreshold
    /\ knows[n] # {}
    /\ chain[n] \notin knows[n]
    /\ knows' = [knows EXCEPT ![n] = @ \cup {chain[n]}]
    /\ inbox' = [inbox EXCEPT ![Other(n)] = Append(@, [type |-> "inv", block |-> chain[n]])]
    /\ UNCHANGED <<data, announced, candidate, score, up, outside, drops>>

\* A tx message: the mempool does not accept the transaction.  (The messages with
\* transactions are not in the inbox; one may come between any two others.)
RefuseTransaction(n) ==
    /\ up /\ knows[n] # {}
    /\ announced[n] = None /\ Misbehavior(n) < BanThreshold
    /\ refusals < MaxRefusals /\ Room
    /\ refused' = [refused EXCEPT ![n] = @ + 1]
    /\ refusals' = refusals + 1
    /\ UNCHANGED <<data, session, stale, moves, banned, drops>>

Receive(n) ==
    \/ HandleVersion(n)
    \/ HandleGetStatus(n)
    \/ HandleStatus(n)
    \/ HandleGetHeaders(n)
    \/ RefuseHeaders(n)
    \/ OverrunHeaders(n)
    \/ ContinueHeaders(n)
    \/ FinishHeaders(n)
    \/ HandleInv(n)
    \/ HandleGetData(n)
    \/ \E b \in Block : HandleCandidateBlock(n, b) \/ HandleOtherBlock(n, b)

Next ==
    \/ Connect
    \/ Drop
    \/ \E n \in Node : Receive(n) \/ StartCandidate(n) \/ Scan(n)
    \/ \E n \in Node : RefuseTransaction(n) \/ Ban(n) \/ BanEnds(n)
    \/ \E n \in Node, b \in Block : Advance(n, b)

\* The dialer keeps dialling, the threads of the sessions keep running (a round of
\* the loop handles a message or ends with a ban), and the time of a ban passes.
Fairness ==
    /\ WF_vars(Connect)
    /\ WF_vars(\E n \in Node : BanEnds(n))
    /\ \A n \in Node : WF_vars(Receive(n) \/ Ban(n)) /\ WF_vars(StartCandidate(n)) /\ WF_vars(Scan(n))

Spec == Init /\ [][Next]_vars /\ Fairness

-----------------------------------------------------------------------------
SessionsTyped ==
    /\ chain \in [Node -> Block]
    /\ side \in [Node -> SUBSET Block]
    /\ inbox \in [Node -> Seq(Message)]
    /\ announced \in [Node -> Block \cup {None}]
    /\ candidate \in [Node -> Candidate \cup {None}]
    /\ knows \in [Node -> SUBSET Block]
    /\ score \in [Node -> Nat]
    /\ up \in BOOLEAN /\ stale \in BOOLEAN
    /\ moves \in 0..MaxMoves /\ drops \in 0..MaxDrops

BlameTyped ==
    /\ refused \in [Node -> Nat] /\ banned \subseteq Node
    /\ refusals \in 0..MaxRefusals

TypeOK == SessionsTyped /\ BlameTyped

\* The messages of a type on their way to n.
Coming(n, type) == {i \in DOMAIN inbox[n] : inbox[n][i].type = type}

BlockComing(n, type, b) == \E i \in Coming(n, type) : inbox[n][i].block = b
AskedFor(n, b) == \E i \in Coming(n, "getdata") : b \in inbox[n][i].blocks

\* Unless an exception has ended a handler, a candidate waits for exactly one
\* headers message, or for blocks that are all on their way: no request and no
\* answer is lost between two messages, however the chains change meanwhile.
\*
\* This and the next two say nothing about blocks once a fork height is stale: the
\* candidate then loses blocks its node had (DisconnectedRetained in NodeData), and
\* the peer may have been told of them.
AnswerOnItsWay ==
    \A n \in Node : candidate[n] # None /\ score[n] = 0 =>
        IF candidate[n].pending = {}
        THEN Cardinality(Coming(Other(n), "getheaders")) + Cardinality(Coming(n, "headers")) = 1
        ELSE stale \/ \A b \in candidate[n].pending :
                AskedFor(Other(n), b) \/ BlockComing(n, "block", b)

\* A block is only taken to be known to the peer if the peer has it or gets it:
\* otherwise it is never announced to the peer again.
KnowsWhatPeerHas ==
    stale \/ \A n \in Node : \A b \in knows[n] :
        \/ b \in Has(Other(n))
        \/ BlockComing(Other(n), "inv", b) \/ BlockComing(Other(n), "block", b)
        \/ AskedFor(n, b)

\* A node never asks its peer for a block that the peer does not have, although the
\* chains may be replaced between the announcement of a block and the request.
NothingMissing ==
    stale \/ \A n \in Node : \A i \in Coming(n, "getdata") : inbox[n][i].blocks \subseteq Has(n)

\* Besides the transactions that it refuses, an honest node blames an honest peer at
\* most once in a session, however their chains change.  A ban takes refused
\* transactions: three of them and that one exception, or four (the threshold is 100).
BlamedOnce == \A n \in Node : Misbehavior(n) <= 25 * (refused[n] + 1)

\* The tip of the peer is in the side store of n, so that n ignores its announcement:
\* it got there before a reconnection, after a loss or a ban, and n took the call, or
\* it arrived while the headers of a shorter chain were being downloaded.
Overlooked(n) ==
    chain[Other(n)] \in side[n] /\ (moves > 0 \/ (drops + refusals > 0 /\ n # Dialer))

SameWork == \A n \in Node : Work(chain[n]) = Work(chain[Other(n)])

\* When the chains stop changing, both nodes end up with the same work, unless a
\* node has blamed its peer or overlooked its tip.
InStepOrStuck ==
    <>[](up /\ (SameWork \/ \E n \in Node : score[n] > 0 \/ Overlooked(n)))

\* "live reorganizations when a competing branch has strictly greater work"
\* (README.md): when the chains stop changing, both nodes have the same work.
InStep == <>[](up /\ SameWork)
=============================================================================
