------------------------------- MODULE OneShot -------------------------------
(***************************************************************************)
(* syncfrom: one process fetches a chain from a peer (sync_from_peer of    *)
(* net.cpp) and exits; the peer answers request by request, as the serve   *)
(* command does (TestnetP2pServer::handle_client).  The peer's own node    *)
(* may give it another chain at any time, and the client may be killed or  *)
(* lose the connection at any time and be started again.                   *)
(*                                                                         *)
(* Both sides are honest and their disks work; nothing else changes the    *)
(* client's data directory.  Transactions are NodeData's business: what    *)
(* is left of them here is the order of the messages.                      *)
(***************************************************************************)
EXTENDS Headers, Sequences, SequencesExt

CONSTANTS
    MaxItems,   \* MAX_INVENTORY_ITEMS: blocks in one getdata
    MaxMoves,   \* bound on changes of the peer's chain
    MaxDrops,   \* bound on lost connections and kills
    MaxChat     \* bound on messages nobody asked for

VARIABLES
    server,     \* the tip of the peer's chain
    kept,       \* the side store of the peer
    chain,      \* the tip of the chain in the client's data directory
    side,       \* the side store in the client's data directory
    pc,         \* what the client waits for or does next
    sync,       \* the locals of sync_from_peer, None outside of it
    toServer, toClient,     \* the messages on their way
    moves, drops, chat

peer == <<server, kept>>
disk == <<chain, side>>
wire == <<toServer, toClient>>
bounds == <<moves, drops, chat>>
vars == <<peer, disk, pc, sync, wire, bounds>>

ASSUME BoundAssumption ==
    /\ MaxItems \in Nat \ {0} /\ MaxMoves \in Nat
    /\ MaxDrops \in Nat /\ MaxChat \in Nat

\* base: the tip loaded; tip: the tip the peer announced; fork, last: the block
\* below the first header and the last header; stored: the side store in memory;
\* bodies: blocks at hand; missing, asked: those to be requested, and requested.
Sync == [base : Block, tip : Block, fork : Block \cup {None}, last : Block \cup {None},
         stored : SUBSET Block, bodies : SUBSET Block,
         missing : SUBSET Block, asked : SUBSET Block]

ASSUME NoneAssumption == None \notin Sync

Message ==
    [type : {"getaddr", "addrv2", "ping", "pong", "inv", "notfound", "getmempool", "txs"}]
    \cup [type : {"getheaders"}, locator : SUBSET Block]
    \cup [type : {"headers"}, from : Block, to : Block]
    \cup [type : {"getdata"}, blocks : SUBSET Block]
    \cup [type : {"block"}, block : Block]

TypeOK ==
    /\ server \in Block /\ kept \subseteq Block
    /\ chain \in Block /\ side \subseteq Block
    /\ pc \in {"idle", "addrv2", "headers", "block", "save", "keep", "activate", "clean", "txs"}
    /\ sync \in Sync \cup {None}
    /\ (pc = "idle") = (sync = None)
    /\ pc \in {"block", "save", "keep", "activate"} =>
           {sync.fork, sync.last} \subseteq Block
    /\ toServer \in Seq(Message) /\ toClient \in Seq(Message)
    /\ moves \in 0 .. MaxMoves /\ drops \in 0 .. MaxDrops /\ chat \in 0 .. MaxChat

Init ==
    /\ server \in Block /\ kept = {}
    /\ chain \in Block /\ side = {}
    /\ pc = "idle" /\ sync = None
    /\ toServer = <<>> /\ toClient = <<>>
    /\ moves = 0 /\ drops = 0 /\ chat = 0

-----------------------------------------------------------------------------
(* The peer.                                                               *)

\* Its node mines, or replaces the chain.  It keeps what it disconnects, unless
\* two of its own sessions got in each other's way (net.cpp:1486).
PeerMoves(b) ==
    /\ moves < MaxMoves
    /\ Work(b) > Work(server)
    /\ server' = b
    /\ \E disconnected \in {Chain[server], {}} : kept' = (kept \cup disconnected) \ Chain[b]
    /\ moves' = moves + 1
    /\ UNCHANGED <<disk, pc, sync, wire, drops, chat>>

\* A ping or an announcement nobody asked for, from a peer that runs a node.
Chat(type) ==
    /\ pc \in {"addrv2", "headers", "block", "txs"} /\ chat < MaxChat
    /\ toClient' = Append(toClient, [type |-> type])
    /\ chat' = chat + 1
    /\ UNCHANGED <<peer, disk, pc, sync, toServer, moves, drops>>

\* The next request is of this type, and these messages answer it.
Serve(type, answer) ==
    /\ toServer # <<>> /\ Head(toServer).type = type
    /\ toServer' = Tail(toServer)
    /\ toClient' = toClient \o answer
    /\ UNCHANGED <<peer, disk, pc, sync, bounds>>

ServeAddr == Serve("getaddr", << [type |-> "addrv2"] >>)

ServeHeaders ==
    LET from == ForkOf(Head(toServer).locator, server)
    IN Serve("getheaders",
             << [type |-> "headers", from |-> from, to |-> LastHeader(from, server)] >>)

\* The blocks that are there, in the order of the request, then notfound.
ServeData ==
    LET asked == Head(toServer).blocks
        found == asked \cap (Chain[server] \cup kept)
    IN \E order \in SetToSeqs(found) :
        Serve("getdata",
              [i \in DOMAIN order |-> [type |-> "block", block |-> order[i]]]
                \o IF found = asked THEN <<>> ELSE << [type |-> "notfound"] >>)

ServeMempool == Serve("getmempool", << [type |-> "txs"] >>)

ServePong == Serve("pong", <<>>)

PeerStep ==
    \/ ServeAddr \/ ServeMempool \/ ServePong
    \/ toServer # <<>> /\ Head(toServer).type = "getheaders" /\ ServeHeaders
    \/ toServer # <<>> /\ Head(toServer).type = "getdata" /\ ServeData

-----------------------------------------------------------------------------
(* The client.                                                             *)

\* Mutant: the next attempt goes on with what the last one had in memory.
ExitKeepingLocals ==
    /\ pc' = "idle" /\ UNCHANGED sync
    /\ toServer' = <<>> /\ toClient' = <<>>

\* The command ends, or an exception ends it: the connection is closed.
Exit ==
    /\ pc' = "idle" /\ sync' = None
    /\ toServer' = <<>> /\ toClient' = <<>>

\* The data directory is loaded, and the versions are exchanged.
Start ==
    /\ pc = "idle"
    /\ sync' = [base |-> chain, tip |-> server, fork |-> None, last |-> None,
                stored |-> side, bodies |-> {}, missing |-> {}, asked |-> {}]
    /\ pc' = "addrv2"
    /\ toServer' = << [type |-> "getaddr"] >>
    /\ UNCHANGED <<peer, disk, toClient, bounds>>

\* receive_until: the client waits for this message, and here it is.
Awaits(type) ==
    /\ pc = type
    /\ toClient # <<>> /\ Head(toClient).type = type

\* The message has been handled, and these are sent.
Send(messages) ==
    /\ toClient' = Tail(toClient)
    /\ toServer' = toServer \o messages

\* receive_until: any other message it knows is answered or skipped.
Skip ==
    /\ toClient # <<>> /\ Head(toClient).type \in {"ping", "inv"}
    /\ Send(IF Head(toClient).type = "ping" THEN << [type |-> "pong"] >> ELSE <<>>)
    /\ UNCHANGED <<peer, disk, pc, sync, bounds>>

GetMempool == << [type |-> "getmempool"] >>

\* A peer with less work, or with the same tip, has nothing to offer.
ReceiveAddr ==
    /\ Awaits("addrv2")
    /\ IF sync.tip # sync.base /\ Work(sync.tip) >= Work(sync.base)
       THEN /\ pc' = "headers"
            /\ Send(<< [type |-> "getheaders", locator |-> Locator[sync.base]] >>)
       ELSE /\ pc' = "txs"
            /\ Send(GetMempool)
    /\ UNCHANGED <<peer, disk, sync, bounds>>

\* The headers do not begin where they should, or lead above the advertised height.
Unfit(m) ==
    \/ m.from = m.to
    \/ sync.last = None /\ m.from \notin Chain[sync.base]
    \/ sync.last # None /\ m.from # sync.last
    \/ Work(m.to) > Work(sync.tip)

RefuseHeaders ==
    /\ Awaits("headers")
    /\ Unfit(Head(toClient))
    /\ Exit
    /\ UNCHANGED <<peer, disk, bounds>>

WithHeaders(m) ==
    [sync EXCEPT !.fork = IF sync.last = None THEN m.from ELSE @, !.last = m.to]

MoreHeaders ==
    /\ Awaits("headers")
    /\ ~Unfit(Head(toClient)) /\ Head(toClient).to # sync.tip
    /\ sync' = WithHeaders(Head(toClient))
    /\ Send(<< [type |-> "getheaders", locator |-> {sync'.last, Genesis}] >>)
    /\ UNCHANGED <<peer, disk, pc, bounds>>

\* Ask for the next blocks, in the order of their headers, or go on without.
Download(s) ==
    LET batch == {b \in s.missing :
                    Cardinality({c \in s.missing : Work(c) < Work(b)}) < MaxItems}
    IN /\ sync' = [s EXCEPT !.missing = @ \ batch, !.asked = batch]
       /\ pc' = IF batch = {} THEN "save" ELSE "block"
       /\ Send(IF batch = {} THEN <<>> ELSE << [type |-> "getdata", blocks |-> batch] >>)

\* The blocks the headers of s stand for.
Announced(s) == Chain[s.last] \ Chain[s.fork]

\* Mutant: the blocks in the side store are not asked for, and not taken either.
WithoutBodies(s) == [s EXCEPT !.missing = Announced(s) \ s.stored]

\* The announced tip is reached: blocks in the side store are not downloaded.
WithBodies(s) ==
    [s EXCEPT !.bodies = Announced(s) \cap s.stored, !.missing = Announced(s) \ s.stored]

\* Mutant: the advertised height is taken for the advertised tip.
LastHeadersByHeight ==
    /\ Awaits("headers")
    /\ ~Unfit(Head(toClient)) /\ Work(Head(toClient).to) = Work(sync.tip)
    /\ Download(WithBodies(WithHeaders(Head(toClient))))
    /\ UNCHANGED <<peer, disk, bounds>>

LastHeaders ==
    /\ Awaits("headers")
    /\ ~Unfit(Head(toClient)) /\ Head(toClient).to = sync.tip
    /\ Download(WithBodies(WithHeaders(Head(toClient))))
    /\ UNCHANGED <<peer, disk, bounds>>

ReceiveBlock ==
    /\ Awaits("block")
    /\ LET b == Head(toClient).block
           s == [sync EXCEPT !.bodies = @ \cup {b}, !.stored = @ \cup {b}, !.asked = @ \ {b}]
       IN IF s.asked = {} THEN Download(s)
                          ELSE sync' = s /\ Send(<<>>) /\ UNCHANGED pc
    /\ UNCHANGED <<peer, disk, bounds>>

ReceiveNotFound ==
    /\ pc = "block"
    /\ toClient # <<>> /\ Head(toClient).type = "notfound"
    /\ Exit
    /\ UNCHANGED <<peer, disk, bounds>>

\* branches.save, and the candidate is put together.
SaveBranches ==
    /\ pc = "save"
    /\ side' = sync.stored
    /\ IF sync.bodies = Announced(sync) /\ Work(sync.last) = Work(sync.tip)
       THEN pc' = "keep" /\ UNCHANGED <<sync, wire>>
       ELSE Exit
    /\ UNCHANGED <<peer, chain, bounds>>

\* Mutant: the blocks above the fork are not put into the side store.
KeepNothing ==
    /\ pc = "keep"
    /\ pc' = "activate"
    /\ UNCHANGED <<peer, disk, sync, wire, bounds>>

\* put_many: the blocks that are about to be disconnected go to the side store.
KeepDisconnected ==
    /\ pc = "keep"
    /\ sync' = [sync EXCEPT !.stored = @ \cup (Chain[sync.base] \ Chain[sync.fork])]
    /\ side' = sync'.stored
    /\ pc' = "activate"
    /\ UNCHANGED <<peer, chain, wire, bounds>>

\* activate_if_more_work
ActivateCandidate ==
    /\ pc = "activate"
    /\ IF Work(sync.last) > Work(sync.base)
       THEN chain' = sync.last /\ pc' = "clean" /\ UNCHANGED toServer
       ELSE pc' = "txs" /\ toServer' = toServer \o GetMempool /\ UNCHANGED chain
    /\ UNCHANGED <<peer, side, sync, toClient, bounds>>

RemoveActive ==
    /\ pc = "clean"
    /\ side' = sync.stored \ Chain[chain]
    /\ pc' = "txs"
    /\ toServer' = toServer \o GetMempool
    /\ UNCHANGED <<peer, chain, sync, toClient, bounds>>

\* Transactions are the last thing asked for; bye ends the session.
ReceiveMempool ==
    /\ Awaits("txs")
    /\ Exit
    /\ UNCHANGED <<peer, disk, bounds>>

\* The connection is lost, or the client is killed.
Drop ==
    /\ pc # "idle" /\ drops < MaxDrops
    /\ drops' = drops + 1
    /\ Exit
    /\ UNCHANGED <<peer, disk, moves, chat>>

ClientStep ==
    \/ Skip \/ ReceiveAddr
    \/ RefuseHeaders \/ MoreHeaders \/ LastHeaders
    \/ ReceiveBlock \/ ReceiveNotFound
    \/ SaveBranches \/ KeepDisconnected \/ ActivateCandidate \/ RemoveActive
    \/ ReceiveMempool

Next ==
    \/ \E b \in Block : PeerMoves(b)
    \/ \E type \in {"ping", "inv"} : Chat(type)
    \/ PeerStep \/ Start \/ ClientStep \/ Drop

\* Both programs go on as long as they have something to do; the command need
\* not be started again.
Spec == Init /\ [][Next]_vars /\ WF_vars(PeerStep) /\ WF_vars(ClientStep)

-----------------------------------------------------------------------------
\* Whatever the peer does meanwhile, the client only ever adopts the chain the
\* peer announced in the handshake, with strictly more work than its own, and
\* with every block of it at hand (net.cpp:2128, 2200, 2209).
AdoptsWhatWasAnnounced ==
    [][chain' # chain => /\ chain' = sync.tip
                         /\ Work(chain') > Work(chain)
                         /\ Chain[chain'] \subseteq Chain[sync.fork] \cup sync.bodies]_vars

\* No block is lost, whenever the client dies: the disconnected ones are in the
\* side store before the chain is replaced (net.cpp:2186, 2204, 2211).
NothingLost ==
    [][Chain[chain] \cup side \subseteq Chain[chain'] \cup side']_vars

\* Nothing else happens any more.
Quiet == moves = MaxMoves /\ drops = MaxDrops

\* A session with a peer that keeps still, and that nobody interrupts, brings
\* the client to the peer's work, whatever earlier sessions left behind
\* (net.cpp:2141-2213).
QuietSyncCatchesUp ==
    (pc = "addrv2" /\ sync.tip = server /\ Quiet) ~> Work(chain) >= Work(server)
=============================================================================
