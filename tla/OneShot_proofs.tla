---------------------------- MODULE OneShot_proofs ----------------------------
(***************************************************************************)
(* Proofs about OneShot, for any tree of blocks, any locators, and any     *)
(* number of moves of the peer, lost connections and uncalled messages.    *)
(***************************************************************************)
EXTENDS OneShot, Headers_proofs

\* The headers a peer sends are a piece of a chain.
Honest == {m \in Message : m.type = "headers" => m.from \in Chain[m.to]}

\* Until the chain is replaced, and once the headers are complete.
Downloading == {"block", "save", "keep", "activate"}
Before == {"addrv2", "headers"} \cup Downloading

Typed ==
    /\ server \in Block /\ kept \in SUBSET Block /\ IsFiniteSet(kept)
    /\ chain \in Block /\ side \in SUBSET Block
    /\ pc \in {"idle", "clean", "txs"} \cup Before
    /\ IF pc = "idle" THEN sync = None ELSE sync \in Sync
    /\ toServer \in Seq(Message) /\ toClient \in Seq(Honest)
    /\ moves \in 0 .. MaxMoves /\ drops \in 0 .. MaxDrops /\ chat \in 0 .. MaxChat

\* The chain the client has loaded is the one in its directory until it replaces
\* it, and the side store in memory has all that the file has.
MemoryInv ==
    /\ pc \in Before => sync.base = chain
    /\ pc \in Before \cup {"clean"} => side \subseteq sync.stored

\* The headers received so far lead up from the fork; when they are complete they
\* end at the tip that was announced.
HeadersInv ==
    /\ pc = "addrv2" => sync.last = None
    /\ pc = "headers" => sync.last = None \/ sync.fork \in Chain[sync.last]
    /\ pc \in Downloading => /\ sync.last = sync.tip
                             /\ sync.fork \in Chain[sync.last]

\* Every block of the candidate is at hand before it is put in place, and what will
\* be disconnected is in the side store.
CandidateInv ==
    /\ pc \in {"keep", "activate"} => sync.bodies = Announced(sync)
    /\ pc = "activate" => Chain[sync.base] \ Chain[sync.fork] \subseteq side

IInv == Typed /\ MemoryInv /\ HeadersInv /\ CandidateInv

-----------------------------------------------------------------------------
(* Messages.                                                               *)

\* The fields of a message, by its type.
LEMMA MessageFields ==
    ASSUME NEW m \in Message
    PROVE  /\ m.type = "headers" => m.from \in Block /\ m.to \in Block
           /\ m.type = "getheaders" => m.locator \in SUBSET Block
           /\ m.type = "getdata" => m.blocks \in SUBSET Block
           /\ m.type = "block" => m.block \in Block
BY DEF Message

\* The next message of either side, and what is behind it.
LEMMA NextMessage ==
    ASSUME Typed
    PROVE  /\ toClient # <<>> => Head(toClient) \in Honest /\ Tail(toClient) \in Seq(Honest)
           /\ toServer # <<>> => Head(toServer) \in Message /\ Tail(toServer) \in Seq(Message)
BY HeadTailProperties DEF Typed

\* The requests of the client are messages.
LEMMA Requests ==
    /\ << [type |-> "pong"] >> \in Seq(Message) /\ << [type |-> "getaddr"] >> \in Seq(Message)
    /\ GetMempool \in Seq(Message) /\ <<>> \in Seq(Message)
    /\ \A S \in SUBSET Block : /\ << [type |-> "getheaders", locator |-> S] >> \in Seq(Message)
                               /\ << [type |-> "getdata", blocks |-> S] >> \in Seq(Message)
BY DEF Message, GetMempool

-----------------------------------------------------------------------------
(* The peer.                                                               *)

\* A step that only adds to what is on its way keeps everything else.
LEMMA WireStep ==
    ASSUME IInv, toServer' \in Seq(Message), toClient' \in Seq(Honest),
           UNCHANGED <<peer, disk, pc, sync, moves, drops>>, chat' \in 0 .. MaxChat
    PROVE  IInv'
BY DEF IInv, Typed, MemoryInv, HeadersInv, CandidateInv, Announced, peer, disk

\* An answer that consists of honest messages arrives as one.
LEMMA ServeStep ==
    ASSUME IInv, NEW type, NEW answer \in Seq(Honest), Serve(type, answer)
    PROVE  IInv'
<1>1. toServer' \in Seq(Message) /\ toClient' \in Seq(Honest)
  BY NextMessage, ConcatProperties DEF Serve, IInv, Typed
<1> QED BY <1>1, WireStep DEF Serve, bounds, IInv, Typed

LEMMA PeerStepIInv ==
    ASSUME IInv, PeerStep
    PROVE  IInv'
<1>1. CASE ServeAddr \/ ServeMempool \/ ServePong
  <2>1. /\ << [type |-> "addrv2"] >> \in Seq(Honest) /\ << [type |-> "txs"] >> \in Seq(Honest)
        /\ <<>> \in Seq(Honest)
    BY DEF Honest, Message
  <2> QED BY <1>1, <2>1, ServeStep DEF ServeAddr, ServeMempool, ServePong
<1>2. CASE toServer # <<>> /\ Head(toServer).type = "getheaders" /\ ServeHeaders
  <2> DEFINE from == ForkOf(Head(toServer).locator, server)
             to == LastHeader(from, server)
             m == [type |-> "headers", from |-> from, to |-> to]
  <2>1. Head(toServer).locator \in SUBSET Block /\ server \in Block
    BY <1>2, NextMessage, MessageFields DEF IInv, Typed
  <2>2. from \in Block /\ to \in Block /\ from \in Chain[to]
    BY <2>1, AnswerFacts
  <2>3. Serve("getheaders", <<m>>)
    BY <1>2 DEF ServeHeaders
  <2> HIDE DEF from, to
  <2>4. m \in Honest
    BY <2>2 DEF Honest, Message
  <2> HIDE DEF m
  <2>5. <<m>> \in Seq(Honest)
    BY <2>4
  <2> QED BY <2>3, <2>5, ServeStep
<1>3. CASE toServer # <<>> /\ Head(toServer).type = "getdata" /\ ServeData
  <2> DEFINE asked == Head(toServer).blocks
             found == asked \cap (Chain[server] \cup kept)
             rest == IF found = asked THEN <<>> ELSE << [type |-> "notfound"] >>
             Blocks(order) == [i \in DOMAIN order |-> [type |-> "block", block |-> order[i]]]
  <2>1. PICK order \in SetToSeqs(found) : Serve("getdata", Blocks(order) \o rest)
    BY <1>3 DEF ServeData
  <2>2. asked \in SUBSET Block
    BY <1>3, NextMessage, MessageFields DEF IInv, Typed
  <2>3. IsFiniteSet(found) /\ found \in SUBSET Block
    <3>1. IsFiniteSet(Chain[server] \cup kept)
      BY FiniteChains, FS_Union DEF IInv, Typed
    <3> QED BY <2>2, <3>1, FS_Intersection
  <2> HIDE DEF asked, found
  <2>4. order \in Seq(Block)
    BY <2>3, OrderFacts, SeqMonotonic
  <2>5. Blocks(order) \in Seq(Honest)
    <3>1. DOMAIN order = 1 .. Len(order) /\ Len(order) \in Nat /\ \A i \in DOMAIN order : order[i] \in Block
      BY <2>4, LenProperties
    <3>2. \A b \in Block : [type |-> "block", block |-> b] \in Honest
      BY DEF Honest, Message
    <3>3. Blocks(order) \in [1 .. Len(order) -> Honest]
      BY <3>1, <3>2
    <3> QED BY <3>1, <3>3, SeqDef
  <2>6. rest \in Seq(Honest)
    <3>1. [type |-> "notfound"] \in Honest
      BY DEF Honest, Message
    <3> QED BY <3>1
  <2> HIDE DEF Blocks, rest
  <2>7. Blocks(order) \o rest \in Seq(Honest)
    BY <2>5, <2>6, ConcatProperties
  <2> QED BY <2>1, <2>7, ServeStep
<1> QED BY <1>1, <1>2, <1>3 DEF PeerStep

LEMMA PeerMovesStep ==
    ASSUME IInv, NEW b \in Block, PeerMoves(b)
    PROVE  IInv'
<1>1. kept' \in SUBSET Block /\ IsFiniteSet(kept')
  <2>1. PICK disconnected \in {Chain[server], {}} : kept' = (kept \cup disconnected) \ Chain[b]
    BY DEF PeerMoves
  <2>2. IsFiniteSet(disconnected) /\ disconnected \in SUBSET Block
    <3>1. IsFiniteSet(Chain[server]) /\ Chain[server] \subseteq Block
      BY FiniteChains, ChainFacts DEF IInv, Typed
    <3> QED BY <3>1, FS_EmptySet
  <2>3. IsFiniteSet(kept \cup disconnected)
    BY <2>2, FS_Union DEF IInv, Typed
  <2> QED BY <2>1, <2>2, <2>3, FS_Difference DEF IInv, Typed
<1>2. moves' \in 0 .. MaxMoves
  BY BoundAssumption DEF PeerMoves, IInv, Typed
<1> QED
  BY <1>1, <1>2 DEF PeerMoves, IInv, Typed, MemoryInv, HeadersInv, CandidateInv, Announced, disk, wire

LEMMA ChatStep ==
    ASSUME IInv, NEW type \in {"ping", "inv"}, Chat(type)
    PROVE  IInv'
<1>1. [type |-> type] \in Honest
  BY DEF Honest, Message
<1>2. toClient' \in Seq(Honest)
  BY <1>1, AppendProperties DEF Chat, IInv, Typed
<1>3. chat' \in 0 .. MaxChat
  BY BoundAssumption DEF Chat, IInv, Typed
<1> QED BY <1>2, <1>3, WireStep DEF Chat, IInv, Typed

-----------------------------------------------------------------------------
(* The client.                                                             *)

\* When the client is through, nothing is in memory or on its way.
LEMMA ExitStep ==
    ASSUME IInv, Exit, UNCHANGED <<peer, chain, moves, chat>>,
           side' \in SUBSET Block, drops' \in 0 .. MaxDrops
    PROVE  IInv'
<1>1. Typed'
  BY EmptySeq DEF IInv, Typed, Exit, peer
<1>2. MemoryInv' /\ HeadersInv' /\ CandidateInv'
  BY DEF Exit, MemoryInv, HeadersInv, CandidateInv, Before, Downloading
<1> QED BY <1>1, <1>2 DEF IInv

\* What the client sends and takes out leaves both lines of messages well formed.
LEMMA SendFacts ==
    ASSUME Typed, toClient # <<>>, NEW messages \in Seq(Message), Send(messages)
    PROVE  toServer' \in Seq(Message) /\ toClient' \in Seq(Honest)
BY NextMessage, ConcatProperties DEF Send, Typed

LEMMA StartStep ==
    ASSUME IInv, Start
    PROVE  IInv'
<1>1. Typed'
  <2>1. sync' \in Sync
    BY DEF Start, Sync, IInv, Typed
  <2>2. toServer' \in Seq(Message)
    BY Requests DEF Start
  <2> QED BY <2>1, <2>2 DEF IInv, Typed, Start, Before, peer, disk, bounds
<1>2. MemoryInv' /\ HeadersInv' /\ CandidateInv'
  BY DEF Start, MemoryInv, HeadersInv, CandidateInv, Before, Downloading, disk
<1> QED BY <1>1, <1>2 DEF IInv

LEMMA SkipStep ==
    ASSUME IInv, Skip
    PROVE  IInv'
<1> DEFINE answer == IF Head(toClient).type = "ping" THEN << [type |-> "pong"] >> ELSE <<>>
<1>1. answer \in Seq(Message)
  BY Requests
<1>2. toServer' \in Seq(Message) /\ toClient' \in Seq(Honest)
  BY <1>1, SendFacts DEF Skip, IInv
<1> QED BY <1>2, WireStep DEF Skip, bounds, IInv, Typed

LEMMA ReceiveAddrStep ==
    ASSUME IInv, ReceiveAddr
    PROVE  IInv'
<1>1. sync \in Sync /\ pc = "addrv2" /\ toClient # <<>>
  BY DEF IInv, Typed, ReceiveAddr, Awaits
<1>2. toServer' \in Seq(Message) /\ toClient' \in Seq(Honest)
  <2>1. Locator[sync.base] \in SUBSET Block
    BY <1>1, LocatorAssumption DEF Sync
  <2>2. << [type |-> "getheaders", locator |-> Locator[sync.base]] >> \in Seq(Message)
        /\ GetMempool \in Seq(Message)
    BY <2>1, Requests
  <2> QED BY <1>1, <2>2, SendFacts DEF ReceiveAddr, IInv
<1>3. Typed'
  BY <1>1, <1>2 DEF ReceiveAddr, IInv, Typed, Before, peer, disk, bounds
<1>4. MemoryInv' /\ HeadersInv' /\ CandidateInv'
  BY <1>1 DEF ReceiveAddr, IInv, MemoryInv, HeadersInv, CandidateInv, Before, Downloading, disk
<1> QED BY <1>3, <1>4 DEF IInv

\* Headers that fit: they begin on the chain that is known, and stay a piece of one.
LEMMA FitFacts ==
    ASSUME IInv, Awaits("headers"), ~Unfit(Head(toClient))
    PROVE  LET s == WithHeaders(Head(toClient))
           IN  /\ sync \in Sync /\ pc = "headers" /\ toClient # <<>> /\ s \in Sync
               /\ s.last = Head(toClient).to /\ s.last \in Block /\ s.fork \in Block
               /\ s.fork \in Chain[s.last]
               /\ s.base = sync.base /\ s.tip = sync.tip /\ s.stored = sync.stored
<1> DEFINE m == Head(toClient)
<1>1. sync \in Sync /\ pc = "headers" /\ toClient # <<>>
  BY DEF IInv, Typed, Awaits
<1>2. m \in Message /\ m.type = "headers" /\ m.from \in Chain[m.to]
  BY <1>1, NextMessage DEF Awaits, IInv, Honest
<1>3. m.from \in Block /\ m.to \in Block
  BY <1>2, MessageFields
<1>4. CASE sync.last = None
  BY <1>1, <1>2, <1>3, <1>4 DEF WithHeaders, Sync
<1>5. CASE sync.last # None
  <2>1. m.from = sync.last /\ sync.last \in Block /\ sync.fork \in Chain[sync.last]
    BY <1>1, <1>5 DEF Unfit, Sync, IInv, HeadersInv
  <2>2. sync.fork \in Chain[m.to]
    BY <1>2, <1>3, <2>1, ChainFacts
  <2>3. sync.fork \in Block
    BY <2>1, ChainFacts
  <2> QED BY <1>1, <1>3, <1>5, <2>1, <2>2, <2>3 DEF WithHeaders, Sync
<1> QED BY <1>4, <1>5

LEMMA MoreHeadersStep ==
    ASSUME IInv, MoreHeaders
    PROVE  IInv'
<1>1. /\ sync' \in Sync /\ pc = "headers" /\ toClient # <<>> /\ sync'.last \in Block
      /\ sync'.fork \in Chain[sync'.last]
      /\ sync'.base = sync.base /\ sync'.stored = sync.stored
  BY FitFacts DEF MoreHeaders
<1>2. toServer' \in Seq(Message) /\ toClient' \in Seq(Honest)
  <2>1. {sync'.last, Genesis} \in SUBSET Block
    BY <1>1, TreeAssumption
  <2>2. << [type |-> "getheaders", locator |-> {sync'.last, Genesis}] >> \in Seq(Message)
    BY <2>1, Requests
  <2> QED BY <1>1, <2>2, SendFacts DEF MoreHeaders, IInv
<1>3. Typed'
  BY <1>1, <1>2 DEF MoreHeaders, IInv, Typed, Before, peer, disk, bounds
<1>4. MemoryInv' /\ HeadersInv' /\ CandidateInv'
  BY <1>1 DEF MoreHeaders, IInv, MemoryInv, HeadersInv, CandidateInv, Before, Downloading, disk
<1> QED BY <1>3, <1>4 DEF IInv

\* The next blocks are asked for, with s in memory.
LEMMA DownloadStep ==
    ASSUME IInv, NEW s \in Sync, Download(s), toClient # <<>>,
           UNCHANGED <<peer, disk, bounds>>,
           s.base = chain, side \subseteq s.stored,
           s.last = s.tip, s.fork \in Chain[s.last]
    PROVE  IInv'
<1> DEFINE batch == {b \in s.missing : Cardinality({c \in s.missing : Work(c) < Work(b)}) < MaxItems}
           next == [s EXCEPT !.missing = @ \ batch, !.asked = batch]
           request == IF batch = {} THEN <<>> ELSE << [type |-> "getdata", blocks |-> batch] >>
<1>1. sync' = next /\ pc' = (IF batch = {} THEN "save" ELSE "block") /\ Send(request)
  BY DEF Download
<1>2. batch \in SUBSET Block
  BY DEF Sync
<1> HIDE DEF batch
<1>3. /\ sync' \in Sync /\ sync'.base = s.base /\ sync'.stored = s.stored
      /\ sync'.last = s.last /\ sync'.tip = s.tip /\ sync'.fork = s.fork
  BY <1>1, <1>2 DEF Sync
<1>4. toServer' \in Seq(Message) /\ toClient' \in Seq(Honest)
  <2>1. request \in Seq(Message)
    BY <1>2, Requests
  <2> QED BY <1>1, <2>1, SendFacts DEF IInv
<1>5. Typed'
  BY <1>1, <1>3, <1>4 DEF IInv, Typed, Before, Downloading, peer, disk, bounds
<1>6. MemoryInv' /\ HeadersInv' /\ CandidateInv'
  BY <1>1, <1>3 DEF MemoryInv, HeadersInv, CandidateInv, Before, Downloading, disk
<1> QED BY <1>5, <1>6 DEF IInv

LEMMA LastHeadersStep ==
    ASSUME IInv, LastHeaders
    PROVE  IInv'
<1> DEFINE s == WithHeaders(Head(toClient))
           t == WithBodies(s)
<1>1. /\ pc = "headers" /\ toClient # <<>> /\ s \in Sync
      /\ s.last = Head(toClient).to /\ s.last \in Block /\ s.fork \in Block
      /\ s.fork \in Chain[s.last]
      /\ s.base = sync.base /\ s.tip = sync.tip /\ s.stored = sync.stored
  BY FitFacts DEF LastHeaders
<1>2. s.last = s.tip /\ s.base = chain /\ side \subseteq s.stored
  BY <1>1 DEF LastHeaders, IInv, MemoryInv, Before
<1> HIDE DEF s
<1>3. Announced(s) \in SUBSET Block
  BY <1>1, ChainFacts DEF Announced
<1>4. /\ t \in Sync /\ t.base = s.base /\ t.tip = s.tip /\ t.stored = s.stored
      /\ t.last = s.last /\ t.fork = s.fork
  BY <1>1, <1>3 DEF WithBodies, Sync
<1>5. Download(t) /\ UNCHANGED <<peer, disk, bounds>>
  BY DEF LastHeaders, s
<1> HIDE DEF t
<1> QED BY <1>1, <1>2, <1>4, <1>5, DownloadStep

LEMMA ReceiveBlockStep ==
    ASSUME IInv, ReceiveBlock
    PROVE  IInv'
<1> DEFINE b == Head(toClient).block
           s == [sync EXCEPT !.bodies = @ \cup {b}, !.stored = @ \cup {b}, !.asked = @ \ {b}]
<1>1. pc = "block" /\ toClient # <<>> /\ sync \in Sync
  BY DEF ReceiveBlock, Awaits, IInv, Typed
<1>2. b \in Block
  BY NextMessage, MessageFields, <1>1 DEF ReceiveBlock, Awaits, IInv, Honest
<1> HIDE DEF b
<1>3. /\ s \in Sync /\ s.base = sync.base /\ s.tip = sync.tip /\ sync.stored \subseteq s.stored
      /\ s.last = sync.last /\ s.fork = sync.fork
  BY <1>1, <1>2 DEF Sync
<1>4. s.base = chain /\ side \subseteq s.stored /\ s.last = s.tip /\ s.fork \in Chain[s.last]
  BY <1>1, <1>3 DEF IInv, MemoryInv, HeadersInv, Before, Downloading
<1>5. UNCHANGED <<peer, disk, bounds>>
      /\ (Download(s) \/ (sync' = s /\ Send(<<>>) /\ UNCHANGED pc))
  BY DEF ReceiveBlock, b
<1> HIDE DEF s
<1>6. CASE Download(s)
  BY <1>1, <1>3, <1>4, <1>5, <1>6, DownloadStep
<1>7. CASE sync' = s /\ Send(<<>>) /\ UNCHANGED pc
  <2>1. toServer' \in Seq(Message) /\ toClient' \in Seq(Honest)
    BY <1>1, <1>7, SendFacts, Requests DEF IInv
  <2>2. Typed'
    BY <1>1, <1>3, <1>5, <1>7, <2>1 DEF IInv, Typed, peer, disk, bounds
  <2>3. MemoryInv' /\ HeadersInv' /\ CandidateInv'
    BY <1>1, <1>4, <1>5, <1>7 DEF MemoryInv, HeadersInv, CandidateInv, Before, Downloading, disk
  <2> QED BY <2>2, <2>3 DEF IInv
<1> QED BY <1>5, <1>6, <1>7

LEMMA SaveBranchesStep ==
    ASSUME IInv, SaveBranches
    PROVE  IInv'
<1>1. pc = "save" /\ sync \in Sync /\ side' = sync.stored /\ side' \in SUBSET Block
  BY DEF SaveBranches, IInv, Typed, Sync
<1>2. CASE Exit
  BY <1>1, <1>2, ExitStep DEF SaveBranches, bounds, IInv, Typed
<1>3. CASE /\ pc' = "keep" /\ UNCHANGED <<sync, wire>>
           /\ sync.bodies = Announced(sync)
  <2>1. Typed'
    BY <1>1, <1>3 DEF SaveBranches, IInv, Typed, Before, Downloading, peer, wire, bounds
  <2>2. MemoryInv' /\ HeadersInv' /\ CandidateInv'
    BY <1>1, <1>3
    DEF SaveBranches, IInv, MemoryInv, HeadersInv, CandidateInv, Before, Downloading, Announced
  <2> QED BY <2>1, <2>2 DEF IInv
<1> QED BY <1>2, <1>3 DEF SaveBranches

LEMMA KeepDisconnectedStep ==
    ASSUME IInv, KeepDisconnected
    PROVE  IInv'
<1>1. pc = "keep" /\ pc' = "activate" /\ sync \in Sync
      /\ sync' = [sync EXCEPT !.stored = @ \cup (Chain[sync.base] \ Chain[sync.fork])]
      /\ side' = sync'.stored
  BY DEF KeepDisconnected, IInv, Typed
<1>2. Chain[sync.base] \in SUBSET Block
  BY <1>1, TreeAssumption DEF Sync
<1>3. /\ sync' \in Sync /\ sync'.stored = sync.stored \cup (Chain[sync.base] \ Chain[sync.fork])
      /\ sync'.base = sync.base /\ sync'.tip = sync.tip /\ sync'.fork = sync.fork
      /\ sync'.last = sync.last /\ sync'.bodies = sync.bodies
  BY <1>1, <1>2 DEF Sync
<1>4. sync'.stored \in SUBSET Block
  BY <1>3 DEF Sync
<1>5. Typed'
  BY <1>1, <1>3, <1>4 DEF KeepDisconnected, IInv, Typed, Before, Downloading, peer, wire, bounds
<1>6. MemoryInv' /\ HeadersInv' /\ CandidateInv'
  BY <1>1, <1>3
  DEF KeepDisconnected, IInv, MemoryInv, HeadersInv, CandidateInv, Before, Downloading, Announced
<1> QED BY <1>5, <1>6 DEF IInv

LEMMA ActivateCandidateStep ==
    ASSUME IInv, ActivateCandidate
    PROVE  IInv'
<1>1. pc = "activate" /\ sync \in Sync /\ sync.last = sync.tip
  BY DEF ActivateCandidate, IInv, Typed, HeadersInv, Downloading
<1>2. sync.last \in Block
  BY <1>1 DEF Sync
<1>3. toServer' \in Seq(Message)
  BY Requests, ConcatProperties DEF ActivateCandidate, IInv, Typed
<1>4. Typed'
  BY <1>1, <1>2, <1>3 DEF ActivateCandidate, IInv, Typed, Before, Downloading, peer, bounds
<1>5. MemoryInv' /\ HeadersInv' /\ CandidateInv'
  BY <1>1 DEF ActivateCandidate, IInv, MemoryInv, HeadersInv, CandidateInv, Before, Downloading
<1> QED BY <1>4, <1>5 DEF IInv

LEMMA RemoveActiveStep ==
    ASSUME IInv, RemoveActive
    PROVE  IInv'
<1>1. pc = "clean" /\ sync \in Sync
  BY DEF RemoveActive, IInv, Typed
<1>2. side' \in SUBSET Block
  BY <1>1 DEF RemoveActive, Sync
<1>3. toServer' \in Seq(Message)
  BY Requests, ConcatProperties DEF RemoveActive, IInv, Typed
<1>4. Typed'
  BY <1>1, <1>2, <1>3 DEF RemoveActive, IInv, Typed, peer, bounds
<1>5. MemoryInv' /\ HeadersInv' /\ CandidateInv'
  BY DEF RemoveActive, MemoryInv, HeadersInv, CandidateInv, Before, Downloading
<1> QED BY <1>4, <1>5 DEF IInv

-----------------------------------------------------------------------------
(* The theorems.                                                           *)

LEMMA InitIInv == Init => IInv
<1> SUFFICES ASSUME Init PROVE IInv
  OBVIOUS
<1>1. Typed
  BY EmptySeq, FS_EmptySet, BoundAssumption DEF Init, Typed
<1> QED BY <1>1 DEF Init, IInv, MemoryInv, HeadersInv, CandidateInv, Before, Downloading

LEMMA NextIInv == IInv /\ [Next]_vars => IInv'
<1> SUFFICES ASSUME IInv, [Next]_vars PROVE IInv'
  OBVIOUS
<1>1. CASE RefuseHeaders \/ ReceiveNotFound \/ ReceiveMempool \/ Drop
  <2>1. Exit /\ UNCHANGED <<peer, disk, moves, chat>>
    BY <1>1 DEF RefuseHeaders, ReceiveNotFound, ReceiveMempool, Drop, bounds
  <2>2. drops' \in 0 .. MaxDrops
    BY <1>1, BoundAssumption DEF RefuseHeaders, ReceiveNotFound, ReceiveMempool, Drop, bounds, IInv, Typed
  <2> QED BY <2>1, <2>2, ExitStep DEF disk, IInv, Typed
<1>2. CASE ClientStep
  BY <1>1, <1>2, SkipStep, ReceiveAddrStep, MoreHeadersStep, LastHeadersStep, ReceiveBlockStep,
     SaveBranchesStep, KeepDisconnectedStep, ActivateCandidateStep, RemoveActiveStep DEF ClientStep
<1>3. CASE UNCHANGED vars
  BY <1>3, WireStep DEF vars, wire, bounds, IInv, Typed
<1> QED BY <1>1, <1>2, <1>3, PeerMovesStep, ChatStep, PeerStepIInv, StartStep DEF Next

LEMMA Inductive == Spec => []IInv
BY InitIInv, NextIInv, PTL DEF Spec

\* Every variable stays in its type, and the client knows the fork and the last of
\* the headers whenever it downloads blocks or replaces the chain (net.cpp:2105-2213).
THEOREM TypeCorrect == Spec => []TypeOK
<1>1. IInv => TypeOK
  <2> SUFFICES ASSUME IInv PROVE TypeOK
    OBVIOUS
  <2>1. toClient \in Seq(Message)
    BY SeqMonotonic DEF IInv, Typed, Honest
  <2>2. pc \in Downloading => {sync.fork, sync.last} \subseteq Block
    BY ChainFacts DEF IInv, Typed, HeadersInv, Sync, Before, Downloading
  <2> QED BY <2>1, <2>2, NoneAssumption DEF IInv, Typed, TypeOK, Before, Downloading
<1> QED BY <1>1, Inductive, PTL

\* However the peer's chain changes and wherever the client is interrupted, it only
\* ever adopts the chain that was announced to it, with more work than its own and
\* with every block at hand (net.cpp:2128, 2200, 2209).
THEOREM OnlyAnnouncedAdopted == Spec => AdoptsWhatWasAnnounced
<1>1. IInv /\ [Next]_vars =>
        [chain' # chain => /\ chain' = sync.tip
                           /\ Work(chain') > Work(chain)
                           /\ Chain[chain'] \subseteq Chain[sync.fork] \cup sync.bodies]_vars
  <2> SUFFICES ASSUME IInv, [Next]_vars, chain' # chain
               PROVE  /\ chain' = sync.tip
                      /\ Work(chain') > Work(chain)
                      /\ Chain[chain'] \subseteq Chain[sync.fork] \cup sync.bodies
    OBVIOUS
  <2>1. ActivateCandidate
    BY DEF Next, PeerMoves, Chat, PeerStep, ServeAddr, ServeMempool, ServePong, ServeHeaders, ServeData,
       Serve, Start, Drop, ClientStep, Skip, ReceiveAddr, RefuseHeaders, MoreHeaders, LastHeaders,
       ReceiveBlock, ReceiveNotFound, SaveBranches, KeepDisconnected, RemoveActive, ReceiveMempool,
       vars, disk
  <2>2. pc = "activate" /\ chain' = sync.last /\ Work(sync.last) > Work(sync.base)
    BY <2>1 DEF ActivateCandidate
  <2> QED BY <2>2 DEF IInv, MemoryInv, HeadersInv, CandidateInv, Announced, Before, Downloading
<1> QED BY <1>1, Inductive, PTL DEF Spec, AdoptsWhatWasAnnounced

\* No block is ever lost: whenever the client dies, the blocks it had before are on
\* the chain or in the side store (net.cpp:2186, 2204, 2211).
THEOREM BlocksAreKept == Spec => NothingLost
<1>1. IInv /\ [Next]_vars => [Chain[chain] \cup side \subseteq Chain[chain'] \cup side']_vars
  <2> SUFFICES ASSUME IInv, [Next]_vars
               PROVE  Chain[chain] \cup side \subseteq Chain[chain'] \cup side'
    OBVIOUS
  <2>1. CASE SaveBranches
    BY <2>1 DEF SaveBranches, IInv, MemoryInv, Before, Downloading
  <2>2. CASE KeepDisconnected
    <3>1. side \subseteq sync.stored /\ sync \in Sync
      BY <2>2 DEF KeepDisconnected, IInv, Typed, MemoryInv, Before, Downloading
    <3>2. sync.stored \subseteq side'
      BY <2>2, <3>1 DEF KeepDisconnected, Sync
    <3> QED BY <2>2, <3>1, <3>2 DEF KeepDisconnected
  <2>3. CASE ActivateCandidate
    <3>1. /\ pc = "activate" /\ sync \in Sync /\ sync.base = chain
          /\ sync.last = sync.tip /\ sync.fork \in Chain[sync.last]
          /\ Chain[sync.base] \ Chain[sync.fork] \subseteq side
      BY <2>3 DEF ActivateCandidate, IInv, Typed, MemoryInv, HeadersInv, CandidateInv, Before, Downloading
    <3>2. Chain[sync.fork] \subseteq Chain[sync.last]
      BY <3>1, ChainFacts DEF Sync
    <3> QED BY <2>3, <3>1, <3>2 DEF ActivateCandidate
  <2>4. CASE RemoveActive
    BY <2>4 DEF RemoveActive, IInv, MemoryInv
  <2>5. CASE UNCHANGED disk
    BY <2>5 DEF disk
  <2> QED
    BY <2>1, <2>2, <2>3, <2>4, <2>5
    DEF Next, PeerMoves, Chat, PeerStep, ServeAddr, ServeMempool, ServePong, ServeHeaders, ServeData,
        Serve, Start, Drop, ClientStep, Skip, ReceiveAddr, RefuseHeaders, MoreHeaders, LastHeaders,
        ReceiveBlock, ReceiveNotFound, ReceiveMempool, vars
<1> QED BY <1>1, Inductive, PTL DEF Spec, NothingLost
=============================================================================
