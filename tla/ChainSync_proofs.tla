-------------------------- MODULE ChainSync_proofs --------------------------
(***************************************************************************)
(* Proofs about ChainSync: for any tree of blocks, any locators, any limit *)
(* of headers and any number of changes and lost connections.              *)
(***************************************************************************)
EXTENDS ChainSync, Headers_proofs

-----------------------------------------------------------------------------
(* The inductive invariant.                                                *)

\* The headers that are on their way are a piece of a chain.
Honest == {m \in Message : m.type = "headers" => m.from \in Chain[m.to]}

Typed ==
    /\ SessionsTyped
    /\ \A n \in Node : inbox[n] \in Seq(Honest) /\ IsFiniteSet(side[n])

\* The session of n has not got beyond the handshake.
Fresh(n) == announced[n] = None /\ candidate[n] = None /\ knows[n] = {} /\ score[n] = 0

\* There is a session only while there is a connection, and the handshake is the
\* first thing that a session does.
HandshakeInv ==
    \A n \in Node :
        /\ ~up => inbox[n] = <<>> /\ Fresh(n)
        /\ Count(inbox[n], "version") > 0 =>
              Fresh(n) /\ Count(inbox[n], "version") = 1 /\ Head(inbox[n]).type = "version"

\* n has asked for headers and waits for them.
Waits(n) == candidate[n] # None /\ candidate[n].pending = {}

\* The requests of n for headers, and the answers, that are on their way.
Outstanding(n) == Count(inbox[Other(n)], "getheaders") + Count(inbox[n], "headers")

\* A session that waits for headers has one request or answer on its way, and no
\* other session has: until an exception ends a handler, and then the session
\* waits for ever.
QueryOf(n) ==
    /\ announced[n] # None => candidate[n] = None
    /\ \/ score[n] = 0 /\ Outstanding(n) = IF Waits(n) THEN 1 ELSE 0
       \/ score[n] = 25 /\ Outstanding(n) = 0 /\ Waits(n)

QueryInv == \A n \in Node : QueryOf(n)

\* What the candidate has of the announced chain begins at its fork.
CandidateOf(n) ==
    candidate[n] # None =>
        LET c == candidate[n]
        IN  /\ c.fork \in Chain[c.base]
            /\ c.last # None => c.fork \in Chain[c.last]
            /\ c.pending # {} => c.last = c.tip
            /\ stale \/ c.base \in Chain[chain[n]]

CandidateInv == \A n \in Node : CandidateOf(n)

\* What message m to n says that its sender has, and what it wants n to have.
Backed(n, m) ==
    /\ m.type \in {"version", "status", "inv", "block"} => m.block \in Has(Other(n))
    /\ m.type = "headers" => Chain[m.to] \subseteq Has(Other(n))
    /\ m.type = "getdata" => m.blocks \subseteq Has(n)

DataInv == stale \/ \A n \in Node : \A m \in ToSet(inbox[n]) : Backed(n, m)

\* Block b has been sent to n, or n has asked for it.
Supplied(n, b) ==
    \/ \E m \in ToSet(inbox[Other(n)]) : m.type = "getdata" /\ b \in m.blocks
    \/ \E m \in ToSet(inbox[n]) : m.type = "block" /\ m.block = b

\* n will be told of block b.
Told(n, b) == \E m \in ToSet(inbox[n]) : m.type = "inv" /\ m.block = b

PendingInv ==
    stale \/ \A n \in Node : candidate[n] # None =>
        \A b \in candidate[n].pending : Supplied(n, b)

KnowsInv ==
    stale \/ \A n \in Node : \A b \in knows[n] :
        b \in Has(Other(n)) \/ Told(Other(n), b) \/ Supplied(Other(n), b)

IInv ==
    /\ Typed
    /\ HandshakeInv
    /\ QueryInv
    /\ CandidateInv
    /\ DataInv
    /\ PendingInv
    /\ KnowsInv

-----------------------------------------------------------------------------
(* The two nodes, their messages and their blocks.                         *)

\* The other node of a node.
LEMMA OtherFacts ==
    ASSUME NEW n \in Node
    PROVE  /\ Other(n) \in Node /\ Other(n) # n /\ Other(Other(n)) = n
           /\ Node = {n, Other(n)}
<1>1. IsFiniteSet(Node) /\ Cardinality(Node) = 2
  BY SyncAssumption
<1>2. IsFiniteSet(Node \ {n}) /\ Cardinality(Node \ {n}) = 1
  BY <1>1, FS_RemoveElement
<1>3. PICK o : Node \ {n} = {o}
  BY <1>2, FS_Singleton
<1>4. o \in Node /\ o # n /\ Node = {n, o}
  BY <1>3
<1>5. \A x \in Node : x # n <=> x = o
  BY <1>4
<1>6. Other(n) = o /\ Other(o) = n
  BY <1>4, <1>5 DEF Other
<1> QED BY <1>4, <1>6

\* The fields of a message.
LEMMA MessageFields ==
    ASSUME NEW m \in Message
    PROVE  /\ m.type \in {"version", "status", "inv", "block", "getstatus", "getheaders", "headers", "getdata"}
           /\ m.type \in {"version", "status", "inv", "block"} => m.block \in Block
           /\ m.type = "getheaders" => m.locator \in SUBSET Block
           /\ m.type = "headers" => m.from \in Block /\ m.to \in Block
           /\ m.type = "getdata" => m.blocks \in SUBSET Block
BY DEF Message

\* The messages that the handlers send.
LEMMA MessagesSent ==
    /\ \A b \in Block, t \in {"version", "status", "inv", "block"} : [type |-> t, block |-> b] \in Honest
    /\ [type |-> "getstatus"] \in Honest
    /\ \A S \in SUBSET Block : /\ [type |-> "getheaders", locator |-> S] \in Honest
                               /\ [type |-> "getdata", blocks |-> S] \in Honest
    /\ \A b \in Block : \A a \in Chain[b] \cap Block : [type |-> "headers", from |-> a, to |-> b] \in Honest
BY DEF Honest, Message

\* A message is honest if it is one, and a list of honest messages is a list of
\* messages.
LEMMA HonestMessages ==
    /\ \A m \in Honest : m \in Message /\ (m.type = "headers" => m.from \in Chain[m.to])
    /\ Seq(Honest) \subseteq Seq(Message)
<1>1. Honest \subseteq Message
  BY DEF Honest
<1>2. ASSUME NEW s \in Seq(Honest) PROVE s \in Seq(Message)
  <2>1. Len(s) \in Nat /\ s \in [1 .. Len(s) -> Honest]
    BY LenProperties
  <2>2. s \in [1 .. Len(s) -> Message]
    BY <1>1, <2>1
  <2> QED BY <2>1, <2>2, SeqDef
<1> QED BY <1>1, <1>2 DEF Honest

\* What a list of messages contains.
LEMMA RangeFacts ==
    ASSUME NEW M, NEW s \in Seq(M)
    PROVE  /\ ToSet(s) \subseteq M
           /\ s # <<>> => /\ Head(s) \in ToSet(s) /\ Tail(s) \in Seq(M)
                          /\ ToSet(s) = {Head(s)} \cup ToSet(Tail(s))
           /\ \A u \in Seq(M) : s \o u \in Seq(M) /\ ToSet(s \o u) = ToSet(s) \cup ToSet(u)
<1>1. Len(s) \in Nat /\ DOMAIN s = 1 .. Len(s) /\ \A i \in DOMAIN s : s[i] \in M
  BY LenProperties
<1>2. s # <<>> => /\ Head(s) \in ToSet(s) /\ Tail(s) \in Seq(M)
                  /\ ToSet(s) = {Head(s)} \cup ToSet(Tail(s))
  <2> HAVE s # <<>>
  <2>1. /\ Len(s) >= 1 /\ Head(s) = s[1] /\ Tail(s) \in Seq(M)
        /\ DOMAIN Tail(s) = 1 .. (Len(s) - 1)
        /\ \A i \in 1 .. (Len(s) - 1) : Tail(s)[i] = s[i + 1]
    BY <1>1, EmptySeq, LenProperties, HeadTailProperties
  <2>2. Head(s) \in ToSet(s)
    BY <1>1, <2>1 DEF ToSet
  <2>3. ToSet(Tail(s)) \subseteq ToSet(s)
    BY <1>1, <2>1 DEF ToSet
  <2>4. ToSet(s) \subseteq {Head(s)} \cup ToSet(Tail(s))
    <3> SUFFICES ASSUME NEW i \in DOMAIN s PROVE s[i] \in {Head(s)} \cup ToSet(Tail(s))
      BY DEF ToSet
    <3>1. CASE i = 1
      BY <2>1, <3>1
    <3>2. CASE i # 1
      <4>1. i - 1 \in DOMAIN Tail(s) /\ Tail(s)[i - 1] = s[i]
        BY <1>1, <2>1, <3>2
      <4> QED BY <4>1 DEF ToSet
    <3> QED BY <3>1, <3>2
  <2> QED BY <2>1, <2>2, <2>3, <2>4
<1>3. ASSUME NEW u \in Seq(M) PROVE s \o u \in Seq(M) /\ ToSet(s \o u) = ToSet(s) \cup ToSet(u)
  <2>1. /\ s \o u \in Seq(M) /\ DOMAIN (s \o u) = 1 .. (Len(s) + Len(u))
        /\ Len(u) \in Nat /\ DOMAIN u = 1 .. Len(u)
        /\ \A i \in 1 .. (Len(s) + Len(u)) : (s \o u)[i] = IF i <= Len(s) THEN s[i] ELSE u[i - Len(s)]
    BY LenProperties, ConcatProperties
  <2>2. ToSet(s \o u) \subseteq ToSet(s) \cup ToSet(u)
    BY <1>1, <2>1 DEF ToSet
  <2>3. ToSet(s) \subseteq ToSet(s \o u)
    BY <1>1, <2>1 DEF ToSet
  <2>4. ASSUME NEW j \in DOMAIN u PROVE u[j] \in ToSet(s \o u)
    <3>1. j + Len(s) \in DOMAIN (s \o u) /\ (s \o u)[j + Len(s)] = u[j]
      BY <1>1, <2>1
    <3> QED BY <3>1 DEF ToSet
  <2> QED BY <2>1, <2>2, <2>3, <2>4 DEF ToSet
<1> QED BY <1>1, <1>2, <1>3 DEF ToSet

\* Short lists of messages.
LEMMA ShortLists ==
    /\ ToSet(<<>>) = {} /\ <<>> \in Seq(Honest)
    /\ \A m : ToSet(<<m>>) = {m}
    /\ \A m \in Honest : <<m>> \in Seq(Honest)
BY DEF ToSet

\* The counts of messages that are not there.
LEMMA CountNone ==
    ASSUME NEW M, NEW s \in Seq(M), NEW type
    PROVE  /\ Count(s, type) \in Nat
           /\ Count(s, type) = 0 <=> \A m \in ToSet(s) : m.type # type
<1>1. IsFiniteSet(Places(s, type)) /\ Count(s, type) \in Nat
  BY PlacesFinite
<1>2. Count(s, type) = 0 <=> Places(s, type) = {}
  BY <1>1, FS_EmptySet DEF Count
<1>3. Places(s, type) = {} <=> \A m \in ToSet(s) : m.type # type
  BY DEF Places, ToSet
<1> QED BY <1>1, <1>2, <1>3

-----------------------------------------------------------------------------
(* How a step changes the messages that are on their way.                  *)

\* The messages ms are sent by n, and nothing is taken.
Send(n, ms) == inbox' = [inbox EXCEPT ![Other(n)] = @ \o ms]

\* A handler takes the message at the head and sends the reply.
LEMMA ReplyFacts ==
    ASSUME Typed, NEW n \in Node, inbox[n] # <<>>, NEW ms \in Seq(Honest), Reply(n, ms)
    PROVE  /\ inbox' \in [Node -> Seq(Honest)]
           /\ Head(inbox[n]) \in Honest
           /\ ToSet(inbox[n]) = {Head(inbox[n])} \cup ToSet(inbox'[n])
           /\ ToSet(inbox'[Other(n)]) = ToSet(inbox[Other(n)]) \cup ToSet(ms)
           /\ \A type :
                /\ Count(inbox'[n], type) =
                     Count(inbox[n], type) - (IF Head(inbox[n]).type = type THEN 1 ELSE 0)
                /\ Count(inbox'[Other(n)], type) = Count(inbox[Other(n)], type) + Count(ms, type)
           /\ inbox[Other(n)] # <<>> => inbox'[Other(n)] # <<>>
                                        /\ Head(inbox'[Other(n)]) = Head(inbox[Other(n)])
<1> DEFINE s == inbox[n]
           u == inbox[Other(n)]
<1>1. Other(n) \in Node /\ Other(n) # n /\ Node = {n, Other(n)}
  BY OtherFacts
<1>2. s \in Seq(Honest) /\ u \in Seq(Honest) /\ DOMAIN inbox = Node
  BY <1>1 DEF Typed, SessionsTyped
<1>3. /\ Tail(s) \in Seq(Honest) /\ Head(s) \in ToSet(s) /\ ToSet(s) \subseteq Honest
      /\ ToSet(s) = {Head(s)} \cup ToSet(Tail(s))
  BY <1>2, RangeFacts
<1>4. u \o ms \in Seq(Honest) /\ ToSet(u \o ms) = ToSet(u) \cup ToSet(ms)
  BY <1>2, RangeFacts
<1>5. inbox'[n] = Tail(s) /\ inbox'[Other(n)] = u \o ms /\ DOMAIN inbox' = Node
  BY <1>1, <1>2 DEF Reply
<1>6. inbox' \in [Node -> Seq(Honest)]
  BY <1>1, <1>2, <1>3, <1>4 DEF Reply
<1>7. \A type : /\ Count(Tail(s), type) = Count(s, type) - (IF Head(s).type = type THEN 1 ELSE 0)
                /\ Count(u \o ms, type) = Count(u, type) + Count(ms, type)
  BY <1>2, CountTail, CountConcat
<1>8. u # <<>> => u \o ms # <<>> /\ Head(u \o ms) = Head(u)
  <2> HAVE u # <<>>
  <2>1. Len(u) \in Nat \ {0} /\ Head(u) = u[1] /\ Len(ms) \in Nat
    BY <1>2, EmptySeq, LenProperties, HeadTailProperties
  <2>2. Len(u \o ms) = Len(u) + Len(ms) /\ (u \o ms)[1] = u[1]
    BY <1>2, <2>1, ConcatProperties
  <2> QED BY <1>4, <2>1, <2>2, EmptySeq, HeadTailProperties
<1> QED BY <1>3, <1>4, <1>5, <1>6, <1>7, <1>8

\* A node sends messages on its own account.
LEMMA SendFacts ==
    ASSUME Typed, NEW n \in Node, NEW ms \in Seq(Honest), Send(n, ms)
    PROVE  /\ inbox' \in [Node -> Seq(Honest)]
           /\ inbox'[n] = inbox[n]
           /\ ToSet(inbox'[Other(n)]) = ToSet(inbox[Other(n)]) \cup ToSet(ms)
           /\ \A type : Count(inbox'[Other(n)], type) = Count(inbox[Other(n)], type) + Count(ms, type)
           /\ inbox[Other(n)] # <<>> => inbox'[Other(n)] # <<>>
                                        /\ Head(inbox'[Other(n)]) = Head(inbox[Other(n)])
<1> DEFINE u == inbox[Other(n)]
<1>1. Other(n) \in Node /\ Other(n) # n /\ Node = {n, Other(n)}
  BY OtherFacts
<1>2. u \in Seq(Honest) /\ inbox[n] \in Seq(Honest) /\ DOMAIN inbox = Node
  BY <1>1 DEF Typed, SessionsTyped
<1>3. u \o ms \in Seq(Honest) /\ ToSet(u \o ms) = ToSet(u) \cup ToSet(ms)
  BY <1>2, RangeFacts
<1>4. inbox'[n] = inbox[n] /\ inbox'[Other(n)] = u \o ms /\ DOMAIN inbox' = Node
  BY <1>1, <1>2 DEF Send
<1>5. inbox' \in [Node -> Seq(Honest)]
  BY <1>1, <1>2, <1>3 DEF Send
<1>6. \A type : Count(u \o ms, type) = Count(u, type) + Count(ms, type)
  BY <1>2, CountConcat
<1>7. u # <<>> => u \o ms # <<>> /\ Head(u \o ms) = Head(u)
  <2> HAVE u # <<>>
  <2>1. Len(u) \in Nat \ {0} /\ Head(u) = u[1] /\ Len(ms) \in Nat
    BY <1>2, EmptySeq, LenProperties, HeadTailProperties
  <2>2. Len(u \o ms) = Len(u) + Len(ms) /\ (u \o ms)[1] = u[1]
    BY <1>2, <2>1, ConcatProperties
  <2> QED BY <1>3, <2>1, <2>2, EmptySeq, HeadTailProperties
<1> QED BY <1>3, <1>4, <1>5, <1>6, <1>7

-----------------------------------------------------------------------------
(* What the messages say and what the nodes have.  A step takes the        *)
(* messages gone from n and sends the messages sent to the other node.     *)

Messages(n, gone, sent) ==
    /\ ToSet(inbox'[n]) \subseteq ToSet(inbox[n])
    /\ ToSet(inbox[n]) \subseteq ToSet(inbox'[n]) \cup gone
    /\ ToSet(inbox'[Other(n)]) = ToSet(inbox[Other(n)]) \cup sent

\* No node loses a block.
Grows == \A k \in Node : Has(k) \subseteq Has(k)'

\* What a message that has been handled was about has not been forgotten.
Done(n, h) ==
    /\ h.type = "inv" => h.block \in Has(n)' \/ Supplied(n, h.block)'
    /\ h.type = "block" => /\ h.block \in Has(n)'
                           /\ candidate'[n] # None => h.block \notin candidate'[n].pending
    /\ h.type = "getdata" => \A b \in h.blocks : Supplied(Other(n), b)'

\* A message that is not of these types has no such effect.
LEMMA DoneTrivially ==
    ASSUME NEW n, NEW h, h.type \notin {"inv", "block", "getdata"}
    PROVE  Done(n, h)
BY DEF Done

\* The messages on their way still tell the truth.
LEMMA DataStep ==
    ASSUME DataInv, Typed, NEW n \in Node, NEW gone, NEW sent, Messages(n, gone, sent),
           stale => stale',
           ~stale' => Grows /\ \A m \in sent : Backed(Other(n), m)'
    PROVE  DataInv'
<1> SUFFICES ASSUME ~stale', NEW k \in Node, NEW m \in ToSet(inbox'[k]) PROVE Backed(k, m)'
  BY DEF DataInv
<1>1. Other(n) \in Node /\ Node = {n, Other(n)} /\ Other(k) \in Node
  BY OtherFacts
<1>2. Has(k) \subseteq Has(k)' /\ Has(Other(k)) \subseteq Has(Other(k))'
  BY <1>1 DEF Grows
<1>3. CASE m \in ToSet(inbox[k])
  <2>1. Backed(k, m)
    BY <1>3 DEF DataInv
  <2> QED BY <1>2, <2>1 DEF Backed
<1>4. CASE m \notin ToSet(inbox[k])
  <2>1. k = Other(n) /\ m \in sent
    BY <1>1, <1>4 DEF Messages
  <2>2. Backed(Other(n), m)'
    BY <2>1
  <2> QED BY <2>1, <2>2
<1> QED BY <1>3, <1>4

\* A block that has been sent or asked for still is, or its message has been handled.
LEMMA SuppliedStep ==
    ASSUME NEW n \in Node, NEW gone, NEW sent, Messages(n, gone, sent),
           NEW k \in Node, NEW b, Supplied(k, b)
    PROVE  \/ Supplied(k, b)'
           \/ k = n /\ \E h \in gone : h.type = "block" /\ h.block = b
           \/ k = Other(n) /\ \E h \in gone : h.type = "getdata" /\ b \in h.blocks
<1>1. Other(n) \in Node /\ Node = {n, Other(n)} /\ Other(Other(n)) = n
  BY OtherFacts
<1>2. CASE k = n
  BY <1>1, <1>2 DEF Messages, Supplied
<1>3. CASE k = Other(n)
  BY <1>1, <1>3 DEF Messages, Supplied
<1> QED BY <1>1, <1>2, <1>3

\* The candidates get the blocks they wait for.
LEMMA PendingStep ==
    ASSUME PendingInv, NEW n \in Node, NEW gone, NEW sent, Messages(n, gone, sent),
           stale => stale',
           ~stale' => \A h \in gone : Done(n, h),
           ~stale' => \A k \in Node : candidate'[k] # None =>
                         \A b \in candidate'[k].pending :
                             Supplied(k, b)' \/ (candidate[k] # None /\ b \in candidate[k].pending)
    PROVE  PendingInv'
<1> SUFFICES ASSUME ~stale', NEW k \in Node, candidate'[k] # None, NEW b \in candidate'[k].pending
             PROVE  Supplied(k, b)'
  BY DEF PendingInv
<1>1. CASE Supplied(k, b)
  <2>1. CASE k = n /\ \E h \in gone : h.type = "block" /\ h.block = b
    BY <2>1 DEF Done
  <2>2. CASE k = Other(n) /\ \E h \in gone : h.type = "getdata" /\ b \in h.blocks
    <3>1. PICK h \in gone : h.type = "getdata" /\ b \in h.blocks
      BY <2>2
    <3>2. Supplied(Other(n), b)'
      BY <3>1 DEF Done
    <3> QED BY <2>2, <3>2
  <2> QED BY <1>1, <2>1, <2>2, SuppliedStep
<1>2. CASE ~Supplied(k, b)
  BY <1>2 DEF PendingInv
<1> QED BY <1>1, <1>2

\* What a session takes its peer to know, the peer has or is told of.
LEMMA KnowsStep ==
    ASSUME KnowsInv, NEW n \in Node, NEW gone, NEW sent, Messages(n, gone, sent),
           stale => stale',
           ~stale' => Grows /\ \A h \in gone : Done(n, h),
           ~stale' => \A k \in Node : \A b \in knows'[k] :
                         b \in knows[k] \/ b \in Has(Other(k))' \/ Told(Other(k), b)'
    PROVE  KnowsInv'
<1> SUFFICES ASSUME ~stale', NEW k \in Node, NEW b \in knows'[k], b \in knows[k]
             PROVE  (b \in Has(Other(k)) \/ Told(Other(k), b) \/ Supplied(Other(k), b))'
  BY DEF KnowsInv
<1> DEFINE o == Other(k)
<1>1. o \in Node /\ Other(n) \in Node /\ Node = {n, Other(n)} /\ Other(Other(n)) = n
  BY OtherFacts
<1>2. b \in Has(o) \/ Told(o, b) \/ Supplied(o, b)
  BY DEF KnowsInv
<1>3. CASE b \in Has(o)
  <2>1. Has(o) \subseteq Has(o)'
    BY <1>1 DEF Grows
  <2> QED BY <1>3, <2>1
<1>4. CASE Told(o, b)
  <2>1. PICK m \in ToSet(inbox[o]) : m.type = "inv" /\ m.block = b
    BY <1>4 DEF Told
  <2>2. CASE m \in ToSet(inbox'[o])
    BY <2>1, <2>2 DEF Told
  <2>3. CASE m \notin ToSet(inbox'[o])
    <3>1. o = n /\ m \in gone
      BY <1>1, <2>1, <2>3 DEF Messages
    <3>2. b \in Has(n)' \/ Supplied(n, b)'
      BY <2>1, <3>1 DEF Done
    <3> QED BY <3>1, <3>2
  <2> QED BY <2>2, <2>3
<1>5. CASE Supplied(o, b)
  <2>1. CASE o = n /\ \E h \in gone : h.type = "block" /\ h.block = b
    <3>1. b \in Has(n)'
      BY <2>1 DEF Done
    <3> QED BY <2>1, <3>1
  <2>2. CASE o = Other(n) /\ \E h \in gone : h.type = "getdata" /\ b \in h.blocks
    <3>1. PICK h \in gone : h.type = "getdata" /\ b \in h.blocks
      BY <2>2
    <3>2. Supplied(Other(n), b)'
      BY <3>1 DEF Done
    <3> QED BY <2>2, <3>2
  <2> QED BY <1>1, <1>5, <2>1, <2>2, SuppliedStep
<1> QED BY <1>2, <1>3, <1>4, <1>5

-----------------------------------------------------------------------------
(* What a handler has to take care of.                                     *)

\* Nothing changes but for n.
OnlyAt(n) ==
    /\ chain'[Other(n)] = chain[Other(n)] /\ side'[Other(n)] = side[Other(n)]
    /\ announced'[Other(n)] = announced[Other(n)] /\ candidate'[Other(n)] = candidate[Other(n)]
    /\ knows'[Other(n)] = knows[Other(n)] /\ score'[Other(n)] = score[Other(n)]
    /\ up' = up /\ stale' = stale

\* What n and its messages lose and gain.
Keeps(n, gone, sent) ==
    /\ Has(n) \subseteq Has(n)'
    /\ \A h \in gone : Done(n, h)
    /\ \A m \in sent : Backed(Other(n), m)'
    /\ candidate'[n] # None =>
          \A b \in candidate'[n].pending :
              Supplied(n, b)' \/ (candidate[n] # None /\ b \in candidate[n].pending)
    /\ \A b \in knows'[n] : b \in knows[n] \/ b \in Has(Other(n))' \/ Told(Other(n), b)'

\* The parts of the invariant that are about blocks.
LEMMA BlocksKept ==
    ASSUME IInv, NEW n \in Node, NEW gone, NEW sent, Messages(n, gone, sent),
           OnlyAt(n), ~stale => Keeps(n, gone, sent)
    PROVE  DataInv' /\ PendingInv' /\ KnowsInv'
<1>1. Other(n) \in Node /\ Node = {n, Other(n)} /\ Other(Other(n)) = n
  BY OtherFacts
<1>2. stale' = stale /\ Typed
  BY DEF OnlyAt, IInv
<1>3. Has(Other(n))' = Has(Other(n))
  BY DEF OnlyAt, Has
<1>4. ~stale => Grows
  BY <1>1, <1>3 DEF Keeps, Grows
<1>5. DataInv'
  BY <1>2, <1>4, DataStep DEF IInv, Keeps
<1>6. PendingInv'
  <2>1. ~stale' => \A k \in Node : candidate'[k] # None =>
                      \A b \in candidate'[k].pending :
                          Supplied(k, b)' \/ (candidate[k] # None /\ b \in candidate[k].pending)
    BY <1>1, <1>2 DEF Keeps, OnlyAt
  <2> QED BY <1>2, <2>1, PendingStep DEF IInv, Keeps
<1>7. KnowsInv'
  <2>1. ~stale' => \A k \in Node : \A b \in knows'[k] :
                      b \in knows[k] \/ b \in Has(Other(k))' \/ Told(Other(k), b)'
    BY <1>1, <1>2 DEF Keeps, OnlyAt
  <2> QED BY <1>2, <1>4, <2>1, KnowsStep DEF IInv, Keeps
<1> QED BY <1>5, <1>6, <1>7

\* The candidate of the other node is as good as it was.
LEMMA OtherCandidateKept ==
    ASSUME CandidateInv, NEW n \in Node, OnlyAt(n)
    PROVE  CandidateOf(Other(n))'
BY OtherFacts DEF CandidateInv, CandidateOf, OnlyAt

\* What a handler takes and sends changes the requests that are outstanding.
LEMMA OutstandingStep ==
    ASSUME Typed, NEW n \in Node, inbox[n] # <<>>, NEW ms \in Seq(Honest), Reply(n, ms)
    PROVE  LET type == Head(inbox[n]).type
           IN  /\ Outstanding(n) \in Nat
               /\ type = "headers" => Outstanding(n) > 0
               /\ Outstanding(n)' = Outstanding(n) - (IF type = "headers" THEN 1 ELSE 0)
                                                   + Count(ms, "getheaders")
               /\ Outstanding(Other(n))' = Outstanding(Other(n)) - (IF type = "getheaders" THEN 1 ELSE 0)
                                                                 + Count(ms, "headers")
               /\ Outstanding(Other(n)) \in Nat
<1> DEFINE o == Other(n)
           h == Head(inbox[n])
<1>1. o \in Node /\ o # n /\ Node = {n, o} /\ Other(o) = n
  BY OtherFacts
<1>2. inbox[n] \in Seq(Honest) /\ inbox[o] \in Seq(Honest)
  BY <1>1 DEF Typed
<1>3. \A type : Count(inbox[n], type) \in Nat /\ Count(inbox[o], type) \in Nat /\ Count(ms, type) \in Nat
  BY <1>2, CountNone
<1>4. /\ ToSet(inbox[n]) = {h} \cup ToSet(inbox'[n])
      /\ \A type :
           /\ Count(inbox'[n], type) = Count(inbox[n], type) - (IF h.type = type THEN 1 ELSE 0)
           /\ Count(inbox'[o], type) = Count(inbox[o], type) + Count(ms, type)
  BY ReplyFacts
<1>5. Count(inbox[n], h.type) # 0
  BY <1>2, <1>4, CountNone
<1>6. Outstanding(n) \in Nat /\ Outstanding(o) \in Nat
  BY <1>1, <1>3 DEF Outstanding
<1>7. h.type = "headers" => Outstanding(n) > 0
  BY <1>1, <1>3, <1>5 DEF Outstanding
<1>8. Outstanding(n)' = Outstanding(n) - (IF h.type = "headers" THEN 1 ELSE 0) + Count(ms, "getheaders")
  BY <1>1, <1>3, <1>4 DEF Outstanding
<1>9. Outstanding(o)' = Outstanding(o) - (IF h.type = "getheaders" THEN 1 ELSE 0) + Count(ms, "headers")
  BY <1>1, <1>3, <1>4 DEF Outstanding
<1> QED BY <1>6, <1>7, <1>8, <1>9

\* A handler of n that neither takes headers nor asks for any.
LEMMA OutstandingKept ==
    ASSUME Typed, NEW n \in Node, inbox[n] # <<>>, NEW ms \in Seq(Honest), Reply(n, ms),
           Head(inbox[n]).type # "headers", Count(ms, "getheaders") = 0
    PROVE  Outstanding(n)' = Outstanding(n)
<1>1. Outstanding(n) \in Nat
  BY OutstandingStep
<1>2. Outstanding(n)' = Outstanding(n) - (IF Head(inbox[n]).type = "headers" THEN 1 ELSE 0)
                                       + Count(ms, "getheaders")
  BY OutstandingStep
<1> QED BY <1>1, <1>2

\* A handler of n takes the message at the head and replies: it answers requests
\* for headers, and leaves the handshake to Connect.
LEMMA HandlerKeeps ==
    ASSUME IInv, NEW n \in Node, inbox[n] # <<>>, NEW ms \in Seq(Honest), Reply(n, ms),
           NEW gone, gone = {Head(inbox[n])}, NEW sent, sent = ToSet(ms),
           OnlyAt(n), ~stale => Keeps(n, gone, sent),
           Count(ms, "version") = 0,
           Count(ms, "headers") = IF Head(inbox[n]).type = "getheaders" THEN 1 ELSE 0
    PROVE  Typed' /\ QueryOf(n)' /\ CandidateOf(n)' => IInv'
<1> DEFINE o == Other(n)
           h == Head(inbox[n])
<1>1. o \in Node /\ o # n /\ Node = {n, o} /\ Other(o) = n
  BY OtherFacts
<1>2. Typed /\ HandshakeInv /\ QueryInv /\ CandidateInv
  BY DEF IInv
<1>3. inbox[n] \in Seq(Honest) /\ inbox[o] \in Seq(Honest)
  BY <1>1, <1>2 DEF Typed
<1>4. \A type : Count(inbox[n], type) \in Nat /\ Count(inbox[o], type) \in Nat /\ Count(ms, type) \in Nat
  BY <1>3, CountNone
<1>5. /\ ToSet(inbox[n]) = {h} \cup ToSet(inbox'[n])
      /\ ToSet(inbox'[o]) = ToSet(inbox[o]) \cup ToSet(ms)
      /\ \A type :
           /\ Count(inbox'[n], type) = Count(inbox[n], type) - (IF h.type = type THEN 1 ELSE 0)
           /\ Count(inbox'[o], type) = Count(inbox[o], type) + Count(ms, type)
      /\ inbox[o] # <<>> => inbox'[o] # <<>> /\ Head(inbox'[o]) = Head(inbox[o])
  BY <1>2, ReplyFacts
<1>6. Count(inbox[n], h.type) # 0
  BY <1>3, <1>5, CountNone
<1>7. QueryOf(o)'
  <2>1. QueryOf(o)
    BY <1>1, <1>2 DEF QueryInv
  <2>2. Outstanding(o) \in Nat
    BY <1>2, OutstandingStep
  <2>3. Outstanding(o)' = Outstanding(o) - (IF h.type = "getheaders" THEN 1 ELSE 0) + Count(ms, "headers")
    BY <1>2, OutstandingStep
  <2>4. Outstanding(o)' = Outstanding(o)
    BY <2>2, <2>3
  <2> QED BY <2>1, <2>4 DEF QueryOf, Waits, OnlyAt
<1>8. HandshakeInv'
  <2>1. up /\ up' = up
    BY <1>2 DEF HandshakeInv, OnlyAt
  <2>2. Count(inbox'[n], "version") = 0
    BY <1>2, <1>4, <1>5, <1>6 DEF HandshakeInv
  <2>3. Count(inbox'[o], "version") = Count(inbox[o], "version")
    BY <1>4, <1>5
  <2>4. Count(inbox[o], "version") > 0 => inbox[o] # <<>>
    BY CountShort
  <2>5. Fresh(o) => Fresh(o)'
    BY DEF Fresh, OnlyAt
  <2> QED BY <1>1, <1>2, <1>5, <2>1, <2>2, <2>3, <2>4, <2>5 DEF HandshakeInv
<1>9. CandidateOf(o)'
  BY <1>2, OtherCandidateKept
<1>10. DataInv' /\ PendingInv' /\ KnowsInv'
  <2>1. Messages(n, gone, sent)
    BY <1>5 DEF Messages
  <2> QED BY <2>1, BlocksKept
<1> QED BY <1>1, <1>7, <1>8, <1>9, <1>10 DEF IInv, QueryInv, CandidateInv

-----------------------------------------------------------------------------
(* The handlers that leave the chain and the candidate alone.              *)

\* The message that a handler finds at the head of the inbox.
LEMMA HeadFacts ==
    ASSUME IInv, NEW n \in Node, NEW type, Handles(n, type)
    PROVE  LET m == Head(inbox[n])
           IN  /\ inbox[n] # <<>> /\ announced[n] = None /\ m.type = type
               /\ m \in Message /\ Count(inbox[n], type) > 0
               /\ type \in {"version", "status", "inv", "block"} => m.block \in Block
               /\ type = "getheaders" => m.locator \in SUBSET Block
               /\ type = "headers" => m.from \in Block /\ m.to \in Block /\ m.from \in Chain[m.to]
               /\ type = "getdata" => m.blocks \in SUBSET Block
               /\ ~stale => Backed(n, m)
<1> DEFINE m == Head(inbox[n])
<1>1. inbox[n] # <<>> /\ announced[n] = None /\ m.type = type
  BY DEF Handles
<1>2. inbox[n] \in Seq(Honest)
  BY DEF IInv, Typed
<1>3. m \in ToSet(inbox[n]) /\ m \in Honest
  BY <1>1, <1>2, RangeFacts
<1>4. Count(inbox[n], type) > 0
  <2>1. Count(inbox[n], type) \in Nat /\ Count(inbox[n], type) # 0
    BY <1>1, <1>2, <1>3, CountNone
  <2> QED BY <2>1
<1>5. m \in Message /\ (m.type = "headers" => m.from \in Chain[m.to])
  BY <1>3, HonestMessages
<1>6. ~stale => Backed(n, m)
  BY <1>3 DEF IInv, DataInv
<1> QED BY <1>1, <1>4, <1>5, <1>6, MessageFields

\* The types of the variables, one by one.
LEMMA TypedFacts ==
    ASSUME Typed
    PROVE  /\ chain \in [Node -> Block] /\ side \in [Node -> SUBSET Block]
           /\ inbox \in [Node -> Seq(Honest)]
           /\ announced \in [Node -> Block \cup {None}]
           /\ candidate \in [Node -> Candidate \cup {None}]
           /\ knows \in [Node -> SUBSET Block] /\ score \in [Node -> Nat]
           /\ \A n \in Node : /\ IsFiniteSet(side[n]) /\ IsFiniteSet(Has(n)) /\ Has(n) \in SUBSET Block
                              /\ chain[n] \in Block /\ chain[n] \in Has(n)
                              /\ Chain[chain[n]] \subseteq Block
<1>1. ASSUME NEW n \in Node
      PROVE  /\ IsFiniteSet(side[n]) /\ IsFiniteSet(Has(n)) /\ Has(n) \in SUBSET Block
             /\ chain[n] \in Block /\ chain[n] \in Has(n)
             /\ Chain[chain[n]] \subseteq Block
  <2>1. IsFiniteSet(side[n]) /\ side[n] \in SUBSET Block /\ chain[n] \in Block
    BY DEF Typed, SessionsTyped
  <2>2. IsFiniteSet(Chain[chain[n]])
    BY <2>1, FiniteChains
  <2>3. IsFiniteSet(Has(n))
    BY <2>1, <2>2, FS_Union DEF Has
  <2> QED BY <2>1, <2>3, ChainFacts DEF Has
<1>2. inbox \in [Node -> Seq(Honest)]
  BY DEF Typed, SessionsTyped
<1> QED BY <1>1, <1>2 DEF Typed, SessionsTyped

\* A variable of a type in the next state makes a typed state.
LEMMA TypedNext ==
    ASSUME /\ chain' \in [Node -> Block] /\ side' \in [Node -> SUBSET Block]
           /\ inbox' \in [Node -> Seq(Honest)]
           /\ announced' \in [Node -> Block \cup {None}]
           /\ candidate' \in [Node -> Candidate \cup {None}]
           /\ knows' \in [Node -> SUBSET Block] /\ score' \in [Node -> Nat]
           /\ up' \in BOOLEAN /\ stale' \in BOOLEAN
           /\ moves' \in 0 .. MaxMoves /\ drops' \in 0 .. MaxDrops
           /\ \A n \in Node : IsFiniteSet(side'[n])
    PROVE  Typed'
<1>1. inbox' \in [Node -> Seq(Message)]
  BY HonestMessages
<1>2. \A n \in Node : inbox'[n] \in Seq(Honest)
  OBVIOUS
<1> QED BY <1>1, <1>2 DEF Typed, SessionsTyped

\* The candidate of n stays as it is, and the chain is at most extended.
LEMMA SessionKept ==
    ASSUME IInv, NEW n \in Node, candidate'[n] = candidate[n], score'[n] = score[n],
           stale' = stale, Chain[chain[n]] \subseteq Chain[chain'[n]],
           Outstanding(n)' = Outstanding(n), announced'[n] # None => candidate[n] = None
    PROVE  QueryOf(n)' /\ CandidateOf(n)'
<1>1. QueryOf(n) /\ CandidateOf(n)
  BY DEF IInv, QueryInv, CandidateInv
<1>2. QueryOf(n)'
  BY <1>1 DEF QueryOf, Waits
<1>3. CandidateOf(n)'
  BY <1>1 DEF CandidateOf
<1> QED BY <1>2, <1>3

\* The dialer takes its peer to know its tip, and compares the chains.
LEMMA HandleVersionKeeps ==
    ASSUME IInv, NEW n \in Node, HandleVersion(n)
    PROVE  IInv'
<1> DEFINE m == Head(inbox[n])
<1> PICK gone, ms, sent : gone = {m} /\ ms = <<>> /\ sent = {}
  OBVIOUS
<1>1. Other(n) \in Node /\ Other(n) # n
  BY OtherFacts
<1>2. Handles(n, "version") /\ Reply(n, ms)
  BY DEF HandleVersion, Reply
<1>3. /\ inbox[n] # <<>> /\ m.type = "version" /\ m.block \in Block
      /\ Count(inbox[n], "version") > 0
      /\ ~stale => Backed(n, m)
  BY <1>2, HeadFacts
<1>4. Fresh(n)
  BY <1>3 DEF IInv, HandshakeInv
<1>5. ms \in Seq(Honest) /\ sent = ToSet(ms) /\ \A type : Count(ms, type) = 0
  BY ShortLists, CountShort
<1>6. Typed'
  BY <1>2, <1>3, <1>5, ReplyFacts, TypedFacts, TypedNext
     DEF HandleVersion, data, outside, IInv, Typed, SessionsTyped
<1>7. knows'[n] = {m.block} /\ OnlyAt(n)
  BY <1>1, TypedFacts DEF HandleVersion, data, outside, OnlyAt, IInv
<1>8. ~stale => Keeps(n, gone, sent)
  BY <1>3, <1>7, DoneTrivially DEF HandleVersion, data, Keeps, Has, Backed
<1>9. Outstanding(n)' = Outstanding(n)
  BY <1>2, <1>3, <1>5, OutstandingKept DEF IInv
<1>10. QueryOf(n)'
  BY <1>4, <1>9 DEF HandleVersion, IInv, QueryInv, QueryOf, Fresh, Waits
<1>11. CandidateOf(n)'
  BY <1>4 DEF HandleVersion, CandidateOf, Fresh
<1>12. Typed' /\ QueryOf(n)' /\ CandidateOf(n)' => IInv'
  BY <1>2, <1>3, <1>5, <1>7, <1>8, HandlerKeeps
<1> QED BY <1>6, <1>10, <1>11, <1>12

\* The answer names the tip, which the node has.
LEMMA HandleGetStatusKeeps ==
    ASSUME IInv, NEW n \in Node, HandleGetStatus(n)
    PROVE  IInv'
<1> DEFINE m == Head(inbox[n])
<1> PICK r, gone, ms, sent : /\ r = [type |-> "status", block |-> chain[n]]
                             /\ gone = {m} /\ ms = <<r>> /\ sent = {r}
  OBVIOUS
<1>1. Other(n) \in Node /\ Other(n) # n /\ Other(Other(n)) = n
  BY OtherFacts
<1>2. Handles(n, "getstatus") /\ Reply(n, ms)
  BY DEF HandleGetStatus, Reply
<1>3. inbox[n] # <<>> /\ m.type = "getstatus" /\ announced[n] = None
  BY <1>2, HeadFacts
<1>4. chain[n] \in Block /\ chain[n] \in Has(n) /\ Typed
  BY TypedFacts DEF IInv
<1>5. r \in Honest /\ r.type = "status" /\ r.block = chain[n]
  BY <1>4, MessagesSent
<1>6. /\ ms \in Seq(Honest) /\ sent = ToSet(ms)
      /\ \A type : Count(ms, type) = IF r.type = type THEN 1 ELSE 0
  BY <1>5, ShortLists, CountShort
<1>7. Typed'
  BY <1>2, <1>3, <1>4, <1>6, ReplyFacts, TypedFacts, TypedNext
     DEF HandleGetStatus, data, outside, Typed, SessionsTyped
<1>8. OnlyAt(n)
  BY <1>1, TypedFacts DEF HandleGetStatus, data, outside, OnlyAt, IInv
<1>9. Has(n)' = Has(n)
  BY DEF HandleGetStatus, data, Has
<1>10. Backed(Other(n), r)'
  BY <1>1, <1>4, <1>5, <1>9 DEF Backed
<1>11. ~stale => Keeps(n, gone, sent)
  BY <1>3, <1>9, <1>10, DoneTrivially DEF HandleGetStatus, Keeps
<1>12. Outstanding(n)' = Outstanding(n)
  BY <1>2, <1>3, <1>4, <1>5, <1>6, OutstandingKept
<1>13. QueryOf(n)' /\ CandidateOf(n)'
  BY <1>3, <1>12, SessionKept DEF HandleGetStatus, data, outside
<1>14. Count(ms, "version") = 0 /\ Count(ms, "headers") = 0
  BY <1>5, <1>6
<1>15. Typed' /\ QueryOf(n)' /\ CandidateOf(n)' => IInv'
  BY <1>2, <1>3, <1>6, <1>8, <1>11, <1>14, HandlerKeeps
<1> QED BY <1>7, <1>13, <1>15

\* A node without a candidate may note the tip it hears of.
LEMMA HandleStatusKeeps ==
    ASSUME IInv, NEW n \in Node, HandleStatus(n)
    PROVE  IInv'
<1> DEFINE m == Head(inbox[n])
<1> PICK gone, ms, sent : gone = {m} /\ ms = <<>> /\ sent = {}
  OBVIOUS
<1>1. Other(n) \in Node /\ Other(n) # n
  BY OtherFacts
<1>2. Handles(n, "status") /\ Reply(n, ms)
  BY DEF HandleStatus, Reply
<1>3. inbox[n] # <<>> /\ m.type = "status" /\ m.block \in Block
  BY <1>2, HeadFacts
<1>4. ms \in Seq(Honest) /\ sent = ToSet(ms) /\ \A type : Count(ms, type) = 0
  BY ShortLists, CountShort
<1>5. Typed'
  BY <1>2, <1>3, <1>4, ReplyFacts, TypedFacts, TypedNext
     DEF HandleStatus, data, outside, IInv, Typed, SessionsTyped
<1>6. OnlyAt(n)
  BY <1>1, TypedFacts DEF HandleStatus, data, outside, OnlyAt, IInv
<1>7. ~stale => Keeps(n, gone, sent)
  BY <1>3, DoneTrivially DEF HandleStatus, data, Keeps, Has
<1>8. Outstanding(n)' = Outstanding(n)
  BY <1>2, <1>3, <1>4, OutstandingKept DEF IInv
<1>9. announced'[n] # None => candidate[n] = None
  BY TypedFacts DEF HandleStatus, IInv
<1>10. QueryOf(n)' /\ CandidateOf(n)'
  BY <1>8, <1>9, SessionKept DEF HandleStatus, data, outside
<1>11. Count(ms, "version") = 0 /\ Count(ms, "headers") = 0
  BY <1>4
<1>12. Typed' /\ QueryOf(n)' /\ CandidateOf(n)' => IInv'
  BY <1>2, <1>3, <1>4, <1>6, <1>7, <1>11, HandlerKeeps
<1> QED BY <1>5, <1>10, <1>12

\* The headers are a piece of the node's chain.
LEMMA HandleGetHeadersKeeps ==
    ASSUME IInv, NEW n \in Node, HandleGetHeaders(n)
    PROVE  IInv'
<1> DEFINE m == Head(inbox[n])
           from == ForkOf(m.locator, chain[n])
           to == LastHeader(from, chain[n])
<1> PICK r, gone, ms, sent : /\ r = [type |-> "headers", from |-> from, to |-> to]
                             /\ gone = {m} /\ ms = <<r>> /\ sent = {r}
  OBVIOUS
<1>1. Other(n) \in Node /\ Other(n) # n /\ Other(Other(n)) = n
  BY OtherFacts
<1>2. Handles(n, "getheaders") /\ Reply(n, ms)
  BY DEF HandleGetHeaders, Reply
<1>3. inbox[n] # <<>> /\ m.type = "getheaders" /\ m.locator \in SUBSET Block /\ announced[n] = None
  BY <1>2, HeadFacts
<1>4. chain[n] \in Block /\ Typed
  BY TypedFacts DEF IInv
<1>5. to \in Chain[chain[n]] /\ from \in Chain[to] /\ from \in Block /\ to \in Block
  BY <1>3, <1>4, AnswerFacts
<1>6. Chain[to] \subseteq Has(n)
  BY <1>4, <1>5, ChainFacts DEF Has
<1> HIDE DEF from, to
<1>7. r \in Honest /\ r.type = "headers" /\ r.to = to
  BY <1>5, MessagesSent
<1>8. /\ ms \in Seq(Honest) /\ sent = ToSet(ms)
      /\ \A type : Count(ms, type) = IF r.type = type THEN 1 ELSE 0
  BY <1>7, ShortLists, CountShort
<1>9. Typed'
  BY <1>2, <1>3, <1>4, <1>8, ReplyFacts, TypedFacts, TypedNext
     DEF HandleGetHeaders, data, outside, Typed, SessionsTyped
<1>10. OnlyAt(n)
  BY <1>1, TypedFacts DEF HandleGetHeaders, data, outside, OnlyAt, IInv
<1>11. Has(n)' = Has(n)
  BY DEF HandleGetHeaders, data, Has
<1>12. Backed(Other(n), r)'
  BY <1>1, <1>6, <1>7, <1>11 DEF Backed
<1>13. ~stale => Keeps(n, gone, sent)
  BY <1>3, <1>11, <1>12, DoneTrivially DEF HandleGetHeaders, Keeps
<1>14. Outstanding(n)' = Outstanding(n)
  BY <1>2, <1>3, <1>4, <1>7, <1>8, OutstandingKept
<1>15. QueryOf(n)' /\ CandidateOf(n)'
  BY <1>3, <1>14, SessionKept DEF HandleGetHeaders, data, outside
<1>16. Count(ms, "version") = 0 /\ Count(ms, "headers") = 1
  BY <1>7, <1>8
<1>17. Typed' /\ QueryOf(n)' /\ CandidateOf(n)' => IInv'
  BY <1>2, <1>3, <1>8, <1>10, <1>13, <1>16, HandlerKeeps
<1> QED BY <1>9, <1>15, <1>17

\* A block that the node has not got is asked for.
LEMMA HandleInvKeeps ==
    ASSUME IInv, NEW n \in Node, HandleInv(n)
    PROVE  IInv'
<1> PICK m, b : m = Head(inbox[n]) /\ b = m.block
  OBVIOUS
<1> PICK r, gone, ms, sent : /\ r = [type |-> "getdata", blocks |-> {b}] /\ gone = {m}
                             /\ ms = IF b \in Has(n) THEN <<>> ELSE <<r>>
                             /\ sent = IF b \in Has(n) THEN {} ELSE {r}
  OBVIOUS
<1>1. Other(n) \in Node /\ Other(n) # n /\ Other(Other(n)) = n
  BY OtherFacts
<1>2. Handles(n, "inv") /\ Reply(n, ms)
  BY DEF HandleInv, Reply
<1>3. /\ inbox[n] # <<>> /\ m.type = "inv" /\ b \in Block /\ announced[n] = None
      /\ ~stale => Backed(n, m)
  BY <1>2, HeadFacts
<1>4. Typed /\ knows'[n] = knows[n] \cup {b}
  BY TypedFacts DEF IInv, HandleInv
<1>5. r \in Honest /\ r.type = "getdata" /\ r.blocks = {b}
  BY <1>3, MessagesSent
<1>6. /\ ms \in Seq(Honest) /\ sent = ToSet(ms)
      /\ \A type : type # "getdata" => Count(ms, type) = 0
  BY <1>5, ShortLists, CountShort
<1>7. Typed'
  BY <1>2, <1>3, <1>4, <1>6, ReplyFacts, TypedFacts, TypedNext
     DEF HandleInv, data, outside, Typed, SessionsTyped
<1>8. OnlyAt(n)
  BY <1>1, <1>4, TypedFacts DEF HandleInv, data, outside, OnlyAt
<1>9. Has(n)' = Has(n) /\ Has(Other(n))' = Has(Other(n))
  BY DEF HandleInv, data, Has
<1>10. b \notin Has(n) => Supplied(n, b)'
  <2>1. ToSet(inbox'[Other(n)]) = ToSet(inbox[Other(n)]) \cup ToSet(ms)
    BY <1>2, <1>3, <1>4, <1>6, ReplyFacts
  <2>2. b \notin Has(n) => r \in ToSet(inbox'[Other(n)])
    BY <1>6, <2>1
  <2> QED BY <1>5, <2>2 DEF Supplied
<1>11. Done(n, m)
  BY <1>3, <1>9, <1>10 DEF Done
<1>12. ~stale => b \in Has(Other(n))
  BY <1>3 DEF Backed
<1>13. ~stale => \A x \in sent : Backed(Other(n), x)'
  BY <1>5, <1>9, <1>12 DEF Backed
<1>14. ~stale => Keeps(n, gone, sent)
  <2>1. candidate' = candidate
    BY DEF HandleInv
  <2>2. \A h \in gone : Done(n, h)
    BY <1>11
  <2> QED BY <1>4, <1>9, <1>12, <1>13, <2>1, <2>2 DEF Keeps
<1>15. Outstanding(n)' = Outstanding(n)
  BY <1>2, <1>3, <1>4, <1>6, OutstandingKept
<1>16. QueryOf(n)' /\ CandidateOf(n)'
  BY <1>3, <1>15, SessionKept DEF HandleInv, data, outside
<1>17. Count(ms, "version") = 0 /\ Count(ms, "headers") = 0
  BY <1>6
<1>18. Typed' /\ QueryOf(n)' /\ CandidateOf(n)' => IInv'
  BY <1>2, <1>3, <1>6, <1>8, <1>14, <1>17, HandlerKeeps
<1> QED BY <1>7, <1>16, <1>18

\* All the blocks that are asked for are sent, if the node has them.
LEMMA HandleGetDataKeeps ==
    ASSUME IInv, NEW n \in Node, HandleGetData(n)
    PROVE  IInv'
<1> PICK m : m = Head(inbox[n])
  OBVIOUS
<1> DEFINE found == m.blocks \cap Has(n)
           Block1(b) == [type |-> "block", block |-> b]
<1>1. Other(n) \in Node /\ Other(n) # n /\ Other(Other(n)) = n
  BY OtherFacts
<1>2. Handles(n, "getdata")
  BY DEF HandleGetData
<1>3. /\ inbox[n] # <<>> /\ m.type = "getdata" /\ m.blocks \in SUBSET Block /\ announced[n] = None
      /\ ~stale => Backed(n, m)
  BY <1>2, HeadFacts
<1>4. PICK order \in SetToSeqs(found) :
        Reply(n, [i \in DOMAIN order |-> Block1(order[i])])
  BY DEF HandleGetData
<1> PICK gone, ms, sent : /\ gone = {m} /\ ms = [i \in DOMAIN order |-> Block1(order[i])]
                          /\ sent = {Block1(b) : b \in found}
  OBVIOUS
<1>5. Typed /\ IsFiniteSet(found) /\ found \in SUBSET Block
  <2>1. Typed /\ IsFiniteSet(Has(n)) /\ Has(n) \in SUBSET Block
    BY TypedFacts DEF IInv
  <2> QED BY <2>1, FS_Subset
<1>6. order \in Seq(found) /\ \A b \in found : \E i \in DOMAIN order : order[i] = b
  <2> HIDE DEF found
  <2> QED BY <1>5, OrderFacts
<1>7. \A b \in found : Block1(b) \in Honest
  BY <1>5, MessagesSent
<1>8. ms \in Seq(Honest) /\ ToSet(ms) = sent
  <2>1. Len(order) \in Nat /\ DOMAIN order = 1 .. Len(order) /\ \A i \in DOMAIN order : order[i] \in found
    BY <1>6, LenProperties
  <2>2. ms \in [1 .. Len(order) -> Honest]
    BY <1>7, <2>1
  <2>3. ms \in Seq(Honest)
    BY <2>1, <2>2, SeqDef
  <2>4. ToSet(ms) = sent
    BY <1>6, <2>1 DEF ToSet
  <2> QED BY <2>3, <2>4
<1>9. Reply(n, ms)
  BY <1>4 DEF Reply
<1>10. \A type : type # "block" => Count(ms, type) = 0
  <2>1. \A x \in ToSet(ms) : x.type = "block"
    BY <1>8
  <2> QED BY <1>8, <2>1, CountNone
<1>11. Typed'
  BY <1>3, <1>5, <1>8, <1>9, ReplyFacts, TypedFacts, TypedNext
     DEF HandleGetData, data, outside, Typed, SessionsTyped
<1>12. OnlyAt(n)
  BY <1>1, <1>5, TypedFacts DEF HandleGetData, data, outside, OnlyAt
<1>13. Has(n)' = Has(n)
  BY DEF HandleGetData, data, Has
<1>14. ~stale => Done(n, m)
  <2> SUFFICES ASSUME ~stale, NEW b \in m.blocks PROVE Supplied(Other(n), b)'
    BY <1>3 DEF Done
  <2>1. b \in found
    BY <1>3 DEF Backed
  <2>2. Block1(b) \in ToSet(inbox'[Other(n)])
    <3>1. ToSet(inbox'[Other(n)]) = ToSet(inbox[Other(n)]) \cup ToSet(ms)
      BY <1>3, <1>5, <1>8, <1>9, ReplyFacts
    <3> QED BY <1>8, <2>1, <3>1
  <2> QED BY <2>2 DEF Supplied
<1>15. \A x \in sent : Backed(Other(n), x)'
  BY <1>1, <1>13 DEF Backed
<1>16. ~stale => Keeps(n, gone, sent)
  BY <1>13, <1>14, <1>15 DEF HandleGetData, Keeps
<1>17. Outstanding(n)' = Outstanding(n)
  BY <1>3, <1>5, <1>8, <1>9, <1>10, OutstandingKept
<1>18. QueryOf(n)' /\ CandidateOf(n)'
  BY <1>3, <1>17, SessionKept DEF HandleGetData, data, outside
<1>19. Count(ms, "version") = 0 /\ Count(ms, "headers") = 0
  BY <1>10
<1>20. Typed' /\ QueryOf(n)' /\ CandidateOf(n)' => IInv'
  BY <1>3, <1>8, <1>9, <1>12, <1>16, <1>19, HandlerKeeps
<1> QED BY <1>11, <1>18, <1>20

-----------------------------------------------------------------------------
(* The handlers that change the chain or the candidate.                    *)

\* Activating a candidate loses no block, if its fork is on both chains.
LEMMA ActivateFacts ==
    ASSUME Typed, NEW n \in Node, NEW c, c.tip \in Block, c.fork \in Block,
           NEW stored \in SUBSET Block, IsFiniteSet(stored), Activate(n, c, stored)
    PROVE  /\ chain' \in [Node -> Block] /\ side' \in [Node -> SUBSET Block]
           /\ \A k \in Node : IsFiniteSet(side'[k])
           /\ chain'[Other(n)] = chain[Other(n)] /\ side'[Other(n)] = side[Other(n)]
           /\ side[n] \subseteq stored /\ c.fork \in Chain[c.tip] /\ c.fork \in Chain[chain[n]]
                => Has(n) \cup stored \subseteq Has(n)'
<1> DEFINE all == stored \cup {x \in Chain[chain[n]] : Work(x) > Work(c.fork)}
<1>1. Other(n) \in Node /\ Other(n) # n /\ Node = {n, Other(n)}
  BY OtherFacts
<1>2. /\ chain \in [Node -> Block] /\ side \in [Node -> SUBSET Block] /\ chain[n] \in Block
      /\ \A k \in Node : IsFiniteSet(side[k])
      /\ Chain[chain[n]] \subseteq Block
  BY TypedFacts
<1>3. all \in SUBSET Block
  BY <1>2
<1>4. IsFiniteSet(all)
  <2>1. IsFiniteSet(Chain[chain[n]])
    BY <1>2, FiniteChains
  <2>2. IsFiniteSet({x \in Chain[chain[n]] : Work(x) > Work(c.fork)})
    BY <2>1, FS_Subset
  <2> QED BY <2>2, FS_Union
<1>5. ASSUME side[n] \subseteq stored, c.fork \in Chain[c.tip], c.fork \in Chain[chain[n]]
      PROVE  Has(n) \subseteq all \cup Chain[c.tip] /\ Has(n) \subseteq all \cup Chain[chain[n]]
  <2> SUFFICES ASSUME NEW x \in Chain[chain[n]], x \notin all PROVE x \in Chain[c.tip]
    BY <1>5 DEF Has
  <2>1. x \in Block /\ Work(x) \in Nat /\ Work(c.fork) \in Nat
    BY <1>2, WorkFacts
  <2>2. Work(x) <= Work(c.fork)
    BY <2>1
  <2>3. x \in Chain[c.fork]
    BY <1>2, <1>5, <2>2, BelowOnChain
  <2> QED BY <1>5, <2>3, ChainFacts
<1>6. stored \subseteq all
  OBVIOUS
<1>7. IsFiniteSet(all \ Chain[c.tip])
  BY <1>4, FS_Subset
<1> HIDE DEF all
<1>8. CASE Work(c.tip) > Work(chain[n])
  <2>1. chain' = [chain EXCEPT ![n] = c.tip] /\ side' = [side EXCEPT ![n] = all \ Chain[c.tip]]
    BY <1>8 DEF Activate, all
  <2>2. Has(n)' = Chain[c.tip] \cup all
    BY <1>2, <2>1 DEF Has
  <2> QED BY <1>1, <1>2, <1>3, <1>5, <1>6, <1>7, <2>1, <2>2
<1>9. CASE ~(Work(c.tip) > Work(chain[n]))
  <2>1. chain' = chain /\ side' = [side EXCEPT ![n] = all]
    BY <1>9 DEF Activate, all
  <2>2. Has(n)' = Chain[chain[n]] \cup all
    BY <1>2, <2>1 DEF Has
  <2> QED BY <1>1, <1>2, <1>3, <1>4, <1>5, <1>6, <2>1, <2>2
<1> QED BY <1>8, <1>9

\* The fields of a candidate.
LEMMA CandidateFacts ==
    ASSUME IInv, NEW n \in Node, candidate[n] # None
    PROVE  LET c == candidate[n]
           IN  /\ c \in Candidate
               /\ c.base \in Block /\ c.fork \in Block /\ c.tip \in Block
               /\ c.last \in Block \cup {None} /\ c.pending \in SUBSET Block
               /\ c.fork \in Chain[c.base]
               /\ c.last # None => c.fork \in Chain[c.last]
               /\ c.pending # {} => c.last = c.tip /\ c.fork \in Chain[c.tip]
               /\ ~stale => c.base \in Chain[chain[n]] /\ c.fork \in Chain[chain[n]]
<1> DEFINE c == candidate[n]
<1>1. c \in Candidate
  BY TypedFacts DEF IInv
<1>2. /\ c.base \in Block /\ c.fork \in Block /\ c.tip \in Block
      /\ c.last \in Block \cup {None} /\ c.pending \in SUBSET Block
  BY <1>1 DEF Candidate
<1>3. CandidateOf(n)
  BY DEF IInv, CandidateInv
<1>4. None \notin Block
  BY TreeAssumption
<1>5. ~stale => Chain[c.base] \subseteq Chain[chain[n]]
  <2>1. chain[n] \in Block
    BY TypedFacts DEF IInv
  <2> QED BY <1>3, <2>1, ChainFacts DEF CandidateOf
<1> QED BY <1>1, <1>2, <1>3, <1>4, <1>5 DEF CandidateOf

\* A block of the candidate is stored, and the last one activates it.
LEMMA HandleCandidateBlockKeeps ==
    ASSUME IInv, NEW n \in Node, NEW b \in Block, HandleCandidateBlock(n, b)
    PROVE  IInv'
<1> PICK m, c : m = Head(inbox[n]) /\ c = [candidate[n] EXCEPT !.pending = @ \ {b}]
  OBVIOUS
<1> PICK gone, ms, sent, stored : /\ gone = {m} /\ ms = <<>> /\ sent = {}
                                  /\ stored = side[n] \cup {b}
  OBVIOUS
<1> DEFINE o == Other(n)
<1>1. o \in Node /\ o # n /\ Node = {n, o}
  BY OtherFacts
<1>2. /\ Handles(n, "block") /\ m.block = b /\ candidate[n] # None /\ b \in candidate[n].pending
      /\ knows' = [knows EXCEPT ![n] = @ \cup {b}]
  BY DEF HandleCandidateBlock, Arrives
<1>3. Reply(n, ms)
  BY DEF HandleCandidateBlock, Reply
<1>4. /\ inbox[n] # <<>> /\ m.type = "block" /\ announced[n] = None
      /\ ~stale => Backed(n, m)
  BY <1>2, HeadFacts
<1>5. /\ Typed /\ inbox \in [Node -> Seq(Honest)] /\ knows \in [Node -> SUBSET Block]
      /\ chain \in [Node -> Block] /\ side \in [Node -> SUBSET Block]
      /\ candidate \in [Node -> Candidate \cup {None}]
      /\ \A k \in Node : IsFiniteSet(side[k])
  BY TypedFacts DEF IInv
<1>6. /\ c \in Candidate /\ c.pending = candidate[n].pending \ {b}
      /\ c.base = candidate[n].base /\ c.fork = candidate[n].fork
      /\ c.tip = candidate[n].tip /\ c.last = candidate[n].last
  <2>1. candidate[n] \in Candidate
    BY <1>2, CandidateFacts
  <2> QED BY <2>1 DEF Candidate
<1>7. /\ c.tip \in Block /\ c.fork \in Block /\ c.fork \in Chain[c.tip] /\ c.last = c.tip
      /\ ~stale => c.base \in Chain[chain[n]] /\ c.fork \in Chain[chain[n]]
      /\ c.fork \in Chain[c.base]
  BY <1>2, <1>6, CandidateFacts
<1>8. ms \in Seq(Honest) /\ sent = ToSet(ms) /\ \A type : Count(ms, type) = 0
  BY ShortLists, CountShort
<1>9. stored \in SUBSET Block /\ IsFiniteSet(stored) /\ side[n] \subseteq stored
  <2>1. IsFiniteSet({b})
    BY FS_Singleton
  <2> QED BY <1>5, <2>1, FS_Union
<1>10. /\ chain' \in [Node -> Block] /\ side' \in [Node -> SUBSET Block]
       /\ \A k \in Node : IsFiniteSet(side'[k])
       /\ chain'[o] = chain[o] /\ side'[o] = side[o]
       /\ ~stale => Has(n) \cup {b} \subseteq Has(n)'
       /\ c.pending = {} => candidate' = [candidate EXCEPT ![n] = None]
       /\ c.pending # {} => candidate' = [candidate EXCEPT ![n] = c] /\ chain' = chain
  <2>1. CASE c.pending = {}
    <3>1. Activate(n, c, stored) /\ candidate' = [candidate EXCEPT ![n] = None]
      BY <2>1 DEF HandleCandidateBlock, Activate
    <3>2. /\ chain' \in [Node -> Block] /\ side' \in [Node -> SUBSET Block]
          /\ \A k \in Node : IsFiniteSet(side'[k])
          /\ chain'[o] = chain[o] /\ side'[o] = side[o]
      BY <1>5, <1>7, <1>9, <3>1, ActivateFacts
    <3>3. ~stale => Has(n) \cup stored \subseteq Has(n)'
      BY <1>5, <1>7, <1>9, <3>1, ActivateFacts
    <3> QED BY <2>1, <3>1, <3>2, <3>3
  <2>2. CASE c.pending # {}
    <3>1. /\ side' = [side EXCEPT ![n] = stored] /\ chain' = chain
          /\ candidate' = [candidate EXCEPT ![n] = c]
      BY <2>2 DEF HandleCandidateBlock
    <3>2. Has(n) \cup {b} \subseteq Has(n)'
      BY <1>5, <3>1 DEF Has
    <3> QED BY <1>1, <1>5, <1>9, <2>2, <3>1, <3>2
  <2> QED BY <2>1, <2>2
<1>11. Typed'
  <2>1. /\ announced' = announced /\ score' = score /\ up' = up /\ stale' = stale
        /\ moves' = moves /\ drops' = drops
    BY DEF HandleCandidateBlock, outside
  <2>2. candidate' \in [Node -> Candidate \cup {None}] /\ knows' \in [Node -> SUBSET Block]
    BY <1>2, <1>5, <1>6, <1>10
  <2>3. inbox' \in [Node -> Seq(Honest)]
    BY <1>3, <1>4, <1>5, <1>8, ReplyFacts
  <2> QED BY <1>5, <1>10, <2>1, <2>2, <2>3, TypedFacts, TypedNext DEF Typed, SessionsTyped
<1>12. OnlyAt(n)
  <2>1. candidate'[o] = candidate[o] /\ knows'[o] = knows[o]
    BY <1>1, <1>2, <1>5, <1>10
  <2> QED BY <1>1, <1>10, <2>1 DEF HandleCandidateBlock, outside, OnlyAt
<1>13. Has(o)' = Has(o)
  BY <1>10 DEF Has
<1>14. candidate'[n] # None => candidate'[n] = c /\ c.pending # {} /\ chain' = chain
  BY <1>5, <1>10
<1>15. ~stale => Keeps(n, gone, sent)
  <2>1. ~stale => Done(n, m)
    BY <1>2, <1>4, <1>6, <1>10, <1>14 DEF Done
  <2>2. ~stale => b \in Has(o)'
    BY <1>2, <1>4, <1>13 DEF Backed
  <2> QED BY <1>2, <1>5, <1>6, <1>10, <1>14, <2>1, <2>2 DEF Keeps
<1>16. Outstanding(n)' = Outstanding(n)
  BY <1>3, <1>4, <1>5, <1>8, OutstandingKept
<1>17. QueryOf(n)'
  <2>1. score[n] = 0 /\ Outstanding(n) = 0
    BY <1>2 DEF IInv, QueryInv, QueryOf, Waits
  <2>2. ~Waits(n)'
    BY <1>14 DEF Waits
  <2>3. score' = score /\ announced' = announced
    BY DEF HandleCandidateBlock
  <2> QED BY <1>4, <1>16, <2>1, <2>2, <2>3 DEF QueryOf
<1>18. CandidateOf(n)'
  <2>1. stale' = stale
    BY <1>12 DEF OnlyAt
  <2> QED BY <1>7, <1>14, <2>1 DEF CandidateOf
<1>19. Count(ms, "version") = 0 /\ Count(ms, "headers") = 0
  BY <1>8
<1>20. Typed' /\ QueryOf(n)' /\ CandidateOf(n)' => IInv'
  BY <1>3, <1>4, <1>8, <1>12, <1>15, <1>19, HandlerKeeps
<1> QED BY <1>11, <1>17, <1>18, <1>20

\* Any other block is on the chain, extends it, or is stored beside it.
LEMMA HandleOtherBlockKeeps ==
    ASSUME IInv, NEW n \in Node, NEW b \in Block, HandleOtherBlock(n, b)
    PROVE  IInv'
<1> PICK m, r : m = Head(inbox[n]) /\ r = [type |-> "getstatus"]
  OBVIOUS
<1> DEFINE o == Other(n)
<1>1. o \in Node /\ o # n /\ Node = {n, o}
  BY OtherFacts
<1>2. /\ Handles(n, "block") /\ m.block = b
      /\ candidate[n] # None => b \notin candidate[n].pending
      /\ knows' = [knows EXCEPT ![n] = @ \cup {b}]
  BY DEF HandleOtherBlock, Arrives
<1>3. PICK ms \in {<<>>, <<r>>} : Reply(n, ms)
  <2>1. Reply(n, <<>>) \/ Reply(n, <<r>>)
    BY DEF HandleOtherBlock, Reply
  <2> QED BY <2>1 DEF Reply
<1> PICK gone, sent : gone = {m} /\ sent = ToSet(ms)
  OBVIOUS
<1>4. /\ inbox[n] # <<>> /\ m.type = "block" /\ announced[n] = None
      /\ ~stale => Backed(n, m)
  BY <1>2, HeadFacts
<1>5. /\ Typed /\ inbox \in [Node -> Seq(Honest)] /\ knows \in [Node -> SUBSET Block]
      /\ chain \in [Node -> Block] /\ side \in [Node -> SUBSET Block]
      /\ \A k \in Node : IsFiniteSet(side[k])
  BY TypedFacts DEF IInv
<1>6. ms \in Seq(Honest) /\ sent \subseteq {r} /\ \A type : type # "getstatus" => Count(ms, type) = 0
  <2>1. r \in Honest /\ r.type = "getstatus"
    BY MessagesSent
  <2> QED BY <1>3, <2>1, ShortLists, CountShort
<1>7. /\ chain' \in [Node -> Block] /\ side' \in [Node -> SUBSET Block]
      /\ \A k \in Node : IsFiniteSet(side'[k])
      /\ chain'[o] = chain[o] /\ side'[o] = side[o]
      /\ Has(n) \cup {b} \subseteq Has(n)' /\ Chain[chain[n]] \subseteq Chain[chain'[n]]
  <2>1. CASE b \in Chain[chain[n]] /\ UNCHANGED data
    <3>1. Has(n)' = Has(n) /\ b \in Has(n)
      BY <2>1 DEF data, Has
    <3> QED BY <1>5, <2>1, <3>1 DEF data
  <2>2. CASE /\ Chain[b] = Chain[chain[n]] \cup {b}
             /\ chain' = [chain EXCEPT ![n] = b]
             /\ side' = [side EXCEPT ![n] = @ \ Chain[b]]
    <3>1. IsFiniteSet(side[n] \ Chain[b])
      BY <1>5, FS_Subset
    <3>2. Has(n)' = Chain[b] \cup side[n]
      BY <1>5, <2>2 DEF Has
    <3>3. chain'[n] = b /\ Chain[chain[n]] \subseteq Chain[b] /\ b \in Chain[b]
      BY <1>5, <2>2
    <3> QED BY <1>1, <1>5, <2>2, <3>1, <3>2, <3>3 DEF Has
  <2>3. CASE side' = [side EXCEPT ![n] = @ \cup {b}] /\ UNCHANGED chain
    <3>1. IsFiniteSet(side[n] \cup {b})
      BY <1>5, FS_Union, FS_Singleton
    <3>2. Has(n)' = Has(n) \cup {b}
      BY <1>5, <2>3 DEF Has
    <3> QED BY <1>1, <1>5, <2>3, <3>1, <3>2
  <2> QED BY <2>1, <2>2, <2>3 DEF HandleOtherBlock
<1>8. /\ candidate' = candidate /\ announced' = announced /\ score' = score /\ up' = up
      /\ stale' = stale /\ moves' = moves /\ drops' = drops
  BY DEF HandleOtherBlock, outside
<1>9. Typed'
  <2>1. knows' \in [Node -> SUBSET Block]
    BY <1>2, <1>5
  <2>2. inbox' \in [Node -> Seq(Honest)]
    BY <1>3, <1>4, <1>5, <1>6, ReplyFacts
  <2> QED BY <1>5, <1>7, <1>8, <2>1, <2>2, TypedFacts, TypedNext DEF Typed, SessionsTyped
<1>10. OnlyAt(n)
  <2>1. knows'[o] = knows[o]
    BY <1>1, <1>2, <1>5
  <2> QED BY <1>7, <1>8, <2>1 DEF OnlyAt
<1>11. Has(o)' = Has(o)
  BY <1>7 DEF Has
<1>12. ~stale => Keeps(n, gone, sent)
  <2>1. Done(n, m)
    BY <1>2, <1>4, <1>7, <1>8 DEF Done
  <2>2. ~stale => b \in Has(o)'
    BY <1>2, <1>4, <1>11 DEF Backed
  <2>3. Backed(o, r)'
    BY DEF Backed
  <2> QED BY <1>2, <1>5, <1>6, <1>7, <1>8, <2>1, <2>2, <2>3 DEF Keeps
<1>13. Outstanding(n)' = Outstanding(n)
  BY <1>3, <1>4, <1>5, <1>6, OutstandingKept
<1>14. QueryOf(n)' /\ CandidateOf(n)'
  BY <1>4, <1>7, <1>8, <1>13, SessionKept
<1>15. Count(ms, "version") = 0 /\ Count(ms, "headers") = 0
  BY <1>6
<1>16. Typed' /\ QueryOf(n)' /\ CandidateOf(n)' => IInv'
  BY <1>3, <1>4, <1>6, <1>10, <1>12, <1>15, HandlerKeeps
<1> QED BY <1>9, <1>14, <1>16

\* A session that gets headers has asked for them, and nothing else is outstanding.
LEMMA HeadersAwaited ==
    ASSUME IInv, NEW n \in Node, Handles(n, "headers")
    PROVE  Waits(n) /\ score[n] = 0 /\ Outstanding(n) = 1
<1>1. inbox[n] # <<>> /\ Head(inbox[n]).type = "headers" /\ Typed
  BY HeadFacts DEF IInv
<1> PICK ms : ms = <<>>
  OBVIOUS
<1>2. Count(inbox[n], "headers") > 0
  BY HeadFacts
<1>3. Count(inbox[Other(n)], "getheaders") \in Nat /\ Count(inbox[n], "headers") \in Nat
  <2>1. inbox[n] \in Seq(Honest) /\ inbox[Other(n)] \in Seq(Honest)
    BY <1>1, OtherFacts DEF Typed
  <2> QED BY <2>1, CountNone
<1>4. Outstanding(n) > 0
  BY <1>2, <1>3 DEF Outstanding
<1> QED BY <1>4 DEF IInv, QueryInv, QueryOf

\* The headers are appended to what the candidate has.
LEMMA HeadersAppended ==
    ASSUME IInv, NEW n \in Node, Handles(n, "headers"),
           NEW m, m = Head(inbox[n]), NEW c, c = WithHeaders(candidate[n], m),
           ~Unconnected(candidate[n], m)
    PROVE  /\ c \in Candidate /\ c.pending = {} /\ c.last = m.to /\ c.tip = candidate[n].tip
           /\ c.base \in Block /\ c.fork \in Block /\ c.tip \in Block /\ m.to \in Block
           /\ c.fork \in Chain[c.base] /\ c.fork \in Chain[m.to]
           /\ ~stale => c.base \in Chain[chain[n]] /\ c.fork \in Chain[chain[n]]
<1> PICK d : d = candidate[n]
  OBVIOUS
<1>1. d # None /\ d.pending = {}
  BY HeadersAwaited DEF Waits
<1>2. m.from \in Block /\ m.to \in Block /\ m.from \in Chain[m.to] /\ chain[n] \in Block
  BY HeadFacts, TypedFacts DEF IInv
<1>3. /\ d \in Candidate
      /\ d.base \in Block /\ d.fork \in Block /\ d.tip \in Block /\ d.last \in Block \cup {None}
      /\ d.fork \in Chain[d.base]
  BY <1>1, CandidateFacts
<1>4. /\ d.last # None => d.fork \in Chain[d.last]
      /\ ~stale => d.base \in Chain[chain[n]] /\ d.fork \in Chain[chain[n]]
  BY <1>1, CandidateFacts
<1>5. CASE d.last = None
  <2>1. m.from \in Chain[d.base]
    BY <1>5 DEF Unconnected
  <2>2. /\ c = [d EXCEPT !.base = m.from, !.fork = m.from, !.last = m.to]
    BY <1>5 DEF WithHeaders
  <2>3. /\ c \in Candidate /\ c.pending = {} /\ c.last = m.to /\ c.tip = d.tip
        /\ c.base = m.from /\ c.fork = m.from
    BY <1>1, <1>2, <1>3, <2>2 DEF Candidate
  <2>4. m.from \in Chain[m.from] /\ (~stale => m.from \in Chain[chain[n]])
    BY <1>2, <1>3, <1>4, <2>1, ChainFacts
  <2> QED BY <1>2, <1>3, <2>3, <2>4
<1>6. CASE d.last # None
  <2>1. m.from = d.last
    BY <1>6 DEF Unconnected
  <2>2. c = [d EXCEPT !.last = m.to]
    BY <1>6 DEF WithHeaders
  <2>3. /\ c \in Candidate /\ c.pending = {} /\ c.last = m.to /\ c.tip = d.tip
        /\ c.base = d.base /\ c.fork = d.fork
    BY <1>1, <1>2, <1>3, <2>2 DEF Candidate
  <2>4. d.fork \in Chain[m.to]
    BY <1>2, <1>4, <1>6, <2>1, ChainFacts
  <2> QED BY <1>2, <1>3, <1>4, <2>3, <2>4
<1> QED BY <1>5, <1>6

\* What holds after any handler of headers that leaves the data alone and lets
\* candidate c wait, for more headers or for ever.
LEMMA StillWaits ==
    ASSUME IInv, NEW n \in Node, Handles(n, "headers"),
           NEW c \in Candidate, c.pending = {}, candidate' = [candidate EXCEPT ![n] = c],
           NEW ms \in Seq(Honest), Reply(n, ms), NEW sent, sent = ToSet(ms),
           \A x \in sent : x.type = "getheaders",
           Count(ms, "version") = 0, Count(ms, "headers") = 0,
           UNCHANGED <<data, announced, knows, up, outside, drops>>,
           score' \in [Node -> Nat], score'[Other(n)] = score[Other(n)]
    PROVE  /\ Waits(n)'
           /\ announced'[n] = None
           /\ Outstanding(n)' = Count(ms, "getheaders")
           /\ QueryOf(n)' /\ CandidateOf(n)' => IInv'
<1> PICK m, gone : m = Head(inbox[n]) /\ gone = {m}
  OBVIOUS
<1>1. Other(n) \in Node /\ Other(n) # n
  BY OtherFacts
<1>2. inbox[n] # <<>> /\ m.type = "headers" /\ announced[n] = None
  BY HeadFacts
<1>3. Typed /\ inbox \in [Node -> Seq(Honest)] /\ candidate \in [Node -> Candidate \cup {None}]
  BY TypedFacts DEF IInv
<1>4. candidate'[n] = c /\ candidate'[Other(n)] = candidate[Other(n)]
      /\ candidate' \in [Node -> Candidate \cup {None}]
  BY <1>1, <1>3
<1>5. c # None
  BY NoneAssumption
<1>6. Waits(n)' /\ announced'[n] = None
  BY <1>2, <1>4, <1>5 DEF Waits
<1>7. Outstanding(n)' = Count(ms, "getheaders")
  <2>1. Outstanding(n) = 1
    BY HeadersAwaited
  <2>2. Outstanding(n)' = Outstanding(n) - (IF Head(inbox[n]).type = "headers" THEN 1 ELSE 0)
                                         + Count(ms, "getheaders")
    BY <1>2, <1>3, OutstandingStep
  <2>3. Count(ms, "getheaders") \in Nat
    BY CountNone
  <2> QED BY <1>2, <2>1, <2>2, <2>3
<1>8. Typed'
  <2>1. inbox' \in [Node -> Seq(Honest)]
    BY <1>2, <1>3, ReplyFacts
  <2> QED BY <1>3, <1>4, <2>1, TypedFacts, TypedNext DEF Typed, SessionsTyped, data, outside
<1>9. OnlyAt(n)
  BY <1>4 DEF OnlyAt, data, outside
<1>10. Keeps(n, gone, sent)
  <2>1. Has(n)' = Has(n)
    BY DEF Has, data
  <2>2. \A h \in gone : Done(n, h)
    BY <1>2 DEF Done
  <2>3. \A x \in sent : Backed(Other(n), x)'
    BY DEF Backed
  <2> QED BY <1>4, <2>1, <2>2, <2>3 DEF Keeps
<1>11. Typed' /\ QueryOf(n)' /\ CandidateOf(n)' => IInv'
  BY <1>2, <1>9, <1>10, HandlerKeeps
<1> QED BY <1>6, <1>7, <1>8, <1>11

\* An exception leaves the candidate waiting, with nothing on its way.
LEMMA ThrowKeeps ==
    ASSUME IInv, NEW n \in Node, Handles(n, "headers"), Throw(n),
           NEW c \in Candidate, c.pending = {}, candidate' = [candidate EXCEPT ![n] = c],
           UNCHANGED <<data, announced, knows, up, outside, drops>>, CandidateOf(n)'
    PROVE  IInv'
<1> PICK ms, sent : ms = <<>> /\ sent = {}
  OBVIOUS
<1>1. Reply(n, ms)
  BY DEF Throw, Reply
<1>2. ms \in Seq(Honest) /\ sent = ToSet(ms) /\ \A type : Count(ms, type) = 0
  BY ShortLists, CountShort
<1>3. score[n] = 0 /\ score \in [Node -> Nat]
  BY HeadersAwaited, TypedFacts DEF IInv
<1>4. score' = [score EXCEPT ![n] = 25]
  BY <1>3 DEF Throw
<1>5. score' \in [Node -> Nat] /\ score'[n] = 25 /\ score'[Other(n)] = score[Other(n)]
  BY <1>3, <1>4, OtherFacts
<1>6. Count(ms, "version") = 0 /\ Count(ms, "headers") = 0 /\ Count(ms, "getheaders") = 0
      /\ \A x \in sent : x.type = "getheaders"
  BY <1>2
<1>7. Waits(n)' /\ announced'[n] = None
  BY <1>1, <1>2, <1>5, <1>6, StillWaits
<1>8. Outstanding(n)' = Count(ms, "getheaders")
  BY <1>1, <1>2, <1>5, <1>6, StillWaits
<1>9. QueryOf(n)' /\ CandidateOf(n)' => IInv'
  BY <1>1, <1>2, <1>5, <1>6, StillWaits
<1>10. QueryOf(n)'
  BY <1>5, <1>6, <1>7, <1>8 DEF QueryOf
<1> QED BY <1>9, <1>10

\* Headers that do not connect end the handler.
LEMMA RefuseHeadersKeeps ==
    ASSUME IInv, NEW n \in Node, RefuseHeaders(n)
    PROVE  IInv'
<1>1. Handles(n, "headers")
  BY DEF RefuseHeaders
<1>2. candidate[n] # None /\ candidate[n].pending = {}
  BY <1>1, HeadersAwaited DEF Waits
<1> PICK c : c = candidate[n]
  OBVIOUS
<1>3. c \in Candidate
  BY <1>2, CandidateFacts
<1>4. Throw(n) /\ UNCHANGED <<data, announced, candidate, knows, up, outside, drops>>
  BY <1>2 DEF RefuseHeaders
<1>5. candidate' = [candidate EXCEPT ![n] = c]
  BY <1>4, TypedFacts DEF IInv
<1>6. CandidateOf(n)'
  BY <1>4 DEF IInv, CandidateInv, CandidateOf, data, outside
<1> QED BY <1>1, <1>2, <1>3, <1>4, <1>5, <1>6, ThrowKeeps

\* Headers beyond the announced tip are appended all the same.
LEMMA OverrunHeadersKeeps ==
    ASSUME IInv, NEW n \in Node, OverrunHeaders(n)
    PROVE  IInv'
<1> PICK m, c : m = Head(inbox[n]) /\ c = WithHeaders(candidate[n], m)
  OBVIOUS
<1>1. /\ Handles(n, "headers") /\ ~Unconnected(candidate[n], m)
      /\ candidate' = [candidate EXCEPT ![n] = c] /\ Throw(n)
      /\ UNCHANGED <<data, announced, knows, up, outside, drops>>
  BY DEF OverrunHeaders
<1>2. /\ c \in Candidate /\ c.pending = {} /\ c.last = m.to
      /\ c.fork \in Chain[c.base] /\ c.fork \in Chain[m.to]
      /\ ~stale => c.base \in Chain[chain[n]]
  BY <1>1, HeadersAppended
<1>3. candidate'[n] = c
  BY <1>1, TypedFacts DEF IInv
<1>4. CandidateOf(n)'
  BY <1>1, <1>2, <1>3 DEF CandidateOf, data, outside
<1> QED BY <1>1, <1>2, <1>4, ThrowKeeps

\* The rest of the headers is asked for.
LEMMA ContinueHeadersKeeps ==
    ASSUME IInv, NEW n \in Node, ContinueHeaders(n)
    PROVE  IInv'
<1> PICK m, c : m = Head(inbox[n]) /\ c = WithHeaders(candidate[n], m)
  OBVIOUS
<1> PICK r, ms, sent : /\ r = [type |-> "getheaders", locator |-> {m.to, Genesis}]
                       /\ ms = <<r>> /\ sent = {r}
  OBVIOUS
<1>1. /\ Handles(n, "headers") /\ ~Unconnected(candidate[n], m)
      /\ candidate' = [candidate EXCEPT ![n] = c] /\ Reply(n, ms)
      /\ UNCHANGED <<data, announced, knows, up, outside, drops>> /\ score' = score
  BY DEF ContinueHeaders, Reply
<1>2. /\ c \in Candidate /\ c.pending = {} /\ c.last = m.to /\ m.to \in Block
      /\ c.fork \in Chain[c.base] /\ c.fork \in Chain[m.to]
      /\ ~stale => c.base \in Chain[chain[n]]
  BY <1>1, HeadersAppended
<1>3. r \in Honest /\ r.type = "getheaders"
  BY <1>2, TreeAssumption, MessagesSent
<1>4. /\ ms \in Seq(Honest) /\ sent = ToSet(ms)
      /\ \A type : Count(ms, type) = IF r.type = type THEN 1 ELSE 0
  BY <1>3, ShortLists, CountShort
<1>5. Count(ms, "version") = 0 /\ Count(ms, "headers") = 0 /\ Count(ms, "getheaders") = 1
      /\ \A x \in sent : x.type = "getheaders"
  BY <1>3, <1>4
<1>6. score[n] = 0 /\ score' \in [Node -> Nat] /\ score' = score
  BY <1>1, HeadersAwaited, TypedFacts DEF IInv
<1>7. Waits(n)' /\ announced'[n] = None
  BY <1>1, <1>2, <1>4, <1>5, <1>6, StillWaits
<1>8. Outstanding(n)' = Count(ms, "getheaders")
  BY <1>1, <1>2, <1>4, <1>5, <1>6, StillWaits
<1>9. QueryOf(n)' /\ CandidateOf(n)' => IInv'
  BY <1>1, <1>2, <1>4, <1>5, <1>6, StillWaits
<1>10. QueryOf(n)'
  BY <1>5, <1>6, <1>7, <1>8 DEF QueryOf
<1>11. CandidateOf(n)'
  <2>1. candidate'[n] = c
    BY <1>1, TypedFacts DEF IInv
  <2> QED BY <1>1, <1>2, <2>1 DEF CandidateOf, data, outside
<1> QED BY <1>9, <1>10, <1>11

\* The headers are complete: the missing blocks are asked for, all of which the peer
\* has, or the candidate is activated.
LEMMA FinishHeadersKeeps ==
    ASSUME IInv, NEW n \in Node, FinishHeaders(n)
    PROVE  IInv'
<1>1. PICK m, c, missing :
        /\ m = Head(inbox[n]) /\ c = WithHeaders(candidate[n], m)
        /\ missing = Chain[c.tip] \ (Chain[c.base] \cup Has(n))
  OBVIOUS
<1>2. PICK gone, r, ms, sent, d :
        /\ gone = {m} /\ r = [type |-> "getdata", blocks |-> missing]
        /\ ms = IF missing = {} THEN <<>> ELSE <<r>>
        /\ sent = IF missing = {} THEN {} ELSE {r}
        /\ d = IF missing = {} THEN None ELSE [c EXCEPT !.pending = missing]
  OBVIOUS
<1> DEFINE o == Other(n)
<1>3. o \in Node /\ o # n /\ Node = {n, o} /\ Other(o) = n
  BY OtherFacts
<1>4. /\ Handles(n, "headers") /\ ~Unconnected(candidate[n], m) /\ m.to = c.tip
      /\ missing = {} => Activate(n, c, side[n])
      /\ missing # {} => UNCHANGED data
      /\ candidate' = [candidate EXCEPT ![n] = d]
      /\ announced' = announced /\ knows' = knows /\ score' = score /\ up' = up
      /\ stale' = stale /\ moves' = moves /\ drops' = drops
  BY <1>1, <1>2 DEF FinishHeaders, outside
<1>5. Reply(n, ms)
  <2>1. CASE missing = {}
    BY <1>1, <1>2, <2>1 DEF FinishHeaders, Reply
  <2>2. CASE missing # {}
    BY <1>1, <1>2, <2>2 DEF FinishHeaders, Reply
  <2> QED BY <2>1, <2>2
<1>6. /\ inbox[n] # <<>> /\ m.type = "headers" /\ announced[n] = None
      /\ ~stale => Backed(n, m)
  BY <1>1, <1>4, HeadFacts
<1>7. Waits(n) /\ score[n] = 0 /\ Outstanding(n) = 1
  BY <1>4, HeadersAwaited
<1>8. /\ Typed /\ inbox \in [Node -> Seq(Honest)]
      /\ chain \in [Node -> Block] /\ side \in [Node -> SUBSET Block]
      /\ candidate \in [Node -> Candidate \cup {None}]
      /\ \A k \in Node : IsFiniteSet(side[k])
  BY TypedFacts DEF IInv
<1>9. /\ c \in Candidate /\ c.last = m.to /\ c.fork \in Block /\ c.tip \in Block
      /\ c.fork \in Chain[c.base] /\ c.fork \in Chain[c.tip]
      /\ ~stale => c.base \in Chain[chain[n]] /\ c.fork \in Chain[chain[n]]
  BY <1>1, <1>4, HeadersAppended
<1>10. missing \in SUBSET Block
  BY <1>1, <1>9, ChainFacts
<1>11. missing # {} => /\ d \in Candidate /\ d.pending = missing /\ d.last = d.tip
                      /\ d.fork = c.fork /\ d.base = c.base /\ d.last = c.last
  BY <1>2, <1>4, <1>9, <1>10 DEF Candidate
<1>12. r \in Honest /\ r.type = "getdata" /\ r.blocks = missing
  BY <1>2, <1>10, MessagesSent
<1>13. /\ ms \in Seq(Honest) /\ sent = ToSet(ms)
       /\ \A type : type # "getdata" => Count(ms, type) = 0
  BY <1>2, <1>12, ShortLists, CountShort
<1>14. /\ chain' \in [Node -> Block] /\ side' \in [Node -> SUBSET Block]
       /\ \A k \in Node : IsFiniteSet(side'[k])
       /\ chain'[o] = chain[o] /\ side'[o] = side[o]
       /\ ~stale => Has(n) \subseteq Has(n)'
  <2>1. CASE missing = {}
    <3>1. /\ chain' \in [Node -> Block] /\ side' \in [Node -> SUBSET Block]
          /\ \A k \in Node : IsFiniteSet(side'[k])
          /\ chain'[o] = chain[o] /\ side'[o] = side[o]
      BY <1>4, <1>8, <1>9, <2>1, ActivateFacts
    <3>2. ~stale => Has(n) \cup side[n] \subseteq Has(n)'
      BY <1>4, <1>8, <1>9, <2>1, ActivateFacts
    <3> QED BY <3>1, <3>2
  <2>2. CASE missing # {}
    <3>1. chain' = chain /\ side' = side
      BY <1>4, <2>2 DEF data
    <3> QED BY <1>8, <3>1 DEF Has
  <2> QED BY <2>1, <2>2
<1>15. candidate' \in [Node -> Candidate \cup {None}] /\ candidate'[n] = d /\ candidate'[o] = candidate[o]
  BY <1>2, <1>3, <1>4, <1>8, <1>11
<1>16. Typed'
  <2>1. inbox' \in [Node -> Seq(Honest)]
    BY <1>5, <1>6, <1>8, <1>13, ReplyFacts
  <2> QED BY <1>4, <1>8, <1>14, <1>15, <2>1, TypedFacts, TypedNext DEF Typed, SessionsTyped
<1>17. OnlyAt(n)
  BY <1>4, <1>14, <1>15 DEF OnlyAt
<1>18. Has(o)' = Has(o)
  BY <1>14 DEF Has
<1>19. d # None => \A b \in d.pending : Supplied(n, b)'
  <2>1. ToSet(inbox'[o]) = ToSet(inbox[o]) \cup ToSet(ms)
    BY <1>5, <1>6, <1>8, <1>13, ReplyFacts
  <2>2. d # None => missing # {} /\ d.pending = missing /\ r \in ToSet(inbox'[o])
    BY <1>2, <1>11, <1>13, <2>1
  <2> QED BY <1>12, <2>2 DEF Supplied
<1>20. ~stale => \A x \in sent : Backed(o, x)'
  <2> SUFFICES ASSUME ~stale PROVE Backed(o, r)'
    BY <1>2
  <2>1. missing \subseteq Has(o)
    BY <1>1, <1>4, <1>6 DEF Backed
  <2> QED BY <1>12, <1>18, <2>1 DEF Backed
<1>21. ~stale => Keeps(n, gone, sent)
  <2>1. \A h \in gone : Done(n, h)
    BY <1>2, <1>6 DEF Done
  <2> QED BY <1>4, <1>14, <1>15, <1>19, <1>20, <2>1 DEF Keeps
<1>22. QueryOf(n)'
  <2>1. Count(ms, "getheaders") = 0
    BY <1>13
  <2>2. Outstanding(n)' = Outstanding(n) - (IF Head(inbox[n]).type = "headers" THEN 1 ELSE 0)
                                         + Count(ms, "getheaders")
    BY <1>5, <1>6, <1>8, <1>13, OutstandingStep
  <2>3. Outstanding(n)' = 0
    BY <1>1, <1>6, <1>7, <2>1, <2>2
  <2>4. ~Waits(n)'
    BY <1>2, <1>11, <1>15 DEF Waits
  <2> QED BY <1>4, <1>6, <1>7, <2>3, <2>4 DEF QueryOf
<1>23. CandidateOf(n)'
  <2> SUFFICES ASSUME d # None PROVE CandidateOf(n)'
    BY <1>15 DEF CandidateOf
  <2>1. missing # {} /\ chain' = chain
    BY <1>2, <1>4 DEF data
  <2> QED BY <1>4, <1>9, <1>11, <1>15, <2>1 DEF CandidateOf
<1>24. Count(ms, "version") = 0 /\ Count(ms, "headers") = 0
  BY <1>13
<1>25. Typed' /\ QueryOf(n)' /\ CandidateOf(n)' => IInv'
  BY <1>1, <1>2, <1>5, <1>6, <1>13, <1>17, <1>21, <1>24, HandlerKeeps
<1> QED BY <1>16, <1>22, <1>23, <1>25

-----------------------------------------------------------------------------
(* What a session does on its own account.                                 *)

\* A session that is past the handshake sends messages.
LEMMA SendKeeps ==
    ASSUME IInv, NEW n \in Node, ~Fresh(n), NEW ms \in Seq(Honest), Send(n, ms),
           NEW gone, gone = {}, NEW sent, sent = ToSet(ms),
           OnlyAt(n), ~stale => Keeps(n, gone, sent),
           Count(ms, "version") = 0, Count(ms, "headers") = 0
    PROVE  Typed' /\ QueryOf(n)' /\ CandidateOf(n)' => IInv'
<1> DEFINE o == Other(n)
<1>1. o \in Node /\ o # n /\ Node = {n, o} /\ Other(o) = n
  BY OtherFacts
<1>2. Typed /\ HandshakeInv /\ QueryInv /\ CandidateInv
  BY DEF IInv
<1>3. inbox[n] \in Seq(Honest) /\ inbox[o] \in Seq(Honest)
  BY <1>1, <1>2 DEF Typed
<1>4. \A type : Count(inbox[n], type) \in Nat /\ Count(inbox[o], type) \in Nat /\ Count(ms, type) \in Nat
  BY <1>3, CountNone
<1>5. /\ inbox'[n] = inbox[n]
      /\ ToSet(inbox'[o]) = ToSet(inbox[o]) \cup ToSet(ms)
      /\ \A type : Count(inbox'[o], type) = Count(inbox[o], type) + Count(ms, type)
      /\ inbox[o] # <<>> => inbox'[o] # <<>> /\ Head(inbox'[o]) = Head(inbox[o])
  BY <1>2, SendFacts
<1>6. QueryOf(o)'
  <2>1. QueryOf(o)
    BY <1>1, <1>2 DEF QueryInv
  <2>2. Outstanding(o)' = Outstanding(o)
    BY <1>1, <1>4, <1>5 DEF Outstanding
  <2> QED BY <2>1, <2>2 DEF QueryOf, Waits, OnlyAt
<1>7. HandshakeInv'
  <2>1. up /\ up' = up /\ ~(Count(inbox'[n], "version") > 0)
    BY <1>2, <1>5 DEF HandshakeInv, OnlyAt
  <2>2. Count(inbox'[o], "version") = Count(inbox[o], "version")
    BY <1>4, <1>5
  <2>3. Count(inbox[o], "version") > 0 => inbox[o] # <<>>
    BY CountShort
  <2>4. Fresh(o) => Fresh(o)'
    BY DEF Fresh, OnlyAt
  <2> QED BY <1>1, <1>2, <1>5, <2>1, <2>2, <2>3, <2>4 DEF HandshakeInv
<1>8. CandidateOf(o)'
  BY <1>2, OtherCandidateKept
<1>9. DataInv' /\ PendingInv' /\ KnowsInv'
  <2>1. Messages(n, gone, sent)
    BY <1>5 DEF Messages
  <2> QED BY <2>1, BlocksKept
<1> QED BY <1>1, <1>6, <1>7, <1>8, <1>9 DEF IInv, QueryInv, CandidateInv

\* A candidate begins with the chain of the node, and a request for headers.
LEMMA StartCandidateKeeps ==
    ASSUME IInv, NEW n \in Node, StartCandidate(n)
    PROVE  IInv'
<1> DEFINE o == Other(n)
<1> PICK c, r, ms, gone, sent :
        /\ c = [base |-> chain[n], fork |-> chain[n], tip |-> announced[n],
                last |-> None, pending |-> {}]
        /\ r = [type |-> "getheaders", locator |-> Locator[chain[n]]]
        /\ ms = <<r>> /\ gone = {} /\ sent = {r}
  OBVIOUS
<1>1. o \in Node /\ o # n /\ Node = {n, o} /\ Other(o) = n
  BY OtherFacts
<1>2. /\ Typed /\ inbox \in [Node -> Seq(Honest)]
      /\ chain[n] \in Block /\ announced \in [Node -> Block \cup {None}]
      /\ candidate \in [Node -> Candidate \cup {None}]
  BY TypedFacts DEF IInv
<1>3. /\ announced[n] # None /\ candidate' = [candidate EXCEPT ![n] = c]
      /\ announced' = [announced EXCEPT ![n] = None] /\ Send(n, ms)
      /\ chain' = chain /\ side' = side /\ knows' = knows /\ score' = score
      /\ up' = up /\ stale' = stale /\ moves' = moves /\ drops' = drops
  BY DEF StartCandidate, Requested, Send, data, outside
<1>4. c \in Candidate /\ c # None
  BY <1>2, <1>3, NoneAssumption DEF Candidate
<1>5. r \in Honest /\ r.type = "getheaders"
  BY <1>2, LocatorAssumption, MessagesSent
<1>6. /\ ms \in Seq(Honest) /\ sent = ToSet(ms)
      /\ \A type : Count(ms, type) = IF r.type = type THEN 1 ELSE 0
  BY <1>5, ShortLists, CountShort
<1>7. candidate[n] = None /\ score[n] = 0 /\ Outstanding(n) = 0 /\ ~Fresh(n)
  BY <1>3 DEF IInv, QueryInv, QueryOf, Waits, Fresh
<1>8. candidate'[n] = c /\ candidate'[o] = candidate[o] /\ announced'[n] = None
      /\ announced'[o] = announced[o]
  BY <1>1, <1>2, <1>3
<1>9. Typed'
  <2>1. inbox' \in [Node -> Seq(Honest)]
    BY <1>2, <1>3, <1>6, SendFacts
  <2>2. candidate' \in [Node -> Candidate \cup {None}] /\ announced' \in [Node -> Block \cup {None}]
    BY <1>2, <1>3, <1>4
  <2> QED BY <1>2, <1>3, <2>1, <2>2, TypedFacts, TypedNext DEF Typed, SessionsTyped
<1>10. OnlyAt(n)
  BY <1>3, <1>8 DEF OnlyAt
<1>11. Keeps(n, gone, sent)
  <2>1. Has(n)' = Has(n)
    BY <1>3 DEF Has
  <2>2. Backed(o, r)'
    BY <1>5 DEF Backed
  <2>3. c.pending = {}
    OBVIOUS
  <2> QED BY <1>3, <1>8, <2>1, <2>2, <2>3 DEF Keeps
<1>12. QueryOf(n)'
  <2>1. Outstanding(n)' = Outstanding(n) + 1
    <3>1. Count(inbox'[o], "getheaders") = Count(inbox[o], "getheaders") + Count(ms, "getheaders")
          /\ inbox'[n] = inbox[n]
      BY <1>2, <1>3, <1>6, SendFacts
    <3>2. Count(inbox[o], "getheaders") \in Nat /\ Count(inbox[n], "headers") \in Nat
      BY <1>1, <1>2, CountNone
    <3> QED BY <1>5, <1>6, <3>1, <3>2 DEF Outstanding
  <2>2. Waits(n)'
    BY <1>4, <1>8 DEF Waits
  <2> QED BY <1>3, <1>7, <1>8, <2>1, <2>2 DEF QueryOf
<1>13. CandidateOf(n)'
  BY <1>2, <1>3, <1>8, ChainFacts DEF CandidateOf
<1>14. Count(ms, "version") = 0 /\ Count(ms, "headers") = 0
  BY <1>5, <1>6
<1>15. Typed' /\ QueryOf(n)' /\ CandidateOf(n)' => IInv'
  BY <1>3, <1>6, <1>7, <1>10, <1>11, <1>14, SendKeeps
<1> QED BY <1>9, <1>12, <1>13, <1>15

\* The scan announces the tip, and takes the peer to know it.
LEMMA ScanKeeps ==
    ASSUME IInv, NEW n \in Node, Scan(n)
    PROVE  IInv'
<1> DEFINE o == Other(n)
<1> PICK r, ms, gone, sent :
        /\ r = [type |-> "inv", block |-> chain[n]]
        /\ ms = <<r>> /\ gone = {} /\ sent = {r}
  OBVIOUS
<1>1. o \in Node /\ o # n /\ Node = {n, o} /\ Other(o) = n
  BY OtherFacts
<1>2. /\ Typed /\ inbox \in [Node -> Seq(Honest)]
      /\ chain[n] \in Block /\ chain[n] \in Has(n) /\ knows \in [Node -> SUBSET Block]
  BY TypedFacts DEF IInv
<1>3. r \in Honest /\ r.type = "inv" /\ r.block = chain[n]
  BY <1>2, MessagesSent
<1>4. /\ ms \in Seq(Honest) /\ sent = ToSet(ms)
      /\ \A type : Count(ms, type) = IF r.type = type THEN 1 ELSE 0
  BY <1>3, ShortLists, CountShort
<1>5. /\ knows[n] # {} /\ announced[n] = None
      /\ knows' = [knows EXCEPT ![n] = @ \cup {chain[n]}] /\ Send(n, ms)
      /\ chain' = chain /\ side' = side /\ announced' = announced /\ candidate' = candidate
      /\ score' = score /\ up' = up /\ stale' = stale /\ moves' = moves /\ drops' = drops
  <2>1. Append(inbox[o], r) = inbox[o] \o ms
    BY <1>1, <1>2, <1>3, AppendIsConcat
  <2> QED BY <1>2, <2>1 DEF Scan, Send, data, outside
<1>6. knows'[n] = knows[n] \cup {chain[n]} /\ knows'[o] = knows[o]
  BY <1>1, <1>2, <1>5
<1>7. Typed'
  <2>1. inbox' \in [Node -> Seq(Honest)]
    BY <1>2, <1>4, <1>5, SendFacts
  <2>2. knows' \in [Node -> SUBSET Block]
    BY <1>2, <1>5
  <2> QED BY <1>2, <1>5, <2>1, <2>2, TypedFacts, TypedNext DEF Typed, SessionsTyped
<1>8. OnlyAt(n)
  BY <1>5, <1>6 DEF OnlyAt
<1>9. Keeps(n, gone, sent)
  <2>1. Has(n)' = Has(n)
    BY <1>5 DEF Has
  <2>2. Backed(o, r)'
    BY <1>1, <1>2, <1>3, <2>1 DEF Backed
  <2>3. ToSet(inbox'[o]) = ToSet(inbox[o]) \cup ToSet(ms)
    BY <1>2, <1>4, <1>5, SendFacts
  <2>4. \A b \in knows'[n] : b \in knows[n] \/ Told(o, b)'
    BY <1>3, <1>4, <1>6, <2>3 DEF Told
  <2> QED BY <1>5, <2>1, <2>2, <2>4 DEF Keeps
<1>10. Outstanding(n)' = Outstanding(n)
  <2>1. Count(inbox'[o], "getheaders") = Count(inbox[o], "getheaders") + Count(ms, "getheaders")
        /\ inbox'[n] = inbox[n]
    BY <1>2, <1>4, <1>5, SendFacts
  <2>2. Count(inbox[o], "getheaders") \in Nat
    BY <1>1, <1>2, CountNone
  <2> QED BY <1>3, <1>4, <2>1, <2>2 DEF Outstanding
<1>11. QueryOf(n)' /\ CandidateOf(n)'
  BY <1>5, <1>10, SessionKept
<1>12. Count(ms, "version") = 0 /\ Count(ms, "headers") = 0 /\ ~Fresh(n)
  BY <1>3, <1>4, <1>5 DEF Fresh
<1>13. Typed' /\ QueryOf(n)' /\ CandidateOf(n)' => IInv'
  BY <1>4, <1>5, <1>8, <1>9, <1>12, SendKeeps
<1> QED BY <1>7, <1>11, <1>13

-----------------------------------------------------------------------------
(* The connection, and the world outside.                                  *)

\* Both nodes send the tip they have.
LEMMA ConnectKeeps ==
    ASSUME IInv, Connect
    PROVE  IInv'
<1>1. /\ ~up /\ up' = TRUE
      /\ inbox' = [k \in Node |-> << [type |-> "version", block |-> chain[Other(k)]] >>]
      /\ chain' = chain /\ side' = side /\ announced' = announced /\ candidate' = candidate
      /\ knows' = knows /\ score' = score /\ stale' = stale /\ moves' = moves /\ drops' = drops
  BY DEF Connect, data, outside
<1>2. ASSUME NEW n \in Node
      PROVE  /\ inbox'[n] \in Seq(Honest)
             /\ Fresh(n) /\ Fresh(n)'
             /\ inbox'[n] # <<>> /\ Head(inbox'[n]).type = "version"
             /\ Count(inbox'[n], "version") = 1
             /\ Count(inbox'[n], "getheaders") = 0 /\ Count(inbox'[n], "headers") = 0
             /\ \A x \in ToSet(inbox'[n]) : x.type = "version" /\ x.block \in Has(Other(n))
  <2> PICK r : r = [type |-> "version", block |-> chain[Other(n)]]
    OBVIOUS
  <2>1. inbox'[n] = <<r>>
    BY <1>1
  <2>2. chain[Other(n)] \in Block /\ chain[Other(n)] \in Has(Other(n))
    BY OtherFacts, TypedFacts DEF IInv
  <2>3. r \in Honest /\ r.type = "version" /\ r.block = chain[Other(n)]
    BY <2>2, MessagesSent
  <2>4. Fresh(n)
    BY <1>1 DEF IInv, HandshakeInv
  <2>5. Fresh(n)'
    BY <1>1, <2>4 DEF Fresh
  <2>6. <<r>> \in Seq(Honest) /\ ToSet(<<r>>) = {r} /\ <<r>> # <<>> /\ Head(<<r>>) = r
    BY <2>3, ShortLists
  <2>7. \A type : Count(<<r>>, type) = IF r.type = type THEN 1 ELSE 0
    BY CountShort
  <2> QED BY <2>1, <2>2, <2>3, <2>4, <2>5, <2>6, <2>7
<1>3. Typed'
  <2>1. inbox' \in [Node -> Seq(Honest)]
    <3>1. DOMAIN inbox' = Node /\ inbox' = [k \in Node |-> inbox'[k]]
      BY <1>1
    <3> QED BY <1>2, <3>1
  <2> QED BY <1>1, <2>1, TypedFacts, TypedNext DEF IInv, Typed, SessionsTyped
<1>4. HandshakeInv'
  BY <1>1, <1>2 DEF HandshakeInv
<1>5. QueryInv'
  <2> SUFFICES ASSUME NEW n \in Node PROVE QueryOf(n)'
    BY DEF QueryInv
  <2>1. Outstanding(n)' = 0
    BY <1>2, OtherFacts DEF Outstanding
  <2> QED BY <1>2, <2>1 DEF QueryOf, Fresh, Waits
<1>6. CandidateInv' /\ PendingInv' /\ KnowsInv'
  BY <1>2 DEF CandidateInv, CandidateOf, PendingInv, KnowsInv, Fresh
<1>7. DataInv'
  <2> SUFFICES ASSUME NEW n \in Node, NEW x \in ToSet(inbox'[n]) PROVE Backed(n, x)'
    BY DEF DataInv
  <2>1. Has(Other(n))' = Has(Other(n))
    BY <1>1 DEF Has
  <2> QED BY <1>2, <2>1 DEF Backed
<1> QED BY <1>3, <1>4, <1>5, <1>6, <1>7 DEF IInv

\* Both sessions are forgotten.
LEMMA EndKeeps ==
    ASSUME IInv, End, drops' \in 0 .. MaxDrops
    PROVE  IInv'
<1>1. /\ up' = FALSE
      /\ inbox' = [n \in Node |-> <<>>]
      /\ announced' = [n \in Node |-> None]
      /\ candidate' = [n \in Node |-> None]
      /\ knows' = [n \in Node |-> {}]
      /\ score' = [n \in Node |-> 0]
      /\ chain' = chain /\ side' = side /\ stale' = stale /\ moves' = moves
  BY DEF End, data
<1>2. ASSUME NEW n \in Node
      PROVE  Fresh(n)' /\ inbox'[n] = <<>> /\ \A type : Count(inbox'[n], type) = 0
  BY <1>1, CountShort DEF Fresh
<1>3. Typed'
  <2>1. inbox' \in [Node -> Seq(Honest)]
    BY <1>1, ShortLists
  <2> QED BY <1>1, <2>1, TypedFacts, TypedNext DEF IInv, Typed, SessionsTyped
<1>4. HandshakeInv'
  BY <1>2 DEF HandshakeInv
<1>5. QueryInv'
  <2> SUFFICES ASSUME NEW n \in Node PROVE QueryOf(n)'
    BY DEF QueryInv
  <2>1. Outstanding(n)' = 0
    BY <1>2, OtherFacts DEF Outstanding
  <2> QED BY <1>2, <2>1 DEF QueryOf, Fresh, Waits
<1>6. CandidateInv' /\ PendingInv' /\ KnowsInv'
  BY <1>2 DEF CandidateInv, CandidateOf, PendingInv, KnowsInv, Fresh
<1>7. DataInv'
  BY <1>2, ShortLists DEF DataInv
<1> QED BY <1>3, <1>4, <1>5, <1>6, <1>7 DEF IInv

\* The connection is lost, or a node bans its peer.
LEMMA DropKeeps ==
    ASSUME IInv, Drop \/ \E n \in Node : Ban(n)
    PROVE  IInv'
<1>1. End
  BY DEF Drop, Ban
<1>2. drops' \in 0 .. MaxDrops
  <2>1. drops \in 0 .. MaxDrops
    BY DEF IInv, Typed, SessionsTyped
  <2>2. CASE Drop
    BY <2>1, <2>2, SyncAssumption DEF Drop
  <2>3. CASE \E n \in Node : Ban(n)
    BY <2>1, <2>3 DEF Ban
  <2> QED BY <2>2, <2>3
<1> QED BY <1>1, <1>2, EndKeeps

\* Nothing that the invariant looks at changes.
LEMMA StutterKeeps ==
    ASSUME IInv, UNCHANGED <<data, session, stale, moves, drops>>
    PROVE  IInv'
BY DEF data, session, IInv, Typed, SessionsTyped, HandshakeInv, Fresh, QueryInv, QueryOf,
       Outstanding, Waits, CandidateInv, CandidateOf, DataInv, Backed, Has, PendingInv,
       KnowsInv, Supplied, Told

\* The scores of the refused transactions and the bans keep their types.
LEMMA BlameKeeps ==
    ASSUME BlameTyped, [Next]_vars
    PROVE  BlameTyped'
<1>1. /\ refused \in [Node -> Nat] /\ banned \subseteq Node /\ refusals \in 0 .. MaxRefusals
      /\ MaxRefusals \in Nat
  BY SyncAssumption DEF BlameTyped
<1>2. CASE blame' = blame
  BY <1>1, <1>2 DEF BlameTyped, blame
<1>3. CASE Connect
  BY <1>2, <1>3 DEF Connect, outside
<1>4. CASE Drop
  BY <1>1, <1>4 DEF Drop, End, BlameTyped
<1>5. ASSUME NEW n \in Node, Receive(n) PROVE BlameTyped'
  <2>1. blame' = blame
    BY <1>5 DEF Receive, HandleVersion, HandleGetStatus, HandleStatus, HandleGetHeaders,
                RefuseHeaders, OverrunHeaders, ContinueHeaders, FinishHeaders, HandleInv,
                HandleGetData, HandleCandidateBlock, HandleOtherBlock, outside
  <2> QED BY <1>2, <2>1
<1>6. ASSUME NEW n \in Node, StartCandidate(n) \/ Scan(n) PROVE BlameTyped'
  BY <1>2, <1>6 DEF StartCandidate, Scan, outside
<1>7. ASSUME NEW n \in Node, RefuseTransaction(n) PROVE BlameTyped'
  BY <1>1, <1>7 DEF RefuseTransaction, BlameTyped
<1>8. ASSUME NEW n \in Node, Ban(n) PROVE BlameTyped'
  BY <1>1, <1>8 DEF Ban, End, BlameTyped
<1>9. ASSUME NEW n \in Node, BanEnds(n) PROVE BlameTyped'
  BY <1>1, <1>9 DEF BanEnds, BlameTyped
<1>10. ASSUME NEW n \in Node, NEW b \in Block, Advance(n, b) PROVE BlameTyped'
  BY <1>2, <1>10 DEF Advance
<1>11. CASE UNCHANGED vars
  BY <1>2, <1>11 DEF vars, outside
<1> QED BY <1>3, <1>4, <1>5, <1>6, <1>7, <1>8, <1>9, <1>10, <1>11 DEF Next

\* Another session gives the node a better chain: it keeps the disconnected blocks,
\* and a candidate is as good as before unless its fork height has gone stale.
LEMMA AdvanceKeeps ==
    ASSUME IInv, NEW n \in Node, NEW b \in Block, Advance(n, b)
    PROVE  IInv'
<1> PICK gone, sent : gone = {} /\ sent = {}
  OBVIOUS
<1>1. /\ moves < MaxMoves /\ moves' = moves + 1
      /\ chain' = [chain EXCEPT ![n] = b]
      /\ side' = [side EXCEPT ![n] = (@ \cup Chain[chain[n]]) \ Chain[b]]
      /\ stale' = (stale \/ (candidate[n] # None /\ chain[n] \notin Chain[b]))
      /\ inbox' = inbox /\ announced' = announced /\ candidate' = candidate
      /\ knows' = knows /\ score' = score /\ up' = up /\ drops' = drops
  BY DEF Advance, session
<1>2. /\ Typed /\ inbox \in [Node -> Seq(Honest)]
      /\ chain \in [Node -> Block] /\ side \in [Node -> SUBSET Block]
      /\ \A k \in Node : IsFiniteSet(side[k]) /\ chain[k] \in Block
      /\ Chain[chain[n]] \subseteq Block
  BY TypedFacts DEF IInv
<1>3. Typed'
  <2> PICK kept : kept = (side[n] \cup Chain[chain[n]]) \ Chain[b]
    OBVIOUS
  <2>1. IsFiniteSet(Chain[chain[n]])
    BY <1>2, FiniteChains
  <2>2. IsFiniteSet(side[n] \cup Chain[chain[n]])
    BY <1>2, <2>1, FS_Union
  <2>3. IsFiniteSet(kept) /\ kept \in SUBSET Block
    BY <1>2, <2>2, FS_Subset
  <2>4. side' \in [Node -> SUBSET Block] /\ chain' \in [Node -> Block]
        /\ \A k \in Node : IsFiniteSet(side'[k])
    <3>1. side' = [side EXCEPT ![n] = kept]
      BY <1>1
    <3> QED BY <1>1, <1>2, <2>3, <3>1
  <2>5. moves' \in 0 .. MaxMoves /\ stale' \in BOOLEAN
    BY <1>1, SyncAssumption DEF IInv, Typed, SessionsTyped
  <2> QED BY <1>1, <1>2, <2>4, <2>5, TypedFacts, TypedNext DEF Typed, SessionsTyped
<1>4. HandshakeInv'
  BY <1>1 DEF IInv, HandshakeInv, Fresh
<1>5. QueryInv'
  BY <1>1 DEF IInv, QueryInv, QueryOf, Outstanding, Waits
<1>6. CandidateInv'
  <2> SUFFICES ASSUME NEW k \in Node PROVE CandidateOf(k)'
    BY DEF CandidateInv
  <2>1. CandidateOf(k)
    BY DEF IInv, CandidateInv
  <2>2. stale' \/ candidate[k] = None \/ Chain[chain[k]] \subseteq Chain[chain'[k]]
    <3>1. CASE k = n
      BY <1>1, <1>2, <3>1, ChainFacts
    <3>2. CASE k # n
      BY <1>1, <1>2, <3>2
    <3> QED BY <3>1, <3>2
  <2> QED BY <1>1, <2>1, <2>2 DEF CandidateOf
<1>7. Grows
  <2> SUFFICES ASSUME NEW k \in Node PROVE Has(k) \subseteq Has(k)'
    BY DEF Grows
  <2> QED BY <1>1, <1>2 DEF Has
<1>8. Messages(n, gone, sent)
  <2>1. inbox'[n] = inbox[n] /\ inbox'[Other(n)] = inbox[Other(n)]
    BY <1>1
  <2> QED BY <2>1 DEF Messages
<1>9. /\ stale => stale'
      /\ \A h \in gone : Done(n, h)
      /\ \A x \in sent : Backed(Other(n), x)'
  BY <1>1
<1>10. DataInv'
  BY <1>2, <1>7, <1>8, <1>9, DataStep DEF IInv
<1>11. PendingInv'
  BY <1>1, <1>8, <1>9, PendingStep DEF IInv
<1>12. KnowsInv'
  BY <1>1, <1>7, <1>8, <1>9, KnowsStep DEF IInv
<1> QED BY <1>3, <1>4, <1>5, <1>6, <1>10, <1>11, <1>12 DEF IInv

-----------------------------------------------------------------------------
(* The invariant holds.                                                    *)

LEMMA InitIInv == Init => IInv
<1> SUFFICES ASSUME Init PROVE IInv
  OBVIOUS
<1>1. /\ chain \in [Node -> Block] /\ side = [n \in Node |-> {}] /\ inbox = [n \in Node |-> <<>>]
      /\ announced = [n \in Node |-> None] /\ candidate = [n \in Node |-> None]
      /\ knows = [n \in Node |-> {}] /\ score = [n \in Node |-> 0]
      /\ up = FALSE /\ stale = FALSE /\ moves = 0 /\ drops = 0
  BY DEF Init
<1>2. ASSUME NEW n \in Node
      PROVE  Fresh(n) /\ inbox[n] = <<>> /\ side[n] = {} /\ \A type : Count(inbox[n], type) = 0
  BY <1>1, CountShort DEF Fresh
<1>3. Typed
  <2>1. inbox \in [Node -> Seq(Message)] /\ <<>> \in Seq(Honest)
    BY <1>1, ShortLists, HonestMessages
  <2>2. \A n \in Node : IsFiniteSet(side[n])
    BY <1>2, FS_EmptySet
  <2>3. moves \in 0 .. MaxMoves /\ drops \in 0 .. MaxDrops
    BY <1>1, SyncAssumption
  <2>4. SessionsTyped
    <3>1. /\ announced \in [Node -> Block \cup {None}]
          /\ candidate \in [Node -> Candidate \cup {None}]
          /\ side \in [Node -> SUBSET Block] /\ knows \in [Node -> SUBSET Block]
          /\ score \in [Node -> Nat]
      BY <1>1
    <3> QED BY <1>1, <2>1, <2>3, <3>1 DEF SessionsTyped
  <2> QED BY <1>2, <2>1, <2>2, <2>4 DEF Typed
<1>4. HandshakeInv /\ CandidateInv /\ PendingInv /\ KnowsInv
  BY <1>2 DEF HandshakeInv, CandidateInv, CandidateOf, PendingInv, KnowsInv, Fresh
<1>5. QueryInv
  <2> SUFFICES ASSUME NEW n \in Node PROVE QueryOf(n)
    BY DEF QueryInv
  <2>1. Outstanding(n) = 0
    BY <1>2, OtherFacts DEF Outstanding
  <2> QED BY <1>2, <2>1 DEF QueryOf, Fresh, Waits
<1>6. DataInv
  BY <1>2, ShortLists DEF DataInv
<1> QED BY <1>3, <1>4, <1>5, <1>6 DEF IInv

LEMMA NextIInv == IInv /\ [Next]_vars => IInv'
<1> SUFFICES ASSUME IInv, [Next]_vars PROVE IInv'
  OBVIOUS
<1>1. CASE Connect
  BY <1>1, ConnectKeeps
<1>2. CASE Drop
  BY <1>2, DropKeeps
<1>3. ASSUME NEW n \in Node, Receive(n) PROVE IInv'
  <2>1. CASE HandleVersion(n)
    BY <2>1, HandleVersionKeeps
  <2>2. CASE HandleGetStatus(n)
    BY <2>2, HandleGetStatusKeeps
  <2>3. CASE HandleStatus(n)
    BY <2>3, HandleStatusKeeps
  <2>4. CASE HandleGetHeaders(n)
    BY <2>4, HandleGetHeadersKeeps
  <2>5. CASE RefuseHeaders(n)
    BY <2>5, RefuseHeadersKeeps
  <2>6. CASE OverrunHeaders(n)
    BY <2>6, OverrunHeadersKeeps
  <2>7. CASE ContinueHeaders(n)
    BY <2>7, ContinueHeadersKeeps
  <2>8. CASE FinishHeaders(n)
    BY <2>8, FinishHeadersKeeps
  <2>9. CASE HandleInv(n)
    BY <2>9, HandleInvKeeps
  <2>10. CASE HandleGetData(n)
    BY <2>10, HandleGetDataKeeps
  <2>11. ASSUME NEW b \in Block, HandleCandidateBlock(n, b) PROVE IInv'
    BY <2>11, HandleCandidateBlockKeeps
  <2>12. ASSUME NEW b \in Block, HandleOtherBlock(n, b) PROVE IInv'
    BY <2>12, HandleOtherBlockKeeps
  <2> QED BY <1>3, <2>1, <2>2, <2>3, <2>4, <2>5, <2>6, <2>7, <2>8, <2>9, <2>10, <2>11, <2>12
          DEF Receive
<1>4. ASSUME NEW n \in Node, StartCandidate(n) PROVE IInv'
  BY <1>4, StartCandidateKeeps
<1>5. ASSUME NEW n \in Node, Scan(n) PROVE IInv'
  BY <1>5, ScanKeeps
<1>6. ASSUME NEW n \in Node, NEW b \in Block, Advance(n, b) PROVE IInv'
  BY <1>6, AdvanceKeeps
<1>7. ASSUME NEW n \in Node, RefuseTransaction(n) \/ BanEnds(n) PROVE IInv'
  BY <1>7, StutterKeeps DEF RefuseTransaction, BanEnds
<1>8. ASSUME NEW n \in Node, Ban(n) PROVE IInv'
  BY <1>8, DropKeeps
<1>9. CASE UNCHANGED vars
  BY <1>9, StutterKeeps DEF vars, outside
<1> QED BY <1>1, <1>2, <1>3, <1>4, <1>5, <1>6, <1>7, <1>8, <1>9 DEF Next

LEMMA InitBlame == Init => BlameTyped
BY SyncAssumption DEF Init, BlameTyped

LEMMA Inductive == Spec => [](IInv /\ BlameTyped)
BY InitIInv, NextIInv, InitBlame, BlameKeeps, PTL DEF Spec

-----------------------------------------------------------------------------
(* The theorems.                                                           *)

\* The properties look at places of the inbox, the invariant at its messages.
LEMMA ComingFacts ==
    ASSUME NEW n \in Node
    PROVE  /\ \A type : Cardinality(Coming(n, type)) = Count(inbox[n], type)
           /\ \A type, b : BlockComing(n, type, b) <=>
                             \E m \in ToSet(inbox[n]) : m.type = type /\ m.block = b
           /\ \A b : AskedFor(n, b) <=>
                       \E m \in ToSet(inbox[n]) : m.type = "getdata" /\ b \in m.blocks
           /\ \A i \in Coming(n, "getdata") :
                inbox[n][i] \in ToSet(inbox[n]) /\ inbox[n][i].type = "getdata"
<1>1. \A type : Coming(n, type) = Places(inbox[n], type)
  BY DEF Coming, Places
<1> QED BY <1>1 DEF Count, BlockComing, AskedFor, Coming, ToSet

\* Every variable stays in its type: in particular a candidate always has a fork, and
\* the answers to its requests always arrive at a candidate (net.cpp:1434-1455).
THEOREM TypeCorrect == Spec => []TypeOK
<1>1. IInv /\ BlameTyped => TypeOK
  BY DEF IInv, Typed, TypeOK
<1> QED BY <1>1, Inductive, PTL

\* Whatever happens to their chains, the exchange of headers and blocks costs an honest
\* peer 25 points in a session, and no more; the rest of its score are the transactions
\* that were refused, 25 points each (net.cpp:1596-1645, 1822-1824, 1989).
THEOREM SyncBlamesOnce == Spec => []BlamedOnce
<1>1. IInv /\ BlameTyped => BlamedOnce
  <2> SUFFICES ASSUME IInv, BlameTyped, NEW n \in Node
               PROVE  Misbehavior(n) <= 25 * (refused[n] + 1)
    BY DEF BlamedOnce
  <2>1. refused[n] \in Nat /\ score[n] \in {0, 25}
    BY DEF BlameTyped, IInv, QueryInv, QueryOf
  <2> QED BY <2>1 DEF Misbehavior
<1> QED BY <1>1, Inductive, PTL

\* A candidate waits for exactly one headers message, or for blocks that are all on
\* their way (net.cpp:1430-1455, 1512-1545, 1587-1655).
THEOREM RequestsAreAnswered == Spec => []AnswerOnItsWay
<1>1. IInv => AnswerOnItsWay
  <2> SUFFICES ASSUME IInv, NEW n \in Node, candidate[n] # None, score[n] = 0
               PROVE  IF candidate[n].pending = {}
                      THEN Cardinality(Coming(Other(n), "getheaders"))
                             + Cardinality(Coming(n, "headers")) = 1
                      ELSE stale \/ \A b \in candidate[n].pending :
                              AskedFor(Other(n), b) \/ BlockComing(n, "block", b)
    BY DEF AnswerOnItsWay
  <2>1. Other(n) \in Node
    BY OtherFacts
  <2>2. CASE candidate[n].pending = {}
    <3>1. Outstanding(n) = 1
      BY <2>2 DEF IInv, QueryInv, QueryOf, Waits
    <3> QED BY <2>1, <2>2, <3>1, ComingFacts DEF Outstanding
  <2>3. CASE candidate[n].pending # {}
    <3>1. stale \/ \A b \in candidate[n].pending : Supplied(n, b)
      BY DEF IInv, PendingInv
    <3> QED BY <2>1, <2>3, <3>1, ComingFacts DEF Supplied
  <2> QED BY <2>2, <2>3
<1> QED BY <1>1, Inductive, PTL

\* A node has every block its peer asks it for (net.cpp:1512-1545, 1747-1807).
THEOREM NothingAskedInVain == Spec => []NothingMissing
<1>1. IInv => NothingMissing
  BY ComingFacts DEF IInv, DataInv, Backed, NothingMissing
<1> QED BY <1>1, Inductive, PTL

\* What a session takes its peer to know, the peer has, or is told of, or has asked
\* for (net.cpp:1747-1836, 1919-1950).
THEOREM NothingKeptFromPeer == Spec => []KnowsWhatPeerHas
<1>1. IInv => KnowsWhatPeerHas
  <2> SUFFICES ASSUME IInv, ~stale, NEW n \in Node, NEW b \in knows[n]
               PROVE  \/ b \in Has(Other(n))
                      \/ BlockComing(Other(n), "inv", b) \/ BlockComing(Other(n), "block", b)
                      \/ AskedFor(n, b)
    BY DEF KnowsWhatPeerHas
  <2>1. Other(n) \in Node /\ Other(Other(n)) = n
    BY OtherFacts
  <2>2. b \in Has(Other(n)) \/ Told(Other(n), b) \/ Supplied(Other(n), b)
    BY DEF IInv, KnowsInv
  <2> QED BY <2>1, <2>2, ComingFacts DEF Told, Supplied
<1> QED BY <1>1, Inductive, PTL
=============================================================================
