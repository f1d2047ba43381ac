------------------------------ MODULE PeerBook ------------------------------
(***************************************************************************)
(* The peers and the bans a node keeps (peer_store.cpp, ban_store.cpp,     *)
(* bootstrap.cpp and the handlers of net.cpp that use them).               *)
(*                                                                         *)
(* Each handler loads a file, changes it and saves it under one mutex, and *)
(* the file is replaced as a whole: a handler is one step, and a node that *)
(* dies leaves the files as they were.  A record has no services here, and *)
(* a ban no score and no reason: nothing is decided by them.               *)
(***************************************************************************)
EXTENDS Integers, Sequences, FiniteSets, SequencesExt

CONSTANTS
    Endpoint, HostOf,
    Own,            \* where this node listens, unless on all addresses
    Loopbacks,      \* its port on 127.0.0.1 and on ::1
    LoopbackHost,   \* hosts that are never banned
    Seed,           \* the compiled endpoints
    Resolved,       \* the endpoints the seed's name may resolve to
    MaxOutbound,
    FailureLimit,   \* 10: a peer with as many failures is not selected
    BanSeconds,
    Skew,           \* how far in the future a peer may have been seen: 600
    MaxTime         \* bound of the clock

ASSUME BookAssumption ==
    /\ Own \in Endpoint /\ Loopbacks \subseteq Endpoint /\ Seed \in Seq(Endpoint) /\ Resolved \subseteq Endpoint
    /\ MaxOutbound \in Nat /\ FailureLimit \in Nat \ {0}
    /\ BanSeconds \in Nat /\ Skew \in Nat /\ MaxTime \in Nat

VARIABLES
    peers,      \* peers.dat: a sequence of records
    bans,       \* the ban list: hosts and when their ban ends
    now,
    asked,      \* the endpoints the node was last started with
    mine,       \* those it took for itself then
    dialled     \* the set of those it selected to dial

bookVars == <<peers, bans, now, asked, mine, dialled>>

Record(endpoint, seen, success, manual) ==
    [endpoint |-> endpoint, seen |-> seen, success |-> success, failures |-> 0, manual |-> manual]

Larger(a, b) == IF a > b THEN a ELSE b
Smaller(a, b) == IF a < b THEN a ELSE b

\* -------------------------------------------------------------------------
\* PeerStore.

PlaceOf(book, e) == {i \in DOMAIN book : book[i].endpoint = e}

AddIfMissing(book, r) == IF PlaceOf(book, r.endpoint) = {} THEN Append(book, r) ELSE book

\* Mutant: the more failures count.
MergeFailures(old, new) ==
    [old EXCEPT !.seen     = Larger(@, new.seen),
                !.success  = Larger(@, new.success),
                !.failures = Larger(@, new.failures),
                !.manual   = @ \/ new.manual]

\* What is heard of a known peer is merged: the fewer failures count.
Merge(old, new) ==
    [old EXCEPT !.seen     = Larger(@, new.seen),
                !.success  = Larger(@, new.success),
                !.failures = Smaller(@, new.failures),
                !.manual   = @ \/ new.manual]

AddOrUpdate(book, r) ==
    IF PlaceOf(book, r.endpoint) = {} THEN Append(book, r)
    ELSE [i \in DOMAIN book |-> IF book[i].endpoint = r.endpoint THEN Merge(book[i], r) ELSE book[i]]

\* The records are added one after the other.
AddAll(book, records, Add(_, _)) ==
    LET added[k \in 0 .. Len(records)] ==
            IF k = 0 THEN book ELSE Add(added[k - 1], records[k])
    IN  added[Len(records)]

Load(file) == AddAll(<<>>, file, AddOrUpdate)

MarkSuccess(book, e) ==
    IF PlaceOf(book, e) = {} THEN Append(book, Record(e, now, now, FALSE))
    ELSE [i \in DOMAIN book |->
            IF book[i].endpoint # e THEN book[i]
            ELSE [book[i] EXCEPT !.seen = now, !.success = now, !.failures = 0]]

MarkFailure(book, e) ==
    [i \in DOMAIN book |->
        IF book[i].endpoint # e THEN book[i]
        ELSE [book[i] EXCEPT !.failures = Smaller(@ + 1, FailureLimit)]]

\* The configured peers first, then by last success, failures and last seen.
Before(p, q) ==
    \/ p.manual /\ ~q.manual
    \/ /\ p.manual = q.manual
       /\ \/ p.success > q.success
          \/ p.success = q.success /\ p.failures < q.failures
          \/ p.success = q.success /\ p.failures = q.failures /\ p.seen > q.seen

Eligible(book, excluded) ==
    {i \in DOMAIN book : book[i].failures < FailureLimit /\ book[i].endpoint \notin excluded}

\* Record i comes before record j; the sort is stable.
Earlier(book, i, j) ==
    Before(book[i], book[j]) \/ (~Before(book[j], book[i]) /\ i < j)

\* The first of the eligible ones, to the limit.
Ahead(book, excluded, i) == {j \in Eligible(book, excluded) : Earlier(book, j, i)}

SelectOutbound(book, excluded) ==
    {book[i].endpoint : i \in {k \in Eligible(book, excluded) :
                                    Cardinality(Ahead(book, excluded, k)) < MaxOutbound}}

\* -------------------------------------------------------------------------
\* BanStore.

Unexpired(list) == {b \in list : b.until > now}

Banned(host) == \E b \in Unexpired(bans) : b.host = host

\* A new ban never ends an older one of the host earlier.
WithBan(list, host) ==
    LET older == {b \in list : b.host = host}
        until == {now + BanSeconds} \cup {b.until : b \in older}
    IN  (list \ older)
          \cup {[host |-> host, until |-> CHOOSE u \in until : \A v \in until : u >= v]}

\* -------------------------------------------------------------------------
\* The handlers.

BookInit == peers = <<>> /\ bans = {} /\ now = 0 /\ asked = {} /\ mine = {} /\ dialled = {}

\* The records a start adds: the seeds when they are used, and what the name
\* resolves to, if it does.
Bootstrap(book, resolved) ==
    AddAll(book, [i \in DOMAIN (Seed \o resolved) |-> Record((Seed \o resolved)[i], now, 0, FALSE)],
           AddIfMissing)

\* The node starts with some configured endpoints and selects whom to dial. When it
\* listens on all addresses (0.0.0.0, ::) it has no endpoint of its own to record, and
\* knows itself by the loopback addresses only.
StartNode(configured, resolved, useSeeds, everywhere) ==
    LET known == IF useSeeds THEN Bootstrap(Load(peers), resolved) ELSE Load(peers)
        told  == AddAll(known, [i \in DOMAIN configured |-> Record(configured[i], now, 0, TRUE)],
                        AddOrUpdate)
    IN  /\ peers' = IF everywhere THEN told ELSE AddOrUpdate(told, Record(Own, now, now, FALSE))
        /\ asked' = ToSet(configured)
        /\ mine' = IF everywhere THEN Loopbacks ELSE Loopbacks \cup {Own}
        /\ dialled' = SelectOutbound(peers', mine')
        /\ UNCHANGED <<bans, now>>

\* A dialled peer that is not banned answers the handshake, or does not.
Connected(e) ==
    /\ ~Banned(HostOf[e])
    /\ peers' = MarkSuccess(Load(peers), e)
    /\ UNCHANGED <<bans, now, asked, mine, dialled>>

DialFails(e) ==
    /\ ~Banned(HostOf[e])
    /\ peers' = MarkFailure(Load(peers), e)
    /\ UNCHANGED <<bans, now, asked, mine, dialled>>

\* A peer tells of another one; what it says of its own failures is nothing. The node
\* passes over the endpoint it listens on, and hears of its loopback addresses like
\* any other: what it passes over on 0.0.0.0, 127.0.0.1, it hears on ::.
HearAddress(e, seen) ==
    /\ e # Own \/ Own \notin mine
    /\ peers' = AddOrUpdate(Load(peers), Record(e, Smaller(seen, now + Skew), 0, FALSE))
    /\ UNCHANGED <<bans, now, asked, mine, dialled>>

BanPeer(host) ==
    /\ host \notin LoopbackHost
    /\ bans' = WithBan(Unexpired(bans), host)
    /\ UNCHANGED <<peers, now, asked, mine, dialled>>

ClearBans ==
    /\ bans' = {}
    /\ UNCHANGED <<peers, now, asked, mine, dialled>>

Tick ==
    /\ now < MaxTime
    /\ now' = now + 1
    /\ UNCHANGED <<peers, bans, asked, mine, dialled>>

BookNext ==
    \/ \E e \in Endpoint, r \in Resolved, useSeeds, everywhere \in BOOLEAN :
          StartNode(<<e>>, <<r>>, useSeeds, everywhere) \/ StartNode(<<>>, <<>>, useSeeds, everywhere)
    \/ \E e \in dialled : Connected(e) \/ DialFails(e)
    \/ \E e \in Endpoint, seen \in 0 .. MaxTime : HearAddress(e, seen)
    \/ \E e \in Endpoint : BanPeer(HostOf[e])
    \/ ClearBans
    \/ Tick

BookSpec == BookInit /\ [][BookNext]_bookVars

\* -------------------------------------------------------------------------
\* Properties.

\* One record an endpoint: every search stops at the first.
OneRecordEach == \A i, j \in DOMAIN peers : peers[i].endpoint = peers[j].endpoint => i = j

\* An endpoint the operator names, not the node itself, is dialled whatever was recorded
\* of it, unless the limit is spent on others that were named, then or before.
NamedIsDialled ==
    \A e \in asked \ mine :
        \/ e \in dialled
        \/ /\ Cardinality(dialled) = MaxOutbound
           /\ \A p \in ToSet(peers) : p.endpoint \in dialled => p.manual

\* A ban that is not over stays in the list, or is made longer.
Holds(ban) == \E later \in bans' : later.host = ban.host /\ later.until >= ban.until

\* What is learned of peers never takes away what the operator or the node
\* decided: an endpoint has one record, a peer that is named at a start is
\* dialled however often it failed before and whatever peers told of it, unless
\* the limit is spent on others that were named too, and a ban lasts to its end
\* unless the list is cleared.
\* (add_or_update, select_outbound, BanStore::ban, load.)
BooksKept ==
    [][/\ OneRecordEach' /\ NamedIsDialled'
       /\ ClearBans \/ \A ban \in Unexpired(bans) : Holds(ban)]_bookVars

=============================================================================
