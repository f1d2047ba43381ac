------------------------------ MODULE MCValues ------------------------------
(***************************************************************************)
(* Small inputs for Encodings and Payment, and a small PeerBook: three     *)
(* parts that share nothing, told apart by kind.  A sender writes a value, *)
(* and what arrives is the written string or one that differs from it at   *)
(* one place: a byte changed, added or removed, or the rest cut off.  A    *)
(* wallet pays from some coins.  A node keeps its books.                   *)
(***************************************************************************)
EXTENDS Payment, PeerBook

CONSTANTS seed, self, local  \* the seed's address, and two of this node
VARIABLES
    kind,       \* which part: an encoding, "payment" or "books"
    value,      \* what was written, or the wallet that pays
    wire,       \* the string that arrives
    changed     \* it is not the one that was written

MCAddress == [n \in {1, 2} |-> 2 * n - 1]
MCStart == <<5, 1>>
MCGenesis == <<2, 1>>
MCHostOf == [e \in Endpoint |-> e]
MCSeed == <<seed>>
Bytes == 0 .. Base - 1

\* -------------------------------------------------------------------------
\* Values.

H(b) == [i \in 1 .. HashSize |-> (b + i) % Base]

Tx(version, n, m, script) ==
    [version |-> version, lockTime |-> 215,
     inputs |-> [i \in 1 .. n |-> [txid |-> H(i), index |-> 7 * i, script |-> script, sequence |-> 36]],
     outputs |-> [o \in 1 .. m |-> [value |-> 40 * o, script |-> [k \in 1 .. o |-> k]]]]

Txs == {Tx(v, n, m, script) :
          v \in {-1, 1}, n \in 0 .. 2, m \in 1 .. 2, script \in {<<>>, <<5>>, <<1, 2, 3>>}}

Header(nonce) == [version |-> -2, previous |-> H(1), merkle |-> H(3), time |-> 200,
                  bits |-> TestnetBits, nonce |-> nonce]

Block(n, nonce) == [height |-> 100 * n, header |-> Header(nonce),
                    txs |-> [i \in 1 .. n - 1 |-> Tx(i, 1, i, <<i>>)]]

HostOn(n, b) == [kind |-> n, bytes |-> [i \in 1 .. (IF n = 0 THEN 4 ELSE Address[n]) |-> b]]

Addr(n, port, seen) ==
    [host |-> HostOn(n, 2), port |-> port, services |-> 4, lastSeen |-> seen,
     lastSuccess |-> 0, failures |-> 0, manual |-> FALSE]

Versions ==
    {[protocol |-> p, services |-> 1, timestamp |-> t, bestHeight |-> 37, genesis |-> g,
      tip |-> H(2), chainwork |-> H(4), nonce |-> 1295, userAgent |-> agent] :
     p \in {ProtocolVersion, 0}, t \in {-5, 30}, g \in {Genesis, H(5)}, agent \in {<<>>, <<2, 2, 3>>}}

Messages == {[command |-> c, payload |-> p] :
               c \in {<<2>>, <<2, 3>>, <<5>>, <<>>}, p \in {<<>>, <<0>>, <<4, 1, 5, 0>>}}

Values(k) ==
    CASE k = "compact"      -> 0 .. 300 \cup {1295}
      [] k = "transaction"  -> Txs
      [] k = "transactions" -> {[i \in 1 .. l |-> Tx(1, i, 1, <<5>>)] : l \in 0 .. 2}
      [] k = "header"       -> {Header(n) : n \in {0, 215}}
      [] k = "blocks"       -> {[n \in 1 .. l |-> Block(n, 0)] : l \in 0 .. 3}
      [] k = "inventory"    -> {[n \in 1 .. l |-> [type |-> 1 + (n % 2), hash |-> H(n)]] : l \in 0 .. 4}
      [] k = "getheaders"   -> {[locator |-> [n \in 1 .. l |-> H(n)], stop |-> H(0)] : l \in 0 .. 4}
      [] k = "headers"      -> {[n \in 1 .. l |-> [height |-> n, header |-> Header(2)]] : l \in 0 .. 3}
      [] k = "version"      -> Versions
      [] k = "addresses"    -> {[n \in 1 .. l |-> Addr((n + f) % 3, 7 * n, seen)] :
                                  l \in 0 .. 4, f \in 0 .. 2, seen \in {-1, 215, 216}}
      [] k = "frame"        -> Messages
      [] k = "amount"       -> 0 .. MaxMoney

Write(k, v) ==
    CASE k = "compact"      -> {Compact(v)}
      [] k = "transaction"  -> WriteTransaction(v)
      [] k = "transactions" -> WriteTransactions(v)
      [] k = "header"       -> {WriteHeader(v)}
      [] k = "blocks"       -> WriteBlocks(v, 0, MaxBlocksPerResponse)
      [] k = "inventory"    -> WriteInventory(v)
      [] k = "getheaders"   -> WriteGetHeaders(v)
      [] k = "headers"      -> WriteHeaders(v)
      [] k = "version"      -> {WriteVersion(v)}
      [] k = "addresses"    -> WriteAddresses(v)
      [] k = "frame"        -> WriteFrame(v)
      [] k = "amount"       -> {FormatAmount(v)}

Read(k, s) ==
    CASE k = "compact"      -> Whole(s, ReadCompact(s, 0))
      [] k = "transaction"  -> ReadTransaction(s)
      [] k = "transactions" -> ReadTransactions(s)
      [] k = "header"       -> ReadHeader(s)
      [] k = "blocks"       -> ReadBlocks(s)
      [] k = "inventory"    -> ReadInventory(s)
      [] k = "getheaders"   -> ReadGetHeaders(s)
      [] k = "headers"      -> ReadHeaders(s)
      [] k = "version"      -> ReadVersion(s)
      [] k = "addresses"    -> ReadAddresses(s)
      [] k = "frame"        -> ReadFrame(s)
      [] k = "amount"       -> ParseAmount(s)

Kinds == {"compact", "transaction", "transactions", "header", "blocks", "inventory",
          "getheaders", "headers", "version", "addresses", "frame", "amount"}

\* What the other side should read: a version of its own network, and of an
\* address only what is sent of it.
Expected(k, v) ==
    CASE k = "version"   -> {x \in {v} : x.protocol = ProtocolVersion /\ x.genesis = Genesis}
      [] k = "addresses" ->
            LET sent == Encodable(v)
            IN  {[i \in DOMAIN sent |->
                    [sent[i] EXCEPT !.lastSeen = IF @ < 0 THEN 0 ELSE IF @ > 215 THEN 215 ELSE @]]}
      [] OTHER -> {v}

\* Readings that need not be written the same: an amount has several spellings,
\* and an item of an address list may have been passed over.
Loose(k, v, s) ==
    \/ k = "amount"
    \/ k = "addresses" /\ \A x \in ReadCompact(s, 0) : x.v # Len(v)

\* -------------------------------------------------------------------------
\* Wallets that pay.

Coins ==
    {[txid |-> H(1), index |-> 0, value |-> 20, key |-> 3, height |-> 1, coinbase |-> TRUE],
     [txid |-> H(2), index |-> 0, value |-> 70, key |-> 4, height |-> 2, coinbase |-> TRUE],
     [txid |-> H(2), index |-> 1, value |-> 35, key |-> 3, height |-> 2, coinbase |-> FALSE],
     [txid |-> H(3), index |-> 0, value |-> 35, key |-> 4, height |-> 4, coinbase |-> FALSE],
     [txid |-> H(4), index |-> 0, value |-> 90, key |-> 5, height |-> 1, coinbase |-> FALSE]}

Wallets ==
    {[utxos |-> utxos, height |-> h, amount |-> a, target |-> t, mode |-> m, sizes |-> sizes] :
     utxos \in SUBSET Coins, h \in {3, 4}, a \in 0 .. 120,
     t \in {0, 6}, m \in {"economical", "conservative"},
     sizes \in {[i \in 1 .. 4 |-> 4], [i \in 1 .. 4 |-> IF i = 2 THEN 3 ELSE 4]}}

\* -------------------------------------------------------------------------

vars == <<kind, value, wire, changed, bookVars>>

Init ==
    /\ changed = FALSE /\ BookInit
    /\ \/ \E k \in Kinds : \E v \in Values(k) : kind = k /\ value = v /\ wire \in Write(k, v)
       \/ kind = "payment" /\ value \in Wallets /\ wire = <<>>
       \/ kind = "books" /\ value = <<>> /\ wire = <<>>

Symbols == IF kind = "amount" THEN Bytes \cup {Dot, Minus} ELSE Bytes

Change ==
    /\ kind \in Kinds /\ ~changed /\ changed' = TRUE
    /\ UNCHANGED <<kind, value, bookVars>>
    /\ \E i \in 0 .. Len(wire), b \in Symbols :
         LET before == SubSeq(wire, 1, i)
         IN  \/ wire' = before \o <<b>> \o SubSeq(wire, i + 1, Len(wire))
             \/ wire' = before \o <<b>> \o SubSeq(wire, i + 2, Len(wire))
             \/ wire' = before \o SubSeq(wire, i + 2, Len(wire))
             \/ wire' = before

KeepBooks ==
    /\ kind = "books" /\ BookNext
    /\ UNCHANGED <<kind, value, wire, changed>>

Next == Change \/ KeepBooks

Spec == Init /\ [][Next]_vars

\* -------------------------------------------------------------------------

\* What is written is read back as it was, and a string that is read is the only
\* one its value has: hashes are taken of what was read and written again, so a
\* second spelling of a transaction, a header or a block would have the same hash
\* as the first, and a frame cut at the wrong place would read another message.
\* (serialize, deserialize and the serialize_ and deserialize_ functions of
\* net.cpp; the non-canonical CompactSize and trailing bytes they refuse.)
EncodingsExact ==
    kind \in Kinds =>
        /\ ~changed => Read(kind, wire) = Expected(kind, value)
        /\ \A v \in Read(kind, wire) : Loose(kind, v, wire) \/ Write(kind, v) = {wire}
        /\ kind = "frame" =>
             \A m \in Messages : \A next \in WriteFrame(m) :
                LET first == ReceiveMessage(wire \o next, 0)
                IN  /\ \A x \in first : WriteFrame(x.v) = {SubSeq(wire \o next, 1, x.at)}
                    /\ ~changed => /\ {x.v : x \in first} = {value}
                                   /\ ReceiveMessage(wire \o next, Len(wire)) = Got(m, Len(wire \o next))

\* A payment the wallet makes is one every node accepts, pays the destination the
\* amount that was typed and keeps the rest but for a fee, which is what the rate
\* asks of the transaction with change and full signatures; the wallet refuses
\* only what all it can spend together does not cover; and what getbalance shows
\* as spendable is what it selects from.
\* (create_payment, balance, FeeRate::fee, apply_transaction.)
PaymentSound ==
    kind = "payment" =>
        LET w == value
            all == Available(w.utxos, w.height)
            balance == Balance(w.utxos, w.height)
            text == FormatAmount(w.amount)
            payments == SendToAddress(w.utxos, w.height, 5, text, w.target, w.mode, w.sizes)
        IN  /\ balance.total = balance.spendable + balance.immature
            /\ balance.spendable = Total(all)
            /\ \A t \in payments, rate \in Estimate(w.target, w.mode) :
                 \A fee \in ApplyTransaction(t, w.height, w.utxos) :
                   /\ t.outputs[1] = [value |-> w.amount, script |-> LockingScript(5)]
                   /\ \A due \in FeeOfTransaction(rate, t) : fee >= due
                   /\ ReservedFee(SubSeq(all, 1, Len(t.inputs)), w.amount, 5, rate) = {fee}
            /\ \A rate \in Estimate(w.target, w.mode) :
                 (payments = {} /\ w.amount > 0) =>
                   \A fee \in ReservedFee(all, w.amount, 5, rate) : Total(all) < w.amount + fee

=============================================================================
