----------------------------- MODULE Encodings -----------------------------
(***************************************************************************)
(* The byte strings of the program: what its writers produce and what its  *)
(* readers accept (serialize.cpp, transaction.cpp, block.cpp, net.cpp).    *)
(* The sizes are parameters: a byte has Base values (256 in the code), the *)
(* integer types have W16, W32 and W64 bytes (2, 4 and 8) and a hash has   *)
(* HashSize (32).                                                          *)
(*                                                                         *)
(* A writer yields the set of the strings it returns: one, or none when it *)
(* throws.  A reader takes a string and the number of bytes read before    *)
(* it, and yields what it read and where it stopped, or nothing when it    *)
(* throws.                                                                 *)
(***************************************************************************)
EXTENDS Integers, Sequences, FiniteSets, SequencesExt

CONSTANTS
    Base, W16, W32, W64, HashSize,
    MaxMoney, MaxItems, MaxScript,              \* limits of a transaction
    MaxTransactionBytes, MaxBlocksPerResponse,  \* limits of a block response
    MaxPayload, MaxInventory, MaxLocator, MaxHeadersSent, MaxAddresses,
    MaxUserAgent, CommandSize,
    MessageStart,        \* the bytes a frame of this network starts with
    Printable,           \* the bytes a command may be made of
    Address,             \* network id -> bytes of an address: 4 and 16
    ProtocolVersion, Genesis, TestnetBits,
    Solving              \* the nonces whose header's hash is below the target

\* -------------------------------------------------------------------------
\* Integers.

\* How many values that many bytes have.
Power(width) ==
    LET power[k \in 0 .. width] == IF k = 0 THEN 1 ELSE Base * power[k - 1]
    IN  power[width]

ASSUME SizesAssumption ==
    /\ Base \in Nat /\ Base > 4
    /\ W16 \in Nat /\ W32 \in Nat /\ W64 \in Nat
    /\ 0 < W16 /\ W16 < W32 /\ W32 < W64
    /\ HashSize \in Nat \ {0}
    /\ MaxMoney \in Nat /\ 2 * MaxMoney < Power(W64)
    /\ MaxItems \in Nat /\ MaxItems < Power(W64)
    /\ MaxScript \in Nat /\ MaxScript < Power(W64)
    /\ MessageStart \in Seq(0 .. Base - 1) /\ CommandSize \in Nat
    /\ MaxPayload \in Nat /\ MaxPayload < Power(W32)
    /\ MaxTransactionBytes \in Nat /\ MaxTransactionBytes < Power(W64)
    /\ MaxBlocksPerResponse \in Nat /\ MaxBlocksPerResponse < Power(W64)
    /\ MaxInventory \in Nat /\ MaxInventory < Power(W64)
    /\ MaxLocator \in Nat /\ MaxLocator < Power(W64)
    /\ MaxHeadersSent \in Nat /\ MaxHeadersSent < Power(W64)
    /\ Printable \subseteq 1 .. Base - 1

\* An integer of some bytes, the lowest byte first: the value is shifted by one
\* byte after the other.  A negative one wraps.
Number(v, width) ==
    LET shifted[k \in 0 .. width] == IF k = 0 THEN v ELSE shifted[k - 1] \div Base
    IN  [i \in 1 .. width |-> shifted[i - 1] % Base]

\* CompactSize: one byte below 253; above, a marker and the shortest type.
Compact(v) ==
    CASE v < Base - 3                        -> <<v>>
      [] v \in Base - 3 .. Power(W16) - 1    -> <<Base - 3>> \o Number(v, W16)
      [] v \in Power(W16) .. Power(W32) - 1  -> <<Base - 2>> \o Number(v, W32)
      [] OTHER                               -> <<Base - 1>> \o Number(v, W64)

Throw == {}

Got(v, at) == {[v |-> v, at |-> at]}

\* What F reads after r.
Then(r, F(_, _)) == UNION {F(x.v, x.at) : x \in r}

\* What a reader that must end at the end of the string yields.
Whole(s, r) == {x.v : x \in {y \in r : y.at = Len(s)}}

\* The next count bytes; short input throws.
ReadBytes(s, at, count) ==
    IF count <= Len(s) - at
    THEN Got(SubSeq(s, at + 1, at + count), at + count)
    ELSE Throw

\* The number some bytes stand for: the last k of them, from the highest down.
Value(bytes) ==
    LET high[k \in 0 .. Len(bytes)] ==
            IF k = 0 THEN 0 ELSE bytes[Len(bytes) + 1 - k] + Base * high[k - 1]
    IN  high[Len(bytes)]

ReadNumber(s, at, width) ==
    Then(ReadBytes(s, at, width), LAMBDA bytes, a : Got(Value(bytes), a))

ReadSigned(s, at, width) ==
    Then(ReadNumber(s, at, width),
         LAMBDA v, a : Got(IF 2 * v >= Power(width) THEN v - Power(width) ELSE v, a))

\* Mutant: any form is accepted.
ReadCompactAnyForm(s, at) ==
    Then(ReadBytes(s, at, 1), LAMBDA marker, a :
        CASE marker[1] < Base - 3 -> Got(marker[1], a)
          [] marker[1] = Base - 3 -> ReadNumber(s, a, W16)
          [] marker[1] = Base - 2 -> ReadNumber(s, a, W32)
          [] OTHER                -> ReadNumber(s, a, W64))

\* A value that a shorter form can hold is refused.
ReadCompact(s, at) ==
    LET AtLeast(low, width, a) ==
            Then(ReadNumber(s, a, width),
                 LAMBDA v, b : IF v < low THEN Throw ELSE Got(v, b))
    IN  Then(ReadBytes(s, at, 1),
             LAMBDA marker, a :
               CASE marker[1] < Base - 3 -> Got(marker[1], a)
                 [] marker[1] = Base - 3 -> AtLeast(Base - 3, W16, a)
                 [] marker[1] = Base - 2 -> AtLeast(Power(W16), W32, a)
                 [] OTHER                -> AtLeast(Power(W32), W64, a))

\* A hash is shown with its bytes in the opposite order of the wire.
Wire(hash) == Reverse(hash)

ReadHash(s, at) ==
    Then(ReadBytes(s, at, HashSize), LAMBDA bytes, a : Got(Reverse(bytes), a))

ReadField(s, at, type) ==
    CASE type = "u32"  -> ReadNumber(s, at, W32)
      [] type = "i32"  -> ReadSigned(s, at, W32)
      [] type = "u64"  -> ReadNumber(s, at, W64)
      [] type = "i64"  -> ReadSigned(s, at, W64)
      [] type = "size" -> ReadCompact(s, at)
      [] type = "hash" -> ReadHash(s, at)

\* Readers one after the other: readers[k][a] is what the k-th reads at a.
InTurn(at, readers) ==
    LET read[k \in 0 .. Len(readers)] ==
            IF k = 0 THEN Got(<<>>, at)
            ELSE Then(read[k - 1], LAMBDA vs, a :
                    Then(readers[k][a], LAMBDA v, b : Got(Append(vs, v), b)))
    IN  read[Len(readers)]

\* Several fields, or the same reader several times.
ReadFields(s, at, types) ==
    InTurn(at, [k \in 1 .. Len(types) |-> [a \in 0 .. Len(s) |-> ReadField(s, a, types[k])]])

ReadMany(s, at, count, Read(_, _)) ==
    InTurn(at, [k \in 1 .. count |-> [a \in 0 .. Len(s) |-> Read(s, a)]])

\* A count no greater than a limit, and as many items.
ReadList(s, at, limit, Read(_, _)) ==
    Then(ReadCompact(s, at), LAMBDA count, a :
        IF count > limit THEN Throw ELSE ReadMany(s, a, count, Read))

\* Bytes with their size in front, no more than a limit.
ReadSized(s, at, limit) ==
    Then(ReadCompact(s, at), LAMBDA size, a :
        IF size > limit THEN Throw ELSE ReadBytes(s, a, size))

Sized(bytes) == Compact(Len(bytes)) \o bytes

\* One string of each part, one after the other.
Linked(parts) ==
    LET linked[k \in 0 .. Len(parts)] ==
            IF k = 0 THEN {<<>>}
            ELSE {all \o one : all \in linked[k - 1], one \in parts[k]}
    IN  linked[Len(parts)]

\* The items one after the other; nothing when one of them throws.
Joined(items, Write(_)) == Linked([i \in 1 .. Len(items) |-> Write(items[i])])

\* -------------------------------------------------------------------------
\* Transactions and headers.

MoneyRange(v) == v \in 0 .. MaxMoney

\* The output total is bounded as it is summed: it never leaves the range.
ValidTransaction(t) ==
    /\ Len(t.inputs) \in 1 .. MaxItems
    /\ Len(t.outputs) \in 1 .. MaxItems
    /\ \A i \in DOMAIN t.inputs : Len(t.inputs[i].script) <= MaxScript
    /\ \A i \in DOMAIN t.outputs :
          /\ MoneyRange(t.outputs[i].value)
          /\ Len(t.outputs[i].script) <= MaxScript
    /\ MoneyRange(FoldLeft(LAMBDA sum, out : sum + out.value, 0, t.outputs))

WriteTransaction(t) ==
    LET Input(in) == {Wire(in.txid) \o Number(in.index, W32) \o Sized(in.script)
                        \o Number(in.sequence, W32)}
        Output(out) == {Number(out.value, W64) \o Sized(out.script)}
    IN  IF ~ValidTransaction(t) THEN Throw
        ELSE {Number(t.version, W32) \o Compact(Len(t.inputs)) \o inputs
                \o Compact(Len(t.outputs)) \o outputs \o Number(t.lockTime, W32) :
              inputs \in Joined(t.inputs, Input), outputs \in Joined(t.outputs, Output)}

ReadInput(s, at) ==
    Then(ReadFields(s, at, <<"hash", "u32">>), LAMBDA f, a :
      Then(ReadSized(s, a, MaxScript), LAMBDA script, b :
        Then(ReadNumber(s, b, W32), LAMBDA sequence, c :
          Got([txid |-> f[1], index |-> f[2], script |-> script, sequence |-> sequence], c))))

ReadOutput(s, at) ==
    Then(ReadSigned(s, at, W64), LAMBDA value, a :
      Then(ReadSized(s, a, MaxScript), LAMBDA script, b :
        Got([value |-> value, script |-> script], b)))

ReadTransaction(s) ==
    {t \in Whole(s,
        Then(ReadSigned(s, 0, W32), LAMBDA version, a :
          Then(ReadList(s, a, MaxItems, ReadInput), LAMBDA inputs, b :
            Then(ReadList(s, b, MaxItems, ReadOutput), LAMBDA outputs, c :
              Then(ReadNumber(s, c, W32), LAMBDA lockTime, d :
                Got([version |-> version, inputs |-> inputs, outputs |-> outputs,
                     lockTime |-> lockTime], d)))))) :
       ValidTransaction(t)}

HeaderSize == 4 * W32 + 2 * HashSize

WriteHeader(h) ==
    Number(h.version, W32) \o Wire(h.previous) \o Wire(h.merkle) \o Number(h.time, W32)
      \o Number(h.bits, W32) \o Number(h.nonce, W32)

ReadHeader(bytes) ==
    IF Len(bytes) # HeaderSize THEN Throw
    ELSE Whole(bytes,
        Then(ReadFields(bytes, 0, <<"i32", "hash", "hash", "u32", "u32", "u32">>),
             LAMBDA f, a : Got([version |-> f[1], previous |-> f[2], merkle |-> f[3],
                                time |-> f[4], bits |-> f[5], nonce |-> f[6]], a)))

\* -------------------------------------------------------------------------
\* Payloads.

\* Each transaction with its size; 100,000 of them at most are read.
WriteTransactions(txs) ==
    LET One(t) == {Sized(bytes) : bytes \in WriteTransaction(t)}
    IN  {Compact(Len(txs)) \o all : all \in Joined(txs, One)}

ReadTransactionList(s, at) ==
    LET One(z, from) ==
            Then(ReadSized(z, from, MaxTransactionBytes), LAMBDA bytes, a :
                UNION {Got(t, a) : t \in ReadTransaction(bytes)})
    IN  ReadList(s, at, MaxItems, One)

ReadTransactions(s) == Whole(s, ReadTransactionList(s, 0))

WriteBlock(b) ==
    {Number(b.height, W64) \o WriteHeader(b.header) \o txs : txs \in WriteTransactions(b.txs)}

ReadBlock(s, at) ==
    Then(ReadNumber(s, at, W64), LAMBDA height, a :
      Then(ReadBytes(s, a, HeaderSize), LAMBDA bytes, b :
        UNION {Then(ReadTransactionList(s, b), LAMBDA txs, c :
                   Got([height |-> height, header |-> header, txs |-> txs], c)) :
               header \in ReadHeader(bytes)}))

\* The blocks from a place in the chain on, as many as asked for and there are.
WriteBlocks(blocks, begin, most) ==
    LET count == IF most < Len(blocks) - begin THEN most ELSE Len(blocks) - begin
        part == SubSeq(blocks, begin + 1, begin + count)
        One(b) == {Sized(bytes) : bytes \in WriteBlock(b)}
        Fits(s) == Len(s) <= MaxPayload
    IN  IF begin > Len(blocks) THEN Throw
        ELSE {s \in {Compact(Len(part)) \o all : all \in Joined(part, One)} : Fits(s)}

ReadBlocks(s) ==
    LET One(z, from) ==
            Then(ReadSized(z, from, MaxPayload), LAMBDA bytes, a :
                UNION {Got(b, a) : b \in Whole(bytes, ReadBlock(bytes, 0))})
    IN  Whole(s, ReadList(s, 0, MaxBlocksPerResponse, One))

InventoryType == {1, 2}     \* a transaction, a block

WriteInventory(items) ==
    LET One(item) == {Number(item.type, W32) \o Wire(item.hash)}
    IN  IF Len(items) > MaxInventory THEN Throw
        ELSE {Compact(Len(items)) \o all : all \in Joined(items, One)}

ReadInventory(s) ==
    LET One(z, from) ==
            Then(ReadFields(z, from, <<"u32", "hash">>), LAMBDA f, a :
                IF f[1] \in InventoryType THEN Got([type |-> f[1], hash |-> f[2]], a) ELSE Throw)
    IN  Whole(s, ReadList(s, 0, MaxInventory, One))

WriteGetHeaders(request) ==
    LET One(hash) == {Wire(hash)}
    IN  IF Len(request.locator) \notin 1 .. MaxLocator THEN Throw
        ELSE {Compact(Len(request.locator)) \o all \o Wire(request.stop) :
              all \in Joined(request.locator, One)}

ReadGetHeaders(s) ==
    {r \in Whole(s,
        Then(ReadList(s, 0, MaxLocator, ReadHash), LAMBDA locator, a :
            Then(ReadHash(s, a), LAMBDA stop, b : Got([locator |-> locator, stop |-> stop], b)))) :
       r.locator # <<>>}

WriteHeaders(records) ==
    LET One(r) == {Number(r.height, W64) \o WriteHeader(r.header) \o Compact(0)}
    IN  IF Len(records) > MaxHeadersSent THEN Throw
        ELSE {Compact(Len(records)) \o all : all \in Joined(records, One)}

\* A record ends in a count of no transactions; its header has its work.
ReadHeaders(s) ==
    LET Worked(header) == header.bits = TestnetBits /\ header.nonce \in Solving
        One(z, from) ==
            Then(ReadNumber(z, from, W64), LAMBDA height, a :
              Then(ReadBytes(z, a, HeaderSize), LAMBDA bytes, b :
                Then(ReadCompact(z, b), LAMBDA zero, c :
                  UNION {IF zero = 0 /\ Worked(header)
                         THEN Got([height |-> height, header |-> header], c) ELSE Throw :
                         header \in ReadHeader(bytes)})))
    IN  Whole(s, ReadList(s, 0, MaxHeadersSent, One))

WriteVersion(v) ==
    Number(v.protocol, W32) \o Number(v.services, W64) \o Number(v.timestamp, W64)
      \o Number(v.bestHeight, W64) \o Wire(v.genesis) \o Wire(v.tip) \o Wire(v.chainwork)
      \o Number(v.nonce, W64) \o Sized(v.userAgent)

\* The version of another protocol or of another chain is refused.
ReadVersion(s) ==
    {v \in Whole(s,
        Then(ReadFields(s, 0, <<"u32", "u64", "i64", "u64", "hash", "hash", "hash", "u64">>),
             LAMBDA f, a :
               Then(ReadSized(s, a, MaxUserAgent), LAMBDA agent, b :
                   Got([protocol |-> f[1], services |-> f[2], timestamp |-> f[3],
                        bestHeight |-> f[4], genesis |-> f[5], tip |-> f[6],
                        chainwork |-> f[7], nonce |-> f[8], userAgent |-> agent], b)))) :
       v.protocol = ProtocolVersion /\ v.genesis = Genesis}

\* -------------------------------------------------------------------------
\* Addresses.

\* The network id a host is sent under: none for a name.
NetworkOf(host) == {n \in DOMAIN Address : host.kind = n}

\* A port goes highest byte first; a time is cut to its 32 bits.
WriteAddress(r) ==
    LET seen == IF r.lastSeen < 0 THEN 0
                ELSE IF r.lastSeen >= Power(W32) THEN Power(W32) - 1 ELSE r.lastSeen
    IN  {Number(seen, W32) \o Compact(r.services) \o <<n>> \o Sized(r.host.bytes)
           \o Reverse(Number(r.port, W16)) : n \in NetworkOf(r.host)}

\* The first records whose host is an address.
Encodable(records) ==
    LET some == SelectSeq(records, LAMBDA r : NetworkOf(r.host) # {})
    IN  SubSeq(some, 1, IF Len(some) < MaxAddresses THEN Len(some) ELSE MaxAddresses)

WriteAddresses(records) ==
    {Compact(Len(Encodable(records))) \o all : all \in Joined(Encodable(records), WriteAddress)}

\* An unknown network, or an address of another size, is passed over, and so
\* is port 0: the item yields no record.
ReadAddress(s, at) ==
    Then(ReadFields(s, at, <<"u32", "size">>), LAMBDA f, a :
      Then(ReadBytes(s, a, 1), LAMBDA network, b :
        Then(ReadCompact(s, b), LAMBDA size, c :
          Then(ReadBytes(s, c, size), LAMBDA bytes, d :
            Then(ReadBytes(s, d, W16), LAMBDA port, e :
              LET n == network[1]
                  known == n \in DOMAIN Address /\ size = Address[n] /\ Value(Reverse(port)) # 0
              IN  Got(IF ~known THEN <<>>
                      ELSE <<[host |-> [kind |-> n, bytes |-> bytes], port |-> Value(Reverse(port)),
                              services |-> f[2], lastSeen |-> f[1], lastSuccess |-> 0,
                              failures |-> 0, manual |-> FALSE]>>, e))))))

ReadAddresses(s) ==
    {FlattenSeq(lists) : lists \in Whole(s, ReadList(s, 0, MaxAddresses, ReadAddress))}

\* -------------------------------------------------------------------------
\* Frames.

\* The first byte of sha256d: some byte the whole payload decides.
Checksum(payload) ==
    LET sum[k \in 0 .. Len(payload)] ==
            IF k = 0 THEN Len(payload) % Base ELSE (sum[k - 1] + payload[k]) % Base
    IN  <<sum[Len(payload)]>>

FrameHeader == Len(MessageStart) + CommandSize + W32 + 1

ValidCommand(command) ==
    /\ Len(command) \in 1 .. CommandSize
    /\ \A i \in DOMAIN command : command[i] \in Printable

WriteFrame(m) ==
    LET padded == [i \in 1 .. CommandSize |-> IF i <= Len(m.command) THEN m.command[i] ELSE 0]
    IN  IF ~ValidCommand(m.command) \/ Len(m.payload) > MaxPayload THEN Throw
        ELSE {MessageStart \o padded \o Number(Len(m.payload), W32)
                \o Checksum(m.payload) \o m.payload}

\* A command field: printable bytes, then only padding.
ReadCommand(field) ==
    {command \in {SubSeq(field, 1, n) : n \in 1 .. CommandSize} :
       /\ ValidCommand(command)
       /\ \A i \in Len(command) + 1 .. CommandSize : field[i] = 0}

\* What the first bytes of a frame announce: its command and payload's size.
Announces(header) ==
    LET from == Len(MessageStart)
    IN  IF SubSeq(header, 1, from) # MessageStart THEN Throw
        ELSE {[command |-> command, length |-> x.v] :
              command \in ReadCommand(SubSeq(header, from + 1, from + CommandSize)),
              x \in {y \in ReadNumber(header, from + CommandSize, W32) : y.v <= MaxPayload}}

ReadFrame(frame) ==
    LET payload == SubSeq(frame, FrameHeader + 1, Len(frame))
    IN  IF Len(frame) < FrameHeader THEN Throw
        ELSE {[command |-> h.command, payload |-> payload] :
              h \in {g \in Announces(SubSeq(frame, 1, FrameHeader)) :
                        /\ Len(payload) = g.length
                        /\ frame[FrameHeader] = Checksum(payload)[1]}}

\* One message taken from the stream of a connection.
ReceiveMessage(stream, at) ==
    Then(ReadBytes(stream, at, FrameHeader), LAMBDA header, a :
        UNION {Then(ReadBytes(stream, a, h.length), LAMBDA payload, b :
                   UNION {Got(m, b) : m \in ReadFrame(header \o payload)}) :
               h \in Announces(header)})

=============================================================================
