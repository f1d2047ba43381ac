------------------------------ MODULE Payment ------------------------------
(***************************************************************************)
(* What the wallet computes when it pays (hd_wallet_backend.cpp, fees.cpp, *)
(* wallet_amount.cpp): the amount that was typed, the fee of a size, the   *)
(* balance, the coins it selects and the transaction it signs, and the     *)
(* check every node makes of that transaction (utxo.cpp).                  *)
(*                                                                         *)
(* A coin is an unspent output: its transaction and place in it, its value *)
(* and key, its height, and whether a coinbase created it.  The size of a  *)
(* transaction is that of its bytes (Encodings).  An operation that may    *)
(* throw yields the set of its results.                                    *)
(***************************************************************************)
EXTENDS Encodings

CONSTANTS
    Owned,              \* the keys whose scripts the wallet owns
    ChangeKey,          \* the first change key
    Maturity,           \* COINBASE_MATURITY: 100
    FeeUnit,            \* a rate is for as many bytes: 1000
    RelayMinimum, Economical, Conservative,     \* rates
    MaxTarget,          \* 1008 blocks
    EstimatedScript,    \* the bytes of a signature, at most: 75
    SignedScript,       \* the sizes signatures come in
    Decimals            \* of an amount: 8

ASSUME PaymentAssumption ==
    /\ ChangeKey \in Owned
    /\ FeeUnit \in Nat \ {0}
    /\ \A n \in SignedScript : n \in 1 .. EstimatedScript

\* -------------------------------------------------------------------------
\* Amounts as text: the characters 0 to 9, a dot and a minus.

Dot == 10
Minus == 11

Digits(text) == \A i \in DOMAIN text : text[i] \in 0 .. 9

\* The number some digits stand for, the highest first.
Decimal(text) == FoldLeft(LAMBDA high, d : 10 * high + d, 0, text)

\* An amount typed as a number of coins with at most so many decimals.
ParseAmount(text) ==
    LET dots     == {i \in DOMAIN text : text[i] = Dot}
        dot      == IF dots = {} THEN Len(text) + 1 ELSE CHOOSE i \in dots : TRUE
        whole    == SubSeq(text, 1, dot - 1)
        typed    == SubSeq(text, dot + 1, Len(text))
        fraction == typed \o [i \in 1 .. Decimals - Len(typed) |-> 0]
        bits     == Decimal(whole) * 10^Decimals + Decimal(fraction)
    IN  IF \/ text = <<>> \/ Cardinality(dots) > 1 \/ whole = <<>> \/ Len(typed) > Decimals
           \/ ~Digits(whole) \/ ~Digits(fraction)
           \/ ~MoneyRange(bits)
        THEN Throw
        ELSE {bits}

\* As many digits as the number needs, and one at least.
Shown(n) ==
    LET size == CHOOSE k \in 1 .. 20 : n < 10^k /\ (k = 1 \/ n >= 10^(k - 1))
    IN  [i \in 1 .. size |-> (n \div 10^(size - i)) % 10]

FormatAmount(a) ==
    Shown(a \div 10^Decimals) \o <<Dot>>
      \o [i \in 1 .. Decimals |-> (a \div 10^(Decimals - i)) % 10]

\* -------------------------------------------------------------------------
\* Fees.

\* Rounded up.
FeeOf(rate, size) ==
    {f \in {(rate * size + FeeUnit - 1) \div FeeUnit} : MoneyRange(f)}

\* There is no history: the rate depends on the mode, whatever the target.
Estimate(target, mode) ==
    LET fallback == IF mode = "conservative" THEN Conservative ELSE Economical
    IN  IF target \notin 1 .. MaxTarget THEN Throw
        ELSE {IF fallback < RelayMinimum THEN RelayMinimum ELSE fallback}

\* -------------------------------------------------------------------------
\* Coins.

Mature(coin, height) == coin.coinbase => height >= coin.height + Maturity

\* What some coins are worth together, and those of a list.
Worth(S) == MapThenSumSet(LAMBDA c : c.value, S)
Total(coins) == Worth(ToSet(coins))

\* What the wallet owns, and how much of it can be spent at that height.
Balance(utxos, height) ==
    LET mine == {c \in utxos : c.key \in Owned}
    IN  [total     |-> Worth(mine),
         spendable |-> Worth({c \in mine : Mature(c, height)}),
         immature  |-> Worth({c \in mine : ~Mature(c, height)})]

\* The coins to select from, the smallest first.
Available(utxos, height) ==
    SetToSortSeq({c \in utxos : c.key \in Owned /\ Mature(c, height)},
                 LAMBDA c, d : \/ c.value < d.value
                               \/ c.value = d.value /\ c.txid[1] < d.txid[1]
                               \/ c.value = d.value /\ c.txid = d.txid /\ c.index < d.index)

\* make_p2pk_script: a key and an opcode.  A signature shows its key.
LockingScript(key) == <<key, 1>>
Signature(key, size) == [i \in 1 .. size |-> key]

\* A transaction that spends these coins with these scripts.
Spending(coins, outputs, scripts) ==
    [version |-> 1, lockTime |-> 0, outputs |-> outputs,
     inputs |-> [i \in DOMAIN coins |->
                   [txid |-> coins[i].txid, index |-> coins[i].index,
                    sequence |-> Power(W32) - 1, script |-> scripts[i]]]]

Outputs(amount, destination, change) ==
    <<[value |-> amount, script |-> LockingScript(destination)],
      [value |-> change, script |-> LockingScript(ChangeKey)]>>

FeeOfTransaction(rate, t) == UNION {FeeOf(rate, Len(s)) : s \in WriteTransaction(t)}

\* The fee reserved for spending these coins, with change and full signatures.
ReservedFee(coins, amount, destination, rate) ==
    FeeOfTransaction(rate, Spending(coins, Outputs(amount, destination, 0),
                                    [i \in DOMAIN coins |-> Signature(0, EstimatedScript)]))

\* Mutant: coins are taken until they cover the amount.
CoversAmount(coins, amount, destination, rate) == Total(coins) >= amount

Covers(coins, amount, destination, rate) ==
    \E fee \in ReservedFee(coins, amount, destination, rate) : Total(coins) - amount >= fee

\* Coins are taken until they cover the amount and the fee, or there are no more.
Selected(utxos, height, amount, destination, rate) ==
    LET all == Available(utxos, height)
        First(n) == SubSeq(all, 1, n)
        enough == {n \in 1 .. Len(all) : Covers(First(n), amount, destination, rate)}
    IN  IF enough = {} THEN all
        ELSE First(CHOOSE n \in enough : \A m \in enough : n <= m)

\* create_payment, when its signatures come out in these sizes.  There is no
\* change output when there is nothing to give back.
CreatePayment(utxos, height, destination, amount, rate, sizes) ==
    LET coins == Selected(utxos, height, amount, destination, rate)
        Signed(change) ==
            Spending(coins,
                     SubSeq(Outputs(amount, destination, change), 1, IF change = 0 THEN 1 ELSE 2),
                     [i \in DOMAIN coins |-> Signature(coins[i].key, sizes[i])])
        reserved == {fee \in ReservedFee(coins, amount, destination, rate) :
                        Total(coins) >= amount + fee}
        Enough(fee, t) == \A due \in FeeOfTransaction(rate, t) : fee >= due
    IN  IF amount = 0 \/ ~MoneyRange(amount) \/ Total(coins) < amount THEN Throw
        ELSE UNION {{t \in {Signed(Total(coins) - amount - fee)} : Enough(fee, t)} :
                       fee \in reserved}

\* -------------------------------------------------------------------------
\* What every node checks of a transaction, and the fee it finds.

ApplyTransaction(t, height, utxos) ==
    LET Spent(in) == {c \in utxos : c.txid = in.txid /\ c.index = in.index}
        spent == UNION {Spent(t.inputs[i]) : i \in DOMAIN t.inputs}
        fee == Worth(spent)
                 - FoldLeft(LAMBDA sum, out : sum + out.value, 0, t.outputs)
    IN  IF /\ ValidTransaction(t)
           /\ Cardinality({<<t.inputs[i].txid, t.inputs[i].index>> : i \in DOMAIN t.inputs})
                = Len(t.inputs)
           /\ \A i \in DOMAIN t.inputs :
                \E c \in Spent(t.inputs[i]) :
                    Mature(c, height) /\ t.inputs[i].script # <<>> /\ t.inputs[i].script[1] = c.key
           /\ fee >= 0
        THEN {fee} ELSE Throw

\* sendtoaddress: the amount is parsed, a rate estimated, the payment made and
\* checked as the mempool does.
SendToAddress(utxos, height, destination, text, target, mode, sizes) ==
    {t \in UNION {CreatePayment(utxos, height, destination, amount, rate, sizes) :
                    amount \in ParseAmount(text), rate \in Estimate(target, mode)} :
       ApplyTransaction(t, height, utxos) # Throw}

=============================================================================
