------------------------------- MODULE Coins --------------------------------
(***************************************************************************)
(* Transactions and the UTXO set (utxo.cpp), on top of the block tree.     *)
(*                                                                         *)
(* A transaction spends some coins and creates others.  Amounts, scripts   *)
(* and signatures are not represented: a transaction that is wrong in      *)
(* itself never applies.  Funds are the mature outputs of the blocks below *)
(* the modelled part of the tree; COINBASE_MATURITY is 100, so that the    *)
(* coinbases of the modelled blocks cannot be spent and are left out.      *)
(***************************************************************************)
EXTENDS BlockTree, SequencesExt

CONSTANTS
    Tx,         \* transactions (not coinbases)
    Coin,       \* transaction outputs
    Funds,      \* the coins that exist before the modelled blocks
    Spends,     \* Spends[t]: the coins that t spends
    Creates,    \* Creates[t]: the outputs of t
    History     \* History[b]: the transactions of the chain that ends in b

\* The UTXO set after the transactions of the sequence s.  Every coin is created
\* and spent at most once, so the order of s does not matter here.
After(s) ==
    (Funds \cup UNION {Creates[t] : t \in ToSet(s)}) \ UNION {Spends[t] : t \in ToSet(s)}

\* apply_transaction succeeds for t after the transactions of s.
Spendable(t, s) == Spends[t] \subseteq After(s)

\* Each transaction of s applies when its turn comes.
Valid(s) == \A i \in DOMAIN s : Spendable(s[i], SubSeq(s, 1, i - 1))

\* The pool p applies, in its order, to the UTXO set of the chain that ends in b.
Applies(p, b) == Valid(History[b] \o p)

\* confirmed_txids
Confirmed(b) == ToSet(History[b])

ASSUME CoinAssumption ==
    /\ Funds \subseteq Coin
    /\ Spends \in [Tx -> SUBSET Coin] /\ Creates \in [Tx -> SUBSET Coin]
    /\ \A t \in Tx : Spends[t] # {} /\ Creates[t] \cap Funds = {}
    /\ \A t, u \in Tx : t # u => Creates[t] \cap Creates[u] = {}

\* The blocks are valid, and a chain repeats the transactions of its ancestors.
ASSUME HistoryAssumption ==
    /\ History \in [Block -> Seq(Tx)]
    /\ History[Genesis] = <<>>
    /\ \A b \in Block : Valid(History[b])
    /\ \A b \in Block : \A a \in Chain[b] :
         Len(History[a]) <= Len(History[b]) /\ History[a] = SubSeq(History[b], 1, Len(History[a]))
=============================================================================
