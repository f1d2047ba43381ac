----------------------------- MODULE MCNodeData -----------------------------
(***************************************************************************)
(* An instance of NodeData: three transactions, of which "t2" spends an    *)
(* output of "t1" and "t3" spends the same coin as "t1", and a tree with   *)
(* three branches:                                                         *)
(*                                                                         *)
(*   g --- a1 (t1) --- a2 (t2)                                             *)
(*     `-- b1 -------- b2 (t3) --- b3                                      *)
(*           `-------- c2 -------- c3                                      *)
(***************************************************************************)
EXTENDS NodeData

CONSTANTS s1, s2

MCBlock == {"g", "a1", "a2", "b1", "b2", "b3", "c2", "c3"}
MCChain == [b \in MCBlock |->
    CASE b = "g" -> {"g"}
      [] b = "a1" -> {"g", "a1"}
      [] b = "a2" -> {"g", "a1", "a2"}
      [] b = "b1" -> {"g", "b1"}
      [] b = "b2" -> {"g", "b1", "b2"}
      [] b = "b3" -> {"g", "b1", "b2", "b3"}
      [] b = "c2" -> {"g", "b1", "c2"}
      [] b = "c3" -> {"g", "b1", "c2", "c3"}]

MCTx == {"t1", "t2", "t3"}
MCCoin == {"f", "o1", "o2", "o3"}
MCFunds == {"f"}
MCSpends == [t \in MCTx |-> IF t = "t2" THEN {"o1"} ELSE {"f"}]
MCCreates == [t \in MCTx |->
    CASE t = "t1" -> {"o1"} [] t = "t2" -> {"o2"} [] t = "t3" -> {"o3"}]
MCHistory == [b \in MCBlock |->
    CASE b = "a1" -> <<"t1">>
      [] b = "a2" -> <<"t1", "t2">>
      [] b \in {"b2", "b3"} -> <<"t3">>
      [] OTHER -> <<>>]

\* Two branches of empty blocks, for two sessions and the side store.
EmptyBlock == {"g", "a1", "a2", "b1", "b2", "b3"}
EmptyChain == [b \in EmptyBlock |-> MCChain[b]]
EmptyHistory == [b \in EmptyBlock |-> <<>>]
NoTx == {}
NoCoins == [t \in NoTx |-> {}]
=============================================================================
