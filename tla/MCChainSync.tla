---------------------------- MODULE MCChainSync -----------------------------
(***************************************************************************)
(* An instance of ChainSync: two nodes and a tree with two branches.       *)
(*                                                                         *)
(*   g --- a1 --- a2                                                       *)
(*     `-- b1 --- b2 --- b3                                                *)
(***************************************************************************)
EXTENDS ChainSync

CONSTANTS n1, n2

MCBlock == {"g", "a1", "a2", "b1", "b2", "b3"}
MCChain == [b \in MCBlock |->
    CASE b = "g" -> {"g"}
      [] b = "a1" -> {"g", "a1"}
      [] b = "a2" -> {"g", "a1", "a2"}
      [] b = "b1" -> {"g", "b1"}
      [] b = "b2" -> {"g", "b1", "b2"}
      [] b = "b3" -> {"g", "b1", "b2", "b3"}]

\* A locator that leaves a block out, as those of long chains do.
MCLocator == [b \in MCBlock |-> MCChain[b] \ (IF b = "b3" THEN {"b2"} ELSE {})]

\* No node starts on a1: b1 is a start of that kind, and a1 lies on the way to a2.
MCInit == Init /\ \A n \in Node : chain[n] # "a1"
MCSpec == MCInit /\ [][Next]_vars /\ Fairness
=============================================================================
