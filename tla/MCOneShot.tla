---------------------------- MODULE MCOneShot -------------------------------
(***************************************************************************)
(* An instance of OneShot: a tree with two branches.                       *)
(*                                                                         *)
(*   g --- a1 --- a2                                                       *)
(*     `-- b1 --- b2 --- b3                                                *)
(***************************************************************************)
EXTENDS OneShot

MCBlock == {"g", "a1", "a2", "b1", "b2", "b3"}
MCChain == [b \in MCBlock |->
    CASE b = "g" -> {"g"}
      [] b = "a1" -> {"g", "a1"}
      [] b = "a2" -> {"g", "a1", "a2"}
      [] b = "b1" -> {"g", "b1"}
      [] b = "b2" -> {"g", "b1", "b2"}
      [] b = "b3" -> {"g", "b1", "b2", "b3"}]

\* A locator that leaves a block out, as those of long chains do.
MCLocator == [b \in MCBlock |-> MCChain[b] \ (IF b = "b3" THEN {"b2"} ELSE {})]
=============================================================================
