----------------------------- MODULE BlockTree ------------------------------
(***************************************************************************)
(* The valid blocks of an instance, as every other module sees them.       *)
(*                                                                         *)
(* A chain is named by its tip: Chain[b] is the set of blocks from Genesis *)
(* to b.  Every block carries the same target (TESTNET_BITS), so that      *)
(* accumulated work is the number of blocks.                               *)
(***************************************************************************)
EXTENDS Naturals, FiniteSets

CONSTANTS
    Block,      \* the valid blocks
    Genesis,    \* the locked genesis block
    Chain,      \* Chain[b]: b and its ancestors
    None        \* "no chain", "no file", "no owner"

ASSUME TreeAssumption ==
    /\ Genesis \in Block
    /\ None \notin Block
    /\ Chain \in [Block -> SUBSET Block]
    /\ Chain[Genesis] = {Genesis}
    /\ \A b \in Block : /\ {b, Genesis} \subseteq Chain[b]
                        /\ \A a \in Chain[b] : Chain[a] \subseteq Chain[b]
                        /\ \A a, c \in Chain[b] : a \in Chain[c] \/ c \in Chain[a]

ASSUME FiniteChains == \A b \in Block : IsFiniteSet(Chain[b])

\* Accumulated work of the chain that ends in b, in units of one block proof.
Work(b) == Cardinality(Chain[b])
=============================================================================
