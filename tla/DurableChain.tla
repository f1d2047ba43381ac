---------------------------- MODULE DurableChain ----------------------------
(***************************************************************************)
(* What the durable chain store promises to the rest of the node: at every *)
(* moment there is one active chain (or none before the first commit), a   *)
(* commit replaces it in one step by a chain with at least as much work,   *)
(* and nothing else changes it.  A crash, a failed commit and a restart    *)
(* are not visible here.                                                   *)
(***************************************************************************)
EXTENDS BlockTree

VARIABLE durable    \* tip of the chain a load would return

Init == durable = None

\* The first commit publishes the genesis chain.
PublishGenesis ==
    /\ durable = None
    /\ durable' = Genesis

\* A later commit publishes a chain with at least the work of the current one.
Publish(b) ==
    /\ durable # None
    /\ Work(b) >= Work(durable)
    /\ durable' = b

Next == PublishGenesis \/ \E b \in Block : Publish(b)

Spec == Init /\ [][Next]_durable
=============================================================================
