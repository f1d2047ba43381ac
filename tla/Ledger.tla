------------------------------- MODULE Ledger -------------------------------
(***************************************************************************)
(* What the data directory of a node promises to its users: an active      *)
(* chain whose work only grows, and a mempool whose transactions can be    *)
(* mined, in their order, in the next block.  A new chain replaces the old *)
(* one and the mempool in one step; the new mempool holds nothing but old  *)
(* entries and transactions of blocks that are no longer active.           *)
(***************************************************************************)
EXTENDS Coins

VARIABLES tip, pool

Init == tip = Genesis /\ pool = <<>>

\* A transaction enters the mempool.
Submit(t) ==
    /\ t \notin Confirmed(tip)
    /\ pool' = Append(pool, t)
    /\ Applies(pool', tip)
    /\ UNCHANGED tip

\* A chain with more work becomes active.
Advance(b) ==
    /\ Work(b) > Work(tip)
    /\ tip' = b
    /\ pool' \in Seq(Tx)
    /\ ToSet(pool') \subseteq ToSet(pool) \cup (Confirmed(tip) \ Confirmed(b))
    /\ Applies(pool', b)

Next == \/ \E t \in Tx : Submit(t)
        \/ \E b \in Block : Advance(b)

Spec == Init /\ [][Next]_<<tip, pool>>
=============================================================================
