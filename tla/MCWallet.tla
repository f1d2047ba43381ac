------------------------------ MODULE MCWallet ------------------------------
\* The wallet with two handler threads and two seeds.
EXTENDS Wallet, TLC

Symmetry == Permutations(Thread) \cup Permutations(Seed)
=============================================================================
