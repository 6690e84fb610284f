------------------------------- MODULE MCVault -------------------------------
(* Small instances of Vault: the threads, and so the profiles and values that *)
(* only their identity tells apart, are symmetric in the runs that check      *)
(* invariants.                                                               *)
EXTENDS Vault, TLC

Symmetry == Permutations(Threads) \cup Permutations(Ids)
            \cup Permutations(Secrets) \cup Permutations(Rules)
=============================================================================
