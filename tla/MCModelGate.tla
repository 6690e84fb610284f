----------------------------- MODULE MCModelGate -----------------------------
(* Small instances of ModelGate; requests are symmetric where no liveness is  *)
(* checked.                                                                  *)
EXTENDS ModelGate, TLC

Symmetry == Permutations(Requests) \cup Permutations(Callers)
=============================================================================
