---------------------------- MODULE MCRunLedger ----------------------------
(* Model checking of RunLedger: attempts and replay requests are           *)
(* interchangeable, which the invariants and action properties do not      *)
(* tell apart (the liveness runs use no symmetry).                         *)
EXTENDS RunLedger, TLC

Symmetry == Permutations(Tokens) \cup Permutations(Requests)

============================================================================
