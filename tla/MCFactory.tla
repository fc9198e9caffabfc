------------------------------ MODULE MCFactory -----------------------------
(***************************************************************************)
(* FactoryRegistry for the model checker: the addresses of factories and   *)
(* pairs are interchangeable.                                              *)
(***************************************************************************)
EXTENDS FactoryRegistry, TLC

Symmetry == Permutations(Factories) \cup Permutations(PairAddrs)

=============================================================================
