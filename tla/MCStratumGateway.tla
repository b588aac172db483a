-------------------------- MODULE MCStratumGateway --------------------------
(* Instances of StratumGateway for model checking.                          *)
EXTENDS StratumGateway, TLC
Symmetry == Permutations(Conns) \cup Permutations(Workers)
=============================================================================
