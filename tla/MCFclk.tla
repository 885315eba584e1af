------------------------------- MODULE MCFclk -------------------------------
(* Instances of module Fclk for model checking.                             *)
EXTENDS Fclk, TLC

\* Clients are told apart only by which one calls.
Symmetry == Permutations(Clients)
=============================================================================
