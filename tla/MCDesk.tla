------------------------------- MODULE MCDesk -------------------------------
EXTENDS Desk, TLC

(* Session names are interchangeable.                                      *)
Symmetry == Permutations(Session)
=============================================================================
