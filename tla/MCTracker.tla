------------------------------ MODULE MCTracker ------------------------------
EXTENDS Tracker, TLC

(* The values of one session are interchangeable.                          *)
Symmetry == Permutations(Thread) \cup Permutations(Pane) \cup Permutations(Pid)
=============================================================================
