---------------------------- MODULE MCDelegation ----------------------------
EXTENDS Delegation, TLC

(* Panes and conversations are interchangeable (safety runs only).         *)
Symmetry == Permutations(Pane) \cup Permutations(Thread)

(* What binds a record reads no row and no cached name, so a lookup of a   *)
(* name may be taken to return at once, and with no news.                  *)
Naming == \E t \in Thread : route[t] # NoRoute /\ route[t].naming

NamesAtOnce ==
  Naming => /\ UNCHANGED <<tracker, hooks>>
            /\ \E t \in Thread : /\ route[t] # NoRoute /\ route[t].naming
                                /\ route'[t] # NoRoute /\ ~route'[t].naming
=============================================================================
