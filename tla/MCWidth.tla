------------------------------- MODULE MCWidth ------------------------------
EXTENDS Width, TLC

(* A card that needs more than the default: a long agent name with a       *)
(* thread; and one that needs little.                                      *)
LongAgent == {[name |-> 10, running |-> 2, unseen |-> TRUE, branch |-> 15, elsewhere |-> TRUE,
               agents |-> {[name |-> 30, thread |-> TRUE, unseen |-> FALSE]}]}

MCContent == {LongAgent}

Symmetry == Permutations(Pane)
=============================================================================
