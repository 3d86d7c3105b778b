----------------------------- MODULE MCTalkback -----------------------------
EXTENDS Talkback, TLC

(* Message ids and handlers are interchangeable (safety runs only).        *)
Symmetry == Permutations(Msg) \cup Permutations(Request)
=============================================================================
