---------------------------- MODULE MCAgentSystem ----------------------------
EXTENDS AgentSystem, TLC

(* Every pane lives in the model's one session.                            *)
OneSession == [n \in Pane |-> CHOOSE s \in Session : TRUE]

(* The panes and the threads of one session are interchangeable, so the    *)
(* first agent may be taken to start in a fixed pane and conversation: the *)
(* liveness properties rule a SYMMETRY set out.                            *)
FirstLaunch ==
  born = {} => \A p \in born' : /\ proc'[p].pane = CHOOSE n \in Pane : TRUE
                                /\ proc'[p].thread \in {NoThread, CHOOSE t \in Thread : TRUE}
=============================================================================
