----------------------------- MODULE MCSidebar -----------------------------
EXTENDS Sidebar, TLC

(* Every window belongs to the model's one session.                        *)
OneSession == [w \in Window |-> "main"]

(* The windows of the session are interchangeable, so it may be taken to   *)
(* start in a fixed one: the liveness properties rule a SYMMETRY set out.  *)
(* The server is started before anything happens.                          *)
FirstStart == ~up /\ moves = 0 => up' /\ current = {CHOOSE w \in Window : TRUE}
=============================================================================
