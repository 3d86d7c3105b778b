-------------------------------- MODULE MCHub --------------------------------
EXTENDS Hub

(* The states are interchangeable, so the world may be taken to start in a *)
(* fixed one: the liveness properties rule a SYMMETRY set out.             *)
StartsOld == changes = 0 => world = CHOOSE s \in State : TRUE
=============================================================================
