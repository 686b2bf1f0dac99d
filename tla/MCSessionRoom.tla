---------------------------- MODULE MCSessionRoom ----------------------------
(* Small instances of SessionRoom: g1 sends an install id, g2 sends none. *)
EXTENDS SessionRoom

CONSTANTS g1, g2
=============================================================================
