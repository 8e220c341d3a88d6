--------------------------- MODULE MCControlPlane ---------------------------
(* Two processes for TLC: one that starts while another starts, serves or ends. *)
EXTENDS ControlPlane
CONSTANTS p1, p2
=============================================================================
