------------------------------ MODULE MCSetWifi ------------------------------
(* Two commands, and three profiles of which the checks refuse one. *)
EXTENDS SetWifi

CONSTANTS c1, c2, p1, p2, bad
=============================================================================
