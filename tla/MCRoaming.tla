------------------------------ MODULE MCRoaming ------------------------------
(* The defaults of wifi.env in the same proportions, in fewer ticks. *)
EXTENDS Roaming
=============================================================================
