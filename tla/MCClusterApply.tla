--------------------------- MODULE MCClusterApply ---------------------------
(* Three members and two profiles. *)
EXTENDS ClusterApply

CONSTANTS n1, n2, n3, p1, p2
=============================================================================
