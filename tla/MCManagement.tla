---------------------------- MODULE MCManagement ----------------------------
(* ap2 and ap3, whose waits are 30 s and 60 s, 60 s and 75 s, and two       *)
(* community nodes whose hashed identities agree in the waits.              *)
EXTENDS Management, TLC

CONSTANTS ap2, ap3, node1, node2

PairInitial == (ap2 :> 2) @@ (ap3 :> 4)
PairProbe == (ap2 :> 4) @@ (ap3 :> 5)
SameInitial == (node1 :> 3) @@ (node2 :> 3)
SameProbe == (node1 :> 6) @@ (node2 :> 6)
=============================================================================
