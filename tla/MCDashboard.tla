---------------------------- MODULE MCDashboard ----------------------------
(* A browser at each access point of a pair, in different time zones. *)
EXTENDS Dashboard

Other == [n \in Nodes |-> CHOOSE m \in Nodes : m # n]
(* The first access point has an older database, without the second zone. *)
Databases == [n \in Nodes |-> IF n = "ap1" THEN Zones \ {"z2"} ELSE Zones]
Looks == [b \in Browsers |-> IF b = "w2" THEN "ap2" ELSE "ap1"]
Reports == [b \in Browsers |-> IF b = "w2" THEN "z2" ELSE "z1"]

Fine == [error |-> FALSE, recovery |-> FALSE, bad_peb |-> 0, address |-> TRUE, gateway |-> TRUE,
         power |-> "normal", uplink |-> "online", temperature |-> 60000, trip |-> 110000, stopped |-> {}]
Ill == [Fine EXCEPT !.gateway = FALSE, !.uplink = "offline", !.temperature = 95000]
Overviews == {Fine, Ill}
=============================================================================
