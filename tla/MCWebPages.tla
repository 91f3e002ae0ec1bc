----------------------------- MODULE MCWebPages -----------------------------
(* One tab and an access point in or outside a cluster, or of a pair. *)
EXTENDS WebPages

CONSTANT w1

Legal == [on |-> [b \in Bss |-> b # "5g_legacy"], text |-> [b \in Bss |-> "old"],
          security |-> [b \in Bss |-> IF b = "2g" THEN "open" ELSE "wpa2"],
          mfp |-> [b \in Bss |-> "0"], ft |-> [b \in Bss |-> b = "5g"],
          channel |-> [r \in Radios |-> "auto"], flag |-> [f \in Flags |-> TRUE],
          list |-> [k \in {"width_5g", "country"} |-> IF k = "width_5g" THEN "80" ELSE "US"],
          number |-> [k \in INT_FIELDS |->
              CASE k \in {"max_clients_2g", "max_clients_5g", "max_clients_5g_legacy"} -> 1280
                [] k \in {"roam_rssi", "hard_rssi"} -> IF k = "roam_rssi" THEN -720 ELSE -820
                [] k = "hard_window" -> 450
                [] k \in {"beacon_interval", "roam_cooldown"} -> 600
                [] OTHER -> 120]]
(* A compatibility BSS that is on, and no secret for it yet. *)
WithLegacy == [Legal EXCEPT !.on["5g_legacy"] = TRUE, !.security["5g_legacy"] = "open"]

Kept == [b \in Bss |-> IF b = "5g" THEN "old" ELSE ""]
Starting == [profile : {Legal}, secret : {Kept}, member : {"standalone", "n1"}]
              \cup [profile : {WithLegacy}, secret : {Kept}, member : {"unsupported"}]
Changed == {[profile |-> [Legal EXCEPT !.text["2g"] = "new"], secret |-> [b \in Bss |-> ""],
             member |-> member] : member \in {"standalone", "unsupported"}}

Inputs == {<<"on", "5g", FALSE>>, <<"security", "2g", "wpa3">>, <<"password", "2g", "new">>,
           <<"number", "hard_rssi", -600>>, <<"number", "hard_delay", 125>>, <<"flag", "hard_fallback", FALSE>>}
=============================================================================
