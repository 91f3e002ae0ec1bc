---------------------------- MODULE WirelessForm ----------------------------
(***************************************************************************)
(* The form of the Wi-Fi page (wireless.js) and the program that checks    *)
(* its values again (rg-ma2820-set-wifi).  Both have the same options;     *)
(* the page hides those that do not apply, and checks only what it shows.  *)
(*                                                                         *)
(* A form is a record of groups of options: the switches of the three      *)
(* BSSs, their texts, modes and passwords, the channels, two more flags,   *)
(* the lists, the numbers and the target.  A profile is what wifi.env      *)
(* keeps of it.  Texts that both sides check alike (SSIDs, powers, colours,*)
(* the mobility domain, the MAC list) are one group, `text'; the flags and *)
(* lists without a rule of their own behave like `ft' and are left out.    *)
(* Numbers are counted in tenths: an input of the page may hold a fraction.*)
(***************************************************************************)
EXTENDS Integers

Bss == {"2g", "5g", "5g_legacy"}
Radios == {"2g", "5g"}
Modes == {"open", "wpa2", "wpa3", "wpa2-wpa3"}
Texts == {"old", "new", "malformed"}
Widths == {"20", "40", "80", "160"}
Channels == {"auto", "1", "36", "165", "173"}
Countries == {"US", "#a", "free text"}
Scopes == {"local", "pair", "cluster"}
Flags == {"roam_steering", "hard_fallback"}

(* The ranges of the numbers, as the page has them (`range', which takes   *)
(* fractions too) ...                                                      *)
PageRange(k) ==
    CASE k \in {"max_clients_2g", "max_clients_5g", "max_clients_5g_legacy"} -> <<1, 128>>
      [] k = "beacon_interval" -> <<50, 1000>>
      [] k = "dtim_period" -> <<1, 255>>
      [] k = "roam_interval" -> <<2, 60>>
      [] k = "roam_rssi" -> <<-90, -50>>
      [] k = "roam_samples" -> <<1, 20>>
      [] k = "roam_cooldown" -> <<15, 3600>>
      [] k = "roam_min_age" -> <<0, 3600>>
      [] k = "hard_rssi" -> <<-95, -51>>
      [] k = "hard_delay" -> <<5, 300>>
      [] k = "hard_window" -> <<6, 600>>
(* ... and as set-wifi has them (valid_uint, valid_int).                   *)
SetWifiRange(k) ==
    CASE k \in {"max_clients_2g", "max_clients_5g", "max_clients_5g_legacy"} -> <<1, 128>>
      [] k = "beacon_interval" -> <<50, 1000>>
      [] k = "dtim_period" -> <<1, 255>>
      [] k = "roam_interval" -> <<2, 60>>
      [] k = "roam_rssi" -> <<-90, -50>>
      [] k = "hard_rssi" -> <<-95, -51>>
      [] k = "roam_samples" -> <<1, 20>>
      [] k = "roam_cooldown" -> <<15, 3600>>
      [] k = "roam_min_age" -> <<0, 3600>>
      [] k = "hard_delay" -> <<5, 300>>
      [] k = "hard_window" -> <<6, 600>>

Within(x, range) == 10 * range[1] <= x /\ x <= 10 * range[2]
Whole(x) == x % 10 = 0

Soft == {"roam_interval", "roam_rssi", "roam_samples", "roam_cooldown", "roam_min_age"}
Hard == {"hard_rssi", "hard_delay", "hard_window"}
MaxClients == [b \in Bss |-> CASE b = "2g" -> "max_clients_2g"
                               [] b = "5g" -> "max_clients_5g"
                               [] b = "5g_legacy" -> "max_clients_5g_legacy"]
INT_FIELDS == Soft \cup Hard \cup {MaxClients[b] : b \in Bss} \cup {"beacon_interval", "dtim_period"}

(* The groups of a form and the options in each.                           *)
ProfileKeys == [on |-> Bss, text |-> Bss, security |-> Bss, mfp |-> Bss, ft |-> Bss,
                channel |-> Radios, flag |-> Flags, list |-> {"width_5g", "country"},
                number |-> INT_FIELDS]
Keys == [g \in DOMAIN ProfileKeys \cup {"password", "target"} |->
            CASE g = "password" -> Bss
              [] g = "target" -> {"scope"}
              [] OTHER -> ProfileKeys[g]]

(* What an option of a group may be.                                       *)
Values == [g \in DOMAIN Keys |->
            CASE g \in {"on", "ft", "flag"} -> BOOLEAN
              [] g = "text" -> Texts
              [] g = "security" -> Modes
              [] g = "mfp" -> {"0", "1", "2"}
              [] g = "channel" -> Channels
              [] g = "list" -> Widths \cup Countries
              [] g = "number" -> Int
              [] g = "password" -> {"", "old", "new", "malformed"}
              [] g = "target" -> Scopes]

Profiles == [on : [Bss -> BOOLEAN], text : [Bss -> Texts], security : [Bss -> Modes],
             mfp : [Bss -> {"0", "1", "2"}], ft : [Bss -> BOOLEAN],
             channel : [Radios -> Channels], flag : [Flags -> BOOLEAN],
             list : [{"width_5g", "country"} -> Widths \cup Countries],
             number : [INT_FIELDS -> Int]]
Profile(form) == [g \in DOMAIN ProfileKeys |-> form[g]]

-----------------------------------------------------------------------------
(* normalizeFormData: the passwords are never sent to the browser; a scope *)
(* the page does not know becomes `local'.                                 *)
NormalizeFormData(profile, scope) ==
    [g \in DOMAIN Keys |->
        CASE g = "password" -> [b \in Bss |-> ""]
          [] g = "target" -> [k \in {"scope"} |-> IF scope \in Scopes THEN scope ELSE "local"]
          [] OTHER -> profile[g]]

Up(form, b) == form.on[b] /\ (b = "5g_legacy" => form.on["5g"])

(* The options whose conditions (`depends') hold.                          *)
Shown(form, g, k) ==
    \/ g \in {"list", "target"} /\ (k = "width_5g" => form.on["5g"])
    \/ g = "on" /\ (k = "5g_legacy" => form.on["5g"])
    \/ g \in {"text", "security"} /\ Up(form, k)
    \/ g \in {"password", "ft"} /\ Up(form, k) /\ form.security[k] # "open"
    \/ g = "mfp" /\ Up(form, k) /\ form.security[k] = "wpa2"
    \/ g = "channel" /\ form.on[k]
    \/ g = "flag" /\ (k = "hard_fallback" => form.flag["roam_steering"])
    \/ g = "number" /\ (\A b \in Bss : k = MaxClients[b] => Up(form, b))
                    /\ (k \in Soft \cup Hard => form.flag["roam_steering"])
                    /\ (k \in Hard => form.flag["hard_fallback"])

(* valid5GHzCombination                                                    *)
Valid5GHzCombination(channel, width) ==
    \/ channel = "auto" \/ width = "20"
    \/ width = "40" /\ channel # "173"
    \/ width = "80" /\ channel \notin {"165", "169", "173"}

(* validateRequiredPassword; has: the passwords that need not be typed.    *)
ValidPassword(form, has, b) ==
    /\ form.password[b] # "malformed"
    /\ (form.on[b] /\ form.security[b] # "open" /\ form.password[b] = "") => has[b]

(* Variant: the thresholds are checked each for itself. *)
ValidAlone(form, has, g, k) ==
    /\ g = "on" /\ k \in Radios => \E r \in Radios : form.on[r]
    /\ g = "text" => form.text[k] # "malformed"
    /\ g = "password" => ValidPassword(form, has, k)
    /\ g = "channel" => form.target["scope"] = "local" \/ form.channel[k] = "auto"
    /\ <<g, k>> \in {<<"channel", "5g">>, <<"list", "width_5g">>} =>
           Valid5GHzCombination(form.channel["5g"], form.list["width_5g"])
    /\ g = "number" => Within(form.number[k], PageRange(k))
(* What the validators of an option say.                                   *)
Valid(form, has, g, k) ==
    /\ g = "on" /\ k \in Radios => \E r \in Radios : form.on[r]
    /\ g = "text" => form.text[k] # "malformed"
    /\ g = "password" => ValidPassword(form, has, k)
    /\ g = "channel" => form.target["scope"] = "local" \/ form.channel[k] = "auto"
    /\ <<g, k>> \in {<<"channel", "5g">>, <<"list", "width_5g">>} =>
           Valid5GHzCombination(form.channel["5g"], form.list["width_5g"])
    /\ g = "number" => Within(form.number[k], PageRange(k))
    /\ g = "number" /\ k = "hard_rssi" => form.number["hard_rssi"] < form.number["roam_rssi"]
    /\ g = "number" /\ k = "hard_window" => form.number["hard_window"] > form.number["hard_delay"]

(* Save & Apply goes on only when every option it shows is valid ...       *)
PageAccepts(form, has) ==
    \A g \in DOMAIN Keys : \A k \in Keys[g] : Shown(form, g, k) => Valid(form, has, g, k)

(* Variant: what is hidden is removed from the profile. *)
ParsedShown(form, data) ==
    [g \in DOMAIN Keys |-> [k \in Keys[g] |->
        IF Shown(form, g, k) \/ g \notin {"ft", "flag", "on"} THEN form[g][k] ELSE FALSE]]
(* ... and then puts what it shows into the data; what it hides stays      *)
(* there as it was (`retain').                                             *)
Parsed(form, data) ==
    [g \in DOMAIN Keys |-> [k \in Keys[g] |->
        IF Shown(form, g, k) THEN form[g][k] ELSE data[g][k]]]

-----------------------------------------------------------------------------
(* The start of validate_configuration: what hostapd fixes anyway.         *)
Normalized(profile) ==
    [profile EXCEPT
        !.on["5g_legacy"] = @ /\ profile.on["5g"],
        !.mfp = [b \in Bss |-> CASE profile.security[b] = "open" -> "0"
                                 [] profile.security[b] = "wpa3" -> "2"
                                 [] profile.security[b] = "wpa2-wpa3" -> "1"
                                 [] OTHER -> profile.mfp[b]],
        !.ft = [b \in Bss |-> profile.ft[b] /\ profile.security[b] # "open"]]

(* configuration_from_json: an empty password keeps the secret.            *)
Secrets(form, secret) ==
    [b \in Bss |-> IF form.password[b] = "" THEN secret[b] ELSE form.password[b]]

(* valid_channel_width                                                     *)
ValidChannelWidth(channel, width) ==
    \/ width = "20"
    \/ width = "40" /\ channel # "173"
    \/ width = "80" /\ channel \notin {"165", "169", "173"}

ValidCountry(country) == country # "free text"

(* The rest of validate_configuration, and the demand for automatic        *)
(* channels in a pair.  The secrets are those that will be installed.      *)
SetWifiAccepts(p, scope, secrets) ==
    /\ \E r \in Radios : p.on[r]
    /\ \A b \in Bss : /\ p.text[b] # "malformed"
                      /\ (Up(p, b) /\ p.security[b] # "open") =>
                            secrets[b] \notin {"", "malformed"}
    /\ \A k \in INT_FIELDS : Whole(p.number[k]) /\ Within(p.number[k], SetWifiRange(k))
    /\ ValidCountry(p.list["country"])
    /\ ValidChannelWidth(p.channel["5g"], p.list["width_5g"])
    /\ p.number["hard_rssi"] < p.number["roam_rssi"]
    /\ p.number["hard_window"] > p.number["hard_delay"]
    /\ scope = "pair" => \A r \in Radios : p.on[r] => p.channel[r] = "auto"

(* What set-wifi would say to this form.                                   *)
Agrees(form, secret) ==
    SetWifiAccepts(Normalized(Profile(form)), form.target["scope"], Secrets(form, secret))

(* A form in which the page has checked all that set-wifi will check: the  *)
(* numbers have no fraction, the country is one of the list, the width is  *)
(* not one that only the driver knows (wifi-capabilities offers 160 MHz),  *)
(* and of what is hidden nothing was malformed before.                     *)
HiddenSound(form) ==
    /\ \A k \in INT_FIELDS : ~Shown(form, "number", k) => Within(form.number[k], SetWifiRange(k))
    /\ \A b \in Bss : ~Shown(form, "text", b) => form.text[b] # "malformed"
    /\ ~form.on["5g"] => ValidChannelWidth(form.channel["5g"], form.list["width_5g"])
    /\ ~Shown(form, "number", "hard_rssi") =>
           /\ form.number["hard_rssi"] < form.number["roam_rssi"]
           /\ form.number["hard_window"] > form.number["hard_delay"]
Checked(form) ==
    /\ HiddenSound(form) /\ \A k \in INT_FIELDS : Whole(form.number[k])
    /\ ValidCountry(form.list["country"]) /\ form.list["width_5g"] \in Widths \ {"160"}
=============================================================================
