--------------------------- MODULE WebPages_proofs ---------------------------
(***************************************************************************)
(* What the page accepts and sends, set-wifi accepts too, but for what the *)
(* page does not check, for every form and every profile that was loaded   *)
(* (PageAgrees).  So for any tabs, inputs, changes by others and faults a  *)
(* profile that the page has accepted is refused only for what the page    *)
(* could not see: the invariant says it of every secret that the access    *)
(* point may have when the call is served at last.  An option nobody has   *)
(* touched is sent as it was loaded (UntouchedSent): the invariant says it *)
(* of the form and of the data below it.  Every variable keeps its range   *)
(* (TypeCorrect): what is in the profile of the access point has been in   *)
(* the queue, and what is in the queue in a form.                          *)
(***************************************************************************)
EXTENDS WebPages, TLAPS

(* The fields of each group of a profile.                                   *)
LEMMA KeysOf ==
    /\ DOMAIN ProfileKeys = {"on", "text", "security", "mfp", "ft", "channel", "flag", "list", "number"}
    /\ DOMAIN Keys = DOMAIN ProfileKeys \cup {"password", "target"}
    /\ Keys["password"] = Bss /\ Keys["target"] = {"scope"}
    /\ \A g \in DOMAIN ProfileKeys : Keys[g] = ProfileKeys[g]
    /\ ProfileKeys["on"] = Bss /\ ProfileKeys["text"] = Bss /\ ProfileKeys["security"] = Bss
    /\ ProfileKeys["mfp"] = Bss /\ ProfileKeys["ft"] = Bss /\ ProfileKeys["channel"] = Radios
    /\ ProfileKeys["flag"] = Flags /\ ProfileKeys["list"] = {"width_5g", "country"}
    /\ ProfileKeys["number"] = INT_FIELDS
<1>1. DOMAIN ProfileKeys = {"on", "text", "security", "mfp", "ft", "channel", "flag", "list", "number"}
    BY DEF ProfileKeys
<1>2. DOMAIN Keys = DOMAIN ProfileKeys \cup {"password", "target"}
    BY DEF Keys
<1>3. Keys["password"] = Bss /\ Keys["target"] = {"scope"}
    BY <1>1 DEF Keys
<1>4. \A g \in DOMAIN ProfileKeys : Keys[g] = ProfileKeys[g]
    BY <1>1 DEF Keys
<1> QED BY <1>1, <1>2, <1>3, <1>4 DEF ProfileKeys

(* A value that is not shown is kept from the load.                         *)
LEMMA ParsedIs ==
    ASSUME NEW form, NEW data, NEW g \in DOMAIN Keys, NEW k \in Keys[g]
    PROVE  Parsed(form, data)[g][k] = IF Shown(form, g, k) THEN form[g][k] ELSE data[g][k]
BY DEF Parsed

(* Parsing a form keeps its groups and their fields.                        *)
LEMMA ParsedShape ==
    ASSUME NEW form, NEW data, NEW g \in DOMAIN Keys
    PROVE  /\ DOMAIN Parsed(form, data) = DOMAIN Keys
           /\ Parsed(form, data)[g] = [k \in Keys[g] |-> Parsed(form, data)[g][k]]
BY DEF Parsed

(* What each field of the parsed form is.                                   *)
LEMMA ParsedFields ==
    ASSUME NEW form, NEW data
    PROVE  LET sent == Parsed(form, data) IN
           /\ \A r \in Radios : sent.on[r] = form.on[r]
           /\ \A b \in Bss : Up(sent, b) <=> Up(form, b)
           /\ \A b \in Bss : Up(form, b) => sent.on[b] = form.on[b] /\ sent.security[b] = form.security[b]
           /\ sent.flag["roam_steering"] = form.flag["roam_steering"]
           /\ form.flag["roam_steering"] => sent.flag["hard_fallback"] = form.flag["hard_fallback"]
<1> DEFINE sent == Parsed(form, data)
<1>1. \A r \in Radios : sent.on[r] = form.on[r]
    <2> TAKE r \in Radios
    <2>1. "on" \in DOMAIN Keys /\ r \in Keys["on"] /\ Shown(form, "on", r)
        BY KeysOf DEF Shown, Radios, Bss
    <2> QED BY <2>1, ParsedIs
<1>2. \A b \in Bss : Up(sent, b) <=> Up(form, b)
    <2> TAKE b \in Bss
    <2>1. CASE b \in Radios
        BY <2>1, <1>1 DEF Up, Radios
    <2>2. CASE b = "5g_legacy" /\ form.on["5g"]
        <3>1. "on" \in DOMAIN Keys /\ b \in Keys["on"] /\ Shown(form, "on", b)
            BY <2>2, KeysOf DEF Shown
        <3>2. sent.on[b] = form.on[b]
            BY <3>1, ParsedIs
        <3> QED BY <3>2, <2>2, <1>1 DEF Up, Radios
    <2>3. CASE b = "5g_legacy" /\ ~form.on["5g"]
        BY <2>3, <1>1 DEF Up, Radios
    <2> QED BY <2>1, <2>2, <2>3 DEF Bss, Radios
<1>3. \A b \in Bss : Up(form, b) => sent.on[b] = form.on[b] /\ sent.security[b] = form.security[b]
    <2> SUFFICES ASSUME NEW b \in Bss, Up(form, b)
                 PROVE  sent.on[b] = form.on[b] /\ sent.security[b] = form.security[b]
        OBVIOUS
    <2>1. "on" \in DOMAIN Keys /\ b \in Keys["on"] /\ Shown(form, "on", b)
        BY KeysOf DEF Shown, Up
    <2>2. "security" \in DOMAIN Keys /\ b \in Keys["security"] /\ Shown(form, "security", b)
        BY KeysOf DEF Shown
    <2> QED BY <2>1, <2>2, ParsedIs
<1>4. sent.flag["roam_steering"] = form.flag["roam_steering"]
    <2>1. "flag" \in DOMAIN Keys /\ "roam_steering" \in Keys["flag"] /\ Shown(form, "flag", "roam_steering")
        BY KeysOf DEF Shown, Flags
    <2> QED BY <2>1, ParsedIs
<1>5. form.flag["roam_steering"] => sent.flag["hard_fallback"] = form.flag["hard_fallback"]
    <2> HAVE form.flag["roam_steering"]
    <2>1. "flag" \in DOMAIN Keys /\ "hard_fallback" \in Keys["flag"] /\ Shown(form, "flag", "hard_fallback")
        BY KeysOf DEF Shown, Flags
    <2> QED BY <2>1, ParsedIs
<1> QED BY <1>1, <1>2, <1>3, <1>4, <1>5

(* The parsed form shows exactly what the form has shown.                   *)
LEMMA ShownAlike ==
    ASSUME NEW form, NEW data, NEW g \in DOMAIN Keys, NEW k \in Keys[g]
    PROVE  Shown(Parsed(form, data), g, k) <=> Shown(form, g, k)
<1> DEFINE sent == Parsed(form, data)
<1>1. sent.on["5g"] = form.on["5g"]
    BY ParsedFields DEF Radios
<1>2. CASE g \in {"on", "list", "target"}
    BY <1>1, <1>2 DEF Shown
<1>3. CASE g \in {"text", "security", "password", "ft", "mfp"}
    <2>1. k \in Bss
        BY <1>3, KeysOf
    <2>2. /\ Up(sent, k) <=> Up(form, k)
          /\ Up(form, k) => sent.security[k] = form.security[k]
        BY <2>1, ParsedFields
    <2> QED BY <1>3, <2>2 DEF Shown
<1>4. CASE g = "channel"
    <2>1. k \in Radios
        BY <1>4, KeysOf
    <2> QED BY <1>4, <2>1, ParsedFields DEF Shown
<1>5. CASE g = "flag"
    BY <1>5, ParsedFields DEF Shown
<1>6. CASE g = "number"
    <2>1. (\A b \in Bss : k = MaxClients[b] => Up(sent, b)) <=> (\A b \in Bss : k = MaxClients[b] => Up(form, b))
        BY ParsedFields
    <2>2. k \in Soft \cup Hard => (sent.flag["roam_steering"] <=> form.flag["roam_steering"])
        BY ParsedFields
    <2>3. k \in Hard /\ form.flag["roam_steering"] => (sent.flag["hard_fallback"] <=> form.flag["hard_fallback"])
        BY ParsedFields
    <2> QED BY <1>6, <2>1, <2>2, <2>3 DEF Shown
<1> QED BY <1>2, <1>3, <1>4, <1>5, <1>6, KeysOf

(* What the page has accepted it would accept again as it is sent.         *)
LEMMA SentAccepted ==
    ASSUME NEW form, NEW data, NEW has, PageAccepts(form, has)
    PROVE  PageAccepts(Parsed(form, data), has)
<1> DEFINE sent == Parsed(form, data)
<1> SUFFICES ASSUME NEW g \in DOMAIN Keys, NEW k \in Keys[g], Shown(sent, g, k)
             PROVE  Valid(sent, has, g, k)
    BY DEF PageAccepts
<1>1. Shown(form, g, k) /\ sent[g][k] = form[g][k] /\ Valid(form, has, g, k)
    BY ShownAlike, ParsedIs DEF PageAccepts
<1>2. \A h \in DOMAIN Keys : \A j \in Keys[h] : Shown(form, h, j) => sent[h][j] = form[h][j]
    BY ParsedIs
<1>3. sent.target["scope"] = form.target["scope"]
    <2>1. "target" \in DOMAIN Keys /\ "scope" \in Keys["target"] /\ Shown(form, "target", "scope")
        BY KeysOf DEF Shown
    <2> QED BY <1>2, <2>1
<1>4. CASE g = "on"
    BY <1>4, <1>1, ParsedFields DEF Valid
<1>5. CASE g = "text"
    BY <1>5, <1>1 DEF Valid
<1>6. CASE g = "password"
    <2>1. k \in Bss /\ Up(form, k)
        BY <1>6, <1>1, KeysOf DEF Shown
    <2>2. sent.on[k] = form.on[k] /\ sent.security[k] = form.security[k]
        BY <2>1, ParsedFields
    <2> QED BY <1>6, <1>1, <2>2 DEF Valid, ValidPassword
<1>7. CASE <<g, k>> \in {<<"channel", "5g">>, <<"list", "width_5g">>}
    <2>1. form.on["5g"]
        BY <1>7, <1>1 DEF Shown
    <2>2. /\ "channel" \in DOMAIN Keys /\ "5g" \in Keys["channel"] /\ Shown(form, "channel", "5g")
          /\ "list" \in DOMAIN Keys /\ "width_5g" \in Keys["list"] /\ Shown(form, "list", "width_5g")
        BY <2>1, KeysOf DEF Shown, Radios
    <2> QED BY <1>7, <1>1, <1>2, <1>3, <2>2 DEF Valid
<1>8. CASE g = "channel" /\ k # "5g"
    BY <1>8, <1>1, <1>3 DEF Valid
<1>9. CASE g = "number"
    <2>1. k \in {"hard_rssi", "hard_window"} => k \in Hard /\ form.flag["roam_steering"] /\ form.flag["hard_fallback"]
        BY <1>9, <1>1 DEF Shown, Hard
    <2>2. /\ "number" \in DOMAIN Keys /\ {"hard_rssi", "hard_delay", "roam_rssi", "hard_window"} \subseteq Keys["number"]
        BY KeysOf DEF INT_FIELDS, Soft, Hard
    <2>3. form.flag["roam_steering"] /\ form.flag["hard_fallback"] =>
              \A j \in {"hard_rssi", "hard_delay", "roam_rssi", "hard_window"} : Shown(form, "number", j)
        BY DEF Shown, MaxClients, Bss
    <2> QED BY <1>9, <1>1, <1>2, <2>1, <2>2, <2>3 DEF Valid
<1> QED BY <1>4, <1>5, <1>6, <1>7, <1>8, <1>9, KeysOf DEF Valid

(* What normalizeFormData changes, and leaves.                              *)
LEMMA NormalizedIs ==
    ASSUME NEW form, NEW data
    PROVE  LET sent == Parsed(form, data)
               p == Normalized(Profile(sent)) IN
           /\ \A g \in {"text", "security", "channel", "list", "number"} : p[g] = sent[g]
           /\ \A r \in Radios : p.on[r] = sent.on[r]
           /\ p.on["5g_legacy"] <=> sent.on["5g_legacy"] /\ sent.on["5g"]
<1> DEFINE sent == Parsed(form, data)
           profile == Profile(sent)
<1>1. /\ DOMAIN profile = {"on", "text", "security", "mfp", "ft", "channel", "flag", "list", "number"}
      /\ \A g \in DOMAIN profile : profile[g] = sent[g]
    BY KeysOf DEF Profile
<1>2. DOMAIN profile.on = Bss
    <2>1. "on" \in DOMAIN Keys /\ Keys["on"] = Bss
        BY KeysOf
    <2>2. sent["on"] = [k \in Keys["on"] |-> sent["on"][k]]
        BY <2>1, ParsedShape
    <2>3. DOMAIN sent["on"] = Bss
        BY <2>1, <2>2
    <2> QED BY <2>3, <1>1
<1>3. \A g \in {"text", "security", "channel", "list", "number"} : Normalized(profile)[g] = profile[g]
    BY <1>1 DEF Normalized
<1>4. Normalized(profile).on = [profile.on EXCEPT !["5g_legacy"] = profile.on["5g_legacy"] /\ profile.on["5g"]]
    BY <1>1 DEF Normalized
<1> QED BY <1>1, <1>2, <1>3, <1>4 DEF Bss, Radios

(* The ranges of the page lie within those of set-wifi.                     *)
LEMMA NumbersAgree ==
    ASSUME NEW k \in INT_FIELDS
    PROVE  PageRange(k) = SetWifiRange(k)
<1>1. k \in {"max_clients_2g", "max_clients_5g", "max_clients_5g_legacy", "beacon_interval", "dtim_period"}
              \cup Soft \cup Hard
    BY DEF INT_FIELDS, MaxClients, Bss
<1>2. CASE k \in {"max_clients_2g", "max_clients_5g", "max_clients_5g_legacy"}
    BY <1>2 DEF PageRange, SetWifiRange
<1>3. CASE k = "beacon_interval"
    BY <1>3 DEF PageRange, SetWifiRange
<1>4. CASE k = "dtim_period"
    BY <1>4 DEF PageRange, SetWifiRange
<1>5. CASE k \in Soft
    <2>1. CASE k = "roam_interval"
        BY <2>1 DEF PageRange, SetWifiRange
    <2>2. CASE k = "roam_rssi"
        BY <2>2 DEF PageRange, SetWifiRange
    <2>3. CASE k = "roam_samples"
        BY <2>3 DEF PageRange, SetWifiRange
    <2>4. CASE k = "roam_cooldown"
        BY <2>4 DEF PageRange, SetWifiRange
    <2>5. CASE k = "roam_min_age"
        BY <2>5 DEF PageRange, SetWifiRange
    <2> QED BY <1>5, <2>1, <2>2, <2>3, <2>4, <2>5 DEF Soft
<1>6. CASE k \in Hard
    BY <1>6 DEF PageRange, SetWifiRange, Hard
<1> QED BY <1>1, <1>2, <1>3, <1>4, <1>5, <1>6

(* So do the pairs of channel and width, but for 160 MHz.                   *)
LEMMA WidthsAgree ==
    ASSUME NEW channel, NEW width, Valid5GHzCombination(channel, width), width \in Widths \ {"160"}
    PROVE  ValidChannelWidth(channel, width)
BY DEF Valid5GHzCombination, ValidChannelWidth, Widths

(* A form that the page accepts, and whose unchecked values are sound, is  *)
(* accepted by set-wifi.                                                   *)
THEOREM PageAgrees ==
    ASSUME NEW form, NEW data, NEW has, NEW secret,
           PageAccepts(form, has), Checked(Parsed(form, data)),
           \A b \in Bss : has[b] => secret[b] \notin {"", "malformed"}
    PROVE  Agrees(Parsed(form, data), secret)
<1> DEFINE sent == Parsed(form, data)
           p == Normalized(Profile(sent))
           s == Secrets(sent, secret)
<1>1. \A g \in DOMAIN Keys : \A k \in Keys[g] : Shown(sent, g, k) => Valid(sent, has, g, k)
    BY SentAccepted DEF PageAccepts
<1>0. /\ \A g \in {"text", "security", "channel", "list", "number"} : p[g] = sent[g]
      /\ \A r \in Radios : p.on[r] = sent.on[r]
      /\ p.on["5g_legacy"] <=> sent.on["5g_legacy"] /\ sent.on["5g"]
    BY ZenonT(60), NormalizedIs
<1>11. /\ p.text = sent.text /\ p.security = sent.security
       /\ p.channel = sent.channel /\ p.list = sent.list /\ p.number = sent.number
    BY <1>0
<1>2. \A b \in Bss : Up(p, b) <=> Up(sent, b)
    <2> TAKE b \in Bss
    <2>1. CASE b \in Radios
        <3>1. p.on[b] = sent.on[b]
            BY <1>0, <2>1
        <3> QED BY <3>1, <2>1 DEF Up, Radios
    <2>2. CASE b = "5g_legacy"
        <3>1. p.on["5g"] = sent.on["5g"]
            BY <1>0 DEF Radios
        <3>2. p.on["5g_legacy"] <=> sent.on["5g_legacy"] /\ sent.on["5g"]
            BY <1>0
        <3> QED BY <2>2, <3>1, <3>2 DEF Up
    <2> QED BY <2>1, <2>2 DEF Bss, Radios
<1>3. \E r \in Radios : p.on[r]
    <2>1. "on" \in DOMAIN Keys /\ "2g" \in Keys["on"] /\ Shown(sent, "on", "2g")
        BY KeysOf DEF Shown, Bss
    <2>2. \E r \in Radios : sent.on[r]
        BY <2>1, <1>1 DEF Valid, Radios
    <2> QED BY <2>2, <1>0
<1>4. ASSUME NEW b \in Bss
      PROVE  p.text[b] # "malformed"
    <2>1. "text" \in DOMAIN Keys /\ b \in Keys["text"]
        BY KeysOf
    <2>2. sent.text[b] # "malformed"
        BY <2>1, <1>1 DEF Valid, Checked, HiddenSound
    <2> QED BY <2>2, <1>11
<1>5. ASSUME NEW b \in Bss, Up(p, b), p.security[b] # "open"
      PROVE  s[b] \notin {"", "malformed"}
    <2>1. Up(sent, b) /\ sent.security[b] # "open"
        BY <1>5, <1>2, <1>11
    <2>2. "password" \in DOMAIN Keys /\ b \in Keys["password"] /\ Shown(sent, "password", b)
        BY <2>1, KeysOf DEF Shown
    <2>3. ValidPassword(sent, has, b)
        BY <2>2, <1>1 DEF Valid
    <2> QED BY <2>1, <2>3 DEF ValidPassword, Secrets, Up
<1>6. ASSUME NEW k \in INT_FIELDS
      PROVE  Whole(p.number[k]) /\ Within(p.number[k], SetWifiRange(k))
    <2>1. "number" \in DOMAIN Keys /\ k \in Keys["number"]
        BY KeysOf
    <2>2. Within(sent.number[k], SetWifiRange(k))
        BY <2>1, <1>1, NumbersAgree DEF Valid, Checked, HiddenSound
    <2>3. Whole(sent.number[k])
        BY DEF Checked
    <2> QED BY <2>2, <2>3, <1>11
<1>7. ValidCountry(p.list["country"])
    BY NormalizedIs DEF Checked
<1>8. ValidChannelWidth(p.channel["5g"], p.list["width_5g"])
    <2>1. CASE sent.on["5g"]
        <3>1. "channel" \in DOMAIN Keys /\ "5g" \in Keys["channel"] /\ Shown(sent, "channel", "5g")
            BY <2>1, KeysOf DEF Shown, Radios
        <3>2. Valid5GHzCombination(sent.channel["5g"], sent.list["width_5g"])
            BY <3>1, <1>1 DEF Valid
        <3>3. sent.list["width_5g"] \in Widths \ {"160"}
            BY DEF Checked
        <3>4. ValidChannelWidth(sent.channel["5g"], sent.list["width_5g"])
            BY <3>2, <3>3, WidthsAgree
        <3> QED BY <3>4, <1>11
    <2>2. CASE ~sent.on["5g"]
        <3>1. ValidChannelWidth(sent.channel["5g"], sent.list["width_5g"])
            BY <2>2 DEF Checked, HiddenSound
        <3> QED BY <3>1, <1>11
    <2> QED BY <2>1, <2>2
<1>9. p.number["hard_rssi"] < p.number["roam_rssi"] /\ p.number["hard_window"] > p.number["hard_delay"]
    <2>1. "number" \in DOMAIN Keys /\ "hard_rssi" \in Keys["number"] /\ "hard_window" \in Keys["number"]
        BY KeysOf DEF INT_FIELDS, Hard
    <2>2. Shown(sent, "number", "hard_rssi") => Shown(sent, "number", "hard_window")
        BY DEF Shown, Hard, MaxClients, Bss
    <2>3. CASE Shown(sent, "number", "hard_rssi")
        <3>1. Valid(sent, has, "number", "hard_rssi") /\ Valid(sent, has, "number", "hard_window")
            BY <2>1, <2>2, <2>3, <1>1
        <3> QED BY <3>1, <1>11 DEF Valid
    <2>4. CASE ~Shown(sent, "number", "hard_rssi")
        <3>1. /\ sent.number["hard_rssi"] < sent.number["roam_rssi"]
              /\ sent.number["hard_window"] > sent.number["hard_delay"]
            BY <2>4 DEF Checked, HiddenSound
        <3> QED BY <3>1, <1>11
    <2> QED BY <2>3, <2>4
<1>10. ASSUME sent.target["scope"] = "pair", NEW r \in Radios, p.on[r]
       PROVE  p.channel[r] = "auto"
    <2>1. sent.on[r]
        <3>1. p.on[r] = sent.on[r]
            BY <1>0
        <3> QED BY <3>1, <1>10
    <2>2. "channel" \in DOMAIN Keys /\ r \in Keys["channel"] /\ Shown(sent, "channel", r)
        BY <2>1, KeysOf DEF Shown
    <2>3. sent.channel[r] = "auto"
        BY <2>2, <1>1, <1>10 DEF Valid
    <2> QED BY <2>3, <1>11
<1> QED BY <1>3, <1>4, <1>5, <1>6, <1>7, <1>8, <1>9, <1>10 DEF Agrees, SetWifiAccepts

-----------------------------------------------------------------------------
(* The calls that wait: what the page accepts set-wifi accepts.             *)

(* The groups of a form, and the options of each.                           *)
FormShape(form) ==
    DOMAIN form = DOMAIN Keys /\ \A g \in DOMAIN Keys : DOMAIN form[g] = Keys[g]

Sound(c) ==
    c.kind = "configure" =>
        /\ FormShape(c.args)
        /\ Checked(c.args) =>
              \A secret : (\A b \in Bss : c.has[b] => secret[b] \notin {"", "malformed"})
                              => Agrees(c.args, secret)
AllSound == \A i \in DOMAIN queue : Sound(queue[i])
Calls(A, L) == [tab : Tabs \cup {NoTab}, kind : Kinds, args : A, has : L]
IInv == (\E A, L : queue \in Seq(Calls(A, L))) /\ AllSound

(* Sound calls are what RefusedOnlyUnseen asks for.                         *)
LEMMA SoundSuffices == IInv => RefusedOnlyUnseen
BY DEF IInv, AllSound, Sound, RefusedOnlyUnseen, Unseen

(* A sound call may be appended.                                            *)
LEMMA AskSound ==
    ASSUME IInv, NEW t \in Tabs, NEW kind \in Kinds, NEW args,
           Ask(t, kind, args), Sound(Call(t, kind, args))
    PROVE  IInv'
<1>1. PICK A, L : queue \in Seq(Calls(A, L))
    BY DEF IInv
<1> DEFINE c == Call(t, kind, args)
           AA == A \cup {args}
           LL == L \cup {c.has}
<1>2. queue' = Append(queue, c)
    BY DEF Ask
<1>3. Calls(A, L) \subseteq Calls(AA, LL) /\ c \in Calls(AA, LL)
    BY DEF Calls, Call
<1>4. queue \in Seq(Calls(AA, LL)) /\ queue' \in Seq(Calls(AA, LL))
    <2> HIDE DEF c, AA, LL
    <2> QED BY <1>1, <1>2, <1>3
<1>5. ASSUME NEW i \in DOMAIN queue'
      PROVE  Sound(queue'[i])
    <2> HIDE DEF c, AA, LL
    <2>1. CASE i \in DOMAIN queue
        BY <2>1, <1>2, <1>4 DEF IInv, AllSound
    <2>2. CASE i = Len(queue) + 1
        BY <2>2, <1>2, <1>4 DEF c
    <2> QED BY <2>1, <2>2, <1>2, <1>4
<1> HIDE DEF c, AA, LL
<1> QED BY <1>4, <1>5 DEF IInv, AllSound

(* Only configure_wireless can be unsound.                                  *)
LEMMA OtherKindsSound ==
    ASSUME NEW t, NEW kind, NEW args, kind # "configure"
    PROVE  Sound(Call(t, kind, args))
BY DEF Sound, Call

(* The call that is answered leaves the queue, and nothing joins it.        *)
LEMMA ReplySound ==
    ASSUME IInv, NEW answer, Reply(answer), queue # <<>>
    PROVE  IInv'
<1>1. PICK A, L : queue \in Seq(Calls(A, L))
    BY DEF IInv
<1>2. queue' = Tail(queue)
    BY DEF Reply
<1>3. queue' \in Seq(Calls(A, L)) /\ \A i \in DOMAIN queue' : i + 1 \in DOMAIN queue /\ queue'[i] = queue[i + 1]
    BY <1>1, <1>2
<1> QED BY <1>3 DEF IInv, AllSound

(* Of some calls the tab is forgotten.                                     *)
LEMMA ForgetSound ==
    ASSUME IInv, NEW D,
           queue' = [i \in DOMAIN queue |-> IF i \in D THEN [queue[i] EXCEPT !.tab = NoTab] ELSE queue[i]]
    PROVE  IInv'
<1>1. PICK A, L : queue \in Seq(Calls(A, L))
    BY DEF IInv
<1>2. ASSUME NEW i \in DOMAIN queue
      PROVE  /\ queue'[i] \in Calls(A, L)
             /\ queue'[i].kind = queue[i].kind /\ queue'[i].args = queue[i].args
             /\ queue'[i].has = queue[i].has
    <2>1. queue[i] \in Calls(A, L)
        BY <1>1
    <2> QED BY <2>1 DEF Calls
<1>3. DOMAIN queue = 1..Len(queue) /\ Len(queue) \in Nat /\ DOMAIN queue' = DOMAIN queue
    BY <1>1
<1>4. queue' \in Seq(Calls(A, L))
    BY <1>2, <1>3
<1>5. AllSound'
    BY <1>2, <1>3, ZenonT(60) DEF IInv, AllSound, Sound
<1> QED BY <1>4, <1>5 DEF IInv

(* Steps that leave the queue alone.                                        *)
LEMMA UnchangedSound == IInv /\ UNCHANGED queue => IInv'
BY DEF IInv, AllSound

(* What the user does: Save asks only with a profile that the page accepts. *)
LEMMA UserSound ==
    ASSUME IInv, NEW t \in Tabs, User(t)
    PROVE  IInv'
<1>1. ASSUME NEW page \in Pages, Open(t, page)
      PROVE  IInv'
    <2> DEFINE D == {i \in DOMAIN queue : queue[i].tab = t}
    <2>1. queue' = [i \in DOMAIN queue |-> IF i \in D THEN [queue[i] EXCEPT !.tab = NoTab] ELSE queue[i]]
        BY <1>1 DEF Open
    <2> QED BY <2>1, ForgetSound
<1>2. ASSUME NEW e \in Edits, Edit(t, e[1], e[2], e[3])
      PROVE  IInv'
    BY <1>2, UnchangedSound DEF Edit
<1>3. ASSUME NEW field, NEW value, Type(t, field, value)
      PROVE  IInv'
    BY <1>3, UnchangedSound DEF Type
<1>4. CASE Save(t)
    <2> DEFINE form == tabs[t].form
               data == tabs[t].data
               sent == Parsed(form, data)
    <2>1. PageAccepts(form, tabs[t].has) /\ Ask(t, "configure", sent)
        BY <1>4 DEF Save
    <2>2. Call(t, "configure", sent).args = sent /\ Call(t, "configure", sent).has = tabs[t].has
        BY DEF Call
    <2>3. Sound(Call(t, "configure", sent))
        <3> HIDE DEF form, data
        <3>1. FormShape(sent)
            BY DEF FormShape, Parsed
        <3> QED BY <2>1, <2>2, <3>1, PageAgrees DEF Sound
    <2>4. "configure" \in Kinds
        BY DEF Kinds
    <2> HIDE DEF sent
    <2> QED BY <2>1, <2>3, <2>4, AskSound
<1>5. ASSUME NEW enabled \in BOOLEAN, Apply(t, enabled)
      PROVE  IInv'
    <2>1. PICK args : Ask(t, "configure_cluster", args)
        BY <1>5 DEF Apply
    <2> QED BY <2>1, OtherKindsSound, AskSound DEF Kinds
<1>6. ASSUME NEW button \in Buttons, Press(t, button)
      PROVE  IInv'
    <2>1. Ask(t, button, NoArgs) /\ button \in Kinds /\ button # "configure"
        BY <1>6 DEF Press, Kinds, Buttons
    <2> QED BY <2>1, OtherKindsSound, AskSound
<1> QED BY <1>1, <1>2, <1>3, <1>4, <1>5, <1>6 DEF User

(* The callbacks of the page, its timer and what the user does.             *)
LEMMA PageSound ==
    ASSUME IInv, NEW t \in Tabs, Poll(t) \/ HandleCommand(t) \/ \E kind \in Reads : Refresh(t, kind)
    PROVE  IInv'
<1>1. CASE Poll(t)
    <2>1. Ask(t, "poll", NoArgs) /\ "poll" \in Kinds
        BY <1>1 DEF Poll, Kinds
    <2> QED BY <2>1, OtherKindsSound, AskSound
<1>2. ASSUME NEW kind, NEW next \in Reads, Then(t, kind, next)
      PROVE  IInv'
    <2>1. Ask(t, next, NoArgs) /\ next \in Kinds /\ next # "configure"
        BY <1>2 DEF Then, Kinds, Reads
    <2> QED BY <2>1, OtherKindsSound, AskSound
<1>3. CASE HandleCommand(t)
    <2>1. CASE ConfigureDone(t)
        BY <2>1, <1>2 DEF ConfigureDone, Reads
    <2>2. CASE ClusterDone(t)
        BY <2>2, <1>2 DEF ClusterDone, Reads
    <2>3. CASE ActionDone(t)
        BY <2>3, <1>2 DEF ActionDone, Reads
    <2>4. CASE ScanDone(t) \/ \E kind \in Commands : CommandFailed(t, kind)
        BY <2>4, UnchangedSound DEF ScanDone, CommandFailed
    <2> QED BY <1>3, <2>1, <2>2, <2>3, <2>4 DEF HandleCommand
<1>4. ASSUME NEW kind \in Reads, Refresh(t, kind)
      PROVE  IInv'
    BY <1>4, UnchangedSound DEF Refresh
<1> QED BY <1>1, <1>3, <1>4

(* What rpcd does, which only takes calls away.                             *)
LEMMA ServeSound == IInv /\ (Serve \/ ServeFails) => IInv'
<1> SUFFICES ASSUME IInv, Serve \/ ServeFails PROVE IInv'
    OBVIOUS
<1>1. \E answer : Reply(answer) /\ queue # <<>>
    BY DEF Serve, ServeFails, ServeConfigure, ServeCluster, ServeStatus, ServeAction, Turn
<1> QED BY <1>1, ReplySound

(* Every step keeps the calls sound.                                        *)
LEMMA NextSound == IInv /\ [Next]_vars => IInv'
<1> SUFFICES ASSUME IInv, [Next]_vars PROVE IInv'
    OBVIOUS
<1>1. ASSUME NEW t \in Tabs, User(t) \/ Poll(t) \/ HandleCommand(t) \/ \E kind \in Reads : Refresh(t, kind)
      PROVE  IInv'
    BY <1>1, UserSound, PageSound
<1>2. CASE Serve \/ ServeFails
    BY <1>2, ServeSound
<1>3. CASE OtherChange \/ UNCHANGED vars
    BY <1>3, UnchangedSound DEF OtherChange, vars
<1>4. ASSUME NEW i \in DOMAIN queue, GiveUp(i)
      PROVE  IInv'
    <2>1. queue' = [j \in DOMAIN queue |-> IF j \in {i} THEN [queue[j] EXCEPT !.tab = NoTab] ELSE queue[j]]
        BY <1>4 DEF GiveUp
    <2> QED BY <2>1, ForgetSound
<1> QED BY <1>1, <1>2, <1>3, <1>4 DEF Next

LEMMA InitSound == Init => IInv
<1>1. queue = <<>> => queue \in Seq(Calls({}, {}))
    OBVIOUS
<1> QED BY <1>1 DEF Init, IInv, AllSound

(* A profile the page accepts is refused only for what the page could not  *)
(* see or does not check, whatever happens meanwhile.                      *)
THEOREM OnlyUnseenRefused == Spec => []RefusedOnlyUnseen
<1> QED BY InitSound, NextSound, SoundSuffices, PTL DEF Spec

-----------------------------------------------------------------------------
(* What nobody has touched stays as it was loaded, in the form and in the  *)
(* data below it.                                                          *)

TabFields == {"page", "loaded", "data", "form", "has", "touched", "typed", "shown", "modal", "busy"}
Kept(tab) ==
    \A g \in DOMAIN ProfileKeys : \A k \in ProfileKeys[g] :
        <<g, k>> \notin tab.touched =>
            tab.form[g][k] = tab.loaded.profile[g][k] /\ tab.data[g][k] = tab.loaded.profile[g][k]
TabKept(tab) ==
    DOMAIN tab = TabFields /\ FormShape(tab.form) /\ FormShape(tab.data) /\ Kept(tab)

ProfileShape(profile) ==
    /\ DOMAIN profile = DOMAIN ProfileKeys
    /\ \A g \in DOMAIN ProfileKeys : DOMAIN profile[g] = ProfileKeys[g]
ApShape(a) == {"profile", "secret", "member"} = DOMAIN a /\ ProfileShape(a.profile)

KeptInv ==
    /\ IInv /\ ApShape(ap)
    /\ DOMAIN tabs = Tabs /\ \A t \in Tabs : TabKept(tabs[t])

(* Access points that are given have their options.                        *)
LEMMA GivenShape ==
    ASSUME NEW a \in AccessPoints
    PROVE  ApShape(a)
<1>1. a.profile \in Profiles /\ DOMAIN a = {"profile", "secret", "member"}
    BY DEF AccessPoints
<1>2. DOMAIN a.profile = DOMAIN ProfileKeys
    BY <1>1, KeysOf DEF Profiles
<1>3. \A g \in DOMAIN ProfileKeys : DOMAIN a.profile[g] = ProfileKeys[g]
    BY <1>1, KeysOf DEF Profiles
<1> QED BY <1>1, <1>2, <1>3 DEF ApShape, ProfileShape

(* A page that is opened holds what it has loaded.                         *)
LEMMA PageKept ==
    ASSUME NEW page, NEW a, ApShape(a)
    PROVE  TabKept(Page(page, StatusOf(a)))
<1> DEFINE status == StatusOf(a)
           data == NormalizeFormData(status.profile, ScopeOf(status))
           tab == Page(page, status)
<1>1. status.profile = a.profile
    BY DEF StatusOf
<1>2. DOMAIN data = DOMAIN Keys /\ data["password"] = [b \in Bss |-> ""]
      /\ DOMAIN data["target"] = {"scope"}
    BY KeysOf DEF NormalizeFormData
<1>3. \A g \in DOMAIN ProfileKeys : g \in DOMAIN Keys /\ data[g] = a.profile[g]
    BY <1>1, KeysOf DEF NormalizeFormData
<1>4. FormShape(data)
    <2> HIDE DEF data
    <2>1. ASSUME NEW g \in DOMAIN ProfileKeys PROVE DOMAIN data[g] = Keys[g]
        <3>1. DOMAIN data[g] = ProfileKeys[g]
            BY <1>3, <2>1 DEF ApShape, ProfileShape
        <3> QED BY <3>1, KeysOf
    <2>2. DOMAIN data["password"] = Keys["password"] /\ DOMAIN data["target"] = Keys["target"]
        BY <1>2, KeysOf
    <2>3. \A g \in DOMAIN Keys : g \in DOMAIN ProfileKeys \/ g = "password" \/ g = "target"
        BY KeysOf
    <2> QED BY <1>2, <2>1, <2>2, <2>3 DEF FormShape
<1>5. /\ tab.form = data /\ tab.data = data /\ tab.loaded = status /\ tab.touched = {}
      /\ DOMAIN tab = TabFields
    BY DEF Page, TabFields
<1> HIDE DEF tab, data
<1>6. Kept(tab)
    BY <1>1, <1>3, <1>5 DEF Kept
<1> QED BY <1>4, <1>5, <1>6 DEF TabKept, tab

(* One tab changes.                                                        *)
LEMMA OneTab ==
    ASSUME KeptInv, NEW t \in Tabs, NEW tab, tabs' = [tabs EXCEPT ![t] = tab], TabKept(tab),
           IInv', ApShape(ap')
    PROVE  KeptInv'
<1>1. DOMAIN tabs' = Tabs /\ tabs'[t] = tab /\ \A u \in Tabs \ {t} : tabs'[u] = tabs[u]
    BY DEF KeptInv
<1>2. \A u \in Tabs : TabKept(tabs'[u])
    BY <1>1 DEF KeptInv
<1> QED BY <1>1, <1>2 DEF KeptInv

LEMMA SameTabs ==
    ASSUME KeptInv, UNCHANGED tabs, IInv', ApShape(ap')
    PROVE  KeptInv'
BY DEF KeptInv

(* What is left alone when a command ends or its status is drawn.          *)
Same(tab, other) ==
    /\ DOMAIN other = DOMAIN tab
    /\ other.form = tab.form /\ other.data = tab.data
    /\ other.loaded = tab.loaded /\ other.touched = tab.touched

LEMMA SameKept ==
    ASSUME NEW tab, NEW other, TabKept(tab), Same(tab, other)
    PROVE  TabKept(other)
BY DEF TabKept, Same, Kept

LEMMA EndedSame ==
    ASSUME NEW tab, DOMAIN tab = TabFields, NEW kind
    PROVE  Same(tab, Ended(tab, kind))
<1>1. "form" \in TabFields /\ "data" \in TabFields /\ "loaded" \in TabFields
      /\ "touched" \in TabFields
    BY DEF TabFields
<1>2. Same(tab, tab)
    BY DEF Same
<1>3. \A v : Same(tab, [tab EXCEPT !.busy = v]) /\ Same(tab, [tab EXCEPT !.modal = v])
    BY <1>1 DEF Same
<1> QED BY <1>2, <1>3 DEF Ended

LEMMA RenderedSame ==
    ASSUME NEW tab, DOMAIN tab = TabFields, NEW answer
    PROVE  Same(tab, Rendered(tab, answer))
<1>1. "form" \in TabFields /\ "data" \in TabFields /\ "loaded" \in TabFields
      /\ "touched" \in TabFields
    BY DEF TabFields
<1>2. \A v, w : /\ Same(tab, [tab EXCEPT !.shown = v])
                /\ Same(tab, [tab EXCEPT !.shown = v, !.typed = w])
    BY <1>1 DEF Same
<1> QED BY <1>2 DEF Rendered, RenderedCluster

(* An input touches its option, and no other changes.                      *)
LEMMA EditKept ==
    ASSUME NEW tab, TabKept(tab), NEW g, NEW k, NEW value
    PROVE  TabKept([tab EXCEPT !.form[g][k] = value, !.touched = @ \cup {<<g, k>>}])
<1> DEFINE form == [tab.form EXCEPT ![g] = [tab.form[g] EXCEPT ![k] = value]]
           other == [tab EXCEPT !.form = form, !.touched = tab.touched \cup {<<g, k>>}]
<1>1. /\ DOMAIN other = TabFields /\ other.form = form /\ other.data = tab.data
      /\ other.loaded = tab.loaded /\ other.touched = tab.touched \cup {<<g, k>>}
    BY DEF TabKept, TabFields
<1>2. FormShape(form)
    BY DEF TabKept, FormShape
<1>3. \A h \in DOMAIN ProfileKeys : h \in DOMAIN Keys /\ Keys[h] = ProfileKeys[h]
    BY KeysOf
<1>4. ASSUME NEW h \in DOMAIN ProfileKeys, NEW j \in ProfileKeys[h],
             <<h, j>> \notin tab.touched \cup {<<g, k>>}
      PROVE  form[h][j] = tab.form[h][j]
    <2>1. h \in DOMAIN tab.form /\ j \in DOMAIN tab.form[h]
        BY <1>3 DEF TabKept, FormShape
    <2>2. CASE h # g
        BY <2>1, <2>2
    <2>3. CASE h = g /\ j # k
        BY <2>1, <2>3
    <2> QED BY <1>4, <2>2, <2>3
<1> HIDE DEF form
<1>5. Kept(other)
    BY <1>1, <1>4 DEF TabKept, Kept
<1>6. TabKept(other)
    BY <1>1, <1>2, <1>5 DEF TabKept
<1> QED BY <1>6 DEF form

(* What is sent has every untouched option as it was loaded, whether the    *)
(* page shows it or not, and becomes the new data.                          *)
LEMMA SentKept ==
    ASSUME NEW tab, TabKept(tab), NEW g \in DOMAIN ProfileKeys, NEW k \in ProfileKeys[g],
           <<g, k>> \notin tab.touched
    PROVE  Parsed(tab.form, tab.data)[g][k] = tab.loaded.profile[g][k]
<1>1. g \in DOMAIN Keys /\ k \in Keys[g]
    BY KeysOf
<1> QED BY <1>1, ParsedIs DEF TabKept, Kept

LEMMA SaveKept ==
    ASSUME NEW tab, TabKept(tab), NEW has, NEW modal
    PROVE  LET sent == Parsed(tab.form, tab.data) IN
           TabKept([tab EXCEPT !.data = sent, !.form = sent, !.has = has, !.modal = modal])
<1> DEFINE sent == Parsed(tab.form, tab.data)
           other == [tab EXCEPT !.data = sent, !.form = sent, !.has = has, !.modal = modal]
<1>1. FormShape(sent)
    BY DEF FormShape, Parsed
<1>2. \A g \in DOMAIN ProfileKeys : \A k \in ProfileKeys[g] :
          <<g, k>> \notin tab.touched => sent[g][k] = tab.loaded.profile[g][k]
    BY SentKept
<1> HIDE DEF sent
<1>3. /\ DOMAIN other = TabFields /\ other.form = sent /\ other.data = sent
      /\ other.loaded = tab.loaded /\ other.touched = tab.touched
    BY DEF TabKept, TabFields
<1>4. TabKept(other)
    BY <1>1, <1>2, <1>3 DEF TabKept, Kept
<1> QED BY <1>4 DEF sent

(* Forgetting the passwords alters no option of the profile.                *)
LEMMA ForgottenKept ==
    ASSUME NEW tab, TabKept(tab)
    PROVE  TabKept([Forgotten(tab) EXCEPT !.modal = FALSE])
<1>1. ASSUME NEW form, FormShape(form)
      PROVE  /\ FormShape(NoPasswords(form))
             /\ \A g \in DOMAIN ProfileKeys : NoPasswords(form)[g] = form[g]
    <2>1. "password" \notin DOMAIN ProfileKeys /\ Keys["password"] = Bss
        BY KeysOf
    <2>2. /\ DOMAIN NoPasswords(form) = DOMAIN Keys
          /\ \A g \in DOMAIN Keys :
                NoPasswords(form)[g] = IF g = "password" THEN [b \in Bss |-> ""] ELSE form[g]
        BY <1>1 DEF NoPasswords, FormShape
    <2>3. FormShape(NoPasswords(form))
        BY <1>1, <2>1, <2>2 DEF FormShape
    <2>4. \A g \in DOMAIN ProfileKeys : g \in DOMAIN Keys /\ g # "password"
        BY <2>1, KeysOf
    <2> QED BY <2>2, <2>3, <2>4
<1> DEFINE has == [b \in Bss |-> tab.has[b] \/ tab.form.password[b] # ""]
           forgotten == [tab EXCEPT !.data = NoPasswords(tab.data), !.form = NoPasswords(tab.form),
                                    !.has = has]
           other == [forgotten EXCEPT !.modal = FALSE]
<1> HIDE DEF has
<1>2. DOMAIN tab = TabFields /\ FormShape(tab.form) /\ FormShape(tab.data) /\ Kept(tab)
    BY DEF TabKept
<1>3. /\ DOMAIN other = TabFields
      /\ other.form = NoPasswords(tab.form) /\ other.data = NoPasswords(tab.data)
      /\ other.loaded = tab.loaded /\ other.touched = tab.touched
    BY <1>2 DEF TabFields
<1>4. TabKept(other)
    BY <1>1, <1>2, <1>3 DEF TabKept, Kept
<1> QED BY <1>4 DEF Forgotten, has

(* What rpcd does leaves the access point with its options.                 *)
LEMMA ServeShape ==
    ASSUME KeptInv, Serve \/ ServeFails
    PROVE  ApShape(ap') /\ UNCHANGED tabs
<1>0. ApShape(ap)
    BY DEF KeptInv
<1>1. CASE UNCHANGED ap
    <2>1. UNCHANGED tabs
        BY DEF Serve, ServeFails, ServeConfigure, ServeCluster, ServeStatus, ServeAction, Reply
    <2> QED BY <1>0, <1>1, <2>1
<1>2. CASE ServeCluster
    BY <1>0, <1>2 DEF ServeCluster, Reply, ApShape
<1>3. CASE ServeConfigure /\ ap' # ap
    <2> DEFINE form == Head(queue).args
               profile == Normalized(Profile(form))
    <2>1. queue # <<>> /\ Head(queue).kind = "configure" /\ UNCHANGED tabs
        BY <1>3 DEF ServeConfigure, Turn, Reply
    <2>2. 1 \in DOMAIN queue /\ Head(queue) = queue[1]
        BY <2>1 DEF KeptInv, IInv
    <2>3. FormShape(form)
        BY <2>1, <2>2 DEF KeptInv, IInv, AllSound, Sound
    <2>4. ProfileShape(Profile(form))
        BY <2>3, KeysOf DEF Profile, ProfileShape, FormShape
    <2> HIDE DEF form
    <2>5. ProfileShape(profile)
        BY <2>4, KeysOf DEF Normalized, ProfileShape
    <2> HIDE DEF profile
    <2>6. ap' = [ap EXCEPT !.profile = profile, !.secret = Secrets(form, ap.secret)]
        BY <1>3 DEF ServeConfigure, form, profile
    <2> QED BY <1>0, <2>1, <2>5, <2>6 DEF ApShape
<1> QED BY <1>1, <1>2, <1>3
        DEF Serve, ServeFails, ServeStatus, ServeAction

(* The user, the callbacks of a page and its timer.                         *)
LEMMA TabStepKept ==
    ASSUME KeptInv, IInv', NEW t \in Tabs,
           User(t) \/ Poll(t) \/ HandleCommand(t) \/ \E kind \in Reads : Refresh(t, kind)
    PROVE  KeptInv'
<1>0. /\ DOMAIN tabs = Tabs /\ TabKept(tabs[t]) /\ ApShape(ap)
      /\ DOMAIN tabs[t] = TabFields
    BY DEF KeptInv, TabKept
<1>1. UNCHANGED ap
    BY DEF User, Poll, HandleCommand, Refresh, Open, Edit, Type, Save, Apply, Press,
           ConfigureDone, ClusterDone, ActionDone, ScanDone, CommandFailed, Then, Answered
<1>2. ApShape(ap')
    BY <1>0, <1>1
<1>3. ASSUME NEW tab, tabs' = [tabs EXCEPT ![t] = tab], TabKept(tab)
      PROVE  KeptInv'
    BY <1>2, <1>3, OneTab
<1>4. ASSUME NEW tab, tabs' = [tabs EXCEPT ![t] = tab], Same(tabs[t], tab)
      PROVE  KeptInv'
    BY <1>0, <1>3, <1>4, SameKept
<1>5. CASE UNCHANGED tabs
    BY <1>2, <1>5, SameTabs
<1>6. ASSUME NEW page \in Pages, Open(t, page)
      PROVE  KeptInv'
    BY <1>0, <1>3, <1>6, PageKept DEF Open
<1>7. ASSUME NEW g, NEW k, NEW value, Edit(t, g, k, value)
      PROVE  KeptInv'
    <2> DEFINE tab == [tabs[t] EXCEPT !.form[g][k] = value, !.touched = @ \cup {<<g, k>>}]
    <2>1. tabs' = [tabs EXCEPT ![t] = tab]
        BY <1>7 DEF Edit
    <2>2. TabKept(tab)
        BY <1>0, EditKept
    <2> HIDE DEF tab
    <2> QED BY <1>3, <2>1, <2>2
<1>8. ASSUME NEW field, NEW value, Type(t, field, value)
      PROVE  KeptInv'
    <2> DEFINE tab == [tabs[t] EXCEPT !.typed = [@ EXCEPT ![field] = value]]
    <2>1. tabs' = [tabs EXCEPT ![t] = tab]
        BY <1>8 DEF Type
    <2>2. Same(tabs[t], tab)
        BY <1>0 DEF Same, TabFields
    <2> HIDE DEF tab
    <2> QED BY <1>4, <2>1, <2>2
<1>9. CASE Save(t)
    <2> DEFINE sent == Parsed(tabs[t].form, tabs[t].data)
               tab == [tabs[t] EXCEPT !.data = sent, !.form = sent, !.has = tabs[t].loaded.has,
                                      !.modal = TRUE]
    <2>1. tabs' = [tabs EXCEPT ![t] = tab]
        <3> HIDE DEF sent
        <3>1. tabs' = [tabs EXCEPT ![t].data = sent, ![t].form = sent, ![t].has = tabs[t].loaded.has,
                                   ![t].modal = TRUE]
            BY <1>9 DEF Save, sent
        <3> QED BY <3>1
    <2>2. TabKept(tab)
        BY <1>0, SaveKept
    <2> HIDE DEF tab
    <2> QED BY <1>3, <2>1, <2>2
<1>10. ASSUME NEW enabled, Apply(t, enabled)
       PROVE  KeptInv'
    <2> DEFINE tab == [tabs[t] EXCEPT !.modal = TRUE]
    <2>1. tabs' = [tabs EXCEPT ![t] = tab]
        BY <1>10 DEF Apply
    <2>2. Same(tabs[t], tab)
        BY <1>0 DEF Same, TabFields
    <2> HIDE DEF tab
    <2> QED BY <1>4, <2>1, <2>2
<1>11. ASSUME NEW button, Press(t, button)
       PROVE  KeptInv'
    <2> DEFINE tab == [tabs[t] EXCEPT !.busy = @ \cup {button}]
    <2>1. tabs' = [tabs EXCEPT ![t] = tab]
        BY <1>11 DEF Press
    <2>2. Same(tabs[t], tab)
        BY <1>0 DEF Same, TabFields
    <2> HIDE DEF tab
    <2> QED BY <1>4, <2>1, <2>2
<1>12. CASE User(t)
    BY <1>6, <1>7, <1>8, <1>9, <1>10, <1>11, <1>12 DEF User
<1>13. CASE ConfigureDone(t)
    <2>1. tabs' = [tabs EXCEPT ![t] = [Forgotten(tabs[t]) EXCEPT !.modal = FALSE]]
        BY <1>13 DEF ConfigureDone
    <2> QED BY <1>0, <1>3, <2>1, ForgottenKept
<1>14. CASE ScanDone(t) \/ \E kind \in Commands : CommandFailed(t, kind)
    <2>1. PICK kind : tabs' = [tabs EXCEPT ![t] = Ended(tabs[t], kind)]
        BY <1>14 DEF ScanDone, CommandFailed
    <2> QED BY <1>0, <1>4, <2>1, EndedSame
<1>15. ASSUME NEW kind \in Reads, Refresh(t, kind)
       PROVE  KeptInv'
    <2>1. PICK answer : tabs' = [tabs EXCEPT ![t] = Ended(Rendered(tabs[t], answer), kind)]
        BY <1>15 DEF Refresh
    <2>2. Same(tabs[t], Rendered(tabs[t], answer))
        BY <1>0, RenderedSame
    <2>3. Same(Rendered(tabs[t], answer), Ended(Rendered(tabs[t], answer), kind))
        BY <1>0, <2>2, EndedSame DEF Same
    <2>4. Same(tabs[t], Ended(Rendered(tabs[t], answer), kind))
        BY <2>2, <2>3 DEF Same
    <2> QED BY <1>4, <2>1, <2>4
<1>16. CASE Poll(t) \/ ClusterDone(t) \/ ActionDone(t)
    BY <1>5, <1>16 DEF Poll, ClusterDone, ActionDone
<1> QED BY <1>12, <1>13, <1>14, <1>15, <1>16 DEF HandleCommand

LEMMA GiveUpKept ==
    ASSUME KeptInv, IInv', NEW i \in DOMAIN queue, GiveUp(i)
    PROVE  KeptInv'
<1> DEFINE c == queue[i]
<1>1. c.tab \in Tabs
    <2>1. c.tab # NoTab
        BY DEF GiveUp
    <2>2. PICK A, L : queue \in Seq(Calls(A, L))
        BY DEF KeptInv, IInv
    <2>3. c \in Calls(A, L)
        BY <2>2
    <2>4. c.tab \in Tabs \cup {NoTab}
        BY <2>3 DEF Calls
    <2> QED BY <2>1, <2>4
<1>2. /\ tabs' = [tabs EXCEPT ![c.tab] = Ended(tabs[c.tab], c.kind)]
      /\ UNCHANGED ap
    BY DEF GiveUp
<1> HIDE DEF c
<1>3. TabKept(Ended(tabs[c.tab], c.kind))
    BY <1>1, EndedSame, SameKept DEF KeptInv, TabKept
<1> QED BY <1>1, <1>2, <1>3, OneTab DEF KeptInv

LEMMA NextKept == KeptInv /\ [Next]_vars => KeptInv'
<1> SUFFICES ASSUME KeptInv, [Next]_vars PROVE KeptInv'
    OBVIOUS
<1>1. IInv'
    BY NextSound DEF KeptInv
<1>2. CASE UNCHANGED vars
    BY <1>1, <1>2, SameTabs DEF vars, KeptInv
<1>3. CASE OtherChange
    <2>1. ap' \in AccessPoints /\ UNCHANGED tabs
        BY <1>3, AccessPointAssumption DEF OtherChange
    <2> QED BY <1>1, <2>1, GivenShape, SameTabs
<1>4. CASE Serve \/ ServeFails
    BY <1>1, <1>4, ServeShape, SameTabs
<1> QED BY <1>1, <1>2, <1>3, <1>4, TabStepKept, GiveUpKept DEF Next

LEMMA InitKept == Init => KeptInv
<1> SUFFICES ASSUME Init PROVE KeptInv
    OBVIOUS
<1>1. ApShape(ap)
    BY GivenShape, AccessPointAssumption DEF Init
<1>2. PICK page \in [Tabs -> Pages] : tabs = [t \in Tabs |-> Page(page[t], StatusOf(ap))]
    BY DEF Init
<1>3. \A t \in Tabs : TabKept(tabs[t])
    BY <1>1, <1>2, PageKept
<1> QED BY <1>1, <1>2, <1>3, InitSound DEF KeptInv

(* Of all that is done, only Save hands rpcd a profile.                     *)
LEMMA OnlySaveAsks ==
    ASSUME IInv, Next, Len(queue') > Len(queue), queue'[Len(queue')].kind = "configure"
    PROVE  \E t \in Tabs : /\ Save(t) /\ queue'[Len(queue')].tab = t
                           /\ queue'[Len(queue')].args = Parsed(tabs[t].form, tabs[t].data)
<1>0. PICK A, L : queue \in Seq(Calls(A, L))
    BY DEF IInv
<1>1. Len(queue) \in Nat /\ DOMAIN queue = 1..Len(queue)
    BY <1>0
<1>2. ASSUME NEW t, NEW kind, NEW args, Ask(t, kind, args)
      PROVE  queue'[Len(queue')] = Call(t, kind, args)
    <2> DEFINE c == Call(t, kind, args)
    <2>1. queue' = Append(queue, c)
        BY <1>2 DEF Ask
    <2> HIDE DEF c
    <2>2. Len(queue') = Len(queue) + 1 /\ queue'[Len(queue) + 1] = c
        BY <1>0, <2>1
    <2> QED BY <2>2 DEF c
<1>3. ASSUME NEW t, NEW kind, NEW args, Ask(t, kind, args)
      PROVE  kind = "configure"
    <2>1. queue'[Len(queue')] = Call(t, kind, args)
        BY <1>2, <1>3
    <2>2. Call(t, kind, args).kind = kind
        BY DEF Call
    <2> QED BY <2>1, <2>2
<1>4. queue' # queue
    BY <1>1
<1>5. \A f : queue' # [i \in DOMAIN queue |-> f[i]]
    BY <1>1
<1>6. ~\E answer : Reply(answer) /\ queue # <<>>
    BY <1>0, <1>1 DEF Reply
<1>7. ~Serve /\ ~ServeFails
    BY <1>6 DEF Serve, ServeFails, ServeConfigure, ServeCluster, ServeStatus, ServeAction, Turn
<1>8. ASSUME NEW i \in DOMAIN queue, GiveUp(i)
      PROVE  FALSE
    <2> DEFINE f == [j \in DOMAIN queue |-> IF j = i THEN [queue[i] EXCEPT !.tab = NoTab] ELSE queue[j]]
    <2>1. queue' = [j \in DOMAIN queue |-> f[j]]
        BY <1>1, <1>8 DEF GiveUp
    <2> QED BY <1>5, <2>1
<1>9. ASSUME NEW t \in Tabs, NEW page \in Pages, Open(t, page)
      PROVE  FALSE
    <2> DEFINE f == [i \in DOMAIN queue |-> IF queue[i].tab = t THEN [queue[i] EXCEPT !.tab = NoTab] ELSE queue[i]]
    <2>1. queue' = [i \in DOMAIN queue |-> f[i]]
        BY <1>1, <1>9 DEF Open
    <2> QED BY <1>5, <2>1
<1>10. ASSUME NEW t \in Tabs,
              Poll(t) \/ HandleCommand(t) \/ \E kind \in Reads : Refresh(t, kind)
       PROVE  FALSE
    BY <1>3, <1>4, <1>10
       DEF Poll, HandleCommand, Refresh, ConfigureDone, ClusterDone, ActionDone, ScanDone,
           CommandFailed, Then
<1>11. ASSUME NEW t \in Tabs, User(t)
       PROVE  Save(t)
    BY <1>3, <1>4, <1>9, <1>11 DEF User, Edit, Type, Apply, Press, Buttons
<1>12. PICK t \in Tabs : Save(t)
    BY <1>4, <1>7, <1>8, <1>10, <1>11 DEF Next, OtherChange
<1>13. Ask(t, "configure", Parsed(tabs[t].form, tabs[t].data))
    BY <1>12 DEF Save
<1>14. queue'[Len(queue')] = Call(t, "configure", Parsed(tabs[t].form, tabs[t].data))
    BY <1>2, <1>13
<1> QED BY <1>12, <1>14 DEF Call

(* An option that nobody has touched is sent as it was loaded, shown or     *)
(* hidden, however often the page saves and its calls fail.                 *)
THEOREM UntouchedSent == Spec => UntouchedKept
<1>1. KeptInv /\ [Next]_vars =>
        [\A t \in Tabs :
            (Len(queue') > Len(queue) /\ queue'[Len(queue')].tab = t /\ queue'[Len(queue')].kind = "configure")
            => LET sent == queue'[Len(queue')].args IN
               \A g \in DOMAIN ProfileKeys : \A k \in ProfileKeys[g] :
                   <<g, k>> \notin tabs[t].touched => sent[g][k] = tabs[t].loaded.profile[g][k]]_vars
    <2> SUFFICES ASSUME KeptInv, Next, NEW t \in Tabs,
                        Len(queue') > Len(queue), queue'[Len(queue')].tab = t,
                        queue'[Len(queue')].kind = "configure",
                        NEW g \in DOMAIN ProfileKeys, NEW k \in ProfileKeys[g],
                        <<g, k>> \notin tabs[t].touched
                 PROVE  queue'[Len(queue')].args[g][k] = tabs[t].loaded.profile[g][k]
        OBVIOUS
    <2>1. queue'[Len(queue')].args = Parsed(tabs[t].form, tabs[t].data)
        BY OnlySaveAsks DEF KeptInv
    <2> QED BY <2>1, SentKept DEF KeptInv
<1> QED BY InitKept, NextKept, <1>1, PTL DEF Spec, UntouchedKept

-----------------------------------------------------------------------------
(* Every variable keeps its range.  That the access point does rests on    *)
(* what waits in the queue, and that on the forms.                         *)

Typed(form) == DOMAIN form = DOMAIN Keys /\ \A g \in DOMAIN Keys : form[g] \in [Keys[g] -> Values[g]]
Sendable(data) == Typed(data) /\ \A b \in Bss : data.password[b] # "malformed"

TabTyped(tab) ==
    /\ tab.page \in Pages /\ tab.loaded \in Statuses
    /\ tab.shown \in Statuses \/ (tab.page = "wireless" /\ tab.shown = Failed)
    /\ tab.busy \subseteq Buttons
    /\ Typed(tab.form) /\ Sendable(tab.data)
CallTyped(c) ==
    /\ c.kind = "configure" => Sendable(c.args)
    /\ c.kind = "configure_cluster" => c.args \in Members
AnswerTyped(a) ==
    a.tab \in Tabs /\ a.kind \in Kinds /\ (a.kind \in Reads => a.answer \in Statuses \cup {Failed})

CallsTyped == \A i \in DOMAIN queue : CallTyped(queue[i])
AnswersTyped == \A a \in answers : AnswerTyped(a)
TypeInv ==
    /\ KeptInv /\ ap \in AccessPoints
    /\ (\A t \in Tabs : TabTyped(tabs[t])) /\ CallsTyped /\ AnswersTyped

LEMMA ValuesOf ==
    /\ DOMAIN Values = DOMAIN Keys
    /\ Values["on"] = BOOLEAN /\ Values["ft"] = BOOLEAN /\ Values["flag"] = BOOLEAN
    /\ Values["text"] = Texts /\ Values["security"] = Modes /\ Values["mfp"] = {"0", "1", "2"}
    /\ Values["channel"] = Channels /\ Values["list"] = Widths \cup Countries /\ Values["number"] = Int
    /\ Values["password"] = {"", "old", "new", "malformed"} /\ Values["target"] = Scopes
<1>1. \A g \in {"on", "text", "security", "mfp", "ft", "channel", "flag", "list", "number",
                "password", "target"} : g \in DOMAIN Keys
    BY KeysOf
<1>2. DOMAIN Values = DOMAIN Keys
    BY DEF Values
<1>3. Values["on"] = BOOLEAN /\ Values["ft"] = BOOLEAN /\ Values["flag"] = BOOLEAN
    BY <1>1 DEF Values
<1>4. Values["text"] = Texts /\ Values["security"] = Modes /\ Values["mfp"] = {"0", "1", "2"}
    BY <1>1 DEF Values
<1>5. Values["channel"] = Channels /\ Values["list"] = Widths \cup Countries /\ Values["number"] = Int
    BY <1>1 DEF Values
<1>6. Values["password"] = {"", "old", "new", "malformed"} /\ Values["target"] = Scopes
    BY <1>1 DEF Values
<1> QED BY <1>2, <1>3, <1>4, <1>5, <1>6

(* Profiles, group by group.                                               *)
LEMMA ProfileGroups ==
    ASSUME NEW p \in Profiles
    PROVE  \A g \in DOMAIN ProfileKeys : p[g] \in [ProfileKeys[g] -> Values[g]]
<1>1. \A g \in {"on", "text", "security", "mfp", "ft", "channel", "flag", "list", "number"} :
          p[g] \in [ProfileKeys[g] -> Values[g]]
    BY KeysOf, ValuesOf DEF Profiles
<1> QED BY <1>1, KeysOf

LEMMA ProfileOfForm ==
    ASSUME NEW form, Typed(form)
    PROVE  Profile(form) \in Profiles
<1> DEFINE p == Profile(form)
<1>1. \A g \in DOMAIN ProfileKeys : g \in DOMAIN Keys /\ p[g] = form[g] /\ Keys[g] = ProfileKeys[g]
    BY KeysOf DEF Profile
<1>2. \A g \in DOMAIN ProfileKeys : p[g] \in [ProfileKeys[g] -> Values[g]]
    BY <1>1 DEF Typed
<1>3. p = [g \in {"on", "text", "security", "mfp", "ft", "channel", "flag", "list", "number"} |-> p[g]]
    BY KeysOf DEF Profile
<1> HIDE DEF p
<1>4. /\ p.on \in [Bss -> BOOLEAN] /\ p.text \in [Bss -> Texts] /\ p.security \in [Bss -> Modes]
      /\ p.mfp \in [Bss -> {"0", "1", "2"}] /\ p.ft \in [Bss -> BOOLEAN]
      /\ p.channel \in [Radios -> Channels] /\ p.flag \in [Flags -> BOOLEAN]
      /\ p.list \in [{"width_5g", "country"} -> Widths \cup Countries]
      /\ p.number \in [INT_FIELDS -> Int]
    BY <1>2, KeysOf, ValuesOf
<1> QED BY <1>3, <1>4 DEF Profiles, p

(* What hostapd fixes anyway leaves a profile.                             *)
LEMMA NormalizedTyped == ASSUME NEW p \in Profiles PROVE Normalized(p) \in Profiles
<1> DEFINE on == [p.on EXCEPT !["5g_legacy"] = p.on["5g_legacy"] /\ p.on["5g"]]
           mfp == [b \in Bss |-> CASE p.security[b] = "open" -> "0"
                                   [] p.security[b] = "wpa3" -> "2"
                                   [] p.security[b] = "wpa2-wpa3" -> "1"
                                   [] OTHER -> p.mfp[b]]
           ft == [b \in Bss |-> p.ft[b] /\ p.security[b] # "open"]
<1>1. p.on \in [Bss -> BOOLEAN] /\ p.mfp \in [Bss -> {"0", "1", "2"}] /\ p.ft \in [Bss -> BOOLEAN]
    BY DEF Profiles
<1>2. on \in [Bss -> BOOLEAN]
    BY <1>1 DEF Bss
<1>3. mfp \in [Bss -> {"0", "1", "2"}]
    BY <1>1
<1>4. ft \in [Bss -> BOOLEAN]
    OBVIOUS
<1>5. Normalized(p) = [p EXCEPT !.on = on, !.mfp = mfp, !.ft = ft]
    BY DEF Normalized
<1> HIDE DEF on, mfp, ft
<1> QED BY <1>2, <1>3, <1>4, <1>5 DEF Profiles

(* What Save sends: inputs that have passed, or what was there.            *)
LEMMA SentTyped ==
    ASSUME NEW form, NEW data, NEW has, Typed(form), Sendable(data), PageAccepts(form, has)
    PROVE  Sendable(Parsed(form, data))
<1> DEFINE sent == Parsed(form, data)
<1>1. DOMAIN sent = DOMAIN Keys /\ \A g \in DOMAIN Keys : sent[g] = [k \in Keys[g] |-> sent[g][k]]
    BY DEF Parsed
<1>2. \A g \in DOMAIN Keys : \A k \in Keys[g] : sent[g][k] \in {form[g][k], data[g][k]}
    BY ParsedIs
<1>3. \A g \in DOMAIN Keys : \A k \in Keys[g] : form[g][k] \in Values[g] /\ data[g][k] \in Values[g]
    BY DEF Typed, Sendable
<1>4. ASSUME NEW b \in Bss PROVE sent["password"][b] # "malformed"
    <2>1. "password" \in DOMAIN Keys /\ b \in Keys["password"]
        BY KeysOf
    <2>2. CASE Shown(form, "password", b)
        <3>1. form.password[b] # "malformed"
            BY <2>1, <2>2 DEF PageAccepts, Valid, ValidPassword
        <3> QED BY <2>1, <2>2, <3>1, ParsedIs
    <2>3. CASE ~Shown(form, "password", b)
        BY <2>1, <2>3, ParsedIs DEF Sendable
    <2> QED BY <2>2, <2>3
<1> HIDE DEF sent
<1>5. ASSUME NEW g \in DOMAIN Keys PROVE sent[g] \in [Keys[g] -> Values[g]]
    <2>1. \A k \in Keys[g] : sent[g][k] \in Values[g]
        BY <1>2, <1>3
    <2> QED BY <1>1, <2>1
<1> QED BY <1>1, <1>4, <1>5 DEF Sendable, Typed, sent

(* What a page is built from.                                              *)
LEMMA StatusTyped == ASSUME NEW a \in AccessPoints PROVE StatusOf(a) \in Statuses
BY DEF AccessPoints, StatusOf, Statuses

LEMMA PageTyped ==
    ASSUME NEW page \in Pages, NEW status \in Statuses
    PROVE  TabTyped(Page(page, status))
<1> DEFINE data == NormalizeFormData(status.profile, ScopeOf(status))
           tab == Page(page, status)
<1>1. status.profile \in Profiles
    BY DEF Statuses
<1>2. DOMAIN data = DOMAIN Keys /\ data["password"] = [b \in Bss |-> ""]
      /\ data["target"] \in [{"scope"} -> Scopes]
    BY KeysOf DEF NormalizeFormData, Scopes
<1>3. \A g \in DOMAIN ProfileKeys : g \in DOMAIN Keys /\ data[g] = status.profile[g]
    BY KeysOf DEF NormalizeFormData
<1>4. /\ tab.page = page /\ tab.loaded = status /\ tab.shown = status /\ tab.busy = {}
      /\ tab.form = data /\ tab.data = data
    BY DEF Page
<1> HIDE DEF data, tab
<1>5. \A g \in DOMAIN ProfileKeys : data[g] \in [Keys[g] -> Values[g]]
    BY <1>1, <1>3, ProfileGroups, KeysOf
<1>6. data["password"] \in [Keys["password"] -> Values["password"]]
      /\ data["target"] \in [Keys["target"] -> Values["target"]]
    BY <1>2, KeysOf, ValuesOf
<1>7. Sendable(data)
    BY <1>2, <1>5, <1>6, KeysOf DEF Sendable, Typed
<1>8. Typed(data)
    BY <1>7 DEF Sendable
<1> QED BY <1>4, <1>7, <1>8 DEF TabTyped, tab

(* Calls join the queue, leave it, and lose their tab.                      *)
LEMMA AskTyped ==
    ASSUME IInv, CallsTyped, NEW t, NEW kind, NEW args,
           Ask(t, kind, args), CallTyped(Call(t, kind, args))
    PROVE  CallsTyped'
<1>1. PICK A, L : queue \in Seq(Calls(A, L))
    BY DEF IInv
<1> DEFINE c == Call(t, kind, args)
<1>2. queue' = Append(queue, c)
    BY DEF Ask
<1>3. CallTyped(c)
    OBVIOUS
<1> HIDE DEF c
<1>4. /\ \A i \in DOMAIN queue : queue'[i] = queue[i]
      /\ \A i \in DOMAIN queue' : i \in DOMAIN queue \/ queue'[i] = c
    BY <1>1, <1>2
<1> QED BY <1>3, <1>4 DEF CallsTyped

LEMMA OtherKindsTyped ==
    ASSUME NEW t, NEW kind, NEW args, kind \notin {"configure", "configure_cluster"}
    PROVE  CallTyped(Call(t, kind, args))
BY DEF CallTyped, Call

(* What rpcd takes out of the queue and what it answers.                   *)
LEMMA ReplyTyped ==
    ASSUME IInv, CallsTyped, AnswersTyped, NEW answer, Reply(answer), queue # <<>>,
           Head(queue).kind \in Reads => answer \in Statuses \cup {Failed}
    PROVE  CallsTyped' /\ AnswersTyped'
<1>1. PICK A, L : queue \in Seq(Calls(A, L))
    BY DEF IInv
<1>2. queue' \in Seq(Calls(A, L)) /\ \A i \in DOMAIN queue' : i + 1 \in DOMAIN queue /\ queue'[i] = queue[i + 1]
    BY <1>1 DEF Reply
<1>3. Head(queue) \in Calls(A, L)
    BY <1>1
<1> DEFINE c == Head(queue)
           a == [tab |-> c.tab, kind |-> c.kind, answer |-> answer]
<1>4. c.tab \in Tabs \cup {NoTab} /\ c.kind \in Kinds
    BY <1>3 DEF Calls
<1>5. c.tab # NoTab => AnswerTyped(a)
    BY <1>4 DEF AnswerTyped
<1>6. answers' = answers \/ (c.tab # NoTab /\ answers' = answers \cup {a})
    BY DEF Reply
<1> HIDE DEF a, c
<1>7. AnswersTyped'
    BY <1>5, <1>6 DEF AnswersTyped
<1> QED BY <1>2, <1>7 DEF CallsTyped

LEMMA ForgetTyped ==
    ASSUME IInv, CallsTyped, NEW D,
           queue' = [i \in DOMAIN queue |-> IF i \in D THEN [queue[i] EXCEPT !.tab = NoTab] ELSE queue[i]]
    PROVE  CallsTyped'
<1>1. PICK A, L : queue \in Seq(Calls(A, L))
    BY DEF IInv
<1>2. ASSUME NEW i \in DOMAIN queue
      PROVE  queue'[i].kind = queue[i].kind /\ queue'[i].args = queue[i].args
    <2>1. queue[i] \in Calls(A, L)
        BY <1>1
    <2> QED BY <2>1 DEF Calls
<1>3. DOMAIN queue' = DOMAIN queue
    OBVIOUS
<1> QED BY <1>2, <1>3 DEF CallsTyped, CallTyped

(* One tab changes.                                                        *)
LEMMA OneTabTyped ==
    ASSUME DOMAIN tabs = Tabs, \A u \in Tabs : TabTyped(tabs[u]),
           NEW t \in Tabs, NEW tab, tabs' = [tabs EXCEPT ![t] = tab], TabTyped(tab)
    PROVE  \A u \in Tabs : TabTyped(tabs'[u])
<1>1. tabs'[t] = tab /\ \A u \in Tabs \ {t} : tabs'[u] = tabs[u]
    OBVIOUS
<1> QED BY <1>1

(* An input takes a value of its option.                                   *)
LEMMA EditTyped ==
    ASSUME NEW form, Typed(form), NEW g \in DOMAIN Keys, NEW k \in Keys[g], NEW value \in Values[g]
    PROVE  Typed([form EXCEPT ![g] = [form[g] EXCEPT ![k] = value]])
<1> DEFINE options == [form[g] EXCEPT ![k] = value]
           other == [form EXCEPT ![g] = options]
<1>1. options \in [Keys[g] -> Values[g]]
    BY DEF Typed
<1> HIDE DEF options
<1>2. DOMAIN other = DOMAIN Keys /\ \A h \in DOMAIN Keys : other[h] = IF h = g THEN options ELSE form[h]
    BY DEF Typed
<1> HIDE DEF other
<1>3. Typed(other)
    BY <1>1, <1>2 DEF Typed
<1> QED BY <1>3 DEF other, options

LEMMA NoPasswordsTyped ==
    ASSUME NEW form, Typed(form)
    PROVE  Sendable(NoPasswords(form))
<1> DEFINE other == NoPasswords(form)
<1>1. "password" \in DOMAIN Keys /\ Keys["password"] = Bss
      /\ Values["password"] = {"", "old", "new", "malformed"}
    BY KeysOf, ValuesOf
<1>2. /\ DOMAIN other = DOMAIN Keys
      /\ \A g \in DOMAIN Keys : other[g] = IF g = "password" THEN [b \in Bss |-> ""] ELSE form[g]
    BY DEF NoPasswords, Typed
<1> HIDE DEF other
<1>3. [b \in Bss |-> ""] \in [Keys["password"] -> Values["password"]]
    BY <1>1
<1>4. Typed(other)
    BY <1>2, <1>3 DEF Typed
<1>5. \A b \in Bss : other["password"][b] = ""
    BY <1>1, <1>2
<1> QED BY <1>4, <1>5 DEF Sendable, other

(* A command ends, a status is drawn.                                      *)
LEMMA EndedTyped ==
    ASSUME NEW tab, DOMAIN tab = TabFields, TabTyped(tab), NEW kind
    PROVE  TabTyped(Ended(tab, kind))
<1>1. {"page", "loaded", "data", "form", "shown", "modal", "busy"} \subseteq DOMAIN tab
    BY DEF TabFields
<1>2. ASSUME NEW x PROVE TabTyped([tab EXCEPT !.modal = x])
    BY <1>1 DEF TabTyped
<1>3. ASSUME NEW x, x \subseteq Buttons PROVE TabTyped([tab EXCEPT !.busy = x])
    BY <1>1, <1>3 DEF TabTyped
<1>4. tab.busy \ {kind} \subseteq Buttons /\ tab.busy \ {"action"} \subseteq Buttons
    BY DEF TabTyped
<1> QED BY <1>2, <1>3, <1>4 DEF Ended

LEMMA RenderedTyped ==
    ASSUME NEW tab, DOMAIN tab = TabFields, TabTyped(tab), NEW answer \in Statuses \cup {Failed}
    PROVE  TabTyped(Rendered(tab, answer))
<1>1. {"page", "loaded", "data", "form", "shown", "typed", "busy"} \subseteq DOMAIN tab
    BY DEF TabFields
<1>2. CASE tab.page # "cluster"
    <2>1. tab.page = "wireless"
        BY <1>2 DEF TabTyped, Pages
    <2> QED BY <1>1, <1>2, <2>1 DEF TabTyped, Rendered
<1>3. CASE tab.page = "cluster"
    <2> DEFINE status == IF answer = Failed THEN Standalone(tab.shown) ELSE answer
    <2>1. tab.shown \in Statuses
        BY <1>3 DEF TabTyped
    <2>2. Standalone(tab.shown) \in Statuses
        BY <2>1 DEF Standalone, Statuses, Members
    <2>3. status \in Statuses
        BY <2>2
    <2>4. Rendered(tab, answer) = [tab EXCEPT !.shown = status, !.typed = Fields(status)]
        BY <1>3 DEF Rendered, RenderedCluster
    <2> HIDE DEF status
    <2> QED BY <1>1, <2>3, <2>4 DEF TabTyped
<1> QED BY <1>2, <1>3

(* What is sent and accepted becomes the access point's.                    *)
LEMMA SecretsTyped ==
    ASSUME NEW form, Sendable(form), NEW secret \in [Bss -> {"", "old", "new"}]
    PROVE  Secrets(form, secret) \in [Bss -> {"", "old", "new"}]
<1>1. form["password"] \in [Bss -> {"", "old", "new", "malformed"}]
    BY KeysOf, ValuesOf DEF Sendable, Typed
<1>2. \A b \in Bss : form["password"][b] # "malformed"
    BY DEF Sendable
<1>3. \A b \in Bss : form["password"][b] \in {"", "old", "new"}
    BY <1>1, <1>2
<1> QED BY <1>3 DEF Secrets

LEMMA ServeTyped ==
    ASSUME TypeInv, Serve \/ ServeFails
    PROVE  ap' \in AccessPoints /\ UNCHANGED tabs /\ CallsTyped' /\ AnswersTyped'
<1>0. IInv /\ CallsTyped /\ AnswersTyped /\ ap \in AccessPoints
    BY DEF TypeInv, KeptInv
<1>1. ASSUME queue # <<>>
      PROVE  CallTyped(Head(queue))
    <2>1. 1 \in DOMAIN queue /\ Head(queue) = queue[1]
        BY <1>0, <1>1 DEF IInv
    <2> QED BY <1>0, <2>1 DEF CallsTyped
<1>2. ASSUME NEW answer, Reply(answer), queue # <<>>,
             Head(queue).kind \in Reads => answer \in Statuses \cup {Failed}
      PROVE  UNCHANGED tabs /\ CallsTyped' /\ AnswersTyped'
    <2>1. UNCHANGED tabs
        BY <1>2 DEF Reply
    <2> QED BY <1>0, <1>2, <2>1, ReplyTyped
<1>3. CASE ServeConfigure
    <2> DEFINE form == Head(queue).args
               profile == Normalized(Profile(form))
               secret == Secrets(form, ap.secret)
    <2>1. queue # <<>> /\ Head(queue).kind = "configure" /\ Head(queue).kind \notin Reads
        BY <1>3 DEF ServeConfigure, Turn, Reads
    <2>2. Reply(Done) \/ Reply(Failed)
        BY <1>3 DEF ServeConfigure
    <2>3. Sendable(form)
        BY <1>1, <2>1 DEF CallTyped
    <2>4. ap' = ap \/ ap' = [ap EXCEPT !.profile = profile, !.secret = secret]
        BY <1>3 DEF ServeConfigure
    <2> HIDE DEF form
    <2>5. profile \in Profiles
        BY <2>3, ProfileOfForm, NormalizedTyped DEF Sendable
    <2>6. secret \in [Bss -> {"", "old", "new"}]
        BY <1>0, <2>3, SecretsTyped DEF AccessPoints
    <2> HIDE DEF profile, secret
    <2>7. ap' \in AccessPoints
        BY <1>0, <2>4, <2>5, <2>6 DEF AccessPoints
    <2> QED BY <1>2, <2>1, <2>2, <2>7
<1>4. CASE ServeCluster
    <2>1. queue # <<>> /\ Head(queue).kind = "configure_cluster" /\ Head(queue).kind \notin Reads
        BY <1>4 DEF ServeCluster, Turn, Reads
    <2>2. Head(queue).args \in Members
        BY <1>1, <2>1 DEF CallTyped
    <2>3. ap' = [ap EXCEPT !.member = Head(queue).args] /\ Reply(Done)
        BY <1>4 DEF ServeCluster
    <2>4. ap' \in AccessPoints
        BY <1>0, <2>2, <2>3 DEF AccessPoints
    <2> QED BY <1>2, <2>1, <2>3, <2>4
<1>5. CASE ServeStatus
    <2>1. queue # <<>> /\ Reply(StatusOf(ap)) /\ UNCHANGED ap
        BY <1>5 DEF ServeStatus, Turn
    <2>2. StatusOf(ap) \in Statuses
        BY <1>0, StatusTyped
    <2> QED BY <1>0, <1>2, <2>1, <2>2
<1>6. CASE ServeAction
    <2>1. queue # <<>> /\ Reply(Done) /\ UNCHANGED ap /\ Head(queue).kind \notin Reads
        BY <1>6 DEF ServeAction, Turn, Buttons, Reads
    <2> QED BY <1>0, <1>2, <2>1
<1>7. CASE ServeFails
    <2>1. queue # <<>> /\ Reply(Failed) /\ UNCHANGED ap
        BY <1>7 DEF ServeFails
    <2> QED BY <1>0, <1>2, <2>1
<1> QED BY <1>3, <1>4, <1>5, <1>6, <1>7 DEF Serve

(* The answers that remain when one has been taken, or a tab's are gone.    *)
LEMMA FewerAnswers == AnswersTyped /\ answers' \subseteq answers => AnswersTyped'
BY DEF AnswersTyped

(* What users do.                                                          *)
LEMMA UserTyped ==
    ASSUME TypeInv, NEW t \in Tabs, User(t)
    PROVE  UNCHANGED ap /\ (\A u \in Tabs : TabTyped(tabs'[u])) /\ CallsTyped' /\ AnswersTyped'
<1>0. /\ IInv /\ CallsTyped /\ AnswersTyped /\ ap \in AccessPoints
      /\ DOMAIN tabs = Tabs /\ (\A u \in Tabs : TabTyped(tabs[u]))
      /\ DOMAIN tabs[t] = TabFields
    BY DEF TypeInv, KeptInv, TabKept
<1>1. UNCHANGED ap
    BY DEF User, Open, Edit, Type, Save, Apply, Press
<1>2. AnswersTyped'
    BY <1>0, FewerAnswers DEF User, Open, Edit, Type, Save, Apply, Press
<1>3. ASSUME NEW tab, tabs' = [tabs EXCEPT ![t] = tab], TabTyped(tab)
      PROVE  \A u \in Tabs : TabTyped(tabs'[u])
    BY <1>0, <1>3, OneTabTyped
<1>4. UNCHANGED queue => CallsTyped'
    BY <1>0 DEF CallsTyped
<1>5. {"page", "loaded", "data", "form", "shown", "typed", "busy", "has", "modal", "touched"} \subseteq DOMAIN tabs[t]
    BY <1>0 DEF TabFields
<1>6. ASSUME NEW page \in Pages, Open(t, page)
      PROVE  (\A u \in Tabs : TabTyped(tabs'[u])) /\ CallsTyped'
    <2> DEFINE D == {i \in DOMAIN queue : queue[i].tab = t}
    <2>1. queue' = [i \in DOMAIN queue |-> IF i \in D THEN [queue[i] EXCEPT !.tab = NoTab] ELSE queue[i]]
        BY <1>6 DEF Open
    <2>2. CallsTyped'
        BY <1>0, <2>1, ForgetTyped
    <2>3. StatusOf(ap) \in Statuses
        BY <1>0, StatusTyped
    <2>4. tabs' = [tabs EXCEPT ![t] = Page(page, StatusOf(ap))]
        BY <1>6 DEF Open
    <2>5. TabTyped(Page(page, StatusOf(ap)))
        BY <2>3, PageTyped
    <2> QED BY <1>3, <2>2, <2>4, <2>5
<1>7. ASSUME NEW e \in Edits, Edit(t, e[1], e[2], e[3])
      PROVE  (\A u \in Tabs : TabTyped(tabs'[u])) /\ CallsTyped'
    <2> DEFINE g == e[1]  k == e[2]  value == e[3]
               form == [tabs[t].form EXCEPT ![g] = [tabs[t].form[g] EXCEPT ![k] = value]]
               tab == [tabs[t] EXCEPT !.form = form, !.touched = tabs[t].touched \cup {<<g, k>>}]
    <2>1. tabs' = [tabs EXCEPT ![t] = tab] /\ UNCHANGED queue
        BY <1>7 DEF Edit
    <2>2. Typed(form)
        BY <1>0, EditTyped, EditsAssumption DEF TabTyped
    <2> HIDE DEF form
    <2>3. TabTyped(tab)
        BY <1>0, <1>5, <2>2 DEF TabTyped
    <2> HIDE DEF tab
    <2> QED BY <1>3, <1>4, <2>1, <2>3
<1>8. ASSUME NEW field, NEW value, Type(t, field, value)
      PROVE  (\A u \in Tabs : TabTyped(tabs'[u])) /\ CallsTyped'
    <2> DEFINE tab == [tabs[t] EXCEPT !.typed = [@ EXCEPT ![field] = value]]
    <2>1. tabs' = [tabs EXCEPT ![t] = tab] /\ UNCHANGED queue
        BY <1>8 DEF Type
    <2>2. TabTyped(tab)
        BY <1>0, <1>5 DEF TabTyped
    <2> HIDE DEF tab
    <2> QED BY <1>3, <1>4, <2>1, <2>2
<1>9. CASE Save(t)
    <2> DEFINE sent == Parsed(tabs[t].form, tabs[t].data)
               tab == [tabs[t] EXCEPT !.data = sent, !.form = sent, !.has = tabs[t].loaded.has,
                                      !.modal = TRUE]
    <2>1. Sendable(sent)
        BY <1>0, <1>9, SentTyped DEF Save, TabTyped
    <2>2. Ask(t, "configure", sent)
        BY <1>9 DEF Save
    <2>3. tabs' = [tabs EXCEPT ![t].data = sent, ![t].form = sent, ![t].has = tabs[t].loaded.has,
                               ![t].modal = TRUE]
        BY <1>9 DEF Save
    <2> HIDE DEF sent
    <2>4. CallTyped(Call(t, "configure", sent))
        BY <2>1 DEF CallTyped, Call
    <2>5. CallsTyped'
        BY <1>0, <2>2, <2>4, AskTyped
    <2>6. TabTyped(tab)
        BY <1>0, <1>5, <2>1 DEF TabTyped, Sendable
    <2>7. tabs' = [tabs EXCEPT ![t] = tab]
        BY <2>3
    <2> HIDE DEF tab
    <2>8. \A u \in Tabs : TabTyped(tabs'[u])
        BY <1>3, <2>6, <2>7
    <2> QED BY <1>1, <1>2, <2>5, <2>8
<1>10. ASSUME NEW enabled \in BOOLEAN, Apply(t, enabled)
       PROVE  (\A u \in Tabs : TabTyped(tabs'[u])) /\ CallsTyped'
    <2> DEFINE tab == [tabs[t] EXCEPT !.modal = TRUE]
               args == IF enabled THEN tabs[t].typed.name ELSE "standalone"
    <2>1. tabs' = [tabs EXCEPT ![t] = tab]
        BY <1>10 DEF Apply
    <2>2. args \in Members /\ Ask(t, "configure_cluster", args)
        BY <1>10 DEF Apply, Members
    <2> HIDE DEF args
    <2>3. CallTyped(Call(t, "configure_cluster", args))
        BY <2>2 DEF CallTyped, Call
    <2>4. CallsTyped'
        BY <1>0, <2>2, <2>3, AskTyped
    <2>5. TabTyped(tab)
        BY <1>0, <1>5 DEF TabTyped
    <2> HIDE DEF tab
    <2> QED BY <1>3, <2>1, <2>4, <2>5
<1>11. ASSUME NEW button \in Buttons, Press(t, button)
       PROVE  (\A u \in Tabs : TabTyped(tabs'[u])) /\ CallsTyped'
    <2> DEFINE tab == [tabs[t] EXCEPT !.busy = @ \cup {button}]
    <2>1. tabs' = [tabs EXCEPT ![t] = tab] /\ Ask(t, button, NoArgs)
        BY <1>11 DEF Press
    <2>2. CallsTyped'
        BY <1>0, <2>1, OtherKindsTyped, AskTyped DEF Buttons
    <2>3. TabTyped(tab)
        BY <1>0, <1>5 DEF TabTyped
    <2> HIDE DEF tab
    <2> QED BY <1>3, <2>1, <2>2, <2>3
<1> QED BY <1>1, <1>2, <1>6, <1>7, <1>8, <1>9, <1>10, <1>11 DEF User

(* The callbacks of a page and its timer.                                  *)
LEMMA PageStepTyped ==
    ASSUME TypeInv, NEW t \in Tabs, Poll(t) \/ HandleCommand(t) \/ \E kind \in Reads : Refresh(t, kind)
    PROVE  UNCHANGED ap /\ (\A u \in Tabs : TabTyped(tabs'[u])) /\ CallsTyped' /\ AnswersTyped'
<1>0. /\ IInv /\ CallsTyped /\ AnswersTyped /\ ap \in AccessPoints
      /\ DOMAIN tabs = Tabs /\ (\A u \in Tabs : TabTyped(tabs[u]))
      /\ DOMAIN tabs[t] = TabFields /\ TabTyped(tabs[t])
    BY DEF TypeInv, KeptInv, TabKept
<1>1. ASSUME NEW kinds, NEW answer, Answered(t, kinds, answer)
      PROVE  UNCHANGED ap /\ AnswersTyped'
    BY <1>0, <1>1, FewerAnswers DEF Answered
<1>2. ASSUME NEW tab, tabs' = [tabs EXCEPT ![t] = tab], TabTyped(tab)
      PROVE  \A u \in Tabs : TabTyped(tabs'[u])
    BY <1>0, <1>2, OneTabTyped
<1>3. UNCHANGED queue => CallsTyped'
    BY <1>0 DEF CallsTyped
<1>4. UNCHANGED tabs => \A u \in Tabs : TabTyped(tabs'[u])
    BY <1>0
<1>5. ASSUME NEW kind \in Reads, Ask(t, kind, NoArgs)
      PROVE  CallsTyped'
    <2>1. kind \notin {"configure", "configure_cluster"}
        BY DEF Reads
    <2> QED BY <1>0, <1>5, <2>1, OtherKindsTyped, AskTyped
<1>6. CASE Poll(t)
    <2>1. Ask(t, "poll", NoArgs) /\ "poll" \in Reads /\ UNCHANGED <<ap, tabs, answers>>
        BY <1>6 DEF Poll, Reads
    <2>2. AnswersTyped'
        BY <1>0, <2>1, FewerAnswers
    <2> QED BY <1>4, <1>5, <2>1, <2>2
<1>7. ASSUME NEW kind, NEW next \in Reads, Then(t, kind, next)
      PROVE  UNCHANGED ap /\ AnswersTyped' /\ CallsTyped'
    BY <1>1, <1>5, <1>7 DEF Then
<1>8. CASE ConfigureDone(t)
    <2> DEFINE forgotten == Forgotten(tabs[t])
               tab == [forgotten EXCEPT !.modal = FALSE]
    <2>1. UNCHANGED ap /\ AnswersTyped' /\ CallsTyped'
        BY <1>7, <1>8 DEF ConfigureDone, Reads
    <2>2. tabs' = [tabs EXCEPT ![t] = tab]
        BY <1>8 DEF ConfigureDone
    <2>3. Sendable(NoPasswords(tabs[t].form)) /\ Sendable(NoPasswords(tabs[t].data))
        BY <1>0, NoPasswordsTyped DEF TabTyped, Sendable
    <2>4. /\ tab.page = tabs[t].page /\ tab.loaded = tabs[t].loaded /\ tab.shown = tabs[t].shown
          /\ tab.busy = tabs[t].busy
          /\ tab.form = NoPasswords(tabs[t].form) /\ tab.data = NoPasswords(tabs[t].data)
        BY <1>0 DEF Forgotten, TabFields
    <2> HIDE DEF tab
    <2>5. TabTyped(tab)
        BY <1>0, <2>3, <2>4 DEF TabTyped, Sendable
    <2> QED BY <1>2, <2>1, <2>2, <2>5
<1>9. CASE ClusterDone(t) \/ ActionDone(t)
    BY <1>4, <1>7, <1>9 DEF ClusterDone, ActionDone, Reads
<1>10. CASE ScanDone(t) \/ \E kind \in Commands : CommandFailed(t, kind)
    <2>1. PICK kind : tabs' = [tabs EXCEPT ![t] = Ended(tabs[t], kind)]
        BY <1>10 DEF ScanDone, CommandFailed
    <2>2. TabTyped(Ended(tabs[t], kind))
        BY <1>0, EndedTyped
    <2>3. UNCHANGED <<queue, ap>> /\ AnswersTyped'
        BY <1>1, <1>10 DEF ScanDone, CommandFailed
    <2> QED BY <1>2, <1>3, <2>1, <2>2, <2>3
<1>11. ASSUME NEW kind \in Reads, Refresh(t, kind)
       PROVE  UNCHANGED ap /\ (\A u \in Tabs : TabTyped(tabs'[u])) /\ CallsTyped' /\ AnswersTyped'
    <2>1. PICK s : Answered(t, {kind}, s) /\ tabs' = [tabs EXCEPT ![t] = Ended(Rendered(tabs[t], s), kind)]
        BY <1>11 DEF Refresh
    <2>2. s \in Statuses \cup {Failed}
        BY <1>0, <2>1 DEF Answered, AnswersTyped, AnswerTyped
    <2>3. TabTyped(Rendered(tabs[t], s)) /\ DOMAIN Rendered(tabs[t], s) = TabFields
        BY <1>0, <2>2, RenderedTyped, RenderedSame DEF Same
    <2>4. TabTyped(Ended(Rendered(tabs[t], s), kind))
        BY <2>3, EndedTyped
    <2>5. UNCHANGED queue
        BY <1>11 DEF Refresh
    <2> QED BY <1>1, <1>2, <1>3, <2>1, <2>4, <2>5
<1> QED BY <1>6, <1>8, <1>9, <1>10, <1>11 DEF HandleCommand

LEMMA GiveUpTyped ==
    ASSUME TypeInv, NEW i \in DOMAIN queue, GiveUp(i)
    PROVE  UNCHANGED ap /\ (\A u \in Tabs : TabTyped(tabs'[u])) /\ CallsTyped' /\ AnswersTyped'
<1>0. /\ IInv /\ CallsTyped /\ AnswersTyped
      /\ DOMAIN tabs = Tabs /\ (\A u \in Tabs : TabTyped(tabs[u]) /\ DOMAIN tabs[u] = TabFields)
    BY DEF TypeInv, KeptInv, TabKept
<1> DEFINE c == queue[i]
<1>1. c.tab \in Tabs
    <2>1. c.tab # NoTab
        BY DEF GiveUp
    <2>2. PICK A, L : queue \in Seq(Calls(A, L))
        BY <1>0 DEF IInv
    <2>3. c \in Calls(A, L)
        BY <2>2
    <2>4. c.tab \in Tabs \cup {NoTab}
        BY <2>3 DEF Calls
    <2> QED BY <2>1, <2>4
<1>2. tabs' = [tabs EXCEPT ![c.tab] = Ended(tabs[c.tab], c.kind)] /\ UNCHANGED <<ap, answers>>
    BY DEF GiveUp
<1>3. queue' = [j \in DOMAIN queue |-> IF j \in {i} THEN [queue[j] EXCEPT !.tab = NoTab] ELSE queue[j]]
    BY DEF GiveUp
<1>4. CallsTyped'
    BY <1>0, <1>3, ForgetTyped
<1> HIDE DEF c
<1>5. TabTyped(Ended(tabs[c.tab], c.kind))
    BY <1>0, <1>1, EndedTyped
<1>6. \A u \in Tabs : TabTyped(tabs'[u])
    BY <1>0, <1>1, <1>2, <1>5, OneTabTyped
<1>7. AnswersTyped'
    BY <1>0, <1>2, FewerAnswers
<1> QED BY <1>2, <1>4, <1>6, <1>7

LEMMA NextTyped == TypeInv /\ [Next]_vars => TypeInv'
<1> SUFFICES ASSUME TypeInv, [Next]_vars PROVE TypeInv'
    OBVIOUS
<1>1. KeptInv' /\ ap \in AccessPoints
    BY NextKept DEF TypeInv
<1>2. CASE UNCHANGED vars
    BY <1>1, <1>2 DEF vars, TypeInv, CallsTyped, AnswersTyped
<1>3. CASE OtherChange
    <2>1. ap' \in AccessPoints /\ UNCHANGED <<tabs, queue, answers>>
        BY <1>3, AccessPointAssumption DEF OtherChange
    <2> QED BY <1>1, <2>1 DEF TypeInv, CallsTyped, AnswersTyped
<1>4. CASE Serve \/ ServeFails
    <2>1. \A u \in Tabs : TabTyped(tabs'[u])
        BY <1>4, ServeTyped DEF TypeInv
    <2> QED BY <1>1, <1>4, <2>1, ServeTyped DEF TypeInv
<1>5. ASSUME ap' = ap, \A u \in Tabs : TabTyped(tabs'[u]), CallsTyped', AnswersTyped'
      PROVE  TypeInv'
    BY <1>1, <1>5 DEF TypeInv
<1>6. ASSUME NEW t \in Tabs, User(t)
      PROVE  TypeInv'
    BY <1>5, <1>6, UserTyped
<1>7. ASSUME NEW t \in Tabs, Poll(t) \/ HandleCommand(t) \/ \E kind \in Reads : Refresh(t, kind)
      PROVE  TypeInv'
    BY <1>5, <1>7, PageStepTyped
<1>8. ASSUME NEW i \in DOMAIN queue, GiveUp(i)
      PROVE  TypeInv'
    BY <1>5, <1>8, GiveUpTyped
<1> QED BY <1>2, <1>3, <1>4, <1>6, <1>7, <1>8 DEF Next

LEMMA InitTyped == Init => TypeInv
<1> SUFFICES ASSUME Init PROVE TypeInv
    OBVIOUS
<1>1. ap \in AccessPoints
    BY AccessPointAssumption DEF Init
<1>2. PICK page \in [Tabs -> Pages] : tabs = [t \in Tabs |-> Page(page[t], StatusOf(ap))]
    BY DEF Init
<1>3. \A t \in Tabs : TabTyped(tabs[t])
    BY <1>1, <1>2, StatusTyped, PageTyped
<1>4. CallsTyped /\ AnswersTyped
    BY DEF Init, CallsTyped, AnswersTyped
<1> QED BY <1>1, <1>3, <1>4, InitKept DEF TypeInv

LEMMA TypesSuffice == TypeInv => TypeOK
<1> SUFFICES ASSUME TypeInv PROVE TypeOK
    OBVIOUS
<1>1. PICK A, L : queue \in Seq(Calls(A, L))
    BY DEF TypeInv, KeptInv, IInv
<1>2. \A i \in DOMAIN queue : queue[i].tab \in Tabs \cup {NoTab} /\ queue[i].kind \in Kinds
    <2> SUFFICES ASSUME NEW i \in DOMAIN queue
                 PROVE  queue[i].tab \in Tabs \cup {NoTab} /\ queue[i].kind \in Kinds
        OBVIOUS
    <2>1. queue[i] \in Calls(A, L)
        BY <1>1
    <2> QED BY <2>1 DEF Calls
<1>3. \A t \in Tabs : /\ tabs[t].page \in Pages
                      /\ tabs[t].loaded \in Statuses
                      /\ tabs[t].shown \in Statuses \cup {Failed}
                      /\ tabs[t].busy \subseteq Buttons
    BY DEF TypeInv, TabTyped
<1>4. \A a \in answers : a.tab \in Tabs /\ a.kind \in Kinds
    BY DEF TypeInv, AnswersTyped, AnswerTyped
<1> QED BY <1>2, <1>3, <1>4 DEF TypeInv, TypeOK

(* The access point keeps a profile, secrets and a membership of their      *)
(* ranges whatever its pages send, and a page that was given a failed       *)
(* answer in place of a status is the Wi-Fi page.                           *)
THEOREM TypeCorrect == Spec => []TypeOK
<1> QED BY InitTyped, NextTyped, TypesSuffice, PTL DEF Spec
=============================================================================
