------------------------- MODULE RouterConfigProofs -------------------------
(***************************************************************************)
(* Proofs about PacketFilter and RouterConfig, for any clients, tasks,     *)
(* rules, size of the lists and settings of the VPN, and for whatever      *)
(* flash holds at first: a packet that was forbidden all the way never     *)
(* leaves, one that nothing forbade is not dropped, flash keeps what the   *)
(* calls promised, and the partition that runs holds a whole image.        *)
(***************************************************************************)
EXTENDS RouterConfig, TLAPS, FiniteSetTheorems, SequenceTheorems, WellFoundedInduction

Row == [Slots -> Rules \cup {NoRule}]
Plain == {"set", "cleared", "on", "off", "", Absent}
Values == Plain \cup Row \cup (SUBSET Clients) \cup {keys[key] : keys \in Stored, key \in Keys}

\* What a key may hold, and what may be kept under some of the keys.
ValuesOf(key) ==
  IF key \in Lists THEN {Absent} \cup Row
  ELSE IF key = "dhcp_res" THEN {Absent} \cup SUBSET Clients
  ELSE Values
Contents(K) == {keys \in [K -> Values] : \A key \in K : keys[key] \in ValuesOf(key)}

\* The steps of the calls, those of a configuration file, and all others.
SetSteps(K, V) == {step \in [op : {"set"}, key : K, value : V] : step.value \in ValuesOf(step.key)}
PlainSteps(ops, V) == [op : ops, key : {"none"}, value : V]
CallSteps ==
  SetSteps(Settings \ {"dhcp_res"}, Plain)
    \cup PlainSteps({"erase", "clear", "restart", "login", "logout"}, {Absent})
    \cup PlainSteps({"uplink"}, {"on", "off"})
ImportSteps == PlainSteps({"import"}, UNION {Contents(K) : K \in (SUBSET Keys) \ {{}}})
AnySteps ==
  SetSteps(Keys, Values) \cup ImportSteps \cup CallSteps
    \cup PlainSteps({"snapshot", "count", "save", "receive"}, {Absent})
    \cup PlainSteps({"store"}, Nat)

TypeOK ==
  /\ acl_lists \in [Lists -> Row] /\ isolated \in SUBSET Clients
  /\ flash \in Contents(Keys) /\ file \in Contents(Keys) /\ DOMAIN promised = Keys
  /\ todo \in [Tasks -> Seq(AnySteps)]
  /\ image \in [Partitions -> BOOLEAN] /\ running \in Partitions /\ boot \in Partitions
-----------------------------------------------------------------------------
(* The steps of the calls *)

LEMMA KeyNames ==
  /\ Lists = {"to_esp", "from_esp", "from_eth", "to_eth"}
  /\ Settings \subseteq Keys /\ Lists \subseteq Keys /\ "dhcp_res" \in Settings
  /\ Lists \cap Settings = {} /\ "isolated_count" \notin Keys
<1>1. DOMAIN ListOrder = 1 .. 4
  BY DEF ListOrder
<1>2. Lists = {"to_esp", "from_esp", "from_eth", "to_eth"}
  BY <1>1, SMT DEF Lists, ListOrder
<1> QED BY <1>2 DEF Keys, Settings

LEMMA SetCall ==
  ASSUME NEW key \in Settings \ {"dhcp_res"}, NEW value \in Plain
  PROVE  Set(key, value) \in CallSteps
BY KeyNames DEF Set, CallSteps, SetSteps, ValuesOf, Values

LEMMA SetTyped ==
  ASSUME NEW key \in Settings \ {"dhcp_res"}, NEW value \in Plain
  PROVE  <<Set(key, value)>> \in Seq(CallSteps)
BY SetCall

LEMMA StepTyped ==
  ASSUME NEW op \in {"erase", "clear", "restart", "login", "logout"}
  PROVE  <<Step(op)>> \in Seq(CallSteps)
BY DEF Step, CallSteps, PlainSteps

LEMMA Joined ==
  ASSUME NEW S, NEW s \in Seq(S), NEW r \in Seq(S) PROVE s \o r \in Seq(S)
OBVIOUS

LEMMA PlainNames ==
  /\ {"ssid", "passwd", "ent_username", "static_ip", "gateway_addr", "mac", "ap_dns", "eth_nat",
      "eth_dhcps", "hostname", "web_disabled", "web_password", "portmap_tab", "vpn_privkey",
      "vpn_endpoint", "vpn_enabled", "led_gpio", "led_low", "ls_gpio", "sta_ttl", "tx_power",
      "wifi_cc", "rf_switch", "spi_clk_mhz", "tz", "ap_ip", "eth_dhcpc"} \subseteq Settings \ {"dhcp_res"}
  /\ {"set", "cleared", "on", "off", "", Absent} \subseteq Plain
BY DEF Settings, Plain

\* The commands with one key, with two and with three.
LEMMA ShortCalls ==
  /\ {set_mac, set_ap_dns, set_eth_nat, set_eth_dhcps, set_hostname, web_ui, portmap, set_led_gpio,
      set_led_lowactive, set_led_strip, set_ttl, set_tx_power, set_wifi_country, set_rf_switch,
      set_spi_clock, set_tz} \subseteq Seq(CallSteps)
  /\ {set_web_password_hashed(value) : value \in {"set", ""}} \subseteq Seq(CallSteps)
  /\ {set_sta, set_sta_static, set_sta_static_dhcp, set_vpn, vpn_import_conf, VpnForm}
       \subseteq Seq(CallSteps)
  /\ {factory_reset, restart} \subseteq Seq(CallSteps)
<1>1. {set_mac, set_ap_dns, set_eth_nat, set_eth_dhcps, set_hostname, web_ui, portmap, set_led_gpio,
       set_led_lowactive, set_led_strip, set_ttl, set_tx_power, set_wifi_country, set_rf_switch,
       set_spi_clock, set_tz} \subseteq Seq(CallSteps)
  BY SetTyped, PlainNames
     DEF set_mac, set_ap_dns, set_eth_nat, set_eth_dhcps, set_hostname, web_ui, portmap, set_led_gpio,
         set_led_lowactive, set_led_strip, set_ttl, set_tx_power, set_wifi_country, set_rf_switch,
         set_spi_clock, set_tz
<1>2. {set_web_password_hashed(value) : value \in {"set", ""}} \subseteq Seq(CallSteps)
  BY SetTyped, PlainNames DEF set_web_password_hashed
<1>3. ASSUME NEW a \in CallSteps, NEW b \in CallSteps, NEW c \in CallSteps
      PROVE  <<a, b>> \in Seq(CallSteps) /\ <<a, b, c>> \in Seq(CallSteps)
  OBVIOUS
<1>4. set_sta_static \in Seq(CallSteps) /\ set_sta_static_dhcp \in Seq(CallSteps)
  <2>1. \A key \in {"static_ip", "gateway_addr"}, value \in {"set", Absent} : Set(key, value) \in CallSteps
    BY SetCall, PlainNames
  <2> QED BY <1>3, <2>1 DEF set_sta_static, set_sta_static_dhcp
<1>5. /\ set_sta \in Seq(CallSteps) /\ set_vpn \in Seq(CallSteps)
      /\ vpn_import_conf \in Seq(CallSteps) /\ VpnForm \in Seq(CallSteps)
  <2>1. \A key \in {"ssid", "passwd", "ent_username", "vpn_privkey", "vpn_endpoint", "vpn_enabled"} :
          Set(key, "set") \in CallSteps
    BY SetCall, PlainNames
  <2> QED BY <1>3, <2>1 DEF set_sta, set_vpn, vpn_import_conf, VpnForm
<1>6. factory_reset \in Seq(CallSteps) /\ restart \in Seq(CallSteps)
  <2>1. <<Step("erase")>> \o <<Step("restart")>> \in Seq(CallSteps)
    BY StepTyped, Joined
  <2> QED BY <2>1, StepTyped DEF factory_reset, restart
<1> QED BY <1>1, <1>2, <1>4, <1>5, <1>6

LEMMA LongCalls ==
  /\ \A moves \in BOOLEAN : set_ap_ip(moves) \in Seq(CallSteps) /\ DownlinkForm(moves) \in Seq(CallSteps)
  /\ \A value \in {"on", "off"} : set_eth_dhcpc(value) \in Seq(CallSteps)
<1>1. ASSUME NEW moves \in BOOLEAN PROVE set_ap_ip(moves) \in Seq(CallSteps)
  <2>1. <<Step("clear")>> \o <<Set("portmap_tab", "cleared")>> \in Seq(CallSteps)
    BY SetTyped, StepTyped, PlainNames, Joined
  <2>2. (IF moves THEN <<Step("clear"), Set("portmap_tab", "cleared")>> ELSE <<>>) \in Seq(CallSteps)
    BY <2>1
  <2> QED BY <2>2, SetTyped, PlainNames, Joined DEF set_ap_ip
<1>2. ASSUME NEW moves \in BOOLEAN PROVE DownlinkForm(moves) \in Seq(CallSteps)
  BY <1>1, ShortCalls, Joined DEF DownlinkForm
<1>3. ASSUME NEW value \in {"on", "off"} PROVE set_eth_dhcpc(value) \in Seq(CallSteps)
  <2>1. <<[Step("uplink") EXCEPT !.value = value]>> \in Seq(CallSteps)
    BY DEF Step, CallSteps, PlainSteps
  <2>2. <<Set("eth_dhcpc", value)>> \in Seq(CallSteps)
    BY SetTyped, PlainNames
  <2>3. <<Set("eth_dhcpc", value)>> \o <<[Step("uplink") EXCEPT !.value = value]>> \in Seq(CallSteps)
    BY <2>1, <2>2, Joined
  <2> QED BY <2>3 DEF set_eth_dhcpc
<1> QED BY <1>1, <1>2, <1>3

\* What a task may be called to do.
Imports == {<<Step("erase"), step>> : step \in ImportSteps}

LEMMA ImportTyped ==
  ASSUME file \in Contents(Keys), \E key \in Keys : file[key] # Absent
  PROVE  Import \in Imports
<1> DEFINE K == {k \in Keys : file[k] # Absent}
           contents == [key \in K |-> file[key]]
<1>1. K \in (SUBSET Keys) \ {{}}
  <2>1. K \subseteq Keys /\ K # {}
    OBVIOUS
  <2> HIDE DEF K
  <2> QED BY <2>1
<1>2. contents \in Contents(K)
  <2>1. \A k \in Keys : file[k] \in Values /\ file[k] \in ValuesOf(k)
    BY DEF Contents
  <2>2. contents \in [K -> Values] /\ \A k \in K : contents[k] \in ValuesOf(k)
    BY <2>1
  <2> QED BY <2>2 DEF Contents
<1>3. contents \in UNION {Contents(L) : L \in (SUBSET Keys) \ {{}}}
  BY <1>1, <1>2
<1>4. [Step("import") EXCEPT !.value = contents] \in ImportSteps
  <2> HIDE DEF contents
  <2>1. [Step("import") EXCEPT !.value = contents] = [op |-> "import", key |-> "none", value |-> contents]
    BY DEF Step
  <2> DEFINE All == UNION {Contents(L) : L \in (SUBSET Keys) \ {{}}}
  <2>2. contents \in All
    BY <1>3
  <2> HIDE DEF All
  <2>3. [Step("import") EXCEPT !.value = contents] \in [op : {"import"}, key : {"none"}, value : All]
    BY <2>1, <2>2
  <2> QED BY <2>3 DEF All, ImportSteps, PlainSteps
<1> QED BY <1>4 DEF Imports, Import

LEMMA CallsTyped ==
  /\ Commands \subseteq Seq(CallSteps)
  /\ file \in Contents(Keys) => Forms \subseteq Seq(CallSteps) \cup Imports
<1>1. ASSUME NEW steps \in Commands PROVE steps \in Seq(CallSteps)
  <2>1. CASE steps \in {set_ap_ip(moves) : moves \in Moves}
    BY <2>1, LongCalls DEF Moves
  <2>2. CASE steps \in {set_eth_dhcpc(value) : value \in {"on", "off"}}
    BY <2>2, LongCalls
  <2>3. CASE steps \in {set_web_password_hashed(value) : value \in {"set", ""}}
    BY <2>3, ShortCalls
  <2>4. CASE steps \in {set_sta, set_sta_static, set_sta_static_dhcp, set_vpn, vpn_import_conf,
                        factory_reset, restart}
    BY <2>4, ShortCalls
  <2>5. CASE steps \in {set_mac, set_ap_dns, set_eth_nat, set_eth_dhcps, set_hostname, web_ui, portmap,
                        set_led_gpio, set_led_lowactive, set_led_strip, set_ttl, set_tx_power,
                        set_wifi_country, set_rf_switch, set_spi_clock, set_tz}
    BY <2>5, ShortCalls
  <2> QED BY <2>1, <2>2, <2>3, <2>4, <2>5, Zenon DEF Commands
<1>2. ASSUME file \in Contents(Keys), NEW steps \in Forms PROVE steps \in Seq(CallSteps) \cup Imports
  <2>1. CASE steps \in {DownlinkForm(moves) : moves \in Moves}
    BY <2>1, LongCalls DEF Moves
  <2>2. CASE steps \in {StaticForm, DisableForm, VpnForm, VpnImport, PortForm}
    BY <2>2, ShortCalls DEF StaticForm, DisableForm, VpnImport, PortForm
  <2>3. CASE steps = StationForm
    BY <2>3, ShortCalls, Joined DEF StationForm
  <2>4. CASE steps = Import /\ \E key \in Keys : file[key] # Absent
    BY <1>2, <2>4, ImportTyped
  <2> QED BY <2>1, <2>2, <2>3, <2>4 DEF Forms
<1> QED BY <1>1, <1>2
-----------------------------------------------------------------------------
(* What steps write *)

LEMMA TouchedIs ==
  ASSUME NEW s, NEW key
  PROVE  key \in Touched(s) <=> \E i \in DOMAIN s : key \in Touches(s[i])
BY DEF Touched

\* What is done no longer counts: the rest of a call.
LEMMA TailTouched ==
  ASSUME NEW S, NEW s \in Seq(S), s # <<>>
  PROVE  /\ Touched(s) = Touches(Head(s)) \cup Touched(Tail(s))
         /\ \A i, key : Decides(Tail(s), i, key) => Decides(s, i + 1, key)
         /\ \A key \in Touches(Head(s)) \ Touched(Tail(s)) : Decides(s, 1, key)
<1>1. /\ Len(s) \in Nat \ {0} /\ DOMAIN s = 1 .. Len(s) /\ DOMAIN Tail(s) = 1 .. (Len(s) - 1)
      /\ \A i \in DOMAIN Tail(s) : Tail(s)[i] = s[i + 1]
      /\ Head(s) = s[1]
  OBVIOUS
<1>2. \A i \in DOMAIN s : i = 1 \/ (i - 1 \in DOMAIN Tail(s) /\ s[i] = Tail(s)[i - 1])
  BY <1>1
<1>3. ASSUME NEW key PROVE key \in Touched(s) <=> key \in Touches(Head(s)) \/ key \in Touched(Tail(s))
  <2>1. 1 \in DOMAIN s /\ \A i \in DOMAIN Tail(s) : i + 1 \in DOMAIN s
    BY <1>1
  <2>2. key \in Touched(s) <=> \E i \in DOMAIN s : key \in Touches(s[i])
    BY TouchedIs
  <2>3. key \in Touched(Tail(s)) <=> \E i \in DOMAIN Tail(s) : key \in Touches(Tail(s)[i])
    BY TouchedIs
  <2>4. ASSUME NEW i \in DOMAIN s, key \in Touches(s[i])
        PROVE  key \in Touches(Head(s)) \/ \E j \in DOMAIN Tail(s) : key \in Touches(Tail(s)[j])
    BY <1>1, <1>2, <2>4, Zenon
  <2>5. ASSUME NEW j \in DOMAIN Tail(s), key \in Touches(Tail(s)[j])
        PROVE  \E i \in DOMAIN s : key \in Touches(s[i])
    BY <1>1, <2>1, <2>5, Zenon
  <2> QED BY <1>1, <2>1, <2>2, <2>3, <2>4, <2>5, Zenon
<1>4. ASSUME NEW i, NEW key, Decides(Tail(s), i, key) PROVE Decides(s, i + 1, key)
  <2>1. i \in DOMAIN Tail(s) /\ i + 1 \in DOMAIN s /\ i \in Nat
    BY <1>1, <1>4 DEF Decides
  <2>2. key \in Touches(s[i + 1])
    BY <1>1, <1>4, <2>1 DEF Decides
  <2>3. ASSUME NEW j \in DOMAIN s, i + 1 < j PROVE key \notin Touches(s[j])
    <3>1. j - 1 \in DOMAIN Tail(s) /\ i < j - 1 /\ s[j] = Tail(s)[j - 1]
      BY <1>1, <1>2, <2>1, <2>3
    <3> QED BY <1>4, <3>1 DEF Decides
  <2> QED BY <2>1, <2>2, <2>3 DEF Decides
<1>5. ASSUME NEW key \in Touches(Head(s)) \ Touched(Tail(s)) PROVE Decides(s, 1, key)
  <2>1. ASSUME NEW j \in DOMAIN s, 1 < j PROVE key \notin Touches(s[j])
    <3>1. j - 1 \in DOMAIN Tail(s) /\ s[j] = Tail(s)[j - 1]
      BY <1>1, <1>2, <2>1
    <3> QED BY <1>5, <3>1, TouchedIs
  <2> QED BY <1>1, <1>5, <2>1 DEF Decides
<1> QED BY <1>3, <1>4, <1>5

\* Steps that are given up: the rest of a call behind its first n steps.
LEMMA RestTouched ==
  ASSUME NEW S, NEW s \in Seq(S), NEW n \in Nat, n \in DOMAIN s
  PROVE  LET r == SubSeq(s, n + 1, Len(s))
         IN  /\ r \in Seq(S) /\ n >= 1
             /\ \A i \in DOMAIN r : r[i] = s[i + n] /\ i \in Nat /\ i >= 1 /\ i + n \in DOMAIN s
             /\ Touched(s) = Touched(SubSeq(s, 1, n)) \cup Touched(r)
             /\ \A i, key : Decides(r, i, key) => \E j : Decides(s, j, key) /\ r[i] = s[j]
<1> DEFINE p == SubSeq(s, 1, n)
           r == SubSeq(s, n + 1, Len(s))
<1>1. Len(s) \in Nat /\ DOMAIN s = 1 .. Len(s) /\ n \in Nat /\ n >= 1 /\ n <= Len(s)
  OBVIOUS
<1>2. /\ r \in Seq(S) /\ DOMAIN r = 1 .. (Len(s) - n) /\ \A i \in DOMAIN r : r[i] = s[i + n]
      /\ DOMAIN p = 1 .. n /\ \A i \in DOMAIN p : p[i] = s[i]
  BY <1>1
<1> HIDE DEF p, r
<1>3. DOMAIN p \subseteq DOMAIN s /\ \A i \in DOMAIN r : i + n \in DOMAIN s /\ i \in Nat /\ i >= 1
  BY <1>1, <1>2
<1>4. \A i \in DOMAIN s : i \in DOMAIN p \/ (i - n \in DOMAIN r /\ s[i] = r[i - n])
  <2> TAKE i \in DOMAIN s
  <2>1. i > n => i - n \in DOMAIN r /\ (i - n) + n = i
    BY <1>1, <1>2
  <2>2. i > n => s[i] = r[i - n]
    BY <1>2, <2>1
  <2>3. ~(i > n) => i \in DOMAIN p
    BY <1>1, <1>2
  <2> QED BY <2>1, <2>2, <2>3
<1>5. ASSUME NEW key PROVE key \in Touched(s) <=> key \in Touched(p) \/ key \in Touched(r)
  <2>1. /\ key \in Touched(s) <=> \E i \in DOMAIN s : key \in Touches(s[i])
        /\ key \in Touched(p) <=> \E i \in DOMAIN p : key \in Touches(p[i])
        /\ key \in Touched(r) <=> \E i \in DOMAIN r : key \in Touches(r[i])
    BY TouchedIs
  <2>2. ASSUME NEW i \in DOMAIN s, key \in Touches(s[i]) PROVE key \in Touched(p) \/ key \in Touched(r)
    BY <1>2, <1>4, <2>1, <2>2, Zenon
  <2>3. (\A i \in DOMAIN p : key \in Touches(p[i]) => key \in Touched(s))
        /\ \A i \in DOMAIN r : key \in Touches(r[i]) => key \in Touched(s)
    BY <1>2, <1>3, <2>1, Zenon
  <2> QED BY <2>1, <2>2, <2>3, Zenon
<1>6. ASSUME NEW i, NEW key, Decides(r, i, key) PROVE Decides(s, i + n, key) /\ r[i] = s[i + n]
  <2>1. i \in DOMAIN r /\ i + n \in DOMAIN s /\ i \in Nat /\ key \in Touches(r[i])
    BY <1>3, <1>6 DEF Decides
  <2>2. ASSUME NEW j \in DOMAIN s, i + n < j PROVE key \notin Touches(s[j])
    <3>1. j \notin DOMAIN p
      BY <1>1, <1>2, <2>1, <2>2
    <3>2. j - n \in DOMAIN r /\ r[j - n] = s[j]
      BY <1>4, <3>1
    <3>3. i < j - n
      BY <1>1, <2>1, <2>2
    <3> QED BY <1>6, <3>2, <3>3 DEF Decides
  <2> QED BY <1>2, <2>1, <2>2 DEF Decides
<1>7. \A i, key : Decides(r, i, key) => \E j : Decides(s, j, key) /\ r[i] = s[j]
  BY <1>6
<1> QED BY <1>1, <1>2, <1>3, <1>5, <1>7 DEF p, r

\* A step that is spelled out: other steps in front of the rest.
LEMMA PrefixTouched ==
  ASSUME NEW S, NEW p \in Seq(S), NEW r \in Seq(S)
  PROVE  /\ Touched(p \o r) = Touched(p) \cup Touched(r)
         /\ \A i \in DOMAIN p : (p \o r)[i] = p[i]
         /\ \A i \in DOMAIN r : (p \o r)[Len(p) + i] = r[i]
         /\ \A i, key : Decides(p \o r, i, key) =>
              \/ i \in DOMAIN p /\ Decides(p, i, key) /\ key \notin Touched(r)
              \/ \E j \in DOMAIN r : i = Len(p) + j /\ Decides(r, j, key)
<1>1. /\ Len(p) \in Nat /\ Len(r) \in Nat /\ DOMAIN p = 1 .. Len(p) /\ DOMAIN r = 1 .. Len(r)
      /\ DOMAIN (p \o r) = 1 .. (Len(p) + Len(r))
      /\ \A i \in DOMAIN p : i \in DOMAIN (p \o r) /\ (p \o r)[i] = p[i]
      /\ \A i \in DOMAIN r : Len(p) + i \in DOMAIN (p \o r) /\ (p \o r)[Len(p) + i] = r[i]
  OBVIOUS
<1>2. \A i \in DOMAIN (p \o r) : i \in DOMAIN p \/ \E j \in DOMAIN r : i = Len(p) + j
  <2> TAKE i \in DOMAIN (p \o r)
  <2>1. CASE i <= Len(p)
    BY <1>1, <2>1
  <2>2. CASE ~(i <= Len(p))
    <3>1. i - Len(p) \in DOMAIN r /\ i = Len(p) + (i - Len(p))
      BY <1>1, <2>2
    <3> QED BY <3>1
  <2> QED BY <2>1, <2>2
<1>3. ASSUME NEW key PROVE key \in Touched(p \o r) <=> key \in Touched(p) \/ key \in Touched(r)
  <2>1. key \in Touched(p \o r) <=> \E i \in DOMAIN (p \o r) : key \in Touches((p \o r)[i])
    BY TouchedIs
  <2>2. key \in Touched(p) <=> \E i \in DOMAIN p : key \in Touches(p[i])
    BY TouchedIs
  <2>3. key \in Touched(r) <=> \E i \in DOMAIN r : key \in Touches(r[i])
    BY TouchedIs
  <2>4. ASSUME NEW i \in DOMAIN (p \o r), key \in Touches((p \o r)[i])
        PROVE  key \in Touched(p) \/ key \in Touched(r)
    <3>1. CASE i \in DOMAIN p
      BY <1>1, <2>2, <2>4, <3>1, Zenon
    <3>2. ASSUME NEW j \in DOMAIN r, i = Len(p) + j PROVE key \in Touched(r)
      BY <1>1, <2>3, <2>4, <3>2, Zenon
    <3> QED BY <1>2, <3>1, <3>2, Zenon
  <2>5. ASSUME NEW i \in DOMAIN p, key \in Touches(p[i]) PROVE key \in Touched(p \o r)
    BY <1>1, <2>1, <2>5, Zenon
  <2>6. ASSUME NEW i \in DOMAIN r, key \in Touches(r[i]) PROVE key \in Touched(p \o r)
    BY <1>1, <2>1, <2>6, Zenon
  <2> QED BY <2>1, <2>2, <2>3, <2>4, <2>5, <2>6, Zenon
<1>4. ASSUME NEW i, NEW key, Decides(p \o r, i, key)
      PROVE  \/ i \in DOMAIN p /\ Decides(p, i, key) /\ key \notin Touched(r)
             \/ \E j \in DOMAIN r : i = Len(p) + j /\ Decides(r, j, key)
  <2>1. /\ i \in DOMAIN (p \o r) /\ key \in Touches((p \o r)[i])
        /\ \A j \in DOMAIN (p \o r) : i < j => key \notin Touches((p \o r)[j])
    BY <1>4 DEF Decides
  <2>2. CASE i \in DOMAIN p
    <3>1. Decides(p, i, key)
      BY <1>1, <2>1, <2>2 DEF Decides
    <3>2. \A j \in DOMAIN r : i < Len(p) + j
      BY <1>1, <2>2
    <3>3. \A j \in DOMAIN r : key \notin Touches(r[j])
      BY <1>1, <2>1, <3>2, Zenon
    <3> QED BY <2>2, <3>1, <3>3, TouchedIs
  <2>3. ASSUME NEW j \in DOMAIN r, i = Len(p) + j PROVE Decides(r, j, key)
    <3>1. \A k \in DOMAIN r : j < k => i < Len(p) + k
      BY <1>1, <2>3
    <3> QED BY <1>1, <2>1, <2>3, <3>1 DEF Decides
  <2> QED BY <1>2, <2>1, <2>2, <2>3
<1> QED BY <1>1, <1>3, <1>4

LEMMA ShortTouched ==
  /\ Touched(<<>>) = {}
  /\ \A a : Touched(<<a>>) = Touches(a)
  /\ \A a, b : Touched(<<a, b>>) = Touches(a) \cup Touches(b)
<1>1. Touched(<<>>) = {}
  BY DEF Touched
<1>2. ASSUME NEW a PROVE Touched(<<a>>) = Touches(a)
  <2>1. DOMAIN <<a>> = {1} /\ <<a>>[1] = a
    OBVIOUS
  <2> QED BY <2>1 DEF Touched
<1>3. ASSUME NEW a, NEW b PROVE Touched(<<a, b>>) = Touches(a) \cup Touches(b)
  <2>1. DOMAIN <<a, b>> = {1, 2} /\ <<a, b>>[1] = a /\ <<a, b>>[2] = b
    OBVIOUS
  <2> QED BY <2>1 DEF Touched
<1> QED BY <1>1, <1>2, <1>3

\* The copies of the four lists that save_acl_rules writes.
LEMMA SavesTouched ==
  ASSUME NEW lists
  PROVE  /\ Len(Saves(lists)) = 4 /\ DOMAIN Saves(lists) = 1 .. 4
         /\ \A i \in 1 .. 4 : ListOrder[i] \in Lists
                              /\ Saves(lists)[i] = Set(ListOrder[i], lists[ListOrder[i]])
         /\ Touched(Saves(lists)) = Lists
         /\ \A i, key : Decides(Saves(lists), i, key) => Written(Saves(lists)[i], key) = lists[key]
         /\ \A key \in Lists : \E i : Decides(Saves(lists), i, key)
<1>1. Len(ListOrder) = 4 /\ DOMAIN ListOrder = 1 .. 4
  BY DEF ListOrder
<1>2. DOMAIN Saves(lists) = 1 .. 4 /\ Len(Saves(lists)) = 4
  <2>1. Saves(lists) = [i \in 1 .. 4 |-> Set(ListOrder[i], lists[ListOrder[i]])]
    BY <1>1 DEF Saves
  <2> QED BY <2>1
<1>3. ASSUME NEW i \in 1 .. 4
      PROVE  ListOrder[i] \in Lists /\ Saves(lists)[i] = Set(ListOrder[i], lists[ListOrder[i]])
  <2>1. ListOrder[i] \in Lists
    BY <1>1, Zenon DEF Lists
  <2>2. Saves(lists) = [j \in 1 .. 4 |-> Set(ListOrder[j], lists[ListOrder[j]])]
    BY <1>1 DEF Saves
  <2> QED BY <2>1, <2>2
<1>4. \A i \in 1 .. 4 : Touches(Saves(lists)[i]) = {ListOrder[i]}
  BY <1>3 DEF Touches, Set
<1>5. Touched(Saves(lists)) = Lists
  <2>1. \A key : key \in Touched(Saves(lists)) <=> \E i \in 1 .. 4 : key = ListOrder[i]
    BY <1>2, <1>4, TouchedIs
  <2>2. \A key : key \in Lists <=> \E i \in 1 .. 4 : key = ListOrder[i]
    BY <1>1, Zenon DEF Lists
  <2> QED BY <2>1, <2>2
<1>6. ASSUME NEW i, NEW key, Decides(Saves(lists), i, key)
      PROVE  Written(Saves(lists)[i], key) = lists[key]
  <2>1. i \in 1 .. 4 /\ key = ListOrder[i]
    BY <1>2, <1>4, <1>6 DEF Decides
  <2> QED BY <1>3, <2>1 DEF Written, Set
<1>7. ASSUME NEW i \in 1 .. 4 PROVE Decides(Saves(lists), i, ListOrder[i])
  <2>1. \A j \in 1 .. 4 : i < j => ListOrder[i] # ListOrder[j]
    BY DEF ListOrder
  <2> QED BY <1>2, <1>4, <2>1 DEF Decides
<1>8. \A key \in Lists : \E i : Decides(Saves(lists), i, key)
  BY <1>1, <1>7, Zenon DEF Lists
<1> QED BY <1>2, <1>3, <1>5, <1>6, <1>8

\* What a call promises: the last write of each key.
LEMMA OutcomeIs ==
  ASSUME NEW keys, NEW S, NEW writes \in Seq(S), NEW key \in Keys
  PROVE  /\ key \notin Touched(writes) => Outcome(keys, writes)[key] = keys[key]
         /\ \A i : Decides(writes, i, key) => Outcome(keys, writes)[key] = Written(writes[i], key)
<1>1. key \notin Touched(writes) => Outcome(keys, writes)[key] = keys[key]
  BY DEF Outcome
<1>2. ASSUME NEW i, Decides(writes, i, key) PROVE Outcome(keys, writes)[key] = Written(writes[i], key)
  <2> DEFINE last == CHOOSE j \in DOMAIN writes : Decides(writes, j, key)
  <2>1. i \in DOMAIN writes /\ last \in DOMAIN writes /\ Decides(writes, last, key)
    BY <1>2 DEF Decides
  <2>2. i \in Nat /\ last \in Nat
    BY <2>1
  <2>3. last = i
    BY <1>2, <2>1, <2>2 DEF Decides
  <2>4. key \in Touched(writes)
    BY <1>2, TouchedIs DEF Decides
  <2>5. Outcome(keys, writes)[key] = Written(writes[last], key)
    BY <2>4 DEF Outcome
  <2> QED BY <2>3, <2>5
<1> QED BY <1>1, <1>2
-----------------------------------------------------------------------------
(* What a step of the system does to the lists, the reservations, flash and the calls *)

Quiet == UNCHANGED <<acl_lists, isolated, isolated_count, flash, todo, promises>>

\* The upload begins; a step that writes nothing.
Receives == Call(Httpd, <<Step("receive")>>) /\ UNCHANGED <<acl_lists, isolated, isolated_count, flash, promises>>
Passes(t) ==
  /\ ~Idle(t) /\ Head(todo[t]).op \in {"uplink", "login", "logout", "receive"}
  /\ Done(t)
  /\ UNCHANGED <<acl_lists, isolated, isolated_count, flash, promises>>
Works(t) == Save(t) \/ EraseKeys(t) \/ ImportKey(t) \/ WriteFails(t) \/ Passes(t)

LEMMA RowsTyped ==
  ASSUME NEW l \in Lists, acl_lists \in [Lists -> Row]
  PROVE  /\ EmptyList \in Row
         /\ \A rule \in Rules : Added(l, rule) \in Row
         /\ \A idx \in Slots : Deleted(l, idx) \in Row
<1>1. acl_lists[l] \in Row
  OBVIOUS
<1>2. EmptyList \in Row
  BY DEF EmptyList, Row
<1>3. \A rule \in Rules : Added(l, rule) \in Row
  BY <1>1 DEF Added, Row
<1>4. ASSUME NEW idx \in Slots PROVE Deleted(l, idx) \in Row
  <2>1. \A i \in Slots : i + 1 \in (idx + 1) .. MaxRules => i + 1 \in Slots
    BY FilterAssumption DEF Slots
  <2> QED BY <1>1, <2>1 DEF Deleted, Row
<1> QED BY <1>2, <1>3, <1>4

LEMMA EditsTyped ==
  ASSUME NEW t \in Tasks, acl_lists \in [Lists -> Row],
         acl_add_cmd(t) \/ acl_del_cmd(t) \/ acl_clear_cmd(t)
  PROVE  \E l \in Lists, slots \in Row : Edit(t, l, slots)
<1>1. CASE acl_add_cmd(t)
  BY <1>1, RowsTyped DEF acl_add_cmd, AddRule
<1>2. CASE acl_del_cmd(t)
  BY <1>2, RowsTyped DEF acl_del_cmd, DeleteRule
<1>3. CASE acl_clear_cmd(t)
  BY <1>3, RowsTyped DEF acl_clear_cmd, ClearList
<1> QED BY <1>1, <1>2, <1>3

LEMMA PageCalls ==
  ASSUME acl_lists \in [Lists -> Row], file \in Contents(Keys),
         Login \/ Logout \/ PasswordForm \/ Page \/ ButtonHeld
  PROVE  \/ Quiet
         \/ \E t \in Tasks, steps \in Seq(CallSteps) \cup Imports : Start(t, steps)
         \/ \E t \in Tasks, l \in Lists, slots \in Row : Edit(t, l, slots)
         \/ \E t \in Tasks, clients \in SUBSET Clients : SetIsolation(t, clients)
<1>1. Httpd \in Tasks /\ Button \in Tasks
  BY ConfigAssumption
<1>2. <<create_session>> \in Seq(CallSteps) /\ <<clear_session>> \in Seq(CallSteps)
  BY StepTyped DEF create_session, clear_session
<1>3. <<>> \in Seq(CallSteps)
  OBVIOUS
<1>4. \A value \in {"set", ""} : set_web_password_hashed(value) \in Seq(CallSteps)
  BY ShortCalls
<1>5. CASE Login
  <2>1. verify_web_password \in Seq(CallSteps)
    BY <1>3, <1>4 DEF verify_web_password
  <2> QED BY <1>1, <1>2, <1>5, <2>1, Joined DEF Login
<1>6. CASE Logout
  BY <1>1, <1>2, <1>6 DEF Logout
<1>7. CASE PasswordForm
  BY <1>1, <1>2, <1>4, <1>7, Joined DEF PasswordForm
<1>8. CASE ButtonHeld
  BY <1>1, <1>8, ShortCalls DEF ButtonHeld
<1>9. CASE SettingsForm
  BY <1>1, <1>9, CallsTyped DEF SettingsForm
<1>10. CASE AddForm \/ DeleteForm \/ ClearForm
  <2>1. acl_add_cmd(Httpd) \/ acl_del_cmd(Httpd) \/ acl_clear_cmd(Httpd)
    BY <1>10 DEF AddForm, DeleteForm, ClearForm, acl_add_cmd, acl_del_cmd, acl_clear_cmd
  <2> QED BY <1>1, <2>1, EditsTyped
<1>11. CASE ReserveForm
  BY <1>1, <1>11 DEF ReserveForm
<1>12. CASE Export
  BY <1>12 DEF Export, Quiet, tables
<1> QED BY <1>5, <1>6, <1>7, <1>8, <1>9, <1>10, <1>11, <1>12 DEF Page

LEMMA NextCases ==
  ASSUME acl_lists \in [Lists -> Row], file \in Contents(Keys), Next
  PROVE  \/ Quiet
         \/ Receives
         \/ \E t \in Tasks, steps \in Seq(CallSteps) \cup Imports : Start(t, steps)
         \/ \E t \in Tasks, l \in Lists, slots \in Row : Edit(t, l, slots)
         \/ \E t \in Tasks, clients \in SUBSET Clients : SetIsolation(t, clients)
         \/ \E t \in Tasks : Works(t)
         \/ Restart
<1>1. Httpd \in Tasks
  BY ConfigAssumption
<1>2. CASE Packets
  BY <1>2 DEF Packets, Arrive, IsolationCount, IsolationFlags, ListEmpty, ListCheck, KillSwitch, Route,
     Gone, TunnelChanges, Quiet, tables
<1>3. ASSUME NEW t \in Consoles, Console(t)
      PROVE  \/ \E steps \in Seq(CallSteps) \cup Imports : Start(t, steps)
             \/ \E l \in Lists, slots \in Row : Edit(t, l, slots)
             \/ \E clients \in SUBSET Clients : SetIsolation(t, clients)
  BY <1>3, CallsTyped, EditsTyped DEF Console, Consoles, dhcp_reserve
<1>4. CASE Login \/ Logout \/ PasswordForm \/ Page \/ ButtonHeld
  BY <1>4, PageCalls
<1>5. CASE Expire
  BY <1>5 DEF Expire, Quiet, tables
<1>6. CASE Upload
  BY <1>6 DEF Upload, Receives, tables
<1>7. CASE ReceiveFails \/ Received
  BY <1>1, <1>7 DEF ReceiveFails, Received, Passes, Works, Doing, tables
<1>8. ASSUME NEW t \in Tasks, SwitchUplink(t) PROVE Passes(t)
  BY <1>8 DEF SwitchUplink, Passes, Doing
<1>9. CASE SwitchSession
  <2>1. Passes(Httpd)
    BY <1>9 DEF SwitchSession, Passes, Doing, tables
  <2> QED BY <1>1, <2>1 DEF Works
<1>10. ASSUME NEW t \in Tasks,
              (Save(t) /\ UNCHANGED system) \/ EraseKeys(t) \/ ImportKey(t) \/ WriteFails(t) \/ SwitchUplink(t)
       PROVE  Works(t)
  BY <1>8, <1>10 DEF Works
<1>11. CASE Calls
  BY <1>3, <1>4, <1>5, <1>6, <1>7, <1>11 DEF Calls, Consoles
<1>12. CASE Steps
  BY <1>9, <1>10, <1>12 DEF Steps
<1> QED BY <1>2, <1>11, <1>12 DEF Next
-----------------------------------------------------------------------------
(* Types *)

LEMMA TailTyped ==
  ASSUME NEW S, NEW s \in Seq(S), s # <<>> PROVE Tail(s) \in Seq(S) /\ Head(s) \in S
OBVIOUS

LEMMA StepsTyped ==
  /\ Seq(CallSteps) \subseteq Seq(AnySteps) /\ Imports \subseteq Seq(AnySteps)
  /\ \A op \in {"snapshot", "count", "save", "receive"} : Step(op) \in AnySteps
  /\ \A n \in Nat : [Step("store") EXCEPT !.value = n] \in AnySteps
  /\ \A value : Step("store").op = "store" /\ [Step("store") EXCEPT !.value = value].value = value
<1>1. CallSteps \subseteq AnySteps /\ ImportSteps \subseteq AnySteps
  BY DEF AnySteps
<1>2. Step("erase") \in AnySteps
  BY <1>1 DEF Step, CallSteps, PlainSteps
<1>3. Seq(CallSteps) \subseteq Seq(AnySteps)
  BY <1>1
<1>4. Imports \subseteq Seq(AnySteps)
  <2>1. \A a, b \in AnySteps : <<a, b>> \in Seq(AnySteps)
    OBVIOUS
  <2> QED BY <1>1, <1>2, <2>1 DEF Imports
<1>5. \A op \in {"snapshot", "count", "save", "receive"} : Step(op) \in AnySteps
  BY DEF Step, AnySteps, PlainSteps
<1>6. \A n \in Nat : [Step("store") EXCEPT !.value = n] \in AnySteps
  BY DEF Step, AnySteps, PlainSteps
<1> QED BY <1>3, <1>4, <1>5, <1>6 DEF Step

LEMMA SavesTyped ==
  ASSUME acl_lists \in [Lists -> Row] PROVE Saves(acl_lists) \in Seq(AnySteps)
<1>1. ASSUME NEW i \in 1 .. 4 PROVE Saves(acl_lists)[i] \in AnySteps
  <2>1. ListOrder[i] \in Lists /\ acl_lists[ListOrder[i]] \in Row
    BY SavesTouched
  <2>2. Set(ListOrder[i], acl_lists[ListOrder[i]]) \in SetSteps(Keys, Values)
    BY <2>1, KeyNames DEF Set, SetSteps, ValuesOf, Values
  <2> QED BY <2>2, SavesTouched DEF AnySteps
<1>2. Saves(acl_lists) = [i \in 1 .. 4 |-> Saves(acl_lists)[i]]
  BY SavesTouched DEF Saves
<1>3. Saves(acl_lists) \in [1 .. 4 -> AnySteps]
  BY <1>1, <1>2
<1>4. Seq(AnySteps) = UNION {[1 .. n -> AnySteps] : n \in Nat}
  BY SeqDef
<1>5. [1 .. 4 -> AnySteps] \subseteq Seq(AnySteps)
  <2>1. 4 \in Nat
    OBVIOUS
  <2> QED BY <1>4, <2>1, Zenon
<1> QED BY <1>3, <1>5

LEMMA ContentsTyped ==
  /\ \A keys \in Stored : keys \in Contents(Keys)
  /\ \A keys \in Contents(Keys) :
       /\ Exported(keys) \in Contents(Keys)
       /\ LoadedLists(keys) \in [Lists -> Row] /\ LoadedIsolation(keys) \in SUBSET Clients
       /\ \A key \in Keys : \A value \in Values \cap ValuesOf(key) : [keys EXCEPT ![key] = value] \in Contents(Keys)
  /\ [key \in Keys |-> Absent] \in Contents(Keys)
<1>1. \A key \in Keys : Absent \in Values /\ Absent \in ValuesOf(key)
  BY KeyNames DEF ValuesOf, Values, Plain
<1>2. ASSUME NEW keys \in Stored PROVE keys \in Contents(Keys)
  <2>1. keys = [key \in Keys |-> keys[key]]
    BY ConfigAssumption
  <2>2. \A key \in Keys : keys[key] \in Values
    BY DEF Values
  <2>3. keys \in [Keys -> Values]
    BY <2>1, <2>2
  <2>4. \A key \in Keys : keys[key] \in ValuesOf(key)
    <3>1. \A l \in Lists : keys[l] \in {Absent} \cup Row
      BY ConfigAssumption DEF Row
    <3>2. keys["dhcp_res"] \in {Absent} \cup SUBSET Clients
      BY ConfigAssumption
    <3> QED BY <2>2, <3>1, <3>2 DEF ValuesOf
  <2> QED BY <2>3, <2>4 DEF Contents
<1>3. ASSUME NEW keys \in Contents(Keys) PROVE Exported(keys) \in Contents(Keys)
  BY <1>1 DEF Contents, Exported
<1>4. ASSUME NEW keys \in Contents(Keys)
      PROVE  LoadedLists(keys) \in [Lists -> Row] /\ LoadedIsolation(keys) \in SUBSET Clients
  <2>1. EmptyList \in Row
    BY DEF EmptyList, Row
  <2>2. \A l \in Lists : keys[l] \in {Absent} \cup Row
    BY KeyNames DEF Contents, ValuesOf
  <2>3. keys["dhcp_res"] \in {Absent} \cup SUBSET Clients
    BY KeyNames DEF Contents, ValuesOf
  <2> QED BY <2>1, <2>2, <2>3 DEF LoadedLists, LoadedIsolation
<1>5. ASSUME NEW keys \in Contents(Keys), NEW key \in Keys, NEW value \in Values \cap ValuesOf(key)
      PROVE  [keys EXCEPT ![key] = value] \in Contents(Keys)
  BY DEF Contents
<1>6. [key \in Keys |-> Absent] \in Contents(Keys)
  BY <1>1 DEF Contents
<1> QED BY <1>2, <1>3, <1>4, <1>5, <1>6

LEMMA InitTypeOK == Init => TypeOK
<1> SUFFICES ASSUME Init PROVE TypeOK
  OBVIOUS
<1>1. flash \in Contents(Keys)
  BY ContentsTyped DEF Init
<1>2. acl_lists \in [Lists -> Row] /\ isolated \in SUBSET Clients
  BY <1>1, ContentsTyped DEF Init
<1>3. file \in Contents(Keys)
  BY ContentsTyped DEF Init
<1>4. DOMAIN promised = Keys
  BY <1>1 DEF Init, Contents
<1>5. todo \in [Tasks -> Seq(AnySteps)]
  BY DEF Init
<1>6. image \in [Partitions -> BOOLEAN] /\ running \in Partitions /\ boot \in Partitions
  BY DEF Init, Partitions
<1> QED BY <1>1, <1>2, <1>3, <1>4, <1>5, <1>6 DEF TypeOK

LEMMA FirmwareTyped ==
  ASSUME TypeOK, Next
  PROVE  image' \in [Partitions -> BOOLEAN] /\ running' \in Partitions /\ boot' \in Partitions
<1>1. CASE UNCHANGED firmware
  BY <1>1 DEF TypeOK, firmware
<1>2. CASE Upload
  BY <1>2 DEF TypeOK, Upload
<1>3. CASE Received
  BY <1>3 DEF TypeOK, Received, Partitions
<1>4. CASE Restart
  BY <1>4 DEF TypeOK, Restart, Partitions
<1> QED
  BY <1>1, <1>2, <1>3, <1>4
     DEF Next, Packets, Calls, Steps, system, Console, Start, Login, Logout, PasswordForm, Expire, Page,
         SettingsForm, AddForm, DeleteForm, ClearForm, ReserveForm, Export, ButtonHeld, ReceiveFails,
         EraseKeys, ImportKey, WriteFails, SwitchUplink, SwitchSession, Restart

LEMMA FileTyped ==
  ASSUME TypeOK, Next PROVE file' \in Contents(Keys)
<1>1. CASE UNCHANGED file
  BY <1>1 DEF TypeOK
<1>2. CASE Export
  BY <1>2, ContentsTyped DEF TypeOK, Export
<1> QED
  BY <1>1, <1>2
     DEF Next, Packets, Calls, Steps, system, pages, Console, Start, Login, Logout, PasswordForm, Expire,
         Page, SettingsForm, AddForm, DeleteForm, ClearForm, ReserveForm, ButtonHeld, Upload, ReceiveFails,
         Received, EraseKeys, ImportKey, WriteFails, SwitchUplink, SwitchSession, Restart

Data ==
  /\ acl_lists \in [Lists -> Row] /\ isolated \in SUBSET Clients
  /\ flash \in Contents(Keys) /\ DOMAIN promised = Keys
  /\ todo \in [Tasks -> Seq(AnySteps)]

LEMMA CallTyped ==
  ASSUME Data, NEW t \in Tasks, NEW steps \in Seq(AnySteps), Call(t, steps)
  PROVE  todo' \in [Tasks -> Seq(AnySteps)] /\ todo' = [todo EXCEPT ![t] = steps]
BY DEF Data, Call

LEMMA DoneTyped ==
  ASSUME Data, NEW t \in Tasks, ~Idle(t)
  PROVE  /\ Done(t) => todo' \in [Tasks -> Seq(AnySteps)]
         /\ \A steps \in Seq(AnySteps) :
              todo' = [todo EXCEPT ![t] = steps \o Tail(@)] => todo' \in [Tasks -> Seq(AnySteps)]
<1>1. todo[t] \in Seq(AnySteps) /\ todo[t] # <<>>
  BY DEF Data, Idle
<1>2. Tail(todo[t]) \in Seq(AnySteps)
  BY <1>1, TailTyped
<1>3. \A steps \in Seq(AnySteps) : steps \o Tail(todo[t]) \in Seq(AnySteps)
  BY <1>2, Joined
<1> QED BY <1>2, <1>3 DEF Done, Data

LEMMA StartData ==
  ASSUME Data, NEW t \in Tasks, NEW steps \in Seq(CallSteps) \cup Imports, Start(t, steps)
  PROVE  Data'
<1>1. steps \in Seq(AnySteps)
  BY StepsTyped
<1> QED BY <1>1, CallTyped DEF Start, Data, Promise, Outcome, tables

LEMMA EditData ==
  ASSUME Data, NEW t \in Tasks, NEW l \in Lists, NEW slots \in Row, Edit(t, l, slots)
  PROVE  Data'
<1>1. <<Step("snapshot")>> \in Seq(AnySteps)
  BY StepsTyped
<1> QED BY <1>1, CallTyped DEF Edit, Data, Promise, Outcome

LEMMA IsolationData ==
  ASSUME Data, NEW t \in Tasks, NEW clients \in SUBSET Clients, SetIsolation(t, clients)
  PROVE  Data'
<1>1. <<Step("count"), Step("save")>> \in Seq(AnySteps)
  BY StepsTyped
<1> QED BY <1>1, CallTyped DEF SetIsolation, Data, Promise, Outcome

\* The step of a call that is at its head.
LEMMA HeadTyped ==
  ASSUME Data, NEW t \in Tasks, ~Idle(t)
  PROVE  /\ todo[t] \in Seq(AnySteps) /\ todo[t] # <<>> /\ Head(todo[t]) \in AnySteps
         /\ Doing(t, "set") =>
              /\ Head(todo[t]).key \in Keys
              /\ Head(todo[t]).value \in Values \cap ValuesOf(Head(todo[t]).key)
         /\ Doing(t, "import") =>
              \E K \in (SUBSET Keys) \ {{}} : Head(todo[t]).value \in Contents(K)
         /\ Doing(t, "store") => Head(todo[t]).value \in Nat
<1>1. todo[t] \in Seq(AnySteps) /\ todo[t] # <<>> /\ Head(todo[t]) \in AnySteps
  BY TailTyped DEF Data, Idle
<1>2. ASSUME NEW step \in AnySteps, step.op = "set"
      PROVE  step.key \in Keys /\ step.value \in Values \cap ValuesOf(step.key)
  <2>1. step \in SetSteps(Keys, Values) \/ step \in SetSteps(Settings \ {"dhcp_res"}, Plain)
    BY <1>2 DEF AnySteps, CallSteps, PlainSteps, ImportSteps
  <2>2. step.key \in Keys /\ step.value \in Values /\ step.value \in ValuesOf(step.key)
    <3>1. \A value : value \in Plain => value \in Values
      BY DEF Values
    <3>2. Settings \ {"dhcp_res"} \subseteq Keys
      BY KeyNames
    <3>3. \A K, V : step \in SetSteps(K, V) => step.key \in K /\ step.value \in V /\ step.value \in ValuesOf(step.key)
      BY DEF SetSteps
    <3> QED BY <2>1, <3>1, <3>2, <3>3
  <2> QED BY <2>2
<1>3. ASSUME NEW step \in AnySteps, step.op = "import"
      PROVE  \E K \in (SUBSET Keys) \ {{}} : step.value \in Contents(K)
  <2>1. step \in ImportSteps
    BY <1>3 DEF AnySteps, SetSteps, CallSteps, PlainSteps
  <2>2. step.value \in UNION {Contents(L) : L \in (SUBSET Keys) \ {{}}}
    BY <2>1 DEF ImportSteps, PlainSteps
  <2> QED BY <2>2
<1>4. ASSUME NEW step \in AnySteps, step.op = "store" PROVE step.value \in Nat
  BY <1>4 DEF AnySteps, SetSteps, CallSteps, PlainSteps, ImportSteps
<1> QED BY <1>1, <1>2, <1>3, <1>4 DEF Doing

\* A write that fails leaves a later part of the call, and everything else as it is.
LEMMA FailureLeaves ==
  ASSUME Data, NEW t \in Tasks, WriteFails(t)
  PROVE  /\ ~Idle(t) /\ Head(todo[t]).op \in {"set", "erase", "save"}
         /\ todo' \in [Tasks -> Seq(AnySteps)] /\ \A other \in Tasks \ {t} : todo'[other] = todo[other]
         /\ \E n \in Nat :
              /\ n \in DOMAIN todo[t] /\ todo'[t] = SubSeq(todo[t], n + 1, Len(todo[t]))
              /\ Head(todo[t]).op = "save" => n = 1
              /\ doubtful' = doubtful \cup Touched(SubSeq(todo[t], 1, n))
         /\ UNCHANGED <<acl_lists, isolated, isolated_count, flash, promised>>
<1>1. ~Idle(t) /\ Head(todo[t]).op \in {"set", "erase", "save"}
  BY DEF WriteFails, Doing
<1>2. todo[t] \in Seq(AnySteps) /\ todo[t] # <<>>
  BY <1>1, HeadTyped
<1>3. PICK n \in DOMAIN todo[t] :
        /\ \A i \in 2 .. n : i \in DOMAIN todo[t] /\ ~Doing(t, "save") /\ Depends(t, todo[t][i])
        /\ doubtful' = doubtful \cup Touched(SubSeq(todo[t], 1, n))
        /\ todo' = [todo EXCEPT ![t] = SubSeq(@, n + 1, Len(@))]
  BY DEF WriteFails, Fails
<1>4. n \in Nat /\ SubSeq(todo[t], n + 1, Len(todo[t])) \in Seq(AnySteps)
  BY <1>2
<1>5. Head(todo[t]).op = "save" => n = 1
  <2>1. n \in Nat /\ n >= 1
    BY <1>2
  <2>2. n # 1 => 2 \in 2 .. n
    BY <2>1
  <2> QED BY <1>1, <1>3, <2>2 DEF Doing
<1>6. UNCHANGED <<acl_lists, isolated, isolated_count, flash, promised>>
  BY DEF WriteFails, Fails, tables
<1> QED BY <1>1, <1>3, <1>4, <1>5, <1>6 DEF Data

LEMMA StepData ==
  ASSUME Data, NEW t \in Tasks, Works(t)
  PROVE  Data'
<1>1. (\A op : Doing(t, op) => ~Idle(t)) /\ flash \in Contents(Keys)
  BY DEF Doing, Data
<1>2. CASE Snapshot(t)
  <2>1. Saves(acl_lists) \in Seq(AnySteps)
    BY SavesTyped DEF Data
  <2> QED BY <1>1, <1>2, <2>1, DoneTyped DEF Snapshot, Data, tables, promises
<1>3. CASE WriteKey(t)
  <2>1. flash' \in Contents(Keys)
    BY <1>1, <1>3, HeadTyped, ContentsTyped DEF WriteKey, Data
  <2> QED BY <1>1, <1>3, <2>1, DoneTyped DEF WriteKey, Data, tables, promises
<1>4. CASE Count(t)
  <2>1. Cardinality(isolated) \in Nat
    BY FilterAssumption, FS_Subset, FS_CardinalityType DEF Data
  <2>2. <<[Step("store") EXCEPT !.value = Cardinality(isolated)]>> \in Seq(AnySteps)
    BY <2>1, StepsTyped
  <2> QED BY <1>1, <1>4, <2>2, DoneTyped DEF Count, Data, tables, promises
<1>5. CASE StoreCount(t)
  BY <1>1, <1>5, DoneTyped DEF StoreCount, Data, promises
<1>6. CASE SaveReservations(t)
  <2>1. isolated \in Values \cap ValuesOf("dhcp_res")
    BY KeyNames DEF Data, Values, ValuesOf
  <2>2. flash' \in Contents(Keys)
    BY <1>6, <2>1, KeyNames, ContentsTyped DEF SaveReservations, Data
  <2> QED BY <1>1, <1>6, <2>2, DoneTyped DEF SaveReservations, Data, tables, promises
<1>7. CASE ClearReservations(t)
  <2>1. <<Step("count"), Step("save")>> \in Seq(AnySteps)
    BY StepsTyped
  <2> QED BY <1>1, <1>7, <2>1, DoneTyped DEF ClearReservations, Data, promises
<1>8. CASE EraseKeys(t)
  <2>1. flash' \in Contents(Keys)
    BY <1>8, ContentsTyped DEF EraseKeys
  <2> QED BY <1>1, <1>8, <2>1, DoneTyped DEF EraseKeys, Data, tables, promises
<1>9. CASE ImportKey(t)
  <2> DEFINE left == Head(todo[t]).value
             key == CHOOSE k \in DOMAIN left : TRUE
             rest == Restrict(left, DOMAIN left \ {key})
  <2>1. PICK K \in (SUBSET Keys) \ {{}} : left \in Contents(K)
    BY <1>1, <1>9, HeadTyped DEF ImportKey
  <2>2. DOMAIN left = K /\ key \in K /\ left[key] \in Values \cap ValuesOf(key)
    BY <2>1 DEF Contents
  <2>3. flash' \in Contents(Keys)
    <3>1. [flash EXCEPT ![key] = left[key]] \in Contents(Keys)
      BY <1>1, <2>1, <2>2, ContentsTyped
    <3> QED BY <1>1, <1>9, <3>1 DEF ImportKey, Fails
  <2>4. rest \in Contents(K \ {key}) /\ DOMAIN rest = K \ {key}
    BY <2>1, <2>2 DEF Restrict, Contents
  <2>5. DOMAIN rest # {} => <<[Step("import") EXCEPT !.value = rest]>> \in Seq(AnySteps)
    <3>1. DOMAIN rest # {} => K \ {key} \in (SUBSET Keys) \ {{}}
      BY <2>4
    <3> HIDE DEF rest
    <3>2. [Step("import") EXCEPT !.value = rest] = [op |-> "import", key |-> "none", value |-> rest]
      BY DEF Step
    <3> DEFINE All == UNION {Contents(L) : L \in (SUBSET Keys) \ {{}}}
    <3>3. DOMAIN rest # {} => rest \in All
      BY <2>4, <3>1
    <3> HIDE DEF All
    <3>4. DOMAIN rest # {} => [Step("import") EXCEPT !.value = rest] \in [op : {"import"}, key : {"none"}, value : All]
      BY <3>2, <3>3
    <3>5. DOMAIN rest # {} => [Step("import") EXCEPT !.value = rest] \in ImportSteps
      BY <3>4 DEF All, ImportSteps, PlainSteps
    <3> QED BY <3>5 DEF AnySteps
  <2>6. todo' \in [Tasks -> Seq(AnySteps)]
    BY <1>1, <1>9, <2>5, DoneTyped DEF ImportKey
  <2> QED BY <1>9, <2>3, <2>6 DEF ImportKey, Data, tables
<1>10. CASE Passes(t)
  BY <1>10, DoneTyped DEF Passes, Data, promises
<1>11. CASE WriteFails(t)
  BY <1>11, FailureLeaves DEF Data
<1> QED BY <1>2, <1>3, <1>4, <1>5, <1>6, <1>7, <1>8, <1>9, <1>10, <1>11 DEF Save, Works

LEMMA NextTypeOK ==
  ASSUME TypeOK, Next PROVE TypeOK'
<1>1. Data
  BY DEF TypeOK, Data
<1>2. ASSUME Quiet PROVE Data'
  BY <1>1, <1>2 DEF Quiet, Data, promises
<1>3. ASSUME Receives PROVE Data'
  <2>1. <<Step("receive")>> \in Seq(AnySteps) /\ Httpd \in Tasks
    BY StepsTyped, ConfigAssumption
  <2> QED BY <1>1, <1>3, <2>1, CallTyped DEF Receives, Data, promises
<1>4. ASSUME Restart PROVE Data'
  <2>1. todo' \in [Tasks -> Seq(AnySteps)]
    BY <1>4 DEF Restart
  <2>2. DOMAIN promised' = Keys /\ flash' \in Contents(Keys)
    BY <1>1, <1>4 DEF Restart, Data, Contents
  <2> QED BY <1>1, <1>4, <2>1, <2>2, ContentsTyped DEF Restart, Data
<1>5. Data'
  BY <1>1, <1>2, <1>3, <1>4, NextCases, StartData, EditData, IsolationData, StepData DEF TypeOK
<1> QED BY <1>5, FileTyped, FirmwareTyped DEF Data, TypeOK
-----------------------------------------------------------------------------
(* The partition that runs *)

LEMMA NextImage ==
  ASSUME TypeOK, ImageKept, Next PROVE ImageKept'
<1>1. CASE UNCHANGED <<image, running>>
  BY <1>1 DEF ImageKept
<1>2. CASE Upload
  BY <1>2 DEF TypeOK, Upload, ImageKept, Partitions
<1>3. CASE Received
  BY <1>3 DEF TypeOK, Received, ImageKept, Partitions
<1>4. CASE Restart
  BY <1>4 DEF TypeOK, Restart, ImageKept, Partitions
<1> QED
  BY <1>1, <1>2, <1>3, <1>4
     DEF Next, Packets, Calls, Steps, system, firmware, Console, Start, Login, Logout, PasswordForm, Expire,
         Page, SettingsForm, AddForm, DeleteForm, ClearForm, ReserveForm, Export, ButtonHeld, ReceiveFails,
         EraseKeys, ImportKey, WriteFails, SwitchUplink, SwitchSession
-----------------------------------------------------------------------------
(* The order of a call's steps *)

\* A call begins with the copy of the lists or with the count, if it has one; the save
\* of the reservations follows the count.
Bare(s) == \A i \in DOMAIN s : s[i].op \notin {"snapshot", "count", "store", "save"}
Prompt(s) ==
  \A i \in DOMAIN s :
    /\ s[i].op \in {"snapshot", "count", "store"} => i = 1
    /\ s[i].op = "save" => i = 1 \/ (i = 2 /\ s[1].op \in {"count", "store"})
SavesFirst == \A t \in Tasks : Prompt(todo[t])

LEMMA TailPrompt ==
  ASSUME NEW S, NEW s \in Seq(S), s # <<>>, Prompt(s)
  PROVE  /\ Prompt(Tail(s))
         /\ \A i \in DOMAIN Tail(s) :
              /\ Tail(s)[i].op \notin {"snapshot", "count", "store"}
              /\ Tail(s)[i].op = "save" => i = 1 /\ Head(s).op \in {"count", "store"}
<1>1. /\ Head(s) = s[1] /\ DOMAIN Tail(s) = 1 .. (Len(s) - 1) /\ DOMAIN s = 1 .. Len(s) /\ Len(s) \in Nat
      /\ \A i \in DOMAIN Tail(s) : Tail(s)[i] = s[i + 1]
  OBVIOUS
<1>2. \A i \in DOMAIN Tail(s) : i + 1 \in DOMAIN s /\ i \in Nat /\ i >= 1 /\ i + 1 # 1
  BY <1>1
<1>3. \A i \in DOMAIN Tail(s) :
        /\ Tail(s)[i].op \notin {"snapshot", "count", "store"}
        /\ Tail(s)[i].op = "save" => i = 1 /\ s[1].op \in {"count", "store"}
  BY <1>1, <1>2 DEF Prompt
<1> QED BY <1>1, <1>3 DEF Prompt

LEMMA PrefixPrompt ==
  ASSUME NEW S, NEW p \in Seq(S), NEW r \in Seq(S), Prompt(p), p # <<>>,
         \A i \in DOMAIN r : r[i].op \notin {"snapshot", "count", "store"}
                             /\ (r[i].op = "save" => i = 1 /\ Len(p) = 1 /\ p[1].op = "store")
  PROVE  Prompt(p \o r)
<1>1. /\ Len(p) \in Nat \ {0} /\ DOMAIN p = 1 .. Len(p)
      /\ (p \o r)[1] = p[1] /\ \A i \in DOMAIN p : (p \o r)[i] = p[i]
      /\ \A i \in DOMAIN (p \o r) \ DOMAIN p :
           i - Len(p) \in DOMAIN r /\ (p \o r)[i] = r[i - Len(p)]
  OBVIOUS
<1>2. ASSUME NEW i \in DOMAIN (p \o r), i \in DOMAIN p
      PROVE  /\ (p \o r)[i].op \in {"snapshot", "count", "store"} => i = 1
             /\ (p \o r)[i].op = "save" => i = 1 \/ (i = 2 /\ (p \o r)[1].op \in {"count", "store"})
  BY <1>1, <1>2 DEF Prompt
<1>3. ASSUME NEW i \in DOMAIN (p \o r), i \notin DOMAIN p
      PROVE  /\ (p \o r)[i].op \notin {"snapshot", "count", "store"}
             /\ (p \o r)[i].op = "save" => i = 2 /\ (p \o r)[1].op \in {"count", "store"}
  <2>1. i - Len(p) \in DOMAIN r /\ (p \o r)[i] = r[i - Len(p)]
    BY <1>1, <1>3
  <2>2. i \in Nat /\ (i - Len(p) = 1 /\ Len(p) = 1 => i = 2)
    BY <1>1
  <2> QED BY <1>1, <2>1, <2>2
<1> QED BY <1>2, <1>3 DEF Prompt

LEMMA RestPrompt ==
  ASSUME NEW S, NEW s \in Seq(S), s # <<>>, Prompt(s), NEW n \in Nat, n \in DOMAIN s,
         Head(s).op \notin {"count", "store"}
  PROVE  LET r == SubSeq(s, n + 1, Len(s)) IN Prompt(r) /\ Bare(r)
<1> DEFINE r == SubSeq(s, n + 1, Len(s))
<1>1. /\ \A i \in DOMAIN r : r[i] = s[i + n] /\ i \in Nat /\ i >= 1 /\ i + n \in DOMAIN s
      /\ n >= 1 /\ Head(s) = s[1]
  BY RestTouched
<1> HIDE DEF r
<1>2. \A i \in DOMAIN r : i + n # 1
  BY <1>1
<1>3. Bare(r)
  BY <1>1, <1>2 DEF Prompt, Bare
<1>4. Prompt(r)
  BY <1>3 DEF Prompt, Bare
<1> QED BY <1>3, <1>4 DEF r

LEMMA CallOps ==
  ASSUME NEW steps \in Seq(CallSteps) \cup Imports PROVE Bare(steps)
<1>1. \A step \in CallSteps : step.op \notin {"snapshot", "count", "store", "save"}
  BY DEF CallSteps, SetSteps, PlainSteps
<1>2. \A step \in ImportSteps : step.op = "import"
  BY DEF ImportSteps, PlainSteps
<1>3. CASE steps \in Seq(CallSteps)
  BY <1>1, <1>3 DEF Bare
<1>4. ASSUME NEW step \in ImportSteps, steps = <<Step("erase"), step>> PROVE Bare(steps)
  BY <1>2, <1>4 DEF Bare, Step
<1> QED BY <1>3, <1>4 DEF Imports

LEMMA NextSavesFirst ==
  ASSUME TypeOK, SavesFirst, Next PROVE SavesFirst'
<1>1. Data /\ acl_lists \in [Lists -> Row] /\ file \in Contents(Keys)
  BY DEF TypeOK, Data
<1>2. ASSUME NEW t \in Tasks, NEW steps, Prompt(steps), todo' = [todo EXCEPT ![t] = steps] PROVE SavesFirst'
  BY <1>1, <1>2 DEF SavesFirst, Data
<1>3. ASSUME NEW t \in Tasks, ~Idle(t), Done(t) PROVE SavesFirst'
  BY <1>2, <1>3, <1>1, HeadTyped, TailPrompt DEF Done, SavesFirst
<1>4. ASSUME NEW t \in Tasks, NEW steps \in Seq(AnySteps), steps # <<>>, Prompt(steps),
             todo' = [todo EXCEPT ![t] = steps \o Tail(@)], ~Idle(t),
             Head(todo[t]).op \in {"count", "store"} => Len(steps) = 1 /\ steps[1].op = "store"
      PROVE  SavesFirst'
  <2>1. todo[t] \in Seq(AnySteps) /\ todo[t] # <<>> /\ Prompt(todo[t]) /\ Tail(todo[t]) \in Seq(AnySteps)
    BY <1>1, <1>4, HeadTyped, TailTyped DEF SavesFirst
  <2>2. Prompt(steps \o Tail(todo[t]))
    BY <1>4, <2>1, TailPrompt, PrefixPrompt
  <2>3. todo' = [todo EXCEPT ![t] = steps \o Tail(todo[t])]
    BY <1>4
  <2> QED BY <1>2, <2>2, <2>3
<1>5. \A steps : Bare(steps) => Prompt(steps)
  BY DEF Bare, Prompt
<1>6. \A op : op # "save" => Prompt(<<Step(op)>>)
  BY DEF Prompt
<1>7. Prompt(<<Step("count"), Step("save")>>)
  BY DEF Prompt, Step
<1>8. CASE Quiet \/ Restart
  <2>1. Prompt(<<>>)
    BY DEF Prompt
  <2> QED BY <1>8, <2>1 DEF Quiet, Restart, SavesFirst
<1>9. CASE Receives
  BY <1>2, <1>6, <1>9, ConfigAssumption DEF Receives, Call
<1>10. ASSUME NEW t \in Tasks, NEW steps \in Seq(CallSteps) \cup Imports, Start(t, steps) PROVE SavesFirst'
  BY <1>2, <1>5, <1>10, CallOps DEF Start, Call
<1>11. ASSUME NEW t \in Tasks, NEW l \in Lists, NEW slots \in Row, Edit(t, l, slots) PROVE SavesFirst'
  BY <1>2, <1>6, <1>11 DEF Edit, Call
<1>12. ASSUME NEW t \in Tasks, NEW clients \in SUBSET Clients, SetIsolation(t, clients) PROVE SavesFirst'
  BY <1>2, <1>7, <1>12 DEF SetIsolation, Call
<1>13. ASSUME NEW t \in Tasks, Works(t) PROVE SavesFirst'
  <2>1. \A op : Doing(t, op) => ~Idle(t) /\ Head(todo[t]).op = op
    BY DEF Doing
  <2>2. CASE Snapshot(t)
    <3>1. Prompt(Saves(acl_lists)) /\ Saves(acl_lists) # <<>>
      <4>1. \A i \in 1 .. 4 : Saves(acl_lists)[i].op = "set"
        <5>1. \A key, value : Set(key, value).op = "set"
          BY DEF Set
        <5>2. \A i \in 1 .. 4 : Saves(acl_lists)[i] = Set(ListOrder[i], acl_lists[ListOrder[i]])
          BY SavesTouched
        <5> QED BY <5>1, <5>2
      <4>2. Prompt(Saves(acl_lists))
        BY <4>1, SavesTouched DEF Prompt
      <4>3. DOMAIN <<>> = {} /\ 1 \in DOMAIN Saves(acl_lists)
        BY SavesTouched
      <4> QED BY <4>2, <4>3
    <3>2. Saves(acl_lists) \in Seq(AnySteps)
      BY <1>1, SavesTyped
    <3>3. todo' = [todo EXCEPT ![t] = Saves(acl_lists) \o Tail(@)]
      BY <2>2 DEF Snapshot
    <3>4. ~Idle(t) /\ Head(todo[t]).op = "snapshot"
      BY <2>1, <2>2 DEF Snapshot
    <3> QED BY <1>4, <3>1, <3>2, <3>3, <3>4
  <2>3. CASE Count(t)
    <3>1. Cardinality(isolated) \in Nat
      BY <1>1, FilterAssumption, FS_Subset, FS_CardinalityType DEF Data
    <3> DEFINE step == [Step("store") EXCEPT !.value = Cardinality(isolated)]
    <3>2. step \in AnySteps /\ step.op = "store"
      BY <3>1, StepsTyped DEF Step
    <3> HIDE DEF step
    <3>3. Prompt(<<step>>) /\ <<step>> \in Seq(AnySteps) /\ <<step>> # <<>> /\ Len(<<step>>) = 1 /\ <<step>>[1] = step
      BY <3>2 DEF Prompt
    <3>4. todo' = [todo EXCEPT ![t] = <<step>> \o Tail(@)]
      BY <2>3 DEF Count, step
    <3> QED BY <1>4, <2>1, <2>3, <3>2, <3>3, <3>4 DEF Count
  <2>4. CASE ClearReservations(t)
    <3>1. <<Step("count"), Step("save")>> \in Seq(AnySteps) /\ <<Step("count"), Step("save")>> # <<>>
      BY StepsTyped
    <3>2. todo' = [todo EXCEPT ![t] = <<Step("count"), Step("save")>> \o Tail(@)]
      BY <2>4 DEF ClearReservations
    <3>3. ~Idle(t) /\ Head(todo[t]).op = "clear"
      BY <2>1, <2>4 DEF ClearReservations
    <3> QED BY <1>4, <1>7, <3>1, <3>2, <3>3
  <2>5. CASE ImportKey(t)
    <3> DEFINE left == Head(todo[t]).value
               key == CHOOSE k \in DOMAIN left : TRUE
               rest == Restrict(left, DOMAIN left \ {key})
               step == [Step("import") EXCEPT !.value = rest]
    <3>1. CASE Done(t)
      BY <1>3, <2>1, <2>5, <3>1 DEF ImportKey
    <3>2. CASE ~Done(t)
      <4>1. todo' = [todo EXCEPT ![t] = <<step>> \o Tail(@)]
        BY <2>5, <3>2 DEF ImportKey
      <4>2. step.op = "import"
        BY DEF Step
      <4>3. todo' \in [Tasks -> Seq(AnySteps)]
        BY <1>1, <2>5, StepData DEF Works, Data
      <4> HIDE DEF step
      <4>4. todo[t] \in Seq(AnySteps) /\ todo[t] # <<>> /\ Prompt(todo[t]) /\ Tail(todo[t]) \in Seq(AnySteps)
        BY <1>1, <2>1, <2>5, HeadTyped, TailTyped DEF SavesFirst, ImportKey
      <4>5. todo'[t] = <<step>> \o Tail(todo[t]) /\ todo'[t] \in Seq(AnySteps)
        BY <1>1, <4>1, <4>3 DEF Data
      <4>6. step \in AnySteps
        BY <4>4, <4>5
      <4>7. Prompt(<<step>>) /\ <<step>> \in Seq(AnySteps) /\ <<step>> # <<>>
        BY <4>2, <4>6 DEF Prompt
      <4>8. ~Idle(t) /\ Head(todo[t]).op = "import"
        BY <2>1, <2>5 DEF ImportKey
      <4> QED BY <1>4, <4>1, <4>7, <4>8
    <3> QED BY <3>1, <3>2
  <2>6. CASE Done(t) /\ ~Idle(t)
    BY <1>3, <2>6
  <2>7. CASE WriteFails(t)
    <3>1. PICK n \in Nat : n \in DOMAIN todo[t] /\ todo'[t] = SubSeq(todo[t], n + 1, Len(todo[t]))
      BY <1>1, <2>7, FailureLeaves
    <3>2. todo[t] \in Seq(AnySteps) /\ todo' \in [Tasks -> Seq(AnySteps)] /\ Prompt(todo[t])
      BY <1>1, <2>7, HeadTyped, FailureLeaves DEF SavesFirst
    <3>3. todo[t] # <<>> /\ Head(todo[t]).op \notin {"count", "store"}
      BY <1>1, <2>7, FailureLeaves, HeadTyped
    <3>4. Prompt(todo'[t])
      BY <3>1, <3>2, <3>3, RestPrompt
    <3> QED BY <1>1, <2>7, <3>4, FailureLeaves DEF SavesFirst
  <2> QED BY <1>13, <2>1, <2>2, <2>3, <2>4, <2>5, <2>6, <2>7
          DEF Works, Save, WriteKey, StoreCount, SaveReservations, EraseKeys, Passes
<1> QED BY <1>1, <1>8, <1>9, <1>10, <1>11, <1>12, <1>13, NextCases
-----------------------------------------------------------------------------
(* A step of a call *)

LEMMA TouchesByOp ==
  /\ \A step : step.op = "set" => Touches(step) = {step.key}
  /\ \A step : step.op = "import" => Touches(step) = DOMAIN step.value
  /\ \A step : step.op = "erase" => Touches(step) = Keys
  /\ \A step : step.op = "snapshot" => Touches(step) = Lists
  /\ \A step : step.op \in {"count", "store"} => Touches(step) = {"isolated_count"}
  /\ \A step : step.op = "save" => Touches(step) = {"dhcp_res"}
  /\ \A step : step.op = "clear" => Touches(step) = {"isolated_count", "dhcp_res"}
  /\ \A step : step.op \in {"restart", "login", "logout", "receive", "uplink"} => Touches(step) = {}
BY DEF Touches

\* What flash will hold under a key when the step that decides about it is done.
Due(step, key, lists, clients) ==
  CASE step.op = "snapshot" -> lists[key]
    [] step.op = "save" -> clients
    [] step.op = "clear" -> {}
    [] OTHER -> Written(step, key)

\* A step writes what it is due to, or leaves it to the steps that it is spelled out to,
\* unless it fails.
WritesDue(t) ==
  \A key \in Keys \ doubtful' :
    /\ key \notin Touched(todo[t]) => flash'[key] = flash[key]
    /\ key \in Touched(todo[t]) \ Touched(todo'[t]) =>
         /\ Decides(todo[t], 1, key)
         /\ flash'[key] = Due(Head(todo[t]), key, acl_lists, isolated)
LeavesDue(t) ==
  \A key \in Keys \ doubtful' : \A i : Decides(todo'[t], i, key) =>
    \E j : /\ Decides(todo[t], j, key)
           /\ Due(todo'[t][i], key, acl_lists', isolated') = Due(todo[t][j], key, acl_lists, isolated)
Alone(t) ==
  /\ Touched(todo'[t]) \subseteq Touched(todo[t])
  /\ Touched(todo[t]) \ Touched(todo'[t]) \subseteq Touches(Head(todo[t])) \cup doubtful'
  /\ \A other \in Tasks \ {t} : todo'[other] = todo[other]
  /\ doubtful \subseteq doubtful' /\ UNCHANGED <<acl_lists, promised>>
  /\ isolated' # isolated => "dhcp_res" \in Touched(todo[t])

\* A step that is over once it is done.
LEMMA OverDone ==
  ASSUME Data, NEW t \in Tasks, ~Idle(t), Done(t),
         doubtful \subseteq doubtful', UNCHANGED <<acl_lists, isolated, promised>>,
         \A key \in Keys \ doubtful' :
           /\ key \notin Touches(Head(todo[t])) => flash'[key] = flash[key]
           /\ key \in Touches(Head(todo[t])) => flash'[key] = Due(Head(todo[t]), key, acl_lists, isolated)
  PROVE  WritesDue(t) /\ LeavesDue(t) /\ Alone(t)
<1>1. todo[t] \in Seq(AnySteps) /\ todo[t] # <<>>
  BY HeadTyped
<1>2. todo'[t] = Tail(todo[t]) /\ \A other \in Tasks \ {t} : todo'[other] = todo[other]
  BY DEF Done, Data
<1>3. /\ Touched(todo[t]) = Touches(Head(todo[t])) \cup Touched(todo'[t])
      /\ \A i, key : Decides(todo'[t], i, key) => Decides(todo[t], i + 1, key)
      /\ \A key \in Touches(Head(todo[t])) \ Touched(todo'[t]) : Decides(todo[t], 1, key)
  BY <1>1, <1>2, TailTouched
<1>4. WritesDue(t)
  BY <1>3 DEF WritesDue
<1>5. Alone(t)
  BY <1>2, <1>3 DEF Alone
<1>6. LeavesDue(t)
  <2>1. \A i, key : Decides(todo'[t], i, key) => todo'[t][i] = todo[t][i + 1]
    <3>1. \A i \in DOMAIN Tail(todo[t]) : Tail(todo[t])[i] = todo[t][i + 1]
      BY <1>1
    <3> QED BY <1>2, <3>1 DEF Decides
  <2>2. acl_lists' = acl_lists /\ isolated' = isolated
    OBVIOUS
  <2> QED BY <1>3, <2>1, <2>2, Zenon DEF LeavesDue
<1> QED BY <1>4, <1>5, <1>6

\* A step that leaves others in its place.
LEMMA SpelledOut ==
  ASSUME Data, NEW t \in Tasks, ~Idle(t), doubtful \subseteq doubtful', UNCHANGED <<acl_lists, promised>>,
         NEW steps \in Seq(AnySteps), todo' = [todo EXCEPT ![t] = steps \o Tail(@)],
         Touched(steps) \subseteq Touches(Head(todo[t])),
         \A key \in Keys \ doubtful' :
           /\ key \notin Touches(Head(todo[t])) => flash'[key] = flash[key]
           /\ key \in Touches(Head(todo[t])) \ Touched(steps) =>
                flash'[key] = Due(Head(todo[t]), key, acl_lists, isolated),
         \A key \in Keys : \A i : Decides(steps, i, key) =>
           Due(steps[i], key, acl_lists', isolated') = Due(Head(todo[t]), key, acl_lists, isolated),
         isolated' # isolated =>
           /\ "dhcp_res" \in Touches(Head(todo[t]))
           /\ \A j \in DOMAIN Tail(todo[t]) : Tail(todo[t])[j].op # "save"
  PROVE  WritesDue(t) /\ LeavesDue(t) /\ Alone(t)
<1> DEFINE rest == Tail(todo[t])
<1>1. todo[t] \in Seq(AnySteps) /\ todo[t] # <<>> /\ rest \in Seq(AnySteps)
  BY HeadTyped, TailTyped
<1>2. todo'[t] = steps \o rest /\ \A other \in Tasks \ {t} : todo'[other] = todo[other]
  BY DEF Data
<1>3. /\ Touched(todo[t]) = Touches(Head(todo[t])) \cup Touched(rest)
      /\ \A i, key : Decides(rest, i, key) => Decides(todo[t], i + 1, key)
      /\ \A key \in Touches(Head(todo[t])) \ Touched(rest) : Decides(todo[t], 1, key)
  BY <1>1, TailTouched
<1>4. /\ Touched(todo'[t]) = Touched(steps) \cup Touched(rest)
      /\ \A i \in DOMAIN steps : todo'[t][i] = steps[i]
      /\ \A i \in DOMAIN rest : todo'[t][Len(steps) + i] = rest[i]
      /\ \A i, key : Decides(todo'[t], i, key) =>
           \/ i \in DOMAIN steps /\ Decides(steps, i, key) /\ key \notin Touched(rest)
           \/ \E j \in DOMAIN rest : i = Len(steps) + j /\ Decides(rest, j, key)
  <2> HIDE DEF rest
  <2>1. /\ Touched(steps \o rest) = Touched(steps) \cup Touched(rest)
        /\ \A i \in DOMAIN steps : (steps \o rest)[i] = steps[i]
        /\ \A i \in DOMAIN rest : (steps \o rest)[Len(steps) + i] = rest[i]
        /\ \A i, key : Decides(steps \o rest, i, key) =>
             \/ i \in DOMAIN steps /\ Decides(steps, i, key) /\ key \notin Touched(rest)
             \/ \E j \in DOMAIN rest : i = Len(steps) + j /\ Decides(rest, j, key)
    BY <1>1, PrefixTouched
  <2> QED BY <1>2, <2>1, Zenon
<1> HIDE DEF rest
<1>5. WritesDue(t)
  BY <1>3, <1>4 DEF WritesDue
<1>6. Alone(t)
  BY <1>2, <1>3, <1>4 DEF Alone
<1>7. ASSUME NEW key \in Keys, NEW i, Decides(todo'[t], i, key)
      PROVE  \E j : /\ Decides(todo[t], j, key)
                    /\ Due(todo'[t][i], key, acl_lists', isolated') = Due(todo[t][j], key, acl_lists, isolated)
  <2>1. CASE i \in DOMAIN steps /\ Decides(steps, i, key) /\ key \notin Touched(rest)
    <3>1. key \in Touched(steps)
      BY <2>1, TouchedIs DEF Decides
    <3>2. Decides(todo[t], 1, key) /\ Head(todo[t]) = todo[t][1]
      BY <1>1, <1>3, <2>1, <3>1
    <3>3. Due(todo'[t][i], key, acl_lists', isolated') = Due(Head(todo[t]), key, acl_lists, isolated)
      BY <1>4, <2>1
    <3> QED BY <3>2, <3>3
  <2>2. ASSUME NEW j \in DOMAIN rest, i = Len(steps) + j, Decides(rest, j, key)
        PROVE  /\ Decides(todo[t], j + 1, key)
               /\ Due(todo'[t][i], key, acl_lists', isolated') = Due(todo[t][j + 1], key, acl_lists, isolated)
    <3>1. Decides(todo[t], j + 1, key)
      BY <1>3, <2>2
    <3>2. todo'[t][i] = rest[j] /\ rest[j] = todo[t][j + 1]
      BY <1>1, <1>4, <2>2 DEF rest
    <3>3. isolated' = isolated \/ rest[j].op # "save"
      BY <2>2 DEF rest
    <3>4. Due(rest[j], key, acl_lists', isolated') = Due(rest[j], key, acl_lists, isolated)
      BY <3>3 DEF Due
    <3> QED BY <3>1, <3>2, <3>4
  <2> QED BY <1>4, <1>7, <2>1, <2>2
<1>8. LeavesDue(t)
  BY <1>7 DEF LeavesDue
<1> QED BY <1>5, <1>6, <1>8

LEMMA StepDue ==
  ASSUME Data, SavesFirst, NEW t \in Tasks, Works(t)
  PROVE  WritesDue(t) /\ LeavesDue(t) /\ Alone(t)
<1> DEFINE head == Head(todo[t])
<1>1. \A op : Doing(t, op) => ~Idle(t) /\ head.op = op
  BY DEF Doing
<1>2. flash \in [Keys -> Values]
  BY DEF Data, Contents
<1>12. UNCHANGED promises => doubtful \subseteq doubtful' /\ UNCHANGED promised
  BY DEF promises
<1>3. CASE Snapshot(t)
  <2>1. ~Idle(t) /\ Touches(head) = Lists /\ head.op = "snapshot"
    BY <1>1, <1>3, TouchesByOp DEF Snapshot
  <2>2. Touched(Saves(acl_lists)) = Lists /\ Saves(acl_lists) \in Seq(AnySteps)
    BY SavesTouched, SavesTyped DEF Data
  <2>3. ASSUME NEW key \in Keys, NEW i, Decides(Saves(acl_lists), i, key)
        PROVE  Due(Saves(acl_lists)[i], key, acl_lists', isolated') = Due(head, key, acl_lists, isolated)
    <3>1. Written(Saves(acl_lists)[i], key) = acl_lists[key]
      BY <2>3, SavesTouched
    <3>2. i \in 1 .. 4
      BY <2>3, SavesTouched DEF Decides
    <3>3. Saves(acl_lists)[i].op = "set"
      <4>1. Saves(acl_lists)[i] = Set(ListOrder[i], acl_lists[ListOrder[i]])
        BY <3>2, SavesTouched
      <4> QED BY <4>1 DEF Set
    <3>4. Due(Saves(acl_lists)[i], key, acl_lists', isolated') = acl_lists[key]
      BY <3>1, <3>3 DEF Due
    <3> QED BY <2>1, <3>4 DEF Due
  <2>4. todo' = [todo EXCEPT ![t] = Saves(acl_lists) \o Tail(@)] /\ UNCHANGED <<acl_lists, isolated, flash, promises>>
    BY <1>3 DEF Snapshot, tables
  <2> QED BY <1>12, <2>1, <2>2, <2>3, <2>4, SpelledOut
<1>4. CASE WriteKey(t)
  <2>1. /\ ~Idle(t) /\ Done(t) /\ Touches(head) = {head.key} /\ head.op = "set"
        /\ flash' = [flash EXCEPT ![head.key] = head.value]
    BY <1>1, <1>4, TouchesByOp DEF WriteKey
  <2>2. \A key : Due(head, key, acl_lists, isolated) = head.value
    BY <2>1 DEF Due, Written
  <2> QED BY <1>12, <1>2, <1>4, <2>1, <2>2, OverDone DEF WriteKey, tables
<1>5. CASE Count(t)
  <2> DEFINE step == [Step("store") EXCEPT !.value = Cardinality(isolated)]
  <2>1. ~Idle(t) /\ Touches(head) = {"isolated_count"}
    BY <1>1, <1>5, TouchesByOp DEF Count
  <2>2. step.op = "store"
    BY DEF Step
  <2>3. Cardinality(isolated) \in Nat
    BY FilterAssumption, FS_Subset, FS_CardinalityType DEF Data
  <2>4. step \in AnySteps
    BY <2>3, StepsTyped
  <2>5. /\ todo' = [todo EXCEPT ![t] = <<step>> \o Tail(@)]
        /\ UNCHANGED <<acl_lists, isolated, flash, promises>>
    BY <1>5 DEF Count, tables
  <2> HIDE DEF step
  <2>6. Touched(<<step>>) = {"isolated_count"}
    BY <2>2, ShortTouched, TouchesByOp
  <2>7. ASSUME NEW key \in Keys, NEW i, Decides(<<step>>, i, key) PROVE FALSE
    <3>1. key \in Touched(<<step>>)
      BY <2>7, TouchedIs DEF Decides
    <3> QED BY <2>6, <3>1, KeyNames
  <2>8. \A key \in Keys : key \notin Touches(head)
    BY <2>1, KeyNames
  <2>9. <<step>> \in Seq(AnySteps)
    BY <2>4
  <2> QED BY <1>12, <2>1, <2>5, <2>6, <2>7, <2>8, <2>9, SpelledOut
<1>6. CASE StoreCount(t)
  <2>1. ~Idle(t) /\ Done(t) /\ Touches(head) = {"isolated_count"}
    BY <1>1, <1>6, TouchesByOp DEF StoreCount
  <2> QED BY <1>12, <1>6, <2>1, KeyNames, OverDone DEF StoreCount
<1>7. CASE SaveReservations(t)
  <2>1. /\ ~Idle(t) /\ Done(t) /\ Touches(head) = {"dhcp_res"} /\ head.op = "save"
        /\ flash' = [flash EXCEPT !["dhcp_res"] = isolated]
    BY <1>1, <1>7, TouchesByOp DEF SaveReservations
  <2>2. \A key : Due(head, key, acl_lists, isolated) = isolated
    BY <2>1 DEF Due
  <2> QED BY <1>12, <1>2, <1>7, <2>1, <2>2, OverDone DEF SaveReservations, tables
<1>8. CASE ClearReservations(t)
  <2> DEFINE steps == <<Step("count"), Step("save")>>
  <2>1. ~Idle(t) /\ Touches(head) = {"isolated_count", "dhcp_res"} /\ head.op = "clear"
    BY <1>1, <1>8, TouchesByOp DEF ClearReservations
  <2>2. steps \in Seq(AnySteps) /\ DOMAIN steps = {1, 2} /\ steps[1].op = "count" /\ steps[2].op = "save"
    BY StepsTyped DEF Step
  <2>3. Touched(steps) = {"isolated_count", "dhcp_res"}
    BY <2>2, ShortTouched, TouchesByOp
  <2>4. \A j \in DOMAIN Tail(todo[t]) : Tail(todo[t])[j].op # "save"
    BY <2>1, HeadTyped, TailPrompt DEF SavesFirst
  <2>5. /\ todo' = [todo EXCEPT ![t] = steps \o Tail(@)]
        /\ isolated' = {} /\ UNCHANGED <<acl_lists, flash, promises>>
    BY <1>8 DEF ClearReservations
  <2> HIDE DEF steps
  <2>6. ASSUME NEW key \in Keys, NEW i, Decides(steps, i, key)
        PROVE  Due(steps[i], key, acl_lists', isolated') = Due(head, key, acl_lists, isolated)
    <3>1. i = 2
      BY <2>2, <2>6, KeyNames, TouchesByOp DEF Decides
    <3> QED BY <2>1, <2>2, <2>5, <3>1 DEF Due
  <2> QED BY <1>12, <2>1, <2>2, <2>3, <2>4, <2>5, <2>6, SpelledOut
<1>9. CASE EraseKeys(t)
  <2>1. /\ ~Idle(t) /\ Done(t) /\ Touches(head) = Keys /\ head.op = "erase"
        /\ flash' = [key \in Keys |-> Absent]
    BY <1>1, <1>9, TouchesByOp DEF EraseKeys
  <2>2. \A key : Due(head, key, acl_lists, isolated) = Absent
    BY <2>1 DEF Due, Written
  <2> QED BY <1>12, <1>9, <2>1, <2>2, OverDone DEF EraseKeys, tables
<1>10. CASE ImportKey(t)
  <2> DEFINE left == head.value
             key == CHOOSE k \in DOMAIN left : TRUE
             rest == Restrict(left, DOMAIN left \ {key})
             step == [Step("import") EXCEPT !.value = rest]
  <2>1. ~Idle(t) /\ Touches(head) = DOMAIN left /\ head.op = "import"
    BY <1>1, <1>10, TouchesByOp DEF ImportKey
  <2>2. PICK K \in (SUBSET Keys) \ {{}} : left \in Contents(K)
    BY <1>1, <1>10, HeadTyped DEF ImportKey
  <2>3. DOMAIN left = K /\ key \in K /\ K \subseteq Keys
    BY <2>2 DEF Contents
  <2>4. \/ flash' = [flash EXCEPT ![key] = left[key]] /\ doubtful' = doubtful
        \/ flash' = flash /\ doubtful' = doubtful \cup {key}
    BY <1>10 DEF ImportKey, Fails
  <2>5. DOMAIN rest = K \ {key} /\ \A k \in K \ {key} : rest[k] = left[k]
    BY <2>3 DEF Restrict
  <2>6. \A k : Due(head, k, acl_lists, isolated) = left[k]
    BY <2>1 DEF Due, Written
  <2>7. step.op = "import" /\ step.value = rest
    BY DEF Step
  <2>8. UNCHANGED <<acl_lists, isolated, promised>> /\ doubtful \subseteq doubtful'
    BY <1>10, <2>4 DEF ImportKey, tables
  <2>9. CASE DOMAIN rest = {}
    <3>1. Done(t) /\ K = {key}
      BY <1>10, <2>3, <2>5, <2>9 DEF ImportKey
    <3>2. \A k \in Keys \ doubtful' :
                          /\ k \notin Touches(head) => flash'[k] = flash[k]
                          /\ k \in Touches(head) => flash'[k] = Due(head, k, acl_lists, isolated)
      BY <1>2, <2>1, <2>3, <2>4, <2>6, <3>1
    <3> QED BY <2>1, <2>8, <3>1, <3>2, OverDone
  <2>10. CASE DOMAIN rest # {}
    <3>1. todo' = [todo EXCEPT ![t] = <<step>> \o Tail(@)]
      BY <1>10, <2>10 DEF ImportKey
    <3> HIDE DEF step
    <3>2. <<step>> \in Seq(AnySteps)
      <4>1. Data' /\ todo[t] \in Seq(AnySteps) /\ Tail(todo[t]) \in Seq(AnySteps)
        BY <1>10, <2>1, StepData, HeadTyped, TailTyped
      <4>2. <<step>> \o Tail(todo[t]) \in Seq(AnySteps)
        BY <3>1, <4>1 DEF Data
      <4> QED BY <4>1, <4>2
    <3>3. Touched(<<step>>) = K \ {key}
      BY <2>5, <2>7, ShortTouched, TouchesByOp
    <3>4. ASSUME NEW k \in Keys, NEW i, Decides(<<step>>, i, k)
          PROVE  Due(<<step>>[i], k, acl_lists', isolated') = Due(head, k, acl_lists, isolated)
      <4>1. i = 1 /\ k \in Touched(<<step>>)
        BY <3>4, TouchedIs DEF Decides
      <4>2. Due(step, k, acl_lists', isolated') = rest[k]
        BY <2>7 DEF Due, Written
      <4>3. <<step>>[i] = step /\ rest[k] = left[k]
        BY <2>5, <3>3, <4>1
      <4> QED BY <2>6, <4>2, <4>3
    <3>5. \A k \in Keys \ doubtful' :
                          /\ k \notin Touches(head) => flash'[k] = flash[k]
                          /\ k \in Touches(head) \ Touched(<<step>>) =>
                               flash'[k] = Due(head, k, acl_lists, isolated)
      BY <1>2, <2>1, <2>3, <2>4, <2>6, <3>3
    <3> QED BY <2>1, <2>3, <2>8, <3>1, <3>2, <3>3, <3>4, <3>5, SpelledOut
  <2> QED BY <2>9, <2>10
<1>11. CASE Passes(t)
  <2>1. ~Idle(t) /\ Done(t) /\ Touches(head) = {}
    BY <1>11, TouchesByOp DEF Passes
  <2> QED BY <1>12, <1>11, <2>1, OverDone DEF Passes
<1>13. CASE WriteFails(t)
  <2>1. PICK n \in Nat :
          /\ n \in DOMAIN todo[t] /\ todo'[t] = SubSeq(todo[t], n + 1, Len(todo[t]))
          /\ doubtful' = doubtful \cup Touched(SubSeq(todo[t], 1, n))
    BY <1>13, FailureLeaves
  <2>2. todo[t] \in Seq(AnySteps)
    BY <1>13, FailureLeaves, HeadTyped
  <2>3. /\ Touched(todo[t]) = Touched(SubSeq(todo[t], 1, n)) \cup Touched(todo'[t])
        /\ \A i, key : Decides(todo'[t], i, key) => \E j : Decides(todo[t], j, key) /\ todo'[t][i] = todo[t][j]
    <3> DEFINE rest == SubSeq(todo[t], n + 1, Len(todo[t]))
    <3>1. /\ Touched(todo[t]) = Touched(SubSeq(todo[t], 1, n)) \cup Touched(rest)
          /\ \A i, key : Decides(rest, i, key) => \E j : Decides(todo[t], j, key) /\ rest[i] = todo[t][j]
      BY <2>1, <2>2, RestTouched
    <3>2. todo'[t] = rest
      BY <2>1
    <3> HIDE DEF rest
    <3> QED BY <3>1, <3>2, Zenon
  <2>4. /\ UNCHANGED <<acl_lists, isolated, flash, promised>>
        /\ \A other \in Tasks \ {t} : todo'[other] = todo[other]
    BY <1>13, FailureLeaves
  <2>5. WritesDue(t)
    BY <2>1, <2>3, <2>4 DEF WritesDue
  <2>6. LeavesDue(t)
    BY <2>3, <2>4, Zenon DEF LeavesDue
  <2>7. Alone(t)
    BY <2>1, <2>3, <2>4 DEF Alone
  <2> QED BY <2>5, <2>6, <2>7
<1> QED BY <1>3, <1>4, <1>5, <1>6, <1>7, <1>8, <1>9, <1>10, <1>11, <1>13 DEF Save, Works
-----------------------------------------------------------------------------
(* What flash should hold *)

\* A key that no two calls wrote at once is written by one call at most ...
Solo ==
  \A key \in (Keys \cup {"isolated_count"}) \ doubtful : \A t, other \in Tasks :
    key \in Touched(todo[t]) \cap Touched(todo[other]) => t = other

\* ... and it holds what was promised, or the step that decides about it will write that.
Foretold ==
  \A key \in Keys \ doubtful :
    /\ (\A t \in Tasks : key \notin Touched(todo[t])) => flash[key] = promised[key]
    /\ \A t \in Tasks : \A i :
         Decides(todo[t], i, key) => Due(todo[t][i], key, acl_lists, isolated) = promised[key]

LEMMA DueStays ==
  ASSUME NEW step, NEW key \in Touches(step), NEW lists, NEW newLists, NEW clients, NEW newClients,
         key \in Lists => newLists = lists, key = "dhcp_res" => newClients = clients
  PROVE  Due(step, key, newLists, newClients) = Due(step, key, lists, clients)
BY TouchesByOp DEF Due

LEMMA CalledSolo ==
  ASSUME Data, Solo, NEW t \in Tasks, NEW steps \in Seq(AnySteps), NEW writes, Call(t, steps),
         Promise(t, steps, writes)
  PROVE  Solo'
<1>1. todo' = [todo EXCEPT ![t] = steps]
  BY CallTyped
<1>2. todo'[t] = steps /\ \A other \in Tasks \ {t} : todo'[other] = todo[other]
  BY <1>1 DEF Data
<1>3. /\ doubtful' = (doubtful \ Touched(steps))
                     \cup (Touched(steps) \cap UNION {Touched(todo[other]) : other \in Tasks \ {t}})
  BY DEF Promise
<1>4. ASSUME NEW key \in (Keys \cup {"isolated_count"}) \ doubtful', NEW u \in Tasks, NEW v \in Tasks,
             key \in Touched(todo'[u]) \cap Touched(todo'[v]), u # v
      PROVE  FALSE
  <2>1. CASE key \in Touched(steps)
    BY <1>2, <1>3, <1>4, <2>1
  <2>2. CASE key \notin Touched(steps)
    BY <1>2, <1>3, <1>4, <2>2 DEF Solo
  <2> QED BY <2>1, <2>2
<1> QED BY <1>4 DEF Solo

LEMMA CalledForetold ==
  ASSUME Data, Foretold, NEW t \in Tasks, NEW steps \in Seq(AnySteps), NEW S, NEW writes \in Seq(S),
         Call(t, steps), Promise(t, steps, writes), UNCHANGED flash,
         Touched(writes) \subseteq Touched(steps),
         \A key \in Keys : \A i : Decides(steps, i, key) =>
           \E j : Decides(writes, j, key)
                  /\ Written(writes[j], key) = Due(steps[i], key, acl_lists', isolated'),
         acl_lists' # acl_lists => Lists \subseteq Touched(steps),
         isolated' # isolated => "dhcp_res" \in Touched(steps)
  PROVE  Foretold'
<1>1. todo' = [todo EXCEPT ![t] = steps]
  BY CallTyped
<1>2. todo'[t] = steps /\ \A other \in Tasks \ {t} : todo'[other] = todo[other]
  BY <1>1 DEF Data
<1>3. /\ doubtful' = (doubtful \ Touched(steps))
                     \cup (Touched(steps) \cap UNION {Touched(todo[other]) : other \in Tasks \ {t}})
      /\ promised' = Outcome(promised, writes)
  BY DEF Promise
<1>4. Touched(todo[t]) = {}
  BY ShortTouched DEF Call, Idle
<1>5. ASSUME NEW key \in Keys \ doubtful', key \in Touched(steps)
      PROVE  /\ \E u \in Tasks : key \in Touched(todo'[u])
             /\ \A u \in Tasks : \A i : Decides(todo'[u], i, key) =>
                  Due(todo'[u][i], key, acl_lists', isolated') = promised'[key]
  <2>1. ASSUME NEW u \in Tasks, NEW i, Decides(todo'[u], i, key) PROVE u = t
    <3>1. key \in Touched(todo'[u])
      BY <2>1, TouchedIs DEF Decides
    <3> QED BY <1>2, <1>3, <1>5, <3>1
  <2>2. ASSUME NEW i, Decides(steps, i, key)
        PROVE  Due(steps[i], key, acl_lists', isolated') = promised'[key]
    <3>1. PICK j : Decides(writes, j, key) /\ Written(writes[j], key) = Due(steps[i], key, acl_lists', isolated')
      BY <2>2
    <3>2. Outcome(promised, writes)[key] = Written(writes[j], key)
      BY <3>1, OutcomeIs
    <3> QED BY <1>3, <3>1, <3>2
  <2> QED BY <1>2, <1>5, <2>1, <2>2
<1>6. ASSUME NEW key \in Keys \ doubtful', key \notin Touched(steps)
      PROVE  /\ (\A u \in Tasks : key \notin Touched(todo'[u])) => flash'[key] = promised'[key]
             /\ \A u \in Tasks : \A i : Decides(todo'[u], i, key) =>
                  Due(todo'[u][i], key, acl_lists', isolated') = promised'[key]
  <2>1. key \notin doubtful /\ promised'[key] = promised[key]
    BY <1>3, <1>6, OutcomeIs
  <2>2. (\A u \in Tasks : key \notin Touched(todo'[u])) => flash'[key] = promised'[key]
    BY <1>2, <1>4, <2>1 DEF Foretold
  <2>3. ASSUME NEW u \in Tasks, NEW i, Decides(todo'[u], i, key)
        PROVE  Due(todo'[u][i], key, acl_lists', isolated') = promised'[key]
    <3>1. key \in Touched(todo'[u])
      BY <2>3, TouchedIs DEF Decides
    <3>2. u # t /\ todo'[u] = todo[u]
      BY <1>2, <1>6, <3>1
    <3>3. Due(todo[u][i], key, acl_lists, isolated) = promised[key] /\ key \in Touches(todo[u][i])
      BY <2>1, <2>3, <3>2 DEF Foretold, Decides
    <3>4. Due(todo[u][i], key, acl_lists', isolated') = Due(todo[u][i], key, acl_lists, isolated)
      BY <1>6, <3>3, DueStays
    <3> QED BY <2>1, <3>2, <3>3, <3>4
  <2> QED BY <2>2, <2>3
<1> QED BY <1>5, <1>6 DEF Foretold

LEMMA StepSolo ==
  ASSUME Solo, NEW t \in Tasks, Alone(t) PROVE Solo'
<1>1. \A u \in Tasks : Touched(todo'[u]) \subseteq Touched(todo[u])
  BY DEF Alone
<1>2. doubtful \subseteq doubtful'
  BY DEF Alone
<1> QED BY <1>1, <1>2 DEF Solo

LEMMA StepForetold ==
  ASSUME Data, Solo, Foretold, NEW t \in Tasks, WritesDue(t), LeavesDue(t), Alone(t) PROVE Foretold'
<1>1. doubtful \subseteq doubtful' /\ promised' = promised /\ acl_lists' = acl_lists
      /\ \A other \in Tasks \ {t} : todo'[other] = todo[other]
  BY DEF Alone
<1>2. ASSUME NEW key \in Keys \ doubtful', \A u \in Tasks : key \notin Touched(todo'[u])
      PROVE  flash'[key] = promised[key]
  <2>1. CASE key \in Touched(todo[t])
    <3>1. Decides(todo[t], 1, key) /\ flash'[key] = Due(Head(todo[t]), key, acl_lists, isolated)
      BY <1>2, <2>1 DEF WritesDue
    <3>2. Head(todo[t]) = todo[t][1]
      BY DEF Data
    <3> QED BY <1>1, <1>2, <3>1, <3>2 DEF Foretold
  <2>2. CASE key \notin Touched(todo[t])
    BY <1>1, <1>2, <2>2 DEF WritesDue, Foretold
  <2> QED BY <2>1, <2>2
<1>3. ASSUME NEW key \in Keys \ doubtful', NEW u \in Tasks, NEW i, Decides(todo'[u], i, key)
      PROVE  Due(todo'[u][i], key, acl_lists', isolated') = promised[key]
  <2>1. CASE u = t
    BY <1>1, <1>3, <2>1 DEF LeavesDue, Foretold
  <2>2. CASE u # t
    <3>1. Decides(todo[u], i, key) /\ todo'[u] = todo[u]
      BY <1>1, <1>3, <2>2
    <3>2. Due(todo[u][i], key, acl_lists, isolated) = promised[key] /\ key \in Touches(todo[u][i])
      BY <1>1, <1>3, <3>1 DEF Foretold, Decides
    <3>3. key \in Touched(todo[u])
      BY <3>1, TouchedIs DEF Decides
    <3>4. key = "dhcp_res" => isolated' = isolated
      BY <1>1, <1>3, <2>2, <3>3 DEF Alone, Solo
    <3>5. Due(todo[u][i], key, acl_lists', isolated') = Due(todo[u][i], key, acl_lists, isolated)
      BY <1>1, <3>2, <3>4, DueStays
    <3> QED BY <3>1, <3>2, <3>5
  <2> QED BY <2>1, <2>2
<1> QED BY <1>1, <1>2, <1>3 DEF Foretold

LEMMA StartForetold ==
  ASSUME Data, Foretold, NEW t \in Tasks, NEW steps \in Seq(CallSteps) \cup Imports, Start(t, steps)
  PROVE  Foretold'
<1> DEFINE writes == Writes(steps)
<1>1. steps \in Seq(AnySteps) /\ Bare(steps)
  BY StepsTyped, CallOps
<1>2. DOMAIN writes = DOMAIN steps
      /\ \A i \in DOMAIN steps :
           writes[i] = IF steps[i].op = "clear" THEN Set("dhcp_res", {}) ELSE steps[i]
  BY DEF Writes
<1>3. Set("dhcp_res", {}) \in AnySteps
  <2>1. Set("dhcp_res", {}) \in SetSteps(Keys, Values)
    BY KeyNames DEF Set, SetSteps, ValuesOf, Values
  <2> QED BY <2>1 DEF AnySteps
<1>4. writes \in Seq(AnySteps)
  <2>1. \A i \in DOMAIN steps : steps[i] \in AnySteps
    BY <1>1
  <2>2. writes \in [DOMAIN steps -> AnySteps]
    BY <1>3, <2>1 DEF Writes
  <2>3. Len(steps) \in Nat /\ DOMAIN steps = 1 .. Len(steps)
    BY <1>1
  <2>4. Seq(AnySteps) = UNION {[1 .. n -> AnySteps] : n \in Nat}
    BY SeqDef
  <2> HIDE DEF writes
  <2> QED BY <2>2, <2>3, <2>4, Zenon
<1>5. \A i \in DOMAIN steps : \A key \in Keys : key \in Touches(writes[i]) <=> key \in Touches(steps[i])
  <2>1. Touches(Set("dhcp_res", {})) = {"dhcp_res"}
    BY TouchesByOp DEF Set
  <2> QED BY <1>2, <2>1, KeyNames, TouchesByOp
<1>6. \A i \in DOMAIN steps : Touches(writes[i]) \subseteq Touches(steps[i])
  <2>1. Touches(Set("dhcp_res", {})) = {"dhcp_res"}
    BY TouchesByOp DEF Set
  <2> QED BY <1>2, <2>1, TouchesByOp
<1> HIDE DEF writes
<1>7. Touched(writes) \subseteq Touched(steps)
  <2>1. ASSUME NEW key \in Touched(writes) PROVE key \in Touched(steps)
    <3>1. PICK i \in DOMAIN writes : key \in Touches(writes[i])
      BY <2>1, TouchedIs
    <3> QED BY <1>2, <1>6, <3>1, TouchedIs
  <2> QED BY <2>1
<1>8. ASSUME NEW key \in Keys, NEW i, Decides(steps, i, key)
      PROVE  Decides(writes, i, key)
             /\ Written(writes[i], key) = Due(steps[i], key, acl_lists', isolated')
  <2>1. Decides(writes, i, key)
    BY <1>2, <1>5, <1>8 DEF Decides
  <2>2. i \in DOMAIN steps /\ key \in Touches(steps[i])
    BY <1>8 DEF Decides
  <2>3. CASE steps[i].op = "clear"
    <3>1. writes[i] = Set("dhcp_res", {})
      BY <1>2, <2>2, <2>3
    <3>2. Written(writes[i], key) = {}
      BY <3>1 DEF Written, Set
    <3> QED BY <2>1, <2>3, <3>2 DEF Due
  <2>4. CASE steps[i].op # "clear"
    <3>1. writes[i] = steps[i] /\ steps[i].op \notin {"snapshot", "save"}
      BY <1>1, <1>2, <2>2, <2>4 DEF Bare
    <3> QED BY <2>1, <2>4, <3>1 DEF Due
  <2> QED BY <2>3, <2>4
<1>9. Call(t, steps) /\ Promise(t, steps, writes) /\ UNCHANGED <<acl_lists, isolated, flash>>
  BY DEF Start, writes, tables
<1> QED BY <1>1, <1>4, <1>7, <1>8, <1>9, CalledForetold

LEMMA EditForetold ==
  ASSUME Data, Foretold, NEW t \in Tasks, NEW l \in Lists, NEW slots \in Row, Edit(t, l, slots)
  PROVE  Foretold'
<1> DEFINE steps == <<Step("snapshot")>>
           writes == Saves(acl_lists')
<1>1. steps \in Seq(AnySteps) /\ DOMAIN steps = {1} /\ steps[1].op = "snapshot"
  BY StepsTyped DEF Step
<1>2. Touched(steps) = Lists
  BY <1>1, ShortTouched, TouchesByOp
<1>3. Touched(writes) = Lists
  BY SavesTouched
<1>4. writes \in Seq(AnySteps)
  <2>1. acl_lists' \in [Lists -> Row]
    BY DEF Edit, Data
  <2>2. ASSUME NEW i \in 1 .. 4 PROVE writes[i] \in AnySteps
    <3>1. ListOrder[i] \in Lists /\ acl_lists'[ListOrder[i]] \in Row
      BY <2>1, SavesTouched
    <3>2. Set(ListOrder[i], acl_lists'[ListOrder[i]]) \in SetSteps(Keys, Values)
      BY <3>1, KeyNames DEF Set, SetSteps, ValuesOf, Values
    <3>3. writes[i] = Set(ListOrder[i], acl_lists'[ListOrder[i]])
      BY SavesTouched
    <3> QED BY <3>2, <3>3 DEF AnySteps
  <2>3. writes = [i \in 1 .. 4 |-> writes[i]]
    BY SavesTouched DEF Saves
  <2> HIDE DEF writes
  <2>4. writes \in [1 .. 4 -> AnySteps]
    BY <2>2, <2>3
  <2>5. Seq(AnySteps) = UNION {[1 .. n -> AnySteps] : n \in Nat} /\ 4 \in Nat
    BY SeqDef
  <2> QED BY <2>4, <2>5, Zenon
<1>5. ASSUME NEW key \in Keys, NEW i, Decides(steps, i, key)
      PROVE  \E j : Decides(writes, j, key) /\ Written(writes[j], key) = Due(steps[i], key, acl_lists', isolated')
  <2>1. i = 1 /\ key \in Lists
    BY <1>1, <1>5, TouchesByOp DEF Decides
  <2>2. PICK j : Decides(writes, j, key)
    BY <2>1, SavesTouched
  <2>3. Written(writes[j], key) = acl_lists'[key]
    BY <2>2, SavesTouched
  <2> QED BY <1>1, <2>1, <2>2, <2>3 DEF Due
<1>6. Call(t, steps) /\ Promise(t, steps, writes) /\ UNCHANGED <<isolated, flash>>
  BY DEF Edit
<1> HIDE DEF steps, writes
<1> QED BY <1>1, <1>2, <1>3, <1>4, <1>5, <1>6, CalledForetold

LEMMA IsolationForetold ==
  ASSUME Data, Foretold, NEW t \in Tasks, NEW clients \in SUBSET Clients, SetIsolation(t, clients)
  PROVE  Foretold'
<1> DEFINE steps == <<Step("count"), Step("save")>>
           writes == <<Set("dhcp_res", clients)>>
<1>1. steps \in Seq(AnySteps) /\ DOMAIN steps = {1, 2} /\ steps[1].op = "count" /\ steps[2].op = "save"
  BY StepsTyped DEF Step
<1>2. Touched(steps) = {"isolated_count", "dhcp_res"}
  BY <1>1, ShortTouched, TouchesByOp
<1>3. DOMAIN writes = {1} /\ Touches(writes[1]) = {"dhcp_res"} /\ Written(writes[1], "dhcp_res") = clients
  BY TouchesByOp DEF Set, Written
<1>4. Touched(writes) = {"dhcp_res"}
  BY <1>3, ShortTouched
<1>5. writes \in Seq({Set("dhcp_res", clients)})
  OBVIOUS
<1>6. Call(t, steps) /\ Promise(t, steps, writes) /\ isolated' = clients /\ UNCHANGED <<acl_lists, flash>>
  BY DEF SetIsolation
<1> HIDE DEF steps, writes
<1>7. ASSUME NEW key \in Keys, NEW i, Decides(steps, i, key)
      PROVE  Decides(writes, 1, key) /\ Written(writes[1], key) = Due(steps[i], key, acl_lists', isolated')
  <2>1. i = 2 /\ key = "dhcp_res"
    BY <1>1, <1>7, KeyNames, TouchesByOp DEF Decides
  <2>2. Decides(writes, 1, key)
    BY <1>3, <2>1 DEF Decides
  <2> QED BY <1>1, <1>3, <1>6, <2>1, <2>2 DEF Due
<1> QED BY <1>1, <1>2, <1>4, <1>5, <1>6, <1>7, CalledForetold

LEMMA NextForetold ==
  ASSUME TypeOK, SavesFirst, Solo, Foretold, Next PROVE Solo' /\ Foretold'
<1>1. Data /\ acl_lists \in [Lists -> Row] /\ file \in Contents(Keys)
  BY DEF TypeOK, Data
<1>2. ASSUME Quiet PROVE Solo' /\ Foretold'
  BY <1>2 DEF Quiet, promises, Solo, Foretold
<1>3. ASSUME Receives PROVE Solo' /\ Foretold'
  <2>1. Httpd \in Tasks /\ <<Step("receive")>> \in Seq(AnySteps)
    BY ConfigAssumption, StepsTyped
  <2>2. todo' = [todo EXCEPT ![Httpd] = <<Step("receive")>>]
    BY <1>1, <1>3, <2>1, CallTyped DEF Receives
  <2>3. Touched(todo[Httpd]) = {} /\ Touched(<<Step("receive")>>) = {}
    BY <1>3, ShortTouched, TouchesByOp DEF Receives, Call, Idle, Step
  <2>4. /\ todo'[Httpd] = <<Step("receive")>>
        /\ \A u \in Tasks : Touched(todo'[u]) = Touched(todo[u])
        /\ \A u \in Tasks \ {Httpd} : todo'[u] = todo[u]
    BY <1>1, <2>1, <2>2, <2>3 DEF Data
  <2>5. \A i, key : ~Decides(todo'[Httpd], i, key)
    <3>1. ASSUME NEW i, NEW key, Decides(todo'[Httpd], i, key) PROVE key \in Touched(todo'[Httpd])
      BY <3>1, TouchedIs DEF Decides
    <3> QED BY <2>3, <2>4, <3>1
  <2>6. UNCHANGED <<acl_lists, isolated, flash, promised, doubtful>>
    BY <1>3 DEF Receives, promises
  <2>7. Solo'
    BY <2>4, <2>6 DEF Solo
  <2>8. Foretold'
    <3>1. ASSUME NEW key \in Keys \ doubtful, NEW u \in Tasks, NEW i, Decides(todo'[u], i, key)
          PROVE  Due(todo'[u][i], key, acl_lists', isolated') = promised'[key]
      <4>1. u # Httpd
        BY <2>5, <3>1
      <4> QED BY <2>4, <2>6, <3>1, <4>1 DEF Foretold
    <3>2. ASSUME NEW key \in Keys \ doubtful, \A u \in Tasks : key \notin Touched(todo'[u])
          PROVE  flash'[key] = promised'[key]
      BY <2>4, <2>6, <3>2 DEF Foretold
    <3> QED BY <2>6, <3>1, <3>2 DEF Foretold
  <2> QED BY <2>7, <2>8
<1>4. ASSUME NEW t \in Tasks, NEW steps \in Seq(CallSteps) \cup Imports, Start(t, steps)
      PROVE  Solo' /\ Foretold'
  <2>1. steps \in Seq(AnySteps)
    BY StepsTyped
  <2> QED BY <1>1, <1>4, <2>1, CalledSolo, StartForetold DEF Start
<1>5. ASSUME NEW t \in Tasks, NEW l \in Lists, NEW slots \in Row, Edit(t, l, slots)
      PROVE  Solo' /\ Foretold'
  <2>1. <<Step("snapshot")>> \in Seq(AnySteps)
    BY StepsTyped
  <2> QED BY <1>1, <1>5, <2>1, CalledSolo, EditForetold DEF Edit
<1>6. ASSUME NEW t \in Tasks, NEW clients \in SUBSET Clients, SetIsolation(t, clients)
      PROVE  Solo' /\ Foretold'
  <2>1. <<Step("count"), Step("save")>> \in Seq(AnySteps)
    BY StepsTyped
  <2> QED BY <1>1, <1>6, <2>1, CalledSolo, IsolationForetold DEF SetIsolation
<1>7. ASSUME NEW t \in Tasks, Works(t)
      PROVE  Solo' /\ Foretold'
  BY <1>1, <1>7, StepDue, StepSolo, StepForetold
<1>8. ASSUME Restart PROVE Solo' /\ Foretold'
  <2>1. \A u \in Tasks : todo'[u] = <<>>
    BY <1>8 DEF Restart
  <2>2. \A u \in Tasks : Touched(todo'[u]) = {} /\ \A i, key : ~Decides(todo'[u], i, key)
    BY <2>1, ShortTouched DEF Decides
  <2>3. flash' = flash /\ promised' = flash
    BY <1>8 DEF Restart
  <2> QED BY <2>2, <2>3 DEF Solo, Foretold
<1> QED BY <1>1, <1>2, <1>3, <1>4, <1>5, <1>6, <1>7, <1>8, NextCases
-----------------------------------------------------------------------------
(* The counter of isolated reservations *)

\* Unless two edits of the reservations ran at once, the counter is exact when no step is
\* left that stores it, and what is about to be stored is exact too.
Settled ==
  "isolated_count" \notin doubtful =>
    /\ (\A t \in Tasks : "isolated_count" \notin Touched(todo[t])) =>
         isolated_count = Cardinality(isolated)
    /\ \A t \in Tasks : Doing(t, "store") => Head(todo[t]).value = Cardinality(isolated)

LEMMA StoreTouches ==
  ASSUME Data, NEW t \in Tasks
  PROVE  /\ Doing(t, "store") => "isolated_count" \in Touched(todo[t])
         /\ ~Idle(t) => Touches(Head(todo[t])) \subseteq Touched(todo[t])
<1>1. ~Idle(t) => Touches(Head(todo[t])) \subseteq Touched(todo[t])
  BY HeadTyped, TailTouched
<1>2. Doing(t, "store") => Touches(Head(todo[t])) = {"isolated_count"} /\ ~Idle(t)
  BY TouchesByOp DEF Doing
<1> QED BY <1>1, <1>2

\* Only the count comes before a store.
LEMMA NewStore ==
  ASSUME Data, SavesFirst, NEW t \in Tasks, Works(t),
         todo'[t] # <<>>, Head(todo'[t]).op = "store"
  PROVE  Count(t)
<1>1. \A op : Doing(t, op) => ~Idle(t) /\ Head(todo[t]).op = op
  BY DEF Doing
<1>2. ~Idle(t) => /\ todo[t] \in Seq(AnySteps) /\ todo[t] # <<>> /\ Tail(todo[t]) \in Seq(AnySteps)
                  /\ Prompt(todo[t])
  BY HeadTyped, TailTyped DEF SavesFirst
<1>3. ASSUME ~Idle(t), todo'[t] = Tail(todo[t]) PROVE FALSE
  <2>1. 1 \in DOMAIN Tail(todo[t]) /\ Head(todo'[t]) = Tail(todo[t])[1]
    BY <1>2, <1>3
  <2> QED BY <1>2, <1>3, <2>1, TailPrompt
<1>4. ASSUME ~Idle(t), NEW steps \in Seq(AnySteps), steps # <<>>, todo'[t] = steps \o Tail(todo[t])
      PROVE  steps[1].op = "store"
  <2>1. Head(todo'[t]) = steps[1]
    BY <1>2, <1>4
  <2> QED BY <2>1
<1>5. Done(t) => todo'[t] = Tail(todo[t])
  BY DEF Done, Data
<1>6. CASE Snapshot(t)
  <2>1. Saves(acl_lists) \in Seq(AnySteps) /\ todo'[t] = Saves(acl_lists) \o Tail(todo[t])
    BY <1>6, SavesTyped DEF Snapshot, Data
  <2>2. 1 \in 1 .. 4
    OBVIOUS
  <2>3. Saves(acl_lists)[1] = Set(ListOrder[1], acl_lists[ListOrder[1]]) /\ DOMAIN Saves(acl_lists) = 1 .. 4
    BY <2>2, SavesTouched
  <2>4. Saves(acl_lists) # <<>>
    <3>1. DOMAIN <<>> = {}
      OBVIOUS
    <3> QED BY <2>2, <2>3, <3>1
  <2>5. Saves(acl_lists)[1].op = "set"
    BY <2>3 DEF Set
  <2> QED BY <1>1, <1>4, <1>6, <2>1, <2>4, <2>5 DEF Snapshot
<1>7. CASE ClearReservations(t)
  <2>1. <<Step("count"), Step("save")>> \in Seq(AnySteps)
        /\ todo'[t] = <<Step("count"), Step("save")>> \o Tail(todo[t])
    BY <1>7, StepsTyped DEF ClearReservations, Data
  <2>2. <<Step("count"), Step("save")>> # <<>> /\ <<Step("count"), Step("save")>>[1].op = "count"
    BY DEF Step
  <2> QED BY <1>1, <1>4, <1>7, <2>1, <2>2 DEF ClearReservations
<1>8. CASE ImportKey(t)
  <2> DEFINE left == Head(todo[t]).value
             key == CHOOSE k \in DOMAIN left : TRUE
             rest == Restrict(left, DOMAIN left \ {key})
             step == [Step("import") EXCEPT !.value = rest]
  <2>1. step.op = "import"
    BY DEF Step
  <2>2. Done(t) \/ todo'[t] = <<step>> \o Tail(todo[t])
    BY <1>8 DEF ImportKey, Data
  <2> HIDE DEF step
  <2>3. CASE todo'[t] = <<step>> \o Tail(todo[t])
    <3>1. Head(todo'[t]) = step
      BY <1>1, <1>2, <1>8, <2>3 DEF ImportKey
    <3> QED BY <2>1, <3>1
  <2> QED BY <1>1, <1>3, <1>5, <1>8, <2>2, <2>3 DEF ImportKey
<1>9. CASE ~Idle(t) /\ Done(t)
  BY <1>3, <1>5, <1>9
<1>10. CASE WriteFails(t)
  <2>1. PICK n \in Nat : n \in DOMAIN todo[t] /\ todo'[t] = SubSeq(todo[t], n + 1, Len(todo[t]))
    BY <1>10, FailureLeaves
  <2>2. ~Idle(t) /\ Head(todo[t]).op \notin {"count", "store"} /\ todo'[t] \in Seq(AnySteps)
    BY <1>10, FailureLeaves
  <2>3. Bare(todo'[t])
    BY <1>2, <2>1, <2>2, RestPrompt
  <2>4. 1 \in DOMAIN todo'[t] /\ Head(todo'[t]) = todo'[t][1]
    BY <2>2
  <2> QED BY <2>3, <2>4 DEF Bare
<1> QED BY <1>1, <1>6, <1>7, <1>8, <1>9, <1>10
        DEF Works, Save, WriteKey, StoreCount, SaveReservations, EraseKeys, Passes

LEMMA CalledSettled ==
  ASSUME Data, Settled, NEW t \in Tasks, NEW steps \in Seq(AnySteps), NEW writes, Call(t, steps),
         Promise(t, steps, writes), UNCHANGED isolated_count,
         steps # <<>> => Head(steps).op # "store",
         isolated' # isolated => "isolated_count" \in Touched(steps)
  PROVE  Settled'
<1>1. todo' = [todo EXCEPT ![t] = steps]
  BY CallTyped
<1>2. todo'[t] = steps /\ \A other \in Tasks \ {t} : todo'[other] = todo[other]
  BY <1>1 DEF Data
<1>3. doubtful' = (doubtful \ Touched(steps))
                  \cup (Touched(steps) \cap UNION {Touched(todo[other]) : other \in Tasks \ {t}})
  BY DEF Promise
<1>4. Touched(todo[t]) = {}
  BY ShortTouched DEF Call, Idle
<1>5. SUFFICES ASSUME "isolated_count" \notin doubtful'
      PROVE  /\ (\A u \in Tasks : "isolated_count" \notin Touched(todo'[u])) =>
                  isolated_count' = Cardinality(isolated')
             /\ \A u \in Tasks : todo'[u] # <<>> /\ Head(todo'[u]).op = "store" =>
                  Head(todo'[u]).value = Cardinality(isolated')
  BY DEF Settled, Doing, Idle
<1>6. CASE "isolated_count" \in Touched(steps)
  <2>1. \A u \in Tasks \ {t} : "isolated_count" \notin Touched(todo[u])
    BY <1>3, <1>5, <1>6
  <2>2. \A u \in Tasks : ~(todo'[u] # <<>> /\ Head(todo'[u]).op = "store")
    BY <1>2, <2>1, StoreTouches DEF Doing, Idle
  <2> QED BY <1>2, <1>6, <2>2
<1>7. CASE "isolated_count" \notin Touched(steps)
  <2>1. "isolated_count" \notin doubtful /\ isolated' = isolated
    BY <1>3, <1>5, <1>7
  <2> QED BY <1>2, <1>4, <2>1 DEF Settled, Doing, Idle
<1> QED BY <1>6, <1>7

LEMMA StepSettled ==
  ASSUME Data, SavesFirst, Solo, Settled, NEW t \in Tasks,
         Works(t)
  PROVE  Settled'
<1>1. Alone(t) /\ doubtful \subseteq doubtful'
  BY StepDue DEF Alone
<1>2. SUFFICES ASSUME "isolated_count" \notin doubtful'
      PROVE  /\ (\A u \in Tasks : "isolated_count" \notin Touched(todo'[u])) =>
                  isolated_count' = Cardinality(isolated')
             /\ \A u \in Tasks : todo'[u] # <<>> /\ Head(todo'[u]).op = "store" =>
                  Head(todo'[u]).value = Cardinality(isolated')
  BY <1>1 DEF Settled, Doing, Idle
<1>3. \A u \in Tasks \ {t} : todo'[u] = todo[u]
  BY <1>1 DEF Alone
<1>4. ASSUME "isolated_count" \in Touched(todo[t]), NEW u \in Tasks \ {t}
      PROVE  ~(todo'[u] # <<>> /\ Head(todo'[u]).op = "store")
  <2>1. "isolated_count" \notin Touched(todo[u])
    BY <1>1, <1>2, <1>4 DEF Solo
  <2> QED BY <1>3, <1>4, <2>1, StoreTouches DEF Doing, Idle
<1>5. \A op : Doing(t, op) => ~Idle(t) /\ Head(todo[t]).op = op
  BY DEF Doing
<1>6. CASE Count(t)
  <2>1. ~Idle(t) /\ Touches(Head(todo[t])) = {"isolated_count"}
    BY <1>5, <1>6, TouchesByOp DEF Count
  <2>2. "isolated_count" \in Touched(todo[t])
    BY <2>1, StoreTouches
  <2> DEFINE step == [Step("store") EXCEPT !.value = Cardinality(isolated)]
  <2>3. step.op = "store" /\ step.value = Cardinality(isolated)
    BY DEF Step
  <2>4. todo' = [todo EXCEPT ![t] = <<step>> \o Tail(@)] /\ isolated' = isolated
    BY <1>6 DEF Count, tables
  <2> HIDE DEF step
  <2>5. Touches(step) = {"isolated_count"}
    BY <2>3, TouchesByOp
  <2>6. Head(todo'[t]) = step
    <3>1. Tail(todo[t]) \in Seq(AnySteps) /\ todo'[t] = <<step>> \o Tail(todo[t])
      BY <2>1, <2>4, HeadTyped, TailTyped DEF Data
    <3> QED BY <3>1
  <2>7. "isolated_count" \in Touched(todo'[t])
    <3>1. 1 \in DOMAIN todo'[t] /\ todo'[t][1] = step
      <4>1. Tail(todo[t]) \in Seq(AnySteps) /\ todo'[t] = <<step>> \o Tail(todo[t])
        BY <2>1, <2>4, HeadTyped, TailTyped DEF Data
      <4> QED BY <4>1
    <3> QED BY <2>5, <3>1, TouchedIs
  <2> QED BY <1>4, <2>2, <2>3, <2>4, <2>6, <2>7
<1>7. CASE StoreCount(t)
  <2>1. isolated_count' = Cardinality(isolated) /\ isolated' = isolated
    BY <1>1, <1>2, <1>7 DEF StoreCount, Settled
  <2>2. "isolated_count" \in Touched(todo[t])
    BY <1>7, StoreTouches DEF StoreCount
  <2>3. ~(todo'[t] # <<>> /\ Head(todo'[t]).op = "store")
    <3>1. ~Count(t)
      BY <1>7 DEF StoreCount, Count, Doing
    <3> QED BY <1>7, <3>1, NewStore
  <2> QED BY <1>4, <2>1, <2>2, <2>3
<1>8. CASE ClearReservations(t)
  <2>1. ~Idle(t) /\ Touches(Head(todo[t])) = {"isolated_count", "dhcp_res"}
    BY <1>5, <1>8, TouchesByOp DEF ClearReservations
  <2>2. "isolated_count" \in Touched(todo[t])
    BY <2>1, StoreTouches
  <2>3. ~(todo'[t] # <<>> /\ Head(todo'[t]).op = "store")
    <3>1. ~Count(t)
      BY <1>8 DEF ClearReservations, Count, Doing
    <3> QED BY <1>8, <3>1, NewStore
  <2>4. "isolated_count" \in Touched(todo'[t])
    <3>1. Tail(todo[t]) \in Seq(AnySteps)
      BY <2>1, HeadTyped, TailTyped
    <3>2. todo'[t] = <<Step("count"), Step("save")>> \o Tail(todo[t])
      BY <1>8 DEF ClearReservations, Data
    <3>3. 1 \in DOMAIN todo'[t] /\ todo'[t][1].op = "count"
      BY <3>1, <3>2 DEF Step
    <3> QED BY <3>3, TouchesByOp, TouchedIs
  <2> QED BY <1>4, <2>2, <2>3, <2>4
<1>9. CASE ~Count(t) /\ ~StoreCount(t) /\ ~ClearReservations(t)
  <2>1. ~(todo'[t] # <<>> /\ Head(todo'[t]).op = "store")
    BY <1>9, NewStore
  <2>2. UNCHANGED <<isolated, isolated_count>>
    <3>1. \/ Snapshot(t) \/ WriteKey(t) \/ SaveReservations(t) \/ EraseKeys(t) \/ ImportKey(t) \/ Passes(t)
          \/ WriteFails(t)
      BY <1>9 DEF Works, Save
    <3> QED BY <3>1, FailureLeaves DEF Snapshot, WriteKey, SaveReservations, EraseKeys, ImportKey, Passes, tables
  <2>3. ~Idle(t) /\ Head(todo[t]).op \in {"snapshot", "set", "save", "erase", "import", "uplink", "login",
                                          "logout", "receive"}
    <3>1. \/ Doing(t, "snapshot") \/ Doing(t, "set") \/ Doing(t, "save") \/ Doing(t, "erase")
          \/ Doing(t, "import") \/ Passes(t)
      BY <1>9 DEF Works, Save, WriteFails, Snapshot, WriteKey, SaveReservations, EraseKeys, ImportKey
    <3> QED BY <1>5, <3>1 DEF Passes
  <2>4. "isolated_count" \notin Touches(Head(todo[t]))
    <3>1. Doing(t, "set") => Head(todo[t]).key \in Keys
      BY <2>3, HeadTyped
    <3>2. Doing(t, "import") => DOMAIN Head(todo[t]).value \subseteq Keys
      BY <2>3, HeadTyped DEF Contents
    <3> QED BY <2>3, <3>1, <3>2, KeyNames, TouchesByOp DEF Doing
  <2>5. "isolated_count" \in Touched(todo[t]) => "isolated_count" \in Touched(todo'[t])
    BY <1>1, <1>2, <2>4 DEF Alone
  <2>6. (\A u \in Tasks : "isolated_count" \notin Touched(todo'[u])) =>
          isolated_count' = Cardinality(isolated')
    BY <1>1, <1>2, <1>3, <2>2, <2>5 DEF Settled
  <2>7. \A u \in Tasks \ {t} : todo'[u] # <<>> /\ Head(todo'[u]).op = "store" =>
          Head(todo'[u]).value = Cardinality(isolated')
    BY <1>1, <1>2, <1>3, <2>2 DEF Settled, Doing, Idle
  <2> QED BY <2>1, <2>6, <2>7
<1> QED BY <1>6, <1>7, <1>8, <1>9

LEMMA NextSettled ==
  ASSUME TypeOK, SavesFirst, Solo, Settled, Next PROVE Settled'
<1>1. Data /\ acl_lists \in [Lists -> Row] /\ file \in Contents(Keys)
  BY DEF TypeOK, Data
<1>2. ASSUME Quiet PROVE Settled'
  BY <1>2 DEF Quiet, promises, Settled, Doing, Idle
<1>3. ASSUME Receives PROVE Settled'
  <2>1. Httpd \in Tasks /\ <<Step("receive")>> \in Seq(AnySteps)
    BY ConfigAssumption, StepsTyped
  <2>2. todo' = [todo EXCEPT ![Httpd] = <<Step("receive")>>]
    BY <1>1, <1>3, <2>1, CallTyped DEF Receives
  <2>3. Touched(todo[Httpd]) = {} /\ Touched(<<Step("receive")>>) = {}
    BY <1>3, ShortTouched, TouchesByOp DEF Receives, Call, Idle, Step
  <2>4. /\ \A u \in Tasks : Touched(todo'[u]) = Touched(todo[u])
        /\ \A u \in Tasks \ {Httpd} : todo'[u] = todo[u]
        /\ todo'[Httpd] = <<Step("receive")>>
    BY <1>1, <2>1, <2>2, <2>3 DEF Data
  <2>5. Head(todo'[Httpd]).op = "receive"
    BY <2>4 DEF Step
  <2> QED BY <1>3, <2>4, <2>5 DEF Receives, promises, Settled, Doing, Idle
<1>4. ASSUME NEW t \in Tasks, NEW steps \in Seq(CallSteps) \cup Imports, Start(t, steps) PROVE Settled'
  <2>1. steps \in Seq(AnySteps) /\ Bare(steps)
    BY StepsTyped, CallOps
  <2>2. steps # <<>> => Head(steps).op # "store"
    BY <2>1 DEF Bare
  <2> QED BY <1>1, <1>4, <2>1, <2>2, CalledSettled DEF Start, tables
<1>5. ASSUME NEW t \in Tasks, NEW l \in Lists, NEW slots \in Row, Edit(t, l, slots) PROVE Settled'
  <2>1. <<Step("snapshot")>> \in Seq(AnySteps) /\ Head(<<Step("snapshot")>>).op # "store"
    BY StepsTyped DEF Step
  <2> QED BY <1>1, <1>5, <2>1, CalledSettled DEF Edit
<1>6. ASSUME NEW t \in Tasks, NEW clients \in SUBSET Clients, SetIsolation(t, clients) PROVE Settled'
  <2>1. /\ <<Step("count"), Step("save")>> \in Seq(AnySteps)
        /\ Head(<<Step("count"), Step("save")>>).op # "store"
    BY StepsTyped DEF Step
  <2>2. Touched(<<Step("count"), Step("save")>>) = {"isolated_count", "dhcp_res"}
    BY ShortTouched, TouchesByOp DEF Step
  <2> QED BY <1>1, <1>6, <2>1, <2>2, CalledSettled DEF SetIsolation
<1>7. ASSUME NEW t \in Tasks, Works(t) PROVE Settled'
  BY <1>1, <1>7, StepSettled
<1>8. ASSUME Restart PROVE Settled'
  BY <1>8 DEF Restart, Settled, Doing, Idle
<1> QED BY <1>1, <1>2, <1>3, <1>4, <1>5, <1>6, <1>7, <1>8, NextCases
-----------------------------------------------------------------------------
(* The way of a packet *)

\* A set of natural numbers has a smallest element: there is no strictly smaller
\* interval below it.
LEMMA Smallest ==
  ASSUME NEW S \in SUBSET Nat, S # {}
  PROVE  \E s \in S : \A u \in S : s <= u
<1> DEFINE Below == {0 .. (s - 1) : s \in S}
<1>1. Below \subseteq FiniteSubsetsOf(Nat) /\ Below # {}
  <2>1. \A s \in S : 0 .. (s - 1) \in SUBSET Nat /\ IsFiniteSet(0 .. (s - 1))
    <3> TAKE s \in S
    <3>1. s \in Int /\ s - 1 \in Int
      OBVIOUS
    <3> QED BY <3>1, FS_Interval
  <2> QED BY <2>1 DEF FiniteSubsetsOf
<1> HIDE DEF Below
<1>2. PICK x \in Below : \A y \in Below : ~(<<y, x>> \in StrictSubsetOrdering(Nat))
  BY <1>1, FS_StrictSubsetOrderingWellFounded, WFMin
<1>3. PICK s \in S : x = 0 .. (s - 1)
  BY DEF Below
<1>4. ASSUME NEW u \in S, u < s PROVE FALSE
  <2>1. 0 .. (u - 1) \in Below
    BY DEF Below
  <2>2. 0 .. (u - 1) \subseteq 0 .. (s - 1) /\ 0 .. (u - 1) # 0 .. (s - 1)
    <3>1. u \in 0 .. (s - 1) /\ u \notin 0 .. (u - 1)
      BY <1>4
    <3> QED BY <1>4, <3>1
  <2>3. <<0 .. (u - 1), x>> \in StrictSubsetOrdering(Nat)
    BY <1>3, <2>2 DEF StrictSubsetOrdering
  <2> QED BY <1>2, <2>1, <2>3
<1> QED BY <1>4

\* What acl_check_packet finds is the first rule that matches.
LEMMA FirstRule ==
  ASSUME acl_lists \in [Lists -> Row], NEW l \in Lists, NEW p
  PROVE  acl_check_packet(l, p) <=> Denied(l, p)
<1> DEFINE hits == {i \in Slots : acl_lists[l][i] # NoRule /\ Matches(acl_lists[l][i], Seen(l, p))}
           first == CHOOSE i \in hits : \A j \in hits : i <= j
<1>1. hits \subseteq Nat
  BY DEF Slots
<1>2. hits # {} => first \in hits /\ \A j \in hits : first <= j
  <2> HIDE DEF hits
  <2> QED BY <1>1, Smallest
<1>3. ASSUME NEW i \in Slots, i \in hits, \A j \in 1 .. (i - 1) : j \notin hits PROVE first = i
  <2>1. \A j \in hits : i <= j
    BY <1>1, <1>3 DEF Slots
  <2>2. first \in hits /\ first <= i
    BY <1>2, <1>3
  <2> HIDE DEF hits, first
  <2> QED BY <1>1, <1>3, <2>1, <2>2
<1>4. ASSUME Denied(l, p) PROVE acl_check_packet(l, p)
  <2>1. PICK i \in Slots :
          /\ acl_lists[l][i] # NoRule /\ Matches(acl_lists[l][i], Seen(l, p)) /\ ~acl_lists[l][i].allow
          /\ \A j \in 1 .. (i - 1) : acl_lists[l][j] # NoRule => ~Matches(acl_lists[l][j], Seen(l, p))
    BY <1>4 DEF Denied
  <2>2. i \in hits /\ \A j \in 1 .. (i - 1) : j \notin hits
    BY <2>1
  <2>3. first = i /\ hits # {}
    BY <1>3, <2>2
  <2> QED BY <2>1, <2>3 DEF acl_check_packet
<1>5. ASSUME acl_check_packet(l, p) PROVE Denied(l, p)
  <2>1. hits # {} /\ ~acl_lists[l][first].allow
    BY <1>5 DEF acl_check_packet
  <2>2. first \in Slots /\ first \in hits /\ \A j \in hits : first <= j
    BY <1>2, <2>1
  <2>3. \A j \in 1 .. (first - 1) : j \in Slots /\ j \notin hits
    <3> HIDE DEF hits, first
    <3>1. MaxRules \in Nat /\ first \in 1 .. MaxRules
      BY <2>2, FilterAssumption DEF Slots
    <3>2. \A j \in 1 .. (first - 1) : j \in 1 .. MaxRules /\ ~(first <= j)
      BY <3>1
    <3> QED BY <2>2, <3>2 DEF Slots
  <2>4. \A j \in 1 .. (first - 1) : acl_lists[l][j] # NoRule => ~Matches(acl_lists[l][j], Seen(l, p))
    BY <2>3
  <2> HIDE DEF first
  <2> QED BY <2>1, <2>2, <2>4 DEF Denied
<1> QED BY <1>4, <1>5

LEMMA EmptyDenies ==
  ASSUME NEW l, NEW p, acl_is_empty(l) PROVE ~Denied(l, p)
BY DEF acl_is_empty, Denied
-----------------------------------------------------------------------------
\* The marks of a packet on its way: what still forbids it ever since it came does so now,
\* and what forbids it now has stood at some time.
Tracked == at # "none" =>
  /\ held \subseteq Barriers(packet)
  /\ Barriers(packet) \subseteq stood
  /\ Flagged(packet) => "isolation" \in stood

\* Where a packet may be, and what can still have forbidden it ever since it came: only
\* what it has not passed yet.
AtClient ==
  at \in {"count", "flags", "killswitch"} \/ (at \in {"empty", "check"} /\ list \in {"from_eth", "from_esp"})
Ahead ==
  /\ at \in {"count", "flags"} => held \subseteq {"isolation", "from_eth", "killswitch", "from_esp"}
  /\ at \in {"empty", "check"} /\ list = "from_eth" => held \subseteq {"from_eth", "killswitch", "from_esp"}
  /\ at \in {"empty", "check"} /\ list = "to_esp" => held \subseteq {"to_esp", "to_eth"}
  /\ at \in {"empty", "check"} /\ list \in {"from_esp", "to_eth"} => held \subseteq {list}
  /\ at = "killswitch" => held \subseteq {"killswitch", "from_esp"}
  /\ at = "route" /\ packet.from \in Clients => held \subseteq {"from_esp"}
  /\ at = "route" /\ packet.from \notin Clients => held \subseteq {"to_eth"}
  /\ at = "out" => held = {}
OnItsWay ==
  /\ at \in {"none", "count", "flags", "empty", "check", "killswitch", "route", "out", "dropped"}
  /\ list \in Lists
  /\ AtClient \/ (at = "route" /\ packet.from \in Clients) => packet \in [from : Clients, to : Destinations]
  /\ at \in {"empty", "check"} /\ list \in {"to_esp", "to_eth"} => packet.from \notin Clients
  /\ Ahead
  /\ at = "dropped" => stood # {}

LEMMA ListNames == Lists = {"to_esp", "from_esp", "from_eth", "to_eth"}
BY DEF Lists, ListOrder

\* What it means that something is among the barriers.
LEMMA WhatBars ==
  ASSUME list \in Lists, NEW p
  PROVE  /\ "isolation" \in Barriers(p) <=> Isolation(p)
         /\ "killswitch" \in Barriers(p) <=> Shut(p)
         /\ \A l \in Lists : l \in Barriers(p) <=> l \in ListsOnWay(p) /\ Denied(l, p)
<1>1. ListsOnWay(p) \subseteq Lists
  BY ListNames DEF ListsOnWay
<1>2. "isolation" \notin Lists /\ "killswitch" \notin Lists
  BY ListNames
<1> QED BY <1>1, <1>2 DEF Barriers

\* Each step keeps the marks.
LEMMA NextTracked ==
  ASSUME Track PROVE Tracked'
BY DEF Track, Tracked

LEMMA MarksMove ==
  ASSUME Track, at # "none", at' # "none" PROVE held' \subseteq held /\ stood \subseteq stood'
BY DEF Track

\* A step of the packet, or one that leaves it where it is.
LEMMA TravelCases ==
  ASSUME Next
  PROVE  \/ Arrive \/ IsolationCount \/ IsolationFlags \/ ListEmpty \/ ListCheck \/ KillSwitch \/ Route
         \/ UNCHANGED travel
         \/ at' = "none" /\ list' = "to_esp"
<1>1. CASE Packets
  BY <1>1 DEF Packets, Gone, TunnelChanges
<1>2. CASE Restart
  BY <1>2 DEF Restart
<1>3. ASSUME NEW t, (\E steps : Start(t, steps)) \/ acl_add_cmd(t) \/ acl_del_cmd(t) \/ acl_clear_cmd(t)
                     \/ dhcp_reserve(t)
      PROVE  UNCHANGED travel
  BY <1>3 DEF Start, acl_add_cmd, acl_del_cmd, acl_clear_cmd, dhcp_reserve, AddRule, DeleteRule, ClearList,
     Edit, SetIsolation
<1>4. CASE Calls
  <2>1. ASSUME NEW t \in Consoles, Console(t) PROVE UNCHANGED travel
    BY <1>3, <2>1 DEF Console
  <2>2. CASE Login \/ Logout \/ PasswordForm \/ ButtonHeld
    <3>1. \A t, steps : Start(t, steps) => UNCHANGED travel
      BY DEF Start
    <3> QED BY <2>2, <3>1, Zenon DEF Login, Logout, PasswordForm, ButtonHeld
  <2>3. CASE Expire \/ Upload \/ ReceiveFails \/ Received
    BY <2>3 DEF Expire, Upload, ReceiveFails, Received
  <2>4. CASE SettingsForm \/ AddForm \/ DeleteForm \/ ClearForm \/ ReserveForm
    <3>1. (\E steps : Start(Httpd, steps)) \/ acl_add_cmd(Httpd) \/ acl_del_cmd(Httpd)
            \/ acl_clear_cmd(Httpd) \/ dhcp_reserve(Httpd)
      BY <2>4 DEF SettingsForm, AddForm, DeleteForm, ClearForm, ReserveForm, acl_add_cmd, acl_del_cmd,
         acl_clear_cmd, dhcp_reserve
    <3> QED BY <1>3, <3>1
  <2>5. CASE Export
    BY <2>5 DEF Export
  <2> QED BY <1>4, <2>1, <2>2, <2>3, <2>4, <2>5 DEF Calls, Page
<1>5. CASE Steps
  <2>1. ASSUME NEW t, Save(t) PROVE UNCHANGED travel
    BY <2>1 DEF Save, Snapshot, WriteKey, Count, StoreCount, SaveReservations, ClearReservations
  <2>2. ASSUME NEW t, EraseKeys(t) \/ ImportKey(t) \/ WriteFails(t) \/ SwitchUplink(t) PROVE UNCHANGED travel
    BY <2>2 DEF EraseKeys, ImportKey, WriteFails, SwitchUplink
  <2> QED BY <1>5, <2>1, <2>2 DEF Steps, SwitchSession
<1> QED BY <1>1, <1>2, <1>4, <1>5 DEF Next

\* The packet arrives: what forbids it is ahead of it.
LEMMA ArriveOnItsWay ==
  ASSUME isolated \in SUBSET Clients, list \in Lists, Arrive, Track PROVE OnItsWay'
<1>1. isolated' = isolated /\ at = "none"
  BY DEF Arrive, tables
<1>2. "net" \notin Clients /\ "tunnel" \notin Clients
  BY FilterAssumption
<1>3. at' # "none" => held' = Barriers(packet)'
  BY <1>1 DEF Track
<1>4. CASE \E c \in Clients, to \in Destinations : packet' = [from |-> c, to |-> to] /\ Move("count")
  <2>1. packet' \in [from : Clients, to : Destinations] /\ at' = "count" /\ list' = list
    BY <1>4 DEF Move
  <2>2. packet'.from \in Clients
    BY <2>1
  <2>3. ListsOnWay(packet)' \subseteq {"from_eth", "from_esp"}
    BY <2>1, <2>2 DEF ListsOnWay
  <2>4. held' \subseteq {"isolation", "from_eth", "killswitch", "from_esp"}
    BY <1>3, <2>1, <2>3 DEF Barriers
  <2> QED BY <2>1, <2>4 DEF OnItsWay, Ahead, AtClient
<1>5. CASE \E to \in Clients \cup {"router"} : packet' = [from |-> "net", to |-> to] /\ Consult("to_esp")
  <2>1. packet'.from = "net" /\ at' = "empty" /\ list' = "to_esp"
    BY <1>5 DEF Consult
  <2>2. ListsOnWay(packet)' \subseteq {"to_esp", "to_eth"}
    BY <1>2, <2>1 DEF ListsOnWay
  <2>3. ~Shut(packet)' /\ ~Isolation(packet)'
    BY <1>1, <1>2, <2>1 DEF Shut, Isolation, Flagged
  <2>4. held' \subseteq {"to_esp", "to_eth"}
    BY <1>3, <2>1, <2>2, <2>3 DEF Barriers
  <2> QED BY <1>2, <2>1, <2>4, ListNames DEF OnItsWay, Ahead, AtClient
<1>6. CASE \E to \in Clients \cup {"router"} : packet' = [from |-> "tunnel", to |-> to] /\ Move("route")
  <2>1. packet'.from = "tunnel" /\ at' = "route" /\ list' = list
    BY <1>6 DEF Move
  <2>2. ListsOnWay(packet)' \subseteq {"to_eth"}
    BY <1>2, <2>1 DEF ListsOnWay
  <2>3. ~Shut(packet)' /\ ~Isolation(packet)'
    BY <1>1, <1>2, <2>1 DEF Shut, Isolation, Flagged
  <2>4. held' \subseteq {"to_eth"}
    BY <1>3, <2>1, <2>2, <2>3 DEF Barriers
  <2> QED BY <1>2, <2>1, <2>4 DEF OnItsWay, Ahead, AtClient
<1> QED BY <1>4, <1>5, <1>6 DEF Arrive

\* The look at the counter lets an isolated client by only while an edit has not counted.
LEMMA CountOnItsWay ==
  ASSUME isolated \in SUBSET Clients, Settled, Tracked, OnItsWay, IsolationCount, Track PROVE OnItsWay'
<1>1. /\ at = "count" /\ at' # "none" /\ packet' = packet
      /\ packet \in [from : Clients, to : Destinations] /\ list \in Lists
      /\ held \subseteq {"isolation", "from_eth", "killswitch", "from_esp"} /\ held \subseteq Barriers(packet)
  BY DEF IsolationCount, Consult, Move, OnItsWay, Ahead, AtClient, Tracked
<1>2. held' \subseteq held
  BY <1>1, MarksMove
<1>3. CASE isolated_count = 0 \/ eth_dhcpc_enabled
  <2>1. at' = "empty" /\ list' = "from_eth"
    BY <1>3 DEF IsolationCount, Consult
  <2>2. ~Isolation(packet)
    <3>1. SUFFICES ASSUME Isolation(packet) PROVE FALSE
      OBVIOUS
    <3>2. /\ isolated # {} /\ isolated_count = 0
          /\ "isolated_count" \notin doubtful
          /\ \A t \in Tasks : "isolated_count" \notin Touched(todo[t])
      BY <1>3, <3>1, Zenon DEF Isolation, Flagged
    <3>3. isolated_count = Cardinality(isolated)
      BY <3>2 DEF Settled
    <3>4. IsFiniteSet(isolated)
      BY FilterAssumption, FS_Subset
    <3> QED BY <3>2, <3>3, <3>4, FS_EmptySet
  <2>3. "isolation" \notin held'
    BY <1>1, <1>2, <2>2, WhatBars
  <2> QED BY <1>1, <1>2, <2>1, <2>3, ListNames DEF OnItsWay, Ahead, AtClient
<1>4. CASE ~(isolated_count = 0 \/ eth_dhcpc_enabled)
  <2>1. at' = "flags" /\ list' = list
    BY <1>4 DEF IsolationCount, Move
  <2> QED BY <1>1, <1>2, <2>1 DEF OnItsWay, Ahead, AtClient
<1> QED BY <1>3, <1>4

\* The look at the flags.
LEMMA FlagsOnItsWay ==
  ASSUME Tracked, OnItsWay, IsolationFlags, Track PROVE OnItsWay'
<1>1. /\ at = "flags" /\ at' # "none" /\ packet' = packet
      /\ packet \in [from : Clients, to : Destinations] /\ list \in Lists
      /\ held \subseteq {"isolation", "from_eth", "killswitch", "from_esp"} /\ held \subseteq Barriers(packet)
      /\ Flagged(packet) => "isolation" \in stood
  BY DEF IsolationFlags, Consult, Move, OnItsWay, Ahead, AtClient, Tracked
<1>2. held' \subseteq held /\ stood \subseteq stood'
  BY <1>1, MarksMove
<1>3. packet.from \in isolated /\ IsolationForbids(packet.to) <=> Flagged(packet)
  BY <1>1 DEF IsolationForbids, Flagged, Private, Destinations
<1>4. CASE Flagged(packet)
  <2>1. at' = "dropped" /\ list' = list
    BY <1>3, <1>4 DEF IsolationFlags, Move
  <2>2. stood' # {}
    BY <1>1, <1>2, <1>4
  <2> QED BY <1>1, <2>1, <2>2 DEF OnItsWay, Ahead, AtClient
<1>5. CASE ~Flagged(packet)
  <2>1. at' = "empty" /\ list' = "from_eth"
    BY <1>3, <1>5 DEF IsolationFlags, Consult
  <2>2. "isolation" \notin held'
    BY <1>1, <1>2, <1>5, WhatBars DEF Isolation
  <2> QED BY <1>1, <1>2, <2>1, <2>2, ListNames DEF OnItsWay, Ahead, AtClient
<1> QED BY <1>4, <1>5

\* A packet that a list lets through has only what is behind the list ahead of it.
LEMMA PastOnItsWay ==
  ASSUME Tracked, OnItsWay, at \in {"empty", "check"}, ~Denied(list, packet), Past, packet' = packet, Track
  PROVE  OnItsWay'
<1>1. list \in Lists /\ held \subseteq Barriers(packet)
  BY DEF OnItsWay, Tracked
<1>2. at' \in {"killswitch", "route", "out"} /\ list' = list
  BY DEF Past, Move
<1>3. held' \subseteq held
  BY <1>2, MarksMove
<1>4. list \notin held'
  BY <1>1, <1>3, WhatBars
<1>5. CASE list = "from_eth"
  <2>1. at' = "killswitch" /\ packet \in [from : Clients, to : Destinations]
    BY <1>5 DEF Past, Move, OnItsWay, AtClient
  <2>2. held \subseteq {"from_eth", "killswitch", "from_esp"}
    BY <1>5 DEF OnItsWay, Ahead
  <2> QED BY <1>1, <1>2, <1>3, <1>4, <1>5, <2>1, <2>2 DEF OnItsWay, Ahead, AtClient
<1>6. CASE list = "to_esp"
  <2>1. at' = "route" /\ packet.from \notin Clients
    BY <1>6 DEF Past, Move, OnItsWay
  <2>2. held \subseteq {"to_esp", "to_eth"}
    BY <1>6 DEF OnItsWay, Ahead
  <2> QED BY <1>1, <1>2, <1>3, <1>4, <1>6, <2>1, <2>2 DEF OnItsWay, Ahead, AtClient
<1>7. CASE list \in {"from_esp", "to_eth"}
  <2>1. at' = "out"
    BY <1>7 DEF Past, Move
  <2>2. held \subseteq {list}
    BY <1>7 DEF OnItsWay, Ahead
  <2> QED BY <1>1, <1>2, <1>3, <1>4, <1>7, <2>1, <2>2 DEF OnItsWay, Ahead, AtClient
<1> QED BY <1>1, <1>5, <1>6, <1>7, ListNames

LEMMA EmptyOnItsWay ==
  ASSUME Tracked, OnItsWay, ListEmpty, Track PROVE OnItsWay'
<1>1. at = "empty" /\ packet' = packet
  BY DEF ListEmpty
<1>2. CASE acl_is_empty(list)
  BY <1>1, <1>2, EmptyDenies, PastOnItsWay DEF ListEmpty
<1>3. CASE ~acl_is_empty(list)
  <2>1. at' = "check" /\ list' = list
    BY <1>3 DEF ListEmpty, Move
  <2>2. held' \subseteq held
    BY <1>1, <2>1, MarksMove
  <2> QED BY <1>1, <2>1, <2>2 DEF OnItsWay, Ahead, AtClient
<1> QED BY <1>2, <1>3

\* A packet that a list denies has a reason to be dropped.
LEMMA CheckOnItsWay ==
  ASSUME acl_lists \in [Lists -> Row], Tracked, OnItsWay, ListCheck, Track PROVE OnItsWay'
<1>1. at = "check" /\ packet' = packet /\ list \in Lists
  BY DEF ListCheck, OnItsWay
<1>2. acl_check_packet(list, packet) <=> Denied(list, packet)
  BY <1>1, FirstRule
<1>3. CASE Denied(list, packet)
  <2>1. at' = "dropped" /\ list' = list
    BY <1>2, <1>3 DEF ListCheck, Move
  <2>2. list \in Barriers(packet)
    BY <1>1, <1>3, WhatBars DEF ListsOnWay
  <2>3. stood' # {}
    BY <1>1, <2>1, <2>2, MarksMove DEF Tracked
  <2> QED BY <1>1, <2>1, <2>3 DEF OnItsWay, Ahead, AtClient
<1>4. CASE ~Denied(list, packet)
  BY <1>1, <1>2, <1>4, PastOnItsWay DEF ListCheck
<1> QED BY <1>3, <1>4

LEMMA KillSwitchOnItsWay ==
  ASSUME Tracked, OnItsWay, KillSwitch, Track PROVE OnItsWay'
<1>1. /\ at = "killswitch" /\ packet' = packet /\ list' = list /\ list \in Lists
      /\ packet \in [from : Clients, to : Destinations]
      /\ held \subseteq {"killswitch", "from_esp"}
      /\ held \subseteq Barriers(packet) /\ Barriers(packet) \subseteq stood
  BY DEF KillSwitch, Move, OnItsWay, Ahead, AtClient, Tracked
<1>2. KillSwitchOn /\ KillSwitchForbids(packet.to) <=> Shut(packet)
  BY <1>1 DEF KillSwitchOn, vpn_is_connected, KillSwitchForbids, Shut, Destinations
<1>3. CASE Shut(packet)
  <2>1. at' = "dropped"
    BY <1>2, <1>3 DEF KillSwitch, Move
  <2>2. stood' # {}
    BY <1>1, <1>3, <2>1, WhatBars, MarksMove
  <2> QED BY <1>1, <2>1, <2>2 DEF OnItsWay, Ahead, AtClient
<1>4. CASE ~Shut(packet)
  <2>1. at' = "route"
    BY <1>2, <1>4 DEF KillSwitch, Move
  <2>2. held' \subseteq held /\ "killswitch" \notin held
    BY <1>1, <1>4, <2>1, WhatBars, MarksMove
  <2> QED BY <1>1, <2>1, <2>2 DEF OnItsWay, Ahead, AtClient
<1> QED BY <1>3, <1>4

\* A packet that leaves at once has no list ahead of it.
LEMMA RouteOnItsWay ==
  ASSUME Tracked, OnItsWay, Route, Track PROVE OnItsWay'
<1>1. /\ at = "route" /\ packet' = packet /\ at' \in {"out", "empty"} /\ list \in Lists
      /\ packet.from \in Clients => held \subseteq {"from_esp"}
      /\ packet.from \notin Clients => held \subseteq {"to_eth"}
      /\ held \subseteq Barriers(packet)
  BY DEF Route, Move, Consult, OnItsWay, Ahead, Tracked
<1>2. held' \subseteq held
  BY <1>1, MarksMove
<1>3. CASE packet.from \in Clients /\ (packet.to \in {"dhcp", "router"} \/ Tunnelled(packet.to))
  <2>1. at' = "out" /\ list' = list
    BY <1>3 DEF Route, Move
  <2>2. "from_esp" \notin ListsOnWay(packet)
    BY <1>1, <1>3 DEF ListsOnWay
  <2>3. "from_esp" \notin held
    BY <1>1, <2>2, WhatBars, ListNames
  <2> QED BY <1>1, <1>2, <1>3, <2>1, <2>3 DEF OnItsWay, Ahead, AtClient
<1>4. CASE packet.from \in Clients /\ ~(packet.to \in {"dhcp", "router"} \/ Tunnelled(packet.to))
  <2>1. at' = "empty" /\ list' = "from_esp"
    BY <1>4 DEF Route, Consult
  <2>2. packet \in [from : Clients, to : Destinations]
    BY <1>1, <1>4 DEF OnItsWay, AtClient
  <2> QED BY <1>1, <1>2, <1>4, <2>1, <2>2, ListNames DEF OnItsWay, Ahead, AtClient
<1>5. CASE packet.from \notin Clients /\ packet.to = "router"
  <2>1. at' = "out" /\ list' = list
    BY <1>5 DEF Route, Move
  <2>2. "to_eth" \notin ListsOnWay(packet)
    BY <1>1, <1>5 DEF ListsOnWay
  <2>3. "to_eth" \notin held
    BY <1>1, <2>2, WhatBars, ListNames
  <2> QED BY <1>1, <1>2, <1>5, <2>1, <2>3 DEF OnItsWay, Ahead, AtClient
<1>6. CASE packet.from \notin Clients /\ packet.to # "router"
  <2>1. at' = "empty" /\ list' = "to_eth"
    BY <1>6 DEF Route, Consult
  <2> QED BY <1>1, <1>2, <1>6, <2>1, ListNames DEF OnItsWay, Ahead, AtClient
<1> QED BY <1>3, <1>4, <1>5, <1>6

LEMMA NextOnItsWay ==
  ASSUME TypeOK, Settled, Tracked, OnItsWay, Next PROVE OnItsWay'
<1>1. Track /\ list \in Lists /\ isolated \in SUBSET Clients /\ acl_lists \in [Lists -> Row]
  BY DEF Next, OnItsWay, TypeOK
<1>2. CASE UNCHANGED travel
  <2>1. at' = at /\ list' = list /\ packet' = packet
    BY <1>2 DEF travel
  <2>2. at \notin {"none", "dropped"} => held' \subseteq held
    BY <1>1, <2>1, MarksMove
  <2>3. at = "dropped" => stood' # {}
    BY <1>1, <2>1, MarksMove DEF OnItsWay
  <2> QED BY <2>1, <2>2, <2>3 DEF OnItsWay, Ahead, AtClient
<1>3. CASE at' = "none" /\ list' = "to_esp"
  BY <1>3, ListNames DEF OnItsWay, Ahead, AtClient
<1> QED BY <1>1, <1>2, <1>3, TravelCases, ArriveOnItsWay, CountOnItsWay, FlagsOnItsWay, EmptyOnItsWay,
        CheckOnItsWay, KillSwitchOnItsWay, RouteOnItsWay
-----------------------------------------------------------------------------
(* The invariant *)

IInv ==
  /\ TypeOK /\ ImageKept
  /\ SavesFirst /\ Solo /\ Foretold /\ Settled
  /\ Tracked /\ OnItsWay

LEMMA InitIInv == Init => IInv
<1> SUFFICES ASSUME Init PROVE IInv
  OBVIOUS
<1>1. TypeOK
  BY InitTypeOK
<1>2. ImageKept
  BY DEF Init, ImageKept, Partitions
<1>3. \A t \in Tasks : todo[t] = <<>> /\ Touched(todo[t]) = {}
  BY ShortTouched DEF Init
<1>4. SavesFirst
  BY <1>3 DEF SavesFirst, Prompt, Bare
<1>5. Solo
  BY <1>3 DEF Solo
<1>6. Foretold
  BY <1>3 DEF Init, Foretold, Decides
<1>7. Settled
  BY <1>3 DEF Init, Settled, Doing, Idle
<1>8. Tracked
  BY DEF Init, Tracked
<1>9. OnItsWay
  BY ListNames DEF Init, OnItsWay, Ahead, AtClient
<1> QED BY <1>1, <1>2, <1>4, <1>5, <1>6, <1>7, <1>8, <1>9 DEF IInv

LEMMA NextIInv == IInv /\ Next => IInv'
<1> SUFFICES ASSUME IInv, Next PROVE IInv'
  OBVIOUS
<1>1. TypeOK' /\ ImageKept'
  BY NextTypeOK, NextImage DEF IInv
<1>2. SavesFirst' /\ Solo' /\ Foretold' /\ Settled'
  BY NextSavesFirst, NextForetold, NextSettled DEF IInv
<1>3. Tracked' /\ OnItsWay'
  BY NextTracked, NextOnItsWay DEF IInv, Next
<1> QED BY <1>1, <1>2, <1>3 DEF IInv

LEMMA StutterIInv == IInv /\ UNCHANGED allvars => IInv'
<1> SUFFICES ASSUME IInv, UNCHANGED allvars PROVE IInv'
  OBVIOUS
<1> USE DEF allvars, vars, tables, tunnels, travel, promises, history, system, firmware, pages
<1>1. TypeOK' /\ ImageKept'
  BY DEF IInv, TypeOK, ImageKept
<1>2. SavesFirst' /\ Solo' /\ Foretold'
  BY DEF IInv, SavesFirst, Solo, Foretold
<1>3. Settled'
  BY DEF IInv, Settled, Doing, Idle
<1>4. Tracked'
  BY DEF IInv, Tracked, Barriers, ListsOnWay, Tunnelled, Denied, Matches, Seen, Shut, Isolation, Flagged
<1>5. OnItsWay'
  BY DEF IInv, OnItsWay, Ahead, AtClient
<1> QED BY <1>1, <1>2, <1>3, <1>4, <1>5 DEF IInv

\* Typing, the order of a call's steps, what they promise and count, and the packet's marks
\* hold in every reachable state, whatever the tasks call and whenever the router restarts.
THEOREM Invariance == Spec => []IInv
<1>1. IInv /\ [Next]_allvars => IInv'
  BY NextIInv, StutterIInv
<1> QED BY <1>1, InitIInv, PTL DEF Spec

\* A packet that a rule, the isolation or the kill switch forbade all the way never leaves,
\* however many clients, rules and tasks there are and whatever they edit meanwhile.
THEOREM ForbiddenNeverLeaves == Spec => []Barred
<1>1. IInv => Barred
  BY DEF IInv, OnItsWay, Ahead, Barred
<1> QED BY <1>1, Invariance, PTL

\* A packet is dropped only by something that forbade it at some time on its way.
THEOREM DroppedForAReason == Spec => []Spared
<1>1. IInv => Spared
  BY DEF IInv, OnItsWay, Spared
<1> QED BY <1>1, Invariance, PTL

\* When no call is under way, flash holds what the last call that wrote a key said it saved,
\* unless two calls that write it ran at once.
THEOREM PromiseAlwaysKept == Spec => []PromiseKept
<1>1. ASSUME IInv PROVE PromiseKept
  <2>1. ASSUME \A t \in Tasks : Idle(t) PROVE \A t \in Tasks : Touched(todo[t]) = {}
    BY <2>1, ShortTouched DEF Idle
  <2> QED BY <1>1, <2>1 DEF IInv, Foretold, PromiseKept
<1> QED BY <1>1, Invariance, PTL

\* The partition that runs always holds a whole image.
THEOREM ImageAlwaysKept == Spec => []ImageKept
<1>1. IInv => ImageKept
  BY DEF IInv
<1> QED BY <1>1, Invariance, PTL
=============================================================================
