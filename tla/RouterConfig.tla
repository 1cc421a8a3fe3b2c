---------------------------- MODULE RouterConfig ----------------------------
(***************************************************************************)
(* The router's settings and its firmware: the calls of the consoles       *)
(* (cmd_router.c, cmd_system.c), of the web server (http_server.c) and of  *)
(* the button (esp32_nat_router.c) that write flash key by key, the upload *)
(* of firmware, and restarts and power losses between any two steps.       *)
(*                                                                         *)
(* PacketFilter has the settings that decide about packets, and their      *)
(* effect.  A call is the sequence of its steps; nvs_set_* and nvs_erase_* *)
(* are durable at once, or fail.  The values of settings that nothing here *)
(* reads are one value, "set".  One key stands for those that belong       *)
(* together where nothing tells them apart: web_disabled for web_port and  *)
(* web_bind, vpn_privkey for vpn_pubkey and vpn_psk, and so on.            *)
(***************************************************************************)
EXTENDS PacketFilter, Functions

CONSTANTS
  Httpd,       \* the web server's task
  Button,      \* the thread that watches the BOOT button
  Stored,      \* what flash may hold when the router is first switched on
  MaxFailures  \* bound on the writes to flash that fail

Consoles == Tasks \ {Httpd, Button}
Partitions == {0, 1}

Secrets == {"passwd", "vpn_privkey", "web_password"}

\* Each key is absent or holds what it is for.
ASSUME ConfigAssumption ==
  /\ {Httpd, Button} \subseteq Tasks /\ Httpd # Button
  /\ Stored # {} /\ MaxFailures \in Nat
  /\ \A keys \in Stored :
       /\ keys = [key \in Keys |-> keys[key]]
       /\ \A l \in Lists : keys[l] \in {Absent} \cup [Slots -> Rules \cup {NoRule}]
       /\ keys["dhcp_res"] \in {Absent} \cup SUBSET Clients

VARIABLES
  image,          \* does each of the two partitions hold a whole image?
  running,        \* the partition that runs
  boot,           \* the partition to boot
  session_active, \* somebody is logged in to the web pages
  file,           \* the configuration file the operator has
  failures        \* what MaxFailures counts

firmware == <<image, running, boot>>
pages == <<session_active, file>>
system == <<firmware, pages, failures>>
allvars == <<vars, system>>

\* load_acl_rules
LoadedLists(keys) == [l \in Lists |-> IF keys[l] = Absent THEN EmptyList ELSE keys[l]]

\* get_dhcp_reservations
LoadedIsolation(keys) == IF keys["dhcp_res"] = Absent THEN {} ELSE keys["dhcp_res"]

\* nvs_export_to_json_robust leaves the secrets out.
Exported(keys) == [key \in Keys |-> IF key \in Secrets THEN Absent ELSE keys[key]]
-----------------------------------------------------------------------------
Init ==
  /\ flash \in Stored
  /\ acl_lists = LoadedLists(flash)
  /\ isolated = LoadedIsolation(flash) /\ isolated_count = Cardinality(isolated)
  /\ eth_dhcpc_enabled = (flash["eth_dhcpc"] = "on")
  /\ vpn \in VpnSettings /\ tunnel = "down"
  /\ packet = NoPacket /\ at = "none" /\ list = "to_esp"
  /\ todo = [t \in Tasks |-> <<>>]
  /\ edits = 0
  /\ held = {} /\ stood = {}
  /\ promised = flash /\ doubtful = {}
  /\ image = [p \in Partitions |-> TRUE]
  /\ running = 0 /\ boot = 0
  /\ session_active = FALSE /\ file \in {Exported(keys) : keys \in Stored}
  /\ failures = 0

\* A restart, by a power loss, esp_restart or the restart timer, at any time.  The
\* bootloader takes the other partition when the one to boot does not hold an image.
Restart ==
  /\ acl_lists' = LoadedLists(flash)
  /\ isolated' = LoadedIsolation(flash) /\ isolated_count' = Cardinality(isolated')
  /\ eth_dhcpc_enabled' = (flash["eth_dhcpc"] = "on")
  /\ vpn' \in VpnSettings /\ tunnel' = "down"
  /\ packet' = NoPacket /\ at' = "none" /\ list' = "to_esp"
  /\ todo' = [t \in Tasks |-> <<>>]
  /\ promised' = flash /\ doubtful' = {}
  /\ running' = IF image[boot] THEN boot ELSE 1 - boot
  /\ session_active' = FALSE
  /\ UNCHANGED <<flash, edits, image, boot, file, failures>>
-----------------------------------------------------------------------------
(* Commands, by the steps they do *)

set_sta == <<Set("ssid", "set"), Set("passwd", "set"), Set("ent_username", "set")>>
set_sta_static == <<Set("static_ip", "set"), Set("gateway_addr", "set")>>
set_sta_static_dhcp == <<Set("static_ip", Absent), Set("gateway_addr", Absent)>>
set_mac == <<Set("mac", "set")>>
set_ap_dns == <<Set("ap_dns", "set")>>
set_eth_nat == <<Set("eth_nat", "set")>>
set_eth_dhcps == <<Set("eth_dhcps", "set")>>
set_hostname == <<Set("hostname", "set")>>
web_ui == <<Set("web_disabled", "set")>>
set_web_password_hashed(value) == <<Set("web_password", value)>>
portmap == <<Set("portmap_tab", "set")>>
set_vpn == <<Set("vpn_privkey", "set"), Set("vpn_endpoint", "set"), Set("vpn_enabled", "set")>>
vpn_import_conf == <<Set("vpn_privkey", "set"), Set("vpn_endpoint", "set"), Set("vpn_enabled", "set")>>
set_led_gpio == <<Set("led_gpio", "set")>>
set_led_lowactive == <<Set("led_low", "set")>>
set_led_strip == <<Set("ls_gpio", "set")>>
set_ttl == <<Set("sta_ttl", "set")>>
set_tx_power == <<Set("tx_power", "set")>>
set_wifi_country == <<Set("wifi_cc", "set")>>
set_rf_switch == <<Set("rf_switch", "set")>>
set_spi_clock == <<Set("spi_clk_mhz", "set")>>
set_tz == <<Set("tz", "set")>>

\* A new address clears the reservations and the port mappings of another network.
set_ap_ip(moves) ==
  <<Set("ap_ip", "set")>>
    \o (IF moves THEN <<Step("clear"), Set("portmap_tab", "cleared")>> ELSE <<>>)

\* The switch is in force at once.
set_eth_dhcpc(value) == <<Set("eth_dhcpc", value), [Step("uplink") EXCEPT !.value = value]>>

factory_reset == <<Step("erase"), Step("restart")>>
restart == <<Step("restart")>>

\* An address can only move to another network if one is stored.
Moves == IF flash["ap_ip"] = Absent THEN {FALSE} ELSE BOOLEAN

Commands ==
  {set_sta, set_sta_static, set_sta_static_dhcp, set_mac, set_ap_dns, set_eth_nat, set_eth_dhcps,
   set_hostname, web_ui, portmap, set_vpn, vpn_import_conf, set_led_gpio, set_led_lowactive,
   set_led_strip, set_ttl, set_tx_power, set_wifi_country, set_rf_switch, set_spi_clock, set_tz,
   factory_reset, restart}
    \cup {set_ap_ip(moves) : moves \in Moves}
    \cup {set_eth_dhcpc(value) : value \in {"on", "off"}}
    \cup {set_web_password_hashed(value) : value \in {"set", ""}}
-----------------------------------------------------------------------------
(* Forms of the web pages *)

DownlinkForm(moves) == set_ap_ip(moves) \o set_ap_dns \o set_eth_nat \o set_eth_dhcps
StationForm == set_sta \o set_mac
StaticForm == set_sta_static
DisableForm == web_ui
VpnImport == vpn_import_conf
PortForm == portmap

\* It enables the VPN before it stores the keys.
VpnForm == <<Set("vpn_enabled", "set"), Set("vpn_privkey", "set"), Set("vpn_endpoint", "set")>>

\* nvs_import_from_json_robust: all keys are erased, then those in the file are set.
Import ==
  LET contents == [key \in {k \in Keys : file[k] # Absent} |-> file[key]]
  IN  <<Step("erase"), [Step("import") EXCEPT !.value = contents]>>

Forms ==
  {StationForm, StaticForm, DisableForm, VpnForm, VpnImport, PortForm}
    \cup {DownlinkForm(moves) : moves \in Moves}
    \cup (IF \A key \in Keys : file[key] = Absent THEN {} ELSE {Import})
-----------------------------------------------------------------------------
(* Calls *)

\* What the steps write, when clear_all_dhcp_reservations is spelled out.
Writes(steps) ==
  [i \in DOMAIN steps |-> IF steps[i].op = "clear" THEN Set("dhcp_res", {}) ELSE steps[i]]

\* Task t calls something that will do these steps.
Start(t, steps) ==
  /\ Call(t, steps)
  /\ Promise(t, steps, Writes(steps))
  /\ UNCHANGED <<tables, tunnels, travel, flash, system>>

acl_add_cmd(t) == \E l \in Lists, rule \in Rules : AddRule(t, l, rule)
acl_del_cmd(t) == \E l \in Lists, idx \in Slots : DeleteRule(t, l, idx)
acl_clear_cmd(t) == \E l \in Lists : ClearList(t, l)

\* An entry is added, deleted, flagged or unflagged.
dhcp_reserve(t) == \E clients \in SUBSET Clients : SetIsolation(t, clients)

Console(t) ==
  \/ \E steps \in Commands : Start(t, steps)
  \/ (acl_add_cmd(t) \/ acl_del_cmd(t) \/ acl_clear_cmd(t) \/ dhcp_reserve(t)) /\ UNCHANGED system

ButtonHeld == Start(Button, factory_reset)

\* A password is stored, hashed or, by older firmware, in plain.
is_web_password_set == flash["web_password"] \in {"set", "plain"}

\* The request is let in.
is_authenticated == ~is_web_password_set \/ session_active

\* The password is right: one stored in plain is hashed now.
verify_web_password ==
  IF flash["web_password"] = "plain" THEN set_web_password_hashed("set") ELSE <<>>

create_session == Step("login")
clear_session == Step("logout")

Login == is_web_password_set /\ Start(Httpd, verify_web_password \o <<create_session>>)
Logout == session_active /\ Start(Httpd, <<clear_session>>)

\* The password page ends the session once the password is stored.
PasswordForm ==
  /\ is_authenticated
  /\ \E value \in {"set", ""} : Start(Httpd, set_web_password_hashed(value) \o <<clear_session>>)

\* The session expires, as the next request finds out.
Expire ==
  /\ session_active /\ Idle(Httpd)
  /\ session_active' = FALSE
  /\ UNCHANGED <<tables, tunnels, travel, flash, todo, edits, promises, firmware, file, failures>>

SettingsForm == \E steps \in Forms : Start(Httpd, steps)
AddForm == (\E l \in Lists, rule \in Rules : AddRule(Httpd, l, rule)) /\ UNCHANGED system
DeleteForm == (\E l \in Lists, idx \in Slots : DeleteRule(Httpd, l, idx)) /\ UNCHANGED system
ClearForm == (\E l \in Lists : ClearList(Httpd, l)) /\ UNCHANGED system
ReserveForm == (\E clients \in SUBSET Clients : SetIsolation(Httpd, clients)) /\ UNCHANGED system

\* One that no edit overlaps.
Export ==
  /\ \A t \in Tasks : Idle(t)
  /\ file' = Exported(flash)
  /\ UNCHANGED <<tables, tunnels, travel, flash, todo, edits, promises, firmware, session_active, failures>>

Page == is_authenticated /\ (SettingsForm \/ AddForm \/ DeleteForm \/ ClearForm \/ ReserveForm \/ Export)
-----------------------------------------------------------------------------
(* Steps *)

EraseKeys(t) ==
  /\ Doing(t, "erase")
  /\ flash' = [key \in Keys |-> Absent]
  /\ Done(t)
  /\ UNCHANGED <<tables, tunnels, travel, edits, promises, system>>

\* These keys cannot be written or erased.
Fails(keys) ==
  /\ failures < MaxFailures
  /\ failures' = failures + 1
  /\ doubtful' = doubtful \cup keys
  /\ UNCHANGED flash

\* One key after the other, in the order of the file, whether or not it can be set.
ImportKey(t) ==
  /\ Doing(t, "import")
  /\ LET left == Head(todo[t]).value
         key == CHOOSE k \in DOMAIN left : TRUE
         rest == Restrict(left, DOMAIN left \ {key})
     IN  /\ \/ flash' = [flash EXCEPT ![key] = left[key]] /\ UNCHANGED <<doubtful, failures>>
            \/ Fails({key})
         /\ IF DOMAIN rest = {} THEN Done(t)
            ELSE todo' = [todo EXCEPT ![t] = <<[Step("import") EXCEPT !.value = rest]>> \o Tail(@)]
  /\ UNCHANGED <<tables, tunnels, travel, edits, promised, firmware, pages>>

\* A step that a call does only if the one before it could be done.
Depends(t, step) ==
  \/ step.op \in {"clear", "uplink", "logout"}
  \/ step.op = "restart" /\ t # Button
  \/ step.op = "set" /\ <<step.key, step.value>> \in
       {<<"passwd", "set">>, <<"ent_username", "set">>, <<"gateway_addr", "set">>, <<"portmap_tab", "cleared">>}

\* The call goes on with the first step that does not depend on the one that fails.
WriteFails(t) ==
  /\ Doing(t, "set") \/ Doing(t, "erase") \/ Doing(t, "save")
  /\ \E n \in DOMAIN todo[t] :
       LET skips(i) == i \in DOMAIN todo[t] /\ ~Doing(t, "save") /\ Depends(t, todo[t][i])
       IN  /\ (\A i \in 2 .. n : skips(i)) /\ ~skips(n + 1)
           /\ Fails(Touched(SubSeq(todo[t], 1, n)))
           /\ todo' = [todo EXCEPT ![t] = SubSeq(@, n + 1, Len(@))]
  /\ UNCHANGED <<tables, tunnels, travel, edits, promised, firmware, pages>>

SwitchUplink(t) ==
  /\ Doing(t, "uplink")
  /\ eth_dhcpc_enabled' = (Head(todo[t]).value = "on")
  /\ Done(t)
  /\ UNCHANGED <<acl_lists, isolated, isolated_count, tunnels, travel, flash, edits, promises, system>>

SwitchSession ==
  /\ Doing(Httpd, "login") \/ Doing(Httpd, "logout")
  /\ session_active' = Doing(Httpd, "login")
  /\ Done(Httpd)
  /\ UNCHANGED <<tables, tunnels, travel, flash, edits, promises, firmware, file, failures>>

Save(t) == Snapshot(t) \/ WriteKey(t) \/ Count(t) \/ StoreCount(t) \/ SaveReservations(t) \/ ClearReservations(t)
-----------------------------------------------------------------------------
(* Firmware *)

\* A fault: the partition that is not to boot is written.
Upload_OverRunning ==
  /\ is_authenticated /\ Call(Httpd, <<Step("receive")>>)
  /\ image' = [image EXCEPT ![1 - boot] = FALSE]
  /\ UNCHANGED <<tables, tunnels, travel, flash, promises, running, boot, pages, failures>>

\* ota_upload_handler: the partition that does not run is erased ...
Upload ==
  /\ is_authenticated /\ Call(Httpd, <<Step("receive")>>)
  /\ image' = [image EXCEPT ![1 - running] = FALSE]
  /\ UNCHANGED <<tables, tunnels, travel, flash, promises, running, boot, pages, failures>>

\* ... and written as the image comes in; a connection that ends, or an image that is
\* not valid, leaves it as it is ...
ReceiveFails ==
  /\ Doing(Httpd, "receive")
  /\ Done(Httpd)
  /\ UNCHANGED <<tables, tunnels, travel, flash, edits, promises, system>>

\* ... and a whole image is made the one to boot, if that does not fail.
Received ==
  /\ Doing(Httpd, "receive")
  /\ image' = [image EXCEPT ![1 - running] = TRUE]
  /\ boot' \in {boot, 1 - running}
  /\ Done(Httpd)
  /\ UNCHANGED <<tables, tunnels, travel, flash, edits, promises, running, pages, failures>>
-----------------------------------------------------------------------------
Packets ==
  /\ \/ Arrive \/ IsolationCount \/ IsolationFlags \/ ListEmpty \/ ListCheck
     \/ KillSwitch \/ Route \/ Gone \/ TunnelChanges
  /\ UNCHANGED system

Calls ==
  \/ \E t \in Consoles : Console(t)
  \/ Login \/ Logout \/ PasswordForm \/ Expire \/ Page \/ ButtonHeld
  \/ Upload \/ ReceiveFails \/ Received

Steps ==
  \/ \E t \in Tasks : (Save(t) /\ UNCHANGED system) \/ EraseKeys(t) \/ ImportKey(t) \/ WriteFails(t)
     \/ SwitchUplink(t)
  \/ SwitchSession

Next == (Packets \/ Calls \/ Steps \/ Restart) /\ Track

Spec == Init /\ [][Next]_allvars

\* Whatever uploads are begun, fail, succeed or are cut off by a restart, the
\* partition that runs holds a whole image, so that the bootloader always finds one:
\* even when a second upload, started before the restart that follows the first,
\* tears the partition that is to boot.
ImageKept == image[running]
=============================================================================
