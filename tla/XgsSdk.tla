------------------------------- MODULE XgsSdk -------------------------------
(***************************************************************************)
(* The Broadcom SDK of the Trident and Tomahawk chips as the scripts use   *)
(* it.  An object is named after the variable of the script that holds its *)
(* id: creating it again gives the variable a new id, so it never fails    *)
(* for being there, and what referred to the old object is not looked at   *)
(* any more.                                                               *)
(***************************************************************************)
EXTENDS CintScript

Vlan(v) == <<"vlan", v>>
Member(gp, v) == <<"member", gp, v>>
Port(p, setting) == <<"port", p, setting>>
Switch(key) == <<"switch", key>>
Fg(g) == <<"group", g>>
Qual(g, q) == <<"qual", g, q>>             \* q is in the group's qualifier set
Entry(e) == <<"entry", e>>
Match(e, q) == <<"match", e, q>>           \* what the entry matches on
Acts(e, a) == <<"does", e, a>>            \* what it does
Installed(e) == <<"installed", e>>
Policer(p) == <<"policer", p>>
Policed(e, p) == <<"policed", e, p>>
Counter(c) == <<"counter", c>>             \* a flexible counter, or a statistics group
Mode(m) == <<"mode", m>>
Counts(c, object) == <<"counts", c, object>>
Rif(i) == <<"rif", i>>
Iif(i) == <<"iif", i>>                     \* an ingress interface
Uses(v, i) == <<"uses", v, i>>             \* the ingress interface of a VLAN
Egress(x) == <<"egress", x>>
Route(r, x) == <<"route", r, x>>
Tunnel(way, t) == <<"tunnel", way, t>>
Station(s) == <<"station", s>>
Mcast(g) == <<"mcast", g>>
Vpn(v) == <<"vpn", v>>
VpnPort(vp, v) == <<"vpn port", vp, v>>
Callback(c) == <<"callback", c>>
Mirror(m) == <<"mirror", m>>
Sampler(s) == <<"sampler", s>>
Classifier(c) == <<"classifier", c>>
Hints(h) == <<"hints", h>>

(* The facts a fact is about.                                              *)
XgsRefersTo(fact) ==
  CASE fact[1] = "member" -> {Vlan(fact[3])}
    [] fact[1] = "qual" -> {Fg(fact[2])}
    [] fact[1] \in {"match", "does", "installed"} -> {Entry(fact[2])}
    [] fact[1] = "policed" -> {Entry(fact[2]), Policer(fact[3])}
    [] fact[1] = "counts" -> {Counter(fact[2])}
    [] fact[1] = "uses" -> {Vlan(fact[2]), Iif(fact[3])}
    [] fact[1] = "vpn uses" -> {Vpn(fact[2]), Iif(fact[3])}
    [] fact[1] = "entry id" -> {Entry(fact[2])}
    [] fact[1] = "route" -> {Egress(fact[3])}
    [] fact[1] = "vpn port" -> {Vpn(fact[3])}
    [] OTHER -> {}

(* A name nothing has defined stops the command where it is met, with a    *)
(* message of the shell's; so does a test script whose error is fatal.     *)
Undefined == Call({Never}, {})

-----------------------------------------------------------------------------
(* Ports, VLANs, the switch.                                               *)
vlan_create(v) == Create({}, Vlan(v))
vlan_gport_add(v, gp) == Call({Vlan(v)}, {Member(gp, v)})
port_set(p, setting) == Call({}, {Port(p, setting)})
port_unset(p, setting) == Drop({}, {Port(p, setting)})
switch_control_set(key) == Call({}, {Switch(key)})
port_gport_get == Query
pktio_rx_register(c) == Call({}, {Callback(c)})

(* Field groups and their entries.                                         *)
field_group_create(g, quals) == Call({}, {Fg(g)} \cup {Qual(g, q) : q \in quals})
field_hints_add(h) == Unchecked(Call({}, {Hints(h)})) \o Call({Hints(h)}, {})
field_entry_create(g, e) == Call({Fg(g)}, {Entry(e)})
field_qualify(g, e, q) == Call({Entry(e), Qual(g, q)}, {Match(e, q)})
field_action_add(e, a) == Call({Entry(e)}, {Acts(e, a)})
field_entry_set(e) == Call({Entry(e)}, {})
field_entry_install(e) == Call({Entry(e)}, {Installed(e)})
field_range_create(g) == Query
policer_create(p) == Call({}, {Policer(p)})
entry_policer_attach(e, p) == Call({Entry(e), Policer(p)}, {Policed(e, p)})

(* Counters.                                                               *)
flexctr_action_create(c) == Call({}, {Counter(c)})
flexctr_action_destroy(c) == Destroy(Counter(c), {})
stat_attach(c, object, need) == Call({Counter(c)} \cup need, {Counts(c, object)})
stat_get(c, object) == Call({Counts(c, object)}, {})
stat_group_mode_id_create(m) == Call({}, {Mode(m)})
stat_custom_group_create(m, c) == Call({Mode(m)}, {Counter(c)})

(* Routing.  An ingress interface is bound to the VLANs that use it.       *)
l3_intf_create(i, v) == Call({Vlan(v)}, {Rif(i)})
l3_ingress_create(i) == Call({}, {Iif(i)})
vlan_control_vlan(v, i) == Call({Vlan(v)}, {}) \o Call({Vlan(v), Iif(i)}, {Uses(v, i)})
l3_egress_create(x, i) == Call({Rif(i)}, {Egress(x)})
l3_route_add(r, x) == Call({Egress(x)}, {Route(r, x)})
l2_station_add(s) == Call({}, {Station(s)})
tunnel_create(way, t, need) == Call(need, {Tunnel(way, t)})
=============================================================================
