------------------------------- MODULE J2Sdk -------------------------------
(***************************************************************************)
(* The Broadcom SDK of a Jericho 2 as the scripts use it: the objects of   *)
(* the chip, what each call needs and what it leaves.                      *)
(*                                                                         *)
(* VLANs and VSIs are kept apart as the scripts keep them.  A gport is a   *)
(* number: a port's own, TrunkPort(t) for trunk t.  A logical interface    *)
(* (LIF) is "in" or "out", under the number the script names it by.        *)
(***************************************************************************)
EXTENDS CintScript

CONSTANT VlanIds   \* the VLANs and VSIs of the sessions that are looked at

Vlan(v) == <<"vlan", v>>
Vsi(v) == <<"vsi", v>>
Member(gp, v) == <<"member", gp, v>>        \* of a VLAN
Pvid(gp, v) == <<"pvid", gp, v>>            \* the VLAN of untagged packets
Domain(gp, d) == <<"domain", gp, d>>
Tpid(gp, format) == <<"tpid", gp, format>>
Lif(way, l) == <<"lif", way, l>>
InVsi(way, l, v) == <<"in vsi", way, l, v>>
Edit(way, l, on) == <<"edit", way, l, on>>  \* its VLAN editing on ingress or egress
ActionId(a) == <<"action id", a>>
Action(a) == <<"action", a>>
Rule(way, class, format, a) == <<"rule", way, class, format, a>>
TagClass(c) == <<"tag class", c>>
SwitchTpid == <<"switch tpid">>
Stk == <<"stk">>                            \* the stacking module, enabled
Learns(gp) == <<"learns", gp>>
Mac(v, gp) == <<"mac", v, gp>>              \* addresses of a VSI behind a gport
Floods(v) == <<"floods", v>>
Mcast(g) == <<"mcast", g>>
Replica(g, gp, l) == <<"replica", g, gp, l>>
Trunk(t) == <<"trunk", t>>
TrunkMember(t, p) == <<"trunk member", t, p>>
Header(gp, key) == <<"header", gp, key>>
Rif(i) == <<"rif", i>>
RifVrf(i) == <<"rif vrf", i>>
Encap(e) == <<"encap", e>>
Fec(f) == <<"fec", f>>
Route(r, f) == <<"route", r, f>>
Ctx(c) == <<"context", c>>                 \* a field context
Fg(g) == <<"fg", g>>
Attached(g, context) == <<"attached", g, context>>
Entry(g, e) == <<"entry", g, e>>

DefVlan == 4095                             \* stands for no VLAN
TrunkPort(t) == 1000 + t
OnPort(gp) == IF gp > 1000 THEN {Trunk(gp - 1000)} ELSE {}

(* The facts a fact is about.                                              *)
J2RefersTo(fact) ==
  CASE fact[1] = "member" -> {Vlan(fact[3])} \cup OnPort(fact[2])
    [] fact[1] = "pvid" -> {Vlan(fact[3])} \ {Vlan(DefVlan)}
    [] fact[1] = "in vsi" -> {Lif(fact[2], fact[3]), Vsi(fact[4])}
    [] fact[1] = "edit" -> {Lif(fact[2], fact[3])}
    [] fact[1] = "action" -> {ActionId(fact[2])}
    [] fact[1] = "rule" -> {ActionId(fact[5])}
    [] fact[1] = "mac" -> {Vsi(fact[2])}
    [] fact[1] = "replica" -> {Mcast(fact[2])}
    [] fact[1] = "trunk member" -> {Trunk(fact[2])}
    [] fact[1] = "rif vrf" -> {Rif(fact[2])}
    [] fact[1] = "route" -> {Fec(fact[3])}
    [] fact[1] = "attached" -> {Fg(fact[2]), Ctx(fact[3])}
    [] fact[1] = "entry" -> {Fg(fact[2])}
    [] fact[1] = "entry id" -> {Entry(fact[2], fact[3])}
    [] fact[1] \in {"hash", "presel"} -> {Ctx(fact[2])}
    [] OTHER -> {}

-----------------------------------------------------------------------------
(* VLANs, VSIs and ports.                                                  *)
(* A VLAN brings a VSI of its number.                                      *)
vlan_create(v) ==
  <<[Step EXCEPT !.absent = {Vlan(v), Vsi(v)}, !.make = {Vlan(v), Vsi(v)}]>>
vlan_destroy(v, gports) == Destroy(Vlan(v), {Vsi(v)} \cup {Member(gp, v) : gp \in gports})
vswitch_create_with_id(v) == Create({}, Vsi(v))
vswitch_destroy(v) == Destroy(Vsi(v), {})
vlan_gport_add(v, gp) == Call({Vlan(v)} \cup OnPort(gp), {Member(gp, v)})
port_untagged_vlan_set(gp, v) ==
  Replace(OnPort(gp), {Pvid(gp, w) : w \in VlanIds}, {Pvid(gp, v)})
port_untagged_vlan_get(gp) == Call(OnPort(gp), {Local("pvid")})
port_class_set(gp, d) == Call(OnPort(gp), {Domain(gp, d)})
port_tpid_class_set(gp, format) == Call(OnPort(gp), {Tpid(gp, format)})
switch_control_port_header(gp, key) == Call(OnPort(gp), {Header(gp, key)})
(* A port is taken out of a VLAN whether or not it is in: adv_vlan.c deletes*)
(* at 995 what it has removed at 990, and takes an error for a failure.    *)
vlan_gport_delete(v, gp) == Drop({Vlan(v)}, {Member(gp, v)})
vlan_port_remove(v, port) == Drop({Vlan(v)}, {Member(port, v)})
stk_module_enable == Call({}, {Stk})
stk_module_disable == Drop({}, {Stk})
switch_tpid_delete_all == Drop({}, {SwitchTpid})
switch_tpid_add == Call({}, {SwitchTpid})
port_tpid_class_create(c) == Create({}, TagClass(c))
port_tpid_class_destroy(c) == Destroy(TagClass(c), {})
port_learn_set(gp) == Call({}, {Learns(gp)})
l2_addr_add(v, gp) == Call({Vsi(v)} \cup OnPort(gp), {Mac(v, gp)})
l2_addr_delete_by_port(gp) == Drop({}, {Mac(v, gp) : v \in VlanIds})

(* VLAN editing: actions, and the action for an edit class and tag format. *)
action_id_create(a) == Create({}, ActionId(a))
action_id_set(a) == Call({ActionId(a)}, {Action(a)})
action_class_set(way, class, format, a) == Call({}, {Rule(way, class, format, a)})

(* Multicast groups and their replications.                                *)
multicast_create(g) == Create({}, Mcast(g))
multicast_destroy(g, replicas) == Destroy(Mcast(g), replicas)
multicast_add(g, gp, encap) == Call({Mcast(g)}, {Replica(g, gp, encap)})
multicast_delete(g, gp, encap) == Destroy(Replica(g, gp, encap), {})

(* Logical interfaces.                                                     *)
vlan_port_create(way, l, gp) == Create(OnPort(gp), Lif(way, l))
vlan_port_create_in_vsi(way, l, gp, v) ==
  <<[Step EXCEPT !.need = {Vsi(v)} \cup OnPort(gp), !.absent = {Lif(way, l)},
                 !.make = {Lif(way, l), InVsi(way, l, v)}]>>
vswitch_port_add(v, way, l) == Call({Vsi(v), Lif(way, l)}, {InVsi(way, l, v)})
vlan_port_destroy(way, l, v) ==
  Destroy(Lif(way, l), {InVsi(way, l, v), Edit(way, l, "ingress"), Edit(way, l, "egress")})
vswitch_port_delete(v, way, l) == Destroy(InVsi(way, l, v), {})
vlan_port_translation_set(way, l, on) == Call({Lif(way, l)}, {Edit(way, l, on)})

(* Trunks.                                                                 *)
trunk_create(t) == Create({}, Trunk(t))
trunk_set(t, ports) == Call({Trunk(t)}, {TrunkMember(t, p) : p \in ports})
trunk_member_add(t, p, others) ==
  <<[Step EXCEPT !.need = {Trunk(t)}, !.absent = {TrunkMember(o, p) : o \in others},
                 !.make = {TrunkMember(t, p)}]>>
trunk_member_delete(t, p) == Destroy(TrunkMember(t, p), {})

(* Routing: router interfaces, encapsulations, FECs.                       *)
l3_intf_create(i) == Call({Vsi(i)}, {Rif(i)})
l3_ingress_create(i) == Call({Rif(i)}, {RifVrf(i)})
l3_egress_create_encap(e) == Create({}, Encap(e))
l3_egress_create_fec(f, rif, gp) == Create({Rif(rif)} \cup OnPort(gp), Fec(f))
l3_route_add(r, f) == Call({Fec(f)}, {Route(r, f)})

(* Field groups.                                                           *)
field_group_add(g) == Create({}, Fg(g))
field_group_context_attach(g, context) == Call({Fg(g), Ctx(context)}, {Attached(g, context)})
field_entry_add(g, e) == Call({Fg(g)}, {Entry(g, e)})
=============================================================================
