----------------------------- MODULE LagScripts -----------------------------
(***************************************************************************)
(* src/lag/cint_j2/adv_lag.c: link aggregation with the results looked at. *)
(* A failure is printed and the function goes on to its next call; the     *)
(* membership of a VLAN, the outLIF, members that come and go and the field*)
(* group are still not looked at.  (adv_lag_tmp.c and adv_lag_ingress.c are*)
(* the same calls with fewer of the tests.)                                *)
(***************************************************************************)
EXTENDS J2Sdk

(* The port_get of the trunk and the resource_get of its ports only print. *)
lag_trunk_member_add(tid, port, others) == Ignored(trunk_member_add(tid, port, others) \o Query)
trunk_member_del(tid, port) == Ignored(trunk_member_delete(tid, port) \o Query)

lag_trunk_create(tid, ports) ==
  Unchecked(trunk_create(tid)
            \o switch_control_port_header(TrunkPort(tid), 1)
            \o Each(ports, LAMBDA p : switch_control_port_header(p, 1))
            \o trunk_set(tid, ToSet(ports))
            \o Call({Trunk(tid)}, {}))

set_tpid(gport) ==
  Unchecked(port_tpid_class_set(gport, "single tag") \o port_tpid_class_set(gport, "no tag"))

main_trunk(port_0, port_1, tid, vlan_domain) ==
  lag_trunk_create(tid, <<port_0, port_1>>)
  \o Unchecked(port_class_set(TrunkPort(tid), vlan_domain))

add_gport_to_vlan(gport, vlan, vsi, tagged, lif) ==
  Unchecked(Silent(vlan_gport_add(vlan, gport))
            \o (IF tagged THEN <<>> ELSE port_untagged_vlan_set(gport, vlan))
            \o Silent(vlan_port_create_in_vsi("out", lif, gport, vsi))
            \o vlan_port_create("in", lif, gport)
            \o vswitch_port_add(vsi, "in", lif)
            \o vlan_port_translation_set("in", lif, "egress")
            \o vlan_port_translation_set("out", lif, "egress"))

add_mac_trunk(tid, vsi) == l2_addr_add(vsi, TrunkPort(tid))
add_mac_port(port, vsi) == Unchecked(l2_addr_add(vsi, port))

add_trunk_to_vlan(tid, vlan, vsi, tagged, lif) ==
  set_tpid(TrunkPort(tid)) \o add_gport_to_vlan(TrunkPort(tid), vlan, vsi, tagged, lif)
add_port_to_vlan(port, vlan, vsi, tagged, lif) ==
  set_tpid(port) \o add_gport_to_vlan(port, vlan, vsi, tagged, lif)

create_vlan_vsi(vlan, vsi) == Unchecked(vswitch_create_with_id(vsi) \o vlan_create(vlan))

cint_field_trunk_qual_tc_rule(group, context, trunk_gport) ==
  Ignored(field_group_add(group) \o field_group_context_attach(group, context))
  \o Silent(field_entry_add(group, trunk_gport))
add_trunk_inport_tc_rule(tid) ==
  cint_field_trunk_qual_tc_rule("inport", <<"DEFAULT", "ingress">>, TrunkPort(tid))
add_trunk_dstport_tc_rule(tid) ==
  cint_field_trunk_qual_tc_rule("dstport", <<"DEFAULT", "egress">>, TrunkPort(tid))

-----------------------------------------------------------------------------
(* What its head types: a trunk of ports 13 and 14 with the ports 15 and 16 *)
(* in VLAN 50; and a port that comes and goes.                             *)
adv_lag ==
  [boot |-> {Ctx(<<"DEFAULT", "ingress">>), Ctx(<<"DEFAULT", "egress">>)}, stays |-> {},
   robust |-> FALSE,
   commands |->
     [main_trunk |-> Opens("trunk", {}, main_trunk(13, 14, 100, 500),
                           {Trunk(100), TrunkMember(100, 13), TrunkMember(100, 14)}),
      create_vlan_vsi |-> Opens("vsi", {}, create_vlan_vsi(50, 1050), {Vlan(50), Vsi(1050)}),
      trunk_to_vlan |->
        Opens("bridged", {"trunk", "vsi"}, add_trunk_to_vlan(100, 50, 1050, TRUE, 600),
              {InVsi("in", 600, 1050)}),
      port_15_to_vlan |-> Opens("port 15", {"vsi"}, add_port_to_vlan(15, 50, 1050, TRUE, 601),
                                {InVsi("in", 601, 1050)}),
      port_16_to_vlan |-> Opens("port 16", {"vsi"}, add_port_to_vlan(16, 50, 1050, TRUE, 602),
                                {InVsi("in", 602, 1050)}),
      mac_trunk |-> Does({"bridged"}, add_mac_trunk(100, 1050)),
      mac_port |-> Does({"port 15"}, add_mac_port(15, 1050)),
      member |-> Opens("member", {"trunk"}, lag_trunk_member_add(100, 17, {200}), {}),
      no_member |-> Closes("member", {}, trunk_member_del(100, 17), {TrunkMember(100, 17)}),
      inport_rule |-> Opens("inport", {"trunk"}, add_trunk_inport_tc_rule(100), {Fg("inport")}),
      dstport_rule |->
        Opens("dstport", {"trunk"}, add_trunk_dstport_tc_rule(100), {Fg("dstport")})]]
=============================================================================
