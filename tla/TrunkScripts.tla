---------------------------- MODULE TrunkScripts ----------------------------
(***************************************************************************)
(* src/lag/cint_j2/adv_trunk.c: link aggregation on a Jericho 2, with VLANs*)
(* routing and access lists on the trunk.  Wherever a result is looked at  *)
(* the test reads `if (rv = BCM_E_NONE)', which assigns 0 to rv and never  *)
(* holds: no failure is printed, and the functions that return rv return   *)
(* success.  Only cint_field_trunk_qual_tc_rule passes an error on.        *)
(***************************************************************************)
EXTENDS J2Sdk

trunk_create_and_fill(tid, ports) ==
  LET tgport == TrunkPort(tid)
      header(key) == switch_control_port_header(tgport, key)
                     \o Each(ports, LAMBDA p : switch_control_port_header(p, key))
  IN  Ignored(trunk_create(tid) \o header(1) \o header(2) \o trunk_set(tid, ToSet(ports)))

set_tpid(gport) ==
  Ignored(port_tpid_class_set(gport, "single tag") \o port_tpid_class_set(gport, "no tag"))

main_trunk(port_0, port_1, tid, vlan_domain) ==
  trunk_create_and_fill(tid, <<port_0, port_1>>)
  \o Ignored(port_class_set(TrunkPort(tid), vlan_domain))

(* Membership, default VLAN, an outLIF (ESEM) and an inLIF, VLAN editing.  *)
add_gport_to_vlan(gport, vlan, vsi, tagged, lif) ==
  Ignored(vlan_gport_add(vlan, gport)
          \o (IF tagged THEN <<>> ELSE port_untagged_vlan_set(gport, vlan))
          \o vlan_port_create_in_vsi("out", lif, gport, vsi)
          \o vlan_port_create("in", lif, gport)
          \o vswitch_port_add(vsi, "in", lif)
          \o vlan_port_translation_set("in", lif, "egress")
          \o vlan_port_translation_set("out", lif, "egress"))

add_mac_trunk(tid, vsi) == Ignored(l2_addr_add(vsi, TrunkPort(tid)))

add_mac_port(port, vsi) == Ignored(l2_addr_add(vsi, port))

add_trunk_to_vlan(tid, vlan, vsi, tagged, lif) ==
  set_tpid(TrunkPort(tid)) \o add_gport_to_vlan(TrunkPort(tid), vlan, vsi, tagged, lif)

add_port_to_vlan(port, vlan, vsi, tagged, lif) ==
  set_tpid(port) \o add_gport_to_vlan(port, vlan, vsi, tagged, lif)

create_vlan_vsi(vlan, vsi) == Ignored(vswitch_create_with_id(vsi) \o vlan_create(vlan))

cint_field_trunk_qual_tc_rule(group, context, trunk_gport) ==
  Ignored(field_group_add(group) \o field_group_context_attach(group, context))
  \o Silent(field_entry_add(group, trunk_gport))

add_trunk_inport_tc_rule(tid) ==
  cint_field_trunk_qual_tc_rule("inport", <<"DEFAULT", "ingress">>, TrunkPort(tid))

add_trunk_dstport_tc_rule(tid) ==
  cint_field_trunk_qual_tc_rule("dstport", <<"DEFAULT", "egress">>, TrunkPort(tid))

(* "same port cannot be member of different tid's"                         *)
add_trunk_member(tid, port, others) == Ignored(trunk_member_add(tid, port, others))

delete_trunk_member(tid, port) == Ignored(trunk_member_delete(tid, port))

create_subinterface(gport, vlan, vsi, lif) ==
  Ignored(vswitch_create_with_id(vsi) \o vlan_create(vlan))
  \o set_tpid(gport)
  \o add_gport_to_vlan(gport, vlan, vsi, TRUE, lif)
  \o Ignored(l3_intf_create(vsi) \o l3_ingress_create(vsi))

(* The two next-hop calls are `print'ed: the operator sees their results.  *)
create_subinterface_and_nh(gport, vlan, vsi, lif, nh) ==
  create_subinterface(gport, vlan, vsi, lif)
  \o Unchecked(l3_egress_create_encap(nh) \o l3_egress_create_fec(nh, vsi, gport))

create_trunk_subinterface_and_nh(tid, vlan, vsi, lif, nh) ==
  create_subinterface_and_nh(TrunkPort(tid), vlan, vsi, lif, nh)

create_port_subinterface_and_nh(port, vlan, vsi, lif, nh) ==
  create_subinterface_and_nh(port, vlan, vsi, lif, nh)

add_ip_route(prefix, fec) == Unchecked(l3_route_add(prefix, fec))

-----------------------------------------------------------------------------
(* trunk_notes, TEST 1 to 6: a trunk of ports 13 and 14, bridged with port *)
(* 15 in VLAN 50 and routed in VLAN 70; port 16 comes and goes.            *)
adv_trunk ==
  [boot |-> {Ctx(<<"DEFAULT", "ingress">>), Ctx(<<"DEFAULT", "egress">>)}, stays |-> {},
   robust |-> FALSE,
   commands |->
     [main_trunk |-> Opens("trunk", {}, main_trunk(13, 14, 100, 100),
                           {Trunk(100), TrunkMember(100, 13), TrunkMember(100, 14)}),
      create_vlan_vsi |-> Opens("vsi", {}, create_vlan_vsi(50, 1050), {Vlan(50), Vsi(1050)}),
      trunk_to_vlan |->
        Opens("bridged", {"trunk", "vsi"}, add_trunk_to_vlan(100, 50, 1050, TRUE, 600),
              {InVsi("in", 600, 1050)}),
      port_to_vlan |->
        Opens("port", {"vsi"}, add_port_to_vlan(15, 50, 1050, FALSE, 601),
              {InVsi("in", 601, 1050), Pvid(15, 50)}),
      mac_trunk |-> Does({"bridged"}, add_mac_trunk(100, 1050)),
      mac_port |-> Does({"port"}, add_mac_port(15, 1050)),
      member |-> Opens("member", {"trunk"}, add_trunk_member(100, 16, {200}), {}),
      no_member |-> Closes("member", {}, delete_trunk_member(100, 16),
                          {TrunkMember(100, 16)}),
      inport_rule |-> Opens("inport", {"trunk"}, add_trunk_inport_tc_rule(100), {Fg("inport")}),
      dstport_rule |-> Opens("dstport", {"trunk"}, add_trunk_dstport_tc_rule(100), {Fg("dstport")}),
      routed |-> Opens("routed", {"trunk"},
                       create_trunk_subinterface_and_nh(100, 70, 1070, 700, 7), {Fec(7)}),
      port_routed |-> Opens("port routed", {},
                            create_port_subinterface_and_nh(15, 60, 1060, 602, 6), {Fec(6)}),
      route |-> Does({"routed"}, add_ip_route("p7", 7))]]
=============================================================================
