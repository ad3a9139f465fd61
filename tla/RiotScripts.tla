---------------------------- MODULE RiotScripts ----------------------------
(***************************************************************************)
(* src/notes/l3_subif/riot_uc2uc_l3subinterface.c: routing between two     *)
(* overlays of a Trident 3, each with an access port, and a test that sends*)
(* packets through the ports by turns, with a rule on each that is replaced*)
(* as its part changes.                                                    *)
(***************************************************************************)
EXTENDS XgsSdk

Sides == <<1, 2>>
OverlayPort(s) == <<"vp 1", "vp 2">>[s]

vxlan_riot_system_config ==
  Each(<<"UdpDestPort", "EntropyEnable", "L3EgressMode", "L3IngressMode", "IngressInterfaceMap",
         "ipmc">>, switch_control_set)
vxlan_access_port_config(s) ==
  port_unset(s, "VxlanEnable") \o port_unset(s, "VnId") \o port_set(s, "TranslateIngressEnable")

(* The id asked for is what an unassigned variable holds; the two are taken*)
(* to differ.                                                              *)
vxlan_vpn_group_create(s) == Call({}, {Mcast(s)}) \o Call({Mcast(s)}, {Vpn(s)})
multicast_egress_add(s, p) == Call({Mcast(s)}, {<<"replica", s, p>>})

(* Prints its result and has no return statement: its callers test whatever*)
(* comes back.                                                             *)
l3_egress_obj_create(x, need) == Unchecked(Call(need, {Egress(x)})) \o Silent(Query)

vxlan_port_create(s, x) == Call({Vpn(s), Egress(x)}, {VpnPort(OverlayPort(s), s)})
vpn_l3_intf_create(s) == Call({Vpn(s)}, {Rif(s)})
vlan_vfi_profile_update(s) ==
  Unchecked(Call({Vpn(s)}, {})) \o Call({Vpn(s), Iif(s)}, {<<"vpn uses", s, s>>})

create_vfp_group == field_group_create("vfp", {"InPort", "VlanFormat", "OuterVlan"})
VfpEntry(e, s, quals) ==
  field_entry_create("vfp", e) \o Each(quals, LAMBDA q : field_qualify("vfp", e, q))
  \o Call({Entry(e), VpnPort(OverlayPort(s), s)}, {Acts(e, "GportSet")})
  \o field_entry_install(e)
create_vfp_entry_tagged(s) ==
  VfpEntry(<<"tagged 1", "tagged 2">>[s], s, <<"InPort", "VlanFormat", "OuterVlan">>)
create_vfp_entry_untagged(s) ==
  VfpEntry(<<"untagged 1", "untagged 2">>[s], s, <<"InPort", "VlanFormat">>)

Underlay(s) == <<"underlay 1", "underlay 2">>[s]
Overlay(s) == <<"overlay 1", "overlay 2">>[s]
TwoOverlays ==
  Silent(Query \o Query \o Query)
  \o vxlan_riot_system_config
  \o Each(Sides, vxlan_access_port_config)
  \o Each(Sides, vxlan_vpn_group_create)
  \o Silent(Each(Sides, LAMBDA s : Query \o multicast_egress_add(s, "access")
                                   \o multicast_egress_add(s, "cpu")))
  \o Each(Sides, LAMBDA s : l3_egress_obj_create(Underlay(s), {}))
  \o Each(Sides, LAMBDA s : vxlan_port_create(s, Underlay(s)))
RoutedBetween ==
  Each(Sides, vpn_l3_intf_create)
  \o Each(Sides, LAMBDA s : l3_egress_obj_create(Overlay(s), {Rif(s), VpnPort(OverlayPort(s), s)}))
  \o Silent(Each(Sides, LAMBDA s : Call({Rif(s)}, {Iif(s)})))
  \o Each(Sides, vlan_vfi_profile_update)
  \o Silent(Each(Sides, LAMBDA s : Call({VpnPort(OverlayPort(s), s)}, {Port(s, "overlay IP4")})))
  \o Each(Sides, l2_station_add)
  \o Each(Sides, LAMBDA s : l3_route_add(s, Overlay(s)))
riot_access2access ==
  TwoOverlays \o RoutedBetween \o create_vfp_group
  \o Each(Sides, create_vfp_entry_tagged) \o Each(Sides, create_vfp_entry_untagged)

-----------------------------------------------------------------------------
(* The test.  access_port_eid is the entry of a port: valid from the first *)
(* rule on.  A rule that was destroyed and could not be made again leaves  *)
(* it naming an entry that is gone, and every later run of the test stops  *)
(* there.                                                                  *)
Rule(s) == <<"rule 1", "rule 2">>[s]
EntryId(s) == <<"entry id", Rule(s)>>
create_ifp_group == field_group_create("ifp", {"StageIngress", "InPort"})
create_ifp_to_cpu_rule(s, actions) ==
  field_entry_create("ifp", Rule(s)) \o Let({}, {EntryId(s)})
  \o field_qualify("ifp", Rule(s), "InPort")
  \o Each(actions, LAMBDA a : field_action_add(Rule(s), a)) \o field_entry_install(Rule(s))
destroy_ifp_to_cpu_rule(s) ==
  If({EntryId(s)},
     Destroy(Entry(Rule(s)), {Match(Rule(s), "InPort"), Acts(Rule(s), "CopyToCpu"),
                              Acts(Rule(s), "Drop"), Installed(Rule(s))}))
ingress_port_setup(s) ==
  port_set(s, "loopback") \o port_unset(s, "discard")
  \o destroy_ifp_to_cpu_rule(s) \o create_ifp_to_cpu_rule(s, <<"CopyToCpu">>)
egress_port_setup(s) ==
  port_set(s, "loopback") \o port_set(s, "discard")
  \o destroy_ifp_to_cpu_rule(s) \o create_ifp_to_cpu_rule(s, <<"Drop", "CopyToCpu">>)
(* A plausible bug, for a mutation run. *)
ClearKeepsEntryId(s) ==
  Silent(port_unset(s, "loopback") \o port_unset(s, "discard")) \o destroy_ifp_to_cpu_rule(s)
clear_port_setup(s) ==
  Silent(port_unset(s, "loopback") \o port_unset(s, "discard"))
  \o destroy_ifp_to_cpu_rule(s) \o Let({EntryId(s)}, {})
verify ==
  ingress_port_setup(1) \o egress_port_setup(2)
  \o ingress_port_setup(2) \o egress_port_setup(1)
  \o Caught(clear_port_setup(1)) \o Caught(clear_port_setup(2))
test_setup == Query \o create_ifp_group
execute == test_setup \o riot_access2access \o Caught(verify)

riot == Lasting({}, [execute |-> Opens("executed", {}, execute, {}),
                     verify |-> Does({"executed"}, verify)])
=============================================================================
