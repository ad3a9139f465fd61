---------------------------- MODULE StatScripts ----------------------------
(***************************************************************************)
(* Counters on routed, tunnelled and CPU traffic (Trident 3, Tomahawk 5),  *)
(* an overlay with a counted access port, packets handed to the kernel, and*)
(* VLAN translation to an ingress interface.  Every file sets up its ports,*)
(* configures, attaches counters, sends packets through the shell and reads*)
(* the counters; portNumbersGet is defined once.  Each is typed once: it   *)
(* creates VLANs, or objects under ids of its own.                         *)
(***************************************************************************)
EXTENDS XgsSdk

portNumbersGet == Query

(* A port whose packets are copied to the CPU, and one that drops them too.*)
PortTap(p, actions) ==
  field_group_create(p, {"InPort"}) \o field_entry_create(p, p) \o field_qualify(p, p, "InPort")
  \o Each(actions, LAMBDA a : field_action_add(p, a)) \o field_entry_install(p)
ingress_port_setup == port_set("ingress", "loopback") \o PortTap("ingress", <<"CopyToCpu">>)
egress_port_setup ==
  port_set("egress", "loopback") \o port_set("egress", "discard")
  \o PortTap("egress", <<"CopyToCpu", "Drop">>)
test_setup == portNumbersGet \o ingress_port_setup \o egress_port_setup

-----------------------------------------------------------------------------
(* l3_stats.c: packets counted where they enter and leave the router, and  *)
(* at the next hop.                                                        *)
TwoVlans ==
  port_gport_get \o port_gport_get
  \o vlan_create(21) \o vlan_gport_add(21, "ingress")
  \o vlan_create(22) \o vlan_gport_add(22, "egress")
L3Modes ==
  Each(<<"L3EgressMode", "L3IngressMode", "L3IngressInterfaceMapSet">>, switch_control_set)
config_l3 ==
  TwoVlans \o L3Modes
  \o l3_ingress_create("in") \o vlan_control_vlan(21, "in")
  \o l3_intf_create("ingress", 21) \o l3_intf_create("egress", 22)
  \o l3_egress_create("next hop", "egress")
  \o Unchecked(l3_route_add("route", "next hop"))

GroupAttached(mode, c, object, need) ==
  stat_group_mode_id_create(mode) \o stat_custom_group_create(mode, c) \o stat_attach(c, object, need)
setup_l3_iif_stats == GroupAttached("iif", "iif", "iif in", {Iif("in")})
setup_l3_intf_stats ==
  flexctr_action_create("rif") \o Unchecked(stat_attach("rif", "rif egress", {Rif("egress")}))

(* The attachment names an object nothing has defined.                     *)
setup_l3_egress_nh_stats ==
  stat_group_mode_id_create("nh") \o stat_custom_group_create("nh", "nh") \o Undefined
setup_l3_stats == setup_l3_iif_stats \o setup_l3_intf_stats \o setup_l3_egress_nh_stats

(* Read as packets, then as bytes; the interface's counter is asked for by *)
(* the id of the interface.                                                *)
l3iif_flex_stat_get == stat_get("iif", "iif in") \o stat_get("iif", "iif in")
l3_intf_stat_get == Call({Counter("ingress")}, {})
l3_egress_stat_get == stat_get("nh", "nh next hop") \o stat_get("nh", "nh next hop")
Rounds == <<1, 2, 3, 4>>
verify ==
  Each(Rounds, LAMBDA n : Caught(l3iif_flex_stat_get) \o Caught(l3_intf_stat_get)
                          \o Caught(l3_egress_stat_get))
l3_stats_execute == test_setup \o config_l3 \o setup_l3_stats \o verify

(* l3_stats_in_out.c: the same, over interfaces that are created by name;  *)
(* the ingress interface is not, so the command ends in the middle of      *)
(* config_l3.                                                              *)
in_out_config_l3 == TwoVlans \o L3Modes \o Undefined
in_out_setup_l3_iif_stats ==
  stat_group_mode_id_create("iif") \o stat_custom_group_create("iif", "iif") \o Undefined
in_out_setup_l3_stats ==
  in_out_setup_l3_iif_stats \o setup_l3_intf_stats \o setup_l3_egress_nh_stats
in_out_execute == test_setup \o in_out_config_l3 \o in_out_setup_l3_stats \o verify

(* l3_stats_route.c and flex_cnt_l3_egress_new_api.c: two next hops and two*)
(* routes, counted at the ingress interface, or at the first next hop.     *)
TwoRoutes ==
  TwoVlans \o L3Modes
  \o l3_intf_create("ingress", 21) \o l3_ingress_create("in") \o vlan_control_vlan(21, "in")
  \o l3_intf_create("egress", 22)
  \o l3_egress_create("next hop", "egress") \o l3_egress_create("next hop back", "ingress")
  \o l3_route_add("route", "next hop") \o l3_route_add("route back", "next hop back")
config_flex_cnt_l3_ingress == TwoRoutes \o GroupAttached("iif", "iif", "iif in", {Iif("in")})
route_verify == Each(Rounds, LAMBDA n : Caught(l3iif_flex_stat_get))
route_execute == test_setup \o config_flex_cnt_l3_ingress \o route_verify

flex_cnt_test_setup == portNumbersGet \o port_set("ingress", "loopback") \o egress_port_setup
config_flex_cnt_l3_egress ==
  TwoRoutes \o GroupAttached("nh", "nh", "nh next hop", {Egress("next hop")})
flex_cnt_verify == Each(Rounds, LAMBDA n : Caught(l3_egress_stat_get))
flex_cnt_execute == flex_cnt_test_setup \o config_flex_cnt_l3_egress \o flex_cnt_verify

-----------------------------------------------------------------------------
(* th5_hsdk_l3_ip_tunnel_ipgre_4in6.c: an IPv4 in IPv6 tunnel, counted at  *)
(* both ends.  Either port gets an entry in the group of its side.         *)
Access == "access"
Network == "network"
PortTaps(side, ports) ==
  Call({}, {Fg(side), Qual(side, "InPort")})
  \o Each(ports, LAMBDA p :
            port_set(p, "loopback") \o field_entry_create(side, p)
            \o field_qualify(side, p, "InPort") \o field_entry_install(p))
ingress_port_multi_setup == PortTaps("ingress ports", <<Access>>)
egress_port_multi_setup == PortTaps("egress ports", <<Network>>)
create_vlan_add_port(v, p) == IfNot({Vlan(v)}, vlan_create(v)) \o vlan_gport_add(v, p)
create_l3_iif(i) == Create({}, Iif(i))
configure_l3_iif_binding(v, i) == vlan_control_vlan(v, i)
configure_tunnel_initiation(i) == tunnel_create("init", "gre", {Rif(i)})
configure_tunnel_termination(i) == tunnel_create("term", "gre", {Iif(i)})
Both(Setup(_)) == Setup(Access) \o Setup(Network)
configure_ipgre4in6_tunnel ==
  port_set(Access, "IP4")
  \o Both(LAMBDA s : create_vlan_add_port(s, s))
  \o Both(LAMBDA s : port_set(s, "untagged vlan"))
  \o Both(create_l3_iif) \o Both(LAMBDA s : configure_l3_iif_binding(s, s))
  \o Both(LAMBDA s : l3_intf_create(s, s))
  \o configure_tunnel_initiation(Network)
  \o port_gport_get \o l3_egress_create(Network, Network)
  \o port_gport_get \o l3_egress_create(Access, Access)
  \o configure_tunnel_termination(Network)
  \o Both(l2_station_add)
  \o l3_route_add("tunnel", Network) \o l3_route_add("subnet", Access)

(* An attachment that fails is reported, and the set-up goes on.           *)
configure_flex_counter_tunnel_initiator ==
  flexctr_action_create("init") \o Unchecked(stat_attach("init", "init rif", {Rif(Network)}))
configure_flex_counter_tunnel_terminator ==
  flexctr_action_create("term")
  \o Unchecked(stat_attach("term", "term tunnel", {Tunnel("term", "gre")}))
  \o Call({Tunnel("term", "gre")}, {})
ipgre_test_setup ==
  portNumbersGet \o ingress_port_multi_setup \o egress_port_multi_setup
  \o configure_ipgre4in6_tunnel
  \o configure_flex_counter_tunnel_initiator \o configure_flex_counter_tunnel_terminator
test_verify == stat_get("init", "init rif") \o stat_get("term", "term tunnel") \o Query

(* The first failure ends it, and typing it again fails at what is done.   *)
testCleanup ==
  Destroy(Counts("init", "init rif"), {}) \o Destroy(Counts("term", "term tunnel"), {})
  \o flexctr_action_destroy("init") \o flexctr_action_destroy("term")

-----------------------------------------------------------------------------
(* ipv4_vxlan_ntoa_acc_egr_flex_stat.c: a VXLAN end point whose access port*)
(* counts what it sends.                                                   *)
FlowMatch(m, s) == <<"flow match", m, s>>
vxlan_ingress_port_setup ==
  port_set("ingress", "loopback") \o port_set("ingress", "discard none")
  \o PortTap("ingress", <<"CopyToCpu">>)
vxlan_test_setup ==
  portNumbersGet \o port_gport_get \o port_gport_get
  \o vxlan_ingress_port_setup \o egress_port_setup
vlan_create_add_port(v) == vlan_create(v) \o vlan_gport_add(v, v)
vxlan_system_config ==
  Each(<<"L3EgressMode", "VlanTranslate", "UdpDestPort", "TunnelMissToCpu">>, switch_control_set)
vxlan_access_port_config ==
  port_set(Access, "TranslateIngressEnable") \o port_unset(Access, "VxlanEnable")
  \o port_unset(Access, "VnId")
vxlan_network_port_config == port_set(Network, "VxlanEnable") \o port_unset(Network, "VnId")
create_l3_interface(s) == l3_intf_create(s, s)
vxlan_create_egr_obj(s) == l3_egress_create(s, s)
create_vxlan_vpn == Call({}, {Mcast("group")}) \o Call({Mcast("group")}, {Vpn("vpn")})
create_vxlan_vp(s) == Call({Vpn("vpn")}, {VpnPort(s, "vpn")})
vxlan_flow_match_add(m, s) == Call({VpnPort(s, "vpn")}, {FlowMatch(m, s)})
vxlan_flow_port_encap_set(s) == Call({VpnPort(s, "vpn")}, {<<"encap", s>>})
add_to_l2_table(s) == Call({VpnPort(s, "vpn")}, {<<"address", s>>})
config_vxlan_access ==
  Query \o vlan_create_add_port(Access) \o vxlan_access_port_config
  \o create_l3_interface(Access) \o vxlan_create_egr_obj(Access) \o create_vxlan_vp(Access)
  \o vxlan_flow_match_add("access", Access) \o vxlan_flow_port_encap_set(Access)
  \o GroupAttached("flow", "flow", "flow access", {VpnPort(Access, "vpn")})
  \o stat_get("flow", "flow access")
config_vxlan_network ==
  Query \o vlan_create_add_port(Network) \o vxlan_network_port_config
  \o create_l3_interface(Network) \o vxlan_create_egr_obj(Network) \o create_vxlan_vp(Network)
  \o Call({VpnPort(Network, "vpn"), Egress(Network)}, {<<"encap to", Network>>})
  \o vxlan_flow_match_add("network", Network) \o vxlan_flow_port_encap_set(Network)
  \o Call({VpnPort(Network, "vpn")}, {Port(Network, "EgressKeyVpn")})
  \o vxlan_flow_match_add("vn id", Network)
config_vxlan_tunnel ==
  tunnel_create("init", "vxlan", {VpnPort(Network, "vpn")})
  \o tunnel_create("term", "vxlan", {VpnPort(Network, "vpn")})
config_vxlan_ipv4_vtep ==
  vxlan_system_config \o Query \o create_vxlan_vpn
  \o config_vxlan_access \o config_vxlan_network \o config_vxlan_tunnel \o add_to_l2_table(Access)
vpn_traverse == Call({Vpn("vpn")}, {})
show_vxlan_vtep_config == Ignored(vpn_traverse)
flex_stat_get_count == stat_get("flow", "flow access")
vxlan_verify == show_vxlan_vtep_config \o Unchecked(flex_stat_get_count)
vxlan_execute == vxlan_test_setup \o config_vxlan_ipv4_vtep \o vxlan_verify

-----------------------------------------------------------------------------
(* th5_hsdk_flexctr_egr_port_cpu_queue.c: one counter for the queues of all*)
(* ports, created with the first, and one for those of the CPU.            *)
egr_port_and_queue_num == flexctr_action_create("queues")
create_queue_counter_for_port(p) ==
  IfNot({Counter("queues")}, egr_port_and_queue_num) \o stat_attach("queues", p, {})
get_device_type == Query
TestPorts == <<"port a", "port b">>
queue_test_setup == get_device_type \o portNumbersGet \o Each(TestPorts, create_queue_counter_for_port)
get_port_queue_counts(p) == stat_get("queues", p)
setup_cpu_counter == flexctr_action_create("cpu") \o stat_attach("cpu", "cpu", {})
PrintStatCpuQueue == stat_get("cpu", "cpu")
queue_verify == Unchecked(PrintStatCpuQueue)
queue_execute == setup_cpu_counter \o queue_verify

(* knet_filter.c: packets of one port to a network interface of the kernel,*)
(* by way of filters that name it.                                         *)
Netif == <<"netif">>
create_knet_interface ==
  Create({}, Netif)
  \o Each(<<"broadcast", "multicast", "rs destination">>, LAMBDA f : Create({}, <<"filter", f>>))
  \o Create({Netif}, <<"filter", "protocol">>)
knet_setup == create_knet_interface
my_pktio_rx_register == pktio_rx_register("rx_cb")
knet_test_setup ==
  my_pktio_rx_register \o switch_control_set("ArpReplyToCpu") \o switch_control_set("ArpRequestToCpu")
knet_execute == get_device_type \o knet_setup \o knet_test_setup \o Query

(* xlate_to_l3_iif.c.  The second next hop is filled in under a name that  *)
(* nothing has defined: it, the host behind it, and what follows it are    *)
(* never made.                                                             *)
xlate_to_l3_iif ==
  Unchecked(
    L3Modes \o port_set("cpu", "no member filter")
    \o l3_intf_create("rif 1", 100) \o l3_ingress_create("rif 1")
    \o l3_intf_create("rif 2", 100) \o l3_ingress_create("rif 2")
    \o l3_egress_create("cpu 1", "rif 1"))
  \o Undefined

-----------------------------------------------------------------------------
(* The commands.  The reads of counters that were never attached are made  *)
(* in vain.                                                                *)
InVain(script) ==
  [Once(script) EXCEPT !.commands.execute = BestEffort(Promising(@, {}))]
l3_stats == InVain(l3_stats_execute)
l3_stats_in_out == InVain(in_out_execute)
l3_stats_route == Once(route_execute)
flex_cnt_l3_egress == Once(flex_cnt_execute)
ipgre_4in6 ==
  LET made == {Counter("init"), Counter("term")}
  IN  Lasting({}, [test_setup |-> [Opens("tunnel", {}, ipgre_test_setup, made)
                                     EXCEPT !.opens = {"tunnel", "executed"}],
                   test_verify |-> Does({"tunnel"}, test_verify),
                   testCleanup |-> Closes("tunnel", {}, testCleanup, made)])
vxlan_vtep == Once(vxlan_execute)
cpu_queue_counters ==
  Lasting({}, [execute |-> Does({}, queue_execute), test_setup |-> Does({}, queue_test_setup),
               get_port_queue_counts |-> BestEffort(Does({}, get_port_queue_counts("port a")))])
knet_filter == Once(knet_execute)
xlate == [InVain(xlate_to_l3_iif) EXCEPT !.boot = {Vlan(100)}]
=============================================================================
