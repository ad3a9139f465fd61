--------------------------- MODULE MCCintSession ---------------------------
(* The scripts, each with the commands its notes and comments type.        *)
EXTENDS CintNotes

J2VlanIds == {50, 51, 60, 70, 1050, 1051, 4095}
T == INSTANCE TrunkScripts WITH VlanIds <- J2VlanIds
L == INSTANCE LagScripts WITH VlanIds <- J2VlanIds
V == INSTANCE VlanScripts WITH VlanIds <- J2VlanIds
A == INSTANCE AclScripts WITH VlanIds <- J2VlanIds
F == INSTANCE FieldScripts
S == INSTANCE StatScripts
P == INSTANCE PfcScripts
R == INSTANCE RiotScripts

(* Jericho 2, and Trident and Tomahawk.                                    *)
J2Program ==
  ("adv_trunk" :> T!adv_trunk) @@
  ("adv_lag" :> L!adv_lag) @@
  ("adv_vlan" :> V!adv_vlan) @@
  ("adv_vlan_lifs" :> V!adv_vlan_lifs) @@
  ("adv_vlan_native" :> V!adv_vlan_native) @@
  ("adv_vlan_bridge" :> V!adv_vlan_bridge) @@
  ("simple_vlan" :> V!simple_vlan) @@
  ("vlan_init" :> V!vlan_init) @@
  ("acl_init" :> A!acl_init) @@
  ("acl_wc" :> A!acl_wc) @@
  ("acl_test_all" :> A!acl_test_all) @@
  ("acl_quals" :> A!acl_quals) @@
  ("acl_copp" :> A!acl_copp) @@
  ("acl_replace" :> A!acl_replace) @@
  ("acl_pre_copp" :> A!acl_pre_copp) @@
  ("acl_wc_leftover" :> A!acl_wc_leftover) @@
  ("acl_test_all_leftover" :> A!acl_test_all_leftover) @@
  ("acl_copp_leftover" :> A!acl_copp_leftover)
XgsProgram ==
  ("td3_v4_v6" :> F!td3_v4_v6) @@
  ("th5_v4_v6" :> F!th5_v4_v6) @@
  ("MultiCPUReasonCode" :> F!MultiCPUReasonCode) @@
  ("DstGport" :> F!DstGport) @@
  ("cosq" :> F!cosq) @@
  ("DFPWithGPort" :> F!DFPWithGPort) @@
  ("cosq_map_fp" :> F!cosq_map_fp) @@
  ("fp_entry_flex_counter" :> F!fp_entry_flex_counter) @@
  ("samplers" :> F!samplers) @@
  ("cpu_port_sched" :> F!cpu_port_sched) @@
  ("l3_stats" :> S!l3_stats) @@
  ("l3_stats_in_out" :> S!l3_stats_in_out) @@
  ("l3_stats_route" :> S!l3_stats_route) @@
  ("flex_cnt_l3_egress" :> S!flex_cnt_l3_egress) @@
  ("ipgre_4in6" :> S!ipgre_4in6) @@
  ("vxlan_vtep" :> S!vxlan_vtep) @@
  ("cpu_queue_counters" :> S!cpu_queue_counters) @@
  ("knet_filter" :> S!knet_filter) @@
  ("xlate" :> S!xlate) @@
  ("riot" :> R!riot) @@
  ("pfc_only_apis" :> P!pfc_only_apis("Conditional")) @@
  ("pfc_only_apis_flexible" :> P!pfc_only_apis("Flexible")) @@
  ("pfc_init" :> P!pfc_init("Conditional")) @@
  ("pfc_init_flexible" :> P!pfc_init("Flexible")) @@
  ("pfc_all" :> P!pfc_all("Conditional")) @@
  ("pfc_all_flexible" :> P!pfc_all("Flexible")) @@
  ("pfc_all_v2" :> P!pfc_all_v2("Flexible"))

(* (Behind a LET, TLC's coverage does not open the scripts again wherever a *)
(* constant is used.)                                                      *)
MCProgram == LET all == J2Program @@ XgsProgram IN all
MCRefersTo(p, fact) ==
  LET j2 == DOMAIN J2Program
  IN  IF p \in j2 THEN T!J2RefersTo(fact) ELSE F!XgsRefersTo(fact)
(* The commands some result of which is not looked at.                     *)
MCUnreliable ==
  {<<"cosq_map_fp", "execute">>, <<"pfc_init_flexible", "bcmsdk_mmu_initialize_port">>}
  \cup {"adv_trunk"} \X {"main_trunk", "create_vlan_vsi", "trunk_to_vlan", "port_to_vlan",
                         "mac_trunk", "mac_port", "member", "no_member", "inport_rule",
                         "dstport_rule", "routed", "port_routed"}
  \cup {"adv_lag"} \X {"trunk_to_vlan", "port_15_to_vlan", "port_16_to_vlan", "member",
                       "no_member", "inport_rule", "dstport_rule"}
MCMaxCommands ==
  LET long == DOMAIN J2Program \cup {"pfc_only_apis", "pfc_only_apis_flexible"}
  IN  [p \in DOMAIN MCProgram |-> IF p \in long THEN 4 ELSE 2]
MCMaxFaults == LET one == 1 IN [p \in DOMAIN MCProgram |-> one]

(* The scripts that ask what is there before they act on it.               *)
MCApart ==
  {"acl_wc", "acl_wc_leftover", "acl_test_all_leftover", "acl_quals",
   "acl_copp", "acl_copp_leftover", "acl_replace"}
    \X {"unhurt"} \cup {<<"acl_quals", "calm">>}

(* The commands of the trunk script that test their results, taken at their *)
(* word.                                                                   *)
TrunkCommands == {"main_trunk", "member", "no_member"}
TrunkProgram ==
  "adv_trunk" :>
    [T!adv_trunk EXCEPT !.commands = [c \in TrunkCommands |-> T!adv_trunk.commands[c]]]
=============================================================================
