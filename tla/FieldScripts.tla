---------------------------- MODULE FieldScripts ----------------------------
(***************************************************************************)
(* Field groups and entries on Trident and Tomahawk chips: the control-    *)
(* plane policing tests (th5_v4_v6.c, td3_v4_v6.c), the CPU reason, queue  *)
(* mapping, destination and preselector demonstrations, the samplers.      *)
(* A function that several files repeat is defined once, and once more     *)
(* where a copy differs.                                                   *)
(***************************************************************************)
EXTENDS XgsSdk

Qualified(g, e, quals) == Each(quals, LAMBDA q : field_qualify(g, e, q))

-----------------------------------------------------------------------------
(* The policing tests print every result and go on: an entry one of whose  *)
(* qualifiers was refused is installed all the same, matching more than it *)
(* should.                                                                 *)
flexCounterSetup(c) == flexctr_action_create(c)
flex_counter_attach(c, e) == stat_attach(c, e, {Entry(e)})

EntryQualified(e, quals) ==
  field_entry_create("acl", e)
  \o Drop({Entry(e)}, {Match(e, q) : q \in ToSet(quals)})
  \o Qualified("acl", e, quals) \o field_entry_set(e)
EntryPoliced(e) ==
  policer_create(e) \o entry_policer_attach(e, e) \o field_entry_install(e)
EntryActions(e, actions) == Each(actions, LAMBDA a : field_action_add(e, a))

(* Counted by a statistics object of the entry's own.                      *)
EntryCounted(e, quals) ==
  Unchecked(
    EntryQualified(e, quals)
    \o Call({Fg("acl")}, {Counter(e)}) \o stat_attach(e, e, {Entry(e)})
    \o EntryActions(e, <<"CosQCpuNew", "RpDrop">>)
    \o EntryPoliced(e))
RangeCounted(e, quals) ==
  LET entry == EntryCounted(e, quals) IN <<entry[1]>> \o Unchecked(field_range_create("acl")) \o Tail(entry)

Td3Quals ==
  {"DstMac", "EtherType", "Ttl", "Ip6HopLimit", "L4SrcPort", "L4DstPort", "IpType", "IpProtocol",
   "IcmpTypeCode", "TcpControl", "StageIngress", "DstPort", "PacketRes", "DstClassL3",
   "RangeCheck", "IpFrag", "L2SrcStatic", "L2SrcHit", "L2StationMove"}
td3_my_bcm_create_fp_group == Unchecked(field_group_create("acl", Td3Quals))
td3_ipv4_entry_create_dst_any == EntryCounted("v4 any dst", <<"IpType", "L4DstPort", "DstPort">>)
td3_ipv4_entry_create_dst_any_range ==
  RangeCounted("v4 any dst range", <<"RangeCheck", "IpType", "DstPort">>)
td3_ipv4_entry_create_src_any == EntryCounted("v4 any src", <<"IpType", "L4SrcPort", "DstPort">>)
td3_ipv4_entry_create_dst_opt ==
  EntryCounted("v4 opt dst", <<"IpType", "IpType", "L4DstPort", "DstPort">>)
td3_ipv4_entry_create_src_opt ==
  EntryCounted("v4 opt src", <<"IpType", "IpType", "L4SrcPort", "DstPort">>)
td3_ipv6_entry_create_dst_any == EntryCounted("v6 any dst", <<"IpType", "L4DstPort", "DstPort">>)
td3_ipv6_entry_create_src_any == EntryCounted("v6 any src", <<"IpType", "L4SrcPort", "DstPort">>)
td3_ipv6_entry_create_dst_opt ==
  EntryCounted("v6 opt dst", <<"IpType", "IpType", "L4DstPort", "DstPort">>)
td3_ipv6_entry_create_src_opt ==
  EntryCounted("v6 opt src", <<"IpType", "IpType", "L4SrcPort", "DstPort">>)

(* On the Tomahawk 5: one flexible counter for all.  The first group offers*)
(* no DstPort, the second no source port and no range, and neither all that*)
(* the entries below ask for.                                              *)
_my_bcm_create_fp_group ==
  Unchecked(field_group_create("acl", Td3Quals \ {"Ip6HopLimit", "DstPort", "L2StationMove"}))
my_bcm_create_fp_group ==
  Unchecked(field_group_create("acl", {"L4DstPort", "IpType", "StageIngress", "DstPort"}))
  \o Unchecked(flexCounterSetup("green"))
bcm_ipv4_entry_create_dst_any ==
  LET e == "v4 any dst"
  IN  Unchecked(EntryQualified(e, <<"IpType", "L4DstPort">>)
                \o flex_counter_attach("green", e)
                \o EntryActions(e, <<"CosQCpuNew", "RpDrop", "GpStatGroup", "RpStatGroup">>)
                \o EntryPoliced(e))

(* Calls a function that does not exist: nothing after it is done.         *)
validated_bcm_ipv4_entry_create_dst_any ==
  Unchecked(EntryQualified("v4 any dst", <<"IpType", "L4DstPort", "DstPort">>)) \o Undefined
bcm_ipv4_entry_create_dst_any_range ==
  RangeCounted("v4 any dst range", <<"RangeCheck", "IpType", "DstPort">>)
bcm_ipv4_entry_create_src_any == EntryCounted("v4 any src", <<"IpType", "L4SrcPort", "DstPort">>)
bcm_ipv4_entry_create_dst_opt ==
  EntryCounted("v4 opt dst", <<"IpType", "IpType", "L4DstPort", "DstPort">>)
bcm_ipv4_entry_create_src_opt ==
  EntryCounted("v4 opt src", <<"IpType", "IpType", "L4SrcPort", "DstPort">>)
bcm_ipv6_entry_create_dst_any == EntryCounted("v6 any dst", <<"IpType", "L4DstPort", "DstPort">>)
bcm_ipv6_entry_create_src_any == EntryCounted("v6 any src", <<"IpType", "L4SrcPort", "DstPort">>)
bcm_ipv6_entry_create_dst_opt ==
  EntryCounted("v6 opt dst", <<"IpType", "IpType", "L4DstPort", "DstPort">>)
bcm_ipv6_entry_create_src_opt ==
  EntryCounted("v6 opt src", <<"IpType", "IpType", "L4SrcPort", "DstPort">>)

-----------------------------------------------------------------------------
(* MultiCPUReasonCode.c: packets matched by why they go to the CPU.        *)
flexctr_fp_stat_create(c) == flexctr_action_create(c)
registerPktioRxCallback == pktio_rx_register("rx_cb")
testSetup == registerPktioRxCallback
CreatePolicer == policer_create("pol_id") \o Unchecked(Call({Policer("pol_id")}, {}))
GroupWithHints(g, quals) ==
  field_hints_add("hint_id") \o field_group_create(g, quals)
Td4Quals ==
  {"DstMac", "RangeCheck", "L4SrcPort", "L4DstPort", "EtherType", "IpProtocol", "Ttl", "TcpControl",
   "DstClassL3", "IpInfo", "L2SrcHit", "IcmpTypeCode", "IpExtensionHdrNum", "PacketStatus",
   "ForwardingStatus", "L2InterfaceMatch", "StageIngress", "CopyToCpuReasonLow", "InPort",
   "DstGport", "DstType"}
ifp_group_create == GroupWithHints("gid", Td4Quals)

(* A qualifier that is refused is reported, and the entry still installed. *)
EntryDropsAndCopies(e) ==
  entry_policer_attach(e, "pol_id") \o EntryActions(e, <<"RpDrop", "GpCopyToCpu">>)
CountedAndInstalled(e) ==
  flexctr_fp_stat_create(e) \o stat_attach(e, e, {Entry(e)}) \o field_entry_install(e)
ifp_entry_install(reason) ==
  LET e == reason
      quals == IF reason # "none" THEN Qualified("gid", e, <<"CopyToCpuReasonLow">>)
               ELSE port_gport_get \o Qualified("gid", e, <<"DstGport">>)
                    \o Call({Entry(e)}, {}) \o Qualified("gid", e, <<"DstType">>)
  IN  field_entry_create("gid", e)
      \o Unchecked(Qualified("gid", e, <<"InPort">>) \o quals)
      \o EntryDropsAndCopies(e) \o CountedAndInstalled(e)
CpuReasons ==
  <<"PROTOCOL_PKT", "L2_DST_LOOKUP_MISS", "L2_DST_LOOKUP", "L3_DST_LOOKUP_MISS", "L3_DST_LOOKUP",
    "L3_TTL_ERROR", "none">>
TraceEvents == Unchecked(switch_control_set("trace events"))
testCpuReasons ==
  CreatePolicer \o ifp_group_create \o Each(CpuReasons, ifp_entry_install) \o TraceEvents
execute == testSetup \o testCpuReasons

(* DstGport.c: the same for packets to the CPU port only.                  *)
DstGport_entry_install ==
  LET e == "none"
  IN  field_entry_create("gid", e)
      \o Unchecked(Qualified("gid", e, <<"InPort">>) \o port_gport_get
                   \o Qualified("gid", e, <<"DstGport", "DstType">>))
      \o EntryDropsAndCopies(e) \o CountedAndInstalled(e)
DstGport_testCpuReasons ==
  CreatePolicer \o ifp_group_create \o DstGport_entry_install \o TraceEvents
DstGport_execute == testSetup \o DstGport_testCpuReasons

(* cosq.c: every packet to the CPU, on the queues of a classifier.         *)
CpuQueueClassifiers ==
  Unchecked(Call({}, {Classifier(1)}) \o Call({}, {Classifier(2)})
            \o Call({Classifier(1)}, {<<"queues", 1>>}) \o Call({Classifier(2)}, {<<"queues", 2>>}))
cosq_entry_install ==
  LET e == "none"
  IN  field_entry_create("gid", e)
      \o Call({Entry(e), Classifier(1)}, {Acts(e, "CosMapNew")})
      \o CountedAndInstalled(e)
cosq_testCpuReasons == CreatePolicer \o ifp_group_create \o cosq_entry_install \o TraceEvents
cosq_execute == CpuQueueClassifiers \o testSetup \o cosq_testCpuReasons

(* DFPWithGPort.c: a destination entry added to an ingress entry that only *)
(* counts.                                                                 *)
DFP_group_create == GroupWithHints("gid", {"StageIngress", "InPort", "DstGport"})
DFP_entry_install == field_entry_create("gid", "dfp") \o CountedAndInstalled("dfp")
configure_dfp == port_gport_get \o Call({}, {<<"destination entry">>})
DFP_execute ==
  CreatePolicer \o DFP_group_create \o DFP_entry_install \o configure_dfp \o TraceEvents

-----------------------------------------------------------------------------
(* td4_cosq_map_fp.c: two entries, each to the queues of its classifier.   *)
CosqMapEntry(c) ==
  field_entry_create("ifp", c) \o Silent(field_qualify("ifp", c, "OuterVlanPri"))
  \o field_action_add(c, "CopyToCpu")
  \o Call({Entry(c), Classifier(c)}, {Acts(c, "CosMapNew")}) \o field_entry_install(c)
td4_cosq_map_fp ==
  CpuQueueClassifiers
  \o Unchecked(
       Query \o field_group_create("ifp", {"StageIngress", "OuterVlanPri"})
       \o Each(<<1, 2>>, CosqMapEntry)
       \o vlan_create(100) \o Call({Vlan(100)}, {Member(1, 100), Member(2, 100), Member(0, 100)})
       \o Drop({}, {Member(1, 1), Member(2, 1)}) \o Drop({}, {Member(0, 1)})
       \o port_set(1, "loopback") \o port_set(2, "loopback"))

(* td4_fp_entry_flex_counter.c.  The call that would create the counter is *)
(* commented out, so attaching it fails and the entry is not installed.    *)
ing_group_create ==
  GroupWithHints("ing", {"StageIngress", "OuterVlanId", "SrcIp6High", "DstIp6High"})
  \o field_entry_create("ing", "entry")
  \o Qualified("ing", "entry", <<"OuterVlanId", "SrcIp6High", "DstIp6High">>)
  \o field_action_add("entry", "Drop")
  \o stat_attach("entry", "entry", {Entry("entry")})
  \o Unchecked(field_entry_install("entry"))

(* td4_ingress_sampler.c, td4_egress_sampler.c: packets sampled to a mirror*)
(* destination.                                                            *)
set_ingress_sflow(port) ==
  Unchecked(Call({}, {Mirror("mtp")}) \o Call({}, {Sampler("profile")})
            \o Call({Sampler("profile")}, {<<"rate", "profile">>})
            \o Call({Mirror("mtp")}, {<<"samples to", "mtp">>})
            \o Call({Sampler("profile")}, {Port(port, "sampled in")}))
td4_egress_sampler(port) ==
  Unchecked(port_set(port, "sampled out") \o port_set(port, "sample rate")
            \o switch_control_set("seed") \o switch_control_set("trace events")
            \o Silent(port_gport_get)
            \o Call({}, {Mirror("egress mtp")})
            \o Call({Mirror("egress mtp")}, {<<"samples to", "egress mtp">>}))

(* td4x9_hsdk_qos_cpu_port_sched.c: the queues of the CPU port are taken   *)
(* off their schedulers and put on others; a queue is found by where it is *)
(* attached.                                                               *)
CpuQueue(q) == <<"cpu queue", q>>
CpuQueues == <<0, 10, 18>>
portNumbersGet == Query
sched_test_setup == portNumbersGet
cpu_port_sched_config ==
  LET attach_get(q) == Call({CpuQueue(q)}, {})
      detach(q) == Destroy(CpuQueue(q), {})
      attach(q) == Create({}, CpuQueue(q))
  IN  Query \o Each(CpuQueues, attach_get) \o Each(CpuQueues, detach)
      \o Each(CpuQueues, attach) \o Each(CpuQueues, attach_get)

-----------------------------------------------------------------------------
(* The commands.  The entries of th5_v4_v6.c that its groups have no       *)
(* qualifiers for are tried in vain.                                       *)
td3_v4_v6 ==
  [boot |-> {}, stays |-> {}, robust |-> FALSE,
   commands |->
     [my_bcm_create_fp_group |-> Opens("group", {}, td3_my_bcm_create_fp_group, {Fg("acl")}),
      v4_dst_any |-> Does({"group"}, td3_ipv4_entry_create_dst_any),
      v4_dst_any_range |-> Does({"group"}, td3_ipv4_entry_create_dst_any_range),
      v4_src_any |-> Does({"group"}, td3_ipv4_entry_create_src_any),
      v4_dst_opt |-> Does({"group"}, td3_ipv4_entry_create_dst_opt),
      v4_src_opt |-> Does({"group"}, td3_ipv4_entry_create_src_opt),
      v6_dst_any |-> Does({"group"}, td3_ipv6_entry_create_dst_any),
      v6_src_any |-> Does({"group"}, td3_ipv6_entry_create_src_any),
      v6_dst_opt |-> Does({"group"}, td3_ipv6_entry_create_dst_opt),
      v6_src_opt |-> Does({"group"}, td3_ipv6_entry_create_src_opt)]]

th5_v4_v6 ==
  [boot |-> {}, stays |-> {}, robust |-> FALSE,
   commands |->
     [my_bcm_create_fp_group |->
        Opens("group", {}, my_bcm_create_fp_group, {Fg("acl"), Counter("green")}),
      v4_dst_any |-> Does({"group"}, bcm_ipv4_entry_create_dst_any),
      validated |-> BestEffort(Does({"group"}, validated_bcm_ipv4_entry_create_dst_any)),
      v4_dst_any_range |-> BestEffort(Does({"group"}, bcm_ipv4_entry_create_dst_any_range)),
      v4_src_any |-> BestEffort(Does({"group"}, bcm_ipv4_entry_create_src_any)),
      v4_dst_opt |-> Does({"group"}, bcm_ipv4_entry_create_dst_opt),
      v4_src_opt |-> BestEffort(Does({"group"}, bcm_ipv4_entry_create_src_opt)),
      v6_dst_any |-> Does({"group"}, bcm_ipv6_entry_create_dst_any),
      v6_src_any |-> BestEffort(Does({"group"}, bcm_ipv6_entry_create_src_any)),
      v6_dst_opt |-> Does({"group"}, bcm_ipv6_entry_create_dst_opt),
      v6_src_opt |-> BestEffort(Does({"group"}, bcm_ipv6_entry_create_src_opt)),
      old_group |-> Unless({"group"}, Opens("old group", {}, _my_bcm_create_fp_group, {Fg("acl")}))]]

MultiCPUReasonCode == Demo(execute)
DstGport == Demo(DstGport_execute)
cosq == Demo(cosq_execute)
DFPWithGPort == Demo(DFP_execute)
cosq_map_fp == Once(td4_cosq_map_fp)
fp_entry_flex_counter ==
  [Demo(ing_group_create) EXCEPT !.commands.execute = BestEffort(@)]
samplers ==
  Lasting({}, [ingress |-> Does({}, set_ingress_sflow(42)),
               egress |-> Does({}, td4_egress_sampler(42))])
cpu_port_sched ==
  Lasting({CpuQueue(q) : q \in ToSet(CpuQueues)},
          [execute |-> Does({}, sched_test_setup \o cpu_port_sched_config)])
=============================================================================
