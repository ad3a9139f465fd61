---------------------------- MODULE VlanScripts ----------------------------
(***************************************************************************)
(* src/lag/cint_j2: globals.c, vlan_translations.c and adv_vlan.c, the     *)
(* VLANs of a Jericho 2 bridge.  add_vlan makes a VSI with its flooding    *)
(* group and puts three ports in it, two tagged and one untagged; del_vlan *)
(* takes it apart.  use_case chooses one of three ways to attach a port:   *)
(* 1 a symmetric LIF and an ESEM entry, 2 the basic bridge, any other an   *)
(* inLIF and an outLIF.                                                    *)
(*                                                                         *)
(* vsi_info keeps the LIFs an attachment has made, in_gp and out_gp; the   *)
(* entry of a LIF that was never made holds no LIF, and one that was holds *)
(* it for ever.                                                            *)
(***************************************************************************)
EXTENDS J2Sdk

InGp(l) == <<"in_gp", l>>
OutGp(l) == <<"out_gp", l>>
Holding(held, call) == <<[call[1] EXCEPT !.need = @ \cup {held}]>>

-----------------------------------------------------------------------------
(* globals.c                                                               *)
bcm_dnx_get_sys_mod_port == Query

bcm_dnx_sdk_manage_mcast_group(port, mcid, add, enc) ==
  IF add THEN multicast_add(mcid, port, enc) ELSE multicast_delete(mcid, port, enc)

bcm_dnx_sdk_mac_flush_by_port(port) == l2_addr_delete_by_port(port)

olp_port_get == Query

OlpMcid == 4096
OlpPort == 240
bcm_dnx_sdk_l2_init ==
  Unchecked(multicast_create(OlpMcid))
  \o olp_port_get
  \o Unchecked(bcm_dnx_sdk_manage_mcast_group(OlpPort, OlpMcid, TRUE, 0))
  \o Call({}, {Learns(OlpPort)})

-----------------------------------------------------------------------------
(* vlan_translations.c: the tags a port's frames leave with.               *)
NewAction(a) == action_id_create(a) \o action_id_set(a)

bcm_dnx_sdk_eve_untagged_init ==
  NewAction("EVE_NO_TAG_NOOP")
  \o NewAction("EVE_SINGLE_TAG_TO_NO_TAG")
  \o action_class_set("egress", "untagged", "no tag", "EVE_NO_TAG_NOOP")
  \o action_class_set("egress", "untagged", "single tag", "EVE_SINGLE_TAG_TO_NO_TAG")
  \o action_class_set("egress", "untagged", "single ctag", "EVE_SINGLE_TAG_TO_NO_TAG")
  \o action_class_set("ingress", "untagged", "no tag", "IVE_NOOP")

bcm_dnx_sdk_eve_tagged_init ==
  NewAction("EVE_SINGLE_TAG_NOOP")
  \o NewAction("IVE_SINGLE_TAG_NO_TAG")
  \o NewAction("IVE_NOOP")
  \o NewAction("EVE_NO_TAG_TO_SINGLE_TAG")
  \o action_class_set("egress", "tagged", "single tag", "EVE_SINGLE_TAG_NOOP")
  \o action_class_set("egress", "tagged", "single ctag", "EVE_SINGLE_TAG_NOOP")
  \o action_class_set("egress", "tagged", "no tag", "EVE_NO_TAG_TO_SINGLE_TAG")
  \o action_class_set("ingress", "tagged", "single ctag", "IVE_NOOP")

(* A class left by an earlier run is destroyed and made again; class 3 may *)
(* be absent, any other error in destroying it is returned.                *)
SINGLE_TAG == 2
SINGLE_CTAG == 3
bcm_dnx_sdk_global_tpid_init ==
  stk_module_disable \o switch_tpid_delete_all \o switch_tpid_add
  \o OrElse(port_tpid_class_create(SINGLE_TAG),
            Unchecked(port_tpid_class_destroy(SINGLE_TAG))
            \o port_tpid_class_create(SINGLE_TAG))
  \o If({TagClass(SINGLE_CTAG)}, port_tpid_class_destroy(SINGLE_CTAG))
  \o port_tpid_class_create(SINGLE_CTAG)
  \o stk_module_enable

bcm_dnx_sdk_eve_init ==
  bcm_dnx_sdk_global_tpid_init \o bcm_dnx_sdk_eve_untagged_init \o bcm_dnx_sdk_eve_tagged_init

tpids_assign ==
  stk_module_disable \o switch_tpid_delete_all \o switch_tpid_add \o stk_module_enable

bcm_dnx_sdk_ave_vlan_init(use_case) ==
  vlan_destroy(1, {}) \o (IF use_case = 2 THEN <<>> ELSE bcm_dnx_sdk_eve_init)
-----------------------------------------------------------------------------
(* adv_vlan.c: the plain VLAN, every result printed.                       *)
do_simple_add_vlan_nok(port, vlan, tagged) ==
  Unchecked((IF tagged THEN <<>> ELSE port_untagged_vlan_set(port, vlan))
            \o vlan_gport_add(vlan, port)
            \o bcm_dnx_sdk_manage_mcast_group(port, vlan, TRUE, 0)
            \o port_learn_set(port))

do_simple_add_vlan(port, vlan, tagged) ==
  Unchecked(port_untagged_vlan_set(port, IF tagged THEN DefVlan ELSE vlan)
            \o vlan_gport_add(vlan, port)
            \o bcm_dnx_sdk_manage_mcast_group(port, vlan, TRUE, 0)
            \o port_learn_set(port))

add_mac_ol(port, vsi) == l2_addr_add(vsi, port)

add_mac(port, vsi) == add_mac_ol(port, vsi)

simple_add_vlan(vlan, untagged) ==
  Unchecked(vlan_create(vlan) \o multicast_create(vlan))
  \o do_simple_add_vlan(1, vlan, TRUE)
  \o do_simple_add_vlan(13, vlan, TRUE)
  \o do_simple_add_vlan(untagged, vlan, FALSE)
  \o Unchecked(add_mac(1, vlan) \o add_mac(13, vlan) \o add_mac(untagged, vlan))

bcm_dnx_sdk_vsi_learn_distribution(vlan) ==
  Call({}, {Learns(vlan)}) \o Call({}, {Learns(-1)})

(* The three ways to attach a port.                                        *)
Untagged(port, vlan, tagged) == IF tagged THEN <<>> ELSE port_untagged_vlan_set(port, vlan)

l2_basic_bridge_run(port, lif, vlan, vsi, tagged) ==
  port_class_set(port, port)
  \o vlan_gport_add(vsi, port)
  \o vlan_gport_add(vlan, port)
  \o Untagged(port, vlan, tagged)
  \o vlan_port_create("sym", lif, port)
  \o Let({}, {OutGp(lif)})
  \o vswitch_port_add(vsi, "sym", lif)
  \o port_tpid_class_set(port, "single tag")
  \o vlan_port_translation_set("sym", lif, "egress")
  \o Call({Vsi(vsi)}, {Floods(vsi)})

FourTpids(port) ==
  port_tpid_class_set(port, "egress tagged") \o port_tpid_class_set(port, "ingress tagged")
  \o port_tpid_class_set(port, "egress untagged") \o port_tpid_class_set(port, "ingress untagged")

(* Plausible bugs: each stands for one definition below in a mutation run. *)
EsemLifUnchecked(port, lif, vsi) ==
  vlan_port_create_in_vsi("esem", lif, port, vsi)
  \o Ignored(vlan_port_translation_set("esem", lif, "egress"))
  \o Let({}, {InGp(lif)})
DelPortFromEveryVlan(port, lif, vlan, vsi, mcid, tagged) ==
  Drop({Vlan(vlan)}, {Member(port, v) : v \in VlanIds})
  \o Unchecked(bcm_dnx_sdk_mac_flush_by_port(port))
  \o Holding(OutGp(lif), vlan_port_destroy("sym", lif, vsi))
  \o Holding(InGp(lif), vlan_port_destroy("esem", lif, vsi))
  \o bcm_dnx_sdk_manage_mcast_group(port, mcid, FALSE, lif)

SymLif(port, lif, vsi) ==
  vlan_port_create("sym", lif, port)
  \o Let({}, {OutGp(lif)})
  \o vswitch_port_add(vsi, "sym", lif)
  \o vlan_port_translation_set("sym", lif, "egress")
EsemLif(port, lif, vsi) ==
  vlan_port_create_in_vsi("esem", lif, port, vsi)
  \o vlan_port_translation_set("esem", lif, "egress")
  \o Let({}, {InGp(lif)})
InLif(port, lif, vsi) ==
  vlan_port_create_in_vsi("in", lif, port, vsi)
  \o Let({}, {InGp(lif)})
  \o Call({Lif("in", lif)}, {})
OutLif(port, lif, vsi) ==
  vlan_port_create_in_vsi("out", lif, port, vsi)
  \o Let({}, {OutGp(lif)})
  \o vlan_port_translation_set("out", lif, "egress")

bcm_dnx_sdk_extract_and_add_port_to_vlan_sym(port, lif, vlan, vsi, mcid, tagged) ==
  bcm_dnx_get_sys_mod_port
  \o port_class_set(port, port)
  \o vlan_gport_add(vlan, port)
  \o Untagged(port, vlan, tagged)
  \o FourTpids(port)
  \o Untagged(port, vlan, tagged)
  \o SymLif(port, lif, vsi) \o EsemLif(port, lif, vsi)
  \o Ignored(Query)
  \o port_learn_set(port)
  \o bcm_dnx_sdk_manage_mcast_group(port, mcid, TRUE, lif)

bcm_dnx_sdk_extract_and_add_port_to_vlan(port, lif, vlan, vsi, mcid, tagged) ==
  port_class_set(port, port)
  \o vlan_gport_add(vlan, port)
  \o FourTpids(port)
  \o Untagged(port, vlan, tagged)
  \o InLif(port, lif, vsi) \o OutLif(port, lif, vsi)
  \o Ignored(Query)
  \o port_learn_set(port)
  \o bcm_dnx_sdk_manage_mcast_group(port, mcid, TRUE, 0)

(* Taking a port out.  A failure to read the PVID is printed and the       *)
(* comparison made all the same, with whatever the variable holds.         *)
ResetPvid(port, vlan, tagged) ==
  IF tagged THEN <<>>
  ELSE Unchecked(port_untagged_vlan_get(port)
                 \o IfKnown({Pvid(port, vlan)}, {Local("pvid")},
                            port_untagged_vlan_set(port, DefVlan)))

bcm_dnx_sdk_extract_and_del_port_from_vlan_sym(port, lif, vlan, vsi, mcid, tagged) ==
  Declare("pvid")
  \o vlan_gport_delete(vlan, port)
  \o ResetPvid(port, vlan, tagged)
  \o Unchecked(bcm_dnx_sdk_mac_flush_by_port(port))
  \o Holding(OutGp(lif), vlan_port_destroy("sym", lif, vsi))
  \o Holding(InGp(lif), vlan_port_destroy("esem", lif, vsi))
  \o bcm_dnx_sdk_manage_mcast_group(port, mcid, FALSE, lif)

bcm_dnx_sdk_extract_and_del_port_from_vlan(port, lif, vlan, vsi, mcid, tagged) ==
  Declare("pvid")
  \o Holding(InGp(lif), vswitch_port_delete(vsi, "in", lif))
  \o Holding(InGp(lif), vlan_port_destroy("in", lif, vsi))
  \o vlan_port_remove(vlan, port)
  \o vlan_gport_delete(vlan, port)
  \o ResetPvid(port, vlan, tagged)
  \o Unchecked(bcm_dnx_sdk_mac_flush_by_port(port))
  \o Holding(OutGp(lif), vlan_port_destroy("out", lif, vsi))
  \o bcm_dnx_sdk_manage_mcast_group(port, mcid, FALSE, 0)

(* Each attachment is `print'ed: one that fails does not stop the others,  *)
(* and the VLAN is reported as added, or as deleted.                       *)
Attachments(lif_base, p1, p2, untagged) ==
  <<[port |-> p1, lif |-> lif_base, tagged |-> TRUE],
    [port |-> p2, lif |-> lif_base + 1, tagged |-> TRUE],
    [port |-> untagged, lif |-> lif_base + 2, tagged |-> FALSE]>>

add_vlanp(use_case, vlan, vsi, lif_base, p1, p2, untagged) ==
  LET attach(a) ==
        CASE use_case = 2 -> l2_basic_bridge_run(a.port, a.lif, vlan, vsi, a.tagged)
          [] use_case = 1 -> bcm_dnx_sdk_extract_and_add_port_to_vlan_sym(
                               a.port, a.lif, vlan, vsi, vsi, a.tagged)
          [] OTHER -> bcm_dnx_sdk_extract_and_add_port_to_vlan(
                        a.port, a.lif, vlan, vsi, vsi, a.tagged)
  IN  multicast_create(vsi)
      \o (IF use_case = 2 THEN vlan_create(vsi)
          ELSE vswitch_create_with_id(vsi) \o Unchecked(vlan_create(vlan)))
      \o Each(Attachments(lif_base, p1, p2, untagged), LAMBDA a : Caught(attach(a)))
      \o Unchecked(add_mac_ol(p1, vsi) \o add_mac_ol(p2, vsi) \o add_mac_ol(untagged, vsi))

Replicas(mcid, lif_base, p1, p2, untagged) ==
  {Replica(mcid, gp, l) : gp \in {p1, p2, untagged}, l \in {0} \cup lif_base .. lif_base + 2}

del_vlanp(use_case, vlan, vsi, lif_base, p1, p2, untagged) ==
  LET detach(a) ==
        IF use_case = 1
        THEN bcm_dnx_sdk_extract_and_del_port_from_vlan_sym(
               a.port, a.lif, vlan, vsi, vsi, a.tagged)
        ELSE bcm_dnx_sdk_extract_and_del_port_from_vlan(a.port, a.lif, vlan, vsi, vsi, a.tagged)
  IN  Each(Attachments(lif_base, p1, p2, untagged), LAMBDA a : Caught(detach(a)))
      \o Unchecked(vswitch_destroy(vsi)
                   \o vlan_destroy(vlan, {p1, p2, untagged})
                   \o multicast_destroy(vsi, Replicas(vsi, lif_base, p1, p2, untagged)))

add_vlan(use_case, vlan, vsi, lif_base, untagged) ==
  add_vlanp(use_case, vlan, vsi, lif_base, 1, 13, untagged)

del_vlan(use_case, vlan, vsi, lif_base, untagged) ==
  del_vlanp(use_case, vlan, vsi, lif_base, 1, 13, untagged)

-----------------------------------------------------------------------------
(* l2_notes: VLANs 50 and 51 share the tagged ports 1 and 13.              *)
Stays(commands) ==
  {fact \in UNION {Made(commands[c].script) : c \in DOMAIN commands} :
     \/ fact[1] \in {"tpid", "domain", "learns", "in_gp", "out_gp"}
     \/ fact[1] = "pvid" /\ fact[3] = DefVlan}

Kept(vlan, vsi, lif_base, untagged, ways) ==
  {Vlan(vlan), Vsi(vsi), Mcast(vsi)}
  \cup {Member(gp, vlan) : gp \in {1, 13, untagged}}
  \cup {InVsi(way, l, vsi) : way \in ways, l \in lif_base .. lif_base + 2}

Vlans(use_case, second_port, ways) ==
  LET native(port, vlan) == IF second_port = 14 THEN {} ELSE {Pvid(port, vlan)}
      kept_50 == Kept(50, 1050, 500, 14, ways) \cup native(14, 50)
      kept_51 == Kept(51, 1051, 510, second_port, ways) \cup native(second_port, 51)
      commands ==
        [add_50 |-> Opens("50", {}, add_vlan(use_case, 50, 1050, 500, 14), kept_50),
         del_50 |-> Closes("50", {}, del_vlan(use_case, 50, 1050, 500, 14), kept_50),
         add_51 |-> Opens("51", {}, add_vlan(use_case, 51, 1051, 510, second_port), kept_51),
         del_51 |-> Closes("51", {}, del_vlan(use_case, 51, 1051, 510, second_port), kept_51)]
  IN  [boot |-> {}, stays |-> Stays(commands), robust |-> FALSE, commands |-> commands]

(* In the last the native VLAN of port 14 moves from one VLAN to the other.*)
adv_vlan == Vlans(1, 15, {"sym", "esem"})
adv_vlan_lifs == Vlans(0, 15, {"in", "out"})
adv_vlan_native == Vlans(0, 14, {"in", "out"})

adv_vlan_bridge ==
  LET kept(vsi, lif_base) ==
        {Vlan(vsi), Mcast(vsi)} \cup {InVsi("sym", l, vsi) : l \in lif_base .. lif_base + 2}
  IN  [boot |-> {}, stays |-> {}, robust |-> FALSE,
       commands |->
         [add_50 |-> Opens("50", {}, add_vlan(2, 50, 50, 500, 14), kept(50, 500)),
          add_51 |-> Opens("51", {}, add_vlan(2, 51, 51, 510, 15), kept(51, 510))]]

(* The plain VLANs, and the initialisation everything else starts from.    *)
simple_vlan ==
  LET kept(vlan, port) == {Vlan(vlan), Mcast(vlan), Pvid(port, vlan)}
                          \cup {Member(gp, vlan) : gp \in {1, 13, port}}
  IN  [boot |-> {}, stays |-> {}, robust |-> FALSE,
       commands |->
         [add_50 |-> Opens("50", {}, simple_add_vlan(50, 14), kept(50, 14)),
          add_51 |-> Opens("51", {}, simple_add_vlan(51, 15), kept(51, 15)),
          learning |-> Does({"50"}, bcm_dnx_sdk_vsi_learn_distribution(50)),
          member_nok |-> Does({"50"}, do_simple_add_vlan_nok(16, 50, FALSE))]]

vlan_init ==
  [boot |-> {Vlan(1), Vsi(1), Stk}, stays |-> {}, robust |-> FALSE,
   commands |->
     [l2_init |-> Opens("l2", {}, bcm_dnx_sdk_l2_init, {Mcast(OlpMcid)}),
      ave_vlan_init |-> Opens("init", {}, bcm_dnx_sdk_ave_vlan_init(1),
                              {ActionId("IVE_NOOP"), Action("IVE_NOOP")}),
      global_tpid_init |-> Does({"init"}, bcm_dnx_sdk_global_tpid_init),
      tpids_assign |-> Does({"init"}, tpids_assign)]]
=============================================================================
