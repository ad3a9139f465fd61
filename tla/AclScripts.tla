----------------------------- MODULE AclScripts -----------------------------
(***************************************************************************)
(* src/lag/cint_j2/acl.c: the access-list tests of a Jericho 2.  Contexts  *)
(* with their preselectors, field groups attached to contexts, entries.    *)
(* The books of the TCAM banks these functions keep are those of PmfTcam;  *)
(* here a booking is a call that may fail.                                 *)
(*                                                                         *)
(* A context is <<where, layer, tag>>, a group the tuple <<type, direction,*)
(* target>> that holds its id.  context_id is 0 exactly when the script    *)
(* has not made the context, or has destroyed it: Ctx(c) stands for both.  *)
(***************************************************************************)
EXTENDS J2Sdk

CtxHash(c) == <<"hash", c>>
Presel(c, p) == <<"presel", c, p>>
Cascade(c) == <<"cascade", c>>            \* quals[0] of a COPP context is set
PreselId(g) == <<"presel id", g>>         \* the tuple's entry id is not 0
EntryId(g, e) == <<"entry id", g, e>>     \* a variable holds the entry's id
Uda(a) == <<"uda", a>>
Udq(q) == <<"udq", q>>
Fails == Call({Never}, {})
Booking == Query

-----------------------------------------------------------------------------
(* Contexts.                                                               *)
bcm_dnx_sdk_contexts ==
  <<<<"INGRESS", "V4", "TAG">>, <<"INGRESS", "V4", "">>, <<"INGRESS", "V6", "TAG">>,
    <<"INGRESS", "V6", "">>, <<"INGRESS", "L2", "TAG">>, <<"INGRESS", "L2", "">>,
    <<"EGRESS", "V4", "">>, <<"EGRESS", "V6", "">>,
    <<"COPP", "V4", "TAG">>, <<"COPP", "V4", "">>, <<"COPP", "V6", "TAG">>,
    <<"COPP", "V6", "">>, <<"COPP", "L2", "TAG">>, <<"COPP", "L2", "">>>>
presels(c) ==
  IF c[1] = "COPP" \/ c[2] = "L2" \/ c[3] = "TAG" THEN <<1>> ELSE <<1, 2>>
hashing_enabled(c) == c[1] = "INGRESS"
cascaded_from(c) == IF c[1] = "COPP" THEN {Ctx(<<"INGRESS", c[2], c[3]>>)} ELSE {}

bcm_dnx_pmf_hash_create(c) == Create({Ctx(c)}, CtxHash(c))

bcm_dnx_pmf_context_create(c) ==
  Create(cascaded_from(c), Ctx(c))
  \o (IF hashing_enabled(c) THEN bcm_dnx_pmf_hash_create(c) ELSE <<>>)

(* Plausible bugs: each stands for one definition below in a mutation run. *)
CoppPreselSetKeepsQual(c, destroy) ==
  Let({}, {Cascade(c)})
  \o (IF destroy THEN Unchecked(Drop({}, {Presel(c, 1)})) ELSE Call({Ctx(c)}, {Presel(c, 1)}))
ContextsDestroyKeepsHashes ==
  Each(Reverse(bcm_dnx_sdk_contexts),
       LAMBDA c : If({Ctx(c)}, Unchecked(Each(presels(c), LAMBDA p : Drop({}, {Presel(c, p)}))
                                         \o Destroy(Ctx(c), {}))))

(* A COPP context has a preselector once copp_presel_set has given it one. *)
bcm_dnx_pmf_presel_set(c, destroy) ==
  LET set(p) == IF destroy THEN Unchecked(Drop({}, {Presel(c, p)}))
                ELSE Call({Ctx(c)}, {Presel(c, p)})
  IN  IF c[1] = "COPP" THEN If({Cascade(c)}, set(1)) ELSE Each(presels(c), set)

bcm_dnx_sdk_copp_presel_set(c, destroy) ==
  Let({}, {Cascade(c)})
  \o bcm_dnx_pmf_presel_set(c, destroy)
  \o (IF destroy THEN Let({Cascade(c)}, {}) ELSE <<>>)

bcm_dnx_pmf_contexts_setup(pv) ==
  LET context(c) == IF pv /\ c[3] = "TAG" THEN <<>>
                    ELSE bcm_dnx_pmf_context_create(c) \o bcm_dnx_pmf_presel_set(c, FALSE)
  IN  Each(bcm_dnx_sdk_contexts, context)

bcm_dnx_pmf_contexts_destroy ==
  LET context(c) ==
        If({Ctx(c)}, bcm_dnx_pmf_presel_set(c, TRUE)
                     \o Unchecked((IF hashing_enabled(c) THEN Destroy(CtxHash(c), {}) ELSE <<>>)
                                  \o Destroy(Ctx(c), {})))
  IN  Each(Reverse(bcm_dnx_sdk_contexts), context)

-----------------------------------------------------------------------------
(* User-defined actions and qualifiers, traps and mirrors.                 *)
bcm_dnx_pmf_setup_action(a) == Create({}, Uda(a))
bcm_dnx_sdk_uda_defs == <<"drop", "redir_2", "copp", "snoop", "redir", "mirror">>
bcm_dnx_pmf_setup_actions == Each(bcm_dnx_sdk_uda_defs, bcm_dnx_pmf_setup_action)
cint_field_action_drop_main_trap(a) == Query \o Create({}, Uda(a))
bcm_dnx_pmf_udh_action(a) == Create({}, Uda(a))
bcm_dnx_pmf_setup_action_snoop == Let({}, {<<"snoop prefix">>})
bcm_dnx_pmf_ud_qual(q) == Create({}, Udq(q))
bcm_dnx_sdk_udq_defs ==
  <<"dscp", "ports", "frag", "options", "ttl_proto", "tcpflags", "vsi", "pr_v4", "pr_v6">>
bcm_dnx_pmf_ud_quals == Each(bcm_dnx_sdk_udq_defs, bcm_dnx_pmf_ud_qual)

Trap(t) == <<"trap", t>>
TrapConfig(t) == <<"trap config", t>>
MirrorDest(m) == <<"mirror destination", m>>
SnoopGport == <<"snoop gport">>
bcm_dnx_sdk_set_ff_trap(src_port) ==
  Call({}, {Trap("force forward")})
  \o Call({Trap("force forward")}, {TrapConfig("force forward")})
  \o Call({Trap("force forward")}, {<<"force forward", src_port>>})
bcm_dnx_sdk_mirror_dest_create(m) == Call({}, {MirrorDest(m)})
bcm_dnx_sdk_snoop_dest_create ==
  Call({}, {MirrorDest("snoop")}) \o Query
  \o Call({}, {Trap("snoop")})
  \o Call({Trap("snoop"), MirrorDest("snoop")}, {TrapConfig("snoop")})
  \o Let({}, {SnoopGport})
bcm_dnx_sdk_fe_write_range(type) == Call({}, {<<"range", type>>})
bcm_dnx_sdk_fe_find_range(type) == Silent(Call({<<"range", type>>}, {}))

-----------------------------------------------------------------------------
(* Field groups.  A detach that fails is printed, and the next one tried.  *)
ATTACH(c, g, detach) ==
  IF detach THEN Unchecked(Destroy(Attached(g, c), {}))
  ELSE Call({Fg(g), Ctx(c)}, {Attached(g, c)})

COPP_ATTACH_CASCADE(layer, tag, g, detach) ==
  LET ingress == ATTACH(<<"INGRESS", layer, tag>>, g, detach)
      presel == bcm_dnx_sdk_copp_presel_set(<<"COPP", layer, tag>>, detach)
  IN  IF detach THEN presel \o ingress ELSE ingress \o presel

(* The default context, number 0, is always there.                         *)
DefaultContext == <<"DEFAULT", "", "">>

(* fset_patch drops the result of fset_offset and tests rv, which nothing  *)
(* has assigned: unless it happens to be 0 the patch is reported as failed.*)
RvIsZero == <<"fset_patch's rv is 0">>
bcm_dnx_fset_patch == Ignored(Query) \o IfKnown({Never}, {RvIsZero}, Fails)

IngressLayers(type) ==
  CASE type \in {"L2", "QOS_L2", "PRE_COPP"} -> <<"V4", "V6", "L2">>
    [] type \in {"IPV4", "QOS_V4", "TUPLE"} -> <<"V4">>
    [] type \in {"IPV6", "QOS_V6", "TUPLE6", "IPV6_PRE"} -> <<"V6">>
    [] OTHER -> <<>>
EgressContexts(type) ==
  CASE type \in {"IPV4", "TUPLE"} -> <<<<"EGRESS", "V4", "">>>>
    [] type \in {"IPV6", "TUPLE6"} -> <<<<"EGRESS", "V6", "">>>>
    [] type = "L2" -> <<<<"EGRESS", "V4", "">>, <<"EGRESS", "V6", "">>, DefaultContext>>
    [] OTHER -> <<DefaultContext>>

bcm_dnx_sdk_attach_fg_to_contexts(g, detach) ==
  LET type == g[1]
      tag == IF g[3] = "VLAN" THEN "TAG" ELSE ""
      attach(c) == ATTACH(c, g, detach)
      ingress(layer) == IF type = "PRE_COPP" THEN COPP_ATTACH_CASCADE(layer, tag, g, detach)
                        ELSE attach(<<"INGRESS", layer, tag>>)
  IN  CASE g[2] # "INGRESS" -> Each(EgressContexts(type), attach)
        [] type \in {"USER_COPP", "DEFAULT_COPP"} ->
             attach(<<"COPP", "V4", tag>>)
             \o (IF detach THEN <<>> ELSE bcm_dnx_fset_patch)
             \o attach(<<"COPP", "V6", tag>>) \o attach(<<"COPP", "L2", tag>>)
        [] IngressLayers(type) # <<>> -> Each(IngressLayers(type), ingress)
        [] OTHER -> attach(DefaultContext)

(* The qualifiers of a group are looked up; quality of service is for      *)
(* ingress only, and the set of IPV6_PRE is empty.                         *)
bcm_dnx_sdk_get_qset(g) ==
  IF g[2] # "INGRESS" /\ g[1] \in {"QOS_V4", "QOS_V6", "QOS_L2"} THEN Fails
  ELSE Call({Udq(q) : q \in ToSet(bcm_dnx_sdk_udq_defs)}, {})

bcm_dnx_sdk_fg_create(g) ==
  IF g[1] = "IPV6_PRE" THEN <<>>
  ELSE bcm_dnx_sdk_get_qset(g)
       \o Call({Uda(a) : a \in ToSet(bcm_dnx_sdk_uda_defs)}, {Fg(g)})
       \o bcm_dnx_sdk_attach_fg_to_contexts(g, FALSE)
       \o Booking

FieldGroupDelete(g, entries) == Destroy(Fg(g), {Entry(g, e) : e \in entries})
bcm_dnx_sdk_fg_destroy(g, entries) ==
  bcm_dnx_sdk_attach_fg_to_contexts(g, TRUE) \o FieldGroupDelete(g, entries)

-----------------------------------------------------------------------------
(* Entries.                                                                *)
bcm_dnx_sdk_fe_create(g, e) == Query \o Create({Fg(g)}, Entry(g, e))
bcm_dnx_sdk_blank_fe_action_create(g, e) == Call({Fg(g)}, {Entry(g, e)})
bcm_dnx_sdk_fe_destroy(g, e) == Destroy(Entry(g, e), {})

(* Deleted, then added again under its id.                                 *)
bcm_dnx_sdk_fe_replace(g, e) ==
  If({EntryId(g, e)}, bcm_dnx_sdk_fe_destroy(g, e)) \o Create({Fg(g)}, Entry(g, e))
bcm_dnx_sdk_fe_set_IcmpTypeCode == Query
bcm_sdk_test_with_etuple(g, e) ==
  bcm_dnx_sdk_fe_set_IcmpTypeCode \o bcm_dnx_sdk_fe_replace(g, e) \o Let({}, {EntryId(g, e)})

bcm_dnx_pmf_test_fg_populate(g, e) ==
  Call({Fg(g)}, {}) \o Call({Fg(g)}, {Entry(g, e)}) \o Booking

(* The tuple's own entry is e 0; its id is known once the entry is added.  *)
bcm_dnx_pmf_test_fg_set(tuples) ==
  LET tuple(g) == bcm_dnx_sdk_fg_create(g)
                  \o Call({Fg(g)}, {}) \o Call({Fg(g)}, {Entry(g, 0), PreselId(g)}) \o Booking
  IN  Each(tuples, tuple)

bcm_dnx_pmf_test_fgs_destroy_int(tuples) ==
  LET tuple(g) ==
        If({PreselId(g)}, Unchecked(bcm_dnx_sdk_fe_destroy(g, 0))
                          \o Let({PreselId(g)}, {})
                          \o Unchecked(Booking))
        \o Caught(bcm_dnx_sdk_fg_destroy(g, 0 .. 9))
  IN  Each(tuples, tuple)

(* Adding stops at the first failure and the count so far is returned.     *)
bcm_dnx_pmf_fgs_fe_scale_up(g, ids) ==
  Caught(Each(ids, LAMBDA e : bcm_dnx_pmf_test_fg_populate(g, e)))
bcm_dnx_pmf_fgs_fe_scale_down(g, ids) ==
  Unchecked(Each(ids, LAMBDA e : bcm_dnx_sdk_fe_destroy(g, e) \o Booking))

-----------------------------------------------------------------------------
(* The tests.                                                              *)
bcm_dnx_pmf_fgs_test_all(ing, copp, egr, qos, pv) ==
  LET around(g, block) == bcm_dnx_pmf_test_fg_set(<<g>>) \o block
                          \o bcm_dnx_pmf_test_fgs_destroy_int(<<g>>)
      each_qos == Each(qos, LAMBDA q : around(q, <<>>))
      each_egr == Each(egr, LAMBDA e : around(e, each_qos))
  IN  bcm_dnx_pmf_contexts_setup(pv)
      \o bcm_dnx_pmf_test_fg_set(ing)
      \o Each(copp, LAMBDA c : around(c, each_egr))
      \o bcm_dnx_pmf_test_fgs_destroy_int(ing)
      \o bcm_dnx_pmf_contexts_destroy

bcm_dnx_pmf_fgs_test_clear(ing, copp, egr, qos) ==
  bcm_dnx_pmf_test_fgs_destroy_int(ing \o copp \o egr \o qos) \o bcm_dnx_pmf_contexts_destroy

bcm_dnx_pmf_fgs_wc(fgs, pv) == bcm_dnx_pmf_contexts_setup(pv) \o bcm_dnx_pmf_test_fg_set(fgs)
bcm_dnx_pmf_fgs_wc_clear(fgs) ==
  bcm_dnx_pmf_test_fgs_destroy_int(fgs) \o bcm_dnx_pmf_contexts_destroy

(* One entry after the other: added, hit by a packet or not, destroyed.    *)
bcm_dnx_sdk_test_add_fe(g, e) == Call({Fg(g)}, {Entry(g, e)})
run_acl_qual_tests(g, quals) ==
  Each(quals, LAMBDA e : bcm_dnx_sdk_test_add_fe(g, e) \o Query \o bcm_dnx_sdk_fe_destroy(g, e))

(* What the test before has left in g_gtuple is destroyed first: its group *)
(* by the contexts of its type, its entries all at once.                   *)
GTuple(g) == <<"g_gtuple", g>>
bcm_dnx_pmf_test_fgs_destroy(tests) ==
  Ignored(Drop({}, {Entry(g, e) : g \in ToSet(tests), e \in 0 .. 9}))
  \o Each(tests, LAMBDA g : If({GTuple(g)}, Caught(bcm_dnx_sdk_fg_destroy(g, 0 .. 9))
                                            \o Let({GTuple(g)}, {})))

bcm_dnx_sdk_test_quals(g, tests) ==
  bcm_dnx_pmf_test_fgs_destroy(tests)
  \o Let({}, {GTuple(g)})
  \o bcm_dnx_sdk_fg_create(g)
  \o run_acl_qual_tests(g, <<1, 2>>)

fgs_copp_pv == <<<<"PRE_COPP", "INGRESS", "PV">>, <<"USER_COPP", "INGRESS", "PV">>>>
bcm_dnx_sdk_test_copp ==
  bcm_dnx_pmf_fgs_wc(fgs_copp_pv, TRUE)
  \o bcm_dnx_sdk_fe_write_range("source") \o bcm_dnx_sdk_fe_write_range("destination")
  \o bcm_dnx_sdk_test_add_fe(fgs_copp_pv[1], 1)
  \o run_acl_qual_tests(fgs_copp_pv[2], <<2, 3>>)
bcm_dnx_sdk_test_copp_c ==
  Unchecked(bcm_dnx_sdk_fe_destroy(fgs_copp_pv[1], 1)) \o bcm_dnx_pmf_fgs_wc_clear(fgs_copp_pv)

(* PRE_COPP by hand.  When it is taken apart its cascades go first.        *)
bcm_dnx_sdk_pre_copp_fg_create(g, pv, detach) ==
  LET tags == IF pv THEN <<"">> ELSE <<"", "TAG">>
      cascades(tag) == Each(<<"V4", "V6", "L2">>,
                            LAMBDA layer : COPP_ATTACH_CASCADE(layer, tag, g, detach))
  IN  IF detach THEN Each(tags, cascades) \o FieldGroupDelete(g, {})
      ELSE Create({}, Fg(g)) \o Each(tags, cascades)

bcm_dnx_sdk_pre_copp_fg(g) ==
  Create({}, Fg(g))
  \o Each(<<"V4", "V6", "L2">>, LAMBDA layer : ATTACH(<<"INGRESS", layer, "">>, g, FALSE))

-----------------------------------------------------------------------------
(* acl_notes, and the tables of the tests.                                 *)
Pv(types, direction) == [i \in DOMAIN types |-> <<types[i], direction, "PV">>]
fgs_wc_pv ==
  Pv(<<"PRE_COPP", "COPP_HDR", "IPV4", "IPV6", "QOS_V4", "QOS_V6", "USER_COPP">>, "INGRESS")
  \o Pv(<<"IPV6", "IPV4">>, "EGRESS")
fgs_pv_tuple ==
  Pv(<<"PRE_COPP", "COPP_HDR", "TUPLE", "TUPLE6">>, "INGRESS") \o Pv(<<"TUPLE">>, "EGRESS")
fgs_copp_pv_ing == Pv(<<"DEFAULT_COPP", "USER_COPP">>, "INGRESS")
fgs_pv_egr_tuple == Pv(<<"TUPLE6">>, "EGRESS")
fgs_pv_qos == Pv(<<"QOS_V6", "QOS_L2", "L2">>, "INGRESS")

AclBoot == {Ctx(DefaultContext)}
AclReady == AclBoot \cup {RvIsZero} \cup {Uda(a) : a \in ToSet(bcm_dnx_sdk_uda_defs)}
                    \cup {Udq(q) : q \in ToSet(bcm_dnx_sdk_udq_defs)}
Attachments(tuples) ==
  {fact \in Made(Each(tuples, LAMBDA g : bcm_dnx_sdk_attach_fg_to_contexts(g, FALSE))) :
     fact[1] \in {"attached", "presel"}}

acl_init ==
  [boot |-> AclBoot, stays |-> {}, robust |-> FALSE,
   commands |->
     [snoop_dest |-> Opens("snoop", {}, bcm_dnx_sdk_snoop_dest_create, {TrapConfig("snoop")}),
      action_snoop |-> Does({"snoop"}, bcm_dnx_pmf_setup_action_snoop),
      setup_actions |-> Opens("actions", {}, bcm_dnx_pmf_setup_actions, {Uda("mirror")}),
      ud_quals |-> Opens("quals", {}, bcm_dnx_pmf_ud_quals, {Udq("pr_v6")}),
      drop_main_trap |-> Opens("trap", {}, cint_field_action_drop_main_trap("drop_2"),
                               {Uda("drop_2")}),
      udh_action |-> Opens("udh", {}, bcm_dnx_pmf_udh_action("udh"), {Uda("udh")}),
      mirror_dest |-> Opens("mirror", {}, bcm_dnx_sdk_mirror_dest_create("local"), {}),
      ff_trap |-> Opens("ff", {}, bcm_dnx_sdk_set_ff_trap(1), {}),
      write_range |-> Opens("range", {}, bcm_dnx_sdk_fe_write_range("source"), {}),
      find_range |-> Does({"range"}, bcm_dnx_sdk_fe_find_range("source"))]]

acl_wc ==
  LET g == <<"IPV4", "INGRESS", "PV">>
  IN  [boot |-> AclReady, stays |-> {}, robust |-> TRUE,
       commands |->
         [fg_wc_2 |-> Opens("wc", {}, bcm_dnx_pmf_fgs_wc(fgs_wc_pv, TRUE),
                            Attachments(fgs_wc_pv)),
          fg_wc_2_c |->
            Unless({"scaled"}, Closes("wc", {}, bcm_dnx_pmf_fgs_wc_clear(fgs_wc_pv),
                                      {Ctx(c) : c \in ToSet(bcm_dnx_sdk_contexts)})),
          scale_up |-> Opens("scaled", {"wc"}, bcm_dnx_pmf_fgs_fe_scale_up(g, <<1, 2>>), {}),
          scale_down |-> Closes("scaled", {"wc"}, bcm_dnx_pmf_fgs_fe_scale_down(g, <<1, 2>>),
                                {Entry(g, 1), Entry(g, 2)})]]

(* The test clears up after itself; fgs_3_c clears up after one that failed.*)
acl_test_all ==
  [boot |-> AclReady, stays |-> {}, robust |-> FALSE,
   commands |->
     [fgs_3 |-> Opens("test", {}, bcm_dnx_pmf_fgs_test_all(fgs_pv_tuple, fgs_copp_pv_ing,
                                                           fgs_pv_egr_tuple, fgs_pv_qos, TRUE), {}),
      fgs_3_c |-> BestEffort(
        Closes("test", {}, bcm_dnx_pmf_fgs_test_clear(fgs_pv_tuple, fgs_copp_pv_ing,
                                                      fgs_pv_egr_tuple, fgs_pv_qos),
               {Ctx(c) : c \in ToSet(bcm_dnx_sdk_contexts)}))]]

acl_quals ==
  LET tests == <<<<"L2", "INGRESS", "PV">>, <<"L2", "EGRESS", "PV">>, <<"TUPLE", "INGRESS", "PV">>>>
  IN  [boot |-> AclReady, stays |-> {GTuple(g) : g \in ToSet(tests)}, robust |-> FALSE,
       commands |->
         [contexts_setup |->
            Promising(Opens("contexts", {}, bcm_dnx_pmf_contexts_setup(TRUE),
                            {Ctx(<<"COPP", "L2", "">>)}),
                      {fact \in Made(bcm_dnx_pmf_contexts_setup(TRUE)) :
                         fact[1] # "presel" \/ fact[2][1] # "COPP"}),
          test_l2_i |-> Opens("tested", {"contexts"}, bcm_dnx_sdk_test_quals(tests[1], tests), {}),
          test_l2_e |-> Does({"tested"}, bcm_dnx_sdk_test_quals(tests[2], tests)),
          test_tuple_i |-> Does({"tested"}, bcm_dnx_sdk_test_quals(tests[3], tests)),
          fgs_destroy |-> Closes("tested", {}, bcm_dnx_pmf_test_fgs_destroy(tests),
                                 {GTuple(g) : g \in ToSet(tests)}),
          contexts_destroy |->
            Unless({"tested"}, Closes("contexts", {}, bcm_dnx_pmf_contexts_destroy,
                                      {Ctx(c) : c \in ToSet(bcm_dnx_sdk_contexts)}))]]

acl_copp ==
  [boot |-> AclReady, stays |-> {<<"range", "source">>, <<"range", "destination">>},
   robust |-> TRUE,
   commands |->
     [test_copp |-> Opens("copp", {}, bcm_dnx_sdk_test_copp, Attachments(fgs_copp_pv)),
      test_copp_c |-> Closes("copp", {}, bcm_dnx_sdk_test_copp_c,
                             {Fg(fgs_copp_pv[1]), Fg(fgs_copp_pv[2])})]]

acl_replace ==
  LET g == <<"IPV4", "INGRESS", "PV">>
  IN  [boot |-> AclReady \cup {Ctx(<<"INGRESS", "V4", "">>)}, stays |-> {EntryId(g, e) : e \in {1, 2}}, robust |-> FALSE,
       commands |->
         [fg_create |-> Opens("group", {}, bcm_dnx_sdk_fg_create(g), {Fg(g)}),
          fe_create |-> Opens("entry 3", {"group"}, bcm_dnx_sdk_fe_create(g, 3), {Entry(g, 3)}),
          fe_blank |-> Does({"group"}, bcm_dnx_sdk_blank_fe_action_create(g, 4)),
          fe_destroy |-> Closes("entry 3", {"group"}, bcm_dnx_sdk_fe_destroy(g, 3), {Entry(g, 3)}),
          icmp_1 |-> Does({"group"}, bcm_sdk_test_with_etuple(g, 1)),
          icmp_2 |-> Does({"group"}, bcm_sdk_test_with_etuple(g, 2))]]

acl_pre_copp ==
  LET contexts == AclReady \cup {Ctx(c) : c \in ToSet(bcm_dnx_sdk_contexts)}
      cascades == {Attached("pre", <<"INGRESS", layer, tag>>) : layer \in {"V4", "V6", "L2"},
                                                              tag \in {"", "TAG"}}
  IN  [boot |-> contexts, stays |-> {}, robust |-> TRUE,
       commands |->
         [create |-> Opens("pre", {}, bcm_dnx_sdk_pre_copp_fg_create("pre", FALSE, FALSE), cascades),
          destroy |-> Closes("pre", {}, bcm_dnx_sdk_pre_copp_fg_create("pre", FALSE, TRUE),
                             cascades \cup {Fg("pre")}),
          pre_copp_fg |-> Opens("direct", {}, bcm_dnx_sdk_pre_copp_fg("direct"), {Fg("direct")})]]

(* With anything in fset_patch's rv, the commands that attach a COPP group *)
(* may fail of themselves; what then takes the groups down meets some that *)
(* were never attached and entries that were never added.                  *)
Leftover(program, failing) ==
  [program EXCEPT
     !.boot = @ \ {RvIsZero},
     !.commands = [c \in DOMAIN @ |-> IF c \in failing THEN BestEffort(@[c]) ELSE @[c]]]
acl_wc_leftover == Leftover(acl_wc, {"fg_wc_2", "fg_wc_2_c"})
acl_test_all_leftover == Leftover(acl_test_all, {"fgs_3"})
acl_copp_leftover == Leftover(acl_copp, {"test_copp", "test_copp_c"})
=============================================================================
