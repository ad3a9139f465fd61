----------------------------- MODULE PfcScripts -----------------------------
(***************************************************************************)
(* The other versions of the lossless set-up of a Tomahawk 5 (the last one *)
(* is modelled register by register in PfcPort): th5_pfc_only_apis.c, and  *)
(* the first test, th5_pfc_all.c, of which th5_pfc_all_v2.c repeats all but*)
(* the thresholds.                                                         *)
(*                                                                         *)
(* A setting is Fixed, Conditional (the port must not forward meanwhile) or*)
(* Flexible, as the chip says; that the chip says Fixed counts as a failure*)
(* of the call that asks it.                                               *)
(***************************************************************************)
EXTENDS XgsSdk

Dynamic(d) == <<"dynamic", d>>
Profile(kind) == <<"profile", kind>>
PgIs(pg, property) == <<"pg", pg, property>>
Traffic == Port("port", "MmuTraffic")

-----------------------------------------------------------------------------
(* th5_pfc_only_apis.c.                                                    *)
bcmsdk_pfc_port_pg_dump == Query \o Query \o Query
Quiesced(call) == Drop({}, {Traffic}) \o call \o Call({}, {Traffic})
bcmsdk_mmu_port_pg_control_set(pg, limit) ==
  LET set == Call({}, {PgIs(pg, limit)})
  IN  Query \o If({Dynamic("Conditional")}, Quiesced(set)) \o If({Dynamic("Flexible")}, set)
bcmsdk_setup_mmu_port_pg_attrs(pg) ==
  port_gport_get
  \o Each(<<"min", "headroom", "shared">>, LAMBDA limit : bcmsdk_mmu_port_pg_control_set(pg, limit))
bcmsdk_setup_mmu_hdrm_pool_buffers == switch_control_set("headroom pool")
bcmsdk_setup_mmu_thdi_attrs == bcmsdk_setup_mmu_hdrm_pool_buffers
bcmsdk_setup_pg_to_tx_pfc_pri == Call({}, {Profile("tx pfc")})
bcmsdk_setup_pg_to_sp_hp_mapping ==
  Call({}, {Profile("service pool")}) \o Call({}, {Profile("headroom pool")})
  \o bcmsdk_setup_pg_to_tx_pfc_pri
bcmsdk_setup_ing_local_tc_to_pg == Call({}, {Profile("unicast")}) \o Call({}, {Profile("multicast")})
bcmsk_setup_rx_pfc_to_voqs == Call({}, {Profile("rx pfc")})
PgsOfPort == <<2, 3>>
bcmsdk_setup_lossy_pgs ==
  Each(PgsOfPort, LAMBDA pg : Drop({}, {PgIs(pg, "lossless")}) \o Drop({}, {PgIs(pg, "pause")}))

(* Both are settings of the port: the first PG to be disabled takes PFC    *)
(* away from the others, and gives the port pause frames again.            *)
bcmsdk_pfc_port_pg_disable(pg) ==
  port_unset("port", "PFCTransmit")
  \o Drop({}, {PgIs(pg, "lossless")}) \o Drop({}, {PgIs(pg, "pause")})
  \o Query \o Drop({}, {PgIs(pg, "PFC")})
  \o port_set("port", "pause frames")
bcmsdk_pfc_port_pg_enable(pg) ==
  port_unset("port", "pause frames") \o bcmsdk_setup_mmu_port_pg_attrs(pg)
  \o port_set("port", "pause address") \o port_set("port", "PFCTransmit")
  \o Call({}, {PgIs(pg, "lossless")}) \o Call({}, {PgIs(pg, "pause")})
  \o Query \o Call({}, {PgIs(pg, "PFC")})

(* Calls bcmsdk_setup_rx_pfc_to_voqs, which is spelled otherwise above.    *)
bcmsdk_init_mmu_profiles ==
  bcmsdk_setup_pg_to_sp_hp_mapping \o bcmsdk_setup_ing_local_tc_to_pg \o Undefined

(* A Flexible profile is set without a look at the result.                 *)
bcmsdk_mmu_port_profile_set(kind) ==
  LET set == Call({}, {Port("port", kind)})
  IN  Query \o If({Dynamic("Conditional")}, Quiesced(set))
            \o If({Dynamic("Flexible")}, Ignored(set))
bcmsdk_mmu_initialize_port ==
  bcmsdk_setup_lossy_pgs
  \o Each(<<"PGProperties", "IntPriToPGMap", "Pfc">>, bcmsdk_mmu_port_profile_set)
  \o port_set("port", "PFCReceive")
bcmsdk_mmu_initialize_all_ports == Query \o bcmsdk_mmu_initialize_port
bcmsdk_mmu_init ==
  bcmsdk_setup_mmu_thdi_attrs \o bcmsdk_init_mmu_profiles \o bcmsdk_mmu_initialize_all_ports

-----------------------------------------------------------------------------
(* th5_pfc_all.c.  Thresholds are set only where the chip says Flexible.   *)
setup_thdi_attrs ==
  Unchecked(port_gport_get)
  \o Each(<<"headroom pool", "min", "headroom", "shared">>,
          LAMBDA limit : If({Dynamic("Flexible")},
                            Unchecked(Call({}, {PgIs(7, limit)}) \o Query)))
setup_pg_to_tx_pfc_pri == Call({}, {Profile("tx pfc")})
setup_pg_to_sp_hp_mapping ==
  Call({}, {Profile("service pool")}) \o Call({}, {Profile("headroom pool")})
  \o Unchecked(setup_pg_to_tx_pfc_pri)
setup_ing_local_tc_to_pg == Call({}, {Profile("unicast")}) \o Call({}, {Profile("multicast")})
setup_lossless_pgs == Unchecked(Call({}, {PgIs(7, "lossless")}) \o Call({}, {PgIs(7, "pause")}))
setup_rx_pfc_to_voqs == Unchecked(Call({}, {Profile("rx pfc")}))

(* What is tried when it fails goes on; the last result is returned.       *)
pfc_port_enable(way, enable) ==
  Unchecked(port_set("port", "pause address"))
  \o (IF enable THEN Unchecked(port_unset("port", "pause frames")) \o port_set("port", way)
      ELSE port_unset("port", way))

(* The groups' profile is set without a look at the result, and where the  *)
(* last is Conditional a message names a variable nothing has defined.     *)
test_start ==
  Unchecked(port_set("port", "PFCReceive"))
  \o Caught(setup_pg_to_sp_hp_mapping) \o Ignored(Call({}, {Port("port", "PGProperties")}))
  \o Caught(setup_ing_local_tc_to_pg) \o Call({}, {Port("port", "IntPriToPGMap")})
  \o setup_lossless_pgs \o setup_rx_pfc_to_voqs
  \o Query \o If({Dynamic("Conditional")}, Undefined)
  \o If({Dynamic("Flexible")}, Call({}, {Port("port", "Pfc")}))

(* th5_pfc_all_v2.c: the same functions, but for the thresholds.           *)
setup_mmu_buffers == <<>>
v2_test_start == setup_mmu_buffers \o test_start

-----------------------------------------------------------------------------
(* Two PGs of a port made lossless and lossy again, on a chip of each kind,*)
(* and the first test.                                                     *)
PgEnabled(pg) == {PgIs(pg, "lossless"), PgIs(pg, "pause"), PgIs(pg, "PFC")}
PgCommands(stage, pg) ==
  [enable |-> Opens(stage, {}, bcmsdk_pfc_port_pg_enable(pg), PgEnabled(pg)),
   disable |-> Closes(stage, {}, bcmsdk_pfc_port_pg_disable(pg), PgEnabled(pg))]
pfc_only_apis(dynamic) ==
  [boot |-> {Dynamic(dynamic), Traffic, Port("port", "pause frames")}, robust |-> FALSE,
   stays |-> {Port("port", "pause address")}
             \cup {PgIs(pg, limit) : pg \in ToSet(PgsOfPort), limit \in {"min", "headroom", "shared"}},
   commands |->
     [enable_2 |-> PgCommands("pg 2", 2).enable, disable_2 |-> PgCommands("pg 2", 2).disable,
      enable_3 |-> PgCommands("pg 3", 3).enable, disable_3 |-> PgCommands("pg 3", 3).disable]]
pfc_init(dynamic) ==
  Lasting({Dynamic(dynamic), Traffic},
          [bcmsdk_mmu_init |-> BestEffort(Promising(Does({}, bcmsdk_mmu_init), {})),
           bcmsdk_setup_rx_pfc_to_voqs |-> Does({}, bcmsk_setup_rx_pfc_to_voqs),
           bcmsdk_mmu_initialize_port |->
             Promising(Does({}, bcmsdk_mmu_initialize_all_ports),
                       {Port("port", kind) : kind \in {"PGProperties", "IntPriToPGMap", "Pfc"}}),
           bcmsdk_pfc_port_pg_dump |-> Does({}, bcmsdk_pfc_port_pg_dump)])
PfcAll(dynamic, script) ==
  LET test == Promising(Does({}, script), {Profile("rx pfc"), Port("port", "IntPriToPGMap")})
  IN  Lasting({Dynamic(dynamic), Port("port", "pause frames")},
              [test_start |-> IF dynamic = "Conditional" THEN BestEffort(test) ELSE test,
               setup_thdi_attrs |-> Promising(Does({}, setup_thdi_attrs), {}),
               tx |-> Does({}, pfc_port_enable("PFCTransmit", TRUE)),
               no_tx |-> Does({}, pfc_port_enable("PFCTransmit", FALSE)),
               rx |-> Does({}, pfc_port_enable("PFCReceive", TRUE))])
pfc_all(dynamic) == PfcAll(dynamic, test_start)
pfc_all_v2(dynamic) == PfcAll(dynamic, v2_test_start)
=============================================================================
