----------------------------- MODULE MCPfcPort -----------------------------
(* Instances of PfcPort for TLC.                                           *)
EXTENDS PfcPort, TLC

(* Attributes of every kind the SDK reports, but no Fixed one.             *)
MixedDynamic ==
  ("PGMin" :> "Flexible") @@ ("PGHeadroom" :> "Conditional") @@ ("PGShared" :> "Flexible")
    @@ ("PGProperties" :> "Conditional") @@ ("IntPriToPGMap" :> "Flexible")
    @@ ("Pfc" :> "Conditional")
============================================================================
