----------------------------- MODULE MCBondFwd -----------------------------
(* Two slaves, two writers.                                                *)
EXTENDS BondFwd

=============================================================================
