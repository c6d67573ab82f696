--------------------------- MODULE MCLegacyCoins ---------------------------
(* Every legacy record of up to twelve outputs and two heights.           *)
EXTENDS LegacyCoins
=============================================================================
