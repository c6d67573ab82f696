------------------------------ MODULE MCUpgrade ------------------------------
(***************************************************************************)
(* Model-checking instance of Upgrade: three legacy records of up to two   *)
(* outputs, so that a batch boundary can fall inside the table and a       *)
(* record can convert to zero, one or two coins.                           *)
(***************************************************************************)
EXTENDS Upgrade

CONSTANTS v1

MCValues == {v1}
=============================================================================
