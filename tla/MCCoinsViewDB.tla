---------------------------- MODULE MCCoinsViewDB ----------------------------
(***************************************************************************)
(* Model-checking instance of CoinsViewDB: two outpoints so that a crash   *)
(* can fall between their writes, two coin contents so that a write       *)
(* changes a coin, two blocks so that old and new tips differ.             *)
(***************************************************************************)
EXTENDS CoinsViewDB

CONSTANTS o1, o2, c1, c2, b1, b2

MCOutpoints == {o1, o2}
MCCoins == {c1}
MCBlocks == {b1, b2}
=============================================================================
