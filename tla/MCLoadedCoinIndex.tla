------------------------- MODULE MCLoadedCoinIndex -------------------------
(* Two outpoints and one coin content, so that two records of one file can *)
(* name the same outpoint; the batch length is cut from 4000000 to 2 so a  *)
(* file of three records spans a full batch and a partial one.             *)
EXTENDS LoadedCoinIndex

CONSTANTS o1, o2, c1

MCOutpoints == {o1, o2}
MCCoins == {c1}
=============================================================================
