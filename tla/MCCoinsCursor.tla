---------------------------- MODULE MCCoinsCursor ----------------------------
(* Two outpoints in key order o1 < o2, one coin content, two blocks.      *)
EXTENDS CoinsCursor

CONSTANTS o1, o2, c1, b1, b2

MCOutpoints == {o1, o2}
MCCoins == {c1}
MCBlocks == {b1, b2}
MCCoinOrder == <<o1, o2>>

\* The cursor never reads the overlay: this run keeps it empty.
MCLoadedCoin == {}
=============================================================================
