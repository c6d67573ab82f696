-------------------------- MODULE MCMyLoadedCoins --------------------------
(* Two outpoints, one coin content: four distinct records, vectors of up  *)
(* to two of them.                                                        *)
EXTENDS MyLoadedCoins

CONSTANTS o1, o2, c1

MCOutpoints == {o1, o2}
MCCoins == {c1}
=============================================================================
