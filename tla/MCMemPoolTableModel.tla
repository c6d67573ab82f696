------------------------ MODULE MCMemPoolTableModel ------------------------
(* Five transactions, InfoRecent(2) for InfoRecent(10) and a table of four *)
(* rows for fifty: two entries can be new at one update, and a table that *)
(* is full can receive two more rows.                                     *)
EXTENDS MemPoolTableModel
=============================================================================
