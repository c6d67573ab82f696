---------------------------- MODULE MCBlockTreeDB ----------------------------
(***************************************************************************)
(* Model-checking instance of BlockTreeDB: three block hashes, so that a   *)
(* child can sort before its parent, and two block files.                  *)
(***************************************************************************)
EXTENDS BlockTreeDB
=============================================================================
