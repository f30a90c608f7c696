---------------------------- MODULE MCPoaBlocks -----------------------------
(***************************************************************************)
(* Two validators are enough for one to be looked for past the other and   *)
(* for one to be removed; two transactions, for a change before a lookup   *)
(* in one block.                                                           *)
(***************************************************************************)
EXTENDS PoaBlocks

MCValidators == <<"v1", "v2">>
=============================================================================
