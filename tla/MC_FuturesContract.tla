------------------------- MODULE MC_FuturesContract -------------------------
(***************************************************************************)
(* FuturesContract for TLC: one id, every class of string, two          *)
(* precisions, a zero and a positive increment, and each optional argument *)
(* given or omitted, so that every check fails alone and together with     *)
(* the checks after it.                                                    *)
(***************************************************************************)
EXTENDS FuturesContract, TLC

MC_Raws == {0, 25}


=============================================================================
