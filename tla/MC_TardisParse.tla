--------------------------- MODULE MC_TardisParse ---------------------------
(***************************************************************************)
(* TardisParse for TLC.                                                    *)
(*                                                                         *)
(* Bar specs: every string of up to 5 characters over an alphabet         *)
(* with the separator, digits, the letters of "ms", "s", "m" and "vol" and *)
(* one other letter, so that each failure mode and each reachable unit     *)
(* occurs, in the last segment and in earlier ones.  usize is UsizeBits    *)
(* wide so that a two-digit step overflows it.  u64 is U64Bits wide and    *)
(* the timestamps are those the caller may pass (spec 4.3: value_us * 1000 *)
(* fits), up to the largest.  The side strings and book cases are those of *)
(* the tests in parse.rs.  Three exchanges, two of which share a venue as  *)
(* huobi-dm and huobi-dm-swap do.                                          *)
(***************************************************************************)
EXTENDS TardisParse

CONSTANTS Bitmex, HuobiDm, HuobiDmSwap

MC_Char == {"_", "0", "1", "9", "m", "s", "v", "o", "l", "x"}
\* The "ticks" unit needs six characters: every string of up to six over
\* its letters, the separator and a digit, so "1ticks", its prefixes and
\* other suffixes of its letters occur.
MC_TicksChar == {"_", "1", "t", "i", "c", "k", "s"}

MC_BarSpecShapes == {[chars |-> MC_Char, len |-> 5], [chars |-> MC_TicksChar, len |-> 6]}

MC_Exchange == {Bitmex, HuobiDm, HuobiDmSwap}
MC_VenueOf == (Bitmex :> "BITMEX") @@ (HuobiDm :> "HUOBI") @@ (HuobiDmSwap :> "HUOBI")
MC_Symbols == {<<>>, <<"x", "1">>, <<"X", "1">>, <<"x", "_", "m">>}
MC_SideTexts == {"bid", "ask", "buy", "sell", "unknown", "", "random", "BID"}
MC_Amounts == {0, 10}

=============================================================================
