------------------------ MODULE MC_FuturesInstrument ------------------------
(***************************************************************************)
(* FuturesInstrument for TLC.  The constructor arguments are those of      *)
(* MC_FuturesContract.  MC_ForeignJson is a contract object written by     *)
(* another producer whose price_precision (0) disagrees with the precision *)
(* of its price increment (2): new_checked rejects exactly this.           *)
(***************************************************************************)
EXTENDS FuturesInstrument, TLC

MC_Raws == {0, 25}

MC_ForeignJson ==
    { [id |-> CHOOSE i \in Ids : TRUE, exchange |-> Code, underlying |-> Code,
       price_precision |-> 0, price_increment |-> [raw |-> 25, precision |-> 2],
       size_precision |-> 0, size_increment |-> 1, margin_init |-> 0,
       margin_maint |-> 0, min_quantity |-> 1] }

==============================================================================
