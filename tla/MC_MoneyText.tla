---------------------------- MODULE MC_MoneyText ----------------------------
(***************************************************************************)
(* MoneyText at the scale of MC_Money, with 5-bit floats.  What decides   *)
(* the round trip is whether a float near amount v still resolves half a  *)
(* tick of the currency: v * 2^-FloatBits < 10^-p / 2.  With f64 and       *)
(* precision 9 that holds below about 4.5e6 of MONEY_MAX = 9.2e9; with 5   *)
(* bits and precision 1 below about 1.6 of MONEY_MAX = 3.  A precision-0   *)
(* currency resolves its ticks over the whole range in both.               *)
(***************************************************************************)
EXTENDS MoneyText, TLC

CONSTANTS CcyWhole, CcyFine

MC_Precision == [c \in Currency |-> IF c = CcyWhole THEN 0 ELSE FIXED_PRECISION]

MC_Amounts == {Int2Rat(-3), Rat(-2, 10), Rat(1, 10), Rat(5, 10),
               Int2Rat(3), Rat(31, 10)}

\* Amounts whose sums stay in [MONEY_MIN, MONEY_MAX]: the multiples of
\* 0.3 from -3 to 3 (every tenth occurs) and 3 more or less than them; a
\* sum beyond overflows the raw.  A failed round trip is then due to the
\* float alone.
MC_AmountsInRange == {Int2Rat(-3), Rat(3, 10), Int2Rat(3)}

MC_RawInputs == [c \in Currency |-> IF c = CcyWhole THEN {20} ELSE {6}]

\* The texts of the from_str tests of money.rs ("0USD", "0x00 USD",
\* "0 US", "0 USD USD"), a valid "0.3", and an amount above MONEY_MAX.
\* The currency the texts name: the run's one currency.
TextCcy == CHOOSE c \in Currency : TRUE

MC_ForeignTexts ==
    { <<Numeral(0, 0)>>,
      <<Junk, TextCcy>>,
      <<Numeral(0, 0), UnknownCode>>,
      <<Numeral(0, 0), TextCcy, TextCcy>>,
      <<Numeral(3, 1), TextCcy>>,
      <<Numeral(31, 1), TextCcy>> }

\* No action reads `last`: it only records what the call returned, for the
\* properties of the step that writes it.  States that differ only in it
\* have the same successors, so the round-trip run explores them once.
MC_TextView == <<held, build, wire>>

MC_Symmetry == Permutations(Slots)
=============================================================================
