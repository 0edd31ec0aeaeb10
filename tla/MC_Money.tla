------------------------------ MODULE MC_Money ------------------------------
(***************************************************************************)
(* Money at a scale TLC can enumerate: a 6-bit raw read at one decimal     *)
(* digit, so MONEY_MAX = 31 \div 10 = 3 and, as with the i64 bound of the  *)
(* code, a whole amount at MONEY_MAX leaves less than one unit of headroom *)
(* below the raw limit.  CcyWhole has precision 0 (a JPY-like currency),  *)
(* CcyFine has the full FIXED_PRECISION (a currency with 9 digits in the   *)
(* code), so its ticks are single raw units.                               *)
(***************************************************************************)
EXTENDS Money, TLC

CONSTANTS CcyWhole, CcyFine

MC_Currency == {CcyWhole, CcyFine}
MC_Precision == [c \in MC_Currency |-> IF c = CcyWhole THEN 0 ELSE FIXED_PRECISION]

\* -3 and 3 are MONEY_MIN and MONEY_MAX, 3.1 is just out of range, 0.5 is
\* a rounding tie at precision 0, -0.2 and 0.7 are sub-unit amounts that
\* round toward and away from zero at precision 0.
MC_Amounts == {Int2Rat(-3), Rat(-2, 10), Rat(7, 10), Rat(5, 10),
               Int2Rat(3), Rat(31, 10)}

\* Raw values of valid Money, as a trusted deserialiser would pass them.
MC_RawInputs == [c \in MC_Currency |-> IF c = CcyWhole THEN {20} ELSE {7}]

\* No action reads `last`: it only records what the call returned, for the
\* action properties of the step that writes it.  States that differ only
\* in it have the same successors, so they are explored once.
MC_View == <<held, build>>

\* Right operands of the f64 operators: a negative whole number and a
\* binary fraction, exact in every float width.
MC_ScalarInputs == {Int2Rat(-2), Rat(1, 2)}

MC_Symmetry == Permutations(Slots)
=============================================================================
