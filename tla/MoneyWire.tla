----------------------------- MODULE MoneyWire -----------------------------
(***************************************************************************)
(* What serialising Money promises (spec 6, 8): a Money written to the     *)
(* wire comes back, in order, as the same Money.  The caller's own         *)
(* arithmetic on its slots is any change of `held` that leaves the wire    *)
(* alone.                                                                  *)
(***************************************************************************)
EXTENDS Naturals, Sequences

CONSTANTS Slots, MoneyValue, NoMoney, MaxWire

VARIABLES held, wire

Local ==
    /\ held' \in [Slots -> MoneyValue \cup {NoMoney}]
    /\ UNCHANGED wire

Send(s) ==
    /\ held[s] # NoMoney
    /\ Len(wire) < MaxWire
    /\ wire' = Append(wire, held[s])
    /\ UNCHANGED held

Receive(d) ==
    /\ wire # <<>>
    /\ held' = [held EXCEPT ![d] = Head(wire)]
    /\ wire' = Tail(wire)

Init == held = [s \in Slots |-> NoMoney] /\ wire = <<>>

Next == Local \/ \E s \in Slots : Send(s) \/ Receive(s)

Spec == Init /\ [][Next]_<<held, wire>>
=============================================================================
