----------------------------- MODULE MCBooking ------------------------------
(* Small instances of the booking engine for TLC.                          *)
EXTENDS BookingInvariant, TLC

CONSTANTS a1, d1, d2, d3, p1, p2, u1, u2

MCOwner    == [d \in Dogs |-> IF d = d3 THEN u2 ELSE u1]
MCPayer    == [p \in Passes |-> IF p = p2 THEN u2 ELSE u1]
OneSession  == [p \in Passes |-> 1]
TwoSessions == [p \in Passes |-> 2]

(* One group activity at hour 2; late from hour 1 on, over from hour 3 on. *)
GroupOf2 == [a \in Activities |->
               [date |-> 2, cap |-> 2, closed |-> FALSE, only |-> NoRow]]
GroupOf1 == [a \in Activities |-> [GroupOf2[a] EXCEPT !.cap = 1]]
ClassOfD1 == [a \in Activities |-> [GroupOf2[a] EXCEPT !.only = d1]]

NeverExpires == [p \in Passes |-> 4]
ExpiresFirst == [p \in Passes |-> 0]

NoPairs == {}
D1D2 == {<<d1, d2>>, <<d2, d1>>}
D1D3 == {<<d1, d3>>, <<d3, d1>>}
AllSizes == Dogs \X Activities
NotD2 == (Dogs \ {d2}) \X Activities

TxSymmetry == Permutations(Txs)
=============================================================================
