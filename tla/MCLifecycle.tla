----------------------------- MODULE MCLifecycle -----------------------------
(* Small instances of the booking engine with its activities and dogs.     *)
EXTENDS LifecycleProperties, TLC

CONSTANTS a1, a2, d1, d2, p1, u1

MCOwner  == [d \in Dogs |-> u1]
MCPayer  == [p \in Passes |-> u1]
TwoSessions == [p \in Passes |-> 2]

(* Activities at hour 1, over from hour 2 on when they last one hour.      *)
GroupOf2  == [a \in Activities |->
                [date |-> 1, cap |-> 2, closed |-> FALSE, only |-> NoRow]]
ClassOfD1 == [a \in Activities |-> [GroupOf2[a] EXCEPT !.only = d1]]
GroupAndClass == [a \in Activities |-> IF a = a2 THEN ClassOfD1[a] ELSE GroupOf2[a]]
(* An activity whose time has come and gone when the run starts.           *)
Finished  == [a \in Activities |-> [GroupOf2[a] EXCEPT !.date = -2]]
NeverExpires == [p \in Passes |-> 9]

NoPairs  == {}
AllSizes == Dogs \X Activities
NoCaps   == {}
JustOne  == {1}
NoDates  == {}
PastOrNow == {-1, 1}

TxSymmetry == Permutations(Txs)
=============================================================================
