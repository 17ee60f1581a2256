----------------------------- MODULE MCSessions -----------------------------
(* Small instances of the sessions for TLC: an admin and a regular user.   *)
EXTENDS Sessions, TLC

CONSTANTS admin, owner, e1, e2, e3, w1, w2, h1, h2, b1, b2

MCEmail    == [u \in Users |-> IF u = admin THEN e1 ELSE e2]
MCPassword == [u \in Users |-> IF u = admin THEN w1 ELSE w2]

BrowserSymmetry == Permutations(Browsers)
=============================================================================
