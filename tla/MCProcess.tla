----------------------------- MODULE MCProcess ------------------------------
(* The two processes of the system, the server and the page in a browser,  *)
(* for TLC. They share no state: one of them moves in a behaviour.         *)
EXTENDS Server, RefreshClient

VARIABLE moving    \* "server" or "page"

ProcessInit == moving \in {"server", "page"} /\ ServerInit /\ Init

ProcessNext ==
  \/ moving = "server" /\ ServerNext /\ UNCHANGED <<moving, vars>>
  \/ moving = "page" /\ Next /\ UNCHANGED <<moving, serverVars>>

(* The fairness of the one that moves.                                     *)
ProcessSpec ==
  /\ ProcessInit /\ [][ProcessNext]_<<moving, serverVars, vars>>
  /\ moving = "server" => ServerFairness
  /\ moving = "page" => Fairness

(* Type invariant of the two.                                              *)
ProcessTypeOK == ServerTypeOK /\ ClientTypeOK
=============================================================================
