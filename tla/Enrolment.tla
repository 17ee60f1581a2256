----------------------------- MODULE Enrolment ------------------------------
(* What an invitation promises, in one step: the account it announces, for *)
(* its email and role, once, and only while nobody has that email.         *)
CONSTANTS Ids, Emails, Roles

VARIABLES open,      \* invitations nobody has used: set of [id, email, role]
          accounts   \* [from, email, role] of the accounts made from them

Offer == [id: Ids, email: Emails, role: Roles]
Account == [from: Ids, email: Emails, role: Roles]

TakenEmails == {a.email : a \in accounts}

Invite ==
  \E i \in Ids, e \in Emails, r \in Roles :
    /\ \A o \in open : o.id # i
    /\ \A a \in accounts : a.from # i
    /\ open' = open \cup {[id |-> i, email |-> e, role |-> r]}
    /\ UNCHANGED accounts

Enrol ==
  \E o \in open :
    /\ o.email \notin TakenEmails
    /\ open' = open \ {o}
    /\ accounts' = accounts \cup {[from |-> o.id, email |-> o.email, role |-> o.role]}

Rename ==
  \E a \in accounts, e \in Emails \ TakenEmails :
    /\ accounts' = (accounts \ {a}) \cup {[a EXCEPT !.email = e]}
    /\ UNCHANGED open

EnrolmentInit == open = {} /\ accounts = {}

EnrolmentNext == Invite \/ Enrol \/ Rename

EnrolmentSpec == EnrolmentInit /\ [][EnrolmentNext]_<<open, accounts>>
=============================================================================
