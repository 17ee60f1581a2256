--------------------------- MODULE FrontDoorProofs ---------------------------
(***************************************************************************)
(* What holds at the front door, for any settings and any number of        *)
(* invitations, handlers, addresses and emails, crashes and cancellations  *)
(* included: an invitation makes one account, an email has one account,    *)
(* and the transaction implements Enrolment, which does it in one step;    *)
(* the burst of an address is bounded, and the lockout's threshold is      *)
(* passed by parallel attempts alone.                                      *)
(***************************************************************************)
EXTENDS MCFrontDoor, FiniteSetTheorems, WellFoundedInduction, TLAPS

-----------------------------------------------------------------------------
(* The registration                                                        *)

Steps == {"idle", "lock", "create", "accept", "commit", "issue"}
InTx == {"create", "accept", "commit"}

Ask == [id: Ids, now: Nat]

(* In its transaction a handler has the invitation's row to itself, so     *)
(* that the copy in memory is the committed row, but for its own change;   *)
(* the row it has inserted is the account the invitation announces.        *)
Working(t) ==
  LET i == req[t].id
      row == invitations[i]
  IN  /\ pc[t] # "idle" => req[t] \in Ask
      /\ pc[t] \in {"lock", "issue"} => inv[t] = None
      /\ pc[t] \in InTx =>
           /\ holder[i] = t /\ row \in Invitation /\ row.status = "PENDING"
           /\ inv[t] = IF pc[t] = "commit" THEN [row EXCEPT !.status = "ACCEPTED"] ELSE row
      /\ pc[t] \in {"accept", "commit"} =>
           inserted[t] = [email |-> row.email, role |-> row.role, from |-> i]

(* The unique index, with the rows that are not committed yet.             *)
InsertedApart ==
  /\ \A s, t \in Handlers :
       (inserted[s] # None /\ inserted[t] # None /\ inserted[s].email = inserted[t].email)
         => s = t
  /\ \A t \in Handlers : inserted[t] # None => ~EmailTaken(inserted[t].email)

TablesTyped ==
  /\ invitations \in [Ids -> Invitation \cup {None}] /\ users \in Seq(User)
  /\ holder \in [Ids -> Handlers \cup {None}] /\ clock \in Nat

HandlersTyped ==
  /\ pc \in [Handlers -> Steps] /\ req \in [Handlers -> Ask \cup {None}]
  /\ inv \in [Handlers -> Invitation \cup {None}]
  /\ inserted \in [Handlers -> User \cup {None}]

Resting(t) == pc[t] = "idle" => req[t] = None /\ inv[t] = None

Registration ==
  /\ TablesTyped /\ HandlersTyped
  /\ \A t \in Handlers : Resting(t) /\ Working(t)
  /\ InsertedApart /\ InvitationUsedOnce /\ OneAccountPerEmail

LEMMA RegistrationTyped == Registration => InvitationsTypeOK
BY DEF Registration, TablesTyped, HandlersTyped, Resting, InvitationsTypeOK, Steps, Ask

LEMMA InitialRegistration == Init => Registration
<1> SUFFICES ASSUME Init PROVE Registration
  OBVIOUS
<1>1. users \in Seq(User) /\ DOMAIN users = {}
  BY DEF Init
<1>2. TablesTyped /\ HandlersTyped
  BY <1>1 DEF Init, TablesTyped, HandlersTyped, Steps
<1>3. \A t \in Handlers : Resting(t) /\ Working(t)
  BY DEF Init, Resting, Working, InTx
<1>4. InsertedApart
  BY DEF Init, InsertedApart
<1>5. InvitationUsedOnce /\ OneAccountPerEmail
  BY <1>1 DEF Init, InvitationUsedOnce, OneAccountPerEmail
<1> QED
  BY <1>2, <1>3, <1>4, <1>5 DEF Registration

-----------------------------------------------------------------------------
(* Steps of one handler                                                    *)

(* Nothing of another handler changes, and no row lock but t's own.        *)
OthersRest(t) ==
  /\ \A x \in Handlers \ {t} :
       pc'[x] = pc[x] /\ req'[x] = req[x] /\ inv'[x] = inv[x] /\ inserted'[x] = inserted[x]
  /\ \A i \in Ids : holder[i] \notin {None, t} => holder'[i] = holder[i]

(* A step that commits nothing and inserts at most a row that is apart.    *)
LEMMA QuietStep ==
  ASSUME NEW t \in Handlers, Registration, OthersRest(t), UNCHANGED <<invitations, users>>,
         TablesTyped', HandlersTyped', Resting(t)', Working(t)',
         inserted'[t] \in {None, inserted[t]}
           \/ (~EmailTaken(inserted'[t].email) /\ ~EmailAwaited(inserted'[t].email, t))
  PROVE  Registration'
<1>1. ASSUME NEW x \in Handlers \ {t} PROVE Resting(x)' /\ Working(x)'
  <2>1. /\ pc'[x] = pc[x] /\ req'[x] = req[x] /\ inv'[x] = inv[x]
        /\ inserted'[x] = inserted[x] /\ Resting(x) /\ Working(x)
    BY DEF OthersRest, Registration
  <2>2. pc[x] \in InTx => holder'[req[x].id] = x
    BY <2>1, InvitationAssumption DEF Working, OthersRest, InTx, Ask
  <2> QED
    BY <2>1, <2>2 DEF Resting, Working
<1>2. InsertedApart'
  BY DEF InsertedApart, Registration, EmailTaken, EmailAwaited, OthersRest
<1>3. InvitationUsedOnce' /\ OneAccountPerEmail'
  BY DEF InvitationUsedOnce, OneAccountPerEmail, Registration
<1> QED
  BY <1>1, <1>2, <1>3 DEF Registration

(* The end of a transaction frees its row, and no other.                   *)
LEMMA Ended ==
  ASSUME NEW t \in Handlers, Registration, NEW step \in Steps, EndTx(t, step),
         UNCHANGED req \/ Done(t)
  PROVE  /\ OthersRest(t) /\ HandlersTyped' /\ holder' \in [Ids -> Handlers \cup {None}]
         /\ pc'[t] = step /\ inv'[t] = None /\ inserted'[t] = None
BY DEF EndTx, Done, Goto, OthersRest, Registration, HandlersTyped, TablesTyped

LEMMA RollbackPreserves ==
  ASSUME NEW t \in Handlers, Registration, Rollback(t) PROVE Registration'
<1>1. "idle" \in Steps
  BY DEF Steps
<1>2. /\ OthersRest(t) /\ HandlersTyped' /\ holder' \in [Ids -> Handlers \cup {None}]
      /\ pc'[t] = "idle" /\ inv'[t] = None /\ inserted'[t] = None
  BY <1>1, Ended DEF Rollback
<1>3. req'[t] = None /\ TablesTyped' /\ UNCHANGED <<invitations, users>>
  BY <1>2 DEF Rollback, Done, Registration, HandlersTyped, TablesTyped
<1>4. Resting(t)' /\ Working(t)'
  BY <1>2, <1>3 DEF Resting, Working, InTx
<1> QED
  BY <1>2, <1>3, <1>4, QuietStep

LEMMA RegisterPreserves ==
  ASSUME NEW t \in Handlers, NEW i \in Ids, Registration, Register(t, i)
  PROVE  Registration'
<1>1. [id |-> i, now |-> clock] \in Ask
  BY DEF Registration, TablesTyped, Ask
<1>2. /\ OthersRest(t) /\ HandlersTyped' /\ TablesTyped' /\ UNCHANGED <<invitations, users>>
      /\ pc'[t] = "lock" /\ req'[t] \in Ask /\ inv'[t] = None /\ inserted'[t] = inserted[t]
  BY <1>1 DEF Register, Goto, OthersRest, Registration, HandlersTyped, TablesTyped, Steps,
              Resting
<1>3. Resting(t)' /\ Working(t)'
  BY <1>2 DEF Resting, Working, InTx
<1> QED
  BY <1>2, <1>3, QuietStep

LEMMA LockPreserves ==
  ASSUME NEW t \in Handlers, Registration, GetByTokenForUpdate(t) PROVE Registration'
<1> DEFINE i == req[t].id
<1>1. i \in Ids /\ pc[t] = "lock" /\ req[t] \in Ask
  BY DEF GetByTokenForUpdate, Registration, Working, Ask
<1>2. CASE Rollback(t)
  BY <1>2, RollbackPreserves
<1>3. CASE ~Rollback(t)
  <2>1. /\ holder[i] = None /\ Usable(i, req[t].now)
        /\ holder' = [holder EXCEPT ![i] = t] /\ inv' = [inv EXCEPT ![t] = invitations[i]]
        /\ pc' = [pc EXCEPT ![t] = "create"]
        /\ UNCHANGED <<invitations, users, req, inserted, clock>>
    BY <1>3 DEF GetByTokenForUpdate, Goto
  <2>2. invitations[i] \in Invitation /\ invitations[i].status = "PENDING"
    BY <1>1, <2>1 DEF Usable, CanBeUsed, Registration, TablesTyped
  <2> HIDE DEF i
  <2>3. OthersRest(t) /\ TablesTyped' /\ HandlersTyped'
    BY <1>1, <2>1, <2>2 DEF OthersRest, Registration, TablesTyped, HandlersTyped, Steps
  <2>4. /\ pc'[t] = "create" /\ req'[t] = req[t] /\ inv'[t] = invitations[i]
        /\ holder'[i] = t /\ invitations'[i] = invitations[i]
    BY <1>1, <2>1 DEF Registration, TablesTyped, HandlersTyped
  <2>5. Resting(t)' /\ Working(t)'
    BY <1>1, <2>2, <2>4 DEF Resting, Working, InTx, i
  <2> QED
    BY <2>1, <2>3, <2>5, QuietStep
<1> QED
  BY <1>2, <1>3

LEMMA CreatePreserves ==
  ASSUME NEW t \in Handlers, Registration, CreateUser(t) PROVE Registration'
<1> DEFINE i == req[t].id
           row == invitations[i]
           new == [email |-> row.email, role |-> row.role, from |-> i]
<1>1. /\ i \in Ids /\ pc[t] = "create" /\ req[t] \in Ask /\ holder[i] = t
      /\ row \in Invitation /\ row.status = "PENDING" /\ inv[t] = row
  BY DEF CreateUser, Registration, Working, Ask, InTx
<1>2. CASE Rollback(t)
  BY <1>2, RollbackPreserves
<1>3. CASE ~Rollback(t)
  <2>1. /\ ~EmailTaken(new.email) /\ ~EmailAwaited(new.email, t)
        /\ inserted' = [inserted EXCEPT ![t] = new] /\ pc' = [pc EXCEPT ![t] = "accept"]
        /\ UNCHANGED <<invitations, users, holder, req, inv, clock>>
    BY <1>1, <1>3 DEF CreateUser, Goto
  <2>2. new \in User
    BY <1>1 DEF Invitation, User
  <2> HIDE DEF new
  <2>3. OthersRest(t) /\ TablesTyped' /\ HandlersTyped'
    BY <2>1, <2>2 DEF OthersRest, Registration, TablesTyped, HandlersTyped, Steps
  <2>4. pc'[t] = "accept" /\ inserted'[t] = new
    BY <2>1 DEF Registration, HandlersTyped
  <2>5. Resting(t)' /\ Working(t)'
    BY <1>1, <2>1, <2>4 DEF Resting, Working, InTx, new
  <2> QED
    BY <2>1, <2>3, <2>4, <2>5, QuietStep
<1> QED
  BY <1>2, <1>3

LEMMA AcceptPreserves ==
  ASSUME NEW t \in Handlers, Registration, Accept(t) PROVE Registration'
<1> DEFINE i == req[t].id
           row == invitations[i]
           new == [row EXCEPT !.status = "ACCEPTED"]
<1>1. /\ i \in Ids /\ pc[t] = "accept" /\ req[t] \in Ask /\ holder[i] = t
      /\ row \in Invitation /\ row.status = "PENDING" /\ inv[t] = row
      /\ inserted[t] = [email |-> row.email, role |-> row.role, from |-> i]
  BY DEF Accept, Registration, Working, Ask, InTx
<1>2. /\ inv' = [inv EXCEPT ![t] = new] /\ pc' = [pc EXCEPT ![t] = "commit"]
      /\ UNCHANGED <<invitations, users, holder, req, inserted, clock>>
  BY <1>1 DEF Accept, Goto
<1>3. new \in Invitation
  BY <1>1 DEF Invitation
<1> HIDE DEF new
<1>4. OthersRest(t) /\ TablesTyped' /\ HandlersTyped'
  BY <1>2, <1>3 DEF OthersRest, Registration, TablesTyped, HandlersTyped, Steps
<1>5. pc'[t] = "commit" /\ inv'[t] = new
  BY <1>2 DEF Registration, HandlersTyped
<1>6. Resting(t)' /\ Working(t)'
  BY <1>1, <1>2, <1>5 DEF Resting, Working, InTx, new
<1> QED
  BY <1>2, <1>4, <1>6, QuietStep

LEMMA IssuePreserves ==
  ASSUME NEW t \in Handlers, Registration, IssueTokens(t) PROVE Registration'
<1>1. /\ OthersRest(t) /\ TablesTyped' /\ HandlersTyped' /\ UNCHANGED <<invitations, users>>
      /\ pc'[t] = "idle" /\ req'[t] = None /\ inv'[t] = None /\ inserted'[t] = inserted[t]
  BY DEF IssueTokens, Goto, Done, OthersRest, Registration, TablesTyped, HandlersTyped, Steps,
         Working
<1>2. Resting(t)' /\ Working(t)'
  BY <1>1 DEF Resting, Working, InTx
<1> QED
  BY <1>1, <1>2, QuietStep

-----------------------------------------------------------------------------
(* What the COMMIT publishes: the account, and the invitation it used.     *)
LEMMA Published ==
  ASSUME NEW t \in Handlers, Registration, Commit(t)
  PROVE  LET i == req[t].id
             row == invitations[i]
             new == [email |-> row.email, role |-> row.role, from |-> i]
         IN  /\ i \in Ids /\ row \in Invitation /\ row.status = "PENDING" /\ holder[i] = t
             /\ new \in User /\ inserted[t] = new /\ ~EmailTaken(new.email)
             /\ [row EXCEPT !.status = "ACCEPTED"] \in Invitation
             /\ invitations' = [invitations EXCEPT ![i] = [row EXCEPT !.status = "ACCEPTED"]]
             /\ DOMAIN users = 1 .. Len(users) /\ Len(users) \in Nat
             /\ DOMAIN users' = DOMAIN users \cup {Len(users) + 1}
             /\ users' \in Seq(User) /\ users'[Len(users) + 1] = new
             /\ \A n \in DOMAIN users : users'[n] = users[n] /\ users[n] \in User
<1> DEFINE i == req[t].id
           row == invitations[i]
           new == [email |-> row.email, role |-> row.role, from |-> i]
<1>1. /\ pc[t] = "commit" /\ req[t] \in Ask /\ holder[i] = t
      /\ row \in Invitation /\ row.status = "PENDING"
      /\ inv[t] = [row EXCEPT !.status = "ACCEPTED"] /\ inserted[t] = new
  BY DEF Commit, Registration, Working, InTx
<1>2. i \in Ids
  BY <1>1 DEF Ask
<1>3. new \in User /\ [row EXCEPT !.status = "ACCEPTED"] \in Invitation
  BY <1>1, <1>2 DEF Invitation, User
<1>4. ~EmailTaken(new.email)
  BY <1>1, <1>3, InvitationAssumption DEF Registration, InsertedApart
<1>5. users \in Seq(User) /\ users' = Append(users, new)
      /\ invitations' = [invitations EXCEPT ![i] = [row EXCEPT !.status = "ACCEPTED"]]
  BY <1>1 DEF Commit, Registration, TablesTyped
<1> HIDE DEF new
<1>6. /\ DOMAIN users = 1 .. Len(users) /\ Len(users) \in Nat
      /\ DOMAIN users' = DOMAIN users \cup {Len(users) + 1}
      /\ users' \in Seq(User) /\ users'[Len(users) + 1] = new
      /\ \A n \in DOMAIN users : users'[n] = users[n] /\ users[n] \in User
  BY <1>3, <1>5
<1> QED
  BY <1>1, <1>2, <1>3, <1>4, <1>5, <1>6 DEF new

LEMMA CommitPreserves ==
  ASSUME NEW t \in Handlers, Registration, Commit(t) PROVE Registration'
<1> DEFINE i == req[t].id
           row == invitations[i]
           used == [row EXCEPT !.status = "ACCEPTED"]
           new == [email |-> row.email, role |-> row.role, from |-> i]
           last == Len(users) + 1
<1>1. /\ i \in Ids /\ row \in Invitation /\ row.status = "PENDING" /\ holder[i] = t
      /\ new \in User /\ inserted[t] = new /\ ~EmailTaken(new.email) /\ used \in Invitation
      /\ invitations' = [invitations EXCEPT ![i] = used]
      /\ DOMAIN users' = DOMAIN users \cup {last}
      /\ users' \in Seq(User) /\ users'[last] = new
      /\ \A n \in DOMAIN users : users'[n] = users[n] /\ users[n] \in User
  BY Published
<1>2. last \notin DOMAIN users
  <2>1. DOMAIN users = 1 .. Len(users) /\ Len(users) \in Nat
    BY Published
  <2> QED
    BY <2>1
<1>3. used.status = "ACCEPTED" /\ used.role = new.role /\ used # None /\ new # None
      /\ new.from = i
  BY <1>1, InvitationAssumption DEF Invitation
<1>4. "issue" \in Steps /\ EndTx(t, "issue") /\ UNCHANGED <<req, clock>>
  BY DEF Steps, Commit
<1> HIDE DEF used, new, last
<1>5. /\ OthersRest(t) /\ HandlersTyped' /\ holder' \in [Ids -> Handlers \cup {None}]
      /\ pc'[t] = "issue" /\ inv'[t] = None /\ inserted'[t] = None
  BY <1>4, Ended
<1>6. TablesTyped'
  BY <1>1, <1>4, <1>5 DEF Registration, TablesTyped
<1>7. ASSUME NEW x \in Handlers \ {t} PROVE Resting(x)' /\ Working(x)'
  <2>1. /\ pc'[x] = pc[x] /\ req'[x] = req[x] /\ inv'[x] = inv[x]
        /\ inserted'[x] = inserted[x] /\ Resting(x) /\ Working(x)
    BY <1>5 DEF OthersRest, Registration
  <2>2. CASE pc[x] \in InTx
    <3>1. req[x].id \in Ids /\ holder[req[x].id] = x
      BY <2>1, <2>2 DEF Working, Ask, InTx
    <3>2. req[x].id # i /\ holder'[req[x].id] = x
      BY <1>1, <1>5, <3>1, InvitationAssumption DEF OthersRest
    <3>3. invitations'[req[x].id] = invitations[req[x].id]
      BY <1>1, <3>1, <3>2 DEF Registration, TablesTyped
    <3> QED
      BY <2>1, <3>2, <3>3 DEF Resting, Working
  <2>3. CASE pc[x] \notin InTx
    BY <2>1, <2>3 DEF Resting, Working, InTx
  <2> QED
    BY <2>2, <2>3
<1>8. Resting(t)' /\ Working(t)'
  <2>1. req[t] \in Ask
    BY DEF Commit, Registration, Working
  <2> QED
    BY <1>4, <1>5, <2>1 DEF Resting, Working, InTx
<1>9. InsertedApart'
  <2>1. ASSUME NEW x \in Handlers, inserted'[x] # None
        PROVE  /\ x # t /\ inserted'[x] = inserted[x] /\ inserted[x].email # new.email
               /\ ~EmailTaken(inserted[x].email)
    BY <1>1, <1>3, <1>5, <2>1 DEF OthersRest, Registration, InsertedApart
  <2>2. ASSUME NEW e, ~EmailTaken(e), e # new.email PROVE ~EmailTaken(e)'
    BY <1>1, <2>2 DEF EmailTaken
  <2>3. ASSUME NEW x \in Handlers, inserted'[x] # None PROVE ~EmailTaken(inserted[x].email)'
    <3>1. /\ inserted'[x] = inserted[x] /\ inserted[x].email # new.email
          /\ ~EmailTaken(inserted[x].email)
      BY <2>1, <2>3
    <3>2. \A n \in DOMAIN users' : users'[n].email # inserted[x].email
      BY <2>2, <3>1 DEF EmailTaken
    <3> QED
      BY <3>1, <3>2 DEF EmailTaken
  <2>4. \A s, x \in Handlers :
          (inserted'[s] # None /\ inserted'[x] # None /\ inserted'[s].email = inserted'[x].email)
            => s = x
    BY <2>1 DEF Registration, InsertedApart
  <2> QED
    BY <2>3, <2>4 DEF InsertedApart
<1>10. InvitationUsedOnce'
  <2>1. \A n \in DOMAIN users : users[n].from # i
    BY <1>1 DEF Registration, InvitationUsedOnce
  <2>2. \A m, n \in DOMAIN users' : users'[m].from = users'[n].from => m = n
    BY <1>1, <1>3, <1>2, <2>1 DEF Registration, InvitationUsedOnce
  <2>3. ASSUME NEW n \in DOMAIN users'
        PROVE  LET r == invitations'[users'[n].from]
               IN  r # None /\ r.status = "ACCEPTED" /\ r.role = users'[n].role
    <3>1. CASE n = last
      BY <1>1, <1>3, <3>1 DEF Registration, TablesTyped
    <3>2. CASE n # last
      <4>1. users'[n] = users[n] /\ users[n].from \in Ids \ {i} /\ n \in DOMAIN users
        BY <1>1, <2>1, <3>2 DEF User
      <4>2. invitations'[users[n].from] = invitations[users[n].from]
        BY <1>1, <4>1 DEF Registration, TablesTyped
      <4> QED
        BY <4>1, <4>2 DEF Registration, InvitationUsedOnce
    <3> QED
      BY <3>1, <3>2
  <2>4. ASSUME NEW j \in Ids, invitations'[j] # None, invitations'[j].status = "ACCEPTED"
        PROVE  \E n \in DOMAIN users' : users'[n].from = j
    <3>1. CASE j = i
      BY <1>1, <1>3, <3>1
    <3>2. CASE j # i
      <4>1. invitations'[j] = invitations[j]
        BY <1>1, <3>2 DEF Registration, TablesTyped
      <4>2. PICK n \in DOMAIN users : users[n].from = j
        BY <2>4, <4>1 DEF Registration, InvitationUsedOnce
      <4> QED
        BY <1>1, <4>2
    <3> QED
      BY <3>1, <3>2
  <2> QED
    BY <2>2, <2>3, <2>4 DEF InvitationUsedOnce
<1>11. OneAccountPerEmail'
  BY <1>1, <1>2 DEF OneAccountPerEmail, EmailTaken, Registration
<1> QED
  BY <1>5, <1>6, <1>7, <1>8, <1>9, <1>10, <1>11 DEF Registration

-----------------------------------------------------------------------------
(* Steps of the admin and of an account's owner                            *)

LEMMA InvitingPreserves ==
  ASSUME NEW i \in Ids, NEW e \in Emails, NEW r \in Roles, Registration, Create(i, e, r)
  PROVE  Registration'
<1> DEFINE new == [email |-> e, role |-> r, status |-> "PENDING",
                   expires |-> clock + Lifetime]
<1>1. new \in Invitation /\ new.status = "PENDING"
  BY InvitationAssumption DEF Invitation, Registration, TablesTyped
<1>2. invitations[i] = None /\ invitations' = [invitations EXCEPT ![i] = new]
      /\ UNCHANGED <<users, holder, pc, req, inv, inserted, clock>>
  BY DEF Create
<1> HIDE DEF new
<1>3. TablesTyped' /\ HandlersTyped'
  BY <1>1, <1>2 DEF Registration, TablesTyped, HandlersTyped
<1>4. \A j \in Ids : invitations[j] # None => invitations'[j] = invitations[j]
  BY <1>2 DEF Registration, TablesTyped
<1>5. invitations'[i] = new /\ \A j \in Ids \ {i} : invitations'[j] = invitations[j]
  BY <1>2 DEF Registration, TablesTyped
<1>6. ASSUME NEW x \in Handlers PROVE Resting(x)' /\ Working(x)'
  <2>1. Resting(x) /\ Working(x)
    BY DEF Registration
  <2>2. CASE pc[x] \in InTx
    <3>1. req[x].id \in Ids /\ invitations[req[x].id] \in Invitation
      BY <2>1, <2>2 DEF Working, Ask, InTx
    <3>2. invitations'[req[x].id] = invitations[req[x].id]
      BY <1>4, <3>1, InvitationAssumption
    <3> QED
      BY <1>2, <2>1, <3>2 DEF Resting, Working
  <2>3. CASE pc[x] \notin InTx
    BY <1>2, <2>1, <2>3 DEF Resting, Working, InTx
  <2> QED
    BY <2>2, <2>3
<1>7. InsertedApart'
  BY <1>2 DEF Registration, InsertedApart, EmailTaken
<1>8. InvitationUsedOnce'
  <2>1. \A n \in DOMAIN users : users[n].from \in Ids
    <3>1. users \in Seq(User)
      BY DEF Registration, TablesTyped
    <3>2. \A n \in DOMAIN users : users[n] \in User
      BY <3>1
    <3> QED
      BY <3>2 DEF User
  <2> QED
    BY <1>1, <1>2, <1>4, <1>5, <2>1 DEF Registration, InvitationUsedOnce
<1>9. OneAccountPerEmail'
  BY <1>2 DEF Registration, OneAccountPerEmail
<1> QED
  BY <1>3, <1>6, <1>7, <1>8, <1>9 DEF Registration

LEMMA Moved ==
  ASSUME NEW n \in DOMAIN users, NEW e \in Emails, Registration, UpdateEmail(n, e)
  PROVE  LET new == [users[n] EXCEPT !.email = e]
         IN  /\ users[n] \in User /\ new \in User /\ new.email = e
             /\ new.from = users[n].from /\ new.role = users[n].role
             /\ users' \in Seq(User) /\ DOMAIN users' = DOMAIN users /\ users'[n] = new
             /\ \A m \in DOMAIN users \ {n} : users'[m] = users[m] /\ users[m] \in User
<1> DEFINE new == [users[n] EXCEPT !.email = e]
<1>1. users \in Seq(User) /\ users' = [users EXCEPT ![n] = new]
  BY DEF UpdateEmail, Registration, TablesTyped
<1>2. users[n] \in User
  BY <1>1
<1>3. /\ new \in User /\ new.email = e
      /\ new.from = users[n].from /\ new.role = users[n].role
  BY <1>2 DEF User
<1> HIDE DEF new
<1>4. /\ users' \in Seq(User) /\ DOMAIN users' = DOMAIN users /\ users'[n] = new
      /\ \A m \in DOMAIN users \ {n} : users'[m] = users[m] /\ users[m] \in User
  BY <1>1, <1>3
<1> QED
  BY <1>2, <1>3, <1>4 DEF new

LEMMA MovingPreserves ==
  ASSUME NEW n \in DOMAIN users, NEW e \in Emails, Registration, UpdateEmail(n, e)
  PROVE  Registration'
<1> DEFINE new == [users[n] EXCEPT !.email = e]
<1>1. /\ users[n] \in User /\ new \in User /\ new.email = e
      /\ new.from = users[n].from /\ new.role = users[n].role
      /\ users' \in Seq(User) /\ DOMAIN users' = DOMAIN users /\ users'[n] = new
      /\ \A m \in DOMAIN users \ {n} : users'[m] = users[m] /\ users[m] \in User
  BY Moved
<1> HIDE DEF new
<1>2. /\ ~EmailTaken(e) /\ ~EmailAwaited(e, None)
      /\ UNCHANGED <<invitations, holder, pc, req, inv, inserted, clock>>
  BY DEF UpdateEmail
<1>3. TablesTyped' /\ HandlersTyped' /\ \A x \in Handlers : Resting(x)' /\ Working(x)'
  BY <1>1, <1>2 DEF Registration, TablesTyped, HandlersTyped, Resting, Working
<1>4. InsertedApart'
  <2>1. \A x \in Handlers : inserted[x] # None => inserted[x].email # e
    BY <1>2, InvitationAssumption DEF EmailAwaited
  <2>2. ASSUME NEW f, f # e, ~EmailTaken(f) PROVE ~EmailTaken(f)'
    BY <1>1, <2>2 DEF EmailTaken
  <2> QED
    BY <1>2, <2>1, <2>2 DEF Registration, InsertedApart, EmailTaken
<1>5. InvitationUsedOnce'
  BY <1>1, <1>2 DEF Registration, InvitationUsedOnce
<1>6. OneAccountPerEmail'
  BY <1>1, <1>2 DEF Registration, OneAccountPerEmail, EmailTaken
<1> QED
  BY <1>3, <1>4, <1>5, <1>6 DEF Registration

LEMMA RegistrationSteps == Registration /\ [Next]_vars => Registration'
<1> SUFFICES ASSUME Registration, [Next]_vars PROVE Registration'
  OBVIOUS
<1>1. CASE UNCHANGED vars
  BY <1>1 DEF vars, Registration, TablesTyped, HandlersTyped, Resting, Working, InsertedApart,
              EmailTaken, InvitationUsedOnce, OneAccountPerEmail
<1>2. ASSUME NEW t \in Handlers, Serves(t) \/ Abort(t) PROVE Registration'
  BY <1>2, LockPreserves, CreatePreserves, AcceptPreserves, CommitPreserves, IssuePreserves,
     RollbackPreserves
  DEF Serves, Abort
<1>3. CASE Tick
  BY <1>3 DEF Tick, Registration, TablesTyped, HandlersTyped, Resting, Working, InsertedApart,
              EmailTaken, InvitationUsedOnce, OneAccountPerEmail
<1> QED
  BY <1>1, <1>2, <1>3, RegisterPreserves, InvitingPreserves, MovingPreserves DEF Next

LEMMA RegistrationHolds == Spec => []Registration
BY InitialRegistration, RegistrationSteps, PTL DEF Spec

(* Tables, locks and what handlers hold stay typed.                        *)
THEOREM InvitationsTyped == Spec => []InvitationsTypeOK
BY RegistrationHolds, RegistrationTyped, PTL

(* InvitationUsedOnce: however many handlers present a token, and wherever *)
(* they are interrupted, there is one account of it or none, and the       *)
(* invitation is accepted exactly when there is one.                       *)
THEOREM UsedOnce == Spec => []InvitationUsedOnce
<1>1. Registration => InvitationUsedOnce
  BY DEF Registration
<1> QED
  BY <1>1, RegistrationHolds, PTL

(* OneAccountPerEmail: with several invitations of one email, and accounts *)
(* that move to an invited email.                                          *)
THEOREM EmailsUnique == Spec => []OneAccountPerEmail
<1>1. Registration => OneAccountPerEmail
  BY DEF Registration
<1> QED
  BY <1>1, RegistrationHolds, PTL

-----------------------------------------------------------------------------
(* The refinement                                                          *)

Opened == {[id |-> i, email |-> invitations[i].email, role |-> invitations[i].role] :
             i \in Open}
Accounts == {users[n] : n \in DOMAIN users}

LEMMA CommitEnrols ==
  ASSUME NEW t \in Handlers, Registration, Commit(t) PROVE Abstract!Enrol
<1> DEFINE i == req[t].id
           row == invitations[i]
           new == [email |-> row.email, role |-> row.role, from |-> i]
           o == [id |-> i, email |-> row.email, role |-> row.role]
           last == Len(users) + 1
<1>1. /\ i \in Ids /\ row \in Invitation /\ row.status = "PENDING" /\ ~EmailTaken(new.email)
      /\ invitations' = [invitations EXCEPT ![i] = [row EXCEPT !.status = "ACCEPTED"]]
      /\ DOMAIN users' = DOMAIN users \cup {last} /\ users'[last] = new
      /\ \A n \in DOMAIN users : users'[n] = users[n]
  BY Published
<1>2. row # None /\ [row EXCEPT !.status = "ACCEPTED"].status = "ACCEPTED"
  BY <1>1, InvitationAssumption DEF Invitation
<1>3. i \in Open /\ Open' = Open \ {i}
      /\ \A j \in Open \ {i} : invitations'[j] = invitations[j]
  BY <1>1, <1>2 DEF Open, Registration, TablesTyped
<1>4. o \in Opened /\ Opened' = Opened \ {o}
  BY <1>3 DEF Opened
<1>5. Accounts' = Accounts \cup {new}
  BY <1>1 DEF Accounts
<1>6. o.email \notin {a.email : a \in Accounts}
  BY <1>1 DEF EmailTaken, Accounts
<1>7. new = [from |-> o.id, email |-> o.email, role |-> o.role]
  OBVIOUS
<1> HIDE DEF o, new
<1> QED
  BY <1>4, <1>5, <1>6, <1>7 DEF Abstract!Enrol, Abstract!TakenEmails, Opened, Accounts

LEMMA CreateInvites ==
  ASSUME NEW i \in Ids, NEW e \in Emails, NEW r \in Roles, Registration, Create(i, e, r)
  PROVE  Abstract!Invite
<1> DEFINE new == [email |-> e, role |-> r, status |-> "PENDING",
                   expires |-> clock + Lifetime]
<1>1. new \in Invitation /\ new # None
  BY InvitationAssumption DEF Invitation, Registration, TablesTyped
<1>2. invitations[i] = None /\ invitations' = [invitations EXCEPT ![i] = new] /\ users' = users
  BY DEF Create
<1>3. new.status = "PENDING" /\ new.email = e /\ new.role = r
  OBVIOUS
<1> HIDE DEF new
<1>4. i \notin Open /\ Open' = Open \cup {i} /\ invitations'[i] = new
      /\ \A j \in Open : invitations'[j] = invitations[j]
  BY <1>1, <1>2, <1>3 DEF Open, Registration, TablesTyped
<1>5. Opened' = Opened \cup {[id |-> i, email |-> e, role |-> r]}
      /\ \A o \in Opened : o.id # i
  BY <1>3, <1>4 DEF Opened
<1>6. Accounts' = Accounts /\ \A a \in Accounts : a.from # i
  BY <1>2 DEF Accounts, Registration, InvitationUsedOnce
<1> QED
  BY <1>5, <1>6 DEF Abstract!Invite, Opened, Accounts

LEMMA MoveRenames ==
  ASSUME NEW n \in DOMAIN users, NEW e \in Emails, Registration, UpdateEmail(n, e)
  PROVE  Abstract!Rename
<1> DEFINE new == [users[n] EXCEPT !.email = e]
           a == users[n]
<1>1. /\ DOMAIN users' = DOMAIN users /\ users'[n] = new
      /\ \A m \in DOMAIN users \ {n} : users'[m] = users[m]
  BY Moved
<1>2. ~EmailTaken(e) /\ invitations' = invitations
  BY DEF UpdateEmail
<1>3. \A m \in DOMAIN users \ {n} : users[m] # a
  BY DEF Registration, InvitationUsedOnce
<1>4. a \in Accounts /\ e \notin {b.email : b \in Accounts}
  BY <1>2 DEF Accounts, EmailTaken
<1>5. new = [a EXCEPT !.email = e]
  OBVIOUS
<1> HIDE DEF new
<1>6. Accounts' = (Accounts \ {a}) \cup {new}
  BY <1>1, <1>3 DEF Accounts
<1>7. Opened' = Opened
  BY <1>2 DEF Opened, Open
<1> HIDE DEF a
<1> QED
  BY <1>4, <1>5, <1>6, <1>7 DEF Abstract!Rename, Abstract!TakenEmails, Opened, Accounts

(* ImplementsEnrolment: seen from the tables, the six statements of        *)
(* register_with_invitation.go are one step of Enrolment, the COMMIT, or   *)
(* none.                                                                   *)
THEOREM EnrolmentRefined == Spec => ImplementsEnrolment
<1>1. Init => Abstract!EnrolmentInit
  BY DEF Init, Abstract!EnrolmentInit, Open
<1>2. ASSUME UNCHANGED <<invitations, users>> PROVE UNCHANGED <<Opened, Accounts>>
  BY <1>2 DEF Opened, Accounts, Open
<1>3. ASSUME Registration, [Next]_vars
      PROVE  Abstract!EnrolmentNext \/ UNCHANGED <<Opened, Accounts>>
  <2>1. CASE UNCHANGED vars \/ Tick
    BY <1>2, <2>1 DEF vars, Tick
  <2>2. ASSUME NEW t \in Handlers,
               Abort(t) \/ (Serves(t) /\ ~Commit(t)) \/ \E i \in Ids : Register(t, i)
        PROVE  UNCHANGED <<invitations, users>>
    BY <2>2 DEF Abort, Rollback, Serves, GetByTokenForUpdate, CreateUser, Accept, IssueTokens,
                Register
  <2> QED
    BY <1>2, <1>3, <2>1, <2>2, CommitEnrols, CreateInvites, MoveRenames
    DEF Next, Serves, Abstract!EnrolmentNext
<1>4. Registration /\ [Next]_vars => [Abstract!EnrolmentNext]_<<Opened, Accounts>>
  BY <1>3
<1> QED
  BY <1>1, <1>4, RegistrationHolds, PTL
  DEF Spec, ImplementsEnrolment, Abstract!EnrolmentSpec, Opened, Accounts

-----------------------------------------------------------------------------
(* The token buckets                                                       *)

Allowed(k) == Rate * k

LEMMA AllowedGrows ==
  ASSUME NEW k \in Int
  PROVE  /\ Allowed(k) \in Int /\ Allowed(k + 1) = Allowed(k) + Rate
         /\ k >= 0 => Allowed(k) >= 0
BY LimiterAssumption DEF Allowed

(* Longer stretches allow more.                                            *)
LEMMA AllowedMonotone ==
  ASSUME NEW j \in Int, NEW k \in Int, j <= k
  PROVE  Allowed(j) <= Allowed(k)
BY LimiterAssumption DEF Allowed

LEMMA SpanFacts ==
  ASSUME NEW span \in Spans
  PROVE  /\ span \in Int /\ span > 0 /\ ~(span <= 0) /\ span - 1 \in Int
         /\ span - 1 - 0 = span - 1
         /\ Allowed(span - 1) \in Int /\ Allowed(span - 1) >= 0
<1>1. span \in Int /\ span > 0
  BY LimiterAssumption DEF Spans
<1> QED
  BY <1>1, AllowedGrows

LEMMA IdleFills == Allowed(Idle) >= Burst
BY LimiterAssumption DEF Allowed

(* What a bucket still holds counts against what its address was admitted. *)
(* A bucket that nobody has used for some ticks was not admitted anything  *)
(* in them, which is what makes its eviction harmless.                     *)
Fits(b, counts) ==
  /\ b.tokens <= Burst /\ b.last = Debt(b.tokens) /\ b.idle <= Idle
  /\ \A span \in Spans :
       /\ counts[span] + Larger(0, b.tokens) <= Burst + Allowed(span - 1)
       /\ IF span <= b.idle THEN counts[span] = 0
          ELSE counts[span] <= Burst + Allowed(span - 1 - b.idle)

(* An address without a bucket has a full one.                             *)
FitsFull(counts) == \A span \in Spans : counts[span] <= Allowed(span - 1)

AddressFits(i) ==
  IF limiters[i] = None THEN FitsFull(admitted[i]) ELSE Fits(limiters[i], admitted[i])

(* A reservation that can still be returned is one of those that make up   *)
(* the debt, or the debt is paid this very moment and one more token is    *)
(* due to nobody.                                                          *)
Returnable(t) == cancelling[t] # None /\ cancelling[t].debt # Passed

Spare(counts) == \A span \in Spans : counts[span] + 1 <= Burst + Allowed(span - 1)

ReservedAt(b, counts, debt) ==
  b # None /\ debt <= 0 - b.tokens /\ (debt = 0 => Spare(counts))

Reserved(t) ==
  Returnable(t) =>
    ReservedAt(limiters[cancelling[t].ip], admitted[cancelling[t].ip], cancelling[t].debt)

LimiterInv ==
  /\ LimiterTypeOK
  /\ \A i \in Addresses : AddressFits(i)
  /\ \A t \in Handlers : Reserved(t)
  /\ \A s, t \in Handlers :
       (Returnable(s) /\ cancelling[s] = cancelling[t]) => s = t

LEMMA LimiterInitially == LimiterInit => LimiterInv
<1> SUFFICES ASSUME LimiterInit PROVE LimiterInv
  OBVIOUS
<1>1. LimiterTypeOK
  BY DEF LimiterInit, LimiterTypeOK
<1>2. ASSUME NEW i \in Addresses PROVE AddressFits(i)
  <2>1. \A span \in Spans : span - 1 \in Int /\ span - 1 >= 0
    BY LimiterAssumption DEF Spans
  <2> QED
    BY <2>1, AllowedGrows DEF LimiterInit, AddressFits, FitsFull
<1> QED
  BY <1>1, <1>2 DEF LimiterInit, LimiterInv, Reserved, Returnable

LEMMA BucketTaken ==
  ASSUME NEW i \in Addresses, LimiterInv
  PROVE  LET b == GetLimiter(i)
             c == Reserve(b)
         IN  /\ b \in Bucket /\ Fits(b, admitted[i]) /\ c \in Bucket
             /\ c.tokens = b.tokens - 1 /\ c.last = Debt(c.tokens) /\ c.idle = 0
             /\ limiters[i] # None => b = limiters[i]
<1> DEFINE b == GetLimiter(i)
           counts == admitted[i]
<1>1. CASE limiters[i] = None
  <2>1. b = FullBucket /\ FullBucket \in Bucket
    BY <1>1, LimiterAssumption DEF GetLimiter, FullBucket, Bucket
  <2>2. FitsFull(counts) /\ counts \in [Spans -> Nat]
    BY <1>1 DEF LimiterInv, AddressFits, LimiterTypeOK
  <2>3. ASSUME NEW span \in Spans
        PROVE  /\ counts[span] \in Nat /\ span - 1 \in Int /\ Allowed(span - 1) \in Int
               /\ counts[span] <= Allowed(span - 1) /\ span > 0
    BY <2>2, SpanFacts DEF FitsFull
  <2>4. /\ Burst \in Nat /\ Larger(0, Burst) = Burst /\ Debt(Burst) = 0 /\ Idle \in Nat
        /\ FullBucket.tokens = Burst /\ FullBucket.last = 0 /\ FullBucket.idle = 0
    BY LimiterAssumption DEF Larger, Debt, FullBucket
  <2>5. Fits(FullBucket, counts)
    <3>1. ASSUME NEW span \in Spans
          PROVE  /\ counts[span] + Larger(0, Burst) <= Burst + Allowed(span - 1)
                 /\ ~(span <= 0) /\ counts[span] <= Burst + Allowed(span - 1 - 0)
      <4>1. span - 1 - 0 = span - 1 /\ span \in Int
        BY <2>3, LimiterAssumption DEF Spans
      <4> HIDE DEF counts
      <4> QED
        BY <2>3, <2>4, <4>1
    <3> QED
      BY <2>4, <3>1 DEF Fits
  <2>6. /\ Reserve(FullBucket) \in Bucket /\ Reserve(FullBucket).tokens = Burst - 1
        /\ Reserve(FullBucket).last = Debt(Burst - 1) /\ Reserve(FullBucket).idle = 0
    BY LimiterAssumption DEF Reserve, FullBucket, Bucket, Debt, Larger
  <2> QED
    BY <1>1, <2>1, <2>4, <2>5, <2>6
<1>2. CASE limiters[i] # None
  <2>1. b = limiters[i] /\ b \in Bucket /\ Fits(b, counts)
    BY <1>2 DEF GetLimiter, LimiterInv, AddressFits, LimiterTypeOK
  <2> HIDE DEF b
  <2>2. Reserve(b) \in Bucket /\ Reserve(b).tokens = b.tokens - 1
        /\ Reserve(b).last = Debt(b.tokens - 1) /\ Reserve(b).idle = 0
    BY <2>1 DEF Reserve, Bucket, Debt, Larger
  <2> QED
    BY <1>2, <2>1, <2>2 DEF b
<1> QED
  BY <1>1, <1>2

(* An admission takes the token it counts for.                             *)
LEMMA AdmittedFits ==
  ASSUME NEW b \in Bucket, NEW counts \in [Spans -> Nat], Fits(b, counts),
         NEW c \in Bucket, c.tokens = b.tokens - 1, c.last = Debt(c.tokens), c.idle = 0
  PROVE  /\ Fits(c, counts)
         /\ c.tokens >= 0 => Fits(c, [span \in Spans |-> counts[span] + 1])
<1>1. b.tokens \in Int /\ c.tokens \in Int /\ Burst \in Nat /\ Idle \in Nat
  BY LimiterAssumption DEF Bucket
<1>2. c.tokens <= Burst /\ c.last = Debt(c.tokens) /\ c.idle <= Idle
  BY <1>1 DEF Fits
<1>3. ASSUME NEW span \in Spans
      PROVE  /\ ~(span <= 0) /\ span - 1 - 0 = span - 1 /\ counts[span] \in Nat
             /\ counts[span] + Larger(0, b.tokens) <= Burst + Allowed(span - 1)
             /\ Allowed(span - 1) \in Int
  BY SpanFacts DEF Fits
<1>4. /\ Larger(0, c.tokens) \in Nat /\ Larger(0, c.tokens) <= Larger(0, b.tokens)
      /\ Larger(0, b.tokens) \in Nat
      /\ c.tokens >= 0 => Larger(0, c.tokens) + 1 <= Larger(0, b.tokens)
  BY <1>1 DEF Larger
<1>5. ASSUME NEW n \in [Spans -> Nat],
             \A span \in Spans : n[span] + Larger(0, c.tokens) <= counts[span] + Larger(0, b.tokens)
      PROVE  Fits(c, n)
  <2>1. ASSUME NEW span \in Spans
        PROVE  /\ n[span] + Larger(0, c.tokens) <= Burst + Allowed(span - 1)
               /\ n[span] <= Burst + Allowed(span - 1 - 0)
    <3>1. n[span] \in Nat /\ n[span] + Larger(0, c.tokens) <= counts[span] + Larger(0, b.tokens)
      BY <1>5
    <3> QED
      BY <1>1, <1>3, <1>4, <3>1
  <2>2. \A span \in Spans : ~(span <= c.idle)
    BY <1>3
  <2> QED
    BY <1>2, <2>1, <2>2 DEF Fits
<1>6. Fits(c, counts)
  BY <1>3, <1>4, <1>5
<1>7. CASE c.tokens >= 0
  <2> DEFINE more == [span \in Spans |-> counts[span] + 1]
  <2>1. more \in [Spans -> Nat] /\ \A span \in Spans : more[span] = counts[span] + 1
    OBVIOUS
  <2> HIDE DEF more
  <2>2. \A span \in Spans : more[span] + Larger(0, c.tokens) <= counts[span] + Larger(0, b.tokens)
    BY <1>3, <1>4, <1>7, <2>1
  <2> QED
    BY <1>5, <1>6, <2>1, <2>2 DEF more
<1> QED
  BY <1>6, <1>7

LEMMA RateLimitPreserves ==
  ASSUME NEW t \in Handlers, NEW i \in Addresses, LimiterInv, RateLimit(t, i)
  PROVE  LimiterInv'
<1> DEFINE b == GetLimiter(i)
           c == Reserve(b)
           more == [span \in Spans |-> admitted[i][span] + 1]
           r == [ip |-> i, debt |-> Debt(c.tokens)]
<1>1. /\ b \in Bucket /\ Fits(b, admitted[i]) /\ c \in Bucket
      /\ c.tokens = b.tokens - 1 /\ c.last = Debt(c.tokens) /\ c.idle = 0
      /\ limiters[i] # None => b = limiters[i]
  BY BucketTaken
<1>2. /\ limiters' = [limiters EXCEPT ![i] = c]
      /\ \/ /\ c.tokens >= 0 /\ admitted' = [admitted EXCEPT ![i] = more]
            /\ UNCHANGED cancelling
         \/ /\ c.tokens < 0 /\ cancelling' = [cancelling EXCEPT ![t] = r]
            /\ UNCHANGED admitted
  BY DEF RateLimit
<1>3. /\ limiters \in [Addresses -> Bucket \cup {None}]
      /\ cancelling \in [Handlers -> Reservation \cup {None}]
      /\ admitted \in [Addresses -> [Spans -> Nat]] /\ cancelling[t] = None
  BY DEF LimiterInv, LimiterTypeOK, RateLimit
<1>4. more \in [Spans -> Nat]
  BY <1>3
<1>5. Fits(c, admitted[i]) /\ (c.tokens >= 0 => Fits(c, more))
  BY <1>1, <1>3, AdmittedFits
<1>6. /\ r.ip = i /\ r.debt = Debt(c.tokens)
      /\ c.tokens < 0 => r.debt \in Nat \ {0} /\ r.debt = 0 - c.tokens
  BY <1>1 DEF Bucket, Debt, Larger
<1>12. c.tokens < 0 => r \in Reservation
  BY <1>6 DEF Reservation
<1>7. b.tokens \in Int /\ c.tokens \in Int /\ c.tokens = b.tokens - 1
  BY <1>1 DEF Bucket
<1> HIDE DEF b, c, more, r
<1>8. LimiterTypeOK'
  BY <1>1, <1>2, <1>3, <1>4, <1>12 DEF LimiterTypeOK
<1>9. ASSUME NEW j \in Addresses PROVE AddressFits(j)'
  <2>1. CASE j = i
    <3>1. limiters'[j] = c /\ c # None
      BY <1>1, <1>2, <1>3, <2>1, LimiterAssumption
    <3>2. Fits(c, admitted'[j])
      BY <1>2, <1>3, <1>5, <2>1
    <3> QED
      BY <3>1, <3>2 DEF AddressFits
  <2>2. CASE j # i
    BY <1>2, <1>3, <2>2 DEF LimiterInv, AddressFits
  <2> QED
    BY <2>1, <2>2
<1>10. ASSUME NEW s \in Handlers PROVE Reserved(s)'
  <2>1. limiters'[i] = c /\ c # None /\ \A j \in Addresses \ {i} : limiters'[j] = limiters[j]
    BY <1>1, <1>2, <1>3, LimiterAssumption
  <2>2. CASE s = t /\ cancelling' # cancelling
    <3>1. cancelling'[s] = r /\ c.tokens < 0 /\ r.ip = i
      BY <1>1, <1>2, <1>3, <1>6, <2>2
    <3>2. ReservedAt(c, admitted'[i], r.debt)
      BY <1>6, <1>7, <2>1, <3>1 DEF ReservedAt
    <3> QED
      BY <2>1, <3>1, <3>2 DEF Reserved
  <2>3. CASE cancelling'[s] = cancelling[s] /\ Returnable(s)
    <3>1. cancelling[s].ip \in Addresses /\ cancelling[s].debt \in Nat
      BY <1>3, <2>3 DEF Reservation, Returnable
    <3>2. ReservedAt(limiters[cancelling[s].ip], admitted[cancelling[s].ip], cancelling[s].debt)
      BY <2>3 DEF LimiterInv, Reserved
    <3>3. CASE cancelling[s].ip = i
      <4>1. limiters[i] # None /\ cancelling[s].debt <= 0 - b.tokens
        BY <1>1, <3>2, <3>3 DEF ReservedAt
      <4>2. c.tokens < 0
        BY <1>7, <3>1, <4>1
      <4>3. admitted' = admitted
        BY <1>2, <1>7, <4>2
      <4>4. ReservedAt(c, admitted[i], cancelling[s].debt)
        BY <1>7, <2>1, <3>1, <3>2, <3>3, <4>1 DEF ReservedAt
      <4> QED
        BY <2>1, <2>3, <3>3, <4>3, <4>4 DEF Reserved
    <3>4. CASE cancelling[s].ip # i
      <4>1. admitted'[cancelling[s].ip] = admitted[cancelling[s].ip]
        BY <1>2, <1>3, <3>1, <3>4
      <4> QED
        BY <2>1, <2>3, <3>1, <3>2, <3>4, <4>1 DEF Reserved
    <3> QED
      BY <3>3, <3>4
  <2> QED
    BY <1>2, <1>3, <2>2, <2>3 DEF Reserved, Returnable
<1>11. ASSUME NEW s \in Handlers, NEW u \in Handlers, Returnable(s)',
              cancelling'[s] = cancelling'[u]
       PROVE  s = u
  <2>1. ASSUME NEW x \in Handlers \ {t}, cancelling[x] = r, c.tokens < 0 PROVE FALSE
    <3>1. Returnable(x)
      BY <1>6, <1>12, <2>1, LimiterAssumption DEF Returnable, Passed
    <3>2. limiters[i] # None /\ r.debt <= 0 - limiters[i].tokens
      BY <1>6, <2>1, <3>1 DEF LimiterInv, Reserved, ReservedAt
    <3> QED
      BY <1>1, <1>6, <1>7, <2>1, <3>2
  <2> QED
    BY <1>2, <1>3, <1>11, <2>1 DEF LimiterInv, Returnable
<1> QED
  BY <1>8, <1>9, <1>10, <1>11 DEF LimiterInv

(* The reservation on top of the debt is the only one that gives its token *)
(* back.                                                                   *)
LEMMA CancelReturnsOne ==
  ASSUME NEW b \in Bucket, NEW debt \in Nat, debt <= 0 - b.tokens,
         b.last = Debt(b.tokens), b.tokens <= Burst
  PROVE  LET c == Cancel(b, debt)
         IN  /\ c \in Bucket /\ c.idle = b.idle /\ c.last = Debt(c.tokens)
             /\ c.tokens = IF debt = 0 - b.tokens THEN b.tokens + 1 ELSE b.tokens
<1> DEFINE restored == Larger(0, 1 - (b.last - debt))
           tokens == Smaller(Burst, b.tokens + restored)
           last == IF debt = b.last THEN Larger(0, b.last - 1) ELSE b.last
<1>1. b.tokens \in Int /\ b.last \in Nat /\ b.idle \in Nat /\ Burst \in Nat /\ Burst > 0
  BY LimiterAssumption DEF Bucket
<1>2. b.tokens = 0 - b.last /\ debt <= b.last
  BY <1>1 DEF Debt, Larger
<1>3. restored = IF debt = b.last THEN 1 ELSE 0
  BY <1>1, <1>2 DEF Larger
<1>4. tokens = IF debt = b.last THEN b.tokens + 1 ELSE b.tokens
  BY <1>1, <1>2, <1>3 DEF Smaller
<1>5. Cancel(b, debt) = [[b EXCEPT !.tokens = tokens] EXCEPT !.last = last]
  BY DEF Cancel
<1>6. last = IF debt = b.last THEN Larger(0, b.last - 1) ELSE b.last
  OBVIOUS
<1> HIDE DEF restored, tokens, last
<1>7. tokens \in Int /\ last \in Nat /\ last = Debt(tokens)
  <2>1. CASE debt = b.last
    <3>1. tokens = 1 - b.last /\ last = Larger(0, b.last - 1)
      BY <1>1, <1>2, <1>4, <1>6, <2>1
    <3> QED
      BY <1>1, <3>1 DEF Larger, Debt
  <2>2. CASE debt # b.last
    <3>1. tokens = 0 - b.last /\ last = b.last
      BY <1>1, <1>2, <1>4, <1>6, <2>2
    <3> QED
      BY <1>1, <3>1 DEF Larger, Debt
  <2> QED
    BY <2>1, <2>2
<1> DEFINE first == [b EXCEPT !.tokens = tokens]
<1>8. first \in Bucket /\ first.tokens = tokens /\ first.idle = b.idle
  BY <1>7 DEF Bucket
<1> HIDE DEF first
<1>9. /\ [first EXCEPT !.last = last] \in Bucket
      /\ [first EXCEPT !.last = last].last = last
      /\ [first EXCEPT !.last = last].tokens = first.tokens
      /\ [first EXCEPT !.last = last].idle = first.idle
  BY <1>7, <1>8 DEF Bucket
<1>10. debt = b.last <=> debt = 0 - b.tokens
  BY <1>1, <1>2
<1> QED
  BY <1>4, <1>7, <1>5, <1>8, <1>9, <1>10 DEF first

(* A token that is returned was part of the debt, or there is one to spare. *)
LEMMA ReturnedFits ==
  ASSUME NEW b \in Bucket, NEW counts \in [Spans -> Nat], Fits(b, counts), NEW debt \in Nat,
         ReservedAt(b, counts, debt)
  PROVE  Fits(Cancel(b, debt), counts)
<1> DEFINE c == Cancel(b, debt)
<1>1. /\ b.tokens \in Int /\ b.last = Debt(b.tokens) /\ b.tokens <= Burst /\ b.idle <= Idle
      /\ debt <= 0 - b.tokens /\ Burst \in Nat /\ Burst > 0
  BY LimiterAssumption DEF Bucket, Fits, ReservedAt
<1>2. /\ c \in Bucket /\ c.idle = b.idle /\ c.last = Debt(c.tokens)
      /\ c.tokens = IF debt = 0 - b.tokens THEN b.tokens + 1 ELSE b.tokens
  BY <1>1, CancelReturnsOne
<1> HIDE DEF c
<1>3. /\ c.tokens <= Burst /\ Larger(0, b.tokens) = 0
      /\ Larger(0, c.tokens) = 0 \/ (Larger(0, c.tokens) = 1 /\ debt = 0)
  BY <1>1, <1>2 DEF Larger
<1>4. ASSUME NEW span \in Spans
      PROVE  counts[span] + Larger(0, c.tokens) <= Burst + Allowed(span - 1)
  <2>1. counts[span] + Larger(0, b.tokens) <= Burst + Allowed(span - 1)
    BY DEF Fits
  <2>2. debt = 0 => counts[span] + 1 <= Burst + Allowed(span - 1)
    BY DEF ReservedAt, Spare
  <2> QED
    BY <1>3, <2>1, <2>2
<1>5. Fits(c, counts)
  BY <1>1, <1>2, <1>3, <1>4 DEF Fits
<1> QED
  BY <1>5 DEF c

LEMMA RefusePreserves ==
  ASSUME NEW t \in Handlers, LimiterInv, RefuseRequest(t) PROVE LimiterInv'
<1> DEFINE i == cancelling[t].ip
           debt == cancelling[t].debt
           b == limiters[i]
           c == Cancel(b, debt)
<1>1. /\ limiters \in [Addresses -> Bucket \cup {None}]
      /\ cancelling \in [Handlers -> Reservation \cup {None}]
      /\ admitted \in [Addresses -> [Spans -> Nat]] /\ cancelling[t] # None
  BY DEF LimiterInv, LimiterTypeOK, RefuseRequest
<1>2. /\ cancelling' = [cancelling EXCEPT ![t] = None] /\ admitted' = admitted
      /\ limiters' = IF debt = Passed THEN limiters ELSE [limiters EXCEPT ![i] = c]
      /\ i \in Addresses /\ debt \in Nat \cup {Passed}
  BY <1>1 DEF RefuseRequest, Reservation
<1>3. cancelling'[t] = None /\ \A s \in Handlers : s = t \/ cancelling'[s] = cancelling[s]
  BY <1>1, <1>2
<1>4. \A s, u \in Handlers : Returnable(s)' /\ cancelling'[s] = cancelling'[u] => s = u
  BY <1>3 DEF LimiterInv, Returnable
<1>5. CASE debt = Passed
  <2>1. limiters' = limiters
    BY <1>2, <1>5
  <2>2. \A j \in Addresses : AddressFits(j)'
    BY <1>2, <2>1 DEF LimiterInv, AddressFits
  <2>3. \A s \in Handlers : Reserved(s)'
    BY <1>2, <1>3, <2>1 DEF LimiterInv, Reserved, Returnable
  <2>4. LimiterTypeOK'
    BY <1>1, <1>2, <2>1 DEF LimiterTypeOK
  <2> QED
    BY <1>4, <2>2, <2>3, <2>4 DEF LimiterInv
<1>6. CASE debt # Passed
  <2>1. debt \in Nat /\ Returnable(t)
    BY <1>1, <1>2, <1>6 DEF Returnable
  <2>2. ReservedAt(b, admitted[i], debt)
    BY <2>1 DEF LimiterInv, Reserved
  <2>3. b \in Bucket /\ b # None /\ Fits(b, admitted[i]) /\ debt <= 0 - b.tokens
    BY <1>1, <1>2, <2>2 DEF LimiterInv, AddressFits, ReservedAt
  <2>4. c \in Bucket /\ Fits(c, admitted[i])
        /\ c.tokens = IF debt = 0 - b.tokens THEN b.tokens + 1 ELSE b.tokens
    <3>1. c = Cancel(b, debt) /\ admitted[i] \in [Spans -> Nat]
      BY <1>1, <1>2
    <3>2. Fits(c, admitted[i])
      BY <2>1, <2>2, <2>3, <3>1, ReturnedFits
    <3>3. b.last = Debt(b.tokens) /\ b.tokens <= Burst
      BY <2>3 DEF Fits
    <3> HIDE DEF b, c, debt
    <3> QED
      BY <2>1, <2>3, <3>1, <3>2, <3>3, CancelReturnsOne
  <2>5. limiters' = [limiters EXCEPT ![i] = c]
    BY <1>2, <1>6
  <2>6. ASSUME NEW s \in Handlers \ {t}, Returnable(s), cancelling[s].ip = i
        PROVE  ReservedAt(c, admitted[i], cancelling[s].debt)
    <3>1. cancelling[s].debt \in Nat /\ cancelling[s] \in Reservation
      BY <1>1, <2>6 DEF Returnable, Reservation
    <3>2. ReservedAt(b, admitted[i], cancelling[s].debt)
      BY <2>6 DEF LimiterInv, Reserved
    <3>3. cancelling[s].debt # debt
      <4>1. cancelling[s] # cancelling[t]
        BY <2>6 DEF LimiterInv
      <4>2. cancelling[s] = [ip |-> cancelling[s].ip, debt |-> cancelling[s].debt]
            /\ cancelling[t] = [ip |-> cancelling[t].ip, debt |-> cancelling[t].debt]
        BY <1>1, <3>1 DEF Reservation
      <4> QED
        BY <2>6, <4>1, <4>2
    <3>4. b.tokens \in Int /\ c # None
      BY <2>3, <2>4, LimiterAssumption DEF Bucket
    <3> HIDE DEF b, c, debt
    <3> QED
      BY <2>1, <2>3, <2>4, <3>1, <3>2, <3>3, <3>4 DEF ReservedAt
  <2> HIDE DEF i, debt, b, c
  <2>7. LimiterTypeOK'
    BY <1>1, <1>2, <2>4, <2>5 DEF LimiterTypeOK
  <2>8. c # None /\ limiters'[i] = c /\ \A j \in Addresses \ {i} : limiters'[j] = limiters[j]
    BY <1>1, <1>2, <2>4, <2>5, LimiterAssumption
  <2>9. \A j \in Addresses : AddressFits(j)'
    BY <1>2, <2>4, <2>8 DEF AddressFits, LimiterInv
  <2>10. ASSUME NEW s \in Handlers, Returnable(s)' PROVE Reserved(s)'
    <3>1. /\ s # t /\ cancelling'[s] = cancelling[s] /\ Reserved(s) /\ Returnable(s)
          /\ cancelling[s].ip \in Addresses
      BY <1>1, <1>3, <2>10 DEF LimiterInv, Returnable, Reservation
    <3>2. CASE cancelling[s].ip = i
      BY <1>2, <2>6, <2>8, <3>1, <3>2 DEF Reserved
    <3>3. CASE cancelling[s].ip # i
      BY <1>2, <2>8, <3>1, <3>3 DEF Reserved
    <3> QED
      BY <3>2, <3>3
  <2>11. \A s \in Handlers : Reserved(s)'
    BY <2>10 DEF Reserved
  <2> QED
    BY <1>4, <2>7, <2>9, <2>11 DEF LimiterInv
<1> QED
  BY <1>5, <1>6

LEMMA TickFits ==
  ASSUME NEW b \in Bucket, NEW counts \in [Spans -> Nat], Fits(b, counts),
         NEW c \in Bucket, c.tokens = Smaller(Burst, b.tokens + Rate),
         c.last = Larger(0, b.last - Rate), c.idle = Smaller(Idle, b.idle + 1)
  PROVE  Fits(c, [span \in Spans |-> IF span = 1 THEN 0 ELSE counts[span - 1]])
<1> DEFINE n == [span \in Spans |-> IF span = 1 THEN 0 ELSE counts[span - 1]]
<1>1. /\ b.tokens \in Int /\ b.last \in Nat /\ b.idle \in Nat /\ Burst \in Nat /\ Rate \in Nat
      /\ Idle \in Nat /\ c.tokens \in Int /\ c.idle \in Nat /\ Rate > 0 /\ Idle > 0
  BY LimiterAssumption DEF Bucket
<1>2. c.tokens <= Burst /\ c.last = Debt(c.tokens) /\ c.idle <= Idle
  BY <1>1 DEF Fits, Smaller, Larger, Debt
<1>3. /\ c.idle <= b.idle + 1 /\ c.idle > 0
      /\ Larger(0, c.tokens) <= Larger(0, b.tokens) + Rate /\ Larger(0, c.tokens) <= Burst
      /\ Larger(0, c.tokens) \in Nat /\ Larger(0, b.tokens) \in Nat
  BY <1>1 DEF Smaller, Larger
<1>4. ASSUME NEW span \in Spans
      PROVE  /\ n[span] + Larger(0, c.tokens) <= Burst + Allowed(span - 1)
             /\ IF span <= c.idle THEN n[span] = 0
                ELSE n[span] <= Burst + Allowed(span - 1 - c.idle)
  <2>1. span \in Int /\ span > 0 /\ Allowed(span - 1) \in Int /\ Allowed(span - 1) >= 0
    BY SpanFacts
  <2>2. CASE span = 1
    BY <1>1, <1>3, <2>1, <2>2
  <2>3. CASE span # 1
    <3> DEFINE prev == span - 1
    <3>1. prev \in Spans /\ prev \in Int /\ prev > 0
      BY <2>1, <2>3, LimiterAssumption DEF Spans
    <3>2. n[span] = counts[prev] /\ counts[prev] \in Nat
      BY <2>3, <3>1
    <3>3. Allowed(prev) = Allowed(prev - 1) + Rate /\ Allowed(prev - 1) \in Int
      <4>1. (prev - 1) + 1 = prev /\ prev - 1 \in Int
        BY <3>1
      <4> QED
        BY <4>1, AllowedGrows
    <3>4. counts[prev] + Larger(0, b.tokens) <= Burst + Allowed(prev - 1)
      BY <3>1 DEF Fits
    <3>5. n[span] + Larger(0, c.tokens) <= Burst + Allowed(prev)
      BY <1>1, <1>3, <3>2, <3>3, <3>4
    <3>6. CASE span <= c.idle
      <4>1. prev <= b.idle
        BY <1>1, <1>3, <2>1, <3>6
      <4> QED
        BY <3>1, <3>2, <3>5, <3>6, <4>1 DEF Fits
    <3>7. CASE ~(span <= c.idle)
      <4>1. /\ prev - 1 - b.idle \in Int /\ prev - c.idle \in Int
            /\ prev - 1 - b.idle <= prev - c.idle /\ prev - c.idle >= 0
        BY <1>1, <1>3, <2>1, <3>1, <3>7
      <4>2. /\ Allowed(prev - 1 - b.idle) \in Int /\ Allowed(prev - c.idle) \in Int
            /\ Allowed(prev - c.idle) >= 0
            /\ Allowed(prev - 1 - b.idle) <= Allowed(prev - c.idle)
        BY <4>1, AllowedGrows, AllowedMonotone
      <4>3. counts[prev] = 0 \/ counts[prev] <= Burst + Allowed(prev - 1 - b.idle)
        BY <3>1 DEF Fits
      <4>4. n[span] <= Burst + Allowed(prev - c.idle)
        BY <1>1, <3>2, <4>2, <4>3
      <4> QED
        BY <3>5, <3>7, <4>4
    <3> QED
      BY <3>6, <3>7
  <2> QED
    BY <2>2, <2>3
<1> HIDE DEF n
<1>5. Fits(c, n)
  BY <1>2, <1>4 DEF Fits
<1> QED
  BY <1>5 DEF n

(* A debt that is paid with the passing of time leaves a token to spare:   *)
(* while it lasted, nobody was admitted.                                   *)
LEMMA TickSpares ==
  ASSUME NEW b \in Bucket, NEW counts \in [Spans -> Nat], Fits(b, counts),
         NEW debt \in Nat, debt <= 0 - b.tokens, debt - Rate >= 0,
         NEW c, c # None, c.tokens = Smaller(Burst, b.tokens + Rate)
  PROVE  ReservedAt(c, [span \in Spans |-> IF span = 1 THEN 0 ELSE counts[span - 1]], debt - Rate)
<1> DEFINE n == [span \in Spans |-> IF span = 1 THEN 0 ELSE counts[span - 1]]
<1>1. b.tokens \in Int /\ Burst \in Nat /\ Burst > 0 /\ Rate \in Nat /\ Rate > 0
  BY LimiterAssumption DEF Bucket
<1>2. debt - Rate <= 0 - c.tokens /\ Larger(0, b.tokens) = 0
  BY <1>1 DEF Smaller, Larger
<1>3. ASSUME NEW span \in Spans PROVE n[span] + 1 <= Burst + Allowed(span - 1)
  <2>1. span \in Int /\ span > 0 /\ Allowed(span - 1) \in Int /\ Allowed(span - 1) >= 0
    BY SpanFacts
  <2>2. CASE span = 1
    BY <1>1, <2>1, <2>2
  <2>3. CASE span # 1
    <3>1. span - 1 \in Spans /\ span - 1 - 1 \in Int /\ (span - 1 - 1) + 1 = span - 1
      BY <2>1, <2>3, LimiterAssumption DEF Spans
    <3>2. n[span] = counts[span - 1] /\ counts[span - 1] \in Nat
      BY <2>3, <3>1
    <3>3. counts[span - 1] + Larger(0, b.tokens) <= Burst + Allowed(span - 1 - 1)
      BY <3>1 DEF Fits
    <3>4. Allowed(span - 1) = Allowed(span - 1 - 1) + Rate /\ Allowed(span - 1 - 1) \in Int
      BY <3>1, AllowedGrows
    <3> HIDE DEF n
    <3> QED
      BY <1>1, <1>2, <3>2, <3>3, <3>4
  <2> QED
    BY <2>2, <2>3
<1> HIDE DEF n
<1>4. ReservedAt(c, n, debt - Rate)
  BY <1>2, <1>3 DEF ReservedAt, Spare
<1> QED
  BY <1>4 DEF n

LEMMA LimiterTickPreserves ==
  ASSUME LimiterInv, LimiterTick PROVE LimiterInv'
<1> DEFINE Later(counts) == [span \in Spans |-> IF span = 1 THEN 0 ELSE counts[span - 1]]
<1>1. /\ limiters \in [Addresses -> Bucket \cup {None}]
      /\ cancelling \in [Handlers -> Reservation \cup {None}]
      /\ admitted \in [Addresses -> [Spans -> Nat]]
      /\ \A i \in Addresses : AddressFits(i)
  BY DEF LimiterInv, LimiterTypeOK, LimiterTick
<1>2. \A span \in Spans : span # 1 => span - 1 \in Spans
  BY LimiterAssumption DEF Spans
<1>3. admitted' = [i \in Addresses |-> Later(admitted[i])]
  BY DEF LimiterTick
<1>4. \A i \in Addresses : admitted'[i] = Later(admitted[i]) /\ Later(admitted[i]) \in [Spans -> Nat]
  BY <1>1, <1>2, <1>3
<1>5. ASSUME NEW i \in Addresses
      PROVE  limiters'[i] \in Bucket \cup {None} /\ AddressFits(i)'
  <2>1. CASE limiters[i] = None
    <3>1. limiters'[i] = None /\ FitsFull(admitted[i])
      BY <1>1, <2>1 DEF LimiterTick, AddressFits
    <3>2. ASSUME NEW span \in Spans PROVE admitted'[i][span] <= Allowed(span - 1)
      <4>1. span \in Int /\ span > 0 /\ Allowed(span - 1) >= 0 /\ Allowed(span - 1) \in Int
        BY SpanFacts
      <4>2. CASE span = 1
        BY <1>4, <4>1, <4>2
      <4>3. CASE span # 1
        <5>0. span - 1 \in Spans /\ admitted[i] \in [Spans -> Nat]
          BY <1>1, <1>2, <4>3
        <5>1. admitted'[i][span] = admitted[i][span - 1] /\ admitted[i][span - 1] \in Nat
          <6>1. Later(admitted[i])[span] = admitted[i][span - 1]
            BY <4>3
          <6>2. admitted[i][span - 1] \in Nat
            BY <5>0
          <6> HIDE DEF Later
          <6> QED
            BY <1>4, <6>1, <6>2
        <5>2. admitted[i][span - 1] <= Allowed(span - 1 - 1)
          BY <3>1, <5>0 DEF FitsFull
        <5>3. Allowed(span - 1 - 1) <= Allowed(span - 1) /\ Allowed(span - 1 - 1) \in Int
          <6>1. span - 1 - 1 \in Int /\ span - 1 \in Int /\ span - 1 - 1 <= span - 1
            BY <4>1
          <6> QED
            BY <6>1, AllowedGrows, AllowedMonotone
        <5> QED
          BY <4>1, <5>1, <5>2, <5>3
      <4> QED
        BY <4>2, <4>3
    <3> QED
      BY <3>1, <3>2 DEF AddressFits, FitsFull
  <2>2. CASE limiters[i] # None
    <3> DEFINE b == limiters[i]
               c == [tokens |-> Smaller(Burst, b.tokens + Rate),
                     last |-> Larger(0, b.last - Rate), idle |-> Smaller(Idle, b.idle + 1)]
    <3>1. b \in Bucket /\ Fits(b, admitted[i]) /\ limiters'[i] = c
      BY <1>1, <2>2 DEF LimiterTick, AddressFits
    <3>2. c \in Bucket
      BY <3>1, LimiterAssumption DEF Bucket, Smaller, Larger
    <3>3. Fits(c, Later(admitted[i]))
      BY <1>1, <3>1, <3>2, TickFits
    <3> HIDE DEF b, c, Later
    <3> QED
      BY <1>4, <3>1, <3>2, <3>3, LimiterAssumption DEF AddressFits
  <2> QED
    BY <2>1, <2>2
<1>6. limiters' \in [Addresses -> Bucket \cup {None}]
  BY <1>5 DEF LimiterTick
<1>7. admitted' \in [Addresses -> [Spans -> Nat]]
  BY <1>3, <1>4
<1>8. ASSUME NEW t \in Handlers
      PROVE  /\ cancelling[t] = None => cancelling'[t] = None
             /\ cancelling[t] # None =>
                  /\ cancelling'[t] \in Reservation /\ cancelling'[t].ip = cancelling[t].ip
                  /\ cancelling'[t].debt = Larger(Passed, cancelling[t].debt - Rate)
  <2>1. CASE cancelling[t] = None
    BY <2>1 DEF LimiterTick
  <2>2. CASE cancelling[t] # None
    <3> DEFINE d == Larger(Passed, cancelling[t].debt - Rate)
    <3>1. cancelling[t] \in Reservation /\ cancelling'[t] = [cancelling[t] EXCEPT !.debt = d]
      BY <1>1, <2>2 DEF LimiterTick
    <3>2. d \in Nat \cup {Passed}
      BY <3>1, LimiterAssumption DEF Reservation, Passed, Larger
    <3> HIDE DEF d
    <3>3. /\ cancelling'[t] \in Reservation /\ cancelling'[t].ip = cancelling[t].ip
          /\ cancelling'[t].debt = d
      BY <3>1, <3>2 DEF Reservation
    <3> QED
      BY <2>2, <3>3 DEF d
  <2> QED
    BY <2>1, <2>2
<1>9. LimiterTypeOK'
  <2>1. cancelling' \in [Handlers -> Reservation \cup {None}]
    BY <1>8 DEF LimiterTick
  <2> QED
    BY <1>6, <1>7, <2>1 DEF LimiterTypeOK
<1>10. ASSUME NEW t \in Handlers, Returnable(t)'
       PROVE  /\ Returnable(t) /\ cancelling[t] \in Reservation /\ cancelling[t].debt \in Nat
              /\ cancelling'[t] \in Reservation /\ cancelling'[t].ip = cancelling[t].ip
              /\ cancelling'[t].debt = cancelling[t].debt - Rate
              /\ cancelling[t].debt - Rate >= 0
  <2>1. /\ cancelling[t] \in Reservation /\ cancelling[t] # None
        /\ cancelling'[t] \in Reservation /\ cancelling'[t].ip = cancelling[t].ip
        /\ cancelling'[t].debt = Larger(Passed, cancelling[t].debt - Rate)
        /\ cancelling'[t].debt # Passed
    BY <1>1, <1>8, <1>10 DEF Returnable
  <2>2. cancelling[t].debt \in Nat \cup {Passed} /\ Rate \in Nat
    BY <2>1, LimiterAssumption DEF Reservation
  <2>3. cancelling[t].debt \in Nat /\ cancelling[t].debt - Rate >= 0
        /\ cancelling'[t].debt = cancelling[t].debt - Rate
    BY <2>1, <2>2 DEF Passed, Larger
  <2> QED
    BY <2>1, <2>3 DEF Returnable, Passed
<1>11. ASSUME NEW t \in Handlers, Returnable(t)' PROVE Reserved(t)'
  <2> DEFINE i == cancelling[t].ip
             b == limiters[i]
             debt == cancelling[t].debt
             c == limiters'[i]
  <2>1. /\ i \in Addresses /\ debt \in Nat /\ debt - Rate >= 0 /\ Returnable(t)
        /\ cancelling'[t].ip = i /\ cancelling'[t].debt = debt - Rate
    BY <1>10, <1>11 DEF Reservation
  <2>2. ReservedAt(b, admitted[i], debt)
    BY <2>1 DEF LimiterInv, Reserved
  <2>3. b \in Bucket /\ debt <= 0 - b.tokens /\ Fits(b, admitted[i]) /\ b # None
    BY <1>1, <2>1, <2>2 DEF ReservedAt, AddressFits
  <2>4. c # None /\ c.tokens = Smaller(Burst, b.tokens + Rate)
    <3> DEFINE later == [tokens |-> Smaller(Burst, b.tokens + Rate),
                         last |-> Larger(0, b.last - Rate), idle |-> Smaller(Idle, b.idle + 1)]
    <3>1. c = later
      BY <2>1, <2>3 DEF LimiterTick
    <3>2. later \in Bucket
      BY <2>3, LimiterAssumption DEF Bucket, Smaller, Larger
    <3> QED
      BY <3>1, <3>2, LimiterAssumption
  <2>5. admitted[i] \in [Spans -> Nat] /\ admitted'[i] = Later(admitted[i])
    BY <1>1, <1>4, <2>1
  <2> HIDE DEF i, b, c, debt
  <2>6. ReservedAt(c, Later(admitted[i]), debt - Rate)
    BY <2>1, <2>3, <2>4, <2>5, TickSpares
  <2> HIDE DEF Later
  <2> QED
    BY <2>1, <2>5, <2>6 DEF Reserved, c
<1>12. ASSUME NEW s \in Handlers, NEW t \in Handlers, Returnable(s)',
              cancelling'[s] = cancelling'[t]
       PROVE  s = t
  <2>1. Returnable(t)'
    BY <1>12 DEF Returnable
  <2>2. cancelling[s].ip = cancelling[t].ip /\ cancelling[s].debt = cancelling[t].debt
    <3>1. cancelling[s].debt - Rate = cancelling[t].debt - Rate
      BY <1>10, <1>12, <2>1
    <3>2. cancelling[s].debt \in Nat /\ cancelling[t].debt \in Nat /\ Rate \in Nat
      BY <1>10, <1>12, <2>1, LimiterAssumption
    <3>3. cancelling[s].debt = cancelling[t].debt
      BY <3>1, <3>2
    <3> QED
      BY <1>10, <1>12, <2>1, <3>3
  <2>3. cancelling[s] = cancelling[t]
    BY <1>10, <1>12, <2>1, <2>2 DEF Reservation
  <2> QED
    BY <1>10, <1>12, <2>3 DEF LimiterInv
<1> QED
  BY <1>5, <1>9, <1>11, <1>12 DEF LimiterInv, Reserved

(* A bucket that is evicted was not used for so long that a full one may   *)
(* take its place.                                                         *)
LEMMA EvictPreserves ==
  ASSUME NEW i \in Addresses, LimiterInv, Evict(i) PROVE LimiterInv'
<1> DEFINE b == limiters[i]
<1>1. /\ limiters \in [Addresses -> Bucket \cup {None}] /\ b \in Bucket /\ b.idle >= Idle
      /\ admitted[i] \in [Spans -> Nat] /\ Fits(b, admitted[i])
      /\ limiters' = [limiters EXCEPT ![i] = None] /\ UNCHANGED admitted
      /\ cancelling \in [Handlers -> Reservation \cup {None}]
  BY DEF Evict, Remove, LimiterInv, LimiterTypeOK, AddressFits
<1>2. b.idle = Idle /\ Idle \in Nat /\ Idle > 0 /\ Burst \in Nat
  BY <1>1, LimiterAssumption DEF Fits, Bucket
<1>3. ASSUME NEW span \in Spans PROVE admitted[i][span] <= Allowed(span - 1)
  <2>1. span \in Int /\ Allowed(span - 1) >= 0 /\ Allowed(span - 1) \in Int
        /\ admitted[i][span] \in Nat
    BY <1>1, SpanFacts
  <2>2. CASE span <= Idle
    BY <1>1, <1>2, <2>1, <2>2 DEF Fits
  <2>3. CASE ~(span <= Idle)
    <3>1. admitted[i][span] <= Burst + Allowed(span - 1 - Idle)
      BY <1>1, <1>2, <2>3 DEF Fits
    <3>2. Burst + Allowed(span - 1 - Idle) <= Allowed(span - 1)
          /\ Allowed(span - 1 - Idle) \in Int
      BY <2>1, LimiterAssumption DEF Allowed
    <3> QED
      BY <1>2, <2>1, <3>1, <3>2
  <2> QED
    BY <2>2, <2>3
<1>4. ASSUME NEW j \in Addresses PROVE AddressFits(j)'
  <2>1. CASE j = i
    BY <1>1, <1>3, <2>1 DEF AddressFits, FitsFull
  <2>2. CASE j # i
    BY <1>1, <2>2 DEF LimiterInv, AddressFits
  <2> QED
    BY <2>1, <2>2
<1>5. ASSUME NEW t \in Handlers
      PROVE  /\ cancelling'[t] \in Reservation \cup {None}
             /\ Returnable(t)' => /\ cancelling'[t] = cancelling[t] /\ Returnable(t)
                                  /\ cancelling[t].ip \in Addresses \ {i}
  <2>1. cancelling'[t] = IF cancelling[t] # None /\ cancelling[t].ip = i
                         THEN [cancelling[t] EXCEPT !.debt = Passed] ELSE cancelling[t]
    BY DEF Evict, Remove
  <2>2. CASE cancelling[t] # None /\ cancelling[t].ip = i
    <3>1. cancelling'[t] \in Reservation /\ cancelling'[t].debt = Passed
      BY <1>1, <2>1, <2>2 DEF Reservation
    <3> QED
      BY <3>1 DEF Returnable
  <2>3. CASE ~(cancelling[t] # None /\ cancelling[t].ip = i)
    <3>1. cancelling'[t] = cancelling[t]
      BY <2>1, <2>3
    <3> QED
      BY <1>1, <2>3, <3>1 DEF Returnable, Reservation
  <2> QED
    BY <2>2, <2>3
<1>6. ASSUME NEW t \in Handlers PROVE Reserved(t)'
  <2> SUFFICES ASSUME Returnable(t)' PROVE Reserved(t)'
    BY DEF Reserved
  <2>1. /\ cancelling'[t] = cancelling[t] /\ Returnable(t)
        /\ cancelling[t].ip \in Addresses \ {i} /\ Reserved(t)
    BY <1>5 DEF LimiterInv
  <2>2. limiters'[cancelling[t].ip] = limiters[cancelling[t].ip]
    BY <1>1, <2>1
  <2> QED
    BY <1>1, <2>1, <2>2 DEF Reserved
<1>7. \A s, t \in Handlers : Returnable(s)' /\ cancelling'[s] = cancelling'[t] => s = t
  <2> SUFFICES ASSUME NEW s \in Handlers, NEW t \in Handlers, Returnable(s)',
                      cancelling'[s] = cancelling'[t]
               PROVE  s = t
    OBVIOUS
  <2>1. Returnable(t)'
    BY DEF Returnable
  <2>2. cancelling[s] = cancelling[t] /\ Returnable(s)
    BY <1>5, <2>1
  <2> QED
    BY <2>2 DEF LimiterInv
<1>8. LimiterTypeOK'
  <2>1. cancelling' \in [Handlers -> Reservation \cup {None}]
    BY <1>5 DEF Evict, Remove
  <2> QED
    BY <1>1, <2>1 DEF LimiterTypeOK, LimiterInv
<1> QED
  BY <1>4, <1>6, <1>7, <1>8 DEF LimiterInv

LEMMA LimiterSteps == LimiterInv /\ [LimiterNext]_limiterVars => LimiterInv'
<1> SUFFICES ASSUME LimiterInv, [LimiterNext]_limiterVars PROVE LimiterInv'
  OBVIOUS
<1>1. CASE UNCHANGED limiterVars
  BY <1>1 DEF limiterVars, LimiterInv, LimiterTypeOK, AddressFits, Reserved, Returnable
<1> QED
  BY <1>1, RateLimitPreserves, RefusePreserves, LimiterTickPreserves, EvictPreserves
  DEF LimiterNext

(* Buckets, reservations and the history stay typed.                       *)
THEOREM LimiterTyped == LimiterSpec => []LimiterTypeOK
<1>1. LimiterInv => LimiterTypeOK
  BY DEF LimiterInv
<1> QED
  BY <1>1, LimiterInitially, LimiterSteps, PTL DEF LimiterSpec

(* BurstBound: whatever the limiter's settings, as long as an idle bucket  *)
(* is refilled before it is evicted, an address is admitted the burst and  *)
(* what the rate allows in any stretch of time, however reservations,      *)
(* cancellations and evictions interleave.                                 *)
THEOREM BurstBounded == LimiterSpec => []BurstBound
<1>1. ASSUME LimiterInv PROVE BurstBound
  <2> SUFFICES ASSUME NEW i \in Addresses, NEW span \in Spans
               PROVE  admitted[i][span] <= Burst + Allowed(span - 1)
    BY DEF BurstBound, Allowed
  <2>1. admitted[i][span] \in Nat /\ Burst \in Nat /\ Allowed(span - 1) \in Int
    BY <1>1, SpanFacts, LimiterAssumption DEF LimiterInv, LimiterTypeOK
  <2>2. CASE limiters[i] = None
    BY <1>1, <2>1, <2>2 DEF LimiterInv, AddressFits, FitsFull
  <2>3. CASE limiters[i] # None
    <3>1. limiters[i] \in Bucket /\ Fits(limiters[i], admitted[i])
      BY <1>1, <2>3 DEF LimiterInv, AddressFits, LimiterTypeOK
    <3>2. Larger(0, limiters[i].tokens) \in Nat
      BY <3>1 DEF Larger, Bucket
    <3>3. admitted[i][span] + Larger(0, limiters[i].tokens) <= Burst + Allowed(span - 1)
      BY <3>1 DEF Fits
    <3> QED
      BY <2>1, <3>2, <3>3
  <2> QED
    BY <2>2, <2>3
<1>2. LimiterInv => BurstBound
  BY <1>1
<1> QED
  BY <1>2, LimiterInitially, LimiterSteps, PTL DEF LimiterSpec

-----------------------------------------------------------------------------
(* The lockout                                                             *)

(* A request is a wrong one until it is verified or refused.               *)
Unverified(t) == at[t] \in {"email", "ip", "verify"} => login[t].kind = "wrong"

LockoutInv ==
  /\ LockoutTypeOK /\ IsFiniteSet(Rows) /\ \A t \in Handlers : Unverified(t)
  /\ ThresholdHolds

Handling(t) ==
  IF at[t] = "idle" THEN login[t] = None ELSE login[t] \in LoginRequest

LEMMA HandlersFinite ==
  /\ IsFiniteSet(Handlers) /\ Cardinality(Handlers) \in Nat
  /\ \A e : /\ IsFiniteSet(Trying(e)) /\ Cardinality(Trying(e)) \in Nat
            /\ Cardinality(Trying(e)) <= Cardinality(Handlers)
<1>1. IsFiniteSet(Handlers)
  BY LockoutAssumption
<1>2. \A e : Trying(e) \in SUBSET Handlers
  BY DEF Trying
<1> QED
  BY <1>1, <1>2, FS_Subset, FS_CardinalityType

LEMMA RowsFinite ==
  ASSUME IsFiniteSet(Rows), NEW ids \in SUBSET Rows
  PROVE  IsFiniteSet(ids) /\ Cardinality(ids) \in Nat
BY FS_Subset, FS_CardinalityType

LEMMA RejectedAreRows == \A e : Rejected(e) \in SUBSET Rows
BY DEF Rejected, OfEmail, FailuresSince

(* The identity of a new row is one that no row has.                       *)
LEMMA NewIdIsNew ==
  ASSUME IsFiniteSet(Rows) PROVE NewId \in Nat \ {0} /\ NewId \notin Rows
<1> DEFINE n == Cardinality(Rows)
<1>1. n \in Nat
  BY FS_CardinalityType
<1>2. \E id \in 1..(n + 1) : id \notin Rows
  <2> SUFFICES ASSUME 1..(n + 1) \subseteq Rows PROVE FALSE
    OBVIOUS
  <2>1. Cardinality(1..(n + 1)) <= n
    BY FS_Subset
  <2>2. Cardinality(1..(n + 1)) = n + 1
    BY <1>1, FS_Interval
  <2> QED
    BY <1>1, <2>1, <2>2
<1>3. NewId \in 1..(n + 1) /\ NewId \notin Rows
  BY <1>2 DEF NewId
<1> HIDE DEF n
<1> QED
  BY <1>1, <1>3

(* Rows that leave the window, and requests that give up, lower the count. *)
LEMMA FewerTried ==
  ASSUME LockoutInv, NEW e \in Emails,
         Rejected(e)' \subseteq Rejected(e), Trying(e)' \subseteq Trying(e)
  PROVE  Tried(e)' <= EmailMax + Cardinality(Handlers) - 1
<1>1. /\ IsFiniteSet(Rejected(e)) /\ Cardinality(Rejected(e)) \in Nat
      /\ IsFiniteSet(Trying(e)) /\ Cardinality(Trying(e)) \in Nat
      /\ Cardinality(Handlers) \in Nat
  BY RejectedAreRows, RowsFinite, HandlersFinite DEF LockoutInv
<1>2. /\ Cardinality(Rejected(e)') <= Cardinality(Rejected(e))
      /\ Cardinality(Trying(e)') <= Cardinality(Trying(e))
      /\ Cardinality(Rejected(e)') \in Nat /\ Cardinality(Trying(e)') \in Nat
  BY <1>1, FS_Subset, FS_CardinalityType
<1>3. Tried(e) <= EmailMax + Cardinality(Handlers) - 1
  BY DEF LockoutInv, ThresholdHolds
<1> QED
  BY <1>1, <1>2, <1>3, LockoutAssumption DEF Tried

LEMMA MaxOfBounded ==
  ASSUME NEW w \in Nat, NEW S \in SUBSET (0..w), S # {}
  PROVE  Max(S) \in S
<1> DEFINE T == {w - x : x \in S}
<1>0. \A x \in S : x \in Nat /\ x <= w /\ w - x \in Nat
  OBVIOUS
<1>1. T \subseteq Nat /\ T # {}
  BY <1>0
<1>2. \E m \in T : \A n \in T : ~(<<n, m>> \in OpToRel(<, Nat))
  BY <1>1, WFMin, NatLessThanWellFounded
<1>3. PICK m \in T : \A n \in T : ~(n < m)
  BY <1>1, <1>2 DEF OpToRel
<1>4. PICK x \in S : m = w - x
  BY <1>3
<1>5. \A y \in S : x >= y
  <2>1. ASSUME NEW y \in S PROVE x >= y
    <3>1. w - y \in T
      OBVIOUS
    <3>2. ~(w - y < w - x)
      BY <1>3, <1>4, <3>1
    <3> QED
      BY <1>0, <1>4, <3>2
  <2> QED
    BY <2>1
<1> QED
  BY <1>5 DEF Max

(* A Retry-After ends after the window and not before the next tick.       *)
LEMMA RetryAfterTyped ==
  ASSUME LockoutInv, NEW ids \in SUBSET Rows, ids # {}, NEW window \in Nat,
         \A id \in ids : attempts[id].age <= window
  PROVE  RetryAfter(ids, window) \in 1..(window + 1)
<1> DEFINE S == {attempts[id].age : id \in ids}
<1>1. \A id \in ids : attempts[id].age \in Nat
  BY DEF LockoutInv, LockoutTypeOK, Attempt
<1>2. S \in SUBSET (0..window) /\ S # {}
  BY <1>1
<1>3. Max(S) \in S
  BY <1>2, MaxOfBounded
<1>4. RetryAfter(ids, window) = window + 1 - Max(S)
  BY DEF RetryAfter
<1> HIDE DEF S
<1>5. Max(S) \in 0..window
  BY <1>2, <1>3
<1> QED
  BY <1>4, <1>5

Deadlines == 0..(Larger(EmailWindow, IPWindow) + 1) \cup {None}

LEMMA RefusalTyped ==
  ASSUME LockoutInv, NEW e, NEW i
  PROVE  /\ EmailLocked(e) => RetryAfter(OfEmail(e), EmailWindow) \in Deadlines
         /\ IPLocked(i) => RetryAfter(OfIP(i), IPWindow) \in Deadlines
<1>1. /\ OfEmail(e) \in SUBSET Rows /\ \A id \in OfEmail(e) : attempts[id].age <= EmailWindow
      /\ OfIP(i) \in SUBSET Rows /\ \A id \in OfIP(i) : attempts[id].age <= IPWindow
  BY DEF OfEmail, OfIP, FailuresSince
<1>2. Cardinality({}) = 0 /\ EmailMax > 0 /\ IPMax > 0 /\ EmailMax \in Nat /\ IPMax \in Nat
  BY FS_EmptySet, LockoutAssumption
<1>3. /\ EmailLocked(e) => OfEmail(e) # {}
      /\ IPLocked(i) => OfIP(i) # {}
  BY <1>2 DEF EmailLocked, IPLocked
<1>4. EmailWindow \in Nat /\ IPWindow \in Nat
  BY LockoutAssumption
<1>5. /\ 1..(EmailWindow + 1) \subseteq Deadlines /\ 1..(IPWindow + 1) \subseteq Deadlines
  BY <1>4 DEF Deadlines, Larger
<1> QED
  BY <1>1, <1>3, <1>4, <1>5, RetryAfterTyped

Places == {"idle", "email", "ip", "verify", "record", "reset"}

OthersWait(t) == \A x \in Handlers \ {t} : at'[x] = at[x] /\ login'[x] = login[x]

TableTyped ==
  /\ Rows \subseteq Nat \ {0} /\ attempts \in [Rows -> Attempt] /\ IsFiniteSet(Rows)
  /\ \A id \in Rows : attempts[id].age <= Retention + 1

(* What is left of the invariant after the step of one handler.            *)
LEMMA HandlerStep ==
  ASSUME NEW t \in Handlers, LockoutInv, OthersWait(t),
         at' \in [Handlers -> Places], login' \in [Handlers -> LoginRequest \cup {None}],
         Handling(t)', Unverified(t)', TableTyped',
         told' \in [Patient \X Addresses -> Deadlines],
         \A e \in Emails : Tried(e)' <= EmailMax + Cardinality(Handlers) - 1
  PROVE  LockoutInv'
<1>1. \A x \in Handlers : Handling(x)' /\ Unverified(x)'
  BY DEF OthersWait, LockoutInv, LockoutTypeOK, Handling, Unverified
<1>2. ThresholdHolds'
  BY DEF ThresholdHolds
<1> QED
  BY <1>1, <1>2 DEF LockoutInv, LockoutTypeOK, Handling, Places, TableTyped, Deadlines

(* A request about the same email and address, elsewhere or of another     *)
(* outcome.                                                                *)
LEMMA Answering ==
  ASSUME NEW t \in Handlers, LockoutInv, LoginDone(t)
  PROVE  /\ OthersWait(t) /\ at' \in [Handlers -> Places]
         /\ login' \in [Handlers -> LoginRequest \cup {None}]
         /\ Handling(t)' /\ Unverified(t)' /\ at'[t] = "idle"
         /\ \A e : Trying(e)' = Trying(e) \ {t}
<1>1. /\ at' = [at EXCEPT ![t] = "idle"] /\ login' = [login EXCEPT ![t] = None]
      /\ at \in [Handlers -> Places] /\ login \in [Handlers -> LoginRequest \cup {None}]
  BY DEF LoginDone, LockoutInv, LockoutTypeOK, Places
<1>2. OthersWait(t) /\ at'[t] = "idle" /\ login'[t] = None
  BY <1>1 DEF OthersWait
<1>3. \A e : Trying(e)' = Trying(e) \ {t}
  BY <1>2 DEF Trying, OthersWait
<1> QED
  BY <1>1, <1>2, <1>3 DEF Handling, Unverified, Places

(* t goes on, with another kind of outcome or the same.                    *)
LEMMA Moving ==
  ASSUME NEW t \in Handlers, LockoutInv, at[t] # "idle", NEW step \in Places, step # "idle",
         NEW kind \in Outcomes, Proceed(t, step),
         login' = [login EXCEPT ![t].kind = kind],
         step \in {"email", "ip", "verify"} => kind = "wrong"
  PROVE  /\ OthersWait(t) /\ at' \in [Handlers -> Places]
         /\ login' \in [Handlers -> LoginRequest \cup {None}]
         /\ Handling(t)' /\ Unverified(t)'
         /\ at'[t] = step /\ login[t] \in LoginRequest
         /\ login'[t].kind = kind /\ login'[t].email = login[t].email
<1> DEFINE r == [login[t] EXCEPT !.kind = kind]
<1>1. /\ at' = [at EXCEPT ![t] = step] /\ login' = [login EXCEPT ![t] = r]
      /\ at \in [Handlers -> Places] /\ login \in [Handlers -> LoginRequest \cup {None}]
      /\ login[t] \in LoginRequest
  BY DEF Proceed, LockoutInv, LockoutTypeOK, Places
<1>2. r \in LoginRequest /\ r.kind = kind /\ r.email = login[t].email
  BY <1>1 DEF LoginRequest
<1> HIDE DEF r
<1>3. OthersWait(t) /\ at'[t] = step /\ login'[t] = r
  BY <1>1 DEF OthersWait
<1> QED
  BY <1>1, <1>2, <1>3 DEF Handling, Unverified, Places

(* Waiting with the outcome it has.                                        *)
LEMMA Waiting ==
  ASSUME NEW t \in Handlers, LockoutInv, at[t] # "idle", NEW step \in Places, step # "idle",
         Proceed(t, step), UNCHANGED login,
         step \in {"email", "ip", "verify"} => login[t].kind = "wrong"
  PROVE  /\ OthersWait(t) /\ at' \in [Handlers -> Places]
         /\ login' \in [Handlers -> LoginRequest \cup {None}]
         /\ Handling(t)' /\ Unverified(t)'
         /\ at'[t] = step /\ login[t] \in LoginRequest /\ login'[t] = login[t]
BY DEF Proceed, LockoutInv, LockoutTypeOK, Places, OthersWait, Handling, Unverified

(* The table as it was.                                                    *)
LEMMA SameTable ==
  ASSUME LockoutInv, UNCHANGED attempts
  PROVE  /\ TableTyped' /\ \A e : Rejected(e)' = Rejected(e)
BY DEF LockoutInv, LockoutTypeOK, TableTyped, Rows, Rejected, OfEmail, FailuresSince

LEMMA LoginPreserves ==
  ASSUME NEW t \in Handlers, NEW e \in Emails, NEW i \in Addresses, LockoutInv, Login(t, e, i)
  PROVE  LockoutInv'
<1>1. PICK good \in BOOLEAN :
        login' = [login EXCEPT ![t] = [email |-> e, ip |-> i, good |-> good,
                    waited |-> e \in Patient /\ told[<<e, i>>] = 0, kind |-> "wrong"]]
  BY DEF Login
<1> DEFINE r == [email |-> e, ip |-> i, good |-> good,
                 waited |-> e \in Patient /\ told[<<e, i>>] = 0, kind |-> "wrong"]
<1>2. r \in LoginRequest /\ r.kind = "wrong"
  BY DEF LoginRequest, Outcomes
<1>3. login' = [login EXCEPT ![t] = r]
  BY <1>1
<1> HIDE DEF r
<1>4. at[t] = "idle" /\ at' = [at EXCEPT ![t] = "email"] /\ UNCHANGED attempts
  BY DEF Login, Proceed
<1>5. at \in [Handlers -> Places] /\ login \in [Handlers -> LoginRequest \cup {None}]
  BY DEF LockoutInv, LockoutTypeOK, Places
<1>6. /\ OthersWait(t) /\ at' \in [Handlers -> Places]
      /\ login' \in [Handlers -> LoginRequest \cup {None}]
      /\ at'[t] = "email" /\ login'[t] = r
  BY <1>2, <1>3, <1>4, <1>5 DEF OthersWait, Places
<1>7. Handling(t)' /\ Unverified(t)'
  BY <1>2, <1>6 DEF Handling, Unverified
<1>8. told' \in [Patient \X Addresses -> Deadlines]
  BY DEF Login, LockoutInv, LockoutTypeOK, Deadlines
<1>9. \A f \in Emails : Trying(f)' \subseteq Trying(f)
  BY <1>6 DEF Trying, OthersWait
<1> QED
  BY <1>4, <1>6, <1>7, <1>8, <1>9, SameTable, FewerTried, HandlerStep

(* An attempt that ends in Check is recorded, and is no wrong one.         *)
LEMMA EndingInCheck ==
  ASSUME NEW t \in Handlers, LockoutInv, at[t] # "idle", NEW kind \in Outcomes, kind # "wrong",
         Proceed(t, "record"), login' = [login EXCEPT ![t].kind = kind], UNCHANGED attempts,
         told' \in [Patient \X Addresses -> Deadlines]
  PROVE  LockoutInv'
<1>1. /\ OthersWait(t) /\ at' \in [Handlers -> Places]
      /\ login' \in [Handlers -> LoginRequest \cup {None}]
      /\ Handling(t)' /\ Unverified(t)'
      /\ at'[t] = "record" /\ login'[t].kind = kind
  BY Moving DEF Places
<1>2. \A e : Trying(e)' \subseteq Trying(e)
  BY <1>1 DEF Trying, OthersWait
<1> QED
  BY <1>1, <1>2, SameTable, FewerTried, HandlerStep

LEMMA Refusing ==
  ASSUME NEW t \in Handlers, LockoutInv, at[t] # "idle", NEW after \in Deadlines,
         RefuseLogin(t, after), UNCHANGED attempts
  PROVE  LockoutInv'
<1>1. /\ Proceed(t, "record") /\ login' = [login EXCEPT ![t].kind = "blocked"]
      /\ told' = [p \in DOMAIN told |->
                    IF p = <<login[t].email, login[t].ip>> THEN after ELSE told[p]]
  BY DEF RefuseLogin
<1>2. told' \in [Patient \X Addresses -> Deadlines]
  BY <1>1 DEF LockoutInv, LockoutTypeOK, Deadlines
<1> QED
  BY <1>1, <1>2, EndingInCheck DEF Outcomes

LEMMA ToldTyped == LockoutInv => told \in [Patient \X Addresses -> Deadlines]
BY DEF LockoutInv, LockoutTypeOK, Deadlines

LEMMA Failing ==
  ASSUME NEW t \in Handlers, LockoutInv, at[t] # "idle", FailCheck(t), UNCHANGED attempts
  PROVE  LockoutInv'
BY ToldTyped, EndingInCheck DEF FailCheck, Outcomes

(* The check lets an attempt through below the threshold; those that go    *)
(* with it are at most the other handlers.                                 *)
LEMMA CheckEmailPreserves ==
  ASSUME NEW t \in Handlers, LockoutInv, CheckEmail(t) PROVE LockoutInv'
<1> DEFINE e == login[t].email
<1>1. at[t] = "email" /\ UNCHANGED attempts
  BY DEF CheckEmail
<1>2. CASE EmailLocked(e) /\ ~FailCheck(t)
  BY <1>1, <1>2, RefusalTyped, Refusing DEF CheckEmail
<1>3. CASE FailCheck(t)
  BY <1>1, <1>3, Failing
<1>4. CASE ~EmailLocked(e) /\ ~FailCheck(t)
  <2>1. Proceed(t, "ip") /\ UNCHANGED <<login, told>> /\ login[t].kind = "wrong"
    BY <1>1, <1>4 DEF CheckEmail, LockoutInv, Unverified
  <2>2. /\ OthersWait(t) /\ at' \in [Handlers -> Places]
        /\ login' \in [Handlers -> LoginRequest \cup {None}]
        /\ Handling(t)' /\ Unverified(t)' /\ at'[t] = "ip" /\ login'[t] = login[t]
    BY <1>1, <2>1, Waiting DEF Places
  <2>3. TableTyped' /\ \A f : Rejected(f)' = Rejected(f)
    BY <1>1, SameTable
  <2>4. ASSUME NEW f \in Emails PROVE Tried(f)' <= EmailMax + Cardinality(Handlers) - 1
    <3>1. CASE f # e
      <4>1. Trying(f)' \subseteq Trying(f)
        BY <2>2, <3>1 DEF Trying, OthersWait
      <4> QED
        BY <2>3, <4>1, FewerTried
    <3>2. CASE f = e
      <4>1. /\ Cardinality(Rejected(f)) <= Cardinality(OfEmail(f))
            /\ Cardinality(Rejected(f)) \in Nat /\ Cardinality(OfEmail(f)) \in Nat
        <5>1. OfEmail(f) \in SUBSET Rows /\ Rejected(f) \in SUBSET OfEmail(f)
          BY DEF OfEmail, FailuresSince, Rejected
        <5>2. IsFiniteSet(OfEmail(f)) /\ Cardinality(OfEmail(f)) \in Nat
          BY <5>1, RowsFinite DEF LockoutInv
        <5> QED
          BY <5>1, <5>2, FS_Subset, FS_CardinalityType
      <4>2. Cardinality(OfEmail(f)) < EmailMax /\ EmailMax \in Nat
        BY <1>4, <3>2, <4>1, LockoutAssumption DEF EmailLocked
      <4>3. /\ Cardinality(Trying(f)') <= Cardinality(Handlers)
            /\ Cardinality(Trying(f)') \in Nat /\ Cardinality(Handlers) \in Nat
        <5>1. Trying(f)' \in SUBSET Handlers
          BY DEF Trying
        <5> QED
          BY <5>1, HandlersFinite, FS_Subset, FS_CardinalityType
      <4> QED
        BY <2>3, <4>1, <4>2, <4>3 DEF Tried
    <3> QED
      BY <3>1, <3>2
  <2> QED
    BY <2>1, <2>2, <2>3, <2>4, ToldTyped, HandlerStep
<1> QED
  BY <1>2, <1>3, <1>4

LEMMA CheckIPPreserves ==
  ASSUME NEW t \in Handlers, LockoutInv, CheckIP(t) PROVE LockoutInv'
<1>1. at[t] = "ip" /\ UNCHANGED attempts
  BY DEF CheckIP
<1>2. CASE IPLocked(login[t].ip) /\ ~FailCheck(t)
  BY <1>1, <1>2, RefusalTyped, Refusing DEF CheckIP
<1>3. CASE FailCheck(t)
  BY <1>1, <1>3, Failing
<1>4. CASE ~IPLocked(login[t].ip) /\ ~FailCheck(t)
  <2>1. Proceed(t, "verify") /\ UNCHANGED <<login, told>> /\ login[t].kind = "wrong"
    BY <1>1, <1>4 DEF CheckIP, LockoutInv, Unverified
  <2>2. /\ OthersWait(t) /\ at' \in [Handlers -> Places]
        /\ login' \in [Handlers -> LoginRequest \cup {None}]
        /\ Handling(t)' /\ Unverified(t)' /\ at'[t] = "verify" /\ login'[t] = login[t]
    BY <1>1, <2>1, Waiting DEF Places
  <2>3. \A e : Trying(e)' \subseteq Trying(e)
    BY <1>1, <2>2 DEF Trying, OthersWait
  <2> QED
    BY <1>1, <2>1, <2>2, <2>3, ToldTyped, SameTable, FewerTried, HandlerStep
<1> QED
  BY <1>2, <1>3, <1>4

LEMMA VerifyPreserves ==
  ASSUME NEW t \in Handlers, LockoutInv, Verify(t) PROVE LockoutInv'
<1> DEFINE kind == IF login[t].good THEN "ok" ELSE "wrong"
<1>1. /\ at[t] = "verify" /\ UNCHANGED <<attempts, told>> /\ Proceed(t, "record")
      /\ login' = [login EXCEPT ![t].kind = kind] /\ login[t].kind = "wrong"
  BY DEF Verify, LockoutInv, Unverified
<1>2. kind \in Outcomes
  BY DEF Outcomes
<1> HIDE DEF kind
<1>3. /\ OthersWait(t) /\ at' \in [Handlers -> Places]
      /\ login' \in [Handlers -> LoginRequest \cup {None}]
      /\ Handling(t)' /\ Unverified(t)'
      /\ at'[t] = "record" /\ login'[t].email = login[t].email
  BY <1>1, <1>2, Moving DEF Places
<1>4. \A e : Trying(e)' \subseteq Trying(e)
  BY <1>1, <1>3 DEF Trying, OthersWait
<1> QED
  BY <1>1, <1>3, <1>4, ToldTyped, SameTable, FewerTried, HandlerStep

(* A row about the attempt takes its place in the count.                   *)
LEMMA RecordPreserves ==
  ASSUME NEW t \in Handlers, LockoutInv, Record(t) PROVE LockoutInv'
<1> DEFINE r == login[t]
           new == [email |-> r.email, ip |-> r.ip, kind |-> r.kind, age |-> 0]
<1>1. at[t] = "record" /\ told' = told /\ r \in LoginRequest
  BY DEF Record, LockoutInv, LockoutTypeOK
<1>2. new \in Attempt /\ new.age = 0 /\ new.kind = r.kind /\ new.email = r.email
  BY <1>1 DEF LoginRequest, Attempt
<1>3. /\ OthersWait(t) /\ at' \in [Handlers -> Places]
      /\ login' \in [Handlers -> LoginRequest \cup {None}] /\ Handling(t)' /\ Unverified(t)'
      /\ \A e : Trying(e)' = Trying(e) \ {t}
  <2>1. CASE LoginDone(t)
    BY <2>1, Answering
  <2>2. CASE ~LoginDone(t)
    <3>1. Proceed(t, "reset") /\ UNCHANGED login
      BY <2>2 DEF Record
    <3>2. /\ OthersWait(t) /\ at' \in [Handlers -> Places]
          /\ login' \in [Handlers -> LoginRequest \cup {None}] /\ Handling(t)' /\ Unverified(t)'
          /\ at'[t] = "reset"
      BY <1>1, <3>1, Waiting DEF Places
    <3>3. \A e : Trying(e)' = Trying(e) \ {t}
      BY <3>2 DEF Trying, OthersWait
    <3> QED
      BY <3>2, <3>3
  <2> QED
    BY <2>1, <2>2
<1>4. CASE UNCHANGED attempts
  BY <1>1, <1>3, <1>4, ToldTyped, SameTable, FewerTried, HandlerStep
<1>5. CASE attempts' = [id \in Rows \cup {NewId} |-> IF id \in Rows THEN attempts[id] ELSE new]
  <2> HIDE DEF new
  <2>1. NewId \in Nat \ {0} /\ NewId \notin Rows
    BY NewIdIsNew DEF LockoutInv
  <2>2. /\ Rows' = Rows \cup {NewId} /\ attempts'[NewId] = new
        /\ \A id \in Rows : attempts'[id] = attempts[id]
    BY <1>5, <2>1 DEF Rows
  <2>3. TableTyped'
    <3>1. IsFiniteSet(Rows')
      BY <2>2, FS_AddElement DEF LockoutInv
    <3>2. attempts' \in [Rows' -> Attempt] /\ Rows' \subseteq Nat \ {0}
      BY <1>2, <1>5, <2>1, <2>2 DEF LockoutInv, LockoutTypeOK
    <3>3. 0 <= Retention + 1
      BY LockoutAssumption DEF Retention, Larger
    <3>4. \A id \in Rows' : attempts'[id].age <= Retention + 1
      BY <1>2, <2>2, <3>3 DEF LockoutInv, LockoutTypeOK
    <3> QED
      BY <3>1, <3>2, <3>4 DEF TableTyped
  <2>4. ASSUME NEW e \in Emails PROVE Tried(e)' <= EmailMax + Cardinality(Handlers) - 1
    <3>1. Rejected(e)' \subseteq Rejected(e) \cup {NewId}
      BY <2>2 DEF Rejected, OfEmail, FailuresSince
    <3>2. CASE t \in Trying(e)
      <4>1. /\ IsFiniteSet(Rejected(e)) /\ Cardinality(Rejected(e)) \in Nat
            /\ IsFiniteSet(Trying(e)) /\ Cardinality(Trying(e)) \in Nat
            /\ Cardinality(Handlers) \in Nat
        BY RejectedAreRows, RowsFinite, HandlersFinite DEF LockoutInv
      <4>2. Cardinality(Trying(e)') = Cardinality(Trying(e)) - 1
        BY <1>3, <3>2, <4>1, FS_RemoveElement
      <4>3. /\ IsFiniteSet(Rejected(e) \cup {NewId})
            /\ Cardinality(Rejected(e) \cup {NewId}) <= Cardinality(Rejected(e)) + 1
        <5>1. NewId \notin Rejected(e)
          BY <2>1, RejectedAreRows DEF LockoutInv
        <5>2. /\ IsFiniteSet(Rejected(e) \cup {NewId})
              /\ Cardinality(Rejected(e) \cup {NewId}) = Cardinality(Rejected(e)) + 1
          BY <4>1, <5>1, FS_AddElement
        <5> QED
          BY <4>1, <5>2
      <4>4. /\ Cardinality(Rejected(e)') <= Cardinality(Rejected(e)) + 1
            /\ Cardinality(Rejected(e)') \in Nat
        BY <3>1, <4>1, <4>3, FS_Subset, FS_CardinalityType
      <4>5. Tried(e) <= EmailMax + Cardinality(Handlers) - 1
        BY DEF LockoutInv, ThresholdHolds
      <4> QED
        BY <4>1, <4>2, <4>4, <4>5, LockoutAssumption DEF Tried
    <3>3. CASE t \notin Trying(e)
      <4>1. r.email # e \/ r.kind # "wrong"
        BY <1>1, <3>3 DEF Trying
      <4>2. Rejected(e)' \subseteq Rejected(e)
        BY <1>2, <2>1, <2>2, <3>1, <4>1 DEF Rejected, OfEmail, FailuresSince
      <4>3. Trying(e)' \subseteq Trying(e)
        BY <1>3
      <4> QED
        BY <4>2, <4>3, FewerTried
    <3> QED
      BY <3>2, <3>3
  <2> QED
    BY <1>1, <1>3, <2>3, <2>4, ToldTyped, HandlerStep
<1> QED
  BY <1>4, <1>5 DEF Record

(* Deleting rows changes nothing about those that stay.                    *)
LEMMA Kept ==
  ASSUME LockoutInv, NEW ids \in SUBSET Rows, attempts' = Keep(ids)
  PROVE  /\ TableTyped' /\ Rows' = ids
         /\ \A id \in ids : attempts'[id] = attempts[id]
         /\ \A e : Rejected(e)' \subseteq Rejected(e)
<1>1. attempts' = [id \in ids |-> attempts[id]]
  BY DEF Keep, Restrict
<1>2. Rows' = ids /\ \A id \in ids : attempts'[id] = attempts[id]
  BY <1>1 DEF Rows
<1>3. IsFiniteSet(ids)
  BY RowsFinite DEF LockoutInv
<1>4. attempts' \in [ids -> Attempt]
  BY <1>1 DEF LockoutInv, LockoutTypeOK
<1>5. TableTyped'
  BY <1>2, <1>3, <1>4 DEF TableTyped, LockoutInv, LockoutTypeOK
<1>6. \A e : Rejected(e)' \subseteq Rejected(e)
  BY <1>2 DEF Rejected, OfEmail, FailuresSince
<1> QED
  BY <1>2, <1>5, <1>6

LEMMA ResetPreserves ==
  ASSUME NEW t \in Handlers, LockoutInv, ResetByEmail(t) PROVE LockoutInv'
<1>1. LoginDone(t) /\ told' = told
  BY DEF ResetByEmail
<1>2. /\ OthersWait(t) /\ at' \in [Handlers -> Places]
      /\ login' \in [Handlers -> LoginRequest \cup {None}] /\ Handling(t)' /\ Unverified(t)'
      /\ \A e : Trying(e)' \subseteq Trying(e)
  BY <1>1, Answering
<1>3. TableTyped' /\ \A e : Rejected(e)' \subseteq Rejected(e)
  <2> DEFINE ids == {id \in Rows : \/ attempts[id].email # login[t].email
                                   \/ attempts[id].kind = "ok"}
  <2>1. UNCHANGED attempts \/ attempts' = Keep(ids)
    BY DEF ResetByEmail
  <2>2. ids \in SUBSET Rows
    OBVIOUS
  <2> HIDE DEF ids
  <2> QED
    BY <2>1, <2>2, Kept, SameTable
<1> QED
  BY <1>1, <1>2, <1>3, ToldTyped, FewerTried, HandlerStep

LEMMA AbortPreserves ==
  ASSUME NEW t \in Handlers, LockoutInv, AbortLogin(t) PROVE LockoutInv'
<1>1. LoginDone(t) /\ UNCHANGED <<attempts, told>>
  BY DEF AbortLogin
<1> QED
  BY <1>1, Answering, ToldTyped, SameTable, FewerTried, HandlerStep

(* The clock and the clean-up move no handler.                             *)
LEMMA TableStep ==
  ASSUME LockoutInv, UNCHANGED <<at, login>>, TableTyped',
         told' \in [Patient \X Addresses -> Deadlines],
         \A e : Rejected(e)' \subseteq Rejected(e)
  PROVE  LockoutInv'
<1>1. \A e : Trying(e)' \subseteq Trying(e)
  BY DEF Trying
<1>2. \A t \in Handlers : Unverified(t)'
  BY DEF LockoutInv, Unverified
<1>3. ThresholdHolds'
  BY <1>1, FewerTried DEF ThresholdHolds
<1> QED
  BY <1>2, <1>3 DEF LockoutInv, LockoutTypeOK, TableTyped, Deadlines

LEMMA LockoutTickPreserves ==
  ASSUME LockoutInv, LockoutTick PROVE LockoutInv'
<1> DEFINE Older(age) == IF age > Retention THEN age ELSE age + 1
<1>1. /\ Retention \in Nat /\ EmailWindow \in Nat /\ IPWindow \in Nat
  BY LockoutAssumption DEF Retention, Larger
<1>2. Rows' = Rows /\ DOMAIN attempts' = Rows
  BY DEF LockoutTick, Rows
<1>3. ASSUME NEW id \in Rows
      PROVE  /\ attempts'[id] \in Attempt /\ attempts'[id].age <= Retention + 1
             /\ attempts'[id].email = attempts[id].email
             /\ attempts'[id].kind = attempts[id].kind
             /\ attempts[id].age <= attempts'[id].age
  <2>1. attempts[id] \in Attempt /\ attempts[id].age <= Retention + 1
    BY DEF LockoutInv, LockoutTypeOK
  <2> DEFINE age == Older(attempts[id].age)
  <2>2. age \in Nat /\ age <= Retention + 1 /\ attempts[id].age <= age
    BY <1>1, <2>1 DEF Attempt
  <2>3. attempts'[id] = [attempts[id] EXCEPT !.age = age]
    BY DEF LockoutTick
  <2> HIDE DEF age
  <2> QED
    BY <2>1, <2>2, <2>3 DEF Attempt
<1>4. attempts' \in [Rows -> Attempt]
  BY <1>3 DEF LockoutTick
<1>5. TableTyped'
  BY <1>2, <1>3, <1>4 DEF TableTyped, LockoutInv, LockoutTypeOK
<1>6. \A e : Rejected(e)' \subseteq Rejected(e)
  <2>1. \A id \in Rows : attempts'[id].age <= EmailWindow => attempts[id].age <= EmailWindow
    BY <1>1, <1>3 DEF LockoutInv, LockoutTypeOK, Attempt
  <2> QED
    BY <1>2, <1>3, <2>1 DEF Rejected, OfEmail, FailuresSince
<1>7. told' \in [Patient \X Addresses -> Deadlines]
  <2>1. told \in [Patient \X Addresses -> Deadlines]
    BY ToldTyped
  <2>2. Larger(EmailWindow, IPWindow) + 1 \in Nat
    BY <1>1 DEF Larger
  <2>3. \A d \in Deadlines : d \notin {None, 0} => d - 1 \in Deadlines
    BY <2>2 DEF Deadlines
  <2> QED
    BY <2>1, <2>3 DEF LockoutTick
<1> QED
  BY <1>5, <1>6, <1>7, TableStep DEF LockoutTick

LEMMA DeletePreserves ==
  ASSUME LockoutInv, DeleteOlderThan PROVE LockoutInv'
<1> DEFINE ids == {id \in Rows : attempts[id].age <= Retention}
<1>1. ids \in SUBSET Rows /\ attempts' = Keep(ids) /\ UNCHANGED <<at, login, told>>
  BY DEF DeleteOlderThan
<1> HIDE DEF ids
<1> QED
  BY <1>1, Kept, ToldTyped, TableStep

LEMMA LockoutInitially == LockoutInit => LockoutInv
<1> SUFFICES ASSUME LockoutInit PROVE LockoutInv
  OBVIOUS
<1>1. Rows = {}
  BY DEF LockoutInit, Rows
<1>2. LockoutTypeOK
  BY <1>1 DEF LockoutInit, LockoutTypeOK
<1>3. IsFiniteSet(Rows) /\ Cardinality({}) = 0
  BY <1>1, FS_EmptySet
<1>4. \A t \in Handlers : Unverified(t)
  BY DEF LockoutInit, Unverified
<1>5. ASSUME NEW e \in Emails PROVE Tried(e) <= EmailMax + Cardinality(Handlers) - 1
  <2>1. Rejected(e) = {} /\ Trying(e) = {}
    BY <1>1 DEF LockoutInit, Rejected, OfEmail, FailuresSince, Trying
  <2>2. EmailMax \in Nat \ {0} /\ Cardinality(Handlers) \in Nat
    BY LockoutAssumption, HandlersFinite
  <2> QED
    BY <1>3, <2>1, <2>2 DEF Tried
<1> QED
  BY <1>2, <1>3, <1>4, <1>5 DEF LockoutInv, ThresholdHolds

LEMMA LockoutSteps == LockoutInv /\ [LockoutNext]_lockoutVars => LockoutInv'
<1> SUFFICES ASSUME LockoutInv, [LockoutNext]_lockoutVars PROVE LockoutInv'
  OBVIOUS
<1>1. CASE UNCHANGED lockoutVars
  BY <1>1, ToldTyped, SameTable, TableStep DEF lockoutVars
<1>2. ASSUME NEW t \in Handlers, ServesLogin(t) \/ AbortLogin(t) PROVE LockoutInv'
  BY <1>2, CheckEmailPreserves, CheckIPPreserves, VerifyPreserves, RecordPreserves,
     ResetPreserves, AbortPreserves
  DEF ServesLogin
<1> QED
  BY <1>1, <1>2, LoginPreserves, LockoutTickPreserves, DeletePreserves DEF LockoutNext

LEMMA LockoutInvHolds == LockoutSpec => []LockoutInv
BY LockoutInitially, LockoutSteps, PTL DEF LockoutSpec

(* Attempts, requests and deadlines stay typed.                            *)
THEOREM LockoutTyped == LockoutSpec => []LockoutTypeOK
<1>1. LockoutInv => LockoutTypeOK
  BY DEF LockoutInv
<1> QED
  BY <1>1, LockoutInvHolds, PTL

(* ThresholdHolds: for every threshold, window and number of handlers, the *)
(* wrong passwords tried on an email within its window exceed the          *)
(* threshold by at most the attempts in flight but one.                    *)
THEOREM ThresholdKept == LockoutSpec => []ThresholdHolds
<1>1. LockoutInv => ThresholdHolds
  BY DEF LockoutInv
<1> QED
  BY <1>1, LockoutInvHolds, PTL

(* CleanupChangesNoVerdict: the retention is at least either window, so    *)
(* what the clean-up deletes no check would have counted.                  *)
THEOREM CleanupInvisible == LockoutSpec => CleanupChangesNoVerdict
<1>1. LockoutInv /\ [LockoutNext]_lockoutVars =>
        [DeleteOlderThan =>
           /\ \A e \in Emails : OfEmail(e)' = OfEmail(e)
           /\ \A i \in Addresses : OfIP(i)' = OfIP(i)]_lockoutVars
  <2> SUFFICES ASSUME LockoutInv, DeleteOlderThan
               PROVE  /\ \A e \in Emails : OfEmail(e)' = OfEmail(e)
                      /\ \A i \in Addresses : OfIP(i)' = OfIP(i)
    OBVIOUS
  <2> DEFINE ids == {id \in Rows : attempts[id].age <= Retention}
  <2>1. Rows' = ids /\ \A id \in ids : attempts'[id] = attempts[id]
    BY Kept DEF DeleteOlderThan
  <2>2. EmailWindow <= Retention /\ IPWindow <= Retention /\ Retention \in Nat
        /\ EmailWindow \in Nat /\ IPWindow \in Nat
    BY LockoutAssumption DEF Retention, Larger
  <2>3. \A id \in Rows :
          (attempts[id].age <= EmailWindow \/ attempts[id].age <= IPWindow) => id \in ids
    BY <2>2 DEF LockoutInv, LockoutTypeOK, Attempt
  <2>4. ids \subseteq Rows
    OBVIOUS
  <2> HIDE DEF ids
  <2> QED
    BY <2>1, <2>3, <2>4 DEF OfEmail, OfIP, FailuresSince
<1> QED
  BY <1>1, LockoutInvHolds, PTL DEF LockoutSpec, CleanupChangesNoVerdict

-----------------------------------------------------------------------------
(* The three that a stranger meets                                         *)

(* A step of the one that moves, or a stutter, is a step of each.          *)
LEMMA EachComponentSteps ==
  FrontDoorSpec => LimiterSpec /\ LockoutSpec /\ Spec
<1>1. FrontDoorInit => LimiterInit /\ LockoutInit /\ Init
  BY DEF FrontDoorInit
<1>2. [FrontDoorNext]_doorVars =>
        [LimiterNext]_limiterVars /\ [LockoutNext]_lockoutVars /\ [Next]_vars
  BY DEF FrontDoorNext, doorVars
<1> QED
  BY <1>1, <1>2, PTL DEF FrontDoorSpec, LimiterSpec, LockoutSpec, Spec

(* Type correctness of limiter, lockout and registration together.         *)
THEOREM FrontDoorTyped == FrontDoorSpec => []FrontDoorTypeOK
<1>1. LimiterTypeOK /\ LockoutTypeOK /\ InvitationsTypeOK => FrontDoorTypeOK
  BY DEF FrontDoorTypeOK
<1> QED
  BY <1>1, EachComponentSteps, LimiterTyped, LockoutTyped, InvitationsTyped, PTL
=============================================================================
