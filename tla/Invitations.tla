---------------------------- MODULE Invitations -----------------------------
(* Registration with an invitation: a handler locks the invitation row,    *)
(* inserts the user and accepts the invitation in one transaction, and     *)
(* signs the cookies after the commit. Several invitations may carry the   *)
(* same email: nothing but the unique index on users.email tells them      *)
(* apart.                                                                  *)
EXTENDS Backend, Sequences

CONSTANTS Ids,         \* invitations, one token each
          Roles,
          Lifetime,    \* the 48 hours, in ticks
          MaxTime      \* bound: the clock stops there

Invitation == [email: Emails, role: Roles, status: {"PENDING", "ACCEPTED"}, expires: Nat]

(* from is history: the invitation the account was made from.              *)
User == [email: Emails, role: Roles, from: Ids]

ASSUME InvitationAssumption ==
  /\ Lifetime \in Nat \ {0} /\ MaxTime \in Nat
  /\ None \notin Ids /\ None \notin Handlers
  /\ None \notin Invitation /\ None \notin User

VARIABLES invitations,   \* the table: a row per token that was handed out
          users,         \* the table, in the order of its ids
          holder,        \* per invitation: the handler that has its row locked
          pc, req,       \* per handler: its next statement; invitation and time
          inv,           \* per handler: the locked row, as it has changed it
          inserted,      \* per handler: its uncommitted user row
          clock

tables == <<invitations, users>>
vars == <<invitations, users, holder, pc, req, inv, inserted, clock>>

Goto(t, step) == pc' = [pc EXCEPT ![t] = step]

IsExpired(row, now) == now > row.expires
CanBeUsed(row, now) == row.status = "PENDING" /\ ~IsExpired(row, now)

Usable(i, now) == invitations[i] # None /\ CanBeUsed(invitations[i], now)

EmailTaken(e) == \E n \in DOMAIN users : users[n].email = e

(* Rows another transaction has inserted and not committed: an INSERT or   *)
(* UPDATE of the same email waits for the outcome.                         *)
EmailAwaited(e, t) ==
  \E o \in Handlers \ {t} : inserted[o] # None /\ inserted[o].email = e
-----------------------------------------------------------------------------
(* POST /invitations. No check for an account or another invitation.       *)
Create(i, e, r) ==
  /\ invitations[i] = None
  /\ invitations' = [invitations EXCEPT ![i] =
                       [email |-> e, role |-> r, status |-> "PENDING",
                        expires |-> clock + Lifetime]]
  /\ UNCHANGED <<users, holder, pc, req, inv, inserted, clock>>

(* PATCH /users: an account moves to another email.                        *)
UpdateEmail(n, e) ==
  /\ ~EmailTaken(e) /\ ~EmailAwaited(e, None)
  /\ users' = [users EXCEPT ![n].email = e]
  /\ UNCHANGED <<invitations, holder, pc, req, inv, inserted, clock>>

(* The password is hashed and the clock read before the transaction.       *)
Register(t, i) ==
  /\ pc[t] = "idle"
  /\ Goto(t, "lock")
  /\ req' = [req EXCEPT ![t] = [id |-> i, now |-> clock]]
  /\ UNCHANGED <<invitations, users, holder, inv, inserted, clock>>

(* End of the transaction: the row lock goes, the memory too.              *)
EndTx(t, step) ==
  /\ holder' = [i \in Ids |-> IF holder[i] = t THEN None ELSE holder[i]]
  /\ inv' = [inv EXCEPT ![t] = None] /\ inserted' = [inserted EXCEPT ![t] = None]
  /\ Goto(t, step)

(* The handler keeps the request it has answered (mutant).                 *)
DoneKeeping(t) == UNCHANGED req

Done(t) == req' = [req EXCEPT ![t] = None]

(* Any error: the transaction rolls back and the request is answered.      *)
Rollback(t) == EndTx(t, "idle") /\ Done(t) /\ UNCHANGED <<invitations, users, clock>>

(* GetByToken, without FOR UPDATE (mutant).                                *)
GetByTokenUnlocked(t) ==
  /\ pc[t] = "lock"
  /\ LET i == req[t].id
     IN  \/ /\ Usable(i, req[t].now)
            /\ inv' = [inv EXCEPT ![t] = invitations[i]]
            /\ Goto(t, "create")
            /\ UNCHANGED <<invitations, users, holder, req, inserted, clock>>
         \/ ~Usable(i, req[t].now) /\ Rollback(t)

(* The decision of a request that waited for the row is made on the row as *)
(* it is then, and on the clock of the request.                            *)
GetByTokenForUpdate(t) ==
  /\ pc[t] = "lock"
  /\ LET i == req[t].id
     IN  \/ /\ holder[i] = None /\ Usable(i, req[t].now)
            /\ holder' = [holder EXCEPT ![i] = t]
            /\ inv' = [inv EXCEPT ![t] = invitations[i]]
            /\ Goto(t, "create")
            /\ UNCHANGED <<invitations, users, req, inserted, clock>>
         \/ holder[i] = None /\ ~Usable(i, req[t].now) /\ Rollback(t)

(* Without the unique index on the email (mutant).                         *)
CreateDuplicateUser(t) ==
  /\ pc[t] = "create"
  /\ inserted' = [inserted EXCEPT ![t] =
                    [email |-> inv[t].email, role |-> inv[t].role, from |-> req[t].id]]
  /\ Goto(t, "accept")
  /\ UNCHANGED <<invitations, users, holder, req, inv, clock>>

CreateUser(t) ==
  /\ pc[t] = "create" /\ ~EmailAwaited(inv[t].email, t)
  /\ \/ /\ ~EmailTaken(inv[t].email)
        /\ inserted' = [inserted EXCEPT ![t] =
                          [email |-> inv[t].email, role |-> inv[t].role, from |-> req[t].id]]
        /\ Goto(t, "accept")
        /\ UNCHANGED <<invitations, users, holder, req, inv, clock>>
     \/ EmailTaken(inv[t].email) /\ Rollback(t)

Accept(t) ==
  /\ pc[t] = "accept"
  /\ inv' = [inv EXCEPT ![t].status = "ACCEPTED"]
  /\ Goto(t, "commit")
  /\ UNCHANGED <<invitations, users, holder, req, inserted, clock>>

(* The user is committed before the invitation is written: two             *)
(* transactions instead of one (mutant).                                   *)
CommitUserFirst(t) ==
  /\ pc[t] = "commit"
  /\ \/ /\ inserted[t] # None /\ users' = Append(users, inserted[t])
        /\ inserted' = [inserted EXCEPT ![t] = None]
        /\ UNCHANGED <<invitations, holder, pc, req, inv, clock>>
     \/ /\ inserted[t] = None
        /\ invitations' = [invitations EXCEPT ![req[t].id] = inv[t]]
        /\ EndTx(t, "issue") /\ UNCHANGED <<users, req, clock>>

Commit(t) ==
  /\ pc[t] = "commit"
  /\ invitations' = [invitations EXCEPT ![req[t].id] = inv[t]]
  /\ users' = Append(users, inserted[t])
  /\ EndTx(t, "issue")
  /\ UNCHANGED <<req, clock>>

(* The cookies of the new account; it stays when they are lost.            *)
IssueTokens(t) ==
  /\ pc[t] = "issue"
  /\ Goto(t, "idle") /\ Done(t)
  /\ UNCHANGED <<invitations, users, holder, inv, inserted, clock>>

(* Cancelled, or crashed. A COMMIT whose answer is lost is a Commit and an *)
(* Abort at "issue".                                                       *)
Abort(t) == pc[t] # "idle" /\ Rollback(t)

Tick ==
  /\ clock < MaxTime /\ clock' = clock + 1
  /\ UNCHANGED <<invitations, users, holder, pc, req, inv, inserted>>
-----------------------------------------------------------------------------
Init ==
  /\ invitations = [i \in Ids |-> None] /\ users = <<>>
  /\ holder = [i \in Ids |-> None]
  /\ pc = [t \in Handlers |-> "idle"] /\ req = [t \in Handlers |-> None]
  /\ inv = [t \in Handlers |-> None] /\ inserted = [t \in Handlers |-> None]
  /\ clock = 0

Serves(t) ==
  GetByTokenForUpdate(t) \/ CreateUser(t) \/ Accept(t) \/ Commit(t) \/ IssueTokens(t)

Next ==
  \/ \E t \in Handlers : Serves(t) \/ Abort(t) \/ \E i \in Ids : Register(t, i)
  \/ \E i \in Ids, e \in Emails, r \in Roles : Create(i, e, r)
  \/ \E n \in DOMAIN users, e \in Emails : UpdateEmail(n, e)
  \/ Tick

Spec == Init /\ [][Next]_vars
-----------------------------------------------------------------------------
(* What a registration may leave behind.                                   *)

InvitationsTypeOK ==
  /\ invitations \in [Ids -> Invitation \cup {None}] /\ users \in Seq(User)
  /\ holder \in [Ids -> Handlers \cup {None}]
  /\ pc \in [Handlers -> {"idle", "lock", "create", "accept", "commit", "issue"}]
  /\ req \in [Handlers -> [id: Ids, now: Nat] \cup {None}]
  /\ inv \in [Handlers -> Invitation \cup {None}]
  /\ inserted \in [Handlers -> User \cup {None}] /\ clock \in Nat
  /\ \A t \in Handlers : pc[t] = "idle" => req[t] = None /\ inv[t] = None

(* register_with_invitation.go:118: user and invitation change together.   *)
(* An invitation is accepted exactly when there is an account made from    *)
(* it, one, with the role the admin chose, whoever else presented the      *)
(* token, whatever was interrupted and wherever the account's email has    *)
(* moved since.                                                            *)
InvitationUsedOnce ==
  /\ \A m, n \in DOMAIN users : users[m].from = users[n].from => m = n
  /\ \A n \in DOMAIN users :
       LET row == invitations[users[n].from]
       IN  row # None /\ row.status = "ACCEPTED" /\ row.role = users[n].role
  /\ \A i \in Ids : invitations[i] # None /\ invitations[i].status = "ACCEPTED" =>
       \E n \in DOMAIN users : users[n].from = i

(* user_repository.go:28: no two accounts have the same email, although    *)
(* two invitations may, and an account may move to an invited email while  *)
(* the invitee registers.                                                  *)
OneAccountPerEmail ==
  \A m, n \in DOMAIN users : users[m].email = users[n].email => m = n

(* The transaction as one step of Enrolment: an invitation that is in use  *)
(* is still open, and so is one whose lifetime is over.                    *)
Open == {i \in Ids : invitations[i] # None /\ invitations[i].status = "PENDING"}

Abstract == INSTANCE Enrolment WITH
  open <- {[id |-> i, email |-> invitations[i].email, role |-> invitations[i].role] :
             i \in Open},
  accounts <- {users[n] : n \in DOMAIN users}

ImplementsEnrolment == Abstract!EnrolmentSpec
=============================================================================
