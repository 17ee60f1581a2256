------------------------------ MODULE Sessions ------------------------------
(* Who is logged in: the user row and the two JWT cookies that vouch for a *)
(* session. Nothing about a session is stored but users.token_version: a   *)
(* token is good as long as it carries the version of the row, so that a   *)
(* password change, which increments it, ends every earlier session.       *)
(*                                                                         *)
(* No use case of this module runs in a transaction: a handler reads the   *)
(* row, works on its copy and writes the copy back whole, each statement a *)
(* transaction of its own. A user is never deleted by a use case, and the  *)
(* role is never written.                                                  *)
EXTENDS Naturals, FiniteSets

CONSTANTS Handlers,     \* goroutines serving requests
          Editors,      \* those that serve requests writing a user row
          Browsers,     \* cookie jars
          Users, Admins, \* Admins: the users whose role is ADMIN
          Emails, Passwords,
          FirstEmail, FirstPassword,   \* per user, at the start
          MaxChanges,   \* bound: no password change starts beyond as many
          None          \* no cookie, no request, nothing in memory

ASSUME SessionsAssumption ==
  /\ Editors \subseteq Handlers /\ Admins \subseteq Users /\ Users # {}
  /\ FirstEmail \in [Users -> Emails] /\ FirstPassword \in [Users -> Passwords]
  /\ MaxChanges \in Nat

VARIABLES users,   \* the users table
          jar,     \* the cookies each browser holds
          pc,      \* per handler: the statement it executes next
          req,     \* its request
          mem,     \* the row it has read, and edited, in memory
          epoch,   \* history: password changes of each user so far
          banned   \* history: users deactivated and not activated since

vars == <<users, jar, pc, req, mem, epoch, banned>>

Role(u) == IF u \in Admins THEN "ADMIN" ELSE "REGULAR"

UserRow == [email: Emails, password: Passwords, active: BOOLEAN, ver: Nat]

(* The claims of a token, but for its expiry: an expired token is refused, *)
(* and when that is, the model leaves open. since is history: the password epoch of the      *)
(* credential the token descends from.                                     *)
Token == [kind: {"access", "refresh"}, sub: Users, role: {"ADMIN", "REGULAR"},
          ver: Nat, since: Nat]

Cookies == [access: Token \cup {None}, refresh: Token \cup {None}]
LoggedOut == [access |-> None, refresh |-> None]

NameOnly == "name"    \* a patch without an email
NoChange == "empty"   \* an empty patch

AdminRoutes == {"update", "activate", "deactivate"}
OwnRoutes   == {"me", "profile", "password"}
WritingRoutes == AdminRoutes \cup {"profile", "password"}
Routes == AdminRoutes \cup OwnRoutes \cup {"login", "refresh"}

Patches == Emails \cup {NameOnly, NoChange}

Request == [route: Routes, from: Browsers, token: Token \cup {None}, user: Users,
            patch: Patches, old: Passwords, new: Passwords]

Memory == [row: UserRow, since: Nat]

Idle(t) == pc[t] = "idle"
-----------------------------------------------------------------------------
(* Requests: what each endpoint takes from the route, body and cookies.    *)

Accept(t, first, r) ==
  /\ pc' = [pc EXCEPT ![t] = first] /\ req' = [req EXCEPT ![t] = r]
  /\ UNCHANGED <<users, jar, mem, epoch, banned>>

(* A request of b with nothing filled in; what a route does not take from  *)
(* it does not matter.                                                     *)
Blank(b) ==
  [route |-> "me", from |-> b, token |-> None, user |-> CHOOSE u \in Users : TRUE,
   patch |-> NoChange, old |-> CHOOSE w \in Passwords : TRUE,
   new |-> CHOOSE w \in Passwords : TRUE]

LoginRequest(t, b) ==
  /\ Idle(t)
  /\ \E e \in Emails, w \in Passwords :
       Accept(t, "find", [Blank(b) EXCEPT
                            !.route = "login", !.patch = e, !.old = w])

RefreshRequest(t, b) ==
  /\ Idle(t) /\ jar[b].refresh # None
  /\ Accept(t, "refresh", [Blank(b) EXCEPT
                             !.route = "refresh", !.token = jar[b].refresh,
                             !.user = jar[b].refresh.sub])

(* Behind the middleware: the access cookie comes along, and "my" routes   *)
(* act on its subject.                                                     *)
Authenticated(t, b, route, r) ==
  /\ Idle(t) /\ jar[b].access # None
  /\ route \in WritingRoutes => t \in Editors
  /\ Accept(t, "auth",
            [r EXCEPT !.route = route, !.token = jar[b].access,
                      !.user = IF route \in OwnRoutes THEN jar[b].access.sub ELSE @])

GetMe(t, b) == Authenticated(t, b, "me", Blank(b))

UpdateMe(t, b) ==
  \E p \in Emails \cup {NameOnly, NoChange} :
    Authenticated(t, b, "profile", [Blank(b) EXCEPT !.patch = p])

ChangePassword(t, b) ==
  /\ jar[b].access # None /\ epoch[jar[b].access.sub] < MaxChanges
  /\ \E old, new \in Passwords :
       Authenticated(t, b, "password",
                     [Blank(b) EXCEPT !.old = old, !.new = new])

Update(t, b) ==
  \E u \in Users, p \in Emails \cup {NameOnly, NoChange} :
    Authenticated(t, b, "update", [Blank(b) EXCEPT !.user = u, !.patch = p])

Activate(t, b) ==
  \E u \in Users : Authenticated(t, b, "activate", [Blank(b) EXCEPT !.user = u])

Deactivate(t, b) ==
  \E u \in Users : Authenticated(t, b, "deactivate", [Blank(b) EXCEPT !.user = u])

(* Logout forgets the cookies; the tokens in them stay good.               *)
Logout(b) ==
  /\ jar' = [jar EXCEPT ![b] = LoggedOut]
  /\ UNCHANGED <<users, pc, req, mem, epoch, banned>>
-----------------------------------------------------------------------------
(* Answers and steps in between.                                           *)

(* A handler that starts its next request with what it read for the last   *)
(* one (mutant).                                                           *)
KeepRequest(t) ==
  pc' = [pc EXCEPT ![t] = "idle"] /\ UNCHANGED <<req, mem>>

(* The handler forgets the request.                                        *)
Done(t) ==
  /\ pc' = [pc EXCEPT ![t] = "idle"]
  /\ req' = [req EXCEPT ![t] = None] /\ mem' = [mem EXCEPT ![t] = None]

(* An answer without cookies, or a lost request.                           *)
Answer(t) ==
  /\ Done(t)
  /\ UNCHANGED <<users, jar, epoch, banned>>

Goto(t, step) ==
  /\ pc' = [pc EXCEPT ![t] = step]
  /\ UNCHANGED <<users, jar, req, mem, epoch, banned>>

(* Continue at step with row in memory.                                    *)
Holding(t, row, since, step) ==
  /\ pc' = [pc EXCEPT ![t] = step]
  /\ mem' = [mem EXCEPT ![t] = [row |-> row, since |-> since]]
  /\ UNCHANGED <<users, jar, req, epoch, banned>>

(* ParseToken, for a token that has not expired.                           *)
ParseToken(k, kind) == k.kind = kind

CanLogin(row) == row.active

(* The activity check is left out (mutant).                                *)
InactiveIsCurrent(k) == users[k.sub].ver = k.ver

(* AuthRequired reads the row: active, and of the token's version.         *)
TokenIsCurrent(k) == users[k.sub].active /\ users[k.sub].ver = k.ver

(* AdminRequired believes the role in the claims.                          *)
AdminRequired(route, k) == route \in AdminRoutes => k.role = "ADMIN"

AuthRequired(t) ==
  /\ pc[t] = "auth"
  /\ LET k  == req[t].token
         ok == /\ ParseToken(k, "access") /\ TokenIsCurrent(k)
               /\ AdminRequired(req[t].route, k)
     IN  \/ ok /\ Goto(t, "load")
         \/ Answer(t)    \* refused, or the token has expired

(* Login: the row of the email, the password against its hash, CanLogin.   *)
Authenticate(t) ==
  /\ pc[t] = "find"
  /\ \/ \E u \in Users :
          /\ users[u].email = req[t].patch
          /\ users[u].password = req[t].old /\ CanLogin(users[u])
          /\ pc' = [pc EXCEPT ![t] = "issue"]
          /\ req' = [req EXCEPT ![t].user = u]
          /\ mem' = [mem EXCEPT ![t] = [row |-> users[u], since |-> epoch[u]]]
          /\ UNCHANGED <<users, jar, epoch, banned>>
     \/ /\ \A u \in Users : users[u].email = req[t].patch =>
             ~(users[u].password = req[t].old /\ CanLogin(users[u]))
        /\ Answer(t)

(* Refresh: the token descends from the credential of the one it replaces. *)
RefreshTokens(t) ==
  /\ pc[t] = "refresh"
  /\ LET k   == req[t].token
         row == users[k.sub]
     IN  \/ /\ ParseToken(k, "refresh") /\ CanLogin(row) /\ row.ver = k.ver
            /\ Holding(t, row, k.since, "issue")
         \/ Answer(t)
-----------------------------------------------------------------------------
(* The use cases: GetByID, then a decision on the copy.                    *)

Loads(t, route) == pc[t] = "load" /\ req[t].route = route

GetUser(t) == Loads(t, "me") /\ Answer(t)

(* The change forgets IncrementTokenVersion (mutant).                      *)
SetPasswordOnly(row, w) == [row EXCEPT !.password = w]

SetPassword(row, w) == [row EXCEPT !.password = w, !.ver = @ + 1]

ReplacePassword(t) ==
  /\ Loads(t, "password")
  /\ LET row == users[req[t].user]
         ok  == /\ row.password = req[t].old /\ CanLogin(row)
                /\ row.password # req[t].new
     IN  \/ ok /\ Holding(t, SetPassword(row, req[t].new), 0, "write")
         \/ ~ok /\ Answer(t)

ApplyPatch(row, p) == IF p \in Emails THEN [row EXCEPT !.email = p] ELSE row

UpdateUser(t) ==
  /\ Loads(t, "profile") \/ Loads(t, "update")
  /\ \/ /\ req[t].patch # NoChange
        /\ Holding(t, ApplyPatch(users[req[t].user], req[t].patch), 0, "write")
     \/ req[t].patch = NoChange /\ Answer(t)

ActivateUser(t) ==
  /\ Loads(t, "activate")
  /\ LET row == users[req[t].user]
     IN  \/ ~row.active /\ Holding(t, [row EXCEPT !.active = TRUE], 0, "write")
         \/ row.active /\ Answer(t)

DeactivateUser(t) ==
  /\ Loads(t, "deactivate")
  /\ LET row == users[req[t].user]
     IN  \/ row.active /\ Holding(t, [row EXCEPT !.active = FALSE], 0, "write")
         \/ ~row.active /\ Answer(t)

(* UserRepository.Update: the whole copy, over whatever the row has become;*)
(* refused by the unique index on the email.                               *)
WriteUser(t) ==
  /\ pc[t] = "write"
  /\ LET u   == req[t].user
         row == mem[t].row
         dup == \E v \in Users \ {u} : users[v].email = row.email
     IN  \/ /\ ~dup
            /\ users' = [users EXCEPT ![u] = row]
            /\ epoch' = IF req[t].route = "password"
                        THEN [epoch EXCEPT ![u] = @ + 1] ELSE epoch
            /\ banned' = CASE req[t].route = "deactivate" -> banned \cup {u}
                           [] req[t].route = "activate" -> banned \ {u}
                           [] OTHER -> banned
            /\ \/ /\ req[t].route = "password"
                  /\ pc' = [pc EXCEPT ![t] = "issue"]
                  /\ mem' = [mem EXCEPT ![t].since = epoch'[u]]
                  /\ UNCHANGED req
               \/ req[t].route # "password" /\ Done(t)
            /\ UNCHANGED <<jar>>
         \/ dup /\ Answer(t)

(* Generate signs the version of the row as it is now (mutant).            *)
GenerateFromTable(u, row, kind, since) ==
  [kind |-> kind, sub |-> u, role |-> Role(u), ver |-> users[u].ver, since |-> since]

(* The pair of tokens for the row in memory, set as cookies.               *)
Generate(u, row, kind, since) ==
  [kind |-> kind, sub |-> u, role |-> Role(u), ver |-> row.ver, since |-> since]

SetAuthCookies(t) ==
  /\ pc[t] = "issue"
  /\ LET G(kind) == Generate(req[t].user, mem[t].row, kind, mem[t].since)
     IN  jar' = [jar EXCEPT ![req[t].from] =
                   [access |-> G("access"), refresh |-> G("refresh")]]
  /\ Done(t)
  /\ UNCHANGED <<users, epoch, banned>>

(* The request is lost: cancelled, or the process restarted. What it has   *)
(* written stays written.                                                  *)
Abort(t) == pc[t] # "idle" /\ Answer(t)
-----------------------------------------------------------------------------
Init ==
  /\ users = [u \in Users |-> [email |-> FirstEmail[u], ver |-> 0, active |-> TRUE,
                               password |-> FirstPassword[u]]]
  /\ jar = [b \in Browsers |-> LoggedOut]
  /\ pc = [t \in Handlers |-> "idle"]
  /\ req = [t \in Handlers |-> None] /\ mem = [t \in Handlers |-> None]
  /\ epoch = [u \in Users |-> 0] /\ banned = {}

Asks(t, b) ==
  \/ LoginRequest(t, b) \/ RefreshRequest(t, b)
  \/ GetMe(t, b) \/ UpdateMe(t, b) \/ ChangePassword(t, b)
  \/ Update(t, b) \/ Activate(t, b) \/ Deactivate(t, b)

Serves(t) ==
  \/ AuthRequired(t) \/ Authenticate(t) \/ RefreshTokens(t)
  \/ GetUser(t) \/ ReplacePassword(t) \/ UpdateUser(t)
  \/ ActivateUser(t) \/ DeactivateUser(t) \/ WriteUser(t) \/ SetAuthCookies(t)

Next ==
  \/ \E t \in Handlers : Serves(t) \/ Abort(t) \/ \E b \in Browsers : Asks(t, b)
  \/ \E b \in Browsers : Logout(b)

Spec == Init /\ [][Next]_vars
-----------------------------------------------------------------------------
(* What the cookies of Sessions are worth.                                 *)

SessionsTypeOK ==
  /\ users \in [Users -> UserRow] /\ jar \in [Browsers -> Cookies]
  /\ epoch \in [Users -> Nat] /\ banned \subseteq Users
  /\ pc \in [Handlers -> {"idle", "auth", "find", "refresh", "load", "write", "issue"}]
  /\ req \in [Handlers -> Request \cup {None}] /\ mem \in [Handlers -> Memory \cup {None}]
  /\ \A t \in Handlers :
       IF pc[t] = "idle" THEN req[t] = None /\ mem[t] = None ELSE req[t] \in Request

(* The middleware, or the refresh use case, lets the request of t through. *)
Admitted(t) ==
  \/ pc[t] = "auth" /\ pc'[t] = "load"
  \/ pc[t] = "refresh" /\ pc'[t] = "issue"

(* domain/user.go:102 and refresh.go:26: a password change ends every      *)
(* session that was opened with the password it replaces, those that a     *)
(* refresh has prolonged since, and those that a login or a refresh which  *)
(* read the row before the change hands out after it.                      *)
PasswordEndsSessions ==
  [][\A t \in Handlers :
       Admitted(t) => req[t].token.since = epoch[req[t].token.sub]]_vars

(* user_handler.go:308: deactivation is the off-boarding of a user. From   *)
(* its UPDATE until an admin activates the account, no request and no      *)
(* refresh of that user is served, whatever token it shows.                *)
OffboardedStaysOut ==
  [][\A t \in Handlers : Admitted(t) => req[t].token.sub \notin banned]_vars

(* auth_handler.go:262 and change_password.go:63: after a change of the    *)
(* password fresh cookies are issued so that the browser stays             *)
(* authenticated. So no answer may take a live session away: a browser     *)
(* whose access cookie is good keeps a good one while nobody writes the    *)
(* row, until it logs out or in again. (The code lets a refresh that read  *)
(* the row before the change answer after it, and its cookies replace the  *)
(* fresh ones.)                                                            *)
Live(b) == jar[b].access # None /\ TokenIsCurrent(jar[b].access)

StaysAuthenticated ==
  [][\A b \in Browsers :
       Live(b) /\ users' = users =>
         \/ Live(b)' \/ jar'[b] = LoggedOut
         \/ \E t \in Handlers : /\ pc[t] = "issue" /\ pc'[t] = "idle"
                               /\ req[t].route = "login" /\ req[t].from = b]_vars
=============================================================================
