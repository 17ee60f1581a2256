--------------------------- MODULE SessionProofs ----------------------------
(***************************************************************************)
(* What the cookies of Sessions are worth, for any number of users,        *)
(* browsers and handlers and any number of password changes: rows, tokens  *)
(* and copies in memory are typed, a changed password ends every earlier   *)
(* session and a deactivated account stays out, but for the accounts whose *)
(* row a write has set back to what its handler had read.                  *)
(***************************************************************************)
EXTENDS Sessions, TLAPS

Places == {"idle", "auth", "find", "refresh", "load", "write", "issue"}

(* What a step finds besides the types: a token to check, a row to write   *)
(* or to sign.                                                             *)
Equipped(t) ==
  /\ pc[t] \in {"auth", "refresh"} => req[t].token # None
  /\ pc[t] \in {"write", "issue"} => mem[t] \in Memory

Typed == SessionsTypeOK /\ \A t \in Handlers : Equipped(t)

(* Nothing of another handler changes.                                     *)
OthersRest(t) ==
  \A x \in Handlers \ {t} : pc'[x] = pc[x] /\ req'[x] = req[x] /\ mem'[x] = mem[x]

(* The handler's own part of Typed, after its step.                        *)
Ready(t) ==
  /\ IF pc[t] = "idle" THEN req[t] = None /\ mem[t] = None ELSE req[t] \in Request
  /\ Equipped(t)

HandlersTyped ==
  /\ pc \in [Handlers -> Places]
  /\ req \in [Handlers -> Request \cup {None}] /\ mem \in [Handlers -> Memory \cup {None}]

LEMMA OneStep ==
  ASSUME NEW t \in Handlers, Typed, OthersRest(t), HandlersTyped', Ready(t)',
         (/\ users \in [Users -> UserRow] /\ jar \in [Browsers -> Cookies]
          /\ epoch \in [Users -> Nat] /\ banned \subseteq Users)'
  PROVE  Typed'
<1>1. ASSUME NEW x \in Handlers \ {t} PROVE Ready(x)'
  BY DEF OthersRest, Typed, SessionsTypeOK, Ready, Equipped
<1>2. \A x \in Handlers : Ready(x)'
  BY <1>1
<1> QED
  BY <1>2 DEF Typed, SessionsTypeOK, HandlersTyped, Places, Ready

(* The five ways in which a step leaves the handler.                       *)
LEMMA Accepting ==
  ASSUME NEW t \in Handlers, Typed, NEW first \in Places, NEW r \in Request,
         Accept(t, first, r)
  PROVE  /\ OthersRest(t) /\ HandlersTyped' /\ UNCHANGED <<users, jar, epoch, banned>>
         /\ pc'[t] = first /\ req'[t] = r /\ mem'[t] = mem[t]
BY DEF Accept, Typed, SessionsTypeOK, OthersRest, HandlersTyped, Places

LEMMA Finishing ==
  ASSUME NEW t \in Handlers, Typed, Done(t)
  PROVE  OthersRest(t) /\ HandlersTyped' /\ Ready(t)' /\ pc'[t] = "idle"
BY DEF Done, Typed, SessionsTypeOK, OthersRest, HandlersTyped, Places, Ready, Equipped

LEMMA Going ==
  ASSUME NEW t \in Handlers, Typed, NEW step \in Places, Goto(t, step)
  PROVE  /\ OthersRest(t) /\ HandlersTyped' /\ UNCHANGED <<users, jar, epoch, banned>>
         /\ pc'[t] = step /\ req'[t] = req[t] /\ mem'[t] = mem[t]
BY DEF Goto, Typed, SessionsTypeOK, OthersRest, HandlersTyped, Places

LEMMA Keeping ==
  ASSUME NEW t \in Handlers, Typed, NEW step \in Places, NEW row \in UserRow,
         NEW since \in Nat, Holding(t, row, since, step)
  PROVE  /\ OthersRest(t) /\ HandlersTyped' /\ UNCHANGED <<users, jar, epoch, banned>>
         /\ pc'[t] = step /\ req'[t] = req[t]
         /\ mem'[t] = [row |-> row, since |-> since] /\ mem'[t] \in Memory
BY DEF Holding, Typed, SessionsTypeOK, OthersRest, HandlersTyped, Places, Memory

LEMMA BlankTyped ==
  ASSUME NEW b \in Browsers
  PROVE  Blank(b) \in Request
<1>1. Users # {} /\ Passwords # {}
  BY SessionsAssumption
<1> QED
  BY <1>1 DEF Blank, Request, Routes, OwnRoutes, Patches


(* A request that waits for its first statement.                           *)
LEMMA AcceptedTyped ==
  ASSUME NEW t \in Handlers, Typed, NEW first \in {"auth", "find", "refresh"},
         NEW r \in Request, Accept(t, first, r),
         first \in {"auth", "refresh"} => r.token # None
  PROVE  Typed'
<1>1. /\ OthersRest(t) /\ HandlersTyped' /\ UNCHANGED <<users, jar, epoch, banned>>
      /\ pc'[t] = first /\ req'[t] = r
  BY Accepting DEF Places
<1>2. Ready(t)'
  BY <1>1 DEF Ready, Equipped
<1> QED
  BY <1>1, <1>2, OneStep DEF Typed, SessionsTypeOK

LEMMA CookieTyped ==
  ASSUME NEW b \in Browsers, Typed
  PROVE  /\ jar[b].access # None => jar[b].access \in Token /\ jar[b].access.sub \in Users
         /\ jar[b].refresh # None => jar[b].refresh \in Token /\ jar[b].refresh.sub \in Users
BY DEF Typed, SessionsTypeOK, Cookies, Token

LEMMA AuthenticatedTyped ==
  ASSUME NEW t \in Handlers, NEW b \in Browsers, Typed,
         NEW route \in AdminRoutes \cup OwnRoutes, NEW r \in Request,
         Authenticated(t, b, route, r)
  PROVE  Typed'
<1> DEFINE q == [r EXCEPT !.route = route, !.token = jar[b].access,
                          !.user = IF route \in OwnRoutes THEN jar[b].access.sub ELSE @]
<1>1. jar[b].access \in Token /\ jar[b].access.sub \in Users /\ q.token # None
  BY CookieTyped DEF Authenticated, Request
<1>2. q \in Request
  BY <1>1 DEF Request, Routes
<1>3. Accept(t, "auth", q)
  BY DEF Authenticated
<1> HIDE DEF q
<1> QED
  BY <1>1, <1>2, <1>3, AcceptedTyped

LEMMA AskingTyped ==
  ASSUME NEW t \in Handlers, NEW b \in Browsers, Typed, Asks(t, b)
  PROVE  Typed'
<1>0. Blank(b) \in Request
  BY BlankTyped
<1>1. CASE LoginRequest(t, b)
  <2>1. PICK e \in Emails, w \in Passwords :
          Accept(t, "find", [Blank(b) EXCEPT !.route = "login", !.patch = e, !.old = w])
    BY <1>1 DEF LoginRequest
  <2>2. [Blank(b) EXCEPT !.route = "login", !.patch = e, !.old = w] \in Request
    BY <1>0 DEF Request, Routes, Patches
  <2> QED
    BY <2>1, <2>2, AcceptedTyped
<1>2. CASE RefreshRequest(t, b)
  <2> DEFINE q == [Blank(b) EXCEPT !.route = "refresh", !.token = jar[b].refresh,
                                   !.user = jar[b].refresh.sub]
  <2>1. q \in Request /\ q.token # None
    BY <1>0, <1>2, CookieTyped DEF RefreshRequest, Request, Routes
  <2>2. Accept(t, "refresh", q)
    BY <1>2 DEF RefreshRequest
  <2> HIDE DEF q
  <2> QED
    BY <2>1, <2>2, AcceptedTyped
<1>3. CASE GetMe(t, b)
  BY <1>0, <1>3, AuthenticatedTyped DEF GetMe, OwnRoutes
<1>4. CASE UpdateMe(t, b)
  <2>1. PICK p \in Emails \cup {NameOnly, NoChange} :
          Authenticated(t, b, "profile", [Blank(b) EXCEPT !.patch = p])
    BY <1>4 DEF UpdateMe
  <2>2. [Blank(b) EXCEPT !.patch = p] \in Request
    BY <1>0 DEF Request, Patches
  <2> QED
    BY <2>1, <2>2, AuthenticatedTyped DEF OwnRoutes
<1>7. CASE Update(t, b)
  <2>1. PICK u \in Users, p \in Emails \cup {NameOnly, NoChange} :
          Authenticated(t, b, "update", [Blank(b) EXCEPT !.user = u, !.patch = p])
    BY <1>7 DEF Update
  <2>2. [Blank(b) EXCEPT !.user = u, !.patch = p] \in Request
    BY <1>0 DEF Request, Patches
  <2> QED
    BY <2>1, <2>2, AuthenticatedTyped DEF AdminRoutes
<1>5. CASE ChangePassword(t, b)
  <2>1. PICK old \in Passwords, new \in Passwords :
          Authenticated(t, b, "password", [Blank(b) EXCEPT !.old = old, !.new = new])
    BY <1>5 DEF ChangePassword
  <2>2. [Blank(b) EXCEPT !.old = old, !.new = new] \in Request
    BY <1>0 DEF Request
  <2> QED
    BY <2>1, <2>2, AuthenticatedTyped DEF OwnRoutes
<1>6. CASE Activate(t, b) \/ Deactivate(t, b)
  <2>1. \A u \in Users : [Blank(b) EXCEPT !.user = u] \in Request
    BY <1>0 DEF Request
  <2>2. {"activate", "deactivate"} \subseteq AdminRoutes \cup OwnRoutes
    BY DEF AdminRoutes
  <2> QED
    BY <1>6, <2>1, <2>2, AuthenticatedTyped DEF Activate, Deactivate
<1> QED
  BY <1>1, <1>2, <1>3, <1>4, <1>5, <1>6, <1>7 DEF Asks

LEMMA AnsweredTyped ==
  ASSUME NEW t \in Handlers, Typed, Answer(t) PROVE Typed'
BY Finishing, OneStep DEF Answer, Typed, SessionsTypeOK

(* The row a request is about, and what is written of it.                  *)
LEMMA RowsTyped ==
  ASSUME NEW t \in Handlers, Typed, pc[t] # "idle"
  PROVE  /\ req[t] \in Request /\ req[t].user \in Users /\ users[req[t].user] \in UserRow
         /\ req[t].token # None => req[t].token \in Token /\ users[req[t].token.sub] \in UserRow
BY DEF Typed, SessionsTypeOK, Request, Token

LEMMA KeptTyped ==
  ASSUME NEW t \in Handlers, Typed, pc[t] # "idle", NEW row \in UserRow, NEW since \in Nat,
         NEW step \in {"write", "issue"}, Holding(t, row, since, step)
  PROVE  Typed'
<1>0. step \in Places
  BY DEF Places
<1>1. /\ OthersRest(t) /\ HandlersTyped' /\ UNCHANGED <<users, jar, epoch, banned>>
      /\ pc'[t] = step /\ req'[t] = req[t] /\ mem'[t] \in Memory
  BY <1>0, Keeping
<1>2. Ready(t)'
  BY <1>1, RowsTyped DEF Ready, Equipped
<1> QED
  BY <1>1, <1>2, OneStep DEF Typed, SessionsTypeOK

LEMMA CheckingTyped ==
  ASSUME NEW t \in Handlers, Typed, AuthRequired(t) PROVE Typed'
<1>1. CASE Goto(t, "load")
  <2>1. /\ OthersRest(t) /\ HandlersTyped' /\ UNCHANGED <<users, jar, epoch, banned>>
        /\ pc'[t] = "load" /\ req'[t] = req[t]
    BY <1>1, Going DEF Places
  <2>2. Ready(t)'
    BY <2>1, RowsTyped DEF Ready, Equipped, AuthRequired
  <2> QED
    BY <2>1, <2>2, OneStep DEF Typed, SessionsTypeOK
<1> QED
  BY <1>1, AnsweredTyped DEF AuthRequired

LEMMA LoginTyped ==
  ASSUME NEW t \in Handlers, Typed, Authenticate(t) PROVE Typed'
<1>1. ASSUME NEW u \in Users, pc[t] = "find",
             pc' = [pc EXCEPT ![t] = "issue"], req' = [req EXCEPT ![t].user = u],
             mem' = [mem EXCEPT ![t] = [row |-> users[u], since |-> epoch[u]]],
             UNCHANGED <<users, jar, epoch, banned>>
      PROVE  Typed'
  <2>1. req[t] \in Request /\ [req[t] EXCEPT !.user = u] \in Request
    BY <1>1, RowsTyped DEF Request
  <2>2. req' = [req EXCEPT ![t] = [req[t] EXCEPT !.user = u]]
    BY <1>1
  <2>3. [row |-> users[u], since |-> epoch[u]] \in Memory
    BY DEF Typed, SessionsTypeOK, Memory
  <2>4. OthersRest(t) /\ HandlersTyped' /\ Ready(t)'
    BY <1>1, <2>1, <2>2, <2>3
    DEF OthersRest, HandlersTyped, Ready, Equipped, Typed, SessionsTypeOK, Places
  <2> QED
    BY <1>1, <2>4, OneStep DEF Typed, SessionsTypeOK
<1> QED
  BY <1>1, AnsweredTyped DEF Authenticate

(* IncrementTokenVersion, on the copy.                                     *)
LEMMA PasswordSet ==
  ASSUME NEW row \in UserRow, NEW w \in Passwords
  PROVE  /\ SetPassword(row, w) \in UserRow
         /\ SetPassword(row, w).ver = row.ver + 1 /\ SetPassword(row, w).active = row.active
<1> DEFINE set == [row EXCEPT !.password = w]
           next == row.ver + 1
<1>1. set \in UserRow /\ set.active = row.active /\ next \in Nat
  BY DEF UserRow
<1>2. SetPassword(row, w) = [set EXCEPT !.ver = next]
  BY DEF SetPassword
<1> HIDE DEF set, next
<1>3. /\ [set EXCEPT !.ver = next] \in UserRow
      /\ [set EXCEPT !.ver = next].ver = next /\ [set EXCEPT !.ver = next].active = set.active
  BY <1>1 DEF UserRow
<1> QED
  BY <1>1, <1>2, <1>3 DEF next

LEMMA ServingTyped ==
  ASSUME NEW t \in Handlers, Typed, 
         RefreshTokens(t) \/ GetUser(t) \/ ReplacePassword(t) \/ UpdateUser(t)
           \/ ActivateUser(t) \/ DeactivateUser(t)
  PROVE  Typed'
<1> DEFINE row == users[req[t].user]
<1>1. CASE RefreshTokens(t)
  <2>1. req[t].token \in Token /\ users[req[t].token.sub] \in UserRow
        /\ req[t].token.since \in Nat
    BY <1>1, RowsTyped DEF RefreshTokens, Typed, Equipped, Token
  <2> QED
    BY <1>1, <2>1, KeptTyped, AnsweredTyped DEF RefreshTokens
<1>2. CASE GetUser(t)
  BY <1>2, AnsweredTyped DEF GetUser
<1>3. CASE ReplacePassword(t)
  <2>0. row \in UserRow /\ req[t].new \in Passwords
    BY <1>3, RowsTyped DEF Request, ReplacePassword, Loads
  <2>1. SetPassword(row, req[t].new) \in UserRow
    BY <2>0, PasswordSet
  <2> QED
    BY <1>3, <2>1, KeptTyped, AnsweredTyped DEF ReplacePassword, Loads
<1>4. CASE UpdateUser(t)
  <2>1. ApplyPatch(row, req[t].patch) \in UserRow
    BY <1>4, RowsTyped DEF ApplyPatch, UserRow, UpdateUser, Loads
  <2> QED
    BY <1>4, <2>1, KeptTyped, AnsweredTyped DEF UpdateUser, Loads
<1>5. CASE ActivateUser(t) \/ DeactivateUser(t)
  <2>1. \A flag \in BOOLEAN : [row EXCEPT !.active = flag] \in UserRow
    BY <1>5, RowsTyped DEF UserRow, ActivateUser, DeactivateUser, Loads
  <2> QED
    BY <1>5, <2>1, KeptTyped, AnsweredTyped DEF ActivateUser, DeactivateUser, Loads
<1> QED
  BY <1>1, <1>2, <1>3, <1>4, <1>5

LEMMA WritingTyped ==
  ASSUME NEW t \in Handlers, Typed, WriteUser(t) PROVE Typed'
<1> DEFINE u == req[t].user
           row == mem[t].row
<1>1. CASE Answer(t)
  BY <1>1, AnsweredTyped
<1>2. CASE ~Answer(t)
  <2>1. u \in Users /\ mem[t] \in Memory /\ row \in UserRow /\ req[t] \in Request
    BY RowsTyped DEF WriteUser, Typed, Equipped, Memory
  <2>2. /\ users' \in [Users -> UserRow] /\ jar' \in [Browsers -> Cookies]
        /\ epoch' \in [Users -> Nat] /\ banned' \subseteq Users
    BY <1>2, <2>1 DEF WriteUser, Typed, SessionsTypeOK
  <2>3. CASE Done(t)
    BY <2>2, <2>3, Finishing, OneStep
  <2>4. CASE /\ pc' = [pc EXCEPT ![t] = "issue"]
             /\ mem' = [mem EXCEPT ![t].since = epoch'[u]] /\ UNCHANGED req
    <3>1. [mem[t] EXCEPT !.since = epoch'[u]] \in Memory
      BY <2>1, <2>2 DEF Memory
    <3>2. mem' = [mem EXCEPT ![t] = [mem[t] EXCEPT !.since = epoch'[u]]]
      BY <2>4
    <3>3. OthersRest(t) /\ HandlersTyped' /\ Ready(t)'
      BY <2>1, <2>4, <3>1, <3>2
      DEF OthersRest, HandlersTyped, Ready, Equipped, Typed, SessionsTypeOK, Places
    <3> QED
      BY <2>2, <3>3, OneStep
  <2> QED
    BY <1>2, <2>3, <2>4 DEF WriteUser
<1> QED
  BY <1>1, <1>2

LEMMA SignedTyped ==
  ASSUME NEW t \in Handlers, Typed, pc[t] = "issue", NEW kind \in {"access", "refresh"}
  PROVE  Generate(req[t].user, mem[t].row, kind, mem[t].since) \in Token
BY RowsTyped DEF Generate, Token, Role, Typed, Equipped, Memory, UserRow

LEMMA IssuingTyped ==
  ASSUME NEW t \in Handlers, Typed, SetAuthCookies(t) PROVE Typed'
<1> DEFINE G(kind) == Generate(req[t].user, mem[t].row, kind, mem[t].since)
<1>1. G("access") \in Token /\ G("refresh") \in Token
  BY SignedTyped DEF SetAuthCookies
<1>2. jar' = [jar EXCEPT ![req[t].from] = [access |-> G("access"), refresh |-> G("refresh")]]
  BY DEF SetAuthCookies
<1> HIDE DEF G
<1>3. jar' \in [Browsers -> Cookies]
  BY <1>1, <1>2 DEF Typed, SessionsTypeOK, Cookies
<1> QED
  BY <1>3, Finishing, OneStep DEF SetAuthCookies, Typed, SessionsTypeOK

LEMMA TypedSteps == Typed /\ [Next]_vars => Typed'
<1> SUFFICES ASSUME Typed, [Next]_vars PROVE Typed'
  OBVIOUS
<1>1. CASE UNCHANGED vars
  BY <1>1 DEF vars, Typed, SessionsTypeOK, Equipped
<1>2. ASSUME NEW t \in Handlers, Serves(t) \/ Abort(t) PROVE Typed'
  BY <1>2, CheckingTyped, LoginTyped, ServingTyped, WritingTyped, IssuingTyped, AnsweredTyped
  DEF Serves, Abort
<1>3. ASSUME NEW b \in Browsers, Logout(b) PROVE Typed'
  BY <1>3 DEF Logout, LoggedOut, Cookies, Typed, SessionsTypeOK, Equipped
<1> QED
  BY <1>1, <1>2, <1>3, AskingTyped DEF Next

LEMMA TypedInitially == Init => Typed
BY SessionsAssumption
DEF Init, Typed, SessionsTypeOK, Equipped, UserRow, LoggedOut, Cookies

(* Rows, cookies and what handlers hold stay typed, whatever interleaves.  *)
THEOREM SessionsTyped == Spec => []SessionsTypeOK
<1>1. Typed => SessionsTypeOK
  BY DEF Typed
<1> QED
  BY <1>1, TypedInitially, TypedSteps, PTL DEF Spec

-----------------------------------------------------------------------------
(* Any number of writers of user rows                                      *)

(* A handler that read a row before another one wrote it stores what it    *)
(* read: the version or the activity of the row become what they were,     *)
(* beside what the request is about.                                       *)
SetsBack(t) ==
  LET route == req[t].route
      old == users[req[t].user]
      new == mem[t].row
  IN  /\ WriteUser(t) /\ ~Answer(t)
      /\ \/ new.ver # (IF route = "password" THEN old.ver + 1 ELSE old.ver)
         \/ route \notin {"activate", "deactivate"} /\ new.active # old.active

VARIABLE overwritten   \* history: the users whose row a write has set back

Note == overwritten' = overwritten \cup {req[t].user : t \in {x \in Handlers : SetsBack(x)}}

Watching == overwritten = {} /\ [][Note]_<<vars, overwritten>>

(* What lemmas need of a step of the history.                              *)
Watched ==
  /\ overwritten \subseteq overwritten'
  /\ \A t \in Handlers : SetsBack(t) => req[t].user \in overwritten'

(* A token carries the version that its credential had.                    *)
Faithful(k) == k # None /\ k.sub \notin overwritten => k.ver = k.since

(* What a handler holds.                                                   *)
Current(t) ==
  LET q == req[t] IN
  /\ pc[t] # "idle" => Faithful(q.token)
  /\ pc[t] = "refresh" => q.user = q.token.sub
  /\ pc[t] = "write" /\ q.route = "deactivate" => ~mem[t].row.active
  /\ pc[t] = "issue" /\ q.user \notin overwritten => mem[t].row.ver = mem[t].since

(* The version of a row counts its password changes, and a token or a copy *)
(* that agrees with the version belongs to the latest password.            *)
SessionsInv ==
  /\ Typed
  /\ \A u \in Users \ overwritten : users[u].ver = epoch[u]
  /\ \A u \in banned \ overwritten : ~users[u].active
  /\ \A b \in Browsers : Faithful(jar[b].access) /\ Faithful(jar[b].refresh)
  /\ \A t \in Handlers : Current(t)

(* A step that writes no row, no history and no cookie.                    *)
LEMMA QuietStep ==
  ASSUME NEW t \in Handlers, Watched, SessionsInv, Typed', OthersRest(t),
         UNCHANGED <<users, jar, epoch, banned>>, Current(t)'
  PROVE  SessionsInv'
<1>1. ASSUME NEW x \in Handlers \ {t} PROVE Current(x)'
  <2>1. pc'[x] = pc[x] /\ req'[x] = req[x] /\ mem'[x] = mem[x] /\ Current(x)
    BY DEF OthersRest, SessionsInv
  <2> QED
    BY <2>1 DEF Current, Faithful, Watched
<1>2. \A x \in Handlers : Current(x)'
  BY <1>1
<1> QED
  BY <1>2 DEF SessionsInv, Faithful, Watched

LEMMA AnsweredCurrent ==
  ASSUME NEW t \in Handlers, Watched, SessionsInv, Answer(t) PROVE SessionsInv'
<1>1. OthersRest(t) /\ pc'[t] = "idle" /\ UNCHANGED <<users, jar, epoch, banned>> /\ Typed'
  BY Finishing, AnsweredTyped DEF Answer, SessionsInv
<1>2. Current(t)'
  BY <1>1 DEF Current
<1> QED
  BY <1>1, <1>2, QuietStep

LEMMA AcceptedCurrent ==
  ASSUME NEW t \in Handlers, Watched, SessionsInv, NEW first \in {"auth", "find", "refresh"},
         NEW r \in Request, Accept(t, first, r), first \in {"auth", "refresh"} => r.token # None,
         Faithful(r.token), first = "refresh" => r.user = r.token.sub
  PROVE  SessionsInv'
<1>1. /\ OthersRest(t) /\ UNCHANGED <<users, jar, epoch, banned>> /\ Typed'
      /\ pc'[t] = first /\ req'[t] = r
  BY Accepting, AcceptedTyped DEF SessionsInv, Places
<1>2. Current(t)'
  BY <1>1 DEF Current, Faithful, Watched
<1> QED
  BY <1>1, <1>2, QuietStep

LEMMA AuthenticatedCurrent ==
  ASSUME NEW t \in Handlers, NEW b \in Browsers, Watched, SessionsInv,
         NEW route \in AdminRoutes \cup OwnRoutes, NEW r \in Request,
         Authenticated(t, b, route, r)
  PROVE  SessionsInv'
<1> DEFINE q == [r EXCEPT !.route = route, !.token = jar[b].access,
                          !.user = IF route \in OwnRoutes THEN jar[b].access.sub ELSE @]
<1>1. jar[b].access \in Token /\ jar[b].access.sub \in Users /\ Faithful(jar[b].access)
  BY CookieTyped DEF Authenticated, SessionsInv
<1>2. q \in Request /\ q.token = jar[b].access
  BY <1>1 DEF Request, Routes
<1>3. Accept(t, "auth", q) /\ jar[b].access # None
  BY DEF Authenticated
<1> HIDE DEF q
<1> QED
  BY <1>1, <1>2, <1>3, AcceptedCurrent

LEMMA AskingCurrent ==
  ASSUME NEW t \in Handlers, NEW b \in Browsers, Watched, SessionsInv, Asks(t, b)
  PROVE  SessionsInv'
<1>0. Blank(b) \in Request /\ Blank(b).token = None
  BY BlankTyped DEF Blank
<1>1. CASE LoginRequest(t, b)
  <2>1. PICK e \in Emails, w \in Passwords :
          Accept(t, "find", [Blank(b) EXCEPT !.route = "login", !.patch = e, !.old = w])
    BY <1>1 DEF LoginRequest
  <2> DEFINE q == [Blank(b) EXCEPT !.route = "login", !.patch = e, !.old = w]
  <2>2. q \in Request /\ q.token = None
    BY <1>0 DEF Request, Routes, Patches
  <2>3. Faithful(q.token)
    BY <2>2 DEF Faithful
  <2> HIDE DEF q
  <2> QED
    BY <2>1, <2>2, <2>3, AcceptedCurrent DEF q
<1>2. CASE RefreshRequest(t, b)
  <2> DEFINE q == [Blank(b) EXCEPT !.route = "refresh", !.token = jar[b].refresh,
                                   !.user = jar[b].refresh.sub]
  <2>1. jar[b].refresh \in Token /\ jar[b].refresh.sub \in Users /\ jar[b].refresh # None
        /\ Faithful(jar[b].refresh)
    BY <1>2, CookieTyped DEF RefreshRequest, SessionsInv
  <2>2. q \in Request /\ q.token = jar[b].refresh /\ q.user = q.token.sub
    BY <1>0, <2>1 DEF Request, Routes
  <2>3. Accept(t, "refresh", q)
    BY <1>2 DEF RefreshRequest
  <2> HIDE DEF q
  <2> QED
    BY <2>1, <2>2, <2>3, AcceptedCurrent
<1>3. CASE GetMe(t, b)
  BY <1>0, <1>3, AuthenticatedCurrent DEF GetMe, OwnRoutes
<1>4. CASE UpdateMe(t, b)
  <2>1. PICK p \in Emails \cup {NameOnly, NoChange} :
          Authenticated(t, b, "profile", [Blank(b) EXCEPT !.patch = p])
    BY <1>4 DEF UpdateMe
  <2>2. [Blank(b) EXCEPT !.patch = p] \in Request
    BY <1>0 DEF Request, Patches
  <2> QED
    BY <2>1, <2>2, AuthenticatedCurrent DEF OwnRoutes
<1>5. CASE ChangePassword(t, b)
  <2>1. PICK old \in Passwords, new \in Passwords :
          Authenticated(t, b, "password", [Blank(b) EXCEPT !.old = old, !.new = new])
    BY <1>5 DEF ChangePassword
  <2>2. [Blank(b) EXCEPT !.old = old, !.new = new] \in Request
    BY <1>0 DEF Request
  <2> QED
    BY <2>1, <2>2, AuthenticatedCurrent DEF OwnRoutes
<1>6. CASE Activate(t, b) \/ Deactivate(t, b)
  <2>1. \A u \in Users : [Blank(b) EXCEPT !.user = u] \in Request
    BY <1>0 DEF Request
  <2>2. {"activate", "deactivate"} \subseteq AdminRoutes \cup OwnRoutes
    BY DEF AdminRoutes
  <2> QED
    BY <1>6, <2>1, <2>2, AuthenticatedCurrent DEF Activate, Deactivate
<1>7. CASE Update(t, b)
  <2>1. PICK u \in Users, p \in Emails \cup {NameOnly, NoChange} :
          Authenticated(t, b, "update", [Blank(b) EXCEPT !.user = u, !.patch = p])
    BY <1>7 DEF Update
  <2>2. [Blank(b) EXCEPT !.user = u, !.patch = p] \in Request
    BY <1>0 DEF Request, Patches
  <2> QED
    BY <2>1, <2>2, AuthenticatedCurrent DEF AdminRoutes
<1> QED
  BY <1>1, <1>2, <1>3, <1>4, <1>5, <1>6, <1>7 DEF Asks

LEMMA CheckingCurrent ==
  ASSUME NEW t \in Handlers, Watched, SessionsInv, AuthRequired(t) PROVE SessionsInv'
<1>1. CASE Goto(t, "load")
  <2>1. /\ OthersRest(t) /\ UNCHANGED <<users, jar, epoch, banned>> /\ Typed'
        /\ pc'[t] = "load" /\ req'[t] = req[t] /\ pc[t] = "auth"
    BY <1>1, Going, CheckingTyped DEF Places, SessionsInv, AuthRequired
  <2>2. Current(t)'
    BY <2>1 DEF Current, SessionsInv, Faithful, Watched
  <2> QED
    BY <2>1, <2>2, QuietStep
<1> QED
  BY <1>1, AnsweredCurrent DEF AuthRequired

LEMMA LoginCurrent ==
  ASSUME NEW t \in Handlers, Watched, SessionsInv, Authenticate(t) PROVE SessionsInv'
<1>1. ASSUME NEW u \in Users, pc[t] = "find",
             pc' = [pc EXCEPT ![t] = "issue"], req' = [req EXCEPT ![t].user = u],
             mem' = [mem EXCEPT ![t] = [row |-> users[u], since |-> epoch[u]]],
             UNCHANGED <<users, jar, epoch, banned>>
      PROVE  SessionsInv'
  <2>1. req' = [req EXCEPT ![t] = [req[t] EXCEPT !.user = u]]
    BY <1>1
  <2>2. req[t] \in Request /\ [req[t] EXCEPT !.user = u].token = req[t].token
        /\ [req[t] EXCEPT !.user = u].user = u
    BY <1>1, RowsTyped DEF Request, SessionsInv
  <2>3. OthersRest(t) /\ pc'[t] = "issue" /\ req'[t].token = req[t].token /\ req'[t].user = u
        /\ mem'[t] = [row |-> users[u], since |-> epoch[u]]
    BY <1>1, <2>1, <2>2 DEF OthersRest, SessionsInv, Typed, SessionsTypeOK
  <2>4. Faithful(req[t].token) /\ (u \notin overwritten => users[u].ver = epoch[u])
    BY <1>1 DEF SessionsInv, Current
  <2>5. Current(t)'
    BY <2>3, <2>4 DEF Current, Faithful, Watched
  <2> QED
    BY <1>1, <2>3, <2>5, LoginTyped, QuietStep DEF SessionsInv
<1> QED
  BY <1>1, AnsweredCurrent DEF Authenticate

(* The copy to write.                                                      *)
LEMMA CopyCurrent ==
  ASSUME NEW t \in Handlers, Watched, SessionsInv, pc[t] = "load", NEW row \in UserRow,
         Holding(t, row, 0, "write"), Typed',
         req[t].route = "deactivate" => ~row.active
  PROVE  SessionsInv'
<1>0. Typed /\ 0 \in Nat /\ "write" \in Places
  BY DEF SessionsInv, Places
<1>1. /\ OthersRest(t) /\ UNCHANGED <<users, jar, epoch, banned>>
      /\ pc'[t] = "write" /\ req'[t] = req[t] /\ mem'[t] = [row |-> row, since |-> 0]
  BY <1>0, Keeping
<1>2. Faithful(req[t].token)
  BY DEF SessionsInv, Current
<1>3. Current(t)'
  BY <1>1, <1>2 DEF Current, Faithful, Watched
<1> QED
  BY <1>1, <1>3, QuietStep

LEMMA ServingCurrent ==
  ASSUME NEW t \in Handlers, Watched, SessionsInv,
         RefreshTokens(t) \/ GetUser(t) \/ ReplacePassword(t) \/ UpdateUser(t)
           \/ ActivateUser(t) \/ DeactivateUser(t)
  PROVE  SessionsInv'
<1> DEFINE row == users[req[t].user]
<1>0. Typed /\ Typed'
  BY ServingTyped DEF SessionsInv
<1>1. CASE RefreshTokens(t)
  <2> DEFINE k == req[t].token
             r == users[k.sub]
  <2>1. CASE Answer(t)
    BY <2>1, AnsweredCurrent
  <2>2. CASE ~Answer(t)
    <3>1. k \in Token /\ r \in UserRow /\ k.since \in Nat /\ k # None /\ pc[t] = "refresh"
      BY <1>0, <1>1, RowsTyped DEF RefreshTokens, Typed, Equipped, Token
    <3>2. Holding(t, r, k.since, "issue") /\ r.ver = k.ver
      BY <1>1, <2>2 DEF RefreshTokens
    <3>3. Faithful(k) /\ req[t].user = k.sub
      BY <3>1 DEF SessionsInv, Current
    <3>4. /\ OthersRest(t) /\ UNCHANGED <<users, jar, epoch, banned>>
          /\ pc'[t] = "issue" /\ req'[t] = req[t]
          /\ mem'[t] = [row |-> r, since |-> k.since]
      BY <1>0, <3>1, <3>2, Keeping DEF Places
    <3>5. Current(t)'
      BY <3>1, <3>2, <3>3, <3>4 DEF Current, Faithful, Watched
    <3> QED
      BY <1>0, <3>4, <3>5, QuietStep
  <2> QED
    BY <2>1, <2>2
<1>2. CASE GetUser(t)
  BY <1>2, AnsweredCurrent DEF GetUser
<1>3. CASE ReplacePassword(t)
  <2>1. row \in UserRow /\ req[t].new \in Passwords /\ pc[t] = "load"
        /\ req[t].route = "password"
    BY <1>0, <1>3, RowsTyped DEF Request, ReplacePassword, Loads
  <2> DEFINE new == SetPassword(row, req[t].new)
  <2>2. new \in UserRow
    BY <2>1, PasswordSet
  <2>3. Answer(t) \/ Holding(t, new, 0, "write")
    BY <1>3 DEF ReplacePassword
  <2> HIDE DEF new
  <2> QED
    BY <1>0, <2>1, <2>2, <2>3, CopyCurrent, AnsweredCurrent
<1>4. CASE UpdateUser(t)
  <2> DEFINE new == ApplyPatch(row, req[t].patch)
  <2>1. row \in UserRow /\ pc[t] = "load" /\ req[t].route \in {"profile", "update"}
    BY <1>0, <1>4, RowsTyped DEF UpdateUser, Loads
  <2>2. new \in UserRow
    BY <2>1 DEF ApplyPatch, UserRow
  <2>3. Answer(t) \/ Holding(t, new, 0, "write")
    BY <1>4 DEF UpdateUser
  <2> HIDE DEF new
  <2> QED
    BY <1>0, <2>1, <2>2, <2>3, CopyCurrent, AnsweredCurrent
<1>5. CASE ActivateUser(t) \/ DeactivateUser(t)
  <2> DEFINE flag == req[t].route = "activate"
             new == [row EXCEPT !.active = flag]
  <2>1. row \in UserRow /\ pc[t] = "load" /\ req[t].route \in {"activate", "deactivate"}
    BY <1>0, <1>5, RowsTyped DEF ActivateUser, DeactivateUser, Loads
  <2>2. new \in UserRow /\ new.active = flag
    BY <2>1 DEF UserRow
  <2>3. Answer(t) \/ Holding(t, new, 0, "write")
    BY <1>5 DEF ActivateUser, DeactivateUser, Loads
  <2>4. req[t].route = "deactivate" => ~new.active
    BY <2>2
  <2> HIDE DEF new
  <2> QED
    BY <1>0, <2>1, <2>2, <2>3, <2>4, CopyCurrent, AnsweredCurrent
<1> QED
  BY <1>1, <1>2, <1>3, <1>4, <1>5

(* The UPDATE: of a copy of the row as it is, or the row is overwritten.   *)
LEMMA WritingCurrent ==
  ASSUME NEW t \in Handlers, Watched, SessionsInv, WriteUser(t) PROVE SessionsInv'
<1> DEFINE u == req[t].user
           row == mem[t].row
           route == req[t].route
<1>0. Typed /\ Typed' /\ pc[t] = "write"
  BY WritingTyped DEF SessionsInv, WriteUser
<1>1. CASE Answer(t)
  BY <1>1, AnsweredCurrent
<1>2. CASE ~Answer(t)
  <2>1. /\ u \in Users /\ row \in UserRow /\ Faithful(req[t].token)
        /\ users[u] \in UserRow /\ (route = "deactivate" => ~row.active)
    BY <1>0, RowsTyped DEF SessionsInv, Typed, Equipped, Memory, Current
  <2>2. /\ users' = [users EXCEPT ![u] = row]
        /\ epoch' = IF route = "password" THEN [epoch EXCEPT ![u] = @ + 1] ELSE epoch
        /\ banned' = CASE route = "deactivate" -> banned \cup {u}
                       [] route = "activate" -> banned \ {u}
                       [] OTHER -> banned
        /\ jar' = jar
        /\ \/ /\ route = "password" /\ pc' = [pc EXCEPT ![t] = "issue"]
              /\ mem' = [mem EXCEPT ![t].since = epoch'[u]] /\ UNCHANGED req
           \/ Done(t)
    BY <1>2 DEF WriteUser
  <2>3. u \notin overwritten' =>
          /\ row.ver = (IF route = "password" THEN users[u].ver + 1 ELSE users[u].ver)
          /\ route \in {"activate", "deactivate"} \/ row.active = users[u].active
    BY <1>2 DEF Watched, SetsBack
  <2>4. /\ epoch \in [Users -> Nat] /\ users \in [Users -> UserRow] /\ banned \subseteq Users
        /\ users'[u] = row /\ \A v \in Users \ {u} : users'[v] = users[v]
    BY <1>0, <2>1, <2>2 DEF Typed, SessionsTypeOK
  <2>5. /\ epoch'[u] = IF route = "password" THEN epoch[u] + 1 ELSE epoch[u]
        /\ \A v \in Users \ {u} : epoch'[v] = epoch[v]
    BY <2>1, <2>2, <2>4
  <2>6. \A v \in Users \ overwritten' : users'[v].ver = epoch'[v]
    <3>1. \A v \in Users \ overwritten' : v \notin overwritten /\ users[v].ver = epoch[v]
      BY DEF Watched, SessionsInv
    <3> QED
      BY <2>1, <2>3, <2>4, <2>5, <3>1
  <2>7. \A v \in banned' \ overwritten' : ~users'[v].active
    <3>1. \A v \in banned \ overwritten' : ~users[v].active
      BY DEF Watched, SessionsInv
    <3>2. CASE route = "deactivate"
      BY <2>1, <2>2, <2>4, <3>1, <3>2
    <3>3. CASE route = "activate"
      BY <2>2, <2>4, <3>1, <3>3
    <3>4. CASE route # "deactivate" /\ route # "activate"
      BY <2>2, <2>3, <2>4, <3>1, <3>4
    <3> QED
      BY <3>2, <3>3, <3>4
  <2>8. OthersRest(t) /\ Current(t)'
    <3>1. CASE Done(t)
      BY <1>0, <3>1, Finishing DEF Current
    <3>2. CASE /\ route = "password" /\ pc' = [pc EXCEPT ![t] = "issue"]
               /\ mem' = [mem EXCEPT ![t].since = epoch'[u]] /\ UNCHANGED req
      <4>1. mem' = [mem EXCEPT ![t] = [mem[t] EXCEPT !.since = epoch'[u]]]
        BY <3>2
      <4>2. mem[t] \in Memory
        BY <1>0 DEF Typed, Equipped
      <4>3. OthersRest(t) /\ pc'[t] = "issue" /\ req'[t] = req[t]
            /\ mem'[t].row = row /\ mem'[t].since = epoch'[u]
        BY <1>0, <3>2, <4>1, <4>2 DEF OthersRest, Typed, SessionsTypeOK, Memory
      <4>4. u \notin overwritten' => epoch'[u] = row.ver
        BY <2>1, <2>4, <2>6
      <4> QED
        BY <2>1, <4>3, <4>4 DEF Current, Faithful, Watched
    <3> QED
      BY <2>2, <3>1, <3>2
  <2>9. ASSUME NEW x \in Handlers \ {t} PROVE Current(x)'
    <3>1. pc'[x] = pc[x] /\ req'[x] = req[x] /\ mem'[x] = mem[x] /\ Current(x)
      BY <2>8 DEF OthersRest, SessionsInv
    <3> QED
      BY <3>1 DEF Current, Faithful, Watched
  <2>10. \A b \in Browsers : Faithful(jar[b].access)' /\ Faithful(jar[b].refresh)'
    BY <2>2 DEF SessionsInv, Faithful, Watched
  <2> QED
    BY <1>0, <2>6, <2>7, <2>8, <2>9, <2>10 DEF SessionsInv
<1> QED
  BY <1>1, <1>2

(* New cookies: both tokens carry the version of the row that was read,    *)
(* which is the epoch of the credential.                                   *)
LEMMA IssuingCurrent ==
  ASSUME NEW t \in Handlers, Watched, SessionsInv, SetAuthCookies(t) PROVE SessionsInv'
<1> DEFINE G(kind) == Generate(req[t].user, mem[t].row, kind, mem[t].since)
           b == req[t].from
<1>0. Typed /\ Typed' /\ OthersRest(t) /\ pc'[t] = "idle" /\ pc[t] = "issue"
      /\ UNCHANGED <<users, epoch, banned>>
  BY IssuingTyped, Finishing DEF SessionsInv, SetAuthCookies
<1>1. req[t].user \notin overwritten => mem[t].row.ver = mem[t].since
  BY <1>0 DEF SessionsInv, Current
<1>2. Faithful(G("access")) /\ Faithful(G("refresh"))
  BY <1>1 DEF Faithful, Generate
<1>3. jar' = [jar EXCEPT ![b] = [access |-> G("access"), refresh |-> G("refresh")]]
  BY DEF SetAuthCookies
<1> HIDE DEF G, b
<1>4. ASSUME NEW c \in Browsers
      PROVE  Faithful(jar[c].access)' /\ Faithful(jar[c].refresh)'
  <2>1. jar \in [Browsers -> Cookies]
    BY <1>0 DEF Typed, SessionsTypeOK
  <2>2. Faithful(jar[c].access) /\ Faithful(jar[c].refresh)
    BY DEF SessionsInv
  <2>3. CASE c = b
    <3>1. jar'[c].access = G("access") /\ jar'[c].refresh = G("refresh")
      BY <1>3, <2>1, <2>3
    <3> QED
      BY <1>2, <3>1 DEF Faithful, Watched
  <2>4. CASE c # b
    <3>1. jar'[c] = jar[c]
      BY <1>3, <2>1, <2>4
    <3> QED
      BY <2>2, <3>1 DEF Faithful, Watched
  <2> QED
    BY <2>3, <2>4
<1>5. ASSUME NEW x \in Handlers \ {t} PROVE Current(x)'
  <2>1. pc'[x] = pc[x] /\ req'[x] = req[x] /\ mem'[x] = mem[x] /\ Current(x)
    BY <1>0 DEF OthersRest, SessionsInv
  <2> QED
    BY <1>0, <2>1 DEF Current, Faithful, Watched
<1>6. Current(t)'
  BY <1>0 DEF Current
<1> QED
  BY <1>0, <1>4, <1>5, <1>6 DEF SessionsInv, Watched

LEMMA LogoutCurrent ==
  ASSUME NEW b \in Browsers, Watched, SessionsInv, Logout(b) PROVE SessionsInv'
<1>1. Typed'
  BY TypedSteps DEF SessionsInv, Next
<1>2. jar' = [jar EXCEPT ![b] = LoggedOut] /\ UNCHANGED <<users, pc, req, mem, epoch, banned>>
  BY DEF Logout
<1>3. ASSUME NEW c \in Browsers
      PROVE  Faithful(jar[c].access)' /\ Faithful(jar[c].refresh)'
  <2>1. jar'[c] = jar[c] \/ jar'[c] = LoggedOut
    BY <1>2 DEF SessionsInv, Typed, SessionsTypeOK
  <2>2. Faithful(jar[c].access) /\ Faithful(jar[c].refresh)
    BY DEF SessionsInv
  <2> QED
    BY <2>1, <2>2 DEF Faithful, LoggedOut, Watched
<1>4. ASSUME NEW x \in Handlers PROVE Current(x)'
  BY <1>2 DEF Current, SessionsInv, Faithful, Watched
<1> QED
  BY <1>1, <1>2, <1>3, <1>4 DEF SessionsInv, Watched

LEMMA SessionsInvInitially == Init => SessionsInv
<1> SUFFICES ASSUME Init PROVE SessionsInv
  OBVIOUS
<1>1. Typed
  BY TypedInitially
<1>2. \A t \in Handlers : Current(t)
  BY DEF Init, Current
<1>3. \A u \in Users : users[u].ver = epoch[u]
  BY DEF Init
<1>4. \A b \in Browsers : Faithful(jar[b].access) /\ Faithful(jar[b].refresh)
  BY DEF Init, LoggedOut, Faithful
<1> QED
  BY <1>1, <1>2, <1>3, <1>4 DEF Init, SessionsInv

LEMMA SessionsInvSteps == SessionsInv /\ [Next]_vars /\ Watched => SessionsInv'
<1> SUFFICES ASSUME SessionsInv, [Next]_vars, Watched PROVE SessionsInv'
  OBVIOUS
<1>1. CASE UNCHANGED vars
  <2>1. Typed'
    BY <1>1, TypedSteps DEF SessionsInv
  <2>2. \A t \in Handlers : Current(t)'
    BY <1>1 DEF vars, Current, SessionsInv, Faithful, Watched
  <2> QED
    BY <1>1, <2>1, <2>2 DEF vars, SessionsInv, Faithful, Watched
<1>2. ASSUME NEW t \in Handlers, Serves(t) \/ Abort(t) PROVE SessionsInv'
  BY <1>2, CheckingCurrent, LoginCurrent, ServingCurrent, WritingCurrent, IssuingCurrent,
     AnsweredCurrent
  DEF Serves, Abort
<1> QED
  BY <1>1, <1>2, AskingCurrent, LogoutCurrent DEF Next

LEMMA WatchingSteps ==
  ASSUME SessionsInv, [Next]_vars, [Note]_<<vars, overwritten>>
  PROVE  SessionsInv' /\ Watched
<1>1. ASSUME UNCHANGED <<vars, overwritten>>, NEW t \in Handlers, SetsBack(t) PROVE FALSE
  <2>1. WriteUser(t) /\ ~Answer(t)
    BY <1>1 DEF SetsBack
  <2>2. pc \in [Handlers -> Places] /\ pc' = pc /\ pc[t] = "write"
    BY <1>1, <2>1 DEF vars, SessionsInv, Typed, SessionsTypeOK, Places, WriteUser
  <2>3. pc' = [pc EXCEPT ![t] = "issue"] \/ pc' = [pc EXCEPT ![t] = "idle"]
    BY <2>1 DEF WriteUser, Done
  <2> QED
    BY <2>2, <2>3
<1>2. Watched
  BY <1>1 DEF Note, Watched
<1> QED
  BY <1>2, SessionsInvSteps

(* A request is let through by one of two checks, on the row as it is then.*)
LEMMA AdmittedCurrent ==
  ASSUME NEW t \in Handlers, Typed, [Next]_vars, Admitted(t)
  PROVE  LET k == req[t].token
         IN  k \in Token /\ users[k.sub].active /\ users[k.sub].ver = k.ver
<1>1. pc'[t] \notin {"idle", pc[t]} /\ pc[t] \in {"auth", "refresh"}
  BY DEF Admitted
<1>2. req[t].token \in Token
  BY <1>1, RowsTyped DEF Typed, Equipped
<1>3. ~UNCHANGED vars /\ \A b \in Browsers : ~Logout(b)
  BY <1>1 DEF vars, Logout
<1>4. PICK x \in Handlers : Serves(x) \/ Abort(x) \/ \E b \in Browsers : Asks(x, b)
  BY <1>3 DEF Next
<1>5. pc \in [Handlers -> Places]
  BY DEF Typed, SessionsTypeOK, Places
<1>6. x = t
  <2>1. CASE Abort(x) \/ GetUser(x)
    BY <1>1, <1>5, <2>1 DEF Abort, GetUser, Answer, Done
  <2>2. CASE \E b \in Browsers : Asks(x, b)
    BY <1>1, <1>5, <2>2
    DEF Asks, LoginRequest, RefreshRequest, GetMe, UpdateMe, ChangePassword, Update,
        Activate, Deactivate, Authenticated, Accept
  <2>3. CASE AuthRequired(x)
    BY <1>1, <1>5, <2>3 DEF AuthRequired, Goto, Answer, Done
  <2>4. CASE Authenticate(x)
    BY <1>1, <1>5, <2>4 DEF Authenticate, Answer, Done
  <2>5. CASE RefreshTokens(x) \/ ReplacePassword(x) \/ UpdateUser(x) \/ ActivateUser(x)
             \/ DeactivateUser(x)
    BY <1>1, <1>5, <2>5
    DEF RefreshTokens, ReplacePassword, UpdateUser, ActivateUser, DeactivateUser, Holding,
        Answer, Done
  <2>6. CASE WriteUser(x)
    BY <1>1, <1>5, <2>6 DEF WriteUser, Answer, Done
  <2>7. CASE SetAuthCookies(x)
    BY <1>1, <1>5, <2>7 DEF SetAuthCookies, Done
  <2> QED
    BY <1>4, <2>1, <2>2, <2>3, <2>4, <2>5, <2>6, <2>7 DEF Serves
<1>7. AuthRequired(t) \/ RefreshTokens(t)
  <2>1. ~Abort(t) /\ ~GetUser(t)
    BY <1>1, <1>5 DEF Abort, GetUser, Answer, Done
  <2>2. \A b \in Browsers : ~Asks(t, b)
    BY <1>1 DEF Asks, LoginRequest, RefreshRequest, GetMe, UpdateMe, ChangePassword, Update,
        Activate, Deactivate, Authenticated, Idle
  <2>3. ~Authenticate(t) /\ ~WriteUser(t) /\ ~SetAuthCookies(t) /\ ~ReplacePassword(t)
        /\ ~UpdateUser(t) /\ ~ActivateUser(t) /\ ~DeactivateUser(t)
    BY <1>1 DEF Authenticate, WriteUser, SetAuthCookies, ReplacePassword, UpdateUser,
        ActivateUser, DeactivateUser, Loads
  <2> QED
    BY <1>4, <1>6, <2>1, <2>2, <2>3 DEF Serves
<1>8. ~Answer(t)
  BY <1>1, <1>5 DEF Answer, Done
<1> QED
  BY <1>2, <1>7, <1>8 DEF AuthRequired, RefreshTokens, TokenIsCurrent, CanLogin

(* What remains of PasswordEndsSessions with any number of writers: what a *)
(* request or a refresh shows when it is let through descends from the     *)
(* password that the account has now, unless a write of that account's row *)
(* has stored a copy from before another one (user_repository.go:103-123,  *)
(* the whole-row UPDATE). No refresh, login or change of the password that *)
(* reads the row before a change and answers after it is another way in.   *)
THEOREM EarlierSessionsEnd ==
  Spec /\ Watching =>
    [][\A t \in Handlers :
         Admitted(t) /\ req[t].token.sub \notin overwritten =>
           req[t].token.since = epoch[req[t].token.sub]]_vars
<1>1. SessionsInv /\ [Next]_vars =>
        [\A t \in Handlers :
           Admitted(t) /\ req[t].token.sub \notin overwritten =>
             req[t].token.since = epoch[req[t].token.sub]]_vars
  <2> SUFFICES ASSUME SessionsInv, [Next]_vars, NEW t \in Handlers, Admitted(t),
                      req[t].token.sub \notin overwritten
               PROVE  req[t].token.since = epoch[req[t].token.sub]
    OBVIOUS
  <2> DEFINE k == req[t].token
  <2>1. k \in Token /\ users[k.sub].ver = k.ver
    BY AdmittedCurrent DEF SessionsInv
  <2>2. Faithful(k) /\ k # None
    BY DEF SessionsInv, Current, Admitted, Typed, Equipped
  <2>3. k.sub \in Users /\ users[k.sub].ver = epoch[k.sub]
    BY <2>1 DEF Token, SessionsInv
  <2> QED
    BY <2>1, <2>2, <2>3 DEF Faithful
<1> QED
  BY <1>1, SessionsInvInitially, WatchingSteps, PTL DEF Spec, Watching

(* What remains of OffboardedStaysOut with any number of writers: nothing  *)
(* an account does after its deactivation is let through, whatever token   *)
(* it shows, unless a write has stored a copy of its row from before       *)
(* another one.                                                            *)
THEOREM OffboardedKeptOut ==
  Spec /\ Watching =>
    [][\A t \in Handlers :
         Admitted(t) /\ req[t].token.sub \notin overwritten =>
           req[t].token.sub \notin banned]_vars
<1>1. SessionsInv /\ [Next]_vars =>
        [\A t \in Handlers :
           Admitted(t) /\ req[t].token.sub \notin overwritten =>
             req[t].token.sub \notin banned]_vars
  <2> SUFFICES ASSUME SessionsInv, [Next]_vars, NEW t \in Handlers, Admitted(t),
                      req[t].token.sub \notin overwritten
               PROVE  req[t].token.sub \notin banned
    OBVIOUS
  <2>1. users[req[t].token.sub].active
    BY AdmittedCurrent DEF SessionsInv
  <2> QED
    BY <2>1 DEF SessionsInv
<1> QED
  BY <1>1, SessionsInvInitially, WatchingSteps, PTL DEF Spec, Watching
=============================================================================
