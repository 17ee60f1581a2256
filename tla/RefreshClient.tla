--------------------------- MODULE RefreshClient ----------------------------
(* The browser's HTTP client: a 401 makes it refresh the cookies, in one   *)
(* request that every concurrent 401 shares, and send the request again.   *)
(* The server is modelled by what it answers, rightly or not: a database   *)
(* error makes AuthRequired answer 401 and POST /auth/refresh refuse.      *)
EXTENDS Naturals, FiniteSets

CONSTANTS Requests,      \* calls of the client by the pages
          Blobs,         \* those through getBlob
          Silent         \* those with skipAuthRedirect

ASSUME ClientAssumption ==
  Blobs \subseteq Requests /\ Silent \subseteq Requests \ Blobs

MaxSends == 3            \* bound: from here on sends are not told apart

VARIABLES pc,        \* per request: where it is
          sends,     \* how often it was sent (getBlob does not count)
          status,    \* what is under way for it: a token, then an answer
          flight,    \* refreshInFlight: "none", "pending", or its result
          jar,       \* the token of the access cookie: "fresh" or "expired"
          alive,     \* the session is one the server honours
          login,     \* the page was sent to /auth/login
          mishap     \* history: the session was misjudged, or a token ran
                     \* out in the middle of a retry

vars == <<pc, sends, status, flight, jar, alive, login, mishap>>

Goto(r, step) == pc' = [pc EXCEPT ![r] = step]

(* The answer to it has been looked at, or will not come.                  *)
Leave(r, step) == Goto(r, step) /\ status' = [status EXCEPT ![r] = "none"]

(* fetch, with the cookie of the moment. The second time the request has   *)
(* _retried set; getBlob has no such mark.                                 *)
Fetch(r) ==
  /\ Goto(r, "sent") /\ status' = [status EXCEPT ![r] = jar]
  /\ sends' = [sends EXCEPT ![r] = IF r \in Blobs \/ @ = MaxSends THEN @ ELSE @ + 1]

Send(r) ==
  /\ pc[r] = "new" /\ Fetch(r)
  /\ UNCHANGED <<flight, jar, alive, login, mishap>>

(* The _retried flag is not passed on (mutant).                            *)
NeverRetried(r) == FALSE

Retried(r) == sends[r] > 1

(* A 401 that the session has not earned: its token is the last one and    *)
(* valid, or was when the request was sent again.                          *)
Undeserved(r) == alive /\ (status[r] = "fresh" \/ (status[r] = "older" /\ Retried(r)))

(* The server's answer: a 401 or any other. AuthRequired answers 401 to a  *)
(* token it refuses, and on every error of its look at the users.          *)
Answer(r) ==
  /\ pc[r] = "sent" /\ Goto(r, "answered")
  /\ \/ /\ status' = [status EXCEPT ![r] = "401"]
        /\ mishap' = (mishap \/ Undeserved(r))
     \/ status' = [status EXCEPT ![r] = "other"] /\ UNCHANGED mishap
  /\ UNCHANGED <<sends, flight, jar, alive, login>>

(* fetch throws: no response, and no redirect.                             *)
NetworkError(r) ==
  /\ pc[r] = "sent" /\ Leave(r, "done")
  /\ UNCHANGED <<sends, flight, jar, alive, login, mishap>>

(* The body, or the error, is the caller's.                                *)
Settle(r) ==
  /\ pc[r] = "answered" /\ status[r] = "other" /\ Leave(r, "done")
  /\ UNCHANGED <<sends, flight, jar, alive, login, mishap>>

(* A refresh that another call has fired counts as failed (mutant).        *)
UnauthorizedAlone(r) ==
  /\ pc[r] = "answered" /\ status[r] = "401" /\ ~Retried(r)
  /\ IF flight = "none" THEN flight' = "pending" /\ Leave(r, "awaiting")
                        ELSE UNCHANGED flight /\ Leave(r, "refused")
  /\ UNCHANGED <<sends, jar, alive, login, mishap>>

(* tryRefresh: the first one fires the request; the others get the promise *)
(* of it, settled perhaps, which they hold whatever the variable is set to.*)
Unauthorized(r) ==
  /\ pc[r] = "answered" /\ status[r] = "401" /\ ~Retried(r)
  /\ IF flight \in {"none", "pending"}
     THEN flight' = "pending" /\ Leave(r, "awaiting")
     ELSE UNCHANGED flight /\ Leave(r, flight)
  /\ UNCHANGED <<sends, jar, alive, login, mishap>>

(* The error is thrown, after a hard redirect unless the caller opted out. *)
Reject(r) ==
  /\ Leave(r, "done") /\ login' = (login \/ r \notin Silent)
  /\ UNCHANGED <<sends, flight, jar, alive, mishap>>

RejectRetried(r) ==
  pc[r] = "answered" /\ status[r] = "401" /\ Retried(r) /\ Reject(r)

Resume(r) ==
  \/ /\ pc[r] = "renewed" /\ Fetch(r)
     /\ UNCHANGED <<flight, jar, alive, login, mishap>>
  \/ pc[r] = "refused" /\ Reject(r)

(* The promise settles, for all who hold it.                               *)
Settled(result) ==
  /\ flight' = result
  /\ pc' = [r \in Requests |-> IF pc[r] = "awaiting" THEN result ELSE pc[r]]

(* POST /auth/refresh: new cookies for a session the server honours; or    *)
(* none (r.ok is false: a 401 for whatever error, the limiter's 429, a     *)
(* 5xx; or an exception).                                                  *)
RefreshAnswer ==
  /\ flight = "pending"
  /\ \/ /\ alive /\ Settled("renewed") /\ jar' = "fresh"
        /\ status' = [r \in Requests |-> IF status[r] = "fresh" THEN "older"
                                                                ELSE status[r]]
        /\ UNCHANGED mishap
     \/ /\ Settled("refused") /\ mishap' = (mishap \/ alive)
        /\ UNCHANGED <<jar, status>>
  /\ UNCHANGED <<sends, alive, login>>

(* The timer of 0 ms: the next 401 fires a refresh of its own.             *)
ClearFlight ==
  /\ flight \in {"renewed", "refused"} /\ flight' = "none"
  /\ UNCHANGED <<pc, sends, status, jar, alive, login, mishap>>

(* Somebody is between the new cookies and the answer to the second try.   *)
Retrying ==
  \/ flight = "renewed"
  \/ \E r \in Requests \ Blobs : pc[r] = "renewed" \/ (pc[r] = "sent" /\ Retried(r))

(* The access token of the cookie runs out. (An older one may do so        *)
(* whenever it likes.)                                                     *)
Expire ==
  /\ jar = "fresh" /\ jar' = "expired" /\ mishap' = (mishap \/ Retrying)
  /\ status' = [r \in Requests |-> IF status[r] = "fresh" THEN "expired"
                                                          ELSE status[r]]
  /\ UNCHANGED <<pc, sends, flight, alive, login>>

(* The session ends on the server.                                         *)
Die ==
  /\ alive /\ alive' = FALSE
  /\ UNCHANGED <<pc, sends, status, flight, jar, login, mishap>>

Init ==
  /\ pc = [r \in Requests |-> "new"] /\ sends = [r \in Requests |-> 0]
  /\ status = [r \in Requests |-> "none"] /\ flight = "none"
  /\ jar = "fresh" /\ alive = TRUE /\ login = FALSE /\ mishap = FALSE

Serves(r) ==
  \/ Answer(r) \/ NetworkError(r) \/ Settle(r) \/ Unauthorized(r)
  \/ RejectRetried(r) \/ Resume(r)

Next ==
  \/ \E r \in Requests : Send(r) \/ Serves(r)
  \/ RefreshAnswer \/ ClearFlight \/ Expire \/ Die

(* The event loop runs and fetch settles, with an answer or an exception.  *)
Fairness ==
  /\ WF_vars(RefreshAnswer) /\ WF_vars(ClearFlight)
  /\ \A r \in Requests : WF_vars(Serves(r))

Spec == Init /\ [][Next]_vars /\ Fairness
-----------------------------------------------------------------------------
ClientTypeOK ==
  /\ pc \in [Requests -> {"new", "sent", "answered", "awaiting", "renewed",
                          "refused", "done"}]
  /\ sends \in [Requests -> 0..MaxSends]
  /\ status \in [Requests -> {"none", "fresh", "older", "expired", "401", "other"}]
  /\ flight \in {"none", "pending", "renewed", "refused"}
  /\ jar \in {"fresh", "expired"}
  /\ alive \in BOOLEAN /\ login \in BOOLEAN /\ mishap \in BOOLEAN
  /\ \A r \in Requests : pc[r] = "awaiting" => flight = "pending"

(* http-client.ts:16-29, as far as the client has it in its hands: when    *)
(* the server judges every request by its session, no interleaving of the  *)
(* calls, of the refresh they share and of its timer takes the page of a   *)
(* living session to the login. Not because a 401 came after the refresh   *)
(* was done with, nor because somebody else's had just been answered, nor  *)
(* because a call was sent again with the old cookie.                      *)
RedirectIsEarned == login => ~alive \/ mishap

(* http-client.ts:25: "they retry once with the new cookie", whatever the  *)
(* server answers and however often tokens run out meanwhile.              *)
RetriesOnce == \A r \in Requests \ Blobs : sends[r] <= 2

(* Every call but a download settles: with an answer, an error, or on the  *)
(* login page. A retry of the retry would make it go round for ever        *)
(* against a server that refreshes the session and refuses its token.      *)
CallsSettle == \A r \in Requests \ Blobs : pc[r] = "sent" ~> pc[r] = "done"

(* http-client.ts:26-28, "401s after the refresh resolved with a fresh     *)
(* token mean the session is truly dead": they do not, when the database   *)
(* fails behind AuthRequired or behind the refresh, when the limiter of    *)
(* /auth/refresh answers, or when the network loses the refresh.           *)
SessionTrulyDead == login => ~alive

(* A download settles too. It need not: getBlob tries again without end.   *)
DownloadsSettle == \A r \in Blobs : pc[r] = "sent" ~> pc[r] = "done"
=============================================================================
