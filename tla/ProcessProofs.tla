---------------------------- MODULE ProcessProofs ----------------------------
(***************************************************************************)
(* What holds of the server and of the page in a browser for every number  *)
(* of requests, of limiters and of tokens that expire: exit code 0 leaves  *)
(* no request behind, a call is sent again at most once, and the login     *)
(* page means that the session is dead. The two share no state: each is    *)
(* proved alone, then carried over to the runs that move one of them.      *)
(***************************************************************************)
EXTENDS MCProcess, TLAPS

-----------------------------------------------------------------------------
(* The server                                                              *)

(* What has been decided once main is past the serving.                    *)
Leaving == {"cleanup", "wait", "close", "exited"}

(* Nothing is served before the router is there; the listener is closed    *)
(* while requests are drained; from then on either the exit code is 1 or   *)
(* no request is left and none can begin.                                  *)
ServerInv ==
  /\ ServerTypeOK
  /\ database = "closed" => main = "exited"
  /\ main \in {"config", "ping", "migrate", "router"} =>
       listener = "none" /\ requests = 0
  /\ main = "drain" => listener = "closed"
  /\ main \in Leaving => code = 1 \/ (requests = 0 /\ listener = "closed")

LEMMA ServerStarts == ServerInit => ServerInv
<1> SUFFICES ASSUME ServerInit PROVE ServerInv
  OBVIOUS
<1>1. sweepers \in [Limiters -> {"none", "select", "ended"}] /\ requests \in 0..MaxRequests
  BY ServerAssumption DEF ServerInit
<1> QED
  BY <1>1 DEF ServerInit, ServerInv, ServerTypeOK, Leaving

(* main's own steps.                                                       *)
LEMMA MainsPreserve == ServerInv /\ Mains => ServerInv'
<1> SUFFICES ASSUME ServerInv, Mains PROVE ServerInv'
  OBVIOUS
<1> USE DEF ServerInv, ServerTypeOK, Leaving, Main, Return, Deadlines
<1>1. CASE LoadConfig
  BY <1>1 DEF LoadConfig
<1>2. CASE Ping
  BY <1>2 DEF Ping
<1>3. CASE RunMigrations
  BY <1>3 DEF RunMigrations
<1>4. CASE NewRouter
  BY <1>4 DEF NewRouter
<1>5. CASE Serve
  BY <1>5 DEF Serve
<1>6. CASE Drain
  BY <1>6 DEF Drain
<1>7. CASE Cleanup
  BY <1>7 DEF Cleanup
<1>8. CASE WaitForKeeper
  BY <1>8 DEF WaitForKeeper
<1>9. CASE CloseDB
  BY <1>9 DEF CloseDB
<1> QED
  BY <1>1, <1>2, <1>3, <1>4, <1>5, <1>6, <1>7, <1>8, <1>9 DEF Mains

(* The other goroutines, the requests, the timers and the signal.          *)
LEMMA ServerPreserves == ServerInv /\ [ServerNext]_serverVars => ServerInv'
<1> SUFFICES ASSUME ServerInv, [ServerNext]_serverVars PROVE ServerInv'
  OBVIOUS
<1> USE DEF ServerInv, ServerTypeOK, Leaving, Running, Deadlines
<1>1. CASE Mains
  BY <1>1, MainsPreserve
<1>2. CASE KeeperSelects
  BY <1>2 DEF KeeperSelects
<1>3. CASE KeeperDeletes
  BY <1>3 DEF KeeperDeletes
<1>4. ASSUME NEW d \in Deadlines, TimerFires(d) PROVE ServerInv'
  BY <1>4 DEF TimerFires
<1>5. ASSUME NEW l \in Limiters, SweeperEnds(l) PROVE ServerInv'
  BY <1>5 DEF SweeperEnds
<1>6. CASE StartRequest
  BY <1>6, ServerAssumption DEF StartRequest
<1>7. CASE FinishRequest
  BY <1>7, ServerAssumption DEF FinishRequest
<1>8. CASE ListenAndServeFails
  BY <1>8 DEF ListenAndServeFails
<1>9. CASE Signal
  BY <1>9 DEF Signal
<1>10. CASE UNCHANGED serverVars
  BY <1>10 DEF serverVars
<1> QED
  BY <1>1, <1>2, <1>3, <1>4, <1>5, <1>6, <1>7, <1>8, <1>9, <1>10 DEF ServerNext

LEMMA ServerInvariant == ServerInit /\ [][ServerNext]_serverVars => []ServerInv
BY ServerStarts, ServerPreserves, PTL

LEMMA ServerInvImplies == ServerInv => ServerTypeOK /\ GracefulExit
BY DEF ServerInv, GracefulExit, Leaving

(* router.go:516-531: the clean-up goroutine returns only when its own     *)
(* channel is closed, and only its return closes it: it never ends, so     *)
(* that the wait of the shutdown ends with its timer and never before.     *)
KeeperStays ==
  /\ keeper # "ended"
  /\ main \notin {"wait", "close", "exited"} => stopped = {}
  /\ main = "close" /\ stopped = Limiters => "wait" \in fired \/ Limiters = {}

LEMMA KeeperStarts == ServerInit => KeeperStays
BY DEF ServerInit, KeeperStays

LEMMA KeeperPreserved == KeeperStays /\ [ServerNext]_serverVars => KeeperStays'
<1> SUFFICES ASSUME KeeperStays, [ServerNext]_serverVars PROVE KeeperStays'
  OBVIOUS
<1> USE DEF KeeperStays, Main, Return
<1>1. CASE Mains
  BY <1>1 DEF Mains, LoadConfig, Ping, RunMigrations, NewRouter, Serve, Drain, Cleanup,
              WaitForKeeper, CloseDB, LoginCleanupDone
<1> QED
  BY <1>1 DEF ServerNext, serverVars, KeeperSelects, KeeperDeletes, LoginCleanupDone,
     TimerFires, SweeperEnds, StartRequest, FinishRequest, ListenAndServeFails, Signal

LEMMA KeeperInvariant == ServerInit /\ [][ServerNext]_serverVars => []KeeperStays
BY KeeperStarts, KeeperPreserved, PTL

-----------------------------------------------------------------------------
(* The page                                                                *)

(* Where a request is. A second sending carries the token of a refresh, so *)
(* that its refusal is a mishap, or the session is dead; and so is a       *)
(* refresh that was refused.                                               *)
RequestFits(r) ==
  /\ r \in Blobs => sends[r] = 0
  /\ sends[r] <= 2
  /\ pc[r] = "new" => sends[r] = 0
  /\ pc[r] \in {"awaiting", "renewed", "refused"} => sends[r] <= 1
  /\ pc[r] = "sent" => status[r] \in {"fresh", "older", "expired"}
  /\ alive /\ ~mishap =>
       /\ pc[r] # "refused"
       /\ pc[r] = "renewed" /\ r \notin Blobs => jar = "fresh"
       /\ pc[r] = "sent" /\ sends[r] > 1 => status[r] # "expired"
       /\ pc[r] = "answered" /\ sends[r] > 1 => status[r] # "401"

ClientInv ==
  /\ ClientTypeOK
  /\ \A r \in Requests : RequestFits(r)
  /\ alive /\ ~mishap => flight # "refused" /\ (flight = "renewed" => jar = "fresh")
  /\ RedirectIsEarned

LEMMA ClientStarts == Init => ClientInv
<1> SUFFICES ASSUME Init PROVE ClientInv
  OBVIOUS
<1>1. ClientTypeOK
  <2>1. alive \in BOOLEAN /\ login \in BOOLEAN /\ mishap \in BOOLEAN
    BY DEF Init
  <2> QED
    BY <2>1 DEF Init, ClientTypeOK, MaxSends
<1> QED
  BY <1>1 DEF Init, ClientInv, RequestFits, RedirectIsEarned

(* A step that concerns one request leaves the others as they were, and    *)
(* the jar and the session too.                                            *)
LEMMA OneRequestMoves ==
  ASSUME ClientInv, NEW r \in Requests,
         pc' = [pc EXCEPT ![r] = pc'[r]],
         sends' = [sends EXCEPT ![r] = sends'[r]],
         status' = [status EXCEPT ![r] = status'[r]],
         UNCHANGED <<jar, alive>>, mishap => mishap',
         pc'[r] \in {"new", "sent", "answered", "awaiting", "renewed", "refused", "done"},
         sends'[r] \in 0..MaxSends,
         status'[r] \in {"none", "fresh", "older", "expired", "401", "other"},
         flight' \in {"none", "pending", "renewed", "refused"},
         flight' # flight => flight = "none" /\ flight' = "pending",
         pc'[r] = "awaiting" => flight' = "pending",
         login' \in BOOLEAN, mishap' \in BOOLEAN, RequestFits(r)', RedirectIsEarned'
  PROVE  ClientInv'
<1> USE DEF ClientInv, ClientTypeOK
<1>1. \A s \in Requests : s # r => pc'[s] = pc[s] /\ sends'[s] = sends[s]
  OBVIOUS
<1>2. \A s \in Requests : s # r => status'[s] = status[s]
  OBVIOUS
<1>3. \A s \in Requests : RequestFits(s)'
  <2>1. ASSUME NEW s \in Requests, s # r PROVE RequestFits(s)'
    <3>1. RequestFits(s)
      OBVIOUS
    <3> QED
      BY <2>1, <1>1, <1>2, <3>1 DEF RequestFits
  <2> QED
    BY <2>1
<1>4. /\ pc' \in [Requests -> {"new", "sent", "answered", "awaiting", "renewed",
                               "refused", "done"}]
      /\ sends' \in [Requests -> 0..MaxSends]
      /\ status' \in [Requests -> {"none", "fresh", "older", "expired", "401", "other"}]
  OBVIOUS
<1>5. \A s \in Requests : pc'[s] = "awaiting" => flight' = "pending"
  BY <1>1
<1>6. alive' /\ ~mishap' => flight' # "refused" /\ (flight' = "renewed" => jar' = "fresh")
  OBVIOUS
<1>7. ClientTypeOK'
  BY <1>4, <1>5
<1> QED
  BY <1>3, <1>6, <1>7

(* The steps of one request.                                               *)
LEMMA RequestPreserves ==
  ASSUME ClientInv, NEW r \in Requests, Send(r) \/ Serves(r)
  PROVE  ClientInv'
<1> USE DEF ClientInv, ClientTypeOK, RequestFits, RedirectIsEarned, Goto, Leave, MaxSends
<1>1. CASE Send(r)
  BY <1>1, OneRequestMoves DEF Send, Fetch
<1>2. CASE Answer(r)
  BY <1>2, OneRequestMoves DEF Answer, Undeserved, Retried
<1>3. CASE NetworkError(r)
  BY <1>3, OneRequestMoves DEF NetworkError
<1>4. CASE Settle(r)
  BY <1>4, OneRequestMoves DEF Settle
<1>5. CASE Unauthorized(r)
  <2>1. CASE flight \in {"none", "pending"}
    BY <1>5, <2>1, OneRequestMoves DEF Unauthorized, Retried
  <2>2. CASE flight \in {"renewed", "refused"}
    BY <1>5, <2>2, OneRequestMoves DEF Unauthorized, Retried
  <2> QED
    BY <2>1, <2>2
<1>6. CASE RejectRetried(r)
  BY <1>6, OneRequestMoves DEF RejectRetried, Retried, Reject
<1>7. CASE Resume(r)
  <2>1. CASE pc[r] = "renewed" /\ Fetch(r) /\ UNCHANGED <<flight, jar, alive, login, mishap>>
    BY <1>7, <2>1, OneRequestMoves DEF Resume, Fetch
  <2>2. CASE pc[r] = "refused" /\ Reject(r)
    BY <1>7, <2>2, OneRequestMoves DEF Resume, Reject
  <2> QED
    BY <1>7, <2>1, <2>2 DEF Resume
<1> QED
  BY <1>1, <1>2, <1>3, <1>4, <1>5, <1>6, <1>7 DEF Serves

(* The answer to the refresh reaches everybody who waits for it.           *)
LEMMA RefreshPreserves == ClientInv /\ RefreshAnswer => ClientInv'
<1> SUFFICES ASSUME ClientInv, RefreshAnswer PROVE ClientInv'
  OBVIOUS
<1> USE DEF ClientInv, ClientTypeOK, RedirectIsEarned
<1>1. \A r \in Requests : RequestFits(r)
  OBVIOUS
<1>2. CASE /\ alive /\ Settled("renewed") /\ jar' = "fresh" /\ UNCHANGED mishap
           /\ status' = [r \in Requests |-> IF status[r] = "fresh" THEN "older"
                                                                   ELSE status[r]]
  <2>1. \A r \in Requests : RequestFits(r)'
    BY <1>1, <1>2 DEF RequestFits, RefreshAnswer, Settled
  <2> QED
    BY <1>2, <2>1 DEF RefreshAnswer, Settled
<1>3. CASE Settled("refused") /\ mishap' = (mishap \/ alive) /\ UNCHANGED <<jar, status>>
  <2>1. \A r \in Requests : RequestFits(r)'
    BY <1>1, <1>3 DEF RequestFits, RefreshAnswer, Settled
  <2> QED
    BY <1>3, <2>1 DEF RefreshAnswer, Settled
<1> QED
  BY <1>2, <1>3 DEF RefreshAnswer

(* A token that runs out while nobody retries is renewed before it is used.*)
LEMMA ExpirePreserves == ClientInv /\ Expire => ClientInv'
<1> SUFFICES ASSUME ClientInv, Expire PROVE ClientInv'
  OBVIOUS
<1> USE DEF ClientInv, ClientTypeOK, RedirectIsEarned, Expire
<1>1. ASSUME NEW r \in Requests PROVE RequestFits(r)'
  <2>1. RequestFits(r)
    OBVIOUS
  <2>2. ~mishap' => ~mishap /\ ~Retrying
    OBVIOUS
  <2> QED
    BY <2>1, <2>2 DEF RequestFits, Retrying, Retried
<1>2. ~mishap' => flight # "renewed"
  BY DEF Retrying
<1> QED
  BY <1>1, <1>2

LEMMA ClientPreserves == ClientInv /\ [Next]_vars => ClientInv'
<1> SUFFICES ASSUME ClientInv, [Next]_vars PROVE ClientInv'
  OBVIOUS
<1>1. ASSUME NEW r \in Requests, Send(r) \/ Serves(r) PROVE ClientInv'
  BY <1>1, RequestPreserves
<1> USE DEF ClientInv, ClientTypeOK, RequestFits, RedirectIsEarned
<1>2. CASE ClearFlight
  BY <1>2 DEF ClearFlight
<1>3. CASE Die
  BY <1>3 DEF Die
<1>4. CASE UNCHANGED vars
  BY <1>4 DEF vars
<1> QED
  BY <1>1, RefreshPreserves, <1>2, ExpirePreserves, <1>3, <1>4 DEF Next

LEMMA ClientInvariant == Init /\ [][Next]_vars => []ClientInv
BY ClientStarts, ClientPreserves, PTL

LEMMA RetriesBounded == ClientInv => RetriesOnce
BY DEF ClientInv, RequestFits, RetriesOnce

-----------------------------------------------------------------------------
(* The two together                                                        *)

(* A step of the one that moves, or a stutter, is a step of each.          *)
LEMMA EachTakesItsSteps ==
  ProcessSpec => /\ ServerInit /\ [][ServerNext]_serverVars
                 /\ Init /\ [][Next]_vars
<1>1. ProcessInit => ServerInit /\ Init
  BY DEF ProcessInit
<1>2. [ProcessNext]_<<moving, serverVars, vars>> => [ServerNext]_serverVars /\ [Next]_vars
  BY DEF ProcessNext
<1> QED
  BY <1>1, <1>2, PTL DEF ProcessSpec

(* Type correctness of the two processes.                                  *)
THEOREM ProcessTyped == ProcessSpec => []ProcessTypeOK
<1>1. ServerInv /\ ClientInv => ProcessTypeOK
  BY DEF ServerInv, ClientInv, ProcessTypeOK
<1> QED
  BY <1>1, EachTakesItsSteps, ServerInvariant, ClientInvariant, PTL

(* main.go:20, server.go:51: exit code 0 with the pool closed means that   *)
(* no request was left behind, however many are served at a time and       *)
(* whichever timers fire.                                                  *)
THEOREM NothingLeftBehind == ProcessSpec => []GracefulExit
BY EachTakesItsSteps, ServerInvariant, ServerInvImplies, PTL

(* router.go:516-531: the clean-up goroutine never ends and the shutdown    *)
(* always waits for its timer, whatever the timing.                        *)
THEOREM KeeperNeverEnds == ProcessSpec => []KeeperStays
BY EachTakesItsSteps, KeeperInvariant, PTL

(* http-client.ts:25: a call is sent again at most once, however many run  *)
(* at a time and however often their token runs out (a download, which     *)
(* keeps no _retried flag, is another matter).                             *)
THEOREM OneRetry == ProcessSpec => []RetriesOnce
BY EachTakesItsSteps, ClientInvariant, RetriesBounded, PTL

(* http-client.ts:16-29: whichever call meets the refusal first, whoever   *)
(* fired the refresh and whenever its timer fires, the page is sent to the *)
(* login only when the session is dead, or after one of the mishaps that   *)
(* are not the client's: the server refused a session it honours, or a     *)
(* token ran out in the middle of a retry.                                 *)
THEOREM LoginIsEarned == ProcessSpec => []RedirectIsEarned
<1>1. ClientInv => RedirectIsEarned
  BY DEF ClientInv
<1> QED
  BY <1>1, EachTakesItsSteps, ClientInvariant, PTL
=============================================================================
