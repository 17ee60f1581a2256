------------------------------- MODULE Server -------------------------------
(* The process: start-up against a database that may not answer yet, the   *)
(* HTTP server, and the shutdown after a signal, with its deferred calls.  *)
(* Goroutines of the process: main, the listener, one per request, one per *)
(* rate limiter, and the one that cleans login_attempts up.                *)
EXTENDS Integers

CONSTANTS Limiters,      \* loginIPLimiter, registerIPLimiter
          MaxRequests    \* bound: requests served at a time

ASSUME ServerAssumption == MaxRequests \in Nat

VARIABLES main,        \* what run() executes
          signalled,   \* the signal context is done
          fired,     \* the deadlines that have passed
          database,    \* the pool: "none", "open", "closed"
          listener,    \* the goroutine that serves: "none", "listening", "failed", "closed"
          requests,    \* how many are being served
          keeper,      \* the clean-up goroutine: "none", "select", "deleting", "ended"
          sweepers,    \* per limiter, its goroutine: "none", "select", "ended"
          stopped,     \* limiters whose stopCh is closed
          code         \* exit code

serverVars == <<main, signalled, fired, database, listener, requests, keeper,
          sweepers, stopped, code>>

Running == main # "exited"

Main(from, to) == main = from /\ main' = to

(* run() returns err: 1, else 0, after what it has deferred.               *)
Return(from, status, next) == Main(from, next) /\ code' = status
-----------------------------------------------------------------------------
(* Start-up.                                                               *)

LoadConfig ==
  /\ \/ Main("config", "ping") /\ UNCHANGED code
     \/ Return("config", 1, "exited")
  /\ UNCHANGED <<signalled, fired, database, listener, requests, keeper, sweepers, stopped>>

(* pingWithRetry: an attempt, then the deadline, then the signal or the    *)
(* backoff.                                                                *)
Ping ==
  /\ main = "ping"
  /\ \/ main' = "migrate" /\ database' = "open" /\ UNCHANGED code
     \/ /\ "ping" \in fired \/ signalled
        /\ Return("ping", 1, "exited") /\ UNCHANGED database
  /\ UNCHANGED <<signalled, fired, listener, requests, keeper, sweepers, stopped>>

(* runMigrations does not look at the context: a signal waits.             *)
RunMigrations ==
  /\ \/ Main("migrate", "router") /\ UNCHANGED code
     \/ Return("migrate", 1, "close")
  /\ UNCHANGED <<signalled, fired, database, listener, requests, keeper, sweepers, stopped>>

(* newRouter starts the goroutines of the limiters and of the clean-up.    *)
NewRouter ==
  /\ Main("router", "serve")
  /\ keeper' = "select" /\ sweepers' = [l \in Limiters |-> "select"]
  /\ listener' = "listening"
  /\ UNCHANGED <<signalled, fired, database, requests, stopped, code>>
-----------------------------------------------------------------------------
(* Serving. The port may be taken, or the listener may break later.        *)

ListenAndServeFails ==
  /\ Running /\ listener = "listening" /\ listener' = "failed"
  /\ UNCHANGED <<main, signalled, fired, database, requests, keeper, sweepers, stopped, code>>

StartRequest ==
  /\ Running /\ listener = "listening" /\ requests < MaxRequests
  /\ requests' = requests + 1
  /\ UNCHANGED <<main, signalled, fired, database, listener, keeper, sweepers, stopped, code>>

(* A request that was never counted is counted out (mutant).               *)
FinishAnyRequest ==
  /\ Running /\ requests' = requests - 1
  /\ UNCHANGED <<main, signalled, fired, database, listener, keeper, sweepers, stopped, code>>

FinishRequest ==
  /\ Running /\ requests > 0 /\ requests' = requests - 1
  /\ UNCHANGED <<main, signalled, fired, database, listener, keeper, sweepers, stopped, code>>

(* SIGINT or SIGTERM, caught once NotifyContext is set up.                 *)
Signal ==
  /\ main \notin {"config", "exited"} /\ ~signalled /\ signalled' = TRUE
  /\ UNCHANGED <<main, fired, database, listener, requests, keeper, sweepers, stopped, code>>

(* A timer fires: the ping deadline, SHUTDOWN_TIMEOUT, the 12 seconds.     *)
(* The last is longer than the context of a DELETE: it cannot fire while   *)
(* one that began before the wait is still on its way.                     *)
Deadlines == {"ping", "drain", "wait"}

TimerFires(d) ==
  /\ main = d /\ d \notin fired /\ fired' = fired \cup {d}
  /\ d = "wait" => keeper # "deleting"
  /\ UNCHANGED <<main, signalled, database, listener, requests, keeper, sweepers, stopped, code>>
-----------------------------------------------------------------------------
(* Shutdown.                                                               *)

(* The select of startServer: the listener's error or the signal.          *)
Serve ==
  /\ \/ listener = "failed" /\ Return("serve", 1, "cleanup") /\ UNCHANGED listener
     \/ signalled /\ Main("serve", "drain") /\ listener' = "closed" /\ UNCHANGED code
  /\ UNCHANGED <<signalled, fired, database, requests, keeper, sweepers, stopped>>

(* Shutdown answers at once that it is done (mutant).                      *)
DrainNothing ==
  /\ Return("drain", 0, "cleanup")
  /\ UNCHANGED <<signalled, fired, database, listener, requests, keeper, sweepers, stopped>>

(* srv.Shutdown: every request answered, or SHUTDOWN_TIMEOUT is over and   *)
(* those that are left go on.                                              *)
Drain ==
  /\ \/ requests = 0 /\ Return("drain", 0, "cleanup")
     \/ "drain" \in fired /\ Return("drain", 1, "cleanup")
  /\ UNCHANGED <<signalled, fired, database, listener, requests, keeper, sweepers, stopped>>

(* The deferred cleanup stops the limiters.                                *)
Cleanup ==
  /\ Main("cleanup", "wait") /\ stopped' = Limiters
  /\ UNCHANGED <<signalled, fired, database, listener, requests, keeper, sweepers, code>>

(* loginCleanupDone is closed by the goroutine that returns.               *)
LoginCleanupDone == keeper = "ended"

(* The wait has no time limit of its own (mutant).                         *)
WaitForKeeperForever ==
  /\ Main("wait", "close") /\ LoginCleanupDone
  /\ UNCHANGED <<signalled, fired, database, listener, requests, keeper, sweepers, stopped, code>>

WaitForKeeper ==
  /\ Main("wait", "close")
  /\ "wait" \notin fired => LoginCleanupDone
  /\ UNCHANGED <<signalled, fired, database, listener, requests, keeper, sweepers, stopped, code>>

(* The deferred db.Close is the last; os.Exit ends every goroutine.        *)
CloseDB ==
  /\ Main("close", "exited") /\ database' = "closed"
  /\ UNCHANGED <<signalled, fired, listener, requests, keeper, sweepers, stopped, code>>
-----------------------------------------------------------------------------
(* The other goroutines.                                                   *)

(* The select of the clean-up: its own channel, or the ticker.             *)
KeeperSelects ==
  /\ Running /\ keeper = "select"
  /\ keeper' \in {s \in {"ended", "deleting"} : s = "ended" => LoginCleanupDone}
  /\ UNCHANGED <<main, signalled, fired, database, listener, requests, sweepers, stopped, code>>

(* DeleteOlderThan, in a context of 10 seconds.                            *)
KeeperDeletes ==
  /\ Running /\ keeper = "deleting" /\ keeper' = "select"
  /\ UNCHANGED <<main, signalled, fired, database, listener, requests, sweepers, stopped, code>>

(* runCleanup of a limiter ends once stopCh is closed.                     *)
SweeperEnds(l) ==
  /\ Running /\ sweepers[l] = "select" /\ l \in stopped
  /\ sweepers' = [sweepers EXCEPT ![l] = "ended"]
  /\ UNCHANGED <<main, signalled, fired, database, listener, requests, keeper, stopped, code>>

ServerInit ==
  /\ main = "config" /\ signalled = FALSE /\ fired = {} /\ database = "none"
  /\ listener = "none" /\ requests = 0 /\ keeper = "none"
  /\ sweepers = [l \in Limiters |-> "none"] /\ stopped = {} /\ code = 0

Mains ==
  \/ LoadConfig \/ Ping \/ RunMigrations \/ NewRouter
  \/ Serve \/ Drain \/ Cleanup \/ WaitForKeeper \/ CloseDB

ServerNext ==
  \/ Mains \/ KeeperSelects \/ KeeperDeletes
  \/ \E d \in Deadlines : TimerFires(d)
  \/ \E l \in Limiters : SweeperEnds(l)
  \/ StartRequest \/ FinishRequest \/ ListenAndServeFails \/ Signal

(* main and the clean-up goroutine run whenever they can and timers fire.  *)
(* No request is assumed to end.                                           *)
ServerFairness ==
  /\ WF_serverVars(Mains) /\ WF_serverVars(KeeperSelects) /\ WF_serverVars(KeeperDeletes)
  /\ \A d \in Deadlines : SF_serverVars(TimerFires(d))

ServerSpec == ServerInit /\ [][ServerNext]_serverVars /\ ServerFairness
-----------------------------------------------------------------------------
(* What the start and the end of the process promise.                      *)

ServerTypeOK ==
  /\ main \in {"config", "ping", "migrate", "router", "serve", "drain", "cleanup",
               "wait", "close", "exited"}
  /\ signalled \in BOOLEAN /\ fired \subseteq Deadlines
  /\ database \in {"none", "open", "closed"}
  /\ listener \in {"none", "listening", "failed", "closed"}
  /\ requests \in 0..MaxRequests /\ keeper \in {"none", "select", "deleting", "ended"}
  /\ sweepers \in [Limiters -> {"none", "select", "ended"}]
  /\ stopped \subseteq Limiters /\ code \in {0, 1}

(* main.go:67 and server.go:51: a signal ends the process, whatever its    *)
(* requests, its clean-up or its database are doing.                       *)
ShutdownCompletes == signalled ~> main = "exited"

(* main.go:20 and server.go:51: exit code 0 is the promise of a graceful   *)
(* end: no request was left behind. The pool is closed under a request     *)
(* only after a timeout or a broken listener, and the code says so.        *)
GracefulExit == database = "closed" /\ requests > 0 => code = 1

(* router.go:531: the clean-up goroutine "is either idle (returning        *)
(* immediately) or inside a 10s ctx": when the wait is over it has ended,  *)
(* and the pool is closed after it. (It waits on the channel that only its *)
(* own return closes.)                                                     *)
KeeperDrained == main = "close" /\ stopped = Limiters => keeper = "ended"
=============================================================================
