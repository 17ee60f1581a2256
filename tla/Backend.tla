------------------------------ MODULE Backend -------------------------------
(* What the handlers in front of the API share: RateLimiter, LoginLockout  *)
(* and Invitations are about the same goroutines, addresses and emails.    *)
EXTENDS Integers

CONSTANTS Handlers,            \* goroutines serving requests
          Emails, Addresses,   \* of accounts and invitations; of clients
          None                 \* no row, no request, nobody

Smaller(a, b) == IF a < b THEN a ELSE b
Larger(a, b)  == IF a > b THEN a ELSE b
=============================================================================
