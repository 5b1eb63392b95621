---------------------------- MODULE RateLimiter ----------------------------
(***************************************************************************)
(* The per-tenant rate limiter in Redis: RateLimiter.check and             *)
(* enforce_rate_limit (app/core/rate_limit.py).  A request increments the  *)
(* tenant's counter; the one that creates it sets the TTL with a second    *)
(* command.  Requests of all API processes interleave between the two.     *)
(* enforce_rate_limit swallows every exception but the rejection and lets  *)
(* the request through: when INCR is refused the request passes uncounted, *)
(* when only its reply is lost it passes counted and sets no TTL.          *)
(***************************************************************************)
EXTENDS Naturals

CONSTANTS
    Tenants,
    Requests,     \* concurrent requests
    Rpm,          \* requests_per_minute
    MaxCount,     \* bound: where the counter saturates, above the limit
    MaxFails      \* bound: failed checks of a tenant in one window

None == 0

ASSUME LimitAssumption ==
    /\ Rpm \in Nat /\ MaxCount \in Nat /\ MaxFails \in Nat
    /\ Rpm > 0 /\ MaxCount > Rpm /\ None \notin Tenants

VARIABLES
    count,        \* counter of a tenant, 0 when the key does not exist
    ttl,          \* the key has a TTL
    req,          \* the tenant whose TTL a request is about to set, or None
    admitted,     \* requests of the current window that were let through
    failed        \* those of them whose check failed: enforce_rate_limit passed them

vars == <<count, ttl, req, admitted, failed>>

Init ==
    /\ count    = [t \in Tenants |-> 0]
    /\ ttl      = [t \in Tenants |-> FALSE]
    /\ req      = [r \in Requests |-> None]
    /\ admitted = [t \in Tenants |-> 0]
    /\ failed   = [t \in Tenants |-> 0]

Counted(n) == IF n < MaxCount THEN n + 1 ELSE MaxCount

\* The request that finds no counter is the one to set the TTL.
SetsTtlAlways(n) == n >= 1                                            \* mutant
SetsTtl(n) == n = 1

RejectedLate(n) == n > Rpm + 1                                        \* mutant
Rejected(n) == n > Rpm

\* INCR and the decision it implies.
Incr(r, t) ==
    LET n == Counted(count[t]) IN
    /\ req[r] = None
    /\ count'    = [count EXCEPT ![t] = n]
    /\ req'      = IF SetsTtl(n) THEN [req EXCEPT ![r] = t] ELSE req
    /\ admitted' = IF Rejected(n) THEN admitted ELSE [admitted EXCEPT ![t] = @ + 1]
    /\ UNCHANGED <<ttl, failed>>

\* INCR raises and the request is let through.  Redis has counted it when only the
\* reply was lost, and not when the command never arrived.
IncrFails(t) ==
    /\ failed[t] < MaxFails
    /\ \E n \in {count[t], Counted(count[t])} : count' = [count EXCEPT ![t] = n]
    /\ admitted' = [admitted EXCEPT ![t] = @ + 1]
    /\ failed'   = [failed EXCEPT ![t] = @ + 1]
    /\ UNCHANGED <<ttl, req>>

\* EXPIRE key 60, without effect on a key that does not exist.
Expire(r) ==
    /\ req[r] # None
    /\ ttl' = [ttl EXCEPT ![req[r]] = count[req[r]] > 0]
    /\ req' = [req EXCEPT ![r] = None]
    /\ UNCHANGED <<count, admitted, failed>>

\* The process dies before EXPIRE, or EXPIRE raises and enforce_rate_limit
\* swallows the exception.
ExpireLost(r) ==
    /\ req[r] # None
    /\ req' = [req EXCEPT ![r] = None]
    /\ UNCHANGED <<count, ttl, admitted, failed>>

\* Redis removes the key when its TTL has passed: the window ends.
WindowEnds(t) ==
    /\ ttl[t]
    /\ count'    = [count EXCEPT ![t] = 0]
    /\ ttl'      = [ttl EXCEPT ![t] = FALSE]
    /\ admitted' = [admitted EXCEPT ![t] = 0]
    /\ failed'   = [failed EXCEPT ![t] = 0]
    /\ UNCHANGED req

Next ==
    \/ \E r \in Requests, t \in Tenants : Incr(r, t)
    \/ \E t \in Tenants : IncrFails(t)
    \/ \E r \in Requests : Expire(r)
    \/ \E r \in Requests : ExpireLost(r)
    \/ \E t \in Tenants : WindowEnds(t)

Spec == Init /\ [][Next]_vars

-----------------------------------------------------------------------------
\* Every variable has its type.
TypeOK ==
    /\ count \in [Tenants -> 0..MaxCount]
    /\ ttl \in [Tenants -> BOOLEAN]
    /\ req \in [Requests -> Tenants \cup {None}]
    /\ admitted \in [Tenants -> 0..(Rpm + MaxFails)]
    /\ failed \in [Tenants -> 0..MaxFails]

\* Between two expiries of a tenant's key no more requests than Rpm and the ones
\* whose check failed are let through, whatever commands of concurrent requests
\* interleave and whichever TTL or reply is lost (rate_limit.py 26-34, 51-56).
\* The failed ones are the price of "Silently skips if Redis is down" (47): each
\* one passes whatever the counter says, so without them the limit is Rpm, and
\* one lost reply raises it by one at most.
WindowLimit == \A t \in Tenants : admitted[t] <= Rpm + failed[t]

\* A window is never extended: while a key has a TTL no request is about to set
\* it again, and at most one request sets it (rate_limit.py 27-29).  Otherwise a
\* tenant that keeps sending would push its own expiry away.
WindowNotExtended ==
    \A r \in Requests : req[r] # None =>
        /\ ~ttl[req[r]]
        /\ \A q \in Requests : req[q] = req[r] => q = r
=============================================================================
