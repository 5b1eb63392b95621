------------------------- MODULE RateLimiterProofs -------------------------
(***************************************************************************)
(* Proofs about RateLimiter, for any tenants, requests and limit.          *)
(***************************************************************************)
EXTENDS RateLimiter, TLAPS

\* Admitted requests were counted or their check failed, and the request that
\* will set a TTL found the counter it created.
RateInv ==
    /\ TypeOK
    /\ WindowLimit
    /\ WindowNotExtended
    /\ \A t \in Tenants : admitted[t] <= count[t] + failed[t]
    /\ \A t \in Tenants : ttl[t] => count[t] > 0
    /\ \A r \in Requests : req[r] # None => count[req[r]] > 0

\* There are no counters at first.
LEMMA InitRate == Init => RateInv
BY LimitAssumption DEF Init, RateInv, TypeOK, WindowLimit, WindowNotExtended

\* INCR lets a request through only within the limit, and only the one that
\* created the key will set its TTL.
LEMMA IncrRate ==
    ASSUME RateInv, NEW r \in Requests, NEW t \in Tenants, Incr(r, t)
    PROVE  RateInv'
PROOF
<1> USE LimitAssumption
<1> DEFINE n == Counted(count[t])
<1>1. count[t] \in 0..MaxCount /\ admitted[t] \in Nat /\ failed[t] \in 0..MaxFails
      /\ admitted[t] <= count[t] + failed[t] /\ admitted[t] <= Rpm + failed[t]
  BY DEF RateInv, TypeOK, WindowLimit
<1>2. n \in 1..MaxCount /\ n >= count[t] /\ (n = 1 => count[t] = 0)
      /\ (~Rejected(n) => admitted[t] + 1 <= n + failed[t] /\ admitted[t] + 1 <= Rpm + failed[t])
  BY <1>1 DEF Rejected, Counted
<1>3. /\ count' = [count EXCEPT ![t] = n] /\ ttl' = ttl /\ req[r] = None /\ failed' = failed
      /\ req' = IF n = 1 THEN [req EXCEPT ![r] = t] ELSE req
      /\ admitted' = IF Rejected(n) THEN admitted ELSE [admitted EXCEPT ![t] = admitted[t] + 1]
  BY DEF Incr, SetsTtl
<1> HIDE DEF n
<1>4. count'[t] = n /\ \A u \in Tenants \ {t} : count'[u] = count[u]
  BY <1>3 DEF RateInv, TypeOK
<1>5. admitted'[t] \in {admitted[t], admitted[t] + 1} /\ (admitted'[t] # admitted[t] => ~Rejected(n))
      /\ \A u \in Tenants \ {t} : admitted'[u] = admitted[u]
  BY <1>3 DEF RateInv, TypeOK
<1>6. admitted'[t] \in 0..(Rpm + MaxFails) /\ admitted'[t] <= Rpm + failed[t]
      /\ admitted'[t] <= n + failed[t]
  BY <1>1, <1>2, <1>5
<1>7. TypeOK'
  <2>1. count' \in [Tenants -> 0..MaxCount]
    BY <1>2, <1>3 DEF RateInv, TypeOK
  <2>2. admitted' \in [Tenants -> 0..(Rpm + MaxFails)]
    BY <1>3, <1>6 DEF RateInv, TypeOK
  <2>3. req' \in [Requests -> Tenants \cup {None}]
    BY <1>3 DEF RateInv, TypeOK
  <2> QED
    BY <1>3, <2>1, <2>2, <2>3 DEF RateInv, TypeOK
<1>8. WindowLimit'
  BY <1>3, <1>5, <1>6 DEF RateInv, WindowLimit
<1>9. \A u \in Tenants : admitted'[u] <= count'[u] + failed'[u]
  BY <1>3, <1>4, <1>5, <1>6 DEF RateInv
<1>10. \A u \in Tenants : ttl'[u] => count'[u] > 0
  BY <1>2, <1>3, <1>4 DEF RateInv
<1>11. \A q \in Requests : req'[q] = req[q] \/ (q = r /\ n = 1 /\ req'[q] = t)
  BY <1>3 DEF RateInv, TypeOK
<1>12. \A q \in Requests : req'[q] # None => count'[req'[q]] > 0
  BY <1>2, <1>4, <1>11 DEF RateInv, TypeOK
<1>13. n = 1 => ~ttl[t] /\ \A q \in Requests : req[q] # t
  BY <1>1, <1>2 DEF RateInv
<1>14. WindowNotExtended'
  BY <1>3, <1>11, <1>13 DEF RateInv, WindowNotExtended
<1> QED
  BY <1>7, <1>8, <1>9, <1>10, <1>12, <1>14 DEF RateInv

\* A failed INCR lets one request through and is one failed check; nobody sets a
\* TTL for it.
LEMMA IncrFailsRate ==
    ASSUME RateInv, NEW t \in Tenants, IncrFails(t)
    PROVE  RateInv'
PROOF
<1> USE LimitAssumption
<1>1. PICK n \in {count[t], Counted(count[t])} : count' = [count EXCEPT ![t] = n]
  BY DEF IncrFails
<1>2. count[t] \in 0..MaxCount /\ admitted[t] \in Nat /\ failed[t] \in 0..MaxFails
      /\ admitted[t] <= count[t] + failed[t] /\ admitted[t] <= Rpm + failed[t]
      /\ failed[t] < MaxFails
  BY DEF RateInv, TypeOK, WindowLimit, IncrFails
<1>3. n \in 0..MaxCount /\ n >= count[t]
  BY <1>1, <1>2 DEF Counted
<1>4. /\ admitted' = [admitted EXCEPT ![t] = admitted[t] + 1]
      /\ failed' = [failed EXCEPT ![t] = failed[t] + 1]
      /\ ttl' = ttl /\ req' = req
  BY DEF IncrFails
<1>5. /\ count'[t] = n /\ admitted'[t] = admitted[t] + 1 /\ failed'[t] = failed[t] + 1
      /\ \A u \in Tenants \ {t} : /\ count'[u] = count[u] /\ admitted'[u] = admitted[u]
                                 /\ failed'[u] = failed[u]
  BY <1>1, <1>4 DEF RateInv, TypeOK
<1>6. TypeOK'
  <2>1. count' \in [Tenants -> 0..MaxCount]
    BY <1>1, <1>3 DEF RateInv, TypeOK
  <2>2. admitted[t] + 1 \in 0..(Rpm + MaxFails) /\ failed[t] + 1 \in 0..MaxFails
    BY <1>2
  <2>3. admitted' \in [Tenants -> 0..(Rpm + MaxFails)] /\ failed' \in [Tenants -> 0..MaxFails]
    BY <2>2, <1>4 DEF RateInv, TypeOK
  <2> QED
    BY <1>4, <2>1, <2>3 DEF RateInv, TypeOK
<1>7. WindowLimit' /\ \A u \in Tenants : admitted'[u] <= count'[u] + failed'[u]
  BY <1>2, <1>3, <1>5 DEF RateInv, WindowLimit
<1>8. \A u \in Tenants : count[u] > 0 => count'[u] > 0
  BY <1>2, <1>3, <1>5
<1>9. /\ \A u \in Tenants : ttl'[u] => count'[u] > 0
      /\ \A r \in Requests : req'[r] # None => count'[req'[r]] > 0
  BY <1>4, <1>8 DEF RateInv, TypeOK
<1> QED
  BY <1>4, <1>6, <1>7, <1>9 DEF RateInv, WindowNotExtended

\* EXPIRE, done or lost, ends the obligation to set the TTL.
LEMMA ExpireRate ==
    ASSUME RateInv, NEW r \in Requests, Expire(r) \/ ExpireLost(r)
    PROVE  RateInv'
PROOF
<1> DEFINE t == req[r]
<1>1. /\ t \in Tenants /\ count' = count /\ admitted' = admitted /\ failed' = failed
      /\ req' = [req EXCEPT ![r] = None]
      /\ ttl' = ttl \/ ttl' = [ttl EXCEPT ![t] = count[t] > 0]
  BY DEF Expire, ExpireLost, RateInv, TypeOK
<1>2. count[t] > 0
  BY <1>1, LimitAssumption DEF RateInv, Expire, ExpireLost
<1>. ttl' = ttl \/ ttl' = [ttl EXCEPT ![t] = TRUE]
  BY <1>1, <1>2
<1>3. ttl' \in [Tenants -> BOOLEAN] /\ \A u \in Tenants \ {t} : ttl'[u] = ttl[u]
  BY <1>1 DEF RateInv, TypeOK
<1>4. req'[r] = None /\ \A q \in Requests \ {r} : req'[q] = req[q] /\ req[q] # t
  BY <1>1, LimitAssumption DEF RateInv, TypeOK, WindowNotExtended
<1>5. TypeOK' /\ WindowLimit'
  BY <1>1, <1>3 DEF RateInv, TypeOK, WindowLimit
<1>6. WindowNotExtended'
  BY <1>3, <1>4 DEF RateInv, TypeOK, WindowNotExtended
<1> QED
  BY <1>1, <1>2, <1>3, <1>4, <1>5, <1>6 DEF RateInv

\* A key that expires has a TTL, so nobody is about to set it.
LEMMA WindowEndsRate ==
    ASSUME RateInv, NEW t \in Tenants, WindowEnds(t)
    PROVE  RateInv'
PROOF
<1>1. /\ count'[t] = 0 /\ ttl'[t] = FALSE /\ admitted'[t] = 0 /\ failed'[t] = 0 /\ req' = req
      /\ \A u \in Tenants \ {t} : /\ count'[u] = count[u] /\ ttl'[u] = ttl[u]
                                 /\ admitted'[u] = admitted[u] /\ failed'[u] = failed[u]
  BY DEF WindowEnds, RateInv, TypeOK
<1>2. TypeOK'
  BY LimitAssumption DEF WindowEnds, RateInv, TypeOK
<1>3. \A r \in Requests : req[r] # t
  BY LimitAssumption DEF WindowEnds, RateInv, WindowNotExtended
<1>4. WindowLimit' /\ WindowNotExtended'
  BY <1>1, <1>3, LimitAssumption DEF RateInv, TypeOK, WindowLimit, WindowNotExtended
<1> QED
  BY <1>1, <1>2, <1>3, <1>4, LimitAssumption DEF RateInv, TypeOK

\* The invariant holds throughout.
LEMMA SpecRate == Spec => []RateInv
PROOF
<1>1. RateInv /\ [Next]_vars => RateInv'
  <2> SUFFICES ASSUME RateInv, [Next]_vars PROVE RateInv'
    OBVIOUS
  <2>1. CASE UNCHANGED vars
    BY <2>1 DEF vars, RateInv, TypeOK, WindowLimit, WindowNotExtended
  <2>2. CASE Next
    BY <2>2, IncrRate, IncrFailsRate, ExpireRate, WindowEndsRate DEF Next
  <2> QED
    BY <2>1, <2>2
<1> QED
  BY <1>1, InitRate, PTL DEF Spec

\* For any limit and any number of concurrent requests, no more of a tenant's
\* requests than Rpm and the ones whose check failed are let through between two
\* expiries of its key.
THEOREM AtMostRpm == Spec => []WindowLimit
PROOF
<1>1. RateInv => WindowLimit
  BY DEF RateInv
<1> QED
  BY <1>1, SpecRate, PTL

\* No interleaving of INCR and EXPIRE extends a window.
THEOREM WindowsEndOnTime == Spec => []WindowNotExtended
PROOF
<1>1. RateInv => WindowNotExtended
  BY DEF RateInv
<1> QED
  BY <1>1, SpecRate, PTL
=============================================================================
