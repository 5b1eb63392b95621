--------------------------- MODULE MCRateLimiter ---------------------------
(* Model values for checking RateLimiter with TLC.                         *)
EXTENDS RateLimiter

CONSTANTS t1, t2, q1, q2, q3

TwoTenants == {t1, t2}
ThreeReqs  == {q1, q2, q3}
=============================================================================
