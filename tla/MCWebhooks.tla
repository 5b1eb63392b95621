----------------------------- MODULE MCWebhooks -----------------------------
(* Model values for checking Webhooks with TLC.                            *)
EXTENDS Webhooks

CONSTANTS s1, s2, x1

TwoSenders  == {s1, s2}
OneDeleter  == {x1}
=============================================================================
