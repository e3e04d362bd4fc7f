---------------------------- MODULE MCRateLimiter ----------------------------
(* Instances of RateLimiter. *)
EXTENDS RateLimiter, TLC
=============================================================================
