----------------------------- MODULE MCRateLimit -----------------------------
(***************************************************************************)
(* Three callers, so that the in-process limiter has to make room.         *)
(***************************************************************************)
EXTENDS RateLimit, TLC

CONSTANTS a, b, c

Callers == Permutations({a, b, c})
=============================================================================
