--------------------------- MODULE MCRateLimiter ---------------------------
(* Six requests, a limit of two and a window of three buckets of two ticks: *)
(* enough for three bursts in a row, and for a clock that outlasts every    *)
(* window twice.                                                            *)
EXTENDS RateLimiter, TLC

RequestSymmetry == Permutations(Request)
=============================================================================
