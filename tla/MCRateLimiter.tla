---- MODULE MCRateLimiter ----
(* Instances of RateLimiter: the two addresses share a bucket. *)
EXTENDS RateLimiter, TLC
CONSTANTS a, b, t1, t2
OneBucket == a :> 0 @@ b :> 0
Callers == Permutations(Clients)
====
