--------------------------- MODULE MCRateLimiter ---------------------------
(***************************************************************************)
(* A small instance of RateLimiter.  A token takes four ticks to gain, so  *)
(* that the gain of an odd number of ticks leaves a fraction of a token,   *)
(* the bucket holds two, and the clock runs long enough to fill it twice   *)
(* over.  A user's bucket is nobody else's: one user is enough.            *)
(***************************************************************************)
EXTENDS RateLimiter
=============================================================================
