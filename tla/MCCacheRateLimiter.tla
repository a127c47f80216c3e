------------------------- MODULE MCCacheRateLimiter -------------------------
(* Instances of CacheRateLimiter for TLC.                                  *)
EXTENDS CacheRateLimiter, TLC
=============================================================================
