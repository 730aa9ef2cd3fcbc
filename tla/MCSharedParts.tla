---------------------------- MODULE MCSharedParts ----------------------------
(***************************************************************************)
(* The two parts that the requests of an AsyncCfire share beside its       *)
(* breaker: the limiter, with two callers that fit together in no window,  *)
(* a third that needs the whole token budget, and one too large ever to    *)
(* fit; and the memory cache.  They never call each other, so each is      *)
(* explored while the other is at rest.                                    *)
(***************************************************************************)
EXTENDS MemoryLRUHistory, RateLimiter

CONSTANTS small, medium, large, oversize

MCTokens == (small :> 1) @@ (medium :> 2) @@ (large :> 3) @@ (oversize :> 4)

PartsInit == Init /\ LimiterInit

PartsNext ==
  \/ LimiterInit /\ Next /\ UNCHANGED limiterVars
  \/ Init /\ LimiterNext /\ UNCHANGED vars

PartsSpec == PartsInit /\ [][PartsNext]_<<vars, limiterVars>> /\ LimiterFairness
=============================================================================
