--------------------------- MODULE MCRequestPath ---------------------------
(***************************************************************************)
(* The two chains that a request walks from the first to the last, the     *)
(* tiers of the cache and, in the fork, the backends of the router; and    *)
(* the other way to a DiffusionGemma server, the streaming test of the     *)
(* dashboard.  They share nothing, so each is explored while the others    *)
(* are at rest.                                                            *)
(***************************************************************************)
EXTENDS TieredCache, Router, SpeedTest

MCValues == 1..MaxStores

PathInit == TieredInit /\ RouterInit /\ TestInit

\* The others are explored beside one key of each task, one deployment and one
\* request.
TiersRest == TieredInit /\ \A t, u \in Tasks : key[t] = key[u]

RouterRests ==
  RouterInit /\ registered = <<"diffusiongemma">> /\ cerebrasFirst /\ local /\ mode = "stream"

PathNext ==
  \/ RouterRests /\ TestInit /\ TieredNext /\ UNCHANGED <<routerVars, testVars>>
  \/ TiersRest /\ TestInit /\ RouterNext /\ UNCHANGED <<tieredVars, testVars>>
  \/ TiersRest /\ RouterRests /\ TestNext /\ UNCHANGED <<tieredVars, routerVars>>

\* A test at rest has no fair action enabled.
PathSpec ==
  PathInit /\ [][PathNext]_<<tieredVars, routerVars, testVars>> /\ TestFairness
=============================================================================
