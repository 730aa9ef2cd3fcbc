------------------------------- MODULE MCSweep -------------------------------
(***************************************************************************)
(* Two configurations, the first with room for both requests of a batch.   *)
(* The rates have one without tokens, two that the balanced metric takes   *)
(* for equal, and two the benchmark memory does not believe: one of them   *)
(* only because it took no time.                                           *)
(***************************************************************************)
EXTENDS Sweep

ConcurrencyDef == <<2, 1>>
RatesDef ==
  {<<0, 1, FALSE>>, <<1, 2, FALSE>>, <<2, 1, FALSE>>, <<2, 1, TRUE>>, <<3, 1, FALSE>>}
=============================================================================
