------------------------------- MODULE Results -------------------------------
(***************************************************************************)
(* What is made of measurements: the latency reservoir of cfire/metrics.py *)
(* with its percentiles, the choice of the best configuration (the three   *)
(* benchmark drivers), the report of the dashboard, the files the drivers  *)
(* save and the index benchmark_memory.py builds from them.                *)
(*                                                                         *)
(* A summary is what these tell apart: [config, ok, tok, req, instant],    *)
(* the number of the configuration, its successful requests, its two       *)
(* rates, in units of the published ceilings (so "balanced" is their sum), *)
(* and whether its average latency is 0, as that of cache hits may be.     *)
(***************************************************************************)
EXTENDS Rankings, SequencesExt, FiniteSetsExt

CONSTANTS
  ReservoirSize,   \* Metrics.reservoir_size
  Believable,      \* BenchmarkMemory takes a higher tok_per_sec for an artefact,
  BelievableAtOnce \* and one above this if the average latency is 0

ASSUME SizeAssumption == ReservoirSize \in Nat \ {0} /\ {Believable, BelievableAtOnce} \subseteq Nat

-----------------------------------------------------------------------------
(* Variants with a mistake somebody could make; each breaks a property below. *)

ObserveOneMore(reservoir, seen, latency) ==
  IF Len(reservoir) <= ReservoirSize
    THEN {Append(reservoir, latency)}
    ELSE {reservoir} \cup {[reservoir EXCEPT ![i] = latency] : i \in 1..ReservoirSize}

-----------------------------------------------------------------------------
(* cfire/metrics.py: the reservoir. *)

\* Metrics._observe_latency: Algorithm R; the outcomes of its random slot.
Observe(reservoir, seen, latency) ==
  IF Len(reservoir) < ReservoirSize
    THEN {Append(reservoir, latency)}
    ELSE {reservoir} \cup {[reservoir EXCEPT ![i] = latency] : i \in 1..ReservoirSize}

\* Metrics.percentile: p in hundredths, the result in hundredths of a latency.
Percentile(reservoir, p) ==
  IF reservoir = << >> THEN 0
  ELSE LET order == Ranking(DOMAIN reservoir, reservoir)
           sorted == [k \in DOMAIN reservoir |-> reservoir[order[k]]]
           k == p * (Len(sorted) - 1)
           lo == k \div 100
           hi == IF lo + 1 < Len(sorted) THEN lo + 1 ELSE Len(sorted) - 1
           frac == k % 100
       IN  sorted[lo + 1] * (100 - frac) + sorted[hi + 1] * frac

-----------------------------------------------------------------------------
(* The choice and the report. *)

\* score(): RunSummary.score, RaceManager._score and score in both main()s.
Score(s, metric) ==
  CASE metric = "tok/s" -> s.tok
    [] metric = "req/s" -> s.req
    [] metric = "balanced" -> s.req + s.tok

\* max(..., key=score) of the summaries at some places: the first of the greatest.
Best(summaries, places, metric) ==
  LET greatest == {i \in places :
                     \A j \in places :
                       Score(summaries[i], metric) >= Score(summaries[j], metric)}
  IN  summaries[Min(greatest)]

\* CerebrasRacer.find_best looks only at configurations that had a success.
Valid(summaries) == {i \in DOMAIN summaries : summaries[i].ok > 0}

\* RaceManager._build_race_report.
RaceReport(summaries, metric) ==
  LET order == Descending(DOMAIN summaries, [i \in DOMAIN summaries |-> Score(summaries[i], metric)])
      ranked == [i \in DOMAIN order |-> summaries[order[i]].config]
  IN  [winner |-> ranked[1], all_configs |-> ranked]

-----------------------------------------------------------------------------
(* The result files and BenchmarkMemory. *)

\* save_results of the optimizer calls the winner "best_config", main of the
\* advanced driver calls it "best".
SaveFile(driver, metric, summaries, best, race) ==
  [metric |-> metric, sweep |-> summaries, race |-> race,
   best |-> IF driver = "advanced" THEN <<best>> ELSE << >>]

\* BenchmarkMemory._load_data (and _norm_config): one record for each sweep
\* point, then the race, then the winner if the file has it under "best".
LoadData(file) ==
  LET record(s, phase) == [phase |-> phase, config |-> s.config, tok |-> s.tok, req |-> s.req,
                          instant |-> s.instant]
  IN  [i \in DOMAIN file.sweep |-> record(file.sweep[i], "sweep")]
      \o <<record(file.race, "sustained")>>
      \o [i \in DOMAIN file.best |-> record(file.best[i], "best")]

IsRealistic(r) == r.tok <= Believable /\ (r.instant => r.tok <= BelievableAtOnce)

\* BenchmarkMemory.top, all of it: [:k] takes the first k.
Top(records, metric, phase) ==
  LET chosen == {i \in DOMAIN records : phase \in {records[i].phase, "any"} /\ IsRealistic(records[i])}
      rate(r) == IF metric = "tok/s" THEN r.tok ELSE r.req
      order == Descending(chosen, [i \in chosen |-> rate(records[i])])
  IN  [k \in DOMAIN order |-> records[order[k]]]

\* The sum of tok_per_sec over the records at some places.
TokensAt(records, places) ==
  LET sum[k \in 0..Len(records)] ==
        IF k = 0 THEN 0 ELSE sum[k - 1] + (IF k \in places THEN records[k].tok ELSE 0)
  IN  sum[Len(records)]

\* BenchmarkMemory.insights: the leaders overall and of the races (empty or one
\* record each), and the mean rate of the records that count, rounded down.
Insights(records) ==
  LET clean == {i \in DOMAIN records : IsRealistic(records[i]) /\ records[i].tok > 0}
      first(s) == IF s = << >> THEN << >> ELSE <<Head(s)>>
  IN  [top_tok       |-> first(Top(records, "tok/s", "any")),
       top_req       |-> first(Top(records, "req/s", "any")),
       top_sustained |-> first(Top(records, "tok/s", "sustained")),
       mean          |-> IF clean = {} THEN 0
                         ELSE TokensAt(records, clean) \div Cardinality(clean)]
=============================================================================
