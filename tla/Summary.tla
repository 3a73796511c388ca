-------------------------------- MODULE Summary --------------------------------
(***************************************************************************)
(* summarize, percentile and Summarize of internal/metrics: pure functions *)
(* of the samples that a reservoir retains and of the counters.  A         *)
(* quantile is given in percent; the product p * N of the code, in         *)
(* floating point, is exact or rounds to the exact integer for the four    *)
(* quantiles in use, so its ceiling is that of the rational.  The standard *)
(* deviation is left out, and an error rate is cut to a whole percent.     *)
(***************************************************************************)
EXTENDS Errors, FiniteSets, SequencesExt

Quantiles == {50, 90, 95, 99}

(* The place of each sample in ascending order, equal ones as they came.   *)
(* (What is appended to <<>>, TLC computes once.)                           *)
Place(samples) ==
  <<>> \o [i \in 1..Len(samples) |->
              Cardinality({j \in 1..Len(samples) : \/ samples[j] < samples[i]
                                                   \/ samples[j] = samples[i] /\ j <= i})]

Sorted(samples) ==
  LET place == Place(samples) IN
  <<>> \o [k \in 1..Len(samples) |-> samples[CHOOSE i \in 1..Len(samples) : place[i] = k]]

(* Mutant: the rank is rounded to the next integer even when it is one.    *)
RankPast(p, n) == (p * n) \div 100 + 1

(* ceil(p * N), within 1..N.                                               *)
Rank(p, n) == LET r == (p * n + 99) \div 100 IN
              IF r < 1 THEN 1 ELSE IF r > n THEN n ELSE r

Percentile(sortedAsc, p) ==
  IF sortedAsc = <<>> THEN 0 ELSE sortedAsc[Rank(p, Len(sortedAsc))]

(* Mutant: the mean is taken over all that were counted.                   *)
MeanOfAll(sorted, count) == FoldLeft(LAMBDA a, b : a + b, 0, sorted) \div count

(* time.Duration(mean) cuts the fraction off.                              *)
Mean(sorted, count) == FoldLeft(LAMBDA a, b : a + b, 0, sorted) \div Len(sorted)

Summarize(samples, count) ==
  LET sorted == Sorted(samples) IN
  [count |-> count, sampleCount |-> Len(samples),
   min   |-> IF samples = <<>> THEN 0 ELSE sorted[1],
   max   |-> IF samples = <<>> THEN 0 ELSE sorted[Len(sorted)],
   mean  |-> IF samples = <<>> THEN 0 ELSE Mean(sorted, count),
   quantile |-> [p \in Quantiles |-> Percentile(sorted, p)]]

-----------------------------------------------------------------------------
(* ToolStats.Summarize and Aggregator.SummarizeAll: s is a record of       *)
(* Aggregator, byTool says where in stats those of a tool are.             *)
Failures == Categories \ {"ok"}

ErrorPct(ok, errors) == IF ok + errors > 0 THEN (100 * errors) \div (ok + errors) ELSE 0

ToolSummary(s) ==
  LET errors == SumFunctionOnSet(s.tally, Failures) IN
  [latency   |-> Summarize(s.samples, s.count),
   ok        |-> s.tally["ok"],
   errors    |-> errors,
   errorPct  |-> ErrorPct(s.tally["ok"], errors),
   breakdown |-> [c \in {c \in Failures : s.tally[c] > 0} |-> s.tally[c]],
   rpcCodes  |-> [n \in {n \in Codes : s.codes[n] > 0} |-> s.codes[n]]]

SummarizeAll(stats, byTool) ==
  [overall |-> ToolSummary(stats[1]),
   perTool |-> [t \in {t \in DOMAIN byTool : byTool[t] \in 1..Len(stats)} |->
                  ToolSummary(stats[byTool[t]])]]
=============================================================================
