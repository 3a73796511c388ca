---------------------------- MODULE SummaryProps ----------------------------
(* What Summary must satisfy, over bounded inputs: all short sequences of  *)
(* samples, and one of each length up to MaxLen, long enough for every     *)
(* quantile to have a rank of its own.                                     *)
EXTENDS Summary, FiniteSets

CONSTANTS Samples, MaxShort, MaxLen

VARIABLE samples

Mixed(n) == [k \in 1..n |-> (k * 37) % 101]

Init == samples \in SeqOf(Samples, MaxShort) \cup {Mixed(n) : n \in 1..MaxLen}

AtMost(d) == Cardinality({k \in 1..Len(samples) : samples[k] <= d})

(* A reported quantile p is the least retained latency that at least p     *)
(* percent of the retained latencies do not exceed (nearest rank).         *)
QuantilesRight ==
  LET q == Summarize(samples, Len(samples)).quantile IN
  samples # <<>> => \A p \in Quantiles :
    /\ q[p] \in {samples[k] : k \in 1..Len(samples)}
    /\ 100 * AtMost(q[p]) >= p * Len(samples)
    /\ \A k \in 1..Len(samples) :
         samples[k] < q[p] => 100 * AtMost(samples[k]) < p * Len(samples)

(* The line of a tool is in order, from its fastest call to its slowest    *)
(* with the mean between them, also when more calls were counted than the  *)
(* reservoir has kept.                                                     *)
SummaryOrdered ==
  \A lost \in {0, 1, Len(samples)} :
    LET s == Summarize(samples, Len(samples) + lost) IN
    /\ s.min <= s.quantile[50] /\ s.quantile[99] <= s.max
    /\ \A p, q \in Quantiles : p <= q => s.quantile[p] <= s.quantile[q]
    /\ s.min <= s.mean /\ s.mean <= s.max
=============================================================================
