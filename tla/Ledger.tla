-------------------------------- MODULE Ledger --------------------------------
(***************************************************************************)
(* What metrics.Aggregator promises: for every tool, and for all of them   *)
(* together, the latest Size latencies in the order they were observed,    *)
(* the number observed, and one count per category and per JSON-RPC code.  *)
(* There is no ring, no lock and no creation of anything here.             *)
(***************************************************************************)
EXTENDS Errors

CONSTANTS Keys,       \* the tools and the overall statistics
          Durations,
          Errs,       \* the errors that may be observed, nil included
          Size        \* the capacity of a window

VARIABLES window, \* window[k]: the latest durations of k, oldest first
          seen,   \* seen[k]: how many were ever observed
          tally,  \* tally[k][c]: the observations of category c
          codes   \* codes[k][n]: those of JSON-RPC code n

vars == <<window, seen, tally, codes>>

Init == /\ window = [k \in Keys |-> <<>>]
        /\ seen = [k \in Keys |-> 0]
        /\ tally = [k \in Keys |-> [c \in Categories |-> 0]]
        /\ codes = [k \in Keys |-> [n \in Codes |-> 0]]

Latest(s) == IF Len(s) > Size THEN Tail(s) ELSE s

Observe(k, d) ==
  /\ window' = [window EXCEPT ![k] = Latest(Append(@, d))]
  /\ seen' = [seen EXCEPT ![k] = @ + 1]
  /\ UNCHANGED <<tally, codes>>

Count(k, err) ==
  /\ tally' = [tally EXCEPT ![k][Classify(err)] = @ + 1]
  /\ codes' = [codes EXCEPT ![k] = [n \in Codes |->
                  @[n] + (IF n \in CountedCodes(err) THEN 1 ELSE 0)]]
  /\ UNCHANGED <<window, seen>>

Next == \E k \in Keys : \/ \E d \in Durations : Observe(k, d)
                        \/ \E err \in Errs : Count(k, err)

Spec == Init /\ [][Next]_vars
=============================================================================
