----------------------------- MODULE MCFunctions -----------------------------
(* Small inputs of the sequential algorithms for TLC.                       *)
EXTENDS FunctionProps

(* Ties, gaps and the least sample.                                         *)
SomeSamples == {0, 1, 2}

(* Over a p95 of 10, a 13 is past each of the positive thresholds, a 0 past *)
(* none; over one of 0 nothing is, in percent.                              *)
SomeLatencies  == {0, 10, 13}
SomeErrorRates == {0, 20}
=============================================================================
