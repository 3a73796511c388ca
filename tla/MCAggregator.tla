----------------------------- MODULE MCAggregator -----------------------------
(* Small instances of Aggregator for TLC; workers are interchangeable.     *)
EXTENDS AggregatorProps, TLC

(* A success, and a server's error that something has wrapped.             *)
SomeErrs == {<<>>, <<"plain", "rpc1">>}

Symmetry == Permutations(Workers)
=============================================================================
