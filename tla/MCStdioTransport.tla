--------------------------- MODULE MCStdioTransport ---------------------------
(* Small instances of StdioTransport for TLC.                              *)
EXTENDS StdioTransportProps, TLC

(* Calls and closers are interchangeable: no action orders them, and the   *)
(* request ids are given out in the order of arrival.  Symmetry is used    *)
(* only by the configurations that check no liveness.                      *)
Symmetry == Permutations(Calls \ Malformed) \cup Permutations(Closers)
=============================================================================
