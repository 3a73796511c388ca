---------------------------- MODULE MCHttpTransport ----------------------------
(* Small instances of HttpTransport for TLC.                               *)
EXTENDS HttpTransportProps, TLC

Symmetry == Permutations(Calls \ Malformed)
=============================================================================
