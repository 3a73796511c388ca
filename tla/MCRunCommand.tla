----------------------------- MODULE MCRunCommand -----------------------------
(* Small instances of RunCommand for TLC.                                  *)
EXTENDS RunCommandProps

Rpc == {<<"plain", "rpc1">>}

(* What a seed makes of two tools: alternating, with a repetition, so that *)
(* no two windows of three draws have the same tools in order.             *)
Draw == <<"read", "read", "search", "read", "search", "search", "read", "read">>
=============================================================================
