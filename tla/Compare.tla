-------------------------------- MODULE Compare --------------------------------
(***************************************************************************)
(* internal/compare and the gate of `mcpbench compare`: two run files, a   *)
(* flag per metric, and the verdict.  Latencies are in milliseconds and    *)
(* error rates in percent; quotients of floats are compared by cross       *)
(* multiplication.  A flag is [sign, number, suffix], and a number that    *)
(* strconv does not read is NoNumber.                                      *)
(***************************************************************************)
EXTENDS Integers

CONSTANT Tools

Overall == "__overall__"
Keys    == Tools \cup {Overall}
Metrics == {"p95", "p99", "err"}

Unset    == [sign |-> "", number |-> 0, suffix |-> ""]   \* the flag is empty
NoNumber == -1

(* ParseThreshold.                                                         *)
Parses(flag)         == flag.sign # "" /\ flag.suffix # "" /\ flag.number # NoNumber
ParseThreshold(flag) == [kind  |-> flag.suffix,
                         value |-> IF flag.sign = "-" THEN -flag.number ELSE flag.number]

Default == [m \in Metrics |-> CASE m = "p95" -> [kind |-> "%", value |-> 20]
                                [] m = "p99" -> [kind |-> "%", value |-> 25]
                                [] m = "err" -> [kind |-> "pp", value |-> 2]]

(* compareExecute: pp belongs to the error rate, and only pp; a flag that  *)
(* is not given leaves the default.                                        *)
Accepted(flags) ==
  \A m \in Metrics : flags[m] # Unset =>
                       Parses(flags[m]) /\ (flags[m].suffix = "pp" <=> m = "err")

Config(flags) == [m \in Metrics |-> IF flags[m] = Unset THEN Default[m]
                                     ELSE ParseThreshold(flags[m])]

(* Mutant: a change that reaches the threshold exceeds it.                 *)
ExceedsOrMeets(th, a, b) ==
  \/ th.kind = "%" /\ IF a > 0 THEN 100 * (b - a) >= th.value * a ELSE 0 >= th.value
  \/ th.kind \in {"ms", "pp"} /\ b - a >= th.value

(* Mutant: the change counts whatever its direction.                       *)
ExceedsEitherWay(th, a, b) ==
  LET change == IF b > a THEN b - a ELSE a - b IN
  \/ th.kind = "%" /\ IF a > 0 THEN 100 * change > th.value * a ELSE 0 > th.value
  \/ th.kind \in {"ms", "pp"} /\ change > th.value

(* check, with the deltas of diffTool: there is no relative change from 0. *)
Exceeds(th, a, b) ==
  \/ th.kind = "%" /\ IF a > 0 THEN 100 * (b - a) > th.value * a ELSE 0 > th.value
  \/ th.kind \in {"ms", "pp"} /\ b - a > th.value

(* diffTool: the metrics that give a reason.                               *)
Reasons(a, b, cfg) == {m \in Metrics : Exceeds(cfg[m], a[m], b[m])}

Compare(baseline, candidate, cfg) ==
  LET shared == baseline.keys \cap candidate.keys
      reasons == [k \in shared \cup {Overall} |->
                    Reasons(baseline.summary[k], candidate.summary[k], cfg)]
  IN [shared    |-> shared,
      uniqueToA |-> baseline.keys \ candidate.keys,
      uniqueToB |-> candidate.keys \ baseline.keys,
      reasons   |-> reasons,
      regressed |-> \E k \in shared \cup {Overall} : reasons[k] # {}]

(* The fate of the report: written, refused by its writer (the text, whose *)
(* errors are dropped, never is), or of a format nobody knows.             *)
Outputs == {"written", "unwritten", "unknown"}

(* The exit code of the command.  LoadRun fails on what is not JSON; what  *)
(* is, is a run file, one without observations if it has no summary.       *)
ExitCode(baseline, candidate, flags, output) ==
  IF /\ Accepted(flags) /\ baseline.json /\ candidate.json /\ output = "written"
     /\ ~Compare(baseline, candidate, Config(flags)).regressed
  THEN 0 ELSE 1
================================================================================
