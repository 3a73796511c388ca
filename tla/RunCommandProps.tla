---------------------------- MODULE RunCommandProps ----------------------------
(***************************************************************************)
(* What a run of the command must satisfy: the report that it prints is    *)
(* what its workers have observed, it comes to its end, and its exit code  *)
(* tells whether the report is there.                                      *)
(***************************************************************************)
EXTENDS RunCommand

(* A worker holds a tool from the draw to the return of its call, and is   *)
(* back in its loop while the aggregator has it.                           *)
HoldsOK ==
  \A w \in Workers : /\ wtool[w] # None => wpc[w] \in {"rendering", "calling"}
                     /\ wpc[w] = "calling" => wtool[w] # None
                     /\ rpc[w] # "idle" => /\ phase = "measure"
                                          /\ wpc[w] \in {"selecting", "thinking"}

(* The picker has given one tool to each job of a phase that has an        *)
(* observation or awaits one, so that its mix is never exhausted.          *)
Noted(p) == {i \in Iters : obs[p][i] # <<>>}
Drawing  == {i \in Iters : \E w \in Workers : wjob[w] = i /\ wtool[w] # None}
Touched  == Noted(phase) \cup Drawing

DrawnOK == /\ phase = "warmup" => skipped = drawn /\ drawn = Cardinality(Touched)
           /\ phase = "measure" => /\ skipped <= MaxIter
                                   /\ drawn = skipped + Cardinality(Touched)

(* What the steps of runExecute leave behind.                              *)
StagesOK ==
  /\ cmd = "running" => summary = None
  /\ cmd # "running" => main = "returned" /\ summary = SummarizeAll(stats, tools)
  /\ open <=> cmd # "exited"
  /\ code = None <=> cmd \in {"running", "format", "create", "write"}
  /\ code = 0 /\ format # "prom" => output = "whole"

(* Every variable that the composition adds has its type, and they agree   *)
(* with each other and with the jobs of the orchestrator.                  *)
RunTypeOK ==
  /\ drawn \in 0..Len(Mix) /\ skipped \in 0..drawn
  /\ wtool \in [Workers -> Tools \cup {None}]
  /\ cmd \in {"running", "format", "create", "write", "close", "exited"}
  /\ output \in {"nothing", "part", "whole"}
  /\ format \in Formats \cup {None}
  /\ open \in BOOLEAN /\ code \in {0, 1, None}
  /\ HoldsOK /\ DrawnOK /\ StagesOK

-----------------------------------------------------------------------------
Measured(outcomes) ==
  Cardinality({i \in Iters : \E o \in outcomes : obs["measure"][i] = <<o>>})

Lines  == {summary.perTool[t] : t \in DOMAIN summary.perTool}
Sum(f(_)) == SumFunction([t \in DOMAIN summary.perTool |-> f(summary.perTool[t])])

(* The report is made when everything is in: it has each observation of    *)
(* the measurement once, under its outcome and in the line of a tool, none *)
(* of the warmup, and, unless the run was interrupted, as many as were     *)
(* asked for.                                                              *)
ReportTrue ==
  summary # None =>
    LET all == summary.overall IN
    /\ all.ok = Measured({"ok"})
    /\ all.errors = Measured({"timeout", "error"})
    /\ all.latency.count = all.ok + all.errors
    /\ all.ok = Sum(LAMBDA s : s.ok) /\ all.errors = Sum(LAMBDA s : s.errors)
    /\ \A s \in Lines : s.latency.count = s.ok + s.errors
    /\ Requests > 0 /\ ~ctxDone => all.latency.count = Requests

(* The picker's lock makes the mix of tools in the report a matter of the  *)
(* seed, not of how the workers were scheduled: its lines count the draws  *)
(* that follow those of the warmup, each draw once.                        *)
SeedFixesTheMix ==
  summary # None =>
    /\ \A t \in Tools :
         Cardinality({k \in (skipped + 1)..drawn : Mix[k] = t})
           = IF t \in DOMAIN summary.perTool THEN summary.perTool[t].latency.count ELSE 0
    /\ Requests > 0 /\ ~ctxDone => drawn = skipped + Requests

(* The command exits with its transport closed, and with a code of 0 only  *)
(* after all writes of the report have succeeded, which of the format prom *)
(* nobody makes sure.                                                      *)
ExitTells ==
  cmd = "exited" => /\ ~open
                    /\ code = 0 /\ format # "prom" => output = "whole"

(* Run returns, interrupted or not: no worker, generator or channel waits  *)
(* for ever.  The command follows it to its exit.                          *)
CommandExits == <>(cmd = "exited")
=============================================================================
