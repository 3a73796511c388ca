-------------------------- MODULE OrchestratorProps --------------------------
(***************************************************************************)
(* What Orchestrator must satisfy: every job is accounted for, the budget  *)
(* of requests is measured exactly, and a run comes to its end.            *)
(***************************************************************************)
EXTENDS Orchestrator

(* Every variable has its type; in particular every observation falls in   *)
(* one of the categories.                                                  *)
DataOK ==
  /\ main \in {"begin", "loop", "tick", "emit", "close", "join", "cooldown", "returned"}
  /\ phase \in Phases
  /\ iter \in 0..Bound
  /\ jobs \in Seq(Iters)
  /\ wpc \in [Workers -> {"selecting", "rendering", "calling", "thinking", "exited"}]
  /\ wjob \in [Workers -> Iters \cup {NoJob}]
  /\ timer \subseteq Workers
  /\ obs \in [Phases -> [Iters -> Seq(Outcomes)]]

FlagsOK ==
  ctxDone \in BOOLEAN /\ phaseDone \in BOOLEAN /\ tick \in BOOLEAN /\ jobsClosed \in BOOLEAN

TypeOK == DataOK /\ FlagsOK

(* In the current phase each job that generate has sent is in one place:   *)
(* the channel, in order of emission, the hands of one worker, or the      *)
(* aggregator, once.  The last number drawn may not have been sent.        *)
Held(i) == \E w \in Workers : wjob[w] = i

Accounted(sent) ==
  LET taken == sent - Len(jobs) IN
  /\ taken >= 0
  /\ \A k \in 1..Len(jobs) : jobs[k] = taken + k
  /\ \A i \in Iters : Len(obs[phase][i]) = IF i <= taken /\ ~Held(i) THEN 1 ELSE 0
  /\ \A w \in Workers : wjob[w] # NoJob => wjob[w] <= taken
  /\ \A v, w \in Workers : wjob[v] = wjob[w] /\ wjob[v] # NoJob => v = w

JobsAccounted ==
  /\ main \in {"loop", "tick"} => Accounted(iter)
  /\ main = "emit" => Accounted(iter - 1)
  /\ main \in {"close", "join", "cooldown", "returned"} =>
       Accounted(iter) \/ Accounted(iter - 1)

(* A run with a budget of requests that nobody cancels measures each of    *)
(* them once, and nothing else, whatever the warmup did.                   *)
BudgetMeasured ==
  main \in {"cooldown", "returned"} /\ Requests > 0 /\ ~ctxDone =>
    \A i \in Iters : Len(obs["measure"][i]) = (IF i <= Requests THEN 1 ELSE 0)

(* An observation is a timeout only if the per-call timeout has fired; the *)
(* end of the phase is not a failure of the server.                        *)
TimeoutMeansTimer ==
  [][\A w \in Workers : CallReturns(w, "timeout") => w \in timer]_vars

-----------------------------------------------------------------------------
(* The inductive invariant behind JobsAccounted and BudgetMeasured.        *)

(* A worker holds a job from the moment it takes it until it records it.   *)
HandsOK == \A w \in Workers :
             wjob[w] = NoJob <=> wpc[w] \in {"selecting", "thinking", "exited"}

(* Between phases and after the last no worker is left.                    *)
RestOK == main \in {"begin", "cooldown", "returned"} =>
            \A w \in Workers : wpc[w] = "exited"

(* The observations of a phase that has not begun are none.                *)
FreshOK == /\ main = "begin" => \A i \in Iters : obs[phase][i] = <<>>
           /\ phase = "warmup" => \A i \in Iters : obs["measure"][i] = <<>>
           /\ main \in {"cooldown", "returned"} => phase = "measure"

(* The numbers drawn stay within the budget, and exhaust it unless the     *)
(* context cut the phase short.                                            *)
Budget == IF Limited THEN Requests ELSE MaxIter

CountOK ==
  main # "begin" =>
    /\ iter <= Budget
    /\ main = "tick" => iter < Budget
    /\ main = "emit" => iter >= 1
    /\ main \in {"close", "join", "cooldown", "returned"} /\ ~phaseDone =>
         /\ Limited => iter = Requests
         /\ Accounted(iter)

(* A worker leaves an uncancelled phase only when there is nothing left.   *)
DrainedOK ==
  main # "begin" =>
    /\ jobsClosed => main \in {"join", "cooldown", "returned"}
    /\ ~phaseDone /\ (\E w \in Workers : wpc[w] = "exited") => jobsClosed /\ jobs = <<>>
    /\ phaseDone /\ Limited => ctxDone

JobInv == HandsOK /\ RestOK /\ FreshOK /\ CountOK /\ DrainedOK /\ JobsAccounted
=============================================================================
