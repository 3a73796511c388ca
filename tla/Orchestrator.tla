----------------------------- MODULE Orchestrator -----------------------------
(***************************************************************************)
(* internal/orchestrator: the goroutine of Run takes the workload through  *)
(* its phases (warmup, measurement, cooldown); in each it emits numbered   *)
(* jobs into a bounded channel, closes it and waits for the workers, which *)
(* take jobs, call the transport and record one observation each.          *)
(* Time is abstract: a duration may elapse, and a timer fire, whenever it  *)
(* is running.  The transport is the contract of module Transport: a call  *)
(* may return a timeout once its context is done, and anything else at any *)
(* time.                                                                   *)
(***************************************************************************)
EXTENDS Integers, Sequences, FiniteSets

CONSTANTS Workers,    \* the worker goroutines of a phase
          Requests,   \* Workload.Requests; 0 when the workload has a duration
          Warmup,     \* is there a warmup phase?
          Rated,      \* is Workload.Rate positive?
          Think,      \* is Workload.ThinkTime positive?
          MaxIter,    \* bound: jobs a phase with a duration emits in its time
          NoJob       \* stands for "no job"

ASSUME WorkersAssumption == IsFiniteSet(Workers) /\ Workers # {}
ASSUME WorkloadAssumption == /\ Requests \in Nat /\ MaxIter \in Nat
                             /\ Warmup \in BOOLEAN /\ Rated \in BOOLEAN /\ Think \in BOOLEAN
                             /\ NoJob \notin Nat

VARIABLES
  main,       \* the next step of the goroutine of Run
  phase,      \* "warmup" or "measure"
  ctxDone,    \* the context given to Run is done
  phaseDone,  \* the context of the current phase is done
  iter,       \* the counter of generate
  tick,       \* a tick is waiting in the ticker's channel
  jobs,       \* the channel of jobs
  jobsClosed, \* it has been closed
  wpc,        \* wpc[w]: the next step of worker w
  wjob,       \* wjob[w]: the job it executes, or NoJob
  timer,      \* the workers whose per-call timeout has fired
  obs         \* obs[p][i]: the outcomes recorded for job i of phase p, in order

mainVars   == <<main, phase, iter, tick, jobsClosed>>
ctxVars    == <<ctxDone, phaseDone>>
workerVars == <<wpc, wjob, timer>>
vars == <<mainVars, ctxVars, jobs, workerVars, obs>>

Phases   == {"warmup", "measure"}
Outcomes == {"ok", "timeout", "error"}   \* "error": jsonrpc, transport, template
Bound    == IF Requests > MaxIter THEN Requests ELSE MaxIter
Iters    == 1..Bound
QueueCap == 2 * Cardinality(Workers)

(* Requests bound the measurement; the warmup has a duration.              *)
Limited == phase = "measure" /\ Requests > 0

Init == /\ main = "begin"
        /\ phase = IF Warmup THEN "warmup" ELSE "measure"
        /\ ctxDone = FALSE /\ phaseDone = FALSE
        /\ iter = 0 /\ tick = FALSE
        /\ jobs = <<>> /\ jobsClosed = FALSE
        /\ wpc = [w \in Workers |-> "exited"]
        /\ wjob = [w \in Workers |-> NoJob]
        /\ timer = {}
        /\ obs = [p \in Phases |-> [i \in Iters |-> <<>>]]

-----------------------------------------------------------------------------
(* runPhase, up to the start of the generator.                             *)
PhaseBegins ==
  /\ main = "begin"
  /\ main' = "loop"
  /\ phaseDone' = ctxDone
  /\ iter' = 0 /\ tick' = FALSE
  /\ jobs' = <<>> /\ jobsClosed' = FALSE
  /\ wpc' = [w \in Workers |-> "selecting"]
  /\ UNCHANGED <<phase, ctxDone, wjob, timer, obs>>

(* generate.  The checks at the head of its loop: the budget of requests,  *)
(* the deadline (our clock may see it before the context's timer), the     *)
(* context.                                                                *)
LoopEnds ==
  /\ main = "loop"
  /\ phaseDone \/ (IF Limited THEN iter >= Requests ELSE TRUE)
  /\ main' = "close"
  /\ UNCHANGED <<phase, iter, tick, jobsClosed, ctxVars, jobs, workerVars, obs>>

(* Mutant: the budget is off by one.                                       *)
LoopContinuesPast ==
  /\ main = "loop" /\ ~phaseDone
  /\ IF Limited THEN iter <= Requests ELSE iter < MaxIter
  /\ main' = IF Rated THEN "tick" ELSE "emit"
  /\ iter' = IF Rated THEN iter ELSE iter + 1
  /\ UNCHANGED <<phase, tick, jobsClosed, ctxVars, jobs, workerVars, obs>>

LoopContinues ==
  /\ main = "loop" /\ ~phaseDone
  /\ IF Limited THEN iter < Requests ELSE iter < MaxIter
  /\ main' = IF Rated THEN "tick" ELSE "emit"
  /\ iter' = IF Rated THEN iter ELSE iter + 1
  /\ UNCHANGED <<phase, tick, jobsClosed, ctxVars, jobs, workerVars, obs>>

TickerFires ==
  /\ Rated /\ main \in {"loop", "tick", "emit"} /\ ~tick
  /\ tick' = TRUE
  /\ UNCHANGED <<main, phase, iter, jobsClosed, ctxVars, jobs, workerVars, obs>>

Tick ==
  /\ main = "tick" /\ tick
  /\ tick' = FALSE
  /\ iter' = iter + 1
  /\ main' = "emit"
  /\ UNCHANGED <<phase, jobsClosed, ctxVars, jobs, workerVars, obs>>

Emit ==
  /\ main = "emit" /\ Len(jobs) < QueueCap
  /\ jobs' = Append(jobs, iter)
  /\ main' = "loop"
  /\ UNCHANGED <<phase, iter, tick, jobsClosed, ctxVars, workerVars, obs>>

(* The tick and the send are each in a select with ctx.Done.               *)
Abandon ==
  /\ main \in {"tick", "emit"} /\ phaseDone
  /\ main' = "close"
  /\ UNCHANGED <<phase, iter, tick, jobsClosed, ctxVars, jobs, workerVars, obs>>

(* Mutant: the channel of jobs is left open.                               *)
CloseJobsForgotten ==
  /\ main = "close"
  /\ main' = "join"
  /\ UNCHANGED <<phase, iter, tick, jobsClosed, ctxVars, jobs, workerVars, obs>>

(* runPhase again: close(jobs), wg.Wait; then runPhases goes on.           *)
CloseJobs ==
  /\ main = "close"
  /\ jobsClosed' = TRUE
  /\ main' = "join"
  /\ UNCHANGED <<phase, iter, tick, ctxVars, jobs, workerVars, obs>>

Join ==
  /\ main = "join"
  /\ \A w \in Workers : wpc[w] = "exited"
  /\ main' = IF phase = "warmup" THEN "begin" ELSE "cooldown"
  /\ phase' = "measure"
  /\ UNCHANGED <<iter, tick, jobsClosed, ctxVars, jobs, workerVars, obs>>

Cooldown ==
  /\ main = "cooldown"
  /\ main' = "returned"
  /\ UNCHANGED <<phase, iter, tick, jobsClosed, ctxVars, jobs, workerVars, obs>>

MainStep == \/ PhaseBegins \/ LoopEnds \/ LoopContinues \/ Tick \/ Emit
            \/ Abandon \/ CloseJobs \/ Join \/ Cooldown

-----------------------------------------------------------------------------
(* Contexts and timers.                                                    *)
PhaseExpires ==
  /\ main \in {"loop", "tick", "emit", "close", "join"}
  /\ ~Limited /\ ~phaseDone
  /\ phaseDone' = TRUE
  /\ UNCHANGED <<mainVars, ctxDone, jobs, workerVars, obs>>

RunCancelled ==
  /\ ~ctxDone
  /\ ctxDone' = TRUE /\ phaseDone' = TRUE
  /\ UNCHANGED <<mainVars, jobs, workerVars, obs>>

CallTimerFires(w) ==
  /\ wpc[w] = "calling" /\ w \notin timer
  /\ timer' = timer \cup {w}
  /\ UNCHANGED <<mainVars, ctxVars, jobs, wpc, wjob, obs>>

-----------------------------------------------------------------------------
(* worker and executeOne.                                                  *)
WorkerTakes(w) ==
  /\ wpc[w] = "selecting" /\ jobs # <<>>
  /\ wjob' = [wjob EXCEPT ![w] = Head(jobs)]
  /\ jobs' = Tail(jobs)
  /\ wpc' = [wpc EXCEPT ![w] = "rendering"]
  /\ UNCHANGED <<mainVars, ctxVars, timer, obs>>

(* Mutant: a worker leaves as soon as the channel is closed.               *)
WorkerQuitsEarly(w) ==
  /\ wpc[w] = "selecting"
  /\ phaseDone \/ jobsClosed
  /\ wpc' = [wpc EXCEPT ![w] = "exited"]
  /\ UNCHANGED <<mainVars, ctxVars, jobs, wjob, timer, obs>>

(* A closed channel still yields what it holds.                            *)
WorkerQuits(w) ==
  /\ wpc[w] = "selecting"
  /\ phaseDone \/ (jobsClosed /\ jobs = <<>>)
  /\ wpc' = [wpc EXCEPT ![w] = "exited"]
  /\ UNCHANGED <<mainVars, ctxVars, jobs, wjob, timer, obs>>

(* Aggregator.Record: one observation of the job in the phase's aggregator *)
Record(w, o) ==
  /\ obs' = [obs EXCEPT ![phase][wjob[w]] = Append(@, o)]
  /\ wjob' = [wjob EXCEPT ![w] = NoJob]
  /\ timer' = timer \ {w}
  /\ wpc' = [wpc EXCEPT ![w] = IF o = "ok" /\ Think THEN "thinking" ELSE "selecting"]

(* Mutant: an error is recorded and the job then goes on to its call.      *)
TemplateFailsOn(w) ==
  /\ wpc[w] = "rendering"
  /\ obs' = [obs EXCEPT ![phase][wjob[w]] = Append(@, "error")]
  /\ wpc' = [wpc EXCEPT ![w] = "calling"]
  /\ UNCHANGED <<mainVars, ctxVars, jobs, wjob, timer>>

TemplateFails(w) ==
  /\ wpc[w] = "rendering"
  /\ Record(w, "error")
  /\ UNCHANGED <<mainVars, ctxVars, jobs>>

CallBegins(w) ==
  /\ wpc[w] = "rendering"
  /\ wpc' = [wpc EXCEPT ![w] = "calling"]
  /\ UNCHANGED <<mainVars, ctxVars, jobs, wjob, timer, obs>>

(* The call's context is done when its timer or the phase's context is.    *)
CallCtxDone(w) == w \in timer \/ phaseDone

CallReturns(w, o) ==
  /\ wpc[w] = "calling"
  /\ o = "timeout" => CallCtxDone(w)
  /\ Record(w, o)
  /\ UNCHANGED <<mainVars, ctxVars, jobs>>

ThinkEnds(w) ==
  /\ wpc[w] = "thinking"
  /\ wpc' = [wpc EXCEPT ![w] = "selecting"]
  /\ UNCHANGED <<mainVars, ctxVars, jobs, wjob, timer, obs>>

(* What a worker does without the help of the server.                      *)
WorkerStep(w) == \/ WorkerTakes(w) \/ WorkerQuits(w)
                 \/ TemplateFails(w) \/ CallBegins(w) \/ ThinkEnds(w)
                 \/ CallReturns(w, "timeout")

-----------------------------------------------------------------------------
Terminated == main = "returned" /\ UNCHANGED vars

Next == \/ MainStep \/ TickerFires \/ PhaseExpires \/ RunCancelled
        \/ \E w \in Workers : \/ WorkerStep(w) \/ CallTimerFires(w)
                              \/ \E o \in Outcomes : CallReturns(w, o)
        \/ Terminated

Spec == Init /\ [][Next]_vars

(* The scheduler runs our goroutines, every timer fires (phases, calls,    *)
(* ticker), and a call whose context is done returns, as Transport says.   *)
Fairness == /\ WF_vars(MainStep)
            /\ WF_vars(TickerFires)
            /\ WF_vars(PhaseExpires)
            /\ \A w \in Workers : WF_vars(WorkerStep(w)) /\ WF_vars(CallTimerFires(w))

FairSpec == Spec /\ Fairness
=============================================================================
