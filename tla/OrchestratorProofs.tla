-------------------------- MODULE OrchestratorProofs --------------------------
(***************************************************************************)
(* Theorems about Orchestrator, for any number of workers and any workload *)
(***************************************************************************)
EXTENDS OrchestratorProps, TLAPS

(* A record appends one outcome to the observations of a job.             *)
LEMMA RecordTypes ==
  ASSUME DataOK, HandsOK, NEW w \in Workers, NEW o \in Outcomes, Record(w, o),
         wpc[w] \in {"rendering", "calling"}
  PROVE  obs' \in [Phases -> [Iters -> Seq(Outcomes)]]
<1>1. wjob[w] \in Iters
  BY DEF DataOK, HandsOK
<1>2. Append(obs[phase][wjob[w]], o) \in Seq(Outcomes)
  BY <1>1 DEF DataOK
<1> QED
  BY <1>1, <1>2 DEF Record, DataOK

(* Types: the counter of generate stays in range because of the budget.    *)
LEMMA DataStep == DataOK /\ HandsOK /\ CountOK /\ [Next]_vars => DataOK'
<1> USE WorkloadAssumption DEF DataOK, HandsOK, CountOK, Budget, Limited, Phases, Iters, Bound,
        mainVars, ctxVars, workerVars
<1>1. ASSUME DataOK, HandsOK, CountOK, PhaseBegins PROVE DataOK'
  BY <1>1 DEF PhaseBegins
<1>2. ASSUME DataOK, HandsOK, CountOK, LoopEnds PROVE DataOK'
  BY <1>2 DEF LoopEnds
<1>3. ASSUME DataOK, HandsOK, CountOK, LoopContinues PROVE DataOK'
  BY <1>3 DEF LoopContinues
<1>4. ASSUME DataOK, HandsOK, CountOK, TickerFires PROVE DataOK'
  BY <1>4 DEF TickerFires
<1>5. ASSUME DataOK, HandsOK, CountOK, Tick PROVE DataOK'
  BY <1>5 DEF Tick
<1>6. ASSUME DataOK, HandsOK, CountOK, Emit PROVE DataOK'
  BY <1>6 DEF Emit
<1>7. ASSUME DataOK, HandsOK, CountOK, Abandon PROVE DataOK'
  BY <1>7 DEF Abandon
<1>8. ASSUME DataOK, HandsOK, CountOK, CloseJobs PROVE DataOK'
  BY <1>8 DEF CloseJobs
<1>9. ASSUME DataOK, HandsOK, CountOK, Join PROVE DataOK'
  BY <1>9 DEF Join
<1>10. ASSUME DataOK, HandsOK, CountOK, Cooldown PROVE DataOK'
  BY <1>10 DEF Cooldown
<1>11. ASSUME DataOK, HandsOK, CountOK, PhaseExpires PROVE DataOK'
  BY <1>11 DEF PhaseExpires
<1>12. ASSUME DataOK, HandsOK, CountOK, RunCancelled PROVE DataOK'
  BY <1>12 DEF RunCancelled
<1>13. ASSUME DataOK, HandsOK, CountOK, NEW w \in Workers, CallTimerFires(w) PROVE DataOK'
  BY <1>13 DEF CallTimerFires
<1>14. ASSUME DataOK, HandsOK, CountOK, NEW w \in Workers, WorkerTakes(w) PROVE DataOK'
  BY <1>14 DEF WorkerTakes
<1>15. ASSUME DataOK, HandsOK, CountOK, NEW w \in Workers, WorkerQuits(w) PROVE DataOK'
  BY <1>15 DEF WorkerQuits
<1>16. ASSUME DataOK, HandsOK, CountOK, NEW w \in Workers, TemplateFails(w) PROVE DataOK'
  <2>1. obs' \in [Phases -> [Iters -> Seq(Outcomes)]]
    BY <1>16, RecordTypes DEF TemplateFails, Outcomes
  <2> QED
    BY <1>16, <2>1 DEF TemplateFails, Record
<1>17. ASSUME DataOK, HandsOK, CountOK, NEW w \in Workers, CallBegins(w) PROVE DataOK'
  BY <1>17 DEF CallBegins
<1>18. ASSUME DataOK, HandsOK, CountOK, NEW w \in Workers, ThinkEnds(w) PROVE DataOK'
  BY <1>18 DEF ThinkEnds
<1>19. ASSUME DataOK, HandsOK, CountOK,
              NEW w \in Workers, NEW o \in Outcomes, CallReturns(w, o)
       PROVE  DataOK'
  <2>1. obs' \in [Phases -> [Iters -> Seq(Outcomes)]]
    BY <1>19, RecordTypes DEF CallReturns
  <2> QED
    BY <1>19, <2>1 DEF CallReturns, Record
<1>20. ASSUME DataOK, HandsOK, CountOK, UNCHANGED vars PROVE DataOK'
  BY <1>20 DEF vars
<1> HIDE DEF DataOK, HandsOK, CountOK
<1> QED
  BY <1>1, <1>2, <1>3, <1>4, <1>5, <1>6, <1>7, <1>8, <1>9, <1>10, <1>11, <1>12,
     <1>13, <1>14, <1>15, <1>16, <1>17, <1>18, <1>19, <1>20
     DEF Next, MainStep, WorkerStep, Terminated, Outcomes

LEMMA FlagsStep == FlagsOK /\ [Next]_vars => FlagsOK'
<1> USE DEF FlagsOK, mainVars, ctxVars, workerVars
<1>1. ASSUME FlagsOK, MainStep PROVE FlagsOK'
  BY <1>1, Zenon DEF MainStep, PhaseBegins, LoopEnds, LoopContinues, Tick, Emit, Abandon,
     CloseJobs, Join, Cooldown
<1>2. ASSUME FlagsOK, TickerFires \/ PhaseExpires \/ RunCancelled PROVE FlagsOK'
  BY <1>2, Zenon DEF TickerFires, PhaseExpires, RunCancelled
<1>3. ASSUME FlagsOK, NEW w \in Workers, NEW o, CallReturns(w, o) PROVE FlagsOK'
  BY <1>3, Zenon DEF CallReturns
<1>4. ASSUME FlagsOK, NEW w \in Workers, WorkerStep(w) \/ CallTimerFires(w) PROVE FlagsOK'
  BY <1>3, <1>4, Zenon DEF WorkerStep, CallTimerFires, WorkerTakes, WorkerQuits,
     TemplateFails, CallBegins, ThinkEnds
<1>5. ASSUME FlagsOK, UNCHANGED vars PROVE FlagsOK'
  BY <1>5, Zenon DEF vars
<1> QED
  BY <1>1, <1>2, <1>3, <1>4, <1>5 DEF Next, Terminated

(* The shape of the worker pool.                                           *)
ShapeOK == HandsOK /\ RestOK /\ DrainedOK

LEMMA ShapeStep == DataOK /\ ShapeOK /\ [Next]_vars => ShapeOK'
<1> USE WorkloadAssumption DEF DataOK, ShapeOK, HandsOK, RestOK, DrainedOK, Limited, Phases,
        Iters, Bound, mainVars, ctxVars, workerVars
<1>1. ASSUME DataOK, ShapeOK, PhaseBegins PROVE ShapeOK'
  BY <1>1 DEF PhaseBegins
<1>2. ASSUME DataOK, ShapeOK, LoopEnds PROVE ShapeOK'
  BY <1>2 DEF LoopEnds
<1>3. ASSUME DataOK, ShapeOK, LoopContinues PROVE ShapeOK'
  BY <1>3 DEF LoopContinues
<1>4. ASSUME DataOK, ShapeOK, TickerFires PROVE ShapeOK'
  BY <1>4 DEF TickerFires
<1>5. ASSUME DataOK, ShapeOK, Tick PROVE ShapeOK'
  BY <1>5 DEF Tick
<1>6. ASSUME DataOK, ShapeOK, Emit PROVE ShapeOK'
  BY <1>6 DEF Emit
<1>7. ASSUME DataOK, ShapeOK, Abandon PROVE ShapeOK'
  BY <1>7 DEF Abandon
<1>8. ASSUME DataOK, ShapeOK, CloseJobs PROVE ShapeOK'
  BY <1>8 DEF CloseJobs
<1>9. ASSUME DataOK, ShapeOK, Join PROVE ShapeOK'
  BY <1>9 DEF Join
<1>10. ASSUME DataOK, ShapeOK, Cooldown PROVE ShapeOK'
  BY <1>10 DEF Cooldown
<1>11. ASSUME DataOK, ShapeOK, PhaseExpires PROVE ShapeOK'
  BY <1>11 DEF PhaseExpires
<1>12. ASSUME DataOK, ShapeOK, RunCancelled PROVE ShapeOK'
  BY <1>12 DEF RunCancelled
<1>13. ASSUME DataOK, ShapeOK, NEW w \in Workers, CallTimerFires(w) PROVE ShapeOK'
  BY <1>13 DEF CallTimerFires
<1>14. ASSUME DataOK, ShapeOK, NEW w \in Workers, WorkerTakes(w) PROVE ShapeOK'
  BY <1>14 DEF WorkerTakes
<1>15. ASSUME DataOK, ShapeOK, NEW w \in Workers, WorkerQuits(w) PROVE ShapeOK'
  BY <1>15 DEF WorkerQuits
<1>16. ASSUME DataOK, ShapeOK, NEW w \in Workers, TemplateFails(w) PROVE ShapeOK'
  BY <1>16 DEF TemplateFails, Record
<1>17. ASSUME DataOK, ShapeOK, NEW w \in Workers, CallBegins(w) PROVE ShapeOK'
  BY <1>17 DEF CallBegins
<1>18. ASSUME DataOK, ShapeOK, NEW w \in Workers, ThinkEnds(w) PROVE ShapeOK'
  BY <1>18 DEF ThinkEnds
<1>19. ASSUME DataOK, ShapeOK,
              NEW w \in Workers, NEW o \in Outcomes, CallReturns(w, o)
       PROVE  ShapeOK'
  BY <1>19 DEF CallReturns, Record
<1>20. ASSUME DataOK, ShapeOK, UNCHANGED vars PROVE ShapeOK'
  BY <1>20 DEF vars
<1> HIDE DEF DataOK, ShapeOK
<1> QED
  BY <1>1, <1>2, <1>3, <1>4, <1>5, <1>6, <1>7, <1>8, <1>9, <1>10, <1>11, <1>12,
     <1>13, <1>14, <1>15, <1>16, <1>17, <1>18, <1>19, <1>20
     DEF Next, MainStep, WorkerStep, Terminated, Outcomes

(* Where the jobs are.                                                     *)
LEMMA AccountedFrame ==
  ASSUME UNCHANGED <<jobs, obs, phase, wjob>>, NEW n
  PROVE  Accounted(n)' <=> Accounted(n)
BY DEF Accounted, Held

LEMMA TakeKeeps ==
  ASSUME DataOK, HandsOK, NEW w \in Workers, WorkerTakes(w), NEW n \in Int, Accounted(n)
  PROVE  Accounted(n)'
<1> DEFINE taken == n - Len(jobs)
<1>1. /\ jobs \in Seq(Iters) /\ jobs # <<>>
      /\ jobs' = Tail(jobs) /\ wjob' = [wjob EXCEPT ![w] = Head(jobs)]
      /\ obs' = obs /\ phase' = phase
      /\ wjob[w] = NoJob /\ wjob \in [Workers -> Iters \cup {NoJob}]
  BY DEF WorkerTakes, DataOK, HandsOK, mainVars
<1>2. /\ Len(jobs) \in Nat \ {0} /\ Len(jobs') = Len(jobs) - 1
      /\ \A k \in 1..Len(jobs') : jobs'[k] = jobs[k + 1]
      /\ Head(jobs) = jobs[1]
  BY <1>1
<1>3. /\ Head(jobs) = taken + 1 /\ taken + 1 \in Iters /\ taken \in Int
  BY <1>1, <1>2 DEF Accounted
<1>4. n - Len(jobs') = taken + 1
  BY <1>2
<1>5. \A k \in 1..Len(jobs') : jobs'[k] = (taken + 1) + k
  <2> SUFFICES ASSUME NEW k \in 1..Len(jobs') PROVE jobs'[k] = (taken + 1) + k
    OBVIOUS
  <2>1. k + 1 \in 1..Len(jobs)
    BY <1>2
  <2> QED
    BY <2>1, <1>2, <1>3 DEF Accounted
<1>6. \A i \in Iters : Held(i)' <=> Held(i) \/ i = taken + 1
  <2> SUFFICES ASSUME NEW i \in Iters PROVE Held(i)' <=> Held(i) \/ i = taken + 1
    OBVIOUS
  <2>1. /\ wjob'[w] = taken + 1 /\ i # NoJob
        /\ \A v \in Workers \ {w} : wjob'[v] = wjob[v]
    BY <1>1, <1>3, WorkloadAssumption DEF Iters, Bound
  <2> QED
    BY <2>1, <1>1 DEF Held
<1>7. \A i \in Iters : Len(obs'[phase'][i]) = IF i <= taken + 1 /\ ~Held(i)' THEN 1 ELSE 0
  BY <1>1, <1>3, <1>6, WorkloadAssumption DEF Accounted, Iters, Bound
<1>8. \A v \in Workers : wjob'[v] # NoJob => wjob'[v] <= taken + 1
  BY <1>1, <1>3, WorkloadAssumption DEF Accounted, Iters, Bound
<1>9. \A u, v \in Workers : wjob'[u] = wjob'[v] /\ wjob'[u] # NoJob => u = v
  BY <1>1, <1>3, WorkloadAssumption DEF Accounted, Iters, Bound
<1>10. taken + 1 >= 0
  BY <1>3 DEF Accounted
<1> HIDE DEF taken
<1> QED
  BY <1>4, <1>5, <1>7, <1>8, <1>9, <1>10 DEF Accounted

LEMMA RecordKeeps ==
  ASSUME DataOK, HandsOK, NEW w \in Workers, NEW o \in Outcomes, Record(w, o),
         wpc[w] \in {"rendering", "calling"}, UNCHANGED <<phase, jobs>>,
         NEW n \in Int, Accounted(n)
  PROVE  Accounted(n)'
<1> DEFINE taken == n - Len(jobs)
<1>1. /\ wjob[w] \in Iters /\ wjob' = [wjob EXCEPT ![w] = NoJob]
      /\ wjob \in [Workers -> Iters \cup {NoJob}]
      /\ obs' = [obs EXCEPT ![phase][wjob[w]] = Append(@, o)]
      /\ obs[phase] \in [Iters -> Seq(Outcomes)] /\ phase' = phase /\ jobs' = jobs
      /\ obs \in [Phases -> [Iters -> Seq(Outcomes)]] /\ phase \in Phases
      /\ Len(jobs) \in Nat /\ taken \in Int
  <2>1. wjob[w] \in Iters /\ jobs \in Seq(Iters)
    BY DEF DataOK, HandsOK
  <2> QED
    BY <2>1 DEF DataOK, Record
<1>2. /\ Held(wjob[w]) /\ wjob[w] <= taken
      /\ \A v \in Workers : v # w => wjob[v] # wjob[w]
      /\ Len(obs[phase][wjob[w]]) = 0
  <2>1. wjob[w] # NoJob
    BY <1>1, WorkloadAssumption DEF Iters, Bound
  <2>2. Held(wjob[w]) /\ wjob[w] <= taken
    BY <1>1, <2>1 DEF Accounted, Held
  <2>3. \A v \in Workers : v # w => wjob[v] # wjob[w]
    BY <1>1, <2>1 DEF Accounted
  <2>4. Len(obs[phase][wjob[w]]) = 0
    BY <1>1, <2>2 DEF Accounted
  <2> QED
    BY <2>2, <2>3, <2>4
<1>3. \A i \in Iters : Held(i)' <=> Held(i) /\ i # wjob[w]
  <2> SUFFICES ASSUME NEW i \in Iters PROVE Held(i)' <=> Held(i) /\ i # wjob[w]
    OBVIOUS
  <2>1. /\ wjob'[w] = NoJob /\ i # NoJob
        /\ \A v \in Workers \ {w} : wjob'[v] = wjob[v] /\ wjob[v] # wjob[w]
    BY <1>1, <1>2, WorkloadAssumption DEF Iters, Bound
  <2> QED
    BY <2>1 DEF Held
<1>4. Len(Append(obs[phase][wjob[w]], o)) = 1
  BY <1>1, <1>2
<1>5. \A i \in Iters :
        obs'[phase][i] = IF i = wjob[w] THEN Append(obs[phase][i], o) ELSE obs[phase][i]
  BY <1>1
<1>6. \A i \in Iters : Len(obs'[phase'][i]) = IF i <= taken /\ ~Held(i)' THEN 1 ELSE 0
  BY <1>1, <1>2, <1>3, <1>4, <1>5 DEF Accounted
<1>7. \A v \in Workers : wjob'[v] # NoJob => wjob'[v] <= taken
  BY <1>1 DEF Accounted
<1>8. \A u, v \in Workers : wjob'[u] = wjob'[v] /\ wjob'[u] # NoJob => u = v
  BY <1>1 DEF Accounted
<1> QED
  BY <1>1, <1>6, <1>7, <1>8 DEF Accounted

LEMMA EmitExtends ==
  ASSUME DataOK, CountOK, Emit, Accounted(iter - 1)
  PROVE  Accounted(iter)'
<1>1. /\ jobs \in Seq(Iters) /\ iter \in Iters /\ jobs' = Append(jobs, iter)
      /\ iter' = iter /\ UNCHANGED <<obs, phase, wjob>>
  BY WorkloadAssumption DEF Emit, DataOK, CountOK, Budget, Iters, Bound, workerVars
<1>2. /\ Len(jobs') = Len(jobs) + 1 /\ Len(jobs) \in Nat /\ iter \in Nat
      /\ \A k \in 1..Len(jobs) : jobs'[k] = jobs[k]
      /\ jobs'[Len(jobs) + 1] = iter
  BY <1>1 DEF Iters
<1>3. iter' - Len(jobs') = iter - 1 - Len(jobs)
  BY <1>1, <1>2
<1>4. \A k \in 1..Len(jobs') : jobs'[k] = iter - 1 - Len(jobs) + k
  <2> SUFFICES ASSUME NEW k \in 1..Len(jobs') PROVE jobs'[k] = iter - 1 - Len(jobs) + k
    OBVIOUS
  <2>1. CASE k = Len(jobs) + 1
    BY <2>1, <1>2
  <2>2. CASE k # Len(jobs) + 1
    <3>1. k \in 1..Len(jobs)
      BY <2>2, <1>2
    <3> QED
      BY <3>1, <1>2 DEF Accounted
  <2> QED
    BY <2>1, <2>2
<1> QED
  BY <1>1, <1>3, <1>4 DEF Accounted, Held

LEMMA FreshStep == DataOK /\ ShapeOK /\ FreshOK /\ [Next]_vars => FreshOK'
<1> USE DEF DataOK, ShapeOK, HandsOK, RestOK, FreshOK, Phases, mainVars, ctxVars, workerVars
<1>1. ASSUME DataOK, ShapeOK, FreshOK, PhaseBegins PROVE FreshOK'
  BY <1>1 DEF PhaseBegins
<1>2. ASSUME DataOK, ShapeOK, FreshOK, LoopEnds PROVE FreshOK'
  BY <1>2 DEF LoopEnds
<1>3. ASSUME DataOK, ShapeOK, FreshOK, LoopContinues PROVE FreshOK'
  BY <1>3 DEF LoopContinues
<1>4. ASSUME DataOK, ShapeOK, FreshOK, TickerFires PROVE FreshOK'
  BY <1>4 DEF TickerFires
<1>5. ASSUME DataOK, ShapeOK, FreshOK, Tick PROVE FreshOK'
  BY <1>5 DEF Tick
<1>6. ASSUME DataOK, ShapeOK, FreshOK, Emit PROVE FreshOK'
  BY <1>6 DEF Emit
<1>7. ASSUME DataOK, ShapeOK, FreshOK, Abandon PROVE FreshOK'
  BY <1>7 DEF Abandon
<1>8. ASSUME DataOK, ShapeOK, FreshOK, CloseJobs PROVE FreshOK'
  BY <1>8 DEF CloseJobs
<1>9. ASSUME DataOK, ShapeOK, FreshOK, Join PROVE FreshOK'
  BY <1>9 DEF Join
<1>10. ASSUME DataOK, ShapeOK, FreshOK, Cooldown PROVE FreshOK'
  BY <1>10 DEF Cooldown
<1>11. ASSUME DataOK, ShapeOK, FreshOK, PhaseExpires PROVE FreshOK'
  BY <1>11 DEF PhaseExpires
<1>12. ASSUME DataOK, ShapeOK, FreshOK, RunCancelled PROVE FreshOK'
  BY <1>12 DEF RunCancelled
<1>13. ASSUME DataOK, ShapeOK, FreshOK, NEW w \in Workers, CallTimerFires(w) PROVE FreshOK'
  BY <1>13 DEF CallTimerFires
<1>14. ASSUME DataOK, ShapeOK, FreshOK, NEW w \in Workers, WorkerTakes(w) PROVE FreshOK'
  BY <1>14 DEF WorkerTakes
<1>15. ASSUME DataOK, ShapeOK, FreshOK, NEW w \in Workers, WorkerQuits(w) PROVE FreshOK'
  BY <1>15 DEF WorkerQuits
<1>16. ASSUME DataOK, ShapeOK, FreshOK, NEW w \in Workers, TemplateFails(w) PROVE FreshOK'
  BY <1>16 DEF TemplateFails, Record
<1>17. ASSUME DataOK, ShapeOK, FreshOK, NEW w \in Workers, CallBegins(w) PROVE FreshOK'
  BY <1>17 DEF CallBegins
<1>18. ASSUME DataOK, ShapeOK, FreshOK, NEW w \in Workers, ThinkEnds(w) PROVE FreshOK'
  BY <1>18 DEF ThinkEnds
<1>19. ASSUME DataOK, ShapeOK, FreshOK,
              NEW w \in Workers, NEW o \in Outcomes, CallReturns(w, o)
       PROVE  FreshOK'
  BY <1>19 DEF CallReturns, Record
<1>20. ASSUME DataOK, ShapeOK, FreshOK, UNCHANGED vars PROVE FreshOK'
  BY <1>20 DEF vars
<1> HIDE DEF DataOK, ShapeOK, FreshOK
<1> QED
  BY <1>1, <1>2, <1>3, <1>4, <1>5, <1>6, <1>7, <1>8, <1>9, <1>10, <1>11, <1>12,
     <1>13, <1>14, <1>15, <1>16, <1>17, <1>18, <1>19, <1>20
     DEF Next, MainStep, WorkerStep, Terminated, Outcomes

LEMMA PhaseBeginsAccounted ==
  ASSUME DataOK, HandsOK, RestOK, FreshOK, PhaseBegins
  PROVE  Accounted(iter)'
<1>1. /\ main = "begin" /\ jobs' = <<>> /\ iter' = 0
      /\ obs' = obs /\ wjob' = wjob /\ phase' = phase
  BY DEF PhaseBegins
<1>2. Len(jobs') = 0
  BY <1>1
<1>3. \A w \in Workers : wjob[w] = NoJob
  BY <1>1 DEF HandsOK, RestOK
<1>4. \A i \in Iters : Len(obs[phase][i]) = 0 /\ ~(i <= 0)
  <2> SUFFICES ASSUME NEW i \in Iters PROVE Len(obs[phase][i]) = 0 /\ ~(i <= 0)
    OBVIOUS
  <2>1. obs[phase][i] = <<>>
    BY <1>1 DEF FreshOK
  <2>2. i >= 1 /\ i \in Int
    BY WorkloadAssumption DEF Iters, Bound
  <2> QED
    BY <2>1, <2>2
<1> QED
  BY <1>1, <1>2, <1>3, <1>4 DEF Accounted

(* The budget and the whereabouts of the jobs, together.                   *)
JobsOK == CountOK /\ JobsAccounted

LEMMA JobsStep == DataOK /\ ShapeOK /\ FreshOK /\ JobsOK /\ [Next]_vars => JobsOK'
<1> USE WorkloadAssumption DEF DataOK, FreshOK, JobsOK, CountOK, JobsAccounted, Budget, Limited,
        Phases, mainVars, ctxVars, workerVars
<1>1. ASSUME DataOK, ShapeOK, FreshOK, JobsOK, PhaseBegins PROVE JobsOK'
  <2>1. Accounted(iter)'
    BY <1>1, PhaseBeginsAccounted DEF ShapeOK
  <2> QED
    BY <1>1, <2>1 DEF PhaseBegins, RestOK
<1>2. ASSUME DataOK, ShapeOK, FreshOK, JobsOK, LoopEnds PROVE JobsOK'
  <2>1. ASSUME NEW n PROVE Accounted(n)' <=> Accounted(n)
    BY <1>2, AccountedFrame DEF LoopEnds
  <2> QED
    BY <1>2, <2>1 DEF LoopEnds
<1>3. ASSUME DataOK, ShapeOK, FreshOK, JobsOK, LoopContinues PROVE JobsOK'
  <2>1. ASSUME NEW n PROVE Accounted(n)' <=> Accounted(n)
    BY <1>3, AccountedFrame DEF LoopContinues
  <2> QED
    BY <1>3, <2>1 DEF LoopContinues
<1>4. ASSUME DataOK, ShapeOK, FreshOK, JobsOK, TickerFires PROVE JobsOK'
  <2>1. ASSUME NEW n PROVE Accounted(n)' <=> Accounted(n)
    BY <1>4, AccountedFrame DEF TickerFires
  <2> QED
    BY <1>4, <2>1 DEF TickerFires
<1>5. ASSUME DataOK, ShapeOK, FreshOK, JobsOK, Tick PROVE JobsOK'
  <2>1. ASSUME NEW n PROVE Accounted(n)' <=> Accounted(n)
    BY <1>5, AccountedFrame DEF Tick
  <2> QED
    BY <1>5, <2>1 DEF Tick
<1>6. ASSUME DataOK, ShapeOK, FreshOK, JobsOK, Emit PROVE JobsOK'
  <2>1. Accounted(iter - 1)
    BY <1>6 DEF Emit
  <2>2. Accounted(iter)'
    BY <1>6, <2>1, EmitExtends
  <2> QED
    BY <1>6, <2>2 DEF Emit
<1>7. ASSUME DataOK, ShapeOK, FreshOK, JobsOK, Abandon PROVE JobsOK'
  <2>1. ASSUME NEW n PROVE Accounted(n)' <=> Accounted(n)
    BY <1>7, AccountedFrame DEF Abandon
  <2> QED
    BY <1>7, <2>1 DEF Abandon
<1>8. ASSUME DataOK, ShapeOK, FreshOK, JobsOK, CloseJobs PROVE JobsOK'
  <2>1. ASSUME NEW n PROVE Accounted(n)' <=> Accounted(n)
    BY <1>8, AccountedFrame DEF CloseJobs
  <2> QED
    BY <1>8, <2>1 DEF CloseJobs
<1>9. ASSUME DataOK, ShapeOK, FreshOK, JobsOK, Join PROVE JobsOK'
  <2>1. CASE phase = "warmup"
    BY <1>9, <2>1 DEF Join
  <2>2. CASE phase = "measure"
    <3>1. ASSUME NEW n PROVE Accounted(n)' <=> Accounted(n)
      BY <1>9, <2>2, AccountedFrame DEF Join
    <3> QED
      BY <1>9, <2>2, <3>1 DEF Join
  <2> QED
    BY <1>9, <2>1, <2>2
<1>10. ASSUME DataOK, ShapeOK, FreshOK, JobsOK, Cooldown PROVE JobsOK'
  <2>1. ASSUME NEW n PROVE Accounted(n)' <=> Accounted(n)
    BY <1>10, AccountedFrame DEF Cooldown
  <2> QED
    BY <1>10, <2>1 DEF Cooldown
<1>11. ASSUME DataOK, ShapeOK, FreshOK, JobsOK, PhaseExpires PROVE JobsOK'
  <2>1. ASSUME NEW n PROVE Accounted(n)' <=> Accounted(n)
    BY <1>11, AccountedFrame DEF PhaseExpires
  <2> QED
    BY <1>11, <2>1 DEF PhaseExpires
<1>12. ASSUME DataOK, ShapeOK, FreshOK, JobsOK, RunCancelled PROVE JobsOK'
  <2>1. ASSUME NEW n PROVE Accounted(n)' <=> Accounted(n)
    BY <1>12, AccountedFrame DEF RunCancelled
  <2> QED
    BY <1>12, <2>1 DEF RunCancelled
<1>13. ASSUME DataOK, ShapeOK, FreshOK, JobsOK,
              NEW w \in Workers, CallTimerFires(w)
       PROVE  JobsOK'
  <2>1. ASSUME NEW n PROVE Accounted(n)' <=> Accounted(n)
    BY <1>13, AccountedFrame DEF CallTimerFires
  <2> QED
    BY <1>13, <2>1 DEF CallTimerFires
<1>14. ASSUME DataOK, ShapeOK, FreshOK, JobsOK,
              NEW w \in Workers, WorkerTakes(w)
       PROVE  JobsOK'
  <2>1. ASSUME NEW n \in Int, Accounted(n) PROVE Accounted(n)'
    BY <1>14, <2>1, TakeKeeps DEF ShapeOK
  <2> QED
    BY <1>14, <2>1 DEF WorkerTakes
<1>15. ASSUME DataOK, ShapeOK, FreshOK, JobsOK,
              NEW w \in Workers, WorkerQuits(w)
       PROVE  JobsOK'
  <2>1. ASSUME NEW n PROVE Accounted(n)' <=> Accounted(n)
    BY <1>15, AccountedFrame DEF WorkerQuits
  <2> QED
    BY <1>15, <2>1 DEF WorkerQuits
<1>16. ASSUME DataOK, ShapeOK, FreshOK, JobsOK,
              NEW w \in Workers, TemplateFails(w)
       PROVE  JobsOK'
  <2>1. ASSUME NEW n \in Int, Accounted(n) PROVE Accounted(n)'
    BY <1>16, <2>1, RecordKeeps DEF ShapeOK, TemplateFails, Outcomes
  <2> QED
    BY <1>16, <2>1 DEF TemplateFails, Record
<1>17. ASSUME DataOK, ShapeOK, FreshOK, JobsOK,
              NEW w \in Workers, CallBegins(w)
       PROVE  JobsOK'
  <2>1. ASSUME NEW n PROVE Accounted(n)' <=> Accounted(n)
    BY <1>17, AccountedFrame DEF CallBegins
  <2> QED
    BY <1>17, <2>1 DEF CallBegins
<1>18. ASSUME DataOK, ShapeOK, FreshOK, JobsOK,
              NEW w \in Workers, ThinkEnds(w)
       PROVE  JobsOK'
  <2>1. ASSUME NEW n PROVE Accounted(n)' <=> Accounted(n)
    BY <1>18, AccountedFrame DEF ThinkEnds
  <2> QED
    BY <1>18, <2>1 DEF ThinkEnds
<1>19. ASSUME DataOK, ShapeOK, FreshOK, JobsOK,
              NEW w \in Workers, NEW o \in Outcomes, CallReturns(w, o)
       PROVE  JobsOK'
  <2>1. ASSUME NEW n \in Int, Accounted(n) PROVE Accounted(n)'
    BY <1>19, <2>1, RecordKeeps DEF ShapeOK, CallReturns, Outcomes
  <2> QED
    BY <1>19, <2>1 DEF CallReturns, Record
<1>20. ASSUME DataOK, ShapeOK, FreshOK, JobsOK, UNCHANGED vars PROVE JobsOK'
  <2>1. ASSUME NEW n PROVE Accounted(n)' <=> Accounted(n)
    BY <1>20, AccountedFrame DEF vars
  <2> QED
    BY <1>20, <2>1 DEF vars
<1> HIDE DEF DataOK, FreshOK, JobsOK
<1> QED
  BY <1>1, <1>2, <1>3, <1>4, <1>5, <1>6, <1>7, <1>8, <1>9, <1>10, <1>11, <1>12,
     <1>13, <1>14, <1>15, <1>16, <1>17, <1>18, <1>19, <1>20
     DEF Next, MainStep, WorkerStep, Terminated, Outcomes

Inv == TypeOK /\ ShapeOK /\ FreshOK /\ JobsOK

LEMMA InitInv == Init => Inv
<1> SUFFICES ASSUME Init PROVE Inv
  OBVIOUS
<1> USE DEF Init
<1>1. FlagsOK
  BY Zenon DEF FlagsOK
<1>2. DataOK
  <2>1. obs \in [Phases -> [Iters -> Seq(Outcomes)]]
    OBVIOUS
  <2> QED
    BY <2>1, WorkloadAssumption DEF DataOK, Phases, Bound
<1>3. ShapeOK
  BY DEF ShapeOK, HandsOK, RestOK, DrainedOK
<1>4. FreshOK
  BY DEF FreshOK, Phases
<1>5. JobsOK
  BY DEF JobsOK, CountOK, JobsAccounted
<1> QED
  BY <1>1, <1>2, <1>3, <1>4, <1>5 DEF Inv, TypeOK

LEMMA InvHolds == Spec => []Inv
<1>1. Inv /\ [Next]_vars => Inv'
  BY DataStep, FlagsStep, ShapeStep, FreshStep, JobsStep DEF Inv, TypeOK, ShapeOK, JobsOK
<1> QED
  BY InitInv, <1>1, PTL DEF Spec

(* Every variable keeps its type: no job is numbered past the budget.      *)
THEOREM TypeCorrect == Spec => []TypeOK
<1>1. Inv => TypeOK
  BY DEF Inv
<1> QED
  BY InvHolds, <1>1, PTL

(* No job is lost, taken by two workers, or recorded twice, in any run of  *)
(* any number of workers, cancelled or not.                                *)
THEOREM JobsKept == Spec => []JobsAccounted
<1>1. Inv => JobsAccounted
  BY DEF Inv, JobsOK
<1> QED
  BY InvHolds, <1>1, PTL

(* A budget of requests is measured exactly: after an uncancelled run each *)
(* request has one observation and there is no other.                      *)
THEOREM BudgetKept == Spec => []BudgetMeasured
<1>1. Inv => BudgetMeasured
  <2> SUFFICES ASSUME Inv, main \in {"cooldown", "returned"}, Requests > 0, ~ctxDone
               PROVE  \A i \in Iters : Len(obs["measure"][i]) = (IF i <= Requests THEN 1 ELSE 0)
    BY DEF BudgetMeasured
  <2> USE DEF Inv, ShapeOK, JobsOK
  <2>1. phase = "measure" /\ Limited /\ ~phaseDone
    BY DEF FreshOK, Limited, DrainedOK
  <2>2. iter = Requests /\ Accounted(iter)
    BY <2>1 DEF CountOK
  <2>3. jobs = <<>> /\ \A w \in Workers : wjob[w] = NoJob
    BY <2>1, WorkersAssumption DEF RestOK, DrainedOK, HandsOK
  <2>4. iter - Len(jobs) = Requests
    BY <2>2, <2>3, WorkloadAssumption
  <2>5. \A i \in Iters : ~Held(i)
    BY <2>3, WorkloadAssumption DEF Held, Iters, Bound
  <2> QED
    BY <2>1, <2>2, <2>4, <2>5 DEF Accounted
<1> QED
  BY InvHolds, <1>1, PTL
==============================================================================
