--------------------------- MODULE RunCommandProofs ---------------------------
(***************************************************************************)
(* Proofs about RunCommand, for any number of workers, any workload, mix   *)
(* of tools and errors of calls: what is proved of the orchestrator and of *)
(* the aggregator holds of the command that composes them, and its report  *)
(* and exit code tell what happened.                                       *)
(***************************************************************************)
EXTENDS RunCommandProps, OrchestratorProofs, SetTheorems

(* The theorems about the aggregator, of the one that the command has.     *)
AP == INSTANCE AggregatorProofs WITH pc <- rpc, Durations <- {0}, Size <- 1, MaxRecords <- Bound + MaxIter,
        Errs <- {<<>>, <<"TimeoutError", "deadline">>, <<"TemplateError", "plain">>} \cup CallErrs

-----------------------------------------------------------------------------
(* The composition only restricts the orchestrator: each step of the       *)
(* command is one of it, or leaves its variables alone.                    *)
LEMMA OrchestratorStep == [RunNext]_allVars => [Next]_vars
<1>1. ASSUME NEW w \in Workers, Fails(w) \/ TimesOut(w) \/ Succeeds(w) \/ CallFails(w)
      PROVE  Next
  BY <1>1 DEF Fails, TimesOut, Succeeds, CallFails, Next, WorkerStep, Outcomes
<1>2. ASSUME NEW w \in Workers, Proceeds(w)
      PROVE  Next
  BY <1>2 DEF Proceeds, Next, WorkerStep
<1>3. ASSUME NEW w \in Workers, Draws(w) \/ AggStep(w)
      PROVE  UNCHANGED vars
  BY <1>3 DEF Draws, AggStep
<1>4. ASSUME NEW w \in Workers, Timer(w)
      PROVE  Next
  BY <1>4 DEF Timer, Next
<1>5. ASSUME RunMain \/ Ticker \/ PhaseTimer \/ Interrupt
      PROVE  Next
  BY <1>5 DEF RunMain, Ticker, PhaseTimer, Interrupt, Next
<1>6. ASSUME CmdStep \/ Exited \/ UNCHANGED allVars
      PROVE  UNCHANGED vars
  BY <1>6, Zenon DEF CmdStep, Summarizes, FormatRefused, FormatParsed, CreateFails, Created, Written,
     WriteFails, Closes, Exited, allVars
<1> QED
  BY <1>1, <1>2, <1>3, <1>4, <1>5, <1>6 DEF RunNext, WorkStep

THEOREM RunsTheOrchestrator == RunSpec => Spec
<1>1. RunInit => Init
  BY DEF RunInit
<1> QED
  BY <1>1, OrchestratorStep, PTL DEF RunSpec, Spec

(* So what holds of the orchestrator holds of a run of the command.        *)
LEMMA OrchestratorHolds == RunSpec => []Inv
  BY RunsTheOrchestrator, InvHolds, PTL

(* JobsAccounted and BudgetMeasured: however the recording of observations *)
(* delays the workers, no job is lost or recorded twice, and the budget is *)
(* measured.                                                               *)
THEOREM CommandKeepsJobs == RunSpec => [](JobsAccounted /\ BudgetMeasured)
  BY RunsTheOrchestrator, JobsKept, BudgetKept, PTL

-----------------------------------------------------------------------------
(* The steps of the command, by what they change.  A worker observes when  *)
(* its job ends: it gives back its tool and begins to record.              *)
Errors == {<<>>, <<"TimeoutError", "deadline">>, <<"TemplateError", "plain">>} \cup CallErrs

Observes(w, o, err) ==
  /\ wpc[w] \in {"rendering", "calling"} /\ wtool[w] # None
  /\ Record(w, o) /\ Records(w, err) /\ Puts(w)
  /\ UNCHANGED <<mainVars, ctxVars, jobs, cmdVars>>

(* Run, the timers and the signal while the workers stay where they are.   *)
Aside == UNCHANGED <<aggVars, pickVars, cmdVars>>
Quiet == /\ UNCHANGED <<phase, wpc, wjob, obs>> /\ Aside
         /\ main = "returned" => main' = "returned"

LEMMA RunSteps ==
  ASSUME HoldsOK, [RunNext]_allVars
  PROVE  \/ \E w \in Workers : \/ Draws(w) \/ Proceeds(w) \/ AggStep(w)
                               \/ \E o \in Outcomes, err \in Errors :
                                    (o = "ok" <=> err = <<>>) /\ Observes(w, o, err)
         \/ PhaseBegins /\ Aside
         \/ Join /\ Aside
         \/ Quiet
         \/ CmdStep
         \/ UNCHANGED allVars
<1>1. ASSUME NEW w \in Workers, Fails(w)
      PROVE  Observes(w, "error", <<"TemplateError", "plain">>)
  BY <1>1 DEF Fails, TemplateFails, Observes
<1>2. ASSUME NEW w \in Workers, TimesOut(w)
      PROVE  Observes(w, "timeout", <<"TimeoutError", "deadline">>)
  BY <1>2 DEF TimesOut, CallReturns, Observes, HoldsOK
<1>3. ASSUME NEW w \in Workers, Succeeds(w)
      PROVE  Observes(w, "ok", <<>>)
  BY <1>3 DEF Succeeds, CallReturns, Observes, HoldsOK
<1>4. ASSUME NEW w \in Workers, CallFails(w)
      PROVE  \E err \in CallErrs : Observes(w, "error", err)
  BY <1>4 DEF CallFails, CallReturns, Observes, HoldsOK
<1>5. ASSUME NEW w \in Workers, Timer(w)
      PROVE  Quiet
  BY <1>5 DEF Timer, CallTimerFires, Quiet, Aside, mainVars
<1>6. ASSUME Ticker \/ PhaseTimer \/ Interrupt
      PROVE  Quiet
  BY <1>6 DEF Ticker, PhaseTimer, Interrupt, TickerFires, PhaseExpires, RunCancelled,
     Quiet, Aside, mainVars, workerVars
<1>7. ASSUME RunMain
      PROVE  (PhaseBegins \/ Join \/ Quiet) /\ Aside
  BY <1>7 DEF RunMain, MainStep, LoopEnds, LoopContinues, Tick, Emit, Abandon, CloseJobs, Cooldown,
     Quiet, Aside, workerVars
<1>8. Exited => UNCHANGED allVars
  BY DEF Exited
<1>9. /\ <<>> \in Errors /\ <<"TimeoutError", "deadline">> \in Errors
      /\ <<"TemplateError", "plain">> \in Errors /\ CallErrs \subseteq Errors
      /\ <<>> \notin CallErrs /\ <<"TimeoutError", "deadline">> # <<>>
      /\ <<"TemplateError", "plain">> # <<>>
      /\ "ok" \in Outcomes /\ "timeout" \in Outcomes /\ "error" \in Outcomes
  BY CallErrsAssumption DEF Errors, Outcomes
<1>10. ASSUME NEW w \in Workers, Fails(w) \/ TimesOut(w) \/ Succeeds(w) \/ CallFails(w)
       PROVE  \E o \in Outcomes, err \in Errors : (o = "ok" <=> err = <<>>) /\ Observes(w, o, err)
  <2>1. CASE Fails(w)
    BY <1>1, <1>9, <2>1
  <2>2. CASE TimesOut(w)
    BY <1>2, <1>9, <2>2
  <2>3. CASE Succeeds(w)
    BY <1>3, <1>9, <2>3
  <2>4. CASE CallFails(w)
    BY <1>4, <1>9, <2>4
  <2> QED
    BY <1>10, <2>1, <2>2, <2>3, <2>4
<1> QED
  BY <1>5, <1>6, <1>7, <1>8, <1>10 DEF RunNext, WorkStep

-----------------------------------------------------------------------------
(* The aggregator of the command is one of module Aggregator: its          *)
(* critical sections are, and the observations are of its types.           *)
LEMMA AggAssumptions ==
  /\ 1 \in Nat \ {0} /\ Bound + MaxIter \in Nat
  /\ None \notin Nat /\ None \notin Tools
  /\ AP!IsFiniteSet(Workers) /\ AP!IsFiniteSet(Tools)
  /\ {<<>>, <<"TimeoutError", "deadline">>, <<"TemplateError", "plain">>} \cup CallErrs
       \subseteq Seq(AP!Links)
<1>1. Bound \in Nat
  BY WorkloadAssumption DEF Bound
<1>2. Errors \subseteq Seq(Links)
  <2>1. \A a, b \in Links : <<a, b>> \in Seq(Links)
    OBVIOUS
  <2>2. <<>> \in Seq(Links)
    OBVIOUS
  <2>3. /\ "TimeoutError" \in Links /\ "deadline" \in Links
        /\ "TemplateError" \in Links /\ "plain" \in Links
    BY DEF Links
  <2> QED
    BY <2>1, <2>2, <2>3, CallErrsAssumption DEF Errors
<1>3. AP!Links = Links
  BY DEF AP!Links, Links, AP!Codes, Codes
<1>4. \A S : AP!IsFiniteSet(S) <=> IsFiniteSet(S)
  BY DEF AP!IsFiniteSet, IsFiniteSet
<1> QED
  BY <1>1, <1>2, <1>3, <1>4, WorkloadAssumption, WorkersAssumption, NamesAssumption DEF Errors

LEMMA AggSections ==
  /\ Agg!Init => AP!Init
  /\ \A w, o : Agg!RecordBegins(w, o) <=> AP!RecordBegins(w, o)
  /\ \A w : Agg!RecordStep(w) <=> AP!RecordStep(w)
<1> USE DEF Agg!Codes, AP!Codes, Agg!Categories, AP!Categories
<1>1. Agg!NewToolStats = AP!NewToolStats
  BY DEF Agg!NewToolStats, AP!NewToolStats
<1>2. Agg!Init => AP!Init
  BY <1>1 DEF Agg!Init, AP!Init
<1>3. \A w, o : Agg!RecordBegins(w, o) <=> AP!RecordBegins(w, o)
  BY Zenon DEF Agg!RecordBegins, AP!RecordBegins
<1>4. \A w : Agg!Creates(w) <=> AP!Creates(w)
  BY <1>1, Zenon DEF Agg!Creates, AP!Creates
<1>5. \A r, d : Agg!Insert(r, d) = AP!Insert(r, d)
  BY DEF Agg!Insert, AP!Insert
<1>6. \A w : Agg!Inserts(w) <=> AP!Inserts(w)
  BY <1>5 DEF Agg!Inserts, AP!Inserts
<1>7. \A err : /\ Agg!Classify(err) = AP!Classify(err)
               /\ Agg!CountedCodes(err) = AP!CountedCodes(err)
  <2>1. Agg!Rules = AP!Rules
    BY DEF Agg!Rules, AP!Rules
  <2>2. \A S : Agg!Min(S) = AP!Min(S)
    BY DEF Agg!Min, AP!Min
  <2>3. \A err, links : Agg!Has(err, links) <=> AP!Has(err, links)
    BY DEF Agg!Has, AP!Has
  <2>4. \A err : Agg!Hits(err) = AP!Hits(err)
    BY <2>1, <2>3 DEF Agg!Hits, AP!Hits
  <2>5. \A err : Agg!Classify(err) = AP!Classify(err)
    BY <2>1, <2>2, <2>4 DEF Agg!Classify, AP!Classify
  <2> QED
    BY <2>2, <2>5 DEF Agg!CountedCodes, AP!CountedCodes
<1>8. \A s, err : Agg!CountIn(s, err) = AP!CountIn(s, err)
  BY <1>7 DEF Agg!CountIn, AP!CountIn
<1>9. \A w : Agg!Tallies(w) <=> AP!Tallies(w)
  BY <1>8 DEF Agg!Tallies, AP!Tallies, Agg!Overall, AP!Overall
<1> QED
  BY <1>2, <1>3, <1>4, <1>6, <1>9 DEF Agg!RecordStep, AP!RecordStep

LEMMA ObservationType ==
  ASSUME RunTypeOK, NEW w \in Workers, wtool[w] # None, NEW err \in Errors
  PROVE  [tool |-> wtool[w], dur |-> 0, err |-> err] \in AP!Observations
BY DEF RunTypeOK, AP!Observations, Errors

LEMMA AggregatorStep == RunTypeOK /\ [RunNext]_allVars => [AP!Next]_(AP!vars)
<1> SUFFICES ASSUME RunTypeOK, [RunNext]_allVars PROVE AP!Next \/ UNCHANGED AP!vars
  OBVIOUS
<1>1. UNCHANGED aggVars => UNCHANGED AP!vars
  BY DEF aggVars, AP!vars
<1>2. ASSUME NEW w \in Workers, NEW o \in Outcomes, NEW err \in Errors, Observes(w, o, err)
      PROVE  AP!Next \/ UNCHANGED AP!vars
  <2>1. CASE UNCHANGED aggVars
    BY <1>1, <2>1
  <2>2. CASE Agg!RecordBegins(w, [tool |-> wtool[w], dur |-> 0, err |-> err])
    <3>1. wtool[w] # None
      BY <1>2 DEF Observes
    <3> QED
      BY <2>2, <3>1, ObservationType, AggSections DEF AP!Next
  <2> QED
    BY <1>2, <2>1, <2>2 DEF Observes, Records
<1>3. ASSUME NEW w \in Workers, AggStep(w)
      PROVE  AP!Next
  BY <1>3, AggSections DEF AggStep, AP!Next
<1>4. ASSUME NEW w \in Workers, Draws(w) \/ Proceeds(w)
      PROVE  UNCHANGED aggVars
  BY <1>4 DEF Draws, Proceeds
<1>5. CmdStep => UNCHANGED aggVars
  BY Zenon DEF CmdStep, Summarizes, FormatRefused, FormatParsed, CreateFails, Created, Written,
     WriteFails, Closes
<1>6. UNCHANGED allVars => UNCHANGED aggVars
  BY DEF allVars
<1>7. Aside => UNCHANGED aggVars
  BY DEF Aside
<1>8. HoldsOK
  BY DEF RunTypeOK
<1> QED
  BY <1>1, <1>2, <1>3, <1>4, <1>5, <1>6, <1>7, <1>8, RunSteps DEF Quiet

-----------------------------------------------------------------------------
(* Where the workers are: what they hold fits where they stand.            *)
LEMMA HoldsStep ==
  ASSUME Inv, RunTypeOK, AP!TypeOK, [RunNext]_allVars
  PROVE  HoldsOK'
<1> USE DEF HoldsOK
<1>1. /\ wpc \in [Workers -> {"selecting", "rendering", "calling", "thinking", "exited"}]
      /\ wtool \in [Workers -> Tools \cup {None}] /\ HoldsOK
      /\ DOMAIN rpc = Workers /\ None \notin Tools
  BY NamesAssumption DEF Inv, TypeOK, DataOK, RunTypeOK, AP!TypeOK
<1>2. ASSUME NEW w \in Workers, Draws(w)
      PROVE  HoldsOK'
  BY <1>1, <1>2 DEF Draws, vars, workerVars, aggVars, mainVars
<1>3. ASSUME NEW w \in Workers, Proceeds(w)
      PROVE  HoldsOK'
  BY <1>1, <1>3 DEF Proceeds, Free, WorkerTakes, WorkerQuits, ThinkEnds, CallBegins,
     mainVars, aggVars, pickVars
<1>4. ASSUME NEW w \in Workers, AggStep(w)
      PROVE  HoldsOK'
  <2>1. UNCHANGED <<wpc, wtool, phase>> /\ AP!RecordStep(w)
    BY <1>4, AggSections DEF AggStep, vars, workerVars, mainVars, pickVars
  <2>2. rpc[w] # "idle" /\ \A v \in Workers \ {w} : rpc'[v] = rpc[v]
    BY <1>1, <2>1 DEF AP!RecordStep, AP!Creates, AP!Inserts, AP!Tallies
  <2> QED
    BY <1>1, <2>1, <2>2
<1>5. ASSUME NEW w \in Workers, NEW o \in Outcomes, NEW err \in Errors, Observes(w, o, err)
      PROVE  HoldsOK'
  <2>1. /\ wpc' = [wpc EXCEPT ![w] = IF o = "ok" /\ Think THEN "thinking" ELSE "selecting"]
        /\ wtool' = [wtool EXCEPT ![w] = None] /\ phase' = phase
    BY <1>5 DEF Observes, Record, Puts, mainVars
  <2>2. \A v \in Workers \ {w} : rpc'[v] = rpc[v]
    BY <1>1, <1>5, AggSections DEF Observes, Records, AP!RecordBegins, aggVars
  <2>3. rpc'[w] # "idle" => phase = "measure"
    BY <1>1, <1>5, AggSections DEF Observes, Records, aggVars
  <2> QED
    BY <1>1, <2>1, <2>2, <2>3
<1>6. PhaseBegins /\ Aside => HoldsOK'
  BY <1>1 DEF PhaseBegins, Aside, aggVars, pickVars, Inv, ShapeOK, RestOK
<1>7. Join /\ Aside => HoldsOK'
  BY <1>1 DEF Join, Aside, aggVars, pickVars, workerVars
<1>8. Quiet => HoldsOK'
  BY <1>1 DEF Quiet, Aside, aggVars, pickVars
<1>9. CmdStep => UNCHANGED <<vars, aggVars, pickVars>>
  BY Zenon DEF CmdStep, Summarizes, FormatRefused, FormatParsed, CreateFails, Created, Written,
     WriteFails, Closes
<1>10. UNCHANGED <<vars, aggVars, pickVars>> => HoldsOK'
  BY <1>1 DEF vars, aggVars, pickVars, mainVars, workerVars
<1>11. UNCHANGED allVars => UNCHANGED <<vars, aggVars, pickVars>>
  BY DEF allVars
<1> HIDE DEF HoldsOK
<1> QED
  BY <1>1, <1>2, <1>3, <1>4, <1>5, <1>6, <1>7, <1>8, <1>9, <1>10, <1>11, RunSteps

-----------------------------------------------------------------------------
(* Once the orchestrator has returned nobody records: what the report was  *)
(* made of stays.                                                          *)
LEMMA ReturnedStays ==
  ASSUME Inv, HoldsOK, [RunNext]_allVars, main = "returned"
  PROVE  main' = "returned" /\ UNCHANGED <<aggVars, pickVars, phase, obs>>
<1>1. \A w \in Workers : wpc[w] = "exited" /\ rpc[w] = "idle"
  BY DEF Inv, ShapeOK, RestOK, HoldsOK
<1>2. ASSUME NEW w \in Workers
      PROVE  /\ ~Draws(w) /\ ~Proceeds(w) /\ ~AggStep(w)
             /\ \A o, err : ~Observes(w, o, err)
  <2>1. ~AggStep(w)
    BY <1>1 DEF AggStep, Agg!RecordStep, Agg!Creates, Agg!Inserts, Agg!Tallies
  <2> QED
    BY <1>1, <2>1 DEF Draws, Proceeds, Observes, WorkerTakes, WorkerQuits, ThinkEnds, CallBegins
<1>3. ~PhaseBegins /\ ~Join
  BY DEF PhaseBegins, Join
<1>4. CmdStep => UNCHANGED <<vars, aggVars, pickVars>>
  BY Zenon DEF CmdStep, Summarizes, FormatRefused, FormatParsed, CreateFails, Created, Written,
     WriteFails, Closes
<1>5. UNCHANGED allVars => UNCHANGED <<vars, aggVars, pickVars>>
  BY DEF allVars
<1> QED
  BY <1>2, <1>3, <1>4, <1>5, RunSteps DEF Quiet, Aside, vars, mainVars

LEMMA StagesStep ==
  ASSUME Inv, RunTypeOK, [RunNext]_allVars
  PROVE  StagesOK'
<1>1. StagesOK /\ HoldsOK
  BY DEF RunTypeOK
<1>2. None # 0 /\ None # 1
  BY NamesAssumption
<1>3. cmd # "running" => main' = "returned" /\ UNCHANGED <<stats, tools>>
  BY <1>1, ReturnedStays DEF StagesOK, aggVars
<1>4. UNCHANGED cmdVars => StagesOK'
  BY <1>1, <1>3 DEF StagesOK, cmdVars
<1>5. CmdStep => UNCHANGED <<main, stats, tools>>
  BY Zenon DEF CmdStep, Summarizes, FormatRefused, FormatParsed, CreateFails, Created, Written,
     WriteFails, Closes, vars, mainVars, aggVars
<1>6. CmdStep => StagesOK'
  <2> DEFINE all == SummarizeAll(stats, tools)
  <2>1. CmdStep => all' = all
    BY <1>5
  <2>2. StagesOK' <=>
          /\ cmd' = "running" => summary' = None
          /\ cmd' # "running" => main' = "returned" /\ summary' = all'
          /\ open' <=> cmd' # "exited"
          /\ code' = None <=> cmd' \in {"running", "format", "create", "write"}
          /\ code' = 0 /\ format' # "prom" => output' = "whole"
    BY DEF StagesOK
  <2>3. Summarizes => summary' = all
    BY DEF Summarizes
  <2>4. cmd # "running" => summary = all
    BY <1>1 DEF StagesOK
  <2> HIDE DEF all
  <2> QED
    BY <1>1, <1>2, <1>5, <2>1, <2>2, <2>3, <2>4 DEF StagesOK, CmdStep, Summarizes, FormatRefused,
       FormatParsed, CreateFails, Created, Written, WriteFails, Closes, Moves, Exits
<1>7. \/ UNCHANGED cmdVars \/ CmdStep
  <2>1. ASSUME NEW w \in Workers, Draws(w) \/ Proceeds(w) \/ AggStep(w)
        PROVE  UNCHANGED cmdVars
    BY <2>1 DEF Draws, Proceeds, AggStep
  <2> QED
    BY <1>1, <2>1, RunSteps DEF Observes, Quiet, Aside, allVars
<1> QED
  BY <1>4, <1>6, <1>7

-----------------------------------------------------------------------------
(* A job in the hands of a worker has no observation, and no other worker. *)
LEMMA InHand ==
  ASSUME Inv, NEW w \in Workers, wpc[w] \in {"rendering", "calling"}
  PROVE  /\ wjob[w] \in Iters /\ wjob[w] # NoJob /\ obs[phase][wjob[w]] = <<>>
         /\ \A v \in Workers : wjob[v] = wjob[w] => v = w
<1> USE DEF Inv, TypeOK, ShapeOK, JobsOK
<1>1. wjob[w] \in Iters /\ wjob[w] # NoJob
  BY WorkloadAssumption DEF DataOK, HandsOK, Iters, Bound
<1>2. main \in {"loop", "tick", "emit", "close", "join"}
  BY DEF DataOK, RestOK
<1>3. PICK n : Accounted(n)
  BY <1>2 DEF JobsAccounted
<1>4. Held(wjob[w])
  BY DEF Held
<1>5. Len(obs[phase][wjob[w]]) = 0
  BY <1>1, <1>3, <1>4 DEF Accounted
<1>6. obs[phase][wjob[w]] \in Seq(Outcomes)
  BY <1>1 DEF DataOK
<1> QED
  BY <1>1, <1>3, <1>5, <1>6 DEF Accounted

(* The jobs of a phase are within its budget.                              *)
LEMMA WithinBudget ==
  ASSUME Inv
  PROVE  /\ Budget \in Nat /\ Budget <= Bound /\ Drawing \subseteq 1..Budget
         /\ Noted(phase) \subseteq 1..Budget
<1> USE DEF Inv, TypeOK, ShapeOK, JobsOK
<1>1. Budget \in Nat /\ Budget <= Bound /\ iter \in Nat /\ Iters = 1..Bound
  BY WorkloadAssumption DEF Budget, Bound, Iters, DataOK
<1>2. CASE main = "begin"
  <2>1. Noted(phase) = {}
    BY <1>2 DEF FreshOK, Noted
  <2>2. Drawing = {}
    BY <1>2, WorkloadAssumption DEF RestOK, HandsOK, Drawing, Iters, Bound
  <2> QED
    BY <1>1, <2>1, <2>2
<1>3. CASE main # "begin"
  <2>1. iter <= Budget
    BY <1>3 DEF CountOK
  <2>2. PICK n \in {iter, iter - 1} : Accounted(n)
    BY <1>3 DEF JobsAccounted, DataOK
  <2>3. n - Len(jobs) <= Budget
    <3>1. Len(jobs) \in Nat
      BY DEF DataOK
    <3> QED
      BY <1>1, <2>1, <2>2, <3>1
  <2>4. n - Len(jobs) \in Int
    BY <1>1, <2>2 DEF DataOK
  <2>5. ASSUME NEW i \in Noted(phase)
        PROVE  i \in 1..Budget
    <3>1. i \in Iters /\ Len(obs[phase][i]) # 0
      BY DEF Noted, DataOK
    <3>2. i <= n - Len(jobs)
      BY <2>2, <3>1 DEF Accounted
    <3> HIDE DEF Inv
    <3> QED
      BY <1>1, <2>3, <2>4, <3>1, <3>2
  <2>6. ASSUME NEW i \in Drawing
        PROVE  i \in 1..Budget
    <3>1. PICK w \in Workers : wjob[w] = i /\ i \in Iters
      BY DEF Drawing
    <3>2. i # NoJob
      BY <3>1, WorkloadAssumption DEF Iters, Bound
    <3>3. i <= n - Len(jobs)
      BY <2>2, <3>1, <3>2 DEF Accounted
    <3> HIDE DEF Inv
    <3> QED
      BY <1>1, <2>3, <2>4, <3>1, <3>3
  <2> QED
    BY <1>1, <2>5, <2>6
<1> QED
  BY <1>2, <1>3

LEMMA TouchedBounds ==
  ASSUME Inv
  PROVE  /\ IsFiniteSet(Touched) /\ Cardinality(Touched) \in 0..Budget
         /\ Budget \in Nat /\ Budget <= Bound
<1>1. /\ Touched \subseteq 1..Budget /\ Budget \in Nat /\ Budget <= Bound
  BY WithinBudget DEF Touched
<1>2. IsFiniteSet(1..Budget) /\ Cardinality(1..Budget) = Budget
  BY <1>1, FS_Interval
<1>3. /\ IsFiniteSet(Touched) /\ Cardinality(Touched) <= Cardinality(1..Budget)
  BY <1>1, <1>2, FS_Subset
<1>4. Cardinality(Touched) \in Nat
  BY <1>3, FS_CardinalityType
<1> QED
  BY <1>1, <1>2, <1>3, <1>4

(* A draw gives a tool to a job that had none, and there is one to give.   *)
LEMMA DrawTouches ==
  ASSUME Inv, RunTypeOK, NEW w \in Workers, Draws(w)
  PROVE  /\ drawn + 1 <= Len(Mix) /\ Mix[drawn + 1] \in Tools
         /\ Drawing' = Drawing \cup {wjob[w]} /\ wjob[w] \in Iters /\ Touched' = Touched \cup {wjob[w]}
         /\ Cardinality(Touched') = Cardinality(Touched) + 1
<1> DEFINE i == wjob[w]
           all == Touched \cup {i}
<1>1. /\ i \in Iters /\ i # NoJob /\ obs[phase][i] = <<>> /\ \A v \in Workers : wjob[v] = i => v = w
      /\ wpc[w] = "rendering" /\ wtool[w] = None
  BY InHand DEF Draws
<1>2. i \notin Touched
  BY <1>1 DEF Touched, Noted, Drawing
<1>3. i \in 1..Budget
  <2>1. main # "begin"
    BY <1>1 DEF Inv, ShapeOK, RestOK
  <2>2. iter <= Budget
    BY <2>1 DEF Inv, JobsOK, CountOK
  <2>3. PICK n \in {iter, iter - 1} : Accounted(n)
    BY <2>1 DEF Inv, JobsOK, JobsAccounted, TypeOK, DataOK
  <2>4. i <= n - Len(jobs) /\ Len(jobs) \in Nat /\ iter \in Nat
    BY <1>1, <2>3, WorkloadAssumption DEF Accounted, Inv, TypeOK, DataOK, Bound
  <2>5. i \in Nat /\ i >= 1
    BY <1>1, WorkloadAssumption DEF Iters, Bound
  <2>6. Budget \in Nat
    BY WithinBudget
  <2> HIDE DEF i
  <2> QED
    BY <2>2, <2>3, <2>4, <2>5, <2>6
<1>4. /\ IsFiniteSet(Touched) /\ Cardinality(Touched) \in Nat
      /\ Cardinality(all) = Cardinality(Touched) + 1
  BY <1>2, TouchedBounds, OneMore
<1>5. Cardinality(all) <= Budget
  <2>1. all \subseteq 1..Budget /\ Budget \in Nat
    BY <1>3, WithinBudget DEF Touched
  <2>2. IsFiniteSet(1..Budget) /\ Cardinality(1..Budget) = Budget
    BY <2>1, FS_Interval
  <2> QED
    BY <2>1, <2>2, FS_Subset
<1>6. drawn + 1 <= Len(Mix) /\ drawn \in Nat
  <2>1. /\ Bound \in Nat /\ MaxIter \in Nat /\ Len(Mix) \in Nat /\ Len(Mix) >= Bound + MaxIter
        /\ drawn \in Nat /\ skipped \in Nat
    BY WorkloadAssumption, MixAssumption DEF Bound, RunTypeOK
  <2>2. Budget \in Nat /\ Budget <= Bound /\ (phase = "warmup" => Budget = MaxIter)
    BY WithinBudget DEF Budget, Limited
  <2>3. CASE phase = "warmup"
    BY <1>4, <1>5, <2>1, <2>2, <2>3 DEF RunTypeOK, DrawnOK
  <2>4. CASE phase = "measure"
    BY <1>4, <1>5, <2>1, <2>2, <2>4 DEF RunTypeOK, DrawnOK
  <2> QED
    BY <2>3, <2>4 DEF Inv, TypeOK, DataOK, Phases
<1>7. Mix[drawn + 1] \in Tools /\ Mix[drawn + 1] # None
  BY <1>6, MixAssumption, NamesAssumption
<1>8. /\ wtool' = [wtool EXCEPT ![w] = Mix[drawn + 1]] /\ UNCHANGED <<wjob, obs, phase>>
      /\ wtool \in [Workers -> Tools \cup {None}]
  BY DEF Draws, vars, workerVars, mainVars, RunTypeOK
<1>9. Drawing' = Drawing \cup {i}
  BY <1>1, <1>7, <1>8 DEF Drawing
<1>10. Touched' = all
  BY <1>8, <1>9 DEF Touched, Noted
<1> QED
  BY <1>1, <1>4, <1>6, <1>7, <1>9, <1>10

(* A job that is observed keeps its tool, in the count of what was drawn.  *)
LEMMA ObserveTouches ==
  ASSUME Inv, RunTypeOK, NEW w \in Workers, NEW o \in Outcomes, NEW err, Observes(w, o, err)
  PROVE  /\ obs'[phase] = [obs[phase] EXCEPT ![wjob[w]] = <<o>>]
         /\ \A p \in Phases : p # phase => obs'[p] = obs[p]
         /\ phase' = phase /\ Touched' = Touched
<1> DEFINE i == wjob[w]
<1>1. /\ i \in Iters /\ i # NoJob /\ obs[phase][i] = <<>> /\ \A v \in Workers : wjob[v] = i => v = w
      /\ wtool[w] # None
  BY InHand DEF Observes
<1>2. /\ obs' = [obs EXCEPT ![phase][i] = Append(@, o)] /\ wjob' = [wjob EXCEPT ![w] = NoJob]
      /\ wtool' = [wtool EXCEPT ![w] = None] /\ phase' = phase
  BY DEF Observes, Record, Puts, mainVars
<1>3. /\ obs \in [Phases -> [Iters -> Seq(Outcomes)]] /\ phase \in Phases
      /\ wjob \in [Workers -> Iters \cup {NoJob}]
      /\ wtool \in [Workers -> Tools \cup {None}]
  BY DEF Inv, TypeOK, DataOK, RunTypeOK
<1>4. Append(obs[phase][i], o) = <<o>>
  BY <1>1
<1>5. /\ obs'[phase] = [obs[phase] EXCEPT ![i] = <<o>>]
      /\ \A p \in Phases : p # phase => obs'[p] = obs[p]
  BY <1>1, <1>2, <1>3, <1>4
<1>6. Noted(phase)' = Noted(phase) \cup {i}
  <2>1. obs'[phase'][i] = <<o>> /\ \A j \in Iters \ {i} : obs'[phase'][j] = obs[phase][j]
    BY <1>1, <1>2, <1>3, <1>5
  <2>2. <<o>> # <<>>
    OBVIOUS
  <2> HIDE DEF i
  <2> QED
    BY <1>1, <2>1, <2>2 DEF Noted
<1>7. Drawing = Drawing' \cup {i}
  BY <1>1, <1>2, <1>3, NamesAssumption, WorkloadAssumption DEF Drawing, Iters, Bound
<1> QED
  BY <1>2, <1>5, <1>6, <1>7 DEF Touched

LEMMA DrawnStep ==
  ASSUME Inv, RunTypeOK, AP!TypeOK, [RunNext]_allVars
  PROVE  DrawnOK' /\ drawn' \in 0..Len(Mix) /\ skipped' \in 0..drawn'
         /\ wtool' \in [Workers -> Tools \cup {None}]
<1> DEFINE Goal == /\ DrawnOK' /\ drawn' \in 0..Len(Mix) /\ skipped' \in 0..drawn'
                   /\ wtool' \in [Workers -> Tools \cup {None}]
<1>1. /\ drawn \in 0..Len(Mix) /\ skipped \in 0..drawn /\ wtool \in [Workers -> Tools \cup {None}]
      /\ DrawnOK /\ HoldsOK /\ phase \in Phases /\ Len(Mix) \in Nat
      /\ wjob \in [Workers -> Iters \cup {NoJob}]
  BY MixAssumption DEF RunTypeOK, Inv, TypeOK, DataOK
<1>2. UNCHANGED <<pickVars, phase>> /\ Touched' = Touched => Goal
  BY <1>1 DEF DrawnOK, pickVars
<1>3. UNCHANGED <<pickVars, phase, obs, wjob>> => Goal
  <2>1. UNCHANGED <<pickVars, phase, obs, wjob>> => Touched' = Touched
    BY DEF Touched, Noted, Drawing, pickVars
  <2> QED
    BY <1>2, <2>1
<1>4. ASSUME NEW w \in Workers, Draws(w)
      PROVE  Goal
  <2>1. /\ drawn' = drawn + 1 /\ skipped' = (IF phase = "warmup" THEN drawn' ELSE skipped)
        /\ wtool' = [wtool EXCEPT ![w] = Mix[drawn + 1]] /\ phase' = phase
    BY <1>4 DEF Draws, vars, mainVars
  <2>2. /\ drawn + 1 <= Len(Mix) /\ Mix[drawn + 1] \in Tools
        /\ Cardinality(Touched') = Cardinality(Touched) + 1
    BY <1>4, DrawTouches
  <2>3. Cardinality(Touched) \in Nat
    BY TouchedBounds
  <2> QED
    BY <1>1, <2>1, <2>2, <2>3 DEF DrawnOK
<1>5. ASSUME NEW w \in Workers, NEW o \in Outcomes, NEW err, Observes(w, o, err)
      PROVE  Goal
  <2>1. Touched' = Touched /\ phase' = phase
    BY <1>5, ObserveTouches
  <2>2. wtool' = [wtool EXCEPT ![w] = None] /\ UNCHANGED <<drawn, skipped>>
    BY <1>5 DEF Observes, Puts
  <2> QED
    BY <1>1, <2>1, <2>2 DEF DrawnOK
<1>6. ASSUME NEW w \in Workers, Proceeds(w)
      PROVE  Goal
  <2>1. UNCHANGED <<pickVars, phase, obs>>
    BY <1>6 DEF Proceeds, WorkerTakes, WorkerQuits, ThinkEnds, CallBegins, mainVars
  <2>2. UNCHANGED wjob \/ (WorkerTakes(w) /\ wtool[w] = None)
    BY <1>1, <1>6 DEF Proceeds, WorkerTakes, WorkerQuits, ThinkEnds, CallBegins, HoldsOK
  <2>3. CASE UNCHANGED wjob
    BY <1>3, <2>1, <2>3
  <2>4. CASE WorkerTakes(w) /\ wtool[w] = None
    <3>1. wjob' = [wjob EXCEPT ![w] = Head(jobs)]
      BY <2>4 DEF WorkerTakes
    <3>2. Drawing' = Drawing
      BY <1>1, <2>1, <2>4, <3>1 DEF Drawing, pickVars
    <3> QED
      BY <1>2, <2>1, <3>2 DEF Touched, Noted
  <2> QED
    BY <2>2, <2>3, <2>4
<1>7. ASSUME Join, Aside
      PROVE  Goal
  <2>1. /\ \A w \in Workers : wpc[w] = "exited" /\ wtool[w] = None
        /\ phase' = "measure" /\ UNCHANGED <<pickVars, wjob, obs>>
    BY <1>1, <1>7 DEF Join, Aside, workerVars, HoldsOK
  <2>2. CASE phase = "measure"
    BY <1>3, <2>1, <2>2
  <2>3. CASE phase = "warmup"
    <3>1. Drawing' = {}
      BY <2>1 DEF Drawing, pickVars
    <3>2. Noted("measure")' = {}
      BY <2>1, <2>3 DEF Inv, FreshOK, Noted
    <3>3. Cardinality(Touched') = 0
      BY <2>1, <3>1, <3>2, FS_EmptySet DEF Touched, Noted
    <3>4. Cardinality(Touched) <= MaxIter
      BY <2>3, TouchedBounds DEF Budget, Limited
    <3> QED
      BY <1>1, <2>1, <2>3, <3>3, <3>4 DEF DrawnOK, pickVars
  <2> QED
    BY <1>1, <2>2, <2>3 DEF Phases
<1>8. PhaseBegins /\ Aside => Goal
  BY <1>3 DEF PhaseBegins, Aside
<1>9. ASSUME NEW w \in Workers, AggStep(w)
      PROVE  Goal
  BY <1>3, <1>9 DEF AggStep, vars, mainVars, workerVars
<1>10. Quiet => Goal
  BY <1>3 DEF Quiet, Aside
<1>11. CmdStep => UNCHANGED <<vars, aggVars, pickVars>>
  BY Zenon DEF CmdStep, Summarizes, FormatRefused, FormatParsed, CreateFails, Created, Written,
     WriteFails, Closes
<1>12. CmdStep \/ UNCHANGED allVars => Goal
  BY <1>3, <1>11 DEF allVars, vars, mainVars, workerVars
<1> HIDE DEF Goal
<1>13. Goal
  BY <1>1, <1>4, <1>5, <1>6, <1>7, <1>8, <1>9, <1>10, <1>12, RunSteps
<1> QED
  BY <1>13 DEF Goal

(* The variables of runExecute.                                            *)
CmdOK == /\ cmd \in {"running", "format", "create", "write", "close", "exited"}
         /\ output \in {"nothing", "part", "whole"}
         /\ format \in Formats \cup {None}
         /\ open \in BOOLEAN /\ code \in {0, 1, None}

LEMMA CmdStays ==
  ASSUME HoldsOK, CmdOK, [RunNext]_allVars
  PROVE  CmdOK'
<1>1. CmdStep => CmdOK'
  BY DEF CmdOK, CmdStep, Summarizes, FormatRefused, FormatParsed, CreateFails, Created, Written,
     WriteFails, Closes, Moves, Exits
<1>2. UNCHANGED cmdVars => CmdOK'
  BY Zenon DEF CmdOK, cmdVars
<1>3. ASSUME NEW w \in Workers, Draws(w) \/ Proceeds(w) \/ AggStep(w)
      PROVE  UNCHANGED cmdVars
  BY <1>3 DEF Draws, Proceeds, AggStep
<1> QED
  BY <1>1, <1>2, <1>3, RunSteps DEF Observes, Quiet, Aside, allVars

(* All that is invariant of the command and its parts, by induction.       *)
RunInv == Inv /\ RunTypeOK /\ AP!TypeOK

LEMMA RunStart == RunInit => RunInv
<1> SUFFICES ASSUME RunInit PROVE RunInv
  OBVIOUS
<1>1. Inv
  BY InitInv DEF RunInit
<1>2. AP!TypeOK
  BY AggSections, AggAssumptions, AP!TypeInit DEF RunInit
<1>3. HoldsOK
  <2>1. Agg!Init /\ Init /\ \A w \in Workers : wtool[w] = None
    BY DEF RunInit
  <2> QED
    BY <2>1 DEF Agg!Init, Init, HoldsOK
<1>4. Touched = {}
  <2>1. \A w \in Workers : wtool[w] = None
    BY DEF RunInit
  <2>2. \A p \in Phases, i \in Iters : obs[p][i] = <<>>
    BY DEF RunInit, Init
  <2>3. phase \in Phases
    BY DEF RunInit, Init, Phases
  <2> QED
    BY <2>1, <2>2, <2>3 DEF Touched, Noted, Drawing
<1>5. DrawnOK /\ drawn \in 0..Len(Mix) /\ skipped \in 0..drawn
  <2>1. drawn = 0 /\ skipped = 0 /\ Len(Mix) \in Nat /\ Cardinality(Touched) = 0 /\ MaxIter \in Nat
    BY <1>4, MixAssumption, WorkloadAssumption, FS_EmptySet DEF RunInit
  <2> QED
    BY <2>1 DEF DrawnOK
<1>6. StagesOK /\ wtool \in [Workers -> Tools \cup {None}] /\ CmdOK
  <2>1. None # 0
    BY NamesAssumption
  <2> QED
    BY <2>1 DEF RunInit, StagesOK, CmdOK
<1> QED
  BY <1>1, <1>2, <1>3, <1>5, <1>6 DEF RunInv, RunTypeOK, CmdOK

LEMMA RunStays == RunInv /\ [RunNext]_allVars => RunInv'
<1> SUFFICES ASSUME RunInv, [RunNext]_allVars PROVE RunInv'
  OBVIOUS
<1> USE DEF RunInv
<1>1. Inv'
  BY OrchestratorStep, DataStep, FlagsStep, ShapeStep, FreshStep, JobsStep
     DEF Inv, TypeOK, ShapeOK, JobsOK
<1>2. AP!TypeOK'
  BY AggregatorStep, AggAssumptions, AP!TypeStep
<1>3. HoldsOK' /\ StagesOK'
  BY HoldsStep, StagesStep
<1>4. /\ DrawnOK' /\ drawn' \in 0..Len(Mix) /\ skipped' \in 0..drawn'
      /\ wtool' \in [Workers -> Tools \cup {None}]
  BY DrawnStep
<1>5. CmdOK'
  BY CmdStays DEF RunTypeOK, CmdOK
<1> QED
  BY <1>1, <1>2, <1>3, <1>4, <1>5 DEF RunTypeOK, CmdOK

LEMMA RunInvHolds == RunSpec => []RunInv
  BY RunStart, RunStays, PTL DEF RunSpec

(* RunTypeOK: the parts agree at every moment.  In particular the picker   *)
(* gives one tool to each job, so that no worker ever draws past the mix,  *)
(* and a worker is in its loop while the aggregator has it, so that the    *)
(* critical sections of one observation are not those of another.          *)
THEOREM RunTypeCorrect == RunSpec => []RunTypeOK
<1>1. RunInv => RunTypeOK
  BY DEF RunInv
<1> QED
  BY RunInvHolds, <1>1, PTL

(* ExitTells: whatever fails on the way, and whenever the run is           *)
(* interrupted, the command exits with its transport closed, and with 0    *)
(* only when the whole report is there, the format prom excepted.          *)
THEOREM ExitKept == RunSpec => []ExitTells
<1>1. RunInv => ExitTells
  BY DEF RunInv, RunTypeOK, StagesOK, ExitTells
<1> QED
  BY RunInvHolds, <1>1, PTL

(* The composition keeps the contract of the aggregator, so its books      *)
(* balance in the command: nothing is recorded but by its sections.        *)
THEOREM RunsTheAggregator == RunSpec => AP!Spec
<1>1. RunInit => AP!Init
  BY AggSections DEF RunInit
<1>2. RunInv /\ [RunNext]_allVars => [AP!Next]_(AP!vars)
  BY AggregatorStep DEF RunInv
<1> QED
  BY RunInvHolds, <1>1, <1>2, PTL DEF RunSpec, AP!Spec

THEOREM CommandKeepsBooks ==
  RunSpec => [](AP!BooksBalance /\ AP!SamplesCounted /\ AP!CodesCounted)
<1>1. AP!Spec => []AP!BooksBalance
  BY AggAssumptions, AP!BooksKept
<1>2. AP!Spec => []AP!SamplesCounted
  BY AggAssumptions, AP!SamplesKept
<1>3. AP!Spec => []AP!CodesCounted
  BY AggAssumptions, AP!CodesKept
<1> QED
  BY <1>1, <1>2, <1>3, RunsTheAggregator, PTL

-----------------------------------------------------------------------------
(* What the aggregator has, or is owed, is what the orchestrator has seen: *)
(* the outcomes of the measurement, and none of the warmup.                *)
dues == [c \in Categories |-> AP!Due(c)]

MeasuredOK == /\ dues["ok"] = Measured({"ok"})
              /\ SumFunctionOnSet(dues, Failures) = Measured({"timeout", "error"})

LEMMA SameNames ==
  /\ AP!Categories = Categories /\ AP!Codes = Codes
  /\ \A err : AP!Classify(err) = Classify(err)
<1>1. AP!Rules = Rules /\ AP!Codes = Codes /\ AP!Categories = Categories
  BY DEF AP!Rules, Rules, AP!Codes, Codes, AP!Categories, Categories
<1>2. \A S : AP!Min(S) = Min(S)
  BY DEF AP!Min, Min
<1>3. \A err, links : AP!Has(err, links) <=> Has(err, links)
  BY DEF AP!Has, Has
<1>4. \A err : AP!Hits(err) = Hits(err)
  BY <1>1, <1>3 DEF AP!Hits, Hits
<1>5. \A err : AP!Classify(err) = Classify(err)
  BY <1>1, <1>2, <1>4 DEF AP!Classify, Classify
<1> QED
  BY <1>1, <1>5

LEMMA SameSums ==
  /\ \A f, S : AP!SumFunctionOnSet(f, S) = SumFunctionOnSet(f, S)
  /\ \A f : AP!SumFunction(f) = SumFunctionOnSet(f, DOMAIN f)
  /\ \A f : SumFunction(f) = SumFunctionOnSet(f, DOMAIN f)
BY DEF AP!SumFunction, AP!SumFunctionOnSet, AP!FoldFunctionOnSet, AP!MapThenFoldSet,
   SumFunction, SumFunctionOnSet, FoldFunction, FoldFunctionOnSet, MapThenFoldSet, AP!FoldFunction

LEMMA SameCards == \A S : AP!Cardinality(S) = Cardinality(S)
BY DEF AP!Cardinality, Cardinality

(* Each way to record adds to the dues of one category.                    *)
LEMMA OkIsNoError ==
  ASSUME NEW err
  PROVE  /\ Classify(err) \in Categories
         /\ Classify(err) = "ok" <=> err = <<>>
<1>1. CASE err = <<>>
  BY <1>1 DEF Classify, Categories
<1>2. CASE err # <<>> /\ Hits(err) = {}
  BY <1>2 DEF Classify, Categories
<1>3. CASE err # <<>> /\ Hits(err) # {}
  <2>1. Hits(err) \in SUBSET Nat /\ Hits(err) \subseteq 1..7
    BY DEF Hits, Rules
  <2>2. Min(Hits(err)) \in 1..7
    BY <1>3, <2>1, LeastNat
  <2>3. Rules[Min(Hits(err))].category \in {"timeout", "jsonrpc", "transport", "template"}
    BY <2>2 DEF Rules
  <2> QED
    BY <1>3, <2>3 DEF Classify, Categories
<1> QED
  BY <1>1, <1>2, <1>3

LEMMA NamesFinite ==
  /\ IsFiniteSet(Categories) /\ IsFiniteSet(Failures) /\ Failures = Categories \ {"ok"}
  /\ "ok" \in Categories /\ Failures \subseteq Categories
<1>1. IsFiniteSet({"ok", "timeout", "jsonrpc", "transport", "template", "other"})
  <2>1. IsFiniteSet({"ok"} \cup {"timeout"}) /\ IsFiniteSet({"jsonrpc"} \cup {"transport"})
        /\ IsFiniteSet({"template"} \cup {"other"})
    BY FS_Singleton, FS_Union
  <2>2. IsFiniteSet(({"ok"} \cup {"timeout"}) \cup ({"jsonrpc"} \cup {"transport"})
                    \cup ({"template"} \cup {"other"}))
    BY <2>1, FS_Union
  <2> QED
    BY <2>2
<1>2. IsFiniteSet(Categories)
  BY <1>1 DEF Categories
<1>3. IsFiniteSet(Failures)
  BY <1>2, FS_Difference DEF Failures
<1> QED
  BY <1>2, <1>3 DEF Failures, Categories

LEMMA DueType ==
  ASSUME AP!TypeOK
  PROVE  dues \in [Categories -> Nat]
<1>1. ASSUME NEW c \in Categories
      PROVE  AP!Due(c) \in Nat
  <2>1. c \in AP!Categories
    BY SameNames
  <2>2. stats[AP!Overall].tally[c] \in Nat /\ AP!Cardinality(AP!OwesOverall(c)) \in Nat
    BY <2>1, AggAssumptions, AP!BookTypes
  <2> QED
    BY <2>2 DEF AP!Due
<1> QED
  BY <1>1 DEF dues

LEMMA DueStays == UNCHANGED aggVars => dues' = dues
<1> SUFFICES ASSUME UNCHANGED aggVars PROVE dues' = dues
  OBVIOUS
<1>1. ASSUME NEW c
      PROVE  AP!Due(c)' = AP!Due(c)
  BY DEF aggVars, AP!Due, AP!OwesOverall, AP!Overall
<1> QED
  BY <1>1 DEF dues

LEMMA DueSections ==
  ASSUME AP!TypeOK, NEW w \in Workers, AggStep(w)
  PROVE  dues' = dues
<1>1. AP!Creates(w) \/ AP!Inserts(w) \/ AP!Tallies(w)
  BY AggSections DEF AggStep, AP!RecordStep
<1>2. ASSUME NEW c \in AP!Categories
      PROVE  AP!Due(c)' = AP!Due(c)
  <2>1. AP!Creates(w) => AP!Due(c)' = AP!Due(c)
    BY AggAssumptions, AP!BooksCreate
  <2>2. AP!Inserts(w) => AP!Due(c)' = AP!Due(c)
    BY AggAssumptions, AP!BooksInsert
  <2>3. AP!Tallies(w) => AP!Due(c)' = AP!Due(c)
    BY AggAssumptions, AP!BooksTally
  <2> QED
    BY <1>1, <2>1, <2>2, <2>3
<1> QED
  BY <1>2, SameNames DEF dues

LEMMA DueRecorded ==
  ASSUME RunTypeOK, AP!TypeOK, NEW w \in Workers, wtool[w] # None, NEW err \in Errors,
         phase = "measure", Records(w, err)
  PROVE  dues' = [dues EXCEPT ![Classify(err)] = @ + 1]
<1> DEFINE o == [tool |-> wtool[w], dur |-> 0, err |-> err]
<1>1. o \in AP!Observations /\ AP!RecordBegins(w, o) /\ o.err = err
  BY ObservationType, AggSections DEF Records
<1> HIDE DEF o
<1>2. ASSUME NEW c \in AP!Categories
      PROVE  AP!Due(c)' = AP!Due(c) + (IF c = AP!Classify(err) THEN 1 ELSE 0)
  <2>1. /\ c = AP!Classify(err) => AP!Due(c)' = AP!Due(c) + 1
        /\ c # AP!Classify(err) => AP!Due(c)' = AP!Due(c)
    BY <1>1, AggAssumptions, AP!BooksBegin
  <2>2. AP!Due(c) \in Nat
    BY DueType, SameNames DEF dues
  <2> QED
    BY <2>1, <2>2
<1>3. \A c \in Categories : dues'[c] = dues[c] + (IF c = Classify(err) THEN 1 ELSE 0)
  BY <1>2, SameNames DEF dues
<1>4. dues' = [c \in Categories |-> dues'[c]] /\ dues \in [Categories -> Nat]
  BY DueType DEF dues
<1> QED
  BY <1>3, <1>4, OkIsNoError

(* And the outcomes that the orchestrator has seen of the measurement.     *)
LEMMA MeasuredType ==
  ASSUME NEW outcomes
  PROVE  /\ Measured(outcomes) \in Nat
         /\ IsFiniteSet({i \in Iters : \E o \in outcomes : obs["measure"][i] = <<o>>})
<1>1. IsFiniteSet(Iters)
  BY WorkloadAssumption, FS_Interval DEF Iters, Bound
<1>2. IsFiniteSet({i \in Iters : \E o \in outcomes : obs["measure"][i] = <<o>>})
  BY <1>1, FS_Subset
<1> QED
  BY <1>2, FS_CardinalityType DEF Measured

LEMMA MeasuredOne ==
  ASSUME Inv, RunTypeOK, NEW w \in Workers, NEW o \in Outcomes, NEW err, Observes(w, o, err),
         NEW outcomes
  PROVE  /\ phase = "measure" => Measured(outcomes)' = Measured(outcomes)
                                                       + (IF o \in outcomes THEN 1 ELSE 0)
         /\ phase # "measure" => Measured(outcomes)' = Measured(outcomes)
<1> DEFINE i == wjob[w]
           S == {j \in Iters : \E r \in outcomes : obs["measure"][j] = <<r>>}
           T == {j \in Iters : \E r \in outcomes : obs'["measure"][j] = <<r>>}
<1>1. /\ i \in Iters /\ obs[phase][i] = <<>> /\ obs[phase] \in [Iters -> Seq(Outcomes)]
  BY InHand DEF Observes, Inv, TypeOK, DataOK
<1>2. /\ phase = "measure" => obs'["measure"] = [obs["measure"] EXCEPT ![i] = <<o>>]
      /\ phase # "measure" => obs'["measure"] = obs["measure"]
  BY ObserveTouches DEF Phases
<1>3. Measured(outcomes) = Cardinality(S) /\ Measured(outcomes)' = Cardinality(T)
  BY DEF Measured
<1>4. IsFiniteSet(S) /\ Cardinality(S) \in Nat
  BY MeasuredType DEF Measured
<1>5. CASE phase # "measure"
  BY <1>2, <1>3, <1>5
<1>6. CASE phase = "measure"
  <2>1. /\ \A r : obs["measure"][i] # <<r>>
        /\ \A j \in Iters : obs'["measure"][j] = IF j = i THEN <<o>> ELSE obs["measure"][j]
    <3>1. \A r : <<r>> # <<>>
      OBVIOUS
    <3> HIDE DEF i
    <3> QED
      BY <1>1, <1>2, <1>6, <3>1
  <2>2. o \in outcomes => T = S \cup {i}
    BY <1>1, <2>1
  <2>3. o \notin outcomes => T = S
    BY <1>1, <2>1
  <2>4. i \notin S
    BY <2>1
  <2> HIDE DEF S, T, i
  <2> QED
    BY <1>3, <1>4, <1>6, <2>2, <2>3, <2>4, OneMore
<1> QED
  BY <1>5, <1>6

(* What a step may do to both: an observation of the measurement, or       *)
(* nothing.                                                                *)
LEMMA OthersMeasureNothing ==
  ASSUME RunInv, [RunNext]_allVars,
         ~ \E w \in Workers : \E o \in Outcomes, err \in Errors :
             (o = "ok" <=> err = <<>>) /\ Observes(w, o, err)
  PROVE  dues' = dues /\ obs' = obs
<1>1. HoldsOK /\ AP!TypeOK
  BY DEF RunInv, RunTypeOK
<1>2. ASSUME NEW w \in Workers, AggStep(w)
      PROVE  dues' = dues /\ obs' = obs
  BY <1>1, <1>2, DueSections DEF AggStep, vars
<1>3. ASSUME NEW w \in Workers, Draws(w) \/ Proceeds(w)
      PROVE  UNCHANGED aggVars /\ obs' = obs
  BY <1>3 DEF Draws, Proceeds, vars, WorkerTakes, WorkerQuits, ThinkEnds, CallBegins
<1>4. PhaseBegins \/ Join \/ Quiet => obs' = obs
  BY DEF PhaseBegins, Join, Quiet
<1>5. Aside => UNCHANGED aggVars
  BY DEF Aside
<1>6. CmdStep => UNCHANGED <<vars, aggVars, pickVars>>
  BY Zenon DEF CmdStep, Summarizes, FormatRefused, FormatParsed, CreateFails, Created, Written,
     WriteFails, Closes
<1>7. UNCHANGED <<vars, aggVars, pickVars>> => UNCHANGED aggVars /\ obs' = obs
  BY DEF vars
<1>8. UNCHANGED allVars => UNCHANGED <<vars, aggVars, pickVars>>
  BY DEF allVars
<1> QED
  BY <1>1, <1>2, <1>3, <1>4, <1>5, <1>6, <1>7, <1>8, DueStays, RunSteps DEF Quiet

LEMMA MeasuredStays == RunInv /\ MeasuredOK /\ [RunNext]_allVars => MeasuredOK'
<1> SUFFICES ASSUME RunInv, MeasuredOK, [RunNext]_allVars PROVE MeasuredOK'
  OBVIOUS
<1>1. dues' = dues /\ obs'["measure"] = obs["measure"] => MeasuredOK'
  <2>1. obs'["measure"] = obs["measure"] =>
          \A outcomes : Measured(outcomes)' = Measured(outcomes)
    BY DEF Measured
  <2> QED
    BY <2>1 DEF MeasuredOK
<1>2. ASSUME NEW w \in Workers, NEW o \in Outcomes, NEW err \in Errors,
             o = "ok" <=> err = <<>>, Observes(w, o, err)
      PROVE  MeasuredOK'
  <2> DEFINE c == Classify(err)
  <2>1. Inv /\ RunTypeOK /\ AP!TypeOK /\ phase \in Phases
    BY DEF RunInv, Inv, TypeOK, DataOK
  <2>2. CASE phase = "warmup"
    <3>1. UNCHANGED aggVars
      BY <1>2, <2>2 DEF Observes, Records
    <3>2. obs'["measure"] = obs["measure"]
      BY <1>2, <2>1, <2>2, ObserveTouches DEF Phases
    <3> QED
      BY <1>1, <3>1, <3>2, DueStays
  <2>3. CASE phase = "measure"
    <3>1. dues' = [dues EXCEPT ![c] = @ + 1]
      BY <1>2, <2>1, <2>3, DueRecorded DEF Observes
    <3>2. dues \in [Categories -> Nat] /\ c \in Categories /\ (c = "ok" <=> o = "ok")
      BY <1>2, <2>1, DueType, OkIsNoError
    <3>3. /\ Measured({"ok"})' = Measured({"ok"}) + (IF o = "ok" THEN 1 ELSE 0)
          /\ Measured({"timeout", "error"})' =
               Measured({"timeout", "error"}) + (IF o = "ok" THEN 0 ELSE 1)
      BY <1>2, <2>1, <2>3, MeasuredOne DEF Outcomes
    <3>4. Measured({"ok"}) \in Nat /\ Measured({"timeout", "error"}) \in Nat
      BY MeasuredType
    <3> HIDE DEF c
    <3>5. dues'["ok"] = Measured({"ok"})'
      BY <3>1, <3>2, <3>3, <3>4, NamesFinite DEF MeasuredOK
    <3>6. CASE o = "ok"
      <4>1. \A x \in Failures : dues'[x] = dues[x]
        BY <3>1, <3>2, <3>6, NamesFinite
      <4>2. SumFunctionOnSet(dues', Failures) = SumFunctionOnSet(dues, Failures)
        BY <4>1, NamesFinite, SumEqual
      <4> QED
        BY <3>3, <3>4, <3>5, <3>6, <4>2 DEF MeasuredOK
    <3>7. CASE o # "ok"
      <4>1. c \in Failures /\ dues'[c] = dues[c] + 1
            /\ (\A x \in Failures : dues[x] \in Int) /\ \A x \in Failures \ {c} : dues'[x] = dues[x]
        BY <3>1, <3>2, <3>7, NamesFinite
      <4>2. SumFunctionOnSet(dues', Failures) = SumFunctionOnSet(dues, Failures) + 1
        BY <4>1, NamesFinite, SumShift
      <4> QED
        BY <3>3, <3>4, <3>5, <3>7, <4>2 DEF MeasuredOK
    <3> QED
      BY <3>6, <3>7
  <2> QED
    BY <2>1, <2>2, <2>3 DEF Phases
<1> QED
  BY <1>1, <1>2, OthersMeasureNothing

LEMMA MeasuredStart == RunInit => MeasuredOK
<1> SUFFICES ASSUME RunInit PROVE MeasuredOK
  OBVIOUS
<1>1. \A c \in Categories : dues[c] = 0
  <2>1. AP!Init
    BY AggSections DEF RunInit
  <2>2. ASSUME NEW c \in Categories
        PROVE  AP!Due(c) = 0
    <3>1. stats[1].tally[c] = 0 /\ AP!OwesOverall(c) = {}
      BY <2>1, SameNames DEF AP!Init, AP!NewToolStats, AP!OwesOverall
    <3>2. AP!Cardinality({}) = 0
      BY FS_EmptySet, SameCards
    <3> QED
      BY <3>1, <3>2 DEF AP!Due, AP!Overall
  <2> QED
    BY <2>2 DEF dues
<1>2. ASSUME NEW outcomes
      PROVE  Measured(outcomes) = 0
  <2>1. {i \in Iters : \E o \in outcomes : obs["measure"][i] = <<o>>} = {}
    BY DEF RunInit, Init, Phases
  <2> QED
    BY <2>1, FS_EmptySet DEF Measured
<1> QED
  BY <1>1, <1>2, SumZero, NamesFinite DEF MeasuredOK

LEMMA MeasuredHolds == RunSpec => []MeasuredOK
  BY RunInvHolds, MeasuredStart, MeasuredStays, PTL DEF RunSpec

-----------------------------------------------------------------------------
(* When the workers are gone nothing is owed, so the statistics themselves *)
(* add up: each line has its samples under its outcomes, and the overall   *)
(* line has what the tools have together.                                  *)
AllBooks == AP!BooksBalance /\ AP!SamplesCounted

toolTally == [t \in Tools |-> AP!Of(t).tally]

LEMMA AtRest ==
  ASSUME RunInv, AllBooks, main = "returned"
  PROVE  /\ \A c \in Categories : /\ stats[1].tally[c] = dues[c]
                                  /\ stats[1].tally[c]
                                       = SumFunctionOnSet([t \in Tools |-> toolTally[t][c]], Tools)
         /\ \A i \in 1..Len(stats) :
              stats[i].count = stats[i].tally["ok"] + SumFunctionOnSet(stats[i].tally, Failures)
         /\ \A i \in 1..Len(stats) : stats[i].tally \in [Categories -> Nat]
         /\ 1 \in 1..Len(stats) /\ toolTally \in [Tools -> [Categories -> Nat]]
         /\ tools \in [Tools -> (2..Len(stats)) \cup {None}]
<1>1. \A w \in Workers : rpc[w] = "idle"
  BY DEF RunInv, Inv, ShapeOK, RestOK, RunTypeOK, HoldsOK
<1>2. \A c : AP!OwesOverall(c) = {} /\ AP!OwesTool(c) = {} /\ AP!Between(c) = {}
  BY <1>1 DEF AP!OwesOverall, AP!OwesTool, AP!Between
<1>3. AP!Cardinality({}) = 0
  BY FS_EmptySet, SameCards
<1>4. /\ \A i \in 1..Len(stats) : stats[i] \in AP!ToolStatsType
      /\ 1 \in 1..Len(stats) /\ tools \in [Tools -> (2..Len(stats)) \cup {None}]
  <2>1. /\ stats \in Seq(AP!ToolStatsType) /\ stats # <<>>
        /\ tools \in [Tools -> (2..Len(stats)) \cup {None}]
    BY DEF RunInv, AP!TypeOK
  <2> QED
    BY <2>1
<1>5. \A i \in 1..Len(stats) : stats[i].tally \in [Categories -> Nat] /\ stats[i].count \in Nat
  BY <1>4, SameNames DEF AP!ToolStatsType
<1>6. ASSUME NEW t \in Tools
      PROVE  AP!Of(t).tally \in [Categories -> Nat]
  <2>1. t \in AP!Keys
    BY DEF AP!Keys
  <2>2. AP!Of(t) \in AP!ToolStatsType
    BY <2>1, AggAssumptions, AP!OfType DEF RunInv
  <2> QED
    BY <2>2, SameNames DEF AP!ToolStatsType
<1>7. ASSUME NEW c \in Categories
      PROVE  /\ stats[1].tally[c] = dues[c]
             /\ stats[1].tally[c] = SumFunctionOnSet([t \in Tools |-> toolTally[t][c]], Tools)
  <2> DEFINE line == [t \in Tools |-> AP!Of(t).tally[c]]
  <2>1. stats[1].tally[c] \in Nat
    BY <1>4, <1>5
  <2>2. stats[1].tally[c] = dues[c]
    BY <1>2, <1>3, <2>1 DEF dues, AP!Due, AP!Overall
  <2>3. line \in [Tools -> Nat]
    BY <1>6
  <2>4. stats[1].tally[c] + 0 = AP!SumFunction(line) + 0
    BY <1>2, <1>3, SameNames DEF AllBooks, AP!BooksBalance, AP!Overall
  <2>5. AP!SumFunction(line) = SumFunctionOnSet(line, Tools)
    <3> HIDE DEF line
    <3>1. DOMAIN line = Tools
      BY <2>3
    <3> QED
      BY <3>1, SameSums
  <2>6. SumFunctionOnSet(line, Tools) \in Nat
    <3> HIDE DEF line
    <3> QED
      BY <2>3, NamesAssumption, SumNat
  <2>7. line = [t \in Tools |-> toolTally[t][c]]
    BY DEF toolTally
  <2> HIDE DEF line
  <2> QED
    BY <2>1, <2>2, <2>4, <2>5, <2>6, <2>7
<1>8. ASSUME NEW i \in 1..Len(stats)
      PROVE  stats[i].count = stats[i].tally["ok"] + SumFunctionOnSet(stats[i].tally, Failures)
  <2> DEFINE f == stats[i].tally
  <2>1. f \in [Categories -> Nat]
    BY <1>5
  <2>2. stats[i].count = AP!SumFunction(f) + 0
    BY <1>2, <1>3 DEF AllBooks, AP!SamplesCounted
  <2> HIDE DEF f
  <2>3. AP!SumFunction(f) = SumFunctionOnSet(f, Categories)
    <3>1. DOMAIN f = Categories
      BY <2>1
    <3> QED
      BY <3>1, SameSums
  <2>4. SumFunctionOnSet(f, Categories) = f["ok"] + SumFunctionOnSet(f, Failures)
    BY <2>1, NamesFinite, SumTake
  <2>5. f["ok"] \in Nat /\ SumFunctionOnSet(f, Failures) \in Nat
    BY <2>1, NamesFinite, SumNat
  <2> QED
    BY <2>2, <2>3, <2>4, <2>5 DEF f
<1>9. toolTally \in [Tools -> [Categories -> Nat]]
  BY <1>6 DEF toolTally
<1> QED
  BY <1>4, <1>5, <1>7, <1>8, <1>9

(* A budget that was not cut short is measured in full.                    *)
LEMMA AllMeasured ==
  ASSUME RunInv, BudgetMeasured, main = "returned", Requests > 0, ~ctxDone
  PROVE  Measured({"ok"}) + Measured({"timeout", "error"}) = Requests
<1> DEFINE S(outcomes) == {i \in Iters : \E o \in outcomes : obs["measure"][i] = <<o>>}
           good == S({"ok"})
           bad  == S({"timeout", "error"})
<1>1. /\ Requests \in Nat /\ Requests <= Bound /\ Iters = 1..Bound /\ Bound \in Nat
      /\ obs["measure"] \in [Iters -> Seq(Outcomes)]
  BY WorkloadAssumption DEF Bound, Iters, RunInv, Inv, TypeOK, DataOK, Phases
<1>2. ASSUME NEW i \in Iters
      PROVE  /\ i \in good \/ i \in bad <=> i \in 1..Requests
             /\ ~(i \in good /\ i \in bad)
  <2>1. Len(obs["measure"][i]) = (IF i <= Requests THEN 1 ELSE 0) /\ obs["measure"][i] \in Seq(Outcomes)
    BY <1>1 DEF BudgetMeasured
  <2>2. i \in Nat /\ i >= 1
    BY <1>1
  <2>3. i <= Requests => obs["measure"][i] = <<obs["measure"][i][1]>> /\ obs["measure"][i][1] \in Outcomes
    BY <2>1
  <2>4. (\E o : obs["measure"][i] = <<o>>) => i <= Requests
    BY <2>1
  <2>5. <<"ok">> # <<"timeout">> /\ <<"ok">> # <<"error">>
    OBVIOUS
  <2> QED
    BY <1>1, <2>2, <2>3, <2>4, <2>5 DEF Outcomes
<1>3. /\ IsFiniteSet(good) /\ IsFiniteSet(bad)
      /\ Measured({"ok"}) = Cardinality(good) /\ Measured({"timeout", "error"}) = Cardinality(bad)
  <2>1. ASSUME NEW outcomes
        PROVE  IsFiniteSet(S(outcomes)) /\ Measured(outcomes) = Cardinality(S(outcomes))
    BY MeasuredType DEF Measured
  <2> HIDE DEF S
  <2> QED
    BY <2>1
<1>4. good \cup bad = 1..Requests /\ good \cap bad = {}
  <2>1. good \subseteq Iters /\ bad \subseteq Iters /\ 1..Requests \subseteq Iters
    BY <1>1
  <2> HIDE DEF S, good, bad
  <2> QED
    BY <1>2, <2>1
<1>5. Cardinality(1..Requests) = Requests
  BY <1>1, FS_Interval
<1> HIDE DEF good, bad
<1>6. Cardinality(good \cup bad) = Cardinality(good) + Cardinality(bad)
  <2>1. Cardinality(good \cap bad) = 0 /\ Cardinality(good) \in Nat /\ Cardinality(bad) \in Nat
    BY <1>3, <1>4, FS_EmptySet, FS_CardinalityType
  <2>2. Cardinality(good \cup bad) = Cardinality(good) + Cardinality(bad) - Cardinality(good \cap bad)
    BY <1>3, FS_Union, Zenon
  <2> QED
    BY <2>1, <2>2
<1> QED
  BY <1>3, <1>4, <1>5, <1>6

(* The figures of a line.                                                  *)
LEMMA LineFigures ==
  ASSUME NEW s
  PROVE  /\ ToolSummary(s).ok = s.tally["ok"]
         /\ ToolSummary(s).errors = SumFunctionOnSet(s.tally, Failures)
         /\ ToolSummary(s).latency.count = s.count
BY DEF ToolSummary, Summarize

LEMMA ReportAdds ==
  ASSUME RunInv, AllBooks, MeasuredOK, BudgetMeasured
  PROVE  ReportTrue
<1> SUFFICES ASSUME summary # None
             PROVE  /\ summary.overall.ok = Measured({"ok"})
                    /\ summary.overall.errors = Measured({"timeout", "error"})
                    /\ summary.overall.latency.count = summary.overall.ok + summary.overall.errors
                    /\ summary.overall.ok = Sum(LAMBDA s : s.ok)
                    /\ summary.overall.errors = Sum(LAMBDA s : s.errors)
                    /\ \A s \in Lines : s.latency.count = s.ok + s.errors
                    /\ Requests > 0 /\ ~ctxDone => summary.overall.latency.count = Requests
  BY DEF ReportTrue
<1> DEFINE seen == {t \in Tools : tools[t] # None}
           okOf == [t \in Tools |-> toolTally[t]["ok"]]
           errorsOf == [t \in Tools |-> SumFunctionOnSet(toolTally[t], Failures)]
           overall == stats[1]
<1>1. main = "returned" /\ summary = SummarizeAll(stats, tools)
  BY DEF RunInv, RunTypeOK, StagesOK
<1>2. /\ \A c \in Categories : /\ overall.tally[c] = dues[c]
                               /\ overall.tally[c]
                                    = SumFunctionOnSet([t \in Tools |-> toolTally[t][c]], Tools)
      /\ \A i \in 1..Len(stats) :
           stats[i].count = stats[i].tally["ok"] + SumFunctionOnSet(stats[i].tally, Failures)
      /\ \A i \in 1..Len(stats) : stats[i].tally \in [Categories -> Nat]
      /\ 1 \in 1..Len(stats) /\ toolTally \in [Tools -> [Categories -> Nat]]
      /\ tools \in [Tools -> (2..Len(stats)) \cup {None}]
  BY <1>1, AtRest
<1>3. /\ {t \in DOMAIN tools : tools[t] \in 1..Len(stats)} = seen
      /\ \A t \in seen : tools[t] \in 1..Len(stats)
  BY <1>2, NamesAssumption
<1>4. /\ summary.overall = ToolSummary(overall)
      /\ summary.perTool = [t \in seen |-> ToolSummary(stats[tools[t]])]
  BY <1>1, <1>3 DEF SummarizeAll
<1>5. /\ \A t \in seen : toolTally[t] = stats[tools[t]].tally
      /\ \A t \in Tools \ seen : toolTally[t] = [c \in Categories |-> 0]
  <2>1. \A t \in Tools : t # None
    BY NamesAssumption
  <2> QED
    BY <2>1, SameNames DEF toolTally, AP!Of, AP!NewToolStats
<1>6. /\ okOf \in [Tools -> Nat] /\ errorsOf \in [Tools -> Nat]
      /\ \A t \in Tools \ seen : okOf[t] = 0 /\ errorsOf[t] = 0
  <2>1. okOf \in [Tools -> Nat] /\ \A t \in Tools \ seen : okOf[t] = 0
    BY <1>2, <1>5, NamesFinite
  <2>2. ASSUME NEW t \in Tools
        PROVE  SumFunctionOnSet(toolTally[t], Failures) \in Nat
    BY <1>2, NamesFinite, SumNat
  <2>3. ASSUME NEW t \in Tools \ seen
        PROVE  SumFunctionOnSet(toolTally[t], Failures) = 0
    <3>1. \A c \in Failures : toolTally[t][c] = 0
      BY <1>5, NamesFinite
    <3> QED
      BY <3>1, NamesFinite, SumZero
  <2> QED
    BY <2>1, <2>2, <2>3
<1>7. IsFiniteSet(Tools) /\ seen \in SUBSET Tools /\ IsFiniteSet(seen)
  BY NamesAssumption, FS_Subset
<1>8. overall.tally["ok"] = SumFunctionOnSet(okOf, seen)
  <2>1. overall.tally["ok"] = SumFunctionOnSet(okOf, Tools)
    BY <1>2, NamesFinite
  <2> HIDE DEF okOf, seen
  <2> QED
    BY <1>6, <1>7, <2>1, SumWhere
<1>9. SumFunctionOnSet(overall.tally, Failures) = SumFunctionOnSet(errorsOf, seen)
  <2> DEFINE byColumn == [c \in Failures |-> SumFunctionOnSet([t \in Tools |-> toolTally[t][c]], Tools)]
  <2>1. SumFunctionOnSet(overall.tally, Failures) = SumFunctionOnSet(byColumn, Failures)
    <3>1. \A c \in Failures : overall.tally[c] = byColumn[c]
      BY <1>2, NamesFinite
    <3> HIDE DEF byColumn, overall
    <3> QED
      BY <3>1, NamesFinite, SumEqual
  <2>2. SumFunctionOnSet(errorsOf, Tools) = SumFunctionOnSet(byColumn, Failures)
    <3>1. \A t \in Tools, c \in Failures : toolTally[t][c] \in Int
      BY <1>2, NamesFinite
    <3>2. SumFunctionOnSet([x \in Tools |-> SumFunctionOnSet(toolTally[x], Failures)], Tools)
            = SumFunctionOnSet([y \in Failures |->
                                  SumFunctionOnSet([x \in Tools |-> toolTally[x][y]], Tools)], Failures)
      <4> HIDE DEF seen, errorsOf, okOf, overall, byColumn
      <4>1. IsFiniteSet(Tools) /\ IsFiniteSet(Failures)
        BY <1>7, NamesFinite
      <4> QED
        BY <3>1, <4>1, SumSwap, ZenonT(30)
    <3> QED
      BY <3>2, Zenon
  <2>3. SumFunctionOnSet(errorsOf, Tools) = SumFunctionOnSet(errorsOf, seen)
    <3> HIDE DEF errorsOf, seen
    <3> QED
      BY <1>6, <1>7, SumWhere
  <2> HIDE DEF errorsOf, byColumn, seen, overall
  <2> QED
    BY <2>1, <2>2, <2>3
<1>10. Sum(LAMBDA s : s.ok) = SumFunctionOnSet(okOf, seen)
  <2> DEFINE f == [t \in seen |-> ToolSummary(stats[tools[t]]).ok]
  <2>1. Sum(LAMBDA s : s.ok) = SumFunction(f)
    BY <1>4 DEF Sum
  <2>2. ASSUME NEW t \in seen
        PROVE  f[t] = okOf[t]
    <3>1. toolTally[t] = stats[tools[t]].tally /\ t \in Tools
      BY <1>5, <1>7
    <3>2. f[t] = ToolSummary(stats[tools[t]]).ok
      OBVIOUS
    <3>3. okOf[t] = toolTally[t]["ok"]
      BY <3>1
    <3> HIDE DEF f, okOf
    <3> QED BY <3>1, <3>2, <3>3, LineFigures, Zenon
  <2>3. DOMAIN f = seen
    OBVIOUS
  <2> HIDE DEF f, okOf, seen
  <2> QED
    BY <1>7, <2>1, <2>2, <2>3, SameSums, SumEqual
<1>11. Sum(LAMBDA s : s.errors) = SumFunctionOnSet(errorsOf, seen)
  <2> DEFINE f == [t \in seen |-> ToolSummary(stats[tools[t]]).errors]
  <2>1. Sum(LAMBDA s : s.errors) = SumFunction(f)
    BY <1>4 DEF Sum
  <2>2. ASSUME NEW t \in seen
        PROVE  f[t] = errorsOf[t]
    <3>1. toolTally[t] = stats[tools[t]].tally /\ t \in Tools
      BY <1>5, <1>7
    <3>2. f[t] = ToolSummary(stats[tools[t]]).errors
      OBVIOUS
    <3>3. errorsOf[t] = SumFunctionOnSet(toolTally[t], Failures)
      BY <3>1
    <3> HIDE DEF f, errorsOf
    <3> QED BY <3>1, <3>2, <3>3, LineFigures, Zenon
  <2>3. DOMAIN f = seen
    OBVIOUS
  <2> HIDE DEF f, errorsOf, seen
  <2> QED
    BY <1>7, <2>1, <2>2, <2>3, SameSums, SumEqual
<1>12. /\ summary.overall.ok = overall.tally["ok"]
       /\ summary.overall.errors = SumFunctionOnSet(overall.tally, Failures)
       /\ summary.overall.latency.count = overall.count
       /\ \A t \in seen : LET s == summary.perTool[t]
                            i == tools[t]
                        IN  /\ s.ok = stats[i].tally["ok"]
                            /\ s.errors = SumFunctionOnSet(stats[i].tally, Failures)
                            /\ s.latency.count = stats[i].count
  BY <1>4, LineFigures
<1>13. /\ summary.overall.ok = Measured({"ok"})
       /\ summary.overall.errors = Measured({"timeout", "error"})
  <2>1. \A c \in Categories : overall.tally[c] = dues[c]
    BY <1>2
  <2> HIDE DEF overall, seen
  <2>2. SumFunctionOnSet(overall.tally, Failures) = SumFunctionOnSet(dues, Failures)
    BY <2>1, NamesFinite, SumEqual
  <2> QED
    BY <1>12, <2>1, <2>2, NamesFinite DEF MeasuredOK
<1>14. \A s \in Lines : s.latency.count = s.ok + s.errors
  <2>1. ASSUME NEW t \in seen
        PROVE  summary.perTool[t].latency.count = summary.perTool[t].ok + summary.perTool[t].errors
    <3> HIDE DEF seen
    <3> QED
      BY <1>2, <1>3, <1>12
  <2>2. DOMAIN summary.perTool = seen
    BY <1>4
  <2> HIDE DEF seen
  <2> QED
    BY <2>1, <2>2 DEF Lines
<1>15. summary.overall.latency.count = summary.overall.ok + summary.overall.errors
  <2>1. overall.count = overall.tally["ok"] + SumFunctionOnSet(overall.tally, Failures)
    BY <1>2
  <2> HIDE DEF overall, seen
  <2> QED
    BY <1>12, <2>1
<1>16. Requests > 0 /\ ~ctxDone => summary.overall.latency.count = Requests
  BY <1>1, <1>13, <1>15, AllMeasured
<1>17. summary.overall.ok = Sum(LAMBDA s : s.ok)
  BY <1>8, <1>10, <1>12
<1>18. summary.overall.errors = Sum(LAMBDA s : s.errors)
  BY <1>9, <1>11, <1>12
<1> QED
  BY <1>13, <1>14, <1>15, <1>16, <1>17, <1>18

(* ReportTrue: whatever the schedule, the tools and their errors, and      *)
(* whenever the run is interrupted, the report has every observation of    *)
(* the measurement once, under its outcome and in the line of a tool, and  *)
(* none of the warmup.                                                     *)
THEOREM ReportKept == RunSpec => []ReportTrue
  BY RunInvHolds, CommandKeepsBooks, MeasuredHolds, CommandKeepsJobs, ReportAdds, PTL DEF AllBooks

-----------------------------------------------------------------------------
(* Each draw of the measurement is in one place: the samples of its tool,  *)
(* or the hands of a worker that has yet to record it.                     *)
Pending(t) == {w \in Workers : wtool[w] = t \/ AP!Awaits(w, t)}
DrawnOf(t) == {k \in (skipped + 1)..drawn : Mix[k] = t}
Count(t)   == AP!Of(t).count

MixOK == \A t \in Tools : IF phase = "warmup" THEN Count(t) = 0
                          ELSE Cardinality(DrawnOf(t)) = Count(t) + Cardinality(Pending(t))

LEMMA MixTypes ==
  ASSUME RunInv, NEW t \in Tools
  PROVE  /\ IsFiniteSet(DrawnOf(t)) /\ Cardinality(DrawnOf(t)) \in Nat
         /\ IsFiniteSet(Pending(t)) /\ Cardinality(Pending(t)) \in Nat /\ Count(t) \in Nat
<1>1. AP!Of(t) \in AP!ToolStatsType
  BY AggAssumptions, AP!OfType DEF RunInv, AP!Keys
<1>2. skipped + 1 \in Int /\ drawn \in Int
  BY MixAssumption DEF RunInv, RunTypeOK
<1>3. IsFiniteSet((skipped + 1)..drawn)
  BY <1>2, FS_Interval
<1>4. IsFiniteSet(DrawnOf(t)) /\ IsFiniteSet(Pending(t))
  BY <1>3, WorkersAssumption, FS_Subset DEF DrawnOf, Pending
<1> QED
  BY <1>1, <1>4, FS_CardinalityType DEF Count, AP!ToolStatsType

(* A worker has the tool of one job, or records one observation.           *)
LEMMA OneAtATime ==
  ASSUME RunInv, NEW w \in Workers, NEW t \in Tools, AP!Awaits(w, t)
  PROVE  wtool[w] = None /\ rpc[w] # "idle" /\ phase = "measure"
BY DEF RunInv, RunTypeOK, HoldsOK, AP!Awaits

LEMMA MixDraw ==
  ASSUME RunInv, MixOK, NEW w \in Workers, Draws(w), NEW t \in Tools, phase = "measure"
  PROVE  Cardinality(DrawnOf(t))' = Count(t)' + Cardinality(Pending(t))'
<1> DEFINE m == Mix[drawn + 1]
<1>1. /\ drawn' = drawn + 1 /\ skipped' = skipped /\ wtool' = [wtool EXCEPT ![w] = m]
      /\ UNCHANGED aggVars /\ wtool[w] = None /\ wpc[w] = "rendering"
  BY DEF Draws
<1>2. m \in Tools /\ drawn \in Nat /\ skipped \in Nat /\ skipped <= drawn /\ t # None
      /\ wtool \in [Workers -> Tools \cup {None}]
  BY DrawTouches, MixAssumption, NamesAssumption DEF RunInv, RunTypeOK
<1>3. Count(t)' = Count(t)
  BY <1>1 DEF Count, AP!Of, AP!Overall, aggVars
<1>4. \A v \in Workers : AP!Awaits(v, t)' <=> AP!Awaits(v, t)
  BY <1>1 DEF AP!Awaits, AP!Overall, aggVars
<1>5. w \notin Pending(t)
  <2>1. ~AP!Awaits(w, t)
    BY <1>1 DEF AP!Awaits, RunInv, RunTypeOK, HoldsOK
  <2> QED
    BY <1>1, <1>2, <2>1 DEF Pending
<1>6. drawn + 1 \notin DrawnOf(t)
  BY <1>2 DEF DrawnOf
<1>7. CASE m = t
  <2>1. DrawnOf(t)' = DrawnOf(t) \cup {drawn + 1}
    BY <1>1, <1>2, <1>7 DEF DrawnOf
  <2>2. Pending(t)' = Pending(t) \cup {w}
    BY <1>1, <1>2, <1>4, <1>7 DEF Pending
  <2>3. /\ Cardinality(DrawnOf(t)') = Cardinality(DrawnOf(t)) + 1
        /\ Cardinality(Pending(t)') = Cardinality(Pending(t)) + 1
    BY <1>5, <1>6, <2>1, <2>2, MixTypes, OneMore
  <2> QED
    BY <1>3, <2>3, MixTypes DEF MixOK
<1>8. CASE m # t
  <2>1. DrawnOf(t)' = DrawnOf(t)
    BY <1>1, <1>2, <1>8 DEF DrawnOf
  <2>2. Pending(t)' = Pending(t)
    BY <1>1, <1>2, <1>4, <1>8 DEF Pending
  <2> QED
    BY <1>3, <2>1, <2>2 DEF MixOK
<1> QED
  BY <1>7, <1>8

LEMMA MixObserve ==
  ASSUME RunInv, MixOK, NEW w \in Workers, NEW o \in Outcomes, NEW err \in Errors,
         Observes(w, o, err), NEW t \in Tools, phase = "measure"
  PROVE  Cardinality(DrawnOf(t))' = Count(t)' + Cardinality(Pending(t))'
<1> DEFINE r == [tool |-> wtool[w], dur |-> 0, err |-> err]
<1>1. wtool[w] # None /\ wtool' = [wtool EXCEPT ![w] = None] /\ UNCHANGED <<drawn, skipped>>
      /\ wtool \in [Workers -> Tools \cup {None}] /\ t # None
  BY NamesAssumption DEF Observes, Puts, RunInv, RunTypeOK
<1>2. r \in AP!Observations /\ AP!RecordBegins(w, r) /\ r.tool = wtool[w]
  BY <1>1, ObservationType, AggSections DEF Observes, Records, RunInv
<1> HIDE DEF r
<1>3. /\ AP!Of(t)'.count = AP!Of(t).count
      /\ \A v \in Workers : AP!Awaits(v, t)' <=> AP!Awaits(v, t) \/ (v = w /\ r.tool = t)
  BY <1>2, AggAssumptions, AP!AwaitsBegin DEF RunInv
<1>4. ~AP!Awaits(w, t)
  BY <1>1, OneAtATime
<1>5. Pending(t)' = Pending(t)
  BY <1>1, <1>2, <1>3, <1>4 DEF Pending
<1>6. DrawnOf(t)' = DrawnOf(t)
  BY <1>1 DEF DrawnOf
<1> QED
  BY <1>3, <1>5, <1>6 DEF Count, MixOK

LEMMA MixRecord ==
  ASSUME RunInv, MixOK, NEW w \in Workers, AggStep(w), NEW t \in Tools
  PROVE  /\ phase = "measure" /\ phase' = phase
         /\ Cardinality(DrawnOf(t))' = Count(t)' + Cardinality(Pending(t))'
<1> DEFINE ends == rpc[w] = "insert" /\ AP!Awaits(w, t)
<1>1. AP!RecordStep(w) /\ UNCHANGED <<wtool, drawn, skipped, phase>>
  BY AggSections DEF AggStep, pickVars, vars, mainVars
<1>2. /\ AP!Of(t)'.count = AP!Of(t).count + (IF ends THEN 1 ELSE 0)
      /\ \A v \in Workers : AP!Awaits(v, t)' <=> AP!Awaits(v, t) /\ ~(v = w /\ ends)
  BY <1>1, AggAssumptions, AP!AwaitsEnd DEF RunInv
<1>3. phase = "measure"
  <2>1. rpc[w] # "idle"
    BY <1>1 DEF AP!RecordStep, AP!Creates, AP!Inserts, AP!Tallies
  <2> QED
    BY <2>1 DEF RunInv, RunTypeOK, HoldsOK
<1>4. DrawnOf(t)' = DrawnOf(t)
  BY <1>1 DEF DrawnOf
<1>5. t # None
  BY NamesAssumption
<1>6. CASE ends
  <2>1. wtool[w] = None
    BY <1>6, OneAtATime
  <2>2. Pending(t) = Pending(t)' \cup {w} /\ w \notin Pending(t)'
    BY <1>1, <1>2, <1>5, <1>6, <2>1 DEF Pending
  <2>3. IsFiniteSet(Pending(t)')
    BY <2>2, MixTypes, FS_Subset
  <2>4. Cardinality(Pending(t)') \in Nat /\ Cardinality(Pending(t)) = Cardinality(Pending(t)') + 1
    BY <2>2, <2>3, OneMore
  <2> QED
    BY <1>1, <1>2, <1>3, <1>4, <1>6, <2>4, MixTypes DEF MixOK, Count
<1>7. CASE ~ends
  <2>1. Pending(t)' = Pending(t)
    BY <1>1, <1>2, <1>7 DEF Pending
  <2> QED
    BY <1>1, <1>2, <1>3, <1>4, <1>7, <2>1, MixTypes DEF MixOK, Count
<1> QED
  BY <1>6, <1>7

LEMMA MixStays == RunInv /\ MixOK /\ [RunNext]_allVars => MixOK'
<1> SUFFICES ASSUME RunInv, MixOK, [RunNext]_allVars PROVE MixOK'
  OBVIOUS
<1>1. HoldsOK /\ RunTypeOK /\ Inv /\ phase \in Phases /\ AP!TypeOK
  BY DEF RunInv, RunTypeOK, Inv, TypeOK, DataOK
<1>2. UNCHANGED aggVars => \A t \in Tools : Count(t)' = Count(t)
  BY DEF Count, AP!Of, AP!Overall, aggVars
<1>3. UNCHANGED <<aggVars, pickVars>> =>
        \A t \in Tools : DrawnOf(t)' = DrawnOf(t) /\ Pending(t)' = Pending(t)
  BY DEF DrawnOf, Pending, AP!Awaits, AP!Overall, aggVars, pickVars
<1>4. UNCHANGED <<aggVars, pickVars, phase>> => MixOK'
  BY <1>2, <1>3 DEF MixOK
<1>5. ASSUME NEW w \in Workers, Draws(w)
      PROVE  MixOK'
  <2>1. UNCHANGED <<aggVars, phase>>
    BY <1>5 DEF Draws, vars, mainVars
  <2>2. CASE phase = "warmup"
    BY <1>2, <2>1, <2>2 DEF MixOK
  <2>3. CASE phase = "measure"
    BY <1>5, <2>1, <2>3, MixDraw DEF MixOK
  <2> QED
    BY <1>1, <2>2, <2>3 DEF Phases
<1>6. ASSUME NEW w \in Workers, NEW o \in Outcomes, NEW err \in Errors, Observes(w, o, err)
      PROVE  MixOK'
  <2>1. phase' = phase
    BY <1>6 DEF Observes, mainVars
  <2>2. CASE phase = "warmup"
    <3>1. UNCHANGED aggVars
      BY <1>6, <2>2 DEF Observes, Records
    <3> QED
      BY <1>2, <2>1, <2>2, <3>1 DEF MixOK
  <2>3. CASE phase = "measure"
    BY <1>6, <2>1, <2>3, MixObserve DEF MixOK
  <2> QED
    BY <1>1, <2>2, <2>3 DEF Phases
<1>7. ASSUME NEW w \in Workers, AggStep(w)
      PROVE  MixOK'
  <2>1. rpc[w] # "idle" /\ phase' = phase
    BY <1>7, AggSections DEF AggStep, vars, mainVars, AP!RecordStep, AP!Creates, AP!Inserts, AP!Tallies
  <2>2. phase = "measure"
    BY <1>1, <2>1 DEF HoldsOK
  <2> QED
    BY <1>7, <2>1, <2>2, MixRecord DEF MixOK
<1>8. ASSUME NEW w \in Workers, Proceeds(w)
      PROVE  MixOK'
  BY <1>4, <1>8 DEF Proceeds, WorkerTakes, WorkerQuits, ThinkEnds, CallBegins, mainVars
<1>9. PhaseBegins /\ Aside => MixOK'
  BY <1>4 DEF PhaseBegins, Aside
<1>10. ASSUME Join, Aside
       PROVE  MixOK'
  <2>1. UNCHANGED <<aggVars, pickVars>> /\ phase' = "measure"
    BY <1>10 DEF Join, Aside
  <2>2. CASE phase = "warmup"
    <3>1. skipped = drawn /\ drawn \in Nat
      BY <1>1, <2>2, MixAssumption DEF RunTypeOK, DrawnOK
    <3>2. \A w \in Workers : wtool[w] = None /\ rpc[w] = "idle"
      BY <1>1, <1>10 DEF Join, HoldsOK
    <3>3. ASSUME NEW t \in Tools
          PROVE  DrawnOf(t) = {} /\ Pending(t) = {} /\ Count(t) = 0
      <4>1. t # None
        BY NamesAssumption
      <4> QED
        BY <2>2, <3>1, <3>2, <4>1 DEF DrawnOf, Pending, AP!Awaits, MixOK
    <3> QED
      BY <1>2, <1>3, <2>1, <3>3, FS_EmptySet DEF MixOK
  <2>3. CASE phase = "measure"
    BY <1>4, <2>1, <2>3
  <2> QED
    BY <1>1, <2>2, <2>3 DEF Phases
<1>11. Quiet => MixOK'
  BY <1>4 DEF Quiet, Aside
<1>12. CmdStep => UNCHANGED <<vars, aggVars, pickVars>>
  BY Zenon DEF CmdStep, Summarizes, FormatRefused, FormatParsed, CreateFails, Created, Written,
     WriteFails, Closes
<1>13. CmdStep \/ UNCHANGED allVars => MixOK'
  BY <1>4, <1>12 DEF allVars, vars, mainVars
<1> QED
  BY <1>1, <1>5, <1>6, <1>7, <1>8, <1>9, <1>10, <1>11, <1>13, RunSteps

LEMMA MixStart == RunInit => MixOK
<1> SUFFICES ASSUME RunInit PROVE MixOK
  OBVIOUS
<1>1. AP!Init /\ drawn = 0 /\ skipped = 0 /\ \A w \in Workers : wtool[w] = None
  BY AggSections DEF RunInit
<1>2. ASSUME NEW t \in Tools
      PROVE  DrawnOf(t) = {} /\ Pending(t) = {} /\ Count(t) = 0
  <2>1. t # None
    BY NamesAssumption
  <2> QED
    BY <1>1, <2>1 DEF DrawnOf, Pending, Count, AP!Awaits, AP!Of, AP!Init, AP!NewToolStats
<1> QED
  BY <1>2, FS_EmptySet DEF MixOK

LEMMA MixHolds == RunSpec => []MixOK
  BY RunInvHolds, MixStart, MixStays, PTL DEF RunSpec

(* SeedFixesTheMix: however the workers are scheduled, the lines of the    *)
(* report count the draws that follow those of the warmup, each once.      *)
LEMMA MixReported ==
  ASSUME RunInv, MixOK, BudgetMeasured
  PROVE  SeedFixesTheMix
<1> SUFFICES ASSUME summary # None
             PROVE  /\ \A t \in Tools :
                         Cardinality(DrawnOf(t))
                           = IF t \in DOMAIN summary.perTool THEN summary.perTool[t].latency.count ELSE 0
                    /\ Requests > 0 /\ ~ctxDone => drawn = skipped + Requests
  BY DEF SeedFixesTheMix, DrawnOf
<1>1. main = "returned" /\ summary = SummarizeAll(stats, tools) /\ phase = "measure"
  BY DEF RunInv, RunTypeOK, StagesOK, Inv, FreshOK
<1>2. \A w \in Workers : wtool[w] = None /\ rpc[w] = "idle"
  BY <1>1 DEF RunInv, Inv, ShapeOK, RestOK, RunTypeOK, HoldsOK
<1>3. ASSUME NEW t \in Tools
      PROVE  Cardinality(DrawnOf(t))
               = IF t \in DOMAIN summary.perTool THEN summary.perTool[t].latency.count ELSE 0
  <2>1. t # None
    BY NamesAssumption
  <2>2. Pending(t) = {}
    BY <1>2, <2>1 DEF Pending, AP!Awaits
  <2>3. Cardinality(DrawnOf(t)) = Count(t)
    BY <1>1, <2>2, MixTypes, FS_EmptySet DEF MixOK
  <2>4. tools \in [Tools -> (2..Len(stats)) \cup {None}] /\ Len(stats) \in Nat
    BY DEF RunInv, AP!TypeOK
  <2>5. CASE tools[t] = None
    <3>1. t \notin DOMAIN summary.perTool
      BY <1>1, <2>5, NamesAssumption DEF SummarizeAll
    <3> QED
      BY <2>1, <2>3, <2>5, <3>1 DEF Count, AP!Of, AP!NewToolStats
  <2>6. CASE tools[t] # None
    <3>1. t \in DOMAIN tools /\ tools[t] \in 1..Len(stats)
      BY <2>4, <2>6
    <3>2. t \in DOMAIN summary.perTool /\ summary.perTool[t] = ToolSummary(stats[tools[t]])
      BY <1>1, <3>1 DEF SummarizeAll
    <3>3. Count(t) = stats[tools[t]].count
      BY <2>1, <2>6 DEF Count, AP!Of
    <3> QED
      BY <2>3, <3>2, <3>3, LineFigures
  <2> QED
    BY <2>5, <2>6
<1>4. ASSUME Requests > 0, ~ctxDone
      PROVE  drawn = skipped + Requests
  <2>1. Drawing = {}
    BY <1>2 DEF Drawing
  <2>2. /\ Requests \in Nat /\ Requests <= Bound /\ Iters = 1..Bound /\ Bound \in Nat
        /\ obs["measure"] \in [Iters -> Seq(Outcomes)]
    BY WorkloadAssumption DEF Bound, Iters, RunInv, Inv, TypeOK, DataOK, Phases
  <2>3. \A i \in Iters : obs["measure"][i] # <<>> <=> i <= Requests
    BY <1>1, <1>4, <2>2 DEF BudgetMeasured
  <2>4. Touched = 1..Requests
    BY <1>1, <2>1, <2>2, <2>3 DEF Touched, Noted
  <2>5. Cardinality(Touched) = Requests
    BY <2>2, <2>4, FS_Interval
  <2> QED
    BY <1>1, <2>5 DEF RunInv, RunTypeOK, DrawnOK
<1> QED
  BY <1>3, <1>4

THEOREM SeedKept == RunSpec => []SeedFixesTheMix
  BY RunInvHolds, MixHolds, CommandKeepsJobs, MixReported, PTL
=============================================================================
