------------------------------- MODULE RunCommand -------------------------------
(***************************************************************************)
(* runExecute of internal/cli/run.go once it has built its transport, as   *)
(* the composition of its parts: it lets the orchestrator run, makes the   *)
(* summary of the aggregator, chooses the format, opens and writes the     *)
(* output, closes the transport and exits.                                 *)
(* A worker of Orchestrator draws its tool from the picker they share, and *)
(* records what it observes through the critical sections of Aggregator,   *)
(* which has it until the last of them is done.                            *)
(***************************************************************************)
EXTENDS Orchestrator, Summary

CONSTANTS Tools, None,  \* see Aggregator
          CallErrs,     \* the errors of a call that are no timeout
          Mix,          \* Mix[k]: the tool of the k-th draw, which the seed determines
          Formats       \* what --output may say: formats, or "unknown"

ASSUME FormatsAssumption == Formats \subseteq {"human", "json", "csv", "prom", "unknown"}
ASSUME NamesAssumption == IsFiniteSet(Tools) /\ None \notin Nat /\ None \notin Tools
ASSUME CallErrsAssumption == CallErrs \subseteq Seq(Links) \ {<<>>}
ASSUME MixAssumption == Mix \in Seq(Tools) /\ Len(Mix) >= Bound + MaxIter

VARIABLES
  stats, tools, calls, rpc, arg, ts, \* the aggregator of the measurement; rpc is its pc
  drawn,   \* how many tools the picker has given out
  skipped, \* how many of them the warmup has taken
  wtool,   \* wtool[w]: the tool worker w has drawn, or None
  cmd,     \* the next step of runExecute
  format,  \* what --output says, looked at only after the run, or None
  summary, \* the summary, or None
  output,  \* what is in the output: nothing, a part of the report or all of it
  open,    \* the transport has not been closed
  code     \* the exit code, or None

Agg == INSTANCE Aggregator WITH pc <- rpc, Durations <- {0}, Size <- 1, MaxRecords <- Bound + MaxIter,
         Errs <- {<<>>, <<"TimeoutError", "deadline">>, <<"TemplateError", "plain">>} \cup CallErrs

aggVars  == <<stats, tools, calls, rpc, arg, ts>>
pickVars == <<drawn, skipped, wtool>>
cmdVars  == <<cmd, format, summary, output, open, code>>
allVars  == <<vars, aggVars, pickVars, cmdVars>>

RunInit == /\ Init /\ Agg!Init
           /\ drawn = 0 /\ skipped = 0
           /\ wtool = [w \in Workers |-> None]
           /\ cmd = "running" /\ format = None
           /\ summary = None /\ output = "nothing"
           /\ open = TRUE /\ code = None

-----------------------------------------------------------------------------
(* orchestrator.Run, with the picker and the aggregator in place.          *)
Free(w) == rpc[w] = "idle"

(* Mutant: the warmup shares the aggregator of the measurement.            *)
RecordsAll(w, err) ==
  Agg!RecordBegins(w, [tool |-> wtool[w], dur |-> 0, err |-> err])

(* The observations of the warmup go to an aggregator that nobody reads.   *)
Records(w, err) ==
  IF phase = "measure"
  THEN Agg!RecordBegins(w, [tool |-> wtool[w], dur |-> 0, err |-> err])
  ELSE UNCHANGED aggVars

(* Mutant: two workers may read the picker before either advances it.      *)
DrawsRacing(w) ==
  /\ wpc[w] = "rendering" /\ wtool[w] = None
  /\ wtool' = [wtool EXCEPT ![w] = Mix[drawn + 1]]
  /\ drawn' = IF \E v \in Workers \ {w} : wpc[v] = "rendering" /\ wtool[v] # None
              THEN drawn ELSE drawn + 1
  /\ skipped' = IF phase = "warmup" THEN drawn' ELSE skipped
  /\ UNCHANGED <<vars, aggVars, cmdVars>>

(* nextTool, under pickerMu.                                               *)
Draws(w) ==
  /\ wpc[w] = "rendering" /\ wtool[w] = None
  /\ wtool' = [wtool EXCEPT ![w] = Mix[drawn + 1]]
  /\ drawn' = drawn + 1
  /\ skipped' = IF phase = "warmup" THEN drawn' ELSE skipped
  /\ UNCHANGED <<vars, aggVars, cmdVars>>

(* Mutant: the tool of a job is left for the next.                         *)
PutsNothing(w) == UNCHANGED pickVars

Puts(w) == wtool' = [wtool EXCEPT ![w] = None] /\ UNCHANGED <<drawn, skipped>>

(* The template cannot be rendered; or the call returns: without an error, *)
(* in its transport or in the body of its response; because its context is *)
(* done; or with another error.                                            *)
Fails(w) ==
  /\ wtool[w] # None
  /\ TemplateFails(w) /\ Records(w, <<"TemplateError", "plain">>) /\ Puts(w)
  /\ UNCHANGED cmdVars

TimesOut(w) ==
  /\ CallReturns(w, "timeout") /\ Records(w, <<"TimeoutError", "deadline">>) /\ Puts(w)
  /\ UNCHANGED cmdVars

Succeeds(w) ==
  /\ CallReturns(w, "ok") /\ Records(w, <<>>) /\ Puts(w)
  /\ UNCHANGED cmdVars

CallFails(w) ==
  /\ CallReturns(w, "error")
  /\ \E err \in CallErrs : Records(w, err)
  /\ Puts(w)
  /\ UNCHANGED cmdVars

(* Steps that leave the picker and the aggregator alone; a worker returns  *)
(* to its loop when it has recorded.                                       *)
Proceeds(w) ==
  /\ Free(w)
  /\ WorkerTakes(w) \/ WorkerQuits(w) \/ ThinkEnds(w) \/ (wtool[w] # None /\ CallBegins(w))
  /\ UNCHANGED <<aggVars, pickVars, cmdVars>>

AggStep(w) == Agg!RecordStep(w) /\ UNCHANGED <<vars, pickVars, cmdVars>>

RunMain == /\ cmd = "running" /\ MainStep
           /\ UNCHANGED <<aggVars, pickVars, cmdVars>>

(* The timers: the ticker, the phase's and the call's.                     *)
Ticker     == cmd = "running" /\ TickerFires /\ UNCHANGED <<aggVars, pickVars, cmdVars>>
PhaseTimer == cmd = "running" /\ PhaseExpires /\ UNCHANGED <<aggVars, pickVars, cmdVars>>
Timer(w)   == cmd = "running" /\ CallTimerFires(w) /\ UNCHANGED <<aggVars, pickVars, cmdVars>>

(* The first signal cancels the context; the goroutine that has read it is *)
(* gone, and no later one has an effect.                                   *)
Interrupt == /\ cmd # "exited" /\ RunCancelled
             /\ UNCHANGED <<aggVars, pickVars, cmdVars>>

-----------------------------------------------------------------------------
(* runExecute after orchestrator.Run, which returns no error here: an end  *)
(* of its context is none.  Every return passes the deferred Close.        *)
Moves(from, to) == cmd = from /\ cmd' = to
Exits(from, c)  == Moves(from, "close") /\ code' = c

Summarizes ==
  /\ main = "returned"
  /\ Moves("running", "format")
  /\ summary' = SummarizeAll(stats, tools)
  /\ UNCHANGED <<vars, aggVars, pickVars, format, output, open, code>>

FormatRefused ==
  /\ "unknown" \in Formats
  /\ Exits("format", 1)
  /\ format' = "unknown"
  /\ UNCHANGED <<vars, aggVars, pickVars, summary, output, open>>

FormatParsed ==
  /\ Moves("format", "create")
  /\ format' \in Formats \ {"unknown"}
  /\ UNCHANGED <<vars, aggVars, pickVars, summary, output, open, code>>

(* Of a file; stdout is there.                                             *)
CreateFails ==
  /\ Exits("create", 1)
  /\ UNCHANGED <<vars, aggVars, pickVars, format, summary, output, open>>

Created ==
  /\ Moves("create", "write")
  /\ UNCHANGED <<vars, aggVars, pickVars, format, summary, output, open, code>>

(* Every write of the report has succeeded; the close of the file is not    *)
(* looked at.                                                              *)
Written ==
  /\ Exits("write", 0)
  /\ output' = "whole"
  /\ UNCHANGED <<vars, aggVars, pickVars, format, summary, open>>

(* Mutant: no writer looks at the errors of its output.                    *)
WriteFailsUnseen ==
  /\ Exits("write", 0)
  /\ output' = "part"
  /\ UNCHANGED <<vars, aggVars, pickVars, format, summary, open>>

(* WritePrometheus drops the errors of its output.                         *)
WriteFails ==
  /\ Exits("write", IF format = "prom" THEN 0 ELSE 1)
  /\ output' = "part"
  /\ UNCHANGED <<vars, aggVars, pickVars, format, summary, open>>

Closes ==
  /\ Moves("close", "exited")
  /\ open' = FALSE
  /\ UNCHANGED <<vars, aggVars, pickVars, format, summary, output, code>>

CmdStep == \/ Summarizes \/ FormatRefused \/ FormatParsed \/ CreateFails
           \/ Created \/ Written \/ WriteFails \/ Closes

-----------------------------------------------------------------------------
WorkStep(w) == Draws(w) \/ Fails(w) \/ TimesOut(w) \/ Proceeds(w) \/ AggStep(w)

Exited == cmd = "exited" /\ UNCHANGED allVars

RunNext == \/ RunMain \/ Ticker \/ PhaseTimer \/ Interrupt \/ CmdStep \/ Exited
           \/ \E w \in Workers : WorkStep(w) \/ Timer(w) \/ Succeeds(w) \/ CallFails(w)

RunSpec == RunInit /\ [][RunNext]_allVars

(* The scheduler never leaves all goroutines waiting that can go on, nor   *)
(* the clock all timers that run.  In particular a call whose context is   *)
(* done returns, and so does Close.                                        *)
Goroutines  == RunMain \/ CmdStep \/ \E w \in Workers : WorkStep(w)
Timers      == Ticker \/ PhaseTimer \/ \E w \in Workers : Timer(w)
RunFairness == WF_allVars(Goroutines) /\ WF_allVars(Timers)

RunFairSpec == RunSpec /\ RunFairness
=============================================================================
