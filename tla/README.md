# A formal model of mcpbench

mcpbench is a load generator for MCP servers. It reads a scenario, opens a
transport to the server (a subprocess over stdio, or HTTP with optional event
streams), drives a pool of workers through a warmup and a measurement, collects
latencies and outcomes, prints a summary, and gates a candidate run against a
baseline. These modules model that program, check it with TLC on small
instances, and prove its central properties with TLAPS for every instance.

## 1. The system

| component | source | state | operations | modules |
|---|---|---|---|---|
| stdio transport | `internal/transport/stdio.go`, `internal/jsonrpc` (ids) | `pending` map, `writeMu`, `closed`, id pool, pipes, process | `Call`, `Close`, `readLoop`/`deliver`, the `cmd.Wait` goroutine | `StdioTransport` |
| HTTP transport | `internal/transport/http.go` | `closed`; per call a connection and the variables of `parseSSE` | `Call`, `Close`, `parseSSE` | `HttpTransport`, `Sse` |
| interface of both | `internal/transport/transport.go` | what a caller sees | `Call`, `Close` | `Transport` |
| orchestrator | `internal/orchestrator/orchestrator.go` | phase, contexts, counter, ticker, job channel, workers | `Run`, `generate`, `worker`, `executeOne` | `Orchestrator` |
| metrics | `internal/metrics/metrics.go` | map of tools, rings, counters | `Record`, `SummarizeAll` | `Ledger`, `Aggregator`, `Summary` |
| scenario | `internal/scenario/scenario.go` | the scenario | `Validate`, `Picker.Next`, `CallTimeout`, `RenderArgs` | `Scenario`, `Render` |
| command line | `internal/cli/run.go`, `compare.go` | the scenario under construction, the context, the summary, the output | overrides, `buildTransport`, `parseSpawn`, `runExecute`, the exit codes | `Scenario`, `Spawn`, `RunCommand`, `Compare` |
| compare | `internal/compare/compare.go` | two run files | `ParseThreshold`, `Compare`, `diffTool` | `Compare` |
| error categories | `internal/errors/errors.go` | none | `Classify` | `Errors` |
| report | `internal/report/report.go` | none | `ParseFormat`, the writers | `Report`, `RunCommand` |
| testmock | `internal/transport/testmock` | a server for tests | | covered by the server actions of `StdioTransport` |

How they interact: `runExecute` (cli) loads and overrides a scenario, builds a
transport under a context that an interrupt cancels, and hands both to
`orchestrator.Run`. The workers call `Transport.Call` concurrently, each with a
context of its own that derives from that of the phase, and pass the outcome to
`Aggregator.Record`, which counts it under the category that `Classify` finds
in its chain of wrapped errors. When `Run` has returned, the summary is made and
written, and the deferred `Close` runs. Nothing is persisted during a run, so
there is no crash recovery; run files are written at the end and read by
`compare`.

What is hard, and what correctness means:

* **stdio transport.** Callers, the reader, `cmd.Wait` and closers share a map,
  a lock and one-slot channels. An answer, its duplicate, a deadline and `Close`
  race for the same entry; the reader's final sweep races with registrations;
  the server may crash, wedge, fork or speak out of turn. Correct: no wakeup or
  result is lost or misrouted, no entry leaks, `Close` leaves nothing behind and
  releases everyone, deadlines hold.
* **HTTP transport.** Little is shared; the hazards are the many return paths of
  `Call`, the context that ends in the middle of one, and frames of an event
  stream in an awkward order.
* **orchestrator.** The generator, the workers, the end of the phase and an
  interrupt interleave; jobs wait in a channel that is closed under them.
  Correct: each job is recorded once, the budget is measured exactly, `Run`
  returns.
* **metrics.** `Record` is three critical sections and a creation race over a
  ring that wraps. Correct: the window is the latest samples, and all counts
  agree.
* **the command.** The report is made while timers and the signal handler are
  still alive, from what workers have recorded in several steps each. Correct:
  it is true of the measurement and of nothing else, its mix of tools is a
  matter of the seed and not of the scheduler, and the exit code says whether it
  is there.
* **errors.** One error wraps several causes; what each transport wraps and the
  order of `Classify` together decide how a call is counted.
* **scenario, cli, compare, report.** Sequential, with boundaries: exclusive options,
  default weights written during validation, picks at a running total, quoting,
  comparisons with zero, names with characters that the output forbids.

`PROJECT.json` lists the hazards at their lines with the properties that watch
them.

## 2. The modules

Each component has a module with its state and one action per step of the code
that other goroutines can observe (or, for sequential code, an operator), a
`...Props` module with its properties and invariants, an `MC...` module for TLC
(one, `MCFunctions`, for all sequential algorithms, with an input as the state;
their properties side by side are `FunctionProps`), and a module of proofs
(`...Proofs`; one, `FunctionProofs`, for all sequential algorithms, with the
theory of those that read or write text in `TextProofs`, and what all need of
sums, folds and finite sets in `SetTheorems`). Definitions have the names of the code
where they can; a comment `Mutant:` marks a variant with a plausible bug, kept
beside the definition it varies to show that a property notices the difference.

**Transport** is the contract of the interface, for any implementation: a call
begins only while the transport is open; it succeeds only if it was answered,
times out only if its context is done, and fails only if the transport is
closed, its connection lost or its params not encodable. `Strays` says whether
the server issues requests with ids of its own, which `deliver` cannot tell from
responses.

**StdioTransport** models each shared-memory or system-call step of `Call` (the
`closed` check and id, `Store`, the lock, the `Write`, the final `select`), of
the reader (`LoadAndDelete`, the non-blocking send, the final `Range` entry by
entry), of `Close` (the flag, stdin, SIGTERM, the grace period, SIGKILL, the
joins) and of `cmd.Wait`. A frame is its kind, its id and the request it
answers. The subprocess is outside the program: it reads, answers, emits lines
unasked, exits or leaves a descendant, at will. `Range` has the guarantee
sync.Map documents: entries present throughout are visited, later ones may be.

**HttpTransport** models every return path of `Call`. `net/http` is external: it
gives an error, a response, or an end of the body, and abandons an exchange some
time after its context is done. **Sse** is `parseSSE` as a fold over lines, of
which only the role matters (blank, comment, event name, data that is a frame
with our id, with another id, or a piece of one); `HttpTransport` runs it a line
at a time as they arrive.

**Errors** is `Classify`: an error is the sequence of the links of its chain,
and the tests are rules in their order, the first that finds one of its links
decides. `HttpTransport` returns such chains from each path of `Call`, with
`net/http` giving the cause (the deadline, the cancellation, or the network);
`Aggregator` counts them; `Render` makes those of templates and encodings.

**Orchestrator** models the goroutine of `Run` (phases, the loop of `generate`,
the blocking send, closing and joining), the workers, the ticker and the three
levels of contexts. Time is abstract: a timer that is running may fire. The
transport appears by its contract: a call whose context is done can return a
timeout, and any call can return anything else.

**Aggregator** models `Record` as the steps between its mutexes, over a list of
statistics (so that the overwritten creation would be visible). **Ledger** says
what it promises: a window of the latest samples, a count of all, a tally per
category and per JSON-RPC code. **Summary** is what is made of the statistics:
quantiles, extremes, mean, error rate, breakdown. The code takes the ceiling of
a floating-point product p*n; for p of 0.5, 0.9, 0.95 and 0.99 that equals the
ceiling of the rational product for every n up to one million, computed
separately, so the module uses integers. Sorting is written as the place that
each sample takes, by value and then by position; only the sequence of values is
used, which is that of every sorting algorithm.

**RunCommand** is `runExecute` from the moment it has a transport. It puts the
shared picker and `Aggregator` in the places where `Orchestrator` has an atomic
record and a job without a tool: a worker takes the next tool of the sequence
that the seed determines (`Mix`), and is not free for its next job before its
last critical section of `Record` is done. After `Run` come the summary, the
format, the output file, the writer, `Close` and the exit, each a step, each of
which may fail where the code can. The signal handler may cancel at any moment.

**Scenario** is validation, overrides, the choice of transport, the picker, the
number of workers and the timeouts, as operators; **Render** is `RenderArgs`
over trees of maps, lists and templates known by whether they render, with the
encoding of the request and `extractRPCError` after it. The recursion of
`renderValue` is a recursive function on the values within the arguments, which
are reached level by level down to `MaxDepth`; **Spawn** is `parseSpawn` as a fold over characters,
"a" standing for all that are not special, and `SpawnProps` writes the arguments
of a command in pieces, each as it is, escaped or quoted, so that a quote or an
escape may begin and end anywhere in one; **Report**
is the exposition text, a sequence of characters in which names keep those that
could break it; **Compare** is the gate with its flags, with
quotients of floats compared by cross multiplication (so rounding at an exact
boundary is not modelled).

Composition: `StdioTransportProps` and `HttpTransportProps` instantiate
`Transport` under a refinement mapping, so both are held to one contract, and
`Orchestrator` relies on that contract and on nothing else of a transport.
`AggregatorProps` instantiates `Ledger`. `HttpTransport` extends `Sse` and
`Errors`. `RunCommand` extends `Orchestrator` and `Summary` and instantiates
`Aggregator`; every step of it is a step of the orchestrator, of the aggregator,
of both (a worker begins to record) or of the command.

## 3. What is checked

| run | question | result |
|---|---|---|
| `stdio_safety` | Do the goroutines implement `Transport`, whatever the server emits; is a result, a wakeup or an entry ever lost or leaked; what does Close leave behind? | holds |
| `stdio_progress` | Do concurrent Closes return when SIGTERM is ignored; does a failing reader wake the waiters; does a call return once its context is done? | holds |
| `stdio_release` | Between two calls: is an answer ever misrouted; does the final Range miss a call; does Close release a caller blocked in `Write` and one waiting for the lock, without deadlines? | holds |
| `stdio_wedged_write` | Does a call return once its context is done, with a full pipe? | violated |
| `stdio_oversized` | Is a call after an oversized line a transport error? | violated |
| `stdio_close_hangs` | Does Close return with `Silent` and a descendant that holds stderr? | violated |
| `orch_budget` | Is each job recorded once, and the budget measured exactly, under cancellation at any moment? | holds |
| `orch_progress` | Is the report of the command true of what the workers observed in the measurement; is its mix that of the seed; does the exit code tell; does `Run` return and the command exit? | holds |
| `orch_phase_timeout` | Is a recorded timeout that of the call? | violated |
| `agg_safety` | Do windows, counters, tallies and the histogram of codes agree under creation races and wrap-around? | holds |
| `http` | Does the HTTP transport implement `Transport`; does a call return once its context is done, whatever the server withholds; is a call that only its deadline ended counted as a timeout on every path? | holds |
| `functions` | `SummaryProps`: are the quantiles those of the nearest-rank definition, and is the mean between the extremes? `SseProps`: does the last frame for the call win? `ScenarioProps`: can what passes validation be run as the command line says, and are picks in proportion? `SpawnProps`: is every list of arguments recovered, with quotes and escapes anywhere in them? `CompareProps`: is the gate monotonic, and does a run pass against itself? `RenderProps`: is a call counted for what was wrong with its arguments or response? `ReportProps`: can a scraper read every series below its type, whatever the names? | holds |

The violated properties state what a document or comment of the repository
says; each is a finding in `PROJECT.json`, with the line it quotes:

* `Write` is not bound by the context: a server that stops reading holds one
  caller in `Write` and all others at the lock, past their deadlines.
* After an oversized line nobody reads the server's output, and later calls time
  out instead of failing.
* With `Silent`, `Close` waits for whoever holds the server's stderr, even after
  SIGKILL.
* The end of a timed measurement records the calls in flight as timeouts.

Other divergences are in the models but have no run of their own:

* A target rate is called open-model (`README.md:166`), but the generator waits
  for room in the job channel and drops the ticks meanwhile.
* `.Iter` is called monotonic (`README.md:187`), but starts again after the
  warmup.
* `HTTP.Close` closes idle connections only; a call in flight waits for its
  context.
* An event stream cut off by its context is returned as a `TransportError`,
  where the other paths of `HTTP.Call` return a `TimeoutError`. `Classify` looks
  for the deadline first, so a deadline is counted as a timeout all the same
  (`DeadlinesAreTimeouts`); an interrupt is counted as a transport error on this
  path and as a timeout on the others.
* A comment at `orchestrator.go:62` calls tool selection and `.Rand` reproducible
  with a seed. The warmup draws from the same streams, as often as it has time
  for, so the measurement begins at a draw that depends on time. What holds is
  `SeedFixesTheMix`: the mix is that of the draws that follow.
* `WritePrometheus` drops the errors of its writer, so of the format `prom` a
  part of the report and an exit code of 0 go together; `ExitTells` excepts it.
* The error of closing the output file (`run.go:149`) is dropped as well, so a
  write that the system reports only then is not in the exit code. `ExitTells` is
  about the writes.
* A response whose `error` has another shape than code and message is counted as
  a success.
* A tool called `__overall__`, or two whose names differ in replaced characters
  only, give the same series twice; `ExpositionScrapes` speaks of the others.
* A second `Close` of the stdio transport returns at once, while the first may
  still be at work. No document says that it waits, and no property does;
  `CloseComplete` and `CloseReturns` speak of the one that shuts down.
* `LoadRun` does not look at the version: any JSON passes as a run, one without
  observations if it has no summary.
* Over a p95 of zero no relative threshold of zero or more is ever exceeded.

### Bounds, and why they are enough

* **stdio**: the races are between a call and another actor, or between two
  calls for the id pool, the map, the lock or the pipe. `stdio_safety` has the
  first kind: one call and one that cannot be encoded, two closers, a descendant
  of the server, and one unasked line (`MaxNoise`), which can be a duplicate, a
  stray request with the id of a pending call, junk or an oversized line.
  `stdio_release` has the second kind: two calls, a pipe of one line that is
  full for the second of them, and a closer. In `stdio_progress` one call has
  room to write; `stdio_wedged_write` shows what happens without. Two calls
  beside two closers and unasked lines have no run; the proofs, which have none
  of these bounds, cover them.
* **orchestrator**: two workers give a channel of four; a budget of five
  overfills it, with the ticker and the think time on. `MaxIter` bounds the jobs of a
  timed phase, after which its duration must be over; the proofs hold for every
  value.
* **command**: two workers, a warmup that ends after one call at most or none, a
  budget of two: enough for a call of the warmup to be recorded late, for two
  workers to draw, to create statistics and to record side by side, and for a
  measurement to begin at either of two draws. The tools alternate in an order in
  which each window of three is distinct. Reservoirs have one place: of the
  latencies only their number is asked.
* **metrics**: two workers, two tools and rings of two with four records give
  every creation race and a ring that wraps twice. `SummaryProps` takes all
  sequences up to length five over three values, and one of each length up to
  121, past the 100 from which every quantile has a rank of its own.
* **HTTP**: calls share only the `closed` flag, so two calls suffice, one of
  which cannot be encoded; streams of three lines hold a frame, its end and one
  disturbance. `SseProps` takes all streams of up to five lines.
* **scenario**: each number below, at and above 0, in the file and on the
  command line, with the file's and the flags' positive values different; a
  `--spawn` that is not given, of spaces only, left open, or with a first part
  that is blank or a program, and every kind of type and URL; weights up to three for up to four tools. Rates are in halves of a request per
  second, so that one of them is cut to zero, and go past four per CPU.
* **arguments**: maps of up to two values, each a leaf or a container of up to
  two leaves, and chains of single values three deep (`MaxDepth`), so that an
  error passes through a map that wraps it, a list that does not and a mapping
  that is not looked into, in any order; with every kind of response.
* **names**: up to two characters of the six kinds, for up to two tools, in a
  scenario with a name of one.
* **spawn**: up to three pieces, each a plain character, any character escaped,
  or up to one character in either kind of quotes; each piece an argument of its
  own, or two or all three of them one argument, so that a quote or an escape
  stands at the beginning, in the middle and at the end of an argument, alone and
  beside another; one blank or a tab and a blank between the arguments, and around
  the command the same or nothing.
* **compare**: two tools and the overall entry; p95 of 0, 10 or 13, so that the
  changes lie on both sides of each threshold; one flag given at a time, with a
  negative, zero or positive threshold, or refused; each with a report that is
  written, that its writer refuses, and of an unknown format.

### Fairness

Safety is checked without fairness. `FairSpec` assumes that the program's own
goroutines are scheduled (weak fairness of each one's next step), that the
kernel carries out SIGKILL, that `exec.CommandContext` kills the process of a
cancelled context and that `net/http` abandons the exchange of one. `RunFairSpec` has two conditions only: the goroutines of the command are not all
left waiting while one can go on, and neither are the running timers. Among the
steps of a goroutine is the return of a call whose context is done, which is what `DeadlineHonoured` establishes of both
transports (of stdio while the pipe has room). No deadline is assumed: the
properties of calls begin with a context that is done. Nothing is assumed of
the server: it need not read, answer, end a body or heed SIGTERM; nor must the
user cancel. `Close` is taken to return in `RunCommand`; `stdio_close_hangs`
shows when it does not.

## 4. What is proved

The theorems hold for every number of calls, workers, tools, records and
requests, every pipe and ring capacity, every stream, file and command line, and
every behaviour of the server, with only the named assumptions on constants.

| theorem | module | says |
|---|---|---|
| `TypeCorrect` | `StdioTransportProofs` | `TypeOK` |
| `WakeupsKept`, `EntriesReclaimed`, `ResultsKept`, `DrainComplete` | `StdioTransportProofs` | `NoLostWakeup`, `NoLeakedEntry`, `NoDroppedResult`, `NoneStranded` |
| `DemuxCorrect`, `NothingLeft` | `StdioTransportProofs` | `ResultIsMine`, `CloseComplete` |
| `StdioImplementsContract` | `StdioTransportProofs` | the stdio transport implements `Transport` |
| `TypeCorrect`, `DeadlinesCounted` | `HttpTransportProofs` | `TypeOK`, `DeadlinesAreTimeouts` |
| `HttpImplementsContract` | `HttpTransportProofs` | the HTTP transport implements `Transport` |
| `TypeCorrect`, `JobsKept`, `BudgetKept` | `OrchestratorProofs` | `TypeOK`, `JobsAccounted`, `BudgetMeasured` |
| `TypeCorrect`, `SamplesKept`, `CodesKept`, `BooksKept` | `AggregatorProofs` | `TypeOK`, `SamplesCounted`, `CodesCounted`, `BooksBalance` |
| `ImplementsTheLedger` | `AggregatorProofs` | the aggregator implements `Ledger` |
| `RunsTheOrchestrator`, `CommandKeepsJobs` | `RunCommandProofs` | the command implements `Orchestrator`; `JobsAccounted` and `BudgetMeasured` hold of it |
| `RunsTheAggregator`, `CommandKeepsBooks` | `RunCommandProofs` | the command implements `Aggregator`; `BooksBalance` and `SamplesCounted` hold of it |
| `RunTypeCorrect`, `ExitKept` | `RunCommandProofs` | `RunTypeOK`, `ExitTells` |
| `ReportKept`, `SeedKept` | `RunCommandProofs` | `ReportTrue`, `SeedFixesTheMix` |
| `WorseNeverPasses`, `LooserNeverFails`, `GateMonotonic` | `FunctionProofs` | the verdict is monotonic in the candidate and in the flags; `GateIsMonotonic` |
| `SelfPasses`, `SelfKept` | `FunctionProofs` | a run passes against itself; `SelfIsClean` |
| `PreparedKept`, `BreakKept`, `PicksKept` | `FunctionProofs` | `PreparedRuns`, `OnlyFlagsBreak`, `PicksAreWeighted` |
| `QuantilesKept`, `OrderKept` | `FunctionProofs` | `QuantilesRight`, `SummaryOrdered` |
| `LastFrameKept`, `SpawnKept`, `ScrapesKept` | `FunctionProofs` | `LastFrameWins`, `SpawnRoundTrips`, `ExpositionScrapes`, for texts of any length |
| `CallsKept` | `FunctionProofs` | `CallsCountForTheirCause`, for arguments of any width, nested to any depth |
| `AllIncluded` | `FunctionProofs` | the inputs that TLC explores are among those of the theorems |

The assumptions: constants have their types; `None` and `NoJob` are not calls,
tools or numbers; the workers are finite and, for the orchestrator, at least
one, and the tools are finite; a ring has a place; an error that a transport
returns is a chain of known links with at least one; `MaxIter` and the seed's
sequence are as long as the run draws. The names of the assumptions say which
(`NoneAssumption`, `SizeAssumption`, `CallErrsAssumption`, `MixAssumption`, ...).
The theorems of `FunctionProofs` have one hypothesis, `GateNumbers`: the numbers
by which the steps of the gate make a candidate worse or a flag looser are
natural numbers. `CallsKept` adds that `MaxDepth` is one, and `AllIncluded` that
all bounds of the run are, with a `MaxDepth` of at least 3, the depth of its
deepest arguments.

**The multiplexer.** None of the four properties is inductive. `MuxInv` adds
what makes them so: ids are distinct and positive once given (`IdsOK`); an entry
of `pending` carries the id of its call, and its channel is empty unless the
sweep is at it (`EntriesOK`); a call without an entry has an empty channel
(`ChannelsOK`); between `LoadAndDelete` and the send, and between the wake and
the delete of the sweep, the reader alone holds the channel (`ReaderOK`); the
sweep owes nothing to a call that registers after it began (`OwedOK`). Three
facts carry it: an id is never reused, so an entry names its call; whoever
takes an entry out of the map is the only one to send; and only the call itself
receives.

**Results and Close.** `FramesOK` follows a request through stdin, the server,
stdout, the reader and the channel: whatever reaches a channel is meant for its
call. `CloseInv` says that one closer shuts the transport down and that once
`closed` is set either it is at work or everything is joined.

**The contract.** With these invariants each step of the goroutines maps to a
step of `Transport` or to a stutter (`ContractStep`); the map sends a call to its
status as the caller sees it, and `broken` to the loss of the process, of a pipe
or of the reader.

**HTTP.** `TypeOK` is inductive once it says what each stage of a call has
already fixed: before the exchange there is no connection, after it the response
is of the kind that is being read (`StageOK`); and a piece of a frame in the
hands of `parseSSE` came with a line of the call's own stream (`ReadOK`). With
it each return path, one at a time, gives an error that the contract allows, and
a chain whose first matching test is the deadline whenever nothing but a
deadline ended the call.

**The orchestrator.** `JobInv` says that a worker holds a job exactly while it
executes it, that no worker survives a phase, that an unstarted phase has no
observations, that the counter stops at the budget, and that a worker leaves an
uncancelled phase only when the channel is closed and empty. `Accounted(n)` is
the heart of it: the n jobs sent are split, in order, between those recorded
once, those held by one worker each, and the channel.

**The aggregator.** For the ledger one has to know where the latest samples
stand when a ring has wrapped: the next one to be overwritten is the oldest, and
inserting slides the window by one. The books are kept per category: `Due(c)`,
what the overall statistics have of it and are owed, equals `Paid(c)`, what
those of the tools have and are owed; each step of `Record` moves one unit from
owed to had, on one side or on both, also when two workers create the statistics
of one tool. The sums are over any finite set. `SetTheorems` proves what is
needed of them (a sum changes as its one changed term, sums can be added and
swapped) without induction over sets: a smallest counterexample, by cardinality,
has an element, and what is left without it is no counterexample.

**The command.** Composition only restricts: each step is one of the
orchestrator's, of the aggregator's, of both or of neither, so the two
specifications hold of it and with them all that is proved of either, cited by
`INSTANCE`. What is new is `RunInv`, which ties the two: a worker holds a tool
just while its job has drawn one, it is in `Record` only between jobs or after
its observation, and draws stay within the budget, so the mix is never
exhausted. `MeasuredOK` then says that what the overall statistics have and are
owed are the outcomes observed in the measurement, and `MixOK` that the draws
since the warmup are the samples of a tool and those to come. When `Run` has
returned, no worker is in `Record`: nothing is owed, and both become statements
about the report.

**The functions.** The gate rests on one fact: what exceeds a threshold still
does when the candidate's value grows, and when the threshold shrinks, with
products in place of quotients. The scenario's properties are proved of any
integers, in the file and among the flags. The picker's running totals are a
fold, shown to be the sums of the weights up to each tool, so the picks of a tool
are an interval as long as its weight. `Place` is a bijection, whence `Sorted`
is the same samples in order; the rank of a quantile is within its bounds, grows
with the quantile, and leaves as many samples before it as the nearest-rank
definition asks. The theorems speak of `AnySpec`, whose states are inputs of any
size and whose steps are those of the gate; `AllIncluded` shows that what the
run explores is among its behaviours.

**Streams and command lines.** A fold of a parser is shown to be a machine: a
sequence of states, each the result of the one before and of the next line or
character, so that an invariant can be carried from state to state. For
`parseSSE` it is `ParserInv`: while reading, the variables hold the data and the
name of the stretch of lines since the last blank one and the last answer before
it; after an event called done, the last answer until then. The property speaks
of blocks of lines instead, and a block that ends within an open stretch is that
stretch. For `parseSpawn`, `Reads(p, s, q)` says that the characters s lead from
state p to state q, and it composes. Outside of quotes and escapes, each piece of
an argument (`PieceRead`: a character as it is or escaped, a text in either kind
of quotes) leads from a state with any text so far to one with the text of the
piece appended and the argument begun; so an argument of any pieces leads to its
own text (`ArgRead`), a space after it emits it and further spaces nothing
(`SpaceEnds`), and `Holds` carries the arguments emitted so far, with the one that
may be open, along the command.

**The exposition.** A concatenation is laid out by where its pieces end
(`Width`), and each place of the whole is a place of one piece (`Laid`). Names
are sanitized to texts without a quote, a backslash or an end of line, so the
lines a scraper finds are just those written, a line has two quotes for each
label, and the text between them is the label's value.

**Arguments.** That `RenderValue` is what its recursion says has to be proved:
values of a set with a height that falls from a container to its items
(`Nested`) leave no least height up to which no function satisfies the equation,
so one satisfies it on all (`RenderEnds`). Whether it fails at a value, and with
which kind of error, is then a matter of what is reached below it, again by the
least height at which this would not hold; and what is within the rendered value
stands, level by level, where the arguments had it.

TLC checks the same invariants on the small instances above.

## 5. What is only model-checked

Every safety and action property of the passing runs is stated by a theorem.
Liveness under fairness is out of the prover's reach: `CloseReturns`,
`ReaderFailureWakes`, `CloseReleasesCalls`, `DeadlineHonoured` and
`CommandExits` are checked within the bounds of section 3 and have no proof. So
is what the four violated runs show, each by a behaviour that TLC finds.

## 6. What is not modelled, and why

* Parsing and encoding (YAML, JSON, flags, templates): libraries. Their results
  are the roles and outcomes the models distinguish.
* Real time: latencies are values, timers may fire whenever they run. The rate
  itself, hence, is not modelled; the order of ticks, sends and ends is.
* The table, CSV and JSON of a run and the output of `compare`: layout by
  libraries, without a decision.
* The standard deviation: a sum without a decision; and the values behind the
  series of the exposition.
* The first half of `runExecute` as steps: nothing runs beside it yet, so it is
  the function `Prepare`. A failure of `buildTransport` ends it as `CanBuild`
  says: by the kind of the transport and its program or URL. Whether the process
  can be started depends on the machine.
* Of `Validate`, the names of the scenario and of its tools, which must not be
  blank and which nothing else depends on; the total of the weights as an `int64`
  that overflows (it needs weights near 2^63); and a rate of `.nan`, which YAML
  allows, which no comparison of `Workload.validate` refuses and which is neither
  positive nor zero afterwards.
* The arguments that a `--spawn` gives beside its program: no decision depends on
  them in the program.
* The version and validate commands print and keep nothing.
* `jsonrpc.ParseResponse` has no caller in the program.

## 7. Plan

Done, in this order: `Transport` and `StdioTransport` with their proofs;
`Orchestrator` with its proofs; `Ledger` and `Aggregator`; `Summary`; `Sse` and
`HttpTransport`; `Scenario`, `Spawn`, `Compare`; `Errors`, composed with the HTTP
transport and the aggregator; `RunCommand`; `Render` and `Report`.

Then the proofs: of the aggregator and its ledger, of the HTTP transport, of the
command from those of its parts, of the gate, the scenario and the summary, and
last of the texts (`parseSSE`, `parseSpawn`, the exposition) and of the rendering
of arguments to any depth.

What could follow:

1. Action properties of the command: what a step may not undo.
2. The table, CSV and JSON of a run as relations between the summary and the
   report, if they come to decide anything.
3. An answer for `LoadRun`, which takes any JSON for a run file: no property
   covers it, since the code has no check to model.
