---------------------------- MODULE FunctionProps ----------------------------
(* The sequential algorithms of the program side by side: a state is an     *)
(* input of one of them, and only the gate has steps.  A property here is   *)
(* that of the algorithm's own module.                                      *)
EXTENDS Naturals

CONSTANTS Samples, MaxShort, MaxLen,                    \* SummaryProps
          MaxLines,                                     \* SseProps
          MaxTools, MaxWeight,                          \* ScenarioProps
          MaxPieces, MaxChars,                          \* SpawnProps
          MaxItems, MaxDepth,                           \* RenderProps
          MaxScenario, MaxName,                         \* ReportProps
          Tools, Latencies, ErrorRates, Strict, Loose   \* CompareProps

VARIABLES algorithm, input

vars == <<algorithm, input>>

Stats  == INSTANCE SummaryProps  WITH samples <- input
Stream == INSTANCE SseProps      WITH stream  <- input
Plan   == INSTANCE ScenarioProps
Split  == INSTANCE SpawnProps    WITH command <- input
Gate   == INSTANCE CompareProps  WITH gate    <- input
Calls  == INSTANCE RenderProps   WITH call    <- input
Scrape == INSTANCE ReportProps   WITH run     <- input

Init == \/ algorithm = "quantiles" /\ Stats!Init
        \/ algorithm = "stream"    /\ Stream!Init
        \/ algorithm = "prepare"   /\ Plan!Init
        \/ algorithm = "split"     /\ Split!Init
        \/ algorithm = "gate"      /\ Gate!Init
        \/ algorithm = "arguments" /\ Calls!Init
        \/ algorithm = "scrape"    /\ Scrape!Init

Next == \/ algorithm = "gate" /\ Gate!Next /\ UNCHANGED algorithm
        \/ UNCHANGED vars

Spec == Init /\ [][Next]_vars

(* The quantiles are those of the nearest-rank definition.                  *)
QuantilesRight == algorithm = "quantiles" => Stats!QuantilesRight

(* The mean and the quantiles of a line are in order.                       *)
SummaryOrdered == algorithm = "quantiles" => Stats!SummaryOrdered

(* The last frame for the call wins, and nothing is read after a done event. *)
LastFrameWins == algorithm = "stream" => Stream!LastFrameWins

(* What passes validation can be run as the command line says.              *)
PreparedRuns == algorithm = "prepare" => Plan!PreparedRuns

(* A valid file is refused only for what the command line puts in it.       *)
OnlyFlagsBreak == algorithm = "prepare" => Plan!OnlyFlagsBreak

(* Tools are picked in proportion to their weights.                         *)
PicksAreWeighted == algorithm = "prepare" => Plan!PicksAreWeighted

(* A command in whatever mix of quotes and escapes splits into its arguments. *)
SpawnRoundTrips == algorithm = "split" => Split!SpawnRoundTrips

(* A run compared with itself passes.                                       *)
SelfIsClean == algorithm = "gate" => Gate!SelfIsClean

(* A call is counted for what was wrong with its arguments or its response. *)
CallsCountForTheirCause == algorithm = "arguments" => Calls!CallsCountForTheirCause

(* Every series of the exposition can be read, whatever the names.          *)
ExpositionScrapes == algorithm = "scrape" => Scrape!ExpositionScrapes

(* A worse candidate or a stricter threshold never turns a failure into a   *)
(* pass.                                                                    *)
GateIsMonotonic == [][algorithm = "gate" => Gate!GateIsMonotonic]_vars
=============================================================================
