------------------------------ MODULE Aggregator ------------------------------
(***************************************************************************)
(* internal/metrics while a phase runs: workers record observations in the *)
(* statistics of their tool, created at its first observation under a      *)
(* double check, and then in the overall statistics.  Each critical        *)
(* section is one action: the read lock and the write lock of Aggregator,  *)
(* the mutex of Reservoir, the mutex of ToolStats.                         *)
(***************************************************************************)
EXTENDS Errors, FiniteSets

CONSTANTS Workers, Tools,
          Durations,   \* the latencies that may be observed
          Errs,        \* the errors that may be observed, nil included
          Size,        \* the capacity of every reservoir
          MaxRecords,  \* bound: the calls of Record
          None         \* stands for no statistics and for no observation

ASSUME SizeAssumption == Size \in Nat \ {0} /\ MaxRecords \in Nat
ASSUME NoneAssumption == None \notin Nat /\ None \notin Tools
ASSUME FiniteAssumption == IsFiniteSet(Workers) /\ IsFiniteSet(Tools)
ASSUME ErrsAssumption == Errs \subseteq Seq(Links)

VARIABLES
  stats,   \* every ToolStats there is; the first is Aggregator.global
  tools,   \* tools[t]: where in stats the statistics of t are, or None
  calls,   \* the calls of Record so far
  pc,      \* pc[w]: the next critical section of worker w
  arg,     \* arg[w]: the observation it records, or None
  ts       \* ts[w]: the statistics it records it in

vars == <<stats, tools, calls, pc, arg, ts>>

Overall == 1
Observations == [tool : Tools, dur : Durations, err : Errs]

(* NewToolStats and NewReservoir.                                          *)
NewToolStats == [samples |-> <<>>, next |-> 0, count |-> 0,
                 tally |-> [c \in Categories |-> 0],
                 codes |-> [n \in Codes |-> 0]]

Init == /\ stats = <<NewToolStats>>
        /\ tools = [t \in Tools |-> None]
        /\ calls = 0
        /\ pc = [w \in Workers |-> "idle"]
        /\ arg = [w \in Workers |-> None]
        /\ ts = [w \in Workers |-> None]

-----------------------------------------------------------------------------
(* Aggregator.Record up to RUnlock.                                        *)
RecordBegins(w, o) ==
  /\ pc[w] = "idle" /\ calls < MaxRecords
  /\ calls' = calls + 1
  /\ arg' = [arg EXCEPT ![w] = o]
  /\ ts' = [ts EXCEPT ![w] = tools[o.tool]]
  /\ pc' = [pc EXCEPT ![w] = IF tools[o.tool] = None THEN "create" ELSE "insert"]
  /\ UNCHANGED <<stats, tools>>

(* Mutant: the map is not looked up again under the write lock.            *)
CreatesUnchecked(w) ==
  /\ pc[w] = "create"
  /\ stats' = Append(stats, NewToolStats)
  /\ tools' = [tools EXCEPT ![arg[w].tool] = Len(stats')]
  /\ ts' = [ts EXCEPT ![w] = Len(stats')]
  /\ pc' = [pc EXCEPT ![w] = "insert"]
  /\ UNCHANGED <<calls, arg>>

(* The write lock: another worker may have created the statistics.         *)
Creates(w) ==
  /\ pc[w] = "create"
  /\ LET t == arg[w].tool IN
     IF tools[t] = None
     THEN /\ stats' = Append(stats, NewToolStats)
          /\ tools' = [tools EXCEPT ![t] = Len(stats')]
     ELSE UNCHANGED <<stats, tools>>
  /\ ts' = [ts EXCEPT ![w] = tools'[arg[w].tool]]
  /\ pc' = [pc EXCEPT ![w] = "insert"]
  /\ UNCHANGED <<calls, arg>>

(* Mutant: the ring does not start over.                                   *)
InsertUnwrapped(r, d) ==
  IF Len(r.samples) < Size
  THEN [r EXCEPT !.samples = Append(@, d), !.count = @ + 1]
  ELSE [r EXCEPT !.samples[r.next + 1] = d, !.next = @ + 1, !.count = @ + 1]

(* Mutant: a sample that replaces another one is not counted.              *)
InsertUncounted(r, d) ==
  IF Len(r.samples) < Size
  THEN [r EXCEPT !.samples = Append(@, d), !.count = @ + 1]
  ELSE [r EXCEPT !.samples[r.next + 1] = d, !.next = (@ + 1) % Size]

(* Reservoir.Insert: r.next counts from 0.                                 *)
Insert(r, d) ==
  IF Len(r.samples) < Size
  THEN [r EXCEPT !.samples = Append(@, d), !.count = @ + 1]
  ELSE [r EXCEPT !.samples[r.next + 1] = d, !.next = (@ + 1) % Size, !.count = @ + 1]

Inserts(w) ==
  /\ pc[w] = "insert"
  /\ stats' = [stats EXCEPT ![ts[w]] = Insert(@, arg[w].dur)]
  /\ pc' = [pc EXCEPT ![w] = "tally"]
  /\ UNCHANGED <<tools, calls, arg, ts>>

(* The counters of one ToolStats: okCount and errCounts, and rpcCodes.     *)
CountIn(s, err) ==
  [s EXCEPT !.tally[Classify(err)] = @ + 1,
            !.codes = [n \in Codes |-> @[n] + (IF n \in CountedCodes(err) THEN 1 ELSE 0)]]

(* Mutant: Record forgets the overall statistics of a failed call.         *)
TalliesOnlyTool(w) ==
  /\ pc[w] = "tally"
  /\ stats' = [stats EXCEPT ![ts[w]] = CountIn(@, arg[w].err)]
  /\ IF ts[w] = Overall \/ arg[w].err # <<>>
     THEN /\ pc' = [pc EXCEPT ![w] = "idle"]
          /\ arg' = [arg EXCEPT ![w] = None] /\ ts' = [ts EXCEPT ![w] = None]
     ELSE /\ pc' = [pc EXCEPT ![w] = "insert"]
          /\ ts' = [ts EXCEPT ![w] = Overall] /\ UNCHANGED arg
  /\ UNCHANGED <<tools, calls>>

(* The counters; a.global.Record follows ts.Record.                        *)
Tallies(w) ==
  /\ pc[w] = "tally"
  /\ stats' = [stats EXCEPT ![ts[w]] = CountIn(@, arg[w].err)]
  /\ IF ts[w] = Overall
     THEN /\ pc' = [pc EXCEPT ![w] = "idle"]
          /\ arg' = [arg EXCEPT ![w] = None] /\ ts' = [ts EXCEPT ![w] = None]
     ELSE /\ pc' = [pc EXCEPT ![w] = "insert"]
          /\ ts' = [ts EXCEPT ![w] = Overall] /\ UNCHANGED arg
  /\ UNCHANGED <<tools, calls>>

RecordStep(w) == Creates(w) \/ Inserts(w) \/ Tallies(w)

Terminated == /\ calls = MaxRecords /\ \A w \in Workers : pc[w] = "idle"
              /\ UNCHANGED vars

Next == (\E w \in Workers : RecordStep(w) \/ \E o \in Observations : RecordBegins(w, o))
        \/ Terminated

Spec == Init /\ [][Next]_vars
=============================================================================
