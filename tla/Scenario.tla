-------------------------------- MODULE Scenario --------------------------------
(***************************************************************************)
(* The scenario a run is made from: its validation and the choice of tools *)
(* (internal/scenario), and the overrides of the command line and the      *)
(* transport built from it (internal/cli/run.go).  Strings are known by    *)
(* what the checks tell of them; parsing YAML and rendering arguments are  *)
(* left to their libraries.                                                *)
(***************************************************************************)
EXTENDS Integers, Sequences, SequencesExt, FiniteSetsExt

(* The fields of the workload; Times are treated alike, and a rate is      *)
(* given in halves of a request per second.                                *)
Times  == {"warmup", "cooldown", "timeout", "think"}
Fields == {"rate", "concurrency", "duration", "requests"} \cup Times

(* Roles of the strings of the transport section.                          *)
Types == {"", "stdio", "http", "https", "sse", "other"}   \* in lower or upper case
Cmds  == {"", "blank", "program"}
Urls  == {"", "blank", "http", "other"}   \* "http": begins with http:// or https://

(* Roles of --spawn, by what parseSpawn makes of it: spaces have no parts,  *)
(* a quote or an escape left open is an error, and of the parts of others   *)
(* the first is the program.                                                *)
Spawns == {"spaces", "open"} \cup Cmds

ValidTransport(t) ==
  \/ t.type = "stdio" /\ t.cmd \notin {"", "blank"}
  \/ t.type \in {"http", "sse"} /\ t.url = "http"

ValidWorkload(w) ==
  /\ \A f \in Fields : w[f] >= 0
  /\ w["duration"] = 0 <=> w["requests"] # 0
  /\ w["rate"] # 0 \/ w["concurrency"] # 0

(* Validate refuses a negative weight and writes the default of those that *)
(* are 0; the weights of a refused scenario are never used.                *)
ValidWeights(weights) == weights # <<>> /\ \A i \in 1..Len(weights) : weights[i] >= 0
Defaulted(weights)    == [i \in 1..Len(weights) |-> IF weights[i] = 0 THEN 1 ELSE weights[i]]

Valid(s)    == ValidTransport(s.transport) /\ ValidWorkload(s.workload) /\ ValidWeights(s.weights)
Validate(s) == [s EXCEPT !.weights = Defaulted(@)]

-----------------------------------------------------------------------------
(* Mutant: a budget of one kind leaves the other in place.                 *)
OverrideKeepsBoth(w, flags) == [f \in Fields |-> IF flags[f] > 0 THEN flags[f] ELSE w[f]]

(* applyCLIOverrides: a flag that is not positive is not given; a duration *)
(* takes the place of the requests, and the requests that of a duration.   *)
OverrideWorkload(w, flags) ==
  [f \in Fields |-> IF f = "duration" /\ flags["requests"] > 0 THEN 0
                    ELSE IF flags[f] > 0 THEN flags[f]
                    ELSE IF f = "requests" /\ flags["duration"] > 0 THEN 0
                    ELSE w[f]]

OverrideTransport(t, flags) ==
  [p \in DOMAIN t |-> IF flags[p] \in {"", "spaces", "open"} THEN t[p] ELSE flags[p]]

ApplyCLIOverrides(s, flags) ==
  [s EXCEPT !.transport = OverrideTransport(@, flags.transport),
            !.workload  = OverrideWorkload(@, flags.workload)]

(* What runExecute hands to the orchestrator, or Refused.                  *)
Refused == [refused |-> TRUE]

(* Mutant: what the command line makes of the file is not validated.       *)
PrepareUnvalidated(file, flags) ==
  LET s == ApplyCLIOverrides(Validate(file), flags) IN
  IF /\ ~(flags.workload["duration"] > 0 /\ flags.workload["requests"] > 0)
     /\ Valid(file) /\ flags.transport.cmd # "open"
  THEN s ELSE Refused

Prepare(file, flags) ==
  LET s == ApplyCLIOverrides(Validate(file), flags) IN
  IF /\ ~(flags.workload["duration"] > 0 /\ flags.workload["requests"] > 0)
     /\ Valid(file) /\ flags.transport.cmd # "open" /\ Valid(s)
  THEN Validate(s) ELSE Refused

(* buildTransport: ParseKind and the checks of StartStdio and NewHTTP.     *)
CanBuild(t) == \/ t.type = "stdio" /\ t.cmd # ""
               \/ t.type \in {"http", "https", "sse"} /\ t.url = "http"

-----------------------------------------------------------------------------
(* The picker: the running totals of the weights, and the first that       *)
(* exceeds a pick from 0 up to the total.                                  *)
Cum(weights) == [i \in 1..Len(weights) |-> FoldLeft(LAMBDA a, b : a + b, 0, SubSeq(weights, 1, i))]
Total(weights) == Cum(weights)[Len(weights)]

(* Mutant: a total equal to the pick is taken.                             *)
PickedReaching(weights, pick) ==
  IF Len(weights) = 1 THEN 1
  ELSE Min({i \in 1..Len(weights) : Cum(weights)[i] >= pick})

Picked(weights, pick) ==
  IF Len(weights) = 1 THEN 1
  ELSE Min({i \in 1..Len(weights) : Cum(weights)[i] > pick})

(* effectiveWorkers: int(Rate) may be 0, and is held at 4 per CPU.         *)
EffectiveWorkers(w, cpus) ==
  CASE w["concurrency"] > 0 -> w["concurrency"]
    [] w["concurrency"] <= 0 /\ w["rate"] > 0 -> Min({Max({w["rate"] \div 2, 1}), 4 * cpus})
    [] OTHER -> 1

(* The timeout of a call: that of the tool, of the workload, or 30s.       *)
DefaultTimeout == 30
CallTimeout(tool, w) == CASE tool > 0 -> tool
                          [] tool <= 0 /\ w["timeout"] > 0 -> w["timeout"]
                          [] OTHER -> DefaultTimeout
=============================================================================
