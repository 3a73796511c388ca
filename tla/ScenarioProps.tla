---------------------------- MODULE ScenarioProps ---------------------------
(* What Scenario must satisfy, over every small file with every small      *)
(* command line.  One part of the file varies at a time, the others stay   *)
(* valid.                                                                  *)
EXTENDS Scenario, FiniteSets

CONSTANTS MaxTools, MaxWeight

VARIABLE input   \* the file and the flags

file  == input.file
flags == input.flags

(* The workloads, the times equal, with numbers below, at and above 0.      *)
Workloads(n) == {[f \in Fields |-> IF f \in Times THEN t ELSE w[f]] :
                   w \in [Fields \ Times -> {-1, 0, n}], t \in {-1, 0, n}}

Transports == [type : Types, cmd : Cmds, url : Urls]
Given      == [type : Types, cmd : Spawns, url : Urls]

ByRequests == [f \in Fields |-> IF f \in {"rate", "requests"} THEN 1 ELSE 0]
NoFlags    == [f \in Fields |-> 0]
Local      == [type |-> "stdio", cmd |-> "program", url |-> ""]
Unset      == [type |-> "", cmd |-> "", url |-> ""]
Weights    == UNION {[1..n -> -1..MaxWeight] : n \in 0..MaxTools}

Inputs(transports, workloads, weights, given, overrides) ==
  [file  : [transport : transports, workload : workloads, weights : weights],
   flags : [transport : given, workload : overrides]]

Init == input \in Inputs({Local}, Workloads(1), {<<1>>}, {Unset}, Workloads(20))
                  \cup Inputs(Transports, {ByRequests}, {<<1>>}, Given, {NoFlags})
                  \cup Inputs({Local}, {ByRequests}, Weights, {Unset}, {NoFlags})

Prepared == Prepare(file, flags)

(* A scenario that passes can be run: its transport is built, it stops by   *)
(* duration or by requests and not by both, it has workers at any rate and   *)
(* not more than the CPUs or the operator ask for, no call times out at     *)
(* once, and what the command line gives is what runs.                      *)
PreparedRuns ==
  Prepared # Refused =>
    /\ CanBuild(Prepared.transport)
    /\ Cardinality({f \in {"duration", "requests"} : Prepared.workload[f] > 0}) = 1
    /\ \A cpus \in {1, 2} : LET n == EffectiveWorkers(Prepared.workload, cpus) IN
                            n > 0 /\ (n <= 4 * cpus \/ n = Prepared.workload["concurrency"])
    /\ \E f \in {"rate", "concurrency"} : Prepared.workload[f] > 0
    /\ \A tool \in {-1, 0, 2} : CallTimeout(tool, Prepared.workload) > 0
    /\ \A f \in Fields : flags.workload[f] > 0 => Prepared.workload[f] = flags.workload[f]

(* Flags that would do on their own.                                        *)
Sound == /\ flags.transport.type = ""
         /\ flags.transport.cmd \in {"", "spaces", "program"}
         /\ flags.transport.url \in {"", "http"}
         /\ ~(flags.workload["duration"] > 0 /\ flags.workload["requests"] > 0)

(* A valid file is refused only for what the command line puts in it: other *)
(* numbers, another program or another address never make it invalid, and   *)
(* a --spawn of spaces leaves it its program.                               *)
OnlyFlagsBreak == Valid(file) /\ Sound => Prepared # Refused

(* Among Total equally likely picks each tool has as many as its weight.    *)
PicksAreWeighted ==
  Prepared # Refused =>
    LET ws == Prepared.weights IN
    \A i \in 1..Len(ws) :
      Cardinality({pick \in 0..(Total(ws) - 1) : Picked(ws, pick) = i})
        = IF Len(ws) = 1 THEN Total(ws) ELSE IF file.weights[i] = 0 THEN 1 ELSE file.weights[i]
=============================================================================
