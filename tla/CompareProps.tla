---------------------------- MODULE CompareProps ----------------------------
(* What Compare must satisfy, over every pair of small run files, under    *)
(* thresholds of each kind; a step makes the candidate worse or a threshold *)
(* looser.                                                                  *)
EXTENDS Compare

CONSTANTS Latencies, ErrorRates,
          Strict, Loose  \* the thresholds are -Strict, 0 and Loose

VARIABLE gate   \* the two run files and the flags

baseline  == gate.baseline
candidate == gate.candidate
flags     == gate.flags

(* The entries of the tools vary in p95, that of the whole run in p95 and   *)
(* error rate; a metric that does not vary is 0.                            *)
Entry(p95, err) == [m \in Metrics |-> CASE m = "p95" -> p95 [] m = "p99" -> 0 [] m = "err" -> err]

Summaries == {s \in [Keys -> {Entry(l, e) : l \in Latencies, e \in ErrorRates}] :
                \A t \in Tools : s[t]["err"] = 0}

(* A run without observations has an empty summary.                         *)
Runs == {r \in [json : {TRUE}, keys : SUBSET Tools, summary : Summaries] :
           /\ \A t \in Tools \ r.keys : r.summary[t] = Entry(0, 0)
           /\ r.keys = {} => r.summary[Overall] = Entry(0, 0)}
NotJson == [json |-> FALSE, keys |-> {}, summary |-> [k \in Keys |-> Entry(0, 0)]]
Files   == Runs \cup {NotJson}

(* Well-formed flags, and one of each that is refused.                      *)
Flag(sign, number, suffix) == [sign |-> sign, number |-> number, suffix |-> suffix]
Positive(suffix) == {Flag("+", 0, suffix), Flag("+", Loose, suffix)}
Limits(suffix)   == {Flag("-", Strict, suffix)} \cup Positive(suffix)
Refused == {Flag("", Loose, "%"), Flag("+", NoNumber, "ms"), Flag("+", Loose, "")}

(* One flag is given at a time; p99 is judged as p95 is, and its latencies  *)
(* are 0.                                                                   *)
Only(m, flag) == [[k \in Metrics |-> Unset] EXCEPT ![m] = flag]
Flags == {Only("p95", flag) : flag \in {Unset} \cup Limits("%") \cup Positive("ms")}
         \cup {Only("err", flag) : flag \in Limits("pp")}
         \cup {Only("p95", flag) : flag \in Refused \cup {Flag("+", Loose, "pp")}}
         \cup {Only("err", Flag("+", Loose, "ms"))}

Sound(flag, m) == /\ flag.sign = "+" /\ flag.number # NoNumber
                  /\ flag.suffix \in IF m = "err" THEN {"pp"} ELSE {"%", "ms"}
SoundFlags == {f \in Flags : \A m \in Metrics : f[m] = Unset \/ Sound(f[m], m)}

Init == gate \in [baseline : Files, candidate : Files, flags : Flags]

Worsen(k, m, v) == /\ v > candidate.summary[k][m]
                   /\ k \in candidate.keys \cup {Overall} /\ candidate.keys # {}
                   /\ m = "err" => k = Overall
                   /\ gate' = [gate EXCEPT !.candidate.summary[k][m] = v]

(* A threshold grows, or the flag gives way to a default that is larger.    *)
Loosen(m, flag) ==
  /\ Accepted(flags) /\ Config(flags)[m].kind = Config([flags EXCEPT ![m] = flag])[m].kind
  /\ Config(flags)[m].value < Config([flags EXCEPT ![m] = flag])[m].value
  /\ gate' = [gate EXCEPT !.flags[m] = flag]

Worse  == \/ \E k \in Keys, l \in Latencies : Worsen(k, "p95", l)
          \/ \E e \in ErrorRates : Worsen(Overall, "err", e)
Looser == \E m \in {"p95", "err"} :
            \E flag \in {Unset} \cup Limits("%") \cup Positive("ms") \cup Limits("pp") : Loosen(m, flag)

Next == Worse \/ Looser

Exit(output) == ExitCode(baseline, candidate, flags, output)

(* The gate does not trade: however the other entries stand, a candidate   *)
(* that gets worse in one never turns a failure into a pass, and a looser  *)
(* threshold never turns a pass into a failure, whatever becomes of the     *)
(* report.                                                                 *)
GateIsMonotonic == \A output \in Outputs :
                     /\ flags' = flags => Exit(output)' >= Exit(output)
                     /\ candidate' = candidate => Exit(output)' <= Exit(output)

(* A run compared with itself passes under the defaults and under all flags *)
(* that are well formed and allow a change, if its report is written.       *)
SelfIsClean ==
  baseline = candidate /\ baseline.json /\ flags \in SoundFlags => Exit("written") = 0
=============================================================================
