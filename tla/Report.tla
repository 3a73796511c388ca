--------------------------------- MODULE Report ---------------------------------
(***************************************************************************)
(* The exposition text that internal/report makes of a finished run.  A    *)
(* text is a sequence of characters and of fixed pieces that need not be   *)
(* taken apart; the values of the series, and the layout of the other      *)
(* formats, are left out.                                                  *)
(***************************************************************************)
EXTENDS Integers, Sequences, SequencesExt

OverallName == <<"__overall__">>

Concat(texts) == FoldLeft(LAMBDA a, b : a \o b, <<>>, texts)

(* Mutant: the characters that the grammar names, but not the CR.          *)
TerminatorsNamed == {"quote", "backslash", "LF"}

(* sanitizeLabel: what would end a label value or a line.                  *)
Terminators == {"quote", "backslash", "LF", "CR"}
SanitizeLabel(text) == [i \in 1..Len(text) |-> IF text[i] \in Terminators THEN "_" ELSE text[i]]

(* The rows of the table, of the CSV and of the exposition: the whole run, *)
(* then the tools in the order of their keys.                              *)
Rows(rf) == <<OverallName>> \o rf.tools

-----------------------------------------------------------------------------
(* WritePrometheus.  A series is a metric with its labels.                 *)
EmitRow(scenario, name) ==
  LET L == <<<<"scenario", scenario>>, <<"tool", SanitizeLabel(name)>>>>
      Series(metric, label, values) ==
        [i \in 1..Len(values) |->
           [metric |-> metric, labels |-> Append(L, <<label, <<values[i]>>>>)]]
  IN Series("requests_total", "status", <<"ok", "error">>)
     \o Series("latency_seconds", "quantile", <<"0.5", "0.95", "0.99">>)
     \o <<[metric |-> "error_ratio", labels |-> L]>>

AllSeries(rf) ==
  LET scenario == SanitizeLabel(rf.scenario) IN
  Concat([i \in 1..Len(Rows(rf)) |-> EmitRow(scenario, Rows(rf)[i])])
    \o <<[metric |-> "throughput_per_second", labels |-> <<<<"scenario", scenario>>>>]>>

(* A line is the metric, each label with its value between quotes, and a LF. *)
Line(s) == <<s.metric>>
           \o Concat([i \in 1..Len(s.labels) |->
                        <<s.labels[i][1], "quote">> \o s.labels[i][2] \o <<"quote">>])
           \o <<"LF">>

(* The types of the metrics come first, a line for each.                   *)
Declared == <<"requests_total", "latency_seconds", "throughput_per_second", "error_ratio">>
TypeLine(metric) == <<"# TYPE", metric, "LF">>

WritePrometheus(rf) ==
  Concat([i \in 1..Len(Declared) |-> TypeLine(Declared[i])]
           \o [i \in 1..Len(AllSeries(rf)) |-> Line(AllSeries(rf)[i])])
=============================================================================
