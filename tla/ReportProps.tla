----------------------------- MODULE ReportProps -----------------------------
(* What Report must satisfy, over every short name of a scenario and of up  *)
(* to two tools.                                                            *)
EXTENDS Report, FiniteSets

CONSTANTS MaxScenario, MaxName

VARIABLE run

Characters == {"a", "_", "quote", "backslash", "LF", "CR"}

(* A name must not be blank; a tool may have that of the whole run.         *)
NamesUpTo(n) == {s \in SeqOf(Characters, n) : ~(ToSet(s) \subseteq {"LF", "CR"})}
Names == NamesUpTo(MaxName) \cup {OverallName}

RunOf(scenario, names) == [scenario |-> scenario, tools |-> SetToSeq(names)]

Init == \/ run = RunOf(<<"a">>, {})
        \/ \E s \in NamesUpTo(MaxScenario), a \in Names, b \in Names : run = RunOf(s, {a, b})

(* The lines a scraper finds: both characters end a line.                   *)
EndsLine(c) == c \in {"LF", "CR"}
LinesOf(text) ==
  LET ends   == {i \in 1..Len(text) : EndsLine(text[i])}
      End(k) == IF k = 0 THEN 0
                ELSE CHOOSE e \in ends : Cardinality({i \in ends : i <= e}) = k
  IN [k \in 1..Cardinality(ends) |-> SubSeq(text, End(k - 1) + 1, End(k) - 1)]

(* A line can be read when its quotes are those of its labels and nothing   *)
(* is escaped.                                                              *)
Readable(line, s) == /\ Cardinality({i \in 1..Len(line) : line[i] = "quote"}) = 2 * Len(s.labels)
                     /\ ~Contains(line, "backslash")
                     /\ line[1] = s.metric

(* Names that differ in a character that is kept as it is.                  *)
Kept(c)     == c \notin Terminators \cup {"_"}
Apart(a, b) == \/ Len(a) # Len(b)
               \/ \E i \in 1..Len(a) : a[i] # b[i] /\ (Kept(a[i]) \/ Kept(b[i]))

(* Whatever the scenario and the tools are called, a scraper finds a line   *)
(* for every series and can read it, the type of its metric stands above    *)
(* it, and tools that differ in a plain character stay two series.          *)
ExpositionScrapes ==
  LET series == AllSeries(run)
      lines  == LinesOf(WritePrometheus(run))
      rows   == Rows(run)
      LineOf(k) == lines[4 + k]
      Tool(k)   == LineOf(6 * (k - 1) + 1)
  IN /\ Len(lines) = 4 + Len(series)
     /\ \A k \in 1..Len(series) : /\ Readable(LineOf(k), series[k])
                                  /\ \E i \in 1..4 : lines[i] = <<"# TYPE", series[k].metric>>
     /\ \A j, k \in 1..Len(rows) : Apart(rows[j], rows[k]) => Tool(j) # Tool(k)
=============================================================================
