--------------------------- MODULE AggregatorProps ---------------------------
(***************************************************************************)
(* What Aggregator must satisfy: nothing is lost or counted twice, and the *)
(* ring of each reservoir is the window of the latest observations.        *)
(***************************************************************************)
EXTENDS Aggregator

ToolStatsType == [samples : Seq(Durations), next : 0..(Size - 1), count : Nat,
                  tally : [Categories -> Nat], codes : [Codes -> Nat]]

(* A ring starts over only when it is full.                                *)
RingOK(r) == Len(r.samples) <= Size /\ (Len(r.samples) < Size => r.next = 0)

(* A worker in Record has an observation, and goes from the statistics of  *)
(* its tool, once they are there, to the overall ones.                     *)
PlaceOK(w) ==
  \/ pc[w] = "idle"
  \/ pc[w] = "create" /\ arg[w] \in Observations /\ ts[w] = None
  \/ /\ pc[w] \in {"insert", "tally"} /\ arg[w] \in Observations
     /\ tools[arg[w].tool] # None /\ ts[w] \in {tools[arg[w].tool], Overall}

(* Every variable has its type, and no two tools share their statistics,   *)
(* nor a tool the overall ones.                                            *)
TypeOK ==
  /\ stats \in Seq(ToolStatsType) /\ stats # <<>>
  /\ \A i \in 1..Len(stats) : RingOK(stats[i])
  /\ tools \in [Tools -> (2..Len(stats)) \cup {None}]
  /\ \A t, u \in Tools : t # u /\ tools[t] # None => tools[t] # tools[u]
  /\ calls \in 0..MaxRecords
  /\ pc \in [Workers -> {"idle", "create", "insert", "tally"}]
  /\ arg \in [Workers -> Observations \cup {None}]
  /\ ts \in [Workers -> (1..Len(stats)) \cup {None}]
  /\ \A w \in Workers : PlaceOK(w)

-----------------------------------------------------------------------------
(* The ring, read from the oldest sample.                                  *)
Window(r) == [k \in 1..Len(r.samples) |-> r.samples[((r.next + k - 1) % Size) + 1]]

Keys == Tools \cup {None}   \* None names the overall statistics
Of(k) == IF k = None THEN stats[Overall]
         ELSE IF tools[k] = None THEN NewToolStats ELSE stats[tools[k]]

(* The aggregator implements the ledger: each step of Record adds one      *)
(* observation to one window or one count, whoever created the statistics, *)
(* and a full reservoir holds exactly the latest Size samples.             *)
Contract == INSTANCE Ledger WITH window <- [k \in Keys |-> Window(Of(k))],
                                 seen   <- [k \in Keys |-> Of(k).count],
                                 tally  <- [k \in Keys |-> Of(k).tally],
                                 codes  <- [k \in Keys |-> Of(k).codes]

ImplementsLedger == Contract!Spec

-----------------------------------------------------------------------------
(* The workers that have yet to count category c in the tool's statistics, *)
(* and in the overall ones.                                                *)
OwesTool(c) == {w \in Workers : /\ pc[w] # "idle" /\ Classify(arg[w].err) = c
                                /\ ts[w] # Overall}
OwesOverall(c) == {w \in Workers : pc[w] # "idle" /\ Classify(arg[w].err) = c}

(* The books balance at every moment: the overall count of a category is   *)
(* that of all the tools less what the workers in Record still owe it, and *)
(* with what they owe the tools every call of Record is accounted for; so  *)
(* when the workers are gone the overall line is the sum of the tools'.    *)
BooksBalance ==
  /\ \A c \in Categories :
       stats[Overall].tally[c] + Cardinality(OwesOverall(c))
         = SumFunction([t \in Tools |-> Of(t).tally[c]]) + Cardinality(OwesTool(c))
  /\ calls = SumFunction([c \in Categories |->
                             stats[Overall].tally[c] + Cardinality(OwesOverall(c))])

(* The workers between the two mutexes of the i-th statistics.             *)
Between(i) == {w \in Workers : pc[w] = "tally" /\ ts[w] = i}

(* Each sample has its count: of the statistics of any tool, or overall,   *)
(* the samples observed exceed the outcomes counted by the workers that    *)
(* are between the two mutexes.                                            *)
SamplesCounted ==
  \A i \in 1..Len(stats) :
    stats[i].count = SumFunction(stats[i].tally) + Cardinality(Between(i))

(* Every JSON-RPC error has its code in the histogram, however it is       *)
(* wrapped, and nothing else has: for any tool, and overall, the codes     *)
(* counted are as many as the errors of that category.                     *)
CodesCounted ==
  \A i \in 1..Len(stats) :
    stats[i].tally["jsonrpc"] = SumFunction(stats[i].codes)
=============================================================================
