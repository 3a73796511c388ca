--------------------------- MODULE AggregatorProofs ---------------------------
(***************************************************************************)
(* Proofs about Aggregator, for any number of workers, tools and calls and *)
(* any capacity of the reservoirs: its books balance, and it implements    *)
(* Ledger.                                                                 *)
(***************************************************************************)
EXTENDS AggregatorProps, SetTheorems

-----------------------------------------------------------------------------
(* The rules that find their link have a first one.                        *)
LEMMA FirstRule ==
  ASSUME NEW err, Hits(err) # {}
  PROVE  Min(Hits(err)) \in Hits(err) /\ Hits(err) \subseteq 1..7
<1>1. Hits(err) \subseteq 1..7
  BY DEF Hits, Rules
<1>2. Hits(err) \in SUBSET Nat
  BY <1>1
<1> QED BY <1>1, <1>2, LeastNat

(* Classify has a category for every chain.                                *)
LEMMA ClassifyType ==
  ASSUME NEW err
  PROVE  Classify(err) \in Categories
<1>1. \A i \in 1..7 : Rules[i].category \in Categories
  BY DEF Rules, Categories
<1> QED BY <1>1, FirstRule DEF Classify, Categories

(* A JSON-RPC error has one code, the outermost; no other error has one.   *)
LEMMA CountedCode ==
  ASSUME NEW err \in Seq(Links)
  PROVE  /\ Classify(err) = "jsonrpc" => \E n \in Codes : CountedCodes(err) = {n}
         /\ Classify(err) # "jsonrpc" => CountedCodes(err) = {}
<1> DEFINE found == {k \in 1..Len(err) : err[k] \in Codes}
<1>1. ASSUME Classify(err) = "jsonrpc"
      PROVE  found # {}
  <2>1. Hits(err) # {} /\ Rules[Min(Hits(err))].category = "jsonrpc"
    BY <1>1 DEF Classify
  <2>2. Min(Hits(err)) \in Hits(err) /\ Hits(err) \subseteq 1..7
    BY <2>1, FirstRule
  <2>3. Min(Hits(err)) = 3
    BY <2>1, <2>2 DEF Rules
  <2>4. Has(err, Codes)
    BY <2>2, <2>3 DEF Hits, Rules
  <2> QED BY <2>4 DEF Has
<1>2. found # {} => Min(found) \in found
  <2>1. found \in SUBSET Nat
    OBVIOUS
  <2> HIDE DEF found
  <2> QED BY <2>1, LeastNat
<1> QED BY <1>1, <1>2 DEF CountedCodes

(* The sets of categories and codes are finite.                            *)
LEMMA FiniteNames == IsFiniteSet(Categories) /\ IsFiniteSet(Codes)
<1>1. \A S, x : IsFiniteSet(S) => IsFiniteSet(S \cup {x})
  BY FS_AddElement
<1>2. IsFiniteSet({} \cup {"rpc1"} \cup {"rpc2"})
  BY <1>1, FS_EmptySet
<1>3. IsFiniteSet({} \cup {"ok"} \cup {"timeout"} \cup {"jsonrpc"}
                     \cup {"transport"} \cup {"template"} \cup {"other"})
  <2>1. IsFiniteSet({} \cup {"ok"} \cup {"timeout"} \cup {"jsonrpc"})
    BY <1>1, FS_EmptySet
  <2> QED BY <1>1, <2>1
<1>4. Codes = {} \cup {"rpc1"} \cup {"rpc2"}
  BY DEF Codes
<1>5. Categories = {} \cup {"ok"} \cup {"timeout"} \cup {"jsonrpc"}
                      \cup {"transport"} \cup {"template"} \cup {"other"}
  BY DEF Categories
<1> QED BY <1>2, <1>3, <1>4, <1>5

-----------------------------------------------------------------------------
(* A step of the ring keeps it one, and leaves the counters alone.         *)
LEMMA InsertType ==
  ASSUME NEW r \in ToolStatsType, RingOK(r), NEW d \in Durations
  PROVE  /\ Insert(r, d) \in ToolStatsType /\ RingOK(Insert(r, d))
         /\ Insert(r, d).count = r.count + 1
         /\ Insert(r, d).tally = r.tally /\ Insert(r, d).codes = r.codes
         /\ Len(r.samples) < Size =>
              /\ Insert(r, d).samples = Append(r.samples, d)
              /\ Insert(r, d).next = r.next
         /\ Len(r.samples) = Size =>
              /\ Insert(r, d).samples = [r.samples EXCEPT ![r.next + 1] = d]
              /\ Insert(r, d).next = (r.next + 1) % Size
<1> USE SizeAssumption DEF RingOK
<1> DEFINE longer == Append(r.samples, d)
           over   == [r.samples EXCEPT ![r.next + 1] = d]
           next   == (r.next + 1) % Size
           count  == r.count + 1
<1>1. /\ r.samples \in Seq(Durations) /\ r.next \in 0..(Size - 1) /\ r.count \in Nat
      /\ Len(r.samples) \in Nat
  BY DEF ToolStatsType
<1>2. /\ longer \in Seq(Durations) /\ Len(longer) = Len(r.samples) + 1
      /\ next \in 0..(Size - 1) /\ count \in Nat
  <2>1. longer \in Seq(Durations) /\ Len(longer) = Len(r.samples) + 1
    BY <1>1
  <2>2. next \in 0..(Size - 1) /\ count \in Nat
    BY <1>1
  <2> QED BY <2>1, <2>2
<1>3. CASE Len(r.samples) < Size
  <2>1. Insert(r, d) = [r EXCEPT !.samples = longer, !.count = count]
    BY <1>3 DEF Insert
  <2> HIDE DEF longer, over, next, count
  <2>2. /\ Insert(r, d) \in ToolStatsType
        /\ Insert(r, d).samples = longer /\ Insert(r, d).next = r.next
        /\ Insert(r, d).count = count
        /\ Insert(r, d).tally = r.tally /\ Insert(r, d).codes = r.codes
    BY <1>2, <2>1 DEF ToolStatsType
  <2> QED BY <1>1, <1>2, <1>3, <2>2 DEF longer, count
<1>4. CASE ~(Len(r.samples) < Size)
  <2>1. Insert(r, d) = [r EXCEPT !.samples = over, !.next = next, !.count = count]
    BY <1>4 DEF Insert
  <2>2. over \in Seq(Durations) /\ Len(over) = Len(r.samples)
    BY <1>1, <1>4, ExceptSeq
  <2> HIDE DEF longer, over, next, count
  <2>3. /\ Insert(r, d) \in ToolStatsType
        /\ Insert(r, d).samples = over /\ Insert(r, d).next = next
        /\ Insert(r, d).count = count
        /\ Insert(r, d).tally = r.tally /\ Insert(r, d).codes = r.codes
    BY <1>2, <2>1, <2>2 DEF ToolStatsType
  <2> QED BY <1>1, <1>2, <1>4, <2>2, <2>3 DEF over, next, count
<1> QED BY <1>3, <1>4

(* The counters leave the ring alone.                                      *)
LEMMA CountInType ==
  ASSUME NEW s \in ToolStatsType, NEW err
  PROVE  /\ CountIn(s, err) \in ToolStatsType
         /\ CountIn(s, err).samples = s.samples /\ CountIn(s, err).next = s.next
         /\ CountIn(s, err).count = s.count
         /\ CountIn(s, err).tally = [s.tally EXCEPT ![Classify(err)] = @ + 1]
         /\ CountIn(s, err).codes =
              [n \in Codes |-> s.codes[n] + (IF n \in CountedCodes(err) THEN 1 ELSE 0)]
<1> DEFINE tally == [s.tally EXCEPT ![Classify(err)] = @ + 1]
           codes == [n \in Codes |-> s.codes[n] + (IF n \in CountedCodes(err) THEN 1 ELSE 0)]
<1>1. s.tally \in [Categories -> Nat] /\ s.codes \in [Codes -> Nat]
  BY DEF ToolStatsType
<1>2. tally \in [Categories -> Nat] /\ codes \in [Codes -> Nat]
  BY <1>1, ClassifyType
<1>3. CountIn(s, err) = [s EXCEPT !.tally = tally, !.codes = codes]
  BY DEF CountIn
<1> HIDE DEF tally, codes
<1>4. /\ CountIn(s, err) \in ToolStatsType
      /\ CountIn(s, err).samples = s.samples /\ CountIn(s, err).next = s.next
      /\ CountIn(s, err).count = s.count
      /\ CountIn(s, err).tally = tally /\ CountIn(s, err).codes = codes
  BY <1>2, <1>3 DEF ToolStatsType
<1> QED BY <1>4 DEF tally, codes

(* New statistics are empty.                                               *)
LEMMA NewType == NewToolStats \in ToolStatsType /\ RingOK(NewToolStats)
BY SizeAssumption DEF NewToolStats, ToolStatsType, RingOK

-----------------------------------------------------------------------------
(* Where a worker that is to insert or to count does so.                   *)
LEMMA PlaceThere ==
  ASSUME TypeOK, NEW w \in Workers, pc[w] \in {"insert", "tally"}
  PROVE  /\ arg[w] \in Observations /\ ts[w] \in 1..Len(stats)
         /\ tools[arg[w].tool] \in 2..Len(stats) /\ ts[w] \in {tools[arg[w].tool], Overall}
         /\ stats[ts[w]] \in ToolStatsType /\ RingOK(stats[ts[w]])
<1>1. /\ arg[w] \in Observations /\ tools[arg[w].tool] # None
      /\ ts[w] \in {tools[arg[w].tool], Overall}
  BY DEF TypeOK, PlaceOK
<1>2. tools[arg[w].tool] \in 2..Len(stats)
  BY <1>1 DEF TypeOK, Observations
<1>3. ts[w] \in 1..Len(stats)
  BY <1>1, <1>2 DEF TypeOK, Overall
<1> QED BY <1>1, <1>2, <1>3 DEF TypeOK

LEMMA BeginsType ==
  ASSUME TypeOK, NEW w \in Workers, NEW o \in Observations, RecordBegins(w, o)
  PROVE  TypeOK'
<1> USE DEF TypeOK, RecordBegins
<1>1. tools[o.tool] \in (2..Len(stats)) \cup {None}
  BY DEF Observations
<1>2. calls' \in 0..MaxRecords
  BY SizeAssumption
<1>3. /\ pc' \in [Workers -> {"idle", "create", "insert", "tally"}]
      /\ arg' \in [Workers -> Observations \cup {None}]
      /\ ts' \in [Workers -> (1..Len(stats)) \cup {None}]
  BY <1>1
<1>4. ASSUME NEW v \in Workers
      PROVE  PlaceOK(v)'
  BY <1>1 DEF PlaceOK
<1> QED BY <1>2, <1>3, <1>4

LEMMA CreatesType ==
  ASSUME TypeOK, NEW w \in Workers, Creates(w)
  PROVE  TypeOK'
<1> DEFINE t == arg[w].tool
<1>1. arg[w] \in Observations /\ t \in Tools
  BY DEF TypeOK, PlaceOK, Creates, Observations
<1>2. CASE tools[t] = None
  <2>1. /\ stats' = Append(stats, NewToolStats) /\ stats' \in Seq(ToolStatsType)
        /\ Len(stats') = Len(stats) + 1 /\ stats' # <<>>
        /\ \A i \in 1..Len(stats) : stats'[i] = stats[i]
        /\ stats'[Len(stats) + 1] = NewToolStats
    <3>1. stats' = Append(stats, NewToolStats)
      BY <1>2 DEF Creates
    <3>2. stats \in Seq(ToolStatsType) /\ NewToolStats \in ToolStatsType
      BY NewType DEF TypeOK
    <3> QED BY <3>1, <3>2, AppendProperties
  <2>2. /\ tools' = [tools EXCEPT ![t] = Len(stats) + 1]
        /\ ts' = [ts EXCEPT ![w] = Len(stats) + 1]
        /\ pc' = [pc EXCEPT ![w] = "insert"] /\ UNCHANGED <<calls, arg>>
    BY <1>1, <1>2, <2>1 DEF Creates, TypeOK
  <2>3. Len(stats) \in Nat /\ Len(stats) >= 1
    BY DEF TypeOK
  <2>4. \A i \in 1..Len(stats') : RingOK(stats'[i])
    BY <2>1, <2>3, NewType DEF TypeOK
  <2>5. /\ tools' \in [Tools -> (2..Len(stats')) \cup {None}]
        /\ \A x, u \in Tools : x # u /\ tools'[x] # None => tools'[x] # tools'[u]
        /\ \A x \in Tools : tools[x] # None => tools'[x] = tools[x]
    BY <1>1, <1>2, <2>1, <2>2, <2>3, NoneAssumption DEF TypeOK
  <2>6. /\ pc' \in [Workers -> {"idle", "create", "insert", "tally"}]
        /\ ts' \in [Workers -> (1..Len(stats')) \cup {None}]
    BY <2>1, <2>2, <2>3 DEF TypeOK
  <2>7. tools'[t] # None /\ ts'[w] = tools'[t]
    BY <1>1, <2>2, <2>3, NoneAssumption DEF TypeOK
  <2>8. ASSUME NEW v \in Workers
        PROVE  PlaceOK(v)'
    BY <1>1, <2>2, <2>5, <2>7 DEF PlaceOK, TypeOK, Observations
  <2> QED BY <2>1, <2>2, <2>4, <2>5, <2>6, <2>8 DEF TypeOK
<1>3. CASE tools[t] # None
  <2>1. /\ UNCHANGED <<stats, tools, calls, arg>>
        /\ ts' = [ts EXCEPT ![w] = tools[t]] /\ pc' = [pc EXCEPT ![w] = "insert"]
    BY <1>3 DEF Creates
  <2>2. tools[t] \in 2..Len(stats)
    BY <1>1, <1>3 DEF TypeOK
  <2>3. /\ pc' \in [Workers -> {"idle", "create", "insert", "tally"}]
        /\ ts' \in [Workers -> (1..Len(stats')) \cup {None}]
    BY <2>1, <2>2 DEF TypeOK
  <2>4. ASSUME NEW v \in Workers
        PROVE  PlaceOK(v)'
    BY <1>1, <1>3, <2>1 DEF PlaceOK, TypeOK
  <2> QED BY <2>1, <2>3, <2>4 DEF TypeOK
<1> QED BY <1>2, <1>3

(* What Inserts and Tallies have in common: one record is replaced.        *)
LEMMA ReplaceType ==
  ASSUME TypeOK, NEW i \in 1..Len(stats), NEW s \in ToolStatsType, RingOK(s),
         stats' = [stats EXCEPT ![i] = s], UNCHANGED tools
  PROVE  /\ stats' \in Seq(ToolStatsType) /\ stats' # <<>> /\ Len(stats') = Len(stats)
         /\ \A j \in 1..Len(stats') : RingOK(stats'[j])
         /\ stats'[i] = s /\ \A j \in 1..Len(stats) : j # i => stats'[j] = stats[j]
<1>1. stats \in Seq(ToolStatsType) /\ stats # <<>> /\ \A j \in 1..Len(stats) : RingOK(stats[j])
  BY DEF TypeOK
<1>2. /\ stats' \in Seq(ToolStatsType) /\ Len(stats') = Len(stats)
      /\ \A j \in 1..Len(stats) : stats'[j] = IF j = i THEN s ELSE stats[j]
  BY <1>1, ExceptSeq
<1> QED BY <1>1, <1>2

LEMMA InsertsType ==
  ASSUME TypeOK, NEW w \in Workers, Inserts(w)
  PROVE  TypeOK'
<1>1. /\ arg[w] \in Observations /\ ts[w] \in 1..Len(stats)
      /\ tools[arg[w].tool] \in 2..Len(stats) /\ ts[w] \in {tools[arg[w].tool], Overall}
      /\ stats[ts[w]] \in ToolStatsType /\ RingOK(stats[ts[w]])
  BY PlaceThere DEF Inserts
<1> DEFINE s == Insert(stats[ts[w]], arg[w].dur)
<1>2. s \in ToolStatsType /\ RingOK(s)
  BY <1>1, InsertType DEF Observations
<1>3. stats' = [stats EXCEPT ![ts[w]] = s] /\ UNCHANGED <<tools, calls, arg, ts>>
  BY DEF Inserts
<1> HIDE DEF s
<1>4. /\ stats' \in Seq(ToolStatsType) /\ stats' # <<>> /\ Len(stats') = Len(stats)
      /\ \A j \in 1..Len(stats') : RingOK(stats'[j])
  BY <1>1, <1>2, <1>3, ReplaceType
<1>5. pc' \in [Workers -> {"idle", "create", "insert", "tally"}]
  BY DEF TypeOK, Inserts
<1>6. ASSUME NEW v \in Workers
      PROVE  PlaceOK(v)'
  BY <1>3 DEF PlaceOK, TypeOK, Inserts
<1> QED BY <1>3, <1>4, <1>5, <1>6 DEF TypeOK

LEMMA TalliesType ==
  ASSUME TypeOK, NEW w \in Workers, Tallies(w)
  PROVE  TypeOK'
<1>1. /\ arg[w] \in Observations /\ ts[w] \in 1..Len(stats)
      /\ tools[arg[w].tool] \in 2..Len(stats) /\ ts[w] \in {tools[arg[w].tool], Overall}
      /\ stats[ts[w]] \in ToolStatsType /\ RingOK(stats[ts[w]])
  BY PlaceThere DEF Tallies
<1> DEFINE s == CountIn(stats[ts[w]], arg[w].err)
<1>2. s \in ToolStatsType /\ RingOK(s)
  BY <1>1, CountInType DEF RingOK
<1>3. stats' = [stats EXCEPT ![ts[w]] = s] /\ UNCHANGED <<tools, calls>>
  BY DEF Tallies
<1> HIDE DEF s
<1>4. /\ stats' \in Seq(ToolStatsType) /\ stats' # <<>> /\ Len(stats') = Len(stats)
      /\ \A j \in 1..Len(stats') : RingOK(stats'[j])
  BY <1>1, <1>2, <1>3, ReplaceType
<1>5. /\ pc' \in [Workers -> {"idle", "create", "insert", "tally"}]
      /\ arg' \in [Workers -> Observations \cup {None}]
      /\ ts' \in [Workers -> (1..Len(stats')) \cup {None}]
  <2>1. Overall \in 1..Len(stats)
    BY <1>1 DEF Overall
  <2>2. CASE ts[w] = Overall
    BY <1>4, <2>2 DEF TypeOK, Tallies
  <2>3. CASE ts[w] # Overall
    BY <1>4, <2>1, <2>3 DEF TypeOK, Tallies
  <2> QED BY <2>2, <2>3
<1>6. ASSUME NEW v \in Workers
      PROVE  PlaceOK(v)'
  BY <1>1, <1>3, NoneAssumption DEF PlaceOK, TypeOK, Tallies
<1> QED BY <1>3, <1>4, <1>5, <1>6 DEF TypeOK

(* The type invariant: in particular the index of every ring stays within  *)
(* it, and no two tools ever get the same statistics, though any number of *)
(* workers may find none and race to create them.                          *)
LEMMA TypeInit == Init => TypeOK
<1> SUFFICES ASSUME Init PROVE TypeOK
  OBVIOUS
<1>1. stats = <<NewToolStats>> /\ stats \in Seq(ToolStatsType) /\ Len(stats) = 1
  BY NewType DEF Init
<1>2. stats # <<>> /\ \A i \in 1..Len(stats) : RingOK(stats[i])
  BY <1>1, NewType
<1> QED BY <1>1, <1>2, SizeAssumption DEF Init, TypeOK, PlaceOK

LEMMA TypeStep == TypeOK /\ [Next]_vars => TypeOK'
<1> SUFFICES ASSUME TypeOK, [Next]_vars PROVE TypeOK'
  OBVIOUS
<1>1. CASE UNCHANGED vars
  BY <1>1 DEF vars, TypeOK, PlaceOK
<1> QED BY <1>1, BeginsType, CreatesType, InsertsType, TalliesType
        DEF Next, RecordStep, Terminated

THEOREM TypeCorrect == Spec => []TypeOK
BY TypeInit, TypeStep, PTL DEF Spec

-----------------------------------------------------------------------------
(* What a step does to the statistics, one by one.                         *)
LEMMA Written ==
  ASSUME TypeOK, [Next]_vars, NEW i \in 1..Len(stats')
  PROVE  \/ stats'[i] = NewToolStats
         \/ /\ i \in 1..Len(stats) /\ stats[i] \in ToolStatsType /\ RingOK(stats[i])
            /\ \/ stats'[i] = stats[i]
               \/ \E d \in Durations : stats'[i] = Insert(stats[i], d)
               \/ \E err \in Errs : stats'[i] = CountIn(stats[i], err)
<1>1. stats \in Seq(ToolStatsType)
  BY DEF TypeOK
<1>2. \A k \in 1..Len(stats) : stats[k] \in ToolStatsType /\ RingOK(stats[k])
  BY DEF TypeOK
<1>3. CASE UNCHANGED stats
  BY <1>2, <1>3
<1>4. CASE stats' = Append(stats, NewToolStats)
  <2>1. /\ Len(stats') = Len(stats) + 1 /\ stats'[Len(stats) + 1] = NewToolStats
        /\ \A k \in 1..Len(stats) : stats'[k] = stats[k]
    BY <1>1, <1>4, NewType, AppendProperties
  <2>2. i = Len(stats) + 1 \/ i \in 1..Len(stats)
    BY <1>1, <2>1
  <2> QED BY <1>2, <2>1, <2>2
<1>5. ASSUME NEW w \in Workers, Inserts(w)
      PROVE  /\ i \in 1..Len(stats)
             /\ stats'[i] = stats[i] \/ \E d \in Durations : stats'[i] = Insert(stats[i], d)
  <2>1. arg[w].dur \in Durations /\ ts[w] \in 1..Len(stats)
    BY <1>5, PlaceThere DEF Inserts, Observations
  <2>2. stats' = [stats EXCEPT ![ts[w]] = Insert(stats[ts[w]], arg[w].dur)]
    BY <1>5 DEF Inserts
  <2>3. Insert(stats[ts[w]], arg[w].dur) \in ToolStatsType
    BY <1>2, <2>1, InsertType
  <2>4. Len(stats') = Len(stats)
    BY <1>1, <2>1, <2>2, <2>3, ExceptSeq
  <2> QED BY <1>1, <2>1, <2>2, <2>4
<1>6. ASSUME NEW w \in Workers, Tallies(w)
      PROVE  /\ i \in 1..Len(stats)
             /\ stats'[i] = stats[i] \/ \E err \in Errs : stats'[i] = CountIn(stats[i], err)
  <2>1. arg[w].err \in Errs /\ ts[w] \in 1..Len(stats)
    BY <1>6, PlaceThere DEF Tallies, Observations
  <2>2. stats' = [stats EXCEPT ![ts[w]] = CountIn(stats[ts[w]], arg[w].err)]
    BY <1>6 DEF Tallies
  <2>3. CountIn(stats[ts[w]], arg[w].err) \in ToolStatsType
    BY <1>2, <2>1, CountInType
  <2>4. Len(stats') = Len(stats)
    BY <1>1, <2>1, <2>2, <2>3, ExceptSeq
  <2> QED BY <1>1, <2>1, <2>2, <2>4
<1>7. \/ UNCHANGED stats \/ stats' = Append(stats, NewToolStats)
      \/ \E w \in Workers : Inserts(w) \/ Tallies(w)
  BY DEF Next, RecordStep, RecordBegins, Creates, Terminated, vars
<1> QED BY <1>2, <1>3, <1>4, <1>5, <1>6, <1>7

-----------------------------------------------------------------------------
(* The codes of one ToolStats add up to its JSON-RPC errors.               *)
CodesIn(s) == s.tally["jsonrpc"] = SumFunction(s.codes)

LEMMA CodesOfNew == CodesIn(NewToolStats)
<1> DEFINE zero == [n \in Codes |-> 0]
<1>1. SumFunctionOnSet(zero, Codes) = 0
  BY FiniteNames, SumZero
<1>2. NewToolStats.codes = zero /\ NewToolStats.tally["jsonrpc"] = 0 /\ DOMAIN zero = Codes
  BY DEF NewToolStats, Categories
<1> HIDE DEF zero
<1> QED BY <1>1, <1>2 DEF CodesIn, SumFunction

(* One error adds to both sides, or to none.                               *)
LEMMA CodesOfCount ==
  ASSUME NEW s \in ToolStatsType, NEW err \in Errs, CodesIn(s)
  PROVE  CodesIn(CountIn(s, err))
<1> DEFINE old == s.codes
           new == [n \in Codes |-> old[n] + (IF n \in CountedCodes(err) THEN 1 ELSE 0)]
           tally == [s.tally EXCEPT ![Classify(err)] = @ + 1]
<1>1. CountIn(s, err).codes = new /\ CountIn(s, err).tally = tally
  BY CountInType
<1>2. old \in [Codes -> Nat] /\ s.tally \in [Categories -> Nat]
  BY DEF ToolStatsType
<1>3. s.tally["jsonrpc"] = SumFunctionOnSet(old, Codes)
  BY <1>2 DEF CodesIn, SumFunction
<1>4. err \in Seq(Links)
  BY ErrsAssumption
<1>5. CASE Classify(err) = "jsonrpc"
  <2>1. PICK n \in Codes : CountedCodes(err) = {n}
    BY <1>4, <1>5, CountedCode
  <2>2. new[n] = old[n] + 1 /\ \A x \in Codes \ {n} : new[x] = old[x]
    BY <1>2, <2>1
  <2>3. SumFunctionOnSet(new, Codes) = SumFunctionOnSet(old, Codes) + 1
    <3> HIDE DEF new, old
    <3> QED BY <1>2, <2>2, FiniteNames, SumShift
  <2>4. tally["jsonrpc"] = s.tally["jsonrpc"] + 1
    BY <1>2, <1>5 DEF Categories
  <2> QED BY <1>1, <1>3, <2>3, <2>4 DEF CodesIn, SumFunction
<1>6. CASE Classify(err) # "jsonrpc"
  <2>1. \A n \in Codes : new[n] = old[n]
    BY <1>2, <1>4, <1>6, CountedCode
  <2>2. SumFunctionOnSet(new, Codes) = SumFunctionOnSet(old, Codes)
    <3> HIDE DEF new, old
    <3> QED BY <2>1, FiniteNames, SumEqual
  <2>3. tally["jsonrpc"] = s.tally["jsonrpc"]
    BY <1>2, <1>6 DEF Categories
  <2> QED BY <1>1, <1>3, <2>2, <2>3 DEF CodesIn, SumFunction
<1> QED BY <1>5, <1>6

(* CodesCounted: every JSON-RPC error has its code in the histogram of its *)
(* tool and in the overall one, whatever the chain and whatever the        *)
(* workers do at the same time.                                            *)
THEOREM CodesKept == Spec => []CodesCounted
<1>1. Init => CodesCounted
  BY CodesOfNew DEF Init, CodesCounted, CodesIn
<1>2. TypeOK /\ CodesCounted /\ [Next]_vars => CodesCounted'
  <2> SUFFICES ASSUME TypeOK, CodesCounted, [Next]_vars, NEW i \in 1..Len(stats')
               PROVE  CodesIn(stats'[i])
    BY DEF CodesCounted, CodesIn
  <2>1. i \in 1..Len(stats) => CodesIn(stats[i])
    BY DEF CodesCounted, CodesIn
  <2>2. ASSUME NEW d \in Durations, i \in 1..Len(stats), stats[i] \in ToolStatsType,
               RingOK(stats[i]), stats'[i] = Insert(stats[i], d)
        PROVE  CodesIn(stats'[i])
    BY <2>1, <2>2, InsertType DEF CodesIn
  <2> QED BY <2>1, <2>2, Written, CodesOfNew, CodesOfCount
<1> QED BY <1>1, <1>2, TypeCorrect, PTL DEF Spec

-----------------------------------------------------------------------------
(* Counting an outcome adds one to the counts of its statistics.           *)
LEMMA SamplesOfCount ==
  ASSUME NEW s \in ToolStatsType, NEW err \in Errs
  PROVE  /\ SumFunction(s.tally) \in Nat
         /\ SumFunction(CountIn(s, err).tally) = SumFunction(s.tally) + 1
<1> DEFINE old == s.tally
           new == CountIn(s, err).tally
<1>1. old \in [Categories -> Nat] /\ new = [old EXCEPT ![Classify(err)] = @ + 1]
  BY CountInType DEF ToolStatsType
<1>2. Classify(err) \in Categories
  BY ClassifyType
<1>3. new[Classify(err)] = old[Classify(err)] + 1
  BY <1>1, <1>2
<1>4. \A x \in Categories \ {Classify(err)} : new[x] = old[x]
  BY <1>1, <1>2
<1>5. SumFunctionOnSet(old, Categories) \in Nat
  <2> HIDE DEF new, old
  <2> QED BY <1>1, FiniteNames, SumNat
<1>6. SumFunctionOnSet(new, Categories) = SumFunctionOnSet(old, Categories) + 1
  <2>1. \A x \in Categories : old[x] \in Int
    BY <1>1
  <2> HIDE DEF new, old
  <2> QED BY <1>2, <1>3, <1>4, <2>1, FiniteNames, SumShift
<1>7. DOMAIN old = Categories /\ DOMAIN new = Categories
  BY <1>1
<1> HIDE DEF new, old
<1>8. SumFunction(old) = SumFunctionOnSet(old, Categories)
  BY <1>7 DEF SumFunction
<1>9. SumFunction(new) = SumFunctionOnSet(new, Categories)
  BY <1>7 DEF SumFunction
<1> QED BY <1>5, <1>6, <1>8, <1>9 DEF new, old

LEMMA SamplesOfNew == NewToolStats.count = 0 /\ SumFunction(NewToolStats.tally) = 0
<1> DEFINE zero == [c \in Categories |-> 0]
<1>1. SumFunctionOnSet(zero, Categories) = 0
  BY FiniteNames, SumZero
<1>2. NewToolStats.count = 0 /\ NewToolStats.tally = zero /\ DOMAIN zero = Categories
  BY DEF NewToolStats
<1> HIDE DEF zero
<1> QED BY <1>1, <1>2 DEF SumFunction

(* The workers between two mutexes are finitely many.                      *)
LEMMA BetweenFinite ==
  ASSUME NEW i
  PROVE  IsFiniteSet(Between(i)) /\ Cardinality(Between(i)) \in Nat
<1>1. Between(i) \subseteq Workers
  BY DEF Between
<1> QED BY <1>1, FiniteAssumption, FS_Subset, FS_CardinalityType

SamplesIn(i) == stats[i].count = SumFunction(stats[i].tally) + Cardinality(Between(i))

LEMMA SamplesCreated ==
  ASSUME TypeOK, NEW w \in Workers, Creates(w), NEW i \in 1..Len(stats'),
         \A j \in 1..Len(stats) : SamplesIn(j)
  PROVE  SamplesIn(i)'
<1>1. Between(i)' = Between(i)
  BY DEF Between, Creates, TypeOK
<1>2. CASE i \in 1..Len(stats) /\ stats'[i] = stats[i]
  BY <1>1, <1>2 DEF SamplesIn
<1>3. CASE i \notin 1..Len(stats) /\ stats'[i] = NewToolStats
  <2>1. \A v \in Workers : pc[v] = "tally" => ts[v] \in 1..Len(stats)
    BY PlaceThere
  <2>2. Between(i) = {}
    BY <1>3, <2>1 DEF Between
  <2> QED BY <1>1, <1>3, <2>2, SamplesOfNew, FS_EmptySet DEF SamplesIn
<1>4. CASE UNCHANGED stats
  BY <1>2, <1>4
<1>5. CASE stats' = Append(stats, NewToolStats)
  <2>1. stats \in Seq(ToolStatsType)
    BY DEF TypeOK
  <2>2. /\ Len(stats') = Len(stats) + 1 /\ stats'[Len(stats) + 1] = NewToolStats
        /\ \A k \in 1..Len(stats) : stats'[k] = stats[k]
    BY <2>1, <1>5, NewType, AppendProperties
  <2>3. (i = Len(stats) + 1 /\ i \notin 1..Len(stats)) \/ i \in 1..Len(stats)
    BY <2>1, <2>2
  <2> QED BY <1>2, <1>3, <2>2, <2>3
<1> QED BY <1>4, <1>5 DEF Creates

LEMMA SamplesInserted ==
  ASSUME TypeOK, NEW w \in Workers, Inserts(w), NEW i \in 1..Len(stats'),
         \A j \in 1..Len(stats) : SamplesIn(j)
  PROVE  SamplesIn(i)'
<1>1. /\ arg[w] \in Observations /\ ts[w] \in 1..Len(stats)
      /\ stats[ts[w]] \in ToolStatsType /\ RingOK(stats[ts[w]])
  BY PlaceThere DEF Inserts
<1> DEFINE s == Insert(stats[ts[w]], arg[w].dur)
<1>2. /\ s \in ToolStatsType /\ RingOK(s) /\ s.count = stats[ts[w]].count + 1
      /\ s.tally = stats[ts[w]].tally
  BY <1>1, InsertType DEF Observations
<1>3. stats' = [stats EXCEPT ![ts[w]] = s] /\ UNCHANGED <<tools, ts>>
  BY DEF Inserts
<1> HIDE DEF s
<1>4. /\ Len(stats') = Len(stats) /\ stats'[ts[w]] = s
      /\ \A j \in 1..Len(stats) : j # ts[w] => stats'[j] = stats[j]
  BY <1>1, <1>2, <1>3, ReplaceType
<1>5. CASE i = ts[w]
  <2>1. Between(i)' = Between(i) \cup {w} /\ w \notin Between(i)
    BY <1>3, <1>5 DEF Between, Inserts, TypeOK
  <2>2. /\ Cardinality(Between(i)) \in Nat
        /\ Cardinality(Between(i)') = Cardinality(Between(i)) + 1
    BY <2>1, BetweenFinite, OneMore
  <2>3. SumFunction(stats[i].tally) \in Nat
    BY <1>1, <1>5, SamplesOfCount DEF Observations
  <2>4. stats[i].count = SumFunction(stats[i].tally) + Cardinality(Between(i))
    BY <1>1, <1>5 DEF SamplesIn
  <2>5. stats[i].count + 1 = SumFunction(stats[i].tally) + Cardinality(Between(i)')
    BY <2>2, <2>3, <2>4
  <2> QED BY <1>2, <1>4, <1>5, <2>5 DEF SamplesIn
<1>6. CASE i # ts[w]
  <2>1. Between(i)' = Between(i)
    BY <1>3, <1>6 DEF Between, Inserts, TypeOK
  <2> QED BY <1>4, <1>6, <2>1 DEF SamplesIn
<1> QED BY <1>5, <1>6

LEMMA SamplesTallied ==
  ASSUME TypeOK, NEW w \in Workers, Tallies(w), NEW i \in 1..Len(stats'),
         \A j \in 1..Len(stats) : SamplesIn(j)
  PROVE  SamplesIn(i)'
<1>1. /\ arg[w] \in Observations /\ ts[w] \in 1..Len(stats)
      /\ stats[ts[w]] \in ToolStatsType /\ RingOK(stats[ts[w]])
  BY PlaceThere DEF Tallies
<1> DEFINE s == CountIn(stats[ts[w]], arg[w].err)
<1>2. /\ s \in ToolStatsType /\ RingOK(s) /\ s.count = stats[ts[w]].count
      /\ SumFunction(s.tally) = SumFunction(stats[ts[w]].tally) + 1
      /\ SumFunction(stats[ts[w]].tally) \in Nat
  BY <1>1, CountInType, SamplesOfCount DEF Observations, RingOK
<1>3. stats' = [stats EXCEPT ![ts[w]] = s] /\ UNCHANGED tools
  BY DEF Tallies
<1> HIDE DEF s
<1>4. /\ Len(stats') = Len(stats) /\ stats'[ts[w]] = s
      /\ \A j \in 1..Len(stats) : j # ts[w] => stats'[j] = stats[j]
  BY <1>1, <1>2, <1>3, ReplaceType
<1>5. CASE i = ts[w]
  <2>1. Between(i) = Between(i)' \cup {w} /\ w \notin Between(i)'
    BY <1>5 DEF Between, Tallies, TypeOK
  <2>2. Between(i)' \subseteq Workers
    BY DEF Between
  <2>3. /\ Cardinality(Between(i)') \in Nat
        /\ Cardinality(Between(i)) = Cardinality(Between(i)') + 1
    BY <2>1, <2>2, FiniteAssumption, FS_Subset, OneMore
  <2>4. stats[i].count = SumFunction(stats[i].tally) + Cardinality(Between(i))
    BY <1>1, <1>5 DEF SamplesIn
  <2>5. s.count = SumFunction(s.tally) + Cardinality(Between(i)')
    BY <1>2, <1>5, <2>3, <2>4
  <2> QED BY <1>4, <1>5, <2>5 DEF SamplesIn
<1>6. CASE i # ts[w]
  <2>1. Between(i)' = Between(i)
    BY <1>6, <1>1 DEF Between, Tallies, TypeOK
  <2> QED BY <1>4, <1>6, <2>1 DEF SamplesIn
<1> QED BY <1>5, <1>6

(* SamplesCounted: the reservoir and the counters of one statistics are    *)
(* under two mutexes, so they disagree exactly while workers are between   *)
(* them; no sample is ever without its outcome for good.                   *)
THEOREM SamplesKept == Spec => []SamplesCounted
<1>1. Init => SamplesCounted
  <2> SUFFICES ASSUME Init PROVE SamplesIn(1)
    BY DEF Init, SamplesCounted, SamplesIn
  <2>1. Between(1) = {} /\ stats[1] = NewToolStats
    BY DEF Init, Between
  <2> QED BY <2>1, SamplesOfNew, FS_EmptySet DEF SamplesIn
<1>2. TypeOK /\ SamplesCounted /\ [Next]_vars => SamplesCounted'
  <2> SUFFICES ASSUME TypeOK, SamplesCounted, [Next]_vars, NEW i \in 1..Len(stats')
               PROVE  SamplesIn(i)'
    BY DEF SamplesCounted, SamplesIn
  <2>1. \A j \in 1..Len(stats) : SamplesIn(j)
    BY DEF SamplesCounted, SamplesIn
  <2>2. ASSUME NEW w \in Workers, NEW o \in Observations, RecordBegins(w, o)
        PROVE  SamplesIn(i)'
    <3>1. Between(i)' = Between(i) /\ stats' = stats
      BY <2>2 DEF Between, RecordBegins, TypeOK
    <3> QED BY <2>1, <3>1 DEF SamplesIn
  <2>3. ASSUME UNCHANGED vars
        PROVE  SamplesIn(i)'
    BY <2>1, <2>3 DEF vars, SamplesIn, Between
  <2> QED BY <2>1, <2>2, <2>3, SamplesCreated, SamplesInserted, SamplesTallied
          DEF Next, RecordStep, Terminated
<1> QED BY <1>1, <1>2, TypeCorrect, PTL DEF Spec

-----------------------------------------------------------------------------
(* Both sides of the books: what the overall statistics have of a category *)
(* and are owed, and the same for all the tools.                           *)
Due(c)  == stats[Overall].tally[c] + Cardinality(OwesOverall(c))
Line(c) == [t \in Tools |-> Of(t).tally[c]]
Paid(c) == SumFunction(Line(c)) + Cardinality(OwesTool(c))

LEMMA OfType ==
  ASSUME TypeOK, NEW k \in Keys
  PROVE  Of(k) \in ToolStatsType /\ RingOK(Of(k))
<1>1. Overall \in 1..Len(stats)
  BY DEF TypeOK, Overall
<1>2. \A i \in 1..Len(stats) : stats[i] \in ToolStatsType /\ RingOK(stats[i])
  BY DEF TypeOK
<1>3. \A t \in Tools : tools[t] # None => tools[t] \in 1..Len(stats)
  BY DEF TypeOK
<1> QED BY <1>1, <1>2, <1>3, NewType DEF Of, Keys

LEMMA BookTypes ==
  ASSUME TypeOK, NEW c \in Categories
  PROVE  /\ stats[Overall].tally[c] \in Nat
         /\ Line(c) \in [Tools -> Nat]
         /\ SumFunction(Line(c)) = SumFunctionOnSet(Line(c), Tools)
         /\ SumFunction(Line(c)) \in Nat
         /\ IsFiniteSet(OwesTool(c)) /\ Cardinality(OwesTool(c)) \in Nat
         /\ IsFiniteSet(OwesOverall(c)) /\ Cardinality(OwesOverall(c)) \in Nat
<1>1. OwesTool(c) \subseteq Workers /\ OwesOverall(c) \subseteq Workers
  BY DEF OwesTool, OwesOverall
<1>2. /\ IsFiniteSet(OwesTool(c)) /\ Cardinality(OwesTool(c)) \in Nat
      /\ IsFiniteSet(OwesOverall(c)) /\ Cardinality(OwesOverall(c)) \in Nat
  BY <1>1, FiniteAssumption, FS_Subset, FS_CardinalityType
<1>3. \A k \in Keys : Of(k) \in ToolStatsType
  BY OfType
<1>4. \A k \in Keys : Of(k).tally[c] \in Nat
  BY <1>3 DEF ToolStatsType
<1>5. stats[Overall].tally[c] \in Nat
  BY <1>4 DEF Keys, Of
<1>6. Line(c) \in [Tools -> Nat]
  BY <1>4 DEF Line, Keys
<1>7. SumFunctionOnSet(Line(c), Tools) \in Nat
  BY <1>6, FiniteAssumption, SumNat
<1>8. SumFunction(Line(c)) = SumFunctionOnSet(Line(c), Tools)
  BY <1>6 DEF SumFunction
<1> QED BY <1>2, <1>5, <1>6, <1>7, <1>8

(* A worker that begins owes both sides one outcome of its category.       *)
LEMMA BooksBegin ==
  ASSUME TypeOK, NEW w \in Workers, NEW o \in Observations, RecordBegins(w, o),
         NEW c \in Categories
  PROVE  /\ c = Classify(o.err) => Due(c)' = Due(c) + 1 /\ Paid(c)' = Paid(c) + 1
         /\ c # Classify(o.err) => Due(c)' = Due(c) /\ Paid(c)' = Paid(c)
<1>1. stats' = stats /\ Line(c)' = Line(c)
  BY DEF RecordBegins, Line, Of
<1>2. /\ w \notin OwesOverall(c) /\ w \notin OwesTool(c)
      /\ pc'[w] # "idle" /\ arg'[w] = o /\ ts'[w] # Overall
      /\ \A v \in Workers \ {w} : pc'[v] = pc[v] /\ arg'[v] = arg[v] /\ ts'[v] = ts[v]
  <2>1. tools[o.tool] # Overall
    BY NoneAssumption DEF TypeOK, Observations, Overall
  <2> QED BY <2>1 DEF RecordBegins, TypeOK, OwesOverall, OwesTool
<1>3. CASE c = Classify(o.err)
  <2>1. /\ OwesOverall(c)' = OwesOverall(c) \cup {w}
        /\ OwesTool(c)' = OwesTool(c) \cup {w}
    BY <1>2, <1>3 DEF OwesOverall, OwesTool
  <2>2. /\ Cardinality(OwesOverall(c)') = Cardinality(OwesOverall(c)) + 1
        /\ Cardinality(OwesTool(c)') = Cardinality(OwesTool(c)) + 1
    BY <1>2, <2>1, BookTypes, OneMore
  <2>3. Due(c)' = Due(c) + 1
    BY <1>1, <2>2, BookTypes DEF Due
  <2>4. Paid(c)' = Paid(c) + 1
    BY <1>1, <2>2, BookTypes DEF Paid
  <2> QED BY <1>3, <2>3, <2>4
<1>4. CASE c # Classify(o.err)
  <2>1. OwesOverall(c)' = OwesOverall(c) /\ OwesTool(c)' = OwesTool(c)
    BY <1>2, <1>4 DEF OwesOverall, OwesTool
  <2> QED BY <1>1, <1>4, <2>1 DEF Due, Paid
<1> QED BY <1>3, <1>4

(* Creating statistics changes neither side: the new ones are empty, and   *)
(* counted so before.                                                      *)
LEMMA OfCreated ==
  ASSUME TypeOK, NEW w \in Workers, Creates(w), NEW k \in Keys
  PROVE  Of(k)' = Of(k)
<1> DEFINE t == arg[w].tool
<1>1. t \in Tools
  BY DEF TypeOK, PlaceOK, Creates, Observations
<1>2. CASE tools[t] = None
  <2>1. stats' = Append(stats, NewToolStats) /\ stats \in Seq(ToolStatsType)
    BY <1>2 DEF Creates, TypeOK
  <2>2. /\ Len(stats') = Len(stats) + 1 /\ Len(stats) \in Nat /\ Len(stats) >= 1
        /\ \A i \in 1..Len(stats) : stats'[i] = stats[i]
        /\ stats'[Len(stats) + 1] = NewToolStats
    <3>1. Len(stats) \in Nat /\ Len(stats) >= 1
      BY DEF TypeOK
    <3> QED BY <2>1, <3>1, NewType, AppendProperties
  <2>3. tools' = [tools EXCEPT ![t] = Len(stats) + 1] /\ tools \in [Tools -> (2..Len(stats)) \cup {None}]
    BY <1>2, <2>2 DEF Creates, TypeOK
  <2>4. CASE k = None
    <3>1. Overall \in 1..Len(stats)
      BY <2>2 DEF Overall
    <3> QED BY <2>2, <2>4, <3>1 DEF Of
  <2>5. CASE k = t /\ k # None
    <3>1. tools'[k] = Len(stats) + 1 /\ tools'[k] # None
      BY <1>1, <2>2, <2>3, <2>5, NoneAssumption
    <3> QED BY <1>2, <2>2, <2>5, <3>1 DEF Of
  <2>6. CASE k # t /\ k # None
    <3>1. k \in Tools
      BY <2>6 DEF Keys
    <3>2. tools'[k] = tools[k]
      BY <2>3, <2>6, <3>1
    <3>3. tools[k] # None => tools[k] \in 1..Len(stats)
      BY <2>3, <3>1
    <3> QED BY <2>2, <2>6, <3>2, <3>3 DEF Of
  <2> QED BY <2>4, <2>5, <2>6
<1>3. CASE tools[t] # None
  BY <1>3 DEF Creates, Of
<1> QED BY <1>2, <1>3

LEMMA BooksCreate ==
  ASSUME TypeOK, NEW w \in Workers, Creates(w), NEW c \in Categories
  PROVE  Due(c)' = Due(c) /\ Paid(c)' = Paid(c)
<1>1. \A k \in Keys : Of(k)' = Of(k)
  BY OfCreated
<1>2. Of(None)' = Of(None) /\ \A t \in Tools : Of(t)' = Of(t)
  BY <1>1 DEF Keys
<1>3. stats'[Overall] = stats[Overall]
  BY <1>2 DEF Of
<1>4. Line(c)' = Line(c)
  BY <1>2 DEF Line
<1>5. OwesOverall(c)' = OwesOverall(c)
  BY DEF Creates, OwesOverall, TypeOK
<1>6. OwesTool(c)' = OwesTool(c)
  <2>1. TypeOK'
    BY CreatesType
  <2>2. /\ ts[w] # Overall /\ ts'[w] # Overall
        /\ pc[w] # "idle" /\ pc'[w] # "idle" /\ arg'[w] = arg[w]
    <3>1. ts[w] = None /\ arg[w].tool \in Tools
      BY DEF Creates, TypeOK, PlaceOK, Observations
    <3>2. ts'[w] = tools'[arg[w].tool] /\ tools' \in [Tools -> (2..Len(stats')) \cup {None}]
      BY <2>1 DEF Creates, TypeOK
    <3> QED BY <3>1, <3>2, NoneAssumption DEF Creates, TypeOK, Overall
  <2>3. \A v \in Workers \ {w} : pc'[v] = pc[v] /\ arg'[v] = arg[v] /\ ts'[v] = ts[v]
    BY DEF Creates, TypeOK
  <2> QED BY <2>2, <2>3 DEF OwesTool
<1> QED BY <1>3, <1>4, <1>5, <1>6 DEF Due, Paid

-----------------------------------------------------------------------------
(* Whose statistics a worker writes: no other tool has the same ones.      *)
At(w) == IF ts[w] = Overall THEN None ELSE arg[w].tool

LEMMA OfReplaced ==
  ASSUME TypeOK, NEW w \in Workers, pc[w] \in {"insert", "tally"},
         NEW s \in ToolStatsType, RingOK(s),
         stats' = [stats EXCEPT ![ts[w]] = s], UNCHANGED tools
  PROVE  /\ At(w) \in Keys /\ Of(At(w)) = stats[ts[w]]
         /\ \A k \in Keys : Of(k)' = IF k = At(w) THEN s ELSE Of(k)
<1>1. /\ arg[w] \in Observations /\ ts[w] \in 1..Len(stats)
      /\ tools[arg[w].tool] \in 2..Len(stats) /\ ts[w] \in {tools[arg[w].tool], Overall}
  BY PlaceThere
<1>2. /\ Len(stats') = Len(stats) /\ stats'[ts[w]] = s
      /\ \A j \in 1..Len(stats) : j # ts[w] => stats'[j] = stats[j]
  BY <1>1, ReplaceType
<1>3. arg[w].tool \in Tools /\ arg[w].tool # None /\ tools[arg[w].tool] # None
  BY <1>1, NoneAssumption DEF Observations
<1>4. At(w) \in Keys /\ Of(At(w)) = stats[ts[w]]
  BY <1>1, <1>3 DEF At, Keys, Of
<1>5. ASSUME NEW k \in Keys
      PROVE  Of(k)' = IF k = At(w) THEN s ELSE Of(k)
  <2>1. Len(stats) \in Nat /\ 1 \in 1..Len(stats)
    BY DEF TypeOK
  <2>2. CASE k = None
    <3>1. k = At(w) <=> ts[w] = Overall
      BY <1>3, <2>2 DEF At
    <3> QED BY <1>2, <2>1, <2>2, <3>1 DEF Of, Overall
  <2>3. CASE k # None /\ tools[k] = None
    <3>1. k # At(w)
      BY <1>3, <2>3 DEF At
    <3> QED BY <2>3, <3>1 DEF Of
  <2>4. CASE k # None /\ tools[k] # None
    <3>1. k \in Tools /\ tools[k] \in 2..Len(stats)
      BY <2>4 DEF Keys, TypeOK
    <3>2. tools[k] = ts[w] <=> k = At(w)
      <4>1. k # arg[w].tool => tools[k] # tools[arg[w].tool]
        BY <1>3, <2>4, <3>1 DEF TypeOK
      <4> QED BY <1>1, <1>3, <2>4, <3>1, <4>1 DEF At, Overall
    <3> QED BY <1>2, <2>4, <3>1, <3>2 DEF Of
  <2> QED BY <2>2, <2>3, <2>4
<1> QED BY <1>4, <1>5

(* A sample changes neither side.                                          *)
LEMMA BooksInsert ==
  ASSUME TypeOK, NEW w \in Workers, Inserts(w), NEW c \in Categories
  PROVE  Due(c)' = Due(c) /\ Paid(c)' = Paid(c)
<1> DEFINE s == Insert(stats[ts[w]], arg[w].dur)
<1>1. /\ arg[w] \in Observations
      /\ stats[ts[w]] \in ToolStatsType /\ RingOK(stats[ts[w]])
  BY PlaceThere DEF Inserts
<1>2. s \in ToolStatsType /\ RingOK(s) /\ s.tally = stats[ts[w]].tally
  BY <1>1, InsertType DEF Observations
<1>3. stats' = [stats EXCEPT ![ts[w]] = s] /\ UNCHANGED tools /\ pc[w] \in {"insert", "tally"}
  BY DEF Inserts
<1> HIDE DEF s
<1>4. \A k \in Keys : Of(k)'.tally = Of(k).tally
  BY <1>2, <1>3, OfReplaced
<1>5. Of(None)'.tally = Of(None).tally /\ \A t \in Tools : Of(t)'.tally = Of(t).tally
  BY <1>4 DEF Keys
<1>6. stats'[Overall].tally = stats[Overall].tally /\ Line(c)' = Line(c)
  BY <1>5 DEF Of, Line
<1>7. OwesOverall(c)' = OwesOverall(c) /\ OwesTool(c)' = OwesTool(c)
  BY DEF Inserts, OwesOverall, OwesTool, TypeOK
<1> QED BY <1>6, <1>7 DEF Due, Paid

(* An outcome is paid to one side, and no longer owed to it.               *)
LEMMA BooksTally ==
  ASSUME TypeOK, NEW w \in Workers, Tallies(w), NEW c \in Categories
  PROVE  Due(c)' = Due(c) /\ Paid(c)' = Paid(c)
<1> DEFINE s == CountIn(stats[ts[w]], arg[w].err)
           a == Classify(arg[w].err)
           k == At(w)
<1>1. /\ arg[w] \in Observations /\ ts[w] \in {tools[arg[w].tool], Overall}
      /\ arg[w].tool \in Tools /\ arg[w].tool # None
      /\ tools[arg[w].tool] # Overall
      /\ stats[ts[w]] \in ToolStatsType /\ RingOK(stats[ts[w]])
  BY PlaceThere, NoneAssumption DEF Tallies, Observations, Overall
<1>2. /\ s \in ToolStatsType /\ RingOK(s)
      /\ s.tally = [stats[ts[w]].tally EXCEPT ![a] = @ + 1]
  BY <1>1, CountInType DEF RingOK
<1>3. /\ stats' = [stats EXCEPT ![ts[w]] = s] /\ UNCHANGED tools
      /\ pc[w] \in {"insert", "tally"}
  BY DEF Tallies
<1>4. a \in Categories
  BY ClassifyType
<1>5. s.tally[c] = stats[ts[w]].tally[c] + (IF c = a THEN 1 ELSE 0)
  BY <1>1, <1>2 DEF ToolStatsType
<1> HIDE DEF s
<1>6. /\ k \in Keys /\ Of(k) = stats[ts[w]]
      /\ \A j \in Keys : Of(j)' = IF j = k THEN s ELSE Of(j)
  BY <1>2, <1>3, OfReplaced
<1>7. \A v \in Workers \ {w} : pc'[v] = pc[v] /\ arg'[v] = arg[v] /\ ts'[v] = ts[v]
  BY DEF Tallies, TypeOK
<1>8. TypeOK'
  BY TalliesType
<1>9. CASE ts[w] = Overall
  <2>1. k = None /\ pc[w] # "idle" /\ pc'[w] = "idle"
    BY <1>9 DEF At, Tallies, TypeOK
  <2>2. OwesTool(c)' = OwesTool(c)
    BY <1>7, <1>9, <2>1 DEF OwesTool
  <2>3. \A t \in Tools : Of(t)' = Of(t)
    BY <1>6, <2>1, NoneAssumption DEF Keys
  <2>4. Paid(c)' = Paid(c)
    BY <2>2, <2>3 DEF Paid, Line
  <2>5. stats'[Overall] = s
    BY <1>6, <2>1 DEF Of
  <2>6. CASE c = a
    <3>1. OwesOverall(c) = OwesOverall(c)' \cup {w} /\ w \notin OwesOverall(c)'
      BY <1>7, <2>1, <2>6 DEF OwesOverall
    <3>2. OwesOverall(c)' \subseteq Workers
      BY DEF OwesOverall
    <3>3. /\ Cardinality(OwesOverall(c)') \in Nat
          /\ Cardinality(OwesOverall(c)) = Cardinality(OwesOverall(c)') + 1
      BY <3>1, <3>2, FiniteAssumption, FS_Subset, OneMore
    <3> QED BY <1>5, <1>9, <2>4, <2>5, <2>6, <3>3, BookTypes DEF Due
  <2>7. CASE c # a
    <3>1. OwesOverall(c)' = OwesOverall(c)
      BY <1>7, <2>1, <2>7 DEF OwesOverall
    <3> QED BY <1>5, <1>9, <2>4, <2>5, <2>7, <3>1, BookTypes DEF Due
  <2> QED BY <2>6, <2>7
<1>10. CASE ts[w] # Overall
  <2>1. /\ k = arg[w].tool /\ k \in Tools /\ k # None
        /\ pc[w] # "idle" /\ pc'[w] # "idle" /\ arg'[w] = arg[w] /\ ts'[w] = Overall
    BY <1>1, <1>10 DEF At, Tallies, TypeOK
  <2>2. OwesOverall(c)' = OwesOverall(c)
    BY <1>7, <2>1 DEF OwesOverall
  <2>3. stats'[Overall] = stats[Overall]
    <3>1. Of(None)' = Of(None)
      BY <1>6, <2>1 DEF Keys
    <3> QED BY <3>1 DEF Of
  <2>4. Due(c)' = Due(c)
    BY <2>2, <2>3 DEF Due
  <2>5. /\ \A t \in Tools \ {k} : Line(c)'[t] = Line(c)[t]
        /\ Line(c)'[k] = Line(c)[k] + (IF c = a THEN 1 ELSE 0)
    <3>1. \A t \in Tools : Line(c)'[t] = Of(t)'.tally[c] /\ Line(c)[t] = Of(t).tally[c]
      BY DEF Line
    <3> QED BY <1>5, <1>6, <2>1, <3>1 DEF Keys
  <2>6. /\ SumFunction(Line(c)') = SumFunctionOnSet(Line(c)', Tools)
        /\ SumFunction(Line(c)) = SumFunctionOnSet(Line(c), Tools)
        /\ SumFunction(Line(c)) \in Nat
        /\ \A t \in Tools : Line(c)[t] \in Int
    <3>1. Line(c) \in [Tools -> Nat]
      BY BookTypes
    <3>2. DOMAIN Line(c)' = Tools
      BY DEF Line
    <3> QED BY <3>1, <3>2, BookTypes DEF SumFunction
  <2>7. CASE c = a
    <3>1. OwesTool(c) = OwesTool(c)' \cup {w} /\ w \notin OwesTool(c)'
      BY <1>7, <1>10, <2>1, <2>7 DEF OwesTool
    <3>2. OwesTool(c)' \subseteq Workers
      BY DEF OwesTool
    <3>3. /\ Cardinality(OwesTool(c)') \in Nat
          /\ Cardinality(OwesTool(c)) = Cardinality(OwesTool(c)') + 1
      BY <3>1, <3>2, FiniteAssumption, FS_Subset, OneMore
    <3>4. SumFunction(Line(c)') = SumFunction(Line(c)) + 1
      BY <2>1, <2>5, <2>6, <2>7, FiniteAssumption, SumShift
    <3> QED BY <2>4, <2>6, <3>3, <3>4 DEF Paid
  <2>8. CASE c # a
    <3>1. OwesTool(c)' = OwesTool(c)
      BY <1>7, <2>1, <2>8 DEF OwesTool
    <3>2. \A t \in Tools : Line(c)'[t] = Line(c)[t]
      BY <2>5, <2>6, <2>8, <2>1
    <3>3. SumFunction(Line(c)') = SumFunction(Line(c))
      BY <2>6, <3>2, FiniteAssumption, SumEqual
    <3> QED BY <2>4, <3>1, <3>3 DEF Paid
  <2> QED BY <2>7, <2>8
<1> QED BY <1>9, <1>10

-----------------------------------------------------------------------------
(* What the overall statistics have and are owed of all categories.        *)
Dues == [c \in Categories |-> Due(c)]
Books == /\ \A c \in Categories : Due(c) = Paid(c)
         /\ calls = SumFunctionOnSet(Dues, Categories)

LEMMA BooksSame == BooksBalance <=> Books
<1>1. DOMAIN Dues = Categories
  BY DEF Dues
<1>2. SumFunction(Dues) = SumFunctionOnSet(Dues, Categories)
  BY <1>1 DEF SumFunction
<1> QED BY <1>2 DEF BooksBalance, Books, Dues, Due, Paid, Line

LEMMA BooksInit == Init => Books
<1> SUFFICES ASSUME Init PROVE Books
  OBVIOUS
<1>1. TypeOK
  BY TypeInit
<1>2. ASSUME NEW c \in Categories
      PROVE  Due(c) = 0 /\ Paid(c) = 0
  <2>1. OwesTool(c) = {} /\ OwesOverall(c) = {} /\ Cardinality({}) = 0
    BY FS_EmptySet DEF Init, OwesTool, OwesOverall
  <2>2. NewToolStats.tally[c] = 0
    BY DEF NewToolStats
  <2>3. stats[Overall].tally[c] = 0 /\ \A t \in Tools : Of(t).tally[c] = 0
    BY <2>2 DEF Init, Overall, Of
  <2>4. \A t \in Tools : Line(c)[t] = 0
    BY <2>3 DEF Line
  <2>5. SumFunctionOnSet(Line(c), Tools) = 0
    BY <2>4, FiniteAssumption, SumZero
  <2>6. SumFunction(Line(c)) = 0
    BY <1>1, <2>5, BookTypes
  <2> QED BY <2>1, <2>3, <2>6 DEF Due, Paid
<1>3. \A c \in Categories : Dues[c] = 0
  BY <1>2 DEF Dues
<1>4. SumFunctionOnSet(Dues, Categories) = 0
  BY <1>3, FiniteNames, SumZero
<1> QED BY <1>2, <1>4 DEF Books, Init

LEMMA BooksStep == TypeOK /\ Books /\ [Next]_vars => Books'
<1> SUFFICES ASSUME TypeOK, Books, [Next]_vars PROVE Books'
  OBVIOUS
<1>1. ASSUME NEW w \in Workers, NEW o \in Observations, RecordBegins(w, o)
      PROVE  Books'
  <2> DEFINE a == Classify(o.err)
  <2>1. a \in Categories
    BY ClassifyType
  <2>2. \A c \in Categories : /\ c = a => Due(c)' = Due(c) + 1 /\ Paid(c)' = Paid(c) + 1
                              /\ c # a => Due(c)' = Due(c) /\ Paid(c)' = Paid(c)
    BY <1>1, BooksBegin
  <2>3. \A c \in Categories : Due(c)' = Paid(c)'
    BY <2>2 DEF Books
  <2>4. \A c \in Categories : Dues[c] = Due(c) /\ Dues'[c] = Due(c)'
    BY DEF Dues
  <2>5. \A c \in Categories : Due(c) \in Int
    <3> SUFFICES ASSUME NEW c \in Categories PROVE Due(c) \in Int
      OBVIOUS
    <3> QED BY BookTypes DEF Due
  <2>6. Dues'[a] = Dues[a] + 1 /\ \A c \in Categories \ {a} : Dues'[c] = Dues[c]
    BY <2>1, <2>2, <2>4
  <2>7. SumFunctionOnSet(Dues', Categories) = SumFunctionOnSet(Dues, Categories) + 1
    BY <2>1, <2>4, <2>5, <2>6, FiniteNames, SumShift
  <2>8. calls' = calls + 1
    BY <1>1 DEF RecordBegins
  <2> QED BY <2>3, <2>7, <2>8 DEF Books
<1>2. ASSUME calls' = calls, \A c \in Categories : Due(c)' = Due(c) /\ Paid(c)' = Paid(c)
      PROVE  Books'
  <2>1. Dues' = Dues
    BY <1>2 DEF Dues
  <2> QED BY <1>2, <2>1 DEF Books
<1>3. ASSUME NEW w \in Workers, RecordStep(w)
      PROVE  Books'
  <2>1. calls' = calls
    BY <1>3 DEF RecordStep, Creates, Inserts, Tallies
  <2>2. \A c \in Categories : Due(c)' = Due(c) /\ Paid(c)' = Paid(c)
    BY <1>3, BooksCreate, BooksInsert, BooksTally DEF RecordStep
  <2> QED BY <1>2, <2>1, <2>2
<1>4. ASSUME UNCHANGED vars
      PROVE  Books'
  BY <1>2, <1>4 DEF vars, Due, Paid, Line, Of, OwesTool, OwesOverall
<1> QED BY <1>1, <1>3, <1>4 DEF Next, Terminated

(* BooksBalance: however the workers interleave, and whoever creates the   *)
(* statistics of a tool, the overall count of a category is that of all    *)
(* the tools up to what is still owed, and every call is accounted for.    *)
THEOREM BooksKept == Spec => []BooksBalance
<1>1. Spec => []Books
  BY BooksInit, BooksStep, TypeCorrect, PTL DEF Spec
<1> QED BY <1>1, BooksSame, PTL

-----------------------------------------------------------------------------
(* A place of the ring, counted from the oldest sample.                    *)
LEMMA Turn ==
  ASSUME NEW n \in Nat, n > 0, NEW a \in Nat, a < 2 * n
  PROVE  a % n = IF a < n THEN a ELSE a - n
<1>1. CASE a < n
  BY <1>1
<1>2. CASE a >= n
  BY <1>2
<1> QED BY <1>1, <1>2

(* Once the ring has turned, the place k steps on from the oldest sample   *)
(* was k + 1 steps on, and the last one was the oldest.                    *)
LEMMA Around ==
  ASSUME NEW n \in Nat, n > 0, NEW x \in 0..(n - 1), NEW k \in 1..n,
         NEW y, y = (x + 1) % n
  PROVE  /\ (y + k - 1) % n \in 0..(n - 1)
         /\ k = n => (y + k - 1) % n = x
         /\ k < n => /\ (y + k - 1) % n # x
                     /\ (y + k - 1) % n = (x + (k + 1) - 1) % n
<1>1. y = IF x + 1 < n THEN x + 1 ELSE 0
  BY Turn
<1>2. y \in 0..(n - 1) /\ y + k - 1 \in Nat /\ y + k - 1 < 2 * n
  BY <1>1
<1>3. (y + k - 1) % n = IF y + k - 1 < n THEN y + k - 1 ELSE y + k - 1 - n
  BY <1>2, Turn
<1>4. x + (k + 1) - 1 = x + k /\ x + k \in Nat /\ x + k < 2 * n
  OBVIOUS
<1>5. (x + (k + 1) - 1) % n = IF x + k < n THEN x + k ELSE x + k - n
  BY <1>4, Turn
<1> DEFINE at == (y + k - 1) % n
           was == (x + (k + 1) - 1) % n
<1>6. /\ at = (IF y + k - 1 < n THEN y + k - 1 ELSE y + k - 1 - n)
      /\ was = (IF x + k < n THEN x + k ELSE x + k - n)
  BY <1>3, <1>5
<1> HIDE DEF at, was
<1>7. /\ at \in 0..(n - 1) /\ (k = n => at = x)
      /\ k < n => at # x /\ at = was
  BY <1>1, <1>2, <1>6
<1> QED BY <1>7 DEF at, was

(* The next sample joins the window, and the oldest leaves a full one.     *)
LEMMA WindowSlides ==
  ASSUME NEW r \in ToolStatsType, RingOK(r), NEW d \in Durations
  PROVE  Window(Insert(r, d)) = Contract!Latest(Append(Window(r), d))
<1> DEFINE n == Len(r.samples)
           q == Insert(r, d)
           s == Append(Window(r), d)
<1>1. /\ r.samples \in Seq(Durations) /\ n \in 0..Size /\ r.next \in 0..(Size - 1)
      /\ Size \in Nat /\ Size > 0
  BY SizeAssumption DEF ToolStatsType, RingOK
<1>2. \A k \in 1..n : ((r.next + k - 1) % Size) + 1 \in 1..n
  <2> SUFFICES ASSUME NEW k \in 1..n PROVE ((r.next + k - 1) % Size) + 1 \in 1..n
    OBVIOUS
  <2> DEFINE a == r.next + k - 1
             m == a % Size
  <2>0. a \in Nat /\ a < 2 * Size /\ Size \in Nat /\ Size > 0
    BY <1>1
  <2>1. m = IF a < Size THEN a ELSE a - Size
    <3> HIDE DEF a
    <3> QED BY <2>0, Turn
  <2> SUFFICES m + 1 \in 1..n
    OBVIOUS
  <2> HIDE DEF m
  <2>2. CASE n < Size
    BY <1>1, <2>1, <2>2 DEF RingOK
  <2>3. CASE n = Size
    BY <1>1, <2>1, <2>3
  <2> QED BY <1>1, <2>2, <2>3
<1>3. Window(r) \in Seq(Durations) /\ Len(Window(r)) = n
  <2>1. \A k \in 1..n : Window(r)[k] \in Durations
    BY <1>1, <1>2 DEF Window
  <2>2. Window(r) \in [1..n -> Durations]
    BY <2>1 DEF Window
  <2> QED BY <1>1, <2>2
<1>4. /\ s \in Seq(Durations) /\ Len(s) = n + 1 /\ s[n + 1] = d
      /\ \A k \in 1..n : s[k] = r.samples[((r.next + k - 1) % Size) + 1]
  <2>1. /\ s \in Seq(Durations) /\ Len(s) = n + 1 /\ s[n + 1] = d
        /\ \A k \in 1..n : s[k] = Window(r)[k]
    BY <1>3, AppendProperties
  <2> QED BY <2>1 DEF Window
<1>5. CASE n < Size
  <2>1. q.samples = Append(r.samples, d) /\ q.next = 0 /\ r.next = 0
    BY <1>5, InsertType DEF RingOK
  <2>2. /\ Len(q.samples) = n + 1 /\ q.samples[n + 1] = d
        /\ \A k \in 1..n : q.samples[k] = r.samples[k]
    BY <1>1, <2>1, AppendProperties
  <2>3. \A k \in 1..(n + 1) : (0 + k - 1) % Size = k - 1
    <3> SUFFICES ASSUME NEW k \in 1..(n + 1) PROVE (0 + k - 1) % Size = k - 1
      OBVIOUS
    <3> QED BY <1>1, <1>5, Turn
  <2>4. \A k \in 1..(n + 1) : Window(q)[k] = q.samples[k]
    BY <2>1, <2>2, <2>3 DEF Window
  <2>5. \A k \in 1..n : s[k] = r.samples[k]
    BY <1>1, <1>4, <2>1, <2>3
  <2>6. \A k \in 1..(n + 1) : Window(q)[k] = s[k]
    BY <1>1, <1>4, <2>2, <2>4, <2>5
  <2>7. Window(q) = s
    <3>1. s = [k \in 1..(n + 1) |-> s[k]]
      <4> HIDE DEF s
      <4> QED BY <1>4
    <3>2. Window(q) = [k \in 1..(n + 1) |-> Window(q)[k]]
      BY <2>2 DEF Window
    <3> QED BY <2>6, <3>1, <3>2
  <2> QED BY <1>1, <1>4, <1>5, <2>7 DEF Contract!Latest
<1>6. CASE n = Size
  <2>1. q.samples = [r.samples EXCEPT ![r.next + 1] = d] /\ q.next = (r.next + 1) % Size
    BY <1>6, InsertType
  <2>2. /\ Len(q.samples) = n
        /\ \A k \in 1..n : q.samples[k] = IF k = r.next + 1 THEN d ELSE r.samples[k]
    BY <1>1, <1>6, <2>1, ExceptSeq
  <2>3. Tail(s) \in Seq(Durations) /\ Len(Tail(s)) = n /\ \A k \in 1..n : Tail(s)[k] = s[k + 1]
    <3> HIDE DEF s
    <3> QED BY <1>1, <1>4
  <2>4. ASSUME NEW k \in 1..n
        PROVE  Window(q)[k] = Tail(s)[k]
    <3> DEFINE at == (q.next + k - 1) % Size
    <3>0. q.next = (r.next + 1) % Size /\ k \in 1..Size
      BY <1>6, <2>1
    <3> HIDE DEF q, s
    <3>1. /\ at \in 0..(Size - 1)
          /\ k = Size => at = r.next
          /\ k < Size => at # r.next /\ at = (r.next + (k + 1) - 1) % Size
      BY <1>1, <3>0, Around
    <3>2. Window(q)[k] = q.samples[at + 1]
      BY <2>2 DEF Window
    <3> HIDE DEF at
    <3>3. at + 1 \in 1..n
      BY <1>1, <1>6, <3>1
    <3>4. q.samples[at + 1] = IF at + 1 = r.next + 1 THEN d ELSE r.samples[at + 1]
      BY <2>2, <3>3
    <3>5. CASE k = n
      BY <1>1, <1>4, <1>6, <2>3, <3>1, <3>2, <3>4, <3>5
    <3>6. CASE k # n
      <4>1. k < Size /\ k + 1 \in 1..n
        BY <1>1, <1>6, <3>6
      <4>2. Tail(s)[k] = r.samples[at + 1]
        BY <1>4, <2>3, <3>1, <4>1
      <4>3. at + 1 # r.next + 1
        BY <1>1, <3>1, <4>1
      <4> QED BY <3>2, <3>4, <4>2, <4>3
    <3> QED BY <3>5, <3>6
  <2>5. Window(q) = Tail(s)
    <3>1. Tail(s) = [k \in 1..n |-> Tail(s)[k]]
      <4> DEFINE u == Tail(s)
      <4>1. u \in Seq(Durations) /\ Len(u) = n
        BY <2>3
      <4> HIDE DEF u
      <4>2. u = [k \in 1..n |-> u[k]]
        BY <4>1
      <4> QED BY <4>2 DEF u
    <3>2. Window(q) = [k \in 1..n |-> Window(q)[k]]
      BY <2>2 DEF Window
    <3> QED BY <2>4, <3>1, <3>2
  <2> QED BY <1>1, <1>4, <1>6, <2>5 DEF Contract!Latest
<1> QED BY <1>1, <1>5, <1>6

-----------------------------------------------------------------------------
(* Ledger counts under the categories and codes of Aggregator: both have   *)
(* the definitions of Errors.                                              *)
LEMMA SameErrors ==
  ASSUME NEW err
  PROVE  /\ Contract!Codes = Codes /\ Contract!Categories = Categories
         /\ Contract!Classify(err) = Classify(err)
         /\ Contract!CountedCodes(err) = CountedCodes(err)
<1>1. Contract!Codes = Codes /\ Contract!Categories = Categories
  BY DEF Contract!Codes, Codes, Contract!Categories, Categories
<1>2. Contract!Rules = Rules
  BY <1>1 DEF Contract!Rules, Rules
<1>3. Contract!Hits(err) = Hits(err)
  BY <1>2 DEF Contract!Hits, Hits, Contract!Has, Has
<1>4. Contract!Classify(err) = Classify(err)
  BY <1>2, <1>3 DEF Contract!Classify, Classify, Contract!Min, Min
<1>5. Contract!CountedCodes(err) = CountedCodes(err)
  BY <1>1, <1>4 DEF Contract!CountedCodes, CountedCodes, Contract!Min, Min
<1> QED BY <1>1, <1>4, <1>5

(* The four maps of the ledger.                                            *)
windows == [k \in Keys |-> Window(Of(k))]
counts  == [k \in Keys |-> Of(k).count]
tallies == [k \in Keys |-> Of(k).tally]
coded   == [k \in Keys |-> Of(k).codes]

LEMMA LedgerInit == Init => Contract!Init
<1> SUFFICES ASSUME Init PROVE Contract!Init
  OBVIOUS
<1>1. \A k \in Keys : Of(k) = NewToolStats
  BY DEF Init, Of, Keys, Overall
<1>2. Window(NewToolStats) = <<>>
  BY DEF Window, NewToolStats
<1>3. /\ NewToolStats.count = 0 /\ NewToolStats.tally = [c \in Categories |-> 0]
      /\ NewToolStats.codes = [n \in Codes |-> 0]
  BY DEF NewToolStats
<1> QED BY <1>1, <1>2, <1>3, SameErrors DEF Contract!Init

(* A sample inserted is one observed.                                      *)
LEMMA LedgerObserves ==
  ASSUME TypeOK, NEW w \in Workers, Inserts(w)
  PROVE  Contract!Observe(At(w), arg[w].dur) /\ At(w) \in Keys /\ arg[w].dur \in Durations
<1> DEFINE k == At(w)
           d == arg[w].dur
           s == Insert(stats[ts[w]], d)
<1>1. /\ d \in Durations /\ pc[w] \in {"insert", "tally"}
      /\ stats[ts[w]] \in ToolStatsType /\ RingOK(stats[ts[w]])
  BY PlaceThere DEF Inserts, Observations
<1>2. stats' = [stats EXCEPT ![ts[w]] = s] /\ UNCHANGED tools
  BY DEF Inserts
<1>3. /\ s \in ToolStatsType /\ RingOK(s) /\ s.count = stats[ts[w]].count + 1
      /\ s.tally = stats[ts[w]].tally /\ s.codes = stats[ts[w]].codes
  BY <1>1, InsertType
<1>4. Window(s) = Contract!Latest(Append(Window(stats[ts[w]]), d))
  BY <1>1, WindowSlides
<1> HIDE DEF s
<1>5. /\ k \in Keys /\ Of(k) = stats[ts[w]]
      /\ \A j \in Keys : Of(j)' = IF j = k THEN s ELSE Of(j)
  BY <1>1, <1>2, <1>3, OfReplaced
<1> HIDE DEF k, d
<1>6. windows' = [windows EXCEPT ![k] = Contract!Latest(Append(@, d))]
  <2>1. windows' = [j \in Keys |-> Window(Of(j)')]
    BY DEF windows, Window
  <2>2. \A j \in Keys : windows[j] = Window(Of(j))
    BY DEF windows
  <2>3. \A j \in Keys : Window(Of(j)') =
          IF j = k THEN Contract!Latest(Append(windows[k], d)) ELSE windows[j]
    BY <1>4, <1>5, <2>2
  <2> QED BY <1>5, <2>1, <2>3 DEF windows
<1>7. counts' = [counts EXCEPT ![k] = @ + 1]
  BY <1>3, <1>5 DEF counts
<1>8. tallies' = tallies /\ coded' = coded
  BY <1>3, <1>5 DEF tallies, coded
<1>9. Contract!Observe(k, d)
  BY <1>6, <1>7, <1>8 DEF Contract!Observe, windows, counts, tallies, coded
<1> QED BY <1>1, <1>5, <1>9 DEF k, d

(* An outcome tallied is one counted.                                      *)
LEMMA LedgerCounts ==
  ASSUME TypeOK, NEW w \in Workers, Tallies(w)
  PROVE  Contract!Count(At(w), arg[w].err) /\ At(w) \in Keys /\ arg[w].err \in Errs
<1> DEFINE k == At(w)
           err == arg[w].err
           s == CountIn(stats[ts[w]], err)
           more == [n \in Codes |-> IF n \in CountedCodes(err) THEN 1 ELSE 0]
<1>1. /\ err \in Errs /\ pc[w] \in {"insert", "tally"}
      /\ stats[ts[w]] \in ToolStatsType /\ RingOK(stats[ts[w]])
  BY PlaceThere DEF Tallies, Observations
<1>2. stats' = [stats EXCEPT ![ts[w]] = s] /\ UNCHANGED tools
  BY DEF Tallies
<1>3. /\ s \in ToolStatsType /\ RingOK(s) /\ s.count = stats[ts[w]].count
      /\ s.samples = stats[ts[w]].samples /\ s.next = stats[ts[w]].next
      /\ s.tally = [stats[ts[w]].tally EXCEPT ![Classify(err)] = @ + 1]
      /\ s.codes = [n \in Codes |-> stats[ts[w]].codes[n]
                                      + (IF n \in CountedCodes(err) THEN 1 ELSE 0)]
  BY <1>1, CountInType DEF RingOK
<1>4. Window(s) = Window(stats[ts[w]])
  BY <1>3 DEF Window
<1> HIDE DEF s
<1>5. /\ k \in Keys /\ Of(k) = stats[ts[w]]
      /\ \A j \in Keys : Of(j)' = IF j = k THEN s ELSE Of(j)
  BY <1>1, <1>2, <1>3, OfReplaced
<1> HIDE DEF k, err
<1>6. tallies' = [tallies EXCEPT ![k][Contract!Classify(err)] = @ + 1]
  BY <1>3, <1>5, SameErrors DEF tallies
<1>7. coded' = [coded EXCEPT ![k] = [n \in Contract!Codes |->
                  @[n] + (IF n \in Contract!CountedCodes(err) THEN 1 ELSE 0)]]
  BY <1>3, <1>5, SameErrors DEF coded
<1>8. windows' = windows
  <2>1. \A j \in Keys : Window(Of(j)') = Window(Of(j))
    BY <1>4, <1>5
  <2> QED BY <2>1 DEF windows, Window
<1>9. counts' = counts
  BY <1>3, <1>5 DEF counts
<1>10. Contract!Count(k, err)
  BY <1>6, <1>7, <1>8, <1>9 DEF Contract!Count, windows, counts, tallies, coded
<1> QED BY <1>1, <1>5, <1>10 DEF k, err

LEMMA LedgerStep == TypeOK /\ [Next]_vars => [Contract!Next]_(Contract!vars)
<1> SUFFICES ASSUME TypeOK, [Next]_vars PROVE [Contract!Next]_(Contract!vars)
  OBVIOUS
<1>1. ASSUME \A k \in Keys : Of(k)' = Of(k)
      PROVE  UNCHANGED Contract!vars
  <2>1. \A k \in Keys : Window(Of(k)') = Window(Of(k))
    BY <1>1
  <2> QED BY <1>1, <2>1 DEF Contract!vars, Window
<1>2. ASSUME NEW w \in Workers, NEW o \in Observations, RecordBegins(w, o)
      PROVE  UNCHANGED Contract!vars
  BY <1>1, <1>2 DEF RecordBegins, Of
<1>3. ASSUME NEW w \in Workers, Creates(w)
      PROVE  UNCHANGED Contract!vars
  BY <1>1, <1>3, OfCreated
<1>4. ASSUME UNCHANGED vars
      PROVE  UNCHANGED Contract!vars
  BY <1>1, <1>4 DEF vars, Of
<1>5. ASSUME NEW w \in Workers, Inserts(w) \/ Tallies(w)
      PROVE  Contract!Next
  BY <1>5, LedgerObserves, LedgerCounts DEF Contract!Next
<1> QED BY <1>2, <1>3, <1>4, <1>5 DEF Next, RecordStep, Terminated

(* ImplementsLedger: behind its locks and its rings the aggregator is the  *)
(* ledger, where an observation is one step: each reservoir is the window  *)
(* of the latest samples, whatever its size and however often it wraps.    *)
THEOREM ImplementsTheLedger == Spec => ImplementsLedger
BY LedgerInit, LedgerStep, TypeCorrect, PTL DEF Spec, ImplementsLedger, Contract!Spec

-----------------------------------------------------------------------------
(* A worker whose sample is not yet in the statistics of its tool t.       *)
Awaits(v, t) == pc[v] \in {"create", "insert"} /\ ts[v] # Overall /\ arg[v].tool = t

(* A call of Record awaits its sample, and leaves the statistics alone.    *)
LEMMA AwaitsBegin ==
  ASSUME TypeOK, NEW w \in Workers, NEW o \in Observations, RecordBegins(w, o), NEW t \in Tools
  PROVE  /\ Of(t)'.count = Of(t).count
         /\ \A v \in Workers : Awaits(v, t)' <=> Awaits(v, t) \/ (v = w /\ o.tool = t)
<1>1. Of(t)' = Of(t)
  BY DEF RecordBegins, Of
<1>2. tools[o.tool] # Overall
  BY NoneAssumption DEF TypeOK, Observations, Overall
<1>3. /\ pc \in [Workers -> {"idle", "create", "insert", "tally"}]
      /\ DOMAIN arg = Workers /\ DOMAIN ts = Workers
  BY DEF TypeOK
<1> QED BY <1>1, <1>2, <1>3 DEF RecordBegins, Awaits

(* Of the sections of Record one adds to the samples of one tool, and ends *)
(* its worker's waiting.                                                   *)
LEMMA AwaitsEnd ==
  ASSUME TypeOK, NEW w \in Workers, RecordStep(w), NEW t \in Tools
  PROVE  LET ends == pc[w] = "insert" /\ Awaits(w, t) IN
         /\ Of(t)'.count = Of(t).count + (IF ends THEN 1 ELSE 0)
         /\ \A v \in Workers : Awaits(v, t)' <=> Awaits(v, t) /\ ~(v = w /\ ends)
<1> DEFINE ends == pc[w] = "insert" /\ Awaits(w, t)
<1> SUFFICES /\ Of(t)'.count = Of(t).count + (IF ends THEN 1 ELSE 0)
             /\ \A v \in Workers : Awaits(v, t)' <=> Awaits(v, t) /\ ~(v = w /\ ends)
  OBVIOUS
<1>1. /\ pc \in [Workers -> {"idle", "create", "insert", "tally"}]
      /\ DOMAIN arg = Workers /\ DOMAIN ts = Workers
      /\ t \in Keys /\ t # None /\ Of(t).count \in Nat
  <2>1. t \in Keys
    BY DEF Keys
  <2> QED BY <2>1, OfType, NoneAssumption DEF TypeOK, ToolStatsType
<1>2. CASE Creates(w)
  <2>1. Of(t)' = Of(t)
    BY <1>1, <1>2, OfCreated
  <2>2. tools'[arg[w].tool] # Overall
    <3>1. arg[w].tool \in Tools /\ pc[w] = "create" /\ ts[w] = None
      BY <1>2 DEF Creates, TypeOK, PlaceOK, Observations
    <3>2. TypeOK'
      BY <1>2, CreatesType
    <3>3. tools'[arg[w].tool] \in (2..Len(stats')) \cup {None}
      BY <3>1, <3>2 DEF TypeOK
    <3> QED BY <3>3, NoneAssumption DEF Overall
  <2>3. ts[w] # Overall /\ pc[w] = "create"
    BY <1>2, NoneAssumption DEF Creates, TypeOK, PlaceOK, Overall
  <2> QED BY <1>1, <1>2, <2>1, <2>2, <2>3 DEF Creates, Awaits
<1>3. CASE Inserts(w)
  <2> DEFINE s == Insert(stats[ts[w]], arg[w].dur)
  <2>1. /\ arg[w].dur \in Durations /\ pc[w] = "insert"
        /\ stats[ts[w]] \in ToolStatsType /\ RingOK(stats[ts[w]])
    BY <1>3, PlaceThere DEF Inserts, Observations
  <2>2. stats' = [stats EXCEPT ![ts[w]] = s] /\ UNCHANGED tools
    BY <1>3 DEF Inserts
  <2>3. s \in ToolStatsType /\ RingOK(s) /\ s.count = stats[ts[w]].count + 1
    BY <2>1, InsertType
  <2> HIDE DEF s
  <2>4. Of(At(w)) = stats[ts[w]] /\ Of(t)' = IF t = At(w) THEN s ELSE Of(t)
    BY <1>1, <2>1, <2>2, <2>3, OfReplaced
  <2>5. t = At(w) <=> ends
    BY <1>1, <2>1 DEF At, Awaits
  <2>6. Of(t)'.count = Of(t).count + (IF ends THEN 1 ELSE 0)
    BY <1>1, <2>3, <2>4, <2>5
  <2>7. \A v \in Workers : Awaits(v, t)' <=> Awaits(v, t) /\ ~(v = w /\ ends)
    BY <1>1, <1>3 DEF Inserts, Awaits
  <2> QED BY <2>6, <2>7
<1>4. CASE Tallies(w)
  <2> DEFINE s == CountIn(stats[ts[w]], arg[w].err)
  <2>1. /\ pc[w] = "tally" /\ stats[ts[w]] \in ToolStatsType /\ RingOK(stats[ts[w]])
    BY <1>4, PlaceThere DEF Tallies
  <2>2. stats' = [stats EXCEPT ![ts[w]] = s] /\ UNCHANGED tools
    BY <1>4 DEF Tallies
  <2>3. s \in ToolStatsType /\ RingOK(s) /\ s.count = stats[ts[w]].count
    BY <2>1, CountInType DEF RingOK
  <2> HIDE DEF s
  <2>4. Of(At(w)) = stats[ts[w]] /\ Of(t)' = IF t = At(w) THEN s ELSE Of(t)
    BY <1>1, <2>1, <2>2, <2>3, OfReplaced
  <2>5. Of(t)'.count = Of(t).count
    BY <2>3, <2>4
  <2>6. \A v \in Workers : Awaits(v, t)' <=> Awaits(v, t)
    BY <1>1, <1>4 DEF Tallies, Awaits
  <2> QED BY <1>1, <2>1, <2>5, <2>6
<1> QED BY <1>2, <1>3, <1>4 DEF RecordStep
=============================================================================
