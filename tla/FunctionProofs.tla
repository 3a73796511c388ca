---------------------------- MODULE FunctionProofs ----------------------------
(***************************************************************************)
(* What FunctionProps says of the sequential algorithms, for inputs of any *)
(* size: of the summary (SummaryProps) for any samples, of the preparation *)
(* of a run (ScenarioProps) for any scenario and command line, of the gate *)
(* of `mcpbench compare` (CompareProps) for run files with any tools and   *)
(* numbers, of the arguments of a call (RenderProps) for any width and     *)
(* depth, and of the texts that are read or written, whose theory is in    *)
(* TextProofs.                                                             *)
(***************************************************************************)
EXTENDS TextProofs

-----------------------------------------------------------------------------
(* Run files and flags without the bounds of CompareProps.  A sign or a    *)
(* suffix that ParseThreshold does not know is as good as none.            *)
Signs    == {"", "+", "-"}
Units    == {"", "%", "ms", "pp"}
AnyFlag  == [sign : Signs, number : Int, suffix : Units]
AnyFlags == [Gate!Metrics -> AnyFlag]
AnyFile  == [json : BOOLEAN, keys : SUBSET Tools,
             summary : [Gate!Keys -> [Gate!Metrics -> Nat]]]
AnyGate  == [baseline : AnyFile, candidate : AnyFile, flags : AnyFlags]

AnyThreshold == [kind : Units, value : Int]

(* The numbers of CompareProps are numbers.                                *)
GateNumbers == /\ Latencies \subseteq Nat /\ ErrorRates \subseteq Nat
               /\ Strict \in Nat /\ Loose \in Nat

(* A larger value exceeds what a smaller one does.                         *)
LEMMA WorseExceeds ==
  ASSUME NEW th \in AnyThreshold, NEW a \in Nat, NEW b \in Nat, NEW c \in Nat, b <= c,
         Gate!Exceeds(th, a, b)
  PROVE  Gate!Exceeds(th, a, c)
<1> DEFINE limit == th.value * a
<1>1. limit \in Int /\ th.value \in Int
  BY DEF AnyThreshold
<1>2. 100 * (b - a) <= 100 * (c - a) /\ b - a <= c - a
  OBVIOUS
<1>3. 100 * (b - a) > limit => 100 * (c - a) > limit
  <2> HIDE DEF limit
  <2> QED BY <1>1, <1>2
<1> QED BY <1>1, <1>2, <1>3 DEF Gate!Exceeds

(* What exceeds a threshold exceeds the smaller ones.                      *)
LEMMA LooserExceeds ==
  ASSUME NEW th \in AnyThreshold, NEW loose \in AnyThreshold, th.kind = loose.kind,
         th.value <= loose.value, NEW a \in Nat, NEW b \in Nat, Gate!Exceeds(loose, a, b)
  PROVE  Gate!Exceeds(th, a, b)
<1> DEFINE t == th.value
           u == loose.value
<1>1. t \in Int /\ u \in Int /\ t <= u
  BY DEF AnyThreshold
<1>2. t * a \in Int /\ u * a \in Int /\ t * a <= u * a
  <2> HIDE DEF t, u
  <2> QED BY <1>1
<1>3. 100 * (b - a) \in Int
  OBVIOUS
<1>4. 100 * (b - a) > u * a => 100 * (b - a) > t * a
  BY <1>2, <1>3
<1> QED BY <1>1, <1>4 DEF Gate!Exceeds

(* No change exceeds no threshold that allows one.                         *)
LEMMA SameIsWithin ==
  ASSUME NEW th \in AnyThreshold, th.value >= 0, NEW a \in Nat
  PROVE  ~Gate!Exceeds(th, a, a)
<1>1. th.value \in Nat
  BY DEF AnyThreshold
<1>2. th.value * a >= 0
  BY <1>1
<1>3. a - a = 0 /\ 100 * (a - a) = 0
  OBVIOUS
<1> QED BY <1>1, <1>2, <1>3 DEF Gate!Exceeds

-----------------------------------------------------------------------------
(* The defaults are thresholds that allow a change.                        *)
LEMMA DefaultsTyped ==
  ASSUME NEW m \in Gate!Metrics
  PROVE  Gate!Default[m] \in AnyThreshold /\ Gate!Default[m].value >= 0
<1>1. /\ m = "p95" => Gate!Default[m] = [kind |-> "%", value |-> 20]
      /\ m = "p99" => Gate!Default[m] = [kind |-> "%", value |-> 25]
      /\ m = "err" => Gate!Default[m] = [kind |-> "pp", value |-> 2]
  BY DEF Gate!Default, Gate!Metrics
<1>2. /\ [kind |-> "%", value |-> 20] \in AnyThreshold
      /\ [kind |-> "%", value |-> 25] \in AnyThreshold
      /\ [kind |-> "pp", value |-> 2] \in AnyThreshold
  BY DEF AnyThreshold, Units
<1> QED BY <1>1, <1>2 DEF Gate!Metrics

(* A threshold is of the kind that the flag names.                         *)
LEMMA ParsedKind ==
  ASSUME NEW flag
  PROVE  Gate!ParseThreshold(flag).kind = flag.suffix
BY DEF Gate!ParseThreshold

(* Any flags make thresholds, of the unit and the number that are given.   *)
LEMMA ConfigTyped ==
  ASSUME NEW flgs \in AnyFlags, NEW m \in Gate!Metrics
  PROVE  /\ Gate!Config(flgs)[m] \in AnyThreshold
         /\ flgs[m] = Gate!Unset => Gate!Config(flgs)[m] = Gate!Default[m]
         /\ flgs[m] # Gate!Unset => Gate!Config(flgs)[m] = Gate!ParseThreshold(flgs[m])
<1>1. Gate!Default[m] \in AnyThreshold
  BY DefaultsTyped
<1>2. Gate!ParseThreshold(flgs[m]) \in AnyThreshold
  <2>1. flgs[m] \in AnyFlag
    BY DEF AnyFlags
  <2>2. flgs[m].number \in Int /\ -flgs[m].number \in Int /\ flgs[m].suffix \in Units
    BY <2>1 DEF AnyFlag
  <2> QED BY <2>2 DEF Gate!ParseThreshold, AnyThreshold
<1> QED BY <1>1, <1>2 DEF Gate!Config

(* A candidate that is worse in some metrics, and better in none, never    *)
(* passes where the better one fails.                                      *)
THEOREM WorseNeverPasses ==
  ASSUME NEW base \in AnyFile, NEW better \in AnyFile, NEW worse \in AnyFile,
         NEW flgs \in AnyFlags, NEW output,
         better.json = worse.json, better.keys = worse.keys,
         \A k \in Gate!Keys, m \in Gate!Metrics : better.summary[k][m] <= worse.summary[k][m]
  PROVE  Gate!ExitCode(base, better, flgs, output) <= Gate!ExitCode(base, worse, flgs, output)
<1> DEFINE cfg == Gate!Config(flgs)
           shared == base.keys \cap better.keys
           reasons(r, k) == Gate!Reasons(base.summary[k], r.summary[k], cfg)
<1>1. ASSUME NEW k \in shared \cup {Gate!Overall}
      PROVE  reasons(better, k) \subseteq reasons(worse, k)
  <2>1. k \in Gate!Keys
    BY DEF AnyFile, Gate!Keys
  <2>2. SUFFICES ASSUME NEW m \in Gate!Metrics,
                        Gate!Exceeds(cfg[m], base.summary[k][m], better.summary[k][m])
                 PROVE  Gate!Exceeds(cfg[m], base.summary[k][m], worse.summary[k][m])
    BY DEF Gate!Reasons
  <2>3. /\ base.summary[k][m] \in Nat /\ better.summary[k][m] \in Nat
        /\ worse.summary[k][m] \in Nat
    BY <2>1 DEF AnyFile
  <2>4. cfg[m] \in AnyThreshold
    BY ConfigTyped
  <2> HIDE DEF cfg
  <2> QED BY <2>1, <2>2, <2>3, <2>4, WorseExceeds
<1>2. Gate!Compare(base, better, cfg).regressed => Gate!Compare(base, worse, cfg).regressed
  <2> HIDE DEF cfg
  <2> QED BY <1>1 DEF Gate!Compare
<1> HIDE DEF cfg
<1>3. cfg = Gate!Config(flgs)
  BY DEF cfg
<1> QED BY <1>2, <1>3 DEF Gate!ExitCode

(* Thresholds of the same kinds, none of them smaller, never fail what the *)
(* smaller ones pass.                                                      *)
THEOREM LooserNeverFails ==
  ASSUME NEW base \in AnyFile, NEW cand \in AnyFile,
         NEW strict \in AnyFlags, NEW loose \in AnyFlags, NEW output,
         Gate!Accepted(strict) => Gate!Accepted(loose),
         \A m \in Gate!Metrics :
           /\ Gate!Config(strict)[m].kind = Gate!Config(loose)[m].kind
           /\ Gate!Config(strict)[m].value <= Gate!Config(loose)[m].value
  PROVE  Gate!ExitCode(base, cand, loose, output) <= Gate!ExitCode(base, cand, strict, output)
<1> DEFINE cfg(flgs) == Gate!Config(flgs)
           shared == base.keys \cap cand.keys
           reasons(flgs, k) == Gate!Reasons(base.summary[k], cand.summary[k], cfg(flgs))
<1>1. ASSUME NEW k \in shared \cup {Gate!Overall}
      PROVE  reasons(loose, k) \subseteq reasons(strict, k)
  <2>1. k \in Gate!Keys
    BY DEF AnyFile, Gate!Keys
  <2>2. SUFFICES ASSUME NEW m \in Gate!Metrics,
                        Gate!Exceeds(cfg(loose)[m], base.summary[k][m], cand.summary[k][m])
                 PROVE  Gate!Exceeds(cfg(strict)[m], base.summary[k][m], cand.summary[k][m])
    BY DEF Gate!Reasons
  <2>3. base.summary[k][m] \in Nat /\ cand.summary[k][m] \in Nat
    BY <2>1 DEF AnyFile
  <2>4. cfg(strict)[m] \in AnyThreshold /\ cfg(loose)[m] \in AnyThreshold
    BY ConfigTyped
  <2>5. cfg(strict)[m].kind = cfg(loose)[m].kind /\ cfg(strict)[m].value <= cfg(loose)[m].value
    OBVIOUS
  <2> HIDE DEF cfg
  <2> QED BY <2>2, <2>3, <2>4, <2>5, LooserExceeds
<1>2. Gate!Compare(base, cand, cfg(loose)).regressed
        => Gate!Compare(base, cand, cfg(strict)).regressed
  <2> HIDE DEF cfg
  <2> QED BY <1>1 DEF Gate!Compare
<1>3. cfg(strict) = Gate!Config(strict) /\ cfg(loose) = Gate!Config(loose)
  OBVIOUS
<1> HIDE DEF cfg
<1> QED BY <1>2, <1>3 DEF Gate!ExitCode

(* A file compared with itself passes under flags that are well formed and *)
(* allow a change.                                                         *)
THEOREM SelfPasses ==
  ASSUME NEW r \in AnyFile, r.json, NEW flgs \in AnyFlags,
         \A m \in Gate!Metrics :
           flgs[m] # Gate!Unset => Gate!Sound(flgs[m], m) /\ flgs[m].number >= 0
  PROVE  Gate!ExitCode(r, r, flgs, "written") = 0
<1> DEFINE cfg == Gate!Config(flgs)
<1>1. Gate!Accepted(flgs)
  BY DEF Gate!Accepted, Gate!Sound, Gate!Parses
<1>2. ASSUME NEW m \in Gate!Metrics
      PROVE  cfg[m] \in AnyThreshold /\ cfg[m].value >= 0
  <2>1. CASE flgs[m] = Gate!Unset
    BY <2>1, ConfigTyped, DefaultsTyped
  <2>2. CASE flgs[m] # Gate!Unset
    <3>1. flgs[m].sign # "-" /\ flgs[m].number >= 0
      BY <2>2 DEF Gate!Sound
    <3>2. Gate!ParseThreshold(flgs[m]).value = flgs[m].number
      BY <3>1 DEF Gate!ParseThreshold
    <3> QED BY <2>2, <3>1, <3>2, ConfigTyped
  <2> QED BY <2>1, <2>2
<1>3. ASSUME NEW k \in r.keys \cup {Gate!Overall}
      PROVE  Gate!Reasons(r.summary[k], r.summary[k], cfg) = {}
  <2>1. k \in Gate!Keys
    BY DEF AnyFile, Gate!Keys
  <2>2. SUFFICES ASSUME NEW m \in Gate!Metrics
                 PROVE  ~Gate!Exceeds(cfg[m], r.summary[k][m], r.summary[k][m])
    BY DEF Gate!Reasons
  <2>3. r.summary[k][m] \in Nat
    BY <2>1 DEF AnyFile
  <2> HIDE DEF cfg
  <2> QED BY <1>2, <2>3, SameIsWithin
<1>4. ~Gate!Compare(r, r, cfg).regressed
  <2> HIDE DEF cfg
  <2> QED BY <1>3 DEF Gate!Compare
<1> HIDE DEF cfg
<1>5. cfg = Gate!Config(flgs)
  BY DEF cfg
<1> QED BY <1>1, <1>4, <1>5 DEF Gate!ExitCode

-----------------------------------------------------------------------------
(* The flags of CompareProps are flags, their numbers none or natural.     *)
LEMMA FlagTyped ==
  ASSUME NEW sign \in Signs, NEW number \in Int, NEW suffix \in Units
  PROVE  /\ Gate!Flag(sign, number, suffix) \in AnyFlag
         /\ Gate!Flag(sign, number, suffix).number = number
BY DEF Gate!Flag, AnyFlag

Sane  == {Gate!Unset} \cup Gate!Limits("%") \cup Gate!Positive("ms") \cup Gate!Limits("pp")
Given == Sane \cup Gate!Refused \cup {Gate!Flag("+", Loose, "pp"), Gate!Flag("+", Loose, "ms")}

LEMMA GivenTyped ==
  ASSUME GateNumbers, NEW flag \in Given
  PROVE  /\ flag \in AnyFlag
         /\ flag.number = Gate!NoNumber \/ flag.number >= 0
<1>1. "" \in Signs /\ "+" \in Signs /\ "-" \in Signs
  BY Zenon DEF Signs
<1>2. "" \in Units /\ "%" \in Units /\ "ms" \in Units /\ "pp" \in Units
  BY Zenon DEF Units
<1>3. Strict \in Int /\ Loose \in Int /\ Strict >= 0 /\ Loose >= 0 /\ Gate!NoNumber \in Int
  BY DEF GateNumbers, Gate!NoNumber
<1>4. Gate!Unset = Gate!Flag("", 0, "")
  BY DEF Gate!Unset, Gate!Flag
<1>5. \E sign \in Signs, number \in {0, Strict, Loose, Gate!NoNumber}, suffix \in Units :
        flag = Gate!Flag(sign, number, suffix)
  BY <1>1, <1>2, <1>4 DEF Given, Sane, Gate!Limits, Gate!Positive, Gate!Refused
<1> QED BY <1>3, <1>5, FlagTyped

(* Those that a threshold is loosened to can be read.                      *)
LEMMA SaneParses ==
  ASSUME GateNumbers, NEW flag \in Sane, flag # Gate!Unset
  PROVE  Gate!Parses(flag)
<1>1. \E sign \in {"+", "-"}, number \in {0, Strict, Loose}, suffix \in {"%", "ms", "pp"} :
        flag = Gate!Flag(sign, number, suffix)
  BY DEF Sane, Gate!Limits, Gate!Positive
<1>2. 0 # Gate!NoNumber /\ Strict # Gate!NoNumber /\ Loose # Gate!NoNumber
  BY DEF GateNumbers, Gate!NoNumber
<1>3. \A sign \in {"+", "-"}, suffix \in {"%", "ms", "pp"} : sign # "" /\ suffix # ""
  OBVIOUS
<1>4. PICK sign \in {"+", "-"}, number \in {0, Strict, Loose}, suffix \in {"%", "ms", "pp"} :
        flag = Gate!Flag(sign, number, suffix)
  BY <1>1
<1>5. flag.sign = sign /\ flag.number = number /\ flag.suffix = suffix
  BY <1>4 DEF Gate!Flag
<1>6. number # Gate!NoNumber
  BY <1>2
<1> QED BY <1>3, <1>5, <1>6 DEF Gate!Parses

LEMMA FlagsTyped ==
  ASSUME GateNumbers, NEW flgs \in Gate!Flags
  PROVE  /\ flgs \in AnyFlags
         /\ \A m \in Gate!Metrics : flgs[m].number = Gate!NoNumber \/ flgs[m].number >= 0
<1>1. PICK m \in {"p95", "err"}, flag \in Given : flgs = Gate!Only(m, flag)
  BY DEF Gate!Flags, Given, Sane
<1>2. ASSUME NEW k \in Gate!Metrics
      PROVE  flgs[k] \in Given
  BY <1>1, <1>2 DEF Gate!Only, Given, Sane
<1>3. flgs = [k \in Gate!Metrics |-> flgs[k]]
  BY <1>1 DEF Gate!Only
<1> QED BY <1>2, <1>3, GivenTyped DEF AnyFlags

(* So are its run files run files.                                         *)
LEMMA FilesTyped ==
  ASSUME GateNumbers
  PROVE  Gate!Files \subseteq AnyFile
<1>1. ASSUME NEW p95 \in Nat, NEW err \in Nat
      PROVE  Gate!Entry(p95, err) \in [Gate!Metrics -> Nat]
  BY DEF Gate!Entry, Gate!Metrics
<1>2. Gate!Summaries \subseteq [Gate!Keys -> [Gate!Metrics -> Nat]]
  BY <1>1 DEF Gate!Summaries, GateNumbers
<1>3. Gate!Runs \subseteq AnyFile
  BY <1>2 DEF Gate!Runs, AnyFile
<1>4. Gate!NotJson \in AnyFile
  BY <1>1 DEF Gate!NotJson, AnyFile
<1> QED BY <1>3, <1>4 DEF Gate!Files

(* The steps of CompareProps, from any run files.                          *)
LEMMA WorsenKeeps ==
  ASSUME input \in AnyGate, NEW k \in Gate!Keys, NEW m \in Gate!Metrics, NEW v \in Nat,
         Gate!Worsen(k, m, v)
  PROVE  /\ input' \in AnyGate
         /\ input'.baseline = input.baseline /\ input'.flags = input.flags
         /\ input'.candidate.json = input.candidate.json
         /\ input'.candidate.keys = input.candidate.keys
         /\ \A j \in Gate!Keys, n \in Gate!Metrics :
              input.candidate.summary[j][n] <= input'.candidate.summary[j][n]
         /\ input.candidate.summary[k][m] < input'.candidate.summary[k][m]
<1> DEFINE old == input.candidate
           new == [old EXCEPT !.summary[k][m] = v]
<1>1. old \in AnyFile /\ input' = [input EXCEPT !.candidate = new]
  BY DEF Gate!Worsen, AnyGate
<1>2. old.summary[k][m] < v
  BY DEF Gate!Worsen, Gate!candidate
<1>3. /\ new \in AnyFile /\ new.json = old.json /\ new.keys = old.keys
      /\ \A j \in Gate!Keys, n \in Gate!Metrics :
           new.summary[j][n] = IF j = k /\ n = m THEN v ELSE old.summary[j][n]
  BY <1>1 DEF AnyFile
<1>4. \A j \in Gate!Keys, n \in Gate!Metrics : old.summary[j][n] \in Nat
  BY <1>1 DEF AnyFile
<1>5. \A j \in Gate!Keys, n \in Gate!Metrics : old.summary[j][n] <= new.summary[j][n]
  <2> HIDE DEF new, old
  <2> QED BY <1>2, <1>3, <1>4
<1>6. /\ input' \in AnyGate /\ input'.candidate = new
      /\ input'.baseline = input.baseline /\ input'.flags = input.flags
  <2> HIDE DEF new
  <2> QED BY <1>1, <1>3 DEF AnyGate
<1> HIDE DEF new
<1> QED BY <1>2, <1>3, <1>5, <1>6

LEMMA LoosenKeeps ==
  ASSUME GateNumbers, input \in AnyGate, NEW m \in {"p95", "err"}, NEW flag \in Sane,
         Gate!Loosen(m, flag)
  PROVE  /\ input' \in AnyGate
         /\ input'.baseline = input.baseline /\ input'.candidate = input.candidate
         /\ input'.flags # input.flags
         /\ Gate!Accepted(input.flags) => Gate!Accepted(input'.flags)
         /\ \A n \in Gate!Metrics :
              /\ Gate!Config(input.flags)[n].kind = Gate!Config(input'.flags)[n].kind
              /\ Gate!Config(input.flags)[n].value <= Gate!Config(input'.flags)[n].value
<1> DEFINE old == input.flags
           new == [old EXCEPT ![m] = flag]
<1>1. old \in AnyFlags /\ input' = [input EXCEPT !.flags = new] /\ m \in Gate!Metrics
  BY DEF Gate!Loosen, AnyGate, Gate!flags, Gate!Metrics
<1>2. /\ Gate!Accepted(old)
      /\ Gate!Config(old)[m].kind = Gate!Config(new)[m].kind
      /\ Gate!Config(old)[m].value < Gate!Config(new)[m].value
  BY DEF Gate!Loosen, Gate!flags
<1>3. flag \in AnyFlag
  BY GivenTyped DEF Given
<1>4. new \in AnyFlags /\ new[m] = flag /\ \A n \in Gate!Metrics : n # m => new[n] = old[n]
  BY <1>1, <1>3 DEF AnyFlags
<1>5. input' \in AnyGate /\ input'.flags = new /\ input'.baseline = input.baseline
      /\ input'.candidate = input.candidate
  <2> HIDE DEF new
  <2> QED BY <1>1, <1>4 DEF AnyGate
<1> HIDE DEF new, old
<1>6. ASSUME NEW n \in Gate!Metrics
      PROVE  /\ Gate!Config(old)[n].kind = Gate!Config(new)[n].kind
             /\ Gate!Config(old)[n].value <= Gate!Config(new)[n].value
  <2>1. CASE n = m
    <3>1. Gate!Config(old)[m].value \in Int /\ Gate!Config(new)[m].value \in Int
      BY <1>1, <1>4, ConfigTyped DEF AnyThreshold
    <3> QED BY <1>2, <2>1, <3>1
  <2>2. CASE n # m
    <3>1. new[n] = old[n]
      BY <1>4, <2>2
    <3>2. Gate!Config(old)[n] = Gate!Config(new)[n]
      BY <3>1 DEF Gate!Config
    <3>3. Gate!Config(old)[n].value \in Int
      BY <1>1, ConfigTyped DEF AnyThreshold
    <3> QED BY <3>2, <3>3
  <2> QED BY <2>1, <2>2
<1>7. Gate!Accepted(new)
  <2>1. flag # Gate!Unset => Gate!Parses(flag)
    BY SaneParses
  <2>2. ASSUME NEW flgs \in AnyFlags, Gate!Accepted(flgs)
        PROVE  Gate!Config(flgs)[m].kind = "pp" <=> m = "err"
    <3>1. CASE flgs[m] = Gate!Unset
      BY <1>1, <3>1, ConfigTyped DEF Gate!Default, Gate!Metrics
    <3>2. CASE flgs[m] # Gate!Unset
      <4>1. flgs[m].suffix = "pp" <=> m = "err"
        BY <1>1, <2>2, <3>2 DEF Gate!Accepted
      <4>2. Gate!Config(flgs)[m] = Gate!ParseThreshold(flgs[m])
        BY <1>1, <3>2, ConfigTyped
      <4> QED BY <4>1, <4>2, ParsedKind
    <3> QED BY <3>1, <3>2
  <2>3. flag # Gate!Unset => Gate!Config(new)[m].kind = flag.suffix
    <3>1. flag # Gate!Unset => Gate!Config(new)[m] = Gate!ParseThreshold(flag)
      BY <1>1, <1>4, ConfigTyped
    <3> QED BY <3>1, ParsedKind
  <2>4. flag # Gate!Unset => (flag.suffix = "pp" <=> m = "err")
    BY <1>1, <1>2, <2>2, <2>3
  <2> QED BY <1>2, <1>4, <2>1, <2>4 DEF Gate!Accepted
<1>8. new # old
  <2>1. Gate!Config(old)[m].value \in Int
    BY <1>1, ConfigTyped DEF AnyThreshold
  <2> QED BY <1>2, <2>1
<1>9. old = input.flags
  BY DEF old
<1> QED BY <1>5, <1>6, <1>7, <1>8, <1>9

(* The inputs of CompareProps are among them.                              *)
LEMMA GateBegins ==
  ASSUME GateNumbers, Gate!Init
  PROVE  input \in AnyGate
<1>1. input \in [baseline : Gate!Files, candidate : Gate!Files, flags : Gate!Flags]
  BY DEF Gate!Init
<1>2. Gate!Files \subseteq AnyFile /\ Gate!Flags \subseteq AnyFlags
  BY FilesTyped, FlagsTyped
<1> QED BY <1>1, <1>2 DEF AnyGate

(* A step of CompareProps, by its kind.                                    *)
LEMMA GateStep ==
  ASSUME GateNumbers, input \in AnyGate, Gate!Next
  PROVE  input' \in AnyGate /\ Gate!GateIsMonotonic
<1>1. /\ input.baseline \in AnyFile /\ input.candidate \in AnyFile /\ input.flags \in AnyFlags
      /\ input' \in AnyGate => /\ input'.baseline \in AnyFile /\ input'.candidate \in AnyFile
                              /\ input'.flags \in AnyFlags
  BY DEF AnyGate
<1>2. ASSUME NEW k \in Gate!Keys, NEW m \in Gate!Metrics, NEW v \in Nat, Gate!Worsen(k, m, v)
      PROVE  input' \in AnyGate /\ Gate!GateIsMonotonic
  <2>1. input' \in AnyGate /\ input'.baseline = input.baseline /\ input'.flags = input.flags
    BY <1>2, WorsenKeeps
  <2>2. input'.candidate # input.candidate
    <3>1. input.candidate.summary[k][m] < input'.candidate.summary[k][m]
      BY <1>2, WorsenKeeps
    <3>2. input.candidate.summary[k][m] \in Nat
      BY <1>1 DEF AnyFile
    <3> QED BY <3>1, <3>2
  <2>3. \A output \in Gate!Outputs :
          Gate!ExitCode(input.baseline, input.candidate, input.flags, output)
            <= Gate!ExitCode(input.baseline, input'.candidate, input.flags, output)
    BY <1>1, <1>2, <2>1, WorsenKeeps, WorseNeverPasses
  <2> QED BY <2>1, <2>2, <2>3
       DEF Gate!GateIsMonotonic, Gate!Exit, Gate!baseline, Gate!candidate, Gate!flags
<1>3. ASSUME NEW m \in {"p95", "err"}, NEW flag \in Sane, Gate!Loosen(m, flag)
      PROVE  input' \in AnyGate /\ Gate!GateIsMonotonic
  <2>1. /\ input' \in AnyGate /\ input'.baseline = input.baseline
        /\ input'.candidate = input.candidate /\ input'.flags # input.flags
    BY <1>3, LoosenKeeps
  <2>2. \A output \in Gate!Outputs :
          Gate!ExitCode(input.baseline, input.candidate, input'.flags, output)
            <= Gate!ExitCode(input.baseline, input.candidate, input.flags, output)
    BY <1>1, <1>3, <2>1, LoosenKeeps, LooserNeverFails
  <2> QED BY <2>1, <2>2
       DEF Gate!GateIsMonotonic, Gate!Exit, Gate!baseline, Gate!candidate, Gate!flags
<1>4. Gate!Overall \in Gate!Keys /\ "p95" \in Gate!Metrics /\ "err" \in Gate!Metrics
  BY DEF Gate!Keys, Gate!Metrics
<1>5. CASE Gate!Worse
  BY <1>2, <1>4, <1>5 DEF Gate!Worse, GateNumbers
<1>6. CASE Gate!Looser
  BY <1>3, <1>6 DEF Gate!Looser, Sane
<1> QED BY <1>5, <1>6 DEF Gate!Next

(* `mcpbench compare` passes a run file against itself.                    *)
LEMMA SelfAny ==
  ASSUME GateNumbers, input \in AnyGate
  PROVE  Gate!SelfIsClean
<1>1. SUFFICES ASSUME input.baseline = input.candidate, input.baseline.json,
                      input.flags \in Gate!SoundFlags
               PROVE  Gate!ExitCode(input.baseline, input.baseline, input.flags, "written") = 0
  BY DEF Gate!SelfIsClean, Gate!Exit, Gate!baseline, Gate!candidate, Gate!flags
<1>2. input.baseline \in AnyFile /\ input.flags \in AnyFlags
  BY <1>1 DEF AnyGate
<1>3. ASSUME NEW m \in Gate!Metrics, input.flags[m] # Gate!Unset
      PROVE  Gate!Sound(input.flags[m], m) /\ input.flags[m].number >= 0
  <2>1. Gate!Sound(input.flags[m], m) /\ input.flags \in Gate!Flags
    BY <1>1, <1>3 DEF Gate!SoundFlags
  <2>2. input.flags[m].number # Gate!NoNumber
    BY <2>1 DEF Gate!Sound
  <2> QED BY <2>1, <2>2, FlagsTyped
<1> QED BY <1>1, <1>2, <1>3, SelfPasses

-----------------------------------------------------------------------------
(* Scenario files and command lines without the bounds of ScenarioProps:   *)
(* any numbers, and any number of tools.                                   *)
AnyWorkload == [Plan!Fields -> Int]
AnyInput == [file  : [transport : Plan!Transports, workload : AnyWorkload, weights : Seq(Int)],
             flags : [transport : Plan!Given, workload : AnyWorkload]]

(* The parts of an input and of what the command line makes of the file.   *)
Overridden == Plan!ApplyCLIOverrides(Plan!Validate(Plan!file), Plan!flags)

LEMMA WeightsDefaulted ==
  ASSUME NEW ws \in Seq(Int)
  PROVE  /\ Plan!Defaulted(ws) \in Seq(Int) /\ Len(Plan!Defaulted(ws)) = Len(ws)
         /\ \A i \in 1..Len(ws) : Plan!Defaulted(ws)[i] = IF ws[i] = 0 THEN 1 ELSE ws[i]
<1>1. Len(ws) \in Nat /\ \A i \in 1..Len(ws) : ws[i] \in Int
  OBVIOUS
<1>2. Plan!Defaulted(ws) \in [1..Len(ws) -> Int]
  BY <1>1 DEF Plan!Defaulted
<1> QED BY <1>1, <1>2 DEF Plan!Defaulted

LEMMA OverriddenTyped ==
  ASSUME input \in AnyInput
  PROVE  /\ Overridden.transport = Plan!OverrideTransport(Plan!file.transport, Plan!flags.transport)
         /\ Overridden.workload = Plan!OverrideWorkload(Plan!file.workload, Plan!flags.workload)
         /\ Overridden.weights = Plan!Defaulted(Plan!file.weights)
         /\ Overridden.transport \in Plan!Transports /\ Overridden.workload \in AnyWorkload
         /\ Overridden.weights \in Seq(Int)
         /\ Plan!Validate(Overridden) = [transport |-> Overridden.transport,
                                    workload |-> Overridden.workload,
                                    weights |-> Plan!Defaulted(Overridden.weights)]
<1>1. /\ Plan!file.transport \in Plan!Transports /\ Plan!file.workload \in AnyWorkload
      /\ Plan!file.weights \in Seq(Int) /\ Plan!flags.transport \in Plan!Given
      /\ Plan!flags.workload \in AnyWorkload
      /\ Plan!file = [transport |-> Plan!file.transport, workload |-> Plan!file.workload,
                      weights |-> Plan!file.weights]
  BY DEF AnyInput, Plan!file, Plan!flags
<1>2. Plan!Validate(Plan!file) = [transport |-> Plan!file.transport, workload |-> Plan!file.workload,
                        weights |-> Plan!Defaulted(Plan!file.weights)]
  BY <1>1 DEF Plan!Validate
<1>3. Overridden = [transport |-> Plan!OverrideTransport(Plan!file.transport, Plan!flags.transport),
                    workload |-> Plan!OverrideWorkload(Plan!file.workload, Plan!flags.workload),
                    weights |-> Plan!Defaulted(Plan!file.weights)]
  <2>1. ASSUME NEW t, NEW w, NEW ws, NEW flgs
        PROVE  Plan!ApplyCLIOverrides([transport |-> t, workload |-> w, weights |-> ws], flgs)
                 = [transport |-> Plan!OverrideTransport(t, flgs.transport),
                    workload |-> Plan!OverrideWorkload(w, flgs.workload), weights |-> ws]
    <3> DEFINE r == [transport |-> t, workload |-> w, weights |-> ws]
    <3>1. r.transport = t /\ r.workload = w
      OBVIOUS
    <3>2. \A a, b : [r EXCEPT !.transport = a, !.workload = b]
                     = [transport |-> a, workload |-> b, weights |-> ws]
      <4> TAKE a, b
      <4>1. [r EXCEPT !.transport = a] = [transport |-> a, workload |-> w, weights |-> ws]
        OBVIOUS
      <4> DEFINE q == [transport |-> a, workload |-> w, weights |-> ws]
      <4>2. [q EXCEPT !.workload = b] = [transport |-> a, workload |-> b, weights |-> ws]
        OBVIOUS
      <4> QED BY <4>1, <4>2
    <3>3. Plan!ApplyCLIOverrides(r, flgs)
            = [r EXCEPT !.transport = Plan!OverrideTransport(r.transport, flgs.transport),
                        !.workload  = Plan!OverrideWorkload(r.workload, flgs.workload)]
      <4> HIDE DEF r
      <4> QED BY DEF Plan!ApplyCLIOverrides
    <3> HIDE DEF r
    <3> QED BY <3>1, <3>2, <3>3 DEF r
  <2> QED BY <1>2, <2>1 DEF Overridden
<1>4. Plan!OverrideTransport(Plan!file.transport, Plan!flags.transport) \in Plan!Transports
  BY <1>1 DEF Plan!OverrideTransport, Plan!Transports, Plan!Given, Plan!Spawns
<1>5. Plan!OverrideWorkload(Plan!file.workload, Plan!flags.workload) \in AnyWorkload
  BY <1>1 DEF Plan!OverrideWorkload, AnyWorkload
<1>6. Plan!Defaulted(Plan!file.weights) \in Seq(Int)
  BY <1>1, WeightsDefaulted
<1> QED BY <1>3, <1>4, <1>5, <1>6 DEF Plan!Validate

(* What is prepared is the overridden scenario, if it is valid, with the   *)
(* default weights.                                                        *)
LEMMA PreparedIs ==
  ASSUME input \in AnyInput
  PROVE  LET both == Plan!flags.workload["duration"] > 0 /\ Plan!flags.workload["requests"] > 0
             passes == /\ ~both /\ Plan!flags.transport.cmd # "open"
                       /\ Plan!Valid(Plan!file) /\ Plan!Valid(Overridden)
         IN /\ Plan!Prepared # Plan!Refused <=> passes
            /\ passes => Plan!Prepared = [transport |-> Overridden.transport,
                                     workload |-> Overridden.workload,
                                     weights |-> Plan!Defaulted(Overridden.weights)]
<1>1. \A t, w, ws : [transport |-> t, workload |-> w, weights |-> ws] # Plan!Refused
  BY DEF Plan!Refused
<1>2. Plan!Validate(Overridden) = [transport |-> Overridden.transport,
                              workload |-> Overridden.workload,
                              weights |-> Plan!Defaulted(Overridden.weights)]
  BY OverriddenTyped
<1>3. Plan!Prepared = IF /\ ~(Plan!flags.workload["duration"] > 0 /\ Plan!flags.workload["requests"] > 0)
                         /\ Plan!Valid(Plan!file) /\ Plan!flags.transport.cmd # "open"
                         /\ Plan!Valid(Overridden)
                      THEN Plan!Validate(Overridden) ELSE Plan!Refused
  BY DEF Plan!Prepared, Plan!Prepare, Overridden
<1> QED BY <1>1, <1>2, <1>3

-----------------------------------------------------------------------------
(* A transport that Validate accepts can be built.                         *)
LEMMA ValidBuilds ==
  ASSUME NEW t \in Plan!Transports, Plan!ValidTransport(t)
  PROVE  Plan!CanBuild(t)
BY Zenon DEF Plan!ValidTransport, Plan!CanBuild

(* A valid workload ends by its duration or by its requests.               *)
LEMMA OneEnd ==
  ASSUME NEW w \in AnyWorkload, Plan!ValidWorkload(w)
  PROVE  Cardinality({f \in {"duration", "requests"} : w[f] > 0}) = 1
<1> DEFINE ends == {f \in {"duration", "requests"} : w[f] > 0}
<1>1. w["duration"] \in Nat /\ w["requests"] \in Nat
  BY DEF Plan!ValidWorkload, AnyWorkload, Plan!Fields
<1>2. w["duration"] = 0 <=> w["requests"] # 0
  BY DEF Plan!ValidWorkload
<1>3. ends = {"duration"} \/ ends = {"requests"}
  BY <1>1, <1>2
<1> QED BY <1>3, FS_Singleton

(* The greater of two numbers, and the least.                              *)
LEMMA MaxOfTwo ==
  ASSUME NEW a \in Nat, NEW b \in Nat
  PROVE  Plan!Max({a, b}) \in {a, b} /\ Plan!Max({a, b}) >= a /\ Plan!Max({a, b}) >= b
<1>1. \E x \in {a, b} : \A y \in {a, b} : x >= y
  OBVIOUS
<1> QED BY <1>1 DEF Plan!Max

LEMMA MinOfTwo ==
  ASSUME NEW a \in Nat, NEW b \in Nat
  PROVE  Plan!Min({a, b}) \in {a, b} /\ Plan!Min({a, b}) <= a /\ Plan!Min({a, b}) <= b
BY LeastNat DEF Plan!Min, Min

(* A valid workload has workers, as many as it asks for, or a number that  *)
(* the machine can carry.                                                  *)
LEMMA WorkersBounded ==
  ASSUME NEW w \in AnyWorkload, Plan!ValidWorkload(w), NEW cpus \in Nat \ {0}
  PROVE  LET n == Plan!EffectiveWorkers(w, cpus) IN
           n > 0 /\ (n <= 4 * cpus \/ n = w["concurrency"])
<1>1. w["rate"] \in Nat /\ w["concurrency"] \in Nat /\ (w["rate"] # 0 \/ w["concurrency"] # 0)
  BY DEF Plan!ValidWorkload, AnyWorkload, Plan!Fields
<1>2. CASE w["concurrency"] > 0
  BY <1>1, <1>2 DEF Plan!EffectiveWorkers
<1>3. CASE w["concurrency"] = 0
  <2> DEFINE asked == Plan!Max({w["rate"] \div 2, 1})
             n == Plan!Min({asked, 4 * cpus})
  <2>1. w["rate"] > 0
    BY <1>1, <1>3
  <2>2. Plan!EffectiveWorkers(w, cpus) = n
    BY <1>3, <2>1 DEF Plan!EffectiveWorkers
  <2>3. w["rate"] \div 2 \in Nat
    BY <1>1
  <2>4. asked \in Nat /\ asked >= 1
    <3> HIDE DEF asked
    <3>1. Plan!Max({w["rate"] \div 2, 1}) \in {w["rate"] \div 2, 1} /\ Plan!Max({w["rate"] \div 2, 1}) >= 1
      BY <2>3, MaxOfTwo
    <3> QED BY <2>3, <3>1 DEF asked
  <2>5. 4 * cpus \in Nat /\ 4 * cpus >= 1
    OBVIOUS
  <2>6. n \in {asked, 4 * cpus} /\ n <= 4 * cpus
    <3> HIDE DEF asked
    <3> QED BY <2>4, <2>5, MinOfTwo
  <2> HIDE DEF n, asked
  <2> QED BY <2>2, <2>4, <2>5, <2>6
<1> QED BY <1>1, <1>2, <1>3

(* Any file and command line that pass are a run that can be made and that *)
(* ends as they say, whatever their numbers.                               *)
LEMMA PreparedAny ==
  ASSUME input \in AnyInput
  PROVE  Plan!PreparedRuns
<1> SUFFICES ASSUME Plan!Prepared # Plan!Refused
             PROVE  /\ Plan!CanBuild(Plan!Prepared.transport)
                    /\ Cardinality({f \in {"duration", "requests"} : Plan!Prepared.workload[f] > 0}) = 1
                    /\ \A cpus \in {1, 2} :
                         LET n == Plan!EffectiveWorkers(Plan!Prepared.workload, cpus) IN
                         n > 0 /\ (n <= 4 * cpus \/ n = Plan!Prepared.workload["concurrency"])
                    /\ \E f \in {"rate", "concurrency"} : Plan!Prepared.workload[f] > 0
                    /\ \A tool \in {-1, 0, 2} : Plan!CallTimeout(tool, Plan!Prepared.workload) > 0
                    /\ \A f \in Plan!Fields : Plan!flags.workload[f] > 0
                                           => Plan!Prepared.workload[f] = Plan!flags.workload[f]
  BY DEF Plan!PreparedRuns, Plan!Cardinality, Cardinality
<1>1. /\ ~(Plan!flags.workload["duration"] > 0 /\ Plan!flags.workload["requests"] > 0)
      /\ Plan!Valid(Overridden)
      /\ Plan!Prepared.transport = Overridden.transport /\ Plan!Prepared.workload = Overridden.workload
  BY PreparedIs
<1> DEFINE t == Overridden.transport
           w == Overridden.workload
<1>2. t \in Plan!Transports /\ w \in AnyWorkload /\ Plan!ValidTransport(t) /\ Plan!ValidWorkload(w)
  BY <1>1, OverriddenTyped DEF Plan!Valid
<1>3. w = Plan!OverrideWorkload(Plan!file.workload, Plan!flags.workload)
  BY OverriddenTyped
<1> HIDE DEF t, w
<1>4. Plan!CanBuild(t)
  BY <1>2, ValidBuilds
<1>5. \A cpus \in {1, 2} : LET n == Plan!EffectiveWorkers(w, cpus) IN
                           n > 0 /\ (n <= 4 * cpus \/ n = w["concurrency"])
  BY <1>2, WorkersBounded
<1>6. \E f \in {"rate", "concurrency"} : w[f] > 0
  <2>1. w["rate"] \in Nat /\ w["concurrency"] \in Nat /\ (w["rate"] # 0 \/ w["concurrency"] # 0)
    BY <1>2 DEF Plan!ValidWorkload, AnyWorkload, Plan!Fields
  <2> QED BY <2>1
<1>7. \A tool \in {-1, 0, 2} : Plan!CallTimeout(tool, w) > 0
  <2>1. w["timeout"] \in Nat
    BY <1>2 DEF Plan!ValidWorkload, AnyWorkload, Plan!Fields, Plan!Times
  <2> QED BY <2>1 DEF Plan!CallTimeout, Plan!DefaultTimeout
<1>8. \A f \in Plan!Fields : Plan!flags.workload[f] > 0 => w[f] = Plan!flags.workload[f]
  <2>1. ASSUME NEW f \in Plan!Fields, Plan!flags.workload[f] > 0
        PROVE  Plan!OverrideWorkload(Plan!file.workload, Plan!flags.workload)[f] = Plan!flags.workload[f]
    <3>1. /\ ~(f = "requests" /\ Plan!flags.workload["duration"] > 0)
          /\ ~(f = "duration" /\ Plan!flags.workload["requests"] > 0)
      BY <1>1, <2>1
    <3> QED BY <2>1, <3>1 DEF Plan!OverrideWorkload
  <2> QED BY <1>3, <2>1
<1>9. Cardinality({f \in {"duration", "requests"} : w[f] > 0}) = 1
  BY <1>2, OneEnd
<1> QED BY <1>1, <1>4, <1>5, <1>6, <1>7, <1>8, <1>9 DEF t, w

(* A program or an address of its own, or none, leaves a transport valid.  *)
LEMMA TransportKept ==
  ASSUME NEW t \in Plan!Transports, Plan!ValidTransport(t), NEW given \in Plan!Given,
         given.type = "", given.cmd \in {"", "spaces", "program"}, given.url \in {"", "http"}
  PROVE  Plan!ValidTransport(Plan!OverrideTransport(t, given))
<1> DEFINE v == Plan!OverrideTransport(t, given)
<1>1. DOMAIN t = {"type", "cmd", "url"}
  BY DEF Plan!Transports
<1>2. /\ v.type = t.type
      /\ v.cmd = t.cmd \/ v.cmd = "program"
      /\ v.url = t.url \/ v.url = "http"
  BY <1>1 DEF Plan!OverrideTransport
<1> HIDE DEF v
<1>3. Plan!ValidTransport(v)
  BY <1>2 DEF Plan!ValidTransport
<1> QED BY <1>3 DEF v

(* A flag is the number of its field, takes the place of the other end, or *)
(* leaves the file's.                                                      *)
LEMMA OverriddenField ==
  ASSUME NEW w \in AnyWorkload, NEW flgs \in AnyWorkload,
         ~(flgs["duration"] > 0 /\ flgs["requests"] > 0), NEW f \in Plan!Fields
  PROVE  LET v == Plan!OverrideWorkload(w, flgs)[f] IN
         /\ flgs[f] > 0 => v = flgs[f]
         /\ f \notin {"duration", "requests"} /\ ~(flgs[f] > 0) => v = w[f]
         /\ f = "requests" /\ ~(flgs[f] > 0) =>
              v = IF flgs["duration"] > 0 THEN 0 ELSE w[f]
         /\ f = "duration" /\ ~(flgs[f] > 0) =>
              v = IF flgs["requests"] > 0 THEN 0 ELSE w[f]
BY DEF Plan!OverrideWorkload

(* The command line cannot break a valid workload.                         *)
LEMMA WorkloadKept ==
  ASSUME NEW w \in AnyWorkload, Plan!ValidWorkload(w), NEW flgs \in AnyWorkload,
         ~(flgs["duration"] > 0 /\ flgs["requests"] > 0)
  PROVE  Plan!ValidWorkload(Plan!OverrideWorkload(w, flgs))
<1> DEFINE v == Plan!OverrideWorkload(w, flgs)
<1>1. \A f \in Plan!Fields : w[f] \in Int /\ flgs[f] \in Int /\ w[f] >= 0
  BY DEF AnyWorkload, Plan!ValidWorkload
<1>2. {"duration", "requests", "rate", "concurrency"} \subseteq Plan!Fields
  BY DEF Plan!Fields
<1>3. w["duration"] = 0 <=> w["requests"] # 0
  BY DEF Plan!ValidWorkload
<1>4. w["rate"] # 0 \/ w["concurrency"] # 0
  BY DEF Plan!ValidWorkload
<1>5. ASSUME NEW f \in Plan!Fields
      PROVE  v[f] >= 0 /\ (f \notin {"duration", "requests"} => v[f] = flgs[f] \/ v[f] = w[f])
             /\ (f \notin {"duration", "requests"} /\ w[f] # 0 => v[f] # 0)
  <2> HIDE DEF v
  <2>1. flgs[f] > 0 => v[f] = flgs[f]
    BY OverriddenField DEF v
  <2>2. f \notin {"duration", "requests"} /\ ~(flgs[f] > 0) => v[f] = w[f]
    BY OverriddenField DEF v
  <2>3. f = "requests" /\ ~(flgs[f] > 0) => v[f] = 0 \/ v[f] = w[f]
    BY OverriddenField DEF v
  <2>4. f = "duration" /\ ~(flgs[f] > 0) => v[f] = 0 \/ v[f] = w[f]
    BY OverriddenField DEF v
  <2> QED BY <1>1, <2>1, <2>2, <2>3, <2>4
<1>6. v["duration"] = 0 <=> v["requests"] # 0
  <2> DEFINE d == "duration"
             r == "requests"
  <2> HIDE DEF v
  <2>1. v["duration"] = IF flgs["duration"] > 0 THEN flgs["duration"]
                        ELSE IF flgs["requests"] > 0 THEN 0 ELSE w["duration"]
    BY <1>2, OverriddenField DEF v
  <2>2. v["requests"] = IF flgs["requests"] > 0 THEN flgs["requests"]
                        ELSE IF flgs["duration"] > 0 THEN 0 ELSE w["requests"]
    BY <1>2, OverriddenField DEF v
  <2> QED BY <1>1, <1>2, <1>3, <2>1, <2>2
<1>7. v["rate"] # 0 \/ v["concurrency"] # 0
  <2> HIDE DEF v
  <2> QED BY <1>2, <1>4, <1>5
<1> HIDE DEF v
<1>8. Plan!ValidWorkload(v)
  BY <1>5, <1>6, <1>7 DEF Plan!ValidWorkload
<1> QED BY <1>8 DEF v

(* A valid file runs unless the command line itself forbids it.            *)
LEMMA BreakAny ==
  ASSUME input \in AnyInput
  PROVE  Plan!OnlyFlagsBreak
<1> SUFFICES ASSUME Plan!Valid(Plan!file), Plan!Sound
             PROVE  Plan!Prepared # Plan!Refused
  BY DEF Plan!OnlyFlagsBreak
<1>1. /\ Plan!file.transport \in Plan!Transports /\ Plan!file.workload \in AnyWorkload
      /\ Plan!file.weights \in Seq(Int) /\ Plan!flags.workload \in AnyWorkload
      /\ Plan!flags.transport \in Plan!Given
  BY DEF AnyInput, Plan!file, Plan!flags
<1>2. Plan!ValidTransport(Overridden.transport)
  <2>1. Overridden.transport = Plan!OverrideTransport(Plan!file.transport, Plan!flags.transport)
    BY OverriddenTyped
  <2>2. Plan!ValidTransport(Plan!file.transport)
    BY DEF Plan!Valid
  <2> QED BY <1>1, <2>1, <2>2, TransportKept DEF Plan!Sound
<1>3. Plan!ValidWorkload(Overridden.workload)
  <2>1. Plan!ValidWorkload(Plan!file.workload)
    BY DEF Plan!Valid
  <2>2. Overridden.workload = Plan!OverrideWorkload(Plan!file.workload, Plan!flags.workload)
    BY OverriddenTyped
  <2> QED BY <1>1, <2>1, <2>2, WorkloadKept DEF Plan!Sound
<1>4. Plan!ValidWeights(Overridden.weights)
  <2> DEFINE ws == Plan!file.weights
  <2>1. ws # <<>> /\ \A i \in 1..Len(ws) : ws[i] >= 0
    BY DEF Plan!Valid, Plan!ValidWeights
  <2>2. Overridden.weights = Plan!Defaulted(ws)
    BY OverriddenTyped
  <2>3. Len(Plan!Defaulted(ws)) = Len(ws)
        /\ \A i \in 1..Len(ws) : Plan!Defaulted(ws)[i] = IF ws[i] = 0 THEN 1 ELSE ws[i]
    BY <1>1, WeightsDefaulted
  <2>4. Plan!Defaulted(ws) # <<>>
    BY <1>1, <2>1, <2>3
  <2> QED BY <2>1, <2>2, <2>3, <2>4 DEF Plan!ValidWeights
<1>5. Plan!Valid(Overridden)
  BY <1>2, <1>3, <1>4 DEF Plan!Valid
<1> QED BY <1>5, PreparedIs DEF Plan!Sound

-----------------------------------------------------------------------------
LEMMA FoldIsSum ==
  ASSUME NEW s \in Seq(Int)
  PROVE  Plan!FoldLeft(LAMBDA a, b : a + b, 0, s) = SumFunctionOnSet(s, 1..Len(s))
<1>1. Plan!FoldLeft(LAMBDA a, b : a + b, 0, s) = LeftSum(s, DOMAIN s)[DOMAIN s]
  BY DEF Plan!FoldLeft, Plan!MapThenFoldSet, Plan!Max, Max, LeftSum, IsLeftSum
<1>2. DOMAIN s = 1..Len(s) /\ \A i \in 1..Len(s) : s[i] \in Int
  OBVIOUS
<1>3. IsFiniteSet(1..Len(s)) /\ 1..Len(s) \in SUBSET Int
  BY FS_Interval
<1> QED BY <1>1, <1>2, <1>3, LeftIsSum

-----------------------------------------------------------------------------
(* The sum of the first i terms.                                           *)
Upto(ws, i) == SumFunctionOnSet(ws, 1..i)

LEMMA UptoStep ==
  ASSUME NEW ws \in Seq(Int), NEW i \in 1..Len(ws)
  PROVE  /\ Upto(ws, i) \in Int /\ Upto(ws, i - 1) \in Int
         /\ Upto(ws, i) = Upto(ws, i - 1) + ws[i]
<1> DEFINE T == 1..i
           U == 1..(i - 1)
<1>1. i \in Int /\ i - 1 \in Int /\ i >= 1 /\ i <= Len(ws)
  OBVIOUS
<1>2. IsFiniteSet(T) /\ IsFiniteSet(U)
  BY <1>1, FS_Interval
<1>3. (\A x \in T : ws[x] \in Int) /\ (\A x \in U : ws[x] \in Int)
  BY <1>1
<1>4. i \in T /\ T \ {i} = U
  BY <1>1
<1> HIDE DEF T, U
<1>5. SumFunctionOnSet(ws, T) = ws[i] + SumFunctionOnSet(ws, U)
  BY <1>2, <1>3, <1>4, SumTake
<1>6. SumFunctionOnSet(ws, T) \in Int /\ SumFunctionOnSet(ws, U) \in Int
  BY <1>2, <1>3, SumInt
<1>7. ws[i] \in Int
  BY <1>3, <1>4
<1>8. Upto(ws, i) = SumFunctionOnSet(ws, T) /\ Upto(ws, i - 1) = SumFunctionOnSet(ws, U)
  BY DEF Upto, T, U
<1> QED BY <1>5, <1>6, <1>7, <1>8

(* The totals of the picker are these sums.                                *)
LEMMA CumIsUpto ==
  ASSUME NEW ws \in Seq(Int), NEW i \in 1..Len(ws)
  PROVE  Plan!Cum(ws)[i] = Upto(ws, i)
<1> DEFINE s == SubSeq(ws, 1, i)
<1>1. s \in Seq(Int) /\ Len(s) = i /\ \A x \in 1..i : s[x] = ws[x]
  OBVIOUS
<1>2. Plan!Cum(ws)[i] = Plan!FoldLeft(LAMBDA a, b : a + b, 0, s)
  BY DEF Plan!Cum
<1> HIDE DEF s
<1>3. Plan!FoldLeft(LAMBDA a, b : a + b, 0, s) = SumFunctionOnSet(s, 1..i)
  BY <1>1, FoldIsSum
<1>4. SumFunctionOnSet(s, 1..i) = SumFunctionOnSet(ws, 1..i)
  <2> DEFINE T == 1..i
  <2>1. IsFiniteSet(T)
    BY FS_Interval
  <2>2. \A x \in T : s[x] = ws[x]
    BY <1>1
  <2> HIDE DEF T
  <2>3. SumFunctionOnSet(s, T) = SumFunctionOnSet(ws, T)
    BY <2>1, <2>2, SumEqual
  <2> QED BY <2>3 DEF T
<1> QED BY <1>2, <1>3, <1>4 DEF Upto

(* They grow with every tool.                                              *)
LEMMA UptoGrows ==
  ASSUME NEW ws \in Seq(Int), \A i \in 1..Len(ws) : ws[i] >= 1,
         NEW j \in 0..Len(ws), NEW i \in 0..Len(ws), j <= i
  PROVE  Upto(ws, j) <= Upto(ws, i)
<1> DEFINE n == Len(ws)
           Bad == {k \in j..n : ~(Upto(ws, j) <= Upto(ws, k))}
<1>1. n \in Nat
  OBVIOUS
<1>2. SUFFICES ASSUME Bad # {} PROVE FALSE
  OBVIOUS
<1>3. Bad \in SUBSET Nat
  OBVIOUS
<1> DEFINE m == Min(Bad)
<1>4. m \in Bad /\ \A x \in Bad : m <= x
  <2> HIDE DEF Bad
  <2> QED BY <1>2, <1>3, LeastNat
<1> HIDE DEF m
<1>5. m \in j..n /\ ~(Upto(ws, j) <= Upto(ws, m))
  BY <1>4
<1>6. ASSUME NEW k \in 0..n
      PROVE  Upto(ws, k) \in Int
  <2>1. CASE k = 0
    <3>1. 1..0 = {}
      OBVIOUS
    <3> QED BY <2>1, <3>1, SumEmpty DEF Upto
  <2>2. CASE k # 0
    BY <2>2, UptoStep
  <2> QED BY <2>1, <2>2
<1>7. m # j
  BY <1>5, <1>6
<1>8. m - 1 \in j..n /\ m \in 1..n
  BY <1>5, <1>7
<1>9. Upto(ws, j) <= Upto(ws, m - 1)
  BY <1>4, <1>8
<1>10. Upto(ws, m) = Upto(ws, m - 1) + ws[m]
  BY <1>8, UptoStep
<1>11. ws[m] \in Int /\ ws[m] >= 1
  BY <1>8
<1>12. Upto(ws, j) \in Int /\ Upto(ws, m - 1) \in Int
  BY <1>6, <1>8
<1> QED BY <1>5, <1>9, <1>10, <1>11, <1>12

(* A tool is picked for as many numbers below the total as its weight.     *)
LEMMA PickedShare ==
  ASSUME NEW ws \in Seq(Int), \A i \in 1..Len(ws) : ws[i] >= 1, Len(ws) > 1,
         NEW i \in 1..Len(ws)
  PROVE  Cardinality({pick \in 0..(Plan!Total(ws) - 1) : Plan!Picked(ws, pick) = i}) = ws[i]
<1> DEFINE n == Len(ws)
           share == {pick \in 0..(Plan!Total(ws) - 1) : Plan!Picked(ws, pick) = i}
<1>1. n \in Nat /\ n > 1 /\ i \in 1..n
  OBVIOUS
<1>2. Plan!Total(ws) = Upto(ws, n) /\ \A k \in 1..n : Plan!Cum(ws)[k] = Upto(ws, k)
  BY <1>1, CumIsUpto DEF Plan!Total
<1>3. Upto(ws, 0) = 0
  <2>1. 1..0 = {}
    OBVIOUS
  <2> QED BY <2>1, SumEmpty DEF Upto
<1>4. \A k \in 0..n : Upto(ws, k) \in Int
  <2>1. ASSUME NEW k \in 1..n
        PROVE  Upto(ws, k) \in Int
    BY UptoStep
  <2> QED BY <1>3, <2>1
<1>5. \A j, k \in 0..n : j <= k => Upto(ws, j) <= Upto(ws, k)
  BY UptoGrows
<1>6. ASSUME NEW pick \in 0..(Upto(ws, n) - 1)
      PROVE  Plan!Picked(ws, pick) = i <=> Upto(ws, i - 1) <= pick /\ pick < Upto(ws, i)
  <2> DEFINE Above == {k \in 1..n : Upto(ws, k) > pick}
             m == Min(Above)
  <2>1. Plan!Picked(ws, pick) = m
    <3>1. Above = {k \in 1..Len(ws) : Plan!Cum(ws)[k] > pick}
      BY <1>2
    <3>2. Len(ws) # 1
      OBVIOUS
    <3>3. Plan!Picked(ws, pick) = Plan!Min({k \in 1..Len(ws) : Plan!Cum(ws)[k] > pick})
      BY <3>2, Zenon DEF Plan!Picked
    <3> QED BY <3>1, <3>3 DEF Plan!Min, Min
  <2>2. pick \in Int /\ 0 <= pick /\ pick < Upto(ws, n)
    BY <1>1, <1>4
  <2>3. m \in Above /\ \A k \in Above : m <= k
    <3>1. n \in Above /\ Above \in SUBSET Nat
      BY <1>1, <2>2
    <3> HIDE DEF Above
    <3> QED BY <3>1, LeastNat
  <2> HIDE DEF m
  <2>4. ASSUME m = i
        PROVE  Upto(ws, i - 1) <= pick /\ pick < Upto(ws, i)
    <3>1. pick < Upto(ws, i)
      BY <2>3, <2>4
    <3>2. CASE i = 1
      BY <1>3, <2>2, <3>1, <3>2
    <3>3. CASE i # 1
      <4>1. i - 1 \in 1..n /\ i - 1 \notin Above
        BY <1>1, <2>3, <2>4, <3>3
      <4>2. Upto(ws, i - 1) \in Int
        BY <1>4, <4>1
      <4> QED BY <2>2, <3>1, <4>1, <4>2
    <3> QED BY <3>2, <3>3
  <2>5. ASSUME Upto(ws, i - 1) <= pick, pick < Upto(ws, i)
        PROVE  m = i
    <3>1. m \in 1..n /\ m <= i /\ Upto(ws, m) > pick
      BY <1>1, <2>3, <2>5
    <3>2. m < i => m <= i - 1 /\ m \in 0..n /\ i - 1 \in 0..n
      BY <1>1, <3>1
    <3>3. m < i => Upto(ws, m) <= Upto(ws, i - 1)
      BY <1>5, <3>2
    <3>4. m < i => Upto(ws, m) \in Int /\ Upto(ws, i - 1) \in Int
      BY <1>4, <3>2
    <3> QED BY <1>1, <2>2, <2>5, <3>1, <3>3, <3>4
  <2> QED BY <2>1, <2>4, <2>5
<1> DEFINE low == Upto(ws, i - 1)
           high == Upto(ws, i)
<1>7. low \in Int /\ high \in Int /\ high = low + ws[i] /\ ws[i] \in Int /\ ws[i] >= 1
  BY UptoStep
<1>8. 0 <= low /\ high <= Upto(ws, n) /\ Upto(ws, n) \in Int
  <2>1. 0 \in 0..n /\ i - 1 \in 0..n /\ i \in 0..n /\ n \in 0..n /\ 0 <= i - 1 /\ i <= n
    BY <1>1
  <2> QED BY <1>3, <1>4, <1>5, <2>1
<1> HIDE DEF low, high
<1>9. share = low..(high - 1)
  <2>1. share = {pick \in 0..(Upto(ws, n) - 1) : low <= pick /\ pick < high}
    BY <1>2, <1>6 DEF low, high
  <2> HIDE DEF share
  <2> QED BY <1>7, <1>8, <2>1
<1>10. Cardinality(low..(high - 1)) = ws[i]
  <2> DEFINE w == ws[i]
  <2>1. low \in Int /\ w \in Int /\ high = low + w /\ w >= 1
    BY <1>7
  <2>2. high - 1 \in Int /\ ~(low > high - 1) /\ (high - 1) - low + 1 = w
    <3> HIDE DEF w
    <3> QED BY <2>1
  <2> QED BY <1>7, <2>2, FS_Interval
<1> QED BY <1>9, <1>10

(* Whatever the weights of a file, the picker gives each tool its share    *)
(* (Picker.Next), a weight of 0 counting as 1.                             *)
LEMMA PicksAny ==
  ASSUME input \in AnyInput
  PROVE  Plan!PicksAreWeighted
<1> SUFFICES ASSUME Plan!Prepared # Plan!Refused
             PROVE  \A i \in 1..Len(Plan!Prepared.weights) :
                      Cardinality({pick \in 0..(Plan!Total(Plan!Prepared.weights) - 1) :
                                     Plan!Picked(Plan!Prepared.weights, pick) = i})
                        = IF Len(Plan!Prepared.weights) = 1 THEN Plan!Total(Plan!Prepared.weights)
                          ELSE IF Plan!file.weights[i] = 0 THEN 1 ELSE Plan!file.weights[i]
  BY DEF Plan!PicksAreWeighted, Plan!Cardinality, Cardinality
<1> DEFINE fw == Plan!file.weights
           ow == Overridden.weights
           ws == Plan!Prepared.weights
<1>1. fw \in Seq(Int) /\ Plan!Valid(Plan!file) /\ ow = Plan!Defaulted(fw) /\ ow \in Seq(Int)
  BY PreparedIs, OverriddenTyped DEF AnyInput, Plan!file
<1>2. ws = Plan!Defaulted(ow)
  BY PreparedIs
<1>3. fw # <<>> /\ \A i \in 1..Len(fw) : fw[i] >= 0
  BY <1>1 DEF Plan!Valid, Plan!ValidWeights
<1> HIDE DEF fw, ow, ws
<1>4. Len(ow) = Len(fw) /\ \A i \in 1..Len(fw) : ow[i] = IF fw[i] = 0 THEN 1 ELSE fw[i]
  BY <1>1, WeightsDefaulted
<1>5. /\ ws \in Seq(Int) /\ Len(ws) = Len(ow)
      /\ \A i \in 1..Len(ow) : ws[i] = IF ow[i] = 0 THEN 1 ELSE ow[i]
  BY <1>1, <1>2, WeightsDefaulted
<1>6. Len(ws) \in Nat /\ Len(ws) >= 1 /\ \A i \in 1..Len(fw) : fw[i] \in Int
  BY <1>1, <1>3, <1>4, <1>5
<1>7. \A i \in 1..Len(ws) : /\ ws[i] = IF fw[i] = 0 THEN 1 ELSE fw[i]
                            /\ ws[i] \in Int /\ ws[i] >= 1
  BY <1>3, <1>4, <1>5, <1>6
<1>8. ASSUME NEW i \in 1..Len(ws)
      PROVE  Cardinality({pick \in 0..(Plan!Total(ws) - 1) : Plan!Picked(ws, pick) = i})
               = IF Len(ws) = 1 THEN Plan!Total(ws) ELSE IF fw[i] = 0 THEN 1 ELSE fw[i]
  <2>1. CASE Len(ws) > 1
    <3>1. Cardinality({pick \in 0..(Plan!Total(ws) - 1) : Plan!Picked(ws, pick) = i}) = ws[i]
      BY <1>5, <1>7, <2>1, PickedShare
    <3> QED BY <1>6, <1>7, <2>1, <3>1
  <2>2. CASE Len(ws) = 1
    <3>1. /\ i = 1
          /\ {pick \in 0..(Plan!Total(ws) - 1) : Plan!Picked(ws, pick) = i} = 0..(Plan!Total(ws) - 1)
      BY <2>2 DEF Plan!Picked
    <3>2. 1 \in 1..Len(ws)
      BY <2>2
    <3>3. Plan!Total(ws) = Upto(ws, 1)
      BY <1>5, <2>2, <3>2, CumIsUpto DEF Plan!Total
    <3>4. Upto(ws, 1) = Upto(ws, 0) + ws[1] /\ Upto(ws, 0) = 0
      <4>1. Upto(ws, 1) = Upto(ws, 1 - 1) + ws[1]
        BY <1>5, <3>2, UptoStep
      <4>2. 1..0 = {} /\ 1 - 1 = 0
        OBVIOUS
      <4>3. Upto(ws, 0) = 0
        BY <4>2, SumEmpty DEF Upto
      <4> QED BY <4>1, <4>2, <4>3
    <3>5. Plan!Total(ws) \in Int /\ Plan!Total(ws) >= 1
      BY <1>7, <3>2, <3>3, <3>4
    <3> DEFINE total == Plan!Total(ws)
    <3>6. Cardinality(0..(total - 1)) = total
      <4> HIDE DEF total
      <4>1. total \in Int /\ total >= 1
        BY <3>5 DEF total
      <4>2. total - 1 \in Int /\ ~(0 > total - 1) /\ (total - 1) - 0 + 1 = total
        BY <4>1
      <4> QED BY <4>2, FS_Interval
    <3> QED BY <2>2, <3>1, <3>6
  <2>3. Len(ws) > 1 \/ Len(ws) = 1
    <3> DEFINE l == Len(ws)
    <3>1. l \in Nat /\ l >= 1
      BY <1>6
    <3> HIDE DEF l
    <3>2. l > 1 \/ l = 1
      BY <3>1
    <3> QED BY <3>2 DEF l
  <2> QED BY <2>1, <2>2, <2>3, Zenon
<1> QED BY <1>8 DEF ws, fw

(* The inputs of ScenarioProps are among those of these theorems.          *)
LEMMA InputBegins ==
  ASSUME MaxTools \in Nat, MaxWeight \in Nat, Plan!Init
  PROVE  input \in AnyInput
<1>1. ASSUME NEW n \in Int
      PROVE  Plan!Workloads(n) \subseteq AnyWorkload
  <2> DEFINE N == {-1, 0, n}
             W == [Plan!Fields \ Plan!Times -> N]
             Joined(w, t) == [f \in Plan!Fields |-> IF f \in Plan!Times THEN t ELSE w[f]]
  <2>1. N \subseteq Int
    OBVIOUS
  <2>2. Plan!Workloads(n) = {Joined(w, t) : w \in W, t \in N}
    BY DEF Plan!Workloads
  <2> HIDE DEF N
  <2>3. ASSUME NEW w \in W, NEW t \in N
        PROVE  Joined(w, t) \in AnyWorkload
    BY <2>1 DEF AnyWorkload
  <2>4. SUFFICES ASSUME NEW x \in Plan!Workloads(n)
                 PROVE  x \in AnyWorkload
    OBVIOUS
  <2>5. PICK w \in W, t \in N : x = Joined(w, t)
    <3> HIDE DEF W, Joined
    <3> QED BY <2>2
  <2> HIDE DEF W, Joined
  <2> QED BY <2>3, <2>5
<1>2. Plan!ByRequests \in AnyWorkload /\ Plan!NoFlags \in AnyWorkload
  BY DEF Plan!ByRequests, Plan!NoFlags, AnyWorkload
<1>3. Plan!Local \in Plan!Transports /\ Plan!Unset \in Plan!Given
  BY Zenon DEF Plan!Local, Plan!Unset, Plan!Transports, Plan!Given, Plan!Types, Plan!Spawns, Plan!Cmds, Plan!Urls
<1>4. Plan!Weights \subseteq Seq(Int)
  <2>1. ASSUME NEW n \in 0..MaxTools, NEW ws \in [1..n -> -1..MaxWeight]
        PROVE  ws \in Seq(Int)
    <3>1. ws \in [1..n -> Int] /\ n \in Nat
      OBVIOUS
    <3> QED BY <3>1
  <2> QED BY <2>1 DEF Plan!Weights
<1>5. <<1>> \in Seq(Int)
  OBVIOUS
<1>6. ASSUME NEW ts \in SUBSET Plan!Transports, NEW w \in SUBSET AnyWorkload,
             NEW wts \in SUBSET Seq(Int), NEW given \in SUBSET Plan!Given,
             NEW over \in SUBSET AnyWorkload
      PROVE  Plan!Inputs(ts, w, wts, given, over) \subseteq AnyInput
  BY DEF Plan!Inputs, AnyInput
<1>7. Plan!Inputs({Plan!Local}, Plan!Workloads(1), {<<1>>}, {Plan!Unset}, Plan!Workloads(20)) \subseteq AnyInput
  <2>1. Plan!Workloads(1) \subseteq AnyWorkload /\ Plan!Workloads(20) \subseteq AnyWorkload
    BY <1>1
  <2>2. {Plan!Local} \subseteq Plan!Transports /\ {<<1>>} \subseteq Seq(Int) /\ {Plan!Unset} \subseteq Plan!Given
    BY <1>3, <1>5
  <2> QED BY <1>6, <2>1, <2>2
<1>8. Plan!Inputs(Plan!Transports, {Plan!ByRequests}, {<<1>>}, Plan!Given, {Plan!NoFlags}) \subseteq AnyInput
  BY <1>2, <1>5, <1>6
<1>9. Plan!Inputs({Plan!Local}, {Plan!ByRequests}, Plan!Weights, {Plan!Unset}, {Plan!NoFlags}) \subseteq AnyInput
  BY <1>2, <1>3, <1>4, <1>6
<1> QED BY <1>7, <1>8, <1>9 DEF Plan!Init

-----------------------------------------------------------------------------
(* The place of a sample is the number of those before it and itself.      *)
Before(s, i, j) == s[j] < s[i] \/ (s[j] = s[i] /\ j <= i)
Ahead(s, i)     == {j \in 1..Len(s) : Before(s, i, j)}

LEMMA PlaceIs ==
  ASSUME NEW s \in Seq(Nat)
  PROVE  /\ Stats!Place(s) \in [1..Len(s) -> Nat]
         /\ \A i \in 1..Len(s) : /\ Stats!Place(s)[i] = Cardinality(Ahead(s, i))
                                 /\ IsFiniteSet(Ahead(s, i))
<1> DEFINE n == Len(s)
           place == [i \in 1..n |-> Cardinality(Ahead(s, i))]
<1>1. n \in Nat
  OBVIOUS
<1>2. IsFiniteSet(1..n)
  BY <1>1, FS_Interval
<1>3. ASSUME NEW i \in 1..n
      PROVE  IsFiniteSet(Ahead(s, i)) /\ Cardinality(Ahead(s, i)) \in Nat
  <2>1. Ahead(s, i) \in SUBSET (1..n)
    BY DEF Ahead
  <2> QED BY <1>2, <2>1, FS_Subset, FS_CardinalityType
<1>4. place \in [1..n -> Nat] /\ \A i \in 1..n : place[i] = Cardinality(Ahead(s, i))
  BY <1>3
<1>5. Stats!Place(s) = <<>> \o place
  BY DEF Stats!Place, Stats!Cardinality, Cardinality, Ahead, Before
<1> HIDE DEF place
<1>6. <<>> \o place = place
  BY <1>1, <1>4
<1> QED BY <1>3, <1>4, <1>5, <1>6

(* The samples are ordered by value and arrival.                           *)
LEMMA AheadOrdered ==
  ASSUME NEW s \in Seq(Nat), NEW i \in 1..Len(s), NEW j \in 1..Len(s), Before(s, i, j), i # j
  PROVE  Stats!Place(s)[j] < Stats!Place(s)[i]
<1>1. s[i] \in Nat /\ s[j] \in Nat /\ \A k \in 1..Len(s) : s[k] \in Nat
  OBVIOUS
<1>2. Ahead(s, j) \in SUBSET Ahead(s, i)
  BY <1>1 DEF Ahead, Before
<1>3. i \in Ahead(s, i) /\ i \notin Ahead(s, j)
  BY <1>1 DEF Ahead, Before
<1>4. Cardinality(Ahead(s, j)) < Cardinality(Ahead(s, i))
  <2>1. IsFiniteSet(Ahead(s, i)) /\ IsFiniteSet(Ahead(s, j))
    BY PlaceIs
  <2>2. /\ Cardinality(Ahead(s, j)) <= Cardinality(Ahead(s, i))
        /\ Cardinality(Ahead(s, j)) # Cardinality(Ahead(s, i))
    BY <1>2, <1>3, <2>1, FS_Subset
  <2>3. Cardinality(Ahead(s, j)) \in Nat /\ Cardinality(Ahead(s, i)) \in Nat
    BY <2>1, FS_CardinalityType
  <2> QED BY <2>2, <2>3
<1> QED BY <1>4, PlaceIs

(* Every place is taken, by one sample.                                    *)
LEMMA PlacesTaken ==
  ASSUME NEW s \in Seq(Nat)
  PROVE  Stats!Place(s) \in Bijection(1..Len(s), 1..Len(s))
<1> DEFINE n == Len(s)
           N == 1..n
           place == Stats!Place(s)
<1>1. n \in Nat /\ IsFiniteSet(N) /\ Cardinality(N) = n
  <2>1. n \in Nat
    OBVIOUS
  <2> HIDE DEF n
  <2>2. IsFiniteSet(1..n) /\ Cardinality(1..n) = IF 1 > n THEN 0 ELSE n - 1 + 1
    BY <2>1, FS_Interval
  <2> QED BY <2>1, <2>2
<1>2. place \in [N -> Nat]
  BY PlaceIs
<1>3. ASSUME NEW i \in N
      PROVE  place[i] \in N
  <2>1. Ahead(s, i) \in SUBSET N /\ i \in Ahead(s, i)
    BY DEF Ahead, Before
  <2>2. Cardinality(Ahead(s, i)) <= n /\ Ahead(s, i) # {} /\ IsFiniteSet(Ahead(s, i))
    <3> HIDE DEF N
    <3> QED BY <1>1, <2>1, FS_Subset
  <2>3. Cardinality(Ahead(s, i)) \in Nat /\ Cardinality(Ahead(s, i)) # 0
    BY <2>2, FS_CardinalityType, FS_EmptySet
  <2>4. place[i] = Cardinality(Ahead(s, i))
    BY PlaceIs
  <2> QED BY <1>1, <2>2, <2>3, <2>4
<1>4. ASSUME NEW i \in N, NEW j \in N, i # j
      PROVE  place[i] # place[j]
  <2>1. Before(s, i, j) \/ Before(s, j, i)
    <3>1. s[i] \in Nat /\ s[j] \in Nat
      OBVIOUS
    <3> QED BY <1>1, <3>1 DEF Before
  <2>2. place[i] \in Nat /\ place[j] \in Nat
    BY <1>2
  <2> QED BY <1>4, <2>1, <2>2, AheadOrdered
<1>5. place \in Injection(N, N)
  <2> HIDE DEF place, N
  <2> QED BY <1>2, <1>3, <1>4 DEF Injection, IsInjective
<1>6. place \in Surjection(N, N)
  <2> HIDE DEF place, N
  <2> QED BY <1>1, <1>5, FS_Injection
<1> HIDE DEF place, N
<1>7. place \in Bijection(N, N)
  BY <1>5, <1>6 DEF Bijection
<1> QED BY <1>7 DEF place, N

(* Sorted is a rearrangement of the samples, in ascending order.           *)
LEMMA SortedIs ==
  ASSUME NEW s \in Seq(Nat)
  PROVE  LET t == Stats!Sorted(s)
             place == Stats!Place(s)
         IN /\ t \in Seq(Nat) /\ Len(t) = Len(s)
            /\ \A i \in 1..Len(s) : t[place[i]] = s[i]
            /\ \A j, k \in 1..Len(s) : j <= k => t[j] <= t[k]
<1> DEFINE n == Len(s)
           N == 1..n
           place == Stats!Place(s)
           at(k) == CHOOSE i \in N : place[i] = k
           arranged == [k \in N |-> s[at(k)]]
           t == Stats!Sorted(s)
<1>1. n \in Nat /\ \A i \in N : s[i] \in Nat
  OBVIOUS
<1>2. /\ place \in [N -> N]
      /\ \A i, j \in N : place[i] = place[j] => i = j
      /\ \A k \in N : \E i \in N : place[i] = k
  <2>1. place \in Bijection(N, N)
    BY PlacesTaken
  <2> HIDE DEF place, N
  <2> QED BY <2>1 DEF Bijection, Injection, IsInjective, Surjection
<1>3. \A k \in N : at(k) \in N /\ place[at(k)] = k
  <2> HIDE DEF place, N
  <2> QED BY <1>2
<1>4. \A i \in N : place[i] \in N /\ at(place[i]) = i
  <2> HIDE DEF place, at, N
  <2> QED BY <1>2, <1>3
<1>5. t = <<>> \o arranged
  BY DEF Stats!Sorted
<1> HIDE DEF place, at, t
<1>6. arranged \in [N -> Nat] /\ \A k \in N : arranged[k] = s[at(k)]
  BY <1>1, <1>3
<1>7. t \in Seq(Nat) /\ Len(t) = n /\ \A k \in N : t[k] = s[at(k)]
  <2> HIDE DEF arranged, n
  <2> QED BY <1>1, <1>5, <1>6
<1>8. \A i \in N : t[place[i]] = s[i]
  BY <1>4, <1>7
<1>9. ASSUME NEW j \in N, NEW k \in N, j <= k
      PROVE  t[j] <= t[k]
  <2> DEFINE x == at(j)
             y == at(k)
  <2>1. x \in N /\ y \in N /\ place[x] = j /\ place[y] = k /\ t[j] = s[x] /\ t[k] = s[y]
    BY <1>3, <1>7
  <2> HIDE DEF x, y
  <2>2. s[x] \in Nat /\ s[y] \in Nat
    BY <1>1, <2>1
  <2>3. SUFFICES ASSUME s[y] < s[x] PROVE FALSE
    BY <2>1, <2>2
  <2>4. Before(s, x, y) /\ x # y
    BY <2>2, <2>3 DEF Before
  <2>5. place[y] < place[x]
    BY <2>1, <2>4, AheadOrdered DEF place
  <2> QED BY <1>1, <1>9, <2>1, <2>5
<1> QED BY <1>7, <1>8, <1>9 DEF t, place

(* As many samples are within a value as places are.                       *)
LEMMA WithinSorted ==
  ASSUME NEW s \in Seq(Nat), NEW d \in Nat
  PROVE  LET t == Stats!Sorted(s)
             here == {k \in 1..Len(s) : s[k] <= d}
             there == {k \in 1..Len(s) : t[k] <= d}
         IN IsFiniteSet(there) /\ Cardinality(here) = Cardinality(there)
<1> DEFINE N == 1..Len(s)
           t == Stats!Sorted(s)
           place == Stats!Place(s)
           here == {k \in N : s[k] <= d}
           there == {k \in N : t[k] <= d}
           move == [k \in here |-> place[k]]
<1>1. \A i \in N : t[place[i]] = s[i]
  BY SortedIs
<1>2. /\ place \in [N -> N]
      /\ \A i, j \in N : place[i] = place[j] => i = j
      /\ \A k \in N : \E i \in N : place[i] = k
  <2>1. place \in Bijection(N, N)
    BY PlacesTaken
  <2> HIDE DEF place, N
  <2> QED BY <2>1 DEF Bijection, Injection, IsInjective, Surjection
<1>3. IsFiniteSet(here) /\ IsFiniteSet(there)
  <2>1. IsFiniteSet(N) /\ here \in SUBSET N /\ there \in SUBSET N
    <3>1. Len(s) \in Nat
      OBVIOUS
    <3> QED BY <3>1, FS_Interval
  <2> HIDE DEF N, here, there
  <2> QED BY <2>1, FS_Subset
<1> HIDE DEF place, t, N
<1>4. move \in [here -> there]
  BY <1>1, <1>2
<1>5. \A i, j \in here : move[i] = move[j] => i = j
  BY <1>2
<1>6. \A k \in there : \E i \in here : move[i] = k
  <2> SUFFICES ASSUME NEW k \in there PROVE \E i \in here : move[i] = k
    OBVIOUS
  <2>1. PICK i \in N : place[i] = k
    BY <1>2
  <2>2. i \in here
    BY <1>1, <2>1
  <2> QED BY <2>1, <2>2
<1> HIDE DEF here, there, move
<1>7. move \in Bijection(here, there)
  BY <1>4, <1>5, <1>6 DEF Bijection, Injection, IsInjective, Surjection
<1>8. ExistsBijection(here, there)
  BY <1>7 DEF ExistsBijection
<1>9. Cardinality(here) = Cardinality(there)
  BY <1>3, <1>8, FS_Bijection
<1> QED BY <1>3, <1>9 DEF here, there, t, N

-----------------------------------------------------------------------------
(* The rank of a quantile is the ceiling of its share.                     *)
LEMMA RankIs ==
  ASSUME NEW p \in Stats!Quantiles, NEW n \in Nat \ {0}
  PROVE  LET r == Stats!Rank(p, n) IN
         r \in 1..n /\ 100 * r >= p * n /\ 100 * (r - 1) < p * n
<1>1. p \in 50..99
  BY DEF Stats!Quantiles
<1> DEFINE m == p * n
           r == (m + 99) \div 100
<1>2. m \in Nat /\ m <= 99 * n /\ m >= 50 * n
  BY <1>1
<1> HIDE DEF m
<1>3. r \in Int /\ 100 * r <= m + 99 /\ m + 99 < 100 * r + 100
  BY <1>2
<1> HIDE DEF r
<1>4. r \in 1..n /\ 100 * r >= m /\ 100 * (r - 1) < m
  BY <1>2, <1>3
<1>5. Stats!Rank(p, n) = r
  BY <1>4 DEF Stats!Rank, r, m
<1> QED BY <1>4, <1>5 DEF m

(* A greater quantile has no smaller rank.                                 *)
LEMMA RankGrows ==
  ASSUME NEW p \in Stats!Quantiles, NEW q \in Stats!Quantiles, p <= q, NEW n \in Nat \ {0}
  PROVE  Stats!Rank(p, n) <= Stats!Rank(q, n)
<1>1. p \in Nat /\ q \in Nat
  BY DEF Stats!Quantiles
<1> DEFINE m == p * n
           o == q * n
<1>2. m \in Nat /\ o \in Nat /\ m <= o
  BY <1>1
<1> HIDE DEF m, o
<1>3. LET r == Stats!Rank(p, n) IN r \in 1..n /\ 100 * r >= m /\ 100 * (r - 1) < m
  BY RankIs DEF m
<1>4. LET r == Stats!Rank(q, n) IN r \in 1..n /\ 100 * r >= o /\ 100 * (r - 1) < o
  BY RankIs DEF o
<1> DEFINE r1 == Stats!Rank(p, n)
           r2 == Stats!Rank(q, n)
<1>5. r1 \in Int /\ r2 \in Int /\ 100 * (r1 - 1) < m /\ 100 * r2 >= o
  BY <1>3, <1>4
<1> HIDE DEF r1, r2
<1>6. r1 <= r2
  BY <1>2, <1>5
<1> QED BY <1>6 DEF r1, r2

(* A reported quantile is the sample at its rank.                          *)
LEMMA QuantileIs ==
  ASSUME NEW s \in Seq(Nat), s # <<>>, NEW count, NEW p \in Stats!Quantiles
  PROVE  LET r == Stats!Rank(p, Len(s)) IN
         /\ r \in 1..Len(s)
         /\ Stats!Summarize(s, count).quantile[p] = Stats!Sorted(s)[r]
<1>1. Len(s) \in Nat \ {0}
  OBVIOUS
<1>2. Stats!Rank(p, Len(s)) \in 1..Len(s)
  BY <1>1, RankIs
<1> DEFINE t == Stats!Sorted(s)
<1>3. t \in Seq(Nat) /\ Len(t) = Len(s)
  BY SortedIs
<1>4. Stats!Summarize(s, count).quantile[p] = Stats!Percentile(t, p)
  BY DEF Stats!Summarize
<1> HIDE DEF t
<1>5. t # <<>>
  BY <1>1, <1>3
<1>6. Stats!Percentile(t, p) = t[Stats!Rank(p, Len(s))]
  BY <1>3, <1>5 DEF Stats!Percentile
<1> QED BY <1>2, <1>4, <1>6 DEF t

(* The quantiles of a report are those of the nearest-rank definition, for *)
(* any samples (summarize, percentile).                                    *)
LEMMA QuantilesAny ==
  ASSUME input \in Seq(Nat)
  PROVE  Stats!QuantilesRight
<1> DEFINE n == Len(input)
           t == Stats!Sorted(input)
           place == Stats!Place(input)
           q(p) == Stats!Summarize(input, n).quantile[p]
<1> SUFFICES ASSUME input # <<>>, NEW p \in Stats!Quantiles
             PROVE  /\ q(p) \in {input[k] : k \in 1..n}
                    /\ 100 * Stats!AtMost(q(p)) >= p * n
                    /\ \A k \in 1..n : input[k] < q(p)
                                         => 100 * Stats!AtMost(input[k]) < p * n
  BY DEF Stats!QuantilesRight
<1>1. n \in Nat \ {0} /\ p \in Nat /\ \A k \in 1..n : input[k] \in Nat
  BY DEF Stats!Quantiles
<1>2. PICK r \in 1..n : q(p) = t[r] /\ 100 * r >= p * n /\ 100 * (r - 1) < p * n
  BY <1>1, QuantileIs, RankIs
<1>3. /\ t \in Seq(Nat) /\ Len(t) = n
      /\ \A i \in 1..n : t[place[i]] = input[i]
      /\ \A j, k \in 1..n : j <= k => t[j] <= t[k]
  BY SortedIs
<1>4. \A k \in 1..n : t[k] \in Nat
  BY <1>3
<1>5. ASSUME NEW d \in Nat
      PROVE  /\ IsFiniteSet({k \in 1..n : t[k] <= d})
             /\ Stats!AtMost(d) = Cardinality({k \in 1..n : t[k] <= d})
  <2>1. Stats!AtMost(d) = Cardinality({k \in 1..n : input[k] <= d})
    BY DEF Stats!AtMost, Stats!Cardinality, Cardinality
  <2> QED BY <2>1, WithinSorted
<1>6. PICK i \in 1..n : place[i] = r
  <2>1. place \in Bijection(1..n, 1..n)
    BY PlacesTaken
  <2> HIDE DEF place, n
  <2> QED BY <2>1 DEF Bijection, Surjection
<1> DEFINE least == {k \in 1..n : t[k] <= t[r]}
<1>7. q(p) = input[i]
  BY <1>2, <1>3, <1>6
<1> HIDE DEF t, place, q, n
<1>8. t[r] \in Nat
  BY <1>4
<1>9. 100 * Stats!AtMost(q(p)) >= p * n
  <2>1. (1..r) \in SUBSET least
    BY <1>1, <1>3, <1>4
  <2>2. IsFiniteSet(least) /\ Stats!AtMost(q(p)) = Cardinality(least)
    BY <1>2, <1>5, <1>8
  <2>3. Cardinality(1..r) = r
    BY <1>1, FS_Interval
  <2>4. r <= Cardinality(least) /\ Cardinality(least) \in Nat
    <3> HIDE DEF least
    <3> QED BY <2>1, <2>2, <2>3, FS_Subset, FS_CardinalityType
  <2> DEFINE m == p * n
             c == Stats!AtMost(q(p))
  <2>5. m \in Nat /\ r \in Nat /\ c \in Nat /\ r <= c /\ 100 * r >= m
    BY <1>1, <1>2, <2>2, <2>4
  <2> HIDE DEF m, c
  <2>6. 100 * c >= m
    BY <2>5
  <2> QED BY <2>6 DEF m, c
<1>10. ASSUME NEW k \in 1..n, input[k] < q(p)
       PROVE  100 * Stats!AtMost(input[k]) < p * n
  <2> DEFINE d == input[k]
             below == {j \in 1..n : t[j] <= d}
             m == p * n
             c == Stats!AtMost(d)
  <2>1. d \in Nat /\ d < t[r]
    BY <1>1, <1>2, <1>10
  <2>2. below \in SUBSET (1..(r - 1))
    <3> SUFFICES ASSUME NEW j \in 1..n, t[j] <= d, ~(j <= r - 1) PROVE FALSE
      BY <1>1
    <3>1. r <= j
      BY <1>1
    <3>2. t[r] <= t[j] /\ t[j] \in Nat
      BY <1>3, <1>4, <3>1
    <3> QED BY <1>8, <2>1, <3>2
  <2>3. IsFiniteSet(1..(r - 1)) /\ Cardinality(1..(r - 1)) = r - 1
    <3>1. r \in Int /\ r - 1 \in Int /\ r >= 1
      BY <1>1
    <3> QED BY <3>1, FS_Interval
  <2>4. Cardinality(below) <= r - 1 /\ IsFiniteSet(below)
    <3> HIDE DEF below
    <3> QED BY <2>2, <2>3, FS_Subset
  <2>5. c = Cardinality(below)
    BY <1>5, <2>1
  <2>6. c \in Nat /\ c <= r - 1 /\ m \in Nat /\ r \in Nat /\ 100 * (r - 1) < m
    <3> HIDE DEF below
    <3> QED BY <1>1, <1>2, <2>4, <2>5, FS_CardinalityType
  <2> HIDE DEF m, c
  <2>7. 100 * c < m
    BY <2>6
  <2> QED BY <2>7 DEF m, c
<1> QED BY <1>7, <1>9, <1>10

-----------------------------------------------------------------------------
(* The quotient by a number of what lies between multiples of it.          *)
LEMMA QuotientBetween ==
  ASSUME NEW low \in Nat, NEW high \in Nat, NEW n \in Nat \ {0}, NEW total \in Int,
         low * n <= total, total <= high * n
  PROVE  low <= total \div n /\ total \div n <= high
<1> DEFINE q == total \div n
<1>1. q \in Int /\ n * q <= total /\ total < n * q + n
  OBVIOUS
<1> HIDE DEF q
<1>2. low <= q
  <2>1. SUFFICES ASSUME q + 1 <= low PROVE FALSE
    BY <1>1
  <2>2. n * (q + 1) <= n * low
    BY <1>1, <2>1
  <2>3. n * (q + 1) = n * q + n /\ n * low = low * n
    BY <1>1
  <2> QED BY <1>1, <2>2, <2>3
<1>3. q <= high
  <2>1. SUFFICES ASSUME high + 1 <= q PROVE FALSE
    BY <1>1
  <2>2. n * (high + 1) <= n * q
    BY <1>1, <2>1
  <2>3. n * (high + 1) = high * n + n
    OBVIOUS
  <2> QED BY <1>1, <2>2, <2>3
<1> QED BY <1>2, <1>3 DEF q

(* The mean lies between the first and the last of the sorted samples.     *)
LEMMA MeanBetween ==
  ASSUME NEW t \in Seq(Nat), t # <<>>, NEW count,
         \A j, k \in 1..Len(t) : j <= k => t[j] <= t[k]
  PROVE  t[1] <= Stats!Mean(t, count) /\ Stats!Mean(t, count) <= t[Len(t)]
<1> DEFINE n == Len(t)
           total == SumFunctionOnSet(t, 1..n)
<1>1. n \in Nat \ {0} /\ t \in Seq(Int) /\ \A k \in 1..n : t[k] \in Nat
  OBVIOUS
<1>2. 1 \in 1..n /\ n \in 1..n
  BY <1>1
<1>3. \A k \in 1..n : t[1] <= t[k] /\ t[k] <= t[n]
  BY <1>2
<1>4. t[1] \in Nat /\ t[n] \in Nat
  BY <1>1, <1>2
<1>5. Stats!Mean(t, count) = total \div n
  <2>1. DOMAIN t = 1..n /\ IsFiniteSet(1..n) /\ 1..n \in SUBSET Int
    BY <1>1, FS_Interval
  <2>2. Stats!Mean(t, count) = LeftSum(t, DOMAIN t)[DOMAIN t] \div n
    BY DEF Stats!Mean, Stats!FoldLeft, Stats!MapThenFoldSet, Stats!Max, Max, LeftSum, IsLeftSum
  <2>3. \A x \in 1..n : t[x] \in Int
    BY <1>1
  <2>4. LeftSum(t, 1..n)[1..n] = total
    <3> HIDE DEF n
    <3> QED BY <2>1, <2>3, LeftIsSum
  <2> QED BY <2>1, <2>2, <2>4
<1>6. /\ total \in Int /\ t[1] * n <= total /\ total <= t[n] * n
  <2> DEFINE N == 1..n
             low == t[1]
             high == t[n]
  <2>1. IsFiniteSet(N) /\ Cardinality(N) = n
    BY <1>1, FS_Interval
  <2>2. low \in Int /\ high \in Int /\ \A x \in N : t[x] \in Int /\ low <= t[x] /\ t[x] <= high
    BY <1>1, <1>3, <1>4
  <2> HIDE DEF N, low, high, n
  <2>3. /\ SumFunctionOnSet(t, N) \in Int
        /\ low * Cardinality(N) <= SumFunctionOnSet(t, N)
        /\ SumFunctionOnSet(t, N) <= high * Cardinality(N)
    BY <2>1, <2>2, SumBetween
  <2> QED BY <2>1, <2>3 DEF N, low, high
<1> HIDE DEF total, n
<1>7. t[1] <= total \div n /\ total \div n <= t[n]
  BY <1>1, <1>4, <1>6, QuotientBetween
<1> QED BY <1>5, <1>7 DEF n

(* A line of the report is in order, however many samples the reservoir    *)
(* has dropped (summarize).                                                *)
LEMMA OrderAny ==
  ASSUME input \in Seq(Nat)
  PROVE  Stats!SummaryOrdered
<1> SUFFICES ASSUME NEW lost \in {0, 1, Len(input)}
             PROVE  LET s == Stats!Summarize(input, Len(input) + lost) IN
                    /\ s.min <= s.quantile[50] /\ s.quantile[99] <= s.max
                    /\ \A p, q \in Stats!Quantiles : p <= q => s.quantile[p] <= s.quantile[q]
                    /\ s.min <= s.mean /\ s.mean <= s.max
  BY DEF Stats!SummaryOrdered
<1> DEFINE n == Len(input)
           count == n + lost
           s == Stats!Summarize(input, count)
           t == Stats!Sorted(input)
<1>1. n \in Nat /\ 50 \in Stats!Quantiles /\ 99 \in Stats!Quantiles
  BY DEF Stats!Quantiles
<1>2. t \in Seq(Nat) /\ Len(t) = n /\ \A j, k \in 1..n : j <= k => t[j] <= t[k]
  BY SortedIs
<1>3. CASE input = <<>>
  <2>1. t = <<>>
    BY <1>2, <1>3
  <2>2. s.min = 0 /\ s.max = 0 /\ s.mean = 0 /\ \A p \in Stats!Quantiles : s.quantile[p] = 0
    <3> HIDE DEF count
    <3>1. \A p : Stats!Percentile(<<>>, p) = 0
      BY DEF Stats!Percentile
    <3> QED BY <1>3, <2>1, <3>1 DEF Stats!Summarize
  <2> HIDE DEF s
  <2>3. /\ s.min <= s.quantile[50] /\ s.quantile[99] <= s.max
        /\ \A p, q \in Stats!Quantiles : p <= q => s.quantile[p] <= s.quantile[q]
        /\ s.min <= s.mean /\ s.mean <= s.max
    BY <1>1, <2>2
  <2> QED BY <2>3 DEF s, n, count
<1>4. CASE input # <<>>
  <2> HIDE DEF count
  <2>1. s.min = t[1] /\ s.max = t[n] /\ s.mean = Stats!Mean(t, count)
    BY <1>2, <1>4 DEF Stats!Summarize
  <2>2. \A p \in Stats!Quantiles : LET r == Stats!Rank(p, n) IN
                                   r \in 1..n /\ s.quantile[p] = t[r]
    BY <1>4, QuantileIs
  <2>3. n \in Nat \ {0} /\ t # <<>> /\ 1 \in 1..n /\ n \in 1..n
    BY <1>2, <1>4
  <2>4. t[1] <= s.mean /\ s.mean <= t[n]
    BY <1>2, <2>1, <2>3, MeanBetween
  <2> HIDE DEF s, t, n
  <2>5. \A p \in Stats!Quantiles : t[1] <= s.quantile[p] /\ s.quantile[p] <= t[n]
    BY <1>2, <2>2, <2>3
  <2>6. ASSUME NEW p \in Stats!Quantiles, NEW q \in Stats!Quantiles, p <= q
        PROVE  s.quantile[p] <= s.quantile[q]
    <3>1. Stats!Rank(p, n) <= Stats!Rank(q, n)
      BY <2>3, <2>6, RankGrows
    <3> QED BY <1>2, <2>2, <3>1
  <2>7. /\ s.min <= s.quantile[50] /\ s.quantile[99] <= s.max
        /\ \A p, q \in Stats!Quantiles : p <= q => s.quantile[p] <= s.quantile[q]
        /\ s.min <= s.mean /\ s.mean <= s.max
    BY <1>1, <2>1, <2>4, <2>5, <2>6
  <2> QED BY <2>7 DEF s, n, count
<1> QED BY <1>3, <1>4

-----------------------------------------------------------------------------
(* Values of a set that is closed under taking items, with a height that    *)
(* falls from a value to its items.                                        *)
LeafKinds == {"plain", "template", "bad", "unknown", "nan"}
BoxKinds  == {"map", "list", "oddmap"}
Heights(S) == [S -> 0..MaxDepth]
Nested(S, h) ==
  \A v \in S : \/ v.kind \in LeafKinds /\ v.items = <<>>
               \/ /\ v.kind \in BoxKinds /\ v.items \in Seq(S)
                  /\ \A i \in 1..Len(v.items) : h[v.items[i]] < h[v]

(* Arguments of any width, nested as deep as MaxDepth.                     *)
IsArgs(v) == v.kind = "map" /\ \E S : v \in S /\ \E h \in Heights(S) : Nested(S, h)
IsCall(c) == IsArgs(c.args) /\ c.body \in Calls!Bodies

LEMMA NodesAre ==
  ASSUME NEW S, NEW h \in Heights(S), MaxDepth \in Nat, Nested(S, h), NEW v \in S
  PROVE  /\ v.kind \in LeafKinds \cup BoxKinds /\ Len(v.items) \in Nat /\ h[v] \in 0..MaxDepth
         /\ v.kind \in LeafKinds => v.items = <<>> /\ Len(v.items) = 0
         /\ \A i \in 1..Len(v.items) : v.items[i] \in S /\ h[v.items[i]] < h[v]
<1>1. h[v] \in 0..MaxDepth
  BY DEF Heights
<1>2. CASE v.kind \in LeafKinds /\ v.items = <<>>
  <2>1. Len(v.items) = 0
    BY <1>2
  <2> QED BY <1>1, <1>2, <2>1
<1>3. CASE /\ v.kind \in BoxKinds /\ v.items \in Seq(S)
           /\ \A i \in 1..Len(v.items) : h[v.items[i]] < h[v]
  <2>1. LeafKinds \cap BoxKinds = {}
    BY DEF LeafKinds, BoxKinds
  <2>2. Len(v.items) \in Nat /\ \A i \in 1..Len(v.items) : v.items[i] \in S
    BY <1>3
  <2> QED BY <1>1, <1>3, <2>1, <2>2
<1> QED BY <1>2, <1>3 DEF Nested

(* Of some of the values one has none of them among its items.             *)
LEMMA Lowest ==
  ASSUME NEW S, NEW h \in Heights(S), MaxDepth \in Nat, Nested(S, h),
         NEW Q \in SUBSET S, Q # {}
  PROVE  \E v \in Q : \A i \in 1..Len(v.items) : v.items[i] \notin Q
<1> DEFINE H == {h[v] : v \in Q}
<1>1. H \in SUBSET Nat /\ H # {}
  <2>1. \A v \in S : h[v] \in Nat
    BY DEF Heights
  <2> QED BY <2>1
<1>2. PICK k \in H : \A j \in H : k <= j
  <2> HIDE DEF H
  <2> QED BY <1>1, LeastNat
<1>3. PICK v \in Q : h[v] = k
  OBVIOUS
<1>4. ASSUME NEW i \in 1..Len(v.items), v.items[i] \in Q
      PROVE  FALSE
  <2>1. h[v.items[i]] < h[v] /\ h[v.items[i]] \in Nat /\ h[v] \in Nat
    BY <1>4, NodesAre DEF Heights
  <2>2. k <= h[v.items[i]]
    BY <1>2, <1>4
  <2> QED BY <1>3, <2>1, <2>2
<1> QED BY <1>4

-----------------------------------------------------------------------------
(* The levels of what is reached from v.                                   *)
Down(L, closed) == UNION {Calls!Children(w) : w \in {w \in L : w.kind \notin closed}}
IsLevel(f, v, closed) == f = [n \in 0..MaxDepth |-> IF n = 0 THEN {v} ELSE Down(f[n-1], closed)]
Level(v, closed) == CHOOSE f : IsLevel(f, v, closed)

LEMMA LevelsAre ==
  ASSUME MaxDepth \in Nat, NEW v, NEW closed
  PROVE  /\ Level(v, closed)[0] = {v}
         /\ \A n \in 1..MaxDepth : Level(v, closed)[n] = Down(Level(v, closed)[n-1], closed)
         /\ Calls!Reached(v, closed) = UNION {Level(v, closed)[n] : n \in 0..MaxDepth}
<1> DEFINE Until(m, f) == \A n \in 0..m : f[n] = IF n = 0 THEN {v} ELSE Down(f[n-1], closed)
           Bad == {m \in 0..MaxDepth : ~\E f : Until(m, f)}
           lv == Level(v, closed)
<1>1. Bad = {}
  <2> SUFFICES ASSUME Bad # {} PROVE FALSE
    OBVIOUS
  <2>1. PICK k \in Bad : \A j \in Bad : k <= j
    <3>1. Bad \in SUBSET Nat
      OBVIOUS
    <3> HIDE DEF Bad
    <3> QED BY <3>1, LeastNat
  <2>2. k \in 0..MaxDepth /\ ~\E f : Until(k, f)
    OBVIOUS
  <2>3. CASE k = 0
    <3> DEFINE g == [n \in {0} |-> {v}]
    <3>1. Until(0, g)
      OBVIOUS
    <3> QED BY <2>2, <2>3, <3>1
  <2>4. CASE k # 0
    <3>1. k - 1 \in 0..MaxDepth /\ k - 1 \notin Bad
      <4>1. k - 1 \in 0..MaxDepth /\ ~(k <= k - 1)
        BY <2>2, <2>4
      <4> HIDE DEF Bad
      <4> QED BY <2>1, <4>1
    <3>2. PICK f : Until(k - 1, f)
      BY <3>1
    <3> DEFINE g == [n \in 0..k |-> IF n = k THEN Down(f[k-1], closed) ELSE f[n]]
    <3>3. ASSUME NEW n \in 0..k
          PROVE  g[n] = IF n = 0 THEN {v} ELSE Down(g[n-1], closed)
      <4>1. CASE n = k
        <5>1. g[n] = Down(f[k-1], closed)
          BY <4>1
        <5>2. g[k-1] = f[k-1]
          BY <2>2, <2>4
        <5> HIDE DEF g
        <5> QED BY <2>4, <4>1, <5>1, <5>2
      <4>2. CASE n # k
        <5>1. n \in 0..(k-1)
          BY <2>2, <4>2
        <5>2. g[n] = f[n]
          BY <4>2
        <5>3. n # 0 => g[n-1] = f[n-1]
          BY <2>2, <5>1
        <5> HIDE DEF g
        <5> QED BY <3>2, <5>1, <5>2, <5>3
      <4> QED BY <4>1, <4>2
    <3>4. Until(k, g)
      <4> HIDE DEF g
      <4> QED BY <3>3
    <3> QED BY <2>2, <3>4
  <2> QED BY <2>3, <2>4
<1>2. PICK f : Until(MaxDepth, f)
  <2>1. MaxDepth \in 0..MaxDepth
    OBVIOUS
  <2> HIDE DEF Until
  <2> QED BY <1>1, <2>1
<1> DEFINE g == [n \in 0..MaxDepth |-> f[n]]
<1>3. IsLevel(g, v, closed)
  <2>1. ASSUME NEW n \in 0..MaxDepth
        PROVE  g[n] = IF n = 0 THEN {v} ELSE Down(g[n-1], closed)
    <3>1. n # 0 => n - 1 \in 0..MaxDepth
      OBVIOUS
    <3>2. g[n] = f[n] /\ (n # 0 => g[n-1] = f[n-1])
      BY <3>1
    <3> HIDE DEF g
    <3> QED BY <1>2, <3>2
  <2>2. g = [n \in 0..MaxDepth |-> g[n]]
    OBVIOUS
  <2> HIDE DEF g
  <2> QED BY <2>1, <2>2 DEF IsLevel
<1>4. IsLevel(lv, v, closed)
  <2> HIDE DEF g
  <2> QED BY <1>3 DEF Level
<1>5. \A n \in 0..MaxDepth : lv[n] = IF n = 0 THEN {v} ELSE Down(lv[n-1], closed)
  <2> HIDE DEF lv
  <2>1. lv = [n \in 0..MaxDepth |-> IF n = 0 THEN {v} ELSE Down(lv[n-1], closed)]
    BY <1>4 DEF IsLevel
  <2> QED BY <2>1
<1>6. Calls!Reached(v, closed) = UNION {lv[n] : n \in 0..MaxDepth}
  BY DEF Calls!Reached, Level, IsLevel, Down
<1> HIDE DEF lv
<1>7. lv[0] = {v} /\ \A n \in 1..MaxDepth : lv[n] = Down(lv[n-1], closed)
  BY <1>5
<1> QED BY <1>6, <1>7 DEF lv

(* What a set has with v and with all that is a level down, it has with    *)
(* all that is reached.                                                    *)
LEMMA ReachedLeast ==
  ASSUME MaxDepth \in Nat, NEW v, NEW closed, NEW Q, v \in Q,
         \A w \in Q : w.kind \notin closed => Calls!Children(w) \subseteq Q
  PROVE  Calls!Reached(v, closed) \subseteq Q
<1> DEFINE lv == Level(v, closed)
           Bad == {n \in 0..MaxDepth : ~(lv[n] \subseteq Q)}
<1>1. /\ lv[0] = {v} /\ \A n \in 1..MaxDepth : lv[n] = Down(lv[n-1], closed)
      /\ Calls!Reached(v, closed) = UNION {lv[n] : n \in 0..MaxDepth}
  BY LevelsAre
<1> HIDE DEF lv
<1>2. SUFFICES ASSUME Bad # {} PROVE FALSE
  BY <1>1
<1>3. PICK k \in Bad : \A j \in Bad : k <= j
  <2>1. Bad \in SUBSET Nat
    OBVIOUS
  <2> HIDE DEF Bad
  <2> QED BY <1>2, <2>1, LeastNat
<1>4. k \in 0..MaxDepth /\ ~(lv[k] \subseteq Q)
  OBVIOUS
<1>5. k # 0
  BY <1>1, <1>4
<1>6. k - 1 \in 0..MaxDepth /\ k - 1 \notin Bad
  <2>1. k - 1 \in 0..MaxDepth /\ ~(k <= k - 1)
    BY <1>4, <1>5
  <2> HIDE DEF Bad
  <2> QED BY <1>3, <2>1
<1>7. lv[k-1] \subseteq Q
  BY <1>6
<1>8. lv[k] = Down(lv[k-1], closed)
  BY <1>1, <1>4, <1>5
<1> QED BY <1>4, <1>7, <1>8 DEF Down

(* What is reached is in the set and is closed itself.                     *)
LEMMA ReachedClosed ==
  ASSUME NEW S, NEW h \in Heights(S), MaxDepth \in Nat, Nested(S, h), NEW v \in S, NEW closed
  PROVE  /\ v \in Calls!Reached(v, closed) /\ Calls!Reached(v, closed) \subseteq S
         /\ \A w \in Calls!Reached(v, closed) : w.kind \notin closed =>
              \A i \in 1..Len(w.items) : w.items[i] \in Calls!Reached(v, closed)
<1> DEFINE lv == Level(v, closed)
           R == Calls!Reached(v, closed)
           Bad == {n \in 0..MaxDepth : \E w \in lv[n] : ~(h[w] <= MaxDepth - n)}
<1>1. /\ lv[0] = {v} /\ \A n \in 1..MaxDepth : lv[n] = Down(lv[n-1], closed)
      /\ R = UNION {lv[n] : n \in 0..MaxDepth}
  BY LevelsAre
<1>2. R \subseteq S
  <2>1. \A w \in S : Calls!Children(w) \subseteq S
    BY NodesAre DEF Calls!Children
  <2> QED BY <2>1, ReachedLeast
<1> HIDE DEF lv, R
<1>3. v \in R
  BY <1>1
<1>4. \A n \in 0..MaxDepth : \A w \in lv[n] : w \in S /\ h[w] \in 0..MaxDepth
  BY <1>1, <1>2, NodesAre
<1>5. Bad = {}
  <2> SUFFICES ASSUME Bad # {} PROVE FALSE
    OBVIOUS
  <2>1. PICK k \in Bad : \A j \in Bad : k <= j
    <3>1. Bad \in SUBSET Nat
      OBVIOUS
    <3> HIDE DEF Bad
    <3> QED BY <3>1, LeastNat
  <2>2. k \in 0..MaxDepth /\ \E w \in lv[k] : ~(h[w] <= MaxDepth - k)
    OBVIOUS
  <2>3. PICK w \in lv[k] : ~(h[w] <= MaxDepth - k)
    BY <2>2
  <2>4. k # 0
    BY <1>1, <1>4, <2>2, <2>3
  <2>5. k - 1 \in 0..MaxDepth /\ k - 1 \notin Bad
    <3>1. k - 1 \in 0..MaxDepth /\ ~(k <= k - 1)
      BY <2>2, <2>4
    <3> HIDE DEF Bad
    <3> QED BY <2>1, <3>1
  <2>6. PICK c \in lv[k-1] : w \in Calls!Children(c)
    BY <1>1, <2>2, <2>4 DEF Down
  <2>7. PICK i \in 1..Len(c.items) : w = c.items[i]
    BY <2>6 DEF Calls!Children
  <2>8. h[c] <= MaxDepth - (k - 1)
    BY <2>5
  <2>9. h[w] < h[c] /\ h[w] \in Nat /\ h[c] \in Nat
    <3>1. c \in S
      BY <1>4, <2>5
    <3> QED BY <1>4, <2>2, <2>5, <2>7, <3>1, NodesAre
  <2> QED BY <2>2, <2>3, <2>8, <2>9
<1>6. ASSUME NEW w \in R, w.kind \notin closed, NEW i \in 1..Len(w.items)
      PROVE  w.items[i] \in R
  <2>1. PICK n \in 0..MaxDepth : w \in lv[n]
    BY <1>1
  <2>2. h[w] <= MaxDepth - n
    BY <1>5, <2>1
  <2>3. h[w.items[i]] < h[w] /\ h[w.items[i]] \in Nat /\ h[w] \in Nat
    <3>1. w \in S
      BY <1>2
    <3>2. w.items[i] \in S
      BY <3>1, NodesAre
    <3>3. h[w] \in 0..MaxDepth /\ h[w.items[i]] \in 0..MaxDepth /\ h[w.items[i]] < h[w]
      BY <3>1, <3>2, NodesAre
    <3> QED BY <3>3
  <2>4. n + 1 \in 1..MaxDepth /\ (n + 1) - 1 = n
    BY <2>2, <2>3
  <2>5. lv[n + 1] = Down(lv[n], closed)
    BY <1>1, <2>4
  <2>6. w.items[i] \in lv[n + 1]
    BY <1>6, <2>1, <2>5 DEF Down, Calls!Children
  <2>7. n + 1 \in 0..MaxDepth
    BY <2>4
  <2> QED BY <1>1, <2>6, <2>7
<1> QED BY <1>2, <1>3, <1>6 DEF R

-----------------------------------------------------------------------------
(* A function that renders the values of W, each from its items.           *)
Rendered(f, w) == Calls!Rendering(w, [i \in 1..Len(w.items) |-> f[w.items[i]]])
Renders(f, W) == \A w \in W : f[w] = Rendered(f, w)

(* The recursion of renderValue ends, with what is expected of it.         *)
LEMMA RenderEnds ==
  ASSUME NEW S, NEW h \in Heights(S), MaxDepth \in Nat, Nested(S, h), NEW a \in S
  PROVE  \E f : Renders(f, Calls!Within(a)) /\ Calls!RenderValue(a) = f[a]
<1> DEFINE W == Calls!Within(a)
           Is(f) == f = [w \in W |-> Rendered(f, w)]
           Below(m, f) == \A w \in W : h[w] < m => f[w] = Rendered(f, w)
           Bad == {m \in 0..(MaxDepth + 1) : ~\E f : Below(m, f)}
           r == CHOOSE f : Is(f)
<1>1. a \in W /\ W \subseteq S /\ \A w \in W : \A i \in 1..Len(w.items) : w.items[i] \in W
  BY ReachedClosed DEF Calls!Within
<1>2. \A w \in W : h[w] \in 0..MaxDepth /\ \A i \in 1..Len(w.items) : h[w.items[i]] < h[w] /\ h[w.items[i]] \in 0..MaxDepth
  BY <1>1, NodesAre
<1> HIDE DEF W
<1>3. Bad = {}
  <2> SUFFICES ASSUME Bad # {} PROVE FALSE
    OBVIOUS
  <2>1. PICK k \in Bad : \A j \in Bad : k <= j
    <3>1. Bad \in SUBSET Nat
      OBVIOUS
    <3> HIDE DEF Bad
    <3> QED BY <3>1, LeastNat
  <2>2. k \in 0..(MaxDepth + 1) /\ ~\E f : Below(k, f)
    OBVIOUS
  <2>3. k # 0
    <3>1. \A f : Below(0, f)
      BY <1>2
    <3> QED BY <2>2, <3>1
  <2>4. k - 1 \in 0..(MaxDepth + 1) /\ k - 1 \notin Bad
    <3>1. k - 1 \in 0..(MaxDepth + 1) /\ ~(k <= k - 1)
      BY <2>2, <2>3
    <3> HIDE DEF Bad
    <3> QED BY <2>1, <3>1
  <2>5. PICK f : Below(k - 1, f)
    BY <2>4
  <2> DEFINE g == [w \in W |-> Rendered(f, w)]
  <2>6. ASSUME NEW w \in W, h[w] < k
        PROVE  g[w] = Rendered(g, w)
    <3>1. g[w] = Rendered(f, w)
      OBVIOUS
    <3>2. ASSUME NEW i \in 1..Len(w.items)
          PROVE  g[w.items[i]] = f[w.items[i]]
      <4>1. w.items[i] \in W /\ h[w.items[i]] < k - 1
        BY <1>1, <1>2, <2>2, <2>6
      <4>2. f[w.items[i]] = Rendered(f, w.items[i])
        BY <2>5, <4>1
      <4> QED BY <4>1, <4>2
    <3> HIDE DEF g
    <3>3. [i \in 1..Len(w.items) |-> g[w.items[i]]] = [i \in 1..Len(w.items) |-> f[w.items[i]]]
      BY <3>2
    <3> QED BY <3>1, <3>3 DEF Rendered
  <2>7. Below(k, g)
    <3> HIDE DEF g
    <3> QED BY <2>6
  <2> QED BY <2>2, <2>7
<1>4. PICK f : Below(MaxDepth + 1, f)
  BY <1>3
<1>5. Renders(f, W)
  BY <1>2, <1>4 DEF Renders
<1> DEFINE g == [w \in W |-> f[w]]
<1>6. Is(g)
  <2>1. ASSUME NEW w \in W
        PROVE  g[w] = Rendered(g, w)
    <3>1. g[w] = Rendered(f, w)
      BY <1>5 DEF Renders
    <3>2. \A i \in 1..Len(w.items) : g[w.items[i]] = f[w.items[i]]
      BY <1>1
    <3> HIDE DEF g
    <3>3. [i \in 1..Len(w.items) |-> g[w.items[i]]] = [i \in 1..Len(w.items) |-> f[w.items[i]]]
      BY <3>2
    <3> QED BY <3>1, <3>3 DEF Rendered
  <2>2. g = [w \in W |-> g[w]]
    OBVIOUS
  <2> HIDE DEF g
  <2> QED BY <2>1, <2>2
<1>7. Is(r)
  <2> HIDE DEF Is, g
  <2> QED BY <1>6
<1>8. Calls!RenderValue(a) = r[a]
  BY DEF Calls!RenderValue, Rendered, W
<1> HIDE DEF r
<1>9. Renders(r, W)
  <2>1. r = [w \in W |-> Rendered(r, w)]
    BY <1>7
  <2> QED BY <2>1 DEF Renders
<1> QED BY <1>8, <1>9 DEF W

-----------------------------------------------------------------------------
(* What the chain of an error of RenderArgs is made of.                    *)
Faults == Seq({"plain", "timeoutText", "TemplateError"})

Faulty(v) == v.kind \in {"bad", "unknown"}
Odd(v)    == v.kind \in {"nan", "oddmap"}

Became(results, n) == [i \in 1..n |-> results[i].value]

LEMMA CollectIs ==
  ASSUME NEW kind, NEW n, NEW results, Len(results) = n
  PROVE  /\ (\E i \in 1..n : results[i].err # <<>>) =>
              \E i \in 1..n : results[i].err # <<>> /\ Calls!Collect(kind, results) = Calls!Failed(results[i].err)
         /\ ~(\E i \in 1..n : results[i].err # <<>>) =>
              Calls!Collect(kind, results) = Calls!Done(Calls!Value(kind, Became(results, n)))
<1> DEFINE failed == {i \in 1..n : results[i].err # <<>>}
<1>1. Calls!Collect(kind, results) =
        IF failed # {} THEN Calls!Failed(results[CHOOSE i \in failed : TRUE].err)
        ELSE Calls!Done(Calls!Value(kind, [i \in 1..n |-> results[i].value]))
  BY DEF Calls!Collect
<1>2. failed # {} => (CHOOSE i \in failed : TRUE) \in failed
  OBVIOUS
<1> QED BY <1>1, <1>2 DEF Became

LEMMA WrapIs ==
  ASSUME NEW e \in Faults, e # <<>>
  PROVE  /\ <<"TemplateError">> \o e \in Faults /\ <<"TemplateError">> \o e # <<>>
         /\ Calls!Wrapped(Calls!Failed(e)) = Calls!Failed(<<"TemplateError">> \o e)
<1> DEFINE E == {"plain", "timeoutText", "TemplateError"}
           one == <<"TemplateError">>
<1>1. e \in Seq(E) /\ one \in Seq(E) /\ Len(one) = 1
  BY DEF Faults
<1> HIDE DEF E, one
<1>2. one \o e \in Seq(E) /\ Len(one \o e) = Len(one) + Len(e)
  BY <1>1, ConcatProperties
<1>3. one \o e # <<>>
  BY <1>1, <1>2
<1>4. Calls!Failed(e).err = e
  BY DEF Calls!Failed
<1>5. Calls!Wrapped(Calls!Failed(e)) = Calls!Failed(<<"TemplateError">> \o e)
  BY <1>4 DEF Calls!Wrapped
<1> QED BY <1>2, <1>3, <1>5 DEF Faults, E, one

LEMMA Decides ==
  ASSUME NEW chain, NEW i \in 1..7, i \in Calls!Hits(chain),
         \A j \in 1..7 : j < i => j \notin Calls!Hits(chain)
  PROVE  Calls!Classify(chain) = Calls!Rules[i].category
<1>1. Calls!Hits(chain) \subseteq 1..7 /\ chain # <<>>
  <2>1. Calls!Hits(chain) \subseteq 1..7
    BY DEF Calls!Hits, Calls!Rules
  <2>2. \E k \in 1..Len(chain) : chain[k] \in Calls!Rules[i].links
    BY DEF Calls!Hits, Calls!Has
  <2> QED BY <2>1, <2>2
<1>2. Calls!Hits(chain) \in SUBSET Nat
  BY <1>1
<1>3. Min(Calls!Hits(chain)) \in Calls!Hits(chain) /\ \A j \in Calls!Hits(chain) : Min(Calls!Hits(chain)) <= j
  BY <1>2, LeastNat
<1>4. Min(Calls!Hits(chain)) = i
  BY <1>1, <1>3
<1>5. Calls!Min(Calls!Hits(chain)) = Min(Calls!Hits(chain))
  BY DEF Calls!Min, Min
<1> QED BY <1>1, <1>4, <1>5 DEF Calls!Classify

LEMMA CausesCounted ==
  /\ \A e \in Faults : Calls!Classify(<<"TemplateError">> \o e) = "template" /\ <<"TemplateError">> \o e # <<>>
  /\ Calls!Classify(<<"TransportError", "plain">>) = "transport"
  /\ \A code \in Calls!Codes : Calls!Classify(<<code>>) = "jsonrpc"
  /\ Calls!Classify(<<>>) = "ok"
<1>1. /\ Calls!Rules[1].links = {"TimeoutError"} /\ Calls!Rules[2].links = {"deadline"}
      /\ Calls!Rules[3].links = Calls!Codes /\ Calls!Rules[3].category = "jsonrpc"
      /\ Calls!Rules[4].links = {"TransportError", "EOF"} /\ Calls!Rules[4].category = "transport"
      /\ Calls!Rules[5].links = {"TemplateError"} /\ Calls!Rules[5].category = "template"
      /\ Len(Calls!Rules) = 7
  BY DEF Calls!Rules
<1>2. Calls!Codes = {"rpc1", "rpc2"}
  BY DEF Calls!Codes
<1>3. ASSUME NEW chain, NEW i \in 1..7
      PROVE  i \in Calls!Hits(chain) <=> \E k \in 1..Len(chain) : chain[k] \in Calls!Rules[i].links
  BY <1>1 DEF Calls!Hits, Calls!Has
<1>4. ASSUME NEW e \in Faults
      PROVE  Calls!Classify(<<"TemplateError">> \o e) = "template" /\ <<"TemplateError">> \o e # <<>>
  <2> DEFINE E == {"plain", "timeoutText", "TemplateError"}
             one == <<"TemplateError">>
             chain == one \o e
  <2>1. e \in Seq(E) /\ one \in Seq(E) /\ Len(one) = 1 /\ one[1] = "TemplateError"
    BY DEF Faults
  <2> HIDE DEF E, one
  <2>2. /\ chain \in Seq(E) /\ Len(chain) = Len(one) + Len(e)
        /\ \A i \in 1..(Len(one) + Len(e)) : chain[i] = IF i <= Len(one) THEN one[i] ELSE e[i - Len(one)]
    BY <2>1, ConcatProperties
  <2>3. Len(e) \in Nat
    BY <2>1
  <2> HIDE DEF chain
  <2>4. 1 \in 1..Len(chain) /\ chain[1] = "TemplateError" /\ \A k \in 1..Len(chain) : chain[k] \in E
    BY <2>1, <2>2, <2>3
  <2>5. 5 \in Calls!Hits(chain)
    <3>1. chain[1] \in Calls!Rules[5].links /\ 5 \in 1..7
      BY <1>1, <2>4
    <3> QED BY <1>3, <2>4, <3>1
  <2>6. \A j \in 1..4 : Calls!Rules[j].links \cap E = {}
    BY <1>1, <1>2 DEF E
  <2>7. \A j \in 1..7 : j < 5 => j \notin Calls!Hits(chain)
    BY <1>3, <2>4, <2>6
  <2>8. Calls!Classify(chain) = Calls!Rules[5].category
    BY <2>5, <2>7, Decides
  <2>9. chain # <<>>
    BY <2>4
  <2> QED BY <1>1, <2>8, <2>9 DEF chain, one
<1>5. Calls!Classify(<<"TransportError", "plain">>) = "transport"
  <2> DEFINE chain == <<"TransportError", "plain">>
  <2>1. /\ 1 \in 1..Len(chain) /\ chain[1] = "TransportError"
        /\ \A k \in 1..Len(chain) : chain[k] \in {"TransportError", "plain"}
    OBVIOUS
  <2> HIDE DEF chain
  <2>2. \A j \in 1..7 : j < 4 => j \notin Calls!Hits(chain)
    <3>1. \A j \in 1..3 : Calls!Rules[j].links \cap {"TransportError", "plain"} = {}
      BY <1>1, <1>2
    <3> QED BY <1>3, <2>1, <3>1
  <2>3. 4 \in Calls!Hits(chain)
    <3>1. chain[1] \in Calls!Rules[4].links /\ 4 \in 1..7
      BY <1>1, <2>1
    <3> QED BY <1>3, <2>1, <3>1
  <2>4. Calls!Classify(chain) = Calls!Rules[4].category
    BY <2>2, <2>3, Decides
  <2> QED BY <1>1, <2>4 DEF chain
<1>6. ASSUME NEW code \in Calls!Codes
      PROVE  Calls!Classify(<<code>>) = "jsonrpc"
  <2> DEFINE chain == <<code>>
  <2>1. Len(chain) = 1 /\ chain[1] = code
    OBVIOUS
  <2> HIDE DEF chain
  <2>2. \A j \in 1..2 : j \notin Calls!Hits(chain)
    BY <1>1, <1>2, <1>3, <2>1
  <2>3. 3 \in Calls!Hits(chain)
    BY <1>1, <1>3, <2>1
  <2>4. Calls!Classify(chain) = Calls!Rules[3].category
    BY <2>2, <2>3, Decides
  <2> QED BY <1>1, <2>4 DEF chain
<1>7. Calls!Classify(<<>>) = "ok"
  BY DEF Calls!Classify
<1> QED BY <1>4, <1>5, <1>6, <1>7

-----------------------------------------------------------------------------
(* What a value becomes, by its kind.                                      *)
LEMMA NodeIs ==
  ASSUME NEW v, v.kind \in LeafKinds \cup BoxKinds, NEW n \in Nat, Len(v.items) = n, NEW f,
         \A i \in 1..n : f[v.items[i]].err \in Faults
  PROVE  LET r == Rendered(f, v)
             fails == \E i \in 1..n : f[v.items[i]].err # <<>>
         IN /\ r.err \in Faults
            /\ Faulty(v) => r.err # <<>>
            /\ v.kind \in {"map", "list"} => (r.err # <<>> <=> fails)
            /\ ~Faulty(v) /\ v.kind \notin {"map", "list"} => r.err = <<>>
            /\ v.kind = "map" /\ r.err # <<>> => \E e \in Faults : r.err = <<"TemplateError">> \o e
            /\ v.kind \in {"map", "list"} /\ r.err = <<>> =>
                 /\ r.value.kind = v.kind /\ Len(r.value.items) = n
                 /\ \A i \in 1..n : r.value.items[i] = f[v.items[i]].value
            /\ v.kind \in {"plain", "nan", "oddmap"} => r.value = v
            /\ v.kind = "template" => r.value.kind = "plain" /\ r.value.items = <<>>
<1> DEFINE results == [i \in 1..n |-> f[v.items[i]]]
           r == Rendered(f, v)
           values == Became(results, n)
           fails == \E i \in 1..n : f[v.items[i]].err # <<>>
           C(k) == Calls!Collect(k, results)
<1>1. r = Calls!Rendering(v, results)
  BY DEF Rendered
<1>2. Len(results) = n /\ \A i \in 1..n : results[i] = f[v.items[i]]
  OBVIOUS
<1> HIDE DEF results, r
<1>3. Len(values) = n /\ \A i \in 1..n : values[i] = f[v.items[i]].value
  BY <1>2 DEF Became
<1>4. <<>> \in Faults /\ <<"plain">> \in Faults /\ <<"timeoutText">> \in Faults
      /\ <<"plain">> # <<>> /\ <<"timeoutText">> # <<>>
  BY DEF Faults
<1>5. v.kind \in {"plain", "template", "bad", "unknown", "nan", "map", "list", "oddmap"}
  BY DEF LeafKinds, BoxKinds
<1>6. CASE v.kind \in {"plain", "nan", "oddmap"}
  <2>1. r = [value |-> v, err |-> <<>>]
    BY <1>1, <1>6 DEF Calls!Rendering, Calls!Done
  <2>2. r.value = v /\ r.err = <<>>
    BY <2>1
  <2> QED BY <1>4, <1>6, <2>2 DEF Faulty, r
<1>7. CASE v.kind = "template"
  <2>1. r = [value |-> [kind |-> "plain", items |-> <<>>], err |-> <<>>]
    BY <1>1, <1>7 DEF Calls!Rendering, Calls!Done, Calls!Value
  <2>2. r.err = <<>> /\ r.value.kind = "plain" /\ r.value.items = <<>>
    BY <2>1
  <2> QED BY <1>4, <1>7, <2>2 DEF Faulty, r
<1>8. CASE v.kind \in {"bad", "unknown"}
  <2>1. r.err = <<"plain">> \/ r.err = <<"timeoutText">>
    BY <1>1, <1>8 DEF Calls!Rendering, Calls!Failed
  <2> QED BY <1>4, <1>8, <2>1 DEF Faulty, r
<1>9. CASE v.kind \in {"map", "list"}
  <2>1. \A k : fails => \E i \in 1..n : /\ f[v.items[i]].err # <<>>
                                        /\ C(k) = Calls!Failed(f[v.items[i]].err)
    <3> TAKE k
    <3>1. ASSUME fails
          PROVE  \E i \in 1..n : /\ results[i].err # <<>>
                                 /\ C(k) = Calls!Failed(results[i].err)
      <4>1. \E i \in 1..n : results[i].err # <<>>
        BY <1>2, <3>1
      <4>2. (\E i \in 1..n : results[i].err # <<>>) =>
              \E i \in 1..n : results[i].err # <<>> /\ Calls!Collect(k, results) = Calls!Failed(results[i].err)
        <5>1. Len(results) = n
          BY <1>2
        <5> QED BY <5>1, CollectIs, Zenon
      <4> QED BY <4>1, <4>2
    <3> QED BY <1>2, <3>1
  <2>2. \A k : ~fails => C(k) = Calls!Done(Calls!Value(k, values))
    <3> TAKE k
    <3>1. ASSUME ~fails
          PROVE  ~\E i \in 1..n : results[i].err # <<>>
      BY <1>2, <3>1
    <3>2. ~fails => C(k) = Calls!Done(Calls!Value(k, Became(results, n)))
      BY <1>2, <3>1, CollectIs
    <3> QED BY <3>2
  <2> HIDE DEF C, values
  <2>3. \A k : ~fails => C(k) = [value |-> [kind |-> k, items |-> values], err |-> <<>>]
    BY <2>2 DEF Calls!Done, Calls!Value
  <2>4. (v.kind = "list" => r = C("list")) /\ (v.kind = "map" => r = Calls!Wrapped(C("map")))
    BY <1>1 DEF Calls!Rendering, C
  <2>5. CASE fails
    <3>1. PICK i \in 1..n : f[v.items[i]].err # <<>> /\ C(v.kind) = Calls!Failed(f[v.items[i]].err)
      BY <2>1, <2>5
    <3> DEFINE e == f[v.items[i]].err
    <3>2. e \in Faults /\ e # <<>> /\ C(v.kind) = Calls!Failed(e)
      BY <3>1
    <3> HIDE DEF e
    <3>3. v.kind = "list" => r.err = e
      BY <2>4, <3>2 DEF Calls!Failed
    <3>4. v.kind = "map" => r.err = <<"TemplateError">> \o e
      <4>1. v.kind = "map" => r = Calls!Failed(<<"TemplateError">> \o e)
        BY <2>4, <3>2, WrapIs
      <4> QED BY <4>1 DEF Calls!Failed
    <3>5. <<"TemplateError">> \o e \in Faults /\ <<"TemplateError">> \o e # <<>>
      BY <3>2, WrapIs
    <3>6. r.err \in Faults /\ r.err # <<>> /\ (v.kind = "map" => \E g \in Faults : r.err = <<"TemplateError">> \o g)
      BY <1>9, <3>2, <3>3, <3>4, <3>5
    <3> QED BY <1>9, <2>5, <3>6 DEF Faulty, r
  <2>6. CASE ~fails
    <3>1. r = [value |-> [kind |-> v.kind, items |-> values], err |-> <<>>]
      <4>1. C(v.kind) = [value |-> [kind |-> v.kind, items |-> values], err |-> <<>>]
        BY <2>3, <2>6
      <4>2. v.kind = "map" => Calls!Wrapped(C("map")) = C("map")
        BY <4>1 DEF Calls!Wrapped
      <4> QED BY <1>9, <2>4, <4>1, <4>2
    <3>2. r.err = <<>> /\ r.value.kind = v.kind /\ r.value.items = values
      BY <3>1
    <3>3. /\ Len(r.value.items) = n
          /\ \A i \in 1..n : r.value.items[i] = f[v.items[i]].value
      BY <1>3, <3>2 DEF values
    <3> QED BY <1>4, <1>9, <2>6, <3>2, <3>3 DEF Faulty, r
  <2> QED BY <2>5, <2>6
<1> QED BY <1>5, <1>6, <1>7, <1>8, <1>9

(* What renderValue meets of the arguments, and what it makes of them.     *)
Met(a) == Calls!Reached(a, {"oddmap"})

LEMMA ArgsRendered ==
  ASSUME MaxDepth \in Nat, NEW a, IsArgs(a)
  PROVE  LET r == Calls!RenderArgs(a) IN
         IF \E v \in Met(a) : Faulty(v)
         THEN \E e \in Faults : r.err = <<"TemplateError">> \o e
         ELSE /\ r.err = <<>>
              /\ Calls!Encodes(r.value) <=> ~\E v \in Met(a) : Odd(v)
              /\ Calls!Encodes(r.value) => \A v \in Calls!Within(r.value) : v.kind # "template"
<1>1. a.kind = "map"
  BY DEF IsArgs
<1>2. PICK S : a \in S /\ \E g \in Heights(S) : Nested(S, g)
  BY DEF IsArgs
<1>3. PICK h \in Heights(S) : Nested(S, h)
  BY <1>2
<1>4. PICK f : Renders(f, Calls!Within(a)) /\ Calls!RenderValue(a) = f[a]
  BY <1>2, <1>3, RenderEnds
<1> DEFINE W == Calls!Within(a)
           M == Met(a)
           r == f[a]
           x == r.value
<1>5. Calls!RenderArgs(a) = r
  BY <1>4 DEF Calls!RenderArgs
<1>6. a \in W /\ W \subseteq S /\ \A w \in W : \A i \in 1..Len(w.items) : w.items[i] \in W
  BY <1>2, <1>3, ReachedClosed DEF Calls!Within
<1>7. a \in M /\ M \subseteq S /\ \A w \in M : w.kind # "oddmap" => \A i \in 1..Len(w.items) : w.items[i] \in M
  BY <1>2, <1>3, ReachedClosed DEF Met
<1>8. M \subseteq W
  BY <1>6, ReachedLeast DEF Met, Calls!Children
<1>9. \A w \in W : f[w] = Rendered(f, w)
  BY <1>4 DEF Renders
<1> HIDE DEF W, M, r
<1>10. \A w \in W : /\ w.kind \in LeafKinds \cup BoxKinds /\ Len(w.items) \in Nat
                    /\ w.kind \in LeafKinds => Len(w.items) = 0
  BY <1>3, <1>6, NodesAre
<1>11. \A w \in W : f[w].err \in Faults
  <2> DEFINE Q == {w \in W : f[w].err \notin Faults}
  <2> SUFFICES ASSUME Q # {} PROVE FALSE
    OBVIOUS
  <2>1. PICK w \in Q : \A i \in 1..Len(w.items) : w.items[i] \notin Q
    <3>1. Q \in SUBSET S
      BY <1>6
    <3> HIDE DEF Q
    <3> QED BY <1>3, <3>1, Lowest
  <2>2. \A i \in 1..Len(w.items) : f[w.items[i]].err \in Faults
    BY <1>6, <2>1
  <2>3. Rendered(f, w).err \in Faults
    BY <1>10, <2>2, NodeIs
  <2> QED BY <1>9, <2>3
<1>12. ASSUME NEW w \in W
       PROVE  LET n == Len(w.items)
                  fails == \E i \in 1..n : f[w.items[i]].err # <<>>
              IN /\ Faulty(w) => f[w].err # <<>>
                 /\ w.kind \in {"map", "list"} => (f[w].err # <<>> <=> fails)
                 /\ ~Faulty(w) /\ w.kind \notin {"map", "list"} => f[w].err = <<>>
                 /\ w.kind = "map" /\ f[w].err # <<>> => \E e \in Faults : f[w].err = <<"TemplateError">> \o e
                 /\ w.kind \in {"map", "list"} /\ f[w].err = <<>> =>
                      /\ f[w].value.kind = w.kind /\ Len(f[w].value.items) = n
                      /\ \A i \in 1..n : f[w].value.items[i] = f[w.items[i]].value
                 /\ w.kind \in {"plain", "nan", "oddmap"} => f[w].value = w
                 /\ w.kind = "template" => f[w].value.kind = "plain" /\ f[w].value.items = <<>>
  <2>1. \A i \in 1..Len(w.items) : f[w.items[i]].err \in Faults
    BY <1>6, <1>11
  <2>2. f[w] = Rendered(f, w) /\ w.kind \in LeafKinds \cup BoxKinds /\ Len(w.items) \in Nat
    BY <1>9, <1>10
  <2> QED BY <2>1, <2>2, NodeIs
<1>13. CASE \E v \in M : Faulty(v)
  <2>1. r.err # <<>>
    <3> SUFFICES ASSUME r.err = <<>> PROVE FALSE
      OBVIOUS
    <3> DEFINE Q == {w \in W : f[w].err = <<>>}
    <3>1. a \in Q
      BY <1>6 DEF r
    <3>2. ASSUME NEW w \in Q, w.kind # "oddmap", NEW i \in 1..Len(w.items)
          PROVE  w.items[i] \in Q
      <4>1. w.items[i] \in W /\ w \in W
        BY <1>6
      <4>2. w.kind \in {"map", "list"}
        <5>1. w.kind \notin LeafKinds
          BY <1>10
        <5> QED BY <1>10, <3>2, <5>1 DEF BoxKinds
      <4>3. f[w.items[i]].err = <<>>
        BY <1>12, <3>2, <4>2
      <4> QED BY <4>1, <4>3
    <3> HIDE DEF Q
    <3>3. M \subseteq Q
      BY <3>1, <3>2, ReachedLeast DEF M, Met, Calls!Children
    <3> QED BY <1>12, <1>13, <3>3 DEF Q
  <2> QED BY <1>1, <1>5, <1>6, <1>12, <1>13, <2>1 DEF r, M
<1>14. CASE ~\E v \in M : Faulty(v)
  <2>1. \A w \in M : f[w].err = <<>>
    <3> DEFINE Q == {w \in M : f[w].err # <<>>}
    <3> SUFFICES ASSUME Q # {} PROVE FALSE
      OBVIOUS
    <3>1. PICK w \in Q : \A i \in 1..Len(w.items) : w.items[i] \notin Q
      <4>1. Q \in SUBSET S
        BY <1>7
      <4> HIDE DEF Q
      <4> QED BY <1>3, <4>1, Lowest
    <3>2. w \in M /\ w \in W /\ f[w].err # <<>> /\ ~Faulty(w)
      BY <1>8, <1>14
    <3>3. w.kind \in {"map", "list"}
      BY <1>12, <3>2
    <3>4. PICK i \in 1..Len(w.items) : f[w.items[i]].err # <<>>
      BY <1>12, <3>2, <3>3
    <3>5. w.items[i] \in M
      BY <1>7, <3>2, <3>3
    <3> QED BY <3>1, <3>4, <3>5
  <2> DEFINE la == Level(a, {"oddmap"})
             lx == Level(x, {})
             V == {f[w].value : w \in M}
  <2>2. /\ la[0] = {a} /\ \A n \in 1..MaxDepth : la[n] = Down(la[n-1], {"oddmap"})
        /\ M = UNION {la[n] : n \in 0..MaxDepth}
    BY LevelsAre DEF M, Met
  <2>3. /\ lx[0] = {x} /\ \A n \in 1..MaxDepth : lx[n] = Down(lx[n-1], {})
        /\ Calls!Within(x) = UNION {lx[n] : n \in 0..MaxDepth}
    BY LevelsAre DEF Calls!Within
  <2> HIDE DEF la, lx, x
  <2>4. ASSUME NEW w \in M, w.kind \in {"map", "list"}
        PROVE  /\ f[w].value.kind = w.kind /\ Len(f[w].value.items) = Len(w.items)
               /\ \A i \in 1..Len(w.items) : f[w].value.items[i] = f[w.items[i]].value
    BY <1>8, <1>12, <2>1, <2>4
  <2>5. CASE \E v \in M : Odd(v)
    <3>1. \A n \in 0..MaxDepth : \A w \in la[n] : f[w].value \in lx[n]
      <4> DEFINE Bad == {n \in 0..MaxDepth : \E w \in la[n] : f[w].value \notin lx[n]}
      <4> SUFFICES ASSUME Bad # {} PROVE FALSE
        OBVIOUS
      <4>1. PICK k \in Bad : \A j \in Bad : k <= j
        <5>1. Bad \in SUBSET Nat
          OBVIOUS
        <5> HIDE DEF Bad
        <5> QED BY <5>1, LeastNat
      <4>2. PICK w \in la[k] : f[w].value \notin lx[k]
        OBVIOUS
      <4>3. k \in 0..MaxDepth /\ k # 0
        BY <2>2, <2>3, <4>2 DEF x, r
      <4>4. k - 1 \in 0..MaxDepth /\ k - 1 \notin Bad
        <5>1. k - 1 \in 0..MaxDepth /\ ~(k <= k - 1)
          BY <4>3
        <5> HIDE DEF Bad
        <5> QED BY <4>1, <5>1
      <4>5. PICK c \in la[k-1] : c.kind # "oddmap" /\ w \in Calls!Children(c)
        BY <2>2, <4>2, <4>3 DEF Down
      <4>6. PICK i \in 1..Len(c.items) : w = c.items[i]
        BY <4>5 DEF Calls!Children
      <4>7. c \in M /\ c \in W
        BY <1>8, <2>2, <4>4
      <4>8. c.kind \in {"map", "list"}
        <5>1. c.kind \notin LeafKinds
          BY <1>10, <4>6, <4>7
        <5> QED BY <1>10, <4>5, <4>7, <5>1 DEF BoxKinds
      <4>9. f[c].value \in lx[k-1]
        BY <4>4
      <4>10. f[w].value \in Calls!Children(f[c].value)
        BY <2>4, <4>6, <4>7, <4>8 DEF Calls!Children
      <4>11. lx[k] = Down(lx[k-1], {})
        BY <2>3, <4>3
      <4>12. f[w].value \in lx[k]
        BY <4>9, <4>10, <4>11 DEF Down
      <4> QED BY <4>2, <4>12
    <3>2. PICK v \in M : Odd(v)
      BY <2>5
    <3>3. f[v].value = v
      BY <1>8, <1>12, <3>2 DEF Odd
    <3>4. PICK n \in 0..MaxDepth : v \in la[n]
      BY <2>2
    <3>5. v \in Calls!Within(x)
      BY <2>3, <3>1, <3>3, <3>4
    <3>6. ~Calls!Encodes(x)
      BY <3>2, <3>5 DEF Calls!Encodes, Odd
    <3>7. r.err = <<>>
      BY <1>7, <2>1 DEF r
    <3> QED BY <1>5, <1>14, <2>5, <3>6, <3>7 DEF M, x
  <2>6. CASE ~\E v \in M : Odd(v)
    <3>1. ASSUME NEW w \in M
          PROVE  /\ f[w].value.kind \notin {"nan", "oddmap", "template"}
                 /\ Calls!Children(f[w].value) \subseteq V
      <4>1. w \in W /\ w.kind \in LeafKinds \cup BoxKinds /\ ~Faulty(w) /\ ~Odd(w)
        BY <1>8, <1>10, <1>14, <2>6
      <4>2. CASE w.kind \in {"map", "list"}
        <5>1. Calls!Children(f[w].value) = {f[w.items[i]].value : i \in 1..Len(w.items)}
          BY <2>4, <4>2 DEF Calls!Children
        <5>2. \A i \in 1..Len(w.items) : w.items[i] \in M
          BY <1>7, <4>2
        <5> QED BY <2>4, <4>2, <5>1, <5>2
      <4>3. CASE w.kind \in {"plain", "template"}
        <5>1. f[w].value.kind = "plain" /\ Len(f[w].value.items) = 0
          BY <1>10, <1>12, <4>1, <4>3 DEF LeafKinds
        <5> QED BY <5>1 DEF Calls!Children
      <4> QED BY <4>1, <4>2, <4>3 DEF LeafKinds, BoxKinds, Faulty, Odd
    <3>2. Calls!Within(x) \subseteq V
      <4>1. x \in V
        BY <1>7 DEF x, r
      <4>2. \A w \in V : Calls!Children(w) \subseteq V
        BY <3>1
      <4> HIDE DEF V
      <4> QED BY <4>1, <4>2, ReachedLeast DEF Calls!Within
    <3>3. \A v \in Calls!Within(x) : v.kind \notin {"nan", "oddmap", "template"}
      BY <3>1, <3>2
    <3>4. Calls!Encodes(x)
      BY <3>3 DEF Calls!Encodes
    <3>5. r.err = <<>>
      BY <1>7, <2>1 DEF r
    <3> QED BY <1>5, <1>14, <2>6, <3>3, <3>4, <3>5 DEF M, x
  <2> QED BY <2>5, <2>6
<1> QED BY <1>13, <1>14

-----------------------------------------------------------------------------
(* A call is counted for its cause.                                        *)
LEMMA CauseAny ==
  ASSUME MaxDepth \in Nat, IsCall(input)
  PROVE  Calls!CallsCountForTheirCause
<1> DEFINE a == input.args
           seen == Met(a)
           r == Calls!RenderArgs(a)
           err == Calls!ExecuteOne(a, input.body)
           x == r.value
<1>1. IsArgs(a) /\ input.body \in Calls!Bodies
  BY DEF IsCall
<1>2. err = IF r.err # <<>> THEN r.err
            ELSE IF ~Calls!Encodes(x) THEN <<"TransportError", "plain">>
            ELSE Calls!ExtractRPCError(input.body)
  BY DEF Calls!ExecuteOne
<1>3. Calls!CallsCountForTheirCause <=>
         /\ Calls!Classify(err) = IF \E v \in seen : Faulty(v) THEN "template"
                                  ELSE IF \E v \in seen : Odd(v) THEN "transport"
                                  ELSE IF input.body \in Calls!Codes THEN "jsonrpc"
                                  ELSE "ok"
         /\ err = <<>> => \A v \in Calls!Within(x) : v.kind # "template"
  BY DEF Calls!CallsCountForTheirCause, Calls!Seen, Met, Faulty, Odd
<1> HIDE DEF seen, r, err, a
<1>4. IF \E v \in seen : Faulty(v)
      THEN \E e \in Faults : r.err = <<"TemplateError">> \o e
      ELSE /\ r.err = <<>>
           /\ Calls!Encodes(x) <=> ~\E v \in seen : Odd(v)
           /\ Calls!Encodes(x) => \A v \in Calls!Within(x) : v.kind # "template"
  BY <1>1, ArgsRendered DEF r, seen
<1> HIDE DEF x
<1>5. CASE \E v \in seen : Faulty(v)
  <2>1. PICK e \in Faults : r.err = <<"TemplateError">> \o e
    BY <1>4, <1>5
  <2>2. Calls!Classify(err) = "template" /\ err # <<>>
    BY <1>2, <2>1, CausesCounted
  <2> QED BY <1>3, <1>5, <2>2
<1>6. CASE ~(\E v \in seen : Faulty(v)) /\ \E v \in seen : Odd(v)
  <2>1. err = <<"TransportError", "plain">>
    BY <1>2, <1>4, <1>6
  <2>2. Calls!Classify(err) = "transport" /\ err # <<>>
    BY <2>1, CausesCounted
  <2> QED BY <1>3, <1>6, <2>2
<1>7. CASE ~(\E v \in seen : Faulty(v)) /\ ~\E v \in seen : Odd(v)
  <2>1. err = Calls!ExtractRPCError(input.body) /\ \A v \in Calls!Within(x) : v.kind # "template"
    BY <1>2, <1>4, <1>7
  <2>2. Calls!Classify(err) = IF input.body \in Calls!Codes THEN "jsonrpc" ELSE "ok"
    <3>1. CASE input.body \in Calls!Codes
      BY <2>1, <3>1, CausesCounted DEF Calls!ExtractRPCError
    <3>2. CASE input.body \notin Calls!Codes
      BY <2>1, <3>2, CausesCounted DEF Calls!ExtractRPCError
    <3> QED BY <3>1, <3>2
  <2> QED BY <1>3, <1>7, <2>1, <2>2
<1> QED BY <1>5, <1>6, <1>7

-----------------------------------------------------------------------------
(* The algorithms side by side, as in FunctionProps, from inputs of any    *)
(* size; and the gate takes the steps of CompareProps.                     *)
AnyInit == /\ algorithm = "quantiles" => input \in Seq(Nat)
           /\ algorithm = "prepare"   => input \in AnyInput
           /\ algorithm = "gate"      => input \in AnyGate
           /\ algorithm = "stream"    => input \in Seq(Stream!Lines)
           /\ algorithm = "split"     => input \in Commands
           /\ algorithm = "scrape"    => input \in Runs
           /\ algorithm = "arguments" => IsCall(input)

AnySpec == AnyInit /\ [][Next]_vars

LEMMA AnyStep == GateNumbers /\ AnyInit /\ [Next]_vars => AnyInit'
<1> SUFFICES ASSUME GateNumbers, AnyInit, [Next]_vars
             PROVE  AnyInit'
  OBVIOUS
<1>1. CASE algorithm = "gate" /\ Gate!Next /\ UNCHANGED algorithm
  BY <1>1, GateStep DEF AnyInit
<1>2. CASE UNCHANGED vars
  BY <1>2 DEF vars, AnyInit
<1> QED BY <1>1, <1>2 DEF Next

LEMMA AnyHolds ==
  ASSUME GateNumbers
  PROVE  AnySpec => []AnyInit
<1>1. AnyInit /\ [Next]_vars => AnyInit'
  BY AnyStep
<1> QED BY <1>1, PTL DEF AnySpec

(* The samples that SummaryProps takes are natural numbers.                *)
LEMMA SamplesBegin ==
  ASSUME Samples \subseteq Nat, MaxShort \in Nat, MaxLen \in Nat, Stats!Init
  PROVE  input \in Seq(Nat)
<1>1. ASSUME NEW n \in 0..MaxShort, input \in [1..n -> Samples]
      PROVE  input \in Seq(Nat)
  <2> DEFINE places == 1..n
  <2>1. n \in Nat
    OBVIOUS
  <2>2. input \in [places -> Nat]
    <3> HIDE DEF places
    <3> QED BY <1>1 DEF places
  <2> QED BY <2>1, <2>2
<1>2. ASSUME NEW n \in 1..MaxLen
      PROVE  Stats!Mixed(n) \in Seq(Nat)
  <2>1. n \in Nat
    OBVIOUS
  <2>2. \A k \in 1..n : (k * 37) % 101 \in Nat
    OBVIOUS
  <2>3. Stats!Mixed(n) \in [1..n -> Nat]
    BY <2>2 DEF Stats!Mixed
  <2> QED BY <2>1, <2>3
<1> QED BY <1>1, <1>2 DEF Stats!Init, Stats!SeqOf

(* The streams of SseProps are sequences of lines.                         *)
LEMMA StreamBegins ==
  ASSUME MaxLines \in Nat, Stream!Init
  PROVE  input \in Seq(Stream!Lines)
<1>1. PICK n \in 0..MaxLines : input \in [1..n -> Stream!Lines]
  BY DEF Stream!Init, Stream!SeqOf
<1>2. n \in Nat
  OBVIOUS
<1> QED BY <1>1, <1>2

(* The commands of SpawnProps are sequences of arguments written in pieces. *)
LEMMA ArgsBegin ==
  ASSUME MaxPieces \in Nat, MaxChars \in Nat, Split!Init
  PROVE  input \in Commands
<1>1. Split!Pieces \subseteq AnyPieces
  <2>1. ASSUME NEW quote \in Split!Quotes,
               NEW text \in Split!SeqOf(Split!Chars \ {quote}, MaxChars)
        PROVE  text \in Seq(Split!Chars \ {quote})
    <3>1. PICK m \in 0..MaxChars : text \in [1..m -> Split!Chars \ {quote}]
      BY DEF Split!SeqOf
    <3>2. m \in Nat
      OBVIOUS
    <3> QED BY <3>1, <3>2
  <2>2. ASSUME NEW quote \in Split!Quotes
        PROVE  [way : {quote}, text : Split!SeqOf(Split!Chars \ {quote}, MaxChars)] \subseteq Quotations(quote)
    <3>1. Split!SeqOf(Split!Chars \ {quote}, MaxChars) \subseteq Seq(Split!Chars \ {quote})
      BY <2>1
    <3> QED BY <3>1 DEF Quotations
  <2> QED BY <2>2 DEF Split!Pieces, AnyPieces
<1>2. PICK pieces \in Split!SeqOf(Split!Pieces, MaxPieces) :
        LET n == Len(pieces) IN
        \/ input = [i \in 1..n |-> <<pieces[i]>>]
        \/ n > 1 /\ input = <<pieces>>
        \/ n > 2 /\ input = <<SubSeq(pieces, 1, n - 1), <<pieces[n]>>>>
        \/ n > 2 /\ input = <<<<pieces[1]>>, SubSeq(pieces, 2, n)>>
  BY DEF Split!Init
<1> DEFINE n == Len(pieces)
           A == Seq(AnyPieces) \ {<<>>}
<1>3. pieces \in Seq(AnyPieces)
  <2>1. PICK m \in 0..MaxPieces : pieces \in [1..m -> Split!Pieces]
    BY DEF Split!SeqOf
  <2>2. m \in Nat /\ pieces \in [1..m -> AnyPieces]
    BY <1>1, <2>1
  <2> QED BY <2>2
<1>4. n \in Nat /\ \A i \in 1..n : <<pieces[i]>> \in A
  <2>1. n \in Nat /\ \A i \in 1..n : pieces[i] \in AnyPieces
    BY <1>3
  <2>2. \A piece \in AnyPieces : <<piece>> \in A
    OBVIOUS
  <2> QED BY <2>1, <2>2
<1>5. \A s \in Seq(AnyPieces) : Len(s) > 0 => s \in A
  OBVIOUS
<1>6. CASE input = [i \in 1..n |-> <<pieces[i]>>]
  <2>1. input \in [1..n -> A]
    BY <1>4, <1>6
  <2> HIDE DEF n
  <2> QED BY <1>4, <2>1 DEF Commands
<1>7. CASE n > 1 /\ input = <<pieces>>
  <2>1. pieces \in A
    BY <1>3, <1>7
  <2> QED BY <1>7, <2>1 DEF Commands
<1>8. CASE n > 2 /\ input = <<SubSeq(pieces, 1, n - 1), <<pieces[n]>>>>
  <2>1. SubSeq(pieces, 1, n - 1) \in Seq(AnyPieces) /\ Len(SubSeq(pieces, 1, n - 1)) > 0
    BY <1>3, <1>4, <1>8
  <2>2. SubSeq(pieces, 1, n - 1) \in A
    BY <1>5, <2>1
  <2>3. <<pieces[n]>> \in A /\ Commands = Seq(A)
    BY <1>4, <1>8 DEF Commands
  <2> HIDE DEF A
  <2>4. <<SubSeq(pieces, 1, n - 1), <<pieces[n]>>>> \in Seq(A)
    BY <2>2, <2>3
  <2> QED BY <1>8, <2>3, <2>4
<1>9. CASE n > 2 /\ input = <<<<pieces[1]>>, SubSeq(pieces, 2, n)>>
  <2>1. SubSeq(pieces, 2, n) \in Seq(AnyPieces) /\ Len(SubSeq(pieces, 2, n)) > 0
    BY <1>3, <1>4, <1>9
  <2>2. SubSeq(pieces, 2, n) \in A
    BY <1>5, <2>1
  <2>3. <<pieces[1]>> \in A /\ Commands = Seq(A)
    BY <1>4, <1>9 DEF Commands
  <2> HIDE DEF A
  <2>4. <<<<pieces[1]>>, SubSeq(pieces, 2, n)>> \in Seq(A)
    BY <2>2, <2>3
  <2> QED BY <1>9, <2>3, <2>4
<1> QED BY <1>2, <1>6, <1>7, <1>8, <1>9

(* The names of a set, in some order, are a sequence of names.             *)
LEMMA NamesInOrder ==
  ASSUME NEW E, NEW S, S \subseteq E, IsFiniteSet(S)
  PROVE  Scrape!SetToSeq(S) \in Seq(E)
<1> DEFINE n == Cardinality(S)
           F == [1..n -> S]
<1>1. n \in Nat /\ ExistsBijection(1..n, S)
  BY FS_CardinalityType
<1> HIDE DEF n
<1>2. PICK f \in F : \A a, b \in DOMAIN f : f[a] = f[b] => a = b
  BY <1>1 DEF ExistsBijection, Bijection, Injection, Surjection, IsInjective
<1>3. \E g \in F : Scrape!IsInjective(g)
  BY <1>2 DEF Scrape!IsInjective
<1>4. Scrape!SetToSeq(S) = CHOOSE g \in F : Scrape!IsInjective(g)
  BY DEF Scrape!SetToSeq, Scrape!Cardinality, Cardinality, n
<1> HIDE DEF F
<1>5. Scrape!SetToSeq(S) \in F
  BY <1>3, <1>4
<1>6. Scrape!SetToSeq(S) \in [1..n -> E]
  BY <1>5 DEF F
<1> QED BY <1>1, <1>6

(* The runs of ReportProps have names of the characters of Symbols.        *)
LEMMA RunsBegin ==
  ASSUME MaxScenario \in Nat, MaxName \in Nat, Scrape!Init
  PROVE  input \in Runs
<1>1. ASSUME NEW n \in Nat, NEW s \in Scrape!NamesUpTo(n)
      PROVE  s \in Seq(Symbols)
  <2>1. PICK m \in 0..n : s \in [1..m -> Scrape!Characters]
    BY DEF Scrape!NamesUpTo, Scrape!SeqOf
  <2>2. m \in Nat /\ Scrape!Characters \subseteq Symbols
    <3>1. Scrape!Characters \subseteq Symbols
      BY Zenon DEF Symbols
    <3> QED BY <3>1
  <2>3. s \in [1..m -> Symbols]
    BY <2>1, <2>2
  <2> QED BY <2>2, <2>3
<1>2. Scrape!Names \subseteq Seq(Symbols)
  <2>1. Scrape!OverallName \in Seq(Symbols)
    <3>1. "__overall__" \in Symbols
      BY DEF Symbols
    <3> QED BY <3>1 DEF Scrape!OverallName
  <2> QED BY <1>1, <2>1 DEF Scrape!Names
<1>3. ASSUME NEW s \in Seq(Symbols), NEW S, S \subseteq Seq(Symbols), IsFiniteSet(S)
      PROVE  Scrape!RunOf(s, S) \in Runs
  BY <1>3, NamesInOrder DEF Scrape!RunOf, Runs
<1>4. CASE input = Scrape!RunOf(<<"a">>, {})
  <2>1. <<"a">> \in Seq(Symbols)
    BY DEF Symbols, Scrape!Characters
  <2>2. {} \subseteq Seq(Symbols) /\ IsFiniteSet({})
    BY FS_EmptySet
  <2> QED BY <1>3, <1>4, <2>1, <2>2
<1>5. ASSUME NEW s \in Scrape!NamesUpTo(MaxScenario), NEW a \in Scrape!Names, NEW b \in Scrape!Names,
             input = Scrape!RunOf(s, {a, b})
      PROVE  input \in Runs
  <2>1. s \in Seq(Symbols)
    BY <1>1
  <2> DEFINE S == {a, b}
  <2>2. S \subseteq Seq(Symbols)
    BY <1>2
  <2>3. IsFiniteSet(S)
    <3>1. IsFiniteSet({a} \cup {b})
      BY FS_Singleton, FS_Union
    <3> QED BY <3>1
  <2> HIDE DEF S
  <2>4. Scrape!RunOf(s, S) \in Runs
    BY <1>3, <2>1, <2>2, <2>3
  <2> QED BY <1>5, <2>4 DEF S
<1> QED BY <1>4, <1>5 DEF Scrape!Init

(* The arguments of RenderProps are nested three deep at most.             *)
LEMMA CallsBegin ==
  ASSUME MaxItems \in Nat, MaxDepth \in Nat, 3 <= MaxDepth, Calls!Init
  PROVE  IsCall(input)
<1> DEFINE a == input.args
           L == Calls!Leaves
           B == Calls!Holding(L)
           D == [kind : BoxKinds, items : {<<w>> : w \in B}]
           S == L \cup B \cup D \cup {a}
           h == [v \in S |-> IF v \in L THEN 0 ELSE IF v \in B THEN 1 ELSE IF v \in D THEN 2 ELSE 3]
<1>1. ASSUME NEW E, NEW F, E \subseteq F, NEW s \in Calls!Items(E)
      PROVE  s \in Seq(F) /\ \A i \in 1..Len(s) : s[i] \in E
  <2>1. PICK n \in 0..MaxItems : s \in [1..n -> E]
    BY <1>1 DEF Calls!Items
  <2>2. n \in Nat /\ s \in [1..n -> F]
    BY <1>1, <2>1
  <2> QED BY <2>1, <2>2
<1>2. ASSUME NEW v \in L
      PROVE  v.kind \in LeafKinds /\ v.items = <<>>
  BY DEF Calls!Leaves, Calls!Value, LeafKinds
<1>3. ASSUME NEW v \in B
      PROVE  v.kind \in BoxKinds /\ v.items \in Calls!Items(L)
  BY DEF Calls!Holding, BoxKinds
<1>4. ASSUME NEW v \in D
      PROVE  v.kind \in BoxKinds /\ \E w \in B : v.items = <<w>>
  OBVIOUS
<1>5. /\ a.kind = "map" /\ input.body \in Calls!Bodies
      /\ a.items \in Calls!Items(L \cup B) \/ \E v \in D : a.items = <<v>>
  <2>1. a \in Calls!Arguments /\ input.body \in Calls!Bodies
    BY DEF Calls!Init
  <2>2. Calls!Single(B) = {<<v>> : v \in D}
    BY DEF Calls!Single, BoxKinds
  <2>3. PICK items \in Calls!Items(L \cup B) \cup Calls!Single(B) :
          a = [kind |-> "map", items |-> items]
    <3> HIDE DEF a
    <3> QED BY <2>1 DEF Calls!Arguments, Calls!Value
  <2>4. a.kind = "map" /\ a.items = items
    <3> HIDE DEF a
    <3> QED BY <2>3
  <2> HIDE DEF D, a
  <2> QED BY <2>1, <2>2, <2>3, <2>4
<1>6. "map" \in BoxKinds
  BY DEF BoxKinds
<1> HIDE DEF a, L, B, D
<1>7. h \in Heights(S)
  BY DEF Heights
<1>8. \A v \in S : /\ v \in L => h[v] = 0
                   /\ v \in B => h[v] <= 1 /\ h[v] \in Nat
                   /\ v \in D => h[v] <= 2 /\ h[v] \in Nat
                   /\ h[v] = 0 => v \in L
                   /\ h[v] = 1 => v \in B
                   /\ h[v] = 2 => v \in D
                   /\ h[v] = 3 => v = a
                   /\ h[v] \in {0, 1, 2, 3}
  OBVIOUS
<1>9. L \subseteq S /\ B \subseteq S /\ D \subseteq S /\ a \in S
  OBVIOUS
<1> HIDE DEF h, S
<1>10. ASSUME NEW v \in S
       PROVE  \/ v.kind \in LeafKinds /\ v.items = <<>>
              \/ /\ v.kind \in BoxKinds /\ v.items \in Seq(S)
                 /\ \A i \in 1..Len(v.items) : h[v.items[i]] < h[v]
  <2>1. CASE h[v] = 0
    BY <1>2, <1>8, <2>1
  <2>2. CASE h[v] = 1
    <3>1. v.kind \in BoxKinds /\ v.items \in Calls!Items(L)
      BY <1>3, <1>8, <2>2
    <3>2. v.items \in Seq(S) /\ \A i \in 1..Len(v.items) : v.items[i] \in L
      BY <1>1, <1>9, <3>1
    <3>3. \A i \in 1..Len(v.items) : h[v.items[i]] = 0
      BY <1>8, <1>9, <3>2
    <3> QED BY <2>2, <3>1, <3>2, <3>3
  <2>3. CASE h[v] = 2
    <3>1. v \in D
      BY <1>8, <2>3
    <3>2. PICK w \in B : v.items = <<w>>
      BY <1>4, <3>1
    <3>3. v.kind \in BoxKinds
      BY <1>4, <3>1
    <3>4. w \in S /\ h[w] <= 1 /\ h[w] \in Nat
      BY <1>8, <1>9
    <3>5. v.items \in Seq(S) /\ \A i \in 1..Len(v.items) : v.items[i] = w
      BY <3>2, <3>4
    <3> QED BY <2>3, <3>3, <3>4, <3>5
  <2>4. CASE h[v] = 3
    <3>1. v = a
      BY <1>8, <2>4
    <3>2. CASE a.items \in Calls!Items(L \cup B)
      <4>1. L \cup B \subseteq S
        BY <1>9
      <4>2. a.items \in Seq(S) /\ \A i \in 1..Len(a.items) : a.items[i] \in L \cup B
        BY <1>1, <3>2, <4>1
      <4>3. \A w \in L \cup B : h[w] < 3
        BY <1>8, <1>9
      <4> QED BY <1>5, <1>6, <2>4, <3>1, <4>2, <4>3
    <3>3. CASE \E w \in D : a.items = <<w>>
      <4>1. PICK w \in D : a.items = <<w>>
        BY <3>3
      <4>2. w \in S /\ h[w] < 3
        BY <1>8, <1>9
      <4>3. a.items \in Seq(S) /\ \A i \in 1..Len(a.items) : a.items[i] = w
        BY <4>1, <4>2
      <4> QED BY <1>5, <1>6, <2>4, <3>1, <4>2, <4>3
    <3> QED BY <1>5, <3>2, <3>3
  <2> QED BY <1>8, <2>1, <2>2, <2>3, <2>4
<1>11. Nested(S, h)
  BY <1>10 DEF Nested
<1>12. IsArgs(a)
  BY <1>5, <1>7, <1>9, <1>11 DEF IsArgs
<1> QED BY <1>5, <1>12 DEF IsCall, a

(* The inputs that FunctionProps begins with are among them, and so are    *)
(* the behaviours.                                                         *)
THEOREM AllIncluded ==
  ASSUME GateNumbers, MaxTools \in Nat, MaxWeight \in Nat,
         Samples \subseteq Nat, MaxShort \in Nat, MaxLen \in Nat, MaxLines \in Nat,
         MaxPieces \in Nat, MaxChars \in Nat, MaxScenario \in Nat, MaxName \in Nat,
         MaxItems \in Nat, MaxDepth \in Nat, 3 <= MaxDepth
  PROVE  Spec => AnySpec
<1>1. Init => AnyInit
  BY GateBegins, InputBegins, SamplesBegin, StreamBegins, ArgsBegin, RunsBegin, CallsBegin
     DEF Init, AnyInit
<1> QED BY <1>1, PTL DEF Spec, AnySpec

(* The quantiles of a report are those of the nearest-rank definition, for *)
(* any samples (summarize, percentile).                                    *)
THEOREM QuantilesKept ==
  ASSUME GateNumbers
  PROVE  AnySpec => []QuantilesRight
<1>1. AnyInit => QuantilesRight
  BY QuantilesAny DEF AnyInit, QuantilesRight
<1> QED BY <1>1, AnyHolds, PTL

(* A line of the report is in order, however many samples the reservoir    *)
(* has dropped (summarize).                                                *)
THEOREM OrderKept ==
  ASSUME GateNumbers
  PROVE  AnySpec => []SummaryOrdered
<1>1. AnyInit => SummaryOrdered
  BY OrderAny DEF AnyInit, SummaryOrdered
<1> QED BY <1>1, AnyHolds, PTL

(* Any file and command line that pass are a run that can be made and that *)
(* ends as they say, whatever their numbers.                               *)
THEOREM PreparedKept ==
  ASSUME GateNumbers
  PROVE  AnySpec => []PreparedRuns
<1>1. AnyInit => PreparedRuns
  BY PreparedAny DEF AnyInit, PreparedRuns
<1> QED BY <1>1, AnyHolds, PTL

(* A valid file runs unless the command line itself forbids it: another     *)
(* program or address, or a --spawn of spaces, does not (applyCLIOverrides, *)
(* Validate).                                                              *)
THEOREM BreakKept ==
  ASSUME GateNumbers
  PROVE  AnySpec => []OnlyFlagsBreak
<1>1. AnyInit => OnlyFlagsBreak
  BY BreakAny DEF AnyInit, OnlyFlagsBreak
<1> QED BY <1>1, AnyHolds, PTL

(* Whatever the weights of a file, the picker gives each tool its share    *)
(* (Picker.Next), a weight of 0 counting as 1.                             *)
THEOREM PicksKept ==
  ASSUME GateNumbers
  PROVE  AnySpec => []PicksAreWeighted
<1>1. AnyInit => PicksAreWeighted
  BY PicksAny DEF AnyInit, PicksAreWeighted
<1> QED BY <1>1, AnyHolds, PTL

(* parseSSE returns the last frame that answers the call, of a stream of   *)
(* any length, and reads nothing after an event called done.               *)
THEOREM LastFrameKept ==
  ASSUME GateNumbers
  PROVE  AnySpec => []LastFrameWins
<1>1. AnyInit => LastFrameWins
  BY StreamAny DEF AnyInit, LastFrameWins
<1> QED BY <1>1, AnyHolds, PTL

(* parseSpawn gives back every list of arguments, each written in any mix  *)
(* of pieces (as they are, escaped, or between either kind of quotes, also  *)
(* where these begin or end in the middle of an argument), of any number    *)
(* and length, and refuses a command line that ends in an open quote or     *)
(* after a backslash.                                                      *)
THEOREM SpawnKept ==
  ASSUME GateNumbers
  PROVE  AnySpec => []SpawnRoundTrips
<1>1. AnyInit => SpawnRoundTrips
  BY SplitAny DEF AnyInit, SpawnRoundTrips
<1> QED BY <1>1, AnyHolds, PTL

(* Whatever the scenario and the tools are called, of any number and       *)
(* length, a scraper of the exposition finds a line for every series below *)
(* the type of its metric, can read it, and keeps tools apart that differ  *)
(* in a plain character (WritePrometheus, sanitizeLabel).                  *)
THEOREM ScrapesKept ==
  ASSUME GateNumbers
  PROVE  AnySpec => []ExpositionScrapes
<1>1. AnyInit => ExpositionScrapes
  BY ScrapeAny DEF AnyInit, ExpositionScrapes
<1> QED BY <1>1, AnyHolds, PTL

(* A call is counted for what was wrong with its arguments, wherever in     *)
(* them it stands, else for the server's own error, and no template is     *)
(* sent (RenderArgs, executeOne, Classify); for arguments of any width,    *)
(* nested to any depth.                                                    *)
THEOREM CallsKept ==
  ASSUME GateNumbers, MaxDepth \in Nat
  PROVE  AnySpec => []CallsCountForTheirCause
<1>1. AnyInit => CallsCountForTheirCause
  BY CauseAny DEF AnyInit, CallsCountForTheirCause
<1> QED BY <1>1, AnyHolds, PTL

(* `mcpbench compare` passes a run file against itself.                    *)
THEOREM SelfKept ==
  ASSUME GateNumbers
  PROVE  AnySpec => []SelfIsClean
<1>1. AnyInit => SelfIsClean
  BY SelfAny DEF AnyInit, SelfIsClean
<1> QED BY <1>1, AnyHolds, PTL

(* The gate does not trade: from any pair of run files under any flags, a  *)
(* worse candidate never turns a failure of `mcpbench compare` into a pass *)
(* and a looser threshold never turns a pass into a failure.               *)
THEOREM GateMonotonic ==
  ASSUME GateNumbers
  PROVE  AnySpec => GateIsMonotonic
<1>1. AnyInit /\ [Next]_vars => [algorithm = "gate" => Gate!GateIsMonotonic]_vars
  <2> SUFFICES ASSUME AnyInit, Next, algorithm = "gate", vars' # vars
               PROVE  Gate!GateIsMonotonic
    OBVIOUS
  <2> QED BY GateStep DEF Next, AnyInit
<1> QED BY <1>1, AnyHolds, PTL DEF AnySpec, GateIsMonotonic
=============================================================================
