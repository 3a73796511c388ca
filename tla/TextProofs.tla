------------------------------ MODULE TextProofs ------------------------------
(***************************************************************************)
(* Theorems about the algorithms that read or write text, for texts of any *)
(* length: parseSSE, parseSpawn and WritePrometheus.                       *)
(***************************************************************************)
EXTENDS FunctionProps, SetTheorems

-----------------------------------------------------------------------------
(* parseSSE as a machine that reads lines.                                 *)
Names   == Stream!Events \cup {""}
Parsers == [current : Seq(Stream!Data), matched : Seq(Stream!Data),
            event : Names, stopped : BOOLEAN]

Turn == [x \in Parsers \X Stream!Lines |->
           IF x[1].stopped THEN x[1] ELSE Stream!Feed(x[1], x[2])]

(* What a line does to each variable.                                      *)
Fed(p, line, q) ==
  /\ q \in Parsers
  /\ line \in Stream!Events => q = [p EXCEPT !.event = line]
  /\ line \in Stream!Data => q = [p EXCEPT !.current = Append(p.current, line)]
  /\ line = "comment" => q = p
  /\ line = "blank" =>
       /\ q.current = <<>>
       /\ q.matched = IF p.current \in Stream!Frames THEN p.current ELSE p.matched
       /\ q.stopped = (p.event = "done")
       /\ p.event # "done" => q.event = ""

LEMMA FeedIs ==
  ASSUME NEW p \in Parsers, NEW line \in Stream!Lines, NEW q, q = Stream!Feed(p, line)
  PROVE  Fed(p, line, q)
<1>1. /\ p.current \in Seq(Stream!Data) /\ p.matched \in Seq(Stream!Data)
      /\ p.event \in Names /\ p.stopped \in BOOLEAN
      /\ p = [current |-> p.current, matched |-> p.matched, event |-> p.event, stopped |-> p.stopped]
  BY DEF Parsers
<1>2. CASE line \in Stream!Events
  <2>1. line # "blank" /\ line # "comment" /\ line \notin Stream!Data
    BY <1>2 DEF Stream!Events, Stream!Data
  <2>2. q = [p EXCEPT !.event = line]
    BY <1>2, <2>1 DEF Stream!Feed
  <2>3. q \in Parsers
    BY <1>1, <1>2, <2>2 DEF Parsers, Names
  <2> QED BY <2>1, <2>2, <2>3 DEF Fed
<1>3. CASE line \in Stream!Data
  <2>1. line # "blank" /\ line # "comment" /\ line \notin Stream!Events
    BY <1>3 DEF Stream!Events, Stream!Data
  <2>2. q = [p EXCEPT !.current = Append(p.current, line)]
    BY <1>3, <2>1 DEF Stream!Feed
  <2>3. q \in Parsers
    <3>1. Append(p.current, line) \in Seq(Stream!Data)
      BY <1>1, <1>3
    <3> QED BY <1>1, <2>2, <3>1 DEF Parsers
  <2> QED BY <2>1, <2>2, <2>3 DEF Fed
<1>4. CASE line = "comment"
  <2>1. line # "blank" /\ line \notin Stream!Data /\ line \notin Stream!Events
    BY <1>4 DEF Stream!Events, Stream!Data
  <2>2. q = p
    BY <1>4, <2>1 DEF Stream!Feed
  <2> QED BY <1>4, <2>1, <2>2 DEF Fed
<1>5. CASE line = "blank"
  <2>1. line # "comment" /\ line \notin Stream!Data /\ line \notin Stream!Events
    BY <1>5 DEF Stream!Events, Stream!Data
  <2>2. q = [Stream!Flush(p) EXCEPT !.stopped = (p.event = "done"),
                                    !.event = IF p.event = "done" THEN @ ELSE ""]
    BY <1>5, <2>1 DEF Stream!Feed
  <2>3. Stream!Flush(p) = [p EXCEPT !.current = <<>>,
                             !.matched = IF p.current \in Stream!Frames THEN p.current ELSE p.matched]
    BY <1>1 DEF Stream!Flush
  <2> DEFINE found == IF p.current \in Stream!Frames THEN p.current ELSE p.matched
             name  == IF p.event = "done" THEN p.event ELSE ""
             ends  == p.event = "done"
  <2>4. q = [current |-> <<>>, matched |-> found, event |-> name, stopped |-> ends]
    BY <1>1, <2>2, <2>3
  <2>5. found \in Seq(Stream!Data) /\ name \in Names /\ ends \in BOOLEAN
    BY <1>1 DEF Names
  <2>6. q \in Parsers /\ q.current = <<>> /\ q.matched = found /\ q.event = name /\ q.stopped = ends
    <3> HIDE DEF found, name, ends
    <3> QED BY <2>4, <2>5 DEF Parsers
  <2>7. p.event # "done" => name = ""
    OBVIOUS
  <2> QED BY <1>5, <2>1, <2>6, <2>7 DEF Fed
<1> QED BY <1>2, <1>3, <1>4, <1>5 DEF Stream!Lines

LEMMA TurnIs ==
  /\ IsMachine(Parsers, Stream!Lines, Turn)
  /\ \A p \in Parsers, line \in Stream!Lines :
       Turn[<<p, line>>] = IF p.stopped THEN p ELSE Stream!Feed(p, line)
<1>1. \A p \in Parsers, line \in Stream!Lines : Stream!Feed(p, line) \in Parsers
  BY FeedIs DEF Fed
<1>2. \A x \in Parsers \X Stream!Lines : x[1] \in Parsers /\ x[2] \in Stream!Lines
  OBVIOUS
<1> QED BY <1>1, <1>2 DEF Turn, IsMachine

LEMMA StartTyped == Stream!Start \in Parsers
<1>1. <<>> \in Seq(Stream!Data) /\ FALSE \in BOOLEAN
  OBVIOUS
<1>2. "" \in Names
  BY DEF Names
<1> QED BY <1>1, <1>2 DEF Parsers, Stream!Start, Stream!Nothing

LEMMA StreamFold ==
  ASSUME NEW lines \in Seq(Stream!Lines)
  PROVE  Stream!ParseSSE(lines)
           = Stream!Flush(After(Parsers, Turn, Stream!Start, lines)).matched
<1> DEFINE b == Stream!Start
           Recursion(g) ==
             g = [T \in SUBSET DOMAIN lines |->
                    IF T = {} THEN b
                    ELSE IF g[T \ {Max(T)}].stopped THEN g[T \ {Max(T)}]
                         ELSE Stream!Feed(g[T \ {Max(T)}], lines[Max(T)])]
           f == CHOOSE g : Recursion(g)
<1>1. b \in Parsers
  BY StartTyped
<1>2. Stream!ParseSSE(lines) = Stream!Flush(f[DOMAIN lines]).matched
  BY DEF Stream!ParseSSE, Stream!FoldLeft, Stream!MapThenFoldSet, Stream!Max, Max
<1>3. ASSUME NEW T \in SUBSET DOMAIN lines, T # {}
      PROVE  Max(T) \in T /\ lines[Max(T)] \in Stream!Lines /\ T \ {Max(T)} \in SUBSET DOMAIN lines
  <2>1. DOMAIN lines = 1..Len(lines) /\ Len(lines) \in Nat
    OBVIOUS
  <2>2. Max(T) \in T
    BY <1>3, <2>1, LastPlace
  <2> QED BY <2>1, <2>2
<1> HIDE DEF b
<1>4. \E g : Recursion(g)
  <2>1. PICK g : IsLeftFold(g, Parsers, Turn, b, lines)
    BY <1>1, TurnIs, LeftFoldExists
  <2>2. g \in [SUBSET DOMAIN lines -> Parsers] /\ g[{}] = b
    BY <2>1 DEF IsLeftFold
  <2>3. ASSUME NEW T \in SUBSET DOMAIN lines, T # {}
        PROVE  g[T] = IF g[T \ {Max(T)}].stopped THEN g[T \ {Max(T)}]
                      ELSE Stream!Feed(g[T \ {Max(T)}], lines[Max(T)])
    <3>1. g[T] = Turn[<<g[T \ {Max(T)}], lines[Max(T)]>>]
      BY <2>1, <2>3, Zenon DEF IsLeftFold
    <3>2. g[T \ {Max(T)}] \in Parsers /\ lines[Max(T)] \in Stream!Lines
      BY <1>3, <2>2, <2>3
    <3> QED BY <3>1, <3>2, TurnIs
  <2>4. Recursion(g)
    BY <2>2, <2>3, Zenon
  <2> QED BY <2>4
<1>5. Recursion(f)
  <2> HIDE DEF Recursion
  <2> QED BY <1>4, Zenon
<1>6. f[{}] = b
  BY <1>5, Zenon
<1>7. ASSUME NEW T \in SUBSET DOMAIN lines, T # {}, f[T \ {Max(T)}] \in Parsers
      PROVE  f[T] = Turn[<<f[T \ {Max(T)}], lines[Max(T)]>>]
  <2>1. f[T] = IF f[T \ {Max(T)}].stopped THEN f[T \ {Max(T)}]
               ELSE Stream!Feed(f[T \ {Max(T)}], lines[Max(T)])
    <3> HIDE DEF f
    <3> QED BY <1>5, <1>7
  <2> HIDE DEF f
  <2> QED BY <1>3, <1>7, <2>1, TurnIs
<1>8. f[DOMAIN lines] = After(Parsers, Turn, b, lines)
  <2>1. IsMachine(Parsers, Stream!Lines, Turn)
    BY TurnIs
  <2> HIDE DEF f, Recursion
  <2>2. Follows(f, Parsers, Turn, b, lines)
    BY <1>6, <1>7 DEF Follows
  <2> QED BY <1>1, <2>1, <2>2, LeftFoldIsAfter
<1> QED BY <1>2, <1>8 DEF b

-----------------------------------------------------------------------------
(* The data lines of a stretch of the stream, one line after another.       *)
Gather == [x \in Seq(Stream!Data) \X Stream!Lines |->
             IF x[2] \in Stream!Data THEN Append(x[1], x[2]) ELSE x[1]]

LEMMA GatherIs ==
  /\ IsMachine(Seq(Stream!Data), Stream!Lines, Gather)
  /\ \A data \in Seq(Stream!Data), line \in Stream!Lines :
       Gather[<<data, line>>] = IF line \in Stream!Data THEN Append(data, line) ELSE data
<1>1. \A data \in Seq(Stream!Data), line \in Stream!Data : Append(data, line) \in Seq(Stream!Data)
  OBVIOUS
<1>2. \A x \in Seq(Stream!Data) \X Stream!Lines :
        x[1] \in Seq(Stream!Data) /\ x[2] \in Stream!Lines
  OBVIOUS
<1> QED BY <1>1, <1>2 DEF Gather, IsMachine

LEMMA GatherFold ==
  ASSUME NEW lines \in Seq(Stream!Lines)
  PROVE  Stream!FoldLeft(LAMBDA data, line :
                           IF line \in Stream!Data THEN Append(data, line) ELSE data, <<>>, lines)
           = After(Seq(Stream!Data), Gather, <<>>, lines)
<1> DEFINE Recursion(g) ==
             g = [T \in SUBSET DOMAIN lines |->
                    IF T = {} THEN <<>>
                    ELSE IF lines[Max(T)] \in Stream!Data
                         THEN Append(g[T \ {Max(T)}], lines[Max(T)])
                         ELSE g[T \ {Max(T)}]]
           f == CHOOSE g : Recursion(g)
<1>1. <<>> \in Seq(Stream!Data)
  OBVIOUS
<1>2. Stream!FoldLeft(LAMBDA data, line :
                        IF line \in Stream!Data THEN Append(data, line) ELSE data, <<>>, lines)
        = f[DOMAIN lines]
  BY DEF Stream!FoldLeft, Stream!MapThenFoldSet, Stream!Max, Max
<1>3. ASSUME NEW T \in SUBSET DOMAIN lines, T # {}
      PROVE  Max(T) \in T /\ lines[Max(T)] \in Stream!Lines /\ T \ {Max(T)} \in SUBSET DOMAIN lines
  <2>1. DOMAIN lines = 1..Len(lines) /\ Len(lines) \in Nat
    OBVIOUS
  <2>2. Max(T) \in T
    BY <1>3, <2>1, LastPlace
  <2> QED BY <2>1, <2>2
<1>4. \E g : Recursion(g)
  <2>1. PICK g : IsLeftFold(g, Seq(Stream!Data), Gather, <<>>, lines)
    BY <1>1, GatherIs, LeftFoldExists
  <2>2. g \in [SUBSET DOMAIN lines -> Seq(Stream!Data)] /\ g[{}] = <<>>
    BY <2>1 DEF IsLeftFold
  <2>3. ASSUME NEW T \in SUBSET DOMAIN lines, T # {}
        PROVE  g[T] = IF lines[Max(T)] \in Stream!Data
                      THEN Append(g[T \ {Max(T)}], lines[Max(T)])
                      ELSE g[T \ {Max(T)}]
    <3>1. g[T] = Gather[<<g[T \ {Max(T)}], lines[Max(T)]>>]
      BY <2>1, <2>3, Zenon DEF IsLeftFold
    <3>2. g[T \ {Max(T)}] \in Seq(Stream!Data) /\ lines[Max(T)] \in Stream!Lines
      BY <1>3, <2>2, <2>3
    <3> QED BY <3>1, <3>2, GatherIs
  <2>4. Recursion(g)
    BY <2>2, <2>3, Zenon
  <2> QED BY <2>4
<1>5. Recursion(f)
  <2> HIDE DEF Recursion
  <2> QED BY <1>4, Zenon
<1>6. f[{}] = <<>>
  BY <1>5, Zenon
<1>7. ASSUME NEW T \in SUBSET DOMAIN lines, T # {}, f[T \ {Max(T)}] \in Seq(Stream!Data)
      PROVE  f[T] = Gather[<<f[T \ {Max(T)}], lines[Max(T)]>>]
  <2>1. f[T] = IF lines[Max(T)] \in Stream!Data
               THEN Append(f[T \ {Max(T)}], lines[Max(T)])
               ELSE f[T \ {Max(T)}]
    <3> HIDE DEF f
    <3> QED BY <1>5, <1>7
  <2> HIDE DEF f, Recursion
  <2>2. f[T \ {Max(T)}] \in Seq(Stream!Data) /\ lines[Max(T)] \in Stream!Lines
    BY <1>3, <1>7
  <2>3. Gather[<<f[T \ {Max(T)}], lines[Max(T)]>>]
          = IF lines[Max(T)] \in Stream!Data
            THEN Append(f[T \ {Max(T)}], lines[Max(T)])
            ELSE f[T \ {Max(T)}]
    BY <2>2, GatherIs
  <2> QED BY <2>1, <2>3
<1>8. f[DOMAIN lines] = After(Seq(Stream!Data), Gather, <<>>, lines)
  <2> DEFINE P == Seq(Stream!Data)
  <2>1. IsMachine(P, Stream!Lines, Gather)
    BY GatherIs
  <2> HIDE DEF f, Recursion
  <2>2. Follows(f, P, Gather, <<>>, lines)
    BY <1>6, <1>7 DEF Follows
  <2>3. <<>> \in P /\ lines \in Seq(Stream!Lines)
    OBVIOUS
  <2> HIDE DEF P
  <2>4. f[DOMAIN lines] = After(P, Gather, <<>>, lines)
    BY <2>1, <2>2, <2>3, LeftFoldIsAfter, Zenon
  <2> QED BY <2>4 DEF P
<1> QED BY <1>2, <1>8

(* A stretch of lines from k to i, which may still be empty.                *)
LEMMA DataGrows ==
  ASSUME input \in Seq(Stream!Lines), NEW k \in 1..(Len(input) + 1),
         NEW i \in (k - 1)..Len(input)
  PROVE  /\ Stream!DataOf(<<k, i>>) \in Seq(Stream!Data)
         /\ i = k - 1 => Stream!DataOf(<<k, i>>) = <<>>
         /\ i < Len(input) =>
              Stream!DataOf(<<k, i + 1>>) =
                IF input[i + 1] \in Stream!Data THEN Append(Stream!DataOf(<<k, i>>), input[i + 1])
                ELSE Stream!DataOf(<<k, i>>)
<1> DEFINE M(lines) == After(Seq(Stream!Data), Gather, <<>>, lines)
<1>1. ASSUME NEW j \in (k - 1)..Len(input)
      PROVE  /\ SubSeq(input, k, j) \in Seq(Stream!Lines)
             /\ Stream!DataOf(<<k, j>>) = M(SubSeq(input, k, j))
  <2>1. SubSeq(input, k, j) \in Seq(Stream!Lines)
    <3>1. k \in Int /\ j \in Int /\ \A x \in k..j : input[x] \in Stream!Lines
      OBVIOUS
    <3> QED BY <3>1, SubSeqProperties
  <2>2. <<k, j>>[1] = k /\ <<k, j>>[2] = j
    OBVIOUS
  <2> QED BY <2>1, <2>2, GatherFold DEF Stream!DataOf
<1> HIDE DEF M
<1>2. <<>> \in Seq(Stream!Data) /\ IsMachine(Seq(Stream!Data), Stream!Lines, Gather)
  BY GatherIs
<1>3. M(SubSeq(input, k, i)) \in Seq(Stream!Data)
  BY <1>1, <1>2, RunExists DEF M
<1>4. ASSUME i = k - 1
      PROVE  M(SubSeq(input, k, i)) = <<>>
  <2>1. SubSeq(input, k, i) = <<>>
    <3>1. k \in Int /\ i \in Int /\ i < k
      BY <1>4
    <3> QED BY <3>1, SubSeqEmpty
  <2> QED BY <1>2, <2>1, AfterEmpty DEF M
<1>5. ASSUME i < Len(input)
      PROVE  M(SubSeq(input, k, i + 1)) = Gather[<<M(SubSeq(input, k, i)), input[i + 1]>>]
  <2>1. SubSeq(input, k, i + 1) = Append(SubSeq(input, k, i), input[i + 1])
    <3>1. k \in 1..Len(input) /\ i + 1 \in k..Len(input) /\ (i + 1) - 1 = i
      BY <1>5
    <3>2. SubSeq(input, k, i + 1) = SubSeq(input, k, i) \o <<input[i + 1]>>
      BY <3>1, SubSeqRecursiveSecond
    <3>3. SubSeq(input, k, i) \in Seq(Stream!Lines) /\ input[i + 1] \in Stream!Lines
      BY <1>1, <3>1
    <3> QED BY <3>2, <3>3, AppendIsConcat
  <2>2. input[i + 1] \in Stream!Lines
    BY <1>5
  <2>3. SubSeq(input, k, i) \in Seq(Stream!Lines)
    BY <1>1
  <2> DEFINE s == SubSeq(input, k, i)
             t == SubSeq(input, k, i + 1)
             e == input[i + 1]
  <2>4. M(t) = Gather[<<M(s), e>>]
    <3> HIDE DEF s, e, t
    <3>1. s \in Seq(Stream!Lines) /\ e \in Stream!Lines /\ IsAppend(t, s, e)
      BY <2>1, <2>2, <2>3 DEF s, e, t, IsAppend
    <3> DEFINE none == <<>>
    <3>2. none \in Seq(Stream!Data)
      OBVIOUS
    <3> HIDE DEF none
    <3>3. After(Seq(Stream!Data), Gather, none, t)
            = Gather[<<After(Seq(Stream!Data), Gather, none, s), e>>]
      BY <1>2, <3>1, <3>2, AfterAppend
    <3> QED BY <3>3 DEF M, none
  <2> QED BY <2>4
<1>6. ASSUME i < Len(input)
      PROVE  Stream!DataOf(<<k, i + 1>>) =
               IF input[i + 1] \in Stream!Data THEN Append(Stream!DataOf(<<k, i>>), input[i + 1])
               ELSE Stream!DataOf(<<k, i>>)
  <2>1. i + 1 \in (k - 1)..Len(input) /\ input[i + 1] \in Stream!Lines
    BY <1>6
  <2> QED BY <1>1, <1>3, <1>5, <1>6, <2>1, GatherIs
<1> QED BY <1>1, <1>3, <1>4, <1>6

LEMMA NameGrows ==
  ASSUME input \in Seq(Stream!Lines), NEW k \in 1..(Len(input) + 1),
         NEW i \in (k - 1)..Len(input)
  PROVE  /\ i = k - 1 => Stream!NameOf(<<k, i>>) = ""
         /\ i < Len(input) =>
              Stream!NameOf(<<k, i + 1>>) =
                IF input[i + 1] \in Stream!Events THEN input[i + 1] ELSE Stream!NameOf(<<k, i>>)
<1> DEFINE Named(j) == {x \in k..j : input[x] \in Stream!Events}
<1>1. \A j : Stream!NameOf(<<k, j>>) = IF Named(j) = {} THEN "" ELSE input[Max(Named(j))]
  <2>1. \A j : <<k, j>>[1] = k /\ <<k, j>>[2] = j
    OBVIOUS
  <2> QED BY <2>1 DEF Stream!NameOf, Stream!Max, Max
<1>2. ASSUME i = k - 1
      PROVE  Named(i) = {}
  BY <1>2
<1>3. ASSUME i < Len(input), input[i + 1] \in Stream!Events
      PROVE  Named(i + 1) # {} /\ Max(Named(i + 1)) = i + 1
  <2>1. i + 1 \in Named(i + 1)
    BY <1>3
  <2>2. i + 1 \in Nat /\ Named(i + 1) \in SUBSET (1..(i + 1))
    BY <1>3
  <2> DEFINE N == Named(i + 1)
  <2> HIDE DEF N
  <2>3. Max(N) \in N /\ \A x \in N : x <= Max(N)
    BY <2>1, <2>2, LastPlace DEF N
  <2>4. Max(N) \in 1..(i + 1) /\ i + 1 <= Max(N)
    BY <2>1, <2>2, <2>3 DEF N
  <2>5. Max(N) = i + 1
    BY <2>2, <2>4
  <2> QED BY <2>1, <2>5 DEF N
<1>4. ASSUME i < Len(input), input[i + 1] \notin Stream!Events
      PROVE  Named(i + 1) = Named(i)
  BY <1>4
<1> HIDE DEF Named
<1> QED BY <1>1, <1>2, <1>3, <1>4

-----------------------------------------------------------------------------
(* The stretch from k, the line after the last blank one or the first, to i. *)
Open(k, i) == /\ k \in 1..(i + 1) /\ (k = 1 \/ Stream!Blank(k - 1))
              /\ \A j \in k..i : ~Stream!Blank(j)

(* The blocks that end before k.                                            *)
Ended(k) == {b \in Stream!Blocks : b[2] < k}

Answering(b) == Stream!DataOf(b) \in Stream!Frames

(* m is the data of the last of S that answers, or nothing.                 *)
IsLast(m, S) ==
  \/ m = <<>> /\ \A b \in S : ~Answering(b)
  \/ \E b \in S : /\ Answering(b) /\ m = Stream!DataOf(b)
                  /\ \A a \in S : Answering(a) => a[2] <= b[2]

LEMMA BlockIs ==
  ASSUME input \in Seq(Stream!Lines), NEW b \in Stream!Blocks
  PROVE  /\ b[1] \in 1..Len(input) /\ b[2] \in 1..Len(input) /\ b[1] <= b[2]
         /\ b = <<b[1], b[2]>>
         /\ \A j \in b[1]..b[2] : ~Stream!Blank(j)
         /\ b[1] = 1 \/ Stream!Blank(b[1] - 1)
         /\ b[2] = Len(input) \/ Stream!Blank(b[2] + 1)
BY DEF Stream!Blocks

(* A block that ends within an open stretch is that stretch, which has      *)
(* then ended.                                                              *)
LEMMA EndedIs ==
  ASSUME input \in Seq(Stream!Lines), NEW i \in 0..Len(input), NEW k, Open(k, i),
         i = Len(input) \/ Stream!Blank(i + 1)
  PROVE  Ended(i + 2) = Ended(k) \cup (IF k <= i THEN {<<k, i>>} ELSE {})
<1>1. k \in 1..(i + 1) /\ i \in Nat /\ Len(input) \in Nat
  BY DEF Open
<1>2. ASSUME NEW b \in Stream!Blocks, b[2] < i + 2
      PROVE  b[2] < k \/ (k <= i /\ b = <<k, i>>)
  <2>1. SUFFICES ASSUME b[2] >= k PROVE k <= i /\ b = <<k, i>>
    BY <1>1, BlockIs
  <2>2. /\ b[1] \in 1..Len(input) /\ b[2] \in 1..Len(input) /\ b[1] <= b[2]
        /\ b = <<b[1], b[2]>> /\ \A j \in b[1]..b[2] : ~Stream!Blank(j)
        /\ b[1] = 1 \/ Stream!Blank(b[1] - 1)
        /\ b[2] = Len(input) \/ Stream!Blank(b[2] + 1)
    BY BlockIs
  <2>3. b[2] <= i
    <3>1. CASE i = Len(input)
      BY <2>2, <3>1
    <3>2. CASE Stream!Blank(i + 1)
      <4>1. b[2] # i + 1
        BY <2>2, <3>2
      <4> QED BY <1>1, <1>2, <2>2, <4>1
    <3> QED BY <3>1, <3>2
  <2>4. b[2] = i
    <3>1. SUFFICES ASSUME b[2] < i PROVE FALSE
      BY <1>1, <2>2, <2>3
    <3>2. b[2] + 1 \in k..i /\ b[2] # Len(input)
      BY <1>1, <2>1, <2>2, <3>1
    <3> QED BY <2>2, <3>2 DEF Open
  <2>5. b[1] = k
    <3>1. CASE b[1] < k
      <4>1. k - 1 \in b[1]..b[2] /\ k # 1
        BY <1>1, <2>1, <2>2, <3>1
      <4> QED BY <2>2, <4>1 DEF Open
    <3>2. CASE b[1] > k
      <4>1. b[1] - 1 \in k..i /\ b[1] # 1
        BY <1>1, <2>2, <2>3, <3>2
      <4> QED BY <2>2, <4>1 DEF Open
    <3> QED BY <1>1, <2>2, <3>1, <3>2
  <2> QED BY <1>1, <2>1, <2>2, <2>4, <2>5
<1>3. ASSUME k <= i
      PROVE  <<k, i>> \in Stream!Blocks
  <2>1. k \in 1..Len(input) /\ i \in 1..Len(input)
    BY <1>1, <1>3
  <2>2. <<k, i>>[1] = k /\ <<k, i>>[2] = i
    OBVIOUS
  <2> QED BY <1>3, <2>1, <2>2 DEF Stream!Blocks, Open
<1>4. \A b \in Stream!Blocks : b[2] < k => b[2] < i + 2
  BY <1>1, BlockIs
<1>5. <<k, i>>[2] = i /\ i < i + 2
  BY <1>1
<1> QED BY <1>2, <1>3, <1>4, <1>5 DEF Ended

(* Flushing the data of a stretch that ends keeps the last answer.          *)
LEMMA FlushKeepsLast ==
  ASSUME input \in Seq(Stream!Lines), NEW i \in 0..Len(input), NEW k, Open(k, i),
         i = Len(input) \/ Stream!Blank(i + 1), NEW m, IsLast(m, Ended(k))
  PROVE  IsLast(IF Answering(<<k, i>>) THEN Stream!DataOf(<<k, i>>) ELSE m, Ended(i + 2))
<1>1. Ended(i + 2) = Ended(k) \cup (IF k <= i THEN {<<k, i>>} ELSE {})
  BY EndedIs
<1>2. k \in 1..(Len(input) + 1) /\ i \in (k - 1)..Len(input)
  BY DEF Open
<1>3. CASE k <= i
  <2>1. \A a \in Ended(k) : a[2] <= i
    BY <1>2, <1>3, BlockIs DEF Ended
  <2>2. <<k, i>>[2] = i /\ i <= i
    OBVIOUS
  <2>3. CASE Answering(<<k, i>>)
    BY <1>1, <1>3, <2>1, <2>2, <2>3 DEF IsLast
  <2>4. CASE ~Answering(<<k, i>>)
    BY <1>1, <1>3, <2>4 DEF IsLast
  <2> QED BY <2>3, <2>4
<1>4. CASE ~(k <= i)
  <2>1. i = k - 1
    BY <1>2, <1>4
  <2>2. Stream!DataOf(<<k, i>>) = <<>>
    BY <1>2, <2>1, DataGrows
  <2>3. <<>> \notin Stream!Frames
    BY DEF Stream!Frames
  <2>4. ~Answering(<<k, i>>)
    BY <2>2, <2>3 DEF Answering
  <2> QED BY <1>1, <1>4, <2>4
<1> QED BY <1>3, <1>4

-----------------------------------------------------------------------------
(* What the variables of parseSSE mean after i lines: within a stretch, its *)
(* data and its name, and the last answer before it; after a done, the last *)
(* answer until then.                                                       *)
Unfinished(S) == \A b \in S : Stream!NameOf(b) # "done"

Reading(p, i) ==
  \E k \in 1..(i + 1) :
    /\ Open(k, i)
    /\ p.current = Stream!DataOf(<<k, i>>) /\ p.event = Stream!NameOf(<<k, i>>)
    /\ IsLast(p.matched, Ended(k)) /\ Unfinished(Ended(k))

Finished(p, i) ==
  \E d \in Stream!Blocks :
    /\ d[2] < i /\ Stream!NameOf(d) = "done" /\ Unfinished(Ended(d[2]))
    /\ p.current = <<>> /\ IsLast(p.matched, Ended(d[2] + 1))

ParserInv(p, i) == IF p.stopped THEN Finished(p, i) ELSE Reading(p, i)

LEMMA ParserBegins ==
  ASSUME input \in Seq(Stream!Lines)
  PROVE  ParserInv(Stream!Start, 0)
<1>1. /\ Stream!Start.stopped = FALSE /\ Stream!Start.current = <<>>
      /\ Stream!Start.event = "" /\ Stream!Start.matched = <<>>
  BY DEF Stream!Start, Stream!Nothing
<1>2. Open(1, 0)
  BY DEF Open
<1>3. 1 \in 1..(Len(input) + 1) /\ 0 \in (1 - 1)..Len(input)
  OBVIOUS
<1>4. Stream!DataOf(<<1, 0>>) = <<>> /\ Stream!NameOf(<<1, 0>>) = ""
  <2>1. ASSUME NEW k, k = 1, NEW i, i = 0
        PROVE  Stream!DataOf(<<k, i>>) = <<>> /\ Stream!NameOf(<<k, i>>) = ""
    <3>1. k \in 1..(Len(input) + 1) /\ i \in (k - 1)..Len(input) /\ i = k - 1
      BY <2>1
    <3> QED BY <3>1, DataGrows, NameGrows
  <2> QED BY <2>1
<1>5. Ended(1) = {}
  BY BlockIs DEF Ended
<1>6. IsLast(<<>>, Ended(1)) /\ Unfinished(Ended(1))
  BY <1>5 DEF IsLast, Unfinished
<1>7. 1 \in 1..(0 + 1)
  OBVIOUS
<1> QED BY <1>1, <1>2, <1>4, <1>6, <1>7 DEF ParserInv, Reading

LEMMA ParserTurns ==
  ASSUME input \in Seq(Stream!Lines), NEW i \in 0..(Len(input) - 1),
         NEW p \in Parsers, ParserInv(p, i)
  PROVE  ParserInv(Turn[<<p, input[i + 1]>>], i + 1)
<1> DEFINE line == input[i + 1]
           q == Turn[<<p, line>>]
<1>1. line \in Stream!Lines /\ i \in Nat /\ i + 1 \in 1..Len(input) /\ i < Len(input)
  OBVIOUS
<1>2. q = IF p.stopped THEN p ELSE Stream!Feed(p, line)
  BY <1>1, TurnIs
<1>3. CASE p.stopped
  <2>1. q = p
    BY <1>2, <1>3
  <2>2. PICK d \in Stream!Blocks :
          /\ d[2] < i /\ Stream!NameOf(d) = "done" /\ Unfinished(Ended(d[2]))
          /\ p.current = <<>> /\ IsLast(p.matched, Ended(d[2] + 1))
    BY <1>3 DEF ParserInv, Finished
  <2>3. d[2] < i + 1
    BY <1>1, <2>2, BlockIs
  <2> QED BY <1>3, <2>1, <2>2, <2>3 DEF ParserInv, Finished
<1>4. CASE ~p.stopped
  <2>1. q = Stream!Feed(p, line)
    BY <1>2, <1>4
  <2> HIDE DEF q, line
  <2>7. Fed(p, line, q)
    BY <1>1, <2>1, FeedIs
  <2>2. PICK k \in 1..(i + 1) :
          /\ Open(k, i)
          /\ p.current = Stream!DataOf(<<k, i>>) /\ p.event = Stream!NameOf(<<k, i>>)
          /\ IsLast(p.matched, Ended(k)) /\ Unfinished(Ended(k))
    BY <1>4 DEF ParserInv, Reading
  <2>3. k \in 1..(Len(input) + 1) /\ i \in (k - 1)..Len(input) /\ k \in 1..((i + 1) + 1)
    BY <1>1
  <2>4. /\ Stream!DataOf(<<k, i + 1>>) =
             IF line \in Stream!Data THEN Append(Stream!DataOf(<<k, i>>), line)
             ELSE Stream!DataOf(<<k, i>>)
        /\ Stream!NameOf(<<k, i + 1>>) =
             IF line \in Stream!Events THEN line ELSE Stream!NameOf(<<k, i>>)
    BY <1>1, <2>3, DataGrows, NameGrows DEF line
  <2>5. CASE line # "blank"
    <3>1. Open(k, i + 1)
      BY <1>1, <2>2, <2>3, <2>5 DEF Open, Stream!Blank, line
    <3>2. /\ q.stopped = p.stopped /\ q.matched = p.matched
          /\ q.current = Stream!DataOf(<<k, i + 1>>) /\ q.event = Stream!NameOf(<<k, i + 1>>)
      <4>1. p = [current |-> p.current, matched |-> p.matched, event |-> p.event, stopped |-> p.stopped]
        BY DEF Parsers
      <4>2. CASE line \in Stream!Events
        <5>1. q = [p EXCEPT !.event = line] /\ line \notin Stream!Data
          BY <2>7, <4>2 DEF Fed, Stream!Events, Stream!Data
        <5> QED BY <2>2, <2>4, <4>1, <4>2, <5>1
      <4>3. CASE line \in Stream!Data
        <5>1. q = [p EXCEPT !.current = Append(p.current, line)] /\ line \notin Stream!Events
          BY <2>7, <4>3 DEF Fed, Stream!Events, Stream!Data
        <5> QED BY <2>2, <2>4, <4>1, <4>3, <5>1
      <4>4. CASE line = "comment"
        <5>1. q = p /\ line \notin Stream!Events /\ line \notin Stream!Data
          BY <2>7, <4>4 DEF Fed, Stream!Events, Stream!Data
        <5> QED BY <2>2, <2>4, <5>1
      <4> QED BY <1>1, <2>5, <4>2, <4>3, <4>4 DEF Stream!Lines
    <3>3. Reading(q, i + 1)
      BY <2>2, <2>3, <3>1, <3>2 DEF Reading
    <3> QED BY <1>4, <3>2, <3>3 DEF ParserInv, q, line
  <2>6. CASE line = "blank"
    <3>1. Stream!Blank(i + 1)
      BY <2>6 DEF Stream!Blank, line
    <3>2. /\ q.current = <<>> /\ q.stopped = (p.event = "done")
          /\ q.matched = IF Answering(<<k, i>>) THEN Stream!DataOf(<<k, i>>) ELSE p.matched
          /\ p.event # "done" => q.event = ""
      BY <2>2, <2>6, <2>7 DEF Fed, Answering
    <3>3. IsLast(q.matched, Ended(i + 2))
      <4>1. i \in 0..Len(input)
        BY <1>1
      <4> QED BY <2>2, <3>1, <3>2, <4>1, FlushKeepsLast
    <3>4. Ended(i + 2) = Ended(k) \cup (IF k <= i THEN {<<k, i>>} ELSE {})
      <4>1. i \in 0..Len(input)
        BY <1>1
      <4> QED BY <2>2, <3>1, <4>1, EndedIs
    <3>5. CASE p.event = "done"
      <4>1. k <= i
        <5>1. i = k - 1 => p.event = ""
          BY <2>2, <2>3, NameGrows
        <5>2. i # k - 1
          BY <3>5, <5>1
        <5> QED BY <2>3, <5>2
      <4> DEFINE d == <<k, i>>
      <4>2. d[2] = i /\ d \in Ended(i + 2)
        BY <3>4, <4>1
      <4>3. d \in Stream!Blocks
        BY <4>2 DEF Ended
      <4>4. Unfinished(Ended(i))
        <5>1. ASSUME NEW b \in Ended(i)
              PROVE  b \in Ended(k)
          <6>1. b \in Stream!Blocks /\ b[2] < i /\ b[2] \in Int
            BY BlockIs DEF Ended
          <6>2. b \in Ended(i + 2) /\ b # d
            BY <1>1, <4>2, <6>1 DEF Ended
          <6> QED BY <3>4, <6>2
        <5> QED BY <2>2, <5>1 DEF Unfinished
      <4>5. Ended(i + 1) = Ended(i + 2)
        <5>1. \A b \in Stream!Blocks : b[2] \in Int /\ b[2] # i + 1
          BY <3>1, BlockIs
        <5> QED BY <1>1, <5>1 DEF Ended
      <4>6. Stream!NameOf(d) = "done" /\ i < i + 1
        BY <1>1, <2>2, <3>5
      <4>7. Finished(q, i + 1)
        BY <3>2, <3>3, <4>2, <4>3, <4>4, <4>5, <4>6 DEF Finished
      <4> QED BY <3>2, <3>5, <4>7 DEF ParserInv, q, line
    <3>6. CASE p.event # "done"
      <4>1. i + 2 \in 1..((i + 1) + 1) /\ (i + 2) - 1 = i + 1
        BY <1>1
      <4>2. Open(i + 2, i + 1)
        BY <1>1, <3>1, <4>1 DEF Open
      <4>3. i + 2 \in 1..(Len(input) + 1) /\ i + 1 \in ((i + 2) - 1)..Len(input)
        BY <1>1
      <4>4. Stream!DataOf(<<i + 2, i + 1>>) = <<>> /\ Stream!NameOf(<<i + 2, i + 1>>) = ""
        BY <4>1, <4>3, DataGrows, NameGrows
      <4>5. Unfinished(Ended(i + 2))
        BY <2>2, <3>4, <3>6 DEF Unfinished
      <4>6. Reading(q, i + 1)
        BY <3>2, <3>3, <3>6, <4>1, <4>2, <4>4, <4>5 DEF Reading
      <4> QED BY <3>2, <3>6, <4>6 DEF ParserInv, q, line
    <3> QED BY <3>5, <3>6
  <2> QED BY <2>5, <2>6
<1> QED BY <1>3, <1>4

(* At the end of the stream, the run has read what counts.                  *)
LEMMA ParserRuns ==
  ASSUME input \in Seq(Stream!Lines)
  PROVE  LET p == After(Parsers, Turn, Stream!Start, input) IN
         p \in Parsers /\ ParserInv(p, Len(input))
<1> DEFINE r == Run(Parsers, Turn, Stream!Start, input)
           n == Len(input)
           S == {i \in 0..n : ParserInv(r[i], i)}
<1>1. IsMachine(Parsers, Stream!Lines, Turn) /\ Stream!Start \in Parsers /\ n \in Nat
  BY TurnIs, StartTyped
<1>2. /\ r \in [0..n -> Parsers] /\ IsRun(r, Turn, Stream!Start, input)
      /\ After(Parsers, Turn, Stream!Start, input) = r[n]
  BY <1>1, RunExists DEF After
<1> HIDE DEF r
<1>3. 0 \in S
  BY <1>1, <1>2, ParserBegins DEF IsRun
<1>4. ASSUME NEW i \in 0..(n - 1), i \in S
      PROVE  i + 1 \in S
  <2>1. i \in 0..n /\ i + 1 \in 1..n /\ i + 1 \in 0..n /\ (i + 1) - 1 = i
    BY <1>1
  <2>2. r[i] \in Parsers /\ ParserInv(r[i], i)
    BY <1>2, <1>4, <2>1
  <2>3. r[i + 1] = Turn[<<r[i], input[i + 1]>>]
    BY <1>2, <2>1 DEF IsRun
  <2>4. ParserInv(Turn[<<r[i], input[i + 1]>>], i + 1)
    BY <2>2, ParserTurns
  <2> QED BY <2>1, <2>3, <2>4
<1>5. n \in S
  <2> HIDE DEF S
  <2>1. \A i \in 0..n : i \in S
    BY <1>1, <1>3, <1>4, Upward, Zenon
  <2> QED BY <1>1, <2>1
<1> QED BY <1>1, <1>2, <1>5

(* The last answer is the one that LastFrameWins chooses.                   *)
LEMMA LastIsChosen ==
  ASSUME input \in Seq(Stream!Lines), NEW m, IsLast(m, Stream!Read)
  PROVE  m = IF Stream!Answers = {} THEN Stream!Nothing
             ELSE Stream!DataOf(CHOOSE b \in Stream!Answers :
                                  \A a \in Stream!Answers : a[2] <= b[2])
<1>1. Stream!Answers = {b \in Stream!Read : Answering(b)}
  BY DEF Stream!Answers, Answering
<1>2. Stream!Answers \subseteq Stream!Blocks
  BY DEF Stream!Answers, Stream!Read
<1>3. CASE m = <<>> /\ \A b \in Stream!Read : ~Answering(b)
  <2>1. Stream!Answers = {}
    BY <1>1, <1>3
  <2> QED BY <1>3, <2>1 DEF Stream!Nothing
<1>4. CASE \E b \in Stream!Read :
             /\ Answering(b) /\ m = Stream!DataOf(b)
             /\ \A a \in Stream!Read : Answering(a) => a[2] <= b[2]
  <2>1. PICK b \in Stream!Answers : m = Stream!DataOf(b) /\ \A a \in Stream!Answers : a[2] <= b[2]
    BY <1>1, <1>4
  <2> DEFINE c == CHOOSE x \in Stream!Answers : \A a \in Stream!Answers : a[2] <= x[2]
  <2>2. c \in Stream!Answers /\ \A a \in Stream!Answers : a[2] <= c[2]
    BY <2>1
  <2> HIDE DEF c
  <2>3. b \in Stream!Blocks /\ c \in Stream!Blocks
    BY <1>2, <2>1, <2>2
  <2>4. b[2] = c[2]
    BY <2>1, <2>2, <2>3, BlockIs
  <2>5. b = c
    <3>1. /\ b = <<b[1], b[2]>> /\ c = <<c[1], c[2]>>
          /\ b[1] \in Nat /\ c[1] \in Nat /\ b[2] \in Nat
          /\ b[1] <= b[2] /\ c[1] <= b[2]
          /\ \A j \in b[1]..b[2] : ~Stream!Blank(j)
          /\ \A j \in c[1]..b[2] : ~Stream!Blank(j)
          /\ b[1] >= 1 /\ c[1] >= 1
          /\ b[1] = 1 \/ Stream!Blank(b[1] - 1)
          /\ c[1] = 1 \/ Stream!Blank(c[1] - 1)
      BY <2>3, <2>4, BlockIs
    <3>2. ~(b[1] < c[1])
      <4>1. ASSUME b[1] < c[1]
            PROVE  c[1] # 1 /\ c[1] - 1 \in b[1]..b[2]
        BY <3>1, <4>1
      <4> QED BY <3>1, <4>1
    <3>3. ~(c[1] < b[1])
      <4>1. ASSUME c[1] < b[1]
            PROVE  b[1] # 1 /\ b[1] - 1 \in c[1]..b[2]
        BY <3>1, <4>1
      <4> QED BY <3>1, <4>1
    <3>4. b[1] = c[1]
      BY <3>1, <3>2, <3>3
    <3> QED BY <2>4, <3>1, <3>4
  <2>6. Stream!Answers # {}
    BY <2>1
  <2> QED BY <2>1, <2>5, <2>6 DEF c
<1> QED BY <1>3, <1>4 DEF IsLast

(* parseSSE returns the last answer of any stream.                          *)
LEMMA StreamAny ==
  ASSUME input \in Seq(Stream!Lines)
  PROVE  Stream!LastFrameWins
<1> DEFINE p == After(Parsers, Turn, Stream!Start, input)
           n == Len(input)
           m == Stream!Flush(p).matched
<1>1. p \in Parsers /\ ParserInv(p, n)
  BY ParserRuns
<1>2. Stream!ParseSSE(input) = m
  BY StreamFold
<1> HIDE DEF p
<1>3. m = IF p.current \in Stream!Frames THEN p.current ELSE p.matched
  <2>1. p = [current |-> p.current, matched |-> p.matched, event |-> p.event, stopped |-> p.stopped]
    BY <1>1 DEF Parsers
  <2> QED BY <2>1 DEF Stream!Flush
<1> HIDE DEF m
<1>4. n \in Nat /\ n \in 0..Len(input)
  OBVIOUS
<1>5. IsLast(m, Stream!Read)
  <2>1. CASE p.stopped
    <3>1. PICK d \in Stream!Blocks :
            /\ d[2] < n /\ Stream!NameOf(d) = "done" /\ Unfinished(Ended(d[2]))
            /\ p.current = <<>> /\ IsLast(p.matched, Ended(d[2] + 1))
      BY <1>1, <2>1 DEF ParserInv, Finished
    <3>2. m = p.matched
      <4>1. <<>> \notin Stream!Frames
        BY DEF Stream!Frames
      <4> QED BY <1>3, <3>1, <4>1
    <3>3. d[2] \in 1..n /\ d[1] \in 1..n /\ Stream!Blank(d[2] + 1)
      BY <1>4, <3>1, BlockIs
    <3>4. ASSUME NEW b \in Stream!Read
          PROVE  b \in Ended(d[2] + 1)
      <4>1. b \in Stream!Blocks /\ ~(d[2] < b[1])
        BY <3>1 DEF Stream!Read
      <4>2. b[1] \in 1..n /\ b[2] \in 1..n /\ \A j \in b[1]..b[2] : ~Stream!Blank(j)
        BY <4>1, BlockIs
      <4>3. d[2] + 1 \notin b[1]..b[2]
        BY <3>3, <4>2
      <4>4. b[2] < d[2] + 1
        BY <3>3, <4>1, <4>2, <4>3
      <4> QED BY <4>1, <4>4 DEF Ended
    <3>5. ASSUME NEW b \in Ended(d[2] + 1)
          PROVE  b \in Stream!Read
      <4>1. b \in Stream!Blocks /\ b[2] < d[2] + 1 /\ b[1] \in 1..n /\ b[2] \in 1..n /\ b[1] <= b[2]
        BY BlockIs DEF Ended
      <4>2. ASSUME NEW a \in Stream!Blocks, a[2] < b[1]
            PROVE  Stream!NameOf(a) # "done"
        <5>1. a[2] \in Int /\ a[2] < d[2]
          BY <3>3, <4>1, <4>2, BlockIs
        <5>2. a \in Ended(d[2])
          BY <5>1 DEF Ended
        <5> QED BY <3>1, <5>2 DEF Unfinished
      <4> QED BY <4>1, <4>2 DEF Stream!Read
    <3>6. Stream!Read = Ended(d[2] + 1)
      BY <3>4, <3>5
    <3> QED BY <3>1, <3>2, <3>6
  <2>2. CASE ~p.stopped
    <3>1. PICK k \in 1..(n + 1) :
            /\ Open(k, n)
            /\ p.current = Stream!DataOf(<<k, n>>) /\ p.event = Stream!NameOf(<<k, n>>)
            /\ IsLast(p.matched, Ended(k)) /\ Unfinished(Ended(k))
      BY <1>1, <2>2 DEF ParserInv, Reading
    <3>2. IsLast(m, Ended(n + 2))
      <4>1. m = IF Answering(<<k, n>>) THEN Stream!DataOf(<<k, n>>) ELSE p.matched
        BY <1>3, <3>1 DEF Answering
      <4> QED BY <1>4, <3>1, <4>1, FlushKeepsLast
    <3>3. Ended(n + 2) = Stream!Blocks
      BY <1>4, BlockIs DEF Ended
    <3>4. Ended(n + 2) = Ended(k) \cup (IF k <= n THEN {<<k, n>>} ELSE {})
      BY <1>4, <3>1, EndedIs
    <3>5. ASSUME NEW b \in Stream!Blocks, NEW a \in Stream!Blocks, a[2] < b[1]
          PROVE  Stream!NameOf(a) # "done"
      <4>1. a # <<k, n>>
        <5>1. b[1] \in 1..n
          BY BlockIs
        <5>2. <<k, n>>[2] = n
          OBVIOUS
        <5> QED BY <1>4, <3>5, <5>1, <5>2
      <4>2. a \in Ended(k)
        BY <3>3, <3>4, <4>1
      <4> QED BY <3>1, <4>2 DEF Unfinished
    <3>6. Stream!Read = Stream!Blocks
      BY <3>5 DEF Stream!Read
    <3> QED BY <3>2, <3>3, <3>6
  <2> QED BY <2>1, <2>2
<1> QED BY <1>2, <1>5, LastIsChosen DEF Stream!LastFrameWins

-----------------------------------------------------------------------------
(* Texts one after another.                                                 *)
Glue(E) == [x \in Seq(E) \X Seq(E) |-> x[1] \o x[2]]

LEMMA GlueIs ==
  ASSUME NEW E
  PROVE  /\ IsMachine(Seq(E), Seq(E), Glue(E))
         /\ \A s \in Seq(E), t \in Seq(E) : Glue(E)[<<s, t>>] = s \o t
<1>1. \A s \in Seq(E), t \in Seq(E) : s \o t \in Seq(E)
  OBVIOUS
<1>2. \A x \in Seq(E) \X Seq(E) : x[1] \in Seq(E) /\ x[2] \in Seq(E)
  OBVIOUS
<1> QED BY <1>1, <1>2 DEF Glue, IsMachine

LEMMA ConcatFold ==
  ASSUME NEW E, NEW texts \in Seq(Seq(E))
  PROVE  Scrape!Concat(texts) = After(Seq(E), Glue(E), <<>>, texts)
<1> DEFINE C == Seq(E)
           step == Glue(E)
           Recursion(g) ==
             g = [T \in SUBSET DOMAIN texts |->
                    IF T = {} THEN <<>> ELSE g[T \ {Max(T)}] \o texts[Max(T)]]
           f == CHOOSE g : Recursion(g)
<1>1. <<>> \in C
  OBVIOUS
<1>2. Scrape!Concat(texts) = f[DOMAIN texts]
  BY DEF Scrape!Concat, Scrape!FoldLeft, Scrape!MapThenFoldSet, Scrape!Max, Max
<1>3. ASSUME NEW T \in SUBSET DOMAIN texts, T # {}
      PROVE  Max(T) \in T /\ texts[Max(T)] \in C /\ T \ {Max(T)} \in SUBSET DOMAIN texts
  <2>1. DOMAIN texts = 1..Len(texts) /\ Len(texts) \in Nat
    OBVIOUS
  <2>2. Max(T) \in T
    BY <1>3, <2>1, LastPlace
  <2> QED BY <2>1, <2>2
<1>9. IsMachine(C, C, step) /\ \A s \in C, t \in C : step[<<s, t>>] = s \o t
  BY GlueIs
<1>10. texts \in Seq(C)
  OBVIOUS
<1> HIDE DEF C, step
<1>4. \E g : Recursion(g)
  <2>1. PICK g : IsLeftFold(g, C, step, <<>>, texts)
    BY <1>1, <1>9, <1>10, LeftFoldExists
  <2>2. g \in [SUBSET DOMAIN texts -> C] /\ g[{}] = <<>>
    BY <2>1 DEF IsLeftFold
  <2>3. ASSUME NEW T \in SUBSET DOMAIN texts, T # {}
        PROVE  g[T] = g[T \ {Max(T)}] \o texts[Max(T)]
    <3>1. g[T] = step[<<g[T \ {Max(T)}], texts[Max(T)]>>]
      BY <2>1, <2>3, Zenon DEF IsLeftFold
    <3>2. g[T \ {Max(T)}] \in C /\ texts[Max(T)] \in C
      BY <1>3, <2>2, <2>3
    <3> QED BY <3>1, <3>2, <1>9, Zenon
  <2>4. Recursion(g)
    BY <2>2, <2>3
  <2> QED BY <2>4
<1>5. Recursion(f)
  <2> HIDE DEF Recursion
  <2> QED BY <1>4, Zenon
<1>6. f[{}] = <<>>
  BY <1>5, Zenon
<1>7. ASSUME NEW T \in SUBSET DOMAIN texts, T # {}, f[T \ {Max(T)}] \in C
      PROVE  f[T] = step[<<f[T \ {Max(T)}], texts[Max(T)]>>]
  <2>1. f[T] = f[T \ {Max(T)}] \o texts[Max(T)]
    <3> HIDE DEF f
    <3> QED BY <1>5, <1>7
  <2> HIDE DEF f, Recursion
  <2> QED BY <1>3, <1>7, <1>9, <2>1, Zenon
<1>8. f[DOMAIN texts] = After(C, step, <<>>, texts)
  <2> HIDE DEF f, Recursion
  <2>1. Follows(f, C, step, <<>>, texts)
    BY <1>6, <1>7 DEF Follows
  <2> QED BY <1>1, <1>9, <1>10, <2>1, LeftFoldIsAfter
<1> QED BY <1>2, <1>8 DEF C, step

(* One text more.                                                           *)
LEMMA ConcatGrows ==
  ASSUME NEW E, NEW texts \in Seq(Seq(E))
  PROVE  /\ Scrape!Concat(texts) \in Seq(E)
         /\ texts = <<>> => Scrape!Concat(texts) = <<>>
         /\ \A text \in Seq(E) : \A more : IsAppend(more, texts, text) =>
              Scrape!Concat(more) = Scrape!Concat(texts) \o text
<1> DEFINE C == Seq(E)
           step == Glue(E)
           none == <<>>
<1>1. none \in C /\ none = <<>>
  OBVIOUS
<1>2. IsMachine(C, C, step) /\ \A s \in C, t \in C : step[<<s, t>>] = s \o t
  BY GlueIs
<1>3. \A t \in Seq(C) : Scrape!Concat(t) = After(C, step, none, t)
  BY ConcatFold
<1>4. texts \in Seq(C)
  OBVIOUS
<1> HIDE DEF C, step, none
<1>5. After(C, step, none, texts) \in C
  BY <1>1, <1>2, <1>4, RunExists
<1>6. texts = <<>> => After(C, step, none, texts) = none
  BY <1>1, <1>2, AfterEmpty
<1>7. ASSUME NEW text \in C, NEW more, IsAppend(more, texts, text)
      PROVE  Scrape!Concat(more) = Scrape!Concat(texts) \o text
  <2>1. more \in Seq(C)
    BY <1>4, <1>7 DEF IsAppend
  <2>2. After(C, step, none, more) = step[<<After(C, step, none, texts), text>>]
    BY <1>1, <1>2, <1>4, <1>7, AfterAppend
  <2> QED BY <1>2, <1>3, <1>4, <1>5, <2>1, <2>2, Zenon
<1> QED BY <1>1, <1>3, <1>4, <1>5, <1>6, <1>7 DEF C

(* The first i + 1 elements of a sequence.                                  *)
LEMMA Prefix ==
  ASSUME NEW E, NEW s \in Seq(E)
  PROVE  /\ SubSeq(s, 1, 0) = <<>> /\ SubSeq(s, 1, Len(s)) = s
         /\ \A i \in 0..(Len(s) - 1) :
              /\ SubSeq(s, 1, i) \in Seq(E) /\ s[i + 1] \in E
              /\ IsAppend(SubSeq(s, 1, i + 1), SubSeq(s, 1, i), s[i + 1])
<1>1. SubSeq(s, 1, 0) = <<>>
  BY SubSeqEmpty
<1>2. SubSeq(s, 1, Len(s)) = s
  BY SubSeqFull
<1>3. ASSUME NEW i \in 0..(Len(s) - 1)
      PROVE  /\ SubSeq(s, 1, i) \in Seq(E) /\ s[i + 1] \in E
             /\ SubSeq(s, 1, i + 1) = Append(SubSeq(s, 1, i), s[i + 1])
  <2>1. i + 1 \in 1..Len(s) /\ (i + 1) - 1 = i
    OBVIOUS
  <2>2. SubSeq(s, 1, i) \in Seq(E)
    <3>1. 1 \in Int /\ i \in Int /\ \A x \in 1..i : s[x] \in E
      OBVIOUS
    <3> QED BY <3>1, SubSeqProperties
  <2>3. SubSeq(s, 1, i + 1) = SubSeq(s, 1, i) \o <<s[i + 1]>>
    BY <2>1, SubSeqRecursiveSecond
  <2> QED BY <2>1, <2>2, <2>3, AppendIsConcat
<1> QED BY <1>1, <1>2, <1>3 DEF IsAppend

(* What has been put together after i texts.                                *)
Assembled(texts) == [i \in 0..Len(texts) |-> Scrape!Concat(SubSeq(texts, 1, i))]

LEMMA ConcatSteps ==
  ASSUME NEW E, NEW texts \in Seq(Seq(E)), NEW n, n = Len(texts)
  PROVE  /\ Assembled(texts)[0] = <<>> /\ Assembled(texts)[n] = Scrape!Concat(texts)
         /\ \A i \in 0..n : Assembled(texts)[i] \in Seq(E)
         /\ \A i \in 0..(n - 1) : Assembled(texts)[i + 1] = Assembled(texts)[i] \o texts[i + 1]
<1> DEFINE C == Seq(E)
           P == Assembled(texts)
           part(i) == SubSeq(texts, 1, i)
<1>1. /\ part(0) = <<>> /\ part(n) = texts /\ n \in Nat
      /\ \A i \in 0..(n - 1) : /\ part(i) \in Seq(C) /\ texts[i + 1] \in C
                               /\ IsAppend(part(i + 1), part(i), texts[i + 1])
  BY Prefix
<1>2. \A i \in 0..n : part(i) \in Seq(C)
  <2>1. texts \in Seq(C)
    OBVIOUS
  <2> HIDE DEF C, part
  <2> QED BY <1>1, <2>1
<1>3. \A i \in 0..n : P[i] = Scrape!Concat(part(i))
  BY DEF Assembled
<1> HIDE DEF part, P
<1>4. \A i \in 0..n : P[i] \in C
  BY <1>2, <1>3, ConcatGrows
<1>5. P[0] = <<>> /\ P[n] = Scrape!Concat(texts)
  <2>1. 0 \in 0..n /\ n \in 0..n
    BY <1>1
  <2> QED BY <1>1, <1>2, <1>3, <2>1, ConcatGrows
<1>6. ASSUME NEW i \in 0..(n - 1)
      PROVE  P[i + 1] = P[i] \o texts[i + 1]
  <2>1. i \in 0..n /\ i + 1 \in 0..n
    BY <1>1
  <2>2. Scrape!Concat(part(i + 1)) = Scrape!Concat(part(i)) \o texts[i + 1]
    BY <1>1, <1>2, <2>1, ConcatGrows
  <2> QED BY <1>3, <2>1, <2>2
<1> QED BY <1>4, <1>5, <1>6 DEF P

-----------------------------------------------------------------------------
(* parseSpawn as a machine that reads characters.                           *)
Args      == Seq(Seq(Split!Chars))
Splitters == [parts : Args, cur : Seq(Split!Chars), inQuote : Split!Quotes \cup {""},
              escaped : BOOLEAN, emitted : BOOLEAN]

(* Its states between arguments, within one, within quotes of the kind k,   *)
(* and after a backslash.                                                   *)
Splitter(parts, cur, inQuote, escaped, emitted) ==
  [parts |-> parts, cur |-> cur, inQuote |-> inQuote, escaped |-> escaped, emitted |-> emitted]
Between(parts)              == Splitter(parts, <<>>, "", FALSE, FALSE)
Inside(parts, cur)          == Splitter(parts, cur, "", FALSE, TRUE)
Quoted(parts, cur, k)       == Splitter(parts, cur, k, FALSE, TRUE)
Escaping(parts, cur, begun) == Splitter(parts, cur, "", TRUE, begun)
Plain(parts, cur, begun)    == Splitter(parts, cur, "", FALSE, begun)

PlainlyFed(parts, cur, begun, c) ==
  LET p == Plain(parts, cur, begun) IN
  /\ c \in Split!Spaces => Split!Feed(p, c) = Split!Emit(p)
  /\ c \in Split!Quotes => Split!Feed(p, c) = Quoted(parts, cur, c)
  /\ c = "\\" => Split!Feed(p, c) = Escaping(parts, cur, begun)
  /\ c = "a" => Split!Feed(p, c) = Inside(parts, Append(cur, c))

(* Two states with the same variables are one.                              *)
LEMMA SameRecord ==
  ASSUME NEW A, NEW B, NEW C,
         NEW p \in [parts : A, cur : B, inQuote : C, escaped : BOOLEAN, emitted : BOOLEAN],
         NEW q \in [parts : A, cur : B, inQuote : C, escaped : BOOLEAN, emitted : BOOLEAN],
         p.parts = q.parts, p.cur = q.cur,
         p.inQuote = q.inQuote, p.escaped = q.escaped, p.emitted = q.emitted
  PROVE  p = q
OBVIOUS

LEMMA SameSplitter ==
  ASSUME NEW p \in Splitters, NEW q \in Splitters, p.parts = q.parts, p.cur = q.cur,
         p.inQuote = q.inQuote, p.escaped = q.escaped, p.emitted = q.emitted
  PROVE  p = q
BY SameRecord DEF Splitters

(* The states are typed.                                                    *)
LEMMA ArgsGrow == \A s \in Args, t \in Seq(Split!Chars) : Append(s, t) \in Args
BY DEF Args

LEMMA BetweenTyped ==
  ASSUME NEW parts \in Args
  PROVE  Between(parts) \in Splitters
<1>1. <<>> \in Seq(Split!Chars)
  OBVIOUS
<1> QED BY <1>1 DEF Between, Splitter, Splitters

LEMMA QuotedTyped ==
  ASSUME NEW parts \in Args, NEW cur \in Seq(Split!Chars), NEW k \in Split!Quotes
  PROVE  Quoted(parts, cur, k) \in Splitters /\ Quoted(parts, <<>>, k) \in Splitters
<1>1. <<>> \in Seq(Split!Chars)
  OBVIOUS
<1> QED BY <1>1 DEF Quoted, Splitter, Splitters

(* What a character does in each state.                                     *)
LEMMA BetweenFed ==
  ASSUME NEW parts \in Args, NEW c \in Split!Chars
  PROVE  /\ c \in Split!Spaces => Split!Feed(Between(parts), c) = Between(parts)
         /\ c \in Split!Quotes => Split!Feed(Between(parts), c) = Quoted(parts, <<>>, c)
         /\ c = "\\" => Split!Feed(Between(parts), c) = Escaping(parts, <<>>, FALSE)
         /\ c = "a" => Split!Feed(Between(parts), c) = Inside(parts, <<c>>)
<1>1. CASE c \in Split!Spaces
  BY <1>1 DEF Split!Spaces, Split!Quotes, Split!Feed, Split!Emit, Between, Splitter
<1>2. CASE c \in Split!Quotes
  BY <1>2 DEF Split!Spaces, Split!Quotes, Split!Feed, Between, Quoted, Splitter
<1>3. CASE c = "\\"
  BY <1>3 DEF Split!Spaces, Split!Quotes, Split!Feed, Between, Escaping, Splitter
<1>4. CASE c = "a"
  <2>1. Append(<<>>, c) = <<c>>
    OBVIOUS
  <2> QED BY <1>4, <2>1 DEF Split!Spaces, Split!Quotes, Split!Feed, Split!Keep, Between, Inside, Splitter
<1> QED BY <1>1, <1>2, <1>3, <1>4 DEF Split!Chars

LEMMA InsideFed ==
  ASSUME NEW parts \in Args, NEW cur \in Seq(Split!Chars), NEW c \in Split!Chars
  PROVE  /\ c \in Split!Spaces => Split!Feed(Inside(parts, cur), c) = Between(Append(parts, cur))
         /\ c = "\\" => Split!Feed(Inside(parts, cur), c) = Escaping(parts, cur, TRUE)
         /\ c = "a" => Split!Feed(Inside(parts, cur), c) = Inside(parts, Append(cur, c))
<1>1. CASE c \in Split!Spaces
  BY <1>1 DEF Split!Spaces, Split!Quotes, Split!Feed, Split!Emit, Between, Inside, Splitter
<1>3. CASE c = "\\"
  BY <1>3 DEF Split!Spaces, Split!Quotes, Split!Feed, Inside, Escaping, Splitter
<1>4. CASE c = "a"
  BY <1>4 DEF Split!Spaces, Split!Quotes, Split!Feed, Split!Keep, Inside, Splitter
<1> QED BY <1>1, <1>3, <1>4

LEMMA QuotedFed ==
  ASSUME NEW parts \in Args, NEW cur \in Seq(Split!Chars), NEW k \in Split!Quotes, NEW c \in Split!Chars
  PROVE  Split!Feed(Quoted(parts, cur, k), c)
           = IF c = k THEN Inside(parts, cur) ELSE Quoted(parts, Append(cur, c), k)
<1>1. k # ""
  BY DEF Split!Quotes
<1> DEFINE p == Quoted(parts, cur, k)
<1>2. /\ p \in Splitters /\ p.parts = parts /\ p.cur = cur /\ p.inQuote = k
      /\ p.escaped = FALSE /\ p.emitted = TRUE
  BY DEF Quoted, Splitter, Splitters
<1>3. CASE c = k
  <2> DEFINE r == Inside(parts, cur)
  <2>1. /\ r \in Splitters /\ r.parts = parts /\ r.cur = cur /\ r.inQuote = ""
        /\ r.escaped = FALSE /\ r.emitted = TRUE
    BY DEF Inside, Splitter, Splitters
  <2>2. Split!Feed(p, c) = [p EXCEPT !.inQuote = "", !.emitted = TRUE]
    <3> HIDE DEF p
    <3> QED BY <1>1, <1>2, <1>3 DEF Split!Feed
  <2> DEFINE q == Split!Feed(p, c)
  <2>3. /\ q \in Splitters /\ q.parts = parts /\ q.cur = cur /\ q.inQuote = ""
        /\ q.escaped = FALSE /\ q.emitted = TRUE
    <3> HIDE DEF p, q
    <3> QED BY <1>2, <2>2 DEF Splitters, q
  <2> HIDE DEF p, q, r
  <2>4. q = r
    BY <2>1, <2>3, SameSplitter
  <2> QED BY <1>3, <2>4 DEF p, q, r
<1>4. CASE c # k
  <2> DEFINE r == Quoted(parts, Append(cur, c), k)
  <2>1. /\ r \in Splitters /\ r.parts = parts /\ r.cur = Append(cur, c) /\ r.inQuote = k
        /\ r.escaped = FALSE /\ r.emitted = TRUE
    <3>1. Append(cur, c) \in Seq(Split!Chars)
      OBVIOUS
    <3> QED BY <3>1 DEF Quoted, Splitter, Splitters
  <2>2. Split!Feed(p, c) = [p EXCEPT !.cur = Append(p.cur, c)]
    <3> HIDE DEF p
    <3> QED BY <1>1, <1>2, <1>4 DEF Split!Feed, Split!Keep
  <2> DEFINE q == Split!Feed(p, c)
  <2>3. /\ q \in Splitters /\ q.parts = parts /\ q.cur = Append(cur, c) /\ q.inQuote = k
        /\ q.escaped = FALSE /\ q.emitted = TRUE
    <3>1. Append(cur, c) \in Seq(Split!Chars)
      OBVIOUS
    <3> HIDE DEF p, q
    <3> QED BY <1>2, <2>2, <3>1 DEF Splitters, q
  <2> HIDE DEF p, q, r
  <2>4. q = r
    BY <2>1, <2>3, SameSplitter
  <2> QED BY <1>4, <2>4 DEF p, q, r
<1> QED BY <1>3, <1>4

LEMMA EscapingFed ==
  ASSUME NEW parts \in Args, NEW cur \in Seq(Split!Chars), NEW begun \in BOOLEAN, NEW c \in Split!Chars
  PROVE  Split!Feed(Escaping(parts, cur, begun), c) = Inside(parts, Append(cur, c))
BY DEF Split!Feed, Split!Keep, Inside, Escaping, Splitter

LEMMA PlainFed ==
  ASSUME NEW parts \in Args, NEW cur \in Seq(Split!Chars), NEW begun \in BOOLEAN, NEW c \in Split!Chars
  PROVE  PlainlyFed(parts, cur, begun, c)
<1> USE DEF PlainlyFed, Plain, Inside, Quoted, Escaping
<1>1. CASE c \in Split!Spaces
  BY <1>1 DEF Split!Spaces, Split!Quotes, Split!Feed, Splitter
<1>2. CASE c \in Split!Quotes
  BY <1>2 DEF Split!Spaces, Split!Quotes, Split!Feed, Splitter
<1>3. CASE c = "\\"
  BY <1>3 DEF Split!Spaces, Split!Quotes, Split!Feed, Splitter
<1>4. CASE c = "a"
  BY <1>4 DEF Split!Spaces, Split!Quotes, Split!Feed, Split!Keep, Splitter
<1> QED BY <1>1, <1>2, <1>3, <1>4 DEF Split!Spaces, Split!Quotes

(* Every character leads from a state to a state.                           *)
LEMMA FedTyped ==
  ASSUME NEW p \in Splitters, NEW c \in Split!Chars
  PROVE  Split!Feed(p, c) \in Splitters
<1> DEFINE parts == p.parts
           cur == p.cur
           quote == p.inQuote
           begun == p.emitted
           q == Split!Feed(p, c)
<1>1. /\ parts \in Args /\ cur \in Seq(Split!Chars) /\ quote \in Split!Quotes \cup {""}
      /\ p.escaped \in BOOLEAN /\ begun \in BOOLEAN
      /\ p = Splitter(parts, cur, quote, p.escaped, begun)
  BY DEF Splitters, Splitter
<1>2. /\ Append(cur, c) \in Seq(Split!Chars) /\ Append(parts, cur) \in Args
      /\ <<>> \in Seq(Split!Chars)
  <2>1. \A s \in Seq(Split!Chars) : Append(s, c) \in Seq(Split!Chars)
    OBVIOUS
  <2>2. <<>> \in Seq(Split!Chars)
    OBVIOUS
  <2> QED BY <1>1, <2>1, <2>2, ArgsGrow
<1>3. TRUE \in BOOLEAN /\ FALSE \in BOOLEAN /\ "" \in Split!Quotes \cup {""}
  OBVIOUS
<1>4. \A s \in Seq(Split!Chars), k \in Split!Quotes \cup {""}, x \in BOOLEAN, y \in BOOLEAN :
        Splitter(parts, s, k, x, y) \in Splitters
  BY <1>1 DEF Splitter, Splitters
<1>5. CASE p.escaped
  <2>1. q = Splitter(parts, Append(cur, c), quote, FALSE, TRUE)
    BY <1>1, <1>5 DEF Split!Feed, Split!Keep, Splitter
  <2> HIDE DEF parts, cur, quote, begun, q
  <2>2. q \in Splitters
    BY <1>1, <1>2, <1>3, <1>4, <2>1, Zenon
  <2> QED BY <2>2 DEF q
<1>6. CASE ~p.escaped /\ quote # ""
  <2>1. \/ q = Splitter(parts, cur, "", FALSE, TRUE)
        \/ q = Splitter(parts, Append(cur, c), quote, FALSE, begun)
    BY <1>1, <1>6 DEF Split!Feed, Split!Keep, Splitter
  <2> HIDE DEF parts, cur, quote, begun, q
  <2>2. q \in Splitters
    BY <1>1, <1>2, <1>3, <1>4, <2>1, Zenon
  <2> QED BY <2>2 DEF q
<1>7. CASE ~p.escaped /\ quote = ""
  <2>1. p = Splitter(parts, cur, "", FALSE, begun)
    BY <1>1, <1>7
  <2> HIDE DEF parts, cur, quote, begun
  <2>2. /\ c \in Split!Spaces => q = Split!Emit(p)
        /\ c \in Split!Quotes => q = Splitter(parts, cur, c, FALSE, TRUE)
        /\ c = "\\" => q = Splitter(parts, cur, "", TRUE, begun)
        /\ c = "a" => q = Splitter(parts, Append(cur, c), "", FALSE, TRUE)
    <3>1. PlainlyFed(parts, cur, begun, c)
      BY <1>1, PlainFed, Zenon
    <3> QED BY <2>1, <3>1, Zenon DEF PlainlyFed, Plain, Quoted, Escaping, Inside
  <2>3. Split!Emit(p) \in Splitters
    <3>1. CASE begun
      <4>1. Split!Emit(p) = Splitter(Append(parts, cur), <<>>, "", FALSE, FALSE)
        BY <1>1, <2>1, <3>1 DEF Split!Emit, Splitter
      <4>2. \A t \in Args, s \in Seq(Split!Chars), x \in BOOLEAN, y \in BOOLEAN :
              Splitter(t, s, "", x, y) \in Splitters
        BY DEF Splitter, Splitters
      <4> QED BY <1>2, <1>3, <4>1, <4>2, Zenon
    <3>2. CASE ~begun
      BY <2>1, <3>2 DEF Split!Emit, Splitter
    <3> QED BY <3>1, <3>2
  <2> HIDE DEF q
  <2>4. c \in Split!Quotes => c \in Split!Quotes \cup {""}
    OBVIOUS
  <2>5. q \in Splitters
    <3>1. c \in Split!Quotes \/ c \in Split!Spaces \/ c = "a" \/ c = "\\"
      BY DEF Split!Chars
    <3> QED BY <1>1, <1>2, <1>3, <1>4, <2>2, <2>3, <2>4, <3>1, Zenon
  <2> QED BY <2>5 DEF q
<1> QED BY <1>5, <1>6, <1>7

(* What parseSpawn does, a character at a time.                             *)
Feeding == [x \in Splitters \X Split!Chars |-> Split!Feed(x[1], x[2])]

LEMMA FeedingIs ==
  /\ IsMachine(Splitters, Split!Chars, Feeding)
  /\ \A p \in Splitters, c \in Split!Chars : Feeding[<<p, c>>] = Split!Feed(p, c)
<1>1. \A x \in Splitters \X Split!Chars : x[1] \in Splitters /\ x[2] \in Split!Chars
  OBVIOUS
<1> QED BY <1>1, FedTyped DEF Feeding, IsMachine

LEMMA StartsBetween ==
  /\ Split!Start = Between(<<>>) /\ <<>> \in Args
  /\ Split!Start \in Splitters
<1>1. Split!Start = Between(<<>>)
  BY DEF Split!Start, Between, Splitter
<1>2. <<>> \in Args
  BY DEF Args
<1>3. Between(<<>>) \in Splitters
  BY <1>2, BetweenTyped, Zenon
<1> QED BY <1>1, <1>2, <1>3

(* parseSpawn is the machine, and what it makes of its last state.          *)
LEMMA SplitFold ==
  ASSUME NEW s \in Seq(Split!Chars)
  PROVE  Split!ParseSpawn(s)
           = LET end == After(Splitters, Feeding, Split!Start, s)
             IN IF end.inQuote # "" \/ end.escaped THEN Split!Unterminated ELSE Split!Emit(end).parts
<1> DEFINE b == Split!Start
           Recursion(g) ==
             g = [T \in SUBSET DOMAIN s |->
                    IF T = {} THEN b ELSE Split!Feed(g[T \ {Max(T)}], s[Max(T)])]
           f == CHOOSE g : Recursion(g)
<1>1. b \in Splitters
  BY StartsBetween
<1>2. Split!ParseSpawn(s)
        = LET end == f[DOMAIN s]
          IN IF end.inQuote # "" \/ end.escaped THEN Split!Unterminated ELSE Split!Emit(end).parts
  BY DEF Split!ParseSpawn, Split!FoldLeft, Split!MapThenFoldSet, Split!Max, Max
<1>3. ASSUME NEW T \in SUBSET DOMAIN s, T # {}
      PROVE  Max(T) \in T /\ s[Max(T)] \in Split!Chars /\ T \ {Max(T)} \in SUBSET DOMAIN s
  <2>1. DOMAIN s = 1..Len(s) /\ Len(s) \in Nat
    OBVIOUS
  <2>2. Max(T) \in T
    BY <1>3, <2>1, LastPlace
  <2> QED BY <2>1, <2>2
<1> HIDE DEF b
<1>4. \E g : Recursion(g)
  <2>1. PICK g : IsLeftFold(g, Splitters, Feeding, b, s)
    BY <1>1, FeedingIs, LeftFoldExists
  <2>2. g \in [SUBSET DOMAIN s -> Splitters] /\ g[{}] = b
    BY <2>1 DEF IsLeftFold
  <2>3. ASSUME NEW T \in SUBSET DOMAIN s, T # {}
        PROVE  g[T] = Split!Feed(g[T \ {Max(T)}], s[Max(T)])
    <3>1. g[T] = Feeding[<<g[T \ {Max(T)}], s[Max(T)]>>]
      BY <2>1, <2>3, Zenon DEF IsLeftFold
    <3>2. g[T \ {Max(T)}] \in Splitters /\ s[Max(T)] \in Split!Chars
      BY <1>3, <2>2, <2>3
    <3> QED BY <3>1, <3>2, FeedingIs
  <2>4. Recursion(g)
    BY <2>2, <2>3
  <2> QED BY <2>4
<1>5. Recursion(f)
  <2> HIDE DEF Recursion
  <2> QED BY <1>4, Zenon
<1>6. f[{}] = b
  BY <1>5
<1>7. ASSUME NEW T \in SUBSET DOMAIN s, T # {}, f[T \ {Max(T)}] \in Splitters
      PROVE  f[T] = Feeding[<<f[T \ {Max(T)}], s[Max(T)]>>]
  <2>1. f[T] = Split!Feed(f[T \ {Max(T)}], s[Max(T)])
    <3> HIDE DEF f
    <3> QED BY <1>5, <1>7
  <2> HIDE DEF f
  <2> QED BY <1>3, <1>7, <2>1, FeedingIs
<1>8. f[DOMAIN s] = After(Splitters, Feeding, b, s)
  <2>1. IsMachine(Splitters, Split!Chars, Feeding)
    BY FeedingIs
  <2> HIDE DEF f, Recursion
  <2>2. Follows(f, Splitters, Feeding, b, s)
    BY <1>6, <1>7 DEF Follows
  <2> QED BY <1>1, <2>1, <2>2, LeftFoldIsAfter
<1> QED BY <1>2, <1>8 DEF b

-----------------------------------------------------------------------------
(* parseSpawn gets from p to q over the characters s.                       *)
Reads(p, s, q) == /\ s \in Seq(Split!Chars) /\ p \in Splitters /\ q \in Splitters
                  /\ After(Splitters, Feeding, p, s) = q

(* Nothing, a character more, another text after it.                        *)
LEMMA ReadsNothing ==
  ASSUME NEW p \in Splitters, NEW s, s = <<>>
  PROVE  Reads(p, s, p)
<1>1. <<>> \in Seq(Split!Chars)
  OBVIOUS
<1>2. IsMachine(Splitters, Split!Chars, Feeding)
  BY FeedingIs
<1> QED BY <1>1, <1>2, AfterEmpty DEF Reads

LEMMA ReadsNext ==
  ASSUME NEW p, NEW q, NEW r, NEW s, NEW c \in Split!Chars, NEW t,
         Reads(p, s, q), IsAppend(t, s, c), Split!Feed(q, c) = r
  PROVE  Reads(p, t, r)
<1>1. s \in Seq(Split!Chars) /\ p \in Splitters /\ q \in Splitters /\ After(Splitters, Feeding, p, s) = q
  BY DEF Reads
<1>2. IsMachine(Splitters, Split!Chars, Feeding)
  BY FeedingIs
<1>3. After(Splitters, Feeding, p, t) = Feeding[<<q, c>>]
  BY <1>1, <1>2, AfterAppend
<1>4. Feeding[<<q, c>>] = r /\ r \in Splitters
  BY <1>1, FeedingIs, FedTyped
<1>5. t \in Seq(Split!Chars)
  BY <1>1 DEF IsAppend
<1> QED BY <1>1, <1>3, <1>4, <1>5 DEF Reads

LEMMA ReadsMore ==
  ASSUME NEW p, NEW q, NEW r, NEW s, NEW t, NEW u,
         Reads(p, s, q), Reads(q, t, r), IsConcat(u, s, t)
  PROVE  Reads(p, u, r)
<1>1. /\ s \in Seq(Split!Chars) /\ p \in Splitters /\ q \in Splitters
      /\ After(Splitters, Feeding, p, s) = q
  BY DEF Reads
<1>2. /\ t \in Seq(Split!Chars) /\ r \in Splitters /\ After(Splitters, Feeding, q, t) = r
  BY DEF Reads
<1>3. IsMachine(Splitters, Split!Chars, Feeding)
  BY FeedingIs
<1>4. After(Splitters, Feeding, p, u) = r
  BY <1>1, <1>2, <1>3, AfterConcat
<1>5. u \in Seq(Split!Chars)
  BY <1>1, <1>2 DEF IsConcat
<1> QED BY <1>1, <1>2, <1>4, <1>5 DEF Reads

LEMMA ReadsOne ==
  ASSUME NEW p \in Splitters, NEW c \in Split!Chars, NEW q, Split!Feed(p, c) = q
  PROVE  Reads(p, <<c>>, q)
<1> DEFINE none == <<>>
           one == <<c>>
<1>1. IsAppend(one, none, c) /\ none = <<>>
  BY DEF IsAppend
<1> HIDE DEF none, one
<1>2. Reads(p, one, q)
  BY <1>1, ReadsNothing, ReadsNext
<1> QED BY <1>2 DEF one

-----------------------------------------------------------------------------
(* A command of any arguments, each of any pieces, with texts of any length. *)
Quotations(quote) == [way : {quote}, text : Seq(Split!Chars \ {quote})]
AnyPieces == Split!One("bare", {"a"}) \cup Split!One("escaped", Split!Chars)
             \cup UNION {Quotations(quote) : quote \in Split!Quotes}
Commands  == Seq(Seq(AnyPieces) \ {<<>>})

(* The text between quotes of a kind that is not in it.                     *)
LEMMA QuotedRead ==
  ASSUME NEW parts \in Args, NEW cur \in Seq(Split!Chars), NEW k \in Split!Quotes,
         NEW text \in Seq(Split!Chars \ {k})
  PROVE  Reads(Quoted(parts, cur, k), text, Quoted(parts, cur \o text, k))
<1> DEFINE n == Len(text)
           C == Split!Chars
           b == Quoted(parts, cur, k)
           S == {i \in 0..n : Reads(b, SubSeq(text, 1, i), Quoted(parts, cur \o SubSeq(text, 1, i), k))}
<1>1. n \in Nat /\ cur \o <<>> = cur
  OBVIOUS
<1>2. /\ SubSeq(text, 1, 0) = <<>> /\ SubSeq(text, 1, n) = text
      /\ \A i \in 0..(n - 1) :
           /\ SubSeq(text, 1, i) \in Seq(C \ {k}) /\ text[i + 1] \in C \ {k}
           /\ IsAppend(SubSeq(text, 1, i + 1), SubSeq(text, 1, i), text[i + 1])
  BY Prefix
<1>3. b \in Splitters
  BY QuotedTyped
<1> HIDE DEF n
<1>4. 0 \in S
  <2>1. Reads(b, SubSeq(text, 1, 0), b)
    <3> HIDE DEF b
    <3> QED BY <1>2, <1>3, ReadsNothing
  <2>2. b = Quoted(parts, cur \o SubSeq(text, 1, 0), k)
    BY <1>1, <1>2, Zenon
  <2> HIDE DEF b
  <2> QED BY <1>1, <2>1, <2>2
<1> HIDE DEF b
<1>5. ASSUME NEW i \in 0..(n - 1), i \in S
      PROVE  i + 1 \in S
  <2> DEFINE s == SubSeq(text, 1, i)
             t == SubSeq(text, 1, i + 1)
             c == text[i + 1]
  <2>1. i + 1 \in 1..n /\ i + 1 \in 0..n
    BY <1>1
  <2>2. s \in Seq(C) /\ c \in C /\ IsAppend(t, s, c) /\ c # k
    <3>1. s \in Seq(C \ {k}) /\ c \in C \ {k} /\ IsAppend(t, s, c)
      BY <1>2
    <3> HIDE DEF s, t, c, C
    <3> QED BY <3>1
  <2>3. Reads(b, s, Quoted(parts, cur \o s, k))
    BY <1>5
  <2> HIDE DEF s, t, c
  <2>4. cur \o s \in Seq(C) /\ cur \o t = Append(cur \o s, c)
    BY <2>2 DEF IsAppend
  <2>5. Split!Feed(Quoted(parts, cur \o s, k), c) = Quoted(parts, cur \o t, k)
    <3> DEFINE u == cur \o s
    <3>1. u \in Seq(Split!Chars) /\ c \in Split!Chars /\ cur \o t = Append(u, c)
      BY <2>2, <2>4
    <3> HIDE DEF u
    <3>2. Split!Feed(Quoted(parts, u, k), c) = Quoted(parts, Append(u, c), k)
      BY <2>2, <3>1, QuotedFed
    <3> QED BY <3>1, <3>2 DEF u
  <2>6. Reads(b, t, Quoted(parts, cur \o t, k))
    BY <2>2, <2>3, <2>5, ReadsNext
  <2> QED BY <2>1, <2>6 DEF t
<1>6. n \in S
  <2> HIDE DEF S
  <2>1. \A i \in 0..n : i \in S
    BY <1>1, <1>4, <1>5, Upward, Zenon
  <2> QED BY <1>1, <2>1
<1> QED BY <1>2, <1>6 DEF b

(* A piece in each way, before, within or after others.                     *)
LEMMA BareRead ==
  ASSUME NEW parts \in Args, NEW cur \in Seq(Split!Chars), NEW begun \in BOOLEAN, NEW text,
         text = <<"a">>
  PROVE  Reads(Plain(parts, cur, begun), text, Inside(parts, cur \o text))
<1> DEFINE c == "a"
<1>1. c \in Split!Chars
  BY DEF Split!Chars
<1>2. Split!Feed(Plain(parts, cur, begun), c) = Inside(parts, Append(cur, c))
  BY <1>1, PlainFed DEF PlainlyFed
<1>3. Append(cur, c) = cur \o text
  BY <1>1
<1>4. Plain(parts, cur, begun) \in Splitters
  BY DEF Plain, Splitter, Splitters
<1> HIDE DEF c
<1> QED BY <1>1, <1>2, <1>3, <1>4, ReadsOne DEF c

LEMMA EscapedRead ==
  ASSUME NEW parts \in Args, NEW cur \in Seq(Split!Chars), NEW begun \in BOOLEAN,
         NEW c \in Split!Chars, NEW text, text = <<c>>
  PROVE  Reads(Plain(parts, cur, begun), <<"\\">> \o text, Inside(parts, cur \o text))
<1> DEFINE slash == "\\"
           one == <<slash>>
           form == one \o text
           p == Plain(parts, cur, begun)
           q == Escaping(parts, cur, begun)
           r == Inside(parts, cur \o text)
<1>1. slash \in Split!Chars
  BY DEF Split!Chars
<1>2. p \in Splitters /\ q \in Splitters
  BY DEF Plain, Escaping, Splitter, Splitters
<1>3. Split!Feed(p, slash) = q
  BY <1>1, PlainFed DEF PlainlyFed
<1>4. Append(cur, c) = cur \o text
  OBVIOUS
<1>5. Split!Feed(q, c) = r
  BY <1>4, EscapingFed
<1>6. IsConcat(form, one, text)
  BY DEF IsConcat
<1> HIDE DEF slash, p, q, r, form
<1>7. Reads(p, one, q) /\ Reads(q, text, r)
  BY <1>1, <1>2, <1>3, <1>5, ReadsOne
<1> HIDE DEF one
<1>8. Reads(p, form, r)
  BY <1>6, <1>7, ReadsMore
<1> QED BY <1>8 DEF form, p, r, one, slash

LEMMA QuotesRead ==
  ASSUME NEW parts \in Args, NEW cur \in Seq(Split!Chars), NEW begun \in BOOLEAN,
         NEW k \in Split!Quotes, NEW text \in Seq(Split!Chars \ {k})
  PROVE  Reads(Plain(parts, cur, begun), <<k>> \o text \o <<k>>, Inside(parts, cur \o text))
<1> DEFINE quote == <<k>>
           opened == quote \o text
           form == opened \o quote
           next == cur \o text
           p == Plain(parts, cur, begun)
           in == Quoted(parts, cur, k)
           end == Quoted(parts, next, k)
           r == Inside(parts, next)
<1>1. k \in Split!Chars
  BY DEF Split!Chars
<1>2. next \in Seq(Split!Chars)
  <2>1. text \in Seq(Split!Chars)
    OBVIOUS
  <2> QED BY <2>1
<1> HIDE DEF next
<1>3. p \in Splitters /\ end \in Splitters
  <2>1. p \in Splitters
    BY DEF Plain, Splitter, Splitters
  <2> QED BY <1>2, <2>1, QuotedTyped
<1>4. Split!Feed(p, k) = in
  BY <1>1, PlainFed DEF PlainlyFed
<1>5. Split!Feed(end, k) = r
  BY <1>1, <1>2, QuotedFed
<1>6. Reads(in, text, end)
  BY QuotedRead DEF next
<1>7. IsConcat(opened, quote, text) /\ IsConcat(form, opened, quote)
  BY DEF IsConcat
<1> HIDE DEF p, in, end, r, opened, form
<1>8. Reads(p, quote, in) /\ Reads(end, quote, r)
  BY <1>1, <1>3, <1>4, <1>5, ReadsOne
<1> HIDE DEF quote
<1>9. Reads(p, opened, end)
  BY <1>6, <1>7, <1>8, ReadsMore
<1>10. Reads(p, form, r)
  BY <1>7, <1>8, <1>9, ReadsMore
<1> QED BY <1>10 DEF form, opened, quote, p, r, next

LEMMA PieceRead ==
  ASSUME NEW parts \in Args, NEW cur \in Seq(Split!Chars), NEW begun \in BOOLEAN,
         NEW piece \in AnyPieces
  PROVE  /\ Reads(Plain(parts, cur, begun), Split!Written(piece), Inside(parts, cur \o piece.text))
         /\ piece.text \in Seq(Split!Chars)
<1>1. CASE piece \in Split!One("bare", {"a"})
  <2>1. piece.way = "bare" /\ piece.text = <<"a">>
    BY <1>1 DEF Split!One
  <2>2. Split!Written(piece) = piece.text
    BY <2>1 DEF Split!Written, Split!Quotes
  <2>3. piece.text \in Seq(Split!Chars)
    BY <2>1 DEF Split!Chars
  <2> QED BY <2>1, <2>2, <2>3, BareRead
<1>2. CASE piece \in Split!One("escaped", Split!Chars)
  <2>1. piece.way = "escaped"
    BY <1>2 DEF Split!One
  <2>2. PICK c \in Split!Chars : piece.text = <<c>>
    BY <1>2 DEF Split!One
  <2>3. Split!Written(piece) = <<"\\">> \o piece.text
    BY <2>1 DEF Split!Written, Split!Quotes
  <2>4. piece.text \in Seq(Split!Chars)
    BY <2>2
  <2> QED BY <2>2, <2>3, <2>4, EscapedRead
<1>3. ASSUME NEW k \in Split!Quotes, piece \in Quotations(k)
      PROVE  /\ Reads(Plain(parts, cur, begun), Split!Written(piece), Inside(parts, cur \o piece.text))
             /\ piece.text \in Seq(Split!Chars)
  <2>1. piece.way = k /\ piece.text \in Seq(Split!Chars \ {k})
    BY <1>3 DEF Quotations
  <2>2. Split!Written(piece) = <<k>> \o piece.text \o <<k>>
    BY <2>1 DEF Split!Written, Split!Quotes
  <2>3. piece.text \in Seq(Split!Chars)
    BY <2>1
  <2> QED BY <2>1, <2>2, <2>3, QuotesRead
<1> QED BY <1>1, <1>2, <1>3 DEF AnyPieces

LEMMA SameConcat == \A texts : Split!Concat(texts) = Scrape!Concat(texts)
BY DEF Split!Concat, Scrape!Concat, Split!FoldLeft, Scrape!FoldLeft,
       Split!MapThenFoldSet, Scrape!MapThenFoldSet, Split!Max, Scrape!Max

(* An argument: after i of its pieces, their texts are what it has so far.  *)
LEMMA ArgRead ==
  ASSUME NEW parts \in Args, NEW arg \in Seq(AnyPieces), arg # <<>>
  PROVE  /\ Reads(Between(parts), Split!Form(arg), Inside(parts, Split!Text(arg)))
         /\ Split!Text(arg) \in Seq(Split!Chars)
<1> DEFINE n == Len(arg)
           C == Seq(Split!Chars)
           forms == [i \in 1..n |-> Split!Written(arg[i])]
           texts == [i \in 1..n |-> arg[i].text]
           F == Assembled(forms)
           T == Assembled(texts)
           b == Between(parts)
           State(i) == IF i = 0 THEN b ELSE Inside(parts, T[i])
           S == {i \in 0..n : Reads(b, F[i], State(i))}
<1>1. n \in Nat /\ n # 0 /\ \A i \in 1..n : arg[i] \in AnyPieces
  OBVIOUS
<1>2. \A i \in 1..n : Split!Written(arg[i]) \in C /\ arg[i].text \in C
  <2>1. \A piece \in AnyPieces : Split!Written(piece) \in C /\ piece.text \in C
    <3>1. <<>> \in Args /\ <<>> \in C /\ FALSE \in BOOLEAN
      BY DEF Args
    <3> QED BY <3>1, PieceRead DEF Reads
  <2> QED BY <1>1, <2>1
<1> HIDE DEF n, C
<1>3. /\ forms \in Seq(C) /\ Len(forms) = n /\ \A i \in 1..n : forms[i] = Split!Written(arg[i])
      /\ texts \in Seq(C) /\ Len(texts) = n /\ \A i \in 1..n : texts[i] = arg[i].text
  BY <1>1, <1>2
<1>4. Split!Form(arg) = Scrape!Concat(forms) /\ Split!Text(arg) = Scrape!Concat(texts)
  <2>1. Split!Form(arg) = Split!Concat(forms) /\ Split!Text(arg) = Split!Concat(texts)
    BY DEF Split!Form, Split!Text, n
  <2> HIDE DEF forms, texts
  <2> QED BY <2>1, SameConcat
<1> HIDE DEF forms, texts
<1>5. /\ F[0] = <<>> /\ F[n] = Scrape!Concat(forms)
      /\ \A i \in 0..n : F[i] \in C
      /\ \A i \in 0..(n - 1) : F[i + 1] = F[i] \o forms[i + 1]
  BY <1>3, ConcatSteps DEF C
<1>6. /\ T[0] = <<>> /\ T[n] = Scrape!Concat(texts)
      /\ \A i \in 0..n : T[i] \in C
      /\ \A i \in 0..(n - 1) : T[i + 1] = T[i] \o texts[i + 1]
  BY <1>3, ConcatSteps DEF C
<1> HIDE DEF F, T
<1>7. b \in Splitters
  BY BetweenTyped
<1>8. 0 \in S
  <2>1. Reads(b, F[0], b)
    <3> HIDE DEF b
    <3> QED BY <1>5, <1>7, ReadsNothing
  <2> HIDE DEF b
  <2> QED BY <1>1, <2>1
<1>9. ASSUME NEW i \in 0..(n - 1), i \in S
      PROVE  i + 1 \in S
  <2> DEFINE begun == i # 0
             piece == arg[i + 1]
             p == Plain(parts, T[i], begun)
             r == Inside(parts, T[i + 1])
  <2>1. i + 1 \in 1..n /\ i + 1 \in 0..n /\ i + 1 # 0 /\ i \in 0..n
    BY <1>1
  <2>2. State(i) = p
    <3>1. CASE i = 0
      BY <1>6, <3>1 DEF Between, Plain
    <3>2. CASE i # 0
      BY <3>2 DEF Inside, Plain
    <3> QED BY <3>1, <3>2
  <2>3. Reads(p, forms[i + 1], r)
    <3>1. Reads(p, Split!Written(piece), Inside(parts, T[i] \o piece.text))
      <4>1. T[i] \in Seq(Split!Chars) /\ begun \in BOOLEAN /\ piece \in AnyPieces
        BY <1>1, <1>6, <2>1 DEF C
      <4> HIDE DEF begun, piece
      <4> QED BY <4>1, PieceRead
    <3>2. forms[i + 1] = Split!Written(piece) /\ T[i + 1] = T[i] \o piece.text
      BY <1>3, <1>6, <2>1
    <3> HIDE DEF p, piece
    <3> QED BY <3>1, <3>2
  <2>4. Reads(b, F[i], p)
    BY <1>9, <2>2
  <2>5. IsConcat(F[i + 1], F[i], forms[i + 1])
    BY <1>5 DEF IsConcat
  <2> HIDE DEF b, p, r
  <2>6. Reads(b, F[i + 1], r)
    BY <2>3, <2>4, <2>5, ReadsMore
  <2>7. State(i + 1) = r
    BY <2>1 DEF r
  <2> QED BY <2>1, <2>6, <2>7
<1>10. n \in S
  <2> HIDE DEF S
  <2>1. \A i \in 0..n : i \in S
    BY <1>1, <1>8, <1>9, Upward, Zenon
  <2> QED BY <1>1, <2>1
<1>11. n \in 0..n
  BY <1>1
<1> HIDE DEF b
<1> QED BY <1>1, <1>4, <1>5, <1>6, <1>10, <1>11 DEF b, C

LEMMA AppendOne ==
  ASSUME NEW E, NEW x \in E, NEW y \in E
  PROVE  Append(<<x>>, y) = <<x, y>>
<1>1. <<x>> \in Seq(E) /\ Len(<<x>>) = 1 /\ <<x>>[1] = x
  OBVIOUS
<1>2. <<x, y>> \in Seq(E) /\ Len(<<x, y>>) = 2 /\ <<x, y>>[1] = x /\ <<x, y>>[2] = y
  OBVIOUS
<1> DEFINE s == Append(<<x>>, y)
           t == <<x, y>>
<1>3. s \in Seq(E) /\ Len(s) = 2 /\ s[1] = x /\ s[2] = y
  BY <1>1, AppendProperties
<1> HIDE DEF s, t
<1>4. t \in Seq(E) /\ Len(t) = 2 /\ t[1] = x /\ t[2] = y
  BY <1>2 DEF t
<1>5. Len(s) = Len(t) /\ \A i \in 1..Len(s) : s[i] = t[i]
  BY <1>3, <1>4
<1>6. s = t
  BY <1>3, <1>4, <1>5, SeqEqual
<1> QED BY <1>6 DEF s, t

(* The space that SpawnProps leaves between arguments.                      *)
Spacings == {<<" ">>, <<"t", " ">>}

(* Blanks and tabs end an argument, and are skipped.                        *)
LEMMA SpaceRead ==
  ASSUME NEW parts \in Args, NEW cur \in Seq(Split!Chars), NEW space \in Spacings
  PROVE  /\ Reads(Between(parts), space, Between(parts))
         /\ Reads(Inside(parts, cur), space, Between(Append(parts, cur)))
<1> DEFINE more == Append(parts, cur)
           blank == " "
           tab == "t"
           one == <<blank>>
           two == <<tab, blank>>
           first == <<tab>>
<1>1. more \in Args
  BY ArgsGrow, Zenon
<1>2. /\ blank \in Split!Spaces /\ tab \in Split!Spaces
      /\ blank \in Split!Chars /\ tab \in Split!Chars
  BY DEF Split!Spaces, Split!Chars
<1>3. IsAppend(two, first, blank)
  <2> HIDE DEF blank, tab
  <2> QED BY <1>2, AppendOne DEF IsAppend, one, two, first
<1>4. space = one \/ space = two
  BY Zenon DEF Spacings
<1>5. \A c \in Split!Spaces \cap Split!Chars : Split!Feed(Inside(parts, cur), c) = Between(more)
  BY InsideFed
<1> HIDE DEF more, blank, tab
<1>6. \A p \in Args, c \in Split!Spaces \cap Split!Chars : Split!Feed(Between(p), c) = Between(p)
  BY BetweenFed
<1>7. Inside(parts, cur) \in Splitters /\ \A p \in Args : Between(p) \in Splitters
  <2>1. Inside(parts, cur) \in Splitters
    BY DEF Inside, Splitter, Splitters
  <2> QED BY <2>1, BetweenTyped
<1>8. /\ Reads(Between(parts), one, Between(parts)) /\ Reads(Between(parts), first, Between(parts))
      /\ Reads(Inside(parts, cur), one, Between(more))
      /\ Reads(Inside(parts, cur), first, Between(more))
  BY <1>1, <1>2, <1>5, <1>6, <1>7, ReadsOne
<1> HIDE DEF one, two, first
<1>9. Reads(Between(parts), two, Between(parts)) /\ Reads(Inside(parts, cur), two, Between(more))
  BY <1>1, <1>2, <1>3, <1>6, <1>8, ReadsNext
<1> QED BY <1>4, <1>8, <1>9 DEF more

-----------------------------------------------------------------------------
(* parseSpawn has read the arguments of args, and perhaps not the end of    *)
(* the last.                                                                *)
Holds(q, args) ==
  \/ q = Between(args)
  \/ \E parts \in Args, cur \in Seq(Split!Chars) : args = Append(parts, cur) /\ q = Inside(parts, cur)

LEMMA SpaceEnds ==
  ASSUME NEW args \in Args, NEW q, Holds(q, args), NEW space \in Spacings
  PROVE  Reads(q, space, Between(args))
<1>1. CASE q = Between(args)
  <2>1. <<>> \in Seq(Split!Chars)
    OBVIOUS
  <2> QED BY <1>1, <2>1, SpaceRead
<1>2. ASSUME NEW parts \in Args, NEW cur \in Seq(Split!Chars),
             args = Append(parts, cur), q = Inside(parts, cur)
      PROVE  Reads(q, space, Between(args))
  BY <1>2, SpaceRead
<1> QED BY <1>1, <1>2 DEF Holds

LEMMA HoldsTyped ==
  ASSUME NEW args \in Args, NEW q, Holds(q, args)
  PROVE  q \in Splitters
<1>1. CASE q = Between(args)
  BY <1>1, BetweenTyped
<1>2. ASSUME NEW parts \in Args, NEW cur \in Seq(Split!Chars), q = Inside(parts, cur)
      PROVE  q \in Splitters
  BY <1>2 DEF Inside, Splitter, Splitters
<1> QED BY <1>1, <1>2 DEF Holds

(* After i of the arguments, they are what has been read.                   *)
LEMMA CommandRead ==
  ASSUME input \in Commands, NEW space \in Spacings, NEW edge \in {<<>>, space},
         NEW args, args = [i \in 1..Len(input) |-> Split!Text(input[i])]
  PROVE  args \in Args /\ \E q : Holds(q, args) /\ Reads(Split!Start, Split!Line(space, edge), q)
<1> DEFINE n == Len(input)
           C == Seq(Split!Chars)
           Gap(i) == IF i = 1 THEN edge ELSE space
           forms == [i \in 1..n |-> Gap(i) \o Split!Form(input[i])]
           J == Assembled(forms)
           b == Split!Start
           none == <<>>
           Said(i) == SubSeq(args, 1, i)
           S == {i \in 0..n : \E q : Holds(q, Said(i)) /\ Reads(b, J[i], q)}
<1>1. n \in Nat /\ \A i \in 1..n : input[i] \in Seq(AnyPieces) /\ input[i] # <<>>
  <2> DEFINE A == Seq(AnyPieces) \ {<<>>}
  <2>1. input \in Seq(A)
    BY DEF Commands
  <2>2. n \in Nat /\ \A i \in 1..n : input[i] \in A
    <3> HIDE DEF A
    <3> QED BY <2>1
  <2> QED BY <2>2
<1>2. space \in C /\ edge \in C
  <2>1. none \in Args /\ none \in C
    BY StartsBetween
  <2>2. space \in C
    <3> HIDE DEF none
    <3> QED BY <2>1, SpaceRead DEF Reads
  <2> QED BY <2>1, <2>2
<1>3. \A i \in 1..n : Split!Form(input[i]) \in C /\ Split!Text(input[i]) \in C
  <2>1. \A arg \in Seq(AnyPieces) : arg # <<>> => Split!Form(arg) \in C /\ Split!Text(arg) \in C
    <3>1. none \in Args
      BY StartsBetween
    <3> HIDE DEF none
    <3> QED BY <3>1, ArgRead DEF Reads
  <2> QED BY <1>1, <2>1
<1> HIDE DEF n
<1>4. args \in Args /\ Len(args) = n /\ \A i \in 1..n : args[i] = Split!Text(input[i])
  <2>1. args \in [1..n -> C]
    BY <1>3 DEF n
  <2> HIDE DEF C
  <2>2. args \in Seq(C) /\ Len(args) = n
    BY <1>1, <2>1
  <2> QED BY <2>2 DEF Args, C, n
<1>5. /\ Said(0) = none /\ Said(n) = args
      /\ \A i \in 0..(n - 1) : /\ Said(i) \in Args /\ args[i + 1] \in C
                               /\ IsAppend(Said(i + 1), Said(i), args[i + 1])
  <2>1. args \in Seq(C)
    BY <1>4 DEF Args
  <2> HIDE DEF C
  <2> QED BY <1>4, <2>1, Prefix DEF Args, C
<1> HIDE DEF C
<1>6. forms \in Seq(C) /\ Len(forms) = n /\ \A i \in 1..n : forms[i] = Gap(i) \o Split!Form(input[i])
  <2>1. \A i \in 1..n : Gap(i) \o Split!Form(input[i]) \in C
    <3>1. \A s \in C, t \in C : s \o t \in C
      BY DEF C
    <3>2. \A i \in 1..n : Gap(i) \in C
      BY <1>2
    <3> HIDE DEF Gap
    <3> QED BY <1>3, <3>1, <3>2
  <2> HIDE DEF Gap
  <2> QED BY <1>1, <2>1
<1>7. Split!Line(space, edge) = Scrape!Concat(forms) \o edge
  <2>1. Split!Line(space, edge) = Split!Concat(forms) \o edge
    BY DEF Split!Line, n
  <2> HIDE DEF forms
  <2> QED BY <2>1, SameConcat
<1> HIDE DEF forms
<1>8. /\ J[0] = none /\ J[n] = Scrape!Concat(forms)
      /\ \A i \in 0..n : J[i] \in C
      /\ \A i \in 0..(n - 1) : J[i + 1] = J[i] \o forms[i + 1]
  <2>1. forms \in Seq(Seq(Split!Chars)) /\ n = Len(forms)
    BY <1>6 DEF C
  <2> QED BY <2>1, ConcatSteps DEF C
<1> HIDE DEF J
<1>9. none \in Args /\ b = Between(none) /\ b \in Splitters
  BY StartsBetween
<1> HIDE DEF b
<1>10. 0 \in S
  <2>1. Reads(b, J[0], b)
    BY <1>8, <1>9, ReadsNothing
  <2>2. Holds(b, Said(0))
    BY <1>5, <1>9 DEF Holds
  <2> HIDE DEF Said
  <2> QED BY <1>1, <2>1, <2>2
<1>11. ASSUME NEW i \in 0..(n - 1), i \in S
       PROVE  i + 1 \in S
  <2> DEFINE said == Said(i)
             gap == Gap(i + 1)
             form == Split!Form(input[i + 1])
             next == args[i + 1]
             now == J[i] \o gap
             r == Inside(said, next)
  <2>1. i + 1 \in 1..n /\ i + 1 \in 0..n /\ i \in 0..n
    BY <1>1
  <2>2. said \in Args /\ next \in C /\ Said(i + 1) = Append(said, next)
    BY <1>5 DEF IsAppend
  <2>3. PICK q : Holds(q, said) /\ Reads(b, J[i], q)
    BY <1>11
  <2> HIDE DEF Said, Gap
  <2>4. Reads(q, gap, Between(said)) \/ (gap = <<>> /\ q = Between(said))
    <3>1. CASE i # 0
      <4>1. gap = space
        BY <2>1, <3>1 DEF Gap
      <4> HIDE DEF said, gap
      <4> QED BY <2>2, <2>3, <4>1, SpaceEnds
    <3>2. CASE i = 0
      <4>1. gap = edge /\ said = none
        BY <1>5, <3>2 DEF Gap
      <4>2. CASE edge = space
        <5> HIDE DEF said, gap
        <5> QED BY <2>2, <2>3, <4>1, <4>2, SpaceEnds
      <4>3. CASE edge = <<>>
        <5>1. q = Between(said)
          <6>1. ~\E parts \in Args, cur \in Seq(Split!Chars) : said = Append(parts, cur)
            <7>1. \A parts \in Args, cur \in Seq(Split!Chars) : Append(parts, cur) # <<>>
              BY DEF Args
            <7> HIDE DEF said
            <7> QED BY <4>1, <7>1
          <6> HIDE DEF said
          <6> QED BY <2>3, <6>1 DEF Holds
        <5> QED BY <4>1, <4>3, <5>1
      <4> QED BY <4>2, <4>3
    <3> QED BY <3>1, <3>2
  <2>5. Reads(q, gap, Between(said))
    <3>1. Between(said) \in Splitters
      <4> HIDE DEF said
      <4> QED BY <2>2, BetweenTyped
    <3> HIDE DEF gap, said
    <3> QED BY <2>4, <3>1, ReadsNothing
  <2>6. Reads(Between(said), form, r)
    <3>1. next = Split!Text(input[i + 1]) /\ input[i + 1] \in Seq(AnyPieces) /\ input[i + 1] # <<>>
      BY <1>1, <1>4, <2>1
    <3> HIDE DEF said, next
    <3> QED BY <2>2, <3>1, ArgRead
  <2>7. J[i + 1] = now \o form
    <3>1. J[i + 1] = J[i] \o (gap \o form)
      BY <1>6, <1>8, <2>1
    <3>2. J[i] \in C /\ gap \in C /\ form \in C
      BY <1>2, <1>3, <1>8, <2>1 DEF Gap
    <3> HIDE DEF gap, form
    <3>3. J[i] \o (gap \o form) = J[i] \o gap \o form
      <4>1. \A s \in C, t \in C, u \in C : s \o (t \o u) = s \o t \o u
        BY DEF C
      <4> QED BY <3>2, <4>1
    <3> QED BY <3>1, <3>3
  <2>8. IsConcat(now, J[i], gap) /\ IsConcat(J[i + 1], now, form)
    BY <2>7 DEF IsConcat
  <2> HIDE DEF said, gap, form, next, now, r
  <2>9. Reads(b, now, Between(said))
    BY <2>3, <2>5, <2>8, ReadsMore
  <2>10. Reads(b, J[i + 1], r)
    BY <2>6, <2>8, <2>9, ReadsMore
  <2>11. Holds(r, Said(i + 1))
    BY <2>2 DEF Holds, r, C
  <2> QED BY <2>1, <2>10, <2>11
<1>12. n \in S
  <2> HIDE DEF S
  <2>1. \A i \in 0..n : i \in S
    BY <1>1, <1>10, <1>11, Upward, Zenon
  <2> QED BY <1>1, <2>1
<1>13. PICK q : Holds(q, args) /\ Reads(b, J[n], q)
  <2> HIDE DEF Said
  <2> QED BY <1>5, <1>12
<1>14. \E p : Holds(p, args) /\ Reads(q, edge, p)
  <2>1. CASE edge = space
    BY <1>4, <1>13, <2>1, SpaceEnds DEF Holds
  <2>2. CASE edge = <<>>
    BY <1>4, <1>13, <2>2, HoldsTyped, ReadsNothing
  <2> QED BY <2>1, <2>2
<1>15. PICK p : Holds(p, args) /\ Reads(q, edge, p)
  BY <1>14
<1>16. IsConcat(Split!Line(space, edge), J[n], edge)
  BY <1>7, <1>8 DEF IsConcat
<1>17. Reads(b, Split!Line(space, edge), p)
  BY <1>13, <1>15, <1>16, ReadsMore
<1> QED BY <1>4, <1>15, <1>17 DEF b

(* What parseSpawn makes of such a state at the end, and what it does with  *)
(* a quote or a backslash.                                                  *)
LEMMA HoldsEnds ==
  ASSUME NEW args \in Args, NEW q, Holds(q, args)
  PROVE  /\ q.inQuote = "" /\ q.escaped = FALSE /\ Split!Emit(q).parts = args
         /\ \A c \in Split!Quotes \cup {"\\"} :
              LET r == Split!Feed(q, c) IN r.inQuote # "" \/ r.escaped
<1>1. ASSUME NEW parts \in Args, NEW cur \in Seq(Split!Chars), NEW begun \in BOOLEAN,
             q = Plain(parts, cur, begun)
      PROVE  \A c \in Split!Quotes \cup {"\\"} :
               LET r == Split!Feed(q, c) IN r.inQuote # "" \/ r.escaped
  <2>1. ASSUME NEW c \in Split!Quotes
        PROVE  Split!Feed(q, c).inQuote # ""
    <3>1. Split!Feed(q, c) = Quoted(parts, cur, c)
      BY <1>1, PlainFed DEF PlainlyFed, Split!Chars
    <3>2. Quoted(parts, cur, c).inQuote = c /\ c # ""
      BY DEF Quoted, Splitter, Split!Quotes
    <3> QED BY <3>1, <3>2, Zenon
  <2>2. Split!Feed(q, "\\").escaped
    <3>1. Split!Feed(q, "\\") = Escaping(parts, cur, begun)
      BY <1>1, PlainFed DEF PlainlyFed, Split!Chars
    <3>2. Escaping(parts, cur, begun).escaped
      BY DEF Escaping, Splitter
    <3> QED BY <3>1, <3>2, Zenon
  <2> QED BY <2>1, <2>2
<1>2. CASE q = Between(args)
  <2>1. q.inQuote = "" /\ q.escaped = FALSE /\ Split!Emit(q).parts = args
    <3> DEFINE p == Between(args)
    <3>1. p.inQuote = "" /\ p.escaped = FALSE /\ Split!Emit(p).parts = args
      BY DEF Between, Splitter, Split!Emit
    <3> HIDE DEF p
    <3> QED BY <1>2, <3>1 DEF p
  <2>2. <<>> \in Seq(Split!Chars) /\ FALSE \in BOOLEAN
    OBVIOUS
  <2>3. q = Plain(args, <<>>, FALSE)
    <3>1. Between(args) = Plain(args, <<>>, FALSE)
      BY Zenon DEF Between, Plain
    <3> QED BY <1>2, <3>1
  <2> QED BY <1>1, <2>1, <2>2, <2>3
<1>3. ASSUME NEW parts \in Args, NEW cur \in Seq(Split!Chars),
             args = Append(parts, cur), q = Inside(parts, cur)
      PROVE  /\ q.inQuote = "" /\ q.escaped = FALSE /\ Split!Emit(q).parts = args
             /\ q = Plain(parts, cur, TRUE) /\ TRUE \in BOOLEAN
  BY <1>3 DEF Inside, Plain, Splitter, Split!Emit
<1> QED BY <1>1, <1>2, <1>3 DEF Holds

(* parseSpawn gives back the arguments of every command line, in whatever   *)
(* pieces they are written and whatever their number and length.            *)
LEMMA SplitAny ==
  ASSUME input \in Commands
  PROVE  Split!SpawnRoundTrips
<1> SUFFICES ASSUME NEW space \in Spacings, NEW edge \in {<<>>, space},
                    NEW line, line = Split!Line(space, edge)
             PROVE  /\ Split!ParseSpawn(line) = [i \in 1..Len(input) |-> Split!Text(input[i])]
                    /\ \A c \in Split!Quotes \cup {"\\"} :
                         Split!ParseSpawn(Append(line, c)) = Split!Unterminated
  BY Zenon DEF Split!SpawnRoundTrips, Spacings
<1> DEFINE args == [i \in 1..Len(input) |-> Split!Text(input[i])]
<1>1. args \in Args /\ \E q : Holds(q, args) /\ Reads(Split!Start, line, q)
  BY CommandRead
<1> HIDE DEF args
<1>2. PICK q : Holds(q, args) /\ Reads(Split!Start, line, q)
  BY <1>1
<1>3. /\ q.inQuote = "" /\ q.escaped = FALSE /\ Split!Emit(q).parts = args
      /\ \A c \in Split!Quotes \cup {"\\"} :
           LET r == Split!Feed(q, c) IN r.inQuote # "" \/ r.escaped
  BY <1>1, <1>2, HoldsEnds
<1>4. Split!ParseSpawn(line) = args
  <2>1. line \in Seq(Split!Chars) /\ After(Splitters, Feeding, Split!Start, line) = q
    BY <1>2 DEF Reads
  <2> QED BY <1>3, <2>1, SplitFold
<1>5. ASSUME NEW c \in Split!Quotes \cup {"\\"}
      PROVE  Split!ParseSpawn(Append(line, c)) = Split!Unterminated
  <2> DEFINE t == Append(line, c)
             r == Split!Feed(q, c)
  <2>1. c \in Split!Chars /\ IsAppend(t, line, c)
    BY DEF Split!Chars, IsAppend
  <2>2. r.inQuote # "" \/ r.escaped
    BY <1>3
  <2> HIDE DEF t, r
  <2>3. Reads(Split!Start, t, r)
    BY <1>2, <2>1, ReadsNext DEF r
  <2>4. t \in Seq(Split!Chars) /\ After(Splitters, Feeding, Split!Start, t) = r
    BY <2>3 DEF Reads
  <2> QED BY <2>2, <2>4, SplitFold DEF t
<1> QED BY <1>4, <1>5 DEF args

-----------------------------------------------------------------------------
(* Where the k-th text ends.                                                *)
Width(texts, k) == Len(Scrape!Concat(SubSeq(texts, 1, k)))

(* Every place of the whole is a place of one of the texts.                 *)
Laid(texts, n, whole) ==
  /\ Width(texts, 0) = 0 /\ Len(whole) = Width(texts, n)
  /\ \A k \in 0..n : Width(texts, k) \in 0..Len(whole)
  /\ \A k \in 1..n :
       /\ Width(texts, k) = Width(texts, k - 1) + Len(texts[k])
       /\ \A j \in 1..Len(texts[k]) : whole[Width(texts, k - 1) + j] = texts[k][j]
  /\ \A i \in 1..Len(whole) : \E k \in 1..n :
       Width(texts, k - 1) < i /\ i <= Width(texts, k)

LEMMA ConcatLaid ==
  ASSUME NEW E, NEW texts \in Seq(Seq(E))
  PROVE  /\ Scrape!Concat(texts) \in Seq(E)
         /\ Laid(texts, Len(texts), Scrape!Concat(texts))
<1> DEFINE n == Len(texts)
           C == Seq(E)
           P(k) == Scrape!Concat(SubSeq(texts, 1, k))
           S == {k \in 0..n : P(k) \in C /\ Laid(texts, k, P(k))}
<1>1. n \in Nat /\ \A i \in 1..n : texts[i] \in C /\ Len(texts[i]) \in Nat
  <2>1. \A i \in 1..n : texts[i] \in C
    OBVIOUS
  <2> QED BY <2>1
<1>2. /\ SubSeq(texts, 1, 0) = <<>> /\ SubSeq(texts, 1, n) = texts
      /\ \A i \in 0..(n - 1) :
           /\ SubSeq(texts, 1, i) \in Seq(C) /\ texts[i + 1] \in C
           /\ IsAppend(SubSeq(texts, 1, i + 1), SubSeq(texts, 1, i), texts[i + 1])
  BY Prefix
<1> HIDE DEF n
<1>3. 0 \in S
  <2>1. P(0) = <<>>
    <3>1. SubSeq(texts, 1, 0) \in Seq(Seq(E))
      BY <1>2
    <3> QED BY <1>2, <3>1, ConcatGrows
  <2>2. Len(P(0)) = 0 /\ P(0) \in C /\ 0 \in 0..n
    <3>1. <<>> \in C /\ Len(<<>>) = 0
      OBVIOUS
    <3> HIDE DEF P, C
    <3> QED BY <1>1, <2>1, <3>1
  <2>3. Width(texts, 0) = 0 /\ Len(P(0)) = Width(texts, 0)
    BY <2>2 DEF Width
  <2> HIDE DEF P
  <2>4. Laid(texts, 0, P(0))
    BY <2>2, <2>3 DEF Laid
  <2> QED BY <2>2, <2>4
<1>4. ASSUME NEW m \in 0..(n - 1), m \in S
      PROVE  m + 1 \in S
  <2> DEFINE s == P(m)
             t == texts[m + 1]
             u == P(m + 1)
             w == Len(s)
  <2>1. m + 1 \in 1..n /\ m + 1 \in 0..n /\ m \in Nat /\ (m + 1) - 1 = m /\ m \in 0..m
    BY <1>1
  <2>2. s \in C /\ t \in C /\ u = s \o t
    <3>1. s \in C
      BY <1>4
    <3> QED BY <1>2, <3>1, ConcatGrows
  <2>3. Width(texts, m) = w /\ Width(texts, m + 1) = Len(u) /\ Laid(texts, m, s)
    BY <1>4 DEF Width
  <2> HIDE DEF P, s, t, u
  <2>4. /\ u \in C /\ w \in Nat /\ Len(t) \in Nat /\ Len(u) = w + Len(t)
        /\ \A i \in 1..w : u[i] = s[i]
        /\ \A i \in 1..Len(t) : u[w + i] = t[i]
    BY <2>2 DEF C
  <2>5. /\ Width(texts, 0) = 0
        /\ \A k \in 0..m : Width(texts, k) \in 0..w
        /\ \A k \in 1..m :
             /\ Width(texts, k) = Width(texts, k - 1) + Len(texts[k])
             /\ \A j \in 1..Len(texts[k]) : s[Width(texts, k - 1) + j] = texts[k][j]
        /\ \A i \in 1..w : \E k \in 1..m :
             Width(texts, k - 1) < i /\ i <= Width(texts, k)
    BY <2>3 DEF Laid
  <2> HIDE DEF w, C
  <2>6. ASSUME NEW k \in 1..(m + 1)
        PROVE  /\ Width(texts, k) = Width(texts, k - 1) + Len(texts[k])
               /\ \A j \in 1..Len(texts[k]) : u[Width(texts, k - 1) + j] = texts[k][j]
    <3>1. CASE k = m + 1
      BY <2>1, <2>3, <2>4, <3>1 DEF t
    <3>2. CASE k # m + 1
      <4> DEFINE v == Width(texts, k - 1)
                 l == Len(texts[k])
                 x == Width(texts, k)
      <4>1. k \in 1..m /\ k \in 0..m /\ k - 1 \in 0..m /\ k \in 1..n
        BY <1>1, <2>1, <3>2
      <4>2. /\ v \in 0..w /\ x \in 0..w /\ x = v + l /\ l \in Nat
            /\ \A j \in 1..l : s[v + j] = texts[k][j]
        BY <1>1, <2>5, <4>1
      <4>3. \A j \in 1..l : v + j \in 1..w
        <5> HIDE DEF v, l, x
        <5> QED BY <2>4, <4>2
      <4> HIDE DEF v, l, x
      <4>4. \A j \in 1..l : u[v + j] = texts[k][j]
        BY <2>4, <4>2, <4>3
      <4> QED BY <4>2, <4>4 DEF v, l, x
    <3> QED BY <3>1, <3>2
  <2>7. \A k \in 0..(m + 1) : Width(texts, k) \in 0..Len(u)
    <3>1. ASSUME NEW k \in 0..(m + 1)
          PROVE  Width(texts, k) \in 0..Len(u)
      <4>1. CASE k = m + 1
        BY <2>3, <2>4, <4>1
      <4>2. CASE k # m + 1
        <5>1. k \in 0..m
          BY <2>1, <4>2
        <5>2. Width(texts, k) \in 0..w
          BY <2>5, <5>1
        <5> QED BY <2>4, <5>2
      <4> QED BY <4>1, <4>2
    <3> QED BY <3>1
  <2>8. ASSUME NEW i \in 1..Len(u)
        PROVE  \E k \in 1..(m + 1) : Width(texts, k - 1) < i /\ i <= Width(texts, k)
    <3>1. CASE i <= w
      <4>1. i \in 1..w
        BY <2>4, <3>1
      <4>2. PICK k \in 1..m : Width(texts, k - 1) < i /\ i <= Width(texts, k)
        BY <2>5, <4>1
      <4>3. k \in 1..(m + 1)
        BY <2>1
      <4> QED BY <4>2, <4>3
    <3>2. CASE ~(i <= w)
      <4>1. Width(texts, m) < i /\ i <= Width(texts, m + 1)
        BY <2>3, <2>4, <3>2
      <4>2. m + 1 \in 1..(m + 1)
        BY <2>1
      <4> QED BY <2>1, <4>1, <4>2
    <3> QED BY <3>1, <3>2
  <2>9. Laid(texts, m + 1, u)
    BY <2>3, <2>5, <2>6, <2>7, <2>8 DEF Laid
  <2> QED BY <2>1, <2>4, <2>9 DEF u
<1>5. n \in S
  <2> HIDE DEF S
  <2>1. \A i \in 0..n : i \in S
    BY <1>1, <1>3, <1>4, Upward, Zenon
  <2> QED BY <1>1, <2>1
<1>6. P(n) = Scrape!Concat(texts)
  BY <1>2
<1> HIDE DEF P
<1> QED BY <1>5, <1>6 DEF n, C

-----------------------------------------------------------------------------
(* What the exposition is made of.                                          *)
Symbols == Scrape!Characters \cup {"__overall__"}
           \cup {"# TYPE", "requests_total", "latency_seconds", "error_ratio", "throughput_per_second"}
           \cup {"scenario", "tool", "status", "quantile", "ok", "error", "0.5", "0.95", "0.99"}
Clean   == Symbols \ Scrape!Terminators

(* What rises with every step rises over several.                           *)
LEMMA Rising ==
  ASSUME NEW n \in Nat, NEW w, w \in [0..n -> Nat], \A k \in 1..n : w[k - 1] < w[k]
  PROVE  \A j \in 0..n, k \in 0..n : j < k => w[j] < w[k]
<1> DEFINE S == {k \in 0..n : \A j \in 0..n : j < k => w[j] < w[k]}
<1>1. 0 \in S
  OBVIOUS
<1>2. ASSUME NEW k \in 0..(n - 1), k \in S
      PROVE  k + 1 \in S
  <2>1. k + 1 \in 1..n /\ k + 1 \in 0..n /\ (k + 1) - 1 = k /\ k \in 0..n /\ k \in Nat
    OBVIOUS
  <2> DEFINE v == w[k]
             x == w[k + 1]
  <2>2. v < x /\ v \in Nat /\ x \in Nat
    BY <2>1
  <2>3. ASSUME NEW j \in 0..n, j < k + 1
        PROVE  w[j] < x
    <3> DEFINE u == w[j]
    <3>1. u \in Nat
      OBVIOUS
    <3>2. j = k \/ j < k
      BY <2>1, <2>3
    <3>3. u = v \/ u < v
      BY <1>2, <3>2
    <3> HIDE DEF u, v, x
    <3>4. u < x
      BY <2>2, <3>1, <3>3
    <3> QED BY <3>4 DEF u
  <2> QED BY <2>1, <2>3
<1>3. \A k \in 0..n : k \in S
  <2> HIDE DEF S
  <2> QED BY <1>1, <1>2, Upward, Zenon
<1> QED BY <1>3

(* The places of the terminators are as many as there are lines.            *)
Reached(w, k) == {w[j] : j \in 1..k}

LEMMA CountRising ==
  ASSUME NEW n \in Nat, NEW w, w \in [0..n -> Nat], \A k \in 1..n : w[k - 1] < w[k]
  PROVE  \A k \in 0..n : Cardinality(Reached(w, k)) = k
<1> DEFINE U(k) == {w[j] : j \in 1..k}
           Good(k) == IsFiniteSet(U(k)) /\ Cardinality(U(k)) = k /\ \A x \in U(k) : x <= w[k]
           S == {k \in 0..n : Good(k)}
<1>1. 0 \in S
  <2>1. U(0) = {}
    OBVIOUS
  <2> HIDE DEF U
  <2>2. IsFiniteSet(U(0)) /\ Cardinality(U(0)) = 0
    BY <2>1, FS_EmptySet
  <2> QED BY <2>1, <2>2
<1>2. ASSUME NEW k \in 0..(n - 1), k \in S
      PROVE  k + 1 \in S
  <2>1. k + 1 \in 1..n /\ k + 1 \in 0..n /\ (k + 1) - 1 = k /\ k \in 0..n /\ k \in Nat
    OBVIOUS
  <2> DEFINE y == w[k + 1]
  <2>2. w[k] < y /\ w[k] \in Nat /\ y \in Nat
    BY <2>1
  <2>3. U(k + 1) = U(k) \cup {y}
    <3>1. \A j \in 1..(k + 1) : j \in 1..k \/ j = k + 1
      BY <2>1
    <3>2. k + 1 \in 1..(k + 1) /\ \A j \in 1..k : j \in 1..(k + 1)
      BY <2>1
    <3> QED BY <3>1, <3>2
  <2>4. U(k) \subseteq Nat
    <3>1. \A j \in 1..k : j \in 0..n
      BY <2>1
    <3> QED BY <3>1
  <2>5. IsFiniteSet(U(k)) /\ Cardinality(U(k)) = k /\ \A x \in U(k) : x <= w[k]
    BY <1>2
  <2> HIDE DEF U, y
  <2>6. y \notin U(k)
    BY <2>2, <2>4, <2>5
  <2>7. IsFiniteSet(U(k + 1)) /\ Cardinality(U(k + 1)) = k + 1
    <3> DEFINE V == U(k)
               W == U(k + 1)
    <3>1. IsFiniteSet(V) /\ Cardinality(V) = k /\ y \notin V /\ W = V \cup {y}
      BY <2>3, <2>5, <2>6
    <3> HIDE DEF V, W
    <3>2. IsFiniteSet(W) /\ Cardinality(W) = Cardinality(V) + 1
      BY <3>1, FS_AddElement
    <3> QED BY <3>1, <3>2 DEF W
  <2>8. \A x \in U(k + 1) : x <= y
    <3>1. ASSUME NEW x \in U(k)
          PROVE  x <= y
      <4>1. x \in Nat /\ x <= w[k]
        BY <2>4, <2>5
      <4> DEFINE v == w[k]
      <4> HIDE DEF v
      <4> QED BY <2>2, <4>1 DEF v
    <3> QED BY <2>2, <2>3, <3>1
  <2> QED BY <2>1, <2>7, <2>8 DEF y
<1>3. \A k \in 0..n : k \in S
  <2> HIDE DEF S
  <2> QED BY <1>1, <1>2, Upward, Zenon
<1> QED BY <1>3 DEF Reached

(* The lines that a scraper finds are the ones that were ended.             *)
LEMMA LinesFound ==
  ASSUME NEW bodies \in Seq(Seq(Symbols)), NEW texts \in Seq(Seq(Symbols)),
         Len(texts) = Len(bodies),
         \A k \in 1..Len(bodies) :
           /\ texts[k] = bodies[k] \o <<"LF">>
           /\ \A j \in 1..Len(bodies[k]) : ~Scrape!EndsLine(bodies[k][j])
  PROVE  Scrape!LinesOf(Scrape!Concat(texts)) = bodies
<1> DEFINE n == Len(bodies)
           whole == Scrape!Concat(texts)
           w == [k \in 0..n |-> Width(texts, k)]
           ends == {i \in 1..Len(whole) : Scrape!EndsLine(whole[i])}
           U(k) == {w[j] : j \in 1..k}
           End(k) == IF k = 0 THEN 0 ELSE CHOOSE e \in ends : Cardinality({i \in ends : i <= e}) = k
<1>1. /\ n \in Nat
      /\ \A k \in 1..n : /\ bodies[k] \in Seq(Symbols) /\ texts[k] \in Seq(Symbols)
                         /\ Len(bodies[k]) \in Nat
  <2>1. \A k \in 1..n : bodies[k] \in Seq(Symbols) /\ texts[k] \in Seq(Symbols)
    OBVIOUS
  <2> QED BY <2>1
<1>2. whole \in Seq(Symbols) /\ Laid(texts, n, whole)
  BY ConcatLaid
<1>3. Len(whole) \in Nat
  BY <1>2
<1>4. ASSUME NEW k \in 1..n
      PROVE  /\ Len(texts[k]) = Len(bodies[k]) + 1
             /\ \A j \in 1..Len(bodies[k]) : texts[k][j] = bodies[k][j] /\ ~Scrape!EndsLine(texts[k][j])
             /\ Scrape!EndsLine(texts[k][Len(texts[k])])
  <2> DEFINE s == bodies[k]
             l == Len(s)
  <2>1. s \in Seq(Symbols) /\ l \in Nat /\ texts[k] = s \o <<"LF">>
    BY <1>1
  <2> HIDE DEF s
  <2>2. /\ Len(s \o <<"LF">>) = l + 1 /\ (s \o <<"LF">>)[l + 1] = "LF"
        /\ \A j \in 1..l : (s \o <<"LF">>)[j] = s[j]
    BY <2>1
  <2>3. \A j \in 1..l : ~Scrape!EndsLine(s[j])
    BY DEF s
  <2>4. Scrape!EndsLine("LF")
    BY DEF Scrape!EndsLine
  <2> QED BY <2>1, <2>2, <2>3, <2>4 DEF s
<1> HIDE DEF n, whole
<1>5. /\ w \in [0..n -> Nat] /\ w[0] = 0 /\ w[n] = Len(whole)
      /\ \A k \in 0..n : w[k] \in 0..Len(whole)
  <2>1. \A k \in 0..n : Width(texts, k) \in 0..Len(whole)
    BY <1>2 DEF Laid
  <2>2. Width(texts, 0) = 0 /\ Len(whole) = Width(texts, n)
    BY <1>2 DEF Laid
  <2> QED BY <1>1, <1>3, <2>1, <2>2
<1>6. ASSUME NEW k \in 1..n
      PROVE  /\ k \in 0..n /\ k - 1 \in 0..n /\ w[k] = w[k - 1] + (Len(bodies[k]) + 1)
             /\ \A j \in 1..(Len(bodies[k]) + 1) : whole[w[k - 1] + j] = texts[k][j]
  <2>1. k \in 0..n /\ k - 1 \in 0..n
    BY <1>1
  <2>2. /\ Width(texts, k) = Width(texts, k - 1) + Len(texts[k])
        /\ \A j \in 1..Len(texts[k]) : whole[Width(texts, k - 1) + j] = texts[k][j]
    BY <1>2 DEF Laid
  <2> QED BY <1>4, <2>1, <2>2
<1>7. \A i \in 1..Len(whole) : \E k \in 1..n : w[k - 1] < i /\ i <= w[k]
  <2>1. \A i \in 1..Len(whole) : \E k \in 1..n : Width(texts, k - 1) < i /\ i <= Width(texts, k)
    BY <1>2 DEF Laid
  <2> QED BY <1>6, <2>1
<1> HIDE DEF w
<1>8. ASSUME NEW k \in 1..n
      PROVE  /\ Len(bodies[k]) \in Nat /\ w[k - 1] \in Nat /\ w[k] \in Nat
             /\ w[k - 1] < w[k] /\ w[k] <= Len(whole)
  <2> DEFINE l == Len(bodies[k])
             v == w[k - 1]
             x == w[k]
  <2>1. l \in Nat /\ v \in 0..Len(whole) /\ x \in 0..Len(whole) /\ x = v + (l + 1)
    BY <1>1, <1>5, <1>6
  <2> HIDE DEF l, v, x
  <2>2. l \in Nat /\ v \in Nat /\ x \in Nat /\ v < x /\ x <= Len(whole)
    BY <1>3, <2>1
  <2> QED BY <2>2 DEF l, v, x
<1>9. ends = U(n)
  <2>1. ASSUME NEW i \in ends
        PROVE  i \in U(n)
    <3>1. PICK k \in 1..n : w[k - 1] < i /\ i <= w[k]
      BY <1>7
    <3> DEFINE v == w[k - 1]
               x == w[k]
               l == Len(bodies[k])
               j == i - v
    <3>2. i \in Int /\ v \in Nat /\ x \in Nat /\ l \in Nat /\ x = v + (l + 1) /\ v < i /\ i <= x
      BY <1>3, <1>6, <1>8, <3>1
    <3>3. j \in 1..(l + 1) /\ v + j = i /\ (j \notin 1..l => i = x)
      <4> HIDE DEF v, x, l
      <4> QED BY <3>2
    <3>4. whole[v + j] = texts[k][j]
      <4> HIDE DEF j
      <4> QED BY <1>6, <3>3
    <3>5. Scrape!EndsLine(texts[k][j])
      <4> HIDE DEF v, j
      <4> QED BY <3>3, <3>4
    <3>6. j \notin 1..l
      <4> HIDE DEF j
      <4> QED BY <1>4, <3>5
    <3>7. i = x
      BY <3>3, <3>6
    <3> QED BY <3>7
  <2>2. ASSUME NEW k \in 1..n
        PROVE  w[k] \in ends
    <3> DEFINE j == Len(bodies[k]) + 1
    <3>1. j \in 1..j /\ w[k] = w[k - 1] + j /\ j = Len(texts[k])
      BY <1>1, <1>4, <1>6
    <3>2. whole[w[k]] = texts[k][j]
      BY <1>6, <3>1
    <3>3. w[k] \in 1..Len(whole)
      <4>1. w[k - 1] \in Nat /\ w[k] \in Nat /\ w[k - 1] < w[k] /\ w[k] <= Len(whole)
        BY <1>8
      <4> DEFINE v == w[k - 1]
                 x == w[k]
      <4> HIDE DEF v, x
      <4>2. v \in Nat /\ x \in Nat /\ v < x /\ x <= Len(whole)
        BY <4>1 DEF v, x
      <4>3. x \in 1..Len(whole)
        BY <1>3, <4>2
      <4> QED BY <4>3 DEF x
    <3> QED BY <1>4, <3>1, <3>2, <3>3
  <2> HIDE DEF ends
  <2> QED BY <2>1, <2>2
<1>11. \A j \in 0..n, k \in 0..n : j < k => w[j] < w[k]
  <2>1. \A k \in 1..n : w[k - 1] < w[k]
    BY <1>8
  <2> QED BY <1>1, <1>5, <2>1, Rising
<1>10. ASSUME NEW k \in 0..n
       PROVE  {i \in ends : i <= w[k]} = U(k)
  <2>1. ASSUME NEW j \in 1..n
        PROVE  w[j] <= w[k] <=> j \in 1..k
    <3>1. j \in 0..n /\ j \in Nat /\ k \in Nat /\ k \in 0..n
      BY <1>1
    <3> DEFINE v == w[j]
               x == w[k]
    <3>2. v \in Nat /\ x \in Nat /\ (j < k => v < x) /\ (k < j => x < v) /\ (j = k => v = x)
      BY <1>5, <1>11, <3>1
    <3> HIDE DEF v, x
    <3>3. v <= x <=> j \in 1..k
      BY <3>1, <3>2
    <3> QED BY <3>3 DEF v, x
  <2>2. \A j \in 1..k : j \in 1..n
    BY <1>1
  <2> HIDE DEF ends
  <2> QED BY <1>9, <2>1, <2>2
<1>12. \A k \in 0..n : Cardinality(U(k)) = k
  <2>1. \A k \in 1..n : w[k - 1] < w[k]
    BY <1>8
  <2>2. \A k \in 0..n : Cardinality(Reached(w, k)) = k
    BY <1>1, <1>5, <2>1, CountRising
  <2>3. \A k \in 0..n : Reached(w, k) = U(k)
    BY DEF Reached
  <2> HIDE DEF ends, End, U
  <2> QED BY <2>2, <2>3
<1>13. ASSUME NEW k \in 0..n
       PROVE  End(k) = w[k]
  <2>1. CASE k = 0
    BY <1>5, <2>1
  <2>2. CASE k # 0
    <3>1. k \in 1..n
      BY <1>1, <2>2
    <3>2. w[k] \in ends /\ Cardinality({i \in ends : i <= w[k]}) = k
      BY <1>9, <1>10, <1>12, <3>1
    <3>3. ASSUME NEW e \in ends, Cardinality({i \in ends : i <= e}) = k
          PROVE  e = w[k]
      <4>1. PICK j \in 1..n : e = w[j]
        BY <1>9
      <4>2. j \in 0..n
        BY <1>1
      <4>3. {i \in ends : i <= e} = U(j) /\ Cardinality(U(j)) = j
        BY <1>10, <1>12, <4>1, <4>2
      <4> QED BY <3>3, <4>1, <4>3
    <3> HIDE DEF ends
    <3>4. (CHOOSE e \in ends : Cardinality({i \in ends : i <= e}) = k) = w[k]
      BY <3>2, <3>3
    <3> QED BY <2>2, <3>4
  <2> QED BY <2>1, <2>2
<1>14. Cardinality(ends) = n
  <2>1. n \in 0..n
    BY <1>1
  <2> HIDE DEF ends, U
  <2> QED BY <1>9, <1>12, <2>1
<1>15. Scrape!LinesOf(whole) = [k \in 1..Cardinality(ends) |-> SubSeq(whole, End(k - 1) + 1, End(k) - 1)]
  BY DEF Scrape!LinesOf, Scrape!Cardinality, Cardinality
<1> HIDE DEF End, ends
<1>16. ASSUME NEW k \in 1..n
       PROVE  SubSeq(whole, End(k - 1) + 1, End(k) - 1) = bodies[k]
  <2> DEFINE l == Len(bodies[k])
             v == w[k - 1]
             x == w[k]
             body == bodies[k]
             found == SubSeq(whole, v + 1, x - 1)
  <2>1. End(k - 1) = v /\ End(k) = x
    BY <1>6, <1>13
  <2>2. l \in Nat /\ v \in Nat /\ x \in Nat /\ x = v + (l + 1) /\ x <= Len(whole) /\ body \in Seq(Symbols)
    BY <1>1, <1>6, <1>8
  <2>3. \A j \in 1..l : whole[v + j] = body[j]
    <3>1. ASSUME NEW j \in 1..l
          PROVE  whole[v + j] = body[j]
      <4>1. j \in 1..(l + 1)
        BY <2>2
      <4>2. whole[v + j] = texts[k][j]
        BY <1>6, <4>1
      <4> QED BY <1>4, <4>2
    <3> QED BY <3>1
  <2>4. Len(body) = l
    OBVIOUS
  <2> HIDE DEF l, v, x, body
  <2>5. /\ found \in Seq(Symbols) /\ Len(found) = l
        /\ \A j \in 1..l : found[j] = whole[v + j]
    <3>1. v + 1 \in Int /\ x - 1 \in Int
      BY <2>2
    <3>2. \A i \in (v + 1)..(x - 1) : whole[i] \in Symbols
      <4>1. \A i \in (v + 1)..(x - 1) : i \in 1..Len(whole)
        BY <1>3, <2>2
      <4> QED BY <1>2, <4>1
    <3>3. /\ found \in Seq(Symbols)
          /\ Len(found) = IF v + 1 <= x - 1 THEN (x - 1) - (v + 1) + 1 ELSE 0
          /\ \A j \in 1..((x - 1) - (v + 1) + 1) : found[j] = whole[(v + 1) + j - 1]
      BY <3>1, <3>2, SubSeqProperties
    <3>4. (x - 1) - (v + 1) + 1 = l /\ (IF v + 1 <= x - 1 THEN (x - 1) - (v + 1) + 1 ELSE 0) = l
      BY <2>2
    <3>5. \A j \in 1..l : (v + 1) + j - 1 = v + j
      BY <2>2
    <3> HIDE DEF found
    <3> QED BY <3>3, <3>4, <3>5
  <2> HIDE DEF found
  <2>6. Len(found) = Len(body) /\ \A j \in 1..Len(found) : found[j] = body[j]
    BY <2>3, <2>4, <2>5
  <2>7. found = body
    BY <2>2, <2>5, <2>6, SeqEqual
  <2> QED BY <2>1, <2>7 DEF found, body
<1>17. Scrape!LinesOf(whole) = [k \in 1..n |-> bodies[k]]
  <2>1. \A k \in 1..n : SubSeq(whole, End(k - 1) + 1, End(k) - 1) = bodies[k]
    BY <1>16
  <2> QED BY <1>14, <1>15, <2>1
<1>18. bodies = [k \in 1..n |-> bodies[k]]
  BY DEF n
<1> QED BY <1>17, <1>18 DEF whole

-----------------------------------------------------------------------------
(* The series of a run are made of clean texts.                             *)
Label   == Clean \X Seq(Clean)
Metrics == {"requests_total", "latency_seconds", "throughput_per_second", "error_ratio"}
Series  == [metric : Metrics, labels : Seq(Label)]

LEMMA Sanitized ==
  ASSUME NEW text \in Seq(Symbols)
  PROVE  /\ Scrape!SanitizeLabel(text) \in Seq(Clean)
         /\ Len(Scrape!SanitizeLabel(text)) = Len(text)
         /\ \A i \in 1..Len(text) : Scrape!SanitizeLabel(text)[i]
                = IF text[i] \in Scrape!Terminators THEN "_" ELSE text[i]
<1> DEFINE Put(i) == IF text[i] \in Scrape!Terminators THEN "_" ELSE text[i]
           put == [i \in 1..Len(text) |-> Put(i)]
<1>1. "_" \in Clean
  BY DEF Clean, Symbols, Scrape!Characters, Scrape!Terminators
<1>2. \A i \in 1..Len(text) : Put(i) \in Clean
  <2>1. \A i \in 1..Len(text) : text[i] \in Symbols
    OBVIOUS
  <2> QED BY <1>1, <2>1 DEF Clean
<1> HIDE DEF Put
<1>3. Len(text) \in Nat /\ put \in [1..Len(text) -> Clean]
  BY <1>2
<1>4. put \in Seq(Clean) /\ Len(put) = Len(text) /\ \A i \in 1..Len(text) : put[i] = Put(i)
  BY <1>3
<1>5. Scrape!SanitizeLabel(text) = put
  BY DEF Scrape!SanitizeLabel, Put
<1> HIDE DEF put
<1> QED BY <1>4, <1>5 DEF Put

(* The first of the series of a row.                                        *)
Requests(scenario, name) ==
  [metric |-> "requests_total",
   labels |-> Append(<<<<"scenario", scenario>>, <<"tool", Scrape!SanitizeLabel(name)>>>>,
                     <<"status", <<"ok">>>>)]

LEMMA RowEmitted ==
  ASSUME NEW scenario \in Seq(Clean), NEW name \in Seq(Symbols)
  PROVE  /\ Scrape!EmitRow(scenario, name) \in Seq(Series)
         /\ Len(Scrape!EmitRow(scenario, name)) = 6
         /\ Scrape!EmitRow(scenario, name)[1] = Requests(scenario, name)
<1> DEFINE text == Scrape!SanitizeLabel(name)
           L == <<<<"scenario", scenario>>, <<"tool", text>>>>
           Of(metric, label, values) ==
             [i \in 1..Len(values) |-> [metric |-> metric, labels |-> Append(L, <<label, <<values[i]>>>>)]]
           codes == Of("requests_total", "status", <<"ok", "error">>)
           times == Of("latency_seconds", "quantile", <<"0.5", "0.95", "0.99">>)
           ratio == <<[metric |-> "error_ratio", labels |-> L]>>
<1>1. text \in Seq(Clean)
  BY Sanitized
<1>2. /\ "scenario" \in Clean /\ "tool" \in Clean /\ "status" \in Clean /\ "quantile" \in Clean
      /\ "requests_total" \in Metrics /\ "latency_seconds" \in Metrics /\ "error_ratio" \in Metrics
      /\ "ok" \in Clean /\ "error" \in Clean /\ "0.5" \in Clean /\ "0.95" \in Clean /\ "0.99" \in Clean
  BY DEF Metrics, Clean, Symbols, Scrape!Characters, Scrape!Terminators
<1> HIDE DEF text
<1>3. L \in Seq(Label) /\ Len(L) = 2
  BY <1>1, <1>2 DEF Label
<1>4. ASSUME NEW metric \in Metrics, NEW label \in Clean, NEW value \in Clean
      PROVE  [metric |-> metric, labels |-> Append(L, <<label, <<value>>>>)] \in Series
  <2>1. <<label, <<value>>>> \in Label
    <3>1. <<value>> \in Seq(Clean)
      OBVIOUS
    <3> QED BY <3>1 DEF Label
  <2> HIDE DEF L
  <2>2. Append(L, <<label, <<value>>>>) \in Seq(Label)
    BY <1>3, <2>1
  <2> QED BY <2>2 DEF Series
<1>5. ASSUME NEW metric \in Metrics, NEW label \in Clean, NEW values \in Seq(Clean)
      PROVE  /\ Of(metric, label, values) \in Seq(Series) /\ Len(Of(metric, label, values)) = Len(values)
             /\ \A i \in 1..Len(values) : Of(metric, label, values)[i]
                    = [metric |-> metric, labels |-> Append(L, <<label, <<values[i]>>>>)]
  <2> DEFINE One(v) == [metric |-> metric, labels |-> Append(L, <<label, <<v>>>>)]
             all == [i \in 1..Len(values) |-> One(values[i])]
  <2>1. \A v \in Clean : One(v) \in Series
    BY <1>4
  <2>2. Len(values) \in Nat /\ \A i \in 1..Len(values) : values[i] \in Clean
    OBVIOUS
  <2> HIDE DEF One, L
  <2>3. all \in Seq(Series) /\ Len(all) = Len(values) /\ \A i \in 1..Len(values) : all[i] = One(values[i])
    BY <2>1, <2>2
  <2>4. Of(metric, label, values) = all
    BY DEF One
  <2> HIDE DEF all, Of
  <2> QED BY <2>3, <2>4 DEF One
<1>6. /\ codes \in Seq(Series) /\ Len(codes) = 2
      /\ times \in Seq(Series) /\ Len(times) = 3
      /\ codes[1] = [metric |-> "requests_total", labels |-> Append(L, <<"status", <<"ok">>>>)]
  <2> DEFINE twice  == <<"ok", "error">>
             thrice == <<"0.5", "0.95", "0.99">>
  <2>1. twice \in Seq(Clean) /\ Len(twice) = 2 /\ twice[1] = "ok" /\ 1 \in 1..2
    BY <1>2
  <2>2. thrice \in Seq(Clean) /\ Len(thrice) = 3
    BY <1>2
  <2>3. codes = Of("requests_total", "status", twice) /\ times = Of("latency_seconds", "quantile", thrice)
    OBVIOUS
  <2> HIDE DEF codes, times, Of, L, twice, thrice
  <2>4. /\ Of("requests_total", "status", twice) \in Seq(Series)
        /\ Len(Of("requests_total", "status", twice)) = Len(twice)
        /\ Of("requests_total", "status", twice)[1]
             = [metric |-> "requests_total", labels |-> Append(L, <<"status", <<twice[1]>>>>)]
    <3>1. 1 \in 1..Len(twice)
      BY <2>1
    <3>2. /\ Of("requests_total", "status", twice) \in Seq(Series)
          /\ Len(Of("requests_total", "status", twice)) = Len(twice)
          /\ \A i \in 1..Len(twice) : Of("requests_total", "status", twice)[i]
                = [metric |-> "requests_total", labels |-> Append(L, <<"status", <<twice[i]>>>>)]
      <4> DEFINE metric == "requests_total"
                 label == "status"
      <4>1. metric \in Metrics /\ label \in Clean /\ twice \in Seq(Clean)
        BY <1>2, <2>1
      <4> HIDE DEF metric, label
      <4>2. /\ Of(metric, label, twice) \in Seq(Series)
            /\ Len(Of(metric, label, twice)) = Len(twice)
            /\ \A i \in 1..Len(twice) : Of(metric, label, twice)[i]
                = [metric |-> metric, labels |-> Append(L, <<label, <<twice[i]>>>>)]
        BY <1>5, <4>1
      <4> QED BY <4>2 DEF metric, label
    <3> QED BY <3>1, <3>2
  <2>5. /\ Of("latency_seconds", "quantile", thrice) \in Seq(Series)
        /\ Len(Of("latency_seconds", "quantile", thrice)) = Len(thrice)
    <3> DEFINE metric == "latency_seconds"
               label == "quantile"
    <3>1. metric \in Metrics /\ label \in Clean /\ thrice \in Seq(Clean)
      BY <1>2, <2>2
    <3> HIDE DEF metric, label
    <3>2. Of(metric, label, thrice) \in Seq(Series) /\ Len(Of(metric, label, thrice)) = Len(thrice)
      BY <1>5, <3>1
    <3> QED BY <3>2 DEF metric, label
  <2>6. codes[1] = [metric |-> "requests_total", labels |-> Append(L, <<"status", <<"ok">>>>)]
    BY <2>1, <2>3, <2>4
  <2> QED BY <2>1, <2>2, <2>3, <2>4, <2>5, <2>6
<1>7. ratio \in Seq(Series) /\ Len(ratio) = 1
  BY <1>2, <1>3 DEF Series
<1>8. codes[1] = Requests(scenario, name)
  <2>1. Requests(scenario, name) = [metric |-> "requests_total", labels |-> Append(L, <<"status", <<"ok">>>>)]
    BY DEF Requests, text
  <2> HIDE DEF L, codes
  <2> QED BY <1>6, <2>1
<1>9. Scrape!EmitRow(scenario, name) = codes \o times \o ratio
  BY DEF Scrape!EmitRow, text
<1> HIDE DEF codes, times, ratio, Of
<1>10. /\ codes \o times \o ratio \in Seq(Series) /\ Len(codes \o times \o ratio) = 6
       /\ (codes \o times \o ratio)[1] = codes[1]
  <2>1. codes \o times \in Seq(Series) /\ Len(codes \o times) = 5 /\ (codes \o times)[1] = codes[1]
    <3>1. codes \in Seq(Series) /\ times \in Seq(Series) /\ Len(codes) = 2 /\ Len(times) = 3
      BY <1>6
    <3>2. /\ codes \o times \in Seq(Series) /\ Len(codes \o times) = Len(codes) + Len(times)
          /\ \A i \in 1..(Len(codes) + Len(times)) :
               (codes \o times)[i] = IF i <= Len(codes) THEN codes[i] ELSE times[i - Len(codes)]
      BY <3>1, ConcatProperties
    <3> QED BY <3>1, <3>2
  <2> DEFINE five == codes \o times
  <2> HIDE DEF five
  <2>2. five \o ratio \in Seq(Series) /\ Len(five \o ratio) = 6 /\ (five \o ratio)[1] = five[1]
    <3>1. five \in Seq(Series) /\ ratio \in Seq(Series) /\ Len(five) = 5
      BY <1>7, <2>1 DEF five
    <3>2. /\ five \o ratio \in Seq(Series) /\ Len(five \o ratio) = Len(five) + Len(ratio)
          /\ \A i \in 1..(Len(five) + Len(ratio)) :
               (five \o ratio)[i] = IF i <= Len(five) THEN five[i] ELSE ratio[i - Len(five)]
      BY <3>1, ConcatProperties
    <3> QED BY <1>7, <3>1, <3>2
  <2> QED BY <2>1, <2>2 DEF five
<1> QED BY <1>8, <1>9, <1>10

-----------------------------------------------------------------------------
(* The series of a run: six for every row, and one.                         *)
LEMMA SixAhead ==
  ASSUME NEW texts \in Seq(Seq(Series)), \A k \in 1..Len(texts) : Len(texts[k]) = 6
  PROVE  \A k \in 0..Len(texts) : Width(texts, k) = 6 * k
<1> DEFINE n == Len(texts)
           S == {k \in 0..n : Width(texts, k) = 6 * k}
<1>1. n \in Nat
  OBVIOUS
<1>2. Laid(texts, n, Scrape!Concat(texts))
  BY ConcatLaid
<1>3. 0 \in S
  BY <1>1, <1>2 DEF Laid
<1>4. ASSUME NEW k \in 0..(n - 1), k \in S
      PROVE  k + 1 \in S
  <2>1. k + 1 \in 1..n /\ (k + 1) - 1 = k /\ k + 1 \in 0..n /\ k \in Nat
    BY <1>1
  <2>2. Width(texts, k + 1) = Width(texts, (k + 1) - 1) + Len(texts[k + 1])
    BY <1>2, <2>1 DEF Laid
  <2>3. Width(texts, k + 1) = Width(texts, k) + 6
    BY <2>1, <2>2
  <2>4. Width(texts, k + 1) = 6 * k + 6
    BY <1>4, <2>3
  <2>5. 6 * k + 6 = 6 * (k + 1)
    BY <2>1
  <2> QED BY <2>1, <2>4, <2>5
<1> HIDE DEF S
<1>5. \A k \in 0..n : k \in S
  BY <1>1, <1>3, <1>4, Upward, Zenon
<1> QED BY <1>5 DEF S

LEMMA SeriesMade ==
  ASSUME NEW rf, rf.scenario \in Seq(Symbols), rf.tools \in Seq(Seq(Symbols))
  PROVE  /\ Scrape!Rows(rf) \in Seq(Seq(Symbols))
         /\ Scrape!AllSeries(rf) \in Seq(Series)
         /\ \A k \in 1..Len(Scrape!Rows(rf)) :
              /\ 6 * (k - 1) + 1 \in 1..Len(Scrape!AllSeries(rf))
              /\ Scrape!AllSeries(rf)[6 * (k - 1) + 1]
                   = Requests(Scrape!SanitizeLabel(rf.scenario), Scrape!Rows(rf)[k])
<1> DEFINE rows == Scrape!Rows(rf)
           n == Len(rows)
           scenario == Scrape!SanitizeLabel(rf.scenario)
           Emit(i) == Scrape!EmitRow(scenario, rows[i])
           texts == [i \in 1..n |-> Emit(i)]
           whole == Scrape!Concat(texts)
           last == <<[metric |-> "throughput_per_second", labels |-> <<<<"scenario", scenario>>>>]>>
<1>1. rows \in Seq(Seq(Symbols)) /\ n \in Nat
  <2>1. Scrape!OverallName \in Seq(Symbols)
    <3>1. "__overall__" \in Symbols
      BY DEF Symbols
    <3> QED BY <3>1 DEF Scrape!OverallName
  <2>2. <<Scrape!OverallName>> \in Seq(Seq(Symbols))
    BY <2>1
  <2> DEFINE one == <<Scrape!OverallName>>
  <2>3. rows = one \o rf.tools
    BY DEF Scrape!Rows
  <2> HIDE DEF one
  <2>4. one \o rf.tools \in Seq(Seq(Symbols))
    BY <2>2, ConcatProperties DEF one
  <2>5. rows \in Seq(Seq(Symbols))
    BY <2>3, <2>4
  <2> HIDE DEF rows
  <2> QED BY <2>5
<1>2. scenario \in Seq(Clean)
  BY Sanitized
<1>3. Scrape!AllSeries(rf) = whole \o last
  BY DEF Scrape!AllSeries
<1>4. last \in Seq(Series) /\ Len(last) = 1
  <2>1. "scenario" \in Clean /\ "throughput_per_second" \in Metrics
    BY DEF Metrics, Clean, Symbols, Scrape!Characters, Scrape!Terminators
  <2> HIDE DEF scenario
  <2>2. <<"scenario", scenario>> \in Label
    BY <1>2, <2>1 DEF Label
  <2> DEFINE label == <<"scenario", scenario>>
  <2> HIDE DEF label
  <2>3. <<label>> \in Seq(Label)
    BY <2>2 DEF label
  <2>4. [metric |-> "throughput_per_second", labels |-> <<label>>] \in Series
    BY <2>1, <2>3 DEF Series
  <2> DEFINE series == [metric |-> "throughput_per_second", labels |-> <<label>>]
  <2> HIDE DEF series
  <2>5. <<series>> \in Seq(Series) /\ Len(<<series>>) = 1
    BY <2>4 DEF series
  <2> QED BY <2>5 DEF series, label
<1> HIDE DEF rows, scenario
<1>5. ASSUME NEW i \in 1..n
      PROVE  /\ Emit(i) \in Seq(Series) /\ Len(Emit(i)) = 6
             /\ Emit(i)[1] = Requests(scenario, rows[i])
  <2>1. rows[i] \in Seq(Symbols)
    BY <1>1
  <2> QED BY <1>2, <2>1, RowEmitted
<1> HIDE DEF Emit
<1>6. texts \in Seq(Seq(Series)) /\ Len(texts) = n /\ \A i \in 1..n : texts[i] = Emit(i)
  BY <1>1, <1>5
<1> HIDE DEF texts
<1>7. whole \in Seq(Series) /\ Laid(texts, n, whole)
  BY <1>6, ConcatLaid
<1>8. \A k \in 0..n : Width(texts, k) = 6 * k
  <2>1. \A k \in 1..Len(texts) : Len(texts[k]) = 6
    BY <1>5, <1>6
  <2> QED BY <1>6, <2>1, SixAhead
<1> HIDE DEF whole, last, n
<1>9. /\ whole \o last \in Seq(Series) /\ Len(whole \o last) = Len(whole) + 1
      /\ \A i \in 1..Len(whole) : (whole \o last)[i] = whole[i]
  <2>1. /\ whole \o last \in Seq(Series) /\ Len(whole \o last) = Len(whole) + Len(last)
        /\ \A i \in 1..(Len(whole) + Len(last)) :
             (whole \o last)[i] = IF i <= Len(whole) THEN whole[i] ELSE last[i - Len(whole)]
    BY <1>4, <1>7, ConcatProperties
  <2>2. Len(whole) \in Nat
    BY <1>7
  <2>3. \A i \in 1..Len(whole) : i \in 1..(Len(whole) + 1) /\ i <= Len(whole)
    BY <2>2
  <2> QED BY <1>4, <2>1, <2>2, <2>3
<1>10. ASSUME NEW k \in 1..n
       PROVE  /\ 6 * (k - 1) + 1 \in 1..Len(whole)
              /\ whole[6 * (k - 1) + 1] = Requests(scenario, rows[k])
  <2>1. k - 1 \in 0..n /\ k \in 0..n /\ k \in Nat
    BY <1>1
  <2>2. Width(texts, k - 1) = 6 * (k - 1) /\ Width(texts, k) = 6 * k
    BY <1>8, <2>1
  <2>3. Width(texts, k) \in 0..Len(whole)
    BY <1>7, <2>1 DEF Laid
  <2>4. \A j \in 1..Len(texts[k]) : whole[Width(texts, k - 1) + j] = texts[k][j]
    BY <1>7 DEF Laid
  <2>5. 1 \in 1..Len(texts[k]) /\ texts[k][1] = Requests(scenario, rows[k])
    BY <1>5, <1>6
  <2>6. whole[6 * (k - 1) + 1] = Requests(scenario, rows[k])
    <3>1. whole[Width(texts, k - 1) + 1] = texts[k][1]
      BY <2>4, <2>5
    <3> QED BY <2>2, <2>5, <3>1
  <2>7. 6 * (k - 1) + 1 \in 1..Len(whole)
    <3>1. Len(whole) \in Nat /\ 6 * k <= Len(whole)
      BY <1>7, <2>2, <2>3
    <3> QED BY <2>1, <3>1
  <2> QED BY <2>6, <2>7
<1>11. Len(whole) \in Nat
  BY <1>7
<1>12. Scrape!AllSeries(rf) \in Seq(Series) /\ Len(Scrape!AllSeries(rf)) = Len(whole) + 1
       /\ \A i \in 1..Len(whole) : Scrape!AllSeries(rf)[i] = whole[i] /\ i \in 1..(Len(whole) + 1)
  BY <1>3, <1>9, <1>11
<1>13. \A k \in 1..n : /\ 6 * (k - 1) + 1 \in 1..Len(Scrape!AllSeries(rf))
                       /\ Scrape!AllSeries(rf)[6 * (k - 1) + 1] = Requests(scenario, rows[k])
  BY <1>10, <1>12
<1> QED BY <1>1, <1>12, <1>13 DEF n, rows, scenario

-----------------------------------------------------------------------------
(* A line: the metric, a piece for every label, and the LF.                 *)
Inked     == Clean \cup {"quote"}
Pieces(s) == [i \in 1..Len(s.labels) |-> <<s.labels[i][1], "quote">> \o s.labels[i][2] \o <<"quote">>]
Body(s)   == <<s.metric>> \o Scrape!Concat(Pieces(s))

(* Only the second character of a piece and its last are quotes.            *)
Quotes(p, name, text) ==
  /\ p \in Seq(Inked) /\ Len(p) = Len(text) + 3
  /\ p[1] = name /\ p[2] = "quote" /\ p[Len(text) + 3] = "quote"
  /\ \A i \in 1..Len(text) : p[2 + i] = text[i]

LEMMA PieceIs ==
  ASSUME NEW name \in Clean, NEW text \in Seq(Clean)
  PROVE  Quotes(<<name, "quote">> \o text \o <<"quote">>, name, text)
<1> DEFINE pre  == <<name, "quote">>
           post == <<"quote">>
           half == pre \o text
           p    == half \o post
           n    == Len(text)
<1>1. text \in Seq(Inked) /\ n \in Nat
  BY DEF Inked
<1>2. pre \in Seq(Inked) /\ Len(pre) = 2 /\ pre[1] = name /\ pre[2] = "quote"
  BY DEF Inked
<1>3. post \in Seq(Inked) /\ Len(post) = 1 /\ post[1] = "quote"
  BY DEF Inked
<1> HIDE DEF pre, post
<1>4. /\ half \in Seq(Inked) /\ Len(half) = 2 + n
      /\ \A i \in 1..(2 + n) : half[i] = IF i <= 2 THEN pre[i] ELSE text[i - 2]
  <2>1. /\ pre \o text \in Seq(Inked) /\ Len(pre \o text) = Len(pre) + Len(text)
        /\ \A i \in 1..(Len(pre) + Len(text)) :
             (pre \o text)[i] = IF i <= Len(pre) THEN pre[i] ELSE text[i - Len(pre)]
    BY <1>1, <1>2, ConcatProperties
  <2> QED BY <1>2, <2>1
<1> HIDE DEF half, n
<1>5. /\ p \in Seq(Inked) /\ Len(p) = (2 + n) + 1
      /\ \A i \in 1..((2 + n) + 1) : p[i] = IF i <= 2 + n THEN half[i] ELSE post[i - (2 + n)]
  <2>1. /\ half \o post \in Seq(Inked) /\ Len(half \o post) = Len(half) + Len(post)
        /\ \A i \in 1..(Len(half) + Len(post)) :
             (half \o post)[i] = IF i <= Len(half) THEN half[i] ELSE post[i - Len(half)]
    BY <1>3, <1>4, ConcatProperties
  <2> QED BY <1>3, <1>4, <2>1
<1> HIDE DEF p
<1>6. p[1] = name /\ p[2] = "quote"
  BY <1>1, <1>2, <1>4, <1>5
<1>7. p[n + 3] = "quote"
  <2>1. n + 3 \in 1..((2 + n) + 1) /\ ~(n + 3 <= 2 + n) /\ (n + 3) - (2 + n) = 1
    BY <1>1
  <2> QED BY <1>3, <1>5, <2>1
<1>8. ASSUME NEW i \in 1..n
      PROVE  p[2 + i] = text[i]
  <2>1. 2 + i \in 1..((2 + n) + 1) /\ 2 + i \in 1..(2 + n) /\ 2 + i <= 2 + n /\ ~(2 + i <= 2) /\ (2 + i) - 2 = i
    BY <1>1
  <2> QED BY <1>4, <1>5, <2>1
<1>9. (2 + n) + 1 = n + 3
  BY <1>1
<1> QED BY <1>5, <1>6, <1>7, <1>8, <1>9 DEF Quotes, p, half, pre, post, n

LEMMA PiecesAre ==
  ASSUME NEW s \in Series
  PROVE  /\ s.metric \in Clean /\ Len(s.labels) \in Nat
         /\ Pieces(s) \in Seq(Seq(Inked)) /\ Len(Pieces(s)) = Len(s.labels)
         /\ \A i \in 1..Len(s.labels) :
              /\ s.labels[i][1] \in Clean /\ s.labels[i][2] \in Seq(Clean)
              /\ Quotes(Pieces(s)[i], s.labels[i][1], s.labels[i][2])
<1> DEFINE n == Len(s.labels)
           P(i) == <<s.labels[i][1], "quote">> \o s.labels[i][2] \o <<"quote">>
           all == [i \in 1..n |-> P(i)]
<1>1. s.metric \in Clean /\ s.labels \in Seq(Label) /\ n \in Nat
  <2>1. Metrics \subseteq Clean
    BY DEF Metrics, Clean, Symbols, Scrape!Characters, Scrape!Terminators
  <2> QED BY <2>1 DEF Series
<1>2. ASSUME NEW i \in 1..n
      PROVE  s.labels[i][1] \in Clean /\ s.labels[i][2] \in Seq(Clean)
  <2>1. s.labels[i] \in Label
    BY <1>1
  <2> QED BY <2>1 DEF Label
<1>3. ASSUME NEW i \in 1..n
      PROVE  Quotes(P(i), s.labels[i][1], s.labels[i][2])
  <2> DEFINE name == s.labels[i][1]
             text == s.labels[i][2]
  <2>1. name \in Clean /\ text \in Seq(Clean)
    BY <1>2
  <2> HIDE DEF name, text
  <2>2. Quotes(<<name, "quote">> \o text \o <<"quote">>, name, text)
    BY <2>1, PieceIs
  <2> QED BY <2>2 DEF name, text
<1> HIDE DEF P, n
<1>4. \A i \in 1..n : P(i) \in Seq(Inked)
  BY <1>3 DEF Quotes
<1>5. all \in Seq(Seq(Inked)) /\ Len(all) = n /\ \A i \in 1..n : all[i] = P(i)
  BY <1>1, <1>4
<1>6. Pieces(s) = all
  BY DEF Pieces, P, n
<1> HIDE DEF all
<1> QED BY <1>1, <1>2, <1>3, <1>5, <1>6 DEF n

LEMMA BodyIs ==
  ASSUME NEW s \in Series
  PROVE  LET C == Scrape!Concat(Pieces(s)) IN
         /\ Scrape!Line(s) = Body(s) \o <<"LF">>
         /\ Body(s) \in Seq(Inked) /\ C \in Seq(Inked) /\ Len(Body(s)) = 1 + Len(C)
         /\ Body(s)[1] = s.metric
         /\ \A i \in 1..Len(C) : Body(s)[1 + i] = C[i]
<1> DEFINE C == Scrape!Concat(Pieces(s))
           m == <<s.metric>>
<1>1. C \in Seq(Inked) /\ Len(C) \in Nat
  BY PiecesAre, ConcatLaid
<1>2. m \in Seq(Inked) /\ Len(m) = 1 /\ m[1] = s.metric
  BY PiecesAre DEF Inked
<1>3. Scrape!Line(s) = Body(s) \o <<"LF">>
  BY DEF Scrape!Line, Body, Pieces
<1>4. Body(s) = m \o C
  BY DEF Body
<1> HIDE DEF m, C
<1>5. /\ m \o C \in Seq(Inked) /\ Len(m \o C) = 1 + Len(C)
      /\ \A i \in 1..(1 + Len(C)) : (m \o C)[i] = IF i <= 1 THEN m[i] ELSE C[i - 1]
  <2>1. /\ m \o C \in Seq(Inked) /\ Len(m \o C) = Len(m) + Len(C)
        /\ \A i \in 1..(Len(m) + Len(C)) :
             (m \o C)[i] = IF i <= Len(m) THEN m[i] ELSE C[i - Len(m)]
    BY <1>1, <1>2, ConcatProperties
  <2> QED BY <1>2, <2>1
<1> DEFINE b == m \o C
<1> HIDE DEF b
<1>6. b[1] = m[1]
  BY <1>1, <1>5 DEF b
<1>7. ASSUME NEW i \in 1..Len(C)
      PROVE  b[1 + i] = C[i]
  <2>1. 1 + i \in 1..(1 + Len(C)) /\ ~(1 + i <= 1) /\ (1 + i) - 1 = i
    BY <1>1
  <2> QED BY <1>5, <2>1 DEF b
<1> QED BY <1>1, <1>2, <1>3, <1>4, <1>5, <1>6, <1>7 DEF b, C

-----------------------------------------------------------------------------
(* A line has two quotes for every label.                                   *)
LEMMA Halves ==
  ASSUME NEW i \in Nat \ {0}
  PROVE  /\ (2 * i - 1) % 2 = 1 /\ ((2 * i - 1) - 1) \div 2 = i - 1
         /\ (2 * i) % 2 = 0 /\ (2 * i) \div 2 = i
         /\ 2 * i - 1 # 0 /\ 2 * i # 0
OBVIOUS

LEMMA OddOrEven ==
  ASSUME NEW n \in Nat, NEW k \in 1..(2 * n)
  PROVE  \E i \in 1..n : k = 2 * i - 1 \/ k = 2 * i
<1> DEFINE i == (k + 1) \div 2
<1>1. i \in 1..n /\ (k = 2 * i - 1 \/ k = 2 * i)
  OBVIOUS
<1> QED BY <1>1

(* The quotes of the i-th label, counted from the front.                    *)
QuoteAt(n, w) == [k \in 0..(2 * n) |-> IF k = 0 THEN 0
                                       ELSE IF k % 2 = 1 THEN w[(k - 1) \div 2] + 3
                                       ELSE w[k \div 2] + 1]

LEMMA QuotesRise ==
  ASSUME NEW n \in Nat, NEW w, w \in [0..n -> Nat], w[0] = 0,
         \A i \in 1..n : w[i - 1] + 3 <= w[i]
  PROVE  /\ QuoteAt(n, w) \in [0..(2 * n) -> Nat]
         /\ \A i \in 1..n : QuoteAt(n, w)[2 * i - 1] = w[i - 1] + 3 /\ QuoteAt(n, w)[2 * i] = w[i] + 1
         /\ \A k \in 1..(2 * n) : QuoteAt(n, w)[k - 1] < QuoteAt(n, w)[k]
<1> DEFINE v == QuoteAt(n, w)
           Q(k) == IF k = 0 THEN 0 ELSE IF k % 2 = 1 THEN w[(k - 1) \div 2] + 3 ELSE w[k \div 2] + 1
<1>1. v = [k \in 0..(2 * n) |-> Q(k)]
  BY DEF QuoteAt
<1>2. ASSUME NEW i \in 1..n
      PROVE  /\ 2 * i - 1 \in 0..(2 * n) /\ 2 * i \in 0..(2 * n)
             /\ v[2 * i - 1] = w[i - 1] + 3 /\ v[2 * i] = w[i] + 1
             /\ w[i - 1] \in Nat /\ w[i] \in Nat
  <2>1. 2 * i - 1 \in 0..(2 * n) /\ 2 * i \in 0..(2 * n) /\ i \in Nat \ {0}
    OBVIOUS
  <2>2. Q(2 * i - 1) = w[i - 1] + 3
    BY <2>1, Halves
  <2>3. Q(2 * i) = w[i] + 1
    BY <2>1, Halves
  <2> HIDE DEF Q, v
  <2> QED BY <1>1, <2>1, <2>2, <2>3
<1>3. 0 \in 0..(2 * n) /\ v[0] = 0
  BY <1>1
<1> HIDE DEF v, Q
<1>4. \A k \in 0..(2 * n) : v[k] \in Nat
  <2>1. ASSUME NEW k \in 1..(2 * n)
        PROVE  v[k] \in Nat
    <3>1. PICK i \in 1..n : k = 2 * i - 1 \/ k = 2 * i
      BY OddOrEven
    <3> DEFINE a == w[i - 1]
               b == w[i]
    <3>2. a \in Nat /\ b \in Nat /\ v[2 * i - 1] = a + 3 /\ v[2 * i] = b + 1
      BY <1>2
    <3> HIDE DEF a, b
    <3>3. v[2 * i - 1] \in Nat /\ v[2 * i] \in Nat
      BY <3>2
    <3> QED BY <3>1, <3>3
  <2>2. \A k \in 0..(2 * n) : k = 0 \/ k \in 1..(2 * n)
    OBVIOUS
  <2> QED BY <1>3, <2>1, <2>2
<1>5. v \in [0..(2 * n) -> Nat]
  BY <1>1, <1>4
<1>6. ASSUME NEW k \in 1..(2 * n)
      PROVE  v[k - 1] < v[k]
  <2>1. PICK i \in 1..n : k = 2 * i - 1 \/ k = 2 * i
    BY OddOrEven
  <2> DEFINE a == w[i - 1]
             b == w[i]
  <2>2. a \in Nat /\ b \in Nat /\ a + 3 <= b /\ v[2 * i - 1] = a + 3 /\ v[2 * i] = b + 1
    BY <1>2
  <2>3. CASE k = 2 * i
    <3>1. v[k] = b + 1 /\ k - 1 = 2 * i - 1
      BY <2>2, <2>3
    <3>2. v[k - 1] = a + 3
      BY <2>2, <3>1
    <3> HIDE DEF a, b
    <3> QED BY <2>2, <3>1, <3>2
  <2>4. CASE k = 2 * i - 1 /\ i = 1
    <3>1. k - 1 = 0 /\ v[k] = a + 3
      BY <2>2, <2>4
    <3>2. v[k - 1] = 0
      BY <1>3, <3>1
    <3> HIDE DEF a, b
    <3> QED BY <2>2, <3>1, <3>2
  <2>5. CASE k = 2 * i - 1 /\ i # 1
    <3> DEFINE h == i - 1
    <3>1. h \in 1..n /\ k - 1 = 2 * h
      BY <2>5
    <3>2. v[2 * h] = w[h] + 1
      <4> HIDE DEF h
      <4> QED BY <1>2, <3>1
    <3>3. v[k - 1] = a + 1 /\ v[k] = a + 3
      BY <2>2, <2>5, <3>1, <3>2
    <3> HIDE DEF a, b
    <3> QED BY <2>2, <3>3
  <2> QED BY <2>1, <2>3, <2>4, <2>5
<1> QED BY <1>2, <1>5, <1>6 DEF v

LEMMA QuotesCounted ==
  ASSUME NEW s \in Series
  PROVE  Cardinality({i \in 1..Len(Body(s)) : Body(s)[i] = "quote"}) = 2 * Len(s.labels)
<1> DEFINE n == Len(s.labels)
           b == Body(s)
           C == Scrape!Concat(Pieces(s))
           texts == Pieces(s)
           w == [k \in 0..n |-> Width(texts, k)]
           v == QuoteAt(n, w)
           places == {i \in 1..Len(b) : b[i] = "quote"}
           l(k) == Len(s.labels[k][2])
<1>1. /\ n \in Nat /\ s.metric \in Clean /\ Laid(texts, n, C) /\ C \in Seq(Inked) /\ Len(C) \in Nat
      /\ \A k \in 1..n : Quotes(texts[k], s.labels[k][1], s.labels[k][2])
  BY PiecesAre, ConcatLaid
<1>2. ASSUME NEW k \in 1..n
      PROVE  /\ s.labels[k][1] \in Clean /\ s.labels[k][2] \in Seq(Clean) /\ l(k) \in Nat
             /\ Len(texts[k]) = l(k) + 3 /\ texts[k][2] = "quote" /\ texts[k][l(k) + 3] = "quote"
             /\ texts[k][1] # "quote"
             /\ \A i \in 1..l(k) : texts[k][2 + i] # "quote"
  <2>1. s.labels[k][1] \in Clean /\ s.labels[k][2] \in Seq(Clean)
    BY PiecesAre
  <2>2. "quote" \notin Clean
    BY DEF Clean, Scrape!Terminators
  <2>3. Quotes(texts[k], s.labels[k][1], s.labels[k][2])
    BY <1>1
  <2> DEFINE text == s.labels[k][2]
  <2>4. text \in Seq(Clean) /\ l(k) = Len(text)
    BY <2>1
  <2> HIDE DEF texts, text
  <2>5. l(k) \in Nat /\ \A i \in 1..l(k) : text[i] \in Clean
    BY <2>4
  <2> QED BY <2>1, <2>2, <2>3, <2>5 DEF Quotes, text
<1>3. /\ b \in Seq(Inked) /\ Len(b) = 1 + Len(C) /\ b[1] # "quote"
      /\ \A i \in 1..Len(C) : b[1 + i] = C[i]
  <2>1. "quote" \notin Clean
    BY DEF Clean, Scrape!Terminators
  <2> QED BY <1>1, <2>1, BodyIs
<1> HIDE DEF n, b, C, texts, l
<1>4. /\ w \in [0..n -> Nat] /\ w[0] = 0
      /\ \A k \in 0..n : w[k] \in 0..Len(C)
  <2>1. \A k \in 0..n : Width(texts, k) \in 0..Len(C)
    BY <1>1 DEF Laid
  <2>2. Width(texts, 0) = 0
    BY <1>1 DEF Laid
  <2> QED BY <1>1, <2>1, <2>2
<1>5. ASSUME NEW k \in 1..n
      PROVE  /\ k \in 0..n /\ k - 1 \in 0..n /\ w[k] = w[k - 1] + (l(k) + 3)
             /\ \A j \in 1..(l(k) + 3) : C[w[k - 1] + j] = texts[k][j]
  <2>1. k \in 0..n /\ k - 1 \in 0..n
    BY <1>1
  <2>2. /\ Width(texts, k) = Width(texts, k - 1) + Len(texts[k])
        /\ \A j \in 1..Len(texts[k]) : C[Width(texts, k - 1) + j] = texts[k][j]
    BY <1>1 DEF Laid
  <2> QED BY <1>2, <2>1, <2>2
<1>6. \A i \in 1..Len(C) : \E k \in 1..n : w[k - 1] < i /\ i <= w[k]
  <2>1. \A i \in 1..Len(C) : \E k \in 1..n : Width(texts, k - 1) < i /\ i <= Width(texts, k)
    BY <1>1 DEF Laid
  <2> QED BY <1>5, <2>1
<1> HIDE DEF w
<1>7. \A k \in 1..n : w[k - 1] + 3 <= w[k]
  <2>1. ASSUME NEW k \in 1..n
        PROVE  w[k - 1] + 3 <= w[k]
    <3> DEFINE a == w[k - 1]
               x == l(k)
               z == w[k]
    <3>1. a \in Nat /\ x \in Nat /\ z = a + (x + 3)
      BY <1>2, <1>4, <1>5
    <3> HIDE DEF a, x, z
    <3>2. a + 3 <= z
      BY <3>1
    <3> QED BY <3>2 DEF a, z
  <2> QED BY <2>1
<1>8. /\ v \in [0..(2 * n) -> Nat]
      /\ \A i \in 1..n : v[2 * i - 1] = w[i - 1] + 3 /\ v[2 * i] = w[i] + 1
      /\ \A k \in 1..(2 * n) : v[k - 1] < v[k]
  BY <1>1, <1>4, <1>7, QuotesRise
<1> HIDE DEF v
<1>9. Cardinality(Reached(v, 2 * n)) = 2 * n
  <2> DEFINE m == 2 * n
  <2>1. m \in Nat /\ m \in 0..m
    BY <1>1
  <2>2. v \in [0..m -> Nat] /\ \A k \in 1..m : v[k - 1] < v[k]
    BY <1>8
  <2> HIDE DEF m
  <2>3. Cardinality(Reached(v, m)) = m
    BY <2>1, <2>2, CountRising
  <2> QED BY <2>3 DEF m
<1>10. ASSUME NEW p \in places
       PROVE  p \in Reached(v, 2 * n)
  <2> DEFINE q == p - 1
  <2>1. q \in 1..Len(C) /\ p = q + 1 /\ C[q] = "quote"
    <3>1. p \in 1..(1 + Len(C)) /\ p # 1 /\ b[p] = "quote"
      BY <1>3
    <3>2. q \in 1..Len(C) /\ p = 1 + q
      BY <1>1, <3>1
    <3> HIDE DEF q
    <3> QED BY <1>1, <1>3, <3>1, <3>2
  <2> HIDE DEF q
  <2>2. PICK k \in 1..n : w[k - 1] < q /\ q <= w[k]
    BY <1>6, <2>1
  <2> DEFINE a == w[k - 1]
             x == l(k)
             z == w[k]
             j == q - a
  <2>3. a \in Nat /\ x \in Nat /\ z = a + (x + 3) /\ a < q /\ q <= z /\ q \in Nat
    BY <1>1, <1>2, <1>4, <1>5, <2>1, <2>2
  <2>4. j \in 1..(x + 3) /\ a + j = q /\ (j = 1 \/ j = 2 \/ j = x + 3 \/ (j - 2 \in 1..x /\ 2 + (j - 2) = j))
    <3> HIDE DEF a, x, z
    <3> QED BY <2>3
  <2>5. texts[k][j] = "quote"
    <3> HIDE DEF j
    <3>1. C[a + j] = texts[k][j]
      BY <1>5, <2>4
    <3> QED BY <2>1, <2>4, <3>1
  <2>6. j = 2 \/ j = x + 3
    <3>1. j # 1
      <4> HIDE DEF j
      <4> QED BY <1>2, <2>5
    <3>2. ~(j - 2 \in 1..x /\ 2 + (j - 2) = j)
      <4> DEFINE i == j - 2
      <4> HIDE DEF j, i
      <4>1. ~(i \in 1..x /\ 2 + i = j)
        BY <1>2, <2>5
      <4> QED BY <4>1 DEF i
    <3> HIDE DEF j, x
    <3> QED BY <2>4, <3>1, <3>2
  <2>7. CASE j = 2
    <3>1. 2 * k - 1 \in 1..(2 * n)
      BY <1>1
    <3>2. v[2 * k - 1] = a + 3
      BY <1>8
    <3>3. p = a + 3
      <4> HIDE DEF j, a, x
      <4> QED BY <2>1, <2>3, <2>4, <2>7
    <3> HIDE DEF a
    <3> QED BY <3>1, <3>2, <3>3 DEF Reached
  <2>8. CASE j = x + 3
    <3>1. 2 * k \in 1..(2 * n)
      BY <1>1
    <3>2. v[2 * k] = z + 1
      BY <1>8
    <3>3. p = z + 1
      <4> HIDE DEF j, a, x, z
      <4> QED BY <2>1, <2>3, <2>4, <2>8
    <3> HIDE DEF z
    <3> QED BY <3>1, <3>2, <3>3 DEF Reached
  <2> QED BY <2>6, <2>7, <2>8
<1>11. ASSUME NEW p \in Reached(v, 2 * n)
       PROVE  p \in places
  <2>1. PICK h \in 1..(2 * n) : p = v[h]
    BY DEF Reached
  <2>2. PICK k \in 1..n : h = 2 * k - 1 \/ h = 2 * k
    BY <1>1, OddOrEven
  <2> DEFINE a == w[k - 1]
             x == l(k)
             z == w[k]
  <2>3. a \in Nat /\ x \in Nat /\ z = a + (x + 3) /\ z \in 0..Len(C)
    BY <1>2, <1>4, <1>5
  <2>4. p = 1 + (a + 2) \/ p = 1 + (a + (x + 3))
    <3>1. p = a + 3 \/ p = z + 1
      BY <1>8, <2>1, <2>2
    <3> HIDE DEF a, x, z
    <3> QED BY <2>3, <3>1
  <2>5. a + 2 \in 1..Len(C) /\ a + (x + 3) \in 1..Len(C) /\ 2 \in 1..(x + 3) /\ x + 3 \in 1..(x + 3)
    <3> HIDE DEF a, x, z
    <3> QED BY <1>1, <2>3
  <2>6. C[a + 2] = "quote" /\ C[a + (x + 3)] = "quote"
    <3>1. \A j \in 1..(x + 3) : C[a + j] = texts[k][j]
      BY <1>5
    <3>2. texts[k][2] = "quote" /\ texts[k][x + 3] = "quote"
      BY <1>2
    <3> HIDE DEF a, x
    <3> QED BY <2>5, <3>1, <3>2
  <2>7. \A q \in 1..Len(C) : C[q] = "quote" => 1 + q \in places
    <3>1. \A q \in 1..Len(C) : 1 + q \in 1..(1 + Len(C))
      BY <1>1
    <3> QED BY <1>3, <3>1
  <2> HIDE DEF a, x, z, places
  <2> QED BY <2>4, <2>5, <2>6, <2>7
<1>12. places = Reached(v, 2 * n)
  <2> HIDE DEF places
  <2>1. places \subseteq Reached(v, 2 * n) /\ Reached(v, 2 * n) \subseteq places
    BY <1>10, <1>11
  <2> QED BY <2>1
<1> HIDE DEF places
<1>13. Cardinality(places) = 2 * n
  BY <1>9, <1>12
<1> QED BY <1>13 DEF places, n, b

-----------------------------------------------------------------------------
(* The line of the requests of a tool shows the name of the tool.           *)
LEMMA ToolLine ==
  ASSUME NEW scenario \in Seq(Clean), NEW name \in Seq(Symbols)
  PROVE  LET t == Body(Requests(scenario, name)) IN
         /\ Requests(scenario, name) \in Series
         /\ Len(t) = Len(scenario) + Len(name) + 11
         /\ \A i \in 1..Len(name) : t[Len(scenario) + 6 + i] = Scrape!SanitizeLabel(name)[i]
<1> DEFINE s == Requests(scenario, name)
           text == Scrape!SanitizeLabel(name)
           texts == Pieces(s)
           C == Scrape!Concat(texts)
           a == Len(scenario)
           n == Len(name)
           w(k) == Width(texts, k)
<1>1. s \in Series
  <2>1. /\ Scrape!EmitRow(scenario, name) \in Seq(Series) /\ Len(Scrape!EmitRow(scenario, name)) = 6
        /\ Scrape!EmitRow(scenario, name)[1] = s
    BY RowEmitted
  <2> DEFINE e == Scrape!EmitRow(scenario, name)
  <2> HIDE DEF s, e
  <2>2. e \in Seq(Series) /\ Len(e) = 6 /\ e[1] = s
    BY <2>1 DEF e
  <2>3. s \in Series
    <3>1. \A i \in 1..Len(e) : e[i] \in Series
      BY <2>2, ElementOfSeq
    <3>2. 1 \in 1..Len(e)
      BY <2>2
    <3> QED BY <2>2, <3>1, <3>2
  <2> QED BY <2>3 DEF s
<1>2. text \in Seq(Clean) /\ Len(text) = n /\ n \in Nat /\ a \in Nat
  <2>1. text \in Seq(Clean) /\ Len(text) = n
    BY Sanitized
  <2> QED BY <2>1
<1>3. /\ Len(s.labels) = 3
      /\ s.labels[1] = <<"scenario", scenario>> /\ s.labels[2] = <<"tool", text>>
      /\ s.labels[3] = <<"status", <<"ok">>>>
  <2> DEFINE x == <<"scenario", scenario>>
             y == <<"tool", text>>
             z == <<"status", <<"ok">>>>
  <2>1. s.labels = Append(<<x, y>>, z)
    BY DEF Requests
  <2> HIDE DEF x, y, z, s
  <2>2. Len(Append(<<x, y>>, z)) = 3 /\ Append(<<x, y>>, z)[1] = x
        /\ Append(<<x, y>>, z)[2] = y /\ Append(<<x, y>>, z)[3] = z
    OBVIOUS
  <2>3. Len(s.labels) = 3 /\ s.labels[1] = x /\ s.labels[2] = y /\ s.labels[3] = z
    BY <2>1, <2>2
  <2> QED BY <2>3 DEF x, y, z
<1> HIDE DEF s, text
<1>4. /\ texts \in Seq(Seq(Inked)) /\ Len(texts) = 3
      /\ Quotes(texts[1], "scenario", scenario) /\ Quotes(texts[2], "tool", text)
      /\ Quotes(texts[3], "status", <<"ok">>)
  <2>1. /\ texts \in Seq(Seq(Inked)) /\ Len(texts) = Len(s.labels)
        /\ \A i \in 1..Len(s.labels) : Quotes(texts[i], s.labels[i][1], s.labels[i][2])
    BY <1>1, PiecesAre
  <2> HIDE DEF texts
  <2>2. 1 \in 1..Len(s.labels) /\ 2 \in 1..Len(s.labels) /\ 3 \in 1..Len(s.labels)
    BY <1>3
  <2>3. /\ Quotes(texts[1], s.labels[1][1], s.labels[1][2])
        /\ Quotes(texts[2], s.labels[2][1], s.labels[2][2])
        /\ Quotes(texts[3], s.labels[3][1], s.labels[3][2])
    BY <2>1, <2>2
  <2>4. /\ s.labels[1][1] = "scenario" /\ s.labels[1][2] = scenario
        /\ s.labels[2][1] = "tool" /\ s.labels[2][2] = text
        /\ s.labels[3][1] = "status" /\ s.labels[3][2] = <<"ok">>
    BY <1>3
  <2> QED BY <1>3, <2>1, <2>3, <2>4
<1>5. C \in Seq(Inked) /\ Laid(texts, 3, C)
  <2>1. C \in Seq(Inked) /\ Laid(texts, Len(texts), C)
    BY <1>4, ConcatLaid
  <2> QED BY <1>4, <2>1
<1>6. /\ Len(Body(s)) = 1 + Len(C) /\ Len(C) \in Nat
      /\ \A i \in 1..Len(C) : Body(s)[1 + i] = C[i]
  BY <1>1, <1>5, BodyIs
<1> HIDE DEF texts, C, a, n
<1>7. /\ Len(texts[1]) = a + 3 /\ Len(texts[2]) = n + 3 /\ Len(texts[3]) = 4
      /\ \A i \in 1..n : texts[2][2 + i] = text[i]
  <2>1. Len(texts[1]) = a + 3
    BY <1>4 DEF Quotes, a
  <2>2. Len(texts[2]) = n + 3 /\ \A i \in 1..n : texts[2][2 + i] = text[i]
    BY <1>2, <1>4 DEF Quotes
  <2>3. Len(texts[3]) = Len(<<"ok">>) + 3
    BY <1>4 DEF Quotes
  <2>4. Len(<<"ok">>) = 1
    OBVIOUS
  <2> QED BY <2>1, <2>2, <2>3, <2>4
<1>8. /\ w(0) = 0 /\ Len(C) = w(3) /\ w(1) = w(0) + Len(texts[1])
      /\ w(2) = w(1) + Len(texts[2]) /\ w(3) = w(2) + Len(texts[3])
      /\ \A j \in 1..Len(texts[2]) : C[w(1) + j] = texts[2][j]
  <2>1. w(0) = 0 /\ Len(C) = w(3)
    BY <1>5 DEF Laid
  <2>2. \A k \in 1..3 : /\ w(k) = w(k - 1) + Len(texts[k])
                        /\ \A j \in 1..Len(texts[k]) : C[w(k - 1) + j] = texts[k][j]
    BY <1>5 DEF Laid
  <2> HIDE DEF w
  <2>3. 1 - 1 = 0 /\ 2 - 1 = 1 /\ 3 - 1 = 2 /\ 1 \in 1..3 /\ 2 \in 1..3 /\ 3 \in 1..3
    OBVIOUS
  <2>4. w(1) = w(1 - 1) + Len(texts[1]) /\ w(2) = w(2 - 1) + Len(texts[2]) /\ w(3) = w(3 - 1) + Len(texts[3])
    BY <2>2, <2>3
  <2>5. \A j \in 1..Len(texts[2]) : C[w(2 - 1) + j] = texts[2][j]
    BY <2>2, <2>3
  <2> QED BY <2>1, <2>3, <2>4, <2>5
<1> HIDE DEF w
<1>9. Len(C) = a + n + 10 /\ w(1) = a + 3
  BY <1>2, <1>7, <1>8
<1>10. ASSUME NEW i \in 1..n
       PROVE  Body(s)[a + 6 + i] = text[i]
  <2> DEFINE q == a + 3 + (2 + i)
  <2>1. 2 + i \in 1..(n + 3) /\ q \in 1..Len(C) /\ 1 + q = a + 6 + i /\ q = w(1) + (2 + i)
    BY <1>2, <1>9
  <2>2. C[q] = texts[2][2 + i]
    <3> HIDE DEF q
    <3> QED BY <1>7, <1>8, <2>1
  <2>3. Body(s)[1 + q] = C[q]
    <3> HIDE DEF q
    <3> QED BY <1>6, <2>1
  <2> HIDE DEF q
  <2> QED BY <1>7, <2>1, <2>2, <2>3
<1>11. Len(Body(s)) = a + n + 11
  BY <1>2, <1>6, <1>9
<1> QED BY <1>1, <1>10, <1>11 DEF s, text, a, n

LEMMA ToolsApart ==
  ASSUME NEW scenario \in Seq(Clean), NEW x \in Seq(Symbols), NEW y \in Seq(Symbols), Scrape!Apart(x, y)
  PROVE  Body(Requests(scenario, x)) # Body(Requests(scenario, y))
<1> DEFINE t == Body(Requests(scenario, x))
           u == Body(Requests(scenario, y))
           a == Len(scenario)
           p == Scrape!SanitizeLabel(x)
           q == Scrape!SanitizeLabel(y)
<1>1. /\ Len(t) = a + Len(x) + 11 /\ Len(u) = a + Len(y) + 11
      /\ \A i \in 1..Len(x) : t[a + 6 + i] = p[i]
      /\ \A i \in 1..Len(y) : u[a + 6 + i] = q[i]
  BY ToolLine
<1>2. /\ \A i \in 1..Len(x) : p[i] = IF x[i] \in Scrape!Terminators THEN "_" ELSE x[i]
      /\ \A i \in 1..Len(y) : q[i] = IF y[i] \in Scrape!Terminators THEN "_" ELSE y[i]
  BY Sanitized
<1>3. a \in Nat /\ Len(x) \in Nat /\ Len(y) \in Nat
  OBVIOUS
<1> HIDE DEF t, u, p, q, a
<1>4. CASE Len(x) # Len(y)
  <2>1. t # u
    BY <1>1, <1>3, <1>4
  <2> QED BY <2>1 DEF t, u
<1>5. CASE Len(x) = Len(y)
  <2>1. PICK i \in 1..Len(x) : x[i] # y[i] /\ (Scrape!Kept(x[i]) \/ Scrape!Kept(y[i]))
    BY <1>5 DEF Scrape!Apart
  <2>2. p[i] # q[i]
    <3>1. /\ p[i] = IF x[i] \in Scrape!Terminators THEN "_" ELSE x[i]
          /\ q[i] = IF y[i] \in Scrape!Terminators THEN "_" ELSE y[i]
      BY <1>2, <1>5
    <3> QED BY <2>1, <3>1 DEF Scrape!Kept
  <2>3. t[a + 6 + i] = p[i] /\ u[a + 6 + i] = q[i]
    BY <1>1, <1>5
  <2>4. t # u
    BY <2>2, <2>3
  <2> QED BY <2>4 DEF t, u
<1> QED BY <1>4, <1>5

-----------------------------------------------------------------------------
(* The exposition of a run of any size.                                     *)
Runs == [scenario : Seq(Symbols), tools : Seq(Seq(Symbols))]

(* Its first lines, with their ends and without.                            *)
Heads == [i \in 1..Len(Scrape!Declared) |-> Scrape!TypeLine(Scrape!Declared[i])]
Types == [i \in 1..4 |-> <<"# TYPE", Scrape!Declared[i]>>]

LEMMA TypesDeclared ==
  /\ Heads \in Seq(Seq(Symbols)) /\ Len(Heads) = 4 /\ Types \in Seq(Seq(Symbols)) /\ Len(Types) = 4
  /\ \A i \in 1..4 : /\ Heads[i] = Types[i] \o <<"LF">>
                     /\ \A j \in 1..Len(Types[i]) : ~Scrape!EndsLine(Types[i][j])
  /\ \A metric \in Metrics : \E i \in 1..4 : Types[i] = <<"# TYPE", metric>>
<1> DEFINE D == Scrape!Declared
<1>1. /\ Len(D) = 4 /\ \A i \in 1..4 : D[i] \in Metrics
      /\ \A metric \in Metrics : \E i \in 1..4 : D[i] = metric
  <2>1. /\ Len(D) = 4 /\ D[1] = "requests_total" /\ D[2] = "latency_seconds"
        /\ D[3] = "throughput_per_second" /\ D[4] = "error_ratio"
    BY DEF Scrape!Declared
  <2> HIDE DEF D
  <2>2. \A i \in 1..4 : i = 1 \/ i = 2 \/ i = 3 \/ i = 4
    OBVIOUS
  <2>3. 1 \in 1..4 /\ 2 \in 1..4 /\ 3 \in 1..4 /\ 4 \in 1..4
    OBVIOUS
  <2> QED BY <2>1, <2>2, <2>3 DEF Metrics
<1> HIDE DEF D
<1>2. /\ Metrics \subseteq Symbols /\ "LF" \in Symbols /\ "# TYPE" \in Symbols
      /\ ~Scrape!EndsLine("# TYPE") /\ \A metric \in Metrics : ~Scrape!EndsLine(metric)
  BY DEF Metrics, Symbols, Scrape!Characters, Scrape!EndsLine
<1>3. ASSUME NEW metric \in Symbols, ~Scrape!EndsLine(metric)
      PROVE  /\ <<"# TYPE", metric>> \in Seq(Symbols)
             /\ <<"# TYPE", metric, "LF">> \in Seq(Symbols)
             /\ <<"# TYPE", metric, "LF">> = <<"# TYPE", metric>> \o <<"LF">>
             /\ \A j \in 1..Len(<<"# TYPE", metric>>) : ~Scrape!EndsLine(<<"# TYPE", metric>>[j])
  <2> DEFINE type == "# TYPE"
             end == "LF"
  <2>1. type \in Symbols /\ end \in Symbols /\ ~Scrape!EndsLine(type)
    BY <1>2
  <2> HIDE DEF type, end
  <2>2. <<type, metric>> \in Seq(Symbols) /\ <<type, metric, end>> \in Seq(Symbols)
    BY <2>1
  <2>3. <<type, metric, end>> = <<type, metric>> \o <<end>>
    OBVIOUS
  <2>4. \A j \in 1..Len(<<type, metric>>) : ~Scrape!EndsLine(<<type, metric>>[j])
    <3>1. Len(<<type, metric>>) = 2 /\ <<type, metric>>[1] = type /\ <<type, metric>>[2] = metric
      OBVIOUS
    <3>2. \A j \in 1..2 : j = 1 \/ j = 2
      OBVIOUS
    <3> QED BY <1>3, <2>1, <3>1, <3>2
  <2> QED BY <2>2, <2>3, <2>4 DEF type, end
<1>4. \A i \in 1..4 : D[i] \in Symbols /\ ~Scrape!EndsLine(D[i])
  BY <1>1, <1>2
<1> DEFINE H(i) == <<"# TYPE", D[i], "LF">>
           T(i) == <<"# TYPE", D[i]>>
           heads == [i \in 1..4 |-> H(i)]
           types == [i \in 1..4 |-> T(i)]
<1>5. Heads = heads /\ Types = types
  <2>1. Heads = [i \in 1..Len(D) |-> H(i)] /\ Types = types
    BY DEF Heads, Types, Scrape!TypeLine, D
  <2>2. 1..Len(D) = 1..4
    BY <1>1
  <2> HIDE DEF H, T
  <2> QED BY <2>1, <2>2
<1>6. ASSUME NEW i \in 1..4
      PROVE  /\ H(i) \in Seq(Symbols) /\ T(i) \in Seq(Symbols) /\ H(i) = T(i) \o <<"LF">>
             /\ \A j \in 1..Len(T(i)) : ~Scrape!EndsLine(T(i)[j])
  <2> DEFINE m == D[i]
  <2>1. m \in Symbols /\ ~Scrape!EndsLine(m)
    BY <1>4
  <2> HIDE DEF m
  <2>2. /\ <<"# TYPE", m>> \in Seq(Symbols) /\ <<"# TYPE", m, "LF">> \in Seq(Symbols)
        /\ <<"# TYPE", m, "LF">> = <<"# TYPE", m>> \o <<"LF">>
        /\ \A j \in 1..Len(<<"# TYPE", m>>) : ~Scrape!EndsLine(<<"# TYPE", m>>[j])
    BY <1>3, <2>1
  <2> QED BY <2>2 DEF m
<1>7. \A metric \in Metrics : \E i \in 1..4 : T(i) = <<"# TYPE", metric>>
  BY <1>1
<1> HIDE DEF H, T
<1>8. /\ heads \in Seq(Seq(Symbols)) /\ Len(heads) = 4 /\ \A i \in 1..4 : heads[i] = H(i)
      /\ types \in Seq(Seq(Symbols)) /\ Len(types) = 4 /\ \A i \in 1..4 : types[i] = T(i)
  BY <1>6
<1> HIDE DEF heads, types
<1> QED BY <1>5, <1>6, <1>7, <1>8

(* What stands after a sequence of four.                                    *)
LEMMA AfterFour ==
  ASSUME NEW a \in Seq(Seq(Symbols)), Len(a) = 4, NEW b \in Seq(Seq(Symbols))
  PROVE  /\ a \o b \in Seq(Seq(Symbols)) /\ Len(a \o b) = 4 + Len(b)
         /\ \A k \in 1..4 : (a \o b)[k] = a[k]
         /\ \A k \in 1..Len(b) : (a \o b)[4 + k] = b[k]
<1> DEFINE S == Seq(Symbols)
           c == a \o b
           n == Len(b)
<1>1. a \in Seq(S) /\ b \in Seq(S) /\ n \in Nat
  OBVIOUS
<1> HIDE DEF S
<1>2. /\ c \in Seq(S) /\ Len(c) = Len(a) + n
      /\ \A i \in 1..(Len(a) + n) : c[i] = IF i <= Len(a) THEN a[i] ELSE b[i - Len(a)]
  BY <1>1, ConcatProperties
<1> HIDE DEF c, n
<1>3. \A k \in 1..4 : k \in 1..(4 + n) /\ k <= 4
  BY <1>1
<1>4. \A k \in 1..n : 4 + k \in 1..(4 + n) /\ ~(4 + k <= 4) /\ (4 + k) - 4 = k
  BY <1>1
<1>5. Len(c) = 4 + n /\ \A i \in 1..(4 + n) : c[i] = IF i <= 4 THEN a[i] ELSE b[i - 4]
  BY <1>2
<1>6. (\A k \in 1..4 : c[k] = a[k]) /\ \A k \in 1..n : c[4 + k] = b[k]
  BY <1>3, <1>4, <1>5
<1> QED BY <1>2, <1>5, <1>6 DEF c, n, S

LEMMA ScrapeAny ==
  ASSUME input \in Runs
  PROVE  Scrape!ExpositionScrapes
<1> DEFINE series == Scrape!AllSeries(input)
           rows   == Scrape!Rows(input)
           lines  == Scrape!LinesOf(Scrape!WritePrometheus(input))
           N      == Len(series)
           L(k)   == Scrape!Line(series[k])
           B(k)   == Body(series[k])
           texts  == Heads \o [k \in 1..N |-> L(k)]
           bodies == Types \o [k \in 1..N |-> B(k)]
           scenario == Scrape!SanitizeLabel(input.scenario)
<1>1. input.scenario \in Seq(Symbols) /\ input.tools \in Seq(Seq(Symbols))
  BY DEF Runs
<1>2. /\ series \in Seq(Series) /\ N \in Nat
      /\ rows \in Seq(Seq(Symbols)) /\ scenario \in Seq(Clean)
      /\ \A k \in 1..Len(rows) : /\ 6 * (k - 1) + 1 \in 1..N
                                 /\ series[6 * (k - 1) + 1] = Requests(scenario, rows[k])
  <2>1. series \in Seq(Series)
    BY <1>1, SeriesMade
  <2>2. rows \in Seq(Seq(Symbols))
    BY <1>1, SeriesMade
  <2>3. \A k \in 1..Len(rows) : /\ 6 * (k - 1) + 1 \in 1..N
                                /\ series[6 * (k - 1) + 1] = Requests(scenario, rows[k])
    BY <1>1, SeriesMade
  <2>4. scenario \in Seq(Clean)
    BY <1>1, Sanitized
  <2> HIDE DEF series
  <2>5. N \in Nat
    BY <2>1
  <2> QED BY <2>1, <2>2, <2>3, <2>4, <2>5
<1>3. Scrape!WritePrometheus(input) = Scrape!Concat(texts)
  BY DEF Scrape!WritePrometheus, Heads
<1> HIDE DEF series, rows, scenario
<1>4. ASSUME NEW k \in 1..N
      PROVE  /\ L(k) \in Seq(Symbols) /\ B(k) \in Seq(Symbols) /\ L(k) = B(k) \o <<"LF">>
             /\ \A j \in 1..Len(B(k)) : B(k)[j] \in Inked
             /\ B(k)[1] = series[k].metric
             /\ Cardinality({i \in 1..Len(B(k)) : B(k)[i] = "quote"}) = 2 * Len(series[k].labels)
  <2> DEFINE s == series[k]
  <2>1. s \in Series
    BY <1>2
  <2> HIDE DEF s
  <2>2. Scrape!Line(s) = Body(s) \o <<"LF">> /\ Body(s) \in Seq(Inked) /\ Body(s)[1] = s.metric
    BY <2>1, BodyIs
  <2>3. Cardinality({i \in 1..Len(Body(s)) : Body(s)[i] = "quote"}) = 2 * Len(s.labels)
    BY <2>1, QuotesCounted
  <2>4. "LF" \in Symbols /\ Inked \subseteq Symbols
    BY DEF Symbols, Clean, Inked, Scrape!Characters
  <2> DEFINE b == Body(s)
  <2> HIDE DEF b
  <2>5. b \in Seq(Symbols) /\ b \o <<"LF">> \in Seq(Symbols) /\ \A j \in 1..Len(b) : b[j] \in Inked
    <3>1. b \in Seq(Inked)
      BY <2>2 DEF b
    <3>2. b \in Seq(Symbols) /\ \A j \in 1..Len(b) : b[j] \in Inked
      BY <2>4, <3>1
    <3>3. <<"LF">> \in Seq(Symbols)
      BY <2>4
    <3> QED BY <3>2, <3>3, ConcatProperties
  <2> QED BY <2>2, <2>3, <2>5 DEF b, s
<1> HIDE DEF L, B, N
<1>5. /\ texts \in Seq(Seq(Symbols)) /\ bodies \in Seq(Seq(Symbols))
      /\ Len(texts) = 4 + N /\ Len(bodies) = 4 + N
      /\ \A k \in 1..4 : texts[k] = Heads[k] /\ bodies[k] = Types[k]
      /\ \A k \in 1..N : texts[4 + k] = L(k) /\ bodies[4 + k] = B(k)
  <2>1. \A k \in 1..N : L(k) \in Seq(Symbols) /\ B(k) \in Seq(Symbols)
    BY <1>4
  <2> DEFINE A == [k \in 1..N |-> L(k)]
             C == [k \in 1..N |-> B(k)]
  <2>2. A \in Seq(Seq(Symbols)) /\ Len(A) = N /\ \A k \in 1..N : A[k] = L(k)
    BY <1>2, <2>1
  <2>3. C \in Seq(Seq(Symbols)) /\ Len(C) = N /\ \A k \in 1..N : C[k] = B(k)
    BY <1>2, <2>1
  <2>4. texts = Heads \o A /\ bodies = Types \o C
    OBVIOUS
  <2> HIDE DEF A, C, texts, bodies
  <2>5. /\ Heads \in Seq(Seq(Symbols)) /\ Len(Heads) = 4
        /\ Types \in Seq(Seq(Symbols)) /\ Len(Types) = 4
    BY TypesDeclared
  <2>6. /\ Heads \o A \in Seq(Seq(Symbols)) /\ Len(Heads \o A) = 4 + N
        /\ \A k \in 1..4 : (Heads \o A)[k] = Heads[k]
        /\ \A k \in 1..N : (Heads \o A)[4 + k] = A[k]
    BY <1>2, <2>2, <2>5, AfterFour
  <2>7. /\ Types \o C \in Seq(Seq(Symbols)) /\ Len(Types \o C) = 4 + N
        /\ \A k \in 1..4 : (Types \o C)[k] = Types[k]
        /\ \A k \in 1..N : (Types \o C)[4 + k] = C[k]
    BY <1>2, <2>3, <2>5, AfterFour
  <2> QED BY <2>2, <2>3, <2>4, <2>6, <2>7
<1> HIDE DEF texts, bodies
<1>6. \A c \in Inked : ~Scrape!EndsLine(c) /\ c # "backslash"
  BY DEF Inked, Clean, Scrape!Terminators, Scrape!EndsLine
<1>7. lines = bodies
  <2>1. ASSUME NEW k \in 1..Len(bodies)
        PROVE  /\ texts[k] = bodies[k] \o <<"LF">>
               /\ \A j \in 1..Len(bodies[k]) : ~Scrape!EndsLine(bodies[k][j])
    <3>1. CASE k \in 1..4
      BY <1>5, <3>1, TypesDeclared
    <3>2. CASE k \notin 1..4
      <4> DEFINE m == k - 4
      <4>1. m \in 1..N /\ k = 4 + m
        BY <1>2, <1>5, <3>2
      <4> HIDE DEF m
      <4> QED BY <1>4, <1>5, <1>6, <4>1
    <3> QED BY <3>1, <3>2
  <2>2. Len(texts) = Len(bodies)
    BY <1>5
  <2>3. Scrape!LinesOf(Scrape!Concat(texts)) = bodies
    BY <1>5, <2>1, <2>2, LinesFound
  <2> QED BY <1>3, <2>3
<1> HIDE DEF lines
<1>8. Len(lines) = 4 + Len(series)
  BY <1>5, <1>7 DEF N
<1>9. ASSUME NEW k \in 1..N
      PROVE  Scrape!Readable(lines[4 + k], series[k])
  <2> DEFINE line == lines[4 + k]
             s == series[k]
  <2>1. line = B(k)
    BY <1>5, <1>7
  <2> HIDE DEF line
  <2>2. /\ Cardinality({i \in 1..Len(line) : line[i] = "quote"}) = 2 * Len(s.labels)
        /\ line[1] = s.metric /\ \A j \in 1..Len(line) : line[j] \in Inked
    BY <1>4, <2>1
  <2> HIDE DEF s
  <2>3. ~Scrape!Contains(line, "backslash")
    BY <1>6, <2>2 DEF Scrape!Contains
  <2>4. Scrape!Readable(line, s)
    BY <2>2, <2>3 DEF Scrape!Readable, Scrape!Cardinality, Cardinality
  <2> QED BY <2>4 DEF line, s
<1>10. ASSUME NEW j \in 1..Len(rows), NEW k \in 1..Len(rows), Scrape!Apart(rows[j], rows[k])
       PROVE  lines[4 + (6 * (j - 1) + 1)] # lines[4 + (6 * (k - 1) + 1)]
  <2> DEFINE x == rows[j]
             y == rows[k]
             c == 6 * (j - 1) + 1
             d == 6 * (k - 1) + 1
  <2>1. x \in Seq(Symbols) /\ y \in Seq(Symbols)
    BY <1>2
  <2>2. /\ c \in 1..N /\ series[c] = Requests(scenario, x)
        /\ d \in 1..N /\ series[d] = Requests(scenario, y)
    BY <1>2
  <2>3. Scrape!Apart(x, y)
    BY <1>10
  <2> HIDE DEF x, y, c, d
  <2>4. Body(Requests(scenario, x)) # Body(Requests(scenario, y))
    BY <1>2, <2>1, <2>3, ToolsApart
  <2>5. lines[4 + c] = Body(series[c]) /\ lines[4 + d] = Body(series[d])
    BY <1>5, <1>7, <2>2 DEF B
  <2>6. lines[4 + c] # lines[4 + d]
    BY <2>2, <2>4, <2>5
  <2> QED BY <2>6 DEF c, d
<1>11. ASSUME NEW k \in 1..N
       PROVE  \E i \in 1..4 : lines[i] = <<"# TYPE", series[k].metric>>
  <2>1. series[k].metric \in Metrics
    <3>1. series[k] \in Series
      BY <1>2 DEF N
    <3> QED BY <3>1 DEF Series
  <2>2. PICK i \in 1..4 : Types[i] = <<"# TYPE", series[k].metric>>
    BY <2>1, TypesDeclared
  <2> QED BY <1>5, <1>7, <2>2
<1>12. Scrape!ExpositionScrapes
  <2>1. \A k \in 1..Len(series) : /\ Scrape!Readable(lines[4 + k], series[k])
                                  /\ \E i \in 1..4 : lines[i] = <<"# TYPE", series[k].metric>>
    BY <1>9, <1>11 DEF N
  <2> QED BY <1>8, <1>10, <2>1 DEF Scrape!ExpositionScrapes, lines, series, rows
<1> QED BY <1>12
=============================================================================
