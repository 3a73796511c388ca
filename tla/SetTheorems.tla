------------------------------ MODULE SetTheorems ------------------------------
(***************************************************************************)
(* Facts about the library's operators on finite sets and sequences that   *)
(* the models use.  Min(S) and Max(S) are the least and the greatest of S. *)
(* SumFunctionOnSet(f, S) adds f[x] for the x of a finite set S, which its *)
(* definition takes in an arbitrary order; here the order does not matter. *)
(* FoldLeft reads a sequence as a machine does, one element after another. *)
(* The inductions are over the subsets of S, or over the numbers to n: of  *)
(* those without the property there would be a smallest one.               *)
(***************************************************************************)
EXTENDS Sequences, FiniteSetsExt, FiniteSetTheorems, SequenceTheorems, TLAPS

(* A set of natural numbers has a least element, which is its Min.         *)
LEMMA LeastNat ==
  ASSUME NEW S \in SUBSET Nat, S # {}
  PROVE  Min(S) \in S /\ \A x \in S : Min(S) <= x
<1> DEFINE R == {p \in Nat \X Nat : p[1] < p[2]}
<1>1. IsWellFoundedOn(R, Nat)
  BY NatLessThanWellFounded DEF OpToRel
<1>2. PICK m \in S : \A x \in S : <<x, m>> \notin R
  <2> HIDE DEF R
  <2> QED BY <1>1, WFMin
<1>3. ASSUME NEW x \in S
      PROVE  m <= x
  <2>1. x < m => <<x, m>> \in R
    OBVIOUS
  <2> QED BY <1>2, <2>1
<1> QED BY <1>3 DEF Min

-----------------------------------------------------------------------------
(* The order in which a fold takes the elements of a set.                  *)
Pick(S) == CHOOSE x \in S : TRUE

(* g is the recursive function of the fold over the subsets of S.          *)
IsFold(g, f, S) ==
  g = [T \in SUBSET S |-> IF T = {} THEN 0 ELSE f[Pick(T)] + g[T \ {Pick(T)}]]

Fold(f, S) == CHOOSE g : IsFold(g, f, S)

-----------------------------------------------------------------------------
(* Induction: a set of subsets of a finite set has a smallest member.      *)
LEMMA SmallestSubset ==
  ASSUME NEW S, IsFiniteSet(S), NEW Bad \in SUBSET SUBSET S, Bad # {}
  PROVE  \E U \in Bad : \A V \in SUBSET U : V # U => V \notin Bad
<1> DEFINE R == StrictSubsetOrdering(S)
<1>1. IsWellFoundedOn(R, FiniteSubsetsOf(S))
  BY FS_StrictSubsetOrderingWellFounded
<1>2. Bad \subseteq FiniteSubsetsOf(S)
  BY FS_Subset DEF FiniteSubsetsOf
<1>3. PICK U \in Bad : \A V \in Bad : <<V, U>> \notin R
  <2> HIDE DEF R
  <2> QED BY <1>1, <1>2, WFMin
<1>4. ASSUME NEW V \in SUBSET U, V # U, V \in Bad
      PROVE  <<V, U>> \in R
  BY <1>4 DEF StrictSubsetOrdering
<1>5. \A V \in SUBSET U : V # U => V \notin Bad
  <2> HIDE DEF R
  <2> QED BY <1>3, <1>4
<1> QED BY <1>5

(* What Pick takes from a set is in it.                                    *)
LEMMA PickIn ==
  ASSUME NEW S, S # {}
  PROVE  Pick(S) \in S
BY DEF Pick

(* The same, said of the element that a fold takes first: the smallest     *)
(* member is not empty, and is none without that element.                  *)
LEMMA SmallestPick ==
  ASSUME NEW S, IsFiniteSet(S), NEW Bad \in SUBSET SUBSET S, Bad # {}, {} \notin Bad
  PROVE  \E U \in Bad : /\ IsFiniteSet(U) /\ U # {} /\ Pick(U) \in U
                        /\ U \ {Pick(U)} \notin Bad
<1>1. PICK U \in Bad : \A V \in SUBSET U : V # U => V \notin Bad
  BY SmallestSubset
<1>2. IsFiniteSet(U) /\ U # {}
  BY FS_Subset
<1>3. Pick(U) \in U
  BY <1>2, PickIn
<1> QED BY <1>1, <1>2, <1>3

(* Two folds agree wherever both are defined, on a finite set.             *)
LEMMA FoldUnique ==
  ASSUME NEW f, NEW A, NEW B, NEW g, NEW h, IsFold(g, f, A), IsFold(h, f, B),
         NEW S, IsFiniteSet(S), S \subseteq A, S \subseteq B
  PROVE  g[S] = h[S]
<1> DEFINE Bad == {T \in SUBSET S : g[T] # h[T]}
<1>1. SUFFICES ASSUME Bad # {} PROVE FALSE
  OBVIOUS
<1>2. PICK U \in Bad : \A V \in SUBSET U : V # U => V \notin Bad
  <2>1. Bad \in SUBSET SUBSET S
    OBVIOUS
  <2> HIDE DEF Bad
  <2> QED BY <1>1, <2>1, SmallestSubset
<1>3. U \in SUBSET A /\ U \in SUBSET B /\ g[U] # h[U]
  OBVIOUS
<1>4. U # {}
  BY <1>3 DEF IsFold
<1> DEFINE x == Pick(U)
<1>5. x \in U
  BY <1>4, PickIn
<1>6. g[U] = f[x] + g[U \ {x}] /\ h[U] = f[x] + h[U \ {x}]
  BY <1>3, <1>4 DEF IsFold
<1>7. g[U \ {x}] = h[U \ {x}]
  BY <1>2, <1>5
<1> QED BY <1>3, <1>6, <1>7

(* The recursion defines a fold on every finite set.                       *)
LEMMA FoldExists ==
  ASSUME NEW f, NEW S, IsFiniteSet(S)
  PROVE  IsFold(Fold(f, S), f, S)
<1> DEFINE Bad == {T \in SUBSET S : ~ \E g : IsFold(g, f, T)}
<1>1. SUFFICES ASSUME Bad # {} PROVE FALSE
  <2>1. SUFFICES \E g : IsFold(g, f, S)
    BY Zenon DEF Fold
  <2> QED BY <1>1
<1>2. PICK U \in Bad : \A V \in SUBSET U : V # U => V \notin Bad
  <2>1. Bad \in SUBSET SUBSET S
    OBVIOUS
  <2> HIDE DEF Bad
  <2> QED BY <1>1, <2>1, SmallestSubset
<1>3. ASSUME NEW V \in SUBSET U, V # U
      PROVE  IsFiniteSet(V) /\ IsFold(Fold(f, V), f, V)
  <2>1. \E g : IsFold(g, f, V)
    BY <1>2, <1>3
  <2>2. IsFold(Fold(f, V), f, V)
    BY <2>1, Zenon DEF Fold
  <2>3. V \in SUBSET S
    OBVIOUS
  <2> QED BY <2>2, <2>3, FS_Subset
<1> DEFINE Before(V) == IF V = {} THEN 0 ELSE f[Pick(V)] + Fold(f, V \ {Pick(V)})[V \ {Pick(V)}]
           h == [V \in SUBSET U |-> Before(V)]
<1>4. ASSUME NEW V \in SUBSET U, V # U
      PROVE  Before(V) = Fold(f, V)[V]
  <2>1. CASE V = {}
    BY <1>3, <1>4, <2>1 DEF IsFold
  <2>2. CASE V # {}
    <3> DEFINE x == Pick(V)
    <3>1. x \in V
      BY <2>2, PickIn
    <3>2. V \ {x} \in SUBSET U /\ V \ {x} # U
      BY <1>4, <3>1
    <3>3. Fold(f, V)[V] = f[x] + Fold(f, V)[V \ {x}]
      BY <1>3, <1>4, <2>2 DEF IsFold
    <3>4. Fold(f, V)[V \ {x}] = Fold(f, V \ {x})[V \ {x}]
      BY <1>3, <1>4, <3>2, FoldUnique
    <3> QED BY <2>2, <3>3, <3>4
  <2> QED BY <2>1, <2>2
<1>5. IsFold(h, f, U)
  <2>1. ASSUME NEW V \in SUBSET U, V # {}
        PROVE  h[V] = f[Pick(V)] + h[V \ {Pick(V)}]
    <3> DEFINE x == Pick(V)
    <3>1. x \in V
      BY <2>1, PickIn
    <3>2. V \ {x} \in SUBSET U /\ V \ {x} # U
      BY <3>1
    <3>3. h[V \ {x}] = Before(V \ {x})
      BY <3>2
    <3>4. @ = Fold(f, V \ {x})[V \ {x}]
      BY <1>4, <3>2
    <3> QED BY <2>1, <3>3, <3>4
  <2>2. h[{}] = 0
    OBVIOUS
  <2>3. h = [V \in SUBSET U |-> h[V]]
    OBVIOUS
  <2> HIDE DEF h
  <2> QED BY <2>1, <2>2, <2>3 DEF IsFold
<1> HIDE DEF h
<1> QED BY <1>2, <1>5

-----------------------------------------------------------------------------
(* The definition of the sum, without the operators it passes along.       *)
LEMMA SumIsFold ==
  ASSUME NEW f, NEW S
  PROVE  SumFunctionOnSet(f, S) = Fold(f, S)[S]
BY DEF SumFunctionOnSet, FoldFunctionOnSet, MapThenFoldSet, Fold, IsFold, Pick

(* The sum over no element.                                                *)
LEMMA SumEmpty ==
  ASSUME NEW f
  PROVE  SumFunctionOnSet(f, {}) = 0
<1>1. IsFold(Fold(f, {}), f, {})
  BY FoldExists, FS_EmptySet
<1>2. Fold(f, {})[{}] = 0
  BY <1>1 DEF IsFold
<1> QED BY <1>2, SumIsFold

(* The sum takes an element, and goes on with the others.                  *)
LEMMA SumPick ==
  ASSUME NEW f, NEW S, IsFiniteSet(S), S # {}
  PROVE  SumFunctionOnSet(f, S) = f[Pick(S)] + SumFunctionOnSet(f, S \ {Pick(S)})
<1> DEFINE T == S \ {Pick(S)}
<1>1. IsFiniteSet(T)
  BY FS_Difference
<1>2. IsFold(Fold(f, S), f, S) /\ IsFold(Fold(f, T), f, T)
  BY <1>1, FoldExists
<1>3. Fold(f, S)[S] = f[Pick(S)] + Fold(f, S)[T]
  BY <1>2 DEF IsFold
<1>4. Fold(f, S)[T] = Fold(f, T)[T]
  BY <1>1, <1>2, FoldUnique
<1> QED BY <1>3, <1>4, SumIsFold

(* The sum of integers is one.                                             *)
LEMMA SumInt ==
  ASSUME NEW f, NEW S, IsFiniteSet(S), \A x \in S : f[x] \in Int
  PROVE  SumFunctionOnSet(f, S) \in Int
<1> DEFINE Bad == {T \in SUBSET S : SumFunctionOnSet(f, T) \notin Int}
<1>1. SUFFICES ASSUME Bad # {} PROVE FALSE
  OBVIOUS
<1>2. PICK U \in Bad : /\ IsFiniteSet(U) /\ U # {} /\ Pick(U) \in U
                       /\ U \ {Pick(U)} \notin Bad
  <2>1. Bad \in SUBSET SUBSET S /\ {} \notin Bad
    BY SumEmpty
  <2> HIDE DEF Bad
  <2> QED BY <1>1, <2>1, SmallestPick
<1>3. SumFunctionOnSet(f, U \ {Pick(U)}) \in Int
  BY <1>2
<1> QED BY <1>2, <1>3, SumPick

(* No term of the sum is negative.                                         *)
LEMMA SumNat ==
  ASSUME NEW f, NEW S, IsFiniteSet(S), \A x \in S : f[x] \in Nat
  PROVE  SumFunctionOnSet(f, S) \in Nat
<1> DEFINE Bad == {T \in SUBSET S : SumFunctionOnSet(f, T) \notin Nat}
<1>1. SUFFICES ASSUME Bad # {} PROVE FALSE
  OBVIOUS
<1>2. PICK U \in Bad : /\ IsFiniteSet(U) /\ U # {} /\ Pick(U) \in U
                       /\ U \ {Pick(U)} \notin Bad
  <2>1. Bad \in SUBSET SUBSET S /\ {} \notin Bad
    BY SumEmpty
  <2> HIDE DEF Bad
  <2> QED BY <1>1, <2>1, SmallestPick
<1>3. SumFunctionOnSet(f, U \ {Pick(U)}) \in Nat
  BY <1>2
<1> QED BY <1>2, <1>3, SumPick

(* The order does not matter: any element may be taken first.              *)
LEMMA SumTake ==
  ASSUME NEW f, NEW S, IsFiniteSet(S), \A x \in S : f[x] \in Int, NEW y \in S
  PROVE  SumFunctionOnSet(f, S) = f[y] + SumFunctionOnSet(f, S \ {y})
<1> DEFINE Sum(T) == SumFunctionOnSet(f, T)
           Bad == {T \in SUBSET S : \E x \in T : Sum(T) # f[x] + Sum(T \ {x})}
<1>1. SUFFICES ASSUME Bad # {} PROVE FALSE
  OBVIOUS
<1>2. PICK U \in Bad : \A V \in SUBSET U : V # U => V \notin Bad
  <2>1. Bad \in SUBSET SUBSET S
    OBVIOUS
  <2> HIDE DEF Bad
  <2> QED BY <1>1, <2>1, SmallestSubset
<1>3. PICK x \in U : Sum(U) # f[x] + Sum(U \ {x})
  OBVIOUS
<1>4. U \in SUBSET S /\ IsFiniteSet(U)
  BY FS_Subset
<1> DEFINE p == Pick(U)
<1>5. p \in U /\ Sum(U) = f[p] + Sum(U \ {p})
  BY <1>4, PickIn, SumPick
<1>6. x # p
  BY <1>3, <1>5
<1>7. U \ {p} \notin Bad /\ U \ {x} \notin Bad
  BY <1>2, <1>5
<1>8. Sum(U \ {p}) = f[x] + Sum((U \ {p}) \ {x})
  BY <1>4, <1>6, <1>7
<1>9. Sum(U \ {x}) = f[p] + Sum((U \ {x}) \ {p})
  BY <1>4, <1>5, <1>6, <1>7
<1>10. (U \ {p}) \ {x} = (U \ {x}) \ {p}
  OBVIOUS
<1>11. Sum((U \ {p}) \ {x}) \in Int
  <2>1. IsFiniteSet((U \ {p}) \ {x})
    BY <1>4, FS_Difference
  <2> QED BY <1>4, <2>1, SumInt
<1>12. f[x] \in Int /\ f[p] \in Int
  BY <1>4, <1>5
<1>13. Sum(U) = f[x] + Sum(U \ {x})
  <2> DEFINE rest == Sum((U \ {p}) \ {x})
  <2>1. Sum(U) = f[p] + (f[x] + rest)
    BY <1>5, <1>8
  <2>2. Sum(U \ {x}) = f[p] + rest
    BY <1>9, <1>10
  <2>3. rest \in Int
    BY <1>11
  <2> HIDE DEF Sum, Bad, rest, p
  <2> QED BY <1>12, <2>1, <2>2, <2>3
<1> QED BY <1>3, <1>13

(* The sum depends on the terms only.                                      *)
LEMMA SumEqual ==
  ASSUME NEW f, NEW g, NEW S, IsFiniteSet(S), \A x \in S : f[x] = g[x]
  PROVE  SumFunctionOnSet(f, S) = SumFunctionOnSet(g, S)
<1> DEFINE Bad == {T \in SUBSET S : SumFunctionOnSet(f, T) # SumFunctionOnSet(g, T)}
<1>1. SUFFICES ASSUME Bad # {} PROVE FALSE
  OBVIOUS
<1>2. PICK U \in Bad : /\ IsFiniteSet(U) /\ U # {} /\ Pick(U) \in U
                       /\ U \ {Pick(U)} \notin Bad
  <2>1. Bad \in SUBSET SUBSET S /\ {} \notin Bad
    BY SumEmpty
  <2> HIDE DEF Bad
  <2> QED BY <1>1, <2>1, SmallestPick
<1>3. SumFunctionOnSet(f, U \ {Pick(U)}) = SumFunctionOnSet(g, U \ {Pick(U)})
  BY <1>2
<1>4. f[Pick(U)] = g[Pick(U)]
  BY <1>2
<1> QED BY <1>2, <1>3, <1>4, SumPick

(* One term changes by d, and the sum with it.                             *)
LEMMA SumShift ==
  ASSUME NEW f, NEW g, NEW S, IsFiniteSet(S), \A x \in S : f[x] \in Int,
         NEW y \in S, NEW d \in Int, g[y] = f[y] + d, \A x \in S \ {y} : g[x] = f[x]
  PROVE  SumFunctionOnSet(g, S) = SumFunctionOnSet(f, S) + d
<1>1. \A x \in S : g[x] \in Int
  OBVIOUS
<1>2. IsFiniteSet(S \ {y})
  BY FS_Difference
<1>3. SumFunctionOnSet(f, S \ {y}) = SumFunctionOnSet(g, S \ {y})
  BY <1>2, SumEqual
<1>4. SumFunctionOnSet(f, S \ {y}) \in Int
  BY <1>2, SumInt
<1>5. /\ SumFunctionOnSet(f, S) = f[y] + SumFunctionOnSet(f, S \ {y})
      /\ SumFunctionOnSet(g, S) = g[y] + SumFunctionOnSet(g, S \ {y})
  BY <1>1, SumTake
<1> QED BY <1>3, <1>4, <1>5

(* Nothing adds up to nothing.                                             *)
LEMMA SumZero ==
  ASSUME NEW f, NEW S, IsFiniteSet(S), \A x \in S : f[x] = 0
  PROVE  SumFunctionOnSet(f, S) = 0
<1> DEFINE Bad == {T \in SUBSET S : SumFunctionOnSet(f, T) # 0}
<1>1. SUFFICES ASSUME Bad # {} PROVE FALSE
  OBVIOUS
<1>2. PICK U \in Bad : /\ IsFiniteSet(U) /\ U # {} /\ Pick(U) \in U
                       /\ U \ {Pick(U)} \notin Bad
  <2>1. Bad \in SUBSET SUBSET S /\ {} \notin Bad
    BY SumEmpty
  <2> HIDE DEF Bad
  <2> QED BY <1>1, <2>1, SmallestPick
<1>3. SumFunctionOnSet(f, U \ {Pick(U)}) = 0
  BY <1>2
<1> QED BY <1>2, <1>3, SumPick

(* One element more, one more in number.                                   *)
LEMMA OneMore ==
  ASSUME NEW S, IsFiniteSet(S), NEW x, x \notin S, NEW T, T = S \cup {x}
  PROVE  /\ IsFiniteSet(T) /\ Cardinality(S) \in Nat /\ Cardinality(T) \in Nat
         /\ Cardinality(T) = Cardinality(S) + 1
BY FS_AddElement, FS_CardinalityType

-----------------------------------------------------------------------------
(* Terms that are zero may be left out.                                    *)
LEMMA SumWhere ==
  ASSUME NEW f, NEW S, IsFiniteSet(S), \A x \in S : f[x] \in Int,
         NEW T \in SUBSET S, \A x \in S \ T : f[x] = 0
  PROVE  SumFunctionOnSet(f, S) = SumFunctionOnSet(f, T)
<1> DEFINE Sum(U) == SumFunctionOnSet(f, U)
           Bad == {U \in SUBSET S : T \subseteq U /\ Sum(U) # Sum(T)}
<1>1. SUFFICES ASSUME Bad # {} PROVE FALSE
  OBVIOUS
<1>2. PICK U \in Bad : \A V \in SUBSET U : V # U => V \notin Bad
  <2>1. Bad \in SUBSET SUBSET S
    OBVIOUS
  <2> HIDE DEF Bad
  <2> QED BY <1>1, <2>1, SmallestSubset
<1>3. PICK x \in U : x \notin T
  OBVIOUS
<1>4. U \in SUBSET S /\ T \subseteq U /\ Sum(U) # Sum(T) /\ IsFiniteSet(U) /\ IsFiniteSet(U \ {x})
  BY FS_Subset
<1>5. Sum(U) = f[x] + Sum(U \ {x})
  BY <1>4, SumTake
<1>6. f[x] = 0 /\ Sum(U \ {x}) \in Int
  BY <1>3, <1>4, SumInt
<1>7. Sum(U \ {x}) = Sum(T)
  BY <1>2, <1>3, <1>4
<1> QED BY <1>4, <1>5, <1>6, <1>7

(* The sums of two families add up term by term.                           *)
LEMMA SumAdd ==
  ASSUME NEW f, NEW g, NEW h, NEW S, IsFiniteSet(S),
         \A x \in S : f[x] \in Int /\ g[x] \in Int /\ h[x] = f[x] + g[x]
  PROVE  SumFunctionOnSet(h, S) = SumFunctionOnSet(f, S) + SumFunctionOnSet(g, S)
<1> DEFINE Bad == {T \in SUBSET S : SumFunctionOnSet(h, T)
                                      # SumFunctionOnSet(f, T) + SumFunctionOnSet(g, T)}
<1>1. SUFFICES ASSUME Bad # {} PROVE FALSE
  OBVIOUS
<1>2. PICK U \in Bad : /\ IsFiniteSet(U) /\ U # {} /\ Pick(U) \in U
                       /\ U \ {Pick(U)} \notin Bad
  <2>1. Bad \in SUBSET SUBSET S /\ {} \notin Bad
    BY SumEmpty
  <2> HIDE DEF Bad
  <2> QED BY <1>1, <2>1, SmallestPick
<1> DEFINE p == Pick(U)
           V == U \ {p}
<1>3. U \in SUBSET S /\ p \in S /\ IsFiniteSet(V) /\ V \in SUBSET S
  BY <1>2, FS_Subset
<1>4. SumFunctionOnSet(h, V) = SumFunctionOnSet(f, V) + SumFunctionOnSet(g, V)
  BY <1>2, <1>3
<1>5. SumFunctionOnSet(f, V) \in Int /\ SumFunctionOnSet(g, V) \in Int
  BY <1>3, SumInt
<1>6. /\ SumFunctionOnSet(h, U) = h[p] + SumFunctionOnSet(h, V)
      /\ SumFunctionOnSet(f, U) = f[p] + SumFunctionOnSet(f, V)
      /\ SumFunctionOnSet(g, U) = g[p] + SumFunctionOnSet(g, V)
  BY <1>2, SumPick
<1>7. f[p] \in Int /\ g[p] \in Int /\ h[p] = f[p] + g[p]
  BY <1>3
<1> QED BY <1>2, <1>4, <1>5, <1>6, <1>7

(* A table adds up to the same by rows and by columns.                     *)
LEMMA SumSwap ==
  ASSUME NEW S, IsFiniteSet(S), NEW T, IsFiniteSet(T), NEW h,
         \A x \in S, y \in T : h[x][y] \in Int
  PROVE  SumFunctionOnSet([x \in S |-> SumFunctionOnSet(h[x], T)], S)
           = SumFunctionOnSet([y \in T |-> SumFunctionOnSet([x \in S |-> h[x][y]], S)], T)
<1> DEFINE row == [x \in S |-> SumFunctionOnSet(h[x], T)]
           column(y) == [x \in S |-> h[x][y]]
           columns(U) == [y \in T |-> SumFunctionOnSet(column(y), U)]
           Bad == {U \in SUBSET S : SumFunctionOnSet(row, U) # SumFunctionOnSet(columns(U), T)}
<1>1. SUFFICES ASSUME Bad # {} PROVE FALSE
  OBVIOUS
<1>2. PICK U \in Bad : /\ IsFiniteSet(U) /\ U # {} /\ Pick(U) \in U
                       /\ U \ {Pick(U)} \notin Bad
  <2>1. SumFunctionOnSet(row, {}) = 0
    BY SumEmpty
  <2>2. SumFunctionOnSet(columns({}), T) = 0
    <3>1. \A y \in T : columns({})[y] = 0
      BY SumEmpty
    <3> HIDE DEF columns
    <3> QED BY <3>1, SumZero
  <2>3. Bad \in SUBSET SUBSET S /\ {} \notin Bad
    BY <2>1, <2>2
  <2> HIDE DEF Bad
  <2> QED BY <1>1, <2>3, SmallestPick
<1> DEFINE p == Pick(U)
           V == U \ {p}
<1>3. U \in SUBSET S /\ p \in S /\ IsFiniteSet(V) /\ V \in SUBSET S
  BY <1>2, FS_Subset
<1>4. SumFunctionOnSet(row, V) = SumFunctionOnSet(columns(V), T)
  BY <1>2, <1>3
<1>5. SumFunctionOnSet(row, U) = row[p] + SumFunctionOnSet(row, V)
  BY <1>2, SumPick
<1>6. row[p] = SumFunctionOnSet(h[p], T)
  BY <1>3
<1>7. ASSUME NEW y \in T
      PROVE  /\ h[p][y] \in Int /\ columns(V)[y] \in Int
             /\ columns(U)[y] = h[p][y] + columns(V)[y]
  <2>1. \A x \in S : column(y)[x] \in Int /\ column(y)[x] = h[x][y]
    OBVIOUS
  <2> HIDE DEF column
  <2>2. SumFunctionOnSet(column(y), U) = column(y)[p] + SumFunctionOnSet(column(y), V)
    BY <1>2, SumPick
  <2>3. SumFunctionOnSet(column(y), V) \in Int
    BY <1>3, <2>1, SumInt
  <2> QED BY <1>3, <2>1, <2>2, <2>3
<1>8. SumFunctionOnSet(columns(U), T) = SumFunctionOnSet(h[p], T) + SumFunctionOnSet(columns(V), T)
  <2> HIDE DEF columns, V, p
  <2> QED BY <1>7, SumAdd
<1>9. SumFunctionOnSet(row, U) # SumFunctionOnSet(columns(U), T)
  OBVIOUS
<1> HIDE DEF row, columns, V, p
<1> QED BY <1>4, <1>5, <1>6, <1>8, <1>9

-----------------------------------------------------------------------------
(* A finite set of integers that is not empty has a greatest.              *)
LEMMA GreatestInt ==
  ASSUME NEW S \in SUBSET Int, IsFiniteSet(S), S # {}
  PROVE  Max(S) \in S /\ \A x \in S : Max(S) >= x
<1> DEFINE HasMax(T) == \E m \in T : \A x \in T : m >= x
           Bad == {T \in SUBSET S : T # {} /\ ~HasMax(T)}
<1>1. SUFFICES HasMax(S)
  BY DEF Max
<1>2. SUFFICES ASSUME Bad # {} PROVE FALSE
  OBVIOUS
<1>3. PICK U \in Bad : \A V \in SUBSET U : V # U => V \notin Bad
  <2>1. Bad \in SUBSET SUBSET S
    OBVIOUS
  <2> HIDE DEF Bad
  <2> QED BY <1>2, <2>1, SmallestSubset
<1>4. U # {} /\ U \subseteq Int /\ U \subseteq S
  OBVIOUS
<1>5. PICK y \in U : TRUE
  BY <1>4
<1>6. CASE U \ {y} = {}
  <2>1. \A x \in U : y >= x
    BY <1>4, <1>6
  <2> QED BY <1>3, <2>1
<1>7. CASE U \ {y} # {}
  <2>1. HasMax(U \ {y})
    BY <1>3, <1>4, <1>7
  <2>2. PICK m \in U \ {y} : \A x \in U \ {y} : m >= x
    BY <2>1
  <2>3. CASE m >= y
    <3>1. \A x \in U : m >= x
      BY <2>2, <2>3
    <3> QED BY <1>3, <3>1
  <2>4. CASE ~(m >= y)
    <3>1. m \in Int /\ y \in Int /\ y >= m
      BY <1>4, <2>4
    <3>2. \A x \in U : y >= x
      BY <1>4, <2>2, <3>1
    <3> QED BY <1>3, <3>2
  <2> QED BY <2>3, <2>4
<1> QED BY <1>6, <1>7

(* Induction over an interval, for a property given as the set that has it. *)
LEMMA Upward ==
  ASSUME NEW n \in Nat, NEW S, 0 \in S, \A i \in 0..(n - 1) : i \in S => i + 1 \in S
  PROVE  \A i \in 0..n : i \in S
<1> DEFINE Bad == {i \in 0..n : i \notin S}
<1>1. SUFFICES ASSUME Bad # {} PROVE FALSE
  OBVIOUS
<1> DEFINE m == Min(Bad)
<1>2. m \in Bad /\ \A i \in Bad : m <= i
  <2>1. Bad \in SUBSET Nat
    OBVIOUS
  <2> HIDE DEF Bad
  <2> QED BY <1>1, <2>1, LeastNat
<1> HIDE DEF m
<1>3. m - 1 \in 0..(n - 1) /\ m - 1 \notin Bad
  BY <1>2
<1> QED BY <1>2, <1>3

-----------------------------------------------------------------------------
(* A machine with states P reads the sequence s: it starts in b, and goes   *)
(* from p to step[<<p, e>>] on e.  Its run is the sequence of its states,   *)
(* and After the state it ends in.                                          *)
IsMachine(P, E, step) == step \in [P \X E -> P]

IsRun(r, step, b, s) == /\ r[0] = b
                        /\ \A i \in 1..Len(s) : r[i] = step[<<r[i - 1], s[i]>>]

Run(P, step, b, s)   == CHOOSE r \in [0..Len(s) -> P] : IsRun(r, step, b, s)
After(P, step, b, s) == Run(P, step, b, s)[Len(s)]

(* A machine has a run on every sequence.                                   *)
LEMMA RunExists ==
  ASSUME NEW P, NEW E, NEW step, IsMachine(P, E, step), NEW b \in P, NEW s \in Seq(E)
  PROVE  /\ Run(P, step, b, s) \in [0..Len(s) -> P]
         /\ IsRun(Run(P, step, b, s), step, b, s)
         /\ After(P, step, b, s) \in P
<1> DEFINE n == Len(s)
           Upto(r, k) == /\ r \in [0..n -> P] /\ r[0] = b
                         /\ \A i \in 1..k : r[i] = step[<<r[i - 1], s[i]>>]
           S == {k \in 0..n : \E r : Upto(r, k)}
<1>1. n \in Nat /\ \A i \in 1..n : s[i] \in E
  OBVIOUS
<1> HIDE DEF n
<1>2. 0 \in S
  <2>1. Upto([i \in 0..n |-> b], 0) /\ 0 \in 0..n
    BY <1>1
  <2> HIDE DEF Upto
  <2> QED BY <2>1, Zenon
<1>3. ASSUME NEW k \in 0..(n - 1), k \in S
      PROVE  k + 1 \in S
  <2>1. PICK r : Upto(r, k)
    BY <1>3
  <2> DEFINE q == [r EXCEPT ![k + 1] = step[<<r[k], s[k + 1]>>]]
  <2>2. k \in 0..n /\ k + 1 \in 1..n /\ r[k] \in P /\ s[k + 1] \in E
    BY <1>1, <2>1
  <2>9. step[<<r[k], s[k + 1]>>] \in P
    BY <2>2 DEF IsMachine
  <2>3. q \in [0..n -> P] /\ q[0] = b
    BY <1>1, <2>1, <2>2, <2>9
  <2>4. ASSUME NEW i \in 1..(k + 1)
        PROVE  q[i] = step[<<q[i - 1], s[i]>>]
    <3>1. i \in 0..n /\ i - 1 \in 0..n /\ i - 1 # k + 1
      BY <1>1, <2>2
    <3>2. q[i - 1] = r[i - 1]
      BY <2>1, <3>1
    <3>3. CASE i = k + 1
      <4>1. q[k + 1] = step[<<r[k], s[k + 1]>>]
        BY <2>1, <3>1, <3>3
      <4>2. i - 1 = k
        BY <3>3
      <4> QED BY <3>2, <3>3, <4>1, <4>2
    <3>4. CASE i # k + 1
      <4>1. i \in 1..k /\ q[i] = r[i]
        BY <2>1, <2>2, <3>1, <3>4
      <4> QED BY <2>1, <3>2, <4>1
    <3> QED BY <3>3, <3>4
  <2> HIDE DEF q
  <2>5. Upto(q, k + 1)
    BY <2>3, <2>4
  <2> HIDE DEF Upto
  <2>6. k + 1 \in 0..n
    BY <2>2
  <2> QED BY <2>5, <2>6, Zenon
<1>4. n \in S
  <2> HIDE DEF S
  <2>1. \A i \in 0..n : i \in S
    BY <1>1, <1>2, <1>3, Upward, Zenon
  <2> QED BY <1>1, <2>1
<1>5. \E r \in [0..Len(s) -> P] : IsRun(r, step, b, s)
  BY <1>4 DEF n, IsRun
<1>6. /\ Run(P, step, b, s) \in [0..Len(s) -> P]
      /\ IsRun(Run(P, step, b, s), step, b, s)
  BY <1>5, Zenon DEF Run
<1> QED BY <1>1, <1>6 DEF After, n

(* It has only one.                                                         *)
LEMMA RunUnique ==
  ASSUME NEW step, NEW b, NEW s, Len(s) \in Nat,
         NEW q, NEW r, IsRun(q, step, b, s), IsRun(r, step, b, s)
  PROVE  \A i \in 0..Len(s) : q[i] = r[i]
<1> DEFINE n == Len(s)
           S == {i \in 0..n : q[i] = r[i]}
<1>1. 0 \in S
  BY DEF IsRun
<1>2. ASSUME NEW i \in 0..(n - 1), i \in S
      PROVE  i + 1 \in S
  <2>1. i + 1 \in 1..n /\ (i + 1) - 1 = i /\ i + 1 \in 0..n
    OBVIOUS
  <2>2. /\ q[i + 1] = step[<<q[(i + 1) - 1], s[i + 1]>>]
        /\ r[i + 1] = step[<<r[(i + 1) - 1], s[i + 1]>>]
    BY <2>1, Zenon DEF IsRun
  <2>3. q[i + 1] = r[i + 1]
    BY <1>2, <2>1, <2>2
  <2> QED BY <2>1, <2>3
<1>3. \A i \in 0..n : i \in S
  <2> HIDE DEF S
  <2> QED BY <1>1, <1>2, Upward
<1> QED BY <1>3

(* What is read before, and what is read after.  A sequence made of others  *)
(* is a name of its own here, which the provers match where they would not  *)
(* match an expression.                                                     *)
IsAppend(t, s, e) == t = Append(s, e)
IsConcat(u, s, t) == u = s \o t

LEMMA AfterEmpty ==
  ASSUME NEW P, NEW E, NEW step, IsMachine(P, E, step), NEW b \in P
  PROVE  After(P, step, b, <<>>) = b
<1>1. <<>> \in Seq(E) /\ Len(<<>>) = 0
  OBVIOUS
<1>2. Run(P, step, b, <<>>)[0] = b
  <2>1. IsRun(Run(P, step, b, <<>>), step, b, <<>>)
    BY <1>1, RunExists
  <2> QED BY <2>1 DEF IsRun
<1> QED BY <1>1, <1>2, Zenon DEF After

LEMMA AfterConcat ==
  ASSUME NEW P, NEW E, NEW step, IsMachine(P, E, step), NEW b \in P,
         NEW s \in Seq(E), NEW t \in Seq(E), NEW u, IsConcat(u, s, t)
  PROVE  After(P, step, b, u) = After(P, step, After(P, step, b, s), t)
<1> DEFINE m == Len(s)
           n == Len(t)
           mid == After(P, step, b, s)
           q == Run(P, step, b, s)
           r == Run(P, step, mid, t)
           w == [i \in 0..(m + n) |-> IF i <= m THEN q[i] ELSE r[i - m]]
<1>1. /\ u \in Seq(E) /\ Len(u) = m + n /\ m \in Nat /\ n \in Nat
      /\ \A i \in 1..(m + n) : u[i] = IF i <= m THEN s[i] ELSE t[i - m]
  BY DEF IsConcat
<1>2. IsRun(q, step, b, s) /\ mid \in P /\ q[m] = mid
  BY RunExists DEF After
<1>3. IsRun(r, step, mid, t)
  BY <1>2, RunExists
<1> HIDE DEF m, n, mid, q, r
<1>4. ASSUME NEW i \in 1..(m + n)
      PROVE  w[i] = step[<<w[i - 1], u[i]>>]
  <2>1. CASE i <= m
    <3>1. i \in 1..m /\ w[i] = q[i] /\ w[i - 1] = q[i - 1]
      BY <1>1, <2>1
    <3> QED BY <1>1, <1>2, <2>1, <3>1 DEF IsRun, m
  <2>2. CASE i > m
    <3>1. i - m \in 1..n /\ w[i] = r[i - m] /\ (i - 1) - m = (i - m) - 1
      BY <1>1, <2>2
    <3>2. w[i - 1] = r[(i - m) - 1]
      <4>1. CASE i = m + 1
        <5>1. i - 1 = m /\ (i - m) - 1 = 0 /\ i - 1 \in 0..(m + n)
          BY <1>1, <4>1
        <5> QED BY <1>2, <1>3, <5>1 DEF IsRun
      <4>2. CASE i # m + 1
        <5>1. i - 1 \in 0..(m + n) /\ ~(i - 1 <= m)
          BY <1>1, <2>2, <4>2
        <5> QED BY <3>1, <5>1
      <4> QED BY <4>1, <4>2
    <3>3. u[i] = t[i - m]
      BY <1>1, <2>2
    <3> QED BY <1>3, <3>1, <3>2, <3>3 DEF IsRun, n
  <2>3. i <= m \/ i > m
    BY <1>1
  <2> QED BY <2>1, <2>2, <2>3
<1>5. w[0] = b /\ w[m + n] = r[n]
  <2>1. w[0] = b
    BY <1>1, <1>2 DEF IsRun
  <2>2. CASE n = 0
    BY <1>1, <1>2, <1>3, <2>2 DEF IsRun
  <2>3. CASE n # 0
    <3>1. m + n \in 0..(m + n) /\ ~(m + n <= m) /\ (m + n) - m = n
      BY <1>1, <2>3
    <3>2. w[m + n] = r[(m + n) - m]
      BY <3>1, Zenon
    <3> QED BY <2>1, <3>1, <3>2
  <2> QED BY <2>1, <2>2, <2>3
<1> HIDE DEF w
<1>6. IsRun(w, step, b, u)
  BY <1>1, <1>4, <1>5 DEF IsRun
<1>7. IsRun(Run(P, step, b, u), step, b, u)
  BY <1>1, RunExists
<1>8. Run(P, step, b, u)[m + n] = w[m + n]
  <2>1. Len(u) \in Nat /\ m + n \in 0..Len(u)
    BY <1>1
  <2> DEFINE v == Run(P, step, b, u)
  <2> HIDE DEF v
  <2>2. \A i \in 0..Len(u) : v[i] = w[i]
    BY <1>6, <1>7, <2>1, RunUnique DEF v
  <2> QED BY <2>1, <2>2 DEF v
<1> QED BY <1>1, <1>5, <1>8 DEF After, r, n, mid

LEMMA AfterOne ==
  ASSUME NEW P, NEW E, NEW step, IsMachine(P, E, step), NEW b \in P, NEW e \in E
  PROVE  After(P, step, b, <<e>>) = step[<<b, e>>]
<1>1. <<e>> \in Seq(E) /\ Len(<<e>>) = 1 /\ <<e>>[1] = e
  OBVIOUS
<1>2. IsRun(Run(P, step, b, <<e>>), step, b, <<e>>)
  BY <1>1, RunExists
<1> QED BY <1>1, <1>2 DEF After, IsRun

LEMMA AfterAppend ==
  ASSUME NEW P, NEW E, NEW step, IsMachine(P, E, step), NEW b \in P, NEW s \in Seq(E), NEW e \in E,
         NEW t, IsAppend(t, s, e)
  PROVE  After(P, step, b, t) = step[<<After(P, step, b, s), e>>]
<1> DEFINE one == <<e>>
<1>1. one \in Seq(E) /\ IsConcat(t, s, one)
  BY DEF IsAppend, IsConcat
<1>2. After(P, step, b, s) \in P
  BY RunExists, Zenon
<1>3. After(P, step, b, t) = After(P, step, After(P, step, b, s), one)
  <2> HIDE DEF one
  <2> QED BY <1>1, AfterConcat
<1>4. @ = step[<<After(P, step, b, s), e>>]
  BY <1>2, AfterOne
<1> QED BY <1>3, <1>4

-----------------------------------------------------------------------------
(* FoldLeft takes the elements of a sequence by the greatest of a set of    *)
(* places, so its recursion is over every set of them; g follows it.        *)
IsLeftFold(g, P, step, b, s) ==
  /\ g \in [SUBSET DOMAIN s -> P] /\ g[{}] = b
  /\ \A T \in SUBSET DOMAIN s : T # {} => g[T] = step[<<g[T \ {Max(T)}], s[Max(T)]>>]

(* The greatest of a set of places is one of them.                          *)
LEMMA LastPlace ==
  ASSUME NEW n \in Nat, NEW T \in SUBSET (1..n), T # {}
  PROVE  Max(T) \in T /\ \A i \in T : i <= Max(T)
<1>1. IsFiniteSet(T) /\ T \in SUBSET Int
  <2>1. IsFiniteSet(1..n)
    BY FS_Interval
  <2>2. IsFiniteSet(T)
    BY <2>1, FS_Subset, Zenon
  <2> QED BY <2>2
<1>2. Max(T) \in T /\ \A i \in T : Max(T) >= i
  BY <1>1, GreatestInt
<1> QED BY <1>1, <1>2

LEMMA LastOfInterval ==
  ASSUME NEW n \in Nat, NEW k \in 1..n
  PROVE  Max(1..k) = k /\ (1..k) \ {Max(1..k)} = 1..(k - 1)
<1>1. 1..k \in SUBSET (1..n) /\ k \in 1..k
  OBVIOUS
<1>2. Max(1..k) \in 1..k /\ \A i \in 1..k : i <= Max(1..k)
  BY <1>1, LastPlace
<1>3. Max(1..k) = k
  BY <1>1, <1>2
<1> QED BY <1>3

LEMMA LeftFoldExists ==
  ASSUME NEW P, NEW E, NEW step, IsMachine(P, E, step), NEW b \in P, NEW s \in Seq(E)
  PROVE  \E g : IsLeftFold(g, P, step, b, s)
<1> DEFINE n == Len(s)
           Upto(g, k) == /\ g \in [SUBSET (1..k) -> P] /\ g[{}] = b
                         /\ \A T \in SUBSET (1..k) :
                              T # {} => g[T] = step[<<g[T \ {Max(T)}], s[Max(T)]>>]
           S == {k \in 0..n : \E g : Upto(g, k)}
<1>1. n \in Nat /\ DOMAIN s = 1..n /\ \A i \in 1..n : s[i] \in E
  OBVIOUS
<1> HIDE DEF n
<1>2. 0 \in S
  <2>1. SUBSET (1..0) = {{}}
    OBVIOUS
  <2> DEFINE g == [T \in SUBSET (1..0) |-> b]
  <2>2. /\ g \in [SUBSET (1..0) -> P] /\ g[{}] = b
        /\ \A T \in SUBSET (1..0) : T = {}
    BY <2>1
  <2>3. 0 \in 0..n
    BY <1>1
  <2> HIDE DEF g
  <2>4. Upto(g, 0)
    BY <2>2
  <2> HIDE DEF Upto
  <2> QED BY <2>3, <2>4, Zenon
<1>3. ASSUME NEW k \in 0..(n - 1), k \in S
      PROVE  k + 1 \in S
  <2>1. PICK g : Upto(g, k)
    BY <1>3
  <2> DEFINE h == [T \in SUBSET (1..(k + 1)) |->
                     IF k + 1 \in T THEN step[<<g[T \ {k + 1}], s[k + 1]>>] ELSE g[T]]
  <2>2. k \in Nat /\ k + 1 \in 1..n /\ k + 1 \in 0..n
    BY <1>1
  <2>3. ASSUME NEW T \in SUBSET (1..(k + 1)), k + 1 \notin T
        PROVE  T \in SUBSET (1..k) /\ h[T] = g[T]
    BY <2>2, <2>3
  <2>4. ASSUME NEW T \in SUBSET (1..(k + 1)), k + 1 \in T
        PROVE  /\ T \ {k + 1} \in SUBSET (1..k) /\ h[T \ {k + 1}] = g[T \ {k + 1}]
               /\ h[T] = step[<<g[T \ {k + 1}], s[k + 1]>>] /\ Max(T) = k + 1
    <3>1. T \ {k + 1} \in SUBSET (1..(k + 1)) /\ k + 1 \notin T \ {k + 1}
      OBVIOUS
    <3>2. k + 1 \in Nat /\ T # {}
      BY <2>2, <2>4
    <3>3. Max(T) \in T /\ \A i \in T : i <= Max(T)
      BY <3>2, LastPlace, Zenon
    <3>4. Max(T) \in 1..(k + 1) /\ k + 1 <= Max(T)
      BY <2>4, <3>3
    <3>5. Max(T) = k + 1
      BY <2>2, <3>4
    <3> QED BY <2>3, <2>4, <3>1, <3>5
  <2>5. h \in [SUBSET (1..(k + 1)) -> P]
    <3>1. ASSUME NEW T \in SUBSET (1..(k + 1))
          PROVE  h[T] \in P
      <4>1. CASE k + 1 \in T
        <5>1. g[T \ {k + 1}] \in P /\ s[k + 1] \in E
          BY <1>1, <2>1, <2>2, <2>4, <4>1
        <5> QED BY <2>4, <4>1, <5>1 DEF IsMachine
      <4>2. CASE k + 1 \notin T
        BY <2>1, <2>3, <4>2
      <4> QED BY <4>1, <4>2
    <3> QED BY <3>1
  <2>6. ASSUME NEW T \in SUBSET (1..(k + 1)), T # {}
        PROVE  h[T] = step[<<h[T \ {Max(T)}], s[Max(T)]>>]
    <3>1. CASE k + 1 \in T
      BY <2>4, <3>1
    <3>2. CASE k + 1 \notin T
      <4>1. g[T] = step[<<g[T \ {Max(T)}], s[Max(T)]>>]
        BY <2>1, <2>3, <2>6, <3>2
      <4>2. h[T \ {Max(T)}] = g[T \ {Max(T)}]
        BY <2>3, <3>2
      <4> QED BY <2>3, <3>2, <4>1, <4>2
    <3> QED BY <3>1, <3>2
  <2>7. h[{}] = b
    BY <2>1, <2>3
  <2> HIDE DEF h
  <2>8. Upto(h, k + 1)
    BY <2>5, <2>6, <2>7
  <2> HIDE DEF Upto
  <2> QED BY <2>2, <2>8, Zenon
<1>4. n \in S
  <2> HIDE DEF S
  <2>1. \A i \in 0..n : i \in S
    BY <1>1, <1>2, <1>3, Upward, Zenon
  <2> QED BY <1>1, <2>1
<1> QED BY <1>1, <1>4 DEF IsLeftFold

(* The same, only where the result is a state.                              *)
Follows(g, P, step, b, s) ==
  /\ g[{}] = b
  /\ \A T \in SUBSET DOMAIN s :
       T # {} /\ g[T \ {Max(T)}] \in P => g[T] = step[<<g[T \ {Max(T)}], s[Max(T)]>>]

(* Whatever follows the recursion ends where the machine does.              *)
LEMMA LeftFoldIsAfter ==
  ASSUME NEW P, NEW E, NEW step, IsMachine(P, E, step), NEW b \in P, NEW s \in Seq(E), NEW g,
         Follows(g, P, step, b, s)
  PROVE  g[DOMAIN s] = After(P, step, b, s)
<1> DEFINE n == Len(s)
           r == Run(P, step, b, s)
           S == {k \in 0..n : g[1..k] = r[k]}
<1>1. n \in Nat /\ DOMAIN s = 1..n
  OBVIOUS
<1>9. /\ g[{}] = b
      /\ \A T \in SUBSET DOMAIN s :
           T # {} /\ g[T \ {Max(T)}] \in P => g[T] = step[<<g[T \ {Max(T)}], s[Max(T)]>>]
  BY DEF Follows
<1>2. r \in [0..n -> P] /\ IsRun(r, step, b, s)
  BY RunExists
<1> HIDE DEF n, r
<1>3. 0 \in S
  <2>1. 1..0 = {} /\ 0 \in 0..n
    BY <1>1
  <2> QED BY <1>2, <1>9, <2>1 DEF IsRun
<1>4. ASSUME NEW k \in 0..(n - 1), k \in S
      PROVE  k + 1 \in S
  <2> DEFINE T == 1..(k + 1)
  <2>1. k + 1 \in 1..n /\ k \in 0..n /\ (k + 1) - 1 = k /\ k + 1 \in 0..n
    BY <1>1
  <2>2. Max(T) = k + 1 /\ T \ {Max(T)} = 1..k
    BY <1>1, <2>1, LastOfInterval
  <2>3. T \in SUBSET DOMAIN s /\ T # {}
    <3>1. 1..(k + 1) \subseteq 1..n /\ k + 1 \in 1..(k + 1)
      BY <1>1, <2>1
    <3> QED BY <1>1, <3>1
  <2>4. g[1..k] = r[k] /\ r[k] \in P
    BY <1>2, <1>4, <2>1
  <2> HIDE DEF T
  <2>5. g[T] = step[<<r[k], s[k + 1]>>]
    BY <1>9, <2>2, <2>3, <2>4
  <2>6. r[k + 1] = step[<<r[k], s[k + 1]>>]
    BY <1>2, <2>1 DEF IsRun, n
  <2> QED BY <2>1, <2>5, <2>6 DEF T
<1>5. n \in S
  <2> HIDE DEF S
  <2>1. \A i \in 0..n : i \in S
    BY <1>1, <1>3, <1>4, Upward, Zenon
  <2> QED BY <1>1, <2>1
<1> QED BY <1>1, <1>5 DEF After, n, r

(* A fold from the left over a sequence takes its last element last, as    *)
(* this function does.                                                     *)
IsLeftSum(g, s, S) ==
  g = [T \in SUBSET S |-> IF T = {} THEN 0 ELSE g[T \ {Max(T)}] + s[Max(T)]]

LeftSum(s, S) == CHOOSE g : IsLeftSum(g, s, S)

(* The running total of a sequence is its sum.                             *)
LEMMA LeftIsSum ==
  ASSUME NEW s, NEW S \in SUBSET Int, IsFiniteSet(S), \A x \in S : s[x] \in Int
  PROVE  LeftSum(s, S)[S] = SumFunctionOnSet(s, S)
<1> DEFINE h == [T \in SUBSET S |-> SumFunctionOnSet(s, T)]
           g == LeftSum(s, S)
<1>1. ASSUME NEW T \in SUBSET S, T # {}
      PROVE  /\ Max(T) \in T /\ T \ {Max(T)} \in SUBSET S
             /\ SumFunctionOnSet(s, T) = SumFunctionOnSet(s, T \ {Max(T)}) + s[Max(T)]
  <2>1. IsFiniteSet(T) /\ IsFiniteSet(T \ {Max(T)})
    BY FS_Subset
  <2>2. Max(T) \in T
    BY <1>1, <2>1, GreatestInt
  <2>3. SumFunctionOnSet(s, T) = s[Max(T)] + SumFunctionOnSet(s, T \ {Max(T)})
    <3>1. \A x \in T : s[x] \in Int
      OBVIOUS
    <3> HIDE DEF h, g
    <3>2. \A y \in T : SumFunctionOnSet(s, T) = s[y] + SumFunctionOnSet(s, T \ {y})
      BY <2>1, <3>1, SumTake, Zenon
    <3> QED BY <2>2, <3>2, Zenon
  <2>4. SumFunctionOnSet(s, T \ {Max(T)}) \in Int /\ s[Max(T)] \in Int
    BY <2>1, <2>2, SumInt
  <2>5. \A i, j \in Int : i + j = j + i
    OBVIOUS
  <2> HIDE DEF h, g
  <2> QED BY <2>2, <2>3, <2>4, <2>5
<1>2. IsLeftSum(h, s, S)
  <2>1. h[{}] = 0
    BY SumEmpty
  <2>2. \A T \in SUBSET S : T # {} => h[T] = h[T \ {Max(T)}] + s[Max(T)]
    BY <1>1
  <2>3. h = [T \in SUBSET S |-> h[T]]
    OBVIOUS
  <2> HIDE DEF h
  <2> QED BY <2>1, <2>2, <2>3 DEF IsLeftSum
<1>3. IsLeftSum(g, s, S)
  <2>1. \E f : IsLeftSum(f, s, S)
    BY <1>2
  <2> QED BY <2>1, Zenon DEF LeftSum
<1> DEFINE Bad == {T \in SUBSET S : g[T] # h[T]}
<1>4. SUFFICES ASSUME Bad # {} PROVE FALSE
  OBVIOUS
<1> HIDE DEF h, g
<1>5. PICK U \in Bad : \A V \in SUBSET U : V # U => V \notin Bad
  <2>1. Bad \in SUBSET SUBSET S
    OBVIOUS
  <2> HIDE DEF Bad
  <2> QED BY <1>4, <2>1, SmallestSubset
<1>6. U \in SUBSET S /\ g[U] # h[U]
  OBVIOUS
<1>7. U # {}
  BY <1>2, <1>3, <1>6 DEF IsLeftSum
<1>8. Max(U) \in U /\ U \ {Max(U)} \in SUBSET S
  BY <1>1, <1>6, <1>7
<1>9. g[U \ {Max(U)}] = h[U \ {Max(U)}]
  BY <1>5, <1>8
<1>10. /\ g[U] = g[U \ {Max(U)}] + s[Max(U)]
       /\ h[U] = h[U \ {Max(U)}] + s[Max(U)]
  BY <1>2, <1>3, <1>6, <1>7 DEF IsLeftSum
<1> QED BY <1>6, <1>9, <1>10

(* A sum lies between as many times the least term and the greatest.       *)
LEMMA SumBetween ==
  ASSUME NEW f, NEW S, IsFiniteSet(S), NEW low \in Int, NEW high \in Int,
         \A x \in S : f[x] \in Int /\ low <= f[x] /\ f[x] <= high
  PROVE  /\ SumFunctionOnSet(f, S) \in Int /\ Cardinality(S) \in Nat
         /\ low * Cardinality(S) <= SumFunctionOnSet(f, S)
         /\ SumFunctionOnSet(f, S) <= high * Cardinality(S)
<1> DEFINE Within(T) == /\ low * Cardinality(T) <= SumFunctionOnSet(f, T)
                        /\ SumFunctionOnSet(f, T) <= high * Cardinality(T)
           Bad == {T \in SUBSET S : ~Within(T)}
<1>1. SumFunctionOnSet(f, S) \in Int /\ Cardinality(S) \in Nat
  BY SumInt, FS_CardinalityType
<1>2. SUFFICES ASSUME Bad # {} PROVE FALSE
  BY <1>1
<1>3. PICK U \in Bad : /\ IsFiniteSet(U) /\ U # {} /\ Pick(U) \in U
                       /\ U \ {Pick(U)} \notin Bad
  <2>1. Within({})
    BY SumEmpty, FS_EmptySet
  <2>2. Bad \in SUBSET SUBSET S /\ {} \notin Bad
    BY <2>1
  <2> HIDE DEF Bad
  <2> QED BY <1>2, <2>2, SmallestPick
<1> DEFINE p == Pick(U)
           V == U \ {p}
           c == Cardinality(V)
           total == SumFunctionOnSet(f, V)
<1>4. U \in SUBSET S /\ p \in S /\ V \in SUBSET S /\ IsFiniteSet(V) /\ Within(V)
  BY <1>3, FS_Subset
<1>5. Cardinality(U) = c + 1 /\ c \in Nat
  <2>1. p \notin V /\ U = V \cup {p}
    BY <1>3
  <2> QED BY <1>4, <2>1, FS_AddElement, FS_CardinalityType
<1>6. SumFunctionOnSet(f, U) = f[p] + total /\ total \in Int
  BY <1>3, <1>4, SumPick, SumInt
<1>7. f[p] \in Int /\ low <= f[p] /\ f[p] <= high
  BY <1>4
<1>8. low * c <= total /\ total <= high * c
  BY <1>4
<1> HIDE DEF p, V, c, total
<1>9. low * (c + 1) <= f[p] + total /\ f[p] + total <= high * (c + 1)
  <2>1. low * (c + 1) = low * c + low /\ high * (c + 1) = high * c + high
    BY <1>5
  <2>2. low * c \in Int /\ high * c \in Int
    BY <1>5
  <2> QED BY <1>6, <1>7, <1>8, <2>1, <2>2
<1>10. Within(U)
  BY <1>5, <1>6, <1>9
<1> QED BY <1>3, <1>10
=============================================================================
