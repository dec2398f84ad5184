---------------------------- MODULE BudgetProofs ----------------------------
(***************************************************************************)
(* Proofs about the budget ledger, for any number of vehicles, months and  *)
(* amounts.                                                                *)
(*                                                                         *)
(* What a pool has assigned and what a month was charged are sums, taken   *)
(* with SumFunctionOnSet of the community modules; the first part says     *)
(* what they are for every finite set.  SumFunctionOnSet is a fold, so     *)
(* each fact needs an induction over the set; it is made by taking a       *)
(* smallest subset for which the fact fails (LeastSubset).                 *)
(***************************************************************************)
EXTENDS Budget, Functions, Folds, WellFoundedInduction, FiniteSetTheorems, TLAPS

-----------------------------------------------------------------------------
(* Smallest counterexamples *)

(* Among some subsets of a finite set there is a smallest one. *)
LEMMA LeastSubset ==
  ASSUME NEW S, IsFiniteSet(S), NEW B, B \subseteq SUBSET S, B # {}
  PROVE  \E s \in B : \A t \in B : t \subseteq s => t = s
<1>1. B \subseteq FiniteSubsetsOf(S)
  BY FS_Subset DEF FiniteSubsetsOf
<1>2. \E s \in B : \A t \in B : ~(<<t, s>> \in StrictSubsetOrdering(S))
  BY <1>1, FS_StrictSubsetOrderingWellFounded, WFMin
<1>3. PICK s \in B : \A t \in B : ~(<<t, s>> \in StrictSubsetOrdering(S))
  BY <1>2
<1>4. ASSUME NEW t \in B, t \subseteq s, t # s PROVE FALSE
  <2>1. <<t, s>> \in StrictSubsetOrdering(S)
    BY <1>4 DEF StrictSubsetOrdering
  <2> QED
    BY <2>1, <1>3
<1> QED
  BY <1>4

-----------------------------------------------------------------------------
(* The sum as the fold computes it: element by element, in the order of CHOOSE *)

First(s) == CHOOSE x \in s : TRUE

(* it[s] is the sum of f over s, for every subset s of S. *)
Adds(it, f, S) ==
  it = [s \in SUBSET S |-> IF s = {} THEN 0 ELSE f[First(s)] + it[s \ {First(s)}]]

(* The sum is the value of such a function, if there is one. *)
LEMMA SumIsIterated ==
  ASSUME NEW f, NEW S
  PROVE  SumFunctionOnSet(f, S) = (CHOOSE it : Adds(it, f, S))[S]
  BY DEF SumFunctionOnSet, FoldFunctionOnSet, MapThenFoldSet, Adds, First

LEMMA FirstOfSome == \A s : s # {} => First(s) \in s
  BY DEF First

(* The same up to a size of the subsets. *)
UpTo(S, n) == {s \in SUBSET S : Cardinality(s) <= n}

AddsUpTo(it, f, S, n) ==
  it = [s \in UpTo(S, n) |-> IF s = {} THEN 0 ELSE f[First(s)] + it[s \ {First(s)}]]

(* Some natural numbers have a smallest one. *)
LEMMA LeastNatural ==
  ASSUME NEW T, T \subseteq Nat, T # {}
  PROVE  \E n \in T : \A k \in T : ~(k < n)
<1> DEFINE Below == {ss \in Nat \X Nat : ss[1] < ss[2]}
<1>1. IsWellFoundedOn(Below, Nat)
  BY NatLessThanWellFounded DEF OpToRel
<1> HIDE DEF Below
<1>2. \E n \in T : \A k \in T : ~(<<k, n>> \in Below)
  BY <1>1, WFMin
<1> QED
  BY <1>2 DEF Below

(* There is one, for every finite set: it is built up from the subsets of one size *)
(* to those of the next.                                                           *)
LEMMA AddsExists ==
  ASSUME NEW f, NEW S, IsFiniteSet(S)
  PROVE  \E it : Adds(it, f, S)
<1> DEFINE Bad == {n \in Nat : ~ \E it : AddsUpTo(it, f, S, n)}
<1>1. \E it : AddsUpTo(it, f, S, 0)
  <2>1. \A s \in UpTo(S, 0) : s = {}
    BY FS_Subset, FS_EmptySet, FS_CardinalityType DEF UpTo
  <2>2. AddsUpTo([s \in UpTo(S, 0) |-> 0], f, S, 0)
    BY <2>1 DEF AddsUpTo
  <2> QED
    BY <2>2
<1>2. ASSUME NEW n \in Nat, NEW it, AddsUpTo(it, f, S, n)
      PROVE  \E next : AddsUpTo(next, f, S, n + 1)
  <2> DEFINE Step(s) == IF s = {} THEN 0 ELSE f[First(s)] + it[s \ {First(s)}]
             next == [s \in UpTo(S, n + 1) |-> Step(s)]
  <2>1. UpTo(S, n) \subseteq UpTo(S, n + 1)
    BY FS_Subset, FS_CardinalityType DEF UpTo
  <2>2. \A s \in UpTo(S, n) : it[s] = Step(s)
    BY <1>2 DEF AddsUpTo
  <2>3. \A s \in UpTo(S, n + 1) : s # {} => s \ {First(s)} \in UpTo(S, n)
    <3> SUFFICES ASSUME NEW s \in UpTo(S, n + 1), s # {} PROVE s \ {First(s)} \in UpTo(S, n)
      OBVIOUS
    <3>1. IsFiniteSet(s) /\ Cardinality(s) \in Nat /\ s \in SUBSET S /\ Cardinality(s) <= n + 1
      BY FS_Subset, FS_CardinalityType DEF UpTo
    <3>2. Cardinality(s \ {First(s)}) = Cardinality(s) - 1
      BY <3>1, FirstOfSome, FS_RemoveElement
    <3> QED
      BY <3>1, <3>2 DEF UpTo
  <2>4. \A s \in UpTo(S, n) : next[s] = it[s]
    BY <2>1, <2>2
  <2> HIDE DEF next
  <2>5. \A s \in UpTo(S, n + 1) : Step(s) = IF s = {} THEN 0 ELSE f[First(s)] + next[s \ {First(s)}]
    BY <2>3, <2>4
  <2>6. next = [s \in UpTo(S, n + 1) |-> IF s = {} THEN 0 ELSE f[First(s)] + next[s \ {First(s)}]]
    <3> HIDE DEF Step
    <3>1. next = [s \in UpTo(S, n + 1) |-> Step(s)]
      BY DEF next
    <3> QED
      BY <3>1, <2>5
  <2> QED
    BY <2>6 DEF AddsUpTo
<1>3. Bad = {}
  <2> SUFFICES ASSUME Bad # {} PROVE FALSE
    OBVIOUS
  <2>1. PICK n \in Bad : \A k \in Bad : ~(k < n)
    BY LeastNatural
  <2>2. n # 0 /\ n \in Nat
    BY <1>1, <2>1
  <2>3. n - 1 \in Nat /\ n - 1 \notin Bad
    BY <2>1, <2>2
  <2>4. \E it : AddsUpTo(it, f, S, n - 1)
    BY <2>3
  <2>5. \E it : AddsUpTo(it, f, S, (n - 1) + 1)
    BY <2>3, <2>4, <1>2
  <2> QED
    BY <2>1, <2>2, <2>5
<1>4. Cardinality(S) \in Nat /\ UpTo(S, Cardinality(S)) = SUBSET S
  BY FS_Subset, FS_CardinalityType DEF UpTo
<1>5. \E it : AddsUpTo(it, f, S, Cardinality(S))
  BY <1>3, <1>4
<1> QED
  BY <1>4, <1>5 DEF AddsUpTo, Adds

(* Those of a set and of a part of it agree on that part. *)
LEMMA IteratesAgree ==
  ASSUME NEW f, NEW S, IsFiniteSet(S), NEW T \in SUBSET S, NEW a, Adds(a, f, S), NEW b, Adds(b, f, T)
  PROVE  \A s \in SUBSET T : a[s] = b[s]
<1> DEFINE Bad == {s \in SUBSET T : a[s] # b[s]}
<1> SUFFICES ASSUME Bad # {} PROVE FALSE
  OBVIOUS
<1>1. IsFiniteSet(T)
  BY FS_Subset
<1>0. Bad \subseteq SUBSET T /\ Bad # {}
  OBVIOUS
<1>2. PICK s \in Bad : \A t \in Bad : t \subseteq s => t = s
  <2> HIDE DEF Bad
  <2> QED
    BY <1>0, <1>1, LeastSubset
<1>3. a[s] = (IF s = {} THEN 0 ELSE f[First(s)] + a[s \ {First(s)}])
  BY DEF Adds
<1>4. b[s] = (IF s = {} THEN 0 ELSE f[First(s)] + b[s \ {First(s)}])
  BY DEF Adds
<1>5. s # {}
  BY <1>2, <1>3, <1>4
<1>6. s \ {First(s)} \notin Bad
  BY <1>2, <1>5, FirstOfSome
<1> QED
  BY <1>2, <1>3, <1>4, <1>5, <1>6

-----------------------------------------------------------------------------
(* What a sum is *)

LEMMA SumOfNone ==
  ASSUME NEW f
  PROVE  SumFunctionOnSet(f, {}) = 0
<1>1. \E it : Adds(it, f, {})
  BY AddsExists, FS_EmptySet
<1> QED
  BY <1>1, SumIsIterated DEF Adds

(* One element is taken out, and the rest is summed. *)
LEMMA SumOfFirst ==
  ASSUME NEW f, NEW S, IsFiniteSet(S), S # {}
  PROVE  SumFunctionOnSet(f, S) = f[First(S)] + SumFunctionOnSet(f, S \ {First(S)})
<1> DEFINE T == S \ {First(S)}
           a == CHOOSE it : Adds(it, f, S)
           b == CHOOSE it : Adds(it, f, T)
<1>1. IsFiniteSet(T)
  BY FS_Subset
<1>2. Adds(a, f, S)
  BY AddsExists
<1>3. Adds(b, f, T)
  BY <1>1, AddsExists
<1>4. SumFunctionOnSet(f, S) = a[S] /\ SumFunctionOnSet(f, T) = b[T]
  BY SumIsIterated
<1> HIDE DEF a, b, T
<1>5. T \in SUBSET S /\ T = S \ {First(S)}
  BY DEF T
<1>6. a[T] = b[T]
  BY <1>2, <1>3, <1>5, IteratesAgree
<1>7. a[S] = f[First(S)] + a[S \ {First(S)}]
  BY <1>2 DEF Adds
<1> QED
  BY <1>4, <1>5, <1>6, <1>7

(* Integers add up to an integer ... *)
LEMMA SumIsInt ==
  ASSUME NEW f, NEW S, IsFiniteSet(S), \A x \in S : f[x] \in Int
  PROVE  SumFunctionOnSet(f, S) \in Int
<1> DEFINE Bad == {s \in SUBSET S : SumFunctionOnSet(f, s) \notin Int}
<1> SUFFICES ASSUME Bad # {} PROVE FALSE
  OBVIOUS
<1>0. Bad \subseteq SUBSET S /\ Bad # {}
  OBVIOUS
<1>1. PICK s \in Bad : \A t \in Bad : t \subseteq s => t = s
  <2> HIDE DEF Bad
  <2> QED
    BY <1>0, LeastSubset
<1>2. s # {}
  BY SumOfNone
<1>3. SumFunctionOnSet(f, s) = f[First(s)] + SumFunctionOnSet(f, s \ {First(s)})
  BY <1>2, SumOfFirst, FS_Subset
<1>4. s \ {First(s)} \notin Bad /\ First(s) \in S
  BY <1>1, <1>2, FirstOfSome
<1> QED
  BY <1>3, <1>4

(* ... and natural numbers to a natural number. *)
LEMMA SumIsNat ==
  ASSUME NEW f, NEW S, IsFiniteSet(S), \A x \in S : f[x] \in Nat
  PROVE  SumFunctionOnSet(f, S) \in Nat
<1> DEFINE Bad == {s \in SUBSET S : SumFunctionOnSet(f, s) \notin Nat}
<1> SUFFICES ASSUME Bad # {} PROVE FALSE
  OBVIOUS
<1>0. Bad \subseteq SUBSET S /\ Bad # {}
  OBVIOUS
<1>1. PICK s \in Bad : \A t \in Bad : t \subseteq s => t = s
  <2> HIDE DEF Bad
  <2> QED
    BY <1>0, LeastSubset
<1>2. s # {}
  BY SumOfNone
<1>3. SumFunctionOnSet(f, s) = f[First(s)] + SumFunctionOnSet(f, s \ {First(s)})
  BY <1>2, SumOfFirst, FS_Subset
<1>4. s \ {First(s)} \notin Bad /\ First(s) \in S
  BY <1>1, <1>2, FirstOfSome
<1> QED
  BY <1>3, <1>4

(* Any element may be taken out first: the order does not matter. *)
LEMMA SumWithout ==
  ASSUME NEW f, NEW S, IsFiniteSet(S), \A x \in S : f[x] \in Int, NEW x \in S
  PROVE  SumFunctionOnSet(f, S) = f[x] + SumFunctionOnSet(f, S \ {x})
<1> DEFINE Whole(s) == \A y \in s : SumFunctionOnSet(f, s) = f[y] + SumFunctionOnSet(f, s \ {y})
           Bad == {s \in SUBSET S : ~Whole(s)}
<1> SUFFICES ASSUME Bad # {} PROVE FALSE
  OBVIOUS
<1>0. Bad \subseteq SUBSET S /\ Bad # {}
  OBVIOUS
<1>1. PICK s \in Bad : \A t \in Bad : t \subseteq s => t = s
  <2> HIDE DEF Bad
  <2> QED
    BY <1>0, LeastSubset
<1>2. PICK y \in s : SumFunctionOnSet(f, s) # f[y] + SumFunctionOnSet(f, s \ {y})
  BY <1>1
<1> DEFINE c == First(s)
<1>3. SumFunctionOnSet(f, s) = f[c] + SumFunctionOnSet(f, s \ {c}) /\ c \in s
  BY SumOfFirst, FS_Subset, FirstOfSome
<1>4. c # y
  BY <1>2, <1>3
<1>5. s \ {c} \notin Bad /\ s \ {y} \notin Bad
  BY <1>1, <1>3
<1>6. SumFunctionOnSet(f, s \ {c}) = f[y] + SumFunctionOnSet(f, (s \ {c}) \ {y})
  BY <1>3, <1>4, <1>5
<1>7. SumFunctionOnSet(f, s \ {y}) = f[c] + SumFunctionOnSet(f, (s \ {y}) \ {c})
  BY <1>3, <1>4, <1>5
<1>8. (s \ {c}) \ {y} = (s \ {y}) \ {c}
  OBVIOUS
<1>7a. SumFunctionOnSet(f, s \ {y}) = f[c] + SumFunctionOnSet(f, (s \ {c}) \ {y})
  BY <1>7, <1>8
<1>9. SumFunctionOnSet(f, (s \ {c}) \ {y}) \in Int /\ f[y] \in Int /\ f[c] \in Int
  <2>1. IsFiniteSet((s \ {c}) \ {y}) /\ \A z \in (s \ {c}) \ {y} : f[z] \in Int
    BY FS_Subset
  <2> QED
    BY <2>1, <1>3, SumIsInt
<1>10. f[c] + (f[y] + SumFunctionOnSet(f, (s \ {c}) \ {y})) = f[y] + (f[c] + SumFunctionOnSet(f, (s \ {c}) \ {y}))
  BY <1>9
<1> QED
  <2> HIDE DEF c, Bad, Whole
  <2> QED
    BY <1>2, <1>3, <1>6, <1>7a, <1>10

(* The sum depends on nothing but the values in the set. *)
LEMMA SumAgrees ==
  ASSUME NEW f, NEW g, NEW S, IsFiniteSet(S), \A x \in S : f[x] = g[x]
  PROVE  SumFunctionOnSet(f, S) = SumFunctionOnSet(g, S)
<1> DEFINE Bad == {s \in SUBSET S : SumFunctionOnSet(f, s) # SumFunctionOnSet(g, s)}
<1> SUFFICES ASSUME Bad # {} PROVE FALSE
  OBVIOUS
<1>0. Bad \subseteq SUBSET S /\ Bad # {}
  OBVIOUS
<1>1. PICK s \in Bad : \A t \in Bad : t \subseteq s => t = s
  <2> HIDE DEF Bad
  <2> QED
    BY <1>0, LeastSubset
<1>2. s # {}
  BY SumOfNone
<1>3. /\ SumFunctionOnSet(f, s) = f[First(s)] + SumFunctionOnSet(f, s \ {First(s)})
      /\ SumFunctionOnSet(g, s) = g[First(s)] + SumFunctionOnSet(g, s \ {First(s)})
  BY <1>2, SumOfFirst, FS_Subset
<1>4. s \ {First(s)} \notin Bad /\ First(s) \in S
  BY <1>1, <1>2, FirstOfSome
<1> QED
  BY <1>3, <1>4

(* Smaller amounts have a smaller sum. *)
LEMMA SumAtMost ==
  ASSUME NEW f, NEW g, NEW S, IsFiniteSet(S),
         \A x \in S : f[x] \in Int /\ g[x] \in Int /\ f[x] <= g[x]
  PROVE  SumFunctionOnSet(f, S) <= SumFunctionOnSet(g, S)
<1> DEFINE Bad == {s \in SUBSET S : ~(SumFunctionOnSet(f, s) <= SumFunctionOnSet(g, s))}
<1> SUFFICES ASSUME Bad # {} PROVE FALSE
  OBVIOUS
<1>0. Bad \subseteq SUBSET S /\ Bad # {}
  OBVIOUS
<1>1. PICK s \in Bad : \A t \in Bad : t \subseteq s => t = s
  <2> HIDE DEF Bad
  <2> QED
    BY <1>0, LeastSubset
<1>2. s # {}
  BY SumOfNone
<1>3. /\ SumFunctionOnSet(f, s) = f[First(s)] + SumFunctionOnSet(f, s \ {First(s)})
      /\ SumFunctionOnSet(g, s) = g[First(s)] + SumFunctionOnSet(g, s \ {First(s)})
  BY <1>2, SumOfFirst, FS_Subset
<1>4. s \ {First(s)} \notin Bad /\ First(s) \in S
  BY <1>1, <1>2, FirstOfSome
<1>5. IsFiniteSet(s \ {First(s)})
  BY FS_Subset
<1>6. SumFunctionOnSet(f, s \ {First(s)}) \in Int /\ SumFunctionOnSet(g, s \ {First(s)}) \in Int
  BY <1>5, SumIsInt
<1> QED
  BY <1>3, <1>4, <1>6

(* A set in two parts: the removed and the active, the allocated and the rest. *)
LEMMA SumOfParts ==
  ASSUME NEW f, NEW S, IsFiniteSet(S), \A x \in S : f[x] \in Int, NEW T \in SUBSET S
  PROVE  SumFunctionOnSet(f, S) = SumFunctionOnSet(f, T) + SumFunctionOnSet(f, S \ T)
<1> DEFINE Splits(s) == SumFunctionOnSet(f, s) = SumFunctionOnSet(f, s \cap T) + SumFunctionOnSet(f, s \ T)
           Bad == {s \in SUBSET S : ~Splits(s)}
<1>1. Bad = {}
  <2> SUFFICES ASSUME Bad # {} PROVE FALSE
    OBVIOUS
  <2>0. Bad \subseteq SUBSET S /\ Bad # {}
    OBVIOUS
  <2>1. PICK s \in Bad : \A t \in Bad : t \subseteq s => t = s
    <3> HIDE DEF Bad
    <3> QED
      BY <2>0, LeastSubset
  <2>2. s # {}
    <3> SUFFICES ASSUME s = {} PROVE FALSE
      OBVIOUS
    <3>1. s \cap T = {} /\ s \ T = {}
      OBVIOUS
    <3> QED
      BY <2>1, <3>1, SumOfNone
  <2>3. PICK x : x \in s
    BY <2>2
  <2>4. Splits(s \ {x})
    BY <2>1, <2>3
  <2>5. \A t \in SUBSET S : IsFiniteSet(t) /\ SumFunctionOnSet(f, t) \in Int
    <3> SUFFICES ASSUME NEW t \in SUBSET S PROVE IsFiniteSet(t) /\ SumFunctionOnSet(f, t) \in Int
      OBVIOUS
    <3>1. IsFiniteSet(t) /\ \A y \in t : f[y] \in Int
      BY FS_Subset
    <3> QED
      BY <3>1, SumIsInt
  <2>6. \A t \in SUBSET S : x \in t => SumFunctionOnSet(f, t) = f[x] + SumFunctionOnSet(f, t \ {x})
    BY <2>5, SumWithout
  <2>7. CASE x \in T
    <3>1. (s \ {x}) \cap T = (s \cap T) \ {x} /\ (s \ {x}) \ T = s \ T
      BY <2>7
    <3>2. SumFunctionOnSet(f, s) = f[x] + SumFunctionOnSet(f, s \ {x})
      BY <2>3, <2>6
    <3>3. SumFunctionOnSet(f, s \cap T) = f[x] + SumFunctionOnSet(f, (s \cap T) \ {x})
      BY <2>3, <2>6, <2>7
    <3>4. /\ SumFunctionOnSet(f, s \ {x}) \in Int /\ SumFunctionOnSet(f, (s \cap T) \ {x}) \in Int
          /\ SumFunctionOnSet(f, s \ T) \in Int /\ f[x] \in Int
      BY <2>3, <2>5
    <3>5. SumFunctionOnSet(f, s \ {x})
            = SumFunctionOnSet(f, (s \cap T) \ {x}) + SumFunctionOnSet(f, s \ T)
      BY <2>4, <3>1
    <3>6. SumFunctionOnSet(f, s) = SumFunctionOnSet(f, s \cap T) + SumFunctionOnSet(f, s \ T)
      <4> HIDE DEF Bad
      <4> QED
        BY <3>2, <3>3, <3>4, <3>5
    <3> QED
      BY <2>1, <3>6
  <2>8. CASE x \notin T
    <3>1. (s \ {x}) \cap T = s \cap T /\ (s \ {x}) \ T = (s \ T) \ {x}
      BY <2>8
    <3>2. SumFunctionOnSet(f, s) = f[x] + SumFunctionOnSet(f, s \ {x})
      BY <2>3, <2>6
    <3>3. SumFunctionOnSet(f, s \ T) = f[x] + SumFunctionOnSet(f, (s \ T) \ {x})
      BY <2>3, <2>6, <2>8
    <3>4. /\ SumFunctionOnSet(f, s \ {x}) \in Int /\ SumFunctionOnSet(f, (s \ T) \ {x}) \in Int
          /\ SumFunctionOnSet(f, s \cap T) \in Int /\ f[x] \in Int
      BY <2>3, <2>5
    <3>5. SumFunctionOnSet(f, s \ {x})
            = SumFunctionOnSet(f, s \cap T) + SumFunctionOnSet(f, (s \ T) \ {x})
      BY <2>4, <3>1
    <3>6. SumFunctionOnSet(f, s) = SumFunctionOnSet(f, s \cap T) + SumFunctionOnSet(f, s \ T)
      <4> HIDE DEF Bad
      <4> QED
        BY <3>2, <3>3, <3>4, <3>5
    <3> QED
      BY <2>1, <3>6
  <2> QED
    BY <2>7, <2>8
<1>2. S \cap T = T
  OBVIOUS
<1> QED
  BY <1>1, <1>2

(* Nothing but zeros. *)
LEMMA SumOfZeros ==
  ASSUME NEW f, NEW S, IsFiniteSet(S), \A x \in S : f[x] = 0
  PROVE  SumFunctionOnSet(f, S) = 0
<1> DEFINE Bad == {s \in SUBSET S : SumFunctionOnSet(f, s) # 0}
<1> SUFFICES ASSUME Bad # {} PROVE FALSE
  OBVIOUS
<1>0. Bad \subseteq SUBSET S /\ Bad # {}
  OBVIOUS
<1>1. PICK s \in Bad : \A t \in Bad : t \subseteq s => t = s
  <2> HIDE DEF Bad
  <2> QED
    BY <1>0, LeastSubset
<1>2. s # {}
  BY SumOfNone
<1>3. SumFunctionOnSet(f, s) = f[First(s)] + SumFunctionOnSet(f, s \ {First(s)})
  BY <1>2, SumOfFirst, FS_Subset
<1>4. s \ {First(s)} \notin Bad /\ First(s) \in S
  BY <1>1, <1>2, FirstOfSome
<1> QED
  BY <1>3, <1>4

-----------------------------------------------------------------------------
(* What the operations do to a row of vehicle_budgets *)

(* The updates the operations are made of yield rows of the schema's types. *)
LEMMA RowUpdate ==
  ASSUME NEW r \in Row, NEW b \in Nat, NEW o \in Nat, NEW s \in Nat,
         NEW c \in BOOLEAN, NEW k \in BOOLEAN
  PROVE  /\ [r EXCEPT !.baseAmount = b] \in Row
         /\ [r EXCEPT !.rolloverIn = o] \in Row
         /\ [r EXCEPT !.spentAmount = s] \in Row
         /\ [r EXCEPT !.isCutOff = c] \in Row
         /\ [r EXCEPT !.isClosed = k] \in Row
         /\ [r EXCEPT !.spentAmount = s, !.isCutOff = c] \in Row
         /\ [r EXCEPT !.rolloverIn = o, !.isCutOff = c] \in Row
         /\ [r EXCEPT !.baseAmount = b, !.rolloverIn = o, !.isCutOff = c] \in Row
BY DEF Row

(* The balance is an integer, the remainder a natural number. *)
LEMMA RowArithmetic ==
  ASSUME NEW r \in Row
  PROVE  /\ Available(r) \in Int
         /\ Remainder(r) \in Nat
         /\ Remainder(r) >= Available(r)
BY DEF Row, Available, Remainder, Larger

(* deactivateVehicleInTransaction writes rows of the schema's types, cut off, *)
(* with nothing left: a balance becomes zero, a deficit stays as it was.      *)
LEMMA NormalizedRow ==
  ASSUME NEW r \in Row
  PROVE  /\ Normalized(r) \in Row
         /\ Normalized(r).isCutOff = TRUE
         /\ Normalized(r).isClosed = r.isClosed
         /\ Normalized(r).rolloverIn <= r.rolloverIn
         /\ Available(Normalized(r)) = Smaller(Available(r), 0)
<1>1. /\ Smaller(r.baseAmount, r.spentAmount) \in Nat
      /\ Smaller(r.rolloverIn, Larger(r.spentAmount - r.baseAmount, 0)) \in Nat
  BY DEF Row, Smaller, Larger
<1>2. \A b, o \in Nat :
        [r EXCEPT !.baseAmount = b, !.rolloverIn = o, !.isCutOff = TRUE] \in Row
  BY RowUpdate
<1>3. Normalized(r) \in Row
  BY ONLY <1>1, <1>2 DEF Normalized
<1>4. /\ Normalized(r).isCutOff = TRUE /\ Normalized(r).isClosed = r.isClosed
      /\ Normalized(r).rolloverIn
           = Smaller(r.rolloverIn, Larger(r.spentAmount - r.baseAmount, 0))
      /\ Available(Normalized(r))
           = Smaller(r.baseAmount, r.spentAmount)
             + Smaller(r.rolloverIn, Larger(r.spentAmount - r.baseAmount, 0))
             - r.spentAmount
  BY DEF Row, Normalized, Available
<1>5. Smaller(r.rolloverIn, Larger(r.spentAmount - r.baseAmount, 0)) <= r.rolloverIn
  BY DEF Row, Smaller, Larger
<1>6. Available(Normalized(r)) = Smaller(Available(r), 0)
  BY <1>4 DEF Row, Available, Smaller, Larger
<1> QED
  BY <1>3, <1>4, <1>5, <1>6

LEMMA EmptyRowIsRow == EmptyRow \in Row
BY DEF EmptyRow, Row

(* An upsert of an allocation keeps the rollover and the spending. *)
LEMMA AllocatedRow ==
  ASSUME NEW r \in Row \cup {NoRow}, NEW base \in Nat
  PROVE  /\ Allocated(r, base) \in Row
         /\ Allocated(r, base).rolloverIn = OrEmpty(r).rolloverIn
         /\ Allocated(r, base).isClosed = OrEmpty(r).isClosed
         /\ Available(Allocated(r, base)) = Available([OrEmpty(r) EXCEPT !.baseAmount = base])
<1> DEFINE new == [OrEmpty(r) EXCEPT !.baseAmount = base]
<1>1. OrEmpty(r) \in Row
  BY EmptyRowIsRow DEF OrEmpty
<1>2. /\ new \in Row /\ new.rolloverIn = OrEmpty(r).rolloverIn
      /\ new.isClosed = OrEmpty(r).isClosed
  BY <1>1 DEF Row
<1>3. (Available(new) = 0) \in BOOLEAN
  OBVIOUS
<1>4. Allocated(r, base) = [new EXCEPT !.isCutOff = (Available(new) = 0)]
  BY DEF Allocated
<1> HIDE DEF new
<1>5. Allocated(r, base) \in Row
  BY <1>2, <1>3, <1>4, RowUpdate
<1>6. /\ Allocated(r, base).rolloverIn = new.rolloverIn
      /\ Allocated(r, base).isClosed = new.isClosed
      /\ Available(Allocated(r, base)) = Available(new)
  BY <1>2, <1>4 DEF Row, Available
<1> QED
  BY <1>2, <1>5, <1>6 DEF new

LEMMA ReservedRow ==
  ASSUME NEW r \in Row, NEW amount \in Nat
  PROVE  /\ Reserved(r, amount) \in Row
         /\ Reserved(r, amount).isClosed = r.isClosed
         /\ Reserved(r, amount).rolloverIn = r.rolloverIn
         /\ Available(Reserved(r, amount)) = Available(r) - amount
<1>1. r.spentAmount + amount \in Nat /\ (Available(r) - amount <= 0) \in BOOLEAN
  BY DEF Row
<1>2. Reserved(r, amount) \in Row
  BY <1>1, RowUpdate DEF Reserved
<1>3. /\ Reserved(r, amount).isClosed = r.isClosed
      /\ Reserved(r, amount).rolloverIn = r.rolloverIn
  BY DEF Row, Reserved
<1>4. Available(Reserved(r, amount)) = Available(r) - amount
  BY DEF Row, Reserved, Available
<1> QED
  BY <1>2, <1>3, <1>4

(* A release adds to the balance, and to the remainder what Gain says. *)
LEMMA ReleasedRow ==
  ASSUME NEW r \in Row, NEW amount \in Nat, amount <= r.spentAmount
  PROVE  /\ [r EXCEPT !.spentAmount = @ - amount] \in Row
         /\ [r EXCEPT !.spentAmount = @ - amount].isClosed = r.isClosed
         /\ [r EXCEPT !.spentAmount = @ - amount].rolloverIn = r.rolloverIn
         /\ Available([r EXCEPT !.spentAmount = @ - amount]) = Available(r) + amount
         /\ Released(r, amount) \in Row
         /\ Released(r, amount).isClosed = r.isClosed
         /\ Released(r, amount).rolloverIn = r.rolloverIn
         /\ Released(r, amount).baseAmount = r.baseAmount
         /\ Released(r, amount).spentAmount = r.spentAmount - amount
         /\ Available(Released(r, amount)) = Available(r) + amount
         /\ Remainder(Released(r, amount)) = Remainder(r) + Gain(r, amount)
<1> DEFINE less == [r EXCEPT !.spentAmount = @ - amount]
<1>1. r.spentAmount - amount \in Nat
  BY DEF Row
<1>2. less \in Row
  BY <1>1, RowUpdate
<1>3. /\ less.isClosed = r.isClosed /\ less.rolloverIn = r.rolloverIn
      /\ less.baseAmount = r.baseAmount /\ less.spentAmount = r.spentAmount - amount
  BY DEF Row
<1>4. Available(less) = Available(r) + amount
  BY <1>3 DEF Row, Available
<1>5. Released(r, amount) = [less EXCEPT !.isCutOff = Available(less) <= 0]
  BY DEF Released
<1>6. (Available(less) <= 0) \in BOOLEAN
  OBVIOUS
<1> HIDE DEF less
<1>7. Released(r, amount) \in Row
  BY <1>2, <1>5, <1>6, RowUpdate
<1>8. /\ Released(r, amount).isClosed = less.isClosed
      /\ Released(r, amount).rolloverIn = less.rolloverIn
      /\ Released(r, amount).baseAmount = less.baseAmount
      /\ Released(r, amount).spentAmount = less.spentAmount
      /\ Available(Released(r, amount)) = Available(less)
  BY <1>2, <1>5 DEF Row, Available
<1>9. Remainder(Released(r, amount)) = Remainder(r) + Gain(r, amount)
  BY <1>4, <1>8, RowArithmetic DEF Remainder, Gain, Larger
<1> QED
  BY <1>2, <1>3, <1>4, <1>7, <1>8, <1>9 DEF less

(* So does a carry that arrives from the month before. *)
LEMMA CreditedRow ==
  ASSUME NEW r \in Row, NEW x \in Nat
  PROVE  /\ Credited(r, x) \in Row
         /\ Credited(r, x).isClosed = r.isClosed
         /\ Credited(r, x).rolloverIn = r.rolloverIn + x
         /\ Credited(r, x).baseAmount = r.baseAmount
         /\ Credited(r, x).spentAmount = r.spentAmount
         /\ Available(Credited(r, x)) = Available(r) + x
         /\ Remainder(Credited(r, x)) = Remainder(r) + Gain(r, x)
<1>1. r.rolloverIn + x \in Nat /\ (Available(r) + x <= 0) \in BOOLEAN
  BY DEF Row
<1>2. Credited(r, x) \in Row
  BY <1>1, RowUpdate DEF Credited
<1>3. /\ Credited(r, x).isClosed = r.isClosed
      /\ Credited(r, x).rolloverIn = r.rolloverIn + x
      /\ Credited(r, x).baseAmount = r.baseAmount
      /\ Credited(r, x).spentAmount = r.spentAmount
  BY DEF Row, Credited
<1>4. Available(Credited(r, x)) = Available(r) + x
  BY <1>3 DEF Row, Available
<1>5. Remainder(Credited(r, x)) = Remainder(r) + Gain(r, x)
  BY <1>4, RowArithmetic DEF Remainder, Gain, Larger
<1> QED
  BY <1>2, <1>3, <1>4, <1>5

LEMMA RolledOverRow ==
  ASSUME NEW r \in Row \cup {NoRow}, NEW x \in Nat
  PROVE  /\ RolledOver(r, x) \in Row
         /\ RolledOver(r, x).isClosed = OrEmpty(r).isClosed
         /\ RolledOver(r, x).rolloverIn = OrEmpty(r).rolloverIn + x
         /\ Available(RolledOver(r, x)) = Available(OrEmpty(r)) + x
<1>1. OrEmpty(r) \in Row
  BY EmptyRowIsRow DEF OrEmpty
<1>2. OrEmpty(r).rolloverIn + x \in Nat
  BY <1>1 DEF Row
<1>3. RolledOver(r, x) \in Row
  BY <1>1, <1>2, RowUpdate DEF RolledOver
<1>4. /\ RolledOver(r, x).isClosed = OrEmpty(r).isClosed
      /\ RolledOver(r, x).rolloverIn = OrEmpty(r).rolloverIn + x
      /\ RolledOver(r, x).baseAmount = OrEmpty(r).baseAmount
      /\ RolledOver(r, x).spentAmount = OrEmpty(r).spentAmount
  BY <1>1 DEF Row, RolledOver
<1>5. Available(RolledOver(r, x)) = Available(OrEmpty(r)) + x
  BY <1>1, <1>4 DEF Row, Available
<1> QED
  BY <1>3, <1>4, <1>5

-----------------------------------------------------------------------------
(* Type correctness *)

LEMMA HistoryRowIsRow == HistoryRow \subseteq Row
BY BudgetAssumption DEF HistoryRow, Row

LEMMA OpeningRowIsRow ==
  ASSUME NEW past \in Row \cup {NoRow}
  PROVE  /\ OpeningRow(past) \in Row \cup {NoRow}
         /\ past = NoRow => OpeningRow(past) = NoRow
         /\ past # NoRow =>
              /\ OpeningRow(past) \in Row
              /\ OpeningRow(past).rolloverIn = Remainder(past)
              /\ OpeningRow(past).isClosed = FALSE
              /\ Available(OpeningRow(past)) = Remainder(past)
<1>1. CASE past = NoRow
  BY <1>1 DEF OpeningRow
<1>2. CASE past # NoRow
  <2>1. Remainder(past) \in Nat
    BY <1>2, RowArithmetic
  <2>2. OpeningRow(past) = [EmptyRow EXCEPT !.rolloverIn = Remainder(past)]
    BY <1>2 DEF OpeningRow
  <2>3. OpeningRow(past) \in Row
    BY <2>1, <2>2, EmptyRowIsRow, RowUpdate
  <2>4. /\ OpeningRow(past).rolloverIn = Remainder(past)
        /\ OpeningRow(past).isClosed = FALSE
        /\ Available(OpeningRow(past)) = Remainder(past)
    BY <2>1, <2>2 DEF EmptyRow, Available
  <2>5. past \in Row /\ OpeningRow(past) # NoRow
    BY <1>2, <2>3, BudgetAssumption
  <2> QED
    BY <1>2, <2>3, <2>4, <2>5
<1> QED
  BY <1>1, <1>2

(* Allocations are natural numbers, whatever the way they are computed. *)
LEMMA AllocationType ==
  ASSUME TypeOK, NEW S \in Targets
  PROVE  /\ \A v \in S, amount \in Amounts : PerUnit({v}, amount) \in [{v} -> Nat]
         /\ \A amount \in Amounts : PerUnit(S, amount) \in [S -> Nat]
         /\ \A amount \in Amounts : TotalSplit(S, amount) \in [S -> Nat]
<1>1. \A amount \in Amounts : amount \in Nat
  BY BudgetAssumption
<1>2. S # {} /\ S \in SUBSET Vehicles
  <2>1. S \in SUBSET active /\ S # {}
    BY DEF Targets
  <2> QED
    BY <2>1 DEF TypeOK
<1>3. Cardinality(S) \in Nat /\ Cardinality(S) # 0
  <2>1. IsFiniteSet(S)
    BY <1>2, BudgetAssumption, FS_Subset
  <2> QED
    BY <1>2, <2>1, FS_CardinalityType, FS_EmptySet
<1>4. \A amount \in Amounts : amount \div Cardinality(S) \in Nat
  BY <1>1, <1>3, SMT
<1>5. \A amount \in Amounts : TotalSplit(S, amount) \in [S -> Nat]
  BY <1>4 DEF TotalSplit
<1> QED
  BY <1>1, <1>5 DEF PerUnit

LEMMA AllocateTypeOK ==
  ASSUME TypeOK, NEW m \in Months, NEW alloc, alloc \in [DOMAIN alloc -> Nat],
         Allocate(m, alloc)
  PROVE  TypeOK'
<1>1. DOMAIN alloc \subseteq Vehicles
  BY DEF Allocate, TypeOK
<1>2. \A v \in DOMAIN alloc : Allocated(row[v][m], alloc[v]) \in Row
  BY <1>1, AllocatedRow DEF TypeOK
<1>3. \A v \in Vehicles : row'[v] \in [Months -> Row \cup {NoRow}]
  BY <1>1, <1>2 DEF Allocate, TypeOK
<1> QED
  BY <1>3 DEF Allocate, TypeOK

(* Every allocating request of Next is an Allocate of natural numbers. *)
LEMMA AllocateForms ==
  ASSUME TypeOK, NEW m \in Months,
         \/ \E v \in Vehicles, amount \in Amounts : assignBudgetToVehicle(v, m, amount)
         \/ Distribute(m)
  PROVE  \E alloc : alloc \in [DOMAIN alloc -> Nat] /\ Allocate(m, alloc)
<1>1. ASSUME NEW v \in Vehicles, NEW amount \in Amounts, assignBudgetToVehicle(v, m, amount)
      PROVE  \E alloc : alloc \in [DOMAIN alloc -> Nat] /\ Allocate(m, alloc)
  <2>1. PerUnit({v}, amount) \in [{v} -> Nat]
    BY BudgetAssumption DEF PerUnit
  <2> QED
    BY <1>1, <2>1 DEF assignBudgetToVehicle
<1>2. ASSUME NEW S \in Targets, NEW alloc \in [S -> Amounts],
             distributeExplicitBudgets(m, alloc)
      PROVE  \E a : a \in [DOMAIN a -> Nat] /\ Allocate(m, a)
  <2>1. alloc \in [DOMAIN alloc -> Nat]
    BY BudgetAssumption
  <2> QED
    BY <1>2, <2>1 DEF distributeExplicitBudgets
<1>3. ASSUME NEW S \in Targets, NEW amount \in Amounts,
             distributeBudgetToTarget(m, S, amount)
      PROVE  \E a : a \in [DOMAIN a -> Nat] /\ Allocate(m, a)
  <2>1. /\ TotalSplit(S, amount) \in [DOMAIN TotalSplit(S, amount) -> Nat]
        /\ PerUnit(S, amount) \in [DOMAIN PerUnit(S, amount) -> Nat]
    BY AllocationType
  <2>2. Allocate(m, TotalSplit(S, amount)) \/ Allocate(m, PerUnit(S, amount))
    BY <1>3 DEF distributeBudgetToTarget, buildBudgetAllocations
  <2> QED
    BY <2>1, <2>2
<1> QED
  BY <1>1, <1>2, <1>3 DEF Distribute

LEMMA ReserveTypeOK ==
  ASSUME TypeOK, NEW v \in Vehicles, NEW m \in Months, NEW amount \in Nat,
         checkAndReserveFuelBudget(v, m, amount)
  PROVE  TypeOK'
<1>1. CASE HasRow(v, m)
  <2>1. Reserved(row[v][m], amount) \in Row
    BY <1>1, ReservedRow DEF HasRow, TypeOK
  <2> QED
    BY <1>1, <2>1 DEF checkAndReserveFuelBudget, TypeOK
<1>2. CASE ~HasRow(v, m)
  BY <1>2 DEF checkAndReserveFuelBudget, TypeOK
<1> QED
  BY <1>1, <1>2

(* What a propagated release leaves in each month of the vehicle. *)
LEMMA PropagatedRows ==
  ASSUME TypeOK, NEW v \in Vehicles, NEW m \in Months, NEW amount \in Nat,
         HasRow(v, m), amount <= row[v][m].spentAmount,
         ReleaseAndPropagate(v, m, amount)
  PROVE  \E carry \in [m..LastMonth -> Nat] :
           /\ IsCarry(v, m, amount, carry)
           /\ ChainComplete(v, m, carry)
           /\ row' \in [Vehicles -> [Months -> Row \cup {NoRow}]]
           /\ \A u \in Vehicles \ {v} : row'[u] = row[u]
           /\ \A n \in 1..m - 1 : row'[v][n] = row[v][n]
           /\ row'[v][m] = Released(row[v][m], amount)
           /\ \A n \in m + 1..LastMonth :
                row'[v][n] = IF Receives(v, n) /\ carry[n - 1] > 0
                               THEN Credited(row[v][n], carry[n - 1]) ELSE row[v][n]
<1>1. PICK carry \in [m..LastMonth -> 0..amount] :
        /\ IsCarry(v, m, amount, carry)
        /\ ChainComplete(v, m, carry)
        /\ row' = [row EXCEPT ![v] = [n \in Months |->
                     IF n = m THEN Released(row[v][n], amount)
                     ELSE IF n > m /\ Receives(v, n) /\ carry[n - 1] > 0
                       THEN Credited(row[v][n], carry[n - 1])
                     ELSE row[v][n]]]
  BY DEF ReleaseAndPropagate
<1>2. carry \in [m..LastMonth -> Nat]
  BY <1>1
<1> DEFINE after == [n \in Months |->
                     IF n = m THEN Released(row[v][n], amount)
                     ELSE IF n > m /\ Receives(v, n) /\ carry[n - 1] > 0
                       THEN Credited(row[v][n], carry[n - 1])
                     ELSE row[v][n]]
<1>3. row' = [row EXCEPT ![v] = after]
  BY <1>1
<1>4. row'[v] = after /\ \A u \in Vehicles \ {v} : row'[u] = row[u]
  BY <1>3 DEF TypeOK
<1>5. after[m] = Released(row[v][m], amount)
  OBVIOUS
<1>6. \A n \in 1..m - 1 : after[n] = row[v][n]
  BY BudgetAssumption DEF Months
<1>7. \A n \in m + 1..LastMonth :
        after[n] = IF Receives(v, n) /\ carry[n - 1] > 0
                     THEN Credited(row[v][n], carry[n - 1]) ELSE row[v][n]
  BY BudgetAssumption DEF Months
<1> HIDE DEF after
<1>8. \A n \in Months : after[n] \in Row \cup {NoRow}
  <2> SUFFICES ASSUME NEW n \in Months
               PROVE  after[n] \in Row \cup {NoRow}
    OBVIOUS
  <2>1. row[v][n] \in Row \cup {NoRow}
    BY DEF TypeOK
  <2>2. CASE n < m
    BY <1>6, <2>1, <2>2 DEF Months
  <2>3. CASE n = m
    <3>1. row[v][m] \in Row
      BY <2>1, <2>3 DEF HasRow
    <3> QED
      BY <1>5, <2>3, <3>1, ReleasedRow
  <2>4. CASE n > m
    <3>1. n \in m + 1..LastMonth /\ n - 1 \in m..LastMonth
      BY <2>4, BudgetAssumption DEF Months
    <3>2. CASE Receives(v, n) /\ carry[n - 1] > 0
      <4>1. row[v][n] \in Row /\ carry[n - 1] \in Nat
        BY <1>2, <2>1, <3>1, <3>2 DEF Receives, HasRow
      <4> QED
        BY <1>7, <3>1, <3>2, <4>1, CreditedRow
    <3>3. CASE ~(Receives(v, n) /\ carry[n - 1] > 0)
      BY <1>7, <2>1, <3>1, <3>3
    <3> QED
      BY <3>2, <3>3
  <2> QED
    BY <2>2, <2>3, <2>4 DEF Months
<1>9. row' \in [Vehicles -> [Months -> Row \cup {NoRow}]]
  <2>1. after \in [Months -> Row \cup {NoRow}]
    BY <1>8 DEF after
  <2> QED
    BY <1>3, <2>1 DEF TypeOK
<1> QED
  BY <1>1, <1>2, <1>4, <1>5, <1>6, <1>7, <1>9

LEMMA ReleaseTypeOK ==
  ASSUME TypeOK, NEW v \in Vehicles, NEW m \in Months, NEW amount \in Nat,
         releaseFuelBudget(v, m, amount)
  PROVE  TypeOK'
<1>1. row[v][m] \in Row /\ amount <= row[v][m].spentAmount
  BY DEF releaseFuelBudget, HasRow, TypeOK
<1>2. CASE ReleaseFromInactiveOpen(v, m, amount)
  <2>1. Normalized([row[v][m] EXCEPT !.spentAmount = @ - amount]) \in Row
    BY <1>1, ReleasedRow, NormalizedRow
  <2> QED
    BY <1>2, <2>1 DEF ReleaseFromInactiveOpen, releaseFuelBudget, TypeOK
<1>3. CASE ReleaseAndPropagate(v, m, amount)
  BY <1>1, <1>3, PropagatedRows DEF releaseFuelBudget, TypeOK
<1> QED
  BY <1>2, <1>3 DEF releaseFuelBudget

(* What closing a month leaves in each month of each vehicle. *)
LEMMA ClosedRows ==
  ASSUME TypeOK, NEW m \in Months, NEW deferring, closeMonthAndRollover(m, deferring)
  PROVE  /\ m + 1 \in Months
         /\ row' \in [Vehicles -> [Months -> Row \cup {NoRow}]]
         /\ \A v \in Vehicles, n \in Months \ {m, m + 1} : row'[v][n] = row[v][n]
         /\ \A v \in Vehicles :
              IF IsOpen(v, m)
                THEN /\ row'[v][m] = [row[v][m] EXCEPT !.isClosed = TRUE]
                     /\ row'[v][m] \in Row
                     /\ row'[v][m + 1] = IF v \in active
                          THEN RolledOver(row[v][m + 1], Remainder(row[v][m]))
                          ELSE row[v][m + 1]
                ELSE row'[v][m] = row[v][m] /\ row'[v][m + 1] = row[v][m + 1]
<1>1. m + 1 \in Months
  BY BudgetAssumption DEF closeMonthAndRollover, TypeOK, Months
<1>2. \A v \in Vehicles, n \in Months :
        row'[v][n] =
          IF IsOpen(v, m) /\ n = m THEN [row[v][m] EXCEPT !.isClosed = TRUE]
          ELSE IF IsOpen(v, m) /\ v \in active /\ n = m + 1
            THEN RolledOver(row[v][n], Remainder(row[v][m]))
          ELSE row[v][n]
  BY DEF closeMonthAndRollover
<1>3. \A v \in Vehicles, n \in Months \ {m, m + 1} : row'[v][n] = row[v][n]
  BY <1>2
<1>4. \A v \in Vehicles : IsOpen(v, m) =>
        /\ row'[v][m] = [row[v][m] EXCEPT !.isClosed = TRUE]
        /\ row'[v][m] \in Row
  <2> SUFFICES ASSUME NEW v \in Vehicles, IsOpen(v, m)
               PROVE  /\ row'[v][m] = [row[v][m] EXCEPT !.isClosed = TRUE]
                      /\ row'[v][m] \in Row
    OBVIOUS
  <2>1. row'[v][m] = [row[v][m] EXCEPT !.isClosed = TRUE]
    BY <1>2
  <2>2. row[v][m] \in Row
    BY DEF IsOpen, HasRow, TypeOK
  <2> QED
    BY <2>1, <2>2, RowUpdate
<1>5. \A v \in Vehicles : IsOpen(v, m) =>
        row'[v][m + 1] = IF v \in active
          THEN RolledOver(row[v][m + 1], Remainder(row[v][m])) ELSE row[v][m + 1]
  <2>1. m + 1 # m
    BY BudgetAssumption DEF Months
  <2> QED
    BY <1>1, <1>2, <2>1
<1>6. \A v \in Vehicles : ~IsOpen(v, m) =>
        row'[v][m] = row[v][m] /\ row'[v][m + 1] = row[v][m + 1]
  BY <1>1, <1>2
<1>7. \A v \in Vehicles, n \in Months : row'[v][n] \in Row \cup {NoRow}
  <2> SUFFICES ASSUME NEW v \in Vehicles, NEW n \in Months
               PROVE  row'[v][n] \in Row \cup {NoRow}
    OBVIOUS
  <2>1. row[v][n] \in Row \cup {NoRow}
    BY DEF TypeOK
  <2>2. CASE IsOpen(v, m) /\ n = m + 1 /\ v \in active
    <3>1. Remainder(row[v][m]) \in Nat
      BY <2>2, RowArithmetic DEF IsOpen, HasRow, TypeOK
    <3> QED
      BY <1>5, <2>1, <2>2, <3>1, RolledOverRow
  <2> QED
    BY <1>3, <1>4, <1>5, <1>6, <2>1, <2>2, ZenonT(40)
<1>8. row' \in [Vehicles -> [Months -> Row \cup {NoRow}]]
  BY <1>7 DEF closeMonthAndRollover
<1> QED
  BY <1>1, <1>3, <1>4, <1>5, <1>6, <1>8

LEMMA CloseTypeOK ==
  ASSUME TypeOK, NEW m \in Months, NEW deferring, closeMonthAndRollover(m, deferring)
  PROVE  TypeOK'
<1>1. pool'[m] \in Pool
  BY DEF closeMonthAndRollover, TypeOK, Pool
<1>2. pool' \in [Months -> Pool \cup {NoPool}]
  BY <1>1 DEF closeMonthAndRollover, TypeOK
<1> QED
  BY <1>2, ClosedRows DEF closeMonthAndRollover, TypeOK

(* What a removal leaves in each month of the vehicle. *)
LEMMA DeactivatedRows ==
  ASSUME TypeOK, NEW v \in Vehicles, deactivateVehicle(v)
  PROVE  /\ row' \in [Vehicles -> [Months -> Row \cup {NoRow}]]
         /\ \A u \in Vehicles \ {v} : row'[u] = row[u]
         /\ \A n \in Months : row'[v][n] =
              IF IsOpen(v, n) THEN Normalized(row[v][n]) ELSE row[v][n]
<1> DEFINE after == [n \in Months |->
                       IF IsOpen(v, n) THEN Normalized(row[v][n]) ELSE row[v][n]]
<1>1. row' = [row EXCEPT ![v] = after]
  BY DEF deactivateVehicle
<1>2. \A n \in Months : after[n] \in Row \cup {NoRow}
  <2> SUFFICES ASSUME NEW n \in Months
               PROVE  after[n] \in Row \cup {NoRow}
    OBVIOUS
  <2>1. row[v][n] \in Row \cup {NoRow}
    BY DEF TypeOK
  <2>2. CASE IsOpen(v, n)
    BY <2>1, <2>2, NormalizedRow DEF IsOpen, HasRow
  <2> QED
    BY <2>1, <2>2
<1> QED
  BY <1>1, <1>2 DEF TypeOK

LEMMA PoolTypeOK ==
  ASSUME TypeOK, NEW m \in Months, NEW total \in Nat, SetMonthlyPool(m, total)
  PROVE  TypeOK'
BY DEF SetMonthlyPool, TypeOK, Pool

(* The history of the earlier version has the schema's types too. *)
LEMMA InitRows ==
  ASSUME Init
  PROVE  /\ row \in [Vehicles -> [Months -> Row \cup {NoRow}]]
         /\ \A v \in Vehicles :
              /\ \A m \in 1..FirstOpen - 1 : HasRow(v, m) => row[v][m] \in HistoryRow
              /\ \A m \in FirstOpen + 1..LastMonth : ~HasRow(v, m)
              /\ HasRow(v, FirstOpen) =>
                   /\ FirstOpen > 1 /\ HasRow(v, FirstOpen - 1)
              /\ FirstOpen > 1 =>
                   row[v][FirstOpen] = OpeningRow(row[v][FirstOpen - 1])
              /\ FirstOpen > 1 =>
                   /\ HasRow(v, 1) => row[v][1].rolloverIn = 0
                   /\ \A m \in 1..FirstOpen - 2 :
                        /\ HasRow(v, m) => HasRow(v, m + 1)
                        /\ HasRow(v, m + 1) =>
                             row[v][m + 1].rolloverIn =
                               IF HasRow(v, m) THEN Remainder(row[v][m]) ELSE 0
<1>1. PICK h \in [Vehicles -> [1..FirstOpen - 1 -> HistoryRow \cup {NoRow}]] :
        /\ FirstOpen > 1 => ChainLinked(h)
        /\ row = [v \in Vehicles |-> [m \in Months |->
                   IF m < FirstOpen THEN h[v][m]
                   ELSE IF m = FirstOpen /\ m > 1 THEN OpeningRow(h[v][m - 1])
                   ELSE NoRow]]
  BY DEF Init
<1>2. \A v \in Vehicles :
        /\ \A m \in 1..FirstOpen - 1 : row[v][m] = h[v][m] /\ h[v][m] \in HistoryRow \cup {NoRow}
        /\ FirstOpen > 1 => row[v][FirstOpen] = OpeningRow(h[v][FirstOpen - 1])
        /\ FirstOpen = 1 => row[v][FirstOpen] = NoRow
        /\ \A m \in FirstOpen + 1..LastMonth : row[v][m] = NoRow
  BY <1>1, BudgetAssumption DEF Months
<1>3. \A v \in Vehicles : FirstOpen > 1 => FirstOpen - 1 \in 1..FirstOpen - 1
  BY BudgetAssumption
<1>4. \A v \in Vehicles : row[v][FirstOpen] \in Row \cup {NoRow}
  <2> SUFFICES ASSUME NEW v \in Vehicles
               PROVE  row[v][FirstOpen] \in Row \cup {NoRow}
    OBVIOUS
  <2>1. CASE FirstOpen = 1
    BY <1>2, <2>1
  <2>2. CASE FirstOpen > 1
    <3>1. h[v][FirstOpen - 1] \in Row \cup {NoRow}
      BY <1>2, <1>3, <2>2, HistoryRowIsRow
    <3> QED
      BY <1>2, <2>2, <3>1, OpeningRowIsRow
  <2> QED
    BY <2>1, <2>2, BudgetAssumption
<1>5. \A v \in Vehicles, m \in Months : row[v][m] \in Row \cup {NoRow}
  <2> SUFFICES ASSUME NEW v \in Vehicles, NEW m \in Months
               PROVE  row[v][m] \in Row \cup {NoRow}
    OBVIOUS
  <2>1. m \in 1..FirstOpen - 1 \/ m = FirstOpen \/ m \in FirstOpen + 1..LastMonth
    BY BudgetAssumption DEF Months
  <2> QED
    BY <1>2, <1>4, <2>1, HistoryRowIsRow
<1>6. row \in [Vehicles -> [Months -> Row \cup {NoRow}]]
  BY <1>1, <1>5
<1>7. ASSUME NEW v \in Vehicles, FirstOpen > 1
      PROVE  /\ HasRow(v, 1) => row[v][1].rolloverIn = 0
             /\ \A m \in 1..FirstOpen - 2 :
                  /\ HasRow(v, m) => HasRow(v, m + 1)
                  /\ HasRow(v, m + 1) =>
                       row[v][m + 1].rolloverIn =
                         IF HasRow(v, m) THEN Remainder(row[v][m]) ELSE 0
  <2>1. \A m \in 1..FirstOpen - 2 : m \in 1..FirstOpen - 1 /\ m + 1 \in 1..FirstOpen - 1
    BY BudgetAssumption
  <2>2. 1 \in 1..FirstOpen - 1
    BY <1>7, BudgetAssumption
  <2>3. h[v][1] = row[v][1] /\ \A m \in 1..FirstOpen - 1 : h[v][m] = row[v][m]
    BY <1>2, <2>2
  <2>4. /\ h[v][1] # NoRow => h[v][1].rolloverIn = 0
        /\ \A m \in 1..FirstOpen - 2 :
             /\ h[v][m] # NoRow => h[v][m + 1] # NoRow
             /\ h[v][m + 1] # NoRow =>
                  h[v][m + 1].rolloverIn = IF h[v][m] = NoRow THEN 0 ELSE Remainder(h[v][m])
    BY <1>1, <1>7 DEF ChainLinked
  <2> QED
    BY <2>1, <2>3, <2>4 DEF HasRow
<1>8. ASSUME NEW v \in Vehicles
      PROVE  /\ \A m \in 1..FirstOpen - 1 : HasRow(v, m) => row[v][m] \in HistoryRow
             /\ \A m \in FirstOpen + 1..LastMonth : ~HasRow(v, m)
  BY <1>2 DEF HasRow
<1>9. ASSUME NEW v \in Vehicles
      PROVE  /\ FirstOpen > 1 => row[v][FirstOpen] = OpeningRow(row[v][FirstOpen - 1])
             /\ HasRow(v, FirstOpen) => FirstOpen > 1 /\ HasRow(v, FirstOpen - 1)
  <2>1. FirstOpen = 1 \/ FirstOpen > 1
    BY BudgetAssumption
  <2>2. CASE FirstOpen = 1
    BY <1>2, <2>2 DEF HasRow
  <2>3. CASE FirstOpen > 1
    <3>1. /\ h[v][FirstOpen - 1] \in Row \cup {NoRow}
          /\ h[v][FirstOpen - 1] = row[v][FirstOpen - 1]
      BY <1>2, <1>3, <2>3, HistoryRowIsRow
    <3> QED
      BY <1>2, <2>3, <3>1, OpeningRowIsRow DEF HasRow
  <2> QED
    BY <2>1, <2>2, <2>3
<1> QED
  BY <1>6, <1>7, <1>8, <1>9

(* The steps of the ledger, the three ways of allocating taken together. *)
LEMMA StepForms ==
  ASSUME TypeOK, [Next]_vars
  PROVE  \/ \E m \in Months : \E alloc : alloc \in [DOMAIN alloc -> Nat] /\ Allocate(m, alloc)
         \/ \E v \in Vehicles, m \in Months, amount \in Nat :
              \/ checkAndReserveFuelBudget(v, m, amount)
              \/ releaseFuelBudget(v, m, amount)
         \/ \E m \in Months, total \in Nat : SetMonthlyPool(m, total)
         \/ \E m \in Months, deferring \in BOOLEAN : closeMonthAndRollover(m, deferring)
         \/ \E v \in Vehicles : deactivateVehicle(v)
         \/ NextMonthBegins
         \/ UNCHANGED vars
<1>1. Amounts \subseteq Nat
  BY BudgetAssumption
<1>2. CASE Next
  BY <1>1, <1>2, AllocateForms DEF Next, Administer
<1> QED
  BY <1>2

LEMMA InitTypeOK == Init => TypeOK
<1> SUFFICES ASSUME Init
             PROVE  TypeOK
  OBVIOUS
<1>1. pool \in [Months -> Pool \cup {NoPool}]
  BY DEF Init, Pool
<1> QED
  BY <1>1, InitRows, BudgetAssumption DEF Init, TypeOK, Months

LEMMA StepTypeOK ==
  ASSUME TypeOK, [Next]_vars
  PROVE  TypeOK'
<1>1. CASE \E m \in Months : \E alloc : alloc \in [DOMAIN alloc -> Nat] /\ Allocate(m, alloc)
  BY <1>1, AllocateTypeOK
<1>2. CASE \E v \in Vehicles, m \in Months, amount \in Nat :
             checkAndReserveFuelBudget(v, m, amount)
  BY <1>2, ReserveTypeOK
<1>3. CASE \E v \in Vehicles, m \in Months, amount \in Nat :
             releaseFuelBudget(v, m, amount)
  BY <1>3, ReleaseTypeOK
<1>4. CASE \E m \in Months, total \in Nat : SetMonthlyPool(m, total)
  BY <1>4, PoolTypeOK
<1>5. CASE \E m \in Months, deferring \in BOOLEAN : closeMonthAndRollover(m, deferring)
  BY <1>5, CloseTypeOK
<1>6. CASE \E v \in Vehicles : deactivateVehicle(v)
  <2>1. row' \in [Vehicles -> [Months -> Row \cup {NoRow}]]
    BY <1>6, DeactivatedRows
  <2> QED
    BY <1>6, <2>1 DEF deactivateVehicle, TypeOK
<1>7. CASE NextMonthBegins
  BY <1>7, BudgetAssumption DEF NextMonthBegins, TypeOK, Months
<1>8. CASE UNCHANGED vars
  BY <1>8 DEF vars, TypeOK
<1> QED
  BY <1>1, <1>2, <1>3, <1>4, <1>5, <1>6, <1>7, <1>8, StepForms

(* Every reachable state has the types of the schema; in particular no      *)
(* amount of vehicle_budgets becomes negative, whatever is released, rolled  *)
(* over or normalised.                                                       *)
THEOREM TypeCorrect == Spec => []TypeOK
<1>1. TypeOK /\ [Next]_vars => TypeOK'
  BY StepTypeOK
<1> QED
  BY <1>1, InitTypeOK, PTL DEF Spec

-----------------------------------------------------------------------------
(* No operation overspends *)

LEMMA InitNoOverspend == Init => NoOverspend
<1> SUFFICES ASSUME Init, NEW v \in Vehicles, NEW m \in Months, HasRow(v, m)
             PROVE  Available(row[v][m]) >= -HistoricDeficit
  BY DEF NoOverspend
<1>1. m \in 1..FirstOpen - 1 \/ m = FirstOpen \/ m \in FirstOpen + 1..LastMonth
  BY BudgetAssumption DEF Months
<1>2. CASE m \in 1..FirstOpen - 1
  BY <1>2, InitRows DEF HistoryRow
<1>3. CASE m = FirstOpen
  <2>1. FirstOpen > 1 /\ FirstOpen - 1 \in Months
    BY <1>3, InitRows, BudgetAssumption DEF Months
  <2>2. row[v][FirstOpen - 1] \in Row
    BY <1>3, <2>1, InitRows DEF HasRow
  <2>3. row[v][m] = OpeningRow(row[v][FirstOpen - 1]) /\ row[v][FirstOpen - 1] # NoRow
    BY <1>3, <2>1, InitRows DEF HasRow
  <2>4. Available(row[v][m]) = Remainder(row[v][FirstOpen - 1])
    BY <2>2, <2>3, OpeningRowIsRow
  <2> QED
    BY <2>2, <2>4, RowArithmetic, BudgetAssumption
<1> QED
  BY <1>1, <1>2, <1>3, InitRows

(* One row of a step: the balance is not below the old bound. *)
LEMMA StepNoOverspend ==
  ASSUME TypeOK, NoOverspend, [Next]_vars
  PROVE  NoOverspend'
<1> SUFFICES ASSUME NEW u \in Vehicles, NEW n \in Months, HasRow(u, n)'
             PROVE  Available(row'[u][n]) >= -HistoricDeficit
  BY DEF NoOverspend
<1>1. /\ row[u][n] \in Row \cup {NoRow} /\ HistoricDeficit \in Nat
      /\ HasRow(u, n) => row[u][n] \in Row /\ Available(row[u][n]) \in Int
      /\ HasRow(u, n) => Available(row[u][n]) >= -HistoricDeficit
  BY BudgetAssumption, RowArithmetic DEF TypeOK, NoOverspend, HasRow
<1>2. row'[u][n] = row[u][n] => Available(row'[u][n]) >= -HistoricDeficit
  BY <1>1 DEF HasRow
<1>3. ASSUME NEW m \in Months, NEW alloc, alloc \in [DOMAIN alloc -> Nat], Allocate(m, alloc)
      PROVE  Available(row'[u][n]) >= -HistoricDeficit
  <2>1. CASE u \in DOMAIN alloc /\ n = m
    <3>1. row'[u][n] = Allocated(row[u][n], alloc[u])
      BY <1>3, <2>1 DEF Allocate, TypeOK
    <3>2. Available(row'[u][n]) = Available([OrEmpty(row[u][n]) EXCEPT !.baseAmount = alloc[u]])
      BY <1>1, <1>3, <2>1, <3>1, AllocatedRow
    <3>3. CASE HasRow(u, n)
      <4>1. Available([row[u][n] EXCEPT !.baseAmount = alloc[u]]) >= 0
        BY <1>3, <2>1, <3>3 DEF Allocate, CoversSpent
      <4>2. OrEmpty(row[u][n]) = row[u][n]
        BY <3>3 DEF OrEmpty, HasRow
      <4>3. Available(row'[u][n]) >= 0 /\ Available(row'[u][n]) \in Int
        BY <1>1, <1>3, <2>1, <3>1, <3>2, <4>1, <4>2, AllocatedRow, RowArithmetic
      <4> QED
        BY <1>1, <4>3
    <3>4. CASE ~HasRow(u, n)
      <4>1. Available([EmptyRow EXCEPT !.baseAmount = alloc[u]]) = alloc[u]
        BY <1>3, <2>1 DEF Available, EmptyRow
      <4> QED
        BY <1>1, <1>3, <2>1, <3>2, <3>4, <4>1 DEF OrEmpty, HasRow
    <3> QED
      BY <3>3, <3>4
  <2>2. CASE ~(u \in DOMAIN alloc /\ n = m)
    <3>1. row'[u][n] = row[u][n]
      BY <1>3, <2>2 DEF Allocate, TypeOK
    <3> QED
      BY <1>2, <3>1
  <2> QED
    BY <2>1, <2>2
<1>4. ASSUME NEW v \in Vehicles, NEW m \in Months, NEW amount \in Nat,
             checkAndReserveFuelBudget(v, m, amount)
      PROVE  Available(row'[u][n]) >= -HistoricDeficit
  <2>1. CASE HasRow(v, m) /\ u = v /\ n = m
    <3>1. row'[u][n] = Reserved(row[u][n], amount) /\ amount <= Available(row[u][n])
      BY <1>4, <2>1 DEF checkAndReserveFuelBudget, MayReserve, TypeOK
    <3> QED
      BY <1>1, <2>1, <3>1, ReservedRow
  <2>2. CASE ~(HasRow(v, m) /\ u = v /\ n = m)
    <3>1. row'[u][n] = row[u][n]
      BY <1>4, <2>2 DEF checkAndReserveFuelBudget, TypeOK
    <3> QED
      BY <1>2, <3>1
  <2> QED
    BY <2>1, <2>2
<1>5. ASSUME NEW v \in Vehicles, NEW m \in Months, NEW amount \in Nat,
             releaseFuelBudget(v, m, amount)
      PROVE  Available(row'[u][n]) >= -HistoricDeficit
  <2>1. HasRow(v, m) /\ row[v][m] \in Row /\ amount <= row[v][m].spentAmount
    BY <1>5 DEF releaseFuelBudget, HasRow, TypeOK
  <2>2. CASE ReleaseFromInactiveOpen(v, m, amount)
    <3> DEFINE less == [row[v][m] EXCEPT !.spentAmount = @ - amount]
    <3>1. CASE u = v /\ n = m
      <4>1. row'[u][n] = Normalized(less)
        BY <2>2, <3>1 DEF ReleaseFromInactiveOpen, TypeOK
      <4>2. less \in Row /\ Available(less) = Available(row[v][m]) + amount
        BY <2>1, ReleasedRow
      <4>3. Available(row'[u][n]) = Smaller(Available(less), 0)
        BY <4>1, <4>2, NormalizedRow
      <4> HIDE DEF less
      <4> QED
        BY <1>1, <2>1, <3>1, <4>2, <4>3 DEF Smaller
    <3>2. CASE ~(u = v /\ n = m)
      <4>1. row'[u][n] = row[u][n]
        BY <2>2, <3>2 DEF ReleaseFromInactiveOpen, TypeOK
      <4> QED
        BY <1>2, <4>1
    <3> QED
      BY <3>1, <3>2
  <2>3. CASE ReleaseAndPropagate(v, m, amount)
    <3>1. PICK carry \in [m..LastMonth -> Nat] :
            /\ IsCarry(v, m, amount, carry)
            /\ ChainComplete(v, m, carry)
            /\ row' \in [Vehicles -> [Months -> Row \cup {NoRow}]]
            /\ \A w \in Vehicles \ {v} : row'[w] = row[w]
            /\ \A k \in 1..m - 1 : row'[v][k] = row[v][k]
            /\ row'[v][m] = Released(row[v][m], amount)
            /\ \A k \in m + 1..LastMonth :
                 row'[v][k] = IF Receives(v, k) /\ carry[k - 1] > 0
                                THEN Credited(row[v][k], carry[k - 1]) ELSE row[v][k]
      <4>1. HasRow(v, m) /\ amount <= row[v][m].spentAmount
        BY <2>1
      <4> QED
        BY <2>3, <4>1, PropagatedRows, SMTT(30)
    <3>2. CASE u # v \/ n < m
      <4>1. row'[u][n] = row[u][n]
        BY <3>1, <3>2, BudgetAssumption DEF Months
      <4> QED
        BY <1>2, <4>1
    <3>3. CASE u = v /\ n = m
      <4>1. Available(row'[u][n]) = Available(row[u][n]) + amount
        <5>1. Available(Released(row[v][m], amount)) = Available(row[v][m]) + amount
          BY <2>1, ReleasedRow
        <5> QED
          BY <3>1, <3>3, <5>1
      <4> QED
        BY <1>1, <2>1, <3>3, <4>1
    <3>4. CASE u = v /\ n > m
      <4>1. n \in m + 1..LastMonth /\ n - 1 \in m..LastMonth
        BY <3>4, BudgetAssumption DEF Months
      <4>2. CASE Receives(v, n) /\ carry[n - 1] > 0
        <5>1. row'[u][n] = Credited(row[u][n], carry[n - 1]) /\ carry[n - 1] \in Nat
          BY <3>1, <3>4, <4>1, <4>2
        <5>2. row[u][n] \in Row
          BY <1>1, <3>4, <4>2 DEF Receives
        <5>3. Available(row'[u][n]) = Available(row[u][n]) + carry[n - 1]
          BY <5>1, <5>2, CreditedRow
        <5> QED
          BY <1>1, <3>4, <4>2, <5>1, <5>3 DEF Receives
      <4>3. CASE ~(Receives(v, n) /\ carry[n - 1] > 0)
        BY <1>2, <3>1, <3>4, <4>1, <4>3
      <4> QED
        BY <4>2, <4>3
    <3> QED
      BY <3>2, <3>3, <3>4 DEF Months
  <2> QED
    BY <1>5, <2>2, <2>3 DEF releaseFuelBudget
<1>6. ASSUME NEW m \in Months, NEW deferring, closeMonthAndRollover(m, deferring)
      PROVE  Available(row'[u][n]) >= -HistoricDeficit
  <2>1. CASE IsOpen(u, m) /\ n = m
    <3>1. row'[u][n] = [row[u][n] EXCEPT !.isClosed = TRUE] /\ HasRow(u, n)
      BY <1>6, <2>1, ClosedRows DEF IsOpen
    <3>2. Available(row'[u][n]) = Available(row[u][n])
      BY <1>1, <3>1 DEF Available, Row
    <3> QED
      BY <1>1, <3>1, <3>2
  <2>2. CASE IsOpen(u, m) /\ u \in active /\ n = m + 1
    <3>1. row'[u][n] = RolledOver(row[u][n], Remainder(row[u][m]))
      BY <1>6, <2>2, ClosedRows
    <3>2. Remainder(row[u][m]) \in Nat
      BY <2>2, RowArithmetic DEF IsOpen, HasRow, TypeOK
    <3>3. Available(row'[u][n]) = Available(OrEmpty(row[u][n])) + Remainder(row[u][m])
      BY <1>1, <3>1, <3>2, RolledOverRow
    <3>4. Available(OrEmpty(row[u][n])) \in Int /\ Available(OrEmpty(row[u][n])) >= -HistoricDeficit
      BY <1>1 DEF OrEmpty, HasRow, EmptyRow, Available
    <3> QED
      BY <1>1, <3>2, <3>3, <3>4
  <2>3. CASE ~(IsOpen(u, m) /\ n = m) /\ ~(IsOpen(u, m) /\ u \in active /\ n = m + 1)
    <3>1. row'[u][n] = row[u][n]
      <4>1. CASE n # m /\ n # m + 1
        BY <1>6, <4>1, ClosedRows
      <4>2. CASE n = m
        BY <1>6, <2>3, <4>2, ClosedRows
      <4>3. CASE n = m + 1
        BY <1>6, <2>3, <4>3, ClosedRows
      <4> QED
        BY <4>1, <4>2, <4>3
    <3> QED
      BY <1>2, <3>1
  <2> QED
    BY <2>1, <2>2, <2>3
<1>7. ASSUME NEW v \in Vehicles, deactivateVehicle(v)
      PROVE  Available(row'[u][n]) >= -HistoricDeficit
  <2>1. CASE u = v /\ IsOpen(u, n)
    <3>1. row'[u][n] = Normalized(row[u][n]) /\ HasRow(u, n)
      BY <1>7, <2>1, DeactivatedRows DEF IsOpen
    <3>2. /\ Available(row[u][n]) \in Int /\ Available(row[u][n]) >= -HistoricDeficit
          /\ Available(row'[u][n]) = Smaller(Available(row[u][n]), 0)
      BY <1>1, <3>1, NormalizedRow
    <3> QED
      BY <1>1, <3>2 DEF Smaller
  <2>2. CASE ~(u = v /\ IsOpen(u, n))
    BY <1>2, <1>7, <2>2, DeactivatedRows
  <2> QED
    BY <2>1, <2>2
<1>8. CASE row' = row
  BY <1>2, <1>8
<1> QED
  BY <1>3, <1>4, <1>5, <1>6, <1>7, <1>8, StepForms
     DEF SetMonthlyPool, NextMonthBegins, vars

(* For any fleet, calendar and amounts: reservations, reassignments, month   *)
(* closings, removals and releases never take a row of vehicle_budgets       *)
(* further below zero than the earlier version of the program left one.      *)
THEOREM NeverOverspent == Spec => []NoOverspend
<1>1. TypeOK /\ NoOverspend /\ [Next]_vars => NoOverspend'
  BY StepNoOverspend
<1> QED
  BY <1>1, InitNoOverspend, TypeCorrect, PTL DEF Spec

-----------------------------------------------------------------------------
(* Months close in order *)

(* What the earlier version closed is past. *)
ClosedIsPast == \A m \in Months : isBudgetPeriodClosed(m) => m < now

LEMMA InitClosing == Init => ClosedIsPast /\ ClosedInOrder
<1> SUFFICES ASSUME Init
             PROVE  ClosedIsPast /\ ClosedInOrder
  OBVIOUS
<1>1. \A v \in Vehicles, m \in 1..FirstOpen - 1 : ~IsOpen(v, m)
  BY InitRows DEF IsOpen, HistoryRow
<1>2. \A v \in Vehicles : ~IsClosed(v, FirstOpen)
  <2> SUFFICES ASSUME NEW v \in Vehicles, HasRow(v, FirstOpen)
               PROVE  row[v][FirstOpen].isClosed = FALSE
    BY DEF IsClosed
  <2>1. /\ FirstOpen > 1 /\ FirstOpen - 1 \in Months
        /\ row[v][FirstOpen] = OpeningRow(row[v][FirstOpen - 1])
        /\ row[v][FirstOpen - 1] # NoRow /\ row[v][FirstOpen - 1] \in Row \cup {NoRow}
    BY InitRows, BudgetAssumption DEF Months, HasRow
  <2> QED
    BY <2>1, OpeningRowIsRow
<1>3. \A v \in Vehicles, m \in FirstOpen + 1..LastMonth : ~HasRow(v, m)
  BY InitRows
<1>4. ASSUME NEW m \in Months, isBudgetPeriodClosed(m)
      PROVE  m < FirstOpen
  <2>1. m \in 1..FirstOpen - 1 \/ m = FirstOpen \/ m \in FirstOpen + 1..LastMonth
    BY BudgetAssumption DEF Months
  <2>2. m >= FirstOpen => pool[m] = NoPool
    BY BudgetAssumption DEF Init, Months
  <2>3. m >= FirstOpen => \A v \in Vehicles : ~IsClosed(v, m)
    BY <1>2, <1>3, <2>1, BudgetAssumption DEF IsClosed
  <2> QED
    BY <1>4, <2>2, <2>3, BudgetAssumption DEF isBudgetPeriodClosed, Months
<1>5. \A m \in Months : m < FirstOpen => ~HoldsOpenBudget(m)
  <2> SUFFICES ASSUME NEW m \in Months, m < FirstOpen
               PROVE  ~HoldsOpenBudget(m)
    OBVIOUS
  <2>1. pool[m].isClosed = TRUE
    BY DEF Init
  <2>2. m \in 1..FirstOpen - 1
    BY BudgetAssumption DEF Months
  <2> QED
    BY <1>1, <2>1, <2>2 DEF HoldsOpenBudget
<1> QED
  BY <1>4, <1>5, BudgetAssumption DEF Init, ClosedIsPast, ClosedInOrder, Months

(* Steps that touch neither the flags of a row nor those of a pool. *)
FlagsKept ==
  /\ \A v \in Vehicles, m \in Months :
       /\ IsOpen(v, m)' <=> IsOpen(v, m)
       /\ IsClosed(v, m)' <=> IsClosed(v, m)
  /\ pool' = pool

LEMMA FlagsKeptPeriods ==
  ASSUME FlagsKept
  PROVE  \A m \in Months : /\ isBudgetPeriodClosed(m)' <=> isBudgetPeriodClosed(m)
                           /\ HoldsOpenBudget(m)' <=> HoldsOpenBudget(m)
BY DEF FlagsKept, isBudgetPeriodClosed, HoldsOpenBudget

(* An update of one row that keeps its isClosed keeps the flags. *)
LEMMA SameFlags ==
  ASSUME TypeOK, row' \in [Vehicles -> [Months -> Row \cup {NoRow}]], pool' = pool,
         \A v \in Vehicles, m \in Months :
           \/ row'[v][m] = row[v][m]
           \/ /\ HasRow(v, m) /\ row'[v][m] \in Row
              /\ row'[v][m].isClosed = row[v][m].isClosed
  PROVE  FlagsKept
BY BudgetAssumption DEF FlagsKept, IsOpen, IsClosed, HasRow

(* A closed month has no allocatable or chargeable row. *)
LEMMA OpenPeriodRows ==
  ASSUME NEW m \in Months, PeriodOpen(m)
  PROVE  /\ ~isBudgetPeriodClosed(m)
         /\ \A v \in Vehicles : ~IsClosed(v, m)
         /\ \A n \in Months : n >= m => ~isBudgetPeriodClosed(n)
BY BudgetAssumption DEF PeriodOpen, isBudgetPeriodClosed, Months

(* What an allocation leaves in each month of each vehicle. *)
LEMMA AllocatedRows ==
  ASSUME TypeOK, NEW m \in Months, NEW alloc, alloc \in [DOMAIN alloc -> Nat],
         Allocate(m, alloc)
  PROVE  /\ \A v \in DOMAIN alloc :
              /\ row'[v][m] = Allocated(row[v][m], alloc[v])
              /\ row'[v][m] \in Row
              /\ row'[v][m].isClosed = FALSE
              /\ row'[v][m].rolloverIn = IF HasRow(v, m) THEN row[v][m].rolloverIn ELSE 0
         /\ \A v \in Vehicles, n \in Months :
              ~(v \in DOMAIN alloc /\ n = m) => row'[v][n] = row[v][n]
<1>1. ASSUME NEW v \in DOMAIN alloc
      PROVE  /\ row'[v][m] = Allocated(row[v][m], alloc[v])
             /\ row'[v][m] \in Row
             /\ row'[v][m].isClosed = FALSE
             /\ row'[v][m].rolloverIn = IF HasRow(v, m) THEN row[v][m].rolloverIn ELSE 0
  <2>1. v \in Vehicles
    BY DEF Allocate, TypeOK
  <2>2. row'[v][m] = Allocated(row[v][m], alloc[v])
    BY <2>1 DEF Allocate, TypeOK
  <2>3. row[v][m] \in Row \cup {NoRow} /\ alloc[v] \in Nat
    BY <2>1 DEF TypeOK
  <2>4. HasRow(v, m) => row[v][m].isClosed = FALSE
    BY <2>1, <2>3, OpenPeriodRows DEF Allocate, IsClosed, HasRow, Row
  <2>5. /\ HasRow(v, m) => OrEmpty(row[v][m]) = row[v][m]
        /\ ~HasRow(v, m) => OrEmpty(row[v][m]).isClosed = FALSE /\ OrEmpty(row[v][m]).rolloverIn = 0
    BY DEF OrEmpty, HasRow, EmptyRow
  <2> QED
    BY <2>2, <2>3, <2>4, <2>5, AllocatedRow
<1>2. \A v \in Vehicles, n \in Months :
        ~(v \in DOMAIN alloc /\ n = m) => row'[v][n] = row[v][n]
  BY DEF Allocate, TypeOK
<1> QED
  BY <1>1, <1>2

(* What a reservation leaves in each month of each vehicle. *)
LEMMA ReservedRows ==
  ASSUME TypeOK, NEW v \in Vehicles, NEW m \in Months, NEW amount \in Nat,
         checkAndReserveFuelBudget(v, m, amount)
  PROVE  /\ \A u \in Vehicles, n \in Months :
              ~(HasRow(v, m) /\ u = v /\ n = m) => row'[u][n] = row[u][n]
         /\ HasRow(v, m) =>
              /\ row'[v][m] \in Row
              /\ row'[v][m].isClosed = row[v][m].isClosed
              /\ row'[v][m].rolloverIn = row[v][m].rolloverIn
<1>1. CASE HasRow(v, m)
  <2>1. row[v][m] \in Row /\ row'[v][m] = Reserved(row[v][m], amount)
    BY <1>1 DEF checkAndReserveFuelBudget, HasRow, TypeOK
  <2>2. \A u \in Vehicles, n \in Months : ~(u = v /\ n = m) => row'[u][n] = row[u][n]
    BY <1>1 DEF checkAndReserveFuelBudget, TypeOK
  <2> DEFINE r == Reserved(row[v][m], amount)
  <2>3. /\ r \in Row
        /\ r.isClosed = row[v][m].isClosed
        /\ r.rolloverIn = row[v][m].rolloverIn
    BY <2>1, ReservedRow
  <2>4. row'[v][m] = r
    BY <2>1
  <2> HIDE DEF r
  <2> QED
    BY <1>1, <2>2, <2>3, <2>4
<1>2. CASE ~HasRow(v, m)
  BY <1>2 DEF checkAndReserveFuelBudget
<1> QED
  BY <1>1, <1>2

(* What a release leaves in each month of each vehicle, as far as the flags  *)
(* and the amounts of closed rows go.                                        *)
LEMMA ReleasedRows ==
  ASSUME TypeOK, NEW v \in Vehicles, NEW m \in Months, NEW amount \in Nat,
         releaseFuelBudget(v, m, amount)
  PROVE  \A u \in Vehicles, n \in Months :
           \/ row'[u][n] = row[u][n]
           \/ /\ u = v /\ HasRow(u, n) /\ row'[u][n] \in Row
              /\ row'[u][n].isClosed = row[u][n].isClosed
              /\ IsClosed(u, n) =>
                   /\ row'[u][n].baseAmount = row[u][n].baseAmount
                   /\ row'[u][n].spentAmount <= row[u][n].spentAmount
                   /\ row'[u][n].rolloverIn >= row[u][n].rolloverIn
              /\ IsOpen(u, n) /\ u \notin active =>
                   row'[u][n].isCutOff = TRUE /\ Available(row'[u][n]) <= 0
<1> SUFFICES ASSUME NEW u \in Vehicles, NEW n \in Months, row'[u][n] # row[u][n]
             PROVE  /\ u = v /\ HasRow(u, n) /\ row'[u][n] \in Row
                    /\ row'[u][n].isClosed = row[u][n].isClosed
                    /\ IsClosed(u, n) =>
                         /\ row'[u][n].baseAmount = row[u][n].baseAmount
                         /\ row'[u][n].spentAmount <= row[u][n].spentAmount
                         /\ row'[u][n].rolloverIn >= row[u][n].rolloverIn
                    /\ IsOpen(u, n) /\ u \notin active =>
                         row'[u][n].isCutOff = TRUE /\ Available(row'[u][n]) <= 0
  OBVIOUS
<1>1. HasRow(v, m) /\ row[v][m] \in Row /\ amount <= row[v][m].spentAmount
  BY DEF releaseFuelBudget, HasRow, TypeOK
<1>2. CASE ReleaseFromInactiveOpen(v, m, amount)
  <2> DEFINE less == [row[v][m] EXCEPT !.spentAmount = @ - amount]
  <2>1. u = v /\ n = m /\ row'[u][n] = Normalized(less)
    BY <1>2 DEF ReleaseFromInactiveOpen, TypeOK
  <2>2. /\ less \in Row /\ less.isClosed = row[v][m].isClosed
        /\ Available(less) \in Int
    BY <1>1, ReleasedRow, RowArithmetic
  <2>3. Smaller(Available(less), 0) <= 0
    BY <2>2 DEF Smaller
  <2>4. ~IsClosed(u, n)
    BY <1>2, <2>1 DEF ReleaseFromInactiveOpen, IsOpen, IsClosed
  <2> HIDE DEF less
  <2> QED
    BY <1>1, <2>1, <2>2, <2>3, <2>4, NormalizedRow
<1>3. CASE ReleaseAndPropagate(v, m, amount)
  <2>1. PICK carry \in [m..LastMonth -> Nat] :
          /\ IsCarry(v, m, amount, carry)
          /\ ChainComplete(v, m, carry)
          /\ row' \in [Vehicles -> [Months -> Row \cup {NoRow}]]
          /\ \A w \in Vehicles \ {v} : row'[w] = row[w]
          /\ \A k \in 1..m - 1 : row'[v][k] = row[v][k]
          /\ row'[v][m] = Released(row[v][m], amount)
          /\ \A k \in m + 1..LastMonth :
               row'[v][k] = IF Receives(v, k) /\ carry[k - 1] > 0
                              THEN Credited(row[v][k], carry[k - 1]) ELSE row[v][k]
    BY <1>1, <1>3, PropagatedRows
  <2>2. u = v /\ ~(n \in 1..m - 1)
    BY <2>1
  <2>3. CASE n = m
    <3>1. row'[u][n] = Released(row[u][n], amount)
      BY <2>1, <2>2, <2>3
    <3>2. row[u][n] \in Row /\ amount <= row[u][n].spentAmount
      BY <1>1, <2>2, <2>3
    <3>3. u \notin active => ~IsOpen(u, n)
      BY <1>3, <2>2, <2>3 DEF ReleaseAndPropagate, IsClosed, IsOpen
    <3>4. row[u][n].spentAmount - amount <= row[u][n].spentAmount
      BY <3>2 DEF Row
    <3>5. row[u][n].rolloverIn >= row[u][n].rolloverIn
      BY <3>2 DEF Row
    <3> DEFINE r == Released(row[u][n], amount)
    <3>6. /\ r \in Row
          /\ r.isClosed = row[u][n].isClosed
          /\ r.baseAmount = row[u][n].baseAmount
          /\ r.spentAmount = row[u][n].spentAmount - amount
          /\ r.rolloverIn = row[u][n].rolloverIn
      BY <3>2, ReleasedRow
    <3> HIDE DEF r
    <3>7. row'[u][n] = r
      BY <3>1 DEF r
    <3> QED
      BY <1>1, <2>2, <2>3, <3>3, <3>4, <3>5, <3>6, <3>7
  <2>4. CASE n # m
    <3>1. n \in m + 1..LastMonth /\ n - 1 \in m..LastMonth
      BY <2>2, <2>4, BudgetAssumption DEF Months
    <3>2. Receives(v, n) /\ carry[n - 1] > 0 /\ row'[u][n] = Credited(row[u][n], carry[n - 1])
      BY <2>1, <2>2, <3>1
    <3>3. row[u][n] \in Row /\ carry[n - 1] \in Nat
      BY <2>1, <2>2, <3>1, <3>2 DEF Receives, HasRow, TypeOK
    <3>4. u \notin active => ~IsOpen(u, n)
      BY <2>2, <3>2 DEF Receives, IsOpen
    <3>5. /\ row[u][n].rolloverIn + carry[n - 1] >= row[u][n].rolloverIn
          /\ row[u][n].spentAmount <= row[u][n].spentAmount
      BY <3>3 DEF Row
    <3> DEFINE r == Credited(row[u][n], carry[n - 1])
    <3>6. /\ r \in Row
          /\ r.isClosed = row[u][n].isClosed
          /\ r.baseAmount = row[u][n].baseAmount
          /\ r.spentAmount = row[u][n].spentAmount
          /\ r.rolloverIn = row[u][n].rolloverIn + carry[n - 1]
      BY <3>3, CreditedRow
    <3> HIDE DEF r
    <3>7. row'[u][n] = r
      BY <3>2 DEF r
    <3>8. HasRow(u, n)
      BY <2>2, <3>2 DEF Receives
    <3> QED
      BY <2>2, <3>4, <3>5, <3>6, <3>7, <3>8
  <2> QED
    BY <2>3, <2>4
<1> QED
  BY <1>2, <1>3 DEF releaseFuelBudget

(* Which months a step closes. *)
LEMMA AllocateClosesNothing ==
  ASSUME TypeOK, NEW m \in Months, NEW alloc, alloc \in [DOMAIN alloc -> Nat],
         Allocate(m, alloc)
  PROVE  \A n \in Months : isBudgetPeriodClosed(n)' <=> isBudgetPeriodClosed(n)
<1>1. \A v \in Vehicles, n \in Months : IsClosed(v, n)' <=> IsClosed(v, n)
  <2> SUFFICES ASSUME NEW v \in Vehicles, NEW n \in Months
               PROVE  IsClosed(v, n)' <=> IsClosed(v, n)
    OBVIOUS
  <2>1. CASE v \in DOMAIN alloc /\ n = m
    BY <2>1, AllocatedRows, OpenPeriodRows DEF Allocate, IsClosed
  <2>2. CASE ~(v \in DOMAIN alloc /\ n = m)
    <3>1. row'[v][n] = row[v][n]
      BY <2>2, AllocatedRows
    <3> QED
      BY <3>1 DEF IsClosed, HasRow
  <2> QED
    BY <2>1, <2>2
<1> QED
  BY <1>1 DEF isBudgetPeriodClosed, Allocate

LEMMA ReserveKeepsFlags ==
  ASSUME TypeOK, NEW v \in Vehicles, NEW m \in Months, NEW amount \in Nat,
         checkAndReserveFuelBudget(v, m, amount)
  PROVE  FlagsKept /\ now' = now
<1>1. row' \in [Vehicles -> [Months -> Row \cup {NoRow}]]
  BY ReserveTypeOK DEF TypeOK
<1>2. \A u \in Vehicles, n \in Months :
        \/ row'[u][n] = row[u][n]
        \/ HasRow(u, n) /\ row'[u][n] \in Row /\ row'[u][n].isClosed = row[u][n].isClosed
  BY ReservedRows
<1>3. pool' = pool /\ now' = now
  BY DEF checkAndReserveFuelBudget
<1> QED
  BY <1>1, <1>2, <1>3, SameFlags

LEMMA ReleaseKeepsFlags ==
  ASSUME TypeOK, NEW v \in Vehicles, NEW m \in Months, NEW amount \in Nat,
         releaseFuelBudget(v, m, amount)
  PROVE  FlagsKept /\ now' = now
<1>1. row' \in [Vehicles -> [Months -> Row \cup {NoRow}]]
  BY ReleaseTypeOK DEF TypeOK
<1>2. \A u \in Vehicles, n \in Months :
        \/ row'[u][n] = row[u][n]
        \/ HasRow(u, n) /\ row'[u][n] \in Row /\ row'[u][n].isClosed = row[u][n].isClosed
  BY ReleasedRows
<1>3. pool' = pool /\ now' = now
  BY DEF releaseFuelBudget
<1> QED
  BY <1>1, <1>2, <1>3, SameFlags

LEMMA DeactivateKeepsFlags ==
  ASSUME TypeOK, NEW v \in Vehicles,
         deactivateVehicle(v)
  PROVE  FlagsKept /\ now' = now
<1>1. row' \in [Vehicles -> [Months -> Row \cup {NoRow}]]
  BY DeactivatedRows
<1>2. \A u \in Vehicles, n \in Months :
        \/ row'[u][n] = row[u][n]
        \/ HasRow(u, n) /\ row'[u][n] \in Row /\ row'[u][n].isClosed = row[u][n].isClosed
  <2> SUFFICES ASSUME NEW u \in Vehicles, NEW n \in Months, row'[u][n] # row[u][n]
               PROVE  /\ HasRow(u, n) /\ row'[u][n] \in Row
                      /\ row'[u][n].isClosed = row[u][n].isClosed
    OBVIOUS
  <2>1. u = v /\ IsOpen(u, n) /\ row'[u][n] = Normalized(row[u][n])
    BY DeactivatedRows
  <2>2. HasRow(u, n) /\ row[u][n] \in Row
    BY <2>1 DEF IsOpen, HasRow, TypeOK
  <2> QED
    BY <2>1, <2>2, NormalizedRow
<1>3. pool' = pool /\ now' = now
  BY DEF deactivateVehicle
<1> QED
  BY <1>1, <1>2, <1>3, SameFlags

LEMMA PoolClosesNothing ==
  ASSUME TypeOK, NEW m \in Months, NEW total \in Nat, SetMonthlyPool(m, total)
  PROVE  \A n \in Months : isBudgetPeriodClosed(n)' => isBudgetPeriodClosed(n)
<1>1. pool'[m].isClosed = FALSE /\ pool' \in [Months -> Pool \cup {NoPool}]
  BY PoolTypeOK DEF SetMonthlyPool, TypeOK
<1>2. \A n \in Months : n # m => pool'[n] = pool[n]
  BY DEF SetMonthlyPool, TypeOK
<1>3. row' = row /\ now' = now
  BY DEF SetMonthlyPool
<1> QED
  BY <1>1, <1>2, <1>3 DEF isBudgetPeriodClosed, IsClosed, HasRow

LEMMA CloseClosesOne ==
  ASSUME TypeOK, NEW m \in Months, NEW deferring, closeMonthAndRollover(m, deferring)
  PROVE  \A n \in Months : isBudgetPeriodClosed(n)' => n = m \/ isBudgetPeriodClosed(n)
<1>1. /\ m < now /\ now' = now /\ m + 1 \in Months
      /\ ~isBudgetPeriodClosed(m) /\ ~isBudgetPeriodClosed(m + 1)
      /\ \A n \in 1..m - 1 : ~HoldsOpenBudget(n)
  BY ClosedRows DEF closeMonthAndRollover
<1>2. \A n \in Months : n # m => pool'[n] = pool[n]
  BY DEF closeMonthAndRollover, TypeOK
<1>3. \A v \in Vehicles, n \in Months \ {m, m + 1} : row'[v][n] = row[v][n]
  BY ClosedRows
<1>4. \A v \in Vehicles : ~IsClosed(v, m + 1)'
  <2> SUFFICES ASSUME NEW v \in Vehicles
               PROVE  ~IsClosed(v, m + 1)'
    OBVIOUS
  <2>1. ~IsClosed(v, m + 1) /\ row[v][m + 1] \in Row \cup {NoRow}
    BY <1>1 DEF isBudgetPeriodClosed, TypeOK
  <2>2. CASE row'[v][m + 1] = row[v][m + 1]
    BY <2>1, <2>2 DEF IsClosed, HasRow
  <2>3. CASE IsOpen(v, m) /\ row'[v][m + 1] = RolledOver(row[v][m + 1], Remainder(row[v][m]))
    <3>1. Remainder(row[v][m]) \in Nat
      BY <2>3, RowArithmetic DEF IsOpen, HasRow, TypeOK
    <3>2. row'[v][m + 1].isClosed = OrEmpty(row[v][m + 1]).isClosed
      BY <2>1, <2>3, <3>1, RolledOverRow
    <3>3. OrEmpty(row[v][m + 1]).isClosed = FALSE
      BY <2>1 DEF OrEmpty, EmptyRow, IsClosed, HasRow, Row
    <3> QED
      BY <3>2, <3>3 DEF IsClosed
  <2> QED
    BY <2>2, <2>3, ClosedRows
<1> SUFFICES ASSUME NEW n \in Months, n # m, isBudgetPeriodClosed(n)'
             PROVE  isBudgetPeriodClosed(n)
  OBVIOUS
<1>5. CASE pool'[n] # NoPool /\ pool'[n].isClosed
  BY <1>2, <1>5 DEF isBudgetPeriodClosed
<1>6. CASE \E v \in Vehicles : IsClosed(v, n)'
  BY <1>3, <1>4, <1>6 DEF isBudgetPeriodClosed, IsClosed, HasRow
<1> QED
  BY <1>5, <1>6 DEF isBudgetPeriodClosed

LEMMA OthersCloseNothing ==
  ASSUME TypeOK,
         \/ Administer
         \/ \E v \in Vehicles, m \in Months, amount \in Nat :
              \/ checkAndReserveFuelBudget(v, m, amount)
              \/ releaseFuelBudget(v, m, amount)
         \/ UNCHANGED vars
  PROVE  \A n \in Months : isBudgetPeriodClosed(n)' => isBudgetPeriodClosed(n)
<1>1. CASE FlagsKept
  BY <1>1, FlagsKeptPeriods
<1>2. CASE \E m \in Months : \E alloc : alloc \in [DOMAIN alloc -> Nat] /\ Allocate(m, alloc)
  BY <1>2, AllocateClosesNothing
<1>3. CASE \E v \in Vehicles, m \in Months, amount \in Nat :
             \/ checkAndReserveFuelBudget(v, m, amount)
             \/ releaseFuelBudget(v, m, amount)
  BY <1>1, <1>3, ReserveKeepsFlags, ReleaseKeepsFlags
<1>4. CASE \E m \in Months, total \in Nat : SetMonthlyPool(m, total)
  BY <1>4, PoolClosesNothing
<1>5. CASE \E v \in Vehicles : deactivateVehicle(v)
  BY <1>1, <1>5, DeactivateKeepsFlags
<1>6. CASE NextMonthBegins \/ UNCHANGED vars
  <2>1. row' = row /\ pool' = pool
    BY <1>6 DEF NextMonthBegins, vars
  <2>2. FlagsKept
    BY <2>1 DEF FlagsKept, IsOpen, IsClosed, HasRow
  <2> QED
    BY <1>1, <2>2
<1>7. Amounts \subseteq Nat
  BY BudgetAssumption
<1> QED
  BY <1>2, <1>3, <1>4, <1>5, <1>6, <1>7, AllocateForms DEF Administer

LEMMA StepClosing ==
  ASSUME TypeOK, ClosedIsPast, ClosedInOrder, [Next]_vars
  PROVE  ClosedIsPast' /\ ClosedInOrder'
<1>1. CASE FlagsKept /\ now' = now
  BY <1>1, FlagsKeptPeriods DEF ClosedIsPast, ClosedInOrder
<1>2. ASSUME NEW m \in Months, NEW alloc, alloc \in [DOMAIN alloc -> Nat], Allocate(m, alloc)
      PROVE  ClosedIsPast' /\ ClosedInOrder'
  <2>2. \A n \in Months : isBudgetPeriodClosed(n)' <=> isBudgetPeriodClosed(n)
    BY <1>2, AllocateClosesNothing
  <2>3. \A n \in Months : n # m => (HoldsOpenBudget(n)' <=> HoldsOpenBudget(n))
    <3>1. \A v \in Vehicles, n \in Months : n # m => row'[v][n] = row[v][n]
      BY <1>2, AllocatedRows
    <3> QED
      BY <1>2, <3>1 DEF HoldsOpenBudget, IsOpen, HasRow, Allocate
  <2>4. \A n \in Months : n >= m => ~isBudgetPeriodClosed(n)
    BY <1>2, OpenPeriodRows DEF Allocate
  <2> QED
    BY <1>2, <2>2, <2>3, <2>4, BudgetAssumption
       DEF ClosedIsPast, ClosedInOrder, Allocate, Months
<1>3. ASSUME NEW v \in Vehicles, NEW m \in Months, NEW amount \in Nat,
             checkAndReserveFuelBudget(v, m, amount)
      PROVE  FlagsKept /\ now' = now
  BY <1>3, ReserveKeepsFlags
<1>4. ASSUME NEW v \in Vehicles, NEW m \in Months, NEW amount \in Nat,
             releaseFuelBudget(v, m, amount)
      PROVE  FlagsKept /\ now' = now
  BY <1>4, ReleaseKeepsFlags
<1>5. ASSUME NEW m \in Months, NEW total \in Nat, SetMonthlyPool(m, total)
      PROVE  ClosedIsPast' /\ ClosedInOrder'
  <2>2. \A n \in Months : n # m => pool'[n] = pool[n]
    BY <1>5 DEF SetMonthlyPool, TypeOK
  <2>3. \A n \in Months : n >= m => ~isBudgetPeriodClosed(n)
    BY <1>5, OpenPeriodRows DEF SetMonthlyPool
  <2>4. row' = row /\ now' = now
    BY <1>5 DEF SetMonthlyPool
  <2>5. \A n \in Months : isBudgetPeriodClosed(n)' => isBudgetPeriodClosed(n)
    BY <1>5, PoolClosesNothing
  <2>6. \A n \in Months : n # m => (HoldsOpenBudget(n)' <=> HoldsOpenBudget(n))
    BY <2>2, <2>4 DEF HoldsOpenBudget, IsOpen, HasRow
  <2> QED
    BY <2>3, <2>4, <2>5, <2>6, BudgetAssumption DEF ClosedIsPast, ClosedInOrder, Months
<1>6. ASSUME NEW m \in Months, NEW deferring, closeMonthAndRollover(m, deferring)
      PROVE  ClosedIsPast' /\ ClosedInOrder'
  <2>1. /\ m < now /\ now' = now /\ m + 1 \in Months
        /\ ~isBudgetPeriodClosed(m) /\ ~isBudgetPeriodClosed(m + 1)
        /\ \A n \in 1..m - 1 : ~HoldsOpenBudget(n)
    BY <1>6, ClosedRows DEF closeMonthAndRollover
  <2>2. \A n \in Months : n # m => pool'[n] = pool[n]
    BY <1>6 DEF closeMonthAndRollover, TypeOK
  <2>3. \A v \in Vehicles, n \in Months \ {m, m + 1} : row'[v][n] = row[v][n]
    BY <1>6, ClosedRows
  <2>5. \A n \in Months : isBudgetPeriodClosed(n)' => n = m \/ isBudgetPeriodClosed(n)
    BY <1>6, CloseClosesOne
  <2>6. \A n \in Months \ {m, m + 1} : HoldsOpenBudget(n)' <=> HoldsOpenBudget(n)
    BY <2>2, <2>3 DEF HoldsOpenBudget, IsOpen, HasRow
  <2>7. ~HoldsOpenBudget(m) => (HoldsOpenBudget(m + 1)' => HoldsOpenBudget(m + 1))
    <3> SUFFICES ASSUME ~HoldsOpenBudget(m), HoldsOpenBudget(m + 1)'
                 PROVE  HoldsOpenBudget(m + 1)
      OBVIOUS
    <3>1. \A v \in Vehicles : row'[v][m + 1] = row[v][m + 1]
      BY <1>6, ClosedRows DEF HoldsOpenBudget
    <3>2. pool'[m + 1] = pool[m + 1]
      BY <2>1, <2>2, BudgetAssumption DEF Months
    <3> QED
      BY <3>1, <3>2 DEF HoldsOpenBudget, IsOpen, HasRow
  <2>8. ClosedIsPast'
    BY <2>1, <2>5 DEF ClosedIsPast
  <2>9. ASSUME NEW k \in Months, NEW n \in Months, k < n, isBudgetPeriodClosed(n)'
        PROVE  ~HoldsOpenBudget(k)'
    <3>1. CASE n = m
      <4>1. k \in 1..m - 1 /\ k \in Months \ {m, m + 1}
        BY <2>9, <3>1, BudgetAssumption DEF Months
      <4> QED
        BY <2>1, <2>6, <4>1
    <3>2. CASE n # m
      <4>1. isBudgetPeriodClosed(n) /\ n # m + 1
        BY <2>1, <2>5, <2>9, <3>2
      <4>2. ~HoldsOpenBudget(k)
        BY <2>9, <4>1 DEF ClosedInOrder
      <4>3. CASE k \in Months \ {m, m + 1}
        BY <2>6, <4>2, <4>3
      <4>4. CASE k = m + 1
        <5>1. m < n
          BY <2>9, <4>4, BudgetAssumption DEF Months
        <5>2. ~HoldsOpenBudget(m)
          BY <4>1, <5>1 DEF ClosedInOrder
        <5> QED
          BY <2>7, <4>2, <4>4, <5>2
      <4>5. CASE k = m
        <5>1. \A v \in Vehicles : ~IsOpen(v, m)
          BY <4>2, <4>5 DEF HoldsOpenBudget
        <5>2. \A v \in Vehicles : row'[v][m] = row[v][m]
          BY <1>6, <5>1, ClosedRows
        <5>3. pool'[m].isClosed = TRUE
          BY <1>6 DEF closeMonthAndRollover, TypeOK
        <5> QED
          BY <4>5, <5>1, <5>2, <5>3 DEF HoldsOpenBudget, IsOpen, HasRow
      <4> QED
        BY <4>3, <4>4, <4>5
    <3> QED
      BY <3>1, <3>2
  <2> QED
    BY <2>8, <2>9 DEF ClosedInOrder
<1>7. ASSUME NEW v \in Vehicles, deactivateVehicle(v)
      PROVE  FlagsKept /\ now' = now
  BY <1>7, DeactivateKeepsFlags
<1>8. CASE NextMonthBegins
  <2>1. row' = row /\ pool' = pool /\ now' = now + 1
    BY <1>8 DEF NextMonthBegins
  <2>2. FlagsKept
    BY <2>1 DEF FlagsKept, IsOpen, IsClosed, HasRow
  <2> QED
    BY <2>1, <2>2, FlagsKeptPeriods, BudgetAssumption
       DEF ClosedIsPast, ClosedInOrder, TypeOK, Months
<1>9. CASE UNCHANGED vars
  <2>1. FlagsKept /\ now' = now
    BY <1>9 DEF FlagsKept, IsOpen, IsClosed, HasRow, vars
  <2> QED
    BY <1>1, <2>1
<1> QED
  BY <1>1, <1>2, <1>3, <1>4, <1>5, <1>6, <1>7, <1>8, <1>9, StepForms

(* The closed months are past months. *)
LEMMA ClosedMonthsArePast == Spec => []ClosedIsPast
<1>1. TypeOK /\ ClosedIsPast /\ ClosedInOrder /\ [Next]_vars => ClosedIsPast' /\ ClosedInOrder'
  BY StepClosing
<1> QED
  BY <1>1, InitClosing, TypeCorrect, PTL DEF Spec

(* For any fleet and calendar, months close in order: behind a closed month  *)
(* there is no open row or pool, so nothing can be charged behind a rollover *)
(* that was already computed.                                                *)
THEOREM ClosingInOrder == Spec => []ClosedInOrder
<1>1. TypeOK /\ ClosedIsPast /\ ClosedInOrder /\ [Next]_vars => ClosedIsPast' /\ ClosedInOrder'
  BY StepClosing
<1> QED
  BY <1>1, InitClosing, TypeCorrect, PTL DEF Spec

-----------------------------------------------------------------------------
(* Closed rows are history *)

(* One step of the ledger leaves closed rows closed, with their base, and    *)
(* only lowers their spending or raises their rollover.                      *)
THEOREM ClosedFrozen == Spec => ClosedRowsFrozen
<1> DEFINE Frozen(v, m) ==
      IsClosed(v, m) =>
        /\ IsClosed(v, m)'
        /\ row'[v][m].baseAmount = row[v][m].baseAmount
        /\ row'[v][m].spentAmount <= row[v][m].spentAmount
        /\ row'[v][m].rolloverIn >= row[v][m].rolloverIn
<1>1. ASSUME TypeOK, [Next]_vars
      PROVE  \A v \in Vehicles, m \in Months : Frozen(v, m)
  <2>1. \A v \in Vehicles, m \in Months : row'[v][m] = row[v][m] => Frozen(v, m)
    <3> SUFFICES ASSUME NEW v \in Vehicles, NEW m \in Months, row'[v][m] = row[v][m],
                        IsClosed(v, m)
                 PROVE  /\ IsClosed(v, m)'
                        /\ row[v][m].spentAmount <= row[v][m].spentAmount
                        /\ row[v][m].rolloverIn >= row[v][m].rolloverIn
      OBVIOUS
    <3>1. row[v][m] \in Row
      BY <1>1 DEF TypeOK, IsClosed, HasRow
    <3>2. row[v][m].spentAmount \in Nat /\ row[v][m].rolloverIn \in Nat
      BY <3>1 DEF Row
    <3> QED
      BY <3>2 DEF IsClosed, HasRow
  <2>2. ASSUME NEW m \in Months, NEW alloc, alloc \in [DOMAIN alloc -> Nat], Allocate(m, alloc)
        PROVE  \A v \in Vehicles, n \in Months : IsClosed(v, n) => row'[v][n] = row[v][n]
    <3>1. \A v \in Vehicles : ~IsClosed(v, m)
      BY <2>2, OpenPeriodRows DEF Allocate
    <3>2. \A v \in Vehicles, n \in Months : n # m => row'[v][n] = row[v][n]
      BY <1>1, <2>2, AllocatedRows
    <3> QED
      BY <3>1, <3>2
  <2>3. ASSUME NEW v \in Vehicles, NEW m \in Months, NEW amount \in Nat,
               checkAndReserveFuelBudget(v, m, amount)
        PROVE  \A u \in Vehicles, n \in Months : IsClosed(u, n) => row'[u][n] = row[u][n]
    <3>1. \A u \in Vehicles : ~IsClosed(u, m)
      BY <2>3, OpenPeriodRows DEF checkAndReserveFuelBudget, MayReserve
    <3>2. \A u \in Vehicles, n \in Months : n # m => row'[u][n] = row[u][n]
      BY <1>1, <2>3, ReservedRows
    <3> QED
      BY <3>1, <3>2
  <2>4. ASSUME NEW v \in Vehicles, NEW m \in Months, NEW amount \in Nat,
               releaseFuelBudget(v, m, amount),
               NEW u \in Vehicles, NEW n \in Months
        PROVE  Frozen(u, n)
    <3>1. CASE row'[u][n] = row[u][n]
      BY <2>1, <3>1
    <3>2. CASE row'[u][n] # row[u][n]
      <4>1. /\ HasRow(u, n) /\ row'[u][n] \in Row
            /\ row'[u][n].isClosed = row[u][n].isClosed
            /\ IsClosed(u, n) =>
                 /\ row'[u][n].baseAmount = row[u][n].baseAmount
                 /\ row'[u][n].spentAmount <= row[u][n].spentAmount
                 /\ row'[u][n].rolloverIn >= row[u][n].rolloverIn
        BY <1>1, <2>4, <3>2, ReleasedRows
      <4> QED
        BY <4>1, BudgetAssumption DEF IsClosed, HasRow
    <3> QED
      BY <3>1, <3>2
  <2>5. ASSUME NEW m \in Months, NEW deferring, closeMonthAndRollover(m, deferring)
        PROVE  \A v \in Vehicles, n \in Months : IsClosed(v, n) => row'[v][n] = row[v][n]
    <3>1. \A v \in Vehicles : ~IsClosed(v, m) /\ ~IsClosed(v, m + 1)
      BY <1>1, <2>5, ClosedRows DEF closeMonthAndRollover, isBudgetPeriodClosed
    <3>2. \A v \in Vehicles, n \in Months \ {m, m + 1} : row'[v][n] = row[v][n]
      BY <1>1, <2>5, ClosedRows
    <3> QED
      BY <3>1, <3>2
  <2>6. ASSUME NEW v \in Vehicles, deactivateVehicle(v)
        PROVE  \A u \in Vehicles, n \in Months : IsClosed(u, n) => row'[u][n] = row[u][n]
    BY <1>1, <2>6, DeactivatedRows DEF IsOpen, IsClosed
  <2>7. (\A u \in Vehicles, n \in Months : IsClosed(u, n) => row'[u][n] = row[u][n])
          => \A v \in Vehicles, m \in Months : Frozen(v, m)
    BY <2>1
  <2>8. row' = row => \A v \in Vehicles, m \in Months : Frozen(v, m)
    BY <2>1
  <2> HIDE DEF Frozen
  <2> QED
    BY <1>1, <2>2, <2>3, <2>4, <2>5, <2>6, <2>7, <2>8, StepForms
       DEF SetMonthlyPool, NextMonthBegins, vars
<1>2. TypeOK /\ [Next]_vars =>
        [\A v \in Vehicles, m \in Months : Frozen(v, m)]_vars
  BY <1>1
<1> QED
  BY <1>2, TypeCorrect, PTL DEF Spec, ClosedRowsFrozen

-----------------------------------------------------------------------------
(* Rollover happens exactly once *)

LEMMA InitRollover == Init => RolloverExact
<1> SUFFICES ASSUME Init, NEW v \in Vehicles, NEW m \in Months \ {LastMonth}
             PROVE  /\ IsClosed(v, m) => HasRow(v, m + 1)
                    /\ HasRow(v, m + 1) =>
                         row[v][m + 1].rolloverIn =
                           IF IsClosed(v, m) THEN Remainder(row[v][m]) ELSE 0
  BY DEF RolloverExact, Init
<1>1. \A n \in 1..FirstOpen - 1 : IsClosed(v, n) <=> HasRow(v, n)
  BY InitRows DEF IsClosed, HistoryRow
<1>2. ~IsClosed(v, m) \/ m < FirstOpen
  BY InitClosing DEF ClosedIsPast, isBudgetPeriodClosed, Init
<1>3. CASE m \in 1..FirstOpen - 2
  <2>1. m \in 1..FirstOpen - 1 /\ FirstOpen > 1
    BY <1>3, BudgetAssumption
  <2> QED
    BY <1>1, <1>3, <2>1, InitRows
<1>4. CASE m = FirstOpen - 1
  <2>1. FirstOpen > 1 /\ m \in 1..FirstOpen - 1 /\ m + 1 = FirstOpen
    BY <1>4, BudgetAssumption DEF Months
  <2>2. row[v][m] \in Row \cup {NoRow} /\ row[v][FirstOpen] = OpeningRow(row[v][m])
    BY <1>4, <2>1, InitRows
  <2>3. HasRow(v, m) => HasRow(v, FirstOpen) /\ row[v][FirstOpen].rolloverIn = Remainder(row[v][m])
    BY <2>2, OpeningRowIsRow, BudgetAssumption DEF HasRow
  <2>4. ~HasRow(v, m) => ~HasRow(v, FirstOpen)
    BY <2>2, OpeningRowIsRow DEF HasRow
  <2> QED
    BY <1>1, <2>1, <2>3, <2>4
<1>5. CASE m >= FirstOpen
  <2>1. m + 1 \in FirstOpen + 1..LastMonth
    BY <1>5, BudgetAssumption DEF Months
  <2>2. ~(m < FirstOpen)
    BY <1>5, BudgetAssumption DEF Months
  <2> QED
    BY <1>2, <2>1, <2>2, InitRows
<1> QED
  BY <1>3, <1>4, <1>5, BudgetAssumption DEF Months

(* A step that changes no closed row, closes none, gives the rows it changes *)
(* the rollover they had and the rows it makes none, keeps rollovers exact.  *)
LEMMA KeepsRollover ==
  ASSUME TypeOK, RolloverExact, active' \subseteq active,
         \A v \in active', n \in Months :
           \/ row'[v][n] = row[v][n]
           \/ /\ row'[v][n] \in Row /\ ~IsClosed(v, n) /\ ~IsClosed(v, n)'
              /\ row'[v][n].rolloverIn = IF HasRow(v, n) THEN row[v][n].rolloverIn ELSE 0
  PROVE  RolloverExact'
<1> SUFFICES ASSUME NEW v \in active', NEW m \in Months \ {LastMonth}
             PROVE  /\ IsClosed(v, m)' => HasRow(v, m + 1)'
                    /\ HasRow(v, m + 1)' =>
                         row'[v][m + 1].rolloverIn =
                           IF IsClosed(v, m)' THEN Remainder(row'[v][m]) ELSE 0
  BY DEF RolloverExact
<1>1. v \in active /\ m + 1 \in Months
  BY BudgetAssumption DEF Months
<1>2. /\ IsClosed(v, m) => HasRow(v, m + 1)
      /\ HasRow(v, m + 1) =>
           row[v][m + 1].rolloverIn = IF IsClosed(v, m) THEN Remainder(row[v][m]) ELSE 0
  BY <1>1 DEF RolloverExact
<1>3. /\ IsClosed(v, m)' <=> IsClosed(v, m)
      /\ IsClosed(v, m) => row'[v][m] = row[v][m]
  BY DEF IsClosed, HasRow
<1>4. HasRow(v, m + 1) => HasRow(v, m + 1)' /\ row'[v][m + 1].rolloverIn = row[v][m + 1].rolloverIn
  BY <1>1, BudgetAssumption DEF HasRow
<1>5. HasRow(v, m + 1)' /\ ~HasRow(v, m + 1) => row'[v][m + 1].rolloverIn = 0
  BY <1>1 DEF HasRow
<1> QED
  BY <1>2, <1>3, <1>4, <1>5

(* A release moves exactly what it adds to the remainder of each closed      *)
(* month into the rollover of the next.                                      *)
LEMMA ReleaseKeepsRollover ==
  ASSUME TypeOK, RolloverExact,
         NEW v \in Vehicles, NEW m \in Months, NEW amount \in Nat,
         releaseFuelBudget(v, m, amount)
  PROVE  RolloverExact'
<1>1. CASE v \notin active
  <2>1. \A u \in Vehicles, n \in Months : u # v => row'[u][n] = row[u][n]
    BY ReleasedRows
  <2>2. active' = active /\ active \subseteq Vehicles
    BY DEF releaseFuelBudget, TypeOK
  <2> QED
    BY <1>1, <2>1, <2>2, KeepsRollover
<1>2. CASE v \in active
  <2>1. /\ active' = active /\ active \subseteq Vehicles /\ HasRow(v, m) /\ row[v][m] \in Row
        /\ amount <= row[v][m].spentAmount /\ ReleaseAndPropagate(v, m, amount)
    BY <1>2 DEF releaseFuelBudget, ReleaseFromInactiveOpen, TypeOK, HasRow
  <2>2. PICK carry \in [m..LastMonth -> Nat] :
          /\ IsCarry(v, m, amount, carry)
          /\ ChainComplete(v, m, carry)
          /\ row' \in [Vehicles -> [Months -> Row \cup {NoRow}]]
          /\ \A w \in Vehicles \ {v} : row'[w] = row[w]
          /\ \A k \in 1..m - 1 : row'[v][k] = row[v][k]
          /\ row'[v][m] = Released(row[v][m], amount)
          /\ \A k \in m + 1..LastMonth :
               row'[v][k] = IF Receives(v, k) /\ carry[k - 1] > 0
                              THEN Credited(row[v][k], carry[k - 1]) ELSE row[v][k]
    BY <2>1, PropagatedRows
  <2>3. \A u \in Vehicles, n \in Months :
          (HasRow(u, n)' <=> HasRow(u, n)) /\ (IsClosed(u, n)' <=> IsClosed(u, n))
    <3> SUFFICES ASSUME NEW u \in Vehicles, NEW n \in Months
                 PROVE  (HasRow(u, n)' <=> HasRow(u, n)) /\ (IsClosed(u, n)' <=> IsClosed(u, n))
      OBVIOUS
    <3>1. CASE row'[u][n] = row[u][n]
      BY <3>1 DEF HasRow, IsClosed
    <3>2. CASE row'[u][n] # row[u][n]
      <4>1. /\ HasRow(u, n) /\ row'[u][n] \in Row
            /\ row'[u][n].isClosed = row[u][n].isClosed
        BY <3>2, ReleasedRows
      <4> QED
        BY <4>1, BudgetAssumption DEF IsClosed, HasRow
    <3> QED
      BY <3>1, <3>2
  <2>4. ASSUME NEW n \in m..LastMonth
        PROVE  /\ IsClosed(v, n) => Remainder(row'[v][n]) = Remainder(row[v][n]) + carry[n]
               /\ ~IsClosed(v, n) => carry[n] = 0
    <3>1. CASE n = m
      <4>1. carry[m] = IF row[v][m].isClosed THEN Gain(row[v][m], amount) ELSE 0
        BY <2>2 DEF IsCarry
      <4>2. Remainder(Released(row[v][m], amount)) = Remainder(row[v][m]) + Gain(row[v][m], amount)
        BY <2>1, ReleasedRow
      <4> QED
        BY <2>1, <2>2, <3>1, <4>1, <4>2 DEF IsClosed
    <3>2. CASE n # m
      <4>1. n \in m + 1..LastMonth /\ n - 1 \in m..LastMonth /\ n \in Months
        BY <3>2, BudgetAssumption DEF Months
      <4>2. /\ carry[n] = IF carry[n - 1] > 0 /\ Receives(v, n) /\ row[v][n].isClosed
                            THEN Gain(row[v][n], carry[n - 1]) ELSE 0
            /\ carry[n - 1] \in Nat
        BY <2>2, <4>1 DEF IsCarry
      <4>3. row'[v][n] = IF Receives(v, n) /\ carry[n - 1] > 0
                           THEN Credited(row[v][n], carry[n - 1]) ELSE row[v][n]
        BY <2>2, <4>1
      <4>4. CASE ~IsClosed(v, n)
        BY <4>2, <4>4 DEF IsClosed, Receives
      <4>5. CASE IsClosed(v, n)
        <5>1. row[v][n] \in Row /\ Receives(v, n) /\ row[v][n].isClosed
          BY <4>1, <4>5 DEF IsClosed, Receives, HasRow, TypeOK
        <5>2. CASE carry[n - 1] > 0
          <6>1. Remainder(Credited(row[v][n], carry[n - 1]))
                  = Remainder(row[v][n]) + Gain(row[v][n], carry[n - 1])
            BY <4>2, <5>1, CreditedRow
          <6> QED
            BY <4>2, <4>3, <4>5, <5>1, <5>2, <6>1
        <5>3. CASE ~(carry[n - 1] > 0)
          <6>1. Remainder(row[v][n]) \in Nat
            BY <5>1, RowArithmetic
          <6>2. row'[v][n] = row[v][n] /\ carry[n] = 0
            BY <4>2, <4>3, <5>3
          <6> QED
            BY <4>5, <6>1, <6>2
        <5> QED
          BY <5>2, <5>3
      <4> QED
        BY <4>4, <4>5
    <3> QED
      BY <3>1, <3>2
  <2>5. ASSUME NEW n \in m..LastMonth, n # LastMonth, HasRow(v, n + 1)
        PROVE  row'[v][n + 1].rolloverIn = row[v][n + 1].rolloverIn + carry[n]
    <3>1. n + 1 \in m + 1..LastMonth /\ n + 1 \in Months /\ (n + 1) - 1 = n
      BY <2>5, BudgetAssumption DEF Months
    <3>2. row[v][n + 1] \in Row /\ Receives(v, n + 1) /\ carry[n] \in Nat
      BY <1>2, <2>2, <2>5, <3>1 DEF Receives, HasRow, TypeOK
    <3>3. row'[v][n + 1] = IF carry[n] > 0 THEN Credited(row[v][n + 1], carry[n])
                           ELSE row[v][n + 1]
      BY <2>2, <3>1, <3>2
    <3>4. Credited(row[v][n + 1], carry[n]).rolloverIn = row[v][n + 1].rolloverIn + carry[n]
      BY <3>2, CreditedRow
    <3>5. row[v][n + 1].rolloverIn \in Nat
      BY <3>2 DEF Row
    <3>6. CASE carry[n] > 0
      BY <3>3, <3>4, <3>6
    <3>7. CASE carry[n] = 0
      BY <3>3, <3>5, <3>7
    <3> QED
      BY <3>2, <3>6, <3>7
  <2>6. \A n \in 1..m - 1 : HasRow(v, n + 1) =>
          row'[v][n + 1].rolloverIn = row[v][n + 1].rolloverIn
    <3> SUFFICES ASSUME NEW n \in 1..m - 1
                 PROVE  row'[v][n + 1].rolloverIn = row[v][n + 1].rolloverIn
      OBVIOUS
    <3>1. CASE n + 1 = m
      <4>1. Released(row[v][m], amount).rolloverIn = row[v][m].rolloverIn
        BY <2>1, ReleasedRow
      <4> QED
        BY <2>2, <3>1, <4>1
    <3>2. CASE n + 1 # m
      <4>1. n + 1 \in 1..m - 1
        BY <3>2, BudgetAssumption DEF Months
      <4> QED
        BY <2>2, <4>1
    <3> QED
      BY <3>1, <3>2
  <2>7. ASSUME NEW u \in active, NEW n \in Months \ {LastMonth}
        PROVE  /\ IsClosed(u, n) => HasRow(u, n + 1)
               /\ HasRow(u, n + 1) =>
                    row'[u][n + 1].rolloverIn =
                      IF IsClosed(u, n) THEN Remainder(row'[u][n]) ELSE 0
    <3>1. /\ IsClosed(u, n) => HasRow(u, n + 1)
          /\ HasRow(u, n + 1) =>
               row[u][n + 1].rolloverIn = IF IsClosed(u, n) THEN Remainder(row[u][n]) ELSE 0
      BY <2>7 DEF RolloverExact
    <3>2. CASE u # v
      BY <2>1, <2>2, <2>7, <3>1, <3>2
    <3>3. CASE u = v /\ n \in 1..m - 1
      BY <2>2, <2>6, <3>1, <3>3
    <3>4. CASE u = v /\ n \in m..LastMonth
      <4>1. IsClosed(v, n) => row[v][n] \in Row
        BY <2>7 DEF IsClosed, HasRow, TypeOK
      <4>2. HasRow(v, n + 1) => row'[v][n + 1].rolloverIn = row[v][n + 1].rolloverIn + carry[n]
        BY <2>5, <2>7, <3>4
      <4>3. /\ IsClosed(v, n) => Remainder(row'[v][n]) = Remainder(row[v][n]) + carry[n]
            /\ ~IsClosed(v, n) => carry[n] = 0
        BY <2>4, <3>4
      <4> QED
        BY <3>1, <3>4, <4>2, <4>3
    <3> QED
      BY <2>7, <3>2, <3>3, <3>4, BudgetAssumption DEF Months
  <2>8. \A n \in Months \ {LastMonth} : n + 1 \in Months
    BY BudgetAssumption DEF Months
  <2> QED
    BY <2>1, <2>3, <2>7, <2>8 DEF RolloverExact
<1> QED
  BY <1>1, <1>2


(* Closing a month moves its remainder, and nothing else, into the next one. *)
LEMMA CloseKeepsRollover ==
  ASSUME TypeOK, RolloverExact,
         NEW m \in Months, NEW deferring, closeMonthAndRollover(m, deferring)
  PROVE  RolloverExact'
<1>1. /\ m + 1 \in Months /\ m # LastMonth /\ active' = active /\ active \subseteq Vehicles
      /\ \A v \in Vehicles : ~IsClosed(v, m) /\ ~IsClosed(v, m + 1)
  BY ClosedRows, BudgetAssumption
     DEF closeMonthAndRollover, isBudgetPeriodClosed, TypeOK, Months
<1> SUFFICES ASSUME NEW v \in active, NEW n \in Months \ {LastMonth}
             PROVE  /\ IsClosed(v, n)' => HasRow(v, n + 1)'
                    /\ HasRow(v, n + 1)' =>
                         row'[v][n + 1].rolloverIn =
                           IF IsClosed(v, n)' THEN Remainder(row'[v][n]) ELSE 0
  BY <1>1 DEF RolloverExact
<1>2. /\ IsClosed(v, n) => HasRow(v, n + 1)
      /\ HasRow(v, n + 1) =>
           row[v][n + 1].rolloverIn = IF IsClosed(v, n) THEN Remainder(row[v][n]) ELSE 0
  BY DEF RolloverExact
<1>3. HasRow(v, m + 1) => row[v][m + 1].rolloverIn = 0
  BY <1>1 DEF RolloverExact
<1>4. v \in Vehicles /\ n + 1 \in Months
  BY <1>1, BudgetAssumption DEF Months
<1>5. \A k \in Months \ {m, m + 1} : row'[v][k] = row[v][k]
  BY <1>4, ClosedRows
<1>6. CASE ~IsOpen(v, m)
  <2>1. row'[v][m] = row[v][m] /\ row'[v][m + 1] = row[v][m + 1]
    BY <1>4, <1>6, ClosedRows
  <2>2. \A k \in Months : row'[v][k] = row[v][k]
    BY <1>5, <2>1
  <2> QED
    BY <1>2, <1>4, <2>2 DEF IsClosed, HasRow
<1>7. CASE IsOpen(v, m)
  <2> DEFINE r == RolledOver(row[v][m + 1], Remainder(row[v][m]))
             c == [row[v][m] EXCEPT !.isClosed = TRUE]
  <2>1. row'[v][m] = c /\ row'[v][m + 1] = r
    BY <1>4, <1>7, ClosedRows
  <2>2. /\ row[v][m] \in Row /\ Remainder(row[v][m]) \in Nat
        /\ row[v][m + 1] \in Row \cup {NoRow}
    BY <1>1, <1>4, <1>7, RowArithmetic DEF IsOpen, HasRow, TypeOK
  <2>3. /\ c \in Row /\ c.isClosed = TRUE /\ c.rolloverIn = row[v][m].rolloverIn
        /\ Remainder(c) = Remainder(row[v][m])
    BY <2>2, RowUpdate, ZenonT(40) DEF Row, Remainder, Available
  <2>4. /\ OrEmpty(row[v][m + 1]).rolloverIn = 0
        /\ OrEmpty(row[v][m + 1]).isClosed = FALSE
    BY <1>1, <1>3, <1>4, <2>2 DEF OrEmpty, EmptyRow, IsClosed, HasRow, Row
  <2>5. r \in Row /\ r.rolloverIn = Remainder(row[v][m]) /\ r.isClosed = FALSE
    <3>1. /\ r \in Row /\ r.isClosed = OrEmpty(row[v][m + 1]).isClosed
          /\ r.rolloverIn = OrEmpty(row[v][m + 1]).rolloverIn + Remainder(row[v][m])
      BY <2>2, RolledOverRow
    <3> HIDE DEF r
    <3> QED
      BY <2>2, <2>4, <3>1
  <2> HIDE DEF r, c
  <2>6. CASE n = m
    BY <2>1, <2>3, <2>5, <2>6, BudgetAssumption DEF IsClosed, HasRow
  <2>7. CASE n = m + 1
    <3>1. row'[v][n + 1] = row[v][n + 1] /\ ~IsClosed(v, n)
      BY <1>1, <1>4, <1>5, <2>7, BudgetAssumption DEF Months
    <3>2. ~IsClosed(v, n)'
      BY <2>1, <2>5, <2>7 DEF IsClosed
    <3> QED
      BY <1>2, <3>1, <3>2 DEF HasRow
  <2>8. CASE n + 1 = m
    <3>1. row'[v][n] = row[v][n]
      BY <1>5, <2>8, BudgetAssumption DEF Months
    <3>2. HasRow(v, m) /\ HasRow(v, m)'
      BY <1>7, <2>1, <2>3, BudgetAssumption DEF IsOpen, HasRow
    <3>3. row'[v][n + 1].rolloverIn = row[v][n + 1].rolloverIn
      BY <2>1, <2>3, <2>8
    <3> QED
      BY <1>2, <2>8, <3>1, <3>2, <3>3 DEF IsClosed, HasRow
  <2>9. CASE n \notin {m, m + 1} /\ n + 1 # m
    <3>1. n + 1 # m + 1
      BY <2>9, BudgetAssumption DEF Months
    <3>2. row'[v][n] = row[v][n] /\ row'[v][n + 1] = row[v][n + 1]
      BY <1>4, <1>5, <2>9, <3>1
    <3> QED
      BY <1>2, <3>2 DEF IsClosed, HasRow
  <2> QED
    BY <2>6, <2>7, <2>8, <2>9
<1> QED
  BY <1>6, <1>7

LEMMA StepRollover ==
  ASSUME TypeOK, RolloverExact, [Next]_vars
  PROVE  RolloverExact'
<1>1. active \subseteq Vehicles
  BY DEF TypeOK
<1>2. ASSUME NEW m \in Months, NEW alloc, alloc \in [DOMAIN alloc -> Nat], Allocate(m, alloc)
      PROVE  RolloverExact'
  <2>1. active' = active /\ \A v \in Vehicles : ~IsClosed(v, m)
    BY <1>2, OpenPeriodRows DEF Allocate
  <2>2. \A v \in Vehicles, n \in Months :
          \/ row'[v][n] = row[v][n]
          \/ /\ n = m /\ row'[v][n] \in Row /\ row'[v][n].isClosed = FALSE
             /\ row'[v][n].rolloverIn = IF HasRow(v, n) THEN row[v][n].rolloverIn ELSE 0
    BY <1>2, AllocatedRows, ZenonT(40)
  <2>3. \A v \in Vehicles, n \in Months : row'[v][n].isClosed = FALSE => ~IsClosed(v, n)'
    BY DEF IsClosed
  <2> QED
    BY <1>1, <2>1, <2>2, <2>3, KeepsRollover
<1>3. ASSUME NEW v \in Vehicles, NEW m \in Months, NEW amount \in Nat,
             checkAndReserveFuelBudget(v, m, amount)
      PROVE  RolloverExact'
  <2>1. active' = active /\ \A u \in Vehicles : ~IsClosed(u, m)
    BY <1>3, OpenPeriodRows DEF checkAndReserveFuelBudget, MayReserve
  <2>2. \A u \in Vehicles, n \in Months :
          \/ row'[u][n] = row[u][n]
          \/ /\ n = m /\ HasRow(u, n) /\ row'[u][n] \in Row
             /\ row'[u][n].isClosed = row[u][n].isClosed
             /\ row'[u][n].rolloverIn = row[u][n].rolloverIn
    BY <1>3, ReservedRows
  <2>3. \A u \in Vehicles, n \in Months :
          HasRow(u, n) /\ row'[u][n].isClosed = row[u][n].isClosed /\ ~IsClosed(u, n)
            => ~IsClosed(u, n)'
    BY DEF IsClosed
  <2> QED
    BY <1>1, <2>1, <2>2, <2>3, KeepsRollover
<1>4. ASSUME NEW v \in Vehicles, deactivateVehicle(v)
      PROVE  RolloverExact'
  <2>1. active' = active \ {v}
    BY <1>4 DEF deactivateVehicle
  <2>2. \A u \in active', n \in Months : row'[u][n] = row[u][n]
    BY <1>1, <1>4, <2>1, DeactivatedRows
  <2> QED
    BY <2>1, <2>2, KeepsRollover
<1>5. CASE row' = row /\ active' = active
  BY <1>5 DEF RolloverExact, IsClosed, HasRow
<1> QED
  BY <1>2, <1>3, <1>4, <1>5, ReleaseKeepsRollover, CloseKeepsRollover, StepForms
     DEF SetMonthlyPool, NextMonthBegins, vars

(* For any fleet, calendar and amounts, the rollover of a month is what the  *)
(* month before it left over if that one is closed and nothing otherwise:    *)
(* closing moves a remainder once, and a later release carries exactly the   *)
(* difference forward.                                                       *)
THEOREM RolloverStaysExact == Spec => []RolloverExact
<1>1. TypeOK /\ RolloverExact /\ [Next]_vars => RolloverExact'
  BY StepRollover
<1> QED
  BY <1>1, InitRollover, TypeCorrect, PTL DEF Spec

-----------------------------------------------------------------------------
(* A removed vehicle holds no money *)

LEMMA StepInactive ==
  ASSUME TypeOK, InactiveHoldsNothing, [Next]_vars
  PROVE  InactiveHoldsNothing'
<1> SUFFICES ASSUME NEW u \in Vehicles, u \notin active', NEW n \in Months, IsOpen(u, n)'
             PROVE  row'[u][n].isCutOff = TRUE /\ Available(row'[u][n]) <= 0
  BY DEF InactiveHoldsNothing
<1>1. row'[u][n] # NoRow /\ ~row'[u][n].isClosed
  BY DEF IsOpen, HasRow
<1>2. /\ row[u][n] \in Row \cup {NoRow}
      /\ IsOpen(u, n) => row[u][n] \in Row
  BY DEF TypeOK, IsOpen, HasRow
<1>3. ASSUME u \notin active, row'[u][n] = row[u][n]
      PROVE  row'[u][n].isCutOff = TRUE /\ Available(row'[u][n]) <= 0
  <2>1. IsOpen(u, n)
    BY <1>1, <1>3 DEF IsOpen, HasRow
  <2>2. row[u][n].isCutOff /\ Available(row[u][n]) <= 0
    BY <1>3, <2>1 DEF InactiveHoldsNothing
  <2> QED
    BY <1>2, <1>3, <2>1, <2>2 DEF Row
<1>4. ASSUME NEW m \in Months, NEW alloc, alloc \in [DOMAIN alloc -> Nat], Allocate(m, alloc)
      PROVE  u \notin active /\ row'[u][n] = row[u][n]
  BY <1>4, AllocatedRows DEF Allocate
<1>5. ASSUME NEW v \in Vehicles, NEW m \in Months, NEW amount \in Nat,
             checkAndReserveFuelBudget(v, m, amount)
      PROVE  u \notin active /\ row'[u][n] = row[u][n]
  BY <1>5, ReservedRows DEF checkAndReserveFuelBudget
<1>6. ASSUME NEW v \in Vehicles, NEW m \in Months, NEW amount \in Nat,
             releaseFuelBudget(v, m, amount)
      PROVE  row'[u][n].isCutOff = TRUE /\ Available(row'[u][n]) <= 0
  <2>1. u \notin active
    BY <1>6 DEF releaseFuelBudget
  <2>2. CASE row'[u][n] # row[u][n]
    <3>1. /\ HasRow(u, n) /\ row'[u][n].isClosed = row[u][n].isClosed
          /\ IsOpen(u, n) /\ u \notin active =>
               row'[u][n].isCutOff = TRUE /\ Available(row'[u][n]) <= 0
      BY <1>6, <2>2, ReleasedRows
    <3>2. IsOpen(u, n)
      BY <1>1, <3>1 DEF IsOpen
    <3> QED
      BY <2>1, <3>1, <3>2
  <2> QED
    BY <1>3, <2>1, <2>2
<1>7. ASSUME NEW m \in Months, NEW deferring, closeMonthAndRollover(m, deferring)
      PROVE  u \notin active /\ row'[u][n] = row[u][n]
  <2>1. u \notin active
    BY <1>7 DEF closeMonthAndRollover
  <2>2. ~(IsOpen(u, m) /\ n = m)
    <3>1. SUFFICES ASSUME IsOpen(u, m), n = m
                   PROVE  FALSE
      OBVIOUS
    <3>2. row'[u][m] = [row[u][m] EXCEPT !.isClosed = TRUE]
      BY <1>7, <3>1, ClosedRows
    <3>3. row'[u][m].isClosed = TRUE
      BY <1>2, <3>1, <3>2 DEF Row
    <3> QED
      BY <1>1, <3>1, <3>3
  <2>3. CASE n \notin {m, m + 1}
    BY <1>7, <2>1, <2>3, ClosedRows
  <2>4. CASE n \in {m, m + 1} /\ ~IsOpen(u, m)
    <3>1. row'[u][m] = row[u][m] /\ row'[u][m + 1] = row[u][m + 1]
      BY <1>7, <2>4, ClosedRows
    <3> QED
      BY <2>1, <2>4, <3>1
  <2>5. CASE n = m + 1 /\ IsOpen(u, m)
    BY <1>7, <2>1, <2>5, ClosedRows
  <2> QED
    BY <2>2, <2>3, <2>4, <2>5
<1>8. ASSUME NEW v \in Vehicles, deactivateVehicle(v)
      PROVE  row'[u][n].isCutOff = TRUE /\ Available(row'[u][n]) <= 0
  <2>1. CASE u = v
    <3>1. row'[u][n] = IF IsOpen(u, n) THEN Normalized(row[u][n]) ELSE row[u][n]
      BY <1>8, <2>1, DeactivatedRows
    <3>2. IsOpen(u, n)
      BY <1>1, <3>1 DEF IsOpen, HasRow
    <3>3. Available(row[u][n]) \in Int
      BY <1>2, <3>2, RowArithmetic
    <3>4. /\ Normalized(row[u][n]).isCutOff = TRUE
          /\ Available(Normalized(row[u][n])) = Smaller(Available(row[u][n]), 0)
      BY <1>2, <3>2, NormalizedRow
    <3> QED
      BY <3>1, <3>2, <3>3, <3>4 DEF Smaller
  <2>2. CASE u # v
    <3>1. u \notin active /\ row'[u][n] = row[u][n]
      BY <1>8, <2>2, DeactivatedRows DEF deactivateVehicle
    <3> QED
      BY <1>3, <3>1
  <2> QED
    BY <2>1, <2>2
<1>9. CASE \/ \E m \in Months, total \in Nat : SetMonthlyPool(m, total)
           \/ NextMonthBegins
           \/ UNCHANGED vars
  <2>1. u \notin active /\ row'[u][n] = row[u][n]
    BY <1>9 DEF SetMonthlyPool, NextMonthBegins, vars
  <2> QED
    BY <1>3, <2>1
<1> QED
  BY <1>3, <1>4, <1>5, <1>6, <1>7, <1>8, <1>9, StepForms

(* For any fleet and calendar: whatever is released into its closed months or *)
(* rolled over after it was removed, a removed vehicle has nothing to spend.  *)
THEOREM InactiveStaysEmpty == Spec => []InactiveHoldsNothing
<1>1. Init => InactiveHoldsNothing
  BY DEF Init, InactiveHoldsNothing
<1>2. TypeOK /\ InactiveHoldsNothing /\ [Next]_vars => InactiveHoldsNothing'
  BY StepInactive
<1> QED
  BY <1>1, <1>2, TypeCorrect, PTL DEF Spec

-----------------------------------------------------------------------------
(* A pool covers what is assigned of it *)

(* A removed vehicle keeps no more than its base. *)
LEMMA NormalizedBase ==
  ASSUME NEW r \in Row
  PROVE  Normalized(r).baseAmount <= r.baseAmount
<1>1. Normalized(r).baseAmount = Smaller(r.baseAmount, r.spentAmount)
  BY DEF Row, Normalized
<1> QED
  BY <1>1 DEF Row, Smaller


(* An amount that is read from a row is a natural number. *)
LEMMA BaseIsNat ==
  ASSUME NEW r \in [Vehicles -> [Months -> Row \cup {NoRow}]], NEW v \in Vehicles, NEW m \in Months
  PROVE  r[v][m] # NoRow => r[v][m].baseAmount \in Nat
<1>1. r[v][m] \in Row \cup {NoRow}
  OBVIOUS
<1> QED
  BY <1>1 DEF Row

(* Apart from allocating, no operation raises a base amount. *)
BasesFall == \A v \in Vehicles, m \in Months : BaseOf(v, m)' <= BaseOf(v, m)

BasesAreNat == \A v \in Vehicles, m \in Months : BaseOf(v, m) \in Nat

LEMMA BasesTyped == TypeOK => BasesAreNat
  BY BaseIsNat DEF TypeOK, BasesAreNat, BaseOf, HasRow

(* It is enough to look at the rows that a step writes. *)
LEMMA FallingRows ==
  ASSUME TypeOK, TypeOK',
         \A v \in Vehicles, m \in Months :
           \/ row'[v][m] = row[v][m]
           \/ HasRow(v, m) /\ HasRow(v, m)' /\ row'[v][m].baseAmount <= row[v][m].baseAmount
           \/ ~HasRow(v, m) /\ HasRow(v, m)' /\ row'[v][m].baseAmount = 0
  PROVE  BasesFall
<1> SUFFICES ASSUME NEW v \in Vehicles, NEW m \in Months
             PROVE  BaseOf(v, m)' <= BaseOf(v, m)
  BY DEF BasesFall
<1>1. BaseOf(v, m) \in Nat
  BY BasesTyped DEF BasesAreNat
<1> QED
  BY <1>1 DEF BaseOf, HasRow

(* Charging, releasing, closing and removing, one after the other. *)
LEMMA ReserveKeepsBases ==
  ASSUME TypeOK, NEW v \in Vehicles, NEW m \in Months, NEW amount \in Nat,
         checkAndReserveFuelBudget(v, m, amount)
  PROVE  BasesFall
<1>1. TypeOK'
  BY ReserveTypeOK
<1> SUFFICES ASSUME NEW u \in Vehicles, NEW n \in Months, row'[u][n] # row[u][n]
             PROVE  HasRow(u, n) /\ HasRow(u, n)' /\ row'[u][n].baseAmount <= row[u][n].baseAmount
  BY <1>1, FallingRows
<1>2. HasRow(v, m) /\ u = v /\ n = m
  BY ReservedRows
<1>3. row[u][n] \in Row /\ row'[u][n] \in Row
  BY <1>2, ReservedRows DEF HasRow, TypeOK
<1>4. row'[u][n] = Reserved(row[u][n], amount)
  BY <1>2 DEF checkAndReserveFuelBudget, TypeOK
<1>5. Reserved(row[u][n], amount).baseAmount = row[u][n].baseAmount
  BY <1>3 DEF Reserved, Row
<1> QED
  BY <1>2, <1>3, <1>4, <1>5, BudgetAssumption DEF HasRow, Row

LEMMA ReleaseKeepsBases ==
  ASSUME TypeOK, NEW v \in Vehicles, NEW m \in Months, NEW amount \in Nat,
         releaseFuelBudget(v, m, amount)
  PROVE  BasesFall
<1>1. TypeOK'
  BY ReleaseTypeOK
<1> SUFFICES ASSUME NEW u \in Vehicles, NEW n \in Months, row'[u][n] # row[u][n]
             PROVE  HasRow(u, n) /\ HasRow(u, n)' /\ row'[u][n].baseAmount <= row[u][n].baseAmount
  BY <1>1, FallingRows
<1>0. \A a \in Vehicles, b \in Months :
        row'[a][b] = row[a][b] \/ (a = v /\ HasRow(a, b) /\ row'[a][b] \in Row)
  BY ReleasedRows
<1>2. u = v /\ HasRow(u, n) /\ row'[u][n] \in Row /\ row[u][n] \in Row
  <2>1. u = v /\ HasRow(u, n) /\ row'[u][n] \in Row
    BY <1>0
  <2> QED
    BY <2>1 DEF HasRow, TypeOK
<1>3. HasRow(v, m) /\ row[v][m] \in Row /\ amount <= row[v][m].spentAmount
  BY DEF releaseFuelBudget, HasRow, TypeOK
<1>4. row'[u][n].baseAmount <= row[u][n].baseAmount
  <2>1. CASE ReleaseFromInactiveOpen(v, m, amount)
    <3> DEFINE less == [row[v][m] EXCEPT !.spentAmount = @ - amount]
    <3>1. less \in Row /\ less.baseAmount = row[v][m].baseAmount
      BY <1>3, ReleasedRow DEF Row
    <3>2. n = m /\ row'[u][n] = Normalized(less)
      BY <1>2, <2>1 DEF ReleaseFromInactiveOpen, TypeOK
    <3> QED
      <4> HIDE DEF less
      <4> QED
        BY <1>2, <3>1, <3>2, NormalizedBase
  <2>2. CASE ReleaseAndPropagate(v, m, amount)
    <3>1. PICK carry \in [m..LastMonth -> Nat] :
            /\ \A k \in 1..m - 1 : row'[v][k] = row[v][k]
            /\ row'[v][m] = Released(row[v][m], amount)
            /\ \A k \in m + 1..LastMonth :
                 row'[v][k] = IF Receives(v, k) /\ carry[k - 1] > 0
                                THEN Credited(row[v][k], carry[k - 1]) ELSE row[v][k]
      BY <1>3, <2>2, PropagatedRows
    <3>2. CASE n = m
      <4>1. Released(row[v][m], amount).baseAmount = row[v][m].baseAmount
        BY <1>3, ReleasedRow
      <4>2. row[v][m].baseAmount \in Nat
        BY <1>3 DEF Row
      <4> QED
        BY <1>2, <3>1, <3>2, <4>1, <4>2
    <3>3. CASE n \in m + 1..LastMonth
      <4>1. n - 1 \in m..LastMonth
        BY <3>3, BudgetAssumption DEF Months
      <4>2. row'[v][n] = Credited(row[v][n], carry[n - 1]) /\ carry[n - 1] \in Nat
        BY <1>2, <3>1, <3>3, <4>1
      <4>3. Credited(row[v][n], carry[n - 1]).baseAmount = row[v][n].baseAmount
        BY <1>2, <4>2, CreditedRow
      <4> QED
        BY <1>2, <4>2, <4>3 DEF Row
    <3>4. n = m \/ n \in m + 1..LastMonth
      <4>1. n \notin 1..m - 1
        BY <1>2, <3>1
      <4> QED
        BY <4>1, BudgetAssumption DEF Months
    <3> QED
      BY <3>2, <3>3, <3>4
  <2> QED
    BY <2>1, <2>2 DEF releaseFuelBudget
<1> QED
  BY <1>2, <1>4, BudgetAssumption DEF HasRow

LEMMA CloseKeepsBases ==
  ASSUME TypeOK, NEW m \in Months, NEW deferring, closeMonthAndRollover(m, deferring)
  PROVE  BasesFall
<1>1. TypeOK'
  BY CloseTypeOK
<1> SUFFICES ASSUME NEW v \in Vehicles, NEW n \in Months, row'[v][n] # row[v][n]
             PROVE  \/ HasRow(v, n) /\ HasRow(v, n)' /\ row'[v][n].baseAmount <= row[v][n].baseAmount
                    \/ ~HasRow(v, n) /\ HasRow(v, n)' /\ row'[v][n].baseAmount = 0
  BY <1>1, FallingRows
<1>2. n \in {m, m + 1} /\ IsOpen(v, m)
  <2>1. n \in {m, m + 1}
    BY ClosedRows
  <2>2. ~IsOpen(v, m) => row'[v][m] = row[v][m] /\ row'[v][m + 1] = row[v][m + 1]
    BY ClosedRows
  <2> QED
    BY <2>1, <2>2
<1>3. row[v][m] \in Row /\ HasRow(v, m)
  BY <1>2 DEF IsOpen, HasRow, TypeOK
<1>4. CASE n = m
  <2>1. row'[v][n] = [row[v][m] EXCEPT !.isClosed = TRUE] /\ row'[v][n] \in Row
    BY <1>2, <1>4, ClosedRows
  <2>2. row'[v][n].baseAmount = row[v][n].baseAmount
    BY <1>3, <1>4, <2>1 DEF Row
  <2>3. row[v][n].baseAmount \in Nat
    BY <1>3, <1>4 DEF Row
  <2>4. row'[v][n] # NoRow
    BY <2>1, BudgetAssumption
  <2> QED
    BY <1>3, <1>4, <2>2, <2>3, <2>4 DEF HasRow
<1>5. CASE n = m + 1
  <2>1. row'[v][n] = RolledOver(row[v][n], Remainder(row[v][m]))
    <3>1. m + 1 # m
      BY BudgetAssumption DEF Months
    <3> QED
      BY <1>2, <1>5, <3>1, ClosedRows
  <2>2. row[v][n] \in Row \cup {NoRow} /\ Remainder(row[v][m]) \in Nat
    BY <1>3, RowArithmetic DEF TypeOK
  <2>3. RolledOver(row[v][n], Remainder(row[v][m])) \in Row
    BY <2>2, RolledOverRow
  <2>4. OrEmpty(row[v][n]) \in Row
    BY <2>2, EmptyRowIsRow DEF OrEmpty
  <2>5. RolledOver(row[v][n], Remainder(row[v][m])).baseAmount = OrEmpty(row[v][n]).baseAmount
    BY <2>4 DEF RolledOver, Row
  <2>6. /\ HasRow(v, n) => OrEmpty(row[v][n]) = row[v][n]
        /\ ~HasRow(v, n) => OrEmpty(row[v][n]).baseAmount = 0
    BY DEF OrEmpty, HasRow, EmptyRow
  <2>7. HasRow(v, n)'
    BY <2>1, <2>3, BudgetAssumption DEF HasRow
  <2> QED
    BY <2>1, <2>4, <2>5, <2>6, <2>7 DEF Row
<1> QED
  BY <1>2, <1>4, <1>5

LEMMA DeactivateKeepsBases ==
  ASSUME TypeOK, NEW v \in Vehicles, deactivateVehicle(v)
  PROVE  BasesFall
<1>1. TypeOK'
  BY DeactivatedRows DEF deactivateVehicle, TypeOK
<1> SUFFICES ASSUME NEW u \in Vehicles, NEW n \in Months, row'[u][n] # row[u][n]
             PROVE  HasRow(u, n) /\ HasRow(u, n)' /\ row'[u][n].baseAmount <= row[u][n].baseAmount
  BY <1>1, FallingRows
<1>2. u = v /\ IsOpen(u, n) /\ row'[u][n] = Normalized(row[u][n])
  BY DeactivatedRows
<1>3. HasRow(u, n) /\ row[u][n] \in Row
  BY <1>2 DEF IsOpen, HasRow, TypeOK
<1>4. Normalized(row[u][n]) \in Row /\ Normalized(row[u][n]).baseAmount <= row[u][n].baseAmount
  BY <1>3, NormalizedRow, NormalizedBase
<1> QED
  BY <1>2, <1>3, <1>4, BudgetAssumption DEF HasRow

(* So what is assigned of a month does not grow. *)
LEMMA AssignedFalls ==
  ASSUME TypeOK, TypeOK', BasesFall, NEW m \in Months
  PROVE  /\ Assigned(m, Vehicles)' <= Assigned(m, Vehicles)
         /\ Assigned(m, Vehicles)' \in Nat /\ Assigned(m, Vehicles) \in Nat
<1> DEFINE f == [v \in Vehicles |-> BaseOf(v, m)]
           g == [v \in Vehicles |-> BaseOf(v, m)']
<1>1. \A v \in Vehicles : g[v] \in Nat /\ f[v] \in Nat /\ g[v] <= f[v]
  <2>1. BasesAreNat /\ BasesAreNat'
    BY BasesTyped, PTL
  <2> QED
    BY <2>1 DEF BasesFall, BasesAreNat
<1>2. Assigned(m, Vehicles) = SumFunctionOnSet(f, Vehicles)
  BY DEF Assigned
<1>3. Assigned(m, Vehicles)' = SumFunctionOnSet(g, Vehicles)
  BY DEF Assigned
<1> HIDE DEF f, g
<1>4. SumFunctionOnSet(g, Vehicles) <= SumFunctionOnSet(f, Vehicles)
  <2>1. \A v \in Vehicles : g[v] \in Int /\ f[v] \in Int /\ g[v] <= f[v]
    BY <1>1
  <2> QED
    BY <2>1, SumAtMost, BudgetAssumption
<1>5. SumFunctionOnSet(g, Vehicles) \in Nat /\ SumFunctionOnSet(f, Vehicles) \in Nat
  BY <1>1, SumIsNat, BudgetAssumption
<1> QED
  BY <1>2, <1>3, <1>4, <1>5

(* What an allocation comes to is what PoolCapacity compares with the pool. *)
LEMMA AssignedByAllocation ==
  ASSUME TypeOK, NEW m \in Months, NEW alloc, alloc \in [DOMAIN alloc -> Nat],
         Allocate(m, alloc)
  PROVE  Assigned(m, Vehicles)' = Assigned(m, Vehicles \ DOMAIN alloc) + SumFunction(alloc)
<1> DEFINE D == DOMAIN alloc
           g == [v \in Vehicles |-> BaseOf(v, m)']
           f == [v \in Vehicles \ D |-> BaseOf(v, m)]
<1>1. D \in SUBSET Vehicles
  BY DEF Allocate, TypeOK
<1>2. \A v \in Vehicles : g[v] \in Nat
  <2>1. TypeOK'
    BY AllocateTypeOK
  <2>2. BasesAreNat'
    BY <2>1, BasesTyped, PTL
  <2> QED
    BY <2>2 DEF BasesAreNat
<1>2a. \A v \in DOMAIN alloc : row'[v][m] = Allocated(row[v][m], alloc[v]) /\ row'[v][m] \in Row
  BY AllocatedRows, ZenonT(40)
<1>3. \A v \in D : g[v] = alloc[v]
  <2> SUFFICES ASSUME NEW v \in D PROVE g[v] = alloc[v]
    OBVIOUS
  <2>0. v \in DOMAIN alloc /\ v \in Vehicles
    BY <1>1
  <2>1. row'[v][m] = Allocated(row[v][m], alloc[v]) /\ row'[v][m] \in Row
    BY <1>2a, <2>0
  <2>2. row[v][m] \in Row \cup {NoRow} /\ alloc[v] \in Nat
    BY <1>1 DEF TypeOK
  <2>3. OrEmpty(row[v][m]) \in Row
    BY <2>2, EmptyRowIsRow DEF OrEmpty
  <2>4. Allocated(row[v][m], alloc[v]).baseAmount = alloc[v]
    BY <2>2, <2>3 DEF Allocated, Row
  <2>5. row'[v][m] # NoRow
    BY <2>1, BudgetAssumption
  <2>6. g[v] = BaseOf(v, m)'
    BY <2>0
  <2>7. BaseOf(v, m)' = row'[v][m].baseAmount
    BY <2>5 DEF BaseOf, HasRow
  <2> QED
    BY <2>1, <2>4, <2>6, <2>7
<1>4. \A v \in Vehicles \ D : g[v] = f[v]
  <2>1. \A v \in Vehicles \ D : row'[v][m] = row[v][m]
    BY AllocatedRows
  <2> QED
    BY <2>1 DEF BaseOf, HasRow
<1>5. Assigned(m, Vehicles)' = SumFunctionOnSet(g, Vehicles)
  BY DEF Assigned
<1>6. Assigned(m, Vehicles \ D) = SumFunctionOnSet(f, Vehicles \ D)
  BY DEF Assigned
<1>7. SumFunction(alloc) = SumFunctionOnSet(alloc, D)
  BY DEF SumFunction
<1>8. IsFiniteSet(D) /\ IsFiniteSet(Vehicles \ D)
  BY <1>1, BudgetAssumption, FS_Subset
<1> HIDE DEF f, g, D
<1>9. SumFunctionOnSet(g, Vehicles) = SumFunctionOnSet(g, D) + SumFunctionOnSet(g, Vehicles \ D)
  <2>1. \A v \in Vehicles : g[v] \in Int
    BY <1>2
  <2> QED
    BY <1>1, <2>1, SumOfParts, BudgetAssumption
<1>10. SumFunctionOnSet(g, D) = SumFunctionOnSet(alloc, D)
  BY <1>3, <1>8, SumAgrees
<1>11. SumFunctionOnSet(g, Vehicles \ D) = SumFunctionOnSet(f, Vehicles \ D)
  BY <1>4, <1>8, SumAgrees
<1>12. SumFunctionOnSet(g, D) \in Int /\ SumFunctionOnSet(g, Vehicles \ D) \in Int
  <2>1. \A v \in D : g[v] \in Int
    BY <1>1, <1>2
  <2>2. \A v \in Vehicles \ D : g[v] \in Int
    BY <1>2
  <2> QED
    BY <1>8, <2>1, <2>2, SumIsInt
<1>13. Assigned(m, Vehicles)' = SumFunctionOnSet(f, Vehicles \ D) + SumFunctionOnSet(alloc, D)
  BY <1>5, <1>9, <1>10, <1>11, <1>12
<1>14. Assigned(m, Vehicles)' = Assigned(m, Vehicles \ D) + SumFunction(alloc)
  BY <1>6, <1>7, <1>13
<1> QED
  BY <1>14 DEF D

(* The rows of other months stand still when one is allocated. *)
LEMMA OtherMonthsStand ==
  ASSUME TypeOK, NEW m \in Months, NEW alloc, alloc \in [DOMAIN alloc -> Nat],
         Allocate(m, alloc), NEW n \in Months, n # m
  PROVE  Assigned(n, Vehicles)' = Assigned(n, Vehicles)
<1>1. \A v \in Vehicles : row'[v][n] = row[v][n]
  BY AllocatedRows
<1>2. \A v \in Vehicles : BaseOf(v, n)' = BaseOf(v, n)
  BY <1>1 DEF BaseOf, HasRow
<1>3. Assigned(n, Vehicles)' = SumFunctionOnSet([v \in Vehicles |-> BaseOf(v, n)'], Vehicles)
  BY DEF Assigned
<1>4. [v \in Vehicles |-> BaseOf(v, n)'] = [v \in Vehicles |-> BaseOf(v, n)]
  BY <1>2
<1> QED
  BY <1>3, <1>4 DEF Assigned

(* Only an allocation and a new declaration of the pool are decided by it, and both *)
(* compare it with the whole sum.                                                   *)
LEMMA StepPool ==
  ASSUME TypeOK, PoolCovers, [Next]_vars
  PROVE  PoolCovers'
<1> SUFFICES ASSUME NEW n \in Months, pool'[n] # NoPool, ~pool'[n].isClosed
             PROVE  Assigned(n, Vehicles)' <= pool'[n].totalAmount
  BY DEF PoolCovers
<1>1. TypeOK'
  BY StepTypeOK
<1>2. pool'[n].totalAmount \in Nat
  BY <1>1 DEF TypeOK, Pool
<1>3. ASSUME BasesFall, pool'[n] = pool[n]
      PROVE  Assigned(n, Vehicles)' <= pool'[n].totalAmount
  <2>1. Assigned(n, Vehicles) <= pool'[n].totalAmount
    BY <1>3 DEF PoolCovers
  <2> QED
    BY <1>1, <1>2, <1>3, <2>1, AssignedFalls
<1>4. ASSUME NEW m \in Months, NEW alloc, alloc \in [DOMAIN alloc -> Nat], Allocate(m, alloc)
      PROVE  Assigned(n, Vehicles)' <= pool'[n].totalAmount
  <2>1. pool' = pool
    BY <1>4 DEF Allocate
  <2>2. CASE n = m
    BY <1>4, <2>1, <2>2, AssignedByAllocation DEF Allocate, PoolCapacity
  <2>3. CASE n # m
    BY <1>4, <2>1, <2>3, OtherMonthsStand DEF PoolCovers
  <2> QED
    BY <2>2, <2>3
<1>5. ASSUME NEW v \in Vehicles, NEW m \in Months, NEW amount \in Nat,
             checkAndReserveFuelBudget(v, m, amount) \/ releaseFuelBudget(v, m, amount)
      PROVE  Assigned(n, Vehicles)' <= pool'[n].totalAmount
  <2>1. BasesFall
    BY <1>5, ReserveKeepsBases, ReleaseKeepsBases
  <2>2. pool' = pool
    BY <1>5 DEF checkAndReserveFuelBudget, releaseFuelBudget
  <2> QED
    BY <1>3, <2>1, <2>2
<1>6. ASSUME NEW m \in Months, NEW total \in Nat, SetMonthlyPool(m, total)
      PROVE  Assigned(n, Vehicles)' <= pool'[n].totalAmount
  <2>1. row' = row
    BY <1>6 DEF SetMonthlyPool
  <2>2. Assigned(n, Vehicles)' = Assigned(n, Vehicles)
    BY <2>1 DEF Assigned, BaseOf, HasRow
  <2>3. CASE n = m
    BY <1>6, <2>2, <2>3 DEF SetMonthlyPool, TypeOK
  <2>4. CASE n # m
    <3>1. pool'[n] = pool[n]
      BY <1>6, <2>4 DEF SetMonthlyPool, TypeOK
    <3> QED
      BY <2>2, <3>1 DEF PoolCovers
  <2> QED
    BY <2>3, <2>4
<1>7. ASSUME NEW m \in Months, NEW deferring \in BOOLEAN, closeMonthAndRollover(m, deferring)
      PROVE  Assigned(n, Vehicles)' <= pool'[n].totalAmount
  <2>1. n # m
    BY <1>7 DEF closeMonthAndRollover, TypeOK
  <2>2. pool'[n] = pool[n]
    BY <1>7, <2>1 DEF closeMonthAndRollover, TypeOK
  <2> QED
    BY <1>3, <1>7, <2>2, CloseKeepsBases
<1>8. ASSUME NEW v \in Vehicles, deactivateVehicle(v)
      PROVE  Assigned(n, Vehicles)' <= pool'[n].totalAmount
  <2>1. pool' = pool
    BY <1>8 DEF deactivateVehicle
  <2> QED
    BY <1>3, <1>8, <2>1, DeactivateKeepsBases
<1>9. CASE NextMonthBegins \/ UNCHANGED vars
  <2>1. row' = row /\ pool' = pool
    BY <1>9 DEF NextMonthBegins, vars
  <2>2. Assigned(n, Vehicles)' = Assigned(n, Vehicles)
    BY <2>1 DEF Assigned, BaseOf, HasRow
  <2> QED
    BY <2>1, <2>2 DEF PoolCovers
<1> QED
  BY <1>4, <1>5, <1>6, <1>7, <1>8, <1>9, StepForms

LEMMA InitPool == Init => PoolCovers
  BY DEF Init, PoolCovers

(* For any fleet, the bases assigned in an open month never come to more    *)
(* than its pool, those of removed vehicles included, whatever is           *)
(* distributed, declared again, rolled over, released or removed.           *)
THEOREM PoolsCover == Spec => []PoolCovers
<1>1. TypeOK /\ PoolCovers /\ [Next]_vars => PoolCovers'
  BY StepPool
<1> QED
  BY <1>1, InitPool, TypeCorrect, PTL DEF Spec

=============================================================================
