------------------------------ MODULE SumsProofs ------------------------------
(***************************************************************************)
(* The laws of sums over finite sets.  Sum is a fold, hence a recursive    *)
(* function on the subsets of the set, that picks an element to begin      *)
(* with; the laws say that the choice does not matter.  Every induction is *)
(* an argument on a least counterexample.                                  *)
(***************************************************************************)
EXTENDS Sums, FiniteSetTheorems, WellFoundedInduction, TLAPS

LEMMA LeastElement ==
  ASSUME NEW S \in SUBSET Nat, S # {}
  PROVE  \E x \in S : \A y \in S : x <= y
<1> DEFINE R == {p \in Nat \X Nat : p[1] < p[2]}
<1>1. IsWellFoundedOn(R, Nat)
  BY NatLessThanWellFounded DEF OpToRel
<1>2. \A x, y \in Nat : <<y, x>> \notin R => x <= y
  OBVIOUS
<1> HIDE DEF R
<1>3. PICK x \in S : \A y \in S : ~(<<y, x>> \in R)
  BY <1>1, WFMin
<1>4. \A y \in S : x <= y
  BY <1>2, <1>3
<1> QED
  BY <1>4

-----------------------------------------------------------------------------
(* The recursive function behind Sum.                                      *)
Pick(s) == CHOOSE x \in s : TRUE

LEMMA PickElement == \A s : s # {} => Pick(s) \in s
BY DEF Pick

(* g adds up f on every set of D.                                          *)
Adds(g, f, D) ==
  g = [s \in D |-> IF s = {} THEN 0 ELSE f[Pick(s)] + g[s \ {Pick(s)}]]

(* The subsets of S with at most n elements.                               *)
Small(S, n) == {s \in SUBSET S : Cardinality(s) <= n}

LEMMA SmallSets ==
  ASSUME NEW S, IsFiniteSet(S), NEW s \in SUBSET S
  PROVE  /\ IsFiniteSet(s)
         /\ Cardinality(s) \in Nat
         /\ Cardinality(s) = 0 <=> s = {}
         /\ s # {} => /\ s \ {Pick(s)} \in SUBSET S
                      /\ Cardinality(s \ {Pick(s)}) = Cardinality(s) - 1
<1>1. IsFiniteSet(s)
  BY FS_Subset
<1>2. Cardinality(s) \in Nat
  BY <1>1, FS_CardinalityType
<1>3. Cardinality(s) = 0 <=> s = {}
  BY <1>1, FS_EmptySet
<1>4. ASSUME s # {} PROVE Cardinality(s \ {Pick(s)}) = Cardinality(s) - 1
  BY <1>1, <1>4, PickElement, FS_RemoveElement
<1> QED
  BY <1>1, <1>2, <1>3, <1>4

(* Such a function exists: one for the sets with at most n + 1 elements    *)
(* takes one step, and one for those with at most n does the rest.         *)
LEMMA AddsExists ==
  ASSUME NEW f, NEW S, IsFiniteSet(S)
  PROVE  \E g : Adds(g, f, SUBSET S)
<1> DEFINE Bad == {n \in Nat : ~ \E g : Adds(g, f, Small(S, n))}
<1>1. Bad = {}
  <2> SUFFICES ASSUME Bad # {} PROVE FALSE
    OBVIOUS
  <2>1. PICK n \in Bad : \A m \in Bad : n <= m
    BY LeastElement
  <2>2. n \in Nat /\ ~ \E g : Adds(g, f, Small(S, n))
    OBVIOUS
  <2>3. CASE n = 0
    <3> DEFINE g == [s \in Small(S, 0) |-> 0]
    <3>1. ASSUME NEW s \in Small(S, 0) PROVE s = {}
      <4>1. s \in SUBSET S /\ Cardinality(s) <= 0
        BY DEF Small
      <4>2. Cardinality(s) \in Nat /\ (Cardinality(s) = 0 <=> s = {})
        BY <4>1, SmallSets
      <4> QED
        BY <4>1, <4>2
    <3>2. Adds(g, f, Small(S, 0))
      BY <3>1 DEF Adds
    <3> QED
      BY <2>2, <2>3, <3>2
  <2>4. CASE n # 0
    <3>1. n - 1 \in Nat /\ n - 1 \notin Bad
      BY <2>1, <2>2, <2>4
    <3>2. PICK h : Adds(h, f, Small(S, n - 1))
      BY <3>1
    <3> DEFINE g == [s \in Small(S, n) |->
                       IF s = {} THEN 0 ELSE f[Pick(s)] + h[s \ {Pick(s)}]]
    <3>3. ASSUME NEW s \in Small(S, n), s # {}
          PROVE  g[s \ {Pick(s)}] = h[s \ {Pick(s)}]
      <4> DEFINE t == s \ {Pick(s)}
      <4>1. t \in SUBSET S /\ Cardinality(t) <= n - 1
        BY <2>2, <3>3, SmallSets DEF Small
      <4>2. t \in Small(S, n - 1) /\ t \in Small(S, n)
        BY <2>2, <4>1, SmallSets DEF Small
      <4>3. h[t] = IF t = {} THEN 0 ELSE f[Pick(t)] + h[t \ {Pick(t)}]
        BY <3>2, <4>2 DEF Adds
      <4>4. g[t] = IF t = {} THEN 0 ELSE f[Pick(t)] + h[t \ {Pick(t)}]
        BY <4>2
      <4> QED
        BY <4>3, <4>4
    <3>4. Adds(g, f, Small(S, n))
      BY <3>3 DEF Adds
    <3> QED
      BY <2>2, <3>4
  <2> QED
    BY <2>3, <2>4
<1>2. Cardinality(S) \in Nat /\ Small(S, Cardinality(S)) = SUBSET S
  BY FS_CardinalityType, FS_Subset DEF Small
<1> QED
  BY <1>1, <1>2

(* Two such functions agree where both are defined.                        *)
LEMMA AddsAgree ==
  ASSUME NEW f, NEW S, IsFiniteSet(S), NEW T \in SUBSET S, NEW g, NEW h,
         Adds(g, f, SUBSET S), Adds(h, f, SUBSET T)
  PROVE  g[T] = h[T]
<1> DEFINE Bad == {n \in Nat : \E s \in SUBSET T :
                                  Cardinality(s) = n /\ g[s] # h[s]}
<1>1. Bad = {}
  <2> SUFFICES ASSUME Bad # {} PROVE FALSE
    OBVIOUS
  <2>1. PICK n \in Bad : \A m \in Bad : n <= m
    BY LeastElement
  <2>2. PICK s \in SUBSET T : Cardinality(s) = n /\ g[s] # h[s]
    OBVIOUS
  <2>3. /\ g[s] = IF s = {} THEN 0 ELSE f[Pick(s)] + g[s \ {Pick(s)}]
        /\ h[s] = IF s = {} THEN 0 ELSE f[Pick(s)] + h[s \ {Pick(s)}]
    BY DEF Adds
  <2>4. s # {} /\ g[s \ {Pick(s)}] # h[s \ {Pick(s)}]
    BY <2>2, <2>3
  <2>5. /\ s \ {Pick(s)} \in SUBSET T
        /\ Cardinality(s \ {Pick(s)}) = n - 1
        /\ n - 1 \in Nat
    <3>1. IsFiniteSet(T)
      BY FS_Subset
    <3> QED
      BY <2>2, <2>4, <3>1, SmallSets
  <2>6. n - 1 \in Bad
    BY <2>4, <2>5
  <2> QED
    BY <2>1, <2>5, <2>6
<1>2. Cardinality(T) \in Nat
  BY SmallSets
<1> QED
  BY <1>1, <1>2

LEMMA SumAdds ==
  ASSUME NEW f, NEW S, IsFiniteSet(S)
  PROVE  \E g : Adds(g, f, SUBSET S) /\ Sum(f, S) = g[S]
<1> DEFINE g == CHOOSE g : Adds(g, f, SUBSET S)
<1>1. Adds(g, f, SUBSET S)
  BY AddsExists
<1>2. Sum(f, S) = g[S]
  BY DEF Sum, MapThenSumSet, MapThenFoldSet, Adds, Pick
<1> QED
  BY <1>1, <1>2

-----------------------------------------------------------------------------
(* The equation of the fold, and with it the laws.                         *)

LEMMA SumEmpty == \A f : Sum(f, {}) = 0
<1> SUFFICES ASSUME NEW f PROVE Sum(f, {}) = 0
  OBVIOUS
<1>1. PICK g : Adds(g, f, SUBSET {}) /\ Sum(f, {}) = g[{}]
  BY SumAdds, FS_EmptySet
<1> QED
  BY <1>1 DEF Adds

LEMMA SumPick ==
  ASSUME NEW f, NEW S, IsFiniteSet(S), S # {}
  PROVE  Sum(f, S) = f[Pick(S)] + Sum(f, S \ {Pick(S)})
<1> DEFINE T == S \ {Pick(S)}
<1>1. T \in SUBSET S /\ IsFiniteSet(T)
  BY FS_Subset
<1>2. PICK g : Adds(g, f, SUBSET S) /\ Sum(f, S) = g[S]
  BY SumAdds
<1>3. PICK h : Adds(h, f, SUBSET T) /\ Sum(f, T) = h[T]
  BY <1>1, SumAdds
<1>4. g[T] = h[T]
  BY <1>1, <1>2, <1>3, AddsAgree
<1>5. g[S] = f[Pick(S)] + g[T]
  BY <1>2 DEF Adds
<1> QED
  BY <1>2, <1>3, <1>4, <1>5

LEMMA SumNat ==
  ASSUME NEW f, NEW S, IsFiniteSet(S), \A x \in S : f[x] \in Nat
  PROVE  Sum(f, S) \in Nat
<1> DEFINE Bad == {n \in Nat : \E s \in SUBSET S :
                                  Cardinality(s) = n /\ Sum(f, s) \notin Nat}
<1>1. Bad = {}
  <2> SUFFICES ASSUME Bad # {} PROVE FALSE
    OBVIOUS
  <2>1. PICK n \in Bad : \A m \in Bad : n <= m
    BY LeastElement
  <2>2. PICK s \in SUBSET S : Cardinality(s) = n /\ Sum(f, s) \notin Nat
    OBVIOUS
  <2>3. s # {}
    BY <2>2, SumEmpty
  <2> DEFINE t == s \ {Pick(s)}
  <2>4. /\ IsFiniteSet(s)
        /\ t \in SUBSET S
        /\ Cardinality(t) = n - 1
        /\ n - 1 \in Nat
    BY <2>2, <2>3, SmallSets
  <2>5. Sum(f, t) \in Nat
    BY <2>1, <2>4
  <2>6. Sum(f, s) = f[Pick(s)] + Sum(f, t) /\ f[Pick(s)] \in Nat
    BY <2>3, <2>4, SumPick, PickElement
  <2> QED
    BY <2>2, <2>5, <2>6
<1>2. Cardinality(S) \in Nat
  BY SmallSets
<1> QED
  BY <1>1, <1>2

(* Any element may be the first.                                           *)
LEMMA SumRemove ==
  ASSUME NEW f, NEW S, IsFiniteSet(S), \A x \in S : f[x] \in Nat,
         NEW x \in S
  PROVE  Sum(f, S) = f[x] + Sum(f, S \ {x})
<1> DEFINE Law(s) == \A y \in s : Sum(f, s) = f[y] + Sum(f, s \ {y})
           Bad == {n \in Nat : \E s \in SUBSET S :
                                  Cardinality(s) = n /\ ~Law(s)}
<1>1. Bad = {}
  <2> SUFFICES ASSUME Bad # {} PROVE FALSE
    OBVIOUS
  <2>1. PICK n \in Bad : \A m \in Bad : n <= m
    BY LeastElement
  <2>2. PICK s \in SUBSET S : Cardinality(s) = n /\ ~Law(s)
    OBVIOUS
  <2>3. PICK y \in s : Sum(f, s) # f[y] + Sum(f, s \ {y})
    BY <2>2
  <2> DEFINE p == Pick(s)
             t == s \ {p}
             u == s \ {y}
             v == s \ {p, y}
  <2>4. /\ IsFiniteSet(s)
        /\ p \in s
        /\ Cardinality(s) \in Nat
        /\ Cardinality(t) = n - 1
        /\ n \in Nat /\ n - 1 \in Nat
    <3>1. s # {} /\ p \in s
      BY PickElement
    <3>2. /\ IsFiniteSet(s)
          /\ Cardinality(s) \in Nat
          /\ Cardinality(s) # 0
          /\ Cardinality(s \ {Pick(s)}) = Cardinality(s) - 1
      BY <3>1, SmallSets
    <3> QED
      BY <2>2, <3>1, <3>2
  <2>5. Sum(f, s) = f[p] + Sum(f, t)
    BY <2>4, SumPick
  <2>6. p # y
    BY <2>3, <2>5
  <2>7. Cardinality(u) = n - 1
    BY <2>2, <2>4, FS_RemoveElement
  <2>8. Law(t) /\ Law(u)
    <3>1. n - 1 \notin Bad
      BY <2>1, <2>4
    <3>2. t \in SUBSET S /\ u \in SUBSET S
      OBVIOUS
    <3> QED
      BY <2>4, <2>7, <3>1, <3>2
  <2>9. y \in t /\ p \in u /\ t \ {y} = v /\ u \ {p} = v
    BY <2>4, <2>6
  <2>10. Sum(f, t) = f[y] + Sum(f, v) /\ Sum(f, u) = f[p] + Sum(f, v)
    BY <2>8, <2>9
  <2>11. f[p] \in Nat /\ f[y] \in Nat /\ Sum(f, v) \in Nat
    <3>1. IsFiniteSet(v) /\ v \subseteq S
      BY FS_Subset
    <3> QED
      BY <2>4, <3>1, SumNat
  <2> HIDE DEF p, t, u, v
  <2>12. Sum(f, s) = f[y] + Sum(f, u)
    BY <2>5, <2>10, <2>11
  <2> QED
    BY <2>3, <2>12 DEF u
<1>2. Cardinality(S) \in Nat
  BY SmallSets
<1>3. Law(S)
  BY <1>1, <1>2
<1> QED
  BY <1>3

LEMMA SumAdd ==
  ASSUME NEW f, NEW S, IsFiniteSet(S), NEW x, x \notin S,
         \A y \in S \cup {x} : f[y] \in Nat
  PROVE  Sum(f, S \cup {x}) = Sum(f, S) + f[x]
<1>1. IsFiniteSet(S \cup {x}) /\ (S \cup {x}) \ {x} = S
  BY FS_AddElement
<1>2. Sum(f, S \cup {x}) = f[x] + Sum(f, S)
  BY <1>1, SumRemove
<1>3. Sum(f, S) \in Nat
  BY SumNat
<1> QED
  BY <1>2, <1>3

(* A part adds up to no more than the whole.                               *)
LEMMA SumMonotone ==
  ASSUME NEW f, NEW S, IsFiniteSet(S), \A x \in S : f[x] \in Nat,
         NEW T \in SUBSET S
  PROVE  Sum(f, T) <= Sum(f, S)
<1> DEFINE Bad == {n \in Nat : \E s \in SUBSET S :
                     /\ Cardinality(s) = n
                     /\ T \subseteq s
                     /\ ~(Sum(f, T) <= Sum(f, s))}
<1>1. \A s \in SUBSET S : IsFiniteSet(s) /\ Sum(f, s) \in Nat
  BY FS_Subset, SumNat
<1>2. Bad = {}
  <2> SUFFICES ASSUME Bad # {} PROVE FALSE
    OBVIOUS
  <2>1. PICK n \in Bad : \A m \in Bad : n <= m
    BY LeastElement
  <2>2. PICK s \in SUBSET S : /\ Cardinality(s) = n
                             /\ T \subseteq s
                             /\ ~(Sum(f, T) <= Sum(f, s))
    OBVIOUS
  <2>3. PICK x \in s : x \notin T
    <3>1. s # T
      BY <1>1, <2>2
    <3> QED
      BY <2>2, <3>1
  <2> DEFINE t == s \ {x}
  <2>4. t \in SUBSET S /\ T \subseteq t
    BY <2>2, <2>3
  <2>5. Cardinality(t) = n - 1 /\ n \in Nat
    BY <1>1, <2>2, FS_RemoveElement
  <2>6. n - 1 \in Nat
    BY <1>1, <2>4, <2>5, FS_CardinalityType
  <2>7. Sum(f, T) <= Sum(f, t)
    BY <2>1, <2>4, <2>5, <2>6
  <2>8. Sum(f, s) = f[x] + Sum(f, t) /\ f[x] \in Nat
    BY <1>1, SumRemove
  <2> HIDE DEF t
  <2> QED
    BY <1>1, <2>2, <2>4, <2>7, <2>8
<1>3. Cardinality(S) \in Nat
  BY SmallSets
<1> QED
  BY <1>2, <1>3

=============================================================================
