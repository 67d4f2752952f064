-------------------------------- MODULE Sums --------------------------------
(***************************************************************************)
(* What the modules rely on when they add up stakes, prizes or tokens with *)
(* SumFunctionOnSet: that the order of the terms does not matter, and what *)
(* follows from it.  SumFunctionOnSet takes the elements in some order it  *)
(* does not tell, by a recursive function on the subsets; so the facts are *)
(* shown by induction on finite subsets, that is, from the smallest        *)
(* counterexample (WFMin).                                                 *)
(***************************************************************************)
EXTENDS Functions, FiniteSetTheorems, WellFoundedInduction, TLAPS

Chosen(s) == CHOOSE x \in s : TRUE

(* g adds up f over each subset of S, one chosen element after the other. *)
AddsUp(f, S, g) ==
  g = [s \in SUBSET S |-> IF s = {} THEN 0 ELSE f[Chosen(s)] + g[s \ {Chosen(s)}]]

(* SumFunctionOnSet is the recursive function AddsUp describes. *)
LEMMA SumIsRecursive == ASSUME NEW f, NEW S
  PROVE SumFunctionOnSet(f, S) = (CHOOSE g : AddsUp(f, S, g))[S]
BY DEF SumFunctionOnSet, FoldFunctionOnSet, MapThenFoldSet, AddsUp, Chosen

(* The chosen element is one of the set. *)
LEMMA ChosenIn == ASSUME NEW s, s # {} PROVE Chosen(s) \in s
BY DEF Chosen

(* Induction on the subsets of a finite set: G holds of all of them when it *)
(* holds of each whose proper subsets it holds of.                          *)
LEMMA SubsetInduction ==
  ASSUME NEW S, IsFiniteSet(S), NEW G,
         \A T \in SUBSET S : (\A U \in SUBSET T : U # T => U \in G) => T \in G
  PROVE  \A T \in SUBSET S : T \in G
<1> SUFFICES ASSUME (SUBSET S) \ G # {} PROVE FALSE
  OBVIOUS
<1> DEFINE R == StrictSubsetOrdering(S)  B == (SUBSET S) \ G
<1>1. IsWellFoundedOn(R, SUBSET S)
  <2>1. FiniteSubsetsOf(S) = SUBSET S
    BY ONLY IsFiniteSet(S), FS_FiniteSubsetsOfFinite
  <2>2. IsWellFoundedOn(StrictSubsetOrdering(S), FiniteSubsetsOf(S))
    BY ONLY FS_StrictSubsetOrderingWellFounded
  <2> QED BY <2>1, <2>2
<1>2. B \subseteq SUBSET S /\ B # {}
  OBVIOUS
<1> HIDE DEF R, B
<1>3. PICK T \in B : \A y \in B : ~ (<<y, T>> \in R)
  BY ONLY <1>1, <1>2, WFMin
<1>4. \A U \in SUBSET T : U # T => U \in G
  BY <1>3 DEF R, B, StrictSubsetOrdering
<1> QED BY <1>3, <1>4 DEF B

(* Two such functions agree where both are defined: there is only one. *)
LEMMA SumsAgree ==
  ASSUME NEW f, NEW S, NEW T, NEW g, NEW h, IsFiniteSet(S), AddsUp(f, S, g), AddsUp(f, T, h)
  PROVE  \A s \in SUBSET (S \cap T) : g[s] = h[s]
<1> DEFINE G == {s \in SUBSET (S \cap T) : g[s] = h[s]}
<1>1. IsFiniteSet(S \cap T)
  BY FS_Intersection, FS_Subset
<1>2. ASSUME NEW s \in SUBSET (S \cap T), \A U \in SUBSET s : U # s => U \in G PROVE s \in G
  <2>1. CASE s = {}
    BY <2>1 DEF AddsUp
  <2>2. CASE s # {}
    <3>1. Chosen(s) \in s /\ s \ {Chosen(s)} \in G
      BY <1>2, <2>2, ChosenIn
    <3>2. g[s] = f[Chosen(s)] + g[s \ {Chosen(s)}] /\ h[s] = f[Chosen(s)] + h[s \ {Chosen(s)}]
      BY <2>2 DEF AddsUp
    <3> QED BY <3>1, <3>2
  <2> QED BY <2>1, <2>2
<1> HIDE DEF G
<1>3. \A s \in SUBSET (S \cap T) : s \in G
  BY <1>1, <1>2, SubsetInduction
<1> QED BY <1>3 DEF G

(* There is such a function: it is put together from those of the smaller   *)
(* sets.                                                                    *)
LEMMA SumsExist ==
  ASSUME NEW f, NEW S, IsFiniteSet(S) PROVE \E g : AddsUp(f, S, g)
<1> DEFINE val(U) == (CHOOSE g : AddsUp(f, U, g))[U]
           G == {U \in SUBSET S : \E g : AddsUp(f, U, g)}
<1>1. ASSUME NEW T \in SUBSET S, \A U \in SUBSET T : U # T => U \in G PROVE T \in G
  <2> DEFINE h == [s \in SUBSET T |-> IF s = {} THEN 0 ELSE f[Chosen(s)] + val(s \ {Chosen(s)})]
  <2>1. ASSUME NEW s \in SUBSET T, s # {} PROVE h[s \ {Chosen(s)}] = val(s \ {Chosen(s)})
    <3> DEFINE U == s \ {Chosen(s)}
    <3>1. Chosen(s) \in s /\ U \in SUBSET T /\ U # T
      BY <2>1, ChosenIn
    <3>2. PICK g : g = (CHOOSE gg : AddsUp(f, U, gg)) /\ AddsUp(f, U, g)
      BY <1>1, <3>1
    <3>3. val(U) = g[U]
      BY <3>2
    <3> HIDE DEF val
    <3>4. CASE U = {}
      BY <3>1, <3>3, <3>4, <3>2 DEF AddsUp
    <3>5. CASE U # {}
      <4> DEFINE V == U \ {Chosen(U)}
      <4>1. Chosen(U) \in U /\ V \in SUBSET U /\ V # T /\ V \in SUBSET T
        BY <3>1, <3>5, ChosenIn
      <4>2. g[U] = f[Chosen(U)] + g[V]
        BY <3>2, <3>5 DEF AddsUp
      <4>3. PICK k : k = (CHOOSE gg : AddsUp(f, V, gg)) /\ AddsUp(f, V, k)
        BY <1>1, <4>1
      <4>4. val(V) = k[V]
        BY <4>3 DEF val
      <4>5. IsFiniteSet(V)
        BY <4>1, FS_Subset
      <4>6. g[V] = k[V]
        <5>1. V \in SUBSET (V \cap U)
          BY <4>1
        <5>2. \A s0 \in SUBSET (V \cap U) : k[s0] = g[s0]
          <6> HIDE DEF V, U
          <6> QED BY ONLY <4>5, <4>3, <3>2, SumsAgree
        <5> QED BY <5>1, <5>2
      <4>7. h[U] = f[Chosen(U)] + val(V)
        BY <3>1, <3>5
      <4> QED BY <4>2, <4>4, <4>6, <4>7, <3>3
    <3> QED BY <3>4, <3>5
  <2> HIDE DEF val
  <2>2. AddsUp(f, T, h)
    <3>1. \A s \in SUBSET T : h[s] = IF s = {} THEN 0 ELSE f[Chosen(s)] + h[s \ {Chosen(s)}]
      <4> TAKE s \in SUBSET T
      <4>1. CASE s = {}
        BY <4>1
      <4>2. CASE s # {}
        BY <4>2, <2>1
      <4> QED BY <4>1, <4>2
    <3> HIDE DEF h
    <3>2. h = [s \in SUBSET T |-> h[s]]
      BY DEF h
    <3> QED BY <3>1, <3>2 DEF AddsUp
  <2> QED BY <2>2
<1> HIDE DEF G
<1>2. \A T \in SUBSET S : T \in G
  BY <1>1, SubsetInduction
<1> QED BY <1>2 DEF G

(* Nothing adds up to zero. *)
LEMMA SumEmpty == ASSUME NEW f PROVE SumFunctionOnSet(f, {}) = 0
<1>1. PICK g : g = (CHOOSE gg : AddsUp(f, {}, gg)) /\ AddsUp(f, {}, g)
  BY SumsExist, FS_EmptySet
<1>2. g[{}] = 0
  BY <1>1 DEF AddsUp
<1> QED BY <1>1, <1>2, SumIsRecursive

(* The function of a set also gives the sums of its subsets. *)
LEMMA SumOfPart ==
  ASSUME NEW f, NEW S, IsFiniteSet(S), NEW T \in SUBSET S, NEW g, AddsUp(f, S, g)
  PROVE  SumFunctionOnSet(f, T) = g[T]
<1>1. IsFiniteSet(T)
  BY FS_Subset
<1>2. PICK h : h = (CHOOSE gg : AddsUp(f, T, gg)) /\ AddsUp(f, T, h)
  BY <1>1, SumsExist
<1>3. \A s \in SUBSET (T \cap S) : h[s] = g[s]
  BY ONLY <1>1, <1>2, AddsUp(f, S, g), SumsAgree
<1>4. T \in SUBSET (T \cap S)
  OBVIOUS
<1> QED BY <1>2, <1>3, <1>4, SumIsRecursive

(* One step of the recursion. *)
LEMMA SumUnfold ==
  ASSUME NEW f, NEW S, IsFiniteSet(S), S # {}
  PROVE  SumFunctionOnSet(f, S) = f[Chosen(S)] + SumFunctionOnSet(f, S \ {Chosen(S)})
<1>1. PICK g : AddsUp(f, S, g)
  BY SumsExist
<1>2. SumFunctionOnSet(f, S) = g[S] /\ SumFunctionOnSet(f, S \ {Chosen(S)}) = g[S \ {Chosen(S)}]
  BY <1>1, SumOfPart
<1>3. g[S] = f[Chosen(S)] + g[S \ {Chosen(S)}]
  BY <1>1 DEF AddsUp
<1> QED BY <1>2, <1>3

(* Integers add up to an integer. *)
LEMMA SumType ==
  ASSUME NEW f, NEW S, IsFiniteSet(S), \A x \in S : f[x] \in Int
  PROVE  SumFunctionOnSet(f, S) \in Int
<1> DEFINE G == {T \in SUBSET S : SumFunctionOnSet(f, T) \in Int}
<1>1. ASSUME NEW T \in SUBSET S, \A U \in SUBSET T : U # T => U \in G PROVE T \in G
  <2>1. CASE T = {}
    BY <2>1, SumEmpty
  <2>2. CASE T # {}
    <3>1. Chosen(T) \in T /\ T \ {Chosen(T)} \in G
      BY <2>2, <1>1, ChosenIn
    <3>2. SumFunctionOnSet(f, T) = f[Chosen(T)] + SumFunctionOnSet(f, T \ {Chosen(T)})
      BY <2>2, SumUnfold, FS_Subset
    <3> QED BY <3>1, <3>2
  <2> QED BY <2>1, <2>2
<1> HIDE DEF G
<1>2. \A T \in SUBSET S : T \in G
  BY <1>1, SubsetInduction
<1> QED BY <1>2 DEF G

(* Any element may be taken out first, not only the chosen one. *)
LEMMA SumRemove ==
  ASSUME NEW f, NEW S, IsFiniteSet(S), \A x \in S : f[x] \in Int
  PROVE  \A x \in S : SumFunctionOnSet(f, S) = f[x] + SumFunctionOnSet(f, S \ {x})
<1> DEFINE sum(T) == SumFunctionOnSet(f, T)
           G == {T \in SUBSET S : \A x \in T : sum(T) = f[x] + sum(T \ {x})}
<1> HIDE DEF sum
<1>0. \A T \in SUBSET S : IsFiniteSet(T) /\ sum(T) \in Int
  BY FS_Subset, SumType DEF sum
<1>1. ASSUME NEW T \in SUBSET S, \A U \in SUBSET T : U # T => U \in G, NEW x \in T
      PROVE  sum(T) = f[x] + sum(T \ {x})
  <2> DEFINE a == Chosen(T)
  <2>1. a \in T /\ sum(T) = f[a] + sum(T \ {a})
    BY <1>0, ChosenIn, SumUnfold DEF sum
  <2> HIDE DEF a
  <2>2. CASE a = x
    BY <2>1, <2>2
  <2>3. CASE a # x
    <3>1. sum(T \ {a}) = f[x] + sum((T \ {a}) \ {x})
      BY <1>1, <2>1, <2>3
    <3>2. sum(T \ {x}) = f[a] + sum((T \ {x}) \ {a})
      BY <1>1, <2>1, <2>3
    <3>3. (T \ {a}) \ {x} = (T \ {x}) \ {a}
      OBVIOUS
    <3> PICK k, n : k = sum((T \ {x}) \ {a}) /\ n = f[a]
      OBVIOUS
    <3>4. f[x] \in Int /\ n \in Int /\ k \in Int
      BY <1>0, <2>1
    <3>5. sum((T \ {a}) \ {x}) = k
      BY <3>3
    <3>6. sum(T) = n + (f[x] + k) /\ sum(T \ {x}) = n + k
      BY <2>1, <3>1, <3>2, <3>5
    <3> QED BY <3>4, <3>6
  <2> QED BY <2>2, <2>3
<1>2. ASSUME NEW T \in SUBSET S, \A U \in SUBSET T : U # T => U \in G PROVE T \in G
  BY <1>1, <1>2
<1> HIDE DEF G
<1>3. \A T \in SUBSET S : T \in G
  BY <1>2, SubsetInduction
<1> QED BY <1>3 DEF G, sum

(* Induction on a finite set that grows by one element at a time. *)
LEMMA OneByOne ==
  ASSUME NEW S, IsFiniteSet(S), NEW G, {} \in G,
         \A T \in SUBSET S : \A x \in T : T \ {x} \in G => T \in G
  PROVE  \A T \in SUBSET S : T \in G
<1>1. ASSUME NEW T \in SUBSET S, \A U \in SUBSET T : U # T => U \in G PROVE T \in G
  <2>1. CASE T = {}
    BY <2>1
  <2>2. CASE T # {}
    <3>1. PICK x : x \in T
      BY <2>2
    <3>2. T \ {x} \in SUBSET T /\ T \ {x} # T
      BY <3>1
    <3>3. T \ {x} \in G
      BY <1>1, <3>2
    <3> QED BY <3>1, <3>3
  <2> QED BY <2>1, <2>2
<1> QED BY ONLY <1>1, IsFiniteSet(S), SubsetInduction

(* SumRemove and SumType for all subsets at once, for use with OneByOne. *)
LEMMA SumPieces ==
  ASSUME NEW f, NEW S, IsFiniteSet(S), \A x \in S : f[x] \in Int
  PROVE  \A T \in SUBSET S :
           /\ IsFiniteSet(T) /\ SumFunctionOnSet(f, T) \in Int
           /\ \A x \in T : SumFunctionOnSet(f, T) = f[x] + SumFunctionOnSet(f, T \ {x})
<1> TAKE T \in SUBSET S
<1>1. IsFiniteSet(T)
  BY FS_Subset
<1> QED BY <1>1, SumType, SumRemove

(* One more element adds its term. *)
LEMMA SumAdd ==
  ASSUME NEW f, NEW S, IsFiniteSet(S), NEW x, \A y \in S \cup {x} : f[y] \in Int, x \notin S
  PROVE  SumFunctionOnSet(f, S \cup {x}) = SumFunctionOnSet(f, S) + f[x]
<1>1. IsFiniteSet(S \cup {x}) /\ (S \cup {x}) \ {x} = S
  BY FS_AddElement
<1>2. SumFunctionOnSet(f, S \cup {x}) = f[x] + SumFunctionOnSet(f, (S \cup {x}) \ {x})
  BY <1>1, SumRemove
<1>3. SumFunctionOnSet(f, S) \in Int /\ f[x] \in Int
  BY SumType
<1>4. SumFunctionOnSet(f, (S \cup {x}) \ {x}) = SumFunctionOnSet(f, S)
  BY <1>1, Zenon
<1> QED BY <1>2, <1>3, <1>4

(* Only the terms matter. *)
LEMMA SumAgree ==
  ASSUME NEW f, NEW g, NEW S, IsFiniteSet(S), \A x \in S : f[x] \in Int /\ g[x] = f[x]
  PROVE  SumFunctionOnSet(f, S) = SumFunctionOnSet(g, S)
<1> DEFINE G == {T \in SUBSET S : SumFunctionOnSet(f, T) = SumFunctionOnSet(g, T)}
<1>1. {} \in G
  BY SumEmpty
<1>2. ASSUME NEW T \in SUBSET S, NEW x \in T, T \ {x} \in G PROVE T \in G
  BY <1>2, SumPieces
<1> HIDE DEF G
<1>3. \A T \in SUBSET S : T \in G
  BY <1>1, <1>2, OneByOne
<1> QED BY <1>3 DEF G

(* Larger terms give a larger sum. *)
LEMMA SumMonotone ==
  ASSUME NEW f, NEW g, NEW S, IsFiniteSet(S),
         \A x \in S : f[x] \in Int /\ g[x] \in Int /\ f[x] <= g[x]
  PROVE  SumFunctionOnSet(f, S) <= SumFunctionOnSet(g, S)
<1> DEFINE G == {T \in SUBSET S : SumFunctionOnSet(f, T) <= SumFunctionOnSet(g, T)}
<1>1. {} \in G
  BY SumEmpty
<1>2. ASSUME NEW T \in SUBSET S, NEW x \in T, T \ {x} \in G PROVE T \in G
  <2> DEFINE F(U) == SumFunctionOnSet(f, U)  H(U) == SumFunctionOnSet(g, U)
  <2>1. /\ F(T) = f[x] + F(T \ {x}) /\ H(T) = g[x] + H(T \ {x})
        /\ F(T \ {x}) \in Int /\ H(T \ {x}) \in Int
    BY SumPieces
  <2>2. F(T \ {x}) <= H(T \ {x}) /\ f[x] \in Int /\ g[x] \in Int /\ f[x] <= g[x]
    BY <1>2
  <2>3. F(T) <= H(T)
    <3> HIDE DEF F, H
    <3> QED BY <2>1, <2>2
  <2> QED BY <2>3
<1> HIDE DEF G
<1>3. \A T \in SUBSET S : T \in G
  BY <1>1, <1>2, OneByOne
<1> QED BY <1>3 DEF G

(* Zeros add up to zero. *)
LEMMA SumOfZeros ==
  ASSUME NEW f, NEW S, IsFiniteSet(S), \A x \in S : f[x] = 0
  PROVE  SumFunctionOnSet(f, S) = 0
<1> DEFINE G == {T \in SUBSET S : SumFunctionOnSet(f, T) = 0}
<1>1. {} \in G
  BY SumEmpty
<1>2. ASSUME NEW T \in SUBSET S, NEW x \in T, T \ {x} \in G PROVE T \in G
  BY <1>2, SumPieces
<1> HIDE DEF G
<1>3. \A T \in SUBSET S : T \in G
  BY <1>1, <1>2, OneByOne
<1> QED BY <1>3 DEF G

(* Natural numbers add up to a natural number. *)
LEMMA SumNat ==
  ASSUME NEW f, NEW S, IsFiniteSet(S), \A x \in S : f[x] \in Nat
  PROVE  SumFunctionOnSet(f, S) \in Nat
<1>1. SumFunctionOnSet([x \in S |-> 0], S) = 0
  BY SumOfZeros
<1>2. SumFunctionOnSet([x \in S |-> 0], S) <= SumFunctionOnSet(f, S)
  BY SumMonotone
<1>3. SumFunctionOnSet(f, S) \in Int
  BY SumType
<1> QED BY <1>1, <1>2, <1>3

(* Disjoint sets are added up one after the other. *)
LEMMA SumUnion ==
  ASSUME NEW f, NEW S, NEW T, IsFiniteSet(S), IsFiniteSet(T), S \cap T = {},
         \A x \in S \cup T : f[x] \in Int
  PROVE  SumFunctionOnSet(f, S \cup T) = SumFunctionOnSet(f, S) + SumFunctionOnSet(f, T)
<1> DEFINE F(U) == SumFunctionOnSet(f, U)
           G == {U \in SUBSET T : F(S \cup U) = F(S) + F(U)}
<1>0. IsFiniteSet(S \cup T)
  BY FS_Union
<1>1. {} \in G
  <2>1. S \cup {} = S /\ F({}) = 0 /\ F(S) \in Int
    BY SumEmpty, SumType
  <2> HIDE DEF F
  <2> QED BY <2>1
<1>2. ASSUME NEW U \in SUBSET T, NEW x \in U, U \ {x} \in G PROVE U \in G
  <2>1. F(U) = f[x] + F(U \ {x}) /\ F(U \ {x}) \in Int
    BY SumPieces
  <2>2. F(S \cup U) = f[x] + F((S \cup U) \ {x})
    BY <1>0, SumPieces
  <2>3. (S \cup U) \ {x} = S \cup (U \ {x}) /\ F(S) \in Int /\ f[x] \in Int
    BY SumType
  <2>4. F(S \cup (U \ {x})) = F(S) + F(U \ {x})
    BY <1>2
  <2>5. F((S \cup U) \ {x}) = F(S \cup (U \ {x}))
    BY <2>3, Zenon
  <2>6. F(S \cup U) = F(S) + F(U)
    <3> HIDE DEF F, G
    <3> QED BY <2>1, <2>2, <2>3, <2>4, <2>5
  <2> QED BY <2>6
<1> HIDE DEF G
<1>3. \A U \in SUBSET T : U \in G
  BY <1>1, <1>2, OneByOne
<1> QED BY <1>3 DEF G

(* A part does not exceed the whole. *)
LEMMA SumPart ==
  ASSUME NEW f, NEW S, NEW T \in SUBSET S, IsFiniteSet(S), \A x \in S : f[x] \in Nat
  PROVE  SumFunctionOnSet(f, T) <= SumFunctionOnSet(f, S)
<1>1. T \cup (S \ T) = S /\ T \cap (S \ T) = {} /\ IsFiniteSet(T) /\ IsFiniteSet(S \ T)
  BY FS_Subset
<1>2. SumFunctionOnSet(f, T \cup (S \ T)) = SumFunctionOnSet(f, T) + SumFunctionOnSet(f, S \ T)
  BY <1>1, SumUnion
<1>3. SumFunctionOnSet(f, T) \in Nat /\ SumFunctionOnSet(f, S \ T) \in Nat
  BY <1>1, SumNat
<1>4. SumFunctionOnSet(f, T \cup (S \ T)) = SumFunctionOnSet(f, S)
  BY <1>1, Zenon
<1> QED BY <1>2, <1>3, <1>4

(* No term exceeds the sum. *)
LEMMA SumMember ==
  ASSUME NEW f, NEW S, IsFiniteSet(S), NEW x \in S, \A y \in S : f[y] \in Nat
  PROVE  f[x] <= SumFunctionOnSet(f, S)
<1>1. SumFunctionOnSet(f, S) = f[x] + SumFunctionOnSet(f, S \ {x})
  BY SumRemove
<1>2. IsFiniteSet(S \ {x})
  BY FS_Subset
<1>3. SumFunctionOnSet(f, S \ {x}) \in Nat
  BY <1>2, SumNat
<1> QED BY <1>1, <1>3

(* Terms that are zero can be left out. *)
LEMMA SumElsewhereZero ==
  ASSUME NEW f, NEW S, NEW T \in SUBSET S, IsFiniteSet(S), \A x \in S : f[x] \in Int,
         \A x \in S \ T : f[x] = 0
  PROVE  SumFunctionOnSet(f, S) = SumFunctionOnSet(f, T)
<1>1. T \cup (S \ T) = S /\ T \cap (S \ T) = {} /\ IsFiniteSet(T) /\ IsFiniteSet(S \ T)
  BY FS_Subset
<1>2. SumFunctionOnSet(f, T \cup (S \ T)) = SumFunctionOnSet(f, T) + SumFunctionOnSet(f, S \ T)
  BY <1>1, SumUnion
<1>3. SumFunctionOnSet(f, T) \in Int /\ SumFunctionOnSet(f, S \ T) = 0
  BY <1>1, SumType, SumOfZeros
<1>4. SumFunctionOnSet(f, T \cup (S \ T)) = SumFunctionOnSet(f, S)
  BY <1>1, Zenon
<1> QED BY <1>2, <1>3, <1>4

(* When one term changes the sum changes by as much. *)
LEMMA SumChange ==
  ASSUME NEW f, NEW g, NEW S, IsFiniteSet(S), NEW x \in S,
         \A y \in S : f[y] \in Int /\ g[y] \in Int /\ (y # x => g[y] = f[y])
  PROVE  SumFunctionOnSet(g, S) = SumFunctionOnSet(f, S) - f[x] + g[x]
<1>1. SumFunctionOnSet(f, S) = f[x] + SumFunctionOnSet(f, S \ {x})
      /\ SumFunctionOnSet(g, S) = g[x] + SumFunctionOnSet(g, S \ {x})
  BY SumRemove
<1>2. IsFiniteSet(S \ {x})
  BY FS_Subset
<1>3. SumFunctionOnSet(f, S \ {x}) = SumFunctionOnSet(g, S \ {x})
      /\ SumFunctionOnSet(f, S \ {x}) \in Int
  BY <1>2, SumAgree, SumType
<1> QED BY <1>1, <1>3

(* Sums are added term by term. *)
LEMMA SumPlus ==
  ASSUME NEW f, NEW g, NEW h, NEW S, IsFiniteSet(S),
         \A x \in S : f[x] \in Int /\ g[x] \in Int /\ h[x] = f[x] + g[x]
  PROVE  SumFunctionOnSet(h, S) = SumFunctionOnSet(f, S) + SumFunctionOnSet(g, S)
<1> DEFINE F(U) == SumFunctionOnSet(f, U)  H(U) == SumFunctionOnSet(h, U)
           K(U) == SumFunctionOnSet(g, U)
           G == {T \in SUBSET S : H(T) = F(T) + K(T)}
<1>1. {} \in G
  BY SumEmpty
<1>2. ASSUME NEW T \in SUBSET S, NEW x \in T, T \ {x} \in G PROVE T \in G
  <2>1. /\ F(T) = f[x] + F(T \ {x}) /\ K(T) = g[x] + K(T \ {x})
        /\ F(T \ {x}) \in Int /\ K(T \ {x}) \in Int
    BY SumPieces
  <2>2. H(T) = h[x] + H(T \ {x})
    BY SumPieces
  <2>3. H(T \ {x}) = F(T \ {x}) + K(T \ {x}) /\ f[x] \in Int /\ g[x] \in Int
        /\ h[x] = f[x] + g[x]
    BY <1>2
  <2>4. H(T) = F(T) + K(T)
    <3> HIDE DEF F, H, K, G
    <3> QED BY <2>1, <2>2, <2>3
  <2> QED BY <2>4
<1> HIDE DEF G
<1>3. \A T \in SUBSET S : T \in G
  BY <1>1, <1>2, OneByOne
<1> QED BY <1>3 DEF G

(* A common factor can be taken out. *)
LEMMA SumScale ==
  ASSUME NEW f, NEW g, NEW c \in Int, NEW S, IsFiniteSet(S),
         \A x \in S : f[x] \in Int /\ g[x] = c * f[x]
  PROVE  SumFunctionOnSet(g, S) = c * SumFunctionOnSet(f, S)
<1> DEFINE F(U) == SumFunctionOnSet(f, U)
           K(U) == SumFunctionOnSet(g, U)
           G == {T \in SUBSET S : K(T) = c * F(T)}
<1>0. \A x \in S : g[x] \in Int
  OBVIOUS
<1>1. {} \in G
  BY SumEmpty
<1>2. ASSUME NEW T \in SUBSET S, NEW x \in T, T \ {x} \in G PROVE T \in G
  <2>1. F(T) = f[x] + F(T \ {x}) /\ F(T \ {x}) \in Int
    BY SumPieces
  <2>2. K(T) = g[x] + K(T \ {x})
    BY <1>0, SumPieces
  <2>3. K(T \ {x}) = c * F(T \ {x}) /\ f[x] \in Int /\ g[x] = c * f[x]
    BY <1>2
  <2>4. K(T) = c * F(T)
    <3> HIDE DEF F, K, G
    <3> QED BY <2>1, <2>2, <2>3
  <2> QED BY <2>4
<1> HIDE DEF G
<1>3. \A T \in SUBSET S : T \in G
  BY <1>1, <1>2, OneByOne
<1> QED BY <1>3 DEF G

(* Terms that are found again, each in a place of its own, add up to no     *)
(* more than all that is there.                                             *)
LEMMA SumPlaced ==
  ASSUME NEW f, NEW g, NEW S, NEW T, IsFiniteSet(S), IsFiniteSet(T),
         NEW place \in [S -> T], \A x, y \in S : place[x] = place[y] => x = y,
         \A x \in S : f[x] = g[place[x]], \A y \in T : g[y] \in Nat
  PROVE  SumFunctionOnSet(f, S) <= SumFunctionOnSet(g, T)
<1> DEFINE F(U) == SumFunctionOnSet(f, U)
           K(U) == SumFunctionOnSet(g, U)
           image(U) == {place[x] : x \in U}
           G == {U \in SUBSET S : F(U) = K(image(U))}
<1>0. \A x \in S : f[x] \in Nat /\ f[x] \in Int
  OBVIOUS
<1>1. {} \in G
  <2>1. image({}) = {}
    OBVIOUS
  <2>2. F({}) = 0 /\ K({}) = 0
    BY SumEmpty
  <2>3. F({}) = K(image({}))
    BY <2>1, <2>2, Zenon
  <2> QED BY <2>3
<1>2. ASSUME NEW U \in SUBSET S, NEW x \in U, U \ {x} \in G PROVE U \in G
  <2>1. F(U) = f[x] + F(U \ {x})
    BY <1>0, SumPieces
  <2>2. image(U) \in SUBSET T /\ place[x] \in image(U)
    OBVIOUS
  <2>3. image(U) \ {place[x]} = image(U \ {x})
    OBVIOUS
  <2>4. K(image(U)) = g[place[x]] + K(image(U) \ {place[x]})
    <3> PICK I : I = image(U)
      OBVIOUS
    <3> HIDE DEF image
    <3>1. K(I) = g[place[x]] + K(I \ {place[x]})
      BY <2>2, SumPieces
    <3> QED BY <3>1
  <2>5. K(image(U) \ {place[x]}) = K(image(U \ {x}))
    BY <2>3, Zenon
  <2>6. F(U \ {x}) = K(image(U \ {x})) /\ f[x] = g[place[x]]
    BY <1>2
  <2>7. F(U) = K(image(U))
    <3> HIDE DEF F, K, G, image
    <3> QED BY <2>1, <2>4, <2>5, <2>6
  <2> QED BY <2>7
<1>3. \A U \in SUBSET S : U \in G
  <2> HIDE DEF G
  <2> QED BY <1>1, <1>2, OneByOne
<1>4. image(S) \in SUBSET T
  OBVIOUS
<1>5. F(S) = K(image(S))
  BY <1>3
<1>6. K(image(S)) <= K(T)
  <2> PICK I : I = image(S)
    OBVIOUS
  <2>1. I \in SUBSET T
    BY <1>4
  <2> HIDE DEF image
  <2>2. K(I) <= K(T)
    BY <2>1, SumPart
  <2> QED BY <2>2
<1> QED BY <1>5, <1>6

(* One term is its own sum. *)
LEMMA SumOne ==
  ASSUME NEW f, NEW x, f[x] \in Int
  PROVE  SumFunctionOnSet(f, {x}) = f[x]
<1>1. IsFiniteSet({x})
  BY FS_Singleton
<1>2. \A y \in {x} : SumFunctionOnSet(f, {x}) = f[y] + SumFunctionOnSet(f, {x} \ {y})
  BY <1>1, SumRemove
<1>3. {x} \ {x} = {}
  OBVIOUS
<1>4. SumFunctionOnSet(f, {x} \ {x}) = 0
  BY <1>3, SumEmpty, Zenon
<1> QED BY <1>2, <1>4

(* The same for each is that much for every one. *)
LEMMA SumConstant ==
  ASSUME NEW f, NEW c \in Nat, NEW S, IsFiniteSet(S), \A x \in S : f[x] = c
  PROVE  SumFunctionOnSet(f, S) = Cardinality(S) * c
<1> DEFINE F(U) == SumFunctionOnSet(f, U)
           G == {T \in SUBSET S : F(T) = Cardinality(T) * c}
<1>0. \A x \in S : f[x] \in Int
  OBVIOUS
<1>1. {} \in G
  BY SumEmpty, FS_EmptySet
<1>2. ASSUME NEW T \in SUBSET S, NEW x \in T, T \ {x} \in G PROVE T \in G
  <2>1. F(T) = f[x] + F(T \ {x})
    BY <1>0, SumPieces
  <2>2. F(T \ {x}) = Cardinality(T \ {x}) * c /\ f[x] = c
    BY <1>2
  <2>3. IsFiniteSet(T)
    BY FS_Subset
  <2>4. Cardinality(T \ {x}) = Cardinality(T) - 1 /\ Cardinality(T) \in Nat
    BY <2>3, FS_RemoveElement, FS_CardinalityType
  <2>5. PICK k : k = Cardinality(T)
    OBVIOUS
  <2>6. (k - 1) * c + c = k * c
    BY <2>4, <2>5
  <2>7. F(T) = Cardinality(T) * c
    <3> HIDE DEF F, G
    <3> QED BY <2>1, <2>2, <2>4, <2>5, <2>6
  <2> QED BY <2>7
<1> HIDE DEF G
<1>3. \A T \in SUBSET S : T \in G
  BY <1>1, <1>2, OneByOne
<1> QED BY <1>3 DEF G
=============================================================================
