---------------------------- MODULE VideoProbeProofs ----------------------------
(***************************************************************************)
(* VideoProbe for every number of paths, frames, fragments and copies: its   *)
(* variables keep their types, every frame seen is counted once, every       *)
(* fragment of a complete frame has arrived, and the joined rows are exact,  *)
(* the losses on both paths and the longest outage with them.                *)
(***************************************************************************)
EXTENDS VideoProbe, FiniteSetTheorems, WellFoundedInduction, TLAPS

-----------------------------------------------------------------------------
(* Induction by a smallest counterexample, and sums over finite sets.        *)

(* Smallest element of a set of numbers.                                     *)
LEMMA Least ==
  ASSUME NEW S, S \subseteq Nat, S # {}
  PROVE  \E m \in S : \A k \in Nat : k < m => k \notin S
<1> DEFINE Below == OpToRel(<, Nat)
<1>1. IsWellFoundedOn(Below, Nat)
  BY NatLessThanWellFounded DEF OpToRel
<1> HIDE DEF Below
<1>2. PICK m \in S : ~(\E y \in S : <<y, m>> \in Below)
  BY <1>1, WFMin
<1> QED BY <1>2 DEF Below, OpToRel

(* A bounded set of numbers has a greatest, and Max is it.                   *)
LEMMA MaxIsGreatest ==
  ASSUME NEW S \in SUBSET Nat, S # {}, NEW n \in Nat, \A y \in S : y <= n
  PROVE  Max(S) \in S /\ \A y \in S : y <= Max(S)
<1> DEFINE Bounds == {b \in Nat : \A y \in S : y <= b}
<1>1. PICK m \in Bounds : \A k \in Nat : k < m => k \notin Bounds
  <2>1. Bounds \subseteq Nat /\ n \in Bounds
    OBVIOUS
  <2> HIDE DEF Bounds
  <2> QED BY <2>1, Least
<1>2. m \in S
  <2> SUFFICES ASSUME m \notin S PROVE FALSE
    OBVIOUS
  <2>1. \A y \in S : y \in Nat /\ y < m
    BY <1>1
  <2>0. PICK y \in S : y \in Nat /\ y < m
    BY <2>1
  <2>2. m \in Nat /\ m - 1 \in Nat /\ m - 1 < m
    BY <2>0, <1>1
  <2>3. m - 1 \in Bounds
    BY <2>1, <2>2, <1>1
  <2> QED BY <1>1, <2>2, <2>3
<1>3. \A y \in S : m >= y
  BY <1>1
<1>4. \A y \in S : y \in Int
  OBVIOUS
<1>5. Max(S) \in S /\ \A y \in S : Max(S) >= y
  BY <1>2, <1>3 DEF Max
<1> QED BY <1>4, <1>5

(* The smallest subset of a finite set that is bad: no part of it is.        *)
LEMMA LeastSubset ==
  ASSUME NEW S, IsFiniteSet(S), NEW Bad \in SUBSET (SUBSET S), Bad # {}
  PROVE  \E s \in Bad : \A t \in SUBSET s : t # s => t \notin Bad
<1> DEFINE Sizes == {Cardinality(s) : s \in Bad}
<1>1. \A s \in SUBSET S : IsFiniteSet(s) /\ Cardinality(s) \in Nat
  BY FS_Subset, FS_CardinalityType
<1>2. PICK m \in Sizes : \A k \in Nat : k < m => k \notin Sizes
  <2>1. Sizes \subseteq Nat /\ Sizes # {}
    BY <1>1
  <2> HIDE DEF Sizes
  <2> QED BY <2>1, Least
<1>3. PICK s \in Bad : Cardinality(s) = m
  BY <1>2
<1>4. ASSUME NEW t \in SUBSET s, t # s PROVE t \notin Bad
  <2>1. IsFiniteSet(s) /\ Cardinality(s) \in Nat /\ Cardinality(t) \in Nat
    BY <1>1
  <2>2. Cardinality(t) <= Cardinality(s) /\ Cardinality(t) # Cardinality(s)
    BY <1>4, <2>1, FS_Subset
  <2>3. Cardinality(t) \notin Sizes
    BY <1>2, <1>3, <2>1, <2>2
  <2> QED BY <2>3
<1> QED BY <1>4

-----------------------------------------------------------------------------
(* The sum of the numbers f over finite sets.  A fold takes the elements in  *)
(* an order of its own, pick, and adds from the left or from the right.      *)
Addable(S, f, pick) ==
  /\ IsFiniteSet(S) /\ f \in [S -> Nat]
  /\ \A s \in SUBSET S : s # {} => pick[s] \in s

IsSum(sum, S, f, pick) ==
  /\ Addable(S, f, pick)
  /\ sum[{}] = 0
  /\ \A s \in SUBSET S : s # {} =>
       LET x == pick[s] IN sum[s] \in {f[x] + sum[s \ {x}], sum[s \ {x}] + f[x]}

Solves(sum, S, f, pick) ==
  /\ sum \in [SUBSET S -> Nat]
  /\ \A s \in SUBSET S :
       sum[s] = IF s = {} THEN 0 ELSE f[pick[s]] + sum[s \ {pick[s]}]

(* There are such sums.                                                      *)
LEMMA SumExists ==
  ASSUME NEW S, NEW f, NEW pick, Addable(S, f, pick)
  PROVE  \E sum : Solves(sum, S, f, pick)
<1> DEFINE Small(n) == {s \in SUBSET S : Cardinality(s) <= n}
           Step(sum, s) == IF s = {} THEN 0 ELSE f[pick[s]] + sum[s \ {pick[s]}]
           Solved(n) == \E sum \in [Small(n) -> Nat] : \A s \in Small(n) : sum[s] = Step(sum, s)
           Bad == {n \in Nat : ~Solved(n)}
<1>1. \A s \in SUBSET S : IsFiniteSet(s) /\ Cardinality(s) \in Nat
  BY FS_Subset, FS_CardinalityType DEF Addable
<1>2. ASSUME NEW s \in SUBSET S, s # {}
      PROVE  /\ pick[s] \in s /\ f[pick[s]] \in Nat /\ s \ {pick[s]} \in SUBSET S
             /\ Cardinality(s \ {pick[s]}) = Cardinality(s) - 1
  BY <1>1, <1>2, FS_RemoveElement DEF Addable
<1>3. Bad = {}
  <2> SUFFICES ASSUME Bad # {} PROVE FALSE
    OBVIOUS
  <2>1. PICK m \in Bad : \A k \in Nat : k < m => k \notin Bad
    <3> HIDE DEF Bad
    <3> QED BY Least DEF Bad
  <2>2. CASE m = 0
    <3>1. \A s \in Small(0) : s = {}
      BY <1>1, FS_EmptySet
    <3> DEFINE sum == [s \in Small(0) |-> 0]
    <3>2. sum \in [Small(0) -> Nat] /\ \A s \in Small(0) : sum[s] = Step(sum, s)
      BY <3>1
    <3>3. Solved(0)
      BY <3>2
    <3> QED BY <2>1, <2>2, <3>3
  <2>3. CASE m # 0
    <3>1. m - 1 \in Nat /\ m \in Nat /\ Solved(m - 1)
      <4>1. m \in Nat /\ m - 1 \in Nat /\ m - 1 < m
        BY <2>1, <2>3
      <4> HIDE DEF Solved
      <4> QED BY <2>1, <4>1
    <3> HIDE DEF Bad
    <3>2. PICK old \in [Small(m - 1) -> Nat] : \A s \in Small(m - 1) : old[s] = Step(old, s)
      BY <3>1
    <3> DEFINE sum == [s \in Small(m) |-> Step(old, s)]
    <3>3. ASSUME NEW s \in Small(m), s # {} PROVE s \ {pick[s]} \in Small(m - 1)
      BY <1>1, <1>2, <3>1, <3>3
    <3>4. sum \in [Small(m) -> Nat]
      <4> SUFFICES ASSUME NEW s \in Small(m) PROVE Step(old, s) \in Nat
        OBVIOUS
      <4>1. CASE s = {}
        BY <4>1
      <4>2. CASE s # {}
        <5>1. old[s \ {pick[s]}] \in Nat
          BY <3>3, <4>2
        <5> QED BY <1>2, <4>2, <5>1
      <4> QED BY <4>1, <4>2
    <3>5. ASSUME NEW s \in Small(m - 1) PROVE s \in Small(m) /\ sum[s] = old[s]
      BY <1>1, <3>1, <3>2
    <3>6. ASSUME NEW s \in Small(m) PROVE sum[s] = Step(sum, s)
      <4>1. CASE s = {}
        BY <4>1
      <4>2. CASE s # {}
        <5>1. sum[s \ {pick[s]}] = old[s \ {pick[s]}]
          BY <3>3, <3>5, <4>2
        <5>2. sum[s] = Step(old, s)
          OBVIOUS
        <5> HIDE DEF sum
        <5> QED BY <4>2, <5>1, <5>2
      <4> QED BY <4>1, <4>2
    <3>7. Solved(m)
      <4> HIDE DEF sum, Step
      <4> QED BY <3>4, <3>6
    <3> QED BY <2>1, <3>7 DEF Bad
  <2> QED BY <2>2, <2>3
<1>4. Solved(Cardinality(S))
  <2>1. Cardinality(S) \in Nat
    BY <1>1
  <2> QED BY <1>3, <2>1
<1>5. Small(Cardinality(S)) = SUBSET S
  <2>1. \A s \in SUBSET S : Cardinality(s) <= Cardinality(S)
    BY FS_Subset DEF Addable
  <2> QED BY <2>1
<1>6. PICK sum \in [SUBSET S -> Nat] : \A s \in SUBSET S : sum[s] = Step(sum, s)
  <2> HIDE DEF Small, Step
  <2> QED BY <1>4, <1>5
<1> QED BY <1>6 DEF Solves

(* A sum is a number, and any element may be taken from it.                  *)
LEMMA SumGrows ==
  ASSUME NEW S, NEW f, NEW pick, NEW sum, IsSum(sum, S, f, pick), NEW A \in SUBSET S
  PROVE  /\ sum[A] \in Nat
         /\ \A x \in A : sum[A] = sum[A \ {x}] + f[x]
<1> DEFINE Good(s) == sum[s] \in Nat /\ \A x \in s : sum[s] = sum[s \ {x}] + f[x]
           Bad == {s \in SUBSET S : ~Good(s)}
<1>0. IsFiniteSet(S) /\ f \in [S -> Nat]
  BY DEF IsSum, Addable
<1>1. SUFFICES ASSUME Bad # {} PROVE FALSE
  OBVIOUS
<1>2. PICK s \in Bad : \A t \in SUBSET s : t # s => t \notin Bad
  <2> HIDE DEF Good
  <2> QED BY <1>0, <1>1, LeastSubset
<1> SUFFICES Good(s)
  BY <1>2
<1>3. \A t \in SUBSET s : t # s => Good(t)
  BY <1>2
<1>4. CASE s = {}
  BY <1>4 DEF IsSum
<1>5. CASE s # {}
  <2> DEFINE p == pick[s]
  <2>1. p \in s /\ f[p] \in Nat /\ s \in SUBSET S
    BY <1>0, <1>2, <1>5 DEF IsSum, Addable
  <2>2. sum[s] \in {f[p] + sum[s \ {p}], sum[s \ {p}] + f[p]}
    BY <1>5, <2>1 DEF IsSum
  <2> HIDE DEF p
  <2>3. sum[s \ {p}] \in Nat
    BY <1>3, <2>1
  <2>4. sum[s] = sum[s \ {p}] + f[p] /\ sum[s] \in Nat
    BY <2>1, <2>2, <2>3
  <2>5. ASSUME NEW x \in s, x # p PROVE sum[s] = sum[s \ {x}] + f[x]
    <3>1. (s \ {p}) \ {x} = (s \ {x}) \ {p}
      OBVIOUS
    <3>2. sum[s \ {p}] = sum[(s \ {p}) \ {x}] + f[x] /\ sum[s \ {p}] \in Nat
      BY <1>3, <2>1, <2>5
    <3>3. sum[s \ {x}] = sum[(s \ {x}) \ {p}] + f[p] /\ sum[s \ {x}] \in Nat
      BY <1>3, <2>1, <2>5
    <3>4. f[x] \in Nat
      BY <1>0, <2>1
    <3> DEFINE rest == sum[(s \ {x}) \ {p}]
    <3>5. sum[s \ {p}] = rest + f[x] /\ sum[s \ {x}] = rest + f[p]
      BY <3>1, <3>2, <3>3
    <3>6. rest \in Nat
      BY <1>3, <2>1
    <3> HIDE DEF rest
    <3> QED BY <2>1, <2>4, <3>4, <3>5, <3>6
  <2> QED BY <2>4, <2>5
<1> QED BY <1>4, <1>5

(* Two sums over the same numbers are the same, whatever the order, and      *)
(* numbers that are zero may be left out.                                    *)
LEMMA SumsAgree ==
  ASSUME NEW S, NEW f, NEW pickS, NEW sumS, IsSum(sumS, S, f, pickS),
         NEW T, NEW g, NEW pickT, NEW sumT, IsSum(sumT, T, g, pickT),
         NEW A \in SUBSET S, NEW B \in SUBSET T, A \subseteq B,
         \A x \in A : g[x] = f[x], \A x \in B \ A : g[x] = 0
  PROVE  sumT[B] = sumS[A]
<1> DEFINE Bad == {s \in SUBSET B : sumT[s] # sumS[s \intersect A]}
<1>1. SUFFICES ASSUME Bad # {} PROVE FALSE
  <2>1. B \notin Bad
    BY <1>1
  <2>2. B \intersect A = A
    OBVIOUS
  <2> QED BY <2>1, <2>2
<1>2. PICK s \in Bad : \A t \in SUBSET s : t # s => t \notin Bad
  <2>1. IsFiniteSet(B) /\ Bad \in SUBSET (SUBSET B)
    BY FS_Subset DEF IsSum, Addable
  <2> HIDE DEF Bad
  <2> QED BY <1>1, <2>1, LeastSubset
<1>3. s \in SUBSET B /\ s \in SUBSET T /\ s \intersect A \in SUBSET S
      /\ sumT[s] # sumS[s \intersect A]
  BY <1>2
<1>4. CASE s = {}
  <2>1. s \intersect A = {}
    BY <1>4
  <2> QED BY <1>3, <1>4, <2>1 DEF IsSum
<1>5. CASE s # {}
  <2>1. PICK x \in s : TRUE
    BY <1>5
  <2>2. sumT[s] = sumT[s \ {x}] + g[x]
    BY <1>3, SumGrows
  <2>3. sumT[s \ {x}] = sumS[(s \ {x}) \intersect A]
    <3>1. s \ {x} \in SUBSET s /\ s \ {x} # s
      BY <2>1
    <3> QED BY <1>2, <1>3, <3>1
  <2>4. sumS[(s \ {x}) \intersect A] \in Nat
    BY <1>3, SumGrows
  <2>0. g[x] \in Nat
    BY <1>3, <2>1 DEF IsSum, Addable
  <2>5. CASE x \in A
    <3>1. (s \ {x}) \intersect A = (s \intersect A) \ {x} /\ x \in s \intersect A
      BY <2>1, <2>5
    <3>2. sumS[s \intersect A] = sumS[(s \intersect A) \ {x}] + f[x]
      BY <1>3, <3>1, SumGrows
    <3>3. f[x] = g[x]
      BY <2>5
    <3> QED BY <1>3, <2>2, <2>3, <3>1, <3>2, <3>3
  <2>6. CASE x \notin A
    <3>1. (s \ {x}) \intersect A = s \intersect A /\ g[x] = 0
      BY <1>3, <2>1, <2>6
    <3>2. sumT[s] = sumS[s \intersect A] + 0 /\ sumS[s \intersect A] \in Nat
      BY <2>2, <2>3, <2>4, <3>1
    <3> QED BY <1>3, <3>2
  <2> QED BY <2>5, <2>6
<1> QED BY <1>4, <1>5

(* One number more, or one that changes.                                     *)
LEMMA SumMoves ==
  ASSUME NEW S, NEW f, NEW pickS, NEW sumS, IsSum(sumS, S, f, pickS),
         NEW T, NEW g, NEW pickT, NEW sumT, IsSum(sumT, T, g, pickT),
         S \subseteq T, NEW i \in T,
         \A x \in S \ {i} : g[x] = f[x], \A x \in T \ (S \union {i}) : g[x] = 0
  PROVE  /\ sumS[S] \in Nat /\ sumT[T] \in Nat
         /\ sumT[T] + (IF i \in S THEN f[i] ELSE 0) = sumS[S] + g[i]
<1>1. sumT[T \ {i}] = sumS[S \ {i}]
  <2>1. /\ S \ {i} \in SUBSET S /\ T \ {i} \in SUBSET T /\ S \ {i} \subseteq T \ {i}
        /\ \A x \in S \ {i} : g[x] = f[x]
        /\ \A x \in (T \ {i}) \ (S \ {i}) : g[x] = 0
    OBVIOUS
  <2> QED BY <2>1, SumsAgree
<1>2. /\ T \in SUBSET T /\ sumT[T] \in Nat /\ sumT[T] = sumT[T \ {i}] + g[i]
      /\ S \in SUBSET S /\ sumS[S] \in Nat /\ sumS[S \ {i}] \in Nat
  BY SumGrows
<1>3. g[i] \in Nat
  BY DEF IsSum, Addable
<1>4. CASE i \in S
  <2>1. sumS[S] = sumS[S \ {i}] + f[i]
    <3>1. \A x \in S : sumS[S] = sumS[S \ {x}] + f[x]
      BY SumGrows
    <3> QED BY <1>4, <3>1
  <2>2. f[i] \in Nat
    BY <1>4 DEF IsSum, Addable
  <2> QED BY <1>1, <1>2, <1>3, <1>4, <2>1, <2>2
<1>5. CASE i \notin S
  <2>1. S \ {i} = S
    BY <1>5
  <2>2. sumS[S \ {i}] = sumS[S]
    BY <2>1
  <2>3. sumT[T] = sumS[S] + g[i]
    BY <1>1, <1>2, <2>2
  <2> QED BY <1>2, <1>3, <1>5, <2>3
<1> QED BY <1>4, <1>5

(* The sizes of sets that do not meet add up to the size of their union.     *)
AreSizes(f, set, S) ==
  /\ \A x \in S : IsFiniteSet(set[x]) /\ f[x] = Cardinality(set[x])
  /\ \A x, y \in S : x # y => set[x] \intersect set[y] = {}

IsUnion(all, set, S) == \A e : e \in all <=> \E x \in S : e \in set[x]

LEMMA SumOfSizes ==
  ASSUME NEW S, NEW f, NEW pick, NEW sum, IsSum(sum, S, f, pick),
         NEW set, AreSizes(f, set, S), NEW all, IsUnion(all, set, S)
  PROVE  sum[S] = Cardinality(all)
<1> DEFINE Whole(s) == UNION {set[x] : x \in s}
           Good(s) == IsFiniteSet(Whole(s)) /\ sum[s] = Cardinality(Whole(s))
           Bad == {s \in SUBSET S : ~Good(s)}
<1>1. SUFFICES ASSUME Bad # {} PROVE FALSE
  <2>1. S \notin Bad
    BY <1>1
  <2>2. all = Whole(S)
    <3>1. \A e : e \in Whole(S) <=> \E x \in S : e \in set[x]
      OBVIOUS
    <3> HIDE DEF Whole
    <3> QED BY <3>1 DEF IsUnion
  <2>3. Good(S)
    <3> HIDE DEF Good
    <3> QED BY <2>1
  <2> HIDE DEF Whole
  <2> QED BY <2>2, <2>3
<1>2. PICK s \in Bad : \A t \in SUBSET s : t # s => t \notin Bad
  <2>1. Bad \in SUBSET (SUBSET S)
    OBVIOUS
  <2>2. IsFiniteSet(S)
    BY DEF IsSum, Addable
  <2> HIDE DEF Bad
  <2> QED BY <1>1, <2>1, <2>2, LeastSubset
<1> SUFFICES Good(s)
  BY <1>2
<1>3. s \in SUBSET S
  BY <1>2
<1>4. CASE s = {}
  <2>1. Whole(s) = {}
    BY <1>4
  <2> HIDE DEF Whole
  <2> QED BY <1>4, <2>1, FS_EmptySet DEF IsSum
<1>5. CASE s # {}
  <2>1. PICK x \in s : TRUE
    BY <1>5
  <2> DEFINE t == s \ {x}
  <2>2. t \in SUBSET s /\ t # s
    BY <2>1
  <2>3. Good(t)
    <3> HIDE DEF Good
    <3> QED BY <1>2, <1>3, <2>2
  <2>4. sum[s] = sum[t] + f[x] /\ f[x] = Cardinality(set[x]) /\ IsFiniteSet(set[x])
    <3>1. sum[s] = sum[s \ {x}] + f[x]
      BY <1>3, <2>1, SumGrows
    <3>2. f[x] = Cardinality(set[x]) /\ IsFiniteSet(set[x])
      BY <1>3, <2>1 DEF AreSizes
    <3> QED BY <3>1, <3>2
  <2>5. Whole(s) = Whole(t) \union set[x]
    <3>1. \A e : e \in Whole(s) <=> \E y \in s : e \in set[y]
      OBVIOUS
    <3>2. \A e : e \in Whole(t) <=> \E y \in t : e \in set[y]
      OBVIOUS
    <3>3. \A y : y \in s <=> y \in t \/ y = x
      BY <2>1
    <3> HIDE DEF Whole, t
    <3> QED BY <3>1, <3>2, <3>3
  <2>6. Whole(t) \intersect set[x] = {}
    <3>1. \A y \in t : y \in S /\ x \in S /\ y # x
      BY <1>3, <2>1
    <3>2. \A y \in t : set[y] \intersect set[x] = {}
      BY <3>1 DEF AreSizes
    <3> QED BY <3>2
  <2> HIDE DEF Whole, t
  <2>7. /\ IsFiniteSet(Whole(t) \union set[x])
        /\ Cardinality(Whole(t) \union set[x])
             = Cardinality(Whole(t)) + Cardinality(set[x])
                 - Cardinality(Whole(t) \intersect set[x])
    BY <2>3, <2>4, FS_Union
  <2>8. Cardinality(Whole(t) \intersect set[x]) = 0
    BY <2>6, FS_EmptySet
  <2>9. Cardinality(Whole(t)) \in Nat /\ Cardinality(set[x]) \in Nat
    BY <2>3, <2>4, FS_CardinalityType
  <2> QED BY <2>3, <2>4, <2>5, <2>7, <2>8, <2>9
<1> QED BY <1>4, <1>5

-----------------------------------------------------------------------------
(* Frames and fragments are numbered from 0.                                *)

LEMMA Finite ==
  /\ IsFiniteSet(FrameIds) /\ Cardinality(FrameIds) = Frames
  /\ IsFiniteSet(Indices) /\ Cardinality(Indices) = Fragments
<1>1. Frames \in Nat \ {0} /\ Fragments \in Nat \ {0}
  BY VideoAssumption
<1>2. IsFiniteSet(0 .. Frames - 1) /\ Cardinality(0 .. Frames - 1) = Frames
  BY <1>1, FS_Interval
<1>3. IsFiniteSet(0 .. Fragments - 1) /\ Cardinality(0 .. Fragments - 1) = Fragments
  BY <1>1, FS_Interval
<1> QED BY <1>2, <1>3 DEF FrameIds, Indices

(* Cardinality of sets of frames.                                            *)
LEMMA FrameSets ==
  ASSUME NEW S \in SUBSET FrameIds
  PROVE  IsFiniteSet(S) /\ Cardinality(S) \in 0 .. Frames
<1>1. IsFiniteSet(S) /\ Cardinality(S) <= Cardinality(FrameIds)
  BY Finite, FS_Subset
<1> QED BY <1>1, Finite, FS_CardinalityType

(* Min picks a member.                                                       *)
LEMMA MinIsMember ==
  ASSUME NEW S \in SUBSET FrameIds, S # {}
  PROVE  Min(S) \in S
<1> DEFINE UpTo == {0 .. x : x \in S}
<1>1. S \subseteq Nat /\ UpTo \subseteq SUBSET FrameIds /\ UpTo # {}
  <2>1. Frames \in Nat
    BY VideoAssumption
  <2>2. \A x \in S : x \in Nat /\ 0 .. x \subseteq FrameIds
    BY <2>1 DEF FrameIds
  <2> QED BY <2>2
<1>2. IsWellFoundedOn(StrictSubsetOrdering(FrameIds), SUBSET FrameIds)
  BY Finite, FS_FiniteSubsetsOfFinite, FS_StrictSubsetOrderingWellFounded
<1>3. PICK t \in UpTo : \A u \in UpTo : <<u, t>> \notin StrictSubsetOrdering(FrameIds)
  BY <1>1, <1>2, WFMin
<1>4. PICK x \in S : t = 0 .. x
  OBVIOUS
<1>5. \A y \in S : x =< y
  <2> SUFFICES ASSUME NEW y \in S, y < x PROVE FALSE
    BY <1>1
  <2>1. 0 .. y \subseteq t /\ x \in t /\ x \notin 0 .. y
    BY <1>1, <1>4
  <2>2. <<0 .. y, t>> \in StrictSubsetOrdering(FrameIds)
    BY <1>1, <2>1 DEF StrictSubsetOrdering
  <2> QED BY <1>3, <2>2
<1> QED BY <1>5 DEF Min

-----------------------------------------------------------------------------
(* What is invariant of the node's table.  `room' is how many frames may be  *)
(* in the making: MaxActive, and one more in the middle of a step.           *)

Got(came, p, f) == {i \in Indices : [path |-> p, frame |-> f, index |-> i] \in came}

Settled(path) ==
  /\ Active(path) \subseteq FrameIds
  /\ path.finalized \subseteq FrameIds
  /\ path.whole \subseteq path.finalized
  /\ Active(path) \intersect path.finalized = {}

Counted(path) ==
  /\ path.partials \in Nat
  /\ path.completes = Cardinality(path.whole)
  /\ path.completes + path.partials = Cardinality(path.finalized)
  /\ path.seen = Cardinality(path.finalized) + Cardinality(Active(path))

Backed(came, p, path) ==
  /\ \A f \in Active(path) :
       path.active[f] \subseteq Got(came, p, f) /\ path.active[f] # {}
  /\ \A f \in path.whole : Got(came, p, f) = Indices
  /\ \A f \in path.finalized : Got(came, p, f) # {}

PathInv(came, p, path, room) ==
  /\ Settled(path)
  /\ Counted(path)
  /\ Cardinality(Active(path)) =< room
  /\ Backed(came, p, path)

-----------------------------------------------------------------------------
(* What a frame's fragments say of it is what arrived of it.                 *)
LEMMA WholeMeansAll ==
  ASSUME NEW S \in SUBSET Indices, IsWhole(S)
  PROVE  S = Indices
<1>1. Cardinality(S) >= Fragments /\ Cardinality(S) =< Cardinality(Indices)
  BY Finite, FS_Subset DEF IsWhole
<1>2. Cardinality(S) \in Nat /\ Fragments \in Nat
  BY Finite, FS_Subset, FS_CardinalityType
<1>3. Cardinality(S) = Cardinality(Indices)
  BY <1>1, <1>2, Finite
<1> QED BY <1>3, Finite, FS_Subset

(* More fragments and more room do no harm.                                  *)
LEMMA Weaken ==
  ASSUME NEW came, NEW more, came \subseteq more, NEW p, NEW path,
         NEW room \in Nat, NEW larger \in Nat, room =< larger,
         PathInv(came, p, path, room)
  PROVE  PathInv(more, p, path, larger)
<1>1. \A f : Got(came, p, f) \subseteq Got(more, p, f) /\ Got(more, p, f) \subseteq Indices
  BY DEF Got
<1>2. Backed(more, p, path)
  BY <1>1 DEF PathInv, Backed
<1>3. Cardinality(Active(path)) \in Nat
  BY FrameSets DEF PathInv, Settled
<1> QED BY <1>2, <1>3 DEF PathInv

(* The fields of a path that is put together.                                *)
LEMMA PathFields ==
  ASSUME NEW a, NEW s, NEW c, NEW n, NEW w, NEW z
  PROVE  /\ Path(a, s, c, n, w, z).active = a
         /\ Path(a, s, c, n, w, z).seen = s
         /\ Path(a, s, c, n, w, z).completes = c
         /\ Path(a, s, c, n, w, z).partials = n
         /\ Path(a, s, c, n, w, z).whole = w
         /\ Path(a, s, c, n, w, z).finalized = z
BY DEF Path

LEMMA UnknownPath ==
  ASSUME NEW p, NEW came
  PROVE  PathInv(came, p, Unknown, MaxActive)
<1>1. /\ Active(Unknown) = {} /\ Unknown.finalized = {} /\ Unknown.whole = {}
      /\ Unknown.partials = 0 /\ Unknown.completes = 0 /\ Unknown.seen = 0
  BY DEF Unknown, Path, Active
<1>2. Cardinality({}) = 0
  BY FS_EmptySet
<1> QED
  BY <1>1, <1>2, VideoAssumption DEF PathInv, Settled, Counted, Backed

(* Giving up a frame, or finding it complete, moves it to the settled ones   *)
(* and makes room.                                                           *)
LEMMA FinalizeKeeps ==
  ASSUME NEW came, NEW p, NEW path, NEW room \in Nat,
         PathInv(came, p, path, room + 1), NEW f \in Active(path)
  PROVE  PathInv(came, p, FinalizeOne(path, f), room)
<1> DEFINE new == FinalizeOne(path, f)
<1>1. f \in FrameIds /\ f \notin path.finalized /\ f \notin path.whole
  BY DEF PathInv, Settled
<1>2. /\ Active(new) = Active(path) \ {f}
      /\ \A g \in Active(new) : new.active[g] = path.active[g]
      /\ new.finalized = path.finalized \union {f}
      /\ new.seen = path.seen
      /\ \/ /\ IsWhole(path.active[f])
            /\ new.whole = path.whole \union {f}
            /\ new.completes = path.completes + 1 /\ new.partials = path.partials
         \/ /\ new.whole = path.whole
            /\ new.completes = path.completes /\ new.partials = path.partials + 1
  BY <1>1 DEF FinalizeOne, Path, Without, Active
<1> HIDE DEF new
<1>3. IsFiniteSet(Active(path)) /\ IsFiniteSet(path.finalized) /\ IsFiniteSet(path.whole)
  BY FrameSets DEF PathInv, Settled
<1>4. /\ Cardinality(Active(path)) \in Nat /\ Cardinality(path.finalized) \in Nat
      /\ Cardinality(path.whole) \in Nat
  BY <1>3, FS_CardinalityType
<1>5. /\ Cardinality(Active(new)) = Cardinality(Active(path)) - 1
      /\ Cardinality(new.finalized) = Cardinality(path.finalized) + 1
      /\ Cardinality(path.whole \union {f}) = Cardinality(path.whole) + 1
  <2>1. Cardinality(Active(path) \ {f}) = Cardinality(Active(path)) - 1
    BY <1>3, FS_RemoveElement
  <2>2. Cardinality(path.finalized \union {f}) = Cardinality(path.finalized) + 1
    BY <1>1, <1>3, FS_AddElement
  <2>3. Cardinality(path.whole \union {f}) = Cardinality(path.whole) + 1
    BY <1>1, <1>3, FS_AddElement
  <2> QED BY <1>2, <2>1, <2>2, <2>3
<1>6. Settled(new)
  BY <1>1, <1>2 DEF PathInv, Settled
<1>7. Counted(new)
  <2>1. new.seen = Cardinality(new.finalized) + Cardinality(Active(new))
    BY <1>2, <1>4, <1>5 DEF PathInv, Counted
  <2>2. CASE new.whole = path.whole /\ new.completes = path.completes
                /\ new.partials = path.partials + 1
    BY <1>4, <1>5, <2>1, <2>2 DEF PathInv, Counted
  <2>3. CASE new.whole = path.whole \union {f} /\ new.completes = path.completes + 1
                /\ new.partials = path.partials
    BY <1>4, <1>5, <2>1, <2>3 DEF PathInv, Counted
  <2> QED BY <1>2, <2>2, <2>3
<1>8. Backed(came, p, new)
  <2>1. IsWhole(path.active[f]) => Got(came, p, f) = Indices
    <3>1. path.active[f] \subseteq Got(came, p, f) /\ Got(came, p, f) \subseteq Indices
      BY DEF PathInv, Backed, Got
    <3> QED BY <3>1, WholeMeansAll
  <2>2. Got(came, p, f) # {}
    BY DEF PathInv, Backed
  <2> QED BY <1>2, <2>1, <2>2 DEF PathInv, Backed
<1>9. Cardinality(Active(new)) =< room
  BY <1>4, <1>5 DEF PathInv
<1> QED BY <1>6, <1>7, <1>8, <1>9 DEF PathInv, new

(* A fragment that arrived is added to a frame that is not settled.          *)
LEMMA FragmentKeeps ==
  ASSUME NEW came, NEW p, NEW path, PathInv(came, p, path, MaxActive),
         NEW f \in FrameIds, NEW i \in Indices, f \notin path.finalized,
         [path |-> p, frame |-> f, index |-> i] \in came
  PROVE  /\ PathInv(came, p, WithFragment(path, f, i), MaxActive + 1)
         /\ f \in Active(WithFragment(path, f, i))
<1> DEFINE new == WithFragment(path, f, i)
<1>1. /\ Active(new) = Active(path) \union {f}
      /\ \A g \in Active(new) :
           new.active[g] = (IF g \in Active(path) THEN path.active[g] ELSE {})
                             \union (IF g = f THEN {i} ELSE {})
      /\ new.finalized = path.finalized /\ new.whole = path.whole
      /\ new.completes = path.completes /\ new.partials = path.partials
      /\ new.seen = IF f \in Active(path) THEN path.seen ELSE path.seen + 1
  BY DEF WithFragment, Path, Active
<1> HIDE DEF new
<1>2. IsFiniteSet(Active(path)) /\ IsFiniteSet(path.finalized)
  BY FrameSets DEF PathInv, Settled
<1>3. Cardinality(Active(path)) \in Nat /\ Cardinality(path.finalized) \in Nat
  BY <1>2, FS_CardinalityType
<1>4. Cardinality(Active(new)) = IF f \in Active(path) THEN Cardinality(Active(path))
                                 ELSE Cardinality(Active(path)) + 1
  BY <1>1, <1>2, FS_AddElement
<1>5. Settled(new)
  BY <1>1 DEF PathInv, Settled
<1>6. Counted(new)
  BY <1>1, <1>3, <1>4 DEF PathInv, Counted
<1>7. Backed(came, p, new)
  <2>1. i \in Got(came, p, f)
    BY DEF Got
  <2>2. ASSUME NEW g \in Active(new)
        PROVE  new.active[g] \subseteq Got(came, p, g) /\ new.active[g] # {}
    <3>1. CASE g \in Active(path)
      <4>1. path.active[g] \subseteq Got(came, p, g) /\ path.active[g] # {}
        BY <3>1 DEF PathInv, Backed
      <4> QED BY <1>1, <2>1, <2>2, <3>1, <4>1
    <3>2. CASE g \notin Active(path)
      BY <1>1, <2>1, <2>2, <3>2
    <3> QED BY <3>1, <3>2
  <2> QED BY <1>1, <2>2 DEF PathInv, Backed
<1>8. Cardinality(Active(new)) =< MaxActive + 1
  BY <1>3, <1>4, VideoAssumption DEF PathInv
<1> QED BY <1>1, <1>5, <1>6, <1>7, <1>8 DEF PathInv, new

(* The prune leaves no more frames in the making than the limit.             *)
LEMMA PruneKeeps ==
  ASSUME NEW came, NEW p, NEW path, PathInv(came, p, path, MaxActive + 1)
  PROVE  PathInv(came, p, Prune(path), MaxActive)
<1>1. Active(path) \subseteq FrameIds /\ Cardinality(Active(path)) \in Nat
  BY FrameSets DEF PathInv, Settled
<1>2. MaxActive \in Nat \ {0}
  BY VideoAssumption
<1>3. CASE Cardinality(Active(path)) > MaxActive
  <2>1. Active(path) # {}
    BY <1>2, <1>3, FS_EmptySet
  <2>2. Min(Active(path)) \in Active(path)
    BY <1>1, <2>1, MinIsMember
  <2> QED BY <1>2, <1>3, <2>2, FinalizeKeeps DEF Prune
<1>4. CASE ~ (Cardinality(Active(path)) > MaxActive)
  BY <1>1, <1>2, <1>4 DEF Prune, PathInv
<1> QED BY <1>3, <1>4

(* All of record_video_frame_datagram.                                       *)
LEMMA RecordedKeeps ==
  ASSUME NEW came, NEW p, NEW path, PathInv(came, p, path, MaxActive),
         NEW f \in FrameIds, NEW i \in Indices,
         [path |-> p, frame |-> f, index |-> i] \in came
  PROVE  PathInv(came, p, Recorded(path, f, i), MaxActive)
<1>0. MaxActive \in Nat /\ MaxActive + 1 \in Nat /\ MaxActive =< MaxActive + 1
  BY VideoAssumption
<1>1. CASE TooLate(path, f)
  BY <1>1 DEF Recorded
<1>2. CASE ~ TooLate(path, f)
  <2> DEFINE grown == WithFragment(path, f, i)
             now   == IF IsWhole(grown.active[f]) THEN FinalizeOne(grown, f) ELSE grown
  <2>1. PathInv(came, p, grown, MaxActive + 1) /\ f \in Active(grown)
    BY <1>2, FragmentKeeps DEF TooLate
  <2> HIDE DEF grown
  <2>2. PathInv(came, p, now, MaxActive + 1)
    <3>1. PathInv(came, p, FinalizeOne(grown, f), MaxActive)
      BY <1>0, <2>1, FinalizeKeeps
    <3>2. PathInv(came, p, FinalizeOne(grown, f), MaxActive + 1)
      BY <1>0, <3>1, Weaken
    <3> QED BY <2>1, <3>2
  <2>3. PathInv(came, p, Prune(now), MaxActive)
    <3> HIDE DEF now
    <3> QED BY <2>2, PruneKeeps
  <2> QED BY <1>2, <2>3 DEF Recorded, grown
<1> QED BY <1>1, <1>2

-----------------------------------------------------------------------------
(* The inductive invariant.                                                 *)

Fragment == [path : Paths, frame : FrameIds, index : Indices]
SenderState == [at : {"sending", "done"}, frames : 0 .. Frames, next : Indices]

Types ==
  /\ sender \in [Paths -> SenderState]
  /\ wire \subseteq Fragment /\ arrived \subseteq Fragment
  /\ copies \in 0 .. MaxCopies
  /\ reserved \in BOOLEAN
  /\ result.status \in {"none", "fetched", "error"}

TableInv ==
  /\ DOMAIN table \subseteq Paths
  /\ \A p \in DOMAIN table : PathInv(arrived, p, table[p], MaxActive)

(* Where a sender is in its frames, against a fragment of its path.          *)
SentBefore(s, d) ==
  \/ d.frame < s.frames
  \/ d.frame = s.frames /\ d.index < s.next

SendersInv ==
  /\ \A p \in Paths : sender[p].at = "done" => sender[p].next = 0
  /\ \A d \in wire \union arrived : SentBefore(sender[d.path], d)

VideoInv == Types /\ TableInv /\ SendersInv /\ RowsAddUp

LEMMA InvInit == Init => VideoInv
<1> SUFFICES ASSUME Init PROVE VideoInv
  OBVIOUS
<1>1. 0 \in Indices /\ 0 \in 0 .. Frames /\ 0 \in 0 .. MaxCopies
  BY VideoAssumption, NetworkAssumption DEF Indices
<1>2. Types
  BY <1>1 DEF Init, Types, SenderState, NoResult
<1>3. DOMAIN table = {}
  BY DEF Init
<1>4. SendersInv /\ RowsAddUp
  BY DEF Init, SendersInv, RowsAddUp, Fetched, NoResult
<1> QED BY <1>2, <1>3, <1>4 DEF VideoInv, TableInv

(* A sender's step.                                                          *)
LEMMA SenderKeeps ==
  ASSUME VideoInv, NEW p \in Paths,
         SendFragment(p) \/ StopBetweenFrames(p) \/ StopWithinFrame(p)
  PROVE  VideoInv'
<1>1. UNCHANGED <<copies, table, reserved, result, arrived>>
  BY DEF SendFragment, StopBetweenFrames, StopWithinFrame
<1>2. /\ Frames \in Nat \ {0} /\ Fragments \in Nat \ {0} /\ 0 \in Indices
      /\ sender[p] \in SenderState
      /\ sender[p].frames \in 0 .. Frames /\ sender[p].next \in 0 .. Fragments - 1
      /\ sender[p].at \in {"sending", "done"}
  BY VideoAssumption DEF VideoInv, Types, SenderState, Indices
<1>3. sender' \in [Paths -> SenderState] /\ wire' \subseteq Fragment
  <2>1. CASE SendFragment(p)
    <3>1. [path |-> p, frame |-> sender[p].frames, index |-> sender[p].next] \in Fragment
      BY <1>2, <2>1 DEF SendFragment, Fragment, FrameIds, Indices
    <3>2. wire' \subseteq Fragment
      BY <2>1, <3>1 DEF SendFragment, VideoInv, Types
    <3>3. CASE sender[p].next + 1 < Fragments
      <4>1. [at |-> sender[p].at, frames |-> sender[p].frames, next |-> sender[p].next + 1]
              \in SenderState
        BY <1>2, <3>3 DEF SenderState, Indices
      <4> QED BY <2>1, <3>2, <3>3, <4>1 DEF SendFragment, VideoInv, Types
    <3>4. CASE ~ (sender[p].next + 1 < Fragments)
      <4>1. [at |-> sender[p].at, frames |-> sender[p].frames + 1, next |-> 0]
              \in SenderState
        BY <1>2, <2>1, <3>4 DEF SenderState, SendFragment
      <4> QED BY <2>1, <3>2, <3>4, <4>1 DEF SendFragment, VideoInv, Types
    <3> QED BY <3>3, <3>4
  <2>2. CASE StopBetweenFrames(p)
    <3>1. [sender[p] EXCEPT !.at = "done"] \in SenderState
      BY <1>2 DEF SenderState
    <3> QED BY <2>2, <3>1 DEF StopBetweenFrames, VideoInv, Types
  <2>3. CASE StopWithinFrame(p)
    <3>1. [at |-> "done", next |-> 0, frames |-> sender[p].frames + SentIfCut(p)]
            \in SenderState
      BY <1>2, <2>3 DEF SenderState, StopWithinFrame, SentIfCut
    <3> QED BY <2>3, <3>1 DEF StopWithinFrame, VideoInv, Types
  <2> QED BY <2>1, <2>2, <2>3
<1>4. \A q \in Paths \ {p} : sender'[q] = sender[q]
  BY DEF SendFragment, StopBetweenFrames, StopWithinFrame, VideoInv, Types
<1>5. /\ sender'[p].at = "done" => sender'[p].next = 0
      /\ \A d \in Fragment : d.path = p /\ SentBefore(sender[p], d) => SentBefore(sender'[p], d)
      /\ \A d \in wire' \ wire : d.path = p /\ SentBefore(sender'[p], d)
  <2>1. CASE SendFragment(p)
    <3>1. /\ sender'[p].at = "sending"
          /\ \/ /\ sender'[p].frames = sender[p].frames
                /\ sender'[p].next = sender[p].next + 1
             \/ /\ sender'[p].frames = sender[p].frames + 1 /\ sender'[p].next = 0
      BY <1>2, <2>1 DEF SendFragment, Sending, VideoInv, Types
    <3>2. \A d \in wire' \ wire :
            d = [path |-> p, frame |-> sender[p].frames, index |-> sender[p].next]
      BY <2>1 DEF SendFragment
    <3>3. \A d \in Fragment : d.frame \in Int /\ d.index \in Int
      BY <1>2 DEF Fragment, FrameIds, Indices
    <3> QED BY <1>2, <3>1, <3>2, <3>3 DEF SentBefore
  <2>2. CASE StopBetweenFrames(p)
    BY <1>2, <2>2 DEF StopBetweenFrames, VideoInv, Types, SentBefore
  <2>3. CASE StopWithinFrame(p)
    <3>1. sender'[p].frames = sender[p].frames + 1 /\ sender'[p].next = 0 /\ wire' = wire
      BY <1>2, <2>3 DEF StopWithinFrame, SentIfCut, VideoInv, Types
    <3>2. \A d \in Fragment : d.frame \in Int /\ d.index \in Int
      BY <1>2 DEF Fragment, FrameIds, Indices
    <3> QED BY <1>2, <3>1, <3>2 DEF SentBefore
  <2> QED BY <2>1, <2>2, <2>3
<1>6. SendersInv'
  <2>1. \A d \in wire \union arrived : d \in Fragment /\ d.path \in Paths
    BY DEF VideoInv, Types, Fragment
  <2>2. \A d \in wire \union arrived : SentBefore(sender'[d.path], d)
    BY <1>4, <1>5, <2>1 DEF VideoInv, SendersInv
  <2> QED BY <1>1, <1>4, <1>5, <2>2 DEF VideoInv, SendersInv
<1> QED
  BY <1>1, <1>3, <1>6 DEF VideoInv, Types, TableInv, PathInv, Settled, Counted, Backed,
                          RowsAddUp, Fetched

(* The node takes in a datagram.                                             *)
LEMMA TakeInKeeps ==
  ASSUME VideoInv, NEW d \in wire, TakeIn(d)
  PROVE  VideoInv'
<1>1. d \in Fragment
  BY DEF VideoInv, Types
<1>2. d.path \in Paths /\ d.frame \in FrameIds /\ d.index \in Indices
      /\ d = [path |-> d.path, frame |-> d.frame, index |-> d.index]
  BY <1>1 DEF Fragment
<1>3. MaxCopies \in Nat /\ MaxActive \in Nat
  BY NetworkAssumption, VideoAssumption
<1>4. Types'
  BY <1>1, <1>3 DEF TakeIn, Taken, VideoInv, Types
<1>5. DOMAIN table' \subseteq Paths
  BY <1>2 DEF TakeIn, VideoInv, TableInv
<1>6. ASSUME NEW p \in DOMAIN table'
      PROVE  PathInv(arrived', p, table'[p], MaxActive)
  <2>1. arrived \subseteq arrived' /\ d \in arrived'
    BY DEF TakeIn
  <2>2. CASE p = d.path
    <3>1. PathInv(arrived, p, KnownOf(table, p), MaxActive)
      BY UnknownPath DEF KnownOf, VideoInv, TableInv
    <3>2. PathInv(arrived', p, KnownOf(table, p), MaxActive)
      BY <1>3, <2>1, <3>1, Weaken
    <3>3. PathInv(arrived', p, Recorded(KnownOf(table, p), d.frame, d.index), MaxActive)
      BY <1>2, <2>1, <2>2, <3>2, RecordedKeeps
    <3> QED BY <2>2, <3>3 DEF TakeIn
  <2>3. CASE p # d.path
    <3>1. p \in DOMAIN table /\ table'[p] = table[p]
      BY <1>6, <2>3 DEF TakeIn
    <3>2. PathInv(arrived, p, table[p], MaxActive)
      BY <3>1 DEF VideoInv, TableInv
    <3> QED BY <1>3, <2>1, <3>1, <3>2, Weaken
  <2> QED BY <2>2, <2>3
<1>7. TableInv'
  BY <1>5, <1>6 DEF TableInv, PathInv, Settled, Counted, Backed
<1>8. SendersInv' /\ RowsAddUp'
  BY DEF TakeIn, Taken, VideoInv, SendersInv, SentBefore, RowsAddUp, Fetched
<1> QED BY <1>4, <1>7, <1>8 DEF VideoInv

-----------------------------------------------------------------------------
(* The end of the stage.                                                    *)

(* The final summary settles all frames: those seen are complete or partial. *)
LEMMA AllAreSettled ==
  ASSUME NEW came, NEW p, NEW path, PathInv(came, p, path, MaxActive)
  PROVE  LET last == FinalizeAll(path) IN
         /\ last.completes \in Nat /\ last.partials \in Nat
         /\ last.seen = last.completes + last.partials
<1> DEFINE last    == FinalizeAll(path)
           pending == Active(path) \ path.finalized
           whole   == {f \in pending : IsWhole(path.active[f])}
<1>1. /\ last.completes = path.completes + Cardinality(whole)
      /\ last.partials = path.partials + Cardinality(pending \ whole)
      /\ last.seen = path.seen
  BY DEF FinalizeAll, Path
<1>2. /\ pending = Active(path) /\ pending \in SUBSET FrameIds
      /\ whole \in SUBSET FrameIds /\ pending \ whole \in SUBSET FrameIds
      /\ path.whole \in SUBSET FrameIds /\ path.finalized \in SUBSET FrameIds
  BY DEF PathInv, Settled
<1>3. /\ IsFiniteSet(whole) /\ Cardinality(whole) \in Nat
      /\ IsFiniteSet(pending \ whole) /\ Cardinality(pending \ whole) \in Nat
      /\ Cardinality(path.whole) \in Nat /\ Cardinality(path.finalized) \in Nat
  BY <1>2, FrameSets
<1>4. Cardinality(pending) = Cardinality(whole) + Cardinality(pending \ whole)
  <2>1. pending = whole \union (pending \ whole) /\ whole \intersect (pending \ whole) = {}
    OBVIOUS
  <2> HIDE DEF pending, whole
  <2>2. Cardinality(whole \union (pending \ whole))
          = Cardinality(whole) + Cardinality(pending \ whole)
              - Cardinality(whole \intersect (pending \ whole))
    BY <1>3, FS_Union
  <2>3. Cardinality(whole \intersect (pending \ whole)) = 0
    BY <2>1, FS_EmptySet
  <2>4. Cardinality(pending) = Cardinality(whole \union (pending \ whole))
    BY <2>1, Zenon
  <2> QED BY <1>3, <2>2, <2>3, <2>4
<1> HIDE DEF last, pending, whole
<1>5. /\ last.completes \in Nat /\ last.partials \in Nat
      /\ last.seen = last.completes + last.partials
  BY <1>1, <1>2, <1>3, <1>4 DEF PathInv, Counted
<1> QED BY <1>5 DEF last

(* What a sender has finished with has been sent: no frame of another number *)
(* is known of its path.                                                     *)
LEMMA KnownWereSent ==
  ASSUME VideoInv, NEW p \in DOMAIN table, ~ Sending(p)
  PROVE  /\ sender[p].frames \in Nat
         /\ Active(table[p]) \union table[p].finalized \subseteq 0 .. sender[p].frames - 1
<1>1. p \in Paths /\ PathInv(arrived, p, table[p], MaxActive)
  BY DEF VideoInv, TableInv
<1>2. sender[p].frames \in Nat /\ sender[p].next = 0
  BY <1>1, VideoAssumption DEF Sending, VideoInv, Types, SenderState, SendersInv
<1>3. ASSUME NEW f \in Active(table[p]) \union table[p].finalized
      PROVE  f \in 0 .. sender[p].frames - 1
  <2>1. f \in Nat /\ Got(arrived, p, f) # {}
    BY <1>1, VideoAssumption DEF PathInv, Settled, Backed, FrameIds
  <2>2. PICK i \in Indices : [path |-> p, frame |-> f, index |-> i] \in arrived
    BY <2>1 DEF Got
  <2>3. SentBefore(sender[p], [path |-> p, frame |-> f, index |-> i])
    BY <2>2 DEF VideoInv, SendersInv
  <2>4. i \in Nat
    BY VideoAssumption DEF Indices
  <2> QED BY <1>2, <2>1, <2>3, <2>4 DEF SentBefore
<1> QED BY <1>2, <1>3

(* No more frames are seen on a path than were sent.                         *)
LEMMA SeenWereSent ==
  ASSUME VideoInv, NEW p \in DOMAIN table, ~ Sending(p)
  PROVE  table[p].seen =< sender[p].frames
<1> DEFINE path == table[p]
           sent == 0 .. sender[p].frames - 1
<1>1. p \in Paths /\ PathInv(arrived, p, path, MaxActive)
  BY DEF VideoInv, TableInv
<1>2. sender[p].frames \in Nat
  BY KnownWereSent
<1>3. Active(path) \subseteq sent /\ path.finalized \subseteq sent
  BY KnownWereSent
<1>4. Active(path) \in SUBSET FrameIds /\ path.finalized \in SUBSET FrameIds
      /\ path.finalized \intersect Active(path) = {}
  BY <1>1 DEF PathInv, Settled
<1>5. IsFiniteSet(sent) /\ Cardinality(sent) = sender[p].frames
  <2>1. \A n \in Nat : IsFiniteSet(0 .. n - 1) /\ Cardinality(0 .. n - 1) = n
    <3> TAKE n \in Nat
    <3>1. 0 \in Int /\ n - 1 \in Int
      OBVIOUS
    <3>2. IsFiniteSet(0 .. n - 1)
          /\ Cardinality(0 .. n - 1) = IF 0 > n - 1 THEN 0 ELSE (n - 1) - 0 + 1
      BY <3>1, FS_Interval
    <3> QED BY <3>2
  <2> QED BY <1>2, <2>1
<1>6. path.seen = Cardinality(path.finalized) + Cardinality(Active(path))
  BY <1>1 DEF PathInv, Counted
<1> HIDE DEF path, sent
<1>7. /\ IsFiniteSet(Active(path)) /\ Cardinality(Active(path)) \in Nat
      /\ IsFiniteSet(path.finalized) /\ Cardinality(path.finalized) \in Nat
  BY <1>4, FrameSets
<1>8. Cardinality(path.finalized \union Active(path)) =< Cardinality(sent)
  BY <1>3, <1>5, FS_Subset
<1>9. Cardinality(path.finalized \union Active(path))
        = Cardinality(path.finalized) + Cardinality(Active(path))
            - Cardinality(path.finalized \intersect Active(path))
  BY <1>7, FS_Union
<1>10. Cardinality(path.finalized \intersect Active(path)) = 0
  BY <1>4, FS_EmptySet
<1>11. path.seen =< sender[p].frames
  BY <1>2, <1>5, <1>6, <1>7, <1>8, <1>9, <1>10
<1> QED BY <1>11 DEF path

(* The rows of a fetched summary are exact.                                  *)
LEMMA FetchedRows ==
  ASSUME VideoInv, Fetch
  PROVE  RowsAddUp'
<1> SUFFICES ASSUME NEW p \in Paths
             PROVE  LET r == JoinedPath(FinalSummary, p) IN
                    /\ r.sent = r.complete + r.partial + r.fullyLost
                    /\ r.notDecodable = r.partial + r.fullyLost
  <2>1. \A q \in Paths : result'.paths[q] = JoinedPath(FinalSummary, q)
    BY DEF Fetch, Joined
  <2> QED BY <2>1 DEF RowsAddUp
<1> DEFINE known == KnownOf(FinalSummary, p)
           sent  == sender[p].frames
<1>1. ~ Sending(p) /\ sent \in Nat
  BY VideoAssumption DEF Fetch, ReadyToFetch, VideoInv, Types, SenderState
<1>2. /\ known.completes \in Nat /\ known.partials \in Nat
      /\ known.seen = known.completes + known.partials
      /\ known.seen =< sent
  <2>1. CASE p \in DOMAIN table
    <3>1. known = FinalizeAll(table[p])
      BY <2>1 DEF KnownOf, FinalSummary
    <3>2. PathInv(arrived, p, table[p], MaxActive)
      BY <2>1 DEF VideoInv, TableInv
    <3>3. FinalizeAll(table[p]).seen = table[p].seen
      BY DEF FinalizeAll, Path
    <3> QED BY <1>1, <2>1, <3>1, <3>2, <3>3, AllAreSettled, SeenWereSent
  <2>2. CASE p \notin DOMAIN table
    <3>1. known = Unknown
      BY <2>2 DEF KnownOf, FinalSummary
    <3> QED BY <1>1, <3>1 DEF Unknown, Path
  <2> QED BY <2>1, <2>2
<1>3. LET r == JoinedPath(FinalSummary, p) IN
      /\ r.sent = sent /\ r.complete = known.completes /\ r.partial = known.partials
      /\ r.fullyLost = NotBelow(0, sent - known.seen)
      /\ r.notDecodable = NotBelow(0, sent - known.completes)
  BY DEF JoinedPath
<1> HIDE DEF known, sent
<1>4. /\ NotBelow(0, sent - known.seen) = sent - known.seen
      /\ NotBelow(0, sent - known.completes) = sent - known.completes
  BY <1>1, <1>2 DEF NotBelow
<1> QED BY <1>1, <1>2, <1>3, <1>4

LEMMA InvNext == VideoInv /\ [Next]_vars => VideoInv'
<1> SUFFICES ASSUME VideoInv, [Next]_vars PROVE VideoInv'
  OBVIOUS
<1>1. CASE SenderStep
  BY <1>1, SenderKeeps DEF SenderStep
<1>2. ASSUME NEW d \in wire, TakeIn(d) PROVE VideoInv'
  BY <1>2, TakeInKeeps
<1>3. CASE ReservationEnds
  BY <1>3 DEF ReservationEnds, VideoInv, Types, TableInv, PathInv, Settled, Counted, Backed,
              SendersInv, RowsAddUp, Fetched
<1>4. CASE StageStep
  <2>1. table' = table \/ table' = << >>
    BY <1>4 DEF StageStep, Fetch, FetchFails
  <2>2. UNCHANGED <<sender, wire, copies, reserved, arrived>>
    BY <1>4 DEF StageStep, Fetch, FetchFails
  <2>3. result'.status \in {"fetched", "error"}
    BY <1>4 DEF StageStep, Fetch, FetchFails, Joined
  <2>4. Types'
    BY <2>2, <2>3 DEF VideoInv, Types
  <2>5. TableInv'
    <3>1. CASE table' = table
      BY <2>2, <3>1 DEF VideoInv, TableInv, PathInv, Settled, Counted, Backed
    <3>2. CASE table' = << >>
      BY <3>2 DEF TableInv
    <3> QED BY <2>1, <3>1, <3>2
  <2>6. SendersInv'
    BY <2>2 DEF VideoInv, SendersInv
  <2>7. RowsAddUp'
    <3>1. CASE Fetch
      BY <3>1, FetchedRows
    <3>2. CASE FetchFails
      BY <3>2 DEF FetchFails, Joined, RowsAddUp, Fetched
    <3> QED BY <1>4, <3>1, <3>2 DEF StageStep
  <2> QED BY <2>4, <2>5, <2>6, <2>7 DEF VideoInv
<1>5. CASE UNCHANGED vars
  BY <1>5 DEF vars, VideoInv, Types, TableInv, PathInv, Settled, Counted, Backed,
              SendersInv, RowsAddUp, Fetched
<1> QED BY <1>1, <1>2, <1>3, <1>4, <1>5 DEF Next, NetworkStep

LEMMA Invariance == Spec => []VideoInv
BY InvInit, InvNext, PTL DEF Spec

-----------------------------------------------------------------------------
(* The union of the paths.                                                  *)

(* The frames that anyone sent.                                              *)
LEMMA MaxSentIs ==
  ASSUME VideoInv, Paths # {}
  PROVE  /\ MaxSent \in 0 .. Frames
         /\ \A p \in Paths : sender[p].frames <= MaxSent
<1> DEFINE S == {sender[p].frames : p \in Paths}
<1>1. Frames \in Nat
  BY VideoAssumption
<1>2. \A p \in Paths : sender[p].frames \in 0 .. Frames
  BY DEF VideoInv, Types, SenderState
<1>3. S \in SUBSET Nat /\ S # {} /\ \A y \in S : y <= Frames
  BY <1>1, <1>2
<1>4. S \subseteq 0 .. Frames
  BY <1>2
<1> HIDE DEF S
<1>5. Max(S) \in S /\ \A y \in S : y <= Max(S)
  BY <1>1, <1>3, MaxIsGreatest
<1> QED BY <1>4, <1>5 DEF MaxSent, S

-----------------------------------------------------------------------------
(* The longest outage.                                                      *)

(* How many frames up to f were lost in a row: those, and no more.           *)
LostInARow(k, f, either) ==
  /\ k \in 0 .. f + 1
  /\ \A g \in f - k + 1 .. f : g \notin either
  /\ f - k = -1 \/ f - k \in either

LEMMA LossesInARow ==
  ASSUME NEW either, MaxSent \in Nat
  PROVE  \A f \in -1 .. MaxSent - 1 : LostInARow(LostUpTo(either)[f], f, either)
<1> DEFINE D == -1 .. MaxSent - 1
           Run(run, f) == IF f = -1 \/ f \in either THEN 0 ELSE run[f - 1] + 1
           Solved(n) == \E run : \A f \in -1 .. n - 1 : run[f] = Run(run, f)
           Bad == {n \in Nat : ~Solved(n)}
<1>1. Solved(MaxSent)
  <2> SUFFICES ASSUME Bad # {} PROVE FALSE
    OBVIOUS
  <2>1. PICK m \in Bad : \A k \in Nat : k < m => k \notin Bad
    <3> HIDE DEF Solved
    <3> QED BY Least
  <2>2. m \in Nat
    OBVIOUS
  <2>3. CASE m = 0
    <3> DEFINE run == [f \in {-1} |-> 0]
    <3>1. \A f \in -1 .. 0 - 1 : f = -1 /\ run[f] = 0
      OBVIOUS
    <3>2. \A f \in -1 .. 0 - 1 : run[f] = Run(run, f)
      BY <3>1
    <3>3. Solved(0)
      <4> HIDE DEF run, Run
      <4> QED BY <3>2
    <3> QED BY <2>1, <2>3, <3>3
  <2>4. CASE m # 0
    <3>1. Solved(m - 1)
      <4>1. m - 1 \in Nat /\ m - 1 < m
        BY <2>2, <2>4
      <4> HIDE DEF Solved
      <4> QED BY <2>1, <4>1
    <3>2. PICK old : \A f \in -1 .. m - 2 : old[f] = Run(old, f)
      <4>1. (m - 1) - 1 = m - 2
        BY <2>2
      <4> HIDE DEF Run
      <4> QED BY <3>1, <4>1
    <3> DEFINE run == [f \in -1 .. m - 1 |-> IF f = m - 1 THEN Run(old, f) ELSE old[f]]
    <3>3. ASSUME NEW f \in -1 .. m - 2 PROVE run[f] = old[f]
      <4>1. f \in -1 .. m - 1 /\ f # m - 1
        BY <2>2
      <4> QED BY <4>1
    <3>4. ASSUME NEW f \in -1 .. m - 1 PROVE run[f] = Run(run, f)
      <4>1. run[f] = Run(old, f)
        <5>1. f # m - 1 => f \in -1 .. m - 2
          BY <2>2
        <5>2. CASE f = m - 1
          BY <5>2
        <5>3. CASE f # m - 1
          BY <3>2, <3>3, <5>1, <5>3
        <5> QED BY <5>2, <5>3
      <4>2. f # -1 => f - 1 \in -1 .. m - 2
        BY <2>2
      <4>3. f # -1 => run[f - 1] = old[f - 1]
        BY <3>3, <4>2
      <4> HIDE DEF run
      <4> QED BY <4>1, <4>3
    <3>5. Solved(m)
      <4> HIDE DEF run, Run
      <4> QED BY <3>4
    <3> QED BY <2>1, <3>5
  <2> QED BY <2>3, <2>4
<1>2. \E run : run = [f \in D |-> Run(run, f)]
  <2>1. PICK run : \A f \in D : run[f] = Run(run, f)
    <3> HIDE DEF Run
    <3> QED BY <1>1
  <2> DEFINE same == [f \in D |-> run[f]]
  <2>2. ASSUME NEW f \in D PROVE Run(same, f) = Run(run, f)
    <3>1. f # -1 => f - 1 \in D
      OBVIOUS
    <3>2. f # -1 => same[f - 1] = run[f - 1]
      BY <3>1
    <3> HIDE DEF same
    <3> QED BY <3>2
  <2>3. same = [f \in D |-> Run(same, f)]
    <3> HIDE DEF Run
    <3> QED BY <2>1, <2>2
  <2> HIDE DEF same, Run
  <2> QED BY <2>3
<1> DEFINE lost == LostUpTo(either)
<1>3. lost = [f \in D |-> Run(lost, f)]
  BY <1>2 DEF LostUpTo
<1>4. \A f \in D : lost[f] = Run(lost, f)
  <2> HIDE DEF lost, Run
  <2>1. \A f \in D : [e \in D |-> Run(lost, e)][f] = Run(lost, f)
    OBVIOUS
  <2> QED BY <1>3, <2>1
<1> HIDE DEF lost
<1> DEFINE Off == {n \in Nat : n - 1 \in D /\ ~LostInARow(lost[n - 1], n - 1, either)}
<1>5. Off = {}
  <2> SUFFICES ASSUME Off # {} PROVE FALSE
    OBVIOUS
  <2>1. PICK m \in Off : \A k \in Nat : k < m => k \notin Off
    <3> HIDE DEF LostInARow
    <3> QED BY Least
  <2> DEFINE f == m - 1
  <2>2. f \in D /\ f \in Int /\ f >= -1 /\ lost[f] = Run(lost, f) /\ m \in Nat /\ MaxSent \in Nat
    BY <1>4, <2>1
  <2>3. ~LostInARow(lost[f], f, either)
    BY <2>1
  <2>4. CASE f = -1 \/ f \in either
    <3>1. lost[f] = 0
      BY <2>2, <2>4
    <3> HIDE DEF f
    <3> QED BY <2>2, <2>3, <2>4, <3>1 DEF LostInARow
  <2>5. CASE ~(f = -1 \/ f \in either)
    <3>1. f - 1 \in D /\ m - 1 \in Nat /\ m - 1 < m /\ (m - 1) - 1 = f - 1
      BY <2>2, <2>5
    <3>2. LostInARow(lost[f - 1], f - 1, either)
      <4> HIDE DEF LostInARow, f
      <4> QED BY <2>1, <3>1
    <3>3. lost[f] = lost[f - 1] + 1
      BY <2>2, <2>5
    <3> DEFINE k == lost[f - 1]
    <3>4. /\ k \in 0 .. f /\ lost[f] = k + 1
          /\ \A g \in f - k .. f - 1 : g \notin either
          /\ f - (k + 1) = -1 \/ f - (k + 1) \in either
      <4>1. k \in 0 .. (f - 1) + 1 /\ (f - 1) + 1 = f
        BY <2>2, <3>2 DEF LostInARow
      <4>2. k \in Int /\ (f - 1) - k + 1 = f - k /\ (f - 1) - k = f - (k + 1)
        BY <2>2, <4>1
      <4> HIDE DEF f, k
      <4> QED BY <3>2, <3>3, <4>1, <4>2 DEF LostInARow, k
    <3> HIDE DEF f, k
    <3>5. \A g \in f - (k + 1) + 1 .. f : g \in f - k .. f - 1 \/ g = f
      BY <2>2, <3>4
    <3>6. \A g \in f - (k + 1) + 1 .. f : g \notin either
      BY <2>5, <3>4, <3>5
    <3>7. k + 1 \in 0 .. f + 1
      BY <2>2, <3>4
    <3> QED BY <2>3, <3>4, <3>6, <3>7 DEF LostInARow
  <2> QED BY <2>4, <2>5
<1>6. ASSUME NEW f \in D PROVE LostInARow(lost[f], f, either)
  <2>1. f + 1 \in Nat /\ (f + 1) - 1 = f
    OBVIOUS
  <2> QED BY <1>5, <2>1
<1> QED BY <1>6 DEF lost

(* The set of the lost frames, and the longest interval of them.             *)
Between(S) == {i .. j : i, j \in S} \intersect ((SUBSET S) \ {{}})

LEMMA LongestIsLongest ==
  ASSUME NEW either, MaxSent \in Nat, NEW lost, lost = (0 .. MaxSent - 1) \ either
  PROVE  /\ LongestOutage(either) \in {0} \union {Cardinality(o) : o \in Between(lost)}
         /\ \A o \in Between(lost) : Cardinality(o) <= LongestOutage(either)
<1> DEFINE run == LostUpTo(either)
           Lengths == {0} \union {run[f] : f \in 0 .. MaxSent - 1}
<1>1. ASSUME NEW f \in 0 .. MaxSent - 1 PROVE LostInARow(run[f], f, either)
  <2>1. f \in -1 .. MaxSent - 1
    OBVIOUS
  <2> QED BY <2>1, LossesInARow
<1> HIDE DEF run
<1>2. Lengths \in SUBSET Nat /\ Lengths # {} /\ \A y \in Lengths : y <= MaxSent
  <2>1. ASSUME NEW f \in 0 .. MaxSent - 1 PROVE run[f] \in Nat /\ run[f] <= MaxSent
    BY <1>1 DEF LostInARow
  <2> QED BY <2>1
<1>3. Max(Lengths) \in Lengths /\ \A y \in Lengths : y <= Max(Lengths)
  <2> HIDE DEF Lengths
  <2> QED BY <1>2, MaxIsGreatest
<1>4. LongestOutage(either) = Max(Lengths)
  BY DEF LongestOutage, run
<1> DEFINE longest == Max(Lengths)
<1>5. longest \in {0} \union {Cardinality(o) : o \in Between(lost)}
  <2> SUFFICES ASSUME longest # 0
               PROVE  \E o \in Between(lost) : longest = Cardinality(o)
    OBVIOUS
  <2>1. PICK f \in 0 .. MaxSent - 1 : longest = run[f]
    BY <1>3
  <2> HIDE DEF longest
  <2>2. f \in Nat /\ longest \in Nat /\ longest >= 1 /\ longest <= f + 1
    BY <1>1, <2>1 DEF LostInARow
  <2> DEFINE i == f - longest + 1
  <2>3. i \in Nat /\ i <= f /\ f - i + 1 = longest
    BY <2>2
  <2>4. \A g \in i .. f : g \notin either
    BY <1>1, <2>1 DEF LostInARow
  <2> HIDE DEF i
  <2>5. i .. f \subseteq lost /\ i \in lost /\ f \in lost /\ i \in i .. f
    BY <2>1, <2>3, <2>4
  <2>6. i .. f \in Between(lost)
    BY <2>5 DEF Between
  <2>7. Cardinality(i .. f) = longest
    BY <2>2, <2>3, FS_Interval
  <2> QED BY <2>6, <2>7
<1>6. ASSUME NEW o \in Between(lost) PROVE Cardinality(o) <= longest
  <2>1. PICK i, j \in lost : o = i .. j
    BY DEF Between
  <2>2. o \subseteq lost /\ o # {}
    BY DEF Between
  <2>3. i \in Nat /\ j \in 0 .. MaxSent - 1 /\ j \in Nat /\ i <= j /\ i .. j \subseteq lost
    BY <2>1, <2>2
  <2>4. Cardinality(o) = j - i + 1
    BY <2>1, <2>3, FS_Interval
  <2>5. LostInARow(run[j], j, either)
    BY <1>1, <2>3
  <2>6. run[j] \in Nat /\ (j - run[j] = -1 \/ j - run[j] \in either)
    BY <2>3, <2>5 DEF LostInARow
  <2>7. j - i + 1 <= run[j]
    <3> SUFFICES ASSUME run[j] < j - i + 1 PROVE FALSE
      BY <2>3, <2>6
    <3>1. j - run[j] \in i .. j
      BY <2>3, <2>6
    <3>2. j - run[j] \in lost /\ j - run[j] # -1
      BY <2>3, <3>1
    <3> QED BY <2>6, <3>2
  <2>8. run[j] \in Lengths
    BY <2>3
  <2>9. run[j] <= longest
    BY <1>3, <2>8
  <2>10. longest \in Nat
    BY <1>2, <1>3
  <2> HIDE DEF longest, Lengths
  <2> QED BY <2>3, <2>4, <2>6, <2>7, <2>9, <2>10
<1> QED BY <1>4, <1>5, <1>6

-----------------------------------------------------------------------------
(* The seconds.                                                             *)

(* Every frame is in one bucket.                                             *)
LEMMA BucketsShare ==
  ASSUME MaxSent \in 0 .. Frames
  PROVE  /\ \A f \in 0 .. MaxSent - 1 : \E b \in Buckets : f \in Bucket(b)
         /\ \A b, c \in Buckets : b # c => Bucket(b) \intersect Bucket(c) = {}
         /\ \A b \in Buckets : Bucket(b) \subseteq 0 .. MaxSent - 1
<1>1. Fps \in Nat /\ Fps >= 1 /\ Frames \in Nat
  BY VideoAssumption
<1>2. ASSUME NEW f \in 0 .. MaxSent - 1 PROVE \E b \in Buckets : f \in Bucket(b)
  <2> DEFINE Ends == {k \in Nat : f < (k + 1) * Fps}
  <2>1. f \in Nat
    OBVIOUS
  <2>2. f < (f + 1) * Fps
    BY <1>1, <2>1
  <2>3. PICK b \in Ends : \A k \in Nat : k < b => k \notin Ends
    <3>1. Ends \subseteq Nat /\ Ends # {}
      BY <2>1, <2>2
    <3> HIDE DEF Ends
    <3> QED BY <3>1, Least
  <2>4. b * Fps <= f
    <3>1. CASE b = 0
      BY <1>1, <2>1, <3>1
    <3>2. CASE b # 0
      <4>1. b - 1 \in Nat /\ b - 1 < b /\ (b - 1) + 1 = b
        BY <3>2
      <4>2. ~(f < ((b - 1) + 1) * Fps)
        BY <2>3, <4>1
      <4>3. ~(f < b * Fps)
        BY <4>1, <4>2
      <4>4. b * Fps \in Nat
        BY <1>1
      <4> QED BY <2>1, <4>3, <4>4
    <3> QED BY <3>1, <3>2
  <2>5. b <= b * Fps /\ b * Fps \in Nat
    BY <1>1
  <2>6. b \in 0 .. Frames /\ b * Fps < MaxSent
    BY <1>1, <2>1, <2>4, <2>5
  <2> QED BY <2>3, <2>4, <2>6 DEF Buckets, Bucket
<1>3. ASSUME NEW b \in Nat, NEW c \in Nat, b < c, NEW f \in Int, f < (b + 1) * Fps
      PROVE  f < c * Fps
  <2>1. b + 1 <= c
    BY <1>3
  <2>2. (b + 1) * Fps <= c * Fps
    BY <1>1, <2>1
  <2>3. (b + 1) * Fps \in Int /\ c * Fps \in Int
    BY <1>1
  <2> QED BY <1>3, <2>2, <2>3
<1>4. ASSUME NEW b \in Buckets, NEW c \in Buckets, b # c, NEW f \in Bucket(b)
      PROVE  f \notin Bucket(c)
  <2>1. /\ b \in Nat /\ c \in Nat /\ f \in Int
        /\ b * Fps <= f /\ f < (b + 1) * Fps
    BY <1>1 DEF Buckets, Bucket
  <2>2. b * Fps \in Int /\ c * Fps \in Int
    BY <1>1, <2>1
  <2>3. CASE b < c
    <3>1. f < c * Fps
      BY <1>3, <2>1, <2>3
    <3> QED BY <2>1, <2>2, <3>1 DEF Bucket
  <2>4. CASE c < b
    <3>1. f < (c + 1) * Fps => f < b * Fps
      BY <1>3, <2>1, <2>4
    <3>2. ~(f < (c + 1) * Fps)
      BY <2>1, <2>2, <3>1
    <3> QED BY <3>2 DEF Bucket
  <2> QED BY <1>4, <2>1, <2>3, <2>4
<1>5. \A b \in Buckets : Bucket(b) \subseteq 0 .. MaxSent - 1
  BY DEF Bucket
<1> QED BY <1>2, <1>4, <1>5

SumOf(f, S) == MapThenSumSet(LAMBDA x : f[x], S)

(* What is lost in the seconds is all that is lost.                          *)
LEMMA SecondsAreAll ==
  ASSUME MaxSent \in 0 .. Frames, NEW either, NEW lostIn,
         lostIn = [b \in Buckets |-> Cardinality(Bucket(b) \ either)]
  PROVE  SumOf(lostIn, Buckets) = Cardinality((0 .. MaxSent - 1) \ either)
<1> DEFINE pick == [s \in SUBSET Buckets |-> CHOOSE x \in s : TRUE]
           set == [b \in Buckets |-> Bucket(b) \ either]
           lost == (0 .. MaxSent - 1) \ either
<1>1. /\ IsFiniteSet(Buckets) /\ IsFiniteSet(0 .. MaxSent - 1)
      /\ MaxSent \in Nat
  <2>1. Frames \in Nat
    BY VideoAssumption
  <2>0. \A n \in Int : IsFiniteSet(0 .. n)
    BY FS_Interval
  <2>2. IsFiniteSet(0 .. Frames) /\ IsFiniteSet(0 .. MaxSent - 1)
    <3>1. Frames \in Int /\ MaxSent - 1 \in Int
      BY <2>1
    <3> QED BY <2>0, <3>1
  <2>3. Buckets \subseteq 0 .. Frames
    BY DEF Buckets
  <2>4. IsFiniteSet(Buckets)
    BY <2>2, <2>3, FS_Subset
  <2> QED BY <2>1, <2>2, <2>4
<1>2. ASSUME NEW b \in Buckets
      PROVE  /\ IsFiniteSet(Bucket(b) \ either)
             /\ Cardinality(Bucket(b) \ either) \in Nat
  <2>1. Bucket(b) \ either \subseteq 0 .. MaxSent - 1
    BY BucketsShare
  <2> QED BY <1>1, <2>1, FS_Subset, FS_CardinalityType
<1>3. lostIn \in [Buckets -> Nat] /\ \A b \in Buckets : lostIn[b] = Cardinality(set[b])
  BY <1>2
<1>4. Addable(Buckets, lostIn, pick)
  BY <1>1, <1>3 DEF Addable
<1> DEFINE Equation(iter) ==
             iter = [s \in SUBSET Buckets |->
                       IF s = {} THEN 0
                       ELSE lostIn[CHOOSE x \in s : TRUE] + iter[s \ {CHOOSE x \in s : TRUE}]]
<1>5. \E iter : Equation(iter)
  <2>1. PICK sum : Solves(sum, Buckets, lostIn, pick)
    <3> HIDE DEF pick
    <3> QED BY <1>4, SumExists
  <2>2. \A s \in SUBSET Buckets : pick[s] = CHOOSE x \in s : TRUE
    OBVIOUS
  <2> HIDE DEF pick
  <2>3. \A s \in SUBSET Buckets :
          sum[s] = IF s = {} THEN 0
                   ELSE lostIn[CHOOSE x \in s : TRUE] + sum[s \ {CHOOSE x \in s : TRUE}]
    BY <2>1, <2>2 DEF Solves
  <2>4. sum = [s \in SUBSET Buckets |-> sum[s]]
    BY <2>1 DEF Solves
  <2>5. Equation(sum)
    BY <2>3, <2>4
  <2> QED BY <2>5
<1> DEFINE total == CHOOSE iter : Equation(iter)
<1>6. SumOf(lostIn, Buckets) = total[Buckets]
  BY DEF SumOf, MapThenSumSet, MapThenFoldSet
<1>7. Equation(total)
  <2> HIDE DEF Equation
  <2> QED BY <1>5
<1> HIDE DEF total
<1>8. IsSum(total, Buckets, lostIn, pick)
  <2>1. \A s \in SUBSET Buckets :
          total[s] = IF s = {} THEN 0
                     ELSE lostIn[CHOOSE x \in s : TRUE] + total[s \ {CHOOSE x \in s : TRUE}]
    BY <1>7
  <2>2. \A s \in SUBSET Buckets : pick[s] = CHOOSE x \in s : TRUE
    OBVIOUS
  <2> HIDE DEF pick
  <2> QED BY <1>4, <2>1, <2>2 DEF IsSum
<1>9. AreSizes(lostIn, set, Buckets)
  BY <1>1, <1>2, BucketsShare DEF AreSizes
<1>10. IsUnion(lost, set, Buckets)
  <2>1. \A f : (\E b \in Buckets : f \in Bucket(b)) <=> f \in 0 .. MaxSent - 1
    BY BucketsShare
  <2>2. \A b \in Buckets : set[b] = Bucket(b) \ either
    OBVIOUS
  <2> HIDE DEF set
  <2> QED BY <2>1, <2>2 DEF IsUnion
<1>11. total[Buckets] = Cardinality(lost)
  <2> HIDE DEF pick, set, lost
  <2> QED BY <1>8, <1>9, <1>10, SumOfSizes
<1> QED BY <1>6, <1>11

-----------------------------------------------------------------------------
(* What the stage returns of the union.                                     *)

(* The two paths that are compared are paths.                                *)
LEMMA TwoOfThem ==
  ASSUME NEW t, Pairs(t) # {}
  PROVE  FirstTwo(t) \subseteq DOMAIN t /\ DOMAIN t # {}
<1>1. FirstTwo(t) \in Pairs(t)
  BY DEF FirstTwo
<1>2. Cardinality({}) = 0
  BY FS_EmptySet
<1>3. FirstTwo(t) # {}
  BY <1>1, <1>2 DEF Pairs
<1> QED BY <1>1, <1>3 DEF Pairs

(* The frames complete on any path are among those that anyone sent.         *)
LEMMA EitherWasSent ==
  ASSUME VideoInv, ReadyToFetch, Paths # {}
  PROVE  UNION {FinalSummary[p].whole : p \in DOMAIN FinalSummary} \subseteq 0 .. MaxSent - 1
<1> SUFFICES ASSUME NEW p \in DOMAIN table, NEW f \in FinalSummary[p].whole
             PROVE  f \in 0 .. MaxSent - 1
  BY DEF FinalSummary
<1>1. p \in Paths /\ PathInv(arrived, p, table[p], MaxActive)
  BY DEF VideoInv, TableInv
<1>2. f \in Active(table[p]) \union table[p].finalized
  <2>1. FinalSummary[p] = FinalizeAll(table[p])
    BY DEF FinalSummary
  <2>2. FinalizeAll(table[p]).whole \subseteq table[p].whole \union Active(table[p])
    BY DEF FinalizeAll, Path
  <2>3. table[p].whole \subseteq table[p].finalized
    BY <1>1 DEF PathInv, Settled
  <2> QED BY <2>1, <2>2, <2>3
<1>3. f \in 0 .. sender[p].frames - 1 /\ sender[p].frames \in Nat
  BY <1>1, <1>2, KnownWereSent DEF ReadyToFetch
<1>4. MaxSent \in Int /\ sender[p].frames <= MaxSent
  BY <1>1, MaxSentIs
<1> QED BY <1>3, <1>4

(* What the union of the paths must say, of n frames spread over seconds.    *)
ExactLoss(dual, n, seconds) ==
  LET lost == (0 .. n - 1) \ dual.either IN
  /\ dual.lostOnBoth = Cardinality(lost)
  /\ dual.lostOnBoth = SumOf(dual.lostIn, seconds)
  /\ dual.longest \in {0} \union {Cardinality(o) : o \in Between(lost)}
  /\ \A o \in Between(lost) : Cardinality(o) <= dual.longest

LEMMA DualIsExact ==
  ASSUME VideoInv, ReadyToFetch, NEW dual, dual = DualPath(FinalSummary), dual.reported
  PROVE  ExactLoss(dual, MaxSent, Buckets)
<1> DEFINE either == UNION {FinalSummary[p].whole : p \in FirstTwo(FinalSummary)}
           lost   == (0 .. MaxSent - 1) \ either
           lostIn == [b \in Buckets |-> Cardinality(Bucket(b) \ either)]
<1>1. Pairs(FinalSummary) # {}
  BY DEF DualPath
<1>2. /\ dual.either = either /\ dual.lostOnBoth = NotBelow(0, MaxSent - Cardinality(either))
      /\ dual.lostIn = lostIn /\ dual.longest = LongestOutage(either)
  BY <1>1 DEF DualPath
<1>3. Paths # {}
  <2>1. DOMAIN FinalSummary \subseteq Paths
    BY DEF FinalSummary, VideoInv, TableInv
  <2> QED BY <1>1, <2>1, TwoOfThem
<1>4. either \subseteq 0 .. MaxSent - 1 /\ MaxSent \in 0 .. Frames /\ MaxSent \in Nat
  <2>1. FirstTwo(FinalSummary) \subseteq DOMAIN FinalSummary
    BY <1>1, TwoOfThem
  <2>2. either \subseteq UNION {FinalSummary[p].whole : p \in DOMAIN FinalSummary}
    BY <2>1
  <2> QED BY <1>3, <2>2, EitherWasSent, MaxSentIs, VideoAssumption
<1> HIDE DEF either
<1>5. Cardinality(lost) = MaxSent - Cardinality(either)
      /\ Cardinality(lost) \in Nat /\ Cardinality(either) \in Nat
  <2> DEFINE all == 0 .. MaxSent - 1
  <2>1. IsFiniteSet(all) /\ Cardinality(all) = MaxSent
    <3>1. 0 \in Int /\ MaxSent - 1 \in Int
      BY <1>4
    <3>2. IsFiniteSet(0 .. MaxSent - 1)
          /\ Cardinality(0 .. MaxSent - 1) = IF 0 > MaxSent - 1 THEN 0 ELSE (MaxSent - 1) - 0 + 1
      BY <3>1, FS_Interval
    <3> QED BY <1>4, <3>2
  <2>2. lost = all \ either /\ all \intersect either = either
    BY <1>4
  <2> HIDE DEF all, lost
  <2>3. Cardinality(all \ either) = Cardinality(all) - Cardinality(all \intersect either)
        /\ IsFiniteSet(all \ either)
    BY <2>1, FS_Difference
  <2>4. IsFiniteSet(either)
    BY <1>4, <2>1, FS_Subset DEF all
  <2> QED BY <2>1, <2>2, <2>3, <2>4, FS_CardinalityType
<1>6. dual.lostOnBoth = Cardinality(lost)
  <2> HIDE DEF lost
  <2> QED BY <1>2, <1>4, <1>5 DEF NotBelow
<1>7. SumOf(dual.lostIn, Buckets) = Cardinality(lost)
  BY <1>2, <1>4, SecondsAreAll
<1>8. /\ dual.longest \in {0} \union {Cardinality(o) : o \in Between(lost)}
      /\ \A o \in Between(lost) : Cardinality(o) <= dual.longest
  <2> HIDE DEF lost
  <2> QED BY <1>2, <1>4, LongestIsLongest DEF lost
<1>9. (0 .. MaxSent - 1) \ dual.either = lost
  BY <1>2
<1> HIDE DEF lost
<1> QED BY <1>6, <1>7, <1>8, <1>9 DEF ExactLoss

LossInv ==
  /\ Fetched => \A p \in Paths : ~ Sending(p)
  /\ Fetched /\ result.dual.reported => ExactLoss(result.dual, MaxSent, Buckets)

LEMMA LossInit == Init => LossInv
BY DEF Init, LossInv, Fetched, NoResult

LEMMA SameSeconds ==
  ASSUME UNCHANGED sender
  PROVE  MaxSent' = MaxSent /\ Buckets' = Buckets
BY DEF MaxSent, Buckets

LEMMA LossNext == VideoInv /\ LossInv /\ [Next]_vars => LossInv'
<1> SUFFICES ASSUME VideoInv, LossInv, [Next]_vars PROVE LossInv'
  OBVIOUS
<1>1. CASE SenderStep
  BY <1>1 DEF SenderStep, SendFragment, StopBetweenFrames, StopWithinFrame, Sending, LossInv, Fetched
<1>2. CASE UNCHANGED <<sender, result>>
  <2>1. result' = result /\ Fetched' = Fetched /\ \A p \in Paths : Sending(p)' = Sending(p)
    BY <1>2 DEF Fetched, Sending
  <2>2. MaxSent' = MaxSent /\ Buckets' = Buckets
    BY <1>2, SameSeconds
  <2> QED BY <2>1, <2>2 DEF LossInv
<1>3. CASE Fetch
  <2>1. /\ result'.dual = DualPath(FinalSummary) /\ sender' = sender
        /\ \A p \in Paths : ~ Sending(p)
    BY <1>3 DEF Fetch, Joined, ReadyToFetch
  <2>2. DualPath(FinalSummary).reported =>
          ExactLoss(DualPath(FinalSummary), MaxSent, Buckets)
    BY <1>3, DualIsExact DEF Fetch
  <2>3. MaxSent' = MaxSent /\ Buckets' = Buckets
    BY <2>1, SameSeconds
  <2>4. \A p \in Paths : ~ Sending(p)'
    BY <2>1 DEF Sending
  <2> QED BY <2>1, <2>2, <2>3, <2>4 DEF LossInv
<1>4. CASE FetchFails
  BY <1>4 DEF FetchFails, Joined, LossInv, Fetched
<1>5. CASE NetworkStep
  <2>1. UNCHANGED <<sender, result>>
    BY <1>5 DEF NetworkStep, TakeIn
  <2> QED BY <1>2, <2>1
<1>6. CASE ReservationEnds \/ UNCHANGED vars
  <2>1. UNCHANGED <<sender, result>>
    BY <1>6 DEF ReservationEnds, vars
  <2> QED BY <1>2, <2>1
<1> QED BY <1>1, <1>3, <1>4, <1>5, <1>6 DEF Next, StageStep

-----------------------------------------------------------------------------
(* What follows.                                                            *)

(* Every frame seen on a path is counted once: it is in the making, or       *)
(* complete, or partial; for every number of paths and frames, in whatever   *)
(* order, how late and how often its fragments come.                         *)
THEOREM CountedOnce == Spec => []FramesAreCountedOnce
<1>1. VideoInv => FramesAreCountedOnce
  BY DEF VideoInv, TableInv, PathInv, Settled, Counted, FramesAreCountedOnce
<1> QED BY <1>1, Invariance, PTL

(* Every fragment of a frame counted as complete has arrived on that path.   *)
THEOREM CompleteArrived == Spec => []CompleteFramesArrived
<1>1. VideoInv => CompleteFramesArrived
  BY DEF VideoInv, TableInv, PathInv, Backed, Got, CompleteFramesArrived
<1> QED BY <1>1, Invariance, PTL

(* In a fetched summary no difference is cut off at zero: the frames sent on  *)
(* a path are those complete, partial and fully lost, also when the senders  *)
(* were stopped within a frame.                                              *)
THEOREM RowsAreExact == Spec => []RowsAddUp
<1>1. VideoInv => RowsAddUp
  BY DEF VideoInv
<1> QED BY <1>1, Invariance, PTL

(* Of what two paths or more bring, the union is exact: the frames reported  *)
(* lost on both, and those lost in the seconds, are the frames that are       *)
(* complete on no path, and the longest outage is the longest interval of    *)
(* them, across the seconds; for every number of frames and frame rate.      *)
THEOREM LossOnBothIsExact == Spec => []BothPathLossIsExact
<1>1. LossInv => BothPathLossIsExact
  BY DEF LossInv, BothPathLossIsExact, ExactLoss, SumOf, LostFrames, Outages, Between
<1> QED BY <1>1, InvInit, InvNext, LossInit, LossNext, PTL DEF Spec

(* The variables keep their types; in particular no counter exceeds the      *)
(* number of frames, and no more frames are in the making than the limit.    *)
THEOREM VideoTypeCorrect == Spec => []TypeOK
<1>1. ASSUME VideoInv, NEW p \in DOMAIN table
      PROVE  PathOK(table[p])
  <2> DEFINE path == table[p]
  <2>1. PathInv(arrived, p, path, MaxActive)
    BY <1>1 DEF VideoInv, TableInv
  <2> HIDE DEF path
  <2>2. /\ Active(path) \in SUBSET FrameIds /\ path.finalized \in SUBSET FrameIds
        /\ path.whole \in SUBSET FrameIds
        /\ Active(path) \intersect path.finalized = {}
    BY <2>1 DEF PathInv, Settled
  <2>3. /\ IsFiniteSet(Active(path)) /\ Cardinality(Active(path)) \in 0 .. Frames
        /\ IsFiniteSet(path.finalized) /\ Cardinality(path.finalized) \in 0 .. Frames
        /\ Cardinality(path.whole) \in 0 .. Frames
    BY <2>2, FrameSets
  <2>4. Cardinality(path.finalized) + Cardinality(Active(path)) \in 0 .. Frames
    <3>1. Cardinality(path.finalized \union Active(path)) \in 0 .. Frames
      BY <2>2, FrameSets
    <3>2. /\ path.finalized \intersect Active(path) = {}
          /\ Cardinality(path.finalized \intersect Active(path)) = 0
      BY <2>2, FS_EmptySet
    <3>3. Cardinality(path.finalized \union Active(path))
            = Cardinality(path.finalized) + Cardinality(Active(path))
                - Cardinality(path.finalized \intersect Active(path))
      BY <2>3, FS_Union
    <3> QED BY <2>3, <3>1, <3>2, <3>3
  <2>5. {path.seen, path.completes, path.partials} \subseteq 0 .. Frames
    BY <2>1, <2>3, <2>4, VideoAssumption DEF PathInv, Counted
  <2>6. \A f \in Active(path) : path.active[f] \in (SUBSET Indices) \ {{}}
    BY <2>1 DEF PathInv, Backed, Got
  <2> QED BY <2>1, <2>2, <2>5, <2>6 DEF PathOK, PathInv, path
<1>2. VideoInv => TypeOK
  BY <1>1 DEF VideoInv, Types, TableInv, TypeOK, SenderState, Fragment
<1> QED BY <1>2, Invariance, PTL
=============================================================================
