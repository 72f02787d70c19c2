------------------------------- MODULE NatSets --------------------------------
(***************************************************************************)
(* What the proofs need to know of sets of naturals, of finite sets, of    *)
(* sequences and of recursive definitions: the trees are ordered by name,  *)
(* times are compared, and both have a least element; the sizes of a       *)
(* directory's files are added up; names and documents are sequences, and  *)
(* what is read of them is defined step by step.                           *)
(*                                                                         *)
(* Induction is stated for a set of naturals, or of subsets, and proved    *)
(* from a minimal counterexample.                                          *)
(***************************************************************************)
EXTENDS Integers, FiniteSets, Sequences, Functions, SequencesExt, FiniteSetsExt,
        FiniteSetTheorems, SequenceTheorems, WellFoundedInduction, TLAPS

(* A non-empty set of naturals has a least element: the initial segment of *)
(* the naturals that ends in it is minimal for inclusion.                  *)
LEMMA NatMinimum ==
  ASSUME NEW T \in SUBSET Nat, T # {}
  PROVE  \E x \in T : \A y \in T : x <= y
<1> DEFINE segments == {0 .. n : n \in T}
<1>1. segments \subseteq FiniteSubsetsOf(Nat) /\ segments # {}
  <2>1. ASSUME NEW n \in T PROVE 0 .. n \in FiniteSubsetsOf(Nat)
    <3>1. 0 \in Int /\ n \in Int
      OBVIOUS
    <3>2. IsFiniteSet(0 .. n)
      BY <3>1, FS_Interval
    <3> QED BY <3>2 DEF FiniteSubsetsOf
  <2> QED BY <2>1
<1>2. PICK s \in segments :
        \A r \in segments : ~ (<<r, s>> \in StrictSubsetOrdering(Nat))
  <2> HIDE DEF segments
  <2> QED BY <1>1, WFMin, FS_StrictSubsetOrderingWellFounded
<1>3. PICK x \in T : s = 0 .. x
  OBVIOUS
<1>4. ASSUME NEW y \in T, y < x PROVE FALSE
  <2>1. 0 .. y \subseteq 0 .. x /\ 0 .. y # 0 .. x
    <3>1. x \in 0 .. x /\ x \notin 0 .. y
      BY <1>4
    <3> QED BY <3>1, <1>4
  <2>2. <<0 .. y, 0 .. x>> \in StrictSubsetOrdering(Nat)
    BY <2>1 DEF StrictSubsetOrdering
  <2> QED BY <1>2, <1>3, <2>2
<1> QED BY <1>4

(* Induction over the naturals, for a set of them.                         *)
LEMMA NatSetInduction ==
  ASSUME NEW P \in SUBSET Nat, 0 \in P, \A n \in P : n + 1 \in P
  PROVE  P = Nat
<1> DEFINE rest == Nat \ P
<1> SUFFICES ASSUME rest # {} PROVE FALSE
  OBVIOUS
<1>1. PICK x \in rest : \A y \in rest : x <= y
  <2>1. rest \in SUBSET Nat
    OBVIOUS
  <2> HIDE DEF rest
  <2> QED BY <2>1, NatMinimum
<1>2. x \in Nat /\ x # 0
  OBVIOUS
<1>3. x - 1 \in Nat /\ x - 1 \in P
  BY <1>1, <1>2
<1>4. (x - 1) + 1 = x
  BY <1>2
<1> QED BY <1>3, <1>4

(* Induction over the subsets of a finite set, for a set of them.          *)
LEMMA SubsetInduction ==
  ASSUME NEW S, IsFiniteSet(S), NEW P \in SUBSET SUBSET S,
         \A s \in SUBSET S : (\A x \in s : s \ {x} \in P) => s \in P
  PROVE  P = SUBSET S
<1> DEFINE rest == (SUBSET S) \ P
<1> SUFFICES ASSUME rest # {} PROVE FALSE
  OBVIOUS
<1>1. rest \subseteq FiniteSubsetsOf(S)
  BY FS_Subset DEF FiniteSubsetsOf
<1>2. PICK s \in rest : \A r \in rest : ~ (<<r, s>> \in StrictSubsetOrdering(S))
  <2> HIDE DEF rest
  <2> QED BY <1>1, WFMin, FS_StrictSubsetOrderingWellFounded
<1>3. PICK x \in s : s \ {x} \notin P
  OBVIOUS
<1>4. s \ {x} \in rest
  BY <1>3
<1>5. <<s \ {x}, s>> \in StrictSubsetOrdering(S)
  BY <1>1, <1>3 DEF StrictSubsetOrdering
<1> QED BY <1>2, <1>4, <1>5

-----------------------------------------------------------------------------
(* Sums over finite sets.  FoldFunctionOnSet takes the elements one at a   *)
(* time, each chosen from those that are left.                             *)
Picked(s) == CHOOSE x \in s : TRUE

(* g sums w over each subset of S.                                         *)
Sums(g, w, S) ==
  g = [s \in SUBSET S |-> IF s = {} THEN 0 ELSE w[Picked(s)] + g[s \ {Picked(s)}]]

(* Some function does.                                                     *)
LEMMA SumsExist ==
  ASSUME NEW S, IsFiniteSet(S), NEW w
  PROVE  \E g : Sums(g, w, S)
<1> DEFINE upto(n) == {s \in SUBSET S : Cardinality(s) <= n}
           G(g, n) == g = [s \in upto(n) |-> IF s = {} THEN 0 ELSE w[Picked(s)] + g[s \ {Picked(s)}]]
           bad == {n \in Nat : ~ \E g : G(g, n)}
<1>1. \A s \in SUBSET S : IsFiniteSet(s) /\ Cardinality(s) \in Nat /\ (Cardinality(s) = 0 <=> s = {})
  BY FS_Subset, FS_EmptySet, FS_CardinalityType
<1>2. \A s \in SUBSET S : s # {} => Picked(s) \in s /\ Cardinality(s \ {Picked(s)}) = Cardinality(s) - 1
  BY <1>1, FS_RemoveElement DEF Picked
<1>3. 0 \notin bad
  <2>1. upto(0) = {{}}
    BY <1>1, FS_EmptySet
  <2>2. G([s \in {{}} |-> 0], 0)
    BY <2>1
  <2> QED BY <2>2
<1>4. ASSUME NEW n \in Nat, n \notin bad PROVE n + 1 \notin bad
  <2>1. PICK g : G(g, n)
    BY <1>4
  <2> DEFINE h == [s \in upto(n + 1) |-> IF s = {} THEN 0 ELSE w[Picked(s)] + g[s \ {Picked(s)}]]
  <2>2. ASSUME NEW s \in upto(n) PROVE s \in upto(n + 1) /\ h[s] = g[s]
    <3>1. s \in upto(n + 1)
      BY <1>1
    <3>2. g[s] = IF s = {} THEN 0 ELSE w[Picked(s)] + g[s \ {Picked(s)}]
      BY <2>1
    <3> QED BY <3>1, <3>2
  <2>3. ASSUME NEW s \in upto(n + 1), s # {} PROVE h[s] = w[Picked(s)] + h[s \ {Picked(s)}]
    <3>1. s \ {Picked(s)} \in upto(n)
      BY <2>3, <1>1, <1>2
    <3> QED BY <3>1, <2>2, <2>3
  <2>4. {} \in upto(n + 1) => h[{}] = 0
    OBVIOUS
  <2>5. G(h, n + 1)
    <3>1. h = [s \in upto(n + 1) |-> h[s]]
      OBVIOUS
    <3> HIDE DEF h
    <3> QED BY <3>1, <2>3, <2>4
  <2> QED BY <2>5
<1>5. bad = {}
  <2> SUFFICES ASSUME bad # {} PROVE FALSE
    OBVIOUS
  <2>1. PICK x \in bad : \A y \in bad : x <= y
    <3> HIDE DEF bad
    <3>1. bad \in SUBSET Nat
      BY DEF bad
    <3> QED BY <3>1, NatMinimum
  <2>2. x \in Nat /\ x # 0
    BY <1>3
  <2>3. x - 1 \in Nat /\ x - 1 \notin bad
    <3> HIDE DEF bad
    <3> QED BY <2>1, <2>2
  <2>4. (x - 1) + 1 \notin bad
    BY <1>4, <2>3
  <2> HIDE DEF bad
  <2> QED BY <2>2, <2>4
<1>6. \E g : G(g, Cardinality(S))
  BY <1>1, <1>5
<1>7. upto(Cardinality(S)) = SUBSET S
  BY FS_Subset
<1> QED BY <1>6, <1>7 DEF Sums

(* Two sums of the same numbers over the same set agree, and are numbers.  *)
LEMMA SumsAgree ==
  ASSUME NEW S, IsFiniteSet(S), NEW T, IsFiniteSet(T), NEW w, NEW v,
         NEW g, Sums(g, w, S), NEW h, Sums(h, v, T),
         NEW R \in SUBSET (S \cap T), \A x \in R : w[x] \in Nat /\ v[x] = w[x]
  PROVE  g[R] = h[R] /\ g[R] \in Nat
<1> DEFINE P == {s \in SUBSET R : g[s] = h[s] /\ g[s] \in Nat}
<1>1. IsFiniteSet(R)
  BY FS_Subset
<1>2. ASSUME NEW s \in SUBSET R, \A x \in s : s \ {x} \in P PROVE s \in P
  <2>1. /\ g[s] = IF s = {} THEN 0 ELSE w[Picked(s)] + g[s \ {Picked(s)}]
        /\ h[s] = IF s = {} THEN 0 ELSE v[Picked(s)] + h[s \ {Picked(s)}]
    BY DEF Sums
  <2>2. CASE s = {}
    BY <2>1, <2>2
  <2>3. CASE s # {}
    <3>1. Picked(s) \in s
      BY <2>3 DEF Picked
    <3>2. s \ {Picked(s)} \in P
      BY <1>2, <3>1
    <3> QED BY <2>1, <2>3, <3>1, <3>2
  <2> QED BY <2>2, <2>3
<1>3. P = SUBSET R
  <2>1. P \in SUBSET SUBSET R
    OBVIOUS
  <2> HIDE DEF P
  <2> QED BY <1>1, <1>2, <2>1, SubsetInduction
<1> QED BY <1>3

(* A sum may begin with any of the numbers.                                *)
LEMMA SumsInAnyOrder ==
  ASSUME NEW S, IsFiniteSet(S), NEW w, NEW g, Sums(g, w, S), \A x \in S : w[x] \in Nat,
         NEW y \in S
  PROVE  g[S] = w[y] + g[S \ {y}]
<1> DEFINE P == {s \in SUBSET S : \A z \in s : g[s] = w[z] + g[s \ {z}]}
<1>1. ASSUME NEW s \in SUBSET S PROVE g[s] \in Nat
  <2>1. s \in SUBSET (S \cap S)
    OBVIOUS
  <2> QED BY <2>1, SumsAgree
<1>2. ASSUME NEW s \in SUBSET S, \A x \in s : s \ {x} \in P PROVE s \in P
  <2> SUFFICES ASSUME NEW z \in s PROVE g[s] = w[z] + g[s \ {z}]
    OBVIOUS
  <2> DEFINE x == Picked(s)
  <2>1. x \in s
    BY DEF Picked
  <2>2. g[s] = w[x] + g[s \ {x}]
    BY <2>1 DEF Sums
  <2>3. CASE x = z
    BY <2>2, <2>3
  <2>4. CASE x # z
    <3>1. s \ {x} \in P /\ s \ {z} \in P
      BY <1>2, <2>1
    <3>2. g[s \ {x}] = w[z] + g[(s \ {x}) \ {z}]
      BY <3>1, <2>4
    <3>3. g[s \ {z}] = w[x] + g[(s \ {z}) \ {x}]
      BY <3>1, <2>4, <2>1
    <3>4. (s \ {x}) \ {z} = (s \ {z}) \ {x}
      OBVIOUS
    <3>5. g[(s \ {x}) \ {z}] \in Nat /\ w[x] \in Nat /\ w[z] \in Nat
      BY <1>1, <2>1
    <3>6. g[s \ {x}] = w[z] + g[(s \ {x}) \ {z}] /\ g[s \ {z}] = w[x] + g[(s \ {x}) \ {z}]
      BY <3>2, <3>3, <3>4
    <3>7. \A a, b, c \in Nat : a + (b + c) = b + (a + c)
      OBVIOUS
    <3>8. w[x] + (w[z] + g[(s \ {x}) \ {z}]) = w[z] + (w[x] + g[(s \ {x}) \ {z}])
      BY <3>5, <3>7
    <3> QED BY <2>2, <3>6, <3>8
  <2> QED BY <2>3, <2>4
<1>3. P = SUBSET S
  <2>1. P \in SUBSET SUBSET S
    OBVIOUS
  <2> HIDE DEF P
  <2> QED BY <1>2, <2>1, SubsetInduction
<1> QED BY <1>3

(* What SumFunction chooses is such a function.                            *)
LEMMA SumIsSums ==
  ASSUME NEW w, IsFiniteSet(DOMAIN w)
  PROVE  \E g : Sums(g, w, DOMAIN w) /\ SumFunction(w) = g[DOMAIN w]
<1> DEFINE P(g) == Sums(g, w, DOMAIN w)
<1>1. SumFunction(w) = (CHOOSE g : P(g))[DOMAIN w]
  BY DEF SumFunction, SumFunctionOnSet, FoldFunctionOnSet, MapThenFoldSet, Sums, Picked
<1>2. \E g : P(g)
  BY SumsExist
<1> HIDE DEF P
<1>3. P(CHOOSE g : P(g))
  BY <1>2
<1> QED BY <1>1, <1>3 DEF P

(* The sum of finitely many numbers is one.                                *)
LEMMA SumIsNat ==
  ASSUME NEW w, IsFiniteSet(DOMAIN w), \A x \in DOMAIN w : w[x] \in Nat
  PROVE  SumFunction(w) \in Nat /\ (DOMAIN w = {} => SumFunction(w) = 0)
<1>1. PICK g : Sums(g, w, DOMAIN w) /\ SumFunction(w) = g[DOMAIN w]
  BY SumIsSums
<1>2. DOMAIN w \in SUBSET (DOMAIN w \cap DOMAIN w)
  OBVIOUS
<1>3. SumFunction(w) \in Nat
  BY <1>1, <1>2, SumsAgree
<1> QED BY <1>1, <1>3 DEF Sums

(* One of the numbers can be taken out of a sum.                           *)
LEMMA SumWithout ==
  ASSUME NEW w, IsFiniteSet(DOMAIN w), \A x \in DOMAIN w : w[x] \in Nat,
         NEW y \in DOMAIN w, NEW v, DOMAIN v = DOMAIN w \ {y},
         \A x \in DOMAIN v : v[x] = w[x]
  PROVE  SumFunction(w) = w[y] + SumFunction(v)
<1>1. PICK g : Sums(g, w, DOMAIN w) /\ SumFunction(w) = g[DOMAIN w]
  BY SumIsSums
<1>2. IsFiniteSet(DOMAIN v)
  BY FS_Subset
<1>3. PICK h : Sums(h, v, DOMAIN v) /\ SumFunction(v) = h[DOMAIN v]
  BY <1>2, SumIsSums
<1>4. g[DOMAIN w] = w[y] + g[DOMAIN v]
  <2> DEFINE D == DOMAIN w
  <2>1. IsFiniteSet(D) /\ Sums(g, w, D) /\ (\A x \in D : w[x] \in Nat)
    BY <1>1
  <2>2. y \in D /\ DOMAIN v = D \ {y}
    OBVIOUS
  <2> HIDE DEF D
  <2>5. g[D] = w[y] + g[D \ {y}]
    BY <2>1, <2>2, SumsInAnyOrder
  <2> QED BY <2>2, <2>5 DEF D
<1>5. DOMAIN v \in SUBSET (DOMAIN w \cap DOMAIN v)
  OBVIOUS
<1>6. g[DOMAIN v] = h[DOMAIN v]
  BY <1>1, <1>2, <1>3, <1>5, SumsAgree
<1> QED BY <1>1, <1>3, <1>4, <1>6

-----------------------------------------------------------------------------
(* Sequences, least and greatest numbers, remainders                       *)

(* A part of a sequence has some of its characters.                        *)
LEMMA PartOf ==
  ASSUME NEW S, NEW s \in Seq(S), NEW j \in 1 .. Len(s) + 1, NEW k \in j - 1 .. Len(s)
  PROVE  /\ SubSeq(s, j, k) \in Seq(S) /\ Len(SubSeq(s, j, k)) = k + 1 - j
         /\ \A i \in 1 .. k + 1 - j : SubSeq(s, j, k)[i] = s[j + i - 1]
<1>1. Len(s) \in Nat /\ j \in Int /\ k \in Int
  BY LenProperties
<1>2. \A i \in j .. k : s[i] \in S
  BY <1>1, ElementOfSeq
<1>3. k - j + 1 = k + 1 - j /\ \A i \in 1 .. k + 1 - j : j + i - 1 = i + j - 1
  BY <1>1
<1>4. /\ SubSeq(s, j, k) \in Seq(S)
      /\ Len(SubSeq(s, j, k)) = IF j <= k THEN k - j + 1 ELSE 0
      /\ \A i \in 1 .. k - j + 1 : SubSeq(s, j, k)[i] = s[j + i - 1]
  BY <1>1, <1>2, SubSeqProperties
<1> QED BY <1>1, <1>3, <1>4

(* The first elements of a sequence.                                       *)
LEMMA FirstPart ==
  ASSUME NEW S, NEW s \in Seq(S), NEW k \in 0 .. Len(s)
  PROVE  /\ SubSeq(s, 1, k) \in Seq(S) /\ Len(SubSeq(s, 1, k)) = k
         /\ \A i \in 1 .. k : SubSeq(s, 1, k)[i] = s[i]
<1> DEFINE u == SubSeq(s, 1, k)
<1>1. Len(s) \in Nat
  BY LenProperties
<1>2. 1 \in 1 .. Len(s) + 1 /\ k \in 1 - 1 .. Len(s)
  BY <1>1
<1>3. u \in Seq(S) /\ Len(u) = k + 1 - 1 /\ \A i \in 1 .. k + 1 - 1 : u[i] = s[1 + i - 1]
  BY <1>2, PartOf
<1> HIDE DEF u
<1>4. k + 1 - 1 = k /\ \A i \in 1 .. k : 1 + i - 1 = i
  BY <1>1
<1>5. u \in Seq(S) /\ Len(u) = k /\ \A i \in 1 .. k : u[i] = s[i]
  BY <1>3, <1>4
<1> QED BY <1>5 DEF u

(* A prefix has the same characters, as far as it goes.                    *)
LEMMA PrefixIs ==
  ASSUME NEW S, NEW T, NEW s \in Seq(S), NEW t \in Seq(T)
  PROVE  IsPrefix(s, t) <=> Len(s) <= Len(t) /\ \A i \in 1 .. Len(s) : s[i] = t[i]
<1>1. s \in Seq(S \union T) /\ t \in Seq(S \union T)
  BY SeqMonotonic
<1>2. Len(s) \in Nat /\ Len(t) \in Nat /\ SubSeq(s, 1, Len(s)) = s
  BY LenProperties, SubSeqFull
<1>3. CASE Len(s) <= Len(t)
  <2> DEFINE u == SubSeq(t, 1, Len(s))
  <2>1. u \in Seq(S \union T) /\ Len(u) = Len(s) /\ \A i \in 1 .. Len(s) : u[i] = t[i]
    <3>1. 1 \in 1 .. Len(t) + 1 /\ Len(s) \in 1 - 1 .. Len(t) /\ Len(s) + 1 - 1 = Len(s)
          /\ \A i \in 1 .. Len(s) : 1 + i - 1 = i
      BY <1>2, <1>3
    <3> QED BY <1>1, <3>1, PartOf
  <2> HIDE DEF u
  <2>2. s = u <=> \A i \in 1 .. Len(s) : s[i] = u[i]
    BY <1>1, <2>1, SeqEqual
  <2>3. IsPrefix(s, t) <=> s = u
    BY <1>2, <1>3 DEF IsPrefix, u
  <2> QED BY <1>3, <2>1, <2>2, <2>3
<1> QED BY <1>2, <1>3 DEF IsPrefix

(* The least and the greatest of a set of numbers.                         *)
LEMMA MinIsLeast ==
  ASSUME NEW S \in SUBSET Nat, NEW x \in S, \A y \in S : x <= y
  PROVE  Min(S) = x
<1>1. \A z \in S : (\A y \in S : z <= y) => z = x
  OBVIOUS
<1> QED BY <1>1 DEF Min

(* A set of numbers with an upper bound has a greatest, if any.            *)
LEMMA MaxIsGreatest ==
  ASSUME NEW S \in SUBSET Nat, NEW n \in Nat, S # {}, \A y \in S : y <= n
  PROVE  Max(S) \in S /\ \A y \in S : y <= Max(S)
<1> DEFINE T == {n - y : y \in S}
<1>1. T \in SUBSET Nat /\ T # {}
  <2>1. \A y \in S : n - y \in Nat
    OBVIOUS
  <2> QED BY <2>1
<1>2. PICK t \in T : \A u \in T : t <= u
  <2> HIDE DEF T
  <2> QED BY <1>1, NatMinimum
<1>3. PICK x \in S : t = n - x
  OBVIOUS
<1>4. \A y \in S : n - x <= n - y
  BY <1>2, <1>3
<1>5. \A y \in S : x >= y
  BY <1>4
<1>6. \E z \in S : \A y \in S : z >= y
  BY <1>5
<1>7. Max(S) \in S /\ \A y \in S : Max(S) >= y
  BY <1>6 DEF Max
<1> QED BY <1>7

(* A function on 1 .. n is a sequence of n elements.                       *)
LEMMA FunctionIsSeq ==
  ASSUME NEW n \in Nat, NEW S, NEW f \in [1 .. n -> S]
  PROVE  f \in Seq(S) /\ Len(f) = n
<1>1. f \in Seq(S)
  BY SeqDef
<1>2. DOMAIN f = 1 .. Len(f) /\ Len(f) \in Nat
  BY <1>1, LenProperties
<1>3. DOMAIN f = 1 .. n
  OBVIOUS
<1> QED BY <1>1, <1>2, <1>3

(* f keeps what is to keep of the first n of s.                            *)
Keeps(f, s, keep, n) ==
  f = [k \in 0 .. n |-> IF k = 0 THEN << >> ELSE IF k \in keep THEN Append(f[k - 1], s[k]) ELSE f[k - 1]]

(* What such a function gives after k of them.                             *)
LEMMA KeepsAt ==
  ASSUME NEW f, NEW s, NEW keep, NEW n, Keeps(f, s, keep, n), NEW k \in 0 .. n
  PROVE  f[k] = IF k = 0 THEN << >> ELSE IF k \in keep THEN Append(f[k - 1], s[k]) ELSE f[k - 1]
<1> DEFINE h == [j \in 0 .. n |->
                   IF j = 0 THEN << >> ELSE IF j \in keep THEN Append(f[j - 1], s[j]) ELSE f[j - 1]]
<1>1. h[k] = IF k = 0 THEN << >> ELSE IF k \in keep THEN Append(f[k - 1], s[k]) ELSE f[k - 1]
  OBVIOUS
<1>2. f = h
  BY DEF Keeps
<1> HIDE DEF h
<1> QED BY <1>1, <1>2

(* There is such a function, however long the sequence.                    *)
LEMMA KeepsExist ==
  ASSUME NEW s, NEW keep, NEW n \in Nat
  PROVE  \E f : Keeps(f, s, keep, n)
<1> DEFINE P == {k \in Nat : \E f : Keeps(f, s, keep, k)}
           next(x, k) == IF k \in keep THEN Append(x, s[k]) ELSE x
<1>1. 0 \in P
  <2>1. Keeps([i \in 0 .. 0 |-> << >>], s, keep, 0)
    BY DEF Keeps
  <2> QED BY <2>1
<1>2. ASSUME NEW k \in P PROVE k + 1 \in P
  <2>1. PICK f : Keeps(f, s, keep, k)
    BY <1>2
  <2> DEFINE g == [i \in 0 .. k + 1 |-> IF i = 0 THEN << >> ELSE next(f[i - 1], i)]
  <2>2. ASSUME NEW i \in 0 .. k PROVE g[i] = f[i] /\ i \in 0 .. k + 1
    <3>1. i \in 0 .. k + 1
      OBVIOUS
    <3>2. f[i] = IF i = 0 THEN << >> ELSE next(f[i - 1], i)
      BY <2>1, KeepsAt
    <3> QED BY <3>1, <3>2
  <2>3. ASSUME NEW i \in 0 .. k + 1, i # 0 PROVE g[i] = next(g[i - 1], i)
    <3>1. i - 1 \in 0 .. k
      BY <2>3
    <3> QED BY <3>1, <2>2, <2>3
  <2>4. g[0] = << >>
    OBVIOUS
  <2>5. Keeps(g, s, keep, k + 1)
    <3>1. g = [i \in 0 .. k + 1 |-> g[i]]
      OBVIOUS
    <3> HIDE DEF g
    <3> QED BY <3>1, <2>3, <2>4 DEF Keeps
  <2> QED BY <2>5
<1>3. P = Nat
  <2>1. P \in SUBSET Nat
    OBVIOUS
  <2> HIDE DEF P
  <2> QED BY <1>1, <1>2, <2>1, NatSetInduction
<1> QED BY <1>3

(* What is left of a division is less than the divisor, in one way only.   *)
LEMMA OneRemainder ==
  ASSUME NEW m \in Nat \ {0}, NEW a \in Int, NEW b \in Int, NEW s \in 0 .. m - 1, NEW t \in 0 .. m - 1,
         m * a + s = m * b + t
  PROVE  s = t
<1>1. m * (a - b) = t - s
  OBVIOUS
<1>2. \A q \in Int : (q >= 1 => m * q >= m) /\ (q <= -1 => m * q <= -m)
  OBVIOUS
<1>3. a - b >= 1 \/ a - b <= -1 \/ a - b = 0
  OBVIOUS
<1> QED BY <1>1, <1>2, <1>3

(* A number is its quotient times the divisor, and what is left.           *)
LEMMA Division ==
  ASSUME NEW m \in Nat \ {0}, NEW n \in Int
  PROVE  n % m \in 0 .. m - 1 /\ \E q \in Int : n = m * q + (n % m)
<1>1. n % m \in 0 .. m - 1 /\ n \div m \in Int
  OBVIOUS
<1>2. n = m * (n \div m) + (n % m)
  OBVIOUS
<1> QED BY <1>1, <1>2

-----------------------------------------------------------------------------
(* Recursive definitions                                                   *)

(* What holds at first, and after each step if it held before it, holds    *)
(* after every one of n steps.                                             *)
LEMMA UptoInduction ==
  ASSUME NEW n \in Nat, NEW P, 0 \in P, \A k \in 0 .. n - 1 : k \in P => k + 1 \in P
  PROVE  \A k \in 0 .. n : k \in P
<1> DEFINE Q == {k \in Nat : k <= n => k \in P}
<1>1. 0 \in Q
  OBVIOUS
<1>2. ASSUME NEW k \in Q PROVE k + 1 \in Q
  <2> SUFFICES ASSUME k + 1 <= n PROVE k + 1 \in P
    OBVIOUS
  <2>1. k \in 0 .. n - 1 /\ k \in P
    OBVIOUS
  <2> QED BY <2>1
<1>3. Q = Nat
  <2>1. Q \in SUBSET Nat
    OBVIOUS
  <2> HIDE DEF Q
  <2> QED BY <1>1, <1>2, <2>1, NatSetInduction
<1> QED BY <1>3

(* f is what n steps, each a function, make of base.                       *)
Recurs(f, n, base, step) == f[0] = base /\ \A k \in 1 .. n : f[k] = step[k][f[k - 1]]

(* n steps of a recursion, each a function on T, make a function.          *)
LEMMA RecursionExists ==
  ASSUME NEW n \in Nat, NEW T, NEW base \in T, NEW step \in [1 .. n -> [T -> T]]
  PROVE  \E f \in [0 .. n -> T] : Recurs(f, n, base, step)
<1> DEFINE P == {k \in Nat : \E f \in [0 .. k -> T] : f[0] = base /\ \A i \in 1 .. k : f[i] = step[i][f[i - 1]]}
<1>1. 0 \in P
  <2> DEFINE h == [i \in 0 .. 0 |-> base]
  <2>1. h \in [0 .. 0 -> T] /\ h[0] = base /\ 1 .. 0 = {}
    OBVIOUS
  <2> HIDE DEF h
  <2> QED BY <2>1
<1>2. ASSUME NEW k \in 0 .. n - 1, k \in P PROVE k + 1 \in P
  <2>1. PICK f \in [0 .. k -> T] : f[0] = base /\ \A i \in 1 .. k : f[i] = step[i][f[i - 1]]
    BY <1>2
  <2>2. f[k] \in T /\ step[k + 1] \in [T -> T] /\ k \in Nat
    <3>1. k + 1 \in 1 .. n /\ k \in 0 .. k
      OBVIOUS
    <3> QED BY <3>1
  <2> DEFINE x == step[k + 1][f[k]]
             g == [i \in 0 .. k + 1 |-> IF i = k + 1 THEN x ELSE f[i]]
  <2>3. x \in T
    BY <2>2
  <2> HIDE DEF x
  <2>4. g \in [0 .. k + 1 -> T]
    <3>1. \A i \in 0 .. k + 1 : i = k + 1 \/ i \in 0 .. k
      BY <2>2
    <3> QED BY <2>3, <3>1
  <2>5. g[0] = base
    BY <2>1, <2>2
  <2>6. ASSUME NEW i \in 1 .. k + 1 PROVE g[i] = step[i][g[i - 1]]
    <3>1. i - 1 \in 0 .. k /\ i \in 0 .. k + 1 /\ i - 1 # k + 1
      BY <2>2
    <3>2. g[i - 1] = f[i - 1]
      BY <3>1
    <3>3. CASE i = k + 1
      <4>1. g[i] = x /\ i - 1 = k
        BY <3>1, <3>3, <2>2
      <4> QED BY <3>2, <3>3, <4>1 DEF x
    <3>4. CASE i # k + 1
      <4>1. i \in 1 .. k /\ g[i] = f[i]
        BY <3>1, <3>4
      <4> QED BY <2>1, <3>2, <4>1
    <3> QED BY <3>3, <3>4
  <2> HIDE DEF g
  <2> QED BY <2>2, <2>4, <2>5, <2>6
<1>3. \A k \in 0 .. n : k \in P
  <2> HIDE DEF P
  <2> QED BY <1>1, <1>2, UptoInduction
<1> QED BY <1>3 DEF Recurs

(* How FlattenSeq makes one of a sequence of sequences.                    *)
Concatenates(f, s, n) ==
  f = [i \in 1 .. n |-> IF i = 1 THEN s[i] ELSE f[i - 1] \o s[i]]

(* The sequences of a sequence, one after another: f joins the first ones. *)
Joins(f, s, n, S) ==
  /\ f \in [0 .. n -> Seq(S)] /\ f[0] = << >>
  /\ \A k \in 1 .. n : f[k] = f[k - 1] \o s[k]

LEMMA FlattenJoins ==
  ASSUME NEW n \in Nat, NEW S, NEW s \in [1 .. n -> Seq(S)]
  PROVE  \E f : Joins(f, s, n, S) /\ FlattenSeq(s) = f[n]
<1>1. Len(s) = n /\ s \in Seq(Seq(S))
  <2> HIDE DEF Concatenates
  <2> QED BY FunctionIsSeq
<1> DEFINE step == [k \in 1 .. n |-> [x \in Seq(S) |-> x \o s[k]]]
<1>2. PICK f \in [0 .. n -> Seq(S)] : f[0] = << >> /\ \A k \in 1 .. n : f[k] = step[k][f[k - 1]]
  <2> DEFINE T == Seq(S)
             e == << >>
  <2>1. step \in [1 .. n -> [T -> T]]
    BY ConcatProperties
  <2>2. e \in T
    BY EmptySeq
  <2> HIDE DEF step, T, e
  <2>3. \E f \in [0 .. n -> T] : Recurs(f, n, e, step)
    BY <2>1, <2>2, RecursionExists
  <2> QED BY <2>3 DEF T, e, Recurs
<1>3. ASSUME NEW k \in 1 .. n PROVE f[k] = f[k - 1] \o s[k] /\ f[k - 1] \in Seq(S)
  <2>1. k - 1 \in 0 .. n
    OBVIOUS
  <2> QED BY <1>2, <2>1
<1> HIDE DEF step
<1>4. Joins(f, s, n, S)
  BY <1>2, <1>3 DEF Joins
<1>5. CASE n = 0
  <2>1. FlattenSeq(s) = s
    BY <1>1, <1>5 DEF FlattenSeq
  <2>2. s = << >>
    BY <1>1, <1>5, EmptySeq
  <2> QED BY <1>2, <1>4, <1>5, <2>1, <2>2
<1>6. CASE n # 0
  <2>1. f[1] = s[1]
    <3>1. 1 \in 1 .. n /\ 1 - 1 = 0
      BY <1>6
    <3>2. f[1] = f[1 - 1] \o s[1] /\ s[1] \in Seq(S)
      BY <1>3, <3>1
    <3>3. f[1] = << >> \o s[1]
      BY <1>2, <3>1, <3>2
    <3> QED BY <3>2, <3>3, ConcatEmptySeq
  <2> DEFINE g == [i \in 1 .. n |-> f[i]]
  <2>2. Concatenates(g, s, n)
    <3>1. ASSUME NEW i \in 1 .. n PROVE g[i] = IF i = 1 THEN s[i] ELSE g[i - 1] \o s[i]
      <4>1. CASE i = 1
        BY <2>1, <4>1
      <4>2. CASE i # 1
        <5>1. i - 1 \in 1 .. n
          BY <4>2
        <5> QED BY <1>3, <4>2, <5>1
      <4> QED BY <4>1, <4>2
    <3>2. g = [i \in 1 .. n |-> g[i]]
      OBVIOUS
    <3> HIDE DEF g
    <3> QED BY <3>1, <3>2 DEF Concatenates
  <2> DEFINE K(h) == Concatenates(h, s, n)
             flat == CHOOSE h : K(h)
  <2>3. FlattenSeq(s) = flat[n]
    BY <1>1, <1>6 DEF FlattenSeq, Concatenates
  <2>4. K(flat)
    <3>1. \E h : K(h)
      BY <2>2
    <3> HIDE DEF K
    <3> QED BY <3>1
  <2> HIDE DEF flat
  <2>5. ASSUME NEW i \in 1 .. n PROVE flat[i] = IF i = 1 THEN s[i] ELSE flat[i - 1] \o s[i]
    <3> DEFINE h == [j \in 1 .. n |-> IF j = 1 THEN s[j] ELSE flat[j - 1] \o s[j]]
    <3>1. h[i] = IF i = 1 THEN s[i] ELSE flat[i - 1] \o s[i]
      OBVIOUS
    <3>2. flat = h
      BY <2>4 DEF Concatenates
    <3> HIDE DEF h
    <3> QED BY <3>1, <3>2
  <2> DEFINE P == {k \in Nat : k = 0 \/ flat[k] = f[k]}
  <2>6. 0 \in P
    OBVIOUS
  <2>7. ASSUME NEW k \in 0 .. n - 1, k \in P PROVE k + 1 \in P
    <3>1. k + 1 \in 1 .. n /\ (k + 1) - 1 = k
      OBVIOUS
    <3>2. flat[k + 1] = IF k + 1 = 1 THEN s[k + 1] ELSE flat[k] \o s[k + 1]
      BY <2>5, <3>1
    <3>3. f[k + 1] = f[k] \o s[k + 1]
      BY <1>3, <3>1
    <3>4. CASE k = 0
      <4>1. k + 1 = 1 /\ 1 \in Nat
        BY <3>4
      <4> QED BY <2>1, <3>2, <4>1
    <3>5. CASE k # 0
      <4>1. flat[k] = f[k] /\ k + 1 # 1 /\ k + 1 \in Nat
        BY <2>7, <3>5
      <4> QED BY <3>2, <3>3, <4>1
    <3> QED BY <3>4, <3>5
  <2>8. n \in P
    <3> HIDE DEF P
    <3>1. \A k \in 0 .. n : k \in P
      BY <2>6, <2>7, UptoInduction
    <3> QED BY <3>1
  <2> QED BY <1>4, <1>6, <2>3, <2>8
<1> QED BY <1>5, <1>6

(* They are a sequence.                                                    *)
LEMMA FlattenIsSeq ==
  ASSUME NEW n \in Nat, NEW S, NEW s \in [1 .. n -> Seq(S)]
  PROVE  FlattenSeq(s) \in Seq(S)
<1>1. PICK f : Joins(f, s, n, S) /\ FlattenSeq(s) = f[n]
  BY FlattenJoins
<1> QED BY <1>1 DEF Joins

(* x is the last one of M in a.                                            *)
LastOf(a, M, x) ==
  \E i \in 1 .. Len(a) : a[i] = x /\ x \in M /\ \A j \in i + 1 .. Len(a) : a[j] \notin M

NoneOf(a, M) == \A i \in 1 .. Len(a) : a[i] \notin M

LEMMA LastExists ==
  ASSUME NEW a, Len(a) \in Nat, NEW M, ~ NoneOf(a, M)
  PROVE  \E x : LastOf(a, M, x)
<1> DEFINE n == Len(a)
           P == {k \in Nat : (\A j \in n + 1 - k .. n : a[j] \notin M) \/ \E x : LastOf(a, M, x)}
<1>1. 0 \in P
  <2>1. n + 1 - 0 .. n = {}
    OBVIOUS
  <2> QED BY <2>1
<1>2. ASSUME NEW k \in 0 .. n - 1, k \in P PROVE k + 1 \in P
  <2> DEFINE i == n + 1 - (k + 1)
  <2>1. i \in 1 .. n /\ i + 1 = n + 1 - k /\ k + 1 \in Nat
    OBVIOUS
  <2>2. CASE \E x : LastOf(a, M, x)
    BY <2>1, <2>2
  <2>3. CASE (\A j \in i + 1 .. n : a[j] \notin M) /\ a[i] \in M
    <3>1. LastOf(a, M, a[i])
      BY <2>1, <2>3 DEF LastOf
    <3> QED BY <2>1, <3>1
  <2>4. CASE (\A j \in i + 1 .. n : a[j] \notin M) /\ a[i] \notin M
    <3>1. \A j \in i .. n : j = i \/ j \in i + 1 .. n
      BY <2>1
    <3>2. \A j \in i .. n : a[j] \notin M
      BY <2>4, <3>1
    <3> QED BY <2>1, <3>2
  <2> QED BY <1>2, <2>1, <2>2, <2>3, <2>4
<1>3. n \in P
  <2> HIDE DEF P
  <2>1. \A k \in 0 .. n : k \in P
    BY <1>1, <1>2, UptoInduction
  <2> QED BY <2>1
<1>4. (\A j \in n + 1 - n .. n : a[j] \notin M) => NoneOf(a, M)
  <2>1. n + 1 - n = 1
    OBVIOUS
  <2> QED BY <2>1 DEF NoneOf
<1> QED BY <1>3, <1>4

(* The last one of two sequences is that of the second, if it has one.     *)
LEMMA LastOfBoth ==
  ASSUME NEW S, NEW a \in Seq(S), NEW b \in Seq(S), NEW M
  PROVE  /\ NoneOf(a \o b, M) <=> NoneOf(a, M) /\ NoneOf(b, M)
         /\ \A x : LastOf(a \o b, M, x) => LastOf(b, M, x) \/ (NoneOf(b, M) /\ LastOf(a, M, x))
<1> DEFINE c == a \o b
           n == Len(a)
           m == Len(b)
<1>1. /\ n \in Nat /\ m \in Nat /\ Len(c) = n + m
      /\ \A i \in 1 .. n : c[i] = a[i]
      /\ \A i \in 1 .. m : c[n + i] = b[i]
  <2>1. /\ Len(c) = n + m
        /\ \A i \in 1 .. n + m : c[i] = IF i <= n THEN a[i] ELSE b[i - n]
    BY ConcatProperties
  <2>2. n \in Nat /\ m \in Nat
    BY LenProperties
  <2>3. ASSUME NEW i \in 1 .. m PROVE c[n + i] = b[i]
    <3>1. n + i \in 1 .. n + m /\ ~ (n + i <= n) /\ (n + i) - n = i
      BY <2>2
    <3>2. c[n + i] = b[(n + i) - n]
      BY <2>1, <3>1
    <3> QED BY <3>1, <3>2
  <2>4. ASSUME NEW i \in 1 .. n PROVE c[i] = a[i]
    <3>1. i \in 1 .. n + m /\ i <= n
      BY <2>2
    <3> QED BY <2>1, <3>1
  <2> QED BY <2>1, <2>2, <2>3, <2>4
<1> HIDE DEF c, n, m
<1>2. \A i \in 1 .. n + m : i \in 1 .. n \/ \E j \in 1 .. m : i = n + j
  <2>1. ASSUME NEW i \in 1 .. n + m, i \notin 1 .. n PROVE i - n \in 1 .. m /\ i = n + (i - n)
    BY <1>1, <2>1
  <2> QED BY <2>1
<1>3. NoneOf(c, M) <=> NoneOf(a, M) /\ NoneOf(b, M)
  <2>1. ASSUME NoneOf(c, M) PROVE NoneOf(a, M) /\ NoneOf(b, M)
    <3>1. \A i \in 1 .. n : i \in 1 .. n + m
      BY <1>1
    <3>2. \A i \in 1 .. m : n + i \in 1 .. n + m
      BY <1>1
    <3> QED BY <1>1, <2>1, <3>1, <3>2 DEF NoneOf, n, m
  <2>2. ASSUME NoneOf(a, M), NoneOf(b, M) PROVE NoneOf(c, M)
    <3>1. ASSUME NEW i \in 1 .. n + m PROVE c[i] \notin M
      <4>1. CASE i \in 1 .. n
        BY <1>1, <2>2, <4>1 DEF NoneOf, n
      <4>2. CASE \E j \in 1 .. m : i = n + j
        BY <1>1, <2>2, <4>2 DEF NoneOf, m
      <4> QED BY <1>2, <4>1, <4>2
    <3> QED BY <1>1, <3>1 DEF NoneOf
  <2> QED BY <2>1, <2>2
<1>4. ASSUME NEW x, LastOf(c, M, x) PROVE LastOf(b, M, x) \/ (NoneOf(b, M) /\ LastOf(a, M, x))
  <2>1. PICK i \in 1 .. n + m : c[i] = x /\ x \in M /\ \A j \in i + 1 .. n + m : c[j] \notin M
    BY <1>1, <1>4 DEF LastOf
  <2>2. CASE i \in 1 .. n
    <3>1. ASSUME NEW j \in i + 1 .. n PROVE a[j] \notin M
      <4>1. j \in 1 .. n /\ j \in i + 1 .. n + m
        BY <1>1, <2>2
      <4> QED BY <1>1, <2>1, <4>1
    <3>2. ASSUME NEW j \in 1 .. m PROVE b[j] \notin M
      <4>1. n + j \in i + 1 .. n + m
        BY <1>1, <2>2
      <4> QED BY <1>1, <2>1, <4>1
    <3>3. LastOf(a, M, x)
      BY <1>1, <2>1, <2>2, <3>1 DEF LastOf, n
    <3> QED BY <3>2, <3>3 DEF NoneOf, m
  <2>3. CASE \E k \in 1 .. m : i = n + k
    <3>1. PICK k \in 1 .. m : i = n + k
      BY <2>3
    <3>2. ASSUME NEW j \in k + 1 .. m PROVE b[j] \notin M
      <4>1. n + j \in i + 1 .. n + m /\ j \in 1 .. m
        BY <1>1, <3>1
      <4> QED BY <1>1, <2>1, <4>1
    <3>3. b[k] = x
      BY <1>1, <2>1, <3>1
    <3> QED BY <2>1, <3>2, <3>3 DEF LastOf, m
  <2> QED BY <1>2, <2>2, <2>3
<1> QED BY <1>3, <1>4 DEF c

(* The last ones of two sequences have the same text, or there are none.   *)
SameLast(a, M, b, L) ==
  /\ NoneOf(a, M) <=> NoneOf(b, L)
  /\ \A x, y : LastOf(a, M, x) /\ LastOf(b, L, y) => x.text = y.text

LEMMA LastIsOne ==
  ASSUME NEW a, NEW M, NEW x, LastOf(a, M, x)
  PROVE  ~ NoneOf(a, M)
BY DEF LastOf, NoneOf

LEMMA SameLastBoth ==
  ASSUME NEW S, NEW a1 \in Seq(S), NEW a2 \in Seq(S), NEW M,
         NEW T, NEW b1 \in Seq(T), NEW b2 \in Seq(T), NEW L,
         SameLast(a1, M, b1, L), SameLast(a2, M, b2, L)
  PROVE  SameLast(a1 \o a2, M, b1 \o b2, L)
<1> DEFINE a == a1 \o a2
           b == b1 \o b2
<1>1. /\ NoneOf(a, M) <=> NoneOf(a1, M) /\ NoneOf(a2, M)
      /\ \A x : LastOf(a, M, x) => LastOf(a2, M, x) \/ (NoneOf(a2, M) /\ LastOf(a1, M, x))
  BY LastOfBoth
<1>2. /\ NoneOf(b, L) <=> NoneOf(b1, L) /\ NoneOf(b2, L)
      /\ \A x : LastOf(b, L, x) => LastOf(b2, L, x) \/ (NoneOf(b2, L) /\ LastOf(b1, L, x))
  BY LastOfBoth
<1> HIDE DEF a, b
<1>3. \A x : LastOf(a2, M, x) => ~ NoneOf(a2, M)
  BY LastIsOne
<1>4. \A x : LastOf(b2, L, x) => ~ NoneOf(b2, L)
  BY LastIsOne
<1>5. SameLast(a, M, b, L)
  BY <1>1, <1>2, <1>3, <1>4 DEF SameLast
<1> QED BY <1>5 DEF a, b

LEMMA SameLastOfAll ==
  ASSUME NEW n \in Nat, NEW S, NEW s \in [1 .. n -> Seq(S)], NEW M,
         NEW T, NEW t \in [1 .. n -> Seq(T)], NEW L,
         \A k \in 1 .. n : SameLast(s[k], M, t[k], L)
  PROVE  SameLast(FlattenSeq(s), M, FlattenSeq(t), L)
<1>1. PICK f : Joins(f, s, n, S) /\ FlattenSeq(s) = f[n]
  BY FlattenJoins
<1>2. PICK g : Joins(g, t, n, T) /\ FlattenSeq(t) = g[n]
  BY FlattenJoins
<1> DEFINE P == {k \in Nat : SameLast(f[k], M, g[k], L)}
<1>3. 0 \in P
  <2>1. f[0] = << >> /\ g[0] = << >>
    BY <1>1, <1>2 DEF Joins
  <2>2. 1 .. Len(<< >>) = {}
    OBVIOUS
  <2>3. NoneOf(<< >>, M) /\ NoneOf(<< >>, L) /\ \A x : ~ LastOf(<< >>, M, x)
    BY <2>2 DEF NoneOf, LastOf
  <2> QED BY <2>1, <2>3 DEF SameLast
<1>4. ASSUME NEW k \in 0 .. n - 1, k \in P PROVE k + 1 \in P
  <2> DEFINE i == k + 1
             s1 == s[i]
             t1 == t[i]
             f1 == f[k]
             g1 == g[k]
  <2>1. i \in 1 .. n /\ i - 1 = k /\ i \in Nat /\ k \in 0 .. n
    OBVIOUS
  <2>2. f[i] = f1 \o s1 /\ f1 \in Seq(S) /\ s1 \in Seq(S)
    BY <1>1, <2>1 DEF Joins
  <2>3. g[i] = g1 \o t1 /\ g1 \in Seq(T) /\ t1 \in Seq(T)
    BY <1>2, <2>1 DEF Joins
  <2>4. SameLast(f1, M, g1, L) /\ SameLast(s1, M, t1, L)
    BY <1>4, <2>1
  <2> HIDE DEF s1, t1, f1, g1, i
  <2>5. SameLast(f1 \o s1, M, g1 \o t1, L)
    BY <2>2, <2>3, <2>4, SameLastBoth
  <2>6. SameLast(f[i], M, g[i], L)
    BY <2>2, <2>3, <2>5
  <2> QED BY <2>1, <2>6 DEF i
<1>5. n \in P
  <2> HIDE DEF P
  <2>1. \A k \in 0 .. n : k \in P
    BY <1>3, <1>4, UptoInduction
  <2> QED BY <2>1
<1> QED BY <1>1, <1>2, <1>5

===============================================================================
