--------------------------- MODULE DataLemmas --------------------------
(***************************************************************************)
(* Lemmas about data of any size: induction over the numbers and over the   *)
(* subsets of a finite set, what a sum of Functions comes to, what Ordering *)
(* makes of positions, and what FlattenSeq makes of sequences.              *)
(*                                                                         *)
(* The induction rules of the library take the predicate as an operator,    *)
(* which the provers cannot instantiate.  Here it is a set, so that a proof *)
(* names the set of what it holds of and cites the rule like any other      *)
(* lemma.  They rest on the library's rule that a well-founded relation has *)
(* minimal elements.                                                        *)
(***************************************************************************)
EXTENDS Ordering, SequencesExt, SequenceTheorems, FiniteSetTheorems, TLAPS

-----------------------------------------------------------------------------
(* Induction.                                                               *)

\* Induction over the naturals, of a set of them: the least that is not in it would
\* follow one that is.
LEMMA NatInductionOfSet ==
  ASSUME NEW P, 0 \in P, \A n \in Nat : n \in P => n + 1 \in P
  PROVE  \A n \in Nat : n \in P
<1> DEFINE T == {n \in Nat : n \notin P}
<1>1. CASE T # {}
  <2>1. PICK x \in T : \A y \in T : ~ (<<y, x>> \in OpToRel(<, Nat))
    <3>1. T \subseteq Nat
      OBVIOUS
    <3> HIDE DEF T
    <3> QED BY <1>1, <3>1, NatLessThanWellFounded, WFMin
  <2>2. \A y \in T : ~ (y < x)
    BY <2>1 DEF OpToRel
  <2>3. x \in Nat /\ x # 0
    OBVIOUS
  <2>4. x - 1 \in Nat /\ x - 1 \notin T /\ x - 1 + 1 = x
    BY <2>2, <2>3
  <2> QED BY <2>3, <2>4
<1> QED BY <1>1

\* f goes from base to its value at N by one step for each number.
Recurs(f, N, base, step) == f[0] = base /\ \A i \in 1..N : f[i] = step[<<f[i - 1], i>>]

\* A recursion over 1..N whose steps stay within X is a function.
LEMMA RecursionExists ==
  ASSUME NEW N \in Nat, NEW X, NEW base \in X, NEW step,
         \A x \in X : \A i \in 1..N : step[<<x, i>>] \in X
  PROVE  \E f \in [0..N -> X] : Recurs(f, N, base, step)
<1> DEFINE From(f, n) == /\ f \in [0..n -> X] /\ f[0] = base
                         /\ \A i \in 1..n : f[i] = step[<<f[i - 1], i>>]
           P == {n \in Nat : n <= N => \E f : From(f, n)}
<1>1. 0 \in P
  <2>1. From([i \in 0..0 |-> base], 0)
    OBVIOUS
  <2> HIDE DEF From
  <2> QED BY <2>1
<1>2. ASSUME NEW n \in Nat, n \in P PROVE n + 1 \in P
  <2> SUFFICES ASSUME n + 1 <= N PROVE \E f : From(f, n + 1)
    <3> HIDE DEF From
    <3> QED OBVIOUS
  <2>1. PICK f : From(f, n)
    <3>1. n <= N
      OBVIOUS
    <3> HIDE DEF From
    <3> QED BY <1>2, <3>1
  <2> DEFINE x == step[<<f[n], n + 1>>]
             g == [i \in 0..n + 1 |-> IF i <= n THEN f[i] ELSE x]
  <2>2. x \in X
    <3>1. f[n] \in X /\ n + 1 \in 1..N
      BY <2>1
    <3> QED BY <3>1
  <2>3. (\A i \in 0..n : g[i] = f[i]) /\ g[n + 1] = x
    OBVIOUS
  <2>4. g \in [0..n + 1 -> X]
    BY <2>1, <2>2
  <2>5. ASSUME NEW i \in 1..n + 1 PROVE g[i] = step[<<g[i - 1], i>>]
    <3>1. i - 1 \in 0..n /\ g[i - 1] = f[i - 1]
      BY <2>3
    <3> HIDE DEF g
    <3>2. CASE i \in 1..n
      BY <2>1, <2>3, <3>1, <3>2
    <3>3. CASE i = n + 1
      BY <2>3, <3>1, <3>3
    <3> QED BY <3>2, <3>3
  <2>6. From(g, n + 1)
    <3> HIDE DEF g
    <3> QED BY <2>1, <2>3, <2>4, <2>5
  <2> HIDE DEF From
  <2> QED BY <2>6
<1>3. N \in P
  <2> HIDE DEF P
  <2> QED BY <1>1, <1>2, NatInductionOfSet
<1> HIDE DEF From
<1>4. PICK f : From(f, N)
  BY <1>3
<1> QED BY <1>4 DEF From, Recurs

\* Induction over the subsets of a finite set: each follows from those with one
\* element less.
LEMMA SubsetInduction ==
  ASSUME NEW S, IsFiniteSet(S), NEW P, {} \in P,
         \A T \in SUBSET S : T # {} /\ (\A x \in T : T \ {x} \in P) => T \in P
  PROVE  \A T \in SUBSET S : T \in P
<1> DEFINE Q == {k \in Nat : \A T \in SUBSET S : Cardinality(T) = k => T \in P}
<1>1. \A T \in SUBSET S : IsFiniteSet(T) /\ Cardinality(T) \in Nat
  BY FS_Subset, FS_CardinalityType
<1>2. \A T \in SUBSET S : Cardinality(T) = 0 => T = {}
  BY <1>1, FS_EmptySet
<1>3. 0 \in Q
  BY <1>2
<1>4. ASSUME NEW k \in Nat, k \in Q PROVE k + 1 \in Q
  <2>1. ASSUME NEW T \in SUBSET S, Cardinality(T) = k + 1 PROVE T \in P
    <3>1. T # {}
      <4>1. Cardinality(T) # 0
        BY <2>1
      <4> QED BY <4>1, FS_EmptySet
    <3>2. ASSUME NEW x \in T PROVE T \ {x} \in P
      <4>1. Cardinality(T \ {x}) = Cardinality(T) - 1
        BY <1>1, FS_RemoveElement
      <4>2. Cardinality(T \ {x}) = k /\ T \ {x} \in SUBSET S
        BY <2>1, <4>1
      <4> QED BY <1>4, <4>2
    <3> QED BY <3>1, <3>2
  <2>2. k + 1 \in Nat
    OBVIOUS
  <2> QED BY <2>1, <2>2
<1>5. \A n \in Nat : n \in Q
  <2> HIDE DEF Q
  <2> QED BY <1>3, <1>4, NatInductionOfSet
<1> QED BY <1>1, <1>5

-----------------------------------------------------------------------------
(* Sums.                                                                    *)

\* What it is to be the function that a sum over subsets of S folds with.
Iterates(g, f, S) ==
  /\ g[{}] = 0
  /\ \A s \in SUBSET S : s # {} => g[s] = f[CHOOSE x \in s : TRUE] + g[s \ {CHOOSE x \in s : TRUE}]

LEMMA IteratorExists ==
  ASSUME NEW S, IsFiniteSet(S), NEW f, \A x \in S : f[x] \in Int
  PROVE  \E g \in [SUBSET S -> Int] : Iterates(g, f, S)
<1> DEFINE Small(k) == {s \in SUBSET S : Cardinality(s) <= k}
           Step(g, s) == f[CHOOSE x \in s : TRUE] + g[s \ {CHOOSE x \in s : TRUE}]
           Folds(g, k) == /\ g \in [Small(k) -> Int]
                          /\ g[{}] = 0
                          /\ \A s \in Small(k) : s # {} => g[s] = Step(g, s)
           P == {k \in Nat : \E g : Folds(g, k)}
<1>1. \A s \in SUBSET S : /\ Cardinality(s) \in Nat /\ Cardinality(s) <= Cardinality(S)
                          /\ Cardinality(s) = 0 <=> s = {}
                          /\ \A x \in s : Cardinality(s \ {x}) = Cardinality(s) - 1
  BY FS_Subset, FS_CardinalityType, FS_EmptySet, FS_RemoveElement
<1>2. 0 \in P
  <2>1. Small(0) = {{}}
    BY <1>1
  <2>2. Folds([s \in Small(0) |-> 0], 0)
    BY <2>1
  <2> QED BY <2>2
<1>3. ASSUME NEW k \in Nat, k \in P PROVE k + 1 \in P
  <2>1. PICK g : Folds(g, k)
    BY <1>3
  <2> DEFINE h == [s \in Small(k + 1) |-> IF s \in Small(k) THEN g[s] ELSE Step(g, s)]
  <2>2. \A s \in Small(k + 1) : s # {} =>
           LET x == CHOOSE x \in s : TRUE
           IN  x \in s /\ x \in S /\ s \ {x} \in Small(k)
    <3>1. ASSUME NEW s \in Small(k + 1), s # {}, NEW x, x \in s PROVE x \in S /\ s \ {x} \in Small(k)
      BY <1>1, <3>1
    <3> QED BY <3>1
  <2>3. Small(k) \subseteq Small(k + 1) /\ {} \in Small(k)
    BY <1>1
  <2>4. \A s \in Small(k + 1) : s \notin Small(k) => s # {}
    BY <2>3
  <2>5. \A s \in Small(k + 1) : s # {} => Step(g, s) \in Int
    BY <2>1, <2>2
  <2>6. h \in [Small(k + 1) -> Int]
    BY <2>1, <2>3, <2>4, <2>5
  <2>7. h[{}] = 0
    BY <2>1, <2>3
  <2>8. \A s \in Small(k + 1) : s # {} => h[s] = Step(h, s)
    <3>1. ASSUME NEW s \in Small(k + 1), s # {} PROVE h[s] = Step(h, s)
      <4>1. h[s] = Step(g, s)
        BY <2>1, <3>1
      <4>2. h[s \ {CHOOSE x \in s : TRUE}] = g[s \ {CHOOSE x \in s : TRUE}]
        BY <2>2, <2>3, <3>1
      <4> QED BY <4>1, <4>2
    <3> QED BY <3>1
  <2> HIDE DEF h
  <2>9. Folds(h, k + 1)
    BY <2>6, <2>7, <2>8
  <2>10. k + 1 \in Nat
    OBVIOUS
  <2> HIDE DEF Folds
  <2> QED BY <2>9, <2>10
<1>4. PICK g : Folds(g, Cardinality(S))
  <2>1. \A n \in Nat : n \in P
    <3> HIDE DEF P
    <3> QED BY <1>2, <1>3, NatInductionOfSet
  <2>2. Cardinality(S) \in P
    <3> HIDE DEF P
    <3> QED BY <2>1, FS_CardinalityType
  <2> QED BY <2>2
<1>5. Small(Cardinality(S)) = SUBSET S
  BY <1>1
<1> QED BY <1>4, <1>5 DEF Iterates

LEMMA SumIsIterated ==
  ASSUME NEW S, IsFiniteSet(S), NEW f, \A x \in S : f[x] \in Int
  PROVE  \E g \in [SUBSET S -> Int] : Iterates(g, f, S) /\ SumFunctionOnSet(f, S) = g[S]
<1> DEFINE Body(g, s) == IF s = {} THEN 0
                         ELSE LET x == CHOOSE x \in s : TRUE IN f[x] + g[s \ {x}]
           iter == CHOOSE g : g = [s \in SUBSET S |-> Body(g, s)]
<1>1. SumFunctionOnSet(f, S) = iter[S]
  BY DEF SumFunctionOnSet, FoldFunctionOnSet, MapThenFoldSet
<1>2. PICK g \in [SUBSET S -> Int] : Iterates(g, f, S)
  BY IteratorExists
<1>3. g = [s \in SUBSET S |-> Body(g, s)]
  BY <1>2 DEF Iterates
<1>4. iter = [s \in SUBSET S |-> Body(iter, s)]
  <2> HIDE DEF Body
  <2> QED BY <1>3
<1>5. Iterates(iter, f, S)
  BY <1>4 DEF Iterates
<1> HIDE DEF iter, Body
<1>6. \A s \in SUBSET S : iter[s] \in Int
  <2> DEFINE P == {s \in SUBSET S : iter[s] \in Int}
  <2>1. {} \in P
    BY <1>5 DEF Iterates
  <2>2. ASSUME NEW s \in SUBSET S, s # {}, \A x \in s : s \ {x} \in P PROVE s \in P
    <3>1. PICK x \in s : x = CHOOSE y \in s : TRUE
      BY <2>2
    <3>2. iter[s] = f[x] + iter[s \ {x}]
      BY <1>5, <2>2, <3>1 DEF Iterates
    <3>3. iter[s \ {x}] \in Int /\ f[x] \in Int
      BY <2>2
    <3> QED BY <3>2, <3>3
  <2>3. \A s \in SUBSET S : s \in P
    <3> HIDE DEF P
    <3> QED BY <2>1, <2>2, SubsetInduction
  <2> QED BY <2>3
<1>7. iter \in [SUBSET S -> Int]
  BY <1>4, <1>6
<1> QED BY <1>1, <1>5, <1>7

\* Of one function there is one iterator.
LEMMA IteratorsAgree ==
  ASSUME NEW S, IsFiniteSet(S), NEW T \in SUBSET S, NEW f, NEW g, NEW h,
         Iterates(g, f, S), Iterates(h, f, T)
  PROVE  g[T] = h[T]
<1> DEFINE P == {s \in SUBSET T : g[s] = h[s]}
<1>1. {} \in P
  BY DEF Iterates
<1>2. ASSUME NEW s \in SUBSET T, s # {}, \A x \in s : s \ {x} \in P PROVE s \in P
  <2>1. PICK x \in s : x = CHOOSE y \in s : TRUE
    BY <1>2
  <2>2. g[s] = f[x] + g[s \ {x}] /\ h[s] = f[x] + h[s \ {x}]
    BY <1>2, <2>1 DEF Iterates
  <2> QED BY <1>2, <2>2
<1>3. IsFiniteSet(T)
  BY FS_Subset
<1> HIDE DEF P
<1>4. T \in P
  BY <1>1, <1>2, <1>3, SubsetInduction
<1> QED BY <1>4 DEF P

LEMMA SumEmpty == ASSUME NEW f PROVE SumFunctionOnSet(f, {}) = 0
<1>1. IsFiniteSet({}) /\ \A x \in {} : f[x] \in Int
  BY FS_EmptySet
<1>2. PICK g : Iterates(g, f, {}) /\ SumFunctionOnSet(f, {}) = g[{}]
  BY <1>1, SumIsIterated
<1> QED BY <1>2 DEF Iterates

\* A sum is any element's share and the sum of the rest.
LEMMA SumRemove ==
  ASSUME NEW S, IsFiniteSet(S), NEW f, \A x \in S : f[x] \in Int
  PROVE  /\ SumFunctionOnSet(f, S) \in Int
         /\ \A x \in S : SumFunctionOnSet(f, S) = f[x] + SumFunctionOnSet(f, S \ {x})
<1>1. PICK g \in [SUBSET S -> Int] : Iterates(g, f, S) /\ SumFunctionOnSet(f, S) = g[S]
  BY SumIsIterated
<1>2. ASSUME NEW x \in S PROVE SumFunctionOnSet(f, S \ {x}) = g[S \ {x}]
  <2>1. IsFiniteSet(S \ {x}) /\ \A y \in S \ {x} : f[y] \in Int
    BY FS_RemoveElement
  <2>2. PICK h : Iterates(h, f, S \ {x}) /\ SumFunctionOnSet(f, S \ {x}) = h[S \ {x}]
    BY <2>1, SumIsIterated
  <2> QED BY <1>1, <2>2, IteratorsAgree
<1> DEFINE P == {s \in SUBSET S : \A x \in s : g[s] = f[x] + g[s \ {x}]}
<1>3. {} \in P
  OBVIOUS
<1>4. ASSUME NEW s \in SUBSET S, s # {}, \A x \in s : s \ {x} \in P PROVE s \in P
  <2>1. PICK c \in s : c = CHOOSE y \in s : TRUE
    BY <1>4
  <2>2. g[s] = f[c] + g[s \ {c}]
    BY <1>1, <1>4, <2>1 DEF Iterates
  <2>3. ASSUME NEW x \in s, x # c PROVE g[s] = f[x] + g[s \ {x}]
    <3>1. g[s \ {c}] = f[x] + g[(s \ {c}) \ {x}] /\ g[s \ {x}] = f[c] + g[(s \ {x}) \ {c}]
      BY <1>4, <2>3
    <3>2. (s \ {c}) \ {x} = (s \ {x}) \ {c}
      OBVIOUS
    <3>3. PICK i \in Int, j \in Int, k \in Int :
            i = f[c] /\ j = f[x] /\ k = g[(s \ {x}) \ {c}]
      OBVIOUS
    <3>4. g[s] = i + (j + k) /\ g[s \ {x}] = i + k
      BY <2>2, <3>1, <3>2, <3>3
    <3> QED BY <3>3, <3>4
  <2> QED BY <2>2, <2>3
<1>5. S \in P
  <2> HIDE DEF P
  <2> QED BY <1>3, <1>4, SubsetInduction
<1> QED BY <1>1, <1>2, <1>5

\* A sum of one.
LEMMA SumOne ==
  ASSUME NEW f, NEW x, f[x] \in Int PROVE SumFunctionOnSet(f, {x}) = f[x]
<1>1. IsFiniteSet({x}) /\ \A y \in {x} : f[y] \in Int
  BY FS_Singleton
<1>2. {x} \ {x} = {} /\ x \in {x}
  OBVIOUS
<1>3. SumFunctionOnSet(f, {x}) = f[x] + SumFunctionOnSet(f, {})
  BY <1>1, <1>2, SumRemove
<1> QED BY <1>3, SumEmpty

\* Functions that agree have one sum.
LEMMA SumAgree ==
  ASSUME NEW S, IsFiniteSet(S), NEW f, NEW h, \A x \in S : f[x] \in Int /\ f[x] = h[x]
  PROVE  SumFunctionOnSet(f, S) = SumFunctionOnSet(h, S)
<1> DEFINE P == {s \in SUBSET S : SumFunctionOnSet(f, s) = SumFunctionOnSet(h, s)}
<1>1. {} \in P
  BY SumEmpty
<1>2. ASSUME NEW s \in SUBSET S, s # {}, \A x \in s : s \ {x} \in P PROVE s \in P
  <2>1. PICK x \in s : TRUE
    BY <1>2
  <2>2. IsFiniteSet(s) /\ (\A y \in s : f[y] \in Int) /\ (\A y \in s : h[y] \in Int)
    BY FS_Subset
  <2>3. /\ SumFunctionOnSet(f, s) = f[x] + SumFunctionOnSet(f, s \ {x})
        /\ SumFunctionOnSet(h, s) = h[x] + SumFunctionOnSet(h, s \ {x})
    BY <2>2, SumRemove
  <2>4. f[x] = h[x] /\ SumFunctionOnSet(f, s \ {x}) = SumFunctionOnSet(h, s \ {x})
    BY <1>2
  <2> QED BY <2>3, <2>4
<1> HIDE DEF P
<1>3. \A s \in SUBSET S : s \in P
  BY <1>1, <1>2, SubsetInduction
<1> QED BY <1>3 DEF P

\* A sum over two sets that are apart.
LEMMA SumUnion ==
  ASSUME NEW S, IsFiniteSet(S), NEW T, IsFiniteSet(T), S \intersect T = {},
         NEW f, \A x \in S \union T : f[x] \in Int
  PROVE  SumFunctionOnSet(f, S \union T) = SumFunctionOnSet(f, S) + SumFunctionOnSet(f, T)
<1> DEFINE P == {s \in SUBSET S : SumFunctionOnSet(f, s \union T)
                                    = SumFunctionOnSet(f, s) + SumFunctionOnSet(f, T)}
<1>1. SumFunctionOnSet(f, T) \in Int
  BY SumRemove
<1>2. {} \in P
  BY <1>1, SumEmpty
<1>3. ASSUME NEW s \in SUBSET S, s # {}, \A x \in s : s \ {x} \in P PROVE s \in P
  <2>1. PICK x \in s : TRUE
    BY <1>3
  <2>2. IsFiniteSet(s) /\ IsFiniteSet(s \union T) /\ IsFiniteSet(s \ {x})
    BY FS_Subset, FS_Union
  <2>3. (s \union T) \ {x} = (s \ {x}) \union T
    OBVIOUS
  <2>4. SumFunctionOnSet(f, s \union T) = f[x] + SumFunctionOnSet(f, (s \ {x}) \union T)
    BY <2>2, <2>3, SumRemove
  <2>5. SumFunctionOnSet(f, s) = f[x] + SumFunctionOnSet(f, s \ {x})
    BY <2>2, SumRemove
  <2>6. f[x] \in Int /\ SumFunctionOnSet(f, s \ {x}) \in Int
    BY <2>2, SumRemove
  <2>7. SumFunctionOnSet(f, (s \ {x}) \union T)
          = SumFunctionOnSet(f, s \ {x}) + SumFunctionOnSet(f, T)
    BY <1>3
  <2> QED BY <1>1, <2>4, <2>5, <2>6, <2>7
<1> HIDE DEF P
<1>4. S \in P
  BY <1>2, <1>3, SubsetInduction
<1> QED BY <1>4 DEF P

\* A sum may be taken over what an injection makes of its set.
LEMMA SumImage ==
  ASSUME NEW S, IsFiniteSet(S), NEW b, \A x, y \in S : b[x] = b[y] => x = y,
         NEW f, NEW h, \A x \in S : h[b[x]] \in Int /\ f[x] = h[b[x]]
  PROVE  SumFunctionOnSet(f, S) = SumFunctionOnSet(h, {b[x] : x \in S})
<1> DEFINE Image(s) == {b[x] : x \in s}
           P == {s \in SUBSET S : SumFunctionOnSet(f, s) = SumFunctionOnSet(h, Image(s))}
<1>1. {} \in P
  <2>1. Image({}) = {}
    OBVIOUS
  <2> QED BY <2>1, SumEmpty
<1>2. ASSUME NEW s \in SUBSET S, s # {}, \A x \in s : s \ {x} \in P PROVE s \in P
  <2>1. PICK x \in s : TRUE
    BY <1>2
  <2>2. IsFiniteSet(s) /\ IsFiniteSet(Image(s))
    <3>1. IsFiniteSet(s)
      BY FS_Subset
    <3>2. [y \in s |-> b[y]] \in Surjection(s, Image(s))
      BY DEF Surjection
    <3> QED BY <3>1, <3>2, FS_Surjection
  <2>3. Image(s) \ {b[x]} = Image(s \ {x})
    OBVIOUS
  <2>4. SumFunctionOnSet(h, Image(s)) = h[b[x]] + SumFunctionOnSet(h, Image(s \ {x}))
    <3>1. \A y \in Image(s) : h[y] \in Int
      OBVIOUS
    <3>2. b[x] \in Image(s)
      OBVIOUS
    <3> HIDE DEF Image
    <3>3. SumFunctionOnSet(h, Image(s)) = h[b[x]] + SumFunctionOnSet(h, Image(s) \ {b[x]})
      BY <2>2, <3>1, <3>2, SumRemove
    <3> QED BY <2>3, <3>3
  <2>5. SumFunctionOnSet(f, s) = f[x] + SumFunctionOnSet(f, s \ {x})
    <3>1. \A y \in s : f[y] \in Int
      OBVIOUS
    <3> QED BY <2>2, <3>1, SumRemove
  <2> QED BY <1>2, <2>4, <2>5
<1> HIDE DEF P
<1>3. \A s \in SUBSET S : s \in P
  BY <1>1, <1>2, SubsetInduction
<1> QED BY <1>3 DEF P

-----------------------------------------------------------------------------
(* Orders.                                                                  *)

\* A set of naturals has a least element.
LEMMA LeastOfNaturals ==
  ASSUME NEW T \in SUBSET Nat, T # {}
  PROVE  \E x \in T : \A y \in T : x <= y
<1>1. PICK x \in T : \A y \in T : ~ (<<y, x>> \in OpToRel(<, Nat))
  BY NatLessThanWellFounded, WFMin
<1>2. \A y \in T : ~ (y < x)
  BY <1>1 DEF OpToRel
<1> QED BY <1>2

\* R orders S from first to last.
Orders(R, S) ==
  /\ \A x \in S : <<x, x>> \notin R
  /\ \A x, y \in S : x # y => <<x, y>> \in R \/ <<y, x>> \in R
  /\ \A x, y, z \in S : <<x, y>> \in R /\ <<y, z>> \in R => <<x, z>> \in R

\* InOrder lists a finite set: each element once, and in its order.
LEMMA InOrderLists ==
  ASSUME NEW S, IsFiniteSet(S), NEW R, Orders(R, S)
  PROVE  /\ Cardinality(S) \in Nat
         /\ InOrder(S, R) \in [1..Cardinality(S) -> S]
         /\ \A x \in S : \E n \in 1..Cardinality(S) : InOrder(S, R)[n] = x
         /\ \A m, n \in 1..Cardinality(S) : m < n => <<InOrder(S, R)[m], InOrder(S, R)[n]>> \in R
<1> DEFINE Down(x) == {y \in S : y = x \/ <<y, x>> \in R}
           N == Cardinality(S)
           rank == [x \in S |-> Cardinality(Down(x))]
<1>1. \A x \in S : Down(x) \in SUBSET S /\ x \in Down(x)
  OBVIOUS
<1>2. /\ N \in Nat
      /\ \A x \in S : IsFiniteSet(Down(x)) /\ Cardinality(Down(x)) \in 1..N
  <2>1. N \in Nat
    BY FS_CardinalityType
  <2>2. ASSUME NEW x \in S PROVE IsFiniteSet(Down(x)) /\ Cardinality(Down(x)) \in 1..N
    <3> HIDE DEF Down
    <3>1. IsFiniteSet(Down(x)) /\ Cardinality(Down(x)) <= N
      BY <1>1, FS_Subset
    <3>2. Cardinality(Down(x)) \in Nat
      BY <3>1, FS_CardinalityType
    <3>3. Cardinality(Down(x)) # 0
      BY <1>1, <3>1, FS_EmptySet
    <3> QED BY <2>1, <3>1, <3>2, <3>3
  <2> QED BY <2>1, <2>2
<1>3. ASSUME NEW x \in S, NEW y \in S, <<x, y>> \in R
      PROVE  Cardinality(Down(x)) < Cardinality(Down(y))
  <2>1. Down(x) \in SUBSET Down(y)
    BY <1>3 DEF Orders
  <2>2. y \in Down(y) /\ y \notin Down(x)
    BY <1>3 DEF Orders
  <2> HIDE DEF Down
  <2>3. Cardinality(Down(x)) <= Cardinality(Down(y)) /\ Cardinality(Down(x)) # Cardinality(Down(y))
    BY <1>2, <2>1, <2>2, FS_Subset
  <2> QED BY <1>2, <2>3
<1>4. rank \in Injection(S, 1..N)
  <2>1. rank \in [S -> 1..N]
    BY <1>2
  <2>2. \A x, y \in S : x # y => rank[x] # rank[y]
    <3> SUFFICES ASSUME NEW x \in S, NEW y \in S, x # y PROVE rank[x] # rank[y]
      OBVIOUS
    <3>1. rank[x] \in 1..N /\ rank[y] \in 1..N /\ rank[x] = Cardinality(Down(x)) /\ rank[y] = Cardinality(Down(y))
      BY <2>1
    <3>2. <<x, y>> \in R \/ <<y, x>> \in R
      BY DEF Orders
    <3> HIDE DEF rank, Down
    <3> QED BY <1>2, <1>3, <3>1, <3>2
  <2> HIDE DEF rank
  <2> QED BY <2>1, <2>2 DEF Injection, IsInjective
<1>5. \A n \in 1..N : \E x \in S : rank[x] = n
  <2> HIDE DEF rank
  <2>1. IsFiniteSet(1..N) /\ Cardinality(1..N) = N
    BY <1>2, FS_Interval
  <2>2. rank \in Surjection(S, 1..N)
    BY <1>4, <2>1, FS_Injection
  <2> QED BY <2>2 DEF Surjection
<1>6. \A n \in 1..N : InOrder(S, R)[n] \in S /\ Cardinality(Down(InOrder(S, R)[n])) = n
  <2> SUFFICES ASSUME NEW n \in 1..N
               PROVE  InOrder(S, R)[n] \in S /\ Cardinality(Down(InOrder(S, R)[n])) = n
    OBVIOUS
  <2>1. PICK x \in S : Cardinality(Down(x)) = n
    BY <1>5
  <2>2. InOrder(S, R)[n] = CHOOSE y \in S : Cardinality(Down(y)) = n
    BY DEF InOrder
  <2> HIDE DEF Down
  <2> QED BY <2>1, <2>2
<1>7. InOrder(S, R) \in [1..N -> S]
  <2> DEFINE ranked(n) == CHOOSE x \in S : Cardinality(Down(x)) = n
  <2>1. InOrder(S, R) = [n \in 1..N |-> ranked(n)]
    BY DEF InOrder
  <2> HIDE DEF ranked, N
  <2> QED BY <1>6, <2>1
<1> HIDE DEF Down
<1>8. ASSUME NEW x \in S PROVE \E n \in 1..N : InOrder(S, R)[n] = x
  <2> DEFINE n == Cardinality(Down(x))
             z == InOrder(S, R)[n]
  <2>1. n \in 1..N /\ z \in S /\ Cardinality(Down(z)) = n
    BY <1>2, <1>6
  <2> HIDE DEF n, z
  <2>2. n = Cardinality(Down(x)) /\ z = InOrder(S, R)[n]
    BY DEF n, z
  <2>3. <<x, z>> \notin R /\ <<z, x>> \notin R
    BY <1>3, <2>1, <2>2
  <2>4. x = z
    BY <2>1, <2>3 DEF Orders
  <2> QED BY <2>1, <2>2, <2>4
<1>9. ASSUME NEW m \in 1..N, NEW n \in 1..N, m < n
      PROVE  <<InOrder(S, R)[m], InOrder(S, R)[n]>> \in R
  <2> DEFINE x == InOrder(S, R)[m]
             y == InOrder(S, R)[n]
  <2>1. x \in S /\ y \in S /\ Cardinality(Down(x)) = m /\ Cardinality(Down(y)) = n
    BY <1>6
  <2>2. x # y
    BY <1>9, <2>1
  <2>3. <<y, x>> \notin R
    BY <1>3, <1>9, <2>1
  <2> QED BY <2>1, <2>2, <2>3 DEF Orders
<1> QED BY <1>2, <1>7, <1>8, <1>9

\* What is kept of a sequence, if it is the end of it, is that end.
LEMMA SelectedTail ==
  ASSUME NEW T, NEW s \in Seq(T), NEW p \in 0..Len(s)
  PROVE  Selected(s, p + 1..Len(s)) = SubSeq(s, p + 1, Len(s))
<1> DEFINE S == p + 1..Len(s)
           R == Ascending(S)
<1>1. Len(s) \in Nat /\ Cardinality(S) = Len(s) - p
  BY LenProperties, FS_Interval
<1>2. ASSUME NEW n \in 1..Len(s) - p PROVE InOrder(S, R)[n] = p + n
  <2>1. ASSUME NEW x \in S PROVE Cardinality({y \in S : y = x \/ <<y, x>> \in R}) = x - p
    <3>1. {y \in S : y = x \/ <<y, x>> \in R} = p + 1..x
      BY <1>1 DEF Ascending, Pairs
    <3>2. Cardinality(p + 1..x) = x - p
      BY <1>1, FS_Interval
    <3> QED BY <3>1, <3>2
  <2>2. InOrder(S, R)[n] = CHOOSE x \in S : Cardinality({y \in S : y = x \/ <<y, x>> \in R}) = n
    BY <1>1 DEF InOrder
  <2>3. p + n \in S /\ p + n - p = n
    BY <1>1
  <2>4. \A x \in S : x - p = n => x = p + n
    BY <1>1
  <2> HIDE DEF S, R
  <2> QED BY <2>1, <2>2, <2>3, <2>4
<1>3. DOMAIN InOrder(S, R) = 1..Len(s) - p
  BY <1>1 DEF InOrder
<1>4. Selected(s, S) = [n \in 1..Len(s) - p |-> s[p + n]]
  BY <1>2, <1>3 DEF Selected
<1>5. SubSeq(s, p + 1, Len(s)) = [n \in 1..Len(s) - p |-> s[p + n]]
  BY <1>1
<1> QED BY <1>4, <1>5

LEMMA AscendingOrders == ASSUME NEW S \in SUBSET Int PROVE Orders(Ascending(S), S)
<1>1. \A x, y \in S : <<x, y>> \in Ascending(S) <=> x < y
  BY DEF Ascending, Pairs
<1>2. \A x \in S : x \in Int
  OBVIOUS
<1> QED BY <1>1, <1>2 DEF Orders

\* A sequence that is arranged has what it had, each place once, in the order.
LEMMA ArrangedLists ==
  ASSUME NEW s, NEW len \in Nat, DOMAIN s = 1..len, NEW R, Orders(R, 1..len)
  PROVE  \E order \in [1..len -> 1..len] :
           /\ Arranged(s, R) = [n \in 1..len |-> s[order[n]]]
           /\ \A i \in 1..len : \E n \in 1..len : order[n] = i
           /\ \A m, n \in 1..len : m < n => <<order[m], order[n]>> \in R
<1> DEFINE D == 1..len
           order == InOrder(D, R)
<1>1. IsFiniteSet(D) /\ Cardinality(D) = len
  BY FS_Interval
<1>2. Arranged(s, R) = [n \in DOMAIN order |-> s[order[n]]]
  BY DEF Arranged
<1>3. Orders(R, D)
  OBVIOUS
<1> HIDE DEF D
<1>4. /\ order \in [1..Cardinality(D) -> D]
      /\ \A x \in D : \E n \in 1..Cardinality(D) : order[n] = x
      /\ \A m, n \in 1..Cardinality(D) : m < n => <<order[m], order[n]>> \in R
  BY <1>1, <1>3, InOrderLists
<1> HIDE DEF order
<1>5. Arranged(s, R) = [n \in 1..len |-> s[order[n]]]
  BY <1>1, <1>2, <1>4
<1> QED BY <1>1, <1>4, <1>5 DEF D

\* The k positions of P, each once and in their order.
ListsOnce(order, k, P) ==
  /\ \A i \in P : \E n \in 1..k : order[n] = i
  /\ \A m, n \in 1..k : m < n => order[m] < order[n]

\* What is kept of a sequence is what was at the positions, in their order.
LEMMA SelectedLists ==
  ASSUME NEW s, NEW len \in Nat, DOMAIN s = 1..len, NEW P \in SUBSET (1..len)
  PROVE  \E k \in Nat : \E order \in [1..k -> P] :
           ListsOnce(order, k, P) /\ Selected(s, P) = [n \in 1..k |-> s[order[n]]]
<1> DEFINE order == InOrder(P, Ascending(P))
           k == Cardinality(P)
<1>1. IsFiniteSet(P) /\ Orders(Ascending(P), P)
  <2>1. IsFiniteSet(1..len)
    BY FS_Interval
  <2>2. P \in SUBSET Int
    OBVIOUS
  <2> QED BY <2>1, <2>2, FS_Subset, AscendingOrders
<1>2. /\ k \in Nat /\ order \in [1..k -> P]
      /\ \A i \in P : \E n \in 1..k : order[n] = i
      /\ \A m, n \in 1..k : m < n => <<order[m], order[n]>> \in Ascending(P)
  BY <1>1, InOrderLists
<1>3. Selected(s, P) = [n \in DOMAIN order |-> s[order[n]]]
  BY DEF Selected
<1> HIDE DEF order, k
<1>4. Selected(s, P) = [n \in 1..k |-> s[order[n]]]
  BY <1>2, <1>3
<1>5. \A m, n \in 1..k : m < n => order[m] < order[n]
  BY <1>2 DEF Ascending, Pairs
<1> QED BY <1>2, <1>4, <1>5 DEF ListsOnce

-----------------------------------------------------------------------------
(* Sequences of sequences.                                                  *)

\* FlattenSeq is the last of what it appends, one after the other.
LEMMA FlattenSteps ==
  ASSUME NEW T, NEW s \in Seq(Seq(T)), Len(s) # 0
  PROVE  \E f : /\ DOMAIN f = 1..Len(s)
                /\ f[1] = s[1] /\ \A i \in 1..Len(s) - 1 : f[i + 1] = f[i] \o s[i + 1]
                /\ \A i \in 1..Len(s) : f[i] \in Seq(T)
                /\ FlattenSeq(s) = f[Len(s)]
<1> DEFINE From(f, n) == f = [i \in 1..n |-> IF i = 1 THEN s[i] ELSE f[i - 1] \o s[i]]
           P == {n \in Nat : n <= Len(s) => \E f : From(f, n) /\ \A i \in 1..n : f[i] \in Seq(T)}
<1>1. Len(s) \in Nat /\ \A i \in 1..Len(s) : s[i] \in Seq(T)
  OBVIOUS
<1>2. 0 \in P
  <2> DEFINE f == [i \in 1..0 |-> IF i = 1 THEN s[i] ELSE <<>>]
  <2>1. 1..0 = {}
    OBVIOUS
  <2>2. From(f, 0)
    BY <2>1
  <2> HIDE DEF f, From
  <2> QED BY <2>1, <2>2
<1>3. ASSUME NEW n \in Nat, n \in P PROVE n + 1 \in P
  <2>1. SUFFICES ASSUME n + 1 <= Len(s)
                 PROVE  \E f : From(f, n + 1) /\ \A i \in 1..n + 1 : f[i] \in Seq(T)
    <3> HIDE DEF From
    <3> QED OBVIOUS
  <2>2. n <= Len(s)
    BY <1>1, <2>1
  <2>3. PICK f : From(f, n) /\ \A i \in 1..n : f[i] \in Seq(T)
    BY <1>3, <2>2
  <2> DEFINE g == [i \in 1..n + 1 |-> IF i <= n THEN f[i] ELSE IF i = 1 THEN s[i] ELSE f[i - 1] \o s[i]]
  <2>4. \A i \in 1..n + 1 : g[i] \in Seq(T)
    <3>1. s[n + 1] \in Seq(T)
      BY <1>1, <2>1
    <3>2. \A i \in 1..n + 1 : i <= n \/ i = n + 1
      OBVIOUS
    <3>3. n + 1 # 1 => f[n + 1 - 1] \in Seq(T)
      BY <2>3
    <3>4. n + 1 # 1 => f[n + 1 - 1] \o s[n + 1] \in Seq(T)
      BY <3>1, <3>3
    <3> QED BY <2>3, <3>1, <3>2, <3>4
  <2>5. \A i \in 1..n + 1 : g[i] = IF i = 1 THEN s[i] ELSE g[i - 1] \o s[i]
    <3> SUFFICES ASSUME NEW i \in 1..n + 1 PROVE g[i] = IF i = 1 THEN s[i] ELSE g[i - 1] \o s[i]
      OBVIOUS
    <3>1. CASE i = 1
      BY <2>3, <3>1
    <3>2. CASE i # 1
      <4>1. i - 1 \in 1..n /\ g[i - 1] = f[i - 1]
        BY <3>2
      <4>2. i \in 1..n => f[i] = f[i - 1] \o s[i]
        <5>1. \A j \in 1..n : f[j] = IF j = 1 THEN s[j] ELSE f[j - 1] \o s[j]
          BY <2>3
        <5> HIDE DEF From
        <5> QED BY <3>2, <5>1
      <4>3. CASE i \in 1..n
        <5>1. g[i] = f[i]
          BY <4>3
        <5> HIDE DEF g
        <5> QED BY <3>2, <4>1, <4>2, <4>3, <5>1
      <4>4. CASE i \notin 1..n
        <5>1. g[i] = f[i - 1] \o s[i]
          <6>1. ~(i <= n) /\ i # 1
            BY <3>2, <4>4
          <6> HIDE DEF From
          <6> QED BY <6>1
        <5> HIDE DEF g
        <5> QED BY <3>2, <4>1, <5>1
      <4> QED BY <4>3, <4>4
    <3> QED BY <3>1, <3>2
  <2>6. From(g, n + 1)
    <3>1. g = [i \in 1..n + 1 |-> g[i]]
      OBVIOUS
    <3> HIDE DEF g
    <3> QED BY <2>5, <3>1
  <2> HIDE DEF g, From
  <2> QED BY <2>4, <2>6
<1>4. Len(s) \in P
  <2> HIDE DEF P
  <2> QED BY <1>1, <1>2, <1>3, NatInductionOfSet
<1>5. PICK g : From(g, Len(s)) /\ \A i \in 1..Len(s) : g[i] \in Seq(T)
  <2> HIDE DEF From
  <2> QED BY <1>1, <1>4
<1> DEFINE f == CHOOSE f : From(f, Len(s))
<1>6. From(f, Len(s))
  <2> HIDE DEF From
  <2> QED BY <1>5
<1>7. FlattenSeq(s) = f[Len(s)]
  BY DEF FlattenSeq
<1> HIDE DEF f
<1>8. DOMAIN f = 1..Len(s) /\ f[1] = s[1] /\ \A i \in 1..Len(s) - 1 : f[i + 1] = f[i] \o s[i + 1]
  <2>1. DOMAIN f = 1..Len(s)
    BY <1>6
  <2>2. \A j \in 1..Len(s) : f[j] = IF j = 1 THEN s[j] ELSE f[j - 1] \o s[j]
    BY <1>6
  <2> HIDE DEF From, f
  <2>3. f[1] = s[1]
    BY <1>1, <2>2
  <2>4. ASSUME NEW i \in 1..Len(s) - 1 PROVE f[i + 1] = f[i] \o s[i + 1]
    <3>1. PICK j \in 1..Len(s) : j = i + 1 /\ j # 1 /\ j - 1 = i
      BY <1>1
    <3>2. f[j] = f[j - 1] \o s[j]
      BY <2>2, <3>1
    <3> QED BY <3>1, <3>2
  <2> QED BY <2>1, <2>3, <2>4
<1>9. \A i \in 1..Len(s) : f[i] \in Seq(T)
  <2> DEFINE Q == {n \in Nat : n \in 1..Len(s) => f[n] \in Seq(T)}
  <2>1. 0 \in Q
    OBVIOUS
  <2>2. ASSUME NEW n \in Nat, n \in Q PROVE n + 1 \in Q
    <3> SUFFICES ASSUME n + 1 \in 1..Len(s) PROVE f[n + 1] \in Seq(T)
      OBVIOUS
    <3>1. CASE n = 0
      BY <1>1, <1>8, <3>1
    <3>2. CASE n # 0
      <4>1. n \in 1..Len(s) - 1 /\ n \in 1..Len(s)
        BY <1>1, <3>2
      <4>2. f[n] \in Seq(T) /\ s[n + 1] \in Seq(T) /\ f[n + 1] = f[n] \o s[n + 1]
        BY <1>1, <1>8, <2>2, <4>1
      <4> QED BY <4>2
    <3> QED BY <3>1, <3>2
  <2> HIDE DEF Q
  <2>3. \A n \in Nat : n \in Q
    BY <2>1, <2>2, NatInductionOfSet
  <2> QED BY <1>1, <2>3 DEF Q
<1> QED BY <1>7, <1>8, <1>9

LEMMA FlattenEmpty == FlattenSeq(<<>>) = <<>>
BY DEF FlattenSeq

\* What is appended to a sequence of sequences comes last in what they make.
LEMMA FlattenAppend ==
  ASSUME NEW T, NEW s \in Seq(Seq(T)), NEW x \in Seq(T)
  PROVE  /\ FlattenSeq(s) \in Seq(T)
         /\ FlattenSeq(Append(s, x)) = FlattenSeq(s) \o x
<1> DEFINE t == Append(s, x)
           n == Len(s)
<1>1. /\ t \in Seq(Seq(T)) /\ n \in Nat /\ Len(t) = n + 1 /\ t[n + 1] = x
      /\ \A i \in 1..n : t[i] = s[i]
  OBVIOUS
<1> HIDE DEF t
<1>2. PICK g : /\ g[1] = t[1] /\ \A i \in 1..n : g[i + 1] = g[i] \o t[i + 1]
               /\ FlattenSeq(t) = g[n + 1]
  <2>1. Len(t) # 0 /\ Len(t) - 1 = n
    BY <1>1
  <2>2. PICK g : /\ g[1] = t[1] /\ \A i \in 1..Len(t) - 1 : g[i + 1] = g[i] \o t[i + 1]
                 /\ FlattenSeq(t) = g[Len(t)]
    BY <1>1, <2>1, FlattenSteps
  <2> HIDE DEF n
  <2> QED BY <1>1, <2>1, <2>2
<1>3. CASE n = 0
  <2>1. s = <<>>
    BY <1>3
  <2>2. FlattenSeq(t) = x
    BY <1>1, <1>2, <1>3
  <2>3. FlattenSeq(s) = <<>>
    BY <2>1, FlattenEmpty
  <2> QED BY <2>2, <2>3 DEF t
<1>4. CASE n # 0
  <2>1. PICK f : /\ f[1] = s[1] /\ \A i \in 1..n - 1 : f[i + 1] = f[i] \o s[i + 1]
                 /\ \A i \in 1..n : f[i] \in Seq(T)
                 /\ FlattenSeq(s) = f[n]
    BY <1>4, FlattenSteps
  <2> DEFINE P == {m \in Nat : m + 1 \in 1..n => f[m + 1] = g[m + 1]}
  <2>2. 0 \in P
    BY <1>1, <1>2, <2>1
  <2>3. ASSUME NEW m \in Nat, m \in P PROVE m + 1 \in P
    <3> SUFFICES ASSUME m + 2 \in 1..n PROVE f[m + 2] = g[m + 2]
      OBVIOUS
    <3>1. m + 1 \in 1..n - 1 /\ m + 1 \in 1..n /\ m + 1 + 1 = m + 2
      BY <1>1
    <3>2. f[m + 2] = f[m + 1] \o s[m + 2]
      BY <2>1, <3>1
    <3>3. g[m + 2] = g[m + 1] \o t[m + 2]
      BY <1>2, <3>1
    <3>4. t[m + 2] = s[m + 2]
      BY <1>1
    <3> QED BY <2>3, <3>1, <3>2, <3>3, <3>4
  <2> HIDE DEF P
  <2>4. n - 1 \in P
    <3>1. n - 1 \in Nat
      BY <1>1, <1>4
    <3> QED BY <2>2, <2>3, <3>1, NatInductionOfSet
  <2>5. f[n] = g[n]
    BY <1>1, <1>4, <2>4 DEF P
  <2>6. g[n + 1] = g[n] \o t[n + 1]
    <3>1. n \in 1..n
      BY <1>1, <1>4
    <3> HIDE DEF n
    <3> QED BY <1>2, <3>1
  <2>7. FlattenSeq(s) \in Seq(T)
    BY <1>1, <1>4, <2>1
  <2> QED BY <1>1, <1>2, <2>1, <2>5, <2>6, <2>7 DEF t
<1> QED BY <1>3, <1>4

=============================================================================
