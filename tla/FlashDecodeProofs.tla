------------------------- MODULE FlashDecodeProofs -------------------------
(***************************************************************************)
(* Flash decoding for any lengths, masks, block size and number of splits: *)
(* its splits and blocks tile the keys of a query, so each key that the    *)
(* query attends to is added once, and no other; and what they add up to   *)
(* is the softmax that sdpa computes.  With it, for the softmax of some of *)
(* the scores is the same subject, the mask of a tree of drafts: a node    *)
(* attends to its own branch; top-k with the gates of the router: the      *)
(* largest are kept, and their proportions with them; and what a token is  *)
(* drawn by: the weights that the filters of the sampler leave, and what   *)
(* the verifier of drafts makes of two models' probabilities.  Then two    *)
(* recurrences that are sums as well: linear attention, which is attention *)
(* over the prefix, and the selective scan in chunks.                      *)
(*                                                                         *)
(* The first sections are about what these proofs and others of this kind  *)
(* need: induction, sums over finite sets, powers of two.                  *)
(***************************************************************************)
EXTENDS FlashDecode, TreeBias, TopK, Speculative, FiniteSetTheorems, WellFoundedInduction, TLAPS

---------------------------------------------------------------------------
(* Induction, over the natural numbers and over finite sets, in a form that  *)
(* first-order provers can use: the property proved is a set.                *)

\* Every nonempty set of naturals has a least element.
LEMMA LeastNat ==
  ASSUME NEW T \in SUBSET Nat, T # {}
  PROVE  \E x \in T : \A y \in T : x <= y
<1> DEFINE U == {0 .. m : m \in T}
<1>1. U \subseteq FiniteSubsetsOf(Nat)
  <2>1. \A m \in T : 0 .. m \in SUBSET Nat
    OBVIOUS
  <2>2. \A m \in T : IsFiniteSet(0 .. m)
    BY FS_Interval
  <2>3. QED BY <2>1, <2>2 DEF FiniteSubsetsOf
<1>2. PICK u \in U : \A v \in U : <<v, u>> \notin StrictSubsetOrdering(Nat)
  <2>1. U # {}
    OBVIOUS
  <2>2. IsWellFoundedOn(StrictSubsetOrdering(Nat), FiniteSubsetsOf(Nat))
    BY FS_StrictSubsetOrderingWellFounded
  <2> HIDE DEF U
  <2>3. QED BY <1>1, <2>1, <2>2, WFMin
<1>3. PICK x \in T : u = 0 .. x
  OBVIOUS
<1>4. ASSUME NEW y \in T, y < x
      PROVE  FALSE
  <2>1. x \in 0 .. x /\ x \notin 0 .. y
    BY <1>4
  <2>2. (0 .. y) \subseteq (0 .. x) /\ 0 .. y # 0 .. x
    BY <1>4, <2>1
  <2>3. <<0 .. y, 0 .. x>> \in StrictSubsetOrdering(Nat)
    BY <2>2 DEF StrictSubsetOrdering
  <2>4. QED BY <2>3, <1>2, <1>3
<1>5. QED BY <1>4

\* A set with 0 and with the successor of each of its numbers has them all.
LEMMA SetInduction ==
  ASSUME NEW S, 0 \in S, \A n \in Nat : n \in S => n + 1 \in S
  PROVE  \A n \in Nat : n \in S
<1> DEFINE T == Nat \ S
<1>1. SUFFICES ASSUME T # {} PROVE FALSE
  OBVIOUS
<1>2. PICK x \in T : \A y \in T : x <= y
  BY <1>1, LeastNat
<1>3. x - 1 \in Nat
  BY <1>2
<1>4. x - 1 \in S
  BY <1>2, <1>3
<1>5. QED BY <1>2, <1>3, <1>4

\* What holds of the empty set and of a subset with one element more holds of
\* every subset of a finite set.
LEMMA SubsetInduction ==
  ASSUME NEW S, IsFiniteSet(S), NEW U, {} \in U,
         \A T \in SUBSET S : \A x \in S \ T : T \in U => T \cup {x} \in U
  PROVE  \A T \in SUBSET S : T \in U
<1> DEFINE B == (SUBSET S) \ U
<1>1. SUFFICES ASSUME B # {} PROVE FALSE
  OBVIOUS
<1>2. B \subseteq FiniteSubsetsOf(S)
  BY FS_Subset DEF FiniteSubsetsOf
<1>3. PICK u \in B : \A v \in B : <<v, u>> \notin StrictSubsetOrdering(S)
  <2>1. IsWellFoundedOn(StrictSubsetOrdering(S), FiniteSubsetsOf(S))
    BY FS_StrictSubsetOrderingWellFounded
  <2> HIDE DEF B
  <2>2. QED BY <1>1, <1>2, <2>1, WFMin
<1>4. PICK x \in u : TRUE
  OBVIOUS
<1>5. u \ {x} \in SUBSET S /\ x \in S \ (u \ {x}) /\ u = (u \ {x}) \cup {x}
  BY <1>3, <1>4
<1>6. <<u \ {x}, u>> \in StrictSubsetOrdering(S)
  BY <1>3, <1>4 DEF StrictSubsetOrdering
<1>7. u \ {x} \in U
  BY <1>3, <1>5, <1>6
<1>8. QED
  BY <1>3, <1>5, <1>7

---------------------------------------------------------------------------
(* Sums of a function over a finite set *)

\* The sums of f over the subsets of S, as SumFunctionOnSet computes them.
IsSums(f, S, run) ==
  run = [s \in SUBSET S |->
           IF s = {} THEN 0
           ELSE LET x == CHOOSE x \in s : TRUE IN f[x] + run[s \ {x}]]

\* The recursion of SumFunctionOnSet is well defined on a finite set.
LEMMA SumsExist ==
  ASSUME NEW f, NEW S, IsFiniteSet(S)
  PROVE  \E run : IsSums(f, S, run)
<1> DEFINE Small(n) == {s \in SUBSET S : Cardinality(s) <= n}
           Pick(s) == CHOOSE x \in s : TRUE
           Run(g, n) == g = [s \in Small(n) |->
                               IF s = {} THEN 0 ELSE f[Pick(s)] + g[s \ {Pick(s)}]]
           N == {n \in Nat : \E g : Run(g, n)}
<1>0. \A s \in SUBSET S : /\ Cardinality(s) \in Nat
                          /\ s # {} => /\ Pick(s) \in s
                                       /\ Cardinality(s \ {Pick(s)}) = Cardinality(s) - 1
                          /\ Cardinality(s) = 0 <=> s = {}
  <2> SUFFICES ASSUME NEW s \in SUBSET S
               PROVE  /\ Cardinality(s) \in Nat
                      /\ s # {} => /\ Pick(s) \in s
                                   /\ Cardinality(s \ {Pick(s)}) = Cardinality(s) - 1
                      /\ Cardinality(s) = 0 <=> s = {}
    OBVIOUS
  <2>1. IsFiniteSet(s)
    BY FS_Subset
  <2>2. s # {} => Pick(s) \in s
    OBVIOUS
  <2>3. Cardinality(s) \in Nat /\ (Cardinality(s) = 0 <=> s = {})
    BY <2>1, FS_CardinalityType, FS_EmptySet
  <2>4. s # {} => Cardinality(s \ {Pick(s)}) = Cardinality(s) - 1
    <3> HIDE DEF Pick
    <3> QED BY <2>1, <2>2, FS_RemoveElement
  <2> QED
    BY <2>2, <2>3, <2>4
<1> HIDE DEF Pick
<1>1. 0 \in N
  <2>1. ASSUME NEW s \in Small(0) PROVE s = {}
    <3>1. s \in SUBSET S /\ Cardinality(s) <= 0
      OBVIOUS
    <3>2. Cardinality(s) \in Nat /\ (Cardinality(s) = 0 <=> s = {})
      BY <1>0, <3>1
    <3> HIDE DEF Small
    <3> QED
      BY <3>1, <3>2
  <2>2. Run([s \in Small(0) |-> 0], 0)
    BY <2>1
  <2> QED
    BY <2>2
<1>2. \A n \in Nat : n \in N => n + 1 \in N
  <2> SUFFICES ASSUME NEW n \in Nat, n \in N PROVE n + 1 \in N
    OBVIOUS
  <2>1. PICK g : Run(g, n)
    OBVIOUS
  <2> DEFINE h == [s \in Small(n + 1) |->
                     IF s = {} THEN 0 ELSE f[Pick(s)] + g[s \ {Pick(s)}]]
  <2>2. \A s \in Small(n) : s \in Small(n + 1) /\ h[s] = g[s]
    <3> SUFFICES ASSUME NEW s \in Small(n) PROVE s \in Small(n + 1) /\ h[s] = g[s]
      OBVIOUS
    <3>0. s \in SUBSET S /\ Cardinality(s) <= n /\ Cardinality(s) \in Nat
      BY <1>0
    <3>1. s \in Small(n + 1)
      BY <3>0
    <3>2. h[s] = IF s = {} THEN 0 ELSE f[Pick(s)] + g[s \ {Pick(s)}]
      BY <3>1
    <3>3. g[s] = IF s = {} THEN 0 ELSE f[Pick(s)] + g[s \ {Pick(s)}]
      BY <2>1
    <3> QED
      BY <3>1, <3>2, <3>3
  <2>3. \A s \in Small(n + 1) : s # {} => s \ {Pick(s)} \in Small(n)
    BY <1>0
  <2>4. \A s \in Small(n + 1) : h[s] = IF s = {} THEN 0 ELSE f[Pick(s)] + h[s \ {Pick(s)}]
    <3> HIDE DEF Small
    <3> QED
      BY <2>2, <2>3
  <2>5. Run(h, n + 1)
    <3>1. h = [s \in Small(n + 1) |-> h[s]]
      OBVIOUS
    <3> HIDE DEF h, Small
    <3> QED
      BY <2>4, <3>1
  <2> HIDE DEF h, Run
  <2> QED
    BY <2>5
<1>3. Cardinality(S) \in Nat /\ SUBSET S = Small(Cardinality(S))
  <2>1. \A s \in SUBSET S : Cardinality(s) <= Cardinality(S)
    BY FS_Subset
  <2> QED
    BY <1>0, <2>1
<1> HIDE DEF N
<1>4. Cardinality(S) \in N
  BY <1>1, <1>2, <1>3, SetInduction
<1>5. PICK g : Run(g, Cardinality(S))
  BY <1>4 DEF N
<1>6. IsSums(f, S, g)
  <2> HIDE DEF Small
  <2>1. g = [s \in SUBSET S |-> IF s = {} THEN 0 ELSE f[Pick(s)] + g[s \ {Pick(s)}]]
    BY <1>3, <1>5
  <2> QED
    BY <2>1 DEF IsSums, Pick
<1> QED
  BY <1>6

\* Sums over the subsets of a set are those over the subsets of a larger one.
LEMMA SumsAgree ==
  ASSUME NEW f, NEW S, IsFiniteSet(S), NEW T \in SUBSET S,
         NEW r, IsSums(f, S, r), NEW u, IsSums(f, T, u)
  PROVE  \A s \in SUBSET T : r[s] = u[s]
<1> DEFINE B == {s \in SUBSET T : r[s] # u[s]}
<1>1. SUFFICES ASSUME B # {} PROVE FALSE
  OBVIOUS
<1>2. IsFiniteSet(T)
  BY FS_Subset
<1>3. PICK s \in B : \A v \in B : <<v, s>> \notin StrictSubsetOrdering(T)
  <2>1. B \subseteq FiniteSubsetsOf(T)
    BY <1>2, FS_Subset DEF FiniteSubsetsOf
  <2>2. IsWellFoundedOn(StrictSubsetOrdering(T), FiniteSubsetsOf(T))
    BY FS_StrictSubsetOrderingWellFounded
  <2> HIDE DEF B
  <2> QED
    BY <1>1, <2>1, <2>2, WFMin
<1> DEFINE x == CHOOSE e \in s : TRUE
<1>4. s \in SUBSET T /\ s \in SUBSET S
  BY <1>3
<1>5. /\ r[s] = IF s = {} THEN 0 ELSE f[x] + r[s \ {x}]
      /\ u[s] = IF s = {} THEN 0 ELSE f[x] + u[s \ {x}]
  BY <1>4 DEF IsSums
<1>6. s # {}
  BY <1>3, <1>5
<1>7. x \in s
  BY <1>6
<1> HIDE DEF x
<1>8. <<s \ {x}, s>> \in StrictSubsetOrdering(T) /\ s \ {x} \in SUBSET T
  BY <1>4, <1>7 DEF StrictSubsetOrdering
<1>9. r[s \ {x}] = u[s \ {x}]
  BY <1>3, <1>8
<1> QED
  BY <1>3, <1>5, <1>9

\* The sum over no element, and over a set from which one is taken.
LEMMA SumUnfolds ==
  ASSUME NEW f, NEW S, IsFiniteSet(S)
  PROVE  /\ SumFunctionOnSet(f, {}) = 0
         /\ S # {} => \E x \in S :
              SumFunctionOnSet(f, S) = f[x] + SumFunctionOnSet(f, S \ {x})
<1> DEFINE Iter(R) == CHOOSE run : IsSums(f, R, run)
<1>1. \A R : SumFunctionOnSet(f, R) = Iter(R)[R]
  BY DEF SumFunctionOnSet, FoldFunctionOnSet, MapThenFoldSet, IsSums
<1>2. \A R : IsFiniteSet(R) => IsSums(f, R, Iter(R))
  <2> SUFFICES ASSUME NEW R, IsFiniteSet(R) PROVE IsSums(f, R, Iter(R))
    OBVIOUS
  <2>1. \E run : IsSums(f, R, run)
    BY SumsExist
  <2> QED
    BY <2>1
<1> HIDE DEF Iter
<1>3. SumFunctionOnSet(f, {}) = 0
  <2>1. IsSums(f, {}, Iter({}))
    BY <1>2, FS_EmptySet
  <2>2. Iter({})[{}] = 0
    BY <2>1 DEF IsSums
  <2> QED
    BY <1>1, <2>2
<1>4. ASSUME S # {}
      PROVE  \E x \in S : SumFunctionOnSet(f, S) = f[x] + SumFunctionOnSet(f, S \ {x})
  <2> DEFINE x == CHOOSE e \in S : TRUE
  <2>1. x \in S
    BY <1>4
  <2>2. Iter(S)[S] = f[x] + Iter(S)[S \ {x}]
    <3>1. S \in SUBSET S
      OBVIOUS
    <3> QED
      BY <1>2, <1>4, <3>1 DEF IsSums
  <2> HIDE DEF x
  <2>3. IsFiniteSet(S \ {x}) /\ S \ {x} \in SUBSET S
    BY FS_Subset
  <2>4. Iter(S)[S \ {x}] = Iter(S \ {x})[S \ {x}]
    <3>1. IsSums(f, S, Iter(S)) /\ IsSums(f, S \ {x}, Iter(S \ {x}))
      BY <1>2, <2>3
    <3>2. S \ {x} \in SUBSET (S \ {x})
      OBVIOUS
    <3> QED
      BY <2>3, <3>1, <3>2, SumsAgree
  <2> QED
    BY <1>1, <2>1, <2>2, <2>4
<1> QED
  BY <1>3, <1>4

\* Sums of natural numbers are natural numbers.
LEMMA SumNat ==
  ASSUME NEW S, IsFiniteSet(S), NEW f, \A x \in S : f[x] \in Nat
  PROVE  \A T \in SUBSET S : SumFunctionOnSet(f, T) \in Nat
<1> DEFINE B == {T \in SUBSET S : SumFunctionOnSet(f, T) \notin Nat}
<1>1. SUFFICES ASSUME B # {} PROVE FALSE
  OBVIOUS
<1>2. PICK T \in B : \A v \in B : <<v, T>> \notin StrictSubsetOrdering(S)
  <2>1. B \subseteq FiniteSubsetsOf(S)
    BY FS_Subset DEF FiniteSubsetsOf
  <2>2. IsWellFoundedOn(StrictSubsetOrdering(S), FiniteSubsetsOf(S))
    BY FS_StrictSubsetOrderingWellFounded
  <2> HIDE DEF B
  <2> QED
    BY <1>1, <2>1, <2>2, WFMin
<1>3. IsFiniteSet(T) /\ T \in SUBSET S /\ T # {}
  <2>1. SumFunctionOnSet(f, {}) = 0
    BY SumUnfolds
  <2>2. T \in SUBSET S /\ SumFunctionOnSet(f, T) \notin Nat
    BY <1>2
  <2>3. T # {}
    BY <2>1, <2>2
  <2>4. IsFiniteSet(T)
    BY <2>2, FS_Subset
  <2> QED
    BY <2>2, <2>3, <2>4
<1>4. PICK x \in T : SumFunctionOnSet(f, T) = f[x] + SumFunctionOnSet(f, T \ {x})
  BY <1>3, SumUnfolds
<1>5. <<T \ {x}, T>> \in StrictSubsetOrdering(S)
  BY <1>3, <1>4 DEF StrictSubsetOrdering
<1>6. SumFunctionOnSet(f, T \ {x}) \in Nat
  BY <1>2, <1>3, <1>5
<1> QED
  BY <1>2, <1>3, <1>4, <1>6

\* Sums of integers are integers.
LEMMA SumInt ==
  ASSUME NEW S, IsFiniteSet(S), NEW f, \A x \in S : f[x] \in Int
  PROVE  \A T \in SUBSET S : SumFunctionOnSet(f, T) \in Int
<1> DEFINE B == {T \in SUBSET S : SumFunctionOnSet(f, T) \notin Int}
<1>1. SUFFICES ASSUME B # {} PROVE FALSE
  OBVIOUS
<1>2. PICK T \in B : \A v \in B : <<v, T>> \notin StrictSubsetOrdering(S)
  <2>1. B \subseteq FiniteSubsetsOf(S)
    BY FS_Subset DEF FiniteSubsetsOf
  <2>2. IsWellFoundedOn(StrictSubsetOrdering(S), FiniteSubsetsOf(S))
    BY FS_StrictSubsetOrderingWellFounded
  <2> HIDE DEF B
  <2> QED
    BY <1>1, <2>1, <2>2, WFMin
<1>3. IsFiniteSet(T) /\ T \in SUBSET S /\ T # {}
  <2>1. SumFunctionOnSet(f, {}) = 0
    BY SumUnfolds
  <2>2. T \in SUBSET S /\ SumFunctionOnSet(f, T) \notin Int
    BY <1>2
  <2>3. T # {}
    BY <2>1, <2>2
  <2>4. IsFiniteSet(T)
    BY <2>2, FS_Subset
  <2> QED
    BY <2>2, <2>3, <2>4
<1>4. PICK x \in T : SumFunctionOnSet(f, T) = f[x] + SumFunctionOnSet(f, T \ {x})
  BY <1>3, SumUnfolds
<1>5. <<T \ {x}, T>> \in StrictSubsetOrdering(S)
  BY <1>3, <1>4 DEF StrictSubsetOrdering
<1>6. SumFunctionOnSet(f, T \ {x}) \in Int
  BY <1>2, <1>3, <1>5
<1> QED
  BY <1>2, <1>3, <1>4, <1>6

\* It does not matter which element is taken.
LEMMA SumStep ==
  ASSUME NEW S, IsFiniteSet(S), NEW f, \A x \in S : f[x] \in Int
  PROVE  \A T \in SUBSET S : \A x \in T :
           SumFunctionOnSet(f, T) = f[x] + SumFunctionOnSet(f, T \ {x})
<1> DEFINE Good(T) == \A x \in T : SumFunctionOnSet(f, T) = f[x] + SumFunctionOnSet(f, T \ {x})
           B == {T \in SUBSET S : ~ Good(T)}
<1>1. SUFFICES ASSUME B # {} PROVE FALSE
  OBVIOUS
<1>2. PICK T \in B : \A v \in B : <<v, T>> \notin StrictSubsetOrdering(S)
  <2>1. B \subseteq FiniteSubsetsOf(S)
    BY FS_Subset DEF FiniteSubsetsOf
  <2>2. IsWellFoundedOn(StrictSubsetOrdering(S), FiniteSubsetsOf(S))
    BY FS_StrictSubsetOrderingWellFounded
  <2> HIDE DEF B
  <2> QED
    BY <1>1, <2>1, <2>2, WFMin
<1>3. IsFiniteSet(T) /\ T \in SUBSET S
  BY <1>2, FS_Subset
<1>4. PICK x \in T : SumFunctionOnSet(f, T) # f[x] + SumFunctionOnSet(f, T \ {x})
  BY <1>2
<1>5. PICK c \in T : SumFunctionOnSet(f, T) = f[c] + SumFunctionOnSet(f, T \ {c})
  BY <1>3, <1>4, SumUnfolds
<1>6. c # x /\ x \in T \ {c} /\ c \in T \ {x}
  BY <1>4, <1>5
<1>7. /\ <<T \ {c}, T>> \in StrictSubsetOrdering(S) /\ T \ {c} \in SUBSET S
      /\ <<T \ {x}, T>> \in StrictSubsetOrdering(S) /\ T \ {x} \in SUBSET S
  BY <1>3, <1>4, <1>5 DEF StrictSubsetOrdering
<1>8. Good(T \ {c}) /\ Good(T \ {x})
  <2> HIDE DEF Good
  <2> QED
    BY <1>2, <1>7
<1>9. /\ SumFunctionOnSet(f, T \ {c}) = f[x] + SumFunctionOnSet(f, (T \ {c}) \ {x})
      /\ SumFunctionOnSet(f, T \ {x}) = f[c] + SumFunctionOnSet(f, (T \ {x}) \ {c})
  BY <1>6, <1>8
<1>10. (T \ {c}) \ {x} = (T \ {x}) \ {c} /\ (T \ {x}) \ {c} \in SUBSET S
  BY <1>3
<1> DEFINE w == SumFunctionOnSet(f, (T \ {x}) \ {c})
           fx == f[x]
           fc == f[c]
<1>11. fx \in Int /\ fc \in Int /\ w \in Int
  <2>1. fx \in Int /\ fc \in Int
    BY <1>3, <1>4, <1>5
  <2>2. w \in Int
    BY <1>10, SumInt
  <2> QED
    BY <2>1, <2>2
<1>12. /\ SumFunctionOnSet(f, T \ {c}) = fx + w
       /\ SumFunctionOnSet(f, T \ {x}) = fc + w
  BY <1>9, <1>10
<1>13. SumFunctionOnSet(f, T) = fc + (fx + w) /\ SumFunctionOnSet(f, T) # fx + (fc + w)
  BY <1>4, <1>5, <1>12
<1> HIDE DEF w, fx, fc
<1> QED
  BY <1>11, <1>13

\* One more element.
LEMMA SumOneMore ==
  ASSUME NEW S, IsFiniteSet(S), NEW f, \A x \in S : f[x] \in Int,
         NEW T \in SUBSET S, NEW x \in S \ T
  PROVE  SumFunctionOnSet(f, T \cup {x}) = f[x] + SumFunctionOnSet(f, T)
<1>1. T \cup {x} \in SUBSET S /\ x \in T \cup {x} /\ (T \cup {x}) \ {x} = T
  OBVIOUS
<1> QED
  BY <1>1, SumStep

\* Functions with multiples of the same factor have sums that are multiples.
LEMMA SumScaled ==
  ASSUME NEW S, IsFiniteSet(S), NEW f, \A x \in S : f[x] \in Int,
         NEW d \in Int, NEW h, \A x \in S : h[x] = f[x] * d
  PROVE  SumFunctionOnSet(h, S) = SumFunctionOnSet(f, S) * d
<1> DEFINE U == {T \in SUBSET S : SumFunctionOnSet(h, T) = SumFunctionOnSet(f, T) * d}
<1>1. {} \in U
  <2>1. SumFunctionOnSet(h, {}) = 0 /\ SumFunctionOnSet(f, {}) = 0
    BY SumUnfolds
  <2> QED
    BY <2>1
<1>2. ASSUME NEW T \in SUBSET S, NEW x \in S \ T, T \in U
      PROVE  T \cup {x} \in U
  <2>1. \A y \in S : h[y] \in Int
    OBVIOUS
  <2>2. SumFunctionOnSet(h, T \cup {x}) = h[x] + SumFunctionOnSet(h, T)
    BY <2>1, SumOneMore
  <2>3. SumFunctionOnSet(f, T \cup {x}) = f[x] + SumFunctionOnSet(f, T)
    BY SumOneMore
  <2>4. SumFunctionOnSet(h, T) = SumFunctionOnSet(f, T) * d
    BY <1>2
  <2>5. SumFunctionOnSet(f, T) \in Int
    BY SumInt
  <2> DEFINE a == f[x]
             b == SumFunctionOnSet(f, T)
  <2>6. SumFunctionOnSet(h, T \cup {x}) = a * d + b * d /\ SumFunctionOnSet(f, T \cup {x}) = a + b
    BY <2>2, <2>3, <2>4
  <2>7. a * d + b * d = (a + b) * d
    <3>1. a \in Int /\ b \in Int
      BY <2>5
    <3> HIDE DEF a, b
    <3> QED
      BY <3>1
  <2>8. SumFunctionOnSet(h, T \cup {x}) = SumFunctionOnSet(f, T \cup {x}) * d
    BY <2>6, <2>7
  <2> QED
    BY <2>8
<1> HIDE DEF U
<1>3. S \in U
  BY <1>1, <1>2, SubsetInduction
<1> QED
  BY <1>3 DEF U

\* The sum of a function that is the sum of two.
LEMMA SumOfSum ==
  ASSUME NEW S, IsFiniteSet(S), NEW f, \A x \in S : f[x] \in Int,
         NEW g, \A x \in S : g[x] \in Int,
         NEW h, \A x \in S : h[x] = f[x] + g[x]
  PROVE  SumFunctionOnSet(h, S) = SumFunctionOnSet(f, S) + SumFunctionOnSet(g, S)
<1> DEFINE U == {T \in SUBSET S : SumFunctionOnSet(h, T)
                                    = SumFunctionOnSet(f, T) + SumFunctionOnSet(g, T)}
<1>1. {} \in U
  <2>1. SumFunctionOnSet(h, {}) = 0 /\ SumFunctionOnSet(f, {}) = 0 /\ SumFunctionOnSet(g, {}) = 0
    BY SumUnfolds
  <2> QED
    BY <2>1
<1>2. ASSUME NEW T \in SUBSET S, NEW x \in S \ T, T \in U
      PROVE  T \cup {x} \in U
  <2>1. \A y \in S : h[y] \in Int
    OBVIOUS
  <2>2. SumFunctionOnSet(h, T \cup {x}) = h[x] + SumFunctionOnSet(h, T)
    BY <2>1, SumOneMore
  <2>3. SumFunctionOnSet(f, T \cup {x}) = f[x] + SumFunctionOnSet(f, T)
    BY SumOneMore
  <2>4. SumFunctionOnSet(g, T \cup {x}) = g[x] + SumFunctionOnSet(g, T)
    BY SumOneMore
  <2>5. SumFunctionOnSet(h, T) = SumFunctionOnSet(f, T) + SumFunctionOnSet(g, T)
    BY <1>2
  <2>6. SumFunctionOnSet(f, T) \in Int /\ SumFunctionOnSet(g, T) \in Int
    BY SumInt
  <2> DEFINE a == f[x]
             b == g[x]
             sa == SumFunctionOnSet(f, T)
             sb == SumFunctionOnSet(g, T)
  <2>7. (a + b) + (sa + sb) = (a + sa) + (b + sb)
    <3>1. a \in Int /\ b \in Int /\ sa \in Int /\ sb \in Int
      BY <2>6
    <3> HIDE DEF a, b, sa, sb
    <3> QED
      BY <3>1
  <2>8. SumFunctionOnSet(h, T \cup {x}) = (a + b) + (sa + sb)
    BY <2>2, <2>5
  <2>9. SumFunctionOnSet(h, T \cup {x})
          = SumFunctionOnSet(f, T \cup {x}) + SumFunctionOnSet(g, T \cup {x})
    BY <2>3, <2>4, <2>7, <2>8
  <2> QED
    BY <2>9
<1> HIDE DEF U
<1>3. S \in U
  BY <1>1, <1>2, SubsetInduction
<1> QED
  BY <1>3 DEF U

\* Elements of which the function is zero may be left out, and the values
\* elsewhere are all that counts.
LEMMA SumWithoutZeros ==
  ASSUME NEW S, IsFiniteSet(S), NEW f, \A x \in S : f[x] \in Int,
         NEW R \in SUBSET S, NEW h,
         \A x \in S : f[x] = IF x \in R THEN h[x] ELSE 0
  PROVE  SumFunctionOnSet(h, R) = SumFunctionOnSet(f, S)
<1> DEFINE U == {T \in SUBSET S : SumFunctionOnSet(h, T \cap R) = SumFunctionOnSet(f, T)}
<1>1. {} \in U
  <2>1. SumFunctionOnSet(h, {}) = 0 /\ SumFunctionOnSet(f, {}) = 0 /\ {} \cap R = {}
    BY SumUnfolds
  <2> QED
    BY <2>1
<1>2. ASSUME NEW T \in SUBSET S, NEW x \in S \ T, T \in U
      PROVE  T \cup {x} \in U
  <2>1. \A y \in R : h[y] \in Int
    OBVIOUS
  <2>2. IsFiniteSet(R)
    BY FS_Subset
  <2>3. SumFunctionOnSet(f, T \cup {x}) = f[x] + SumFunctionOnSet(f, T)
    BY SumOneMore
  <2>4. SumFunctionOnSet(h, T \cap R) = SumFunctionOnSet(f, T)
    BY <1>2
  <2>5. CASE x \in R
    <3>1. T \cap R \in SUBSET R /\ x \in R \ (T \cap R) /\ (T \cup {x}) \cap R = (T \cap R) \cup {x}
      BY <2>5
    <3>2. SumFunctionOnSet(h, (T \cap R) \cup {x}) = h[x] + SumFunctionOnSet(h, T \cap R)
      BY <2>1, <2>2, <3>1, SumOneMore
    <3>3. h[x] = f[x]
      BY <2>5
    <3>4. SumFunctionOnSet(h, (T \cup {x}) \cap R) = SumFunctionOnSet(f, T \cup {x})
      BY <2>3, <2>4, <3>1, <3>2, <3>3
    <3> QED
      BY <3>4
  <2>6. CASE x \notin R
    <3>1. f[x] = 0 /\ (T \cup {x}) \cap R = T \cap R
      BY <2>6
    <3>2. SumFunctionOnSet(f, T) \in Int
      BY SumInt
    <3> DEFINE s == SumFunctionOnSet(f, T)
    <3>3. 0 + s = s
      <4> HIDE DEF s
      <4> QED
        BY <3>2 DEF s
    <3>4. SumFunctionOnSet(f, T \cup {x}) = s
      BY <2>3, <3>1, <3>3
    <3>5. SumFunctionOnSet(h, (T \cup {x}) \cap R) = SumFunctionOnSet(f, T \cup {x})
      BY <2>4, <3>1, <3>4
    <3> QED
      BY <3>5
  <2> QED
    BY <2>5, <2>6
<1> HIDE DEF U
<1>3. S \in U
  BY <1>1, <1>2, SubsetInduction
<1>4. S \cap R = R
  OBVIOUS
<1> QED
  BY <1>3, <1>4 DEF U

\* A sum is at least each of its terms, so it is zero only when all are.
LEMMA SumIsZero ==
  ASSUME NEW S, IsFiniteSet(S), NEW f, \A x \in S : f[x] \in Nat
  PROVE  SumFunctionOnSet(f, S) = 0 <=> \A x \in S : f[x] = 0
<1>1. ASSUME NEW x \in S PROVE f[x] <= SumFunctionOnSet(f, S)
  <2>1. SumFunctionOnSet(f, S) = f[x] + SumFunctionOnSet(f, S \ {x})
    BY SumStep
  <2>2. S \ {x} \in SUBSET S
    OBVIOUS
  <2>3. SumFunctionOnSet(f, S \ {x}) \in Nat
    BY <2>2, SumNat
  <2> QED
    BY <2>1, <2>3
<1>2. ASSUME S # {}, \A x \in S : f[x] = 0 PROVE SumFunctionOnSet(f, S) = 0
  <2>1. \A x \in S : f[x] = IF x \in {} THEN f[x] ELSE 0
    BY <1>2
  <2>2. SumFunctionOnSet(f, {}) = SumFunctionOnSet(f, S)
    BY <2>1, SumWithoutZeros
  <2> QED
    BY <2>2, SumUnfolds
<1>3. SumFunctionOnSet(f, {}) = 0
  BY SumUnfolds
<1>4. \A x \in S : SumFunctionOnSet(f, S) = 0 => f[x] = 0
  BY <1>1
<1> QED
  BY <1>2, <1>3, <1>4

---------------------------------------------------------------------------
(* Powers of two *)

\* The first n powers.
IsPowers(n, g) == g = [i \in 0 .. n |-> IF i = 0 THEN 1 ELSE 2 * g[i - 1]]

\* There is one way to compute the first powers.
LEMMA PowersAgree ==
  ASSUME NEW n \in Nat, NEW m \in Nat, NEW g, IsPowers(n, g), NEW h, IsPowers(m, h)
  PROVE  \A i \in Nat : i <= n /\ i <= m => g[i] = h[i]
<1> DEFINE S == {i \in Nat : i <= n /\ i <= m => g[i] = h[i]}
<1>1. 0 \in S
  BY DEF IsPowers
<1>2. \A i \in Nat : i \in S => i + 1 \in S
  <2> SUFFICES ASSUME NEW i \in Nat, i \in S PROVE i + 1 \in S
    OBVIOUS
  <2>1. CASE i + 1 <= n /\ i + 1 <= m
    <3>1. g[i + 1] = 2 * g[(i + 1) - 1] /\ h[i + 1] = 2 * h[(i + 1) - 1]
      BY <2>1 DEF IsPowers
    <3>2. g[i] = h[i] /\ (i + 1) - 1 = i
      BY <2>1
    <3> QED
      BY <3>1, <3>2
  <2>2. CASE ~ (i + 1 <= n /\ i + 1 <= m)
    BY <2>2
  <2> QED
    BY <2>1, <2>2
<1> HIDE DEF S
<1>3. \A i \in Nat : i \in S
  BY <1>1, <1>2, SetInduction
<1> QED
  BY <1>3 DEF S

\* The recursion of Pow2, unfolded.
LEMMA Pow2Unfolds == Pow2[0] = 1 /\ \A n \in Nat : Pow2[n + 1] = 2 * Pow2[n]
<1> DEFINE N == {n \in Nat : \E g : IsPowers(n, g)}
<1>1. 0 \in N
  <2>1. IsPowers(0, [i \in 0 .. 0 |-> 1])
    BY DEF IsPowers
  <2> QED
    BY <2>1
<1>2. \A n \in Nat : n \in N => n + 1 \in N
  <2> SUFFICES ASSUME NEW n \in Nat, n \in N PROVE n + 1 \in N
    OBVIOUS
  <2>1. PICK g : IsPowers(n, g)
    OBVIOUS
  <2> DEFINE h == [i \in 0 .. n + 1 |-> IF i <= n THEN g[i] ELSE 2 * g[n]]
  <2>2. ASSUME NEW i \in 0 .. n + 1
        PROVE  h[i] = IF i = 0 THEN 1 ELSE 2 * h[i - 1]
    <3>1. CASE i = 0
      BY <2>1, <3>1 DEF IsPowers
    <3>2. CASE i \in 1 .. n
      <4>1. h[i] = g[i] /\ h[i - 1] = g[i - 1]
        BY <3>2
      <4>2. g[i] = 2 * g[i - 1]
        BY <2>1, <3>2 DEF IsPowers
      <4> QED
        BY <3>2, <4>1, <4>2
    <3>3. CASE i = n + 1
      <4>1. h[i] = 2 * g[n] /\ i - 1 = n
        BY <3>3
      <4>2. h[n] = g[n]
        OBVIOUS
      <4> QED
        BY <3>3, <4>1, <4>2
    <3> QED
      BY <3>1, <3>2, <3>3
  <2>3. IsPowers(n + 1, h)
    <3>1. h = [i \in 0 .. n + 1 |-> h[i]]
      OBVIOUS
    <3> HIDE DEF h
    <3> QED
      BY <2>2, <3>1 DEF IsPowers
  <2> HIDE DEF h
  <2> QED
    BY <2>3
<1> HIDE DEF N
<1>3. \A n \in Nat : n \in N
  BY <1>1, <1>2, SetInduction
<1> DEFINE G(n) == CHOOSE g : IsPowers(n, g)
           P == [n \in Nat |-> G(n)[n]]
<1>4. \A n \in Nat : IsPowers(n, G(n))
  BY <1>3 DEF N
<1> HIDE DEF G
<1>5. ASSUME NEW n \in Nat PROVE P[n] = IF n = 0 THEN 1 ELSE 2 * P[n - 1]
  <2>1. P[n] = G(n)[n] /\ IsPowers(n, G(n))
    BY <1>4
  <2>2. CASE n = 0
    BY <2>1, <2>2 DEF IsPowers
  <2>3. CASE n # 0
    <3>1. n - 1 \in Nat /\ IsPowers(n - 1, G(n - 1)) /\ P[n - 1] = G(n - 1)[n - 1]
      BY <1>4, <2>3
    <3>2. G(n)[n - 1] = G(n - 1)[n - 1]
      BY <2>1, <3>1, PowersAgree
    <3>3. G(n)[n] = 2 * G(n)[n - 1]
      BY <2>1, <2>3 DEF IsPowers
    <3> QED
      BY <2>1, <2>3, <3>1, <3>2, <3>3
  <2> QED
    BY <2>2, <2>3
<1>6. P = [n \in Nat |-> IF n = 0 THEN 1 ELSE 2 * P[n - 1]]
  <2>1. P = [n \in Nat |-> P[n]]
    OBVIOUS
  <2> HIDE DEF P
  <2> QED
    BY <1>5, <2>1
<1>7. Pow2 = [n \in Nat |-> IF n = 0 THEN 1 ELSE 2 * Pow2[n - 1]]
  <2> HIDE DEF P
  <2>1. \E p : p = [n \in Nat |-> IF n = 0 THEN 1 ELSE 2 * p[n - 1]]
    BY <1>6
  <2> QED
    BY <2>1 DEF Pow2
<1> QED
  BY <1>7

\* Powers of two are positive, and exponents add up.
LEMMA Pow2Positive == \A n \in Nat : Pow2[n] \in Nat \ {0}
<1> DEFINE S == {n \in Nat : Pow2[n] \in Nat \ {0}}
<1>1. 0 \in S
  BY Pow2Unfolds
<1>2. \A n \in Nat : n \in S => n + 1 \in S
  BY Pow2Unfolds
<1> HIDE DEF S
<1>3. \A n \in Nat : n \in S
  BY <1>1, <1>2, SetInduction
<1> QED
  BY <1>3 DEF S

LEMMA Pow2Adds == \A a, b \in Nat : Pow2[a + b] = Pow2[a] * Pow2[b]
<1> SUFFICES ASSUME NEW a \in Nat PROVE \A b \in Nat : Pow2[a + b] = Pow2[a] * Pow2[b]
  OBVIOUS
<1> DEFINE S == {b \in Nat : Pow2[a + b] = Pow2[a] * Pow2[b]}
<1>1. 0 \in S
  <2>1. Pow2[0] = 1 /\ a + 0 = a /\ Pow2[a] \in Nat
    BY Pow2Unfolds, Pow2Positive
  <2> QED
    BY <2>1
<1>2. \A b \in Nat : b \in S => b + 1 \in S
  <2> SUFFICES ASSUME NEW b \in Nat, b \in S PROVE b + 1 \in S
    OBVIOUS
  <2> DEFINE x == Pow2[a]
             y == Pow2[b]
  <2>1. x \in Nat /\ y \in Nat
    BY Pow2Positive
  <2>2. Pow2[b + 1] = 2 * y
    BY Pow2Unfolds
  <2>3. Pow2[a + (b + 1)] = 2 * (x * y)
    <3>1. a + (b + 1) = (a + b) + 1 /\ a + b \in Nat
      OBVIOUS
    <3>2. Pow2[(a + b) + 1] = 2 * Pow2[a + b]
      BY <3>1, Pow2Unfolds
    <3>3. Pow2[a + b] = x * y
      OBVIOUS
    <3> QED
      BY <3>1, <3>2, <3>3
  <2>4. 2 * (x * y) = x * (2 * y)
    <3> HIDE DEF x, y
    <3> QED
      BY <2>1
  <2>5. Pow2[a + (b + 1)] = Pow2[a] * Pow2[b + 1]
    BY <2>2, <2>3, <2>4
  <2> QED
    BY <2>5
<1> HIDE DEF S
<1>3. \A b \in Nat : b \in S
  BY <1>1, <1>2, SetInduction
<1> QED
  BY <1>3 DEF S

---------------------------------------------------------------------------
(* The splits and the blocks tile the keys *)

NumSplits == Larger(1, q.splits)
BlockLen == Larger(1, q.block_k)
Wanted == {j \in AttendedKeys(q, q.i) : q.score[j] # NegInf}

\* The rows of V added so far are those wanted below bound.
AddedBelow(bound) ==
  added = [j \in Keys |-> IF j \in Wanted /\ j < bound THEN 1 ELSE 0]

FlashInv ==
  /\ q \in Calls
  /\ pc \in {"split", "block", "merge", "done"}
  /\ split \in Nat /\ j0 \in Int
  /\ pc # "done" => FirstSeen <= LastSeen
  /\ pc = "split" => AddedBelow(SplitFrom(split))
  /\ pc = "block" => /\ SplitFrom(split) <= j0 /\ j0 <= SplitTo(split)
                     /\ AddedBelow(j0)
  /\ pc = "merge" => AddedBelow(SplitTo(split) + 1)
  /\ pc = "done" => AddedBelow(LastSeen + 1)

LEMMA CallTypes ==
  ASSUME q \in Calls
  PROVE  /\ q.splits \in Int /\ q.block_k \in Int
         /\ FirstSeen \in Nat /\ LastSeen \in Int /\ LastSeen <= q.seq_k - 1 /\ q.seq_k \in Nat
         /\ NumSplits \in Nat \ {0} /\ BlockLen \in Nat \ {0}
<1>1. PICK n \in SeqLens, k \in SeqLens : q \in CallsOf(n, k)
  BY DEF Calls
<1>2. /\ q.splits \in SplitCounts /\ q.block_k \in BlockSizes /\ q.window \in Windows /\ q.chunk \in Chunks
      /\ q.seq_q = n /\ q.seq_k = k /\ q.i \in 0 .. n - 1
  BY <1>1 DEF CallsOf
<1>2a. /\ q.splits \in Int /\ q.block_k \in Int /\ q.window \in Nat /\ q.chunk \in Nat
       /\ q.seq_q \in Nat /\ q.seq_k \in Nat /\ q.i \in Int
  <2>1. n \in Nat /\ k \in Nat
    BY FlashAssumption
  <2>2. q.i \in Int /\ q.seq_q \in Nat /\ q.seq_k \in Nat
    BY <1>2, <2>1
  <2>3. q.window \in Nat /\ q.chunk \in Nat
    BY <1>2, FlashAssumption
  <2>4. q.splits \in Int /\ q.block_k \in Int
    BY <1>2, FlashAssumption
  <2> QED
    BY <2>2, <2>3, <2>4
<1>3. NumSplits \in Nat \ {0} /\ BlockLen \in Nat \ {0}
  BY <1>2a DEF NumSplits, BlockLen, Larger
<1>4. FirstSeen \in Nat
  BY <1>2a DEF FirstSeen, FirstKey, Position, Larger
<1>5. LastSeen \in Int /\ LastSeen <= q.seq_k - 1
  BY <1>2a DEF LastSeen, LastKey, Position, Smaller
<1> QED
  BY <1>2a, <1>3, <1>4, <1>5

LEMMA WantedBetween ==
  ASSUME q \in Calls
  PROVE  \A j \in Wanted : j \in Int /\ FirstSeen <= j /\ j <= LastSeen
BY CallTypes DEF Wanted, AttendedKeys, AllowedIn, FirstSeen, LastSeen

\* The division rounds up: NumSplits of them cover n keys.
LEMMA CeilCovers ==
  ASSUME NEW n \in Nat \ {0}, NEW s \in Nat \ {0}
  PROVE  LET p == (n - 1 + s) \div s IN p \in Nat \ {0} /\ n <= s * p
<1> DEFINE p == (n - 1 + s) \div s
<1>1. n - 1 + s \in Nat /\ s > 0
  OBVIOUS
<1>2. p \in Nat /\ n - 1 + s = s * p + ((n - 1 + s) % s) /\ (n - 1 + s) % s \in 0 .. s - 1
  BY <1>1, Z3
<1> HIDE DEF p
<1>3. s * p \in Nat
  BY <1>2
<1>4. n <= s * p
  BY <1>2, <1>3
<1>5. p # 0
  BY <1>4, <1>2
<1> QED
  BY <1>2, <1>4, <1>5 DEF p

LEMMA SplitTypes ==
  ASSUME q \in Calls, FirstSeen <= LastSeen
  PROVE  /\ PerSplit \in Nat \ {0}
         /\ LastSeen - FirstSeen + 1 <= NumSplits * PerSplit
         /\ \A s \in Nat : /\ SplitFrom(s) \in Int /\ FirstSeen <= SplitFrom(s)
                           /\ SplitTo(s) = Smaller(SplitFrom(s) + PerSplit - 1, LastSeen)
                           /\ SplitTo(s) \in Int /\ SplitTo(s) <= LastSeen
                           /\ SplitFrom(s + 1) = SplitFrom(s) + PerSplit
                           /\ NumSplits <= s => LastSeen < SplitFrom(s)
<1> DEFINE n == LastSeen - FirstSeen + 1
           p == PerSplit
           k == NumSplits
<1>1. FirstSeen \in Nat /\ LastSeen \in Int /\ n \in Nat \ {0} /\ k \in Nat \ {0}
  BY CallTypes
<1>2. p = (n - 1 + k) \div k
  BY <1>1 DEF PerSplit, NumSplits
<1>3. p \in Nat \ {0} /\ n <= k * p
  BY <1>1, <1>2, CeilCovers
<1>4. \A s \in Nat : SplitFrom(s) = FirstSeen + s * p /\ SplitTo(s) = Smaller(SplitFrom(s) + p - 1, LastSeen)
  BY DEF SplitFrom, SplitTo
<1> HIDE DEF p, k
<1>5. \A s \in Nat : s * p \in Nat /\ (s + 1) * p = s * p + p
  BY <1>3
<1>6. \A s \in Nat : k <= s => k * p <= s * p
  <2> SUFFICES ASSUME NEW s \in Nat, k <= s PROVE k * p <= s * p
    OBVIOUS
  <2>1. s - k \in Nat /\ (s - k) * p \in Nat
    BY <1>1, <1>3
  <2>2. (s - k) * p = s * p - k * p
    BY <1>1, <1>3
  <2> QED
    BY <2>1, <2>2, <1>5, <1>1, <1>3
<1>7. \A s \in Nat : SplitFrom(s) \in Int /\ FirstSeen <= SplitFrom(s) /\ SplitFrom(s + 1) = SplitFrom(s) + p
  BY <1>1, <1>3, <1>4, <1>5
<1>8. \A s \in Nat : /\ SplitTo(s) = Smaller(SplitFrom(s) + p - 1, LastSeen)
                      /\ SplitTo(s) \in Int /\ SplitTo(s) <= LastSeen
  <2> SUFFICES ASSUME NEW s \in Nat
               PROVE  /\ SplitTo(s) = Smaller(SplitFrom(s) + p - 1, LastSeen)
                      /\ SplitTo(s) \in Int /\ SplitTo(s) <= LastSeen
    OBVIOUS
  <2>1. SplitFrom(s) \in Int /\ SplitTo(s) = Smaller(SplitFrom(s) + p - 1, LastSeen)
    BY <1>4, <1>7
  <2> QED
    BY <2>1, <1>1, <1>3 DEF Smaller
<1>9. \A s \in Nat : k <= s => LastSeen < SplitFrom(s)
  <2> SUFFICES ASSUME NEW s \in Nat, k <= s PROVE LastSeen < SplitFrom(s)
    OBVIOUS
  <2>1. s * p \in Nat /\ k * p \in Nat /\ k * p <= s * p /\ SplitFrom(s) = FirstSeen + s * p
    BY <1>1, <1>4, <1>5, <1>6
  <2>2. LastSeen - FirstSeen + 1 <= s * p
    BY <1>1, <1>3, <2>1
  <2> QED
    BY <1>1, <2>1, <2>2
<1> QED
  BY <1>3, <1>7, <1>8, <1>9 DEF p, k

\* Bounds that no wanted key lies between are the same.
LEMMA BoundMoved ==
  ASSUME NEW a \in Int, NEW b \in Int, AddedBelow(a), \A j \in Wanted : j < a <=> j < b
  PROVE  AddedBelow(b)
BY DEF AddedBelow

LEMMA InitFlash == Init => FlashInv
<1> SUFFICES ASSUME Init PROVE FlashInv
  OBVIOUS
<1>1. /\ q \in Calls /\ split = 0 /\ j0 = FirstSeen /\ added = [j \in Keys |-> 0]
      /\ pc = IF LastSeen < FirstSeen THEN "done" ELSE "split"
  BY DEF Init
<1>2. FirstSeen \in Nat /\ LastSeen \in Int
  BY <1>1, CallTypes
<1>3. \A j \in Wanted : j \in Int /\ FirstSeen <= j /\ j <= LastSeen
  BY <1>1, WantedBetween
<1>4. CASE LastSeen < FirstSeen
  <2>1. Wanted = {}
    BY <1>2, <1>3, <1>4
  <2>2. AddedBelow(LastSeen + 1)
    BY <1>1, <2>1 DEF AddedBelow
  <2> QED
    BY <1>1, <1>2, <1>4, <2>2 DEF FlashInv
<1>5. CASE ~(LastSeen < FirstSeen)
  <2>1. PerSplit \in Nat
    BY <1>1, <1>2, <1>5, SplitTypes
  <2>2. SplitFrom(split) = FirstSeen
    BY <1>1, <1>2, <2>1 DEF SplitFrom
  <2>3. AddedBelow(SplitFrom(split))
    BY <1>1, <1>2, <1>3, <2>2 DEF AddedBelow
  <2> QED
    BY <1>1, <1>2, <1>5, <2>3 DEF FlashInv
<1> QED
  BY <1>4, <1>5

\* What the bounds of the splits and blocks depend on does not change.
LEMMA SameCall ==
  ASSUME q' = q
  PROVE  /\ Keys' = Keys /\ FirstSeen' = FirstSeen /\ LastSeen' = LastSeen /\ Wanted' = Wanted
         /\ Calls' = Calls
         /\ \A s : SplitFrom(s)' = SplitFrom(s) /\ SplitTo(s)' = SplitTo(s)
BY DEF Keys, FirstSeen, LastSeen, Wanted, SplitFrom, SplitTo, PerSplit, Calls

\* The wanted keys of a block are added to those below it.
LEMMA BlockAdds ==
  ASSUME q \in Calls, NEW a \in Int, NEW e \in Int,
         FirstSeen <= a, e <= LastSeen, AddedBelow(a), a <= e + 1,
         NEW js, js = AllowedIn(q, q.i, a .. e)
  PROVE  [j \in Keys |-> IF j \in js /\ q.score[j] # NegInf THEN added[j] + 1 ELSE added[j]]
           = [j \in Keys |-> IF j \in Wanted /\ j < e + 1 THEN 1 ELSE 0]
<1>1. FirstSeen \in Nat /\ LastSeen \in Int /\ q.seq_k \in Nat
  BY CallTypes
<1>2. \A j \in Keys : j \in Int
  BY <1>1 DEF Keys
<1>3. \A j \in Keys : (j \in js /\ q.score[j] # NegInf) <=> (j \in Wanted /\ a <= j /\ j <= e)
  BY <1>1, <1>2 DEF AllowedIn, AttendedKeys, Wanted, FirstSeen, LastSeen
<1>4. \A j \in Keys : added[j] = IF j \in Wanted /\ j < a THEN 1 ELSE 0
  BY DEF AddedBelow
<1>5. \A j \in Keys :
        (IF j \in js /\ q.score[j] # NegInf THEN added[j] + 1 ELSE added[j])
          = IF j \in Wanted /\ j < e + 1 THEN 1 ELSE 0
  BY <1>2, <1>3, <1>4
<1> QED
  BY <1>5

LEMMA NextFlash == FlashInv /\ [Next]_vars => FlashInv'
<1> SUFFICES ASSUME FlashInv, [Next]_vars PROVE FlashInv'
  OBVIOUS
<1> USE DEF FlashInv
<1>1. q \in Calls /\ split \in Nat /\ j0 \in Int
  OBVIOUS
<1>2. /\ FirstSeen \in Nat /\ LastSeen \in Int
      /\ NumSplits \in Nat \ {0} /\ BlockLen \in Nat \ {0}
  BY <1>1, CallTypes
<1>3. \A j \in Wanted : j \in Int /\ FirstSeen <= j /\ j <= LastSeen
  BY <1>1, WantedBetween
<1>4. CASE BeginSplit
  <2>1. /\ pc = "split" /\ pc' = "block" /\ q' = q /\ split' = split /\ added' = added
        /\ j0' = SplitFrom(split) /\ SplitFrom(split) <= LastSeen
    BY <1>4 DEF BeginSplit
  <2>2. /\ SplitFrom(split) \in Int /\ PerSplit \in Nat \ {0} /\ FirstSeen <= LastSeen
        /\ SplitTo(split) = Smaller(SplitFrom(split) + PerSplit - 1, LastSeen)
    BY <1>1, <2>1, SplitTypes
  <2>3. SplitFrom(split) <= SplitTo(split)
    BY <1>2, <2>1, <2>2 DEF Smaller
  <2>4. added = [j \in Keys |-> IF j \in Wanted /\ j < SplitFrom(split) THEN 1 ELSE 0]
    BY <2>1 DEF AddedBelow
  <2> QED
    BY <1>1, <2>1, <2>2, <2>3, <2>4, SameCall DEF AddedBelow
<1>5. CASE BlockStep
  <2> DEFINE e == Smaller(j0 + BlockLen - 1, SplitTo(split))
             js == AllowedIn(q, q.i, j0 .. e)
  <2>1. /\ pc = "block" /\ q' = q /\ split' = split /\ j0' = j0 + BlockLen
        /\ added' = [j \in Keys |-> IF j \in js /\ q.score[j] # NegInf
                                   THEN added[j] + 1 ELSE added[j]]
        /\ pc' = IF j0 + BlockLen > SplitTo(split) THEN "merge" ELSE "block"
    BY <1>5 DEF BlockStep, BlockLen
  <2>2. /\ FirstSeen <= LastSeen /\ SplitFrom(split) <= j0 /\ j0 <= SplitTo(split) /\ AddedBelow(j0)
        /\ SplitFrom(split) \in Int /\ FirstSeen <= SplitFrom(split)
        /\ SplitTo(split) \in Int /\ SplitTo(split) <= LastSeen
    BY <1>1, <2>1, SplitTypes
  <2>3. e \in Int /\ e <= LastSeen /\ j0 <= e + 1 /\ FirstSeen <= j0
    BY <1>1, <1>2, <2>2 DEF Smaller
  <2>4. added' = [j \in Keys |-> IF j \in Wanted /\ j < e + 1 THEN 1 ELSE 0]
    <3> HIDE DEF e
    <3> QED
      BY <1>1, <2>1, <2>2, <2>3, BlockAdds
  <2>5. CASE j0 + BlockLen > SplitTo(split)
    <3>1. e = SplitTo(split) /\ pc' = "merge"
      BY <1>1, <1>2, <2>1, <2>2, <2>5 DEF Smaller
    <3> HIDE DEF e
    <3> QED
      BY <1>1, <1>2, <2>1, <2>2, <2>4, <3>1, SameCall DEF AddedBelow
  <2>6. CASE ~(j0 + BlockLen > SplitTo(split))
    <3>1. e + 1 = j0 + BlockLen /\ pc' = "block"
      BY <1>1, <1>2, <2>1, <2>2, <2>6 DEF Smaller
    <3> HIDE DEF e
    <3>2. added' = [j \in Keys |-> IF j \in Wanted /\ j < j0' THEN 1 ELSE 0]
      BY <2>1, <2>4, <3>1
    <3>3. SplitFrom(split) <= j0' /\ j0' <= SplitTo(split) /\ j0' \in Int
      BY <1>1, <1>2, <2>1, <2>2, <2>6
    <3> QED
      BY <1>1, <2>1, <2>2, <3>1, <3>2, <3>3, SameCall DEF AddedBelow
  <2> QED
    BY <2>5, <2>6
<1>6. CASE MergeSplit
  <2>1. /\ pc = "merge" /\ pc' = "split" /\ q' = q /\ split' = split + 1
        /\ added' = added /\ j0' = j0
    BY <1>6 DEF MergeSplit
  <2>2. /\ FirstSeen <= LastSeen /\ AddedBelow(SplitTo(split) + 1)
        /\ SplitFrom(split) \in Int /\ PerSplit \in Nat
        /\ SplitTo(split) = Smaller(SplitFrom(split) + PerSplit - 1, LastSeen)
        /\ SplitTo(split) \in Int
        /\ SplitFrom(split + 1) = SplitFrom(split) + PerSplit
    BY <1>1, <2>1, SplitTypes
  <2>3. \A j \in Wanted : j < SplitTo(split) + 1 <=> j < SplitFrom(split + 1)
    BY <1>2, <1>3, <2>2 DEF Smaller
  <2>4. AddedBelow(SplitFrom(split + 1))
    BY <2>2, <2>3, BoundMoved
  <2>5. split + 1 \in Nat
    BY <1>1
  <2> QED
    BY <1>1, <2>1, <2>2, <2>4, <2>5, SameCall DEF AddedBelow
<1>7. CASE Finish
  <2>1. /\ pc = "split" /\ pc' = "done" /\ q' = q /\ split' = split
        /\ added' = added /\ j0' = j0
        /\ split >= NumSplits \/ SplitFrom(split) > LastSeen
    BY <1>7 DEF Finish, NumSplits
  <2>2. /\ FirstSeen <= LastSeen /\ AddedBelow(SplitFrom(split)) /\ SplitFrom(split) \in Int
        /\ NumSplits <= split => LastSeen < SplitFrom(split)
    BY <1>1, <2>1, SplitTypes
  <2>3. LastSeen < SplitFrom(split)
    BY <1>1, <1>2, <2>1, <2>2
  <2>4. \A j \in Wanted : j < SplitFrom(split) <=> j < LastSeen + 1
    BY <1>2, <1>3, <2>2, <2>3
  <2>5. AddedBelow(LastSeen + 1)
    BY <1>2, <2>2, <2>4, BoundMoved
  <2> QED
    BY <1>1, <2>1, <2>5, SameCall DEF AddedBelow
<1>8. CASE UNCHANGED vars
  <2>1. q' = q /\ pc' = pc /\ split' = split /\ j0' = j0 /\ added' = added
    BY <1>8 DEF vars
  <2> QED
    BY <2>1, SameCall DEF AddedBelow
<1> QED
  BY <1>4, <1>5, <1>6, <1>7, <1>8 DEF Next

\* The splits and the blocks of flash decoding tile the keys (EachKeyOnce):
\* every key the masks leave is added once to the output and no other ever,
\* for any lengths of query and cache, any block size and number of splits.
THEOREM TilesOnce == Spec => []EachKeyOnce
<1>1. FlashInv => EachKeyOnce
  <2> SUFFICES ASSUME FlashInv PROVE EachKeyOnce
    OBVIOUS
  <2>1. \A j \in Wanted : j \in Int /\ j <= LastSeen /\ FirstSeen <= j
    BY WantedBetween DEF FlashInv
  <2>2. LastSeen \in Int /\ FirstSeen \in Nat /\ LastSeen <= q.seq_k - 1 /\ q.seq_k \in Nat
    BY CallTypes DEF FlashInv
  <2>3. PICK bound : AddedBelow(bound)
    BY DEF FlashInv
  <2>4. \A j \in Keys : added[j] > 0 => added[j] = 1 /\ j \in Wanted
    BY <2>3 DEF AddedBelow
  <2>5. ASSUME pc = "done", NEW j \in Wanted PROVE added[j] = 1
    <3>1. AddedBelow(LastSeen + 1)
      BY <2>5 DEF FlashInv
    <3>2. j \in Keys /\ j < LastSeen + 1
      BY <2>1, <2>2 DEF Keys
    <3> QED
      BY <3>1, <3>2 DEF AddedBelow
  <2> QED
    BY <2>4, <2>5 DEF EachKeyOnce, Wanted
<1> QED
  BY <1>1, InitFlash, NextFlash, PTL DEF Spec

---------------------------------------------------------------------------
(* What the blocks and splits add up to *)

Attended == AttendedKeys(q, q.i)

\* The softmax weights of the keys in S relative to m.
Weights(S, m) == [j \in Keys |-> IF j \in S THEN Exp(q.score[j], m) ELSE 0]

\* m is the largest of the scores of the keys in S.
IsMaxOf(m, S) ==
  /\ m \in Scores
  /\ \A j \in S : q.score[j] <= m
  /\ m # NegInf => \E j \in S : q.score[j] = m

\* p is the softmax of the keys in S.
PartialOver(p, S) ==
  /\ IsMaxOf(p.m, S)
  /\ p.acc = Weights(S, p.m)
  /\ p.l = SumFunctionOnSet(p.acc, Keys)

\* Exact division.
LEMMA Divides ==
  ASSUME NEW x \in Nat, NEW d \in Nat \ {0}
  PROVE  (x * d) \div d = x
<1>1. x * d \in Nat
  OBVIOUS
<1>2. x * d = d * ((x * d) \div d) + ((x * d) % d) /\ (x * d) % d \in 0 .. d - 1 /\ (x * d) \div d \in Int
  BY <1>1, Z3
<1> DEFINE y == (x * d) \div d
           r == (x * d) % d
<1>3. y \in Int /\ r \in 0 .. d - 1 /\ x * d = d * y + r
  BY <1>2
<1> HIDE DEF y, r
<1>4. (x - y) * d = r
  BY <1>3
<1>5. CASE x - y >= 1
  <2>1. (x - y) * d >= d
    BY <1>3, <1>5
  <2> QED
    BY <1>3, <1>4, <2>1
<1>6. CASE x - y <= -1
  <2>1. (x - y) * d <= -d
    BY <1>3, <1>6
  <2> QED
    BY <1>3, <1>4, <2>1
<1>7. CASE x - y = 0
  BY <1>3, <1>7 DEF y
<1> QED
  BY <1>3, <1>5, <1>6, <1>7

\* Weights are natural numbers, zero only for a score of -inf, and relative to
\* a larger maximum they are the same ones, smaller by a power of two.
LEMMA ExpOK ==
  ASSUME NEW a \in Scores, NEW old \in Scores, NEW new \in Scores, a <= old, old <= new
  PROVE  /\ Exp(a, old) \in Nat
         /\ Exp(a, old) = 0 <=> a = NegInf
         /\ new - old \in Nat
         /\ Exp(a, old) = Exp(a, new) * Pow2[new - old]
<1>0. MaxScore \in Nat /\ a \in Int /\ old \in Int /\ new \in Int /\ new <= MaxScore /\ a >= -1
  BY ScoreAssumption DEF Scores, NegInf
<1>1. CASE a = NegInf
  <2>1. Exp(a, old) = 0 /\ Exp(a, new) = 0 /\ new - old \in Nat
    BY <1>0, <1>1 DEF Exp
  <2>2. Pow2[new - old] \in Nat
    BY <2>1, Pow2Positive
  <2> QED
    BY <1>1, <2>1, <2>2
<1>2. CASE a # NegInf
  <2> DEFINE x == MaxScore - (new - a)
             y == new - old
  <2>1. x \in Nat /\ y \in Nat /\ MaxScore - (old - a) = x + y
    BY <1>0, <1>2 DEF NegInf
  <2>2. Exp(a, old) = Pow2[x + y] /\ Exp(a, new) = Pow2[x]
    BY <1>2, <2>1 DEF Exp
  <2> HIDE DEF x, y
  <2>3. Pow2[x + y] = Pow2[x] * Pow2[y] /\ Pow2[x + y] \in Nat \ {0}
    BY <2>1, Pow2Positive, Pow2Adds
  <2> QED
    BY <1>2, <2>1, <2>2, <2>3 DEF y
<1> QED
  BY <1>1, <1>2

\* The call: its scores and the keys its query attends to.
LEMMA CallScores ==
  ASSUME q \in Calls
  PROVE  /\ IsFiniteSet(Keys)
         /\ \A j \in Keys : q.score[j] \in Scores
         /\ DOMAIN q.score = Keys
         /\ Attended \subseteq Keys
<1>1. PICK n \in SeqLens, k \in SeqLens : q \in CallsOf(n, k)
  BY DEF Calls
<1>2. q.seq_k = k /\ q.score \in [0 .. k - 1 -> NegInf .. MaxScore]
  BY <1>1 DEF CallsOf
<1>3. FirstSeen \in Nat /\ LastSeen \in Int /\ LastSeen <= q.seq_k - 1 /\ q.seq_k \in Nat
  BY CallTypes
<1>4. IsFiniteSet(Keys)
  BY <1>3, FS_Interval DEF Keys
<1>5. Attended \subseteq Keys
  BY <1>3 DEF Attended, AttendedKeys, AllowedIn, Keys, FirstSeen, LastSeen
<1> QED
  BY <1>2, <1>4, <1>5 DEF Keys, Scores

\* The largest of some scores is one of them.
LEMMA LargestScore ==
  ASSUME NEW V \in SUBSET Scores, V # {}
  PROVE  Max(V) \in V /\ \A w \in V : Max(V) >= w
<1> DEFINE D == {MaxScore - v : v \in V}
<1>1. \A v \in V : v \in Int /\ MaxScore - v \in Nat
  BY ScoreAssumption DEF Scores, NegInf
<1>2. D \in SUBSET Nat /\ D # {}
  BY <1>1
<1>3. PICK d \in D : \A e \in D : d <= e
  <2> HIDE DEF D
  <2> QED
    BY <1>2, LeastNat
<1>4. PICK v \in V : d = MaxScore - v
  BY <1>3
<1>5. \A w \in V : v >= w
  <2> SUFFICES ASSUME NEW w \in V PROVE v >= w
    OBVIOUS
  <2>1. MaxScore - v <= MaxScore - w
    BY <1>3, <1>4
  <2> QED
    BY <1>1, <2>1, ScoreAssumption
<1> QED
  BY <1>4, <1>5 DEF Max

\* MaxScoreOf is the largest of the scores.
LEMMA MaxScoreIs ==
  ASSUME q \in Calls, NEW S \in SUBSET Keys
  PROVE  IsMaxOf(MaxScoreOf(q.score, S), S)
<1> DEFINE V == {q.score[j] : j \in S} \cup {NegInf}
<1>1. MaxScore \in Nat /\ V \subseteq Scores /\ NegInf \in V
  BY CallScores, ScoreAssumption DEF Scores, NegInf
<1>2. \A v \in V : v \in Int /\ v <= MaxScore
  BY <1>1 DEF Scores, NegInf
<1>7. Max(V) \in V /\ \A w \in V : Max(V) >= w
  <2> HIDE DEF V
  <2> QED
    BY <1>1, LargestScore
<1>8. MaxScoreOf(q.score, S) = Max(V)
  BY DEF MaxScoreOf
<1> DEFINE x == Max(V)
<1>9. x \in V /\ \A w \in V : x >= w
  BY <1>7
<1> HIDE DEF x
<1>10. x \in Scores /\ (\A j \in S : q.score[j] <= x) /\ (x # NegInf => \E j \in S : q.score[j] = x)
  BY <1>1, <1>2, <1>9
<1> QED
  BY <1>8, <1>10 DEF IsMaxOf, x

\* There is one largest score.
LEMMA OneMax ==
  ASSUME q \in Calls, NEW S \in SUBSET Keys, NEW m, IsMaxOf(m, S), NEW n, IsMaxOf(n, S)
  PROVE  m = n
<1>1. \A j \in S : q.score[j] \in Int /\ q.score[j] >= NegInf
  BY CallScores, ScoreAssumption DEF Scores, NegInf
<1>2. m \in Int /\ n \in Int /\ m >= NegInf /\ n >= NegInf
  BY ScoreAssumption DEF IsMaxOf, Scores, NegInf
<1>3. m <= n
  BY <1>1, <1>2 DEF IsMaxOf, NegInf
<1>4. n <= m
  BY <1>1, <1>2 DEF IsMaxOf, NegInf
<1> QED
  BY <1>2, <1>3, <1>4

\* Weights and their sum are natural numbers.
LEMMA WeightsTyped ==
  ASSUME q \in Calls, NEW S \in SUBSET Keys, NEW m \in Scores, \A j \in S : q.score[j] <= m
  PROVE  /\ \A j \in Keys : Weights(S, m)[j] \in Nat
         /\ \A j \in S : Weights(S, m)[j] = 0 <=> q.score[j] = NegInf
         /\ SumFunctionOnSet(Weights(S, m), Keys) \in Nat
<1>1. ASSUME NEW j \in S PROVE Exp(q.score[j], m) \in Nat /\ (Exp(q.score[j], m) = 0 <=> q.score[j] = NegInf)
  <2>1. q.score[j] \in Scores /\ q.score[j] <= m /\ m <= m
    BY CallScores, ScoreAssumption DEF Scores, NegInf
  <2> QED
    BY <2>1, ExpOK
<1>2. \A j \in Keys : Weights(S, m)[j] = IF j \in S THEN Exp(q.score[j], m) ELSE 0
  BY DEF Weights
<1>3. \A j \in Keys : Weights(S, m)[j] \in Nat
  BY <1>1, <1>2
<1>4. SumFunctionOnSet(Weights(S, m), Keys) \in Nat
  BY <1>3, CallScores, SumNat
<1> QED
  BY <1>1, <1>2, <1>3, <1>4

\* A partial softmax rescaled to a larger maximum has the weights of its keys
\* relative to that maximum, and their sum: no division loses anything.
LEMMA RescalePartial ==
  ASSUME q \in Calls, NEW S \in SUBSET Keys, NEW p, PartialOver(p, S),
         NEW new \in Scores, p.m <= new
  PROVE  /\ \A j \in Keys : Rescale(p.acc[j], p.m, new) = Weights(S, new)[j]
         /\ Rescale(p.l, p.m, new) = SumFunctionOnSet(Weights(S, new), Keys)
<1>1. p.m \in Scores /\ \A j \in S : q.score[j] \in Scores /\ q.score[j] <= p.m
  BY CallScores DEF PartialOver, IsMaxOf
<1>2. \A j \in S : q.score[j] <= new
  BY <1>1, ScoreAssumption DEF Scores, NegInf
<1> DEFINE W == Weights(S, new)
<1>3. (\A j \in Keys : W[j] \in Nat) /\ (\A j \in S : W[j] = 0 <=> q.score[j] = NegInf)
      /\ SumFunctionOnSet(W, Keys) \in Nat
  BY <1>2, WeightsTyped
<1>4. CASE p.m = NegInf
  <2>1. \A j \in S : q.score[j] = NegInf
    BY <1>1, <1>4, ScoreAssumption DEF Scores, NegInf
  <2>2. \A j \in Keys : W[j] = 0
    BY <1>3, <2>1 DEF Weights
  <2>3. SumFunctionOnSet(W, Keys) = 0
    <3> HIDE DEF W
    <3> QED
      BY <1>3, <2>2, CallScores, SumIsZero
  <2> QED
    BY <1>4, <2>2, <2>3 DEF Rescale
<1>5. CASE p.m # NegInf
  <2> DEFINE d == Pow2[new - p.m]
  <2>1. new - p.m \in Nat
    BY <1>1, ScoreAssumption DEF Scores, NegInf
  <2>2. d \in Nat \ {0}
    BY <2>1, Pow2Positive
  <2>3. ASSUME NEW j \in Keys PROVE p.acc[j] = W[j] * d
    <3>1. p.acc[j] = IF j \in S THEN Exp(q.score[j], p.m) ELSE 0
      BY DEF PartialOver, Weights
    <3>2. CASE j \in S
      <4>1. W[j] = Exp(q.score[j], new)
        BY <3>2 DEF Weights
      <4>2. Exp(q.score[j], p.m) = Exp(q.score[j], new) * Pow2[new - p.m]
        BY <1>1, <3>2, ExpOK
      <4> QED
        BY <3>1, <3>2, <4>1, <4>2
    <3>3. CASE j \notin S
      <4>1. W[j] = 0 /\ p.acc[j] = 0
        BY <3>1, <3>3 DEF Weights
      <4> HIDE DEF d
      <4> QED
        BY <2>2, <4>1
    <3> QED
      BY <3>2, <3>3
  <2>4. p.l = SumFunctionOnSet(W, Keys) * d
    <3>1. SumFunctionOnSet(p.acc, Keys) = SumFunctionOnSet(W, Keys) * d
      <4> HIDE DEF W, d
      <4> QED
        BY <1>3, <2>2, <2>3, CallScores, SumScaled
    <3> QED
      BY <3>1 DEF PartialOver
  <2>5. \A w : Rescale(w, p.m, new) = w \div d
    BY <1>5 DEF Rescale
  <2> HIDE DEF W, d
  <2>6. \A j \in Keys : Rescale(p.acc[j], p.m, new) = W[j]
    BY <1>3, <2>2, <2>3, <2>5, Divides
  <2>7. Rescale(p.l, p.m, new) = SumFunctionOnSet(W, Keys)
    BY <1>3, <2>2, <2>4, <2>5, Divides
  <2> QED
    BY <2>6, <2>7 DEF W
<1> QED
  BY <1>4, <1>5

\* Weights of disjoint sets of keys add up, and so do their sums.
LEMMA WeightsUnion ==
  ASSUME q \in Calls, NEW S \in SUBSET Keys, NEW T \in SUBSET Keys, S \cap T = {},
         NEW m \in Scores, \A j \in S \cup T : q.score[j] <= m
  PROVE  /\ \A j \in Keys : Weights(S \cup T, m)[j] = Weights(S, m)[j] + Weights(T, m)[j]
         /\ SumFunctionOnSet(Weights(S \cup T, m), Keys)
              = SumFunctionOnSet(Weights(S, m), Keys) + SumFunctionOnSet(Weights(T, m), Keys)
<1>1. /\ \A j \in Keys : Weights(S, m)[j] \in Nat
      /\ \A j \in Keys : Weights(T, m)[j] \in Nat
  BY WeightsTyped
<1>2. \A j \in Keys : Weights(S \cup T, m)[j] = Weights(S, m)[j] + Weights(T, m)[j]
  <2> SUFFICES ASSUME NEW j \in Keys
               PROVE  Weights(S \cup T, m)[j] = Weights(S, m)[j] + Weights(T, m)[j]
    OBVIOUS
  <2>1. /\ Weights(S \cup T, m)[j] = IF j \in S \cup T THEN Exp(q.score[j], m) ELSE 0
        /\ Weights(S, m)[j] = IF j \in S THEN Exp(q.score[j], m) ELSE 0
        /\ Weights(T, m)[j] = IF j \in T THEN Exp(q.score[j], m) ELSE 0
    BY DEF Weights
  <2> QED
    BY <1>1, <2>1
<1>3. IsFiniteSet(Keys)
  BY CallScores
<1>4. /\ \A j \in Keys : Weights(S, m)[j] \in Int
      /\ \A j \in Keys : Weights(T, m)[j] \in Int
  BY <1>1
<1> QED
  BY <1>2, <1>3, <1>4, SumOfSum

\* g, over S, and the weights of T, both rescaled to m, add up to those of both.
AddUp(g, S, T, m) ==
  /\ IsMaxOf(m, S \cup T) /\ g.m <= m
  /\ \A j \in Keys : Rescale(g.acc[j], g.m, m) + Weights(T, m)[j] = Weights(S \cup T, m)[j]
  /\ Rescale(g.l, g.m, m) + SumFunctionOnSet(Weights(T, m), Keys)
       = SumFunctionOnSet(Weights(S \cup T, m), Keys)

\* Two partial softmaxes over disjoint sets of keys, rescaled to the larger
\* maximum and added, are the softmax of both.
LEMMA SumOfPartials ==
  ASSUME q \in Calls, NEW S \in SUBSET Keys, NEW T \in SUBSET Keys, S \cap T = {},
         NEW g, PartialOver(g, S), NEW n, IsMaxOf(n, T), NEW m, m = Larger(g.m, n)
  PROVE  AddUp(g, S, T, m) /\ n <= m
<1>1. g.m \in Scores /\ n \in Scores /\ IsMaxOf(g.m, S)
  BY DEF PartialOver, IsMaxOf
<1>2. \A s \in Scores : s \in Int
  BY ScoreAssumption DEF Scores, NegInf
<1>3. m \in Scores /\ g.m <= m /\ n <= m /\ (m = g.m \/ m = n)
  BY <1>1, <1>2 DEF Larger
<1>4. \A j \in Keys : q.score[j] \in Int
  BY <1>2, CallScores
<1>5. \A j \in S \cup T : q.score[j] <= m
  BY <1>1, <1>2, <1>3, <1>4 DEF IsMaxOf
<1>6. IsMaxOf(m, S \cup T)
  BY <1>1, <1>3, <1>5 DEF IsMaxOf
<1>7. /\ \A j \in Keys : Rescale(g.acc[j], g.m, m) = Weights(S, m)[j]
      /\ Rescale(g.l, g.m, m) = SumFunctionOnSet(Weights(S, m), Keys)
  BY <1>3, RescalePartial
<1>8. /\ \A j \in Keys : Weights(S \cup T, m)[j] = Weights(S, m)[j] + Weights(T, m)[j]
      /\ SumFunctionOnSet(Weights(S \cup T, m), Keys)
           = SumFunctionOnSet(Weights(S, m), Keys) + SumFunctionOnSet(Weights(T, m), Keys)
  BY <1>3, <1>5, WeightsUnion
<1> QED
  BY <1>3, <1>6, <1>7, <1>8 DEF AddUp

\* A block adds its keys to a partial softmax.
LEMMA BlockExtends ==
  ASSUME q \in Calls, NEW S \in SUBSET Keys, NEW js \in SUBSET Keys, S \cap js = {},
         NEW p, PartialOver(p, S)
  PROVE  PartialOver(AddBlock(p, js), S \cup js)
<1>1. CASE js = {}
  <2>1. AddBlock(p, js) = p /\ S \cup js = S
    BY <1>1 DEF AddBlock
  <2> QED
    BY <2>1
<1>2. CASE js # {}
  <2> DEFINE b == MaxScoreOf(q.score, js)
             m == Larger(p.m, b)
             w == Weights(js, m)
  <2>1. IsMaxOf(b, js)
    BY MaxScoreIs
  <2>2. p.m \in Int /\ b \in Int
    BY <2>1, ScoreAssumption DEF PartialOver, IsMaxOf, Scores, NegInf
  <2>3. Larger(b, p.m) = m
    BY <2>2 DEF Larger
  <2>4. AddBlock(p, js) =
          [m   |-> m,
           l   |-> Rescale(p.l, p.m, m) + SumFunctionOnSet(w, js),
           acc |-> [j \in Keys |-> Rescale(p.acc[j], p.m, m) + w[j]]]
    <3> DEFINE n == Larger(b, p.m)
               v == Weights(js, n)
    <3>1. AddBlock(p, js) =
            [m   |-> n,
             l   |-> Rescale(p.l, p.m, n) + SumFunctionOnSet(v, js),
             acc |-> [j \in Keys |-> Rescale(p.acc[j], p.m, n) + v[j]]]
      BY <1>2 DEF AddBlock, Weights
    <3> HIDE DEF b
    <3> QED
      BY <2>3, <3>1
  <2>0. m = Larger(p.m, b)
    OBVIOUS
  <2> HIDE DEF b, m, w
  <2>5. /\ IsMaxOf(m, S \cup js) /\ p.m <= m /\ b <= m
        /\ \A j \in Keys : Rescale(p.acc[j], p.m, m) + w[j] = Weights(S \cup js, m)[j]
        /\ Rescale(p.l, p.m, m) + SumFunctionOnSet(w, Keys)
             = SumFunctionOnSet(Weights(S \cup js, m), Keys)
    <3>1. AddUp(p, S, js, m) /\ b <= m
      BY <2>0, <2>1, SumOfPartials
    <3> QED
      BY <3>1 DEF AddUp, w
  <2>6. SumFunctionOnSet(w, js) = SumFunctionOnSet(w, Keys)
    <3>1. m \in Scores /\ \A j \in js : q.score[j] <= m
      BY <2>5 DEF IsMaxOf
    <3>2. \A j \in Keys : w[j] \in Nat
      BY <3>1, WeightsTyped DEF w
    <3>3. \A j \in Keys : w[j] = IF j \in js THEN w[j] ELSE 0
      BY DEF w, Weights
    <3> QED
      BY <3>2, <3>3, CallScores, SumWithoutZeros
  <2>7. [j \in Keys |-> Rescale(p.acc[j], p.m, m) + w[j]] = Weights(S \cup js, m)
    <3>1. Weights(S \cup js, m) = [j \in Keys |-> Weights(S \cup js, m)[j]]
      BY DEF Weights
    <3> QED
      BY <2>5, <3>1
  <2> DEFINE a == AddBlock(p, js)
  <2>8. /\ a.m = m /\ a.acc = Weights(S \cup js, m)
        /\ a.l = Rescale(p.l, p.m, m) + SumFunctionOnSet(w, js)
    BY <2>4, <2>7
  <2>9. a.l = SumFunctionOnSet(Weights(S \cup js, m), Keys)
    BY <2>5, <2>6, <2>8
  <2> HIDE DEF a
  <2>10. PartialOver(a, S \cup js)
    BY <2>5, <2>8, <2>9 DEF PartialOver
  <2> QED
    BY <2>10 DEF a
<1> QED
  BY <1>1, <1>2

\* A split adds its keys to those merged, also when all of them are -inf.
LEMMA MergeExtends ==
  ASSUME q \in Calls, NEW S \in SUBSET Keys, NEW T \in SUBSET Keys, S \cap T = {},
         NEW g, PartialOver(g, S), NEW p, PartialOver(p, T)
  PROVE  PartialOver(Merge(g, p), S \cup T)
<1>1. /\ p.m \in Scores /\ IsMaxOf(p.m, T) /\ \A j \in T : q.score[j] <= p.m
      /\ p.acc = Weights(T, p.m) /\ p.l = SumFunctionOnSet(Weights(T, p.m), Keys)
  BY DEF PartialOver, IsMaxOf
<1>2. /\ \A j \in Keys : Weights(T, p.m)[j] \in Nat
      /\ \A j \in T : Weights(T, p.m)[j] = 0 <=> q.score[j] = NegInf
      /\ SumFunctionOnSet(Weights(T, p.m), Keys) \in Nat
  BY <1>1, WeightsTyped
<1>3. p.l \in Nat
  BY <1>1, <1>2
<1>4. CASE p.l <= 0
  <2>1. Merge(g, p) = g
    BY <1>4 DEF Merge
  <2>2. SumFunctionOnSet(Weights(T, p.m), Keys) = 0
    BY <1>1, <1>3, <1>4
  <2>3. \A j \in Keys : Weights(T, p.m)[j] = 0
    BY <1>2, <2>2, CallScores, SumIsZero
  <2>4. \A j \in T : q.score[j] = NegInf
    BY <1>2, <2>3
  <2>5. g.m \in Scores /\ g.m \in Int /\ NegInf <= g.m
    BY ScoreAssumption DEF PartialOver, IsMaxOf, Scores, NegInf
  <2>6. IsMaxOf(g.m, S \cup T)
    BY <2>4, <2>5 DEF PartialOver, IsMaxOf
  <2>7. ASSUME NEW j \in Keys
        PROVE  (IF j \in S THEN Exp(q.score[j], g.m) ELSE 0)
                 = IF j \in S \cup T THEN Exp(q.score[j], g.m) ELSE 0
    BY <2>4 DEF Exp
  <2>8. Weights(S \cup T, g.m) = Weights(S, g.m)
    BY <2>7 DEF Weights
  <2> QED
    BY <2>1, <2>6, <2>8 DEF PartialOver
<1>5. CASE p.l > 0
  <2> DEFINE m == Larger(g.m, p.m)
             a == Merge(g, p)
  <2>1. a = [m   |-> m,
             l   |-> Rescale(g.l, g.m, m) + Rescale(p.l, p.m, m),
             acc |-> [j \in Keys |-> Rescale(g.acc[j], g.m, m) + Rescale(p.acc[j], p.m, m)]]
    BY <1>3, <1>5 DEF Merge
  <2>0. m = Larger(g.m, p.m)
    OBVIOUS
  <2> HIDE DEF m, a
  <2>2. /\ IsMaxOf(m, S \cup T) /\ g.m <= m /\ p.m <= m
        /\ \A j \in Keys : Rescale(g.acc[j], g.m, m) + Weights(T, m)[j] = Weights(S \cup T, m)[j]
        /\ Rescale(g.l, g.m, m) + SumFunctionOnSet(Weights(T, m), Keys)
             = SumFunctionOnSet(Weights(S \cup T, m), Keys)
    <3>1. AddUp(g, S, T, m) /\ p.m <= m
      BY <1>1, <2>0, SumOfPartials
    <3> QED
      BY <3>1 DEF AddUp
  <2>3. /\ \A j \in Keys : Rescale(p.acc[j], p.m, m) = Weights(T, m)[j]
        /\ Rescale(p.l, p.m, m) = SumFunctionOnSet(Weights(T, m), Keys)
    <3>1. m \in Scores
      BY <2>2 DEF IsMaxOf
    <3> QED
      BY <2>2, <3>1, RescalePartial
  <2>4. Weights(S \cup T, m) = [j \in Keys |-> Weights(S \cup T, m)[j]]
    BY DEF Weights
  <2>5. [j \in Keys |-> Rescale(g.acc[j], g.m, m) + Rescale(p.acc[j], p.m, m)] = Weights(S \cup T, m)
    BY <2>2, <2>3, <2>4
  <2>6. /\ a.m = m /\ a.acc = Weights(S \cup T, m)
        /\ a.l = Rescale(g.l, g.m, m) + Rescale(p.l, p.m, m)
    BY <2>1, <2>5
  <2>7. a.l = SumFunctionOnSet(Weights(S \cup T, m), Keys)
    BY <2>2, <2>3, <2>6
  <2>8. PartialOver(a, S \cup T)
    BY <2>2, <2>6, <2>7 DEF PartialOver
  <2> QED
    BY <2>8 DEF a
<1> QED
  BY <1>3, <1>4, <1>5

\* Before any key.
LEMMA EmptyPartial ==
  ASSUME q \in Calls
  PROVE  PartialOver(Empty, {})
<1>1. NegInf \in Scores
  BY ScoreAssumption DEF Scores, NegInf
<1>2. Empty.m = NegInf /\ Empty.l = 0 /\ Empty.acc = [j \in Keys |-> 0]
  BY DEF Empty
<1>3. Weights({}, NegInf) = [j \in Keys |-> 0]
  BY DEF Weights
<1>4. SumFunctionOnSet(Weights({}, NegInf), Keys) = 0
  <2>1. \A j \in Keys : Weights({}, NegInf)[j] = 0
    BY <1>3
  <2> QED
    BY <2>1, CallScores, SumIsZero
<1> QED
  BY <1>1, <1>2, <1>3, <1>4 DEF PartialOver, IsMaxOf

\* The softmax of all keys is what sdpa computes in two passes.
LEMMA AllOfThem ==
  ASSUME q \in Calls, NEW p, PartialOver(p, Attended),
         Attended # {} => \E j \in Attended : q.score[j] # NegInf
  PROVE  SameOutput(p, Sdpa(q, q.i, q.score))
<1> DEFINE m == MaxScoreOf(q.score, Attended)
           x == Sdpa(q, q.i, q.score)
           w == Weights(Attended, m)
<1>1. Attended \in SUBSET Keys /\ DOMAIN q.score = Keys
  BY CallScores
<1>2. IsMaxOf(m, Attended)
  BY <1>1, MaxScoreIs
<1>3. p.m = m
  BY <1>1, <1>2, OneMax DEF PartialOver
<1>4. /\ x.acc = w
      /\ x.l = IF Attended # {} /\ m = NegInf THEN -1 ELSE SumFunctionOnSet(w, Attended)
  BY <1>1 DEF Sdpa, Softmax, Weights, Attended
<1> HIDE DEF m
<1>5. m \in Scores /\ \A j \in Attended : q.score[j] <= m
  BY <1>2 DEF IsMaxOf
<1>6. \A j \in Keys : w[j] \in Nat
  BY <1>1, <1>5, WeightsTyped
<1>7. ~ (Attended # {} /\ m = NegInf)
  <2>1. \A j \in Attended : q.score[j] \in Scores
    BY CallScores
  <2> QED
    BY <1>5, <2>1, ScoreAssumption DEF Scores, NegInf
<1>8. SumFunctionOnSet(w, Attended) = SumFunctionOnSet(w, Keys)
  <2>1. \A j \in Keys : w[j] = IF j \in Attended THEN w[j] ELSE 0
    BY DEF Weights
  <2> HIDE DEF w
  <2> QED
    BY <1>1, <1>6, <2>1, CallScores, SumWithoutZeros
<1>9. p.l = x.l /\ p.acc = x.acc /\ p.l \in Nat
  <2>1. p.acc = w /\ p.l = SumFunctionOnSet(w, Keys)
    BY <1>3 DEF PartialOver
  <2>2. SumFunctionOnSet(w, Keys) \in Nat
    BY <1>1, <1>5, WeightsTyped
  <2> HIDE DEF w, x
  <2> QED
    BY <1>4, <1>7, <1>8, <2>1, <2>2
<1> HIDE DEF x
<1>10. SameOutput(p, x)
  BY <1>9 DEF SameOutput
<1> QED
  BY <1>10 DEF x

\* The keys from a to below b that the query attends to.
Span(a, b) == {j \in Attended : a <= j /\ j < b}

\* The query attends to no key, or to one with a finite score.
Answered == Attended # {} => \E j \in Attended : q.score[j] # NegInf

\* What is merged is the softmax of the splits before, and part that of the
\* blocks of this split.
SumsInv ==
  /\ FlashInv
  /\ pc \in {"block", "merge"} => split < NumSplits /\ SplitFrom(split) <= LastSeen
  /\ pc \in {"split", "block", "merge"} => PartialOver(merged, Span(FirstSeen, SplitFrom(split)))
  /\ pc = "block" => PartialOver(part, Span(SplitFrom(split), j0))
  /\ pc = "merge" => PartialOver(part, Span(SplitFrom(split), SplitTo(split) + 1))
  /\ pc = "done" => PartialOver(merged, Attended)

\* Nothing that is said of the softmax of some keys depends on the step.
LEMMA SameKeys ==
  ASSUME q' = q
  PROVE  /\ Attended' = Attended /\ NumSplits' = NumSplits /\ (Answered' <=> Answered)
         /\ \A p, S : PartialOver(p, S)' <=> PartialOver(p, S)
         /\ \A a, b : Span(a, b)' = Span(a, b)
BY DEF Attended, NumSplits, Answered, PartialOver, IsMaxOf, Weights, Keys, Span

\* Spans are sets of keys, and one follows another.
LEMMA Spans ==
  ASSUME q \in Calls
  PROVE  /\ \A j \in Attended : j \in Int /\ FirstSeen <= j /\ j <= LastSeen /\ j \in Keys
         /\ \A a, b \in Int : Span(a, b) \in SUBSET Keys
         /\ \A a, b, c \in Int : a <= b /\ b <= c =>
              /\ Span(a, b) \cap Span(b, c) = {}
              /\ Span(a, b) \cup Span(b, c) = Span(a, c)
         /\ \A a, b \in Int : a <= FirstSeen /\ LastSeen < b => Span(a, b) = Attended
         /\ \A a, b, c \in Int : LastSeen < b /\ LastSeen < c => Span(a, b) = Span(a, c)
<1>1. FirstSeen \in Nat /\ LastSeen \in Int /\ LastSeen <= q.seq_k - 1 /\ q.seq_k \in Nat
  BY CallTypes
<1>2. \A j \in Attended : j \in Int /\ FirstSeen <= j /\ j <= LastSeen /\ j \in Keys
  BY <1>1 DEF Attended, AttendedKeys, AllowedIn, FirstSeen, LastSeen, Keys
<1>3. \A a, b \in Int : Span(a, b) \in SUBSET Keys
  BY <1>2 DEF Span
<1>4. ASSUME NEW a \in Int, NEW b \in Int, NEW c \in Int, a <= b, b <= c
      PROVE  /\ Span(a, b) \cap Span(b, c) = {}
             /\ Span(a, b) \cup Span(b, c) = Span(a, c)
  BY <1>2, <1>4 DEF Span
<1>5. ASSUME NEW a \in Int, NEW b \in Int, a <= FirstSeen, LastSeen < b PROVE Span(a, b) = Attended
  BY <1>1, <1>2, <1>5 DEF Span
<1>6. ASSUME NEW a \in Int, NEW b \in Int, NEW c \in Int, LastSeen < b, LastSeen < c
      PROVE  Span(a, b) = Span(a, c)
  BY <1>1, <1>2, <1>6 DEF Span
<1> QED
  BY <1>2, <1>3, <1>4, <1>5, <1>6

\* The keys of a block that its masks leave.
LEMMA BlockKeys ==
  ASSUME q \in Calls, NEW a \in Int, NEW e \in Int, FirstSeen <= a, e <= LastSeen
  PROVE  AllowedIn(q, q.i, a .. e) = Span(a, e + 1)
<1>1. FirstSeen \in Nat /\ LastSeen \in Int
  BY CallTypes
<1> QED
  BY <1>1 DEF Span, Attended, AttendedKeys, AllowedIn, FirstSeen, LastSeen

LEMMA InitSums == Init => SumsInv
<1> SUFFICES ASSUME Init PROVE SumsInv
  OBVIOUS
<1>1. FlashInv
  BY InitFlash
<1>2. /\ q \in Calls /\ split = 0 /\ merged = Empty
      /\ pc = IF LastSeen < FirstSeen THEN "done" ELSE "split"
  BY DEF Init
<1>3. FirstSeen \in Nat /\ LastSeen \in Int /\ PartialOver(Empty, {})
  BY <1>2, CallTypes, EmptyPartial
<1>4. CASE LastSeen < FirstSeen
  <2>1. Attended = {}
    BY <1>2, <1>3, <1>4, Spans
  <2> QED
    BY <1>1, <1>2, <1>3, <1>4, <2>1 DEF SumsInv
<1>5. CASE ~ (LastSeen < FirstSeen)
  <2>1. PerSplit \in Nat
    BY <1>2, <1>3, <1>5, SplitTypes
  <2>2. SplitFrom(split) = FirstSeen
    BY <1>2, <1>3, <2>1 DEF SplitFrom
  <2>3. Span(FirstSeen, FirstSeen) = {}
    BY <1>2, <1>3, Spans DEF Span
  <2> QED
    BY <1>1, <1>2, <1>3, <1>5, <2>2, <2>3 DEF SumsInv
<1> QED
  BY <1>4, <1>5

LEMMA NextSums == SumsInv /\ [Next]_vars => SumsInv'
<1> SUFFICES ASSUME SumsInv, [Next]_vars PROVE SumsInv'
  OBVIOUS
<1>1. FlashInv' /\ q \in Calls /\ split \in Nat /\ j0 \in Int /\ (pc # "done" => FirstSeen <= LastSeen)
  BY NextFlash DEF SumsInv, FlashInv
<1>2. /\ FirstSeen \in Nat /\ LastSeen \in Int
      /\ NumSplits \in Nat \ {0} /\ BlockLen \in Nat \ {0}
  BY <1>1, CallTypes
<1>3. CASE BeginSplit
  <2>1. /\ pc = "split" /\ pc' = "block" /\ q' = q /\ split' = split /\ merged' = merged
        /\ j0' = SplitFrom(split) /\ part' = Empty
        /\ split < NumSplits /\ SplitFrom(split) <= LastSeen
    BY <1>3 DEF BeginSplit, NumSplits
  <2>2. SplitFrom(split) \in Int
    BY <1>1, <2>1, SplitTypes
  <2>3. PartialOver(merged, Span(FirstSeen, SplitFrom(split)))
    BY <2>1 DEF SumsInv
  <2>4. Span(SplitFrom(split), SplitFrom(split)) = {}
    BY <1>1, <2>2, Spans DEF Span
  <2>5. PartialOver(part', Span(SplitFrom(split), SplitFrom(split)))
    BY <1>1, <2>1, <2>4, EmptyPartial
  <2>6. /\ FirstSeen' = FirstSeen /\ SplitFrom(split)' = SplitFrom(split)
        /\ NumSplits' = NumSplits /\ LastSeen' = LastSeen
    BY <2>1, SameCall, SameKeys
  <2>7. PartialOver(merged, Span(FirstSeen, SplitFrom(split)))'
    BY <2>1, <2>3, SameCall, SameKeys
  <2> QED
    BY <1>1, <2>1, <2>3, <2>5, <2>6, SameKeys DEF SumsInv
<1>4. CASE BlockStep
  <2> DEFINE e == Smaller(j0 + BlockLen - 1, SplitTo(split))
             js == AllowedIn(q, q.i, j0 .. e)
             from == SplitFrom(split)
  <2>1. /\ pc = "block" /\ q' = q /\ split' = split /\ merged' = merged
        /\ j0' = j0 + BlockLen /\ part' = AddBlock(part, js)
        /\ pc' = IF j0 + BlockLen > SplitTo(split) THEN "merge" ELSE "block"
    BY <1>4 DEF BlockStep, BlockLen
  <2>2. /\ FirstSeen <= LastSeen /\ from <= j0 /\ j0 <= SplitTo(split)
        /\ from \in Int /\ FirstSeen <= from
        /\ SplitTo(split) \in Int /\ SplitTo(split) <= LastSeen
    BY <1>1, <2>1, SplitTypes DEF SumsInv, FlashInv
  <2>3. e \in Int /\ e <= LastSeen /\ j0 <= e + 1 /\ FirstSeen <= j0
    BY <1>1, <1>2, <2>2 DEF Smaller
  <2>4. /\ j0 + BlockLen > SplitTo(split) => e = SplitTo(split)
        /\ ~ (j0 + BlockLen > SplitTo(split)) => e + 1 = j0 + BlockLen
    BY <1>1, <1>2, <2>2 DEF Smaller
  <2> HIDE DEF e, from
  <2>5. PartialOver(part, Span(from, j0)) /\ split < NumSplits /\ from <= LastSeen
    BY <2>1 DEF SumsInv, from
  <2>6. js = Span(j0, e + 1)
    BY <1>1, <2>3, BlockKeys
  <2> HIDE DEF js
  <2>7. /\ Span(from, j0) \in SUBSET Keys /\ js \in SUBSET Keys
        /\ Span(from, j0) \cap js = {} /\ Span(from, j0) \cup js = Span(from, e + 1)
    BY <1>1, <2>2, <2>3, <2>6, Spans
  <2>8. PartialOver(AddBlock(part, js), Span(from, j0) \cup js)
    BY <1>1, <2>5, <2>7, BlockExtends
  <2>9. PartialOver(part', Span(from, e + 1))
    BY <2>1, <2>7, <2>8
  <2>10. PartialOver(merged, Span(FirstSeen, from))
    BY <2>1 DEF SumsInv, from
  <2>11. /\ FirstSeen' = FirstSeen /\ SplitFrom(split)' = from /\ SplitTo(split)' = SplitTo(split)
         /\ NumSplits' = NumSplits /\ LastSeen' = LastSeen
    BY <2>1, SameCall, SameKeys DEF from
  <2>12. PartialOver(merged, Span(FirstSeen, SplitFrom(split)))'
    BY <2>1, <2>10, <2>11, SameKeys
  <2>13. CASE j0 + BlockLen > SplitTo(split)
    <3>1. pc' = "merge" /\ PartialOver(part', Span(from, SplitTo(split) + 1))
      BY <2>1, <2>4, <2>9, <2>13
    <3>2. PartialOver(part, Span(SplitFrom(split), SplitTo(split) + 1))'
      BY <2>1, <2>11, <3>1, SameKeys
    <3> QED
      BY <1>1, <2>1, <2>5, <2>11, <2>12, <3>1, <3>2 DEF SumsInv
  <2>14. CASE ~ (j0 + BlockLen > SplitTo(split))
    <3>1. pc' = "block" /\ PartialOver(part', Span(from, j0'))
      BY <2>1, <2>4, <2>9, <2>14
    <3>2. PartialOver(part, Span(SplitFrom(split), j0))'
      BY <2>1, <2>11, <3>1, SameKeys
    <3> QED
      BY <1>1, <2>1, <2>5, <2>11, <2>12, <3>1, <3>2 DEF SumsInv
  <2> QED
    BY <2>13, <2>14
<1>5. CASE MergeSplit
  <2> DEFINE from == SplitFrom(split)
             to == SplitTo(split)
             next == SplitFrom(split + 1)
  <2>1. /\ pc = "merge" /\ pc' = "split" /\ q' = q /\ split' = split + 1
        /\ merged' = Merge(merged, part)
    BY <1>5 DEF MergeSplit
  <2>2. /\ FirstSeen <= LastSeen /\ from \in Int /\ FirstSeen <= from /\ PerSplit \in Nat \ {0}
        /\ to = Smaller(from + PerSplit - 1, LastSeen) /\ to \in Int
        /\ next = from + PerSplit
    BY <1>1, <2>1, SplitTypes
  <2>3. /\ PartialOver(merged, Span(FirstSeen, from))
        /\ PartialOver(part, Span(from, to + 1))
    BY <2>1 DEF SumsInv
  <2>4. SplitFrom(split)' = next /\ FirstSeen' = FirstSeen
    BY <2>1, SameCall
  <2>5. from <= to + 1
    <3>1. to = from + PerSplit - 1 \/ (to = LastSeen /\ LastSeen < from + PerSplit - 1)
      BY <1>2, <2>2 DEF Smaller
    <3>2. CASE to = from + PerSplit - 1
      BY <2>2, <3>2
    <3>3. CASE to = LastSeen /\ LastSeen < from + PerSplit - 1 /\ from <= LastSeen
      BY <1>2, <2>2, <3>3
    <3>4. from <= LastSeen
      BY <2>1 DEF SumsInv
    <3> QED
      BY <1>2, <2>2, <3>1, <3>2, <3>3, <3>4
  <2>6. Span(FirstSeen, from) \cup Span(from, to + 1) = Span(FirstSeen, next)
    <3>1. Span(FirstSeen, from) \cup Span(from, to + 1) = Span(FirstSeen, to + 1)
      <4> HIDE DEF from, to, next
      <4>1. FirstSeen \in Int /\ from \in Int /\ to + 1 \in Int /\ FirstSeen <= from /\ from <= to + 1
        BY <1>2, <2>2, <2>5
      <4> QED
        BY <1>1, <4>1, Spans
    <3>2. CASE to + 1 = next
      BY <3>1, <3>2
    <3>3. CASE to + 1 # next
      <4>1. to = LastSeen /\ LastSeen < next /\ LastSeen < to + 1 /\ next \in Int /\ to + 1 \in Int
        BY <1>2, <2>2, <3>3 DEF Smaller
      <4>2. Span(FirstSeen, to + 1) = Span(FirstSeen, next)
        <5> HIDE DEF to, next
        <5> QED
          BY <1>1, <1>2, <4>1, Spans
      <4> QED
        BY <3>1, <4>2
    <3> QED
      BY <3>2, <3>3
  <2>7. /\ Span(FirstSeen, from) \in SUBSET Keys /\ Span(from, to + 1) \in SUBSET Keys
        /\ Span(FirstSeen, from) \cap Span(from, to + 1) = {}
    <3> HIDE DEF from, to
    <3>1. FirstSeen \in Int /\ from \in Int /\ to + 1 \in Int /\ FirstSeen <= from /\ from <= to + 1
      BY <1>2, <2>2, <2>5
    <3> QED
      BY <1>1, <3>1, Spans
  <2>8. PartialOver(Merge(merged, part), Span(FirstSeen, from) \cup Span(from, to + 1))
    <3> HIDE DEF from, to
    <3> QED
      BY <1>1, <2>3, <2>7, MergeExtends
  <2>9. PartialOver(merged', Span(FirstSeen, next))
    BY <2>1, <2>6, <2>8
  <2> HIDE DEF next
  <2>10. PartialOver(merged, Span(FirstSeen, SplitFrom(split)))'
    BY <2>1, <2>4, <2>9, SameKeys
  <2> QED
    BY <1>1, <2>1, <2>10 DEF SumsInv
<1>6. CASE Finish
  <2>1. /\ pc = "split" /\ pc' = "done" /\ q' = q /\ split' = split /\ merged' = merged
        /\ split >= NumSplits \/ SplitFrom(split) > LastSeen
    BY <1>6 DEF Finish, NumSplits
  <2>2. /\ SplitFrom(split) \in Int
        /\ NumSplits <= split => LastSeen < SplitFrom(split)
    BY <1>1, <2>1, SplitTypes
  <2>3. LastSeen < SplitFrom(split)
    BY <1>1, <1>2, <2>1, <2>2
  <2>4. Span(FirstSeen, SplitFrom(split)) = Attended
    BY <1>1, <1>2, <2>2, <2>3, Spans
  <2>5. PartialOver(merged, Attended)
    BY <2>1, <2>4 DEF SumsInv
  <2>6. PartialOver(merged, Attended)'
    BY <2>1, <2>5, SameKeys
  <2> QED
    BY <1>1, <2>1, <2>6 DEF SumsInv
<1>7. CASE UNCHANGED vars
  <2>1. /\ q' = q /\ pc' = pc /\ split' = split /\ j0' = j0 /\ merged' = merged /\ part' = part
    BY <1>7 DEF vars
  <2>2. /\ FirstSeen' = FirstSeen /\ LastSeen' = LastSeen /\ NumSplits' = NumSplits /\ Attended' = Attended
        /\ SplitFrom(split)' = SplitFrom(split) /\ SplitTo(split)' = SplitTo(split)
    BY <2>1, SameCall, SameKeys
  <2> QED
    BY <1>1, <2>1, <2>2, SameKeys DEF SumsInv
<1> QED
  BY <1>3, <1>4, <1>5, <1>6, <1>7 DEF Next

\* The output of the split and tiled computation is that of sdpa, for any
\* lengths, masks, scores, block size and number of splits, whenever the query
\* attends to no key or to one with a finite score.
LEMMA SumsMatch ==
  ASSUME SumsInv, Answered
  PROVE  FlashMatchesSdpa
<1>1. q \in Calls /\ split \in Nat /\ (pc # "done" => FirstSeen <= LastSeen)
  BY DEF SumsInv, FlashInv
<1>2. ASSUME pc = "done" PROVE SameOutput(merged, Sdpa(q, q.i, q.score))
  BY <1>1, <1>2, AllOfThem DEF SumsInv, Answered
<1>3. ASSUME pc = "merge", q.splits <= 1
      PROVE  SameOutput(FlashOutput, Sdpa(q, q.i, q.score))
  <2>1. FirstSeen \in Nat /\ LastSeen \in Int /\ q.splits \in Int
    BY <1>1, CallTypes
  <2>2. NumSplits = 1
    BY <1>3, <2>1 DEF NumSplits, Larger
  <2>3. split = 0
    BY <1>1, <1>3, <2>2 DEF SumsInv
  <2>4. PerSplit \in Nat \ {0} /\ SplitTo(split) = Smaller(SplitFrom(split) + PerSplit - 1, LastSeen)
    BY <1>1, <1>3, SplitTypes
  <2>5. LastSeen - FirstSeen + 1 <= PerSplit
    <3>1. LastSeen - FirstSeen + 1 <= NumSplits * PerSplit
      BY <1>1, <1>3, SplitTypes
    <3> QED
      BY <2>2, <2>4, <3>1
  <2>6. SplitFrom(split) = FirstSeen
    BY <2>1, <2>3, <2>4 DEF SplitFrom
  <2>7. SplitTo(split) = LastSeen
    BY <2>1, <2>4, <2>5, <2>6 DEF Smaller
  <2>8. Span(FirstSeen, LastSeen + 1) = Attended
    BY <1>1, <2>1, Spans
  <2>9. PartialOver(part, Attended)
    BY <1>3, <2>6, <2>7, <2>8 DEF SumsInv
  <2> QED
    BY <1>1, <2>9, AllOfThem DEF Answered, FlashOutput
<1> QED
  BY <1>2, <1>3 DEF FlashMatchesSdpa

\* Which keys a call masks is settled when it is made.
LEMMA AnsweredStays == SumsInv /\ Answered /\ [Next]_vars => Answered'
<1> SUFFICES ASSUME Answered, [Next]_vars PROVE Answered'
  OBVIOUS
<1>1. q' = q
  BY DEF Next, BeginSplit, BlockStep, MergeSplit, Finish, vars
<1> QED
  BY <1>1, SameKeys

\* Flash attention and flash decoding give the softmax that sdpa does
\* (FlashMatchesSdpa), for any lengths of query and cache, masks, scores,
\* block size and number of splits: rescaling loses nothing and merging
\* neither drops nor doubles a split.  As in the run, an additive mask leaves
\* some key of every row that attends to any.
THEOREM FlashExact ==
  ASSUME ~ HardMasked
  PROVE  Spec => []FlashMatchesSdpa
<1>1. Init => SumsInv /\ Answered
  BY InitSums DEF Init, Answered, Attended
<1>2. SumsInv /\ Answered /\ [Next]_vars => (SumsInv /\ Answered)'
  BY NextSums, AnsweredStays
<1>3. SumsInv /\ Answered => FlashMatchesSdpa
  BY SumsMatch
<1> QED
  BY <1>1, <1>2, <1>3, PTL DEF Spec

\* With any additive mask: a call whose query attends to a key with a finite
\* score, or to none, is answered as sdpa answers it.
THEOREM FlashExactWhereAnswered == Spec => [](Answered => FlashMatchesSdpa)
<1>1. SumsInv => (Answered => FlashMatchesSdpa)
  BY SumsMatch
<1> QED
  BY <1>1, InitSums, NextSums, PTL DEF Spec

---------------------------------------------------------------------------
(* The mask of a tree of drafts *)

\* A tree: parents come before their children, and a root has none or itself.
IsTree ==
  \E n \in Nat \ {0} :
    /\ parents \in [0 .. n - 1 -> Int]
    /\ \A c \in 0 .. n - 1 : -1 <= parents[c] /\ parents[c] <= c

\* The nodes below c, each with its path.
IsPaths(c, g) ==
  g = [n \in 0 .. c |-> IF parents[n] \in {-1, n} THEN {n} ELSE {n} \cup g[parents[n]]]

\* Nodes, their number, and the keys.
LEMMA TreeNodes ==
  ASSUME IsTree, n_history \in Nat
  PROVE  \E n \in Nat \ {0} :
           /\ Nodes = 0 .. n - 1 /\ Cardinality(Nodes) = n
           /\ TreeKeys = 0 .. n_history + n - 1
           /\ IsFiniteSet(TreeKeys) /\ Cardinality(TreeKeys) = n_history + n
           /\ \A c \in Nodes : parents[c] \in Int /\ -1 <= parents[c] /\ parents[c] <= c
<1>1. PICK n \in Nat \ {0} : /\ parents \in [0 .. n - 1 -> Int]
                             /\ \A c \in 0 .. n - 1 : -1 <= parents[c] /\ parents[c] <= c
  BY DEF IsTree
<1>2. Nodes = 0 .. n - 1
  BY <1>1 DEF Nodes
<1>3. Cardinality(Nodes) = n
  BY <1>2, FS_Interval
<1>4. TreeKeys = 0 .. n_history + n - 1
  BY <1>3 DEF TreeKeys
<1>5. IsFiniteSet(TreeKeys) /\ Cardinality(TreeKeys) = n_history + n
  BY <1>4, FS_Interval
<1> QED
  BY <1>1, <1>2, <1>3, <1>4, <1>5

\* The path of one of them.
LEMMA PathsAt ==
  ASSUME NEW c, NEW g, IsPaths(c, g), NEW n \in 0 .. c
  PROVE  g[n] = IF parents[n] \in {-1, n} THEN {n} ELSE {n} \cup g[parents[n]]
<1> DEFINE F(m) == IF parents[m] \in {-1, m} THEN {m} ELSE {m} \cup g[parents[m]]
<1>1. g = [m \in 0 .. c |-> F(m)]
  BY DEF IsPaths
<1> HIDE DEF F
<1>2. g[n] = F(n)
  BY <1>1, Zenon
<1> QED
  BY <1>2 DEF F

\* There is one way to compute the paths.
LEMMA PathsAgree ==
  ASSUME IsTree, n_history \in Nat, NEW c \in Nodes, NEW d \in Nodes,
         NEW g, IsPaths(c, g), NEW h, IsPaths(d, h)
  PROVE  \A n \in Nat : n <= c /\ n <= d => g[n] = h[n]
<1> DEFINE S == {m \in Nat : \A n \in Nat : n <= m /\ n <= c /\ n <= d => g[n] = h[n]}
<1>0. c \in Nat /\ d \in Nat /\ \A n \in Nat : n <= c =>
        parents[n] \in Int /\ -1 <= parents[n] /\ parents[n] <= n
  BY TreeNodes
<1>1. ASSUME NEW n \in Nat, n <= c, n <= d, \A o \in Nat : o < n => g[o] = h[o]
      PROVE  g[n] = h[n]
  <2>1. /\ g[n] = IF parents[n] \in {-1, n} THEN {n} ELSE {n} \cup g[parents[n]]
        /\ h[n] = IF parents[n] \in {-1, n} THEN {n} ELSE {n} \cup h[parents[n]]
    <3>1. n \in 0 .. c /\ n \in 0 .. d
      BY <1>0, <1>1
    <3> QED
      BY <3>1, PathsAt
  <2>2. parents[n] \notin {-1, n} => parents[n] \in Nat /\ parents[n] < n
    BY <1>0, <1>1
  <2> QED
    BY <1>1, <2>1, <2>2
<1>2. 0 \in S
  <2> SUFFICES ASSUME NEW n \in Nat, n <= 0, n <= c, n <= d PROVE g[n] = h[n]
    OBVIOUS
  <2> QED
    BY <1>1
<1>3. \A m \in Nat : m \in S => m + 1 \in S
  <2> SUFFICES ASSUME NEW m \in Nat, m \in S, NEW n \in Nat, n <= m + 1, n <= c, n <= d
               PROVE  g[n] = h[n]
    OBVIOUS
  <2>1. \A o \in Nat : o < n => g[o] = h[o]
    <3> SUFFICES ASSUME NEW o \in Nat, o < n PROVE g[o] = h[o]
      OBVIOUS
    <3>1. o <= m /\ o <= c /\ o <= d
      BY <1>0
    <3> QED
      BY <3>1
  <2> QED
    BY <1>1, <2>1
<1> HIDE DEF S
<1>4. \A m \in Nat : m \in S
  BY <1>2, <1>3, SetInduction
<1> QED
  BY <1>4 DEF S

\* The paths of the nodes up to any node can be computed.
LEMMA PathsExist ==
  ASSUME IsTree, n_history \in Nat
  PROVE  \A c \in Nodes : \E g : IsPaths(c, g)
<1> DEFINE S == {c \in Nat : c \in Nodes => \E g : IsPaths(c, g)}
<1>0. PICK N \in Nat \ {0} :
        /\ Nodes = 0 .. N - 1
        /\ \A c \in Nodes : parents[c] \in Int /\ -1 <= parents[c] /\ parents[c] <= c
  BY TreeNodes
<1>1. 0 \in S
  <2>1. parents[0] \in {-1, 0}
    <3>1. parents[0] \in Int /\ -1 <= parents[0] /\ parents[0] <= 0
      BY <1>0
    <3> QED
      BY <3>1
  <2>2. IsPaths(0, [n \in 0 .. 0 |-> {0}])
    BY <2>1 DEF IsPaths
  <2> QED
    BY <2>2
<1>2. \A c \in Nat : c \in S => c + 1 \in S
  <2> SUFFICES ASSUME NEW c \in Nat, c \in S, c + 1 \in Nodes
               PROVE  \E g : IsPaths(c + 1, g)
    OBVIOUS
  <2>1. PICK g : IsPaths(c, g)
    BY <1>0
  <2> DEFINE Up(f, n) == IF parents[n] \in {-1, n} THEN {n} ELSE {n} \cup f[parents[n]]
             h == [n \in 0 .. c + 1 |-> IF n <= c THEN g[n] ELSE Up(g, n)]
  <2>2. \A n \in 0 .. c : h[n] = g[n]
    OBVIOUS
  <2>3. ASSUME NEW n \in 0 .. c + 1 PROVE h[n] = Up(h, n)
    <3>1. h[n] = Up(g, n)
      <4>1. CASE n <= c
        <5>1. n \in 0 .. c /\ h[n] = g[n]
          BY <4>1
        <5> HIDE DEF h
        <5>2. g[n] = Up(g, n)
          BY <2>1, <5>1, PathsAt
        <5> QED
          BY <5>1, <5>2
      <4>2. CASE n > c
        BY <4>2
      <4> QED
        BY <4>1, <4>2
    <3>2. parents[n] \notin {-1, n} => parents[n] \in 0 .. c
      <4>1. parents[n] \in Int /\ -1 <= parents[n] /\ parents[n] <= n
        BY <1>0
      <4> QED
        BY <4>1
    <3> HIDE DEF h
    <3> QED
      BY <2>2, <3>1, <3>2
  <2>4. h = [n \in 0 .. c + 1 |-> h[n]]
    OBVIOUS
  <2> HIDE DEF h
  <2>5. IsPaths(c + 1, h)
    BY <2>3, <2>4 DEF IsPaths
  <2> QED
    BY <2>5
<1> HIDE DEF S
<1>3. \A c \in Nat : c \in S
  BY <1>1, <1>2, SetInduction
<1> QED
  BY <1>0, <1>3 DEF S

\* The path of a node is the node and the path of its parent, if it has one.
LEMMA PathUnfolds ==
  ASSUME IsTree, n_history \in Nat, NEW c \in Nodes
  PROVE  /\ NextUp(c) \in -1 .. c - 1
         /\ PathOf(c) = {c} \cup (IF NextUp(c) < 0 THEN {} ELSE PathOf(NextUp(c)))
<1> DEFINE G(n) == CHOOSE g : IsPaths(n, g)
<1>0. PICK N \in Nat \ {0} :
        /\ Nodes = 0 .. N - 1
        /\ \A n \in Nodes : parents[n] \in Int /\ -1 <= parents[n] /\ parents[n] <= n
  BY TreeNodes
<1>1. \A n \in Nodes : IsPaths(n, G(n))
  BY PathsExist
<1>2. \A n \in Nodes : PathOf(n) = G(n)[n]
  BY DEF PathOf, IsPaths
<1> HIDE DEF G
<1>3. c \in Nat /\ parents[c] \in Int /\ -1 <= parents[c] /\ parents[c] <= c
  BY <1>0
<1>4. NextUp(c) \in -1 .. c - 1
  BY <1>3 DEF NextUp
<1>5. G(c)[c] = IF parents[c] \in {-1, c} THEN {c} ELSE {c} \cup G(c)[parents[c]]
  <2>1. c \in 0 .. c /\ IsPaths(c, G(c))
    BY <1>1, <1>3
  <2> QED
    BY <2>1, PathsAt
<1>6. CASE parents[c] \in {-1, c}
  BY <1>2, <1>4, <1>5, <1>6 DEF NextUp
<1>7. CASE parents[c] \notin {-1, c}
  <2> DEFINE d == parents[c]
  <2>1. d \in Nat /\ d < c /\ d \in Nodes /\ NextUp(c) = d
    BY <1>0, <1>3, <1>7 DEF NextUp
  <2> HIDE DEF d
  <2>2. G(c)[d] = G(d)[d]
    BY <1>1, <1>3, <2>1, PathsAgree
  <2>3. G(c)[c] = {c} \cup G(c)[d]
    BY <1>5, <1>7, Zenon DEF d
  <2>4. PathOf(c) = {c} \cup PathOf(d)
    BY <1>2, <2>1, <2>2, <2>3
  <2>5. ~ (NextUp(c) < 0)
    BY <2>1
  <2> QED
    BY <1>4, <2>1, <2>4, <2>5
<1> QED
  BY <1>6, <1>7

\* The keys a node should see, those it has been given, and those that a walk
\* which is at node n has still to give it.
PathKeys(c) == (0 .. n_history - 1) \cup {n_history + n : n \in PathOf(c)}
Seen(c) == {j \in TreeKeys : bias_out[c][j]}
Ahead(n) == IF n < 0 THEN {} ELSE PathKeys(n)

\* The inductive invariant: a row that is done shows the path of its node, the
\* one being built shows it up to where the walk is, the others the history.
TreeInv ==
  /\ IsTree /\ n_history \in Nat
  /\ row \in Nat /\ row <= Cardinality(Nodes)
  /\ node \in Int /\ (row \in Nodes => node \in -1 .. row)
  /\ bias_out \in [Nodes -> [TreeKeys -> BOOLEAN]]
  /\ \A c \in Nodes :
       /\ c < row => Seen(c) = PathKeys(c)
       /\ c = row => Seen(c) \cup Ahead(node) = PathKeys(c)
       /\ 0 .. n_history - 1 \subseteq Seen(c)
       /\ c > row => Seen(c) = 0 .. n_history - 1

\* What a node should see are keys, itself among them.
LEMMA PathKeysIn ==
  ASSUME IsTree, n_history \in Nat
  PROVE  \A c \in Nodes : PathKeys(c) \subseteq TreeKeys /\ Column(c) \in PathKeys(c)
<1>0. PICK N \in Nat \ {0} : Nodes = 0 .. N - 1 /\ TreeKeys = 0 .. n_history + N - 1
  BY TreeNodes
<1> DEFINE S == {m \in Nat : \A c \in Nodes : c <= m => PathOf(c) \subseteq Nodes}
<1>1. ASSUME NEW c \in Nodes, \A d \in Nodes : d < c => PathOf(d) \subseteq Nodes
      PROVE  PathOf(c) \subseteq Nodes
  <2>1. /\ NextUp(c) \in -1 .. c - 1
        /\ PathOf(c) = {c} \cup (IF NextUp(c) < 0 THEN {} ELSE PathOf(NextUp(c)))
    BY PathUnfolds
  <2>2. CASE NextUp(c) < 0
    BY <2>1, <2>2
  <2>3. CASE ~ (NextUp(c) < 0)
    <3>1. NextUp(c) \in Nodes /\ NextUp(c) < c
      BY <1>0, <2>1, <2>3
    <3> QED
      BY <1>1, <2>1, <2>3, <3>1
  <2> QED
    BY <2>2, <2>3
<1>2. 0 \in S
  BY <1>0, <1>1
<1>3. \A m \in Nat : m \in S => m + 1 \in S
  <2> SUFFICES ASSUME NEW m \in Nat, m \in S, NEW c \in Nodes, c <= m + 1
               PROVE  PathOf(c) \subseteq Nodes
    OBVIOUS
  <2>1. \A d \in Nodes : d < c => PathOf(d) \subseteq Nodes
    BY <1>0
  <2> QED
    BY <1>1, <2>1
<1> HIDE DEF S
<1>4. \A m \in Nat : m \in S
  BY <1>2, <1>3, SetInduction
<1>5. \A c \in Nodes : PathOf(c) \subseteq Nodes
  BY <1>0, <1>4 DEF S
<1> SUFFICES ASSUME NEW c \in Nodes
             PROVE  PathKeys(c) \subseteq TreeKeys /\ Column(c) \in PathKeys(c)
  OBVIOUS
<1>6. c \in PathOf(c)
  BY PathUnfolds
<1>7. \A n \in PathOf(c) : n_history + n \in TreeKeys
  BY <1>0, <1>5
<1>8. 0 .. n_history - 1 \subseteq TreeKeys
  BY <1>0
<1> QED
  BY <1>6, <1>7, <1>8 DEF PathKeys, Column

\* Before the first walk.
LEMMA TreeStart == TreeInit => TreeInv
<1> SUFFICES ASSUME TreeInit PROVE TreeInv
  OBVIOUS
<1>1. PICK n \in 1 .. MaxNodes :
        parents \in {f \in [0 .. n - 1 -> -1 .. n - 1] :
          \A c \in 0 .. n - 1 : IF self_loops THEN f[c] \in 0 .. c ELSE f[c] < c}
  BY DEF TreeInit
<1>2. n \in Nat \ {0} /\ n_history \in Nat
  BY TreeAssumption DEF TreeInit
<1>3. /\ parents \in [0 .. n - 1 -> Int]
      /\ \A c \in 0 .. n - 1 : -1 <= parents[c] /\ parents[c] <= c
  <2>1. parents \in [0 .. n - 1 -> -1 .. n - 1]
    BY <1>1
  <2>2. ASSUME NEW c \in 0 .. n - 1 PROVE -1 <= parents[c] /\ parents[c] <= c
    <3>1. parents[c] \in -1 .. n - 1 /\ (parents[c] \in 0 .. c \/ parents[c] < c)
      BY <1>1, <2>1
    <3> QED
      BY <1>2, <3>1
  <2> QED
    BY <2>1, <2>2
<1>4. IsTree
  BY <1>2, <1>3 DEF IsTree
<1>5. PICK N \in Nat \ {0} : /\ Nodes = 0 .. N - 1 /\ Cardinality(Nodes) = N
                             /\ TreeKeys = 0 .. n_history + N - 1
  BY <1>2, <1>4, TreeNodes
<1>6. bias_out = [c \in Nodes |-> Blank] /\ row = 0 /\ node = 0
  BY DEF TreeInit
<1>7. bias_out \in [Nodes -> [TreeKeys -> BOOLEAN]]
  BY <1>6 DEF Blank
<1>8. ASSUME NEW c \in Nodes PROVE Seen(c) = 0 .. n_history - 1
  <2>1. \A j \in TreeKeys : bias_out[c][j] = (j < n_history)
    BY <1>6 DEF Blank
  <2> QED
    <3>1. Seen(c) = {j \in TreeKeys : j < n_history}
      BY <2>1 DEF Seen
    <3> QED
      BY <1>2, <1>5, <3>1
<1>9. 0 \in Nodes /\ Seen(0) \cup Ahead(0) = PathKeys(0)
  <2>1. 0 \in Nodes /\ Ahead(0) = PathKeys(0)
    BY <1>5 DEF Ahead
  <2>2. Seen(0) \subseteq PathKeys(0)
    BY <1>8, <2>1 DEF PathKeys
  <2> QED
    BY <2>1, <2>2
<1> QED
  BY <1>2, <1>4, <1>5, <1>6, <1>7, <1>8, <1>9 DEF TreeInv

\* What depends on the call alone.
LEMMA SameTree ==
  ASSUME parents' = parents, n_history' = n_history
  PROVE  /\ (IsTree' <=> IsTree) /\ Nodes' = Nodes /\ TreeKeys' = TreeKeys
         /\ \A c : PathKeys(c)' = PathKeys(c) /\ Ahead(c)' = Ahead(c)
BY DEF IsTree, Nodes, TreeKeys, PathKeys, PathOf, Ahead

\* A step of a walk gives its row the node it is at.
LEMMA WalkStep == TreeInv /\ Walk => TreeInv'
<1> SUFFICES ASSUME TreeInv, Walk PROVE TreeInv'
  OBVIOUS
<1>0. IsTree /\ n_history \in Nat
  BY DEF TreeInv
<1>1. PICK N \in Nat \ {0} : /\ Nodes = 0 .. N - 1 /\ Cardinality(Nodes) = N
                             /\ TreeKeys = 0 .. n_history + N - 1
  BY <1>0, TreeNodes
<1>2. /\ row \in Nodes /\ node \in 0 .. row /\ node \in Nodes
      /\ bias_out' = [bias_out EXCEPT ![row][Column(node)] = TRUE]
      /\ node' = NextUp(node) /\ row' = row
  BY <1>1 DEF TreeInv, Walk
<1>3. /\ IsTree' /\ n_history' = n_history /\ Nodes' = Nodes /\ TreeKeys' = TreeKeys
      /\ \A c : PathKeys(c)' = PathKeys(c) /\ Ahead(c)' = Ahead(c)
  BY <1>0, SameTree DEF Walk
<1>4. /\ NextUp(node) \in -1 .. node - 1
      /\ PathOf(node) = {node} \cup (IF NextUp(node) < 0 THEN {} ELSE PathOf(NextUp(node)))
  BY <1>0, <1>2, PathUnfolds
<1>5. bias_out \in [Nodes -> [TreeKeys -> BOOLEAN]] /\ Column(node) \in TreeKeys
  BY <1>0, <1>2, PathKeysIn DEF TreeInv
<1>6. bias_out' \in [Nodes -> [TreeKeys -> BOOLEAN]]
  BY <1>2, <1>5
<1>7. /\ \A c \in Nodes : c # row => bias_out'[c] = bias_out[c]
      /\ \A j \in TreeKeys : bias_out'[row][j] <=> bias_out[row][j] \/ j = Column(node)
  BY <1>2, <1>5
<1>8. /\ \A c \in Nodes : c # row => Seen(c)' = Seen(c)
      /\ Seen(row)' = Seen(row) \cup {Column(node)}
  BY <1>2, <1>3, <1>5, <1>7 DEF Seen
<1>9. Seen(row) \cup Ahead(node) = PathKeys(row) /\ 0 .. n_history - 1 \subseteq Seen(row)
  BY <1>2 DEF TreeInv
<1>10. PathKeys(node) = (0 .. n_history - 1) \cup {Column(node)} \cup Ahead(NextUp(node))
  <2>1. CASE NextUp(node) < 0
    BY <1>4, <2>1 DEF PathKeys, Column, Ahead
  <2>2. CASE ~ (NextUp(node) < 0)
    BY <1>4, <2>2 DEF PathKeys, Column, Ahead
  <2> QED
    BY <2>1, <2>2
<1>11. Ahead(node) = PathKeys(node)
  BY <1>2 DEF Ahead
<1>12. (Seen(row) \cup {Column(node)}) \cup Ahead(NextUp(node)) = PathKeys(row)
  BY <1>9, <1>10, <1>11
<1>13. row \in Nat /\ row <= N /\ node' \in -1 .. row
  BY <1>1, <1>2, <1>4
<1>14. ASSUME NEW c \in Nodes
       PROVE  /\ c < row => Seen(c)' = PathKeys(c)
              /\ c = row => Seen(c)' \cup Ahead(node') = PathKeys(c)
              /\ 0 .. n_history - 1 \subseteq Seen(c)'
              /\ c > row => Seen(c)' = 0 .. n_history - 1
  <2>1. c \in Int /\ row \in Int
    BY <1>1, <1>13
  <2>2. CASE c = row
    BY <1>2, <1>8, <1>9, <1>12, <2>1, <2>2
  <2>3. CASE c # row
    BY <1>8, <2>3 DEF TreeInv
  <2> QED
    BY <2>2, <2>3
<1>15. \A c : Ahead(c)' = (IF c < 0 THEN {} ELSE PathKeys(c)')
  BY DEF Ahead
<1> QED
  BY <1>1, <1>2, <1>3, <1>6, <1>13, <1>14, <1>0 DEF TreeInv

\* The next row begins when the walk of this one is over.
LEMMA NextRowStep == TreeInv /\ NextRow => TreeInv'
<1> SUFFICES ASSUME TreeInv, NextRow PROVE TreeInv'
  OBVIOUS
<1>0. IsTree /\ n_history \in Nat
  BY DEF TreeInv
<1>1. PICK N \in Nat \ {0} : /\ Nodes = 0 .. N - 1 /\ Cardinality(Nodes) = N
                             /\ TreeKeys = 0 .. n_history + N - 1
  BY <1>0, TreeNodes
<1>2. /\ row \in Nodes /\ node < 0
      /\ row' = row + 1 /\ node' = row + 1 /\ bias_out' = bias_out
  BY DEF NextRow
<1>3. /\ IsTree' /\ n_history' = n_history /\ Nodes' = Nodes /\ TreeKeys' = TreeKeys
      /\ \A c : PathKeys(c)' = PathKeys(c)
  BY <1>0, SameTree DEF NextRow
<1>4. row' \in Nat /\ row' <= N /\ node' \in Int /\ (row' \in Nodes => node' \in -1 .. row')
  BY <1>1, <1>2
<1>5. ASSUME NEW c \in Nodes
      PROVE  /\ c < row + 1 => Seen(c) = PathKeys(c)
             /\ c = row + 1 => Seen(c) \cup PathKeys(c) = PathKeys(c)
             /\ 0 .. n_history - 1 \subseteq Seen(c)
             /\ c > row + 1 => Seen(c) = 0 .. n_history - 1
  <2>1. c \in Nat /\ row \in Nat
    BY <1>1, <1>2
  <2>2. /\ c < row => Seen(c) = PathKeys(c)
        /\ c = row => Seen(c) = PathKeys(c)
        /\ c > row => Seen(c) = 0 .. n_history - 1
        /\ 0 .. n_history - 1 \subseteq Seen(c)
    BY <1>2 DEF TreeInv, Ahead
  <2>3. 0 .. n_history - 1 \subseteq PathKeys(c)
    BY DEF PathKeys
  <2>4. /\ c < row + 1 => c < row \/ c = row
        /\ c = row + 1 => c > row
        /\ c > row + 1 => c > row
    BY <2>1
  <2>5. c = row + 1 => Seen(c) \cup PathKeys(c) = PathKeys(c)
    BY <2>2, <2>3, <2>4
  <2> QED
    BY <2>2, <2>4, <2>5, Zenon
<1>6. \A c : Seen(c)' = Seen(c)
  BY <1>2, <1>3 DEF Seen
<1>7. ASSUME NEW c \in Nodes, c = row' PROVE Ahead(node)' = PathKeys(c)
  <2>1. c \in Nat /\ node' = c
    BY <1>1, <1>2, <1>7
  <2>2. Ahead(node)' = IF node' < 0 THEN {} ELSE PathKeys(node)'
    BY DEF Ahead
  <2>3. PathKeys(node)' = PathKeys(c)'
    BY <2>1 DEF PathKeys
  <2> QED
    BY <1>3, <2>1, <2>2, <2>3
<1>8. bias_out' \in [Nodes -> [TreeKeys -> BOOLEAN]]
  BY <1>2 DEF TreeInv
<1> QED
  BY <1>0, <1>1, <1>2, <1>3, <1>4, <1>5, <1>6, <1>7, <1>8 DEF TreeInv

\* Every step keeps the invariant.
LEMMA TreeSteps == TreeInv /\ [TreeNext]_treeVars => TreeInv'
<1> SUFFICES ASSUME TreeInv, [TreeNext]_treeVars PROVE TreeInv'
  OBVIOUS
<1>1. CASE UNCHANGED treeVars
  <2>1. /\ parents' = parents /\ n_history' = n_history /\ bias_out' = bias_out
        /\ row' = row /\ node' = node
    BY <1>1 DEF treeVars
  <2>2. /\ (IsTree' <=> IsTree) /\ Nodes' = Nodes /\ TreeKeys' = TreeKeys
        /\ \A c : PathKeys(c)' = PathKeys(c) /\ Ahead(c)' = Ahead(c)
    BY <2>1, SameTree
  <2>3. \A c : Seen(c)' = Seen(c)
    BY <2>1, <2>2 DEF Seen
  <2>4. Ahead(node)' = Ahead(node)
    BY <2>1, <2>2 DEF Ahead, PathKeys, PathOf
  <2> QED
    BY <2>1, <2>2, <2>3, <2>4 DEF TreeInv
<1> QED
  BY <1>1, WalkStep, NextRowStep DEF TreeNext

\* Keys that are masked by a bias weigh as much as keys that are not there.
LEMMA MaskedIsAbsent ==
  ASSUME NEW S, IsFiniteSet(S), NEW R \in SUBSET S, R # {},
         NEW raw \in [S -> 0 .. MaxScore]
  PROVE  SameOutput(Softmax([j \in S |-> IF j \in R THEN raw[j] ELSE NegInf], S), Softmax(raw, R))
<1> DEFINE f == [j \in S |-> IF j \in R THEN raw[j] ELSE NegInf]
           V == {raw[j] : j \in R} \cup {NegInf}
           m == Max(V)
           x == [j \in S |-> Exp(f[j], m)]
           y == [j \in S |-> IF j \in R THEN Exp(raw[j], m) ELSE 0]
<1>0. MaxScore \in Nat /\ V \subseteq Scores
  BY ScoreAssumption DEF Scores, NegInf
<1>1. m \in Scores /\ \A j \in R : raw[j] <= m
  <2>1. Max(V) \in V /\ \A w \in V : Max(V) >= w
    <3> HIDE DEF V
    <3>1. V # {}
      BY DEF V
    <3> QED
      BY <1>0, <3>1, LargestScore
  <2>2. \A j \in R : raw[j] \in V /\ raw[j] \in Int
    BY <1>0
  <2> HIDE DEF V
  <2>3. m \in Scores
    BY <1>0, <2>1
  <2>4. m \in Int
    BY <2>3, <1>0 DEF Scores, NegInf
  <2> QED
    BY <2>1, <2>2, <2>3, <2>4
<1>2. {f[j] : j \in S} \cup {NegInf} = V
  <2>1. \A j \in S : f[j] \in V
    OBVIOUS
  <2>2. \A j \in R : raw[j] \in {f[i] : i \in S}
    OBVIOUS
  <2> HIDE DEF f
  <2> QED
    BY <2>1, <2>2
<1>3. MaxScoreOf(f, S) = m /\ MaxScoreOf(raw, R) = m
  <2> HIDE DEF f
  <2> QED
    BY <1>2 DEF MaxScoreOf
<1> HIDE DEF m, V
<1>4. \A j \in R : Exp(raw[j], m) \in Nat
  <2> SUFFICES ASSUME NEW j \in R PROVE Exp(raw[j], m) \in Nat
    OBVIOUS
  <2>1. raw[j] \in Scores /\ raw[j] <= m /\ m <= m
    BY <1>0, <1>1 DEF Scores, NegInf
  <2> QED
    BY <1>1, <2>1, ExpOK
<1>5. Exp(NegInf, m) = 0
  BY DEF Exp
<1>6. x = y
  BY <1>5
<1>7. \A j \in S : y[j] \in Nat /\ y[j] = IF j \in R THEN y[j] ELSE 0
  BY <1>4
<1>8. m # NegInf
  <2>1. PICK j \in R : TRUE
    OBVIOUS
  <2>2. raw[j] \in 0 .. MaxScore /\ raw[j] <= m
    BY <1>1
  <2> QED
    BY <2>2, <1>0, <1>1 DEF NegInf, Scores
<1> HIDE DEF x
<1>9. Softmax(f, S) = [m |-> m, acc |-> x, l |-> SumFunctionOnSet(x, S)]
  <2>1. [j \in DOMAIN f |-> IF j \in S THEN Exp(f[j], m) ELSE 0] = x
    BY DEF x
  <2> HIDE DEF f
  <2> QED
    BY <1>3, <1>8, <2>1 DEF Softmax
<1>10. Softmax(raw, R) = [m |-> m, acc |-> y, l |-> SumFunctionOnSet(y, R)]
  <2>1. [j \in DOMAIN raw |-> IF j \in R THEN Exp(raw[j], m) ELSE 0] = y
    OBVIOUS
  <2> HIDE DEF y
  <2> QED
    BY <1>3, <1>8, <2>1 DEF Softmax
<1> HIDE DEF y
<1>11. SumFunctionOnSet(y, R) = SumFunctionOnSet(y, S)
  BY <1>7, SumWithoutZeros
<1> HIDE DEF f
<1>12. Softmax(f, S) = Softmax(raw, R)
  BY <1>6, <1>9, <1>10, <1>11
<1>13. \A z : SameOutput(z, z)
  BY DEF SameOutput
<1> QED
  BY <1>12, <1>13 DEF f

\* A row that is done leaves a node the softmax over its path.
LEMMA PathFollows == TreeInv => TreeMatchesPath
<1> SUFFICES ASSUME TreeInv, NEW c \in Nodes, c < row
             PROVE  LET tree  == [causal |-> FALSE, window |-> 0, chunk |-> 0,
                                  seq_q |-> Cardinality(Nodes), seq_k |-> Cardinality(TreeKeys)]
                        raw   == [j \in TreeKeys |-> j % (MaxScore + 1)]
                        path  == (0 .. n_history - 1) \cup {n_history + n : n \in PathOf(c)}
                    IN  SameOutput(Sdpa(tree, c, [j \in TreeKeys |-> IF bias_out[c][j] THEN raw[j] ELSE NegInf]),
                                   Softmax(raw, path))
  BY DEF TreeMatchesPath
<1> DEFINE tree  == [causal |-> FALSE, window |-> 0, chunk |-> 0,
                     seq_q |-> Cardinality(Nodes), seq_k |-> Cardinality(TreeKeys)]
           raw   == [j \in TreeKeys |-> j % (MaxScore + 1)]
           path  == (0 .. n_history - 1) \cup {n_history + n : n \in PathOf(c)}
           score == [j \in TreeKeys |-> IF bias_out[c][j] THEN raw[j] ELSE NegInf]
<1>0. IsTree /\ n_history \in Nat
  BY DEF TreeInv
<1>1. PICK N \in Nat \ {0} : /\ Nodes = 0 .. N - 1 /\ Cardinality(Nodes) = N
                             /\ TreeKeys = 0 .. n_history + N - 1
                             /\ IsFiniteSet(TreeKeys) /\ Cardinality(TreeKeys) = n_history + N
  BY <1>0, TreeNodes
<1>2. AttendedKeys(tree, c) = TreeKeys
  <2>1. /\ ~ tree.causal /\ ~ (tree.window > 0) /\ ~ (tree.chunk > 0)
        /\ tree.seq_k = n_history + N
    BY <1>1
  <2> HIDE DEF tree
  <2>2. FirstKey(tree, c) = 0 /\ LastKey(tree, c) = n_history + N - 1
    <3>1. FirstKey(tree, c) = 0
      BY <2>1, Zenon DEF FirstKey
    <3>2. LastKey(tree, c) = tree.seq_k - 1
      BY <2>1, Zenon DEF LastKey
    <3> QED
      BY <1>0, <2>1, <3>1, <3>2
  <2>3. \A j : MaskAllows(tree, c, j)
    BY <2>1, Zenon DEF MaskAllows
  <2> QED
    BY <1>1, <2>2, <2>3 DEF AttendedKeys, AllowedIn
<1>3. path = PathKeys(c)
  BY DEF PathKeys
<1>4. path \subseteq TreeKeys /\ path # {}
  <2> HIDE DEF path
  <2> QED
    BY <1>0, <1>3, PathKeysIn
<1>5. Seen(c) = path
  <2> HIDE DEF path
  <2> QED
    BY <1>3 DEF TreeInv
<1>6. score = [j \in TreeKeys |-> IF j \in path THEN raw[j] ELSE NegInf]
  <2>1. \A j \in TreeKeys : bias_out[c][j] <=> j \in path
    <3> HIDE DEF path
    <3> QED
      BY <1>5 DEF Seen
  <2> HIDE DEF path, raw
  <2> QED
    BY <2>1
<1>7. raw \in [TreeKeys -> 0 .. MaxScore]
  <2>1. \A j \in TreeKeys : j % (MaxScore + 1) \in 0 .. MaxScore
    <3> SUFFICES ASSUME NEW j \in TreeKeys PROVE j % (MaxScore + 1) \in 0 .. MaxScore
      OBVIOUS
    <3>1. j \in Int /\ MaxScore + 1 \in Nat \ {0}
      BY <1>1, ScoreAssumption
    <3> QED
      BY <3>1, ScoreAssumption
  <2> QED
    BY <2>1
<1> HIDE DEF tree, raw, path, score
<1>8. SameOutput(Softmax(score, TreeKeys), Softmax(raw, path))
  BY <1>1, <1>4, <1>6, <1>7, MaskedIsAbsent
<1>9. SameOutput(Sdpa(tree, c, score), Softmax(raw, path))
  BY <1>2, <1>8 DEF Sdpa
<1> QED
  BY <1>9 DEF tree, raw, path, score

\* Tree attention (TreeMatchesPath), for trees and histories of any size: the
\* bias that build_tree_attention_bias makes lets a node see the history and
\* its own path, and no other branch, so a draft is scored as if it were
\* decoded alone.
THEOREM TreeExact == TreeSpec => []TreeMatchesPath
<1> QED
  BY TreeStart, TreeSteps, PathFollows, PTL DEF TreeSpec

---------------------------------------------------------------------------
(* Top-k *)

\* Of each pair of pairs, one is before the other.
Pairs == Int \X Int

LEMMA BeforeTotal ==
  /\ \A a, b \in Pairs : a = b \/ Before(a, b) \/ Before(b, a)
  /\ \A a, b \in Pairs : Before(a, b) => ~ Before(b, a) /\ a # b
  /\ \A a, b, c \in Pairs : Before(a, b) /\ Before(b, c) => Before(a, c)
<1>1. \A a \in Pairs : a[1] \in Int /\ a[2] \in Int /\ a = <<a[1], a[2]>>
  BY DEF Pairs
<1>2. ASSUME NEW a \in Pairs, NEW b \in Pairs
      PROVE  /\ a = b \/ Before(a, b) \/ Before(b, a)
             /\ Before(a, b) => ~ Before(b, a) /\ a # b
  <2>1. a[1] = b[1] /\ a[2] = b[2] => a = b
    BY <1>1
  <2>2. a[1] \in Int /\ a[2] \in Int /\ b[1] \in Int /\ b[2] \in Int
    BY <1>1
  <2> QED
    BY <2>1, <2>2 DEF Before
<1>3. ASSUME NEW a \in Pairs, NEW b \in Pairs, NEW c \in Pairs, Before(a, b), Before(b, c)
      PROVE  Before(a, c)
  <2>1. /\ a[1] \in Int /\ a[2] \in Int /\ b[1] \in Int /\ b[2] \in Int
        /\ c[1] \in Int /\ c[2] \in Int
    BY <1>1
  <2> QED
    BY <1>3, <2>1 DEF Before
<1> QED
  BY <1>2, <1>3

\* A finite set of pairs has a last one.
LEMMA LastPair ==
  ASSUME NEW S \in SUBSET Pairs, IsFiniteSet(S), S # {}
  PROVE  \E p \in S : \A a \in S \ {p} : Before(a, p)
<1> DEFINE HasLast(T) == T # {} => \E p \in T : \A a \in T \ {p} : Before(a, p)
           U == {T \in SUBSET S : HasLast(T)}
<1>1. {} \in U
  OBVIOUS
<1>2. ASSUME NEW T \in SUBSET S, NEW x \in S \ T, T \in U
      PROVE  T \cup {x} \in U
  <2>1. CASE T = {}
    <3>1. \A a \in (T \cup {x}) \ {x} : Before(a, x)
      BY <2>1
    <3> QED
      BY <3>1
  <2>2. CASE T # {}
    <3>1. PICK p \in T : \A a \in T \ {p} : Before(a, p)
      BY <1>2, <2>2
    <3>2. x \in Pairs /\ p \in Pairs /\ x # p /\ \A a \in T : a \in Pairs
      BY <1>2
    <3>3. CASE Before(x, p)
      <4>1. \A a \in (T \cup {x}) \ {p} : Before(a, p)
        BY <3>1, <3>3
      <4> QED
        BY <4>1
    <3>4. CASE Before(p, x)
      <4>1. \A a \in T : Before(a, x)
        BY <3>1, <3>2, <3>4, BeforeTotal
      <4>2. \A a \in (T \cup {x}) \ {x} : Before(a, x)
        BY <4>1
      <4> QED
        BY <4>2
    <3> QED
      BY <3>2, <3>3, <3>4, BeforeTotal
  <2> QED
    BY <2>1, <2>2
<1> HIDE DEF U
<1>3. S \in U
  BY <1>1, <1>2, SubsetInduction
<1> QED
  BY <1>3 DEF U

IsSorting(h, s) ==
  /\ s \in [1 .. Cardinality(h) -> h]
  /\ Range(s) = h /\ \A m, n \in DOMAIN s : m < n => Before(s[m], s[n])

\* A finite set of pairs can be sorted.
LEMMA SortingExists ==
  ASSUME NEW S \in SUBSET Pairs, IsFiniteSet(S)
  PROVE  \E s : IsSorting(S, s)
<1> DEFINE All == {T \in SUBSET Pairs : IsFiniteSet(T)}
           N == {n \in Nat : \A T \in All : Cardinality(T) = n => \E s : IsSorting(T, s)}
<1>1. 0 \in N
  <2> SUFFICES ASSUME NEW T \in All, Cardinality(T) = 0
               PROVE  \E s : IsSorting(T, s)
    OBVIOUS
  <2>1. T = {}
    BY FS_EmptySet
  <2>2. IsSorting(T, [m \in 1 .. 0 |-> 0])
    BY <2>1 DEF IsSorting, Range
  <2> QED
    BY <2>2
<1>2. ASSUME NEW n \in Nat, n \in N
      PROVE  n + 1 \in N
  <2> SUFFICES ASSUME NEW T \in All, Cardinality(T) = n + 1
               PROVE  \E s : IsSorting(T, s)
    OBVIOUS
  <2>1. T # {}
    BY FS_EmptySet
  <2>2. PICK p \in T : \A a \in T \ {p} : Before(a, p)
    BY <2>1, LastPair
  <2> DEFINE R == T \ {p}
  <2>3. R \in All /\ Cardinality(R) = n
    <3>1. IsFiniteSet(T) /\ T \in SUBSET Pairs /\ Cardinality(T) - 1 = n
      OBVIOUS
    <3>2. IsFiniteSet(R) /\ Cardinality(R) = Cardinality(T) - 1
      BY <3>1, FS_RemoveElement
    <3> QED
      BY <3>1, <3>2
  <2>4. PICK s : IsSorting(R, s)
    BY <1>2, <2>3
  <2> DEFINE t == [m \in 1 .. n + 1 |-> IF m = n + 1 THEN p ELSE s[m]]
  <2>5. /\ s \in [1 .. n -> R] /\ Range(s) = R
        /\ \A a, b \in 1 .. n : a < b => Before(s[a], s[b])
    BY <2>3, <2>4 DEF IsSorting
  <2>6. \A m \in 1 .. n : t[m] = s[m] /\ t[m] \in R
    BY <2>5
  <2>7. t[n + 1] = p /\ DOMAIN t = 1 .. n + 1
    OBVIOUS
  <2>8. \A m \in 1 .. n + 1 : m = n + 1 \/ m \in 1 .. n
    OBVIOUS
  <2>9. t = [m \in 1 .. n + 1 |-> t[m]]
    OBVIOUS
  <2> HIDE DEF t
  <2>10. t \in [1 .. n + 1 -> T]
    BY <2>6, <2>7, <2>8, <2>9
  <2>11. Range(t) = T
    <3>1. \A a \in R : \E m \in 1 .. n + 1 : t[m] = a
      <4> SUFFICES ASSUME NEW a \in R PROVE \E m \in 1 .. n + 1 : t[m] = a
        OBVIOUS
      <4>1. PICK m \in 1 .. n : s[m] = a
        BY <2>5 DEF Range
      <4>2. m \in 1 .. n + 1 /\ t[m] = a
        BY <2>6, <4>1
      <4> QED
        BY <4>2
    <3>2. n + 1 \in 1 .. n + 1
      OBVIOUS
    <3> QED
      BY <2>7, <2>10, <3>1, <3>2 DEF Range
  <2>12. ASSUME NEW a \in 1 .. n + 1, NEW b \in 1 .. n + 1, a < b
         PROVE  Before(t[a], t[b])
    <3>1. a \in 1 .. n
      BY <2>12
    <3>2. CASE b = n + 1
      BY <2>2, <2>6, <2>7, <3>1, <3>2
    <3>3. CASE b \in 1 .. n
      BY <2>5, <2>6, <2>12, <3>1, <3>3
    <3> QED
      BY <2>8, <3>2, <3>3
  <2>13. IsSorting(T, t)
    BY <2>7, <2>10, <2>11, <2>12 DEF IsSorting
  <2> QED
    BY <2>13
<1> HIDE DEF N
<1>3. \A n \in Nat : n \in N
  BY <1>1, <1>2, SetInduction
<1>4. Cardinality(S) \in Nat /\ S \in All
  BY FS_CardinalityType
<1> QED
  BY <1>3, <1>4 DEF N

LEMMA SortedSorts ==
  ASSUME NEW S \in SUBSET Pairs, IsFiniteSet(S)
  PROVE  IsSorting(S, Sorted(S))
BY SortingExists DEF IsSorting, Sorted

\* The first of the largest values of a row, among its first n.
FirstMax(xr, n, j) ==
  /\ j \in 0 .. n - 1
  /\ \A o \in 0 .. n - 1 : xr[o] <= xr[j]
  /\ \A o \in 0 .. j - 1 : xr[o] < xr[j]

IsBest(xr, n, best) ==
  best = [j \in 0 .. n |->
            IF j = 0 THEN [m |-> NegInf, idx |-> 0]
            ELSE IF xr[j - 1] > best[j - 1].m THEN [m |-> xr[j - 1], idx |-> j - 1]
            ELSE best[j - 1]]

LEMMA BestAt ==
  ASSUME NEW xr, NEW n \in Nat, NEW best, IsBest(xr, n, best), NEW j \in 0 .. n
  PROVE  best[j] = IF j = 0 THEN [m |-> NegInf, idx |-> 0]
                   ELSE IF xr[j - 1] > best[j - 1].m THEN [m |-> xr[j - 1], idx |-> j - 1]
                   ELSE best[j - 1]
<1> DEFINE F(i) == IF i = 0 THEN [m |-> NegInf, idx |-> 0]
                   ELSE IF xr[i - 1] > best[i - 1].m THEN [m |-> xr[i - 1], idx |-> i - 1]
                   ELSE best[i - 1]
<1>1. best = [i \in 0 .. n |-> F(i)]
  BY DEF IsBest
<1> HIDE DEF F
<1>2. best[j] = F(j)
  BY <1>1, Zenon
<1> QED
  BY <1>2 DEF F

\* The pass of argmax is well defined.
LEMMA BestExists ==
  ASSUME NEW xr
  PROVE  \A n \in Nat : \E best : IsBest(xr, n, best)
<1> DEFINE S == {n \in Nat : \E best : IsBest(xr, n, best)}
<1>1. 0 \in S
  <2>1. IsBest(xr, 0, [j \in 0 .. 0 |-> [m |-> NegInf, idx |-> 0]])
    BY DEF IsBest
  <2> QED
    BY <2>1
<1>2. ASSUME NEW n \in Nat, n \in S
      PROVE  n + 1 \in S
  <2>1. PICK b : IsBest(xr, n, b)
    BY <1>2
  <2> DEFINE F(f, i) == IF i = 0 THEN [m |-> NegInf, idx |-> 0]
                        ELSE IF xr[i - 1] > f[i - 1].m THEN [m |-> xr[i - 1], idx |-> i - 1]
                        ELSE f[i - 1]
             c == [i \in 0 .. n + 1 |-> IF i <= n THEN b[i] ELSE F(b, i)]
  <2>2. \A i \in 0 .. n : c[i] = b[i]
    OBVIOUS
  <2>3. ASSUME NEW i \in 0 .. n + 1 PROVE c[i] = F(c, i)
    <3>1. c[i] = F(b, i)
      <4>1. CASE i <= n
        <5>1. i \in 0 .. n /\ c[i] = b[i]
          BY <4>1
        <5> HIDE DEF c
        <5> QED
          BY <2>1, <5>1, BestAt
      <4>2. CASE i > n
        BY <4>2
      <4> QED
        BY <4>1, <4>2
    <3>2. i # 0 => i - 1 \in 0 .. n
      OBVIOUS
    <3> HIDE DEF c
    <3>3. i # 0 => c[i - 1] = b[i - 1]
      BY <2>2, <3>2
    <3> QED
      BY <3>1, <3>3
  <2>4. c = [i \in 0 .. n + 1 |-> c[i]]
    OBVIOUS
  <2> HIDE DEF c
  <2>5. IsBest(xr, n + 1, c)
    BY <2>3, <2>4 DEF IsBest
  <2> QED
    BY <2>5
<1> HIDE DEF S
<1>3. \A n \in Nat : n \in S
  BY <1>1, <1>2, SetInduction
<1> QED
  BY <1>3 DEF S

\* argmax is the first of the largest values.
LEMMA ArgmaxFirst ==
  ASSUME NEW n \in Nat \ {0}, NEW xr \in [0 .. n - 1 -> Scores]
  PROVE  FirstMax(xr, n, Argmax(xr, n))
<1> DEFINE best == CHOOSE b : IsBest(xr, n, b)
<1>1. IsBest(xr, n, best)
  BY BestExists
<1>2. Argmax(xr, n) = best[n].idx
  BY DEF Argmax, IsBest
<1> HIDE DEF best
<1> DEFINE OK(j) == /\ best[j].m \in Scores
                    /\ j = 0 => best[j].m = NegInf
                    /\ j > 0 => /\ best[j].idx \in 0 .. j - 1
                                /\ best[j].m = xr[best[j].idx]
                                /\ \A o \in 0 .. j - 1 : xr[o] <= best[j].m
                                /\ \A o \in 0 .. best[j].idx - 1 : xr[o] < best[j].m
           S == {j \in Nat : j <= n => OK(j)}
<1>3. NegInf \in Scores /\ \A v \in Scores : v \in Int /\ v >= NegInf
  BY ScoreAssumption DEF Scores, NegInf
<1>7. best[0] = [m |-> NegInf, idx |-> 0]
  <2>1. 0 \in 0 .. n
    OBVIOUS
  <2> DEFINE F(i) == IF i = 0 THEN [m |-> NegInf, idx |-> 0]
                     ELSE IF xr[i - 1] > best[i - 1].m THEN [m |-> xr[i - 1], idx |-> i - 1]
                     ELSE best[i - 1]
  <2>2. best = [i \in 0 .. n |-> F(i)]
    BY <1>1 DEF IsBest
  <2>3. best[0] = F(0)
    <3> HIDE DEF F
    <3> QED
      BY <2>1, <2>2, Zenon
  <2> QED
    BY <2>3
<1>4. 0 \in S
  BY <1>3, <1>7
<1>5. ASSUME NEW j \in Nat, j \in S
      PROVE  j + 1 \in S
  <2> SUFFICES ASSUME j + 1 <= n PROVE OK(j + 1)
    OBVIOUS
  <2> DEFINE b == best[j]
             v == xr[j]
  <2>1. best[j + 1] = IF v > b.m THEN [m |-> v, idx |-> j] ELSE b
    <3>1. j + 1 \in 0 .. n /\ j + 1 # 0 /\ (j + 1) - 1 = j
      OBVIOUS
    <3> QED
      BY <1>1, <3>1, BestAt, SMTT(20)
  <2>2. OK(j) /\ v \in Scores
    BY <1>5
  <2>3. v \in Int /\ b.m \in Int /\ \A o \in 0 .. j - 1 : xr[o] \in Int
    BY <1>3, <2>2
  <2>4. \A o \in 0 .. (j + 1) - 1 : o = j \/ (o \in 0 .. j - 1 /\ j > 0)
    OBVIOUS
  <2>5. CASE v > b.m
    <3>1. best[j + 1].m = v /\ best[j + 1].idx = j
      BY <2>1, <2>5
    <3>2. \A o \in 0 .. j - 1 : xr[o] < v
      <4> SUFFICES ASSUME NEW o \in 0 .. j - 1 PROVE xr[o] < v
        OBVIOUS
      <4>1. xr[o] <= b.m
        BY <2>2
      <4> QED
        BY <2>3, <2>5, <4>1
    <3>3. \A o \in 0 .. (j + 1) - 1 : xr[o] <= v
      BY <2>3, <2>4, <3>2
    <3> QED
      BY <2>2, <3>1, <3>2, <3>3
  <2>6. CASE ~ (v > b.m)
    <3>1. best[j + 1] = b /\ v <= b.m
      BY <2>1, <2>3, <2>6
    <3>2. CASE j = 0
      <4>1. b = [m |-> NegInf, idx |-> 0]
        BY <1>7, <3>2
      <4>2. v = NegInf
        BY <1>3, <2>2, <2>3, <3>1, <4>1
      <4> QED
        BY <1>3, <2>3, <3>1, <3>2, <4>1, <4>2
    <3>3. CASE j > 0
      <4>1. \A o \in 0 .. (j + 1) - 1 : xr[o] <= b.m
        BY <2>2, <2>4, <3>1, <3>3
      <4> QED
        BY <2>2, <3>1, <3>3, <4>1
    <3> QED
      BY <3>2, <3>3
  <2> QED
    BY <2>5, <2>6
<1> HIDE DEF S
<1>6. n \in S
  BY <1>4, <1>5, SetInduction
<1> QED
  BY <1>2, <1>6 DEF S, FirstMax

\* There is one first of the largest.
LEMMA OneFirst ==
  ASSUME NEW n \in Nat, NEW xr \in [0 .. n - 1 -> Scores], NEW a, NEW b,
         FirstMax(xr, n, a), FirstMax(xr, n, b)
  PROVE  a = b
<1>1. /\ a \in Nat /\ b \in Nat /\ a <= n - 1 /\ b <= n - 1
      /\ xr[a] \in Int /\ xr[b] \in Int
  BY ScoreAssumption DEF FirstMax, Scores, NegInf
<1>2. ~ (a < b) /\ ~ (b < a)
  BY <1>1 DEF FirstMax
<1> QED
  BY <1>1, <1>2

\* A sum may be taken over other names of its terms.
LEMMA SumReindexed ==
  ASSUME NEW S, IsFiniteSet(S), NEW f, \A x \in S : f[x] \in Nat,
         NEW to, \A x, y \in S : to[x] = to[y] => x = y,
         NEW h, \A x \in S : h[to[x]] = f[x]
  PROVE  SumFunctionOnSet(h, {to[x] : x \in S}) = SumFunctionOnSet(f, S)
<1> DEFINE Img(T) == {to[x] : x \in T}
           U == {T \in SUBSET S : /\ IsFiniteSet(Img(T))
                                  /\ SumFunctionOnSet(h, Img(T)) = SumFunctionOnSet(f, T)}
<1>1. {} \in U
  <2>1. SumFunctionOnSet(h, {}) = 0 /\ SumFunctionOnSet(f, {}) = 0 /\ Img({}) = {} /\ IsFiniteSet({})
    BY SumUnfolds, FS_EmptySet
  <2> QED
    BY <2>1
<1>2. ASSUME NEW T \in SUBSET S, NEW x \in S \ T, T \in U
      PROVE  T \cup {x} \in U
  <2>1. Img(T \cup {x}) = Img(T) \cup {to[x]} /\ to[x] \notin Img(T)
    OBVIOUS
  <2>2. IsFiniteSet(Img(T \cup {x})) /\ \A y \in Img(T \cup {x}) : h[y] \in Nat
    <3>1. IsFiniteSet(Img(T) \cup {to[x]})
      BY <1>2, FS_AddElement
    <3> QED
      BY <2>1, <3>1
  <2>3. SumFunctionOnSet(h, Img(T) \cup {to[x]}) = h[to[x]] + SumFunctionOnSet(h, Img(T))
    <3>1. /\ Img(T) \in SUBSET Img(T \cup {x})
          /\ to[x] \in Img(T \cup {x}) \ Img(T)
      BY <2>1
    <3> DEFINE A == Img(T \cup {x})
               B == Img(T)
               e == to[x]
    <3>2. /\ IsFiniteSet(A) /\ (\A y \in A : h[y] \in Nat)
          /\ B \in SUBSET A /\ e \in A \ B
      BY <2>2, <3>1
    <3> HIDE DEF A, B, e
    <3>3. SumFunctionOnSet(h, B \cup {e}) = h[e] + SumFunctionOnSet(h, B)
      BY <3>2, SumOneMore
    <3> QED
      BY <3>3 DEF B, e
  <2>4. SumFunctionOnSet(f, T \cup {x}) = f[x] + SumFunctionOnSet(f, T)
    BY SumOneMore
  <2> QED
    BY <1>2, <2>1, <2>2, <2>3, <2>4
<1> HIDE DEF U
<1>3. S \in U
  BY <1>1, <1>2, SubsetInduction
<1> QED
  BY <1>3 DEF U

\* Some of the terms add up to no more than all.
LEMMA SumOfSome ==
  ASSUME NEW S, IsFiniteSet(S), NEW f, \A x \in S : f[x] \in Nat, NEW R \in SUBSET S
  PROVE  SumFunctionOnSet(f, R) <= SumFunctionOnSet(f, S)
<1> DEFINE some == [x \in S |-> IF x \in R THEN f[x] ELSE 0]
           rest == [x \in S |-> IF x \in R THEN 0 ELSE f[x]]
<1>1. /\ \A x \in S : some[x] \in Nat /\ rest[x] \in Nat /\ f[x] = some[x] + rest[x]
      /\ \A x \in S : some[x] = IF x \in R THEN f[x] ELSE 0
  OBVIOUS
<1> HIDE DEF some, rest
<1>2. SumFunctionOnSet(f, R) = SumFunctionOnSet(some, S)
  BY <1>1, SumWithoutZeros
<1>3. SumFunctionOnSet(f, S) = SumFunctionOnSet(some, S) + SumFunctionOnSet(rest, S)
  BY <1>1, SumOfSum
<1>4. SumFunctionOnSet(some, S) \in Nat /\ SumFunctionOnSet(rest, S) \in Nat
  BY <1>1, SumNat
<1> QED
  BY <1>2, <1>3, <1>4

\* The pair of element j of a row; those of its first n elements.
PairAt(xr, j) == <<xr[j], j>>
PairsOf(xr, n) == {PairAt(xr, j) : j \in 0 .. n - 1}

\* A row that is written: pairs of the row, in order, beginning with the first
\* of its largest values.
RowDone(r) ==
  LET at(a) == picked[r * Kept + a]
  IN  /\ \A a \in 0 .. Kept - 1 : at(a) \in PairsOf(values[r], dim)
      /\ \A a, b \in 0 .. Kept - 1 : a < b => Before(at(a), at(b))
      /\ FirstMax(values[r], dim, at(0)[2])

\* What is in the heap of a row of which n elements are scanned.
HeapOK(xr, n, h) ==
  /\ IsFiniteSet(h) /\ h \subseteq PairsOf(xr, n)
  /\ Cardinality(h) = Smaller(n, Kept)
  /\ n <= Kept => h = PairsOf(xr, n)
  /\ \A j \in 0 .. n - 1, p \in h : PairAt(xr, j) \notin h => xr[j] <= p[1]
  /\ \A j : FirstMax(xr, n, j) => PairAt(xr, j) \in h

\* The inductive invariant.
TopKInv ==
  /\ dim \in Int /\ keep \in Int
  /\ values \in [0 .. Rows - 1 -> [0 .. dim - 1 -> Scores]]
  /\ line \in Nat /\ line <= Rows /\ scan \in Nat
  /\ scan > 0 => line < Rows /\ Kept > 0 /\ scan <= dim
  /\ scan = 0 => heap = {}
  /\ scan > 0 => HeapOK(values[line], scan, heap)
  /\ line > 0 => Kept > 0
  /\ \A r \in 0 .. line - 1 : RowDone(r)

LEMMA KeptRange ==
  ASSUME dim \in Int, keep \in Int
  PROVE  Kept \in Nat /\ (Kept > 0 => dim > 0 /\ Kept <= dim)
BY DEF Kept, Smaller

\* An empty heap is right for a row that is not begun.
LEMMA HeapEmpty ==
  ASSUME dim \in Int, keep \in Int, NEW xr
  PROVE  HeapOK(xr, 0, {})
<1>1. 0 .. 0 - 1 = {}
  OBVIOUS
<1>2. PairsOf(xr, 0) = {} /\ \A j : ~ FirstMax(xr, 0, j)
  BY <1>1 DEF PairsOf, FirstMax
<1>3. Cardinality({}) = 0 /\ IsFiniteSet({}) /\ Smaller(0, Kept) = 0
  BY KeptRange, FS_EmptySet DEF Smaller
<1> QED
  BY <1>1, <1>2, <1>3 DEF HeapOK

\* A heap that is not full takes one more.
LEMMA HeapPush ==
  ASSUME dim \in Int, keep \in Int, NEW n \in Nat, n < dim, NEW xr \in [0 .. dim - 1 -> Scores],
         NEW h, HeapOK(xr, n, h), Cardinality(h) < Kept
  PROVE  HeapOK(xr, n + 1, h \cup {PairAt(xr, n)})
<1> DEFINE e == PairAt(xr, n)
           g == h \cup {e}
<1>0. Kept \in Nat
  BY KeptRange
<1>1. n < Kept /\ Cardinality(h) = n /\ h = PairsOf(xr, n)
  BY <1>0 DEF HeapOK, Smaller
<1>2. 0 .. (n + 1) - 1 = (0 .. n - 1) \cup {n} /\ n \notin 0 .. n - 1
  OBVIOUS
<1>3. PairsOf(xr, n + 1) = g
  BY <1>1, <1>2 DEF PairsOf
<1>4. e \notin h
  BY <1>1, <1>2 DEF PairsOf, PairAt
<1>5. IsFiniteSet(g) /\ Cardinality(g) = n + 1
  BY <1>1, <1>4, FS_AddElement DEF HeapOK
<1>6. \A j \in 0 .. (n + 1) - 1 : PairAt(xr, j) \in g
  BY <1>3 DEF PairsOf
<1>7. Smaller(n + 1, Kept) = n + 1
  BY <1>0, <1>1 DEF Smaller
<1> HIDE DEF e, g
<1>8. HeapOK(xr, n + 1, g)
  BY <1>3, <1>5, <1>6, <1>7 DEF HeapOK, FirstMax
<1> QED
  BY <1>8 DEF e, g

\* A full heap takes an element for its front, or leaves it.
LEMMA HeapReplace ==
  ASSUME dim \in Int, keep \in Int, NEW n \in Nat, n < dim, NEW xr \in [0 .. dim - 1 -> Scores],
         NEW h, HeapOK(xr, n, h), Cardinality(h) = Kept,
         NEW f \in h, \A p \in h : f[1] <= p[1]
  PROVE  HeapOK(xr, n + 1, IF xr[n] > f[1] THEN (h \ {f}) \cup {PairAt(xr, n)} ELSE h)
<1> DEFINE e == PairAt(xr, n)
           v == xr[n]
           g == IF v > f[1] THEN (h \ {f}) \cup {e} ELSE h
<1>0. Kept \in Nat
  BY KeptRange
<1>1. n >= Kept /\ IsFiniteSet(h) /\ h \subseteq PairsOf(xr, n)
  BY <1>0 DEF HeapOK, Smaller
<1>2. 0 .. (n + 1) - 1 = (0 .. n - 1) \cup {n} /\ n \notin 0 .. n - 1
  OBVIOUS
<1>3. PairsOf(xr, n + 1) = PairsOf(xr, n) \cup {e}
  BY <1>2 DEF PairsOf
<1>4. e \notin PairsOf(xr, n)
  BY <1>2 DEF PairsOf, PairAt
<1>5. \A j \in 0 .. n : xr[j] \in Int
  <2>1. \A j \in 0 .. n : j \in 0 .. dim - 1
    OBVIOUS
  <2> QED
    BY <2>1, ScoreAssumption DEF Scores, NegInf
<1>6. \A p \in h : \E j \in 0 .. n - 1 : p = PairAt(xr, j) /\ p[1] = xr[j] /\ p[1] \in Int
  <2> SUFFICES ASSUME NEW p \in h
               PROVE  \E j \in 0 .. n - 1 : p = PairAt(xr, j) /\ p[1] = xr[j] /\ p[1] \in Int
    OBVIOUS
  <2>1. PICK j \in 0 .. n - 1 : p = PairAt(xr, j)
    BY <1>1 DEF PairsOf
  <2>2. p[1] = xr[j] /\ xr[j] \in Int
    BY <1>2, <1>5, <2>1 DEF PairAt
  <2> QED
    BY <2>1, <2>2
<1>7. e[1] = v /\ v \in Int /\ f[1] \in Int
  BY <1>5, <1>6 DEF PairAt
<1>8. Smaller(n + 1, Kept) = Kept /\ ~ (n + 1 <= Kept)
  BY <1>0, <1>1 DEF Smaller
<1>9. /\ \A j \in 0 .. n - 1, p \in h : PairAt(xr, j) \notin h => xr[j] <= p[1]
      /\ \A j : FirstMax(xr, n, j) => PairAt(xr, j) \in h
  BY DEF HeapOK
<1>10. ASSUME NEW j, FirstMax(xr, n + 1, j)
       PROVE  j = n \/ FirstMax(xr, n, j)
  BY <1>2, <1>10 DEF FirstMax
<1>11. CASE v > f[1]
  <2>1. g = (h \ {f}) \cup {e}
    BY <1>11
  <2>2. IsFiniteSet(g) /\ Cardinality(g) = Kept
    <3>1. IsFiniteSet(h \ {f}) /\ Cardinality(h \ {f}) = Kept - 1
      <4>1. IsFiniteSet(h \ {f}) /\ Cardinality(h \ {f}) = Cardinality(h) - 1
        BY <1>1, FS_RemoveElement, Zenon
      <4> QED
        BY <4>1
    <3>2. e \notin h \ {f}
      BY <1>1, <1>4
    <3>3. IsFiniteSet((h \ {f}) \cup {e}) /\ Cardinality((h \ {f}) \cup {e}) = (Kept - 1) + 1
      BY <3>1, <3>2, FS_AddElement
    <3>4. (Kept - 1) + 1 = Kept
      BY <1>0
    <3> HIDE DEF g, e
    <3> QED
      BY <2>1, <3>3, <3>4
  <2>3. g \subseteq PairsOf(xr, n + 1)
    BY <1>1, <1>3, <2>1
  <2>4. \A p \in g : p[1] \in Int /\ f[1] <= p[1]
    <3>1. \A p \in h : p[1] \in Int /\ f[1] <= p[1]
      BY <1>6
    <3>2. f[1] <= e[1] /\ e[1] \in Int
      BY <1>7, <1>11
    <3> QED
      BY <2>1, <3>1, <3>2
  <2>5. ASSUME NEW j \in 0 .. (n + 1) - 1, NEW p \in g, PairAt(xr, j) \notin g
        PROVE  xr[j] <= p[1]
    <3>1. j \in 0 .. n - 1 /\ xr[j] \in Int
      BY <1>2, <1>5, <2>1, <2>5
    <3>2. xr[j] <= f[1]
      <4>1. CASE PairAt(xr, j) \in h
        <5>1. PairAt(xr, j) = f
          BY <2>1, <2>5, <4>1
        <5> QED
          BY <3>1, <5>1 DEF PairAt
      <4>2. CASE PairAt(xr, j) \notin h
        BY <1>9, <3>1, <4>2
      <4> QED
        BY <4>1, <4>2
    <3> QED
      BY <1>7, <2>4, <3>1, <3>2
  <2>6. ASSUME NEW j, FirstMax(xr, n + 1, j)
        PROVE  PairAt(xr, j) \in g
    <3>1. CASE j = n
      BY <2>1, <3>1
    <3>2. CASE FirstMax(xr, n, j)
      <4>1. PairAt(xr, j) \in h
        BY <1>9, <3>2
      <4>2. v <= xr[j] /\ xr[j] \in Int
        BY <1>2, <1>5, <2>6 DEF FirstMax
      <4>3. PairAt(xr, j)[1] = xr[j]
        BY DEF PairAt
      <4>4. PairAt(xr, j) # f
        BY <1>7, <1>11, <4>2, <4>3
      <4> QED
        BY <2>1, <4>1, <4>4
    <3> QED
      BY <1>10, <2>6, <3>1, <3>2
  <2> HIDE DEF g
  <2> QED
    BY <1>8, <2>2, <2>3, <2>5, <2>6 DEF HeapOK, g
<1>12. CASE ~ (v > f[1])
  <2>1. g = h
    BY <1>12
  <2>2. ASSUME NEW j \in 0 .. (n + 1) - 1, NEW p \in h, PairAt(xr, j) \notin h
        PROVE  xr[j] <= p[1]
    <3>1. CASE j = n
      <4>1. f[1] <= p[1] /\ p[1] \in Int
        BY <1>6
      <4> QED
        BY <1>7, <1>12, <3>1, <4>1
    <3>2. CASE j \in 0 .. n - 1
      BY <1>9, <2>2, <3>2
    <3> QED
      BY <1>2, <3>1, <3>2
  <2>3. ASSUME NEW j, FirstMax(xr, n + 1, j)
        PROVE  PairAt(xr, j) \in h
    <3>1. j # n
      <4>1. PICK o \in 0 .. n - 1 : f[1] = xr[o]
        BY <1>6
      <4>2. j = n => xr[o] < xr[n]
        BY <2>3, <4>1 DEF FirstMax
      <4> QED
        BY <1>7, <1>12, <4>1, <4>2
    <3> QED
      BY <1>9, <1>10, <2>3, <3>1
  <2>4. h \subseteq PairsOf(xr, n + 1)
    BY <1>1, <1>3
  <2> HIDE DEF g
  <2> QED
    BY <1>1, <1>8, <2>1, <2>2, <2>3, <2>4 DEF HeapOK, g
<1> QED
  BY <1>11, <1>12

LEMMA TopKStart == TopKInit => TopKInv
<1> SUFFICES ASSUME TopKInit PROVE TopKInv
  OBVIOUS
<1>1. 0 .. 0 - 1 = {}
  OBVIOUS
<1> QED
  BY <1>1, TopKAssumption DEF TopKInit, TopKInv

\* The pairs of a row are pairs.
LEMMA RowPairs ==
  ASSUME dim \in Int, NEW xr \in [0 .. dim - 1 -> Scores]
  PROVE  \A n \in Nat : n <= dim => PairsOf(xr, n) \subseteq Pairs
<1> SUFFICES ASSUME NEW n \in Nat, n <= dim, NEW j \in 0 .. n - 1
             PROVE  PairAt(xr, j) \in Pairs
  BY DEF PairsOf
<1>1. j \in 0 .. dim - 1
  OBVIOUS
<1>2. xr[j] \in Int
  BY <1>1, ScoreAssumption DEF Scores, NegInf
<1> QED
  BY <1>2 DEF PairAt, Pairs

\* Sorting a row's heap once all of it is scanned gives the row of the result.
LEMMA SortedRow ==
  ASSUME dim \in Int, keep \in Int, Kept > 0, NEW xr \in [0 .. dim - 1 -> Scores],
         NEW h, HeapOK(xr, dim, h), NEW s, s = Sorted(h)
  PROVE  /\ \A a \in 0 .. Kept - 1 : s[a + 1] \in PairsOf(xr, dim)
         /\ \A a, b \in 0 .. Kept - 1 : a < b => Before(s[a + 1], s[b + 1])
         /\ FirstMax(xr, dim, s[1][2])
<1>1. Kept \in Nat /\ dim \in Nat \ {0} /\ Kept <= dim
  BY KeptRange
<1>2. IsFiniteSet(h) /\ h \subseteq PairsOf(xr, dim) /\ Cardinality(h) = Kept
  BY <1>1 DEF HeapOK, Smaller
<1>3. h \in SUBSET Pairs
  BY <1>1, <1>2, RowPairs
<1>4. IsSorting(h, s)
  BY <1>2, <1>3, SortedSorts
<1>5. /\ s \in [1 .. Kept -> h] /\ Range(s) = h
      /\ \A m, n \in 1 .. Kept : m < n => Before(s[m], s[n])
  BY <1>2, <1>4 DEF IsSorting
<1>6. \A a \in 0 .. Kept - 1 : a + 1 \in 1 .. Kept
  BY <1>1
<1>7. FirstMax(xr, dim, s[1][2])
  <2> DEFINE j == Argmax(xr, dim)
             e == PairAt(xr, j)
  <2>1. FirstMax(xr, dim, j)
    BY <1>1, ArgmaxFirst
  <2>2. e \in h
    BY <2>1 DEF HeapOK
  <2>3. PICK m \in 1 .. Kept : s[m] = e
    BY <1>5, <2>2 DEF Range
  <2>4. 1 \in 1 .. Kept /\ s[1] \in h
    BY <1>1, <1>5
  <2>5. PICK i \in 0 .. dim - 1 : s[1] = PairAt(xr, i)
    BY <1>2, <2>4 DEF PairsOf
  <2>6. m = 1 \/ Before(s[1], e)
    BY <1>5, <2>3, <2>4
  <2> HIDE DEF j
  <2>7. ~ Before(s[1], e)
    <3> SUFFICES ASSUME Before(s[1], e) PROVE FALSE
      OBVIOUS
    <3>1. xr[i] > xr[j] \/ (xr[i] = xr[j] /\ i < j)
      BY <2>5 DEF Before, PairAt
    <3>2. xr[i] <= xr[j] /\ xr[i] \in Int /\ xr[j] \in Int /\ j \in 0 .. dim - 1
      BY <1>1, <2>1, ScoreAssumption DEF FirstMax, Scores, NegInf
    <3>3. xr[i] = xr[j] /\ i < j
      BY <3>1, <3>2
    <3>4. i \in 0 .. j - 1
      BY <3>2, <3>3
    <3>5. xr[i] < xr[j]
      BY <2>1, <3>4 DEF FirstMax
    <3> QED
      BY <3>2, <3>3, <3>5
  <2>8. s[1][2] = j
    BY <2>3, <2>6, <2>7 DEF PairAt
  <2> QED
    BY <2>1, <2>8
<1> QED
  BY <1>2, <1>5, <1>6, <1>7

\* Where the rows of the result are.
LEMMA RowPlaces ==
  ASSUME NEW K \in Nat, NEW n \in Nat
  PROVE  /\ n * K \in Nat /\ (n + 1) * K = n * K + K
         /\ \A r \in 0 .. n - 1, a \in 0 .. K - 1 :
              r * K + a \in 0 .. n * K + K - 1 /\ r * K + a < n * K
<1>1. n * K \in Nat /\ (n + 1) * K = n * K + K
  OBVIOUS
<1>2. ASSUME NEW r \in 0 .. n - 1, NEW a \in 0 .. K - 1
      PROVE  r * K + a \in 0 .. n * K + K - 1 /\ r * K + a < n * K
  <2> DEFINE d == n - (r + 1)
  <2>1. d \in Nat /\ r \in Nat /\ n = (r + 1) + d
    OBVIOUS
  <2> HIDE DEF d
  <2>2. n * K = (r + 1) * K + d * K /\ (r + 1) * K = r * K + K /\ d * K \in Nat /\ r * K \in Nat
    BY <2>1
  <2> DEFINE x == r * K
             y == d * K
             z == n * K
  <2>3. x \in Nat /\ y \in Nat /\ z = x + K + y
    BY <2>2
  <2> HIDE DEF x, y, z
  <2>4. x + a \in 0 .. z + K - 1 /\ x + a < z
    BY <2>3
  <2> QED
    BY <2>4 DEF x, z
<1> QED
  BY <1>1, <1>2

LEMMA WriteStep == TopKInv /\ WriteRow => TopKInv'
<1> SUFFICES ASSUME TopKInv, WriteRow PROVE TopKInv'
  OBVIOUS
<1> DEFINE base == line * Kept
           s == Sorted(heap)
<1>1. /\ values' = values /\ dim' = dim /\ keep' = keep /\ Kept' = Kept
      /\ line' = line + 1 /\ scan' = 0 /\ heap' = {}
      /\ picked' = [a \in 0 .. base + Kept - 1 |-> IF a < base THEN picked[a] ELSE s[a - base + 1]]
      /\ line < Rows /\ Kept > 0 /\ scan = dim
  BY DEF WriteRow, Kept
<1>2. Kept \in Nat /\ dim \in Nat \ {0} /\ Kept <= dim /\ line \in Nat /\ line \in 0 .. Rows - 1 /\ Rows \in Nat
  BY <1>1, KeptRange, TopKAssumption DEF TopKInv
<1>3. base \in Nat /\ \A r \in 0 .. line - 1, a \in 0 .. Kept - 1 :
        r * Kept + a \in 0 .. base + Kept - 1 /\ r * Kept + a < base
  BY <1>2, RowPlaces
<1>4. values[line] \in [0 .. dim - 1 -> Scores] /\ HeapOK(values[line], dim, heap)
  BY <1>1, <1>2 DEF TopKInv
<1>13. s = Sorted(heap)
  OBVIOUS
<1> HIDE DEF s
<1>5. /\ \A a \in 0 .. Kept - 1 : s[a + 1] \in PairsOf(values[line], dim)
      /\ \A a, b \in 0 .. Kept - 1 : a < b => Before(s[a + 1], s[b + 1])
      /\ FirstMax(values[line], dim, s[1][2])
  <2> DEFINE xr == values[line]
  <2>1. dim \in Int /\ keep \in Int /\ Kept > 0 /\ xr \in [0 .. dim - 1 -> Scores] /\ HeapOK(xr, dim, heap)
    BY <1>1, <1>4 DEF TopKInv
  <2> HIDE DEF xr
  <2>2. /\ \A a \in 0 .. Kept - 1 : s[a + 1] \in PairsOf(xr, dim)
        /\ \A a, b \in 0 .. Kept - 1 : a < b => Before(s[a + 1], s[b + 1])
        /\ FirstMax(xr, dim, s[1][2])
    BY <1>13, <2>1, SortedRow
  <2> QED
    BY <2>2 DEF xr
<1>6. \A a \in 0 .. Kept - 1 : picked'[base + a] = s[a + 1]
  <2> HIDE DEF base
  <2> SUFFICES ASSUME NEW a \in 0 .. Kept - 1 PROVE picked'[base + a] = s[a + 1]
    OBVIOUS
  <2>1. /\ base + a \in 0 .. base + Kept - 1 /\ ~ (base + a < base)
        /\ (base + a) - base + 1 = a + 1
    BY <1>2, <1>3
  <2> QED
    BY <1>1, <2>1
<1>7. \A r \in 0 .. line - 1, a \in 0 .. Kept - 1 : picked'[r * Kept + a] = picked[r * Kept + a]
  <2> HIDE DEF base
  <2> QED
    BY <1>1, <1>3
<1>8. 0 \in 0 .. Kept - 1
  BY <1>1, <1>2
<1>9. ASSUME NEW r, r = line
      PROVE  RowDone(r)'
  <2> DEFINE new(a) == picked'[r * Kept + a]
  <2>1. \A a \in 0 .. Kept - 1 : new(a) = s[a + 1]
    BY <1>6, <1>9
  <2> HIDE DEF new
  <2>2. new(0) = s[1]
    BY <1>8, <2>1
  <2>3. /\ \A a \in 0 .. Kept - 1 : new(a) \in PairsOf(values[r], dim)
        /\ \A a, b \in 0 .. Kept - 1 : a < b => Before(new(a), new(b))
        /\ FirstMax(values[r], dim, new(0)[2])
    BY <1>5, <1>9, <2>1, <2>2
  <2> QED
    BY <1>1, <2>3 DEF RowDone, new
<1>10. \A r \in 0 .. line - 1 : RowDone(r)'
  <2> SUFFICES ASSUME NEW r \in 0 .. line - 1 PROVE RowDone(r)'
    OBVIOUS
  <2>1. RowDone(r)
    BY DEF TopKInv
  <2> DEFINE at(a) == picked[r * Kept + a]
             new(a) == picked'[r * Kept + a]
  <2>2. \A a \in 0 .. Kept - 1 : new(a) = at(a)
    BY <1>7
  <2>3. /\ \A a \in 0 .. Kept - 1 : at(a) \in PairsOf(values[r], dim)
        /\ \A a, b \in 0 .. Kept - 1 : a < b => Before(at(a), at(b))
        /\ FirstMax(values[r], dim, at(0)[2])
    BY <2>1 DEF RowDone
  <2> HIDE DEF at
  <2>4. /\ \A a \in 0 .. Kept - 1 : new(a) \in PairsOf(values[r], dim)
        /\ \A a, b \in 0 .. Kept - 1 : a < b => Before(new(a), new(b))
        /\ FirstMax(values[r], dim, new(0)[2])
    <3> HIDE DEF new
    <3> QED
      BY <1>8, <2>2, <2>3
  <2> QED
    BY <1>1, <2>4 DEF RowDone
<1>11. \A r \in 0 .. line' - 1 : r = line \/ r \in 0 .. line - 1
  BY <1>1, <1>2
<1>12. \A r \in 0 .. line' - 1 : RowDone(r)'
  <2> SUFFICES ASSUME NEW r \in 0 .. line' - 1 PROVE RowDone(r)'
    OBVIOUS
  <2>1. CASE r = line
    BY <1>9, <2>1
  <2>2. CASE r \in 0 .. line - 1
    BY <1>10, <2>2
  <2> QED
    BY <1>11, <2>1, <2>2
<1> QED
  BY <1>1, <1>2, <1>12 DEF TopKInv

\* One more element is scanned.
LEMMA ScanStep ==
  ASSUME TopKInv, Scanning, HeapOK(values[line], scan + 1, heap'),
         scan' = scan + 1, UNCHANGED <<values, dim, keep, line, picked>>
  PROVE  TopKInv'
<1>1. Kept' = Kept /\ Kept \in Nat /\ dim \in Nat /\ scan \in Nat /\ scan < dim /\ line < Rows /\ Kept > 0
  BY KeptRange DEF Kept, Scanning, TopKInv
<1>2. (HeapOK(values[line], scan, heap))'
  BY <1>1 DEF HeapOK, PairsOf, PairAt, FirstMax
<1>3. ASSUME NEW r \in 0 .. line - 1
      PROVE  RowDone(r)'
  <2>1. RowDone(r)
    BY DEF TopKInv
  <2> QED
    BY <1>1, <2>1 DEF RowDone, Before, PairsOf, PairAt, FirstMax
<1>4. scan' \in Nat /\ scan' > 0 /\ scan' <= dim /\ scan' # 0
  BY <1>1
<1> QED
  BY <1>1, <1>2, <1>3, <1>4 DEF TopKInv

\* What is in the heap, of whatever row and however far it is scanned.
LEMMA HeapNow ==
  ASSUME TopKInv, Scanning
  PROVE  /\ dim \in Int /\ keep \in Int /\ scan \in Nat /\ scan < dim
         /\ values[line] \in [0 .. dim - 1 -> Scores]
         /\ HeapOK(values[line], scan, heap)
<1>1. line \in 0 .. Rows - 1
  BY TopKAssumption DEF TopKInv, Scanning
<1>2. scan = 0 => HeapOK(values[line], scan, heap)
  BY HeapEmpty DEF TopKInv
<1> QED
  BY <1>1, <1>2 DEF TopKInv, Scanning

LEMMA PushStep == TopKInv /\ Push => TopKInv'
<1> SUFFICES ASSUME TopKInv, Push PROVE TopKInv'
  OBVIOUS
<1>1. /\ Scanning /\ Cardinality(heap) < Kept
      /\ heap' = heap \cup {PairAt(values[line], scan)}
      /\ scan' = scan + 1 /\ UNCHANGED <<values, dim, keep, line, picked>>
  BY DEF Push, PairAt
<1>2. HeapOK(values[line], scan + 1, heap')
  BY <1>1, HeapNow, HeapPush
<1> QED
  BY <1>1, <1>2, ScanStep

LEMMA ReplaceStep == TopKInv /\ Replace => TopKInv'
<1> SUFFICES ASSUME TopKInv, Replace PROVE TopKInv'
  OBVIOUS
<1> DEFINE xr == values[line]
<1>1. /\ Scanning /\ Cardinality(heap) = Kept
      /\ scan' = scan + 1 /\ UNCHANGED <<values, dim, keep, line, picked>>
  BY DEF Replace
<1>2. PICK f \in Fronts :
        heap' = IF Beats(f) THEN (heap \ {f}) \cup {PairAt(xr, scan)} ELSE heap
  BY DEF Replace, PairAt
<1>3. f \in heap /\ \A p \in heap : f[1] <= p[1]
  BY DEF Fronts
<1>4. HeapOK(xr, scan, heap) /\ scan \in Nat /\ xr \in [0 .. dim - 1 -> Scores]
      /\ dim \in Int /\ keep \in Int /\ scan < dim
  BY <1>1, HeapNow
<1>5. Beats(f) <=> xr[scan] > f[1]
  <2>1. PICK j \in 0 .. scan - 1 : f = PairAt(xr, j)
    BY <1>3, <1>4 DEF HeapOK, PairsOf
  <2>2. ~ (scan < f[2])
    BY <1>4, <2>1 DEF PairAt
  <2> QED
    BY <2>2 DEF Beats
<1>6. HeapOK(xr, scan + 1, heap')
  <2> HIDE DEF xr
  <2>1. HeapOK(xr, scan + 1, IF xr[scan] > f[1] THEN (heap \ {f}) \cup {PairAt(xr, scan)} ELSE heap)
    BY <1>1, <1>3, <1>4, HeapReplace
  <2> QED
    BY <1>2, <1>5, <2>1
<1> QED
  BY <1>1, <1>6, ScanStep

LEMMA TopKSteps == TopKInv /\ [TopKNext]_topKVars => TopKInv'
<1> SUFFICES ASSUME TopKInv, [TopKNext]_topKVars PROVE TopKInv'
  OBVIOUS
<1>1. CASE Push
  BY <1>1, PushStep
<1>2. CASE Replace
  BY <1>2, ReplaceStep
<1>3. CASE WriteRow
  BY <1>3, WriteStep
<1>4. CASE UNCHANGED topKVars
  <2>1. Kept' = Kept
    BY <1>4 DEF topKVars, Kept
  <2> QED
    BY <1>4, <2>1 DEF topKVars, TopKInv, HeapOK, RowDone, PairsOf, PairAt, Before, FirstMax
<1> QED
  BY <1>1, <1>2, <1>3, <1>4 DEF TopKNext

LEMMA LargestKept == TopKInv => KeepsLargest
<1> SUFFICES ASSUME TopKInv PROVE KeepsLargest
  OBVIOUS
<1>1. CASE scan = 0
  <2>1. heap = {} /\ Cardinality({}) = 0 /\ Kept \in Nat
    BY <1>1, FS_EmptySet, KeptRange DEF TopKInv
  <2> QED
    BY <1>1, <2>1 DEF KeepsLargest, Smaller
<1>2. CASE scan # 0
  <2>1. HeapOK(values[line], scan, heap)
    BY <1>2 DEF TopKInv
  <2> QED
    BY <2>1 DEF HeapOK, KeepsLargest, PairsOf, PairAt
<1> QED
  BY <1>1, <1>2

\* What a written row shows.
LEMMA RowShows ==
  ASSUME TopKInv, NEW r \in 0 .. line - 1
  PROVE  /\ Kept \in Nat \ {0} /\ dim \in Nat \ {0} /\ Kept <= dim /\ r * Kept \in Nat
         /\ r \in Nat /\ (r + 1) * Kept = r * Kept + Kept
         /\ values[r] \in [0 .. dim - 1 -> Scores]
         /\ RowDone(r)
         /\ FirstMax(values[r], dim, Argmax(values[r], dim))
         /\ picked[r * Kept] = PairAt(values[r], Argmax(values[r], dim))
<1>1. Kept \in Nat \ {0} /\ dim \in Nat \ {0} /\ Kept <= dim
  BY KeptRange DEF TopKInv
<1>2. r \in Nat /\ r \in 0 .. Rows - 1 /\ RowDone(r)
  BY TopKAssumption DEF TopKInv
<1>3. r * Kept \in Nat /\ (r + 1) * Kept = r * Kept + Kept
  BY <1>1, <1>2, RowPlaces
<1>4. values[r] \in [0 .. dim - 1 -> Scores]
  BY <1>2 DEF TopKInv
<1> DEFINE xr == values[r]
           j == Argmax(xr, dim)
           x == r * Kept
<1>5. FirstMax(xr, dim, j)
  BY <1>1, <1>4, ArgmaxFirst
<1>6. /\ picked[x + 0] \in PairsOf(xr, dim)
      /\ FirstMax(xr, dim, picked[x + 0][2])
  <2>1. 0 \in 0 .. Kept - 1
    BY <1>1
  <2> QED
    BY <1>2, <2>1 DEF RowDone
<1> HIDE DEF xr, j, x
<1>7. x + 0 = x
  BY <1>3 DEF x
<1>8. PICK o \in 0 .. dim - 1 : picked[x] = PairAt(xr, o)
  BY <1>6, <1>7 DEF PairsOf
<1>9. o = j
  <2>1. FirstMax(xr, dim, o)
    BY <1>6, <1>7, <1>8 DEF PairAt
  <2>2. xr \in [0 .. dim - 1 -> Scores]
    BY <1>4 DEF xr
  <2> QED
    BY <1>1, <1>5, <2>1, <2>2, OneFirst
<1> QED
  BY <1>1, <1>2, <1>3, <1>4, <1>5, <1>8, <1>9 DEF xr, j, x

LEMMA TopFollows == TopKInv => TopIsArgmax
<1> SUFFICES ASSUME TopKInv, NEW r \in 0 .. line - 1
             PROVE  /\ picked[r * Kept][2] = Argmax(values[r], dim)
                    /\ \A a \in r * Kept + 1 .. (r + 1) * Kept - 1 : Before(picked[a - 1], picked[a])
  BY DEF TopIsArgmax
<1>1. picked[r * Kept][2] = Argmax(values[r], dim)
  BY RowShows DEF PairAt
<1>2. ASSUME NEW a \in r * Kept + 1 .. (r + 1) * Kept - 1
      PROVE  Before(picked[a - 1], picked[a])
  <2> DEFINE x == r * Kept
             b == a - x
  <2>1. x \in Nat /\ Kept \in Nat /\ (r + 1) * Kept = x + Kept
    BY RowShows
  <2>2. a \in x + 1 .. x + Kept - 1
    BY <2>1
  <2>3. \A c, d \in 0 .. Kept - 1 : c < d => Before(picked[x + c], picked[x + d])
    BY RowShows DEF RowDone
  <2> HIDE DEF x
  <2>4. b - 1 \in 0 .. Kept - 1 /\ b \in 0 .. Kept - 1 /\ b - 1 < b /\ x + (b - 1) = a - 1 /\ x + b = a
    BY <2>1, <2>2
  <2> HIDE DEF b
  <2>5. Before(picked[x + (b - 1)], picked[x + b])
    BY <2>3, <2>4
  <2> QED
    BY <2>4, <2>5
<1> QED
  BY <1>1, <1>2

\* The largest score of elements that include the first of the largest.
LEMMA MaxWithFirst ==
  ASSUME NEW n \in Nat \ {0}, NEW xr \in [0 .. n - 1 -> Scores], NEW j, FirstMax(xr, n, j),
         NEW S \in SUBSET (0 .. n - 1), j \in S
  PROVE  MaxScoreOf(xr, S) = xr[j]
<1> DEFINE V == {xr[i] : i \in S} \cup {NegInf}
           M == Max(V)
<1>1. NegInf \in Scores /\ \A v \in Scores : v \in Int /\ v >= NegInf
  BY ScoreAssumption DEF Scores, NegInf
<1>2. V \in SUBSET Scores /\ V # {} /\ xr[j] \in V
  BY <1>1
<1>3. \A v \in V : v <= xr[j]
  <2>1. \A i \in S : xr[i] <= xr[j]
    BY DEF FirstMax
  <2>2. xr[j] \in Scores /\ NegInf <= xr[j]
    BY <1>1, <1>2, ScoreAssumption DEF Scores, NegInf
  <2> QED
    BY <2>1, <2>2
<1> HIDE DEF V
<1>4. M \in V /\ \A w \in V : M >= w
  BY <1>2, LargestScore
<1>5. M \in Int /\ xr[j] \in Int
  BY <1>1, <1>2, <1>4
<1>6. M = xr[j]
  BY <1>2, <1>3, <1>4, <1>5
<1> QED
  BY <1>6 DEF MaxScoreOf, V

\* The gates of a row whose values are not all -inf.
LEMMA GatesFollow ==
  ASSUME TopKInv, NEW r \in 0 .. line - 1, values[r][Argmax(values[r], dim)] # NegInf
  PROVE  LET s   == [j \in 0 .. Kept - 1 |-> picked[r * Kept + j]]
             new == Gates(values[r], s, TRUE)
             raw == Gates(values[r], s, FALSE)
         IN  /\ SumFunction(new.gate) = new.sum
             /\ SumFunction(raw.gate) <= raw.sum
             /\ \A a, b \in DOMAIN s : new.gate[a] * raw.gate[b] = new.gate[b] * raw.gate[a]
<1> DEFINE s == [j \in 0 .. Kept - 1 |-> picked[r * Kept + j]]
           xr == values[r]
           J == 0 .. Kept - 1
           D == 0 .. dim - 1
           S == {s[j][2] : j \in J}
           top == Argmax(xr, dim)
           M == xr[top]
           w == [i \in D |-> Exp(xr[i], M)]
           kept == [i \in D |-> IF i \in S THEN Exp(xr[i], M) ELSE 0]
           g == [j \in J |-> Exp(s[j][1], M)]
           to == [j \in J |-> s[j][2]]
<1>0. /\ Kept \in Nat \ {0} /\ dim \in Nat \ {0} /\ xr \in [D -> Scores]
      /\ FirstMax(xr, dim, top) /\ RowDone(r)
      /\ r * Kept \in Nat /\ picked[r * Kept] = PairAt(xr, top)
  BY RowShows
<1>1. \A j \in J : s[j] \in PairsOf(xr, dim)
  BY <1>0 DEF RowDone
<1>2. \A a, b \in J : a < b => Before(s[a], s[b])
  BY <1>0 DEF RowDone
<1>3. 0 \in J /\ s[0] = PairAt(xr, top)
  <2>1. r * Kept + 0 = r * Kept /\ 0 \in J
    BY <1>0
  <2> QED
    BY <1>0, <2>1
<1>4. DOMAIN s = J
  OBVIOUS
<1> HIDE DEF s
<1>5. \A j \in J : s[j][2] \in D /\ s[j][1] = xr[s[j][2]] /\ s[j] = PairAt(xr, s[j][2])
  BY <1>1 DEF PairsOf, PairAt
<1>6. S \in SUBSET D /\ top \in S /\ D \in SUBSET D /\ top \in D
  <2>1. s[0][2] = top
    BY <1>3 DEF PairAt
  <2> QED
    BY <1>3, <1>5, <2>1
<1>7. DOMAIN xr = D
  BY <1>0
<1> HIDE DEF xr, top
<1>8. MaxScoreOf(xr, S) = M /\ MaxScoreOf(xr, D) = M
  <2> HIDE DEF S, M
  <2> QED
    BY <1>0, <1>6, MaxWithFirst DEF M
<1>9. M # NegInf
  BY DEF xr, top
<1>10. \A i \in D : w[i] \in Nat /\ kept[i] \in Nat
  <2> SUFFICES ASSUME NEW i \in D PROVE Exp(xr[i], M) \in Nat
    OBVIOUS
  <2>1. xr[i] \in Scores /\ M \in Scores
    BY <1>0, <1>6
  <2>2. xr[i] <= M /\ M <= M
    BY <1>0, <2>1, ScoreAssumption DEF FirstMax, Scores, NegInf
  <2> HIDE DEF M
  <2> QED
    BY <2>1, <2>2, ExpOK
<1>11. IsFiniteSet(D) /\ IsFiniteSet(J)
  BY <1>0, FS_Interval
<1>12. ASSUME NEW a \in J, NEW b \in J, to[a] = to[b]
       PROVE  a = b
  <2>1. s[a] = s[b] /\ s[a] \in Pairs
    <3>1. PairsOf(xr, dim) \subseteq Pairs
      BY <1>0, RowPairs
    <3> QED
      BY <1>1, <1>5, <1>12, <3>1
  <2>2. ~ Before(s[a], s[b]) /\ ~ Before(s[b], s[a])
    BY <2>1, BeforeTotal
  <2>3. ~ (a < b) /\ ~ (b < a)
    BY <1>2, <2>2
  <2> QED
    BY <1>0, <2>3
<1>13. S = {to[j] : j \in J} /\ \A j \in J : to[j] \in D /\ g[j] = w[to[j]] /\ kept[to[j]] = w[to[j]]
  BY <1>5
<1>14. SumFunctionOnSet(w, S) = SumFunctionOnSet(g, J) /\ SumFunctionOnSet(kept, S) = SumFunctionOnSet(g, J)
  <2>1. /\ \A j \in J : g[j] \in Nat
        /\ \A j \in J : w[to[j]] = g[j] /\ kept[to[j]] = g[j]
        /\ \A a, b \in J : to[a] = to[b] => a = b
    BY <1>10, <1>12, <1>13
  <2> HIDE DEF w, kept, g, to, S, J
  <2>2. SumFunctionOnSet(w, {to[j] : j \in J}) = SumFunctionOnSet(g, J)
    BY <1>11, <2>1, SumReindexed
  <2>3. SumFunctionOnSet(kept, {to[j] : j \in J}) = SumFunctionOnSet(g, J)
    BY <1>11, <2>1, SumReindexed
  <2> QED
    BY <1>13, <2>2, <2>3
<1>15. SumFunctionOnSet(w, S) <= SumFunctionOnSet(w, D)
  <2> HIDE DEF w, S, D
  <2> QED
    BY <1>6, <1>10, <1>11, SumOfSome
<1>16. S # {} /\ D # {}
  BY <1>6
<1> DEFINE new == Gates(xr, s, TRUE)
           raw == Gates(xr, s, FALSE)
<1>17. new.gate = g /\ new.sum = SumFunctionOnSet(kept, S)
  <2>1. Softmax(xr, S).m = M /\ Softmax(xr, S).l = SumFunctionOnSet(kept, S)
    <3> HIDE DEF M, S
    <3> QED
      BY <1>7, <1>8, <1>9, <1>16 DEF Softmax
  <2> DEFINE G(m) == [j \in J |-> Exp(s[j][1], m)]
  <2>2. new = [gate |-> G(Softmax(xr, S).m), sum |-> Softmax(xr, S).l]
    BY <1>4 DEF Gates
  <2>3. G(M) = g
    OBVIOUS
  <2> HIDE DEF new, G, g, M, w, kept, S, D
  <2> QED
    BY <2>1, <2>2, <2>3
<1>18. raw.gate = g /\ raw.sum = SumFunctionOnSet(w, D)
  <2>1. Softmax(xr, D).m = M /\ Softmax(xr, D).l = SumFunctionOnSet(w, D)
    <3>1. [i \in D |-> IF i \in D THEN Exp(xr[i], M) ELSE 0] = w
      OBVIOUS
    <3> HIDE DEF M, w
    <3> QED
      BY <1>7, <1>8, <1>9, <1>16, <3>1 DEF Softmax
  <2> DEFINE G(m) == [j \in J |-> Exp(s[j][1], m)]
  <2>2. raw = [gate |-> G(Softmax(xr, D).m), sum |-> Softmax(xr, D).l]
    BY <1>4, <1>7 DEF Gates
  <2>3. G(M) = g
    OBVIOUS
  <2> HIDE DEF raw, G, g, M, w, kept, S, D
  <2> QED
    BY <2>1, <2>2, <2>3
<1>19. SumFunction(g) = SumFunctionOnSet(g, J)
  BY DEF SumFunction
<1>20. \A a, b \in J : g[a] * g[b] = g[b] * g[a]
  <2>1. \A a \in J : g[a] \in Nat
    BY <1>10, <1>13
  <2> HIDE DEF g, J
  <2> QED
    BY <2>1
<1>21. /\ SumFunction(new.gate) = new.sum
       /\ SumFunction(raw.gate) <= raw.sum
       /\ \A a, b \in DOMAIN s : new.gate[a] * raw.gate[b] = new.gate[b] * raw.gate[a]
  <2> HIDE DEF new, raw, g, w, kept, S, D, J
  <2> QED
    BY <1>4, <1>14, <1>15, <1>17, <1>18, <1>19, <1>20
<1> QED
  BY <1>21 DEF s, xr

\* For rows of any length, any k and any order of equal values in the heap,
\* top-k keeps the largest values in order, beginning with the one that argmax
\* picks, and the router's gates are in proportion to their probabilities.
THEOREM RoutingExact == TopKSpec => []RoutingKeepsBest
<1>1. TopKInv => RoutingKeepsBest
  <2> SUFFICES ASSUME TopKInv PROVE GatesProportional
    BY LargestKept, TopFollows DEF RoutingKeepsBest
  <2> QED
    BY GatesFollow DEF GatesProportional
<1> QED
  BY <1>1, TopKStart, TopKSteps, PTL DEF TopKSpec

---------------------------------------------------------------------------
(* Drawing by weight *)

\* Products with a positive factor are in the order of the other factors.
LEMMA OrderedProducts ==
  ASSUME NEW a \in Nat, NEW b \in Nat, NEW t \in Nat
  PROVE  /\ a * t \in Nat /\ b * t \in Nat
         /\ a <= b => a * t <= b * t
         /\ t > 0 => (a < b <=> a * t < b * t) /\ (a <= b <=> a * t <= b * t)
<1>1. a * t \in Nat /\ b * t \in Nat
  OBVIOUS
<1>2. ASSUME a <= b PROVE a * t <= b * t
  <2>1. b - a \in Nat /\ (b - a) * t \in Nat
    BY <1>2
  <2>2. (b - a) * t = b * t - a * t
    OBVIOUS
  <2> QED
    BY <1>1, <2>1, <2>2
<1>3. ASSUME a < b, t > 0 PROVE a * t < b * t
  <2>1. b - (a + 1) \in Nat /\ (b - (a + 1)) * t \in Nat
    BY <1>3
  <2>2. (b - (a + 1)) * t = b * t - (a * t + t)
    OBVIOUS
  <2> QED
    BY <1>1, <1>3, <2>1, <2>2
<1>4. ASSUME b < a, t > 0 PROVE b * t < a * t
  <2>1. a - (b + 1) \in Nat /\ (a - (b + 1)) * t \in Nat
    BY <1>4
  <2>2. (a - (b + 1)) * t = a * t - (b * t + t)
    OBVIOUS
  <2> QED
    BY <1>1, <1>4, <2>1, <2>2
<1>5. a <= b \/ b < a
  OBVIOUS
<1>6. a < b \/ b <= a
  OBVIOUS
<1>7. ASSUME b <= a PROVE b * t <= a * t
  <2>1. a - b \in Nat /\ (a - b) * t \in Nat
    BY <1>7
  <2>2. (a - b) * t = a * t - b * t
    OBVIOUS
  <2> QED
    BY <1>1, <2>1, <2>2
<1> QED
  BY <1>1, <1>2, <1>3, <1>4, <1>5, <1>6, <1>7

\* The cumulative weights.
LEMMA SumsUpTo ==
  ASSUME NEW n \in Nat \ {0}, NEW w, \A i \in 0 .. n - 1 : w[i] \in Nat
  PROVE  /\ SumFunctionOnSet(w, 0 .. -1) = 0
         /\ \A i \in -1 .. n - 1 : SumFunctionOnSet(w, 0 .. i) \in Nat
         /\ \A i \in 0 .. n - 1 :
              SumFunctionOnSet(w, 0 .. i) = SumFunctionOnSet(w, 0 .. i - 1) + w[i]
         /\ \A i, j \in -1 .. n - 1 :
              i <= j => SumFunctionOnSet(w, 0 .. i) <= SumFunctionOnSet(w, 0 .. j)
<1> DEFINE S == 0 .. n - 1
<1>1. IsFiniteSet(S) /\ \A i \in -1 .. n - 1 : (0 .. i) \in SUBSET S /\ IsFiniteSet(0 .. i)
  BY FS_Interval
<1>2. \A i \in -1 .. n - 1 : SumFunctionOnSet(w, 0 .. i) \in Nat
  BY <1>1, SumNat
<1>3. ASSUME NEW i \in 0 .. n - 1
      PROVE  SumFunctionOnSet(w, 0 .. i) = SumFunctionOnSet(w, 0 .. i - 1) + w[i]
  <2>1. (0 .. i - 1) \in SUBSET S /\ i \in S \ (0 .. i - 1) /\ (0 .. i - 1) \cup {i} = 0 .. i
    OBVIOUS
  <2>2. SumFunctionOnSet(w, (0 .. i - 1) \cup {i}) = w[i] + SumFunctionOnSet(w, 0 .. i - 1)
    <3> DEFINE A == 0 .. i - 1
    <3>1. A \in SUBSET S /\ i \in S \ A /\ IsFiniteSet(S) /\ \A x \in S : w[x] \in Int
      BY <1>1, <2>1
    <3> HIDE DEF A, S
    <3>2. \A T \in SUBSET S : \A x \in S \ T :
            SumFunctionOnSet(w, T \cup {x}) = w[x] + SumFunctionOnSet(w, T)
      BY <3>1, SumOneMore
    <3>3. SumFunctionOnSet(w, A \cup {i}) = w[i] + SumFunctionOnSet(w, A)
      BY <3>1, <3>2
    <3> QED
      BY <3>3 DEF A
  <2>3. SumFunctionOnSet(w, 0 .. i - 1) \in Nat
    <3>1. i - 1 \in -1 .. n - 1
      OBVIOUS
    <3> QED
      BY <1>2, <3>1
  <2>4. w[i] \in Nat
    OBVIOUS
  <2> DEFINE x == SumFunctionOnSet(w, 0 .. i - 1)
  <2>5. SumFunctionOnSet(w, 0 .. i) = w[i] + x
    BY <2>1, <2>2
  <2> HIDE DEF x
  <2>6. SumFunctionOnSet(w, 0 .. i) = x + w[i]
    BY <2>3, <2>4, <2>5 DEF x
  <2> QED
    BY <2>6 DEF x
<1>4. ASSUME NEW i \in -1 .. n - 1, NEW j \in -1 .. n - 1, i <= j
      PROVE  SumFunctionOnSet(w, 0 .. i) <= SumFunctionOnSet(w, 0 .. j)
  <2>1. (0 .. i) \in SUBSET (0 .. j) /\ (\A x \in 0 .. j : w[x] \in Nat) /\ IsFiniteSet(0 .. j)
    BY <1>1, <1>4
  <2> QED
    BY <2>1, SumOfSome
<1>5. SumFunctionOnSet(w, 0 .. -1) = 0
  <2>1. 0 .. -1 = {} /\ IsFiniteSet({})
    BY FS_EmptySet
  <2> QED
    BY <2>1, SumUnfolds
<1> QED
  BY <1>2, <1>3, <1>4, <1>5

\* A number below the sum of the weights draws the token in whose share of the
\* cumulative weights it is.
LEMMA DrawnAt ==
  ASSUME NEW n \in Nat \ {0}, NEW w, DOMAIN w = 0 .. n - 1, \A i \in 0 .. n - 1 : w[i] \in Nat,
         NEW u \in Nat, u < SumFunctionOnSet(w, 0 .. n - 1)
  PROVE  /\ SampleAt(w, u) \in 0 .. n - 1
         /\ w[SampleAt(w, u)] > 0
         /\ \A i \in 0 .. n - 1 :
              SampleAt(w, u) = i <=> /\ SumFunctionOnSet(w, 0 .. i - 1) <= u
                                     /\ u < SumFunctionOnSet(w, 0 .. i)
<1> DEFINE F(i) == SumFunctionOnSet(w, 0 .. i)
           hit == {i \in 0 .. n - 1 : u < F(i)}
<1>1. /\ F(-1) = 0
      /\ \A i \in -1 .. n - 1 : F(i) \in Nat
      /\ \A i \in 0 .. n - 1 : F(i) = F(i - 1) + w[i]
      /\ \A i, j \in -1 .. n - 1 : i <= j => F(i) <= F(j)
  BY SumsUpTo
<1>2. u < F(n - 1)
  OBVIOUS
<1>3. SampleAt(w, u) = IF hit = {} THEN Max(DOMAIN w) ELSE Min(hit)
  BY DEF SampleAt
<1> HIDE DEF F
<1>4. hit # {} /\ hit \in SUBSET Nat
  BY <1>2
<1>5. PICK m \in hit : \A y \in hit : m <= y
  <2> HIDE DEF hit
  <2> QED
    BY <1>4, LeastNat
<1>6. Min(hit) = m
  <2>1. \A x \in hit : (\A y \in hit : x <= y) => x = m
    BY <1>4, <1>5
  <2> HIDE DEF hit
  <2> QED
    BY <1>5, <2>1 DEF Min
<1>7. SampleAt(w, u) = m
  BY <1>3, <1>4, <1>6
<1>8. m \in 0 .. n - 1 /\ u < F(m)
  OBVIOUS
<1>9. F(m - 1) <= u
  <2>1. CASE m = 0
    BY <1>1, <2>1
  <2>2. CASE m # 0
    <3>1. m - 1 \in 0 .. n - 1 /\ m - 1 \notin hit
      BY <1>5, <1>8, <2>2
    <3>2. ~ (u < F(m - 1))
      BY <3>1
    <3>3. F(m - 1) \in Nat
      BY <1>1, <3>1
    <3> HIDE DEF hit
    <3> QED
      BY <3>2, <3>3
  <2> QED
    BY <2>1, <2>2
<1>10. w[m] > 0
  BY <1>1, <1>8, <1>9
<1>11. ASSUME NEW i \in 0 .. n - 1, F(i - 1) <= u, u < F(i)
       PROVE  m = i
  <2>1. m <= i
    BY <1>5, <1>11
  <2>2. CASE m < i
    <3>1. m \in -1 .. n - 1 /\ i - 1 \in -1 .. n - 1 /\ m <= i - 1
      BY <1>8, <2>2
    <3>2. F(m) <= F(i - 1) /\ F(m) \in Nat /\ F(i - 1) \in Nat
      BY <1>1, <3>1
    <3> QED
      BY <1>8, <1>11, <3>2
  <2> QED
    BY <1>8, <2>1, <2>2
<1>12. \A i \in 0 .. n - 1 : m = i <=> F(i - 1) <= u /\ u < F(i)
  BY <1>8, <1>9, <1>11
<1> QED
  BY <1>7, <1>8, <1>10, <1>12 DEF F

\* As many numbers draw a token as it has weight.
LEMMA DrawnCount ==
  ASSUME NEW n \in Nat \ {0}, NEW w, DOMAIN w = 0 .. n - 1, \A i \in 0 .. n - 1 : w[i] \in Nat,
         NEW i \in 0 .. n - 1
  PROVE  Cardinality({u \in 0 .. SumFunctionOnSet(w, 0 .. n - 1) - 1 : SampleAt(w, u) = i}) = w[i]
<1> DEFINE a == SumFunctionOnSet(w, 0 .. i - 1)
           b == SumFunctionOnSet(w, 0 .. i)
           t == SumFunctionOnSet(w, 0 .. n - 1)
<1>1. a \in Nat /\ b = a + w[i] /\ b <= t /\ t \in Nat /\ w[i] \in Nat
  <2>1. i - 1 \in -1 .. n - 1 /\ i \in -1 .. n - 1 /\ n - 1 \in -1 .. n - 1 /\ i <= n - 1
    OBVIOUS
  <2> QED
    BY <2>1, SumsUpTo
<1>2. \A u \in 0 .. t - 1 : SampleAt(w, u) = i <=> a <= u /\ u < b
  <2> SUFFICES ASSUME NEW u \in 0 .. t - 1 PROVE SampleAt(w, u) = i <=> a <= u /\ u < b
    OBVIOUS
  <2>1. u \in Nat /\ u < t
    BY <1>1
  <2> QED
    BY <2>1, DrawnAt
<1> HIDE DEF a, b, t
<1>3. {u \in 0 .. t - 1 : SampleAt(w, u) = i} = a .. b - 1
  BY <1>1, <1>2
<1>4. Cardinality(a .. b - 1) = w[i]
  <2>1. a \in Int /\ b - 1 \in Int
    BY <1>1
  <2>2. Cardinality(a .. b - 1) = IF a > b - 1 THEN 0 ELSE (b - 1) - a + 1
    BY <2>1, FS_Interval
  <2> QED
    BY <1>1, <2>2
<1> QED
  BY <1>3, <1>4 DEF t

---------------------------------------------------------------------------
(* Speculative decoding *)

\* What a proof knows of a row of probabilities.
LEMMA RowTyped ==
  ASSUME NEW step \in Nat \ {0}, NEW r \in Distributions(step)
  PROVE  /\ DOMAIN r = Word /\ \A x \in Word : r[x] \in Nat
         /\ SumFunctionOnSet(r, Word) = Whole /\ SumFunction(r) = Whole
<1>1. r \in [Word -> {step * n : n \in 0 .. Whole \div step}] /\ SumFunction(r) = Whole
  BY DEF Distributions
<1>2. \A n \in 0 .. Whole \div step : step * n \in Nat
  OBVIOUS
<1>3. DOMAIN r = Word /\ \A x \in Word : r[x] \in Nat
  BY <1>1, <1>2
<1>4. SumFunction(r) = SumFunctionOnSet(r, Word)
  BY <1>3 DEF SumFunction
<1> QED
  BY <1>1, <1>3, <1>4

\* Cumulative weights of a row that is scaled.
LEMMA ScaledUpTo ==
  ASSUME NEW n \in Nat \ {0}, NEW w, \A i \in 0 .. n - 1 : w[i] \in Nat,
         NEW f \in Nat, NEW h, \A i \in 0 .. n - 1 : h[i] = w[i] * f
  PROVE  \A i \in -1 .. n - 1 : SumFunctionOnSet(h, 0 .. i) = SumFunctionOnSet(w, 0 .. i) * f
<1> SUFFICES ASSUME NEW i \in -1 .. n - 1
             PROVE  SumFunctionOnSet(h, 0 .. i) = SumFunctionOnSet(w, 0 .. i) * f
  OBVIOUS
<1> DEFINE A == 0 .. i
<1>1. IsFiniteSet(A)
  BY FS_Interval
<1>2. (\A x \in A : w[x] \in Nat) /\ (\A x \in A : h[x] = w[x] * f)
  OBVIOUS
<1> HIDE DEF A
<1>3. SumFunctionOnSet(h, A) = SumFunctionOnSet(w, A) * f
  BY <1>1, <1>2, SumScaled
<1> QED
  BY <1>3 DEF A

\* Comparing multiples of t * c with multiples of t.
LEMMA GridPoints ==
  ASSUME NEW t \in Nat \ {0}, NEW c \in Nat, NEW a \in Nat, NEW u \in Nat
  PROVE  /\ a * (t * c) <= u * t <=> a * c <= u
         /\ u * t < a * (t * c) <=> u < a * c
         /\ u < t * c => u * t \in Nat /\ u * t < t * (t * c)
<1>1. a * (t * c) = (a * c) * t
  BY SMT
<1> DEFINE x == a * c
           y == t * c
<1>2. x \in Nat /\ y \in Nat /\ t \in Nat /\ t > 0 /\ a * y = x * t /\ t * y = y * t
  BY <1>1
<1> HIDE DEF x, y
<1>3. (x <= u <=> x * t <= u * t) /\ (u < x <=> u * t < x * t) /\ u * t \in Nat
  BY <1>2, OrderedProducts
<1>4. u < y => u * t < y * t
  BY <1>2, OrderedProducts
<1>5. /\ a * y <= u * t <=> x <= u
      /\ u * t < a * y <=> u < x
      /\ u < y => u * t \in Nat /\ u * t < t * y
  BY <1>2, <1>3, <1>4
<1> QED
  BY <1>5 DEF x, y

LEMMA GridSums ==
  ASSUME NEW n \in Nat \ {0}, NEW w, \A i \in 0 .. n - 1 : w[i] \in Nat
  PROVE  LET h == [i \in 0 .. n - 1 |-> w[i] * Fine]
         IN  \A i \in -1 .. n - 1 : SumFunctionOnSet(h, 0 .. i) = SumFunctionOnSet(w, 0 .. i) * Fine
<1> DEFINE h == [i \in 0 .. n - 1 |-> w[i] * Fine]
<1>1. Fine \in Nat /\ \A i \in 0 .. n - 1 : h[i] = w[i] * Fine
  BY VerifyAssumption
<1> HIDE DEF h
<1>2. \A i \in -1 .. n - 1 : SumFunctionOnSet(h, 0 .. i) = SumFunctionOnSet(w, 0 .. i) * Fine
  BY <1>1, ScaledUpTo
<1> QED
  BY <1>2 DEF h

\* What a sum of weights t leaves of the grid for each weight.
Share(t, c) == Fine = t * c

\* A uniform number draws from weights with any sum that the grid can be
\* divided by: as many points for a token as it has weight.
LEMMA DrawnFromProbs ==
  ASSUME NEW n \in Nat \ {0}, NEW w, DOMAIN w = 0 .. n - 1, \A i \in 0 .. n - 1 : w[i] \in Nat,
         NEW t \in Nat \ {0}, t = SumFunctionOnSet(w, 0 .. n - 1), NEW c \in Nat, Share(t, c)
  PROVE  /\ \A i \in 0 .. n - 1 :
              Cardinality({u \in 0 .. Fine - 1 : SampleFromProbs(w, t, u) = i}) = w[i] * c
         /\ \A u \in 0 .. Fine - 1 : /\ SampleFromProbs(w, t, u) \in 0 .. n - 1
                                     /\ w[SampleFromProbs(w, t, u)] > 0
<1> DEFINE h == [i \in 0 .. n - 1 |-> w[i] * Fine]
           F(i) == SumFunctionOnSet(w, 0 .. i)
<1>0. Fine \in Nat \ {0} /\ n - 1 \in -1 .. n - 1
  BY VerifyAssumption
<1>1. DOMAIN h = 0 .. n - 1 /\ (\A i \in 0 .. n - 1 : h[i] \in Nat)
      /\ \A u : SampleFromProbs(w, t, u) = SampleAt(h, u * t)
  BY <1>0 DEF SampleFromProbs
<1>2. \A i \in -1 .. n - 1 : F(i) \in Nat
  BY SumsUpTo
<1>3. \A i \in -1 .. n - 1 : SumFunctionOnSet(h, 0 .. i) = F(i) * Fine
  BY GridSums
<1> HIDE DEF h
<1>4. F(n - 1) = t /\ SumFunctionOnSet(h, 0 .. n - 1) = t * Fine
  BY <1>0, <1>3
<1>5. ASSUME NEW u \in 0 .. Fine - 1
      PROVE  u * t \in Nat /\ u * t < SumFunctionOnSet(h, 0 .. n - 1)
  <2>1. u \in Nat /\ u < t * c
    BY <1>0 DEF Share
  <2>2. u * t \in Nat /\ u * t < t * (t * c)
    BY <2>1, GridPoints
  <2> QED
    BY <1>4, <2>2 DEF Share
<1>6. ASSUME NEW u \in 0 .. Fine - 1
      PROVE  /\ SampleAt(h, u * t) \in 0 .. n - 1 /\ h[SampleAt(h, u * t)] > 0
             /\ \A i \in 0 .. n - 1 :
                  SampleAt(h, u * t) = i <=> /\ SumFunctionOnSet(h, 0 .. i - 1) <= u * t
                                             /\ u * t < SumFunctionOnSet(h, 0 .. i)
  BY <1>1, <1>5, DrawnAt
<1>7. ASSUME NEW a \in Nat, NEW u \in Nat
      PROVE  (a * Fine <= u * t <=> a * c <= u) /\ (u * t < a * Fine <=> u < a * c)
  BY GridPoints DEF Share
<1>8. ASSUME NEW i \in 0 .. n - 1
      PROVE  Cardinality({u \in 0 .. Fine - 1 : SampleFromProbs(w, t, u) = i}) = w[i] * c
  <2> DEFINE a == F(i - 1)
             b == F(i)
  <2>1. i - 1 \in -1 .. n - 1 /\ i \in -1 .. n - 1
    OBVIOUS
  <2>2. a \in Nat /\ b \in Nat /\ b = a + w[i] /\ b <= t /\ w[i] \in Nat
    <3>1. a \in Nat /\ b \in Nat
      BY <1>2, <2>1
    <3>2. b = a + w[i] /\ b <= F(n - 1)
      <4>1. n - 1 \in -1 .. n - 1 /\ i <= n - 1
        OBVIOUS
      <4> QED
        BY <2>1, <4>1, SumsUpTo
    <3> QED
      BY <3>1, <3>2
  <2>3. SumFunctionOnSet(h, 0 .. i - 1) = a * Fine /\ SumFunctionOnSet(h, 0 .. i) = b * Fine
    BY <1>3, <2>1
  <2> HIDE DEF a, b
  <2>4. \A u \in 0 .. Fine - 1 : SampleFromProbs(w, t, u) = i <=> a * c <= u /\ u < b * c
    <3> SUFFICES ASSUME NEW u \in 0 .. Fine - 1
                 PROVE  SampleFromProbs(w, t, u) = i <=> a * c <= u /\ u < b * c
      OBVIOUS
    <3>1. SampleFromProbs(w, t, u) = i <=> a * Fine <= u * t /\ u * t < b * Fine
      BY <1>1, <1>6, <2>3
    <3>2. u \in Nat
      BY <1>0
    <3>3. (a * Fine <= u * t <=> a * c <= u) /\ (u * t < b * Fine <=> u < b * c)
      BY <1>7, <2>2, <3>2
    <3> QED
      BY <3>1, <3>3
  <2>5. a * c \in Nat /\ b * c = a * c + w[i] * c /\ b * c <= Fine /\ w[i] * c \in Nat
    <3>1. b * c <= t * c
      BY <2>2, OrderedProducts
    <3>2. t * c = Fine
      BY DEF Share
    <3>3. (a + w[i]) * c = a * c + w[i] * c /\ b = a + w[i]
      BY <2>2
    <3>4. a * c \in Nat /\ w[i] * c \in Nat
      BY <2>2
    <3>5. b * c <= Fine
      BY <3>1, <3>2
    <3>6. b * c = a * c + w[i] * c
      BY <3>3
    <3> QED
      BY <3>4, <3>5, <3>6
  <2> DEFINE p == a * c
             r == b * c
             d == w[i] * c
  <2>6. p \in Nat /\ r = p + d /\ r <= Fine /\ d \in Nat
    BY <2>5
  <2>7. \A u \in 0 .. Fine - 1 : SampleFromProbs(w, t, u) = i <=> p <= u /\ u < r
    BY <2>4
  <2> HIDE DEF p, r, d
  <2>8. {u \in 0 .. Fine - 1 : SampleFromProbs(w, t, u) = i} = p .. r - 1
    BY <1>0, <2>6, <2>7
  <2>9. Cardinality(p .. r - 1) = d
    <3>1. p \in Int /\ r - 1 \in Int
      BY <2>6
    <3>2. Cardinality(p .. r - 1) = IF p > r - 1 THEN 0 ELSE (r - 1) - p + 1
      BY <3>1, FS_Interval
    <3> QED
      BY <2>6, <3>2
  <2> QED
    BY <2>8, <2>9 DEF d
<1>9. ASSUME NEW u \in 0 .. Fine - 1
      PROVE  /\ SampleFromProbs(w, t, u) \in 0 .. n - 1
             /\ w[SampleFromProbs(w, t, u)] > 0
  <2>1. PICK i \in 0 .. n - 1 : SampleFromProbs(w, t, u) = i /\ h[i] > 0
    BY <1>1, <1>6
  <2>2. w[i] \in Nat /\ w[i] * Fine > 0
    BY <2>1 DEF h
  <2>3. w[i] > 0
    BY <1>0, <2>2
  <2> QED
    BY <2>1, <2>3
<1> QED
  BY <1>8, <1>9

\* A divisor of the grid.
LEMMA GridDivides ==
  ASSUME NEW t \in 1 .. Whole
  PROVE  \E c \in Nat : Fine = t * c
<1>1. Fine \in Nat \ {0} /\ Whole \in Nat /\ t \in Nat \ {0} /\ Fine % t = 0
  BY VerifyAssumption
<1> DEFINE c == Fine \div t
<1>2. Fine = t * c /\ c \in Int
  <2>1. Fine = t * (Fine \div t) + (Fine % t) /\ Fine \div t \in Int
    BY <1>1, Z3
  <2> QED
    BY <1>1, <2>1
<1> HIDE DEF c
<1>3. c \in Nat
  <2>1. CASE c < 0
    <3>1. t * c <= -t
      BY <1>1, <1>2, <2>1
    <3> QED
      BY <1>1, <1>2, <3>1
  <2> QED
    BY <1>2, <2>1
<1> QED
  BY <1>2, <1>3

\* Of the points of the grid, those that accept a token are in the ratio of
\* its probabilities, or all.
LEMMA AcceptedPoints ==
  ASSUME NEW trow, NEW drow, NEW x, trow[x] \in Nat, drow[x] \in 0 .. Whole
  PROVE  LET yes == Cardinality({u \in 0 .. Fine - 1 : Accepts(trow, drow, x, u)})
         IN  /\ yes \in 0 .. Fine
             /\ drow[x] * yes = Smaller(drow[x], trow[x]) * Fine
<1> DEFINE t == trow[x]
           d == drow[x]
           Y == {u \in 0 .. Fine - 1 : Accepts(trow, drow, x, u)}
           yes == Cardinality(Y)
<1>0. Fine \in Nat \ {0} /\ Whole \in Nat /\ t \in Nat /\ d \in Nat /\ d <= Whole
  BY VerifyAssumption
<1>1. Y = {u \in 0 .. Fine - 1 : IF d = 0 THEN t > 0 ELSE u * d < t * Fine}
  BY DEF Accepts
<1>2. \A b \in 0 .. Fine : Cardinality(0 .. b - 1) = b
  <2> SUFFICES ASSUME NEW b \in 0 .. Fine PROVE Cardinality(0 .. b - 1) = b
    OBVIOUS
  <2>1. Cardinality(0 .. b - 1) = IF 0 > b - 1 THEN 0 ELSE (b - 1) - 0 + 1
    BY <1>0, FS_Interval
  <2> QED
    BY <1>0, <2>1
<1> HIDE DEF t, d, Y
<1>3. CASE d = 0
  <2>1. Y = 0 .. Fine - 1 \/ Y = 0 .. 0 - 1
    BY <1>0, <1>1, <1>3
  <2>2. yes \in 0 .. Fine
    <3>1. 0 \in 0 .. Fine /\ Fine \in 0 .. Fine
      BY <1>0
    <3>2. Cardinality(0 .. 0 - 1) = 0 /\ Cardinality(0 .. Fine - 1) = Fine
      BY <1>2, <3>1
    <3> QED
      BY <2>1, <3>1, <3>2
  <2>3. d * yes = 0 /\ Smaller(d, t) * Fine = 0
    BY <1>0, <1>3, <2>2 DEF Smaller
  <2> QED
    BY <2>2, <2>3 DEF t, d, Y
<1>4. CASE d # 0 /\ t >= d
  <2>1. ASSUME NEW u \in 0 .. Fine - 1 PROVE u * d < t * Fine
    <3>1. u \in Nat /\ u + 1 <= Fine
      BY <1>0
    <3>2. (u + 1) * d <= Fine * d /\ (u + 1) * d = u * d + d /\ u * d \in Nat
      BY <1>0, <3>1
    <3>3. Fine * d <= Fine * t
      BY <1>0, <1>4
    <3>4. Fine * t = t * Fine /\ Fine * t \in Nat /\ Fine * d \in Nat
      BY <1>0
    <3> QED
      BY <1>0, <1>4, <3>2, <3>3, <3>4
  <2>2. Y = 0 .. Fine - 1
    BY <1>1, <1>4, <2>1
  <2>3. yes = Fine
    BY <1>0, <1>2, <2>2
  <2>4. Smaller(d, t) = d
    BY <1>0, <1>4 DEF Smaller
  <2> QED
    BY <1>0, <2>3, <2>4 DEF t, d, Y
<1>5. CASE d # 0 /\ t < d
  <2>1. d \in 1 .. Whole
    BY <1>0, <1>5
  <2>2. PICK c \in Nat : Fine = d * c
    BY <2>1, GridDivides
  <2>3. t * Fine = (t * c) * d /\ t * c \in Nat /\ t * c <= Fine
    <3>1. t * c <= d * c
      BY <1>0, <1>5, <2>2, OrderedProducts
    <3> QED
      BY <1>0, <2>2, <3>1
  <2> DEFINE b == t * c
  <2>4. b \in 0 .. Fine /\ t * Fine = b * d
    BY <1>0, <2>3
  <2> HIDE DEF b
  <2>5. ASSUME NEW u \in 0 .. Fine - 1 PROVE u * d < b * d <=> u < b
    <3>1. u \in Nat /\ b \in Nat
      BY <1>0, <2>4
    <3> QED
      BY <1>0, <1>5, <3>1, OrderedProducts
  <2>6. Y = 0 .. b - 1
    BY <1>0, <1>1, <1>5, <2>4, <2>5
  <2>7. yes = b
    BY <1>2, <2>4, <2>6
  <2>8. Smaller(d, t) = t /\ d * b = b * d
    BY <1>0, <1>5, <2>4 DEF Smaller
  <2> QED
    BY <1>0, <2>4, <2>7, <2>8 DEF t, d, Y
<1> QED
  BY <1>0, <1>3, <1>4, <1>5

\* What the target has more than the draft adds up to what the draft has more.
LEMMA ExcessBalanced ==
  ASSUME NEW trow, NEW drow,
         \A x \in Word : trow[x] \in Nat /\ drow[x] \in Nat,
         SumFunctionOnSet(trow, Word) = Whole, SumFunctionOnSet(drow, Word) = Whole
  PROVE  LET pos  == [x \in Word |-> IF trow[x] > drow[x] THEN trow[x] - drow[x] ELSE 0]
             over == [x \in Word |-> IF drow[x] > trow[x] THEN drow[x] - trow[x] ELSE 0]
         IN  /\ SumFunctionOnSet(pos, Word) = SumFunctionOnSet(over, Word)
             /\ SumFunctionOnSet(pos, Word) \in 0 .. Whole
             /\ SumFunctionOnSet(pos, Word) = 0 => \A x \in Word : trow[x] = drow[x]
<1> DEFINE pos  == [x \in Word |-> IF trow[x] > drow[x] THEN trow[x] - drow[x] ELSE 0]
           over == [x \in Word |-> IF drow[x] > trow[x] THEN drow[x] - trow[x] ELSE 0]
           both == [x \in Word |-> trow[x] + over[x]]
           least == [x \in Word |-> Smaller(drow[x], trow[x])]
<1>1. IsFiniteSet(Word) /\ Whole \in Nat
  BY VerifyAssumption, FS_Interval DEF Word
<1>2. \A x \in Word : /\ pos[x] \in Nat /\ over[x] \in Nat /\ both[x] \in Nat /\ least[x] \in Nat
                      /\ both[x] = trow[x] + over[x] /\ both[x] = drow[x] + pos[x]
                      /\ trow[x] = pos[x] + least[x]
                      /\ pos[x] = 0 /\ over[x] = 0 => trow[x] = drow[x]
  <2> SUFFICES ASSUME NEW x \in Word
               PROVE  /\ pos[x] \in Nat /\ over[x] \in Nat /\ both[x] \in Nat /\ least[x] \in Nat
                      /\ both[x] = trow[x] + over[x] /\ both[x] = drow[x] + pos[x]
                      /\ trow[x] = pos[x] + least[x]
                      /\ pos[x] = 0 /\ over[x] = 0 => trow[x] = drow[x]
    OBVIOUS
  <2> DEFINE t == trow[x]
             d == drow[x]
  <2>1. t \in Nat /\ d \in Nat
    OBVIOUS
  <2>2. /\ pos[x] = (IF t > d THEN t - d ELSE 0) /\ over[x] = (IF d > t THEN d - t ELSE 0)
        /\ both[x] = t + over[x] /\ least[x] = (IF d < t THEN d ELSE t)
    BY DEF Smaller
  <2> HIDE DEF t, d, pos, over, both, least
  <2>3. CASE t > d
    BY <2>1, <2>2, <2>3 DEF t, d
  <2>4. CASE ~ (t > d)
    BY <2>1, <2>2, <2>4 DEF t, d
  <2> QED
    BY <2>3, <2>4
<1> HIDE DEF pos, over, both, least
<1>3. SumFunctionOnSet(both, Word) = Whole + SumFunctionOnSet(over, Word)
  BY <1>1, <1>2, SumOfSum
<1>4. SumFunctionOnSet(both, Word) = Whole + SumFunctionOnSet(pos, Word)
  BY <1>1, <1>2, SumOfSum
<1>5. Whole = SumFunctionOnSet(pos, Word) + SumFunctionOnSet(least, Word)
  BY <1>1, <1>2, SumOfSum
<1>6. /\ SumFunctionOnSet(pos, Word) \in Nat /\ SumFunctionOnSet(over, Word) \in Nat
      /\ SumFunctionOnSet(least, Word) \in Nat
  BY <1>1, <1>2, SumNat
<1>7. SumFunctionOnSet(pos, Word) = SumFunctionOnSet(over, Word)
  BY <1>1, <1>3, <1>4, <1>6
<1>8. SumFunctionOnSet(pos, Word) \in 0 .. Whole
  BY <1>1, <1>5, <1>6
<1>9. ASSUME SumFunctionOnSet(pos, Word) = 0 PROVE \A x \in Word : trow[x] = drow[x]
  <2>1. \A x \in Word : pos[x] = 0
    BY <1>1, <1>2, <1>9, SumIsZero
  <2>2. \A x \in Word : over[x] = 0
    BY <1>1, <1>2, <1>7, <1>9, SumIsZero
  <2> QED
    BY <1>2, <2>1, <2>2
<1> QED
  BY <1>7, <1>8, <1>9 DEF pos, over

\* What is drawn after a rejection: weights that divide the grid, of the
\* excess if there is any.
LEMMA CorrectedRow ==
  ASSUME NEW trow \in Distributions(1), NEW drow \in Distributions(1)
  PROVE  LET w    == Corrected(trow, drow)
             pos  == [x \in Word |-> IF trow[x] > drow[x] THEN trow[x] - drow[x] ELSE 0]
         IN  /\ DOMAIN w = Word /\ \A x \in Word : w[x] \in Nat
             /\ SumFunction(w) \in 1 .. Whole
             /\ SumFunction(w) = SumFunctionOnSet(w, Word)
             /\ \/ w = pos
                \/ w = trow /\ SumFunctionOnSet(pos, Word) = 0
<1> DEFINE w == Corrected(trow, drow)
           pos == [x \in Word |-> IF trow[x] > drow[x] THEN trow[x] - drow[x] ELSE 0]
<1>1. /\ DOMAIN trow = Word /\ \A x \in Word : trow[x] \in Nat
      /\ DOMAIN drow = Word /\ \A x \in Word : drow[x] \in Nat
      /\ SumFunctionOnSet(trow, Word) = Whole /\ SumFunctionOnSet(drow, Word) = Whole
      /\ SumFunction(trow) = Whole
  BY RowTyped
<1>2. SumFunctionOnSet(pos, Word) \in 0 .. Whole
  BY <1>1, ExcessBalanced
<1>3. DOMAIN pos = Word /\ \A x \in Word : pos[x] \in Nat
  BY <1>1
<1>4. w = IF SumFunction(pos) = 0 THEN trow ELSE pos
  BY DEF Corrected
<1> HIDE DEF pos, w
<1>5. SumFunction(pos) = SumFunctionOnSet(pos, Word)
  BY <1>3 DEF SumFunction
<1>6. Whole \in Nat \ {0}
  BY VerifyAssumption
<1>7. CASE SumFunction(pos) = 0
  BY <1>1, <1>4, <1>5, <1>6, <1>7 DEF pos, w
<1>8. CASE SumFunction(pos) # 0
  <2>1. w = pos
    BY <1>4, <1>8
  <2>2. SumFunction(pos) \in 1 .. Whole
    BY <1>2, <1>5, <1>6, <1>8
  <2> QED
    BY <1>3, <1>5, <2>1, <2>2 DEF pos, w
<1> QED
  BY <1>7, <1>8

\* Draws from the weights of a row.
LEMMA WordDrawn ==
  ASSUME NEW w, DOMAIN w = Word, \A x \in Word : w[x] \in Nat,
         NEW t \in 1 .. Whole, t = SumFunctionOnSet(w, Word)
  PROVE  /\ \E c \in Nat : /\ Fine = t * c
                           /\ \A i \in Word :
                                Cardinality({u \in 0 .. Fine - 1 : SampleFromProbs(w, t, u) = i}) = w[i] * c
         /\ \A u \in 0 .. Fine - 1 : /\ SampleFromProbs(w, t, u) \in Word
                                     /\ w[SampleFromProbs(w, t, u)] > 0
<1>1. Whole \in Nat /\ Words \in Nat \ {0} /\ Word = 0 .. Words - 1
  BY VerifyAssumption DEF Word
<1>2. PICK c \in Nat : Share(t, c)
  BY GridDivides DEF Share
<1>3. /\ t \in Nat \ {0} /\ DOMAIN w = 0 .. Words - 1 /\ (\A i \in 0 .. Words - 1 : w[i] \in Nat)
      /\ t = SumFunctionOnSet(w, 0 .. Words - 1)
  BY <1>1
<1>4. /\ \A i \in 0 .. Words - 1 :
           Cardinality({u \in 0 .. Fine - 1 : SampleFromProbs(w, t, u) = i}) = w[i] * c
      /\ \A u \in 0 .. Fine - 1 : /\ SampleFromProbs(w, t, u) \in 0 .. Words - 1
                                  /\ w[SampleFromProbs(w, t, u)] > 0
  BY <1>1, <1>2, <1>3, DrawnFromProbs
<1> QED
  BY <1>1, <1>2, <1>4 DEF Share

\* Accepting and correcting together give each token its target probability.
LEMMA WaysAreTargets ==
  ASSUME NEW trow \in Distributions(1), NEW drow \in Distributions(1), NEW i \in Word
  PROVE  Ways(trow, drow, i) = trow[i] * Fine * Fine
<1> DEFINE U == 0 .. Fine - 1
           w == Corrected(trow, drow)
           Yes(x) == Cardinality({u \in U : Accepts(trow, drow, x, u)})
           drawn == Cardinality({u \in U : SampleFromProbs(w, SumFunction(w), u) = i})
           lost == [x \in Word |-> drow[x] * (Fine - Yes(x)) * drawn]
           pos == [x \in Word |-> IF trow[x] > drow[x] THEN trow[x] - drow[x] ELSE 0]
           over == [x \in Word |-> IF drow[x] > trow[x] THEN drow[x] - trow[x] ELSE 0]
<1>0. Ways(trow, drow, i) = drow[i] * Yes(i) * Fine + SumFunctionOnSet(lost, Word)
  BY DEF Ways, SumFunction
<1>1. /\ IsFiniteSet(Word) /\ Whole \in Nat \ {0} /\ Fine \in Nat \ {0}
      /\ Words \in Nat \ {0} /\ Word = 0 .. Words - 1
  BY VerifyAssumption, FS_Interval DEF Word
<1>2. /\ \A x \in Word : trow[x] \in Nat /\ drow[x] \in Nat
      /\ SumFunctionOnSet(trow, Word) = Whole /\ SumFunctionOnSet(drow, Word) = Whole
  BY RowTyped
<1>3. \A x \in Word : drow[x] <= Whole
  <2> SUFFICES ASSUME NEW x \in Word PROVE drow[x] <= Whole
    OBVIOUS
  <2>0. \A y \in Word : drow[y] \in Nat
    BY <1>2
  <2>1. SumFunctionOnSet(drow, Word) = drow[x] + SumFunctionOnSet(drow, Word \ {x})
    <3>1. Word \in SUBSET Word /\ IsFiniteSet(Word)
      BY <1>1
    <3> QED
      BY <2>0, <3>1, SumStep
  <2>2. SumFunctionOnSet(drow, Word \ {x}) \in Nat
    <3>1. Word \ {x} \in SUBSET Word /\ IsFiniteSet(Word)
      BY <1>1
    <3> QED
      BY <2>0, <3>1, SumNat
  <2> QED
    BY <1>1, <1>2, <2>1, <2>2
<1>4. \A x \in Word : Yes(x) \in 0 .. Fine /\ drow[x] * Yes(x) = Smaller(drow[x], trow[x]) * Fine
  <2> SUFFICES ASSUME NEW x \in Word
               PROVE  Yes(x) \in 0 .. Fine /\ drow[x] * Yes(x) = Smaller(drow[x], trow[x]) * Fine
    OBVIOUS
  <2>1. trow[x] \in Nat /\ drow[x] \in 0 .. Whole
    BY <1>2, <1>3
  <2> QED
    BY <2>1, AcceptedPoints
<1>5. /\ SumFunctionOnSet(pos, Word) = SumFunctionOnSet(over, Word)
      /\ SumFunctionOnSet(pos, Word) \in 0 .. Whole
      /\ SumFunctionOnSet(pos, Word) = 0 => \A x \in Word : trow[x] = drow[x]
  BY <1>2, ExcessBalanced
<1>6. /\ DOMAIN w = Word /\ \A x \in Word : w[x] \in Nat
      /\ SumFunction(w) \in 1 .. Whole /\ SumFunction(w) = SumFunctionOnSet(w, Word)
      /\ w = pos \/ (w = trow /\ SumFunctionOnSet(pos, Word) = 0)
  BY CorrectedRow
<1> HIDE DEF w
<1>7. PICK c \in Nat : /\ Fine = SumFunction(w) * c
                       /\ \A j \in Word :
                            Cardinality({u \in U : SampleFromProbs(w, SumFunction(w), u) = j}) = w[j] * c
  BY <1>6, WordDrawn
<1>8. drawn = w[i] * c
  BY <1>7
<1>9. \A x \in Word : over[x] \in Nat /\ drow[x] - Smaller(drow[x], trow[x]) = over[x]
  BY <1>2 DEF Smaller
<1>10. trow[i] \in Nat /\ w[i] \in Nat /\ drawn \in Nat
  BY <1>2, <1>6, <1>8
<1> HIDE DEF w, Yes, drawn, pos, over
<1>11. \A x \in Word : lost[x] = over[x] * (Fine * drawn)
  <2> SUFFICES ASSUME NEW x \in Word PROVE drow[x] * (Fine - Yes(x)) * drawn = over[x] * (Fine * drawn)
    OBVIOUS
  <2> DEFINE d == drow[x]
             y == Yes(x)
             m == Smaller(d, trow[x])
             o == over[x]
             f == Fine
             n == drawn
  <2>1. d \in Int /\ y \in Int /\ m \in Int /\ o \in Int /\ f \in Int /\ n \in Int
        /\ d * y = m * f /\ d - m = o
    <3>1. d \in Int /\ m \in Int
      BY <1>2 DEF Smaller
    <3>2. y \in Int /\ f \in Int /\ n \in Int
      BY <1>1, <1>4, <1>10
    <3>3. o \in Int /\ d - m = o
      BY <1>9
    <3>4. d * y = m * f
      BY <1>4
    <3> QED
      BY <3>1, <3>2, <3>3, <3>4
  <2> HIDE DEF d, y, m, o, f, n
  <2>2. d * (f - y) = o * f
    BY <2>1
  <2>3. d * (f - y) * n = o * (f * n)
    BY <2>1, <2>2
  <2> QED
    BY <2>3 DEF d, y, o, f, n
<1>12. SumFunctionOnSet(lost, Word) = SumFunctionOnSet(over, Word) * (Fine * drawn)
  <2> DEFINE d == Fine * drawn
  <2>1. d \in Nat /\ \A x \in Word : over[x] \in Nat /\ lost[x] = over[x] * d
    <3>1. d \in Nat
      BY <1>1, <1>10
    <3>2. \A x \in Word : lost[x] = over[x] * d
      BY <1>11
    <3> HIDE DEF d, lost
    <3> QED
      BY <1>9, <3>1, <3>2
  <2> HIDE DEF d, lost
  <2>2. SumFunctionOnSet(lost, Word) = SumFunctionOnSet(over, Word) * d
    <3>1. IsFiniteSet(Word)
      BY <1>1
    <3> QED
      BY <2>1, <3>1, SumScaled
  <2> QED
    BY <2>2 DEF d
<1> DEFINE r == SumFunctionOnSet(pos, Word)
           m == Smaller(drow[i], trow[i])
<1>13. Ways(trow, drow, i) = m * Fine * Fine + r * (Fine * drawn)
  BY <1>0, <1>4, <1>5, <1>12
<1>14. r \in Nat
  BY <1>5
<1>15. CASE r = 0
  <2>1. m = trow[i]
    BY <1>2, <1>5, <1>15 DEF Smaller
  <2>2. r * (Fine * drawn) = 0
    BY <1>1, <1>10, <1>15
  <2> HIDE DEF r, m
  <2>3. m * Fine * Fine \in Nat
    BY <1>1, <1>10, <2>1
  <2> QED
    BY <1>13, <2>1, <2>2, <2>3
<1>16. CASE r # 0
  <2>1. w = pos /\ SumFunction(w) = r
    BY <1>6, <1>16
  <2>2. Fine = r * c /\ drawn = pos[i] * c
    BY <1>7, <1>8, <2>1
  <2>3. m + pos[i] = trow[i] /\ m \in Nat /\ pos[i] \in Nat
    BY <1>2 DEF Smaller, pos
  <2> DEFINE p == pos[i]
             f == Fine
             n == drawn
             t == trow[i]
  <2>4. /\ p \in Nat /\ f \in Nat /\ n \in Nat /\ t \in Nat
        /\ f = r * c /\ n = p * c /\ m + p = t
        /\ Ways(trow, drow, i) = m * f * f + r * (f * n)
    BY <1>1, <1>10, <1>13, <2>2, <2>3
  <2> HIDE DEF p, f, n, t, m, r
  <2>5. r * (f * n) = p * f * f
    <3>1. r * (f * n) = f * (p * (r * c))
      BY <1>14, <2>3, <2>4, SMT
    <3>2. r * (f * n) = f * (p * f)
      BY <2>4, <3>1
    <3> QED
      BY <2>4, <3>2
  <2>6. m * f * f + p * f * f = t * f * f
    <3>1. (m + p) * f * f = m * f * f + p * f * f
      BY <2>3, <2>4
    <3> QED
      BY <2>4, <3>1
  <2> QED
    BY <2>4, <2>5, <2>6 DEF t, f
<1> QED
  BY <1>15, <1>16

\* The inductive invariant of the verifier: what it has accepted or drawn so
\* far is possible for the target model.
VerifyInv ==
  /\ draft_probs \in RowsOf(Drafts) /\ target_probs \in RowsOf(Drafts + 1)
  /\ draft_tokens \in [0 .. Drafts - 1 -> Word]
  /\ verified \in 0 .. Drafts /\ n_accepted = verified
  /\ OnlyTargetTokens

LEMMA VerifyStart == VerifyInit => VerifyInv
BY VerifyAssumption DEF VerifyInit, VerifyInv, OnlyTargetTokens

\* The rows at work.
LEMMA RowsAtWork ==
  ASSUME VerifyInv
  PROVE  /\ verified < Drafts => /\ Trow \in Distributions(1) /\ Drow \in Distributions(1)
                                 /\ Drafted \in Word /\ Trow = target_probs[verified]
         /\ target_probs[Drafts] \in Distributions(1)
BY VerifyAssumption DEF VerifyInv, RowsOf, Trow, Drow, Drafted

LEMMA AcceptStep == VerifyInv /\ Accept => VerifyInv'
<1> SUFFICES ASSUME VerifyInv, Accept PROVE VerifyInv'
  OBVIOUS
<1>1. verified < Drafts /\ verified \in Nat /\ Drafts \in Nat
  BY VerifyAssumption DEF Accept, VerifyInv
<1>2. PICK u \in 0 .. Fine - 1 : Accepts(Trow, Drow, Drafted, u)
  BY DEF Accept
<1>3. Trow[Drafted] > 0
  <2>1. /\ Trow[Drafted] \in Nat /\ Drow[Drafted] \in Nat
        /\ u \in Nat /\ Fine \in Nat
    BY <1>1, RowsAtWork, RowTyped, VerifyAssumption
  <2>2. CASE Drow[Drafted] = 0
    BY <1>2, <2>2 DEF Accepts
  <2>3. CASE Drow[Drafted] # 0
    <3>1. u * Drow[Drafted] < Trow[Drafted] * Fine
      BY <1>2, <2>3 DEF Accepts
    <3> DEFINE d == Drow[Drafted]
               t == Trow[Drafted]
    <3>2. u * d < t * Fine /\ u * d \in Nat /\ t \in Nat
      BY <2>1, <3>1
    <3> HIDE DEF d, t
    <3>3. t # 0
      BY <2>1, <3>2
    <3> QED
      BY <3>2, <3>3 DEF t
  <2> QED
    BY <2>2, <2>3
<1>4. /\ n_accepted' = n_accepted + 1 /\ verified' = verified + 1 /\ ~ done /\ ~ done'
      /\ UNCHANGED <<draft_probs, target_probs, draft_tokens, bonus_token>>
  BY DEF Accept
<1>5. /\ VerifyInv!1' /\ VerifyInv!2'
      /\ verified' \in 0 .. Drafts /\ n_accepted' = verified'
  BY <1>1, <1>4 DEF VerifyInv
<1>6. OnlyTargetTokens'
  <2>1. ASSUME NEW j \in 0 .. n_accepted' - 1
        PROVE  target_probs[j][draft_tokens[j]] > 0
    <3>1. j \in 0 .. n_accepted - 1 \/ j = verified
      BY <1>1, <1>4 DEF VerifyInv
    <3>2. CASE j \in 0 .. n_accepted - 1
      BY <3>2 DEF VerifyInv, OnlyTargetTokens
    <3>3. CASE j = verified
      BY <1>3, <3>3 DEF Trow, Drafted
    <3> QED
      BY <3>1, <3>2, <3>3
  <2> QED
    BY <1>4, <2>1 DEF OnlyTargetTokens
<1> QED
  BY <1>4, <1>5, <1>6 DEF VerifyInv

\* A token that is rejected is one the target model has less of.
LEMMA RejectedIsLess ==
  ASSUME NEW trow \in Distributions(1), NEW drow \in Distributions(1), NEW x \in Word,
         NEW u \in 0 .. Fine - 1, ~ Accepts(trow, drow, x, u)
  PROVE  trow[x] < drow[x] \/ trow[x] = 0
<1> DEFINE t == trow[x]
           d == drow[x]
<1>1. t \in Nat /\ d \in Nat /\ Fine \in Nat \ {0} /\ u \in Nat /\ u < Fine
  BY RowTyped, VerifyAssumption
<1>2. IF d = 0 THEN ~ (t > 0) ELSE ~ (u * d < t * Fine)
  BY DEF Accepts
<1> HIDE DEF t, d
<1>3. CASE d = 0
  BY <1>1, <1>2, <1>3 DEF t, d
<1>4. CASE d # 0
  <2>1. u * d < Fine * d
    BY <1>1, <1>4, OrderedProducts
  <2>2. d <= t => d * Fine <= t * Fine
    BY <1>1, OrderedProducts
  <2>3. d * Fine = Fine * d /\ u * d \in Nat /\ t * Fine \in Nat /\ Fine * d \in Nat
    BY <1>1
  <2>4. ~ (d <= t)
    BY <1>2, <1>4, <2>1, <2>2, <2>3
  <2> QED
    BY <1>1, <2>4 DEF t, d
<1> QED
  BY <1>3, <1>4

LEMMA RejectStep == VerifyInv /\ Reject => VerifyInv'
<1> SUFFICES ASSUME VerifyInv, Reject PROVE VerifyInv'
  OBVIOUS
<1>1. verified < Drafts /\ verified \in Nat /\ Drafts \in Nat /\ n_accepted = verified
  BY VerifyAssumption DEF Reject, VerifyInv
<1>2. Trow \in Distributions(1) /\ Drow \in Distributions(1) /\ Drafted \in Word
  BY <1>1, RowsAtWork
<1>3. PICK u \in 0 .. Fine - 1 : ~ Accepts(Trow, Drow, Drafted, u)
  BY DEF Reject
<1> DEFINE w == Corrected(Trow, Drow)
           pos == [x \in Word |-> IF Trow[x] > Drow[x] THEN Trow[x] - Drow[x] ELSE 0]
<1>4. PICK a \in 0 .. Fine - 1 : bonus_token' = SampleFromProbs(w, SumFunction(w), a)
  BY DEF Reject
<1>5. /\ DOMAIN w = Word /\ \A x \in Word : w[x] \in Nat
      /\ SumFunction(w) \in 1 .. Whole /\ SumFunction(w) = SumFunctionOnSet(w, Word)
      /\ w = pos \/ (w = Trow /\ SumFunctionOnSet(pos, Word) = 0)
  BY <1>2, CorrectedRow
<1>6. /\ \A x \in Word : Trow[x] \in Nat /\ Drow[x] \in Nat
      /\ SumFunctionOnSet(Trow, Word) = Whole /\ SumFunctionOnSet(Drow, Word) = Whole
  BY <1>2, RowTyped
<1>7. SumFunctionOnSet(pos, Word) = 0 => \A x \in Word : Trow[x] = Drow[x]
  BY <1>6, ExcessBalanced
<1>8. bonus_token' \in Word /\ w[bonus_token'] > 0
  <2> DEFINE t == SumFunction(w)
  <2>1. t \in 1 .. Whole /\ t = SumFunctionOnSet(w, Word)
    BY <1>5
  <2> HIDE DEF w, t
  <2>2. \A b \in 0 .. Fine - 1 : SampleFromProbs(w, t, b) \in Word /\ w[SampleFromProbs(w, t, b)] > 0
    BY <1>5, <2>1, WordDrawn
  <2> QED
    BY <1>4, <2>2 DEF t
<1>9. Trow[Drafted] < Drow[Drafted] \/ Trow[Drafted] = 0
  BY <1>2, <1>3, RejectedIsLess
<1>10. Trow[bonus_token'] > 0 /\ bonus_token' # Drafted
  <2>1. CASE w = pos
    BY <1>2, <1>6, <1>8, <1>9, <2>1
  <2>2. CASE w = Trow /\ SumFunctionOnSet(pos, Word) = 0
    BY <1>2, <1>6, <1>7, <1>8, <1>9, <2>2
  <2> QED
    BY <1>5, <2>1, <2>2
<1> HIDE DEF w, pos
<1>11. /\ done' = TRUE
       /\ UNCHANGED <<draft_probs, target_probs, draft_tokens, verified, n_accepted>>
  BY DEF Reject
<1>12. OnlyTargetTokens'
  BY <1>1, <1>10, <1>11 DEF VerifyInv, OnlyTargetTokens, Trow, Drafted
<1> QED
  BY <1>11, <1>12 DEF VerifyInv

LEMMA BonusStep == VerifyInv /\ Bonus => VerifyInv'
<1> SUFFICES ASSUME VerifyInv, Bonus PROVE VerifyInv'
  OBVIOUS
<1> DEFINE w == target_probs[Drafts]
<1>1. PICK a \in 0 .. Fine - 1 : bonus_token' = SampleFromProbs(w, Whole, a)
  BY DEF Bonus
<1>2. verified = Drafts /\ n_accepted = verified /\ Drafts \in Nat
  BY VerifyAssumption DEF Bonus, VerifyInv
<1>3. DOMAIN w = Word /\ (\A x \in Word : w[x] \in Nat) /\ SumFunctionOnSet(w, Word) = Whole
  BY RowsAtWork, RowTyped
<1>4. Whole \in 1 .. Whole
  BY VerifyAssumption
<1> HIDE DEF w
<1>5. w[bonus_token'] > 0
  BY <1>1, <1>3, <1>4, WordDrawn
<1>6. /\ done' = TRUE
      /\ UNCHANGED <<draft_probs, target_probs, draft_tokens, verified, n_accepted>>
  BY DEF Bonus
<1>7. OnlyTargetTokens'
  BY <1>2, <1>5, <1>6 DEF VerifyInv, OnlyTargetTokens, w
<1> QED
  BY <1>6, <1>7 DEF VerifyInv

LEMMA VerifySteps == VerifyInv /\ [VerifyNext]_verifyVars => VerifyInv'
<1>1. VerifyInv /\ UNCHANGED verifyVars => VerifyInv'
  BY DEF VerifyInv, verifyVars, OnlyTargetTokens
<1> QED
  BY <1>1, AcceptStep, RejectStep, BonusStep DEF VerifyNext

LEMMA VerifiedLaw == VerifyInv => LawIsTarget /\ OnlyTargetTokens
<1> SUFFICES ASSUME VerifyInv PROVE LawIsTarget
  BY DEF VerifyInv
<1> QED
  BY RowsAtWork, WaysAreTargets DEF LawIsTarget

---------------------------------------------------------------------------
(* Sampling *)

\* The order of the weights is that of the scores.
LEMMA ExpOrdered ==
  ASSUME NEW a \in Scores, NEW b \in Scores, NEW m \in Scores, a <= b, b <= m
  PROVE  Exp(a, m) <= Exp(b, m)
<1>0. MaxScore \in Nat /\ a \in Int /\ b \in Int /\ m \in Int /\ m <= MaxScore
      /\ (a # NegInf => a >= 0) /\ (b # NegInf => b >= 0) /\ a >= NegInf /\ b >= NegInf
      /\ NegInf = -1
  BY ScoreAssumption DEF Scores, NegInf
<1>1. Exp(a, m) \in Nat /\ Exp(b, m) \in Nat
  <2>1. a <= m /\ m <= m
    BY <1>0
  <2> QED
    BY <2>1, ExpOK
<1>2. CASE a = NegInf
  BY <1>1, <1>2 DEF Exp
<1>3. CASE a # NegInf
  <2> DEFINE x == MaxScore - (m - a)
             y == b - a
  <2>1. b # NegInf /\ x \in Nat /\ y \in Nat /\ MaxScore - (m - b) = x + y
    BY <1>0, <1>3
  <2>2. Exp(a, m) = Pow2[x] /\ Exp(b, m) = Pow2[x + y]
    BY <1>3, <2>1 DEF Exp
  <2> HIDE DEF x, y
  <2>3. Pow2[x + y] = Pow2[x] * Pow2[y] /\ Pow2[x] \in Nat /\ Pow2[y] \in Nat \ {0}
    BY <2>1, Pow2Adds, Pow2Positive
  <2> DEFINE p == Pow2[x]
             r == Pow2[y]
  <2>4. p \in Nat /\ r \in Nat /\ 1 <= r
    BY <2>3
  <2> HIDE DEF p, r
  <2>5. 1 * p <= r * p
    BY <2>4, OrderedProducts
  <2>6. 1 * p = p /\ r * p = p * r
    BY <2>4
  <2> QED
    BY <2>2, <2>3, <2>5, <2>6 DEF p, r
<1> QED
  BY <1>2, <1>3

\* The rows the filters work on.
LiveRow(ls) == ls \in [Token -> Scores] /\ Alive(ls) # {}

LEMMA Tokens ==
  /\ Vocab \in Nat \ {0} /\ IsFiniteSet(Token) /\ Cardinality(Token) = Vocab /\ Token \in SUBSET Nat
  /\ \A ls : Alive(ls) \in SUBSET Token
<1>1. Vocab \in Nat \ {0}
  BY SamplingAssumption
<1>2. Cardinality(0 .. Vocab - 1) = IF 0 > Vocab - 1 THEN 0 ELSE (Vocab - 1) - 0 + 1
  BY <1>1, FS_Interval
<1>3. IsFiniteSet(0 .. Vocab - 1)
  BY <1>1, FS_Interval
<1>4. Cardinality(Token) = Vocab /\ IsFiniteSet(Token) /\ Token \in SUBSET Nat
  BY <1>1, <1>2, <1>3 DEF Token
<1>5. \A ls : Alive(ls) \in SUBSET Token
  BY DEF Alive
<1> QED
  BY <1>1, <1>4, <1>5

\* The largest logit is that of a token, and not -inf.
LEMMA LargestLogit ==
  ASSUME NEW ls, LiveRow(ls)
  PROVE  /\ MaxScoreOf(ls, Token) \in Scores /\ MaxScoreOf(ls, Token) # NegInf
         /\ \A i \in Token : ls[i] <= MaxScoreOf(ls, Token)
         /\ \E i \in Token : ls[i] = MaxScoreOf(ls, Token)
<1> DEFINE V == {ls[j] : j \in Token} \cup {NegInf}
<1>1. V \in SUBSET Scores /\ V # {} /\ \A v \in Scores : v \in Int /\ v >= NegInf
  BY ScoreAssumption DEF LiveRow, Scores, NegInf
<1>2. PICK i \in Token : ls[i] # NegInf
  BY DEF LiveRow, Alive
<1>3. Max(V) \in V /\ \A w \in V : Max(V) >= w
  <2> HIDE DEF V
  <2> QED
    BY <1>1, LargestScore
<1>4. MaxScoreOf(ls, Token) = Max(V)
  BY DEF MaxScoreOf
<1> DEFINE M == Max(V)
<1>5. /\ M \in Scores /\ (M = NegInf \/ \E j \in Token : ls[j] = M)
      /\ \A j \in Token : ls[j] <= M /\ ls[j] \in Scores
  <2>1. \A j \in Token : ls[j] \in V /\ ls[j] \in Scores
    BY DEF LiveRow
  <2> HIDE DEF M
  <2>2. M \in V /\ \A w \in V : M >= w
    BY <1>3 DEF M
  <2> QED
    BY <1>1, <2>1, <2>2
<1> HIDE DEF M
<1>6. M # NegInf
  BY <1>1, <1>2, <1>5
<1> QED
  BY <1>4, <1>5, <1>6 DEF M

\* The weights of a row: natural numbers in the order of the logits, and zero
\* where it is masked.
LEMMA RowWeights ==
  ASSUME NEW ls, LiveRow(ls)
  PROVE  /\ DOMAIN Weight(ls).acc = Token
         /\ \A i \in Token : /\ Weight(ls).acc[i] = Exp(ls[i], MaxScoreOf(ls, Token))
                             /\ Weight(ls).acc[i] \in Nat
                             /\ Weight(ls).acc[i] = 0 <=> i \notin Alive(ls)
         /\ \A i, j \in Token : ls[i] <= ls[j] => Weight(ls).acc[i] <= Weight(ls).acc[j]
<1> DEFINE m == MaxScoreOf(ls, Token)
<1>1. m \in Scores /\ (\A i \in Token : ls[i] <= m /\ ls[i] \in Scores) /\ DOMAIN ls = Token
  BY LargestLogit DEF LiveRow
<1>2. Weight(ls).acc = [j \in DOMAIN ls |-> IF j \in Token THEN Exp(ls[j], m) ELSE 0]
  BY DEF Weight, Softmax
<1>3. m <= m /\ \A i \in Token : ls[i] \in Int
  BY <1>1, ScoreAssumption DEF Scores, NegInf
<1> HIDE DEF m
<1>4. DOMAIN Weight(ls).acc = Token /\ \A i \in Token : Weight(ls).acc[i] = Exp(ls[i], m)
  BY <1>1, <1>2
<1>5. \A i \in Token : Exp(ls[i], m) \in Nat /\ (Exp(ls[i], m) = 0 <=> ls[i] = NegInf)
  BY <1>1, <1>3, ExpOK
<1>6. \A i, j \in Token : ls[i] <= ls[j] => Exp(ls[i], m) <= Exp(ls[j], m)
  BY <1>1, ExpOrdered
<1> QED
  BY <1>4, <1>5, <1>6 DEF m, Alive

\* Their sums.
LEMMA RowMass ==
  ASSUME NEW ls, LiveRow(ls)
  PROVE  /\ Mass(ls, Token) \in Nat \ {0}
         /\ \A s \in SUBSET Token : /\ Mass(ls, s) \in Nat
                                    /\ Mass(ls, s) = 0 <=> s \cap Alive(ls) = {}
                                    /\ Mass(ls, s) = Mass(ls, s \cap Alive(ls))
<1> DEFINE w == Weight(ls).acc
<1>1. /\ \A i \in Token : w[i] \in Nat /\ (w[i] = 0 <=> i \notin Alive(ls))
      /\ \A s : Mass(ls, s) = SumFunctionOnSet(w, s)
      /\ IsFiniteSet(Token)
  BY RowWeights, Tokens DEF Mass
<1> HIDE DEF w
<1>2. ASSUME NEW s \in SUBSET Token
      PROVE  /\ Mass(ls, s) \in Nat
             /\ Mass(ls, s) = 0 <=> s \cap Alive(ls) = {}
             /\ Mass(ls, s) = Mass(ls, s \cap Alive(ls))
  <2>1. IsFiniteSet(s) /\ (\A i \in s : w[i] \in Nat)
    BY <1>1, FS_Subset
  <2>2. SumFunctionOnSet(w, s) \in Nat
    BY <1>1, SumNat
  <2>3. SumFunctionOnSet(w, s) = 0 <=> \A i \in s : w[i] = 0
    BY <2>1, SumIsZero
  <2>4. SumFunctionOnSet(w, s \cap Alive(ls)) = SumFunctionOnSet(w, s)
    <3>1. s \cap Alive(ls) \in SUBSET s
          /\ \A i \in s : w[i] = IF i \in s \cap Alive(ls) THEN w[i] ELSE 0
      BY <1>1
    <3> QED
      BY <2>1, <3>1, SumWithoutZeros
  <2> QED
    BY <1>1, <2>2, <2>3, <2>4
<1>3. Token \in SUBSET Token /\ Token \cap Alive(ls) # {}
  BY Tokens DEF LiveRow
<1> QED
  BY <1>2, <1>3

\* What a filter may keep: a token it keeps is not masked yet, and every token
\* more likely than one it keeps it keeps too.
KeepsSome(ls, kept) == kept \in SUBSET Token /\ kept \cap Alive(ls) # {}
KeepsLikely(ls, kept) ==
  /\ KeepsSome(ls, kept)
  /\ \A i \in kept, j \in Token \ kept : ls[j] <= ls[i]

\* A largest token, and argmax_sample returns one.
LEMMA ArgmaxLargest ==
  ASSUME NEW ls, LiveRow(ls)
  PROVE  /\ ArgmaxSample(ls) \in Alive(ls)
         /\ \A j \in Token : ls[j] <= ls[ArgmaxSample(ls)]
<1> DEFINE best == {i \in Token : \A j \in Token : ls[j] <= ls[i]}
<1>1. PICK top \in Token : ls[top] = MaxScoreOf(ls, Token)
  BY LargestLogit
<1>2. best # {} /\ best \in SUBSET Nat
  BY <1>1, LargestLogit, Tokens
<1>3. PICK m \in best : \A y \in best : m <= y
  <2> HIDE DEF best
  <2> QED
    BY <1>2, LeastNat
<1>4. Min(best) = m
  <2>1. \A x \in best : (\A y \in best : x <= y) => x = m
    BY <1>2, <1>3
  <2> HIDE DEF best
  <2> QED
    BY <1>3, <2>1 DEF Min
<1>5. ArgmaxSample(ls) = m
  BY <1>4 DEF ArgmaxSample
<1>6. m \in Token /\ \A j \in Token : ls[j] <= ls[m]
  BY <1>3
<1>7. m \in Alive(ls)
  <2>1. PICK i \in Token : ls[i] # NegInf
    BY DEF LiveRow, Alive
  <2>2. ls[i] <= ls[m] /\ ls[i] \in Scores /\ ls[m] \in Scores
    BY <1>6, <2>1 DEF LiveRow
  <2>3. ls[m] # NegInf
    BY <2>1, <2>2, ScoreAssumption DEF Scores, NegInf
  <2> QED
    BY <1>6, <2>3 DEF Alive
<1> QED
  BY <1>5, <1>6, <1>7

LEMMA AllKept ==
  ASSUME NEW ls, LiveRow(ls)
  PROVE  KeepsLikely(ls, Token)
<1>1. Token \in SUBSET Token /\ Token \cap Alive(ls) # {} /\ Token \ Token = {}
  BY Tokens DEF LiveRow
<1> QED
  BY <1>1 DEF KeepsLikely, KeepsSome

LEMMA TopKKeeps ==
  ASSUME NEW ls, LiveRow(ls), NEW k \in Int, NEW kept \in TopKKept(ls, k)
  PROVE  KeepsLikely(ls, kept)
<1>1. CASE kept = Token
  BY <1>1, AllKept
<1>2. CASE kept # Token
  <2>1. PICK pivot \in TopKPivots(ls, k) : kept = {i \in Token : ls[i] >= pivot}
    BY <1>2 DEF TopKKept
  <2>2. PICK o \in Token : pivot = ls[o]
    BY <2>1 DEF TopKPivots
  <2>3. PICK top \in Token : top \in Alive(ls) /\ \A j \in Token : ls[j] <= ls[top]
    BY ArgmaxLargest, Tokens
  <2>4. \A i \in Token : ls[i] \in Int
    BY ScoreAssumption DEF LiveRow, Scores, NegInf
  <2>5. top \in kept /\ \A i \in kept, j \in Token \ kept : ls[j] <= ls[i]
    BY <2>1, <2>2, <2>3, <2>4
  <2> QED
    BY <2>1, <2>3, <2>5 DEF KeepsLikely, KeepsSome
<1> QED
  BY <1>1, <1>2

\* Walking until the mass is covered keeps a token that is not masked: the
\* last one walked was still needed.
LEMMA WalkKeeps ==
  ASSUME NEW ls, LiveRow(ls), NEW p \in Nat \X (Nat \ {0}), NEW key,
         NEW kept \in WalkKept(ls, key, p)
  PROVE  KeepsSome(ls, kept)
<1>1. PICK last \in kept : ~ Covers(ls, kept \ {last}, p)
  BY DEF WalkKept
<1>2. kept \in SUBSET Token
  BY DEF WalkKept
<1>3. CASE kept \cap Alive(ls) = {}
  <2> DEFINE rest == kept \ {last}
             a == Mass(ls, rest)
             t == Mass(ls, Token)
  <2>1. rest \in SUBSET Token /\ rest \cap Alive(ls) = {} /\ Mass(ls, kept) = 0
    BY <1>2, <1>3, RowMass
  <2>2. a = 0 /\ t \in Nat
    BY <2>1, RowMass
  <2>3. ~ (a * p[2] >= p[1] * t)
    BY <1>1 DEF Covers
  <2>4. ~ Covers(ls, kept, p)
    <3>1. Mass(ls, kept) = a
      BY <2>1, <2>2
    <3> QED
      BY <1>1, <3>1 DEF Covers
  <2>5. Covers(ls, kept, p)
    BY DEF WalkKept
  <2> QED
    BY <2>4, <2>5
<1> QED
  BY <1>2, <1>3 DEF KeepsSome

LEMMA TopPKeeps ==
  ASSUME NEW ls, LiveRow(ls), NEW p \in Nat \X (Nat \ {0}), NEW kept \in TopPKept(ls, p)
  PROVE  KeepsLikely(ls, kept)
<1>1. CASE kept = Token
  BY <1>1, AllKept
<1>2. CASE kept = {ArgmaxSample(ls)}
  BY <1>2, ArgmaxLargest, Tokens DEF KeepsLikely, KeepsSome
<1>3. CASE kept \in WalkKept(ls, [i \in Token |-> -ls[i]], p)
  <2>1. KeepsSome(ls, kept)
    BY <1>3, WalkKeeps
  <2>2. \A a \in kept, b \in Token \ kept :
          [i \in Token |-> -ls[i]][a] <= [i \in Token |-> -ls[i]][b]
    BY <1>3 DEF WalkKept
  <2>3. \A i \in Token : ls[i] \in Int
    BY ScoreAssumption DEF LiveRow, Scores, NegInf
  <2>4. ASSUME NEW a \in kept, NEW b \in Token \ kept
        PROVE  ls[b] <= ls[a]
    <3>1. a \in Token /\ b \in Token /\ ls[a] \in Int /\ ls[b] \in Int
      BY <2>1, <2>3 DEF KeepsSome
    <3>2. -ls[a] <= -ls[b]
      BY <2>2, <3>1
    <3> QED
      BY <3>1, <3>2
  <2> QED
    BY <2>1, <2>4 DEF KeepsLikely
<1> QED
  BY <1>1, <1>2, <1>3 DEF TopPKept

LEMMA MinPKeeps ==
  ASSUME NEW ls, LiveRow(ls), NEW p \in Nat \X (Nat \ {0}), p[1] <= p[2],
         NEW kept \in MinPKept(ls, p)
  PROVE  KeepsLikely(ls, kept)
<1>1. CASE kept = Token
  BY <1>1, AllKept
<1>2. CASE kept # Token
  <2> DEFINE m == MaxScoreOf(ls, Token)
             e(i) == Exp(ls[i], m)
             f == Exp(m, m)
  <2>1. kept = {i \in Token : e(i) * p[2] >= p[1] * f}
    BY <1>2 DEF MinPKept
  <2>2. /\ \A i \in Token : e(i) \in Nat
        /\ \A i, j \in Token : ls[i] <= ls[j] => e(i) <= e(j)
        /\ \A i \in Token : e(i) = 0 <=> i \notin Alive(ls)
    BY RowWeights
  <2>3. PICK top \in Token : ls[top] = m
    BY LargestLogit
  <2>4. e(top) = f /\ f \in Nat
    BY <2>2, <2>3
  <2>5. top \in Alive(ls)
    BY <2>3, LargestLogit DEF Alive
  <2>6. p[1] \in Nat /\ p[2] \in Nat
    OBVIOUS
  <2>7. \A i, j \in Token : ls[i] \in Int /\ ls[j] \in Int
    BY ScoreAssumption DEF LiveRow, Scores, NegInf
  <2> HIDE DEF e, f, m
  <2>8. e(top) * p[2] >= p[1] * f
    <3>1. p[1] * f <= p[2] * f
      BY <2>4, <2>6, OrderedProducts
    <3>2. e(top) * p[2] = p[2] * f /\ p[1] * f \in Nat /\ p[2] * f \in Nat
      BY <2>4, <2>6
    <3> QED
      BY <3>1, <3>2
  <2>9. ASSUME NEW i \in kept, NEW j \in Token \ kept
        PROVE  ls[j] <= ls[i]
    <3>1. i \in Token /\ e(i) * p[2] >= p[1] * f /\ ~ (e(j) * p[2] >= p[1] * f)
      BY <2>1
    <3>2. e(i) \in Nat /\ e(j) \in Nat /\ (ls[i] <= ls[j] => e(i) <= e(j))
      BY <2>2, <3>1
    <3>3. e(i) <= e(j) => e(i) * p[2] <= e(j) * p[2]
      BY <2>6, <3>2, OrderedProducts
    <3>4. e(i) * p[2] \in Nat /\ e(j) * p[2] \in Nat /\ p[1] * f \in Nat
      BY <2>4, <2>6, <3>2
    <3>5. ~ (ls[i] <= ls[j])
      BY <3>1, <3>2, <3>3, <3>4
    <3> QED
      BY <2>7, <3>1, <3>5
  <2> QED
    BY <2>1, <2>5, <2>8, <2>9 DEF KeepsLikely, KeepsSome
<1> QED
  BY <1>1, <1>2

LEMMA TypicalKeeps ==
  ASSUME NEW ls, LiveRow(ls), NEW p \in Nat \X (Nat \ {0}), NEW kept \in TypicalKept(ls, p)
  PROVE  KeepsSome(ls, kept)
<1>1. kept = Token \/ \E key : kept \in WalkKept(ls, key, p)
  BY DEF TypicalKept
<1> QED
  BY <1>1, AllKept, WalkKeeps DEF KeepsLikely

\* The call, the scratch row, and what is left of the order of the logits:
\* temperature multiplies it, and until typical-p no token is masked that is
\* more likely than one that is not.
SamplingInv ==
  /\ policy \in [inv_temp : InvTemps, greedy : BOOLEAN, top_k : TopKs, top_p : TopPs,
                 min_p : MinPs, typical_p : TypicalPs]
  /\ input \in [Token -> NegInf .. MaxLogit] /\ Alive(input) # {}
  /\ stage \in 1 .. 7
  /\ LiveRow(logits)
  /\ stage = 1 => logits = input
  /\ stage \in 2 .. 6 =>
       \A i \in Alive(logits) : input[i] # NegInf /\ logits[i] = input[i] * policy.inv_temp
  /\ stage \in 1 .. 5 =>
       \A i \in Alive(logits), j \in Token : input[j] <= input[i] \/ j \in Alive(logits)
  /\ stage = 7 /\ Drift = 0 => token \in Alive(logits)

LEMMA LogitsFit ==
  ASSUME NEW t \in InvTemps
  PROVE  /\ t \in Nat \ {0} /\ MaxLogit \in Nat
         /\ MaxLogit * t <= MaxScore /\ MaxLogit <= MaxScore
<1>1. t \in Nat \ {0} /\ MaxLogit \in Nat /\ MaxLogit * t <= MaxScore /\ MaxScore \in Nat
  BY SamplingAssumption, ScoreAssumption
<1>2. 1 * MaxLogit <= t * MaxLogit
  <2>1. 1 \in Nat /\ t \in Nat /\ 1 <= t
    BY <1>1
  <2> QED
    BY <1>1, <2>1, OrderedProducts
<1>3. 1 * MaxLogit = MaxLogit /\ t * MaxLogit = MaxLogit * t /\ MaxLogit * t \in Nat
  BY <1>1
<1> QED
  BY <1>1, <1>2, <1>3

LEMMA PolicyOK ==
  ASSUME SamplingInv
  PROVE  /\ policy.inv_temp \in Nat \ {0} /\ MaxLogit \in Nat
         /\ MaxLogit * policy.inv_temp <= MaxScore /\ MaxLogit <= MaxScore
         /\ policy.top_k \in Int
         /\ policy.top_p \in Nat \X (Nat \ {0}) /\ policy.min_p \in Nat \X (Nat \ {0})
         /\ policy.typical_p \in Nat \X (Nat \ {0})
         /\ policy.min_p[1] <= policy.min_p[2]
<1>1. policy.inv_temp \in InvTemps /\ policy.top_k \in TopKs /\ policy.top_p \in TopPs
      /\ policy.min_p \in MinPs /\ policy.typical_p \in TypicalPs
  BY DEF SamplingInv
<1> QED
  BY <1>1, LogitsFit, SamplingAssumption

\* What a row of the inputs is.
LEMMA InputLogits ==
  ASSUME SamplingInv
  PROVE  /\ LiveRow(input)
         /\ \A i \in Token : input[i] \in Int /\ input[i] <= MaxLogit
                             /\ (input[i] # NegInf => input[i] \in Nat)
<1>1. MaxLogit \in Nat /\ MaxLogit <= MaxScore /\ MaxScore \in Nat
  BY PolicyOK, ScoreAssumption
<1>2. input \in [Token -> NegInf .. MaxLogit] /\ Alive(input) # {}
  BY DEF SamplingInv
<1>3. (NegInf .. MaxLogit) \in SUBSET Scores
  BY <1>1 DEF Scores, NegInf
<1>4. input \in [Token -> Scores]
  BY <1>2, <1>3
<1>5. \A i \in Token : input[i] \in NegInf .. MaxLogit
  BY <1>2
<1>6. \A i \in Token : input[i] \in Int /\ input[i] <= MaxLogit
                       /\ (input[i] # NegInf => input[i] \in Nat)
  BY <1>1, <1>5 DEF NegInf
<1> QED
  BY <1>2, <1>4, <1>6 DEF LiveRow

LEMMA SamplingStart == SamplingInit => SamplingInv
<1> SUFFICES ASSUME SamplingInit PROVE SamplingInv
  OBVIOUS
<1>1. /\ policy \in [inv_temp : InvTemps, greedy : BOOLEAN, top_k : TopKs, top_p : TopPs,
                     min_p : MinPs, typical_p : TypicalPs]
      /\ input \in [Token -> NegInf .. MaxLogit] /\ Alive(input) # {}
      /\ logits = input /\ stage = 1
  BY DEF SamplingInit
<1>2. policy.inv_temp \in InvTemps
  BY <1>1
<1>3. MaxLogit \in Nat /\ MaxLogit <= MaxScore /\ MaxScore \in Nat
  BY <1>2, LogitsFit, ScoreAssumption
<1>4. (NegInf .. MaxLogit) \in SUBSET Scores
  BY <1>3 DEF Scores, NegInf
<1>5. LiveRow(logits)
  BY <1>1, <1>4 DEF LiveRow
<1>6. \A i \in Alive(logits), j \in Token : input[j] <= input[i] \/ j \in Alive(logits)
  <2>1. \A i \in Token : input[i] \in NegInf .. MaxLogit
    BY <1>1
  <2>2. \A i \in Token : input[i] \in Int /\ input[i] >= NegInf /\ (i \in Alive(logits) <=> input[i] # NegInf)
    BY <1>1, <1>3, <2>1 DEF NegInf, Alive
  <2>3. \A i \in Alive(logits) : i \in Token
    BY DEF Alive
  <2> QED
    BY <2>2, <2>3
<1> QED
  BY <1>1, <1>5, <1>6 DEF SamplingInv

\* argmax_sample of the logits as they come.
LEMMA GreedyStep == SamplingInv /\ Greedy => SamplingInv'
<1> SUFFICES ASSUME SamplingInv, Greedy PROVE SamplingInv'
  OBVIOUS
<1>1. /\ token' = ArgmaxSample(input) /\ stage' = 7 /\ stage = 1 /\ logits = input
      /\ UNCHANGED <<policy, input, logits>>
  BY DEF SamplingInv, Greedy, Stages
<1>2. token' \in Alive(logits)
  BY <1>1, ArgmaxLargest DEF SamplingInv
<1> QED
  BY <1>1, <1>2 DEF SamplingInv, LiveRow, Alive

\* Temperature multiplies every logit, and masks none.
LEMMA TemperatureStep == SamplingInv /\ Temperature => SamplingInv'
<1> SUFFICES ASSUME SamplingInv, Temperature PROVE SamplingInv'
  OBVIOUS
<1> DEFINE t == policy.inv_temp
<1>1. /\ stage' = 2 /\ stage = 1 /\ logits = input /\ UNCHANGED <<policy, input, token>>
      /\ logits' = [i \in Token |-> IF input[i] = NegInf THEN NegInf ELSE input[i] * t]
  BY DEF SamplingInv, Temperature
<1>2. t \in Nat \ {0} /\ MaxLogit \in Nat /\ MaxLogit * t <= MaxScore /\ MaxScore \in Nat
      /\ \A i \in Token : input[i] \in Int /\ input[i] <= MaxLogit
                          /\ (input[i] # NegInf => input[i] \in Nat)
  BY PolicyOK, InputLogits, ScoreAssumption
<1> HIDE DEF t
<1>3. \A i \in Token : input[i] # NegInf => input[i] * t \in 0 .. MaxScore
  <2> SUFFICES ASSUME NEW i \in Token, input[i] # NegInf PROVE input[i] * t \in 0 .. MaxScore
    OBVIOUS
  <2>1. input[i] \in Nat /\ input[i] <= MaxLogit /\ t \in Nat
    BY <1>2
  <2>2. input[i] * t <= MaxLogit * t /\ input[i] * t \in Nat /\ MaxLogit * t \in Nat
    BY <1>2, <2>1, OrderedProducts
  <2> QED
    BY <1>2, <2>2
<1>4. /\ DOMAIN logits' = Token
      /\ \A i \in Token : /\ input[i] = NegInf => logits'[i] = NegInf
                          /\ input[i] # NegInf => logits'[i] = input[i] * t /\ logits'[i] # NegInf
                          /\ logits'[i] \in Scores
  BY <1>1, <1>2, <1>3 DEF Scores, NegInf
<1>5. Alive(logits') = Alive(logits)
  BY <1>1, <1>4 DEF Alive
<1>6. LiveRow(logits)'
  <2>1. logits' = [i \in Token |-> logits'[i]]
    BY <1>1
  <2>2. logits' \in [Token -> Scores]
    BY <1>4, <2>1
  <2> QED
    BY <1>5, <2>2 DEF SamplingInv, LiveRow, Alive
<1>7. \A i \in Alive(logits') : input[i] # NegInf /\ logits'[i] = input[i] * t
  BY <1>1, <1>4, <1>5 DEF Alive
<1>8. \A i \in Alive(logits'), j \in Token : input[j] <= input[i] \/ j \in Alive(logits')
  BY <1>1, <1>5 DEF SamplingInv
<1>9. Alive(logits)' = Alive(logits')
  BY DEF Alive
<1> QED
  BY <1>1, <1>6, <1>7, <1>8, <1>9 DEF SamplingInv, t, Alive

\* A row of which some tokens are kept.
LEMMA MaskedRow ==
  ASSUME NEW ls, LiveRow(ls), NEW kept, KeepsSome(ls, kept)
  PROVE  /\ Alive(Masked(ls, kept)) = Alive(ls) \cap kept
         /\ \A i \in Alive(ls) \cap kept : Masked(ls, kept)[i] = ls[i]
         /\ LiveRow(Masked(ls, kept))
<1>1. NegInf \in Scores /\ (\A i \in Token : ls[i] \in Scores) /\ kept \in SUBSET Token
  BY ScoreAssumption DEF LiveRow, Scores, NegInf, KeepsSome
<1>2. \A i \in Token : Masked(ls, kept)[i] = IF i \in kept THEN ls[i] ELSE NegInf
  BY DEF Masked
<1>3. Alive(Masked(ls, kept)) = Alive(ls) \cap kept
  BY <1>2 DEF Alive
<1>4. Masked(ls, kept) \in [Token -> Scores]
  BY <1>1 DEF Masked
<1>5. \A i \in Alive(ls) \cap kept : Masked(ls, kept)[i] = ls[i]
  BY <1>1, <1>2
<1> QED
  BY <1>3, <1>4, <1>5 DEF LiveRow, KeepsSome

\* A filter that keeps likely tokens, and the last one.
LEMMA FilterStep ==
  ASSUME SamplingInv, stage \in 2 .. 5, NEW kept,
         KeepsSome(logits, kept), stage < 5 => KeepsLikely(logits, kept),
         logits' = Masked(logits, kept), stage' = stage + 1,
         UNCHANGED <<policy, input, token>>
  PROVE  SamplingInv'
<1> DEFINE t == policy.inv_temp
<1>1. /\ LiveRow(logits)
      /\ \A i \in Alive(logits) : input[i] # NegInf /\ logits[i] = input[i] * t
      /\ \A i \in Alive(logits), j \in Token : input[j] <= input[i] \/ j \in Alive(logits)
  BY DEF SamplingInv
<1>2. /\ Alive(logits') = Alive(logits) \cap kept
      /\ \A i \in Alive(logits) \cap kept : logits'[i] = logits[i]
      /\ LiveRow(logits')
  BY <1>1, MaskedRow
<1>3. stage' \in 3 .. 6
  OBVIOUS
<1>4. \A i \in Alive(logits') : input[i] # NegInf /\ logits'[i] = input[i] * t
  BY <1>1, <1>2
<1>5. ASSUME stage' \in 1 .. 5, NEW i \in Alive(logits'), NEW j \in Token
      PROVE  input[j] <= input[i] \/ j \in Alive(logits')
  <2>1. stage < 5
    BY <1>5
  <2>2. i \in Alive(logits) /\ i \in kept /\ i \in Token
    BY <1>2 DEF Alive
  <2>3. input[j] <= input[i] \/ j \in Alive(logits)
    BY <1>1, <2>2
  <2>4. CASE j \in Alive(logits) /\ j \notin kept
    <3>1. logits[j] <= logits[i] /\ logits[i] = input[i] * t /\ logits[j] = input[j] * t
      BY <1>1, <2>1, <2>2, <2>4 DEF KeepsLikely
    <3>2. input[i] \in Nat /\ input[j] \in Nat /\ t \in Nat /\ t > 0
      BY <1>1, <2>2, <2>4, InputLogits, PolicyOK
    <3> HIDE DEF t
    <3>3. input[j] <= input[i] <=> input[j] * t <= input[i] * t
      BY <3>2, OrderedProducts
    <3> QED
      BY <3>1, <3>3
  <2> QED
    BY <1>2, <2>3, <2>4
<1>6. SamplingInv!1' /\ SamplingInv!2' /\ SamplingInv!3'
  BY DEF SamplingInv, Alive
<1>7. LiveRow(logits)' = LiveRow(logits') /\ Alive(logits)' = Alive(logits')
  BY DEF LiveRow, Alive
<1> QED
  BY <1>2, <1>3, <1>4, <1>5, <1>6, <1>7 DEF SamplingInv

\* The stages by their numbers.
LEMMA StageNames ==
  ASSUME stage \in 1 .. 7
  PROVE  /\ Stages[stage] = "temperature" <=> stage = 1
         /\ Stages[stage] = "top_k" <=> stage = 2
         /\ Stages[stage] = "top_p" <=> stage = 3
         /\ Stages[stage] = "min_p" <=> stage = 4
         /\ Stages[stage] = "typical" <=> stage = 5
         /\ Stages[stage] = "draw" <=> stage = 6
         /\ Stages[stage] = "done" <=> stage = 7
<1>1. stage = 1 \/ stage = 2 \/ stage = 3 \/ stage = 4 \/ stage = 5 \/ stage = 6 \/ stage = 7
  OBVIOUS
<1>2. /\ Stages[1] = "temperature" /\ Stages[2] = "top_k" /\ Stages[3] = "top_p"
      /\ Stages[4] = "min_p" /\ Stages[5] = "typical" /\ Stages[6] = "draw" /\ Stages[7] = "done"
  BY DEF Stages
<1> QED
  BY <1>1, <1>2

LEMMA TopKStep == SamplingInv /\ Filter("top_k", TopKKept(logits, policy.top_k)) => SamplingInv'
<1> SUFFICES ASSUME SamplingInv, Filter("top_k", TopKKept(logits, policy.top_k)) PROVE SamplingInv'
  OBVIOUS
<1>1. PICK kept \in TopKKept(logits, policy.top_k) : logits' = Masked(logits, kept)
  BY DEF Filter
<1>2. stage = 2 /\ stage' = stage + 1 /\ UNCHANGED <<policy, input, token>>
  BY StageNames DEF Filter, SamplingInv
<1>3. KeepsLikely(logits, kept)
  BY PolicyOK, TopKKeeps DEF SamplingInv
<1>4. KeepsSome(logits, kept)
  BY <1>3 DEF KeepsLikely
<1> QED
  BY <1>1, <1>2, <1>3, <1>4, FilterStep

LEMMA TopPStep == SamplingInv /\ Filter("top_p", TopPKept(logits, policy.top_p)) => SamplingInv'
<1> SUFFICES ASSUME SamplingInv, Filter("top_p", TopPKept(logits, policy.top_p)) PROVE SamplingInv'
  OBVIOUS
<1>1. PICK kept \in TopPKept(logits, policy.top_p) : logits' = Masked(logits, kept)
  BY DEF Filter
<1>2. stage = 3 /\ stage' = stage + 1 /\ UNCHANGED <<policy, input, token>>
  BY StageNames DEF Filter, SamplingInv
<1>3. KeepsLikely(logits, kept)
  BY PolicyOK, TopPKeeps DEF SamplingInv
<1>4. KeepsSome(logits, kept)
  BY <1>3 DEF KeepsLikely
<1> QED
  BY <1>1, <1>2, <1>3, <1>4, FilterStep

LEMMA MinPStep == SamplingInv /\ Filter("min_p", MinPKept(logits, policy.min_p)) => SamplingInv'
<1> SUFFICES ASSUME SamplingInv, Filter("min_p", MinPKept(logits, policy.min_p)) PROVE SamplingInv'
  OBVIOUS
<1>1. PICK kept \in MinPKept(logits, policy.min_p) : logits' = Masked(logits, kept)
  BY DEF Filter
<1>2. stage = 4 /\ stage' = stage + 1 /\ UNCHANGED <<policy, input, token>>
  BY StageNames DEF Filter, SamplingInv
<1>3. KeepsLikely(logits, kept)
  BY PolicyOK, MinPKeeps DEF SamplingInv
<1>4. KeepsSome(logits, kept)
  BY <1>3 DEF KeepsLikely
<1> QED
  BY <1>1, <1>2, <1>3, <1>4, FilterStep

LEMMA TypicalStep ==
  SamplingInv /\ Filter("typical", TypicalKept(logits, policy.typical_p)) => SamplingInv'
<1> SUFFICES ASSUME SamplingInv, Filter("typical", TypicalKept(logits, policy.typical_p))
             PROVE  SamplingInv'
  OBVIOUS
<1>1. PICK kept \in TypicalKept(logits, policy.typical_p) : logits' = Masked(logits, kept)
  BY DEF Filter
<1>2. stage = 5 /\ stage' = stage + 1 /\ UNCHANGED <<policy, input, token>>
  BY StageNames DEF Filter, SamplingInv
<1>3. KeepsSome(logits, kept)
  BY PolicyOK, TypicalKeeps DEF SamplingInv
<1> QED
  BY <1>1, <1>2, <1>3, FilterStep

\* Drawing from the weights of a row: as many points for a token as it has
\* weight, and none for a masked one.
LEMMA RowDrawn ==
  ASSUME NEW ls, LiveRow(ls)
  PROVE  /\ \A i \in Token :
              Cardinality({u \in 0 .. Mass(ls, Token) - 1 : SampleAt(Weight(ls).acc, u) = i})
                = Weight(ls).acc[i]
         /\ \A u \in 0 .. Mass(ls, Token) - 1 : SampleAt(Weight(ls).acc, u) \in Alive(ls)
<1> DEFINE w == Weight(ls).acc
<1>1. /\ DOMAIN w = Token /\ \A i \in Token : w[i] \in Nat /\ (w[i] = 0 <=> i \notin Alive(ls))
      /\ Mass(ls, Token) = SumFunctionOnSet(w, Token) /\ Mass(ls, Token) \in Nat
      /\ Vocab \in Nat \ {0} /\ Token = 0 .. Vocab - 1
  BY RowWeights, RowMass, Tokens DEF Mass, Token
<1> HIDE DEF w
<1>2. \A i \in Token : Cardinality({u \in 0 .. SumFunctionOnSet(w, Token) - 1 : SampleAt(w, u) = i}) = w[i]
  BY <1>1, DrawnCount
<1>3. ASSUME NEW u \in 0 .. Mass(ls, Token) - 1
      PROVE  SampleAt(w, u) \in Alive(ls)
  <2>1. u \in Nat /\ u < SumFunctionOnSet(w, Token)
    BY <1>1
  <2>2. SampleAt(w, u) \in Token /\ w[SampleAt(w, u)] > 0
    BY <1>1, <2>1, DrawnAt
  <2> QED
    BY <1>1, <2>2
<1> QED
  BY <1>1, <1>2, <1>3 DEF w

LEMMA DrawStep == SamplingInv /\ Draw => SamplingInv'
<1> SUFFICES ASSUME SamplingInv, Draw PROVE SamplingInv'
  OBVIOUS
<1>1. PICK u \in 0 .. Mass(logits, Token) + Drift - 1 : token' = SampleAt(Weight(logits).acc, u)
  BY DEF Draw
<1>2. stage = 6 /\ stage' = 7 /\ UNCHANGED <<policy, input, logits>>
  BY StageNames DEF Draw, SamplingInv
<1>3. LiveRow(logits) /\ Mass(logits, Token) \in Nat
  BY RowMass DEF SamplingInv
<1>4. Drift = 0 => token' \in Alive(logits)
  BY <1>1, <1>3, RowDrawn
<1> QED
  BY <1>2, <1>4 DEF SamplingInv, LiveRow, Alive

LEMMA SamplingSteps == SamplingInv /\ [SamplingNext]_samplingVars => SamplingInv'
<1>1. SamplingInv /\ UNCHANGED samplingVars => SamplingInv'
  BY DEF SamplingInv, samplingVars, LiveRow, Alive
<1> QED
  BY <1>1, GreedyStep, TemperatureStep, TopKStep, TopPStep, MinPStep, TypicalStep, DrawStep
  DEF SamplingNext

LEMMA SampledLaw == SamplingInv /\ Drift = 0 => FiltersCompose /\ DrawsByWeight
<1> SUFFICES ASSUME SamplingInv, Drift = 0 PROVE FiltersCompose /\ DrawsByWeight
  OBVIOUS
<1>1. stage \in 1 .. 7 /\ LiveRow(logits)
  BY DEF SamplingInv
<1>2. FiltersCompose
  <2>1. Alive(logits) # {}
    BY <1>1 DEF LiveRow
  <2>2. ASSUME NEW i \in Token, NEW j \in Token, i \in Alive(logits),
               Stages[stage] \in {"top_k", "top_p", "min_p", "typical"}
        PROVE  input[j] <= input[i] \/ j \in Alive(logits)
    <3>1. stage \in 1 .. 5
      BY <1>1, <2>2, StageNames
    <3> QED
      BY <2>2, <3>1 DEF SamplingInv
  <2> QED
    BY <2>1, <2>2 DEF FiltersCompose
<1>3. DrawsByWeight
  <2>1. Stages[stage] = "done" => token \in Alive(logits)
    BY <1>1, StageNames DEF SamplingInv
  <2> QED
    BY <1>1, <2>1, RowDrawn DEF DrawsByWeight
<1> QED
  BY <1>2, <1>3

---------------------------------------------------------------------------

\* Whatever the policy and the logits, and whatever the draft and the target
\* model: a token is drawn by the weights the filters leave it, they never mask
\* every token nor one more likely than one they keep, and what the verifier
\* lets through has exactly the target model's probabilities - as long as
\* rounding takes nothing from the sum of the weights, which softmax_sample
\* relies on (it returns the last token when u reaches beyond the sum).
THEOREM TokenLawHolds ==
  ASSUME Drift = 0
  PROVE  SamplingSpec /\ VerifySpec => []TokenLaw
<1>1. SamplingInit => SamplingInv
  BY SamplingStart
<1>2. SamplingInv /\ [SamplingNext]_samplingVars => SamplingInv'
  BY SamplingSteps
<1>3. VerifyInit => VerifyInv
  BY VerifyStart
<1>4. VerifyInv /\ [VerifyNext]_verifyVars => VerifyInv'
  BY VerifySteps
<1>5. SamplingInv /\ VerifyInv => TokenLaw
  BY SampledLaw, VerifiedLaw DEF TokenLaw
<1> QED
  BY <1>1, <1>2, <1>3, <1>4, <1>5, PTL DEF SamplingSpec, VerifySpec

---------------------------------------------------------------------------
(* What the filters leave *)

\* No set with as few elements weighs more than one that has everything as
\* heavy: elements are exchanged one by one.
LEMMA Heaviest ==
  ASSUME NEW S, IsFiniteSet(S), NEW w, \A i \in S : w[i] \in Nat,
         NEW r \in SUBSET S, NEW s \in SUBSET S, Cardinality(s) <= Cardinality(r),
         \A a \in r \ s, b \in s \ r : w[b] <= w[a]
  PROVE  SumFunctionOnSet(w, s) <= SumFunctionOnSet(w, r)
<1> DEFINE Less(T) == \A R \in SUBSET S :
             /\ Cardinality(T) <= Cardinality(R)
             /\ \A a \in R \ T, b \in T \ R : w[b] <= w[a]
             => SumFunctionOnSet(w, T) <= SumFunctionOnSet(w, R)
           U == {T \in SUBSET S : Less(T)}
<1>1. {} \in U
  <2>1. SumFunctionOnSet(w, {}) = 0
    BY SumUnfolds
  <2>2. \A R \in SUBSET S : SumFunctionOnSet(w, R) \in Nat
    BY SumNat
  <2> QED
    BY <2>1, <2>2
<1>2. ASSUME NEW T \in SUBSET S, NEW x \in S \ T, T \in U
      PROVE  T \cup {x} \in U
  <2> SUFFICES ASSUME NEW R \in SUBSET S, Cardinality(T \cup {x}) <= Cardinality(R),
                      \A a \in R \ (T \cup {x}), b \in (T \cup {x}) \ R : w[b] <= w[a]
               PROVE  SumFunctionOnSet(w, T \cup {x}) <= SumFunctionOnSet(w, R)
    OBVIOUS
  <2>1. /\ IsFiniteSet(T) /\ IsFiniteSet(R)
        /\ Cardinality(T \cup {x}) = Cardinality(T) + 1
        /\ Cardinality(T) \in Nat /\ Cardinality(R) \in Nat
    BY FS_Subset, FS_AddElement, FS_CardinalityType
  <2>2. PICK y \in R \ T : w[x] <= w[y] /\ (x \in R => y = x)
    <3>1. CASE x \in R
      BY <3>1
    <3>2. CASE x \notin R
      <4>1. ~ (R \in SUBSET T)
        <5>1. R \in SUBSET T => Cardinality(R) <= Cardinality(T)
          BY <2>1, FS_Subset
        <5> QED
          BY <2>1, <5>1
      <4> QED
        BY <3>2, <4>1
    <3> QED
      BY <3>1, <3>2
  <2> DEFINE Q == R \ {y}
  <2>3. Q \in SUBSET S /\ Cardinality(T) <= Cardinality(Q)
    <3>1. Cardinality(Q) = Cardinality(R) - 1
      BY <2>1, FS_RemoveElement
    <3> QED
      BY <2>1, <3>1
  <2>4. \A a \in Q \ T, b \in T \ Q : w[b] <= w[a]
    BY <2>2
  <2> HIDE DEF Q
  <2>5. SumFunctionOnSet(w, T) <= SumFunctionOnSet(w, Q)
    BY <1>2, <2>3, <2>4
  <2>6. SumFunctionOnSet(w, T \cup {x}) = w[x] + SumFunctionOnSet(w, T)
    BY SumOneMore
  <2>7. SumFunctionOnSet(w, R) = w[y] + SumFunctionOnSet(w, Q)
    BY SumStep DEF Q
  <2>8. SumFunctionOnSet(w, T) \in Nat /\ SumFunctionOnSet(w, Q) \in Nat /\ w[x] \in Nat /\ w[y] \in Nat
    BY <2>3, SumNat
  <2> QED
    BY <2>2, <2>5, <2>6, <2>7, <2>8
<1> HIDE DEF U
<1>3. \A T \in SUBSET S : T \in U
  BY <1>1, <1>2, SubsetInduction
<1> QED
  BY <1>3 DEF U

\* Walking from the most likely token on keeps as few tokens as can cover p.
LEMMA WalkIsSmallest ==
  ASSUME NEW ls, LiveRow(ls), NEW p \in Nat \X (Nat \ {0}),
         NEW kept \in WalkKept(ls, [i \in Token |-> -ls[i]], p),
         NEW s \in SUBSET Token, Covers(ls, s, p)
  PROVE  Cardinality(s) >= Cardinality(kept)
<1> DEFINE w == Weight(ls).acc
           key == [i \in Token |-> -ls[i]]
<1>1. PICK last \in kept : /\ \A a \in kept : key[a] <= key[last]
                           /\ ~ Covers(ls, kept \ {last}, p)
  BY DEF WalkKept
<1>2. kept \in SUBSET Token /\ \A a \in kept, b \in Token \ kept : key[a] <= key[b]
  BY DEF WalkKept
<1>3. \A i \in Token : ls[i] \in Int /\ key[i] = -ls[i]
  BY ScoreAssumption DEF LiveRow, Scores, NegInf
<1> HIDE DEF key
<1> DEFINE r == kept \ {last}
<1>4. r \in SUBSET Token /\ \A a \in r, b \in Token \ r : ls[b] <= ls[a]
  <2> SUFFICES ASSUME NEW a \in r, NEW b \in Token \ r PROVE ls[b] <= ls[a]
    BY <1>2
  <2>1. key[a] <= key[b]
    BY <1>1, <1>2
  <2>2. a \in Token /\ b \in Token
    BY <1>2
  <2>3. -ls[a] <= -ls[b] /\ ls[a] \in Int /\ ls[b] \in Int
    BY <1>3, <2>1, <2>2
  <2> QED
    BY <2>3
<1>5. IsFiniteSet(Token) /\ (\A i \in Token : w[i] \in Nat)
      /\ (\A x : Mass(ls, x) = SumFunctionOnSet(w, x))
      /\ \A a \in r, b \in Token \ r : w[b] <= w[a]
  BY <1>4, RowWeights, Tokens DEF Mass
<1>6. ~ Covers(ls, r, p)
  BY <1>1
<1>7. IsFiniteSet(kept) /\ last \in kept
  BY <1>2, <1>5, FS_Subset
<1>8. Cardinality(r) = Cardinality(kept) - 1 /\ Cardinality(kept) \in Nat /\ Cardinality(s) \in Nat
  <2>1. IsFiniteSet(s)
    BY <1>5, FS_Subset
  <2> QED
    BY <1>7, <2>1, FS_RemoveElement, FS_CardinalityType
<1> HIDE DEF w, r
<1>9. ASSUME Cardinality(s) <= Cardinality(r)
      PROVE  FALSE
  <2>1. SumFunctionOnSet(w, s) <= SumFunctionOnSet(w, r)
    BY <1>4, <1>5, <1>9, Heaviest
  <2> DEFINE a == Mass(ls, s)
             b == Mass(ls, r)
             t == p[1] * Mass(ls, Token)
  <2>2. a <= b
    BY <1>5, <2>1
  <2>3. a \in Nat /\ b \in Nat /\ Mass(ls, Token) \in Nat /\ p[1] \in Nat /\ p[2] \in Nat
    BY <1>4, RowMass
  <2>4. a * p[2] >= t /\ ~ (b * p[2] >= t)
    BY <1>6 DEF Covers
  <2>5. t \in Nat
    BY <2>3
  <2> HIDE DEF a, b, t
  <2>6. a * p[2] <= b * p[2] /\ a * p[2] \in Nat /\ b * p[2] \in Nat
    BY <2>2, <2>3, OrderedProducts
  <2> QED
    BY <2>4, <2>5, <2>6
<1> QED
  BY <1>8, <1>9

LEMMA SmallestStep == SamplingInv /\ [SamplingNext]_samplingVars => (TopPSmallest \/ UNCHANGED samplingVars)
<1> SUFFICES ASSUME SamplingInv, SamplingNext, Stages[stage] = "top_p",
                    policy.top_p[1] \in 1 .. policy.top_p[2] - 1
             PROVE  /\ Covers(logits, Alive(logits'), policy.top_p)
                    /\ \A s \in SUBSET Token :
                         Covers(logits, s, policy.top_p) =>
                           Cardinality(s) >= Cardinality(Alive(logits'))
  BY DEF TopPSmallest
<1> DEFINE p == policy.top_p
<1>1. stage = 3 /\ LiveRow(logits) /\ p \in Nat \X (Nat \ {0})
  BY StageNames, PolicyOK DEF SamplingInv
<1>2. Filter("top_p", TopPKept(logits, p))
  <2>1. Stages[stage] # "top_k" /\ Stages[stage] # "min_p" /\ Stages[stage] # "typical"
        /\ Stages[stage] # "draw" /\ stage # 1
    BY <1>1
  <2> QED
    BY <2>1 DEF SamplingNext, Greedy, Temperature, Filter, Draw
<1>3. PICK kept \in TopPKept(logits, p) : logits' = Masked(logits, kept)
  BY <1>2 DEF Filter
<1>4. kept \in WalkKept(logits, [i \in Token |-> -logits[i]], p)
  <2>1. ~ (p[1] >= p[2]) /\ p[1] # 0
    BY <1>1
  <2> QED
    BY <1>3, <2>1 DEF TopPKept
<1> HIDE DEF p
<1>5. KeepsSome(logits, kept) /\ Covers(logits, kept, p)
  BY <1>1, <1>4, WalkKeeps DEF WalkKept
<1>6. Alive(logits') = kept \cap Alive(logits) /\ kept \in SUBSET Token
  BY <1>1, <1>3, <1>5, MaskedRow DEF KeepsSome
<1>7. Covers(logits, Alive(logits'), p)
  <2>1. Mass(logits, kept \cap Alive(logits)) = Mass(logits, kept)
    BY <1>1, <1>6, RowMass
  <2> QED
    BY <1>5, <1>6, <2>1 DEF Covers
<1>8. Cardinality(Alive(logits')) <= Cardinality(kept)
      /\ Cardinality(Alive(logits')) \in Nat /\ Cardinality(kept) \in Nat
  <2>1. IsFiniteSet(kept) /\ Alive(logits') \in SUBSET kept
    BY <1>6, Tokens, FS_Subset
  <2>2. IsFiniteSet(Alive(logits'))
    BY <2>1, FS_Subset
  <2> QED
    BY <2>1, <2>2, FS_Subset, FS_CardinalityType
<1>9. ASSUME NEW s \in SUBSET Token, Covers(logits, s, p)
      PROVE  Cardinality(s) >= Cardinality(Alive(logits'))
  <2>1. Cardinality(s) >= Cardinality(kept)
    BY <1>1, <1>4, <1>9, WalkIsSmallest
  <2>2. Cardinality(s) \in Nat
    BY Tokens, FS_Subset, FS_CardinalityType
  <2> QED
    BY <1>8, <2>1, <2>2
<1> QED
  BY <1>7, <1>9 DEF p

LEMMA ClosestStep == SamplingInv /\ [SamplingNext]_samplingVars => (TypicalClosest \/ UNCHANGED samplingVars)
<1> SUFFICES ASSUME SamplingInv, SamplingNext, Stages[stage] = "typical", Alive(logits) = Token
             PROVE  ClosestKept(logits, Alive(logits'))
  BY DEF TypicalClosest
<1> DEFINE p == policy.typical_p
<1>1. stage = 5 /\ LiveRow(logits) /\ p \in Nat \X (Nat \ {0})
  BY StageNames, PolicyOK DEF SamplingInv
<1>2. Filter("typical", TypicalKept(logits, p))
  <2>1. Stages[stage] # "top_k" /\ Stages[stage] # "top_p" /\ Stages[stage] # "min_p"
        /\ Stages[stage] # "draw" /\ stage # 1
    BY <1>1
  <2> QED
    BY <2>1 DEF SamplingNext, Greedy, Temperature, Filter, Draw
<1>3. PICK kept \in TypicalKept(logits, p) : logits' = Masked(logits, kept)
  BY <1>2 DEF Filter
<1> HIDE DEF p
<1>4. KeepsSome(logits, kept)
  BY <1>1, <1>3, TypicalKeeps
<1>5. Alive(logits') = kept /\ kept \in SUBSET Token
  <2>1. kept \in SUBSET Token
    BY <1>4 DEF KeepsSome
  <2>2. Alive(Masked(logits, kept)) = Alive(logits) \cap kept
    BY <1>1, <1>4, MaskedRow
  <2>3. Alive(logits) \cap kept = kept
    BY <2>1
  <2> QED
    BY <1>3, <2>1, <2>2, <2>3
<1>6. kept = Token \/ kept \in WalkKept(logits, TypicalGap(logits), p)
  BY <1>3 DEF TypicalKept
<1>7. \A key : kept \in WalkKept(logits, key, p) =>
        \A a \in kept, b \in Token \ kept : key[a] <= key[b]
  BY DEF WalkKept
<1> DEFINE gap == TypicalGap(logits)
<1>8. \A a \in kept, b \in Token \ kept : gap[a] <= gap[b]
  <2> HIDE DEF gap
  <2>1. kept = Token \/ kept \in WalkKept(logits, gap, p)
    BY <1>6 DEF gap
  <2> QED
    BY <1>7, <2>1
<1> QED
  BY <1>5, <1>8 DEF ClosestKept

\* Whatever the policy and the logits: nucleus sampling leaves a smallest set
\* of tokens that covers its mass, and typical sampling the tokens whose
\* surprisal is closest to the entropy.
THEOREM FiltersKeep == SamplingSpec => FiltersKeepBest
<1>1. SamplingInit => SamplingInv
  BY SamplingStart
<1>2. SamplingInv /\ [SamplingNext]_samplingVars => SamplingInv'
  BY SamplingSteps
<1>3. SamplingInv /\ [SamplingNext]_samplingVars => [TopPSmallest /\ TypicalClosest]_samplingVars
  BY SmallestStep, ClosestStep
<1> QED
  BY <1>1, <1>2, <1>3, PTL DEF SamplingSpec, FiltersKeepBest

---------------------------------------------------------------------------
(* Sums of sums *)

\* Only the values of the function on the set count.
LEMMA SumSame ==
  ASSUME NEW S, IsFiniteSet(S), NEW f, \A x \in S : f[x] \in Int,
         NEW h, \A x \in S : h[x] = f[x]
  PROVE  SumFunctionOnSet(h, S) = SumFunctionOnSet(f, S)
<1>1. \A x \in S : f[x] = IF x \in S THEN h[x] ELSE 0
  OBVIOUS
<1> QED
  BY <1>1, SumWithoutZeros

\* A sum over the first n numbers, and one more.
LEMMA SumOfPrefix ==
  ASSUME NEW N \in Nat, NEW n \in 0 .. N - 1, NEW f, \A j \in 0 .. N - 1 : f[j] \in Int
  PROVE  SumFunctionOnSet(f, 0 .. (n + 1) - 1) = SumFunctionOnSet(f, 0 .. n - 1) + f[n]
<1> DEFINE J == 0 .. N - 1
           T == 0 .. n - 1
           U == 0 .. (n + 1) - 1
<1>1. IsFiniteSet(J)
  <2>1. N - 1 \in Int /\ 0 \in Int
    OBVIOUS
  <2> QED
    BY <2>1, FS_Interval
<1>2. U \in SUBSET J /\ T \in SUBSET J /\ n \in U /\ U \ {n} = T /\ n \in J
  OBVIOUS
<1>3. \A j \in J : f[j] \in Int
  OBVIOUS
<1> HIDE DEF J, T, U
<1>4. SumFunctionOnSet(f, U) = f[n] + SumFunctionOnSet(f, T)
  <2>1. n \in J \ T /\ T \cup {n} = U
    BY <1>2
  <2>2. \A X \in SUBSET J : \A x \in J \ X :
          SumFunctionOnSet(f, X \cup {x}) = f[x] + SumFunctionOnSet(f, X)
    BY <1>1, <1>3, SumOneMore
  <2> QED
    BY <1>2, <2>1, <2>2
<1>5. SumFunctionOnSet(f, T) \in Int /\ f[n] \in Int
  <2>1. \A X \in SUBSET J : SumFunctionOnSet(f, X) \in Int
    BY <1>1, <1>3, SumInt
  <2> QED
    BY <1>2, <1>3, <2>1
<1>6. \A a, b \in Int : a + b = b + a
  OBVIOUS
<1>7. SumFunctionOnSet(f, U) = SumFunctionOnSet(f, T) + f[n]
  BY <1>4, <1>5, <1>6
<1> QED
  BY <1>7 DEF T, U

\* Rows and then columns, or columns and then rows.
LEMMA SumExchange ==
  ASSUME NEW I, IsFiniteSet(I), NEW J, IsFiniteSet(J),
         NEW a, \A i \in I : \A j \in J : a[i][j] \in Int
  PROVE  SumFunctionOnSet([i \in I |-> SumFunctionOnSet([j \in J |-> a[i][j]], J)], I)
           = SumFunctionOnSet([j \in J |-> SumFunctionOnSet([i \in I |-> a[i][j]], I)], J)
<1> DEFINE across(i) == [j \in J |-> a[i][j]]
           col(j) == [i \in I |-> a[i][j]]
           cols == [j \in J |-> SumFunctionOnSet(col(j), I)]
           rows(T) == [i \in I |-> SumFunctionOnSet(across(i), T)]
           U == {T \in SUBSET J : SumFunctionOnSet(rows(T), I) = SumFunctionOnSet(cols, T)}
<1>1. \A i \in I : \A j \in J : across(i)[j] \in Int /\ across(i)[j] = a[i][j]
  OBVIOUS
<1>2. \A j \in J : \A i \in I : col(j)[i] \in Int /\ col(j)[i] = a[i][j]
  OBVIOUS
<1> HIDE DEF across, col
<1>3. \A j \in J : cols[j] \in Int /\ cols[j] = SumFunctionOnSet(col(j), I)
  BY <1>2, SumInt
<1>4. \A T \in SUBSET J : \A i \in I : /\ rows(T)[i] = SumFunctionOnSet(across(i), T)
                                       /\ rows(T)[i] \in Int
  <2> SUFFICES ASSUME NEW T \in SUBSET J, NEW i \in I
               PROVE  SumFunctionOnSet(across(i), T) \in Int
    OBVIOUS
  <2> QED
    BY <1>1, SumInt
<1> HIDE DEF cols, rows
<1>5. {} \in U
  <2>1. \A i \in I : rows({})[i] = IF i \in {} THEN 0 ELSE 0
    BY <1>4, SumUnfolds, FS_EmptySet
  <2>2. SumFunctionOnSet([i \in {} |-> 0], {}) = SumFunctionOnSet(rows({}), I)
    <3>1. \A i \in I : rows({})[i] = IF i \in {} THEN [x \in {} |-> 0][i] ELSE 0
      BY <2>1
    <3>2. {} \in SUBSET J /\ {} \in SUBSET I /\ \A i \in I : rows({})[i] \in Int
      BY <1>4
    <3> QED
      BY <3>1, <3>2, SumWithoutZeros
  <2>3. \A f : SumFunctionOnSet(f, {}) = 0
    BY SumUnfolds, FS_EmptySet
  <2> QED
    BY <2>2, <2>3
<1>6. ASSUME NEW T \in SUBSET J, NEW x \in J \ T, T \in U
      PROVE  T \cup {x} \in U
  <2>1. T \cup {x} \in SUBSET J
    OBVIOUS
  <2>2. \A i \in I : rows(T \cup {x})[i] = col(x)[i] + rows(T)[i]
    <3> SUFFICES ASSUME NEW i \in I
                 PROVE  rows(T \cup {x})[i] = col(x)[i] + rows(T)[i]
      OBVIOUS
    <3>1. \A j \in J : across(i)[j] \in Int
      BY <1>1
    <3>2. SumFunctionOnSet(across(i), T \cup {x}) = across(i)[x] + SumFunctionOnSet(across(i), T)
      BY <3>1, SumOneMore
    <3> QED
      BY <1>1, <1>2, <1>4, <2>1, <3>2
  <2>3. SumFunctionOnSet(rows(T \cup {x}), I)
          = SumFunctionOnSet(col(x), I) + SumFunctionOnSet(rows(T), I)
    <3>1. (\A i \in I : col(x)[i] \in Int) /\ (\A i \in I : rows(T)[i] \in Int)
      BY <1>2, <1>4
    <3> QED
      BY <2>2, <3>1, SumOfSum
  <2>4. SumFunctionOnSet(cols, T \cup {x}) = cols[x] + SumFunctionOnSet(cols, T)
    <3>1. \A j \in J : cols[j] \in Int
      BY <1>3
    <3> QED
      BY <3>1, SumOneMore
  <2>5. SumFunctionOnSet(rows(T), I) = SumFunctionOnSet(cols, T)
    BY <1>6
  <2> QED
    BY <1>3, <2>1, <2>3, <2>4, <2>5
<1> HIDE DEF U
<1>7. J \in U
  BY <1>5, <1>6, SubsetInduction
<1> QED
  BY <1>7 DEF U, rows, cols, across, col

\* A form that is linear in q and in v, with q left out and with v left out.
IsForm(I, J, qs, k, v, kv, qk) ==
  /\ \A i \in I : qs[i] \in Int
  /\ \A j \in J : v[j] \in Int
  /\ \A i \in I : \A j \in J :
       k[j][i] \in Int /\ kv[i][j] = k[j][i] * v[j] /\ qk[j][i] = qs[i] * k[j][i]

\* It is the same whichever is summed first.
LEMMA SumBilinear ==
  ASSUME NEW I, IsFiniteSet(I), NEW J, IsFiniteSet(J),
         NEW qs, NEW k, NEW v, NEW kv, NEW qk, IsForm(I, J, qs, k, v, kv, qk),
         NEW left, \A i \in I : left[i] = qs[i] * SumFunctionOnSet(kv[i], J),
         NEW right, \A j \in J : right[j] = SumFunctionOnSet(qk[j], I) * v[j]
  PROVE  SumFunctionOnSet(left, I) = SumFunctionOnSet(right, J)
<1>0. /\ \A i \in I : qs[i] \in Int
      /\ \A j \in J : v[j] \in Int
      /\ \A i \in I : \A j \in J : k[j][i] \in Int
      /\ \A i \in I : \A j \in J : kv[i][j] = k[j][i] * v[j] /\ qk[j][i] = qs[i] * k[j][i]
  BY DEF IsForm
<1> DEFINE a == [i \in I |-> [j \in J |-> (qs[i] * k[j][i]) * v[j]]]
           rows == [i \in I |-> SumFunctionOnSet([j \in J |-> a[i][j]], J)]
           cols == [j \in J |-> SumFunctionOnSet([i \in I |-> a[i][j]], I)]
<1>1. \A i \in I : \A j \in J : a[i][j] = (qs[i] * k[j][i]) * v[j] /\ a[i][j] \in Int
  <2> SUFFICES ASSUME NEW i \in I, NEW j \in J
               PROVE  (qs[i] * k[j][i]) * v[j] \in Int
    OBVIOUS
  <2>1. qs[i] \in Int /\ k[j][i] \in Int /\ v[j] \in Int
    BY <1>0
  <2> QED
    BY <2>1
<1>2. \A i \in I : \A j \in J : kv[i][j] = k[j][i] * v[j] /\ kv[i][j] \in Int
  <2> SUFFICES ASSUME NEW i \in I, NEW j \in J PROVE k[j][i] * v[j] \in Int
    BY <1>0
  <2>1. k[j][i] \in Int /\ v[j] \in Int
    BY <1>0
  <2> QED
    BY <2>1
<1>3. \A j \in J : \A i \in I : qk[j][i] = qs[i] * k[j][i] /\ qk[j][i] \in Int
  <2> SUFFICES ASSUME NEW i \in I, NEW j \in J PROVE qs[i] * k[j][i] \in Int
    BY <1>0
  <2>1. k[j][i] \in Int /\ qs[i] \in Int
    BY <1>0
  <2> QED
    BY <2>1
<1> HIDE DEF a
<1>4. \A i \in I : left[i] = rows[i] /\ rows[i] \in Int
  <2> SUFFICES ASSUME NEW i \in I PROVE left[i] = rows[i] /\ rows[i] \in Int
    OBVIOUS
  <2> DEFINE r == [j \in J |-> a[i][j]]
             s == SumFunctionOnSet(kv[i], J)
             d == qs[i]
  <2>1. \A j \in J : r[j] = kv[i][j] * qs[i] /\ r[j] \in Int
    <3> SUFFICES ASSUME NEW j \in J PROVE r[j] = kv[i][j] * qs[i] /\ r[j] \in Int
      OBVIOUS
    <3>1. qs[i] \in Int /\ k[j][i] \in Int /\ v[j] \in Int
      BY <1>0
    <3>2. \A x, y, w \in Int : (x * y) * w = (y * w) * x
      OBVIOUS
    <3>3. (qs[i] * k[j][i]) * v[j] = (k[j][i] * v[j]) * qs[i]
      BY <3>1, <3>2
    <3> QED
      BY <1>1, <1>2, <3>3
  <2>2. qs[i] \in Int /\ \A j \in J : kv[i][j] \in Int
    BY <1>0, <1>2
  <2> HIDE DEF r
  <2>3. SumFunctionOnSet(r, J) = SumFunctionOnSet(kv[i], J) * qs[i]
    BY <2>1, <2>2, SumScaled
  <2>4. SumFunctionOnSet(kv[i], J) \in Int /\ SumFunctionOnSet(r, J) \in Int
    BY <2>1, <2>2, SumInt
  <2>5. d * s = s * d
    <3>1. d \in Int /\ s \in Int
      BY <2>2, <2>4
    <3> HIDE DEF s, d
    <3> QED
      BY <3>1
  <2>6. left[i] = d * s /\ rows[i] = SumFunctionOnSet(r, J)
    BY DEF r
  <2> QED
    BY <2>3, <2>4, <2>5, <2>6
<1>5. \A j \in J : right[j] = cols[j] /\ cols[j] \in Int
  <2> SUFFICES ASSUME NEW j \in J PROVE right[j] = cols[j] /\ cols[j] \in Int
    OBVIOUS
  <2> DEFINE r == [i \in I |-> a[i][j]]
  <2>1. \A i \in I : r[i] = qk[j][i] * v[j] /\ r[i] \in Int
    BY <1>1, <1>3
  <2>2. v[j] \in Int /\ \A i \in I : qk[j][i] \in Int
    BY <1>0, <1>3
  <2> HIDE DEF r
  <2>3. SumFunctionOnSet(r, I) = SumFunctionOnSet(qk[j], I) * v[j]
    BY <2>1, <2>2, SumScaled
  <2>4. SumFunctionOnSet(r, I) \in Int
    BY <2>1, SumInt
  <2>5. cols[j] = SumFunctionOnSet(r, I)
    BY DEF r
  <2> QED
    BY <2>3, <2>4, <2>5
<1>6. SumFunctionOnSet(rows, I) = SumFunctionOnSet(cols, J)
  BY <1>1, SumExchange
<1> HIDE DEF rows, cols
<1>7. SumFunctionOnSet(left, I) = SumFunctionOnSet(rows, I)
  BY <1>4, SumSame
<1>8. SumFunctionOnSet(right, J) = SumFunctionOnSet(cols, J)
  BY <1>5, SumSame
<1> QED
  BY <1>6, <1>7, <1>8

---------------------------------------------------------------------------
(* Linear attention, for every shape: an instance of LinearAttention of its *)
(* own, with the sizes open.                                                *)

CONSTANTS LinearLen, LinearHeads, Df, Dv, Feats
VARIABLES queries, features, normalize, head, at_token, outer_sum, key_sum, attended

Linear == INSTANCE LinearAttention WITH
  L <- LinearLen, Heads <- LinearHeads,
  Q <- queries, K <- features, hd <- head, t <- at_token,
  S <- outer_sum, z <- key_sum, y <- attended

\* There may be no head, no token and no dimension.
LinearConstants ==
  /\ LinearLen \in Nat /\ LinearHeads \in Nat /\ Df \in Nat /\ Dv \in Nat
  /\ Feats \subseteq Int

\* What the tokens of a head bring to feature f, and to f and dimension d.
KeysOf(h, f) == [j \in 0 .. LinearLen - 1 |-> features[h][j][f]]
OuterOf(h, f, d) == [j \in 0 .. LinearLen - 1 |-> features[h][j][f] * Linear!V(h, j, d)]

\* The state after the first n tokens of a head, as sums.
KeySum(h, n) == [f \in Linear!F |-> SumFunctionOnSet(KeysOf(h, f), 0 .. n - 1)]
OuterSum(h, n) ==
  [f \in Linear!F |-> [d \in Linear!D |-> SumFunctionOnSet(OuterOf(h, f, d), 0 .. n - 1)]]

\* The output for token i of a head by its state.
OutputAt(h, i) == Linear!Out(queries[i], OuterSum(h, i + 1), KeySum(h, i + 1))

\* The inductive invariant: the state is that of the tokens so far of this
\* head, and every output was made from that of its own prefix.
LinearInv ==
  /\ queries \in [0 .. LinearLen - 1 -> [Linear!F -> Feats]]
  /\ features \in [0 .. LinearHeads - 1 -> [0 .. LinearLen - 1 -> [Linear!F -> Feats]]]
  /\ head \in Nat /\ at_token \in 0 .. LinearLen
  /\ outer_sum = OuterSum(head, at_token) /\ key_sum = KeySum(head, at_token)
  /\ \E f : attended = [h \in 0 .. LinearHeads - 1 |-> [i \in 0 .. LinearLen - 1 |-> f[h][i]]]
  /\ \A h \in 0 .. LinearHeads - 1 : \A i \in 0 .. LinearLen - 1 :
       attended[h][i] \in {Linear!None, OutputAt(h, i)}

LEMMA LinearSums == ASSUME NEW f PROVE Linear!SumFor(f) = SumFunctionOnSet(f, DOMAIN f)
BY DEF Linear!SumFor, Linear!MapThenSumSet, Linear!MapThenFoldSet,
       SumFunctionOnSet, FoldFunctionOnSet, MapThenFoldSet

\* Features and values are integers.
LEMMA LinearTypes ==
  ASSUME LinearConstants, LinearInv
  PROVE  /\ \A i \in 0 .. LinearLen - 1 : \A f \in Linear!F : queries[i][f] \in Int
         /\ \A h \in 0 .. LinearHeads - 1 : \A j \in 0 .. LinearLen - 1 : \A f \in Linear!F :
              features[h][j][f] \in Int
         /\ \A h \in 0 .. LinearHeads - 1 : \A j \in 0 .. LinearLen - 1 : \A d \in Linear!D :
              Linear!V(h, j, d) \in Int
<1>1. Feats \subseteq Int
  BY DEF LinearConstants
<1>2. ASSUME NEW i \in 0 .. LinearLen - 1, NEW f \in Linear!F PROVE queries[i][f] \in Int
  BY <1>1 DEF LinearInv
<1>3. ASSUME NEW h \in 0 .. LinearHeads - 1, NEW j \in 0 .. LinearLen - 1, NEW f \in Linear!F
      PROVE  features[h][j][f] \in Int
  <2>1. features[h] \in [0 .. LinearLen - 1 -> [Linear!F -> Feats]]
    BY DEF LinearInv
  <2>2. features[h][j] \in [Linear!F -> Feats]
    BY <2>1
  <2> QED
    BY <1>1, <2>2
<1>4. ASSUME NEW h \in 0 .. LinearHeads - 1, NEW j \in 0 .. LinearLen - 1, NEW d \in Linear!D
      PROVE  Linear!V(h, j, d) \in Int
  <2>1. h \in Int /\ j \in Int /\ d \in Int /\ LinearLen \in Int /\ Dv \in Int
    BY DEF LinearConstants, Linear!D
  <2>2. \A x, w \in Int : x * w \in Int
    OBVIOUS
  <2>3. LinearLen * h \in Int
    BY <2>1, <2>2
  <2>4. Dv * (j + LinearLen * h) \in Int
    BY <2>1, <2>2, <2>3
  <2> QED
    BY <2>1, <2>4 DEF Linear!V
<1> QED
  BY <1>2, <1>3, <1>4

\* One more token.
LEMMA LinearPrefix ==
  ASSUME LinearConstants, LinearInv,
         NEW h \in 0 .. LinearHeads - 1, NEW n \in 0 .. LinearLen - 1, NEW f \in Linear!F
  PROVE  /\ KeySum(h, n + 1)[f] = KeySum(h, n)[f] + features[h][n][f]
         /\ \A d \in Linear!D : OuterSum(h, n + 1)[f][d]
              = OuterSum(h, n)[f][d] + features[h][n][f] * Linear!V(h, n, d)
<1> DEFINE J == 0 .. LinearLen - 1
<1>1. LinearLen \in Nat /\ n \in J
  BY DEF LinearConstants
<1>2. \A j \in J : /\ KeysOf(h, f)[j] = features[h][j][f]
                   /\ KeysOf(h, f)[j] \in Int
  BY LinearTypes DEF KeysOf
<1>3. KeySum(h, n + 1)[f] = KeySum(h, n)[f] + features[h][n][f]
  <2>1. SumFunctionOnSet(KeysOf(h, f), 0 .. (n + 1) - 1)
          = SumFunctionOnSet(KeysOf(h, f), 0 .. n - 1) + KeysOf(h, f)[n]
    BY <1>1, <1>2, SumOfPrefix
  <2> QED
    BY <1>1, <1>2, <2>1 DEF KeySum
<1>4. ASSUME NEW d \in Linear!D
      PROVE  OuterSum(h, n + 1)[f][d]
               = OuterSum(h, n)[f][d] + features[h][n][f] * Linear!V(h, n, d)
  <2>1. \A j \in J : /\ OuterOf(h, f, d)[j] = features[h][j][f] * Linear!V(h, j, d)
                     /\ OuterOf(h, f, d)[j] \in Int
    <3> SUFFICES ASSUME NEW j \in J
                 PROVE  /\ OuterOf(h, f, d)[j] = features[h][j][f] * Linear!V(h, j, d)
                        /\ OuterOf(h, f, d)[j] \in Int
      OBVIOUS
    <3>1. OuterOf(h, f, d)[j] = features[h][j][f] * Linear!V(h, j, d)
      BY DEF OuterOf
    <3>2. features[h][j][f] \in Int /\ Linear!V(h, j, d) \in Int
      BY LinearTypes
    <3>3. \A x, w \in Int : x * w \in Int
      OBVIOUS
    <3> QED
      BY <3>1, <3>2, <3>3
  <2>2. \A j \in J : OuterOf(h, f, d)[j] \in Int
    BY <2>1
  <2>3. SumFunctionOnSet(OuterOf(h, f, d), 0 .. (n + 1) - 1)
          = SumFunctionOnSet(OuterOf(h, f, d), 0 .. n - 1) + OuterOf(h, f, d)[n]
    BY <1>1, <2>2, SumOfPrefix
  <2> QED
    BY <1>1, <2>1, <2>3 DEF OuterSum
<1> QED
  BY <1>3, <1>4

\* Before the first token there is nothing in the state.
LEMMA LinearEmpty ==
  ASSUME NEW h
  PROVE  OuterSum(h, 0) = Linear!ZeroS /\ KeySum(h, 0) = Linear!ZeroZ
<1>1. 0 .. 0 - 1 = {} /\ \A f : SumFunctionOnSet(f, {}) = 0
  BY SumUnfolds, FS_EmptySet
<1> QED
  BY <1>1 DEF OuterSum, KeySum, Linear!ZeroS, Linear!ZeroZ

LEMMA LinearInit == LinearConstants /\ Linear!Init => LinearInv
<1> SUFFICES ASSUME LinearConstants, Linear!Init PROVE LinearInv
  OBVIOUS
<1>1. /\ queries \in [0 .. LinearLen - 1 -> [Linear!F -> Feats]]
      /\ features \in [0 .. LinearHeads - 1 -> [0 .. LinearLen - 1 -> [Linear!F -> Feats]]]
      /\ head = 0 /\ at_token = 0 /\ outer_sum = Linear!ZeroS /\ key_sum = Linear!ZeroZ
      /\ attended = [h \in 0 .. LinearHeads - 1 |-> [i \in 0 .. LinearLen - 1 |-> Linear!None]]
  BY DEF Linear!Init
<1>2. at_token \in 0 .. LinearLen /\ head \in Nat
  BY <1>1 DEF LinearConstants
<1>3. outer_sum = OuterSum(head, at_token) /\ key_sum = KeySum(head, at_token)
  BY <1>1, LinearEmpty
<1>4. \E f : attended = [h \in 0 .. LinearHeads - 1 |-> [i \in 0 .. LinearLen - 1 |-> f[h][i]]]
  <2>1. attended = [h \in 0 .. LinearHeads - 1 |-> [i \in 0 .. LinearLen - 1 |-> attended[h][i]]]
    BY <1>1
  <2> QED
    BY <2>1
<1>5. \A h \in 0 .. LinearHeads - 1 : \A i \in 0 .. LinearLen - 1 :
        attended[h][i] = Linear!None
  BY <1>1
<1> QED
  BY <1>1, <1>2, <1>3, <1>4, <1>5 DEF LinearInv

\* Nothing that is said of a head depends on the step.
LEMMA LinearSame ==
  ASSUME queries' = queries, features' = features, normalize' = normalize
  PROVE  /\ \A h, n : OuterSum(h, n)' = OuterSum(h, n) /\ KeySum(h, n)' = KeySum(h, n)
         /\ \A h, i : OutputAt(h, i)' = OutputAt(h, i)
<1>1. \A h, n : OuterSum(h, n)' = OuterSum(h, n) /\ KeySum(h, n)' = KeySum(h, n)
  BY DEF OuterSum, KeySum, OuterOf, KeysOf
<1>2. ASSUME NEW h, NEW i PROVE OutputAt(h, i)' = OutputAt(h, i)
  <2> DEFINE o == OuterSum(h, i + 1)
             k == KeySum(h, i + 1)
  <2>1. o' = o /\ k' = k
    BY <1>1
  <2> HIDE DEF o, k
  <2>2. Linear!Out(queries[i], o, k)' = Linear!Out(queries[i], o, k)
    BY <2>1 DEF Linear!Out
  <2> QED
    BY <2>2 DEF OutputAt, o, k
<1> QED
  BY <1>1, <1>2

\* A token adds to the state, and its output is made from what that gave.
LEMMA LinearStep ==
  ASSUME LinearConstants, LinearInv, Linear!Step
  PROVE  LinearInv'
<1>1. /\ head < LinearHeads /\ at_token < LinearLen
      /\ outer_sum' = [f \in Linear!F |-> [d \in Linear!D |->
                         outer_sum[f][d]
                           + features[head][at_token][f] * Linear!V(head, at_token, d)]]
      /\ key_sum' = [f \in Linear!F |-> key_sum[f] + features[head][at_token][f]]
      /\ attended' = [attended EXCEPT ![head][at_token]
                        = Linear!Out(queries[at_token], outer_sum', key_sum')]
      /\ at_token' = at_token + 1
      /\ queries' = queries /\ features' = features /\ normalize' = normalize /\ head' = head
  BY DEF Linear!Step
<1>2. head \in Nat /\ at_token \in 0 .. LinearLen
  BY DEF LinearInv
<1>3. /\ head \in 0 .. LinearHeads - 1 /\ at_token \in 0 .. LinearLen - 1
      /\ at_token + 1 \in 0 .. LinearLen
  BY <1>1, <1>2 DEF LinearConstants
<1>4. outer_sum = OuterSum(head, at_token) /\ key_sum = KeySum(head, at_token)
  BY DEF LinearInv
<1>5. /\ \A f \in Linear!F : KeySum(head, at_token + 1)[f]
           = KeySum(head, at_token)[f] + features[head][at_token][f]
      /\ \A f \in Linear!F, d \in Linear!D : OuterSum(head, at_token + 1)[f][d]
           = OuterSum(head, at_token)[f][d]
               + features[head][at_token][f] * Linear!V(head, at_token, d)
  BY <1>3, LinearPrefix
<1>6. outer_sum' = OuterSum(head, at_token + 1)
  <2>1. OuterSum(head, at_token + 1)
          = [f \in Linear!F |-> [d \in Linear!D |-> OuterSum(head, at_token + 1)[f][d]]]
    BY DEF OuterSum
  <2> QED
    BY <1>1, <1>4, <1>5, <2>1
<1>7. key_sum' = KeySum(head, at_token + 1)
  <2>1. KeySum(head, at_token + 1) = [f \in Linear!F |-> KeySum(head, at_token + 1)[f]]
    BY DEF KeySum
  <2> QED
    BY <1>1, <1>4, <1>5, <2>1
<1>8. Linear!Out(queries[at_token], outer_sum', key_sum') = OutputAt(head, at_token)
  BY <1>6, <1>7 DEF OutputAt
<1>9. PICK g : attended = [h \in 0 .. LinearHeads - 1 |-> [i \in 0 .. LinearLen - 1 |-> g[h][i]]]
  BY DEF LinearInv
<1>10. \A h \in 0 .. LinearHeads - 1 : \A i \in 0 .. LinearLen - 1 :
         attended'[h][i] = IF h = head /\ i = at_token THEN OutputAt(head, at_token)
                           ELSE attended[h][i]
  BY <1>1, <1>3, <1>8, <1>9
<1>11. attended' = [h \in 0 .. LinearHeads - 1 |-> [i \in 0 .. LinearLen - 1 |-> attended'[h][i]]]
  BY <1>1, <1>3, <1>9
<1>12. \A h \in 0 .. LinearHeads - 1 : \A i \in 0 .. LinearLen - 1 :
         attended'[h][i] \in {Linear!None, OutputAt(h, i)'}
  <2> SUFFICES ASSUME NEW h \in 0 .. LinearHeads - 1, NEW i \in 0 .. LinearLen - 1
               PROVE  attended'[h][i] \in {Linear!None, OutputAt(h, i)'}
    BY Zenon
  <2>1. OutputAt(h, i)' = OutputAt(h, i)
    BY <1>1, LinearSame
  <2>2. attended[h][i] \in {Linear!None, OutputAt(h, i)}
    BY DEF LinearInv
  <2> QED
    BY <1>10, <2>1, <2>2
<1>13. (outer_sum = OuterSum(head, at_token))' /\ (key_sum = KeySum(head, at_token))'
  BY <1>1, <1>6, <1>7, LinearSame
<1>14. queries' \in [0 .. LinearLen - 1 -> [Linear!F -> Feats]]
       /\ features' \in [0 .. LinearHeads - 1 -> [0 .. LinearLen - 1 -> [Linear!F -> Feats]]]
  BY <1>1 DEF LinearInv
<1>15. \E f : attended' = [h \in 0 .. LinearHeads - 1 |-> [i \in 0 .. LinearLen - 1 |-> f[h][i]]]
  BY <1>11
<1>16. \A h \in 0 .. LinearHeads - 1 : \A i \in 0 .. LinearLen - 1 :
         (attended[h][i] \in {Linear!None, OutputAt(h, i)})'
  BY <1>12 DEF Linear!None
<1> QED
  BY <1>1, <1>2, <1>3, <1>13, <1>14, <1>15, <1>16 DEF LinearInv

\* The next head starts from nothing.
LEMMA LinearNextHead ==
  ASSUME LinearConstants, LinearInv, Linear!NextHead
  PROVE  LinearInv'
<1>1. /\ head' = head + 1 /\ at_token' = 0
      /\ outer_sum' = Linear!ZeroS /\ key_sum' = Linear!ZeroZ
      /\ queries' = queries /\ features' = features /\ normalize' = normalize
      /\ attended' = attended
  BY DEF Linear!NextHead
<1>2. head' \in Nat /\ at_token' \in 0 .. LinearLen
  BY <1>1 DEF LinearInv, LinearConstants
<1>3. outer_sum' = OuterSum(head', 0) /\ key_sum' = KeySum(head', 0)
  BY <1>1, LinearEmpty
<1>4. (outer_sum = OuterSum(head, at_token))' /\ (key_sum = KeySum(head, at_token))'
  BY <1>1, <1>3, LinearSame
<1>5. \A h \in 0 .. LinearHeads - 1 : \A i \in 0 .. LinearLen - 1 :
         (attended[h][i] \in {Linear!None, OutputAt(h, i)})'
  BY <1>1, LinearSame DEF LinearInv, Linear!None
<1> QED
  BY <1>1, <1>2, <1>4, <1>5 DEF LinearInv

\* The output from the state is attention over the prefix.
LEMMA OutputIsAttention ==
  ASSUME LinearConstants, LinearInv,
         NEW h \in 0 .. LinearHeads - 1, NEW i \in 0 .. LinearLen - 1
  PROVE  LET weight == [j \in 0 .. i |->
                          Linear!SumFor([f \in Linear!F |-> queries[i][f] * features[h][j][f]])]
             total  == Linear!SumFor(weight)
             out    == OutputAt(h, i)
         IN  \A d \in Linear!D :
               out.num[d] * (IF normalize THEN total ELSE 1)
                 = (IF normalize /\ total <= 0 THEN 0
                    ELSE Linear!SumFor([j \in 0 .. i |-> weight[j] * Linear!V(h, j, d)])) * out.den
<1> DEFINE query == queries[i]
           k == features[h]
           I == Linear!F
           J == 0 .. i
           qk == [j \in J |-> [f \in I |-> query[f] * k[j][f]]]
           w(j) == SumFunctionOnSet(qk[j], I)
           weight == [j \in J |-> Linear!SumFor([f \in I |-> query[f] * k[j][f]])]
           total == Linear!SumFor(weight)
           mixed(d) == Linear!SumFor([j \in J |-> weight[j] * Linear!V(h, j, d)])
           zsum == Linear!SumFor([f \in I |-> query[f] * KeySum(h, i + 1)[f]])
           num(d) == Linear!SumFor([f \in I |-> query[f] * OuterSum(h, i + 1)[f][d]])
<1>1. IsFiniteSet(I) /\ IsFiniteSet(J) /\ J \subseteq 0 .. LinearLen - 1 /\ 0 .. (i + 1) - 1 = J
  BY FS_Interval DEF LinearConstants, Linear!F
<1>2. /\ \A f \in I : query[f] \in Int
      /\ \A j \in J : \A f \in I : k[j][f] \in Int
      /\ \A d \in Linear!D : \A j \in J : Linear!V(h, j, d) \in Int
  BY <1>1, LinearTypes
<1>3. \A j \in J : weight[j] = w(j) /\ w(j) \in Int
  <2> SUFFICES ASSUME NEW j \in J PROVE weight[j] = w(j) /\ w(j) \in Int
    OBVIOUS
  <2> DEFINE r == [f \in I |-> query[f] * k[j][f]]
  <2>1. \A f \in I : r[f] \in Int
    <3> SUFFICES ASSUME NEW f \in I PROVE query[f] * k[j][f] \in Int
      OBVIOUS
    <3>1. query[f] \in Int /\ k[j][f] \in Int
      BY <1>2
    <3> HIDE DEF query, k
    <3> QED
      BY <3>1
  <2>2. weight[j] = Linear!SumFor(r) /\ w(j) = SumFunctionOnSet(r, I) /\ DOMAIN r = I
    OBVIOUS
  <2> HIDE DEF r, w, weight
  <2> QED
    BY <1>1, <2>1, <2>2, LinearSums, SumInt
<1> HIDE DEF query, k, I, J
<1>4. total \in Int /\ total = zsum
  <2> DEFINE one == [j \in J |-> 1]
             left == [f \in I |-> [j \in J |-> k[j][f] * one[j]]]
             lefts == [f \in I |-> query[f] * SumFunctionOnSet(left[f], J)]
             rights == [j \in J |-> w(j) * one[j]]
             keys == [f \in I |-> query[f] * KeySum(h, i + 1)[f]]
  <2>1. SumFunctionOnSet(lefts, I) = SumFunctionOnSet(rights, J)
    <3>1. \A j \in J : one[j] \in Int
      OBVIOUS
    <3> HIDE DEF one
    <3> QED
      <4>1. IsFiniteSet(I) /\ IsFiniteSet(J)
        BY <1>1
      <4>2. IsForm(I, J, query, k, one, left, qk)
        BY <1>2, <3>1 DEF IsForm
      <4> HIDE DEF left, qk
      <4>3. /\ \A f \in I : lefts[f] = query[f] * SumFunctionOnSet(left[f], J)
            /\ \A j \in J : rights[j] = SumFunctionOnSet(qk[j], I) * one[j]
        OBVIOUS
      <4> HIDE DEF lefts, rights
      <4> QED
        BY <4>1, <4>2, <4>3, SumBilinear
  <2>2. \A j \in J : rights[j] = weight[j] /\ rights[j] \in Int
    <3> SUFFICES ASSUME NEW j \in J PROVE rights[j] = weight[j] /\ rights[j] \in Int
      OBVIOUS
    <3>1. rights[j] = w(j) * 1
      OBVIOUS
    <3> HIDE DEF rights, w, weight
    <3> QED
      BY <1>3, <3>1
  <2>3. \A f \in I : /\ keys[f] = lefts[f]
                     /\ lefts[f] \in Int
    <3> SUFFICES ASSUME NEW f \in I PROVE keys[f] = lefts[f] /\ lefts[f] \in Int
      OBVIOUS
    <3>1. \A j \in J : left[f][j] = KeysOf(h, f)[j] /\ left[f][j] \in Int
      <4> SUFFICES ASSUME NEW j \in J PROVE left[f][j] = KeysOf(h, f)[j] /\ left[f][j] \in Int
        OBVIOUS
      <4>1. left[f][j] = k[j][f] * 1 /\ KeysOf(h, f)[j] = k[j][f]
        BY <1>1 DEF KeysOf, k
      <4>2. k[j][f] \in Int
        BY <1>2
      <4> HIDE DEF left
      <4> QED
        BY <4>1, <4>2
    <3> HIDE DEF left
    <3>2. SumFunctionOnSet(KeysOf(h, f), J) = SumFunctionOnSet(left[f], J)
      BY <1>1, <3>1, SumSame
    <3>3. KeySum(h, i + 1)[f] = SumFunctionOnSet(KeysOf(h, f), J)
      BY <1>1 DEF KeySum, I
    <3>4. SumFunctionOnSet(left[f], J) \in Int
      BY <1>1, <3>1, SumInt
    <3>5. query[f] \in Int
      BY <1>2
    <3>6. \A x, y \in Int : x * y \in Int
      OBVIOUS
    <3> QED
      BY <3>2, <3>3, <3>4, <3>5, <3>6
  <2>4. total = SumFunctionOnSet(weight, J) /\ zsum = SumFunctionOnSet(keys, I)
    <3>1. DOMAIN weight = J /\ DOMAIN keys = I
      OBVIOUS
    <3>2. total = Linear!SumFor(weight) /\ zsum = Linear!SumFor(keys)
      OBVIOUS
    <3> HIDE DEF total, zsum, weight, keys
    <3> QED
      BY <3>1, <3>2, LinearSums
  <2> HIDE DEF total, zsum, weight, keys, lefts, rights
  <2>5. SumFunctionOnSet(weight, J) = SumFunctionOnSet(rights, J)
    BY <1>1, <2>2, SumSame
  <2>6. SumFunctionOnSet(keys, I) = SumFunctionOnSet(lefts, I)
    BY <1>1, <2>3, SumSame
  <2>7. SumFunctionOnSet(weight, J) \in Int
    BY <1>1, <1>3, SumInt
  <2> QED
    BY <2>1, <2>4, <2>5, <2>6, <2>7
<1>5. ASSUME NEW d \in Linear!D PROVE num(d) \in Int /\ num(d) = mixed(d)
  <2> DEFINE v == [j \in J |-> Linear!V(h, j, d)]
             left == [f \in I |-> [j \in J |-> k[j][f] * v[j]]]
             lefts == [f \in I |-> query[f] * SumFunctionOnSet(left[f], J)]
             rights == [j \in J |-> w(j) * v[j]]
             keys == [f \in I |-> query[f] * OuterSum(h, i + 1)[f][d]]
             vals == [j \in J |-> weight[j] * Linear!V(h, j, d)]
  <2>0. \A j \in J : v[j] = Linear!V(h, j, d) /\ v[j] \in Int
    BY <1>2
  <2>1. SumFunctionOnSet(lefts, I) = SumFunctionOnSet(rights, J)
    <3> HIDE DEF v
    <3> QED
      <4>1. IsFiniteSet(I) /\ IsFiniteSet(J)
        BY <1>1
      <4>2. IsForm(I, J, query, k, v, left, qk)
        BY <1>2, <2>0 DEF IsForm
      <4> HIDE DEF left, qk
      <4>3. /\ \A f \in I : lefts[f] = query[f] * SumFunctionOnSet(left[f], J)
            /\ \A j \in J : rights[j] = SumFunctionOnSet(qk[j], I) * v[j]
        OBVIOUS
      <4> HIDE DEF lefts, rights
      <4> QED
        BY <4>1, <4>2, <4>3, SumBilinear
  <2>2. \A j \in J : vals[j] = rights[j] /\ rights[j] \in Int
    <3> SUFFICES ASSUME NEW j \in J PROVE vals[j] = rights[j] /\ rights[j] \in Int
      OBVIOUS
    <3>1. rights[j] = w(j) * v[j] /\ vals[j] = weight[j] * v[j]
      OBVIOUS
    <3>2. \A x, y \in Int : x * y \in Int
      OBVIOUS
    <3> HIDE DEF rights, vals, w, weight, v
    <3> QED
      BY <1>3, <2>0, <3>1, <3>2
  <2>3. \A f \in I : /\ keys[f] = lefts[f]
                     /\ lefts[f] \in Int
    <3> SUFFICES ASSUME NEW f \in I PROVE keys[f] = lefts[f] /\ lefts[f] \in Int
      OBVIOUS
    <3>1. \A j \in J : left[f][j] = OuterOf(h, f, d)[j] /\ left[f][j] \in Int
      <4> SUFFICES ASSUME NEW j \in J
                   PROVE  left[f][j] = OuterOf(h, f, d)[j] /\ left[f][j] \in Int
        OBVIOUS
      <4>1. left[f][j] = k[j][f] * v[j] /\ OuterOf(h, f, d)[j] = k[j][f] * v[j]
        BY <1>1 DEF OuterOf, k
      <4>2. k[j][f] \in Int /\ v[j] \in Int
        BY <1>2, <2>0
      <4>3. \A x, y \in Int : x * y \in Int
        OBVIOUS
      <4> HIDE DEF left, v
      <4> QED
        BY <4>1, <4>2, <4>3
    <3> HIDE DEF left
    <3>2. SumFunctionOnSet(OuterOf(h, f, d), J) = SumFunctionOnSet(left[f], J)
      BY <1>1, <3>1, SumSame
    <3>3. OuterSum(h, i + 1)[f][d] = SumFunctionOnSet(OuterOf(h, f, d), J)
      BY <1>1 DEF OuterSum, I
    <3>4. SumFunctionOnSet(left[f], J) \in Int
      BY <1>1, <3>1, SumInt
    <3>5. query[f] \in Int
      BY <1>2
    <3>6. \A x, y \in Int : x * y \in Int
      OBVIOUS
    <3> QED
      BY <3>2, <3>3, <3>4, <3>5, <3>6
  <2>4. mixed(d) = SumFunctionOnSet(vals, J) /\ num(d) = SumFunctionOnSet(keys, I)
    <3>1. DOMAIN vals = J /\ DOMAIN keys = I
      OBVIOUS
    <3>2. mixed(d) = Linear!SumFor(vals) /\ num(d) = Linear!SumFor(keys)
      OBVIOUS
    <3> HIDE DEF mixed, num, vals, keys
    <3> QED
      BY <3>1, <3>2, LinearSums
  <2> HIDE DEF mixed, num, vals, keys, lefts, rights
  <2>5. SumFunctionOnSet(vals, J) = SumFunctionOnSet(rights, J)
    BY <1>1, <2>2, SumSame
  <2>6. SumFunctionOnSet(keys, I) = SumFunctionOnSet(lefts, I)
    BY <1>1, <2>3, SumSame
  <2>7. SumFunctionOnSet(lefts, I) \in Int
    BY <1>1, <2>3, SumInt
  <2> QED
    BY <2>1, <2>4, <2>5, <2>6, <2>7
<1>6. OutputAt(h, i) =
        IF ~normalize THEN [num |-> [d \in Linear!D |-> num(d)], den |-> 1]
        ELSE IF zsum > 0 THEN [num |-> [d \in Linear!D |-> num(d)], den |-> zsum]
        ELSE [num |-> [d \in Linear!D |-> 0], den |-> 1]
  BY DEF OutputAt, Linear!Out, query, I
<1>7. ASSUME NEW d \in Linear!D
      PROVE  OutputAt(h, i).num[d] * (IF normalize THEN total ELSE 1)
               = (IF normalize /\ total <= 0 THEN 0 ELSE mixed(d)) * OutputAt(h, i).den
  <2>1. num(d) \in Int /\ num(d) = mixed(d) /\ total \in Int /\ total = zsum
    BY <1>4, <1>5
  <2> HIDE DEF num, mixed, total, zsum
  <2>2. CASE ~normalize
    BY <1>6, <2>1, <2>2
  <2>3. CASE normalize /\ zsum > 0
    <3>1. OutputAt(h, i).num[d] = num(d) /\ OutputAt(h, i).den = zsum
      BY <1>6, <2>3
    <3> QED
      BY <2>1, <2>3, <3>1
  <2>4. CASE normalize /\ ~ zsum > 0
    <3>1. OutputAt(h, i).num[d] = 0 /\ OutputAt(h, i).den = 1
      BY <1>6, <2>4
    <3> QED
      BY <2>1, <2>4, <3>1
  <2> QED
    BY <2>2, <2>3, <2>4
<1> QED
  BY <1>7 DEF query, k, I, J

\* The recurrence of linear attention is attention over the prefix, with its
\* normalization, for any number of heads, tokens, features and dimensions
\* (linear_attn.hpp): the state that all heads share carries nothing from one
\* to the next.
THEOREM LinearExact == LinearConstants => (Linear!Spec => []Linear!RecurrenceIsAttention)
<1> SUFFICES ASSUME LinearConstants PROVE Linear!Spec => []Linear!RecurrenceIsAttention
  OBVIOUS
<1>1. Linear!Init => LinearInv
  BY LinearInit
<1>2. LinearInv /\ [Linear!Next]_Linear!vars => LinearInv'
  <2> SUFFICES ASSUME LinearInv, [Linear!Next]_Linear!vars PROVE LinearInv'
    OBVIOUS
  <2>1. CASE Linear!Step
    BY <2>1, LinearStep
  <2>2. CASE Linear!NextHead
    BY <2>2, LinearNextHead
  <2>3. CASE UNCHANGED Linear!vars
    <3>1. /\ queries' = queries /\ features' = features /\ normalize' = normalize
          /\ head' = head /\ at_token' = at_token /\ attended' = attended
          /\ outer_sum' = outer_sum /\ key_sum' = key_sum
      BY <2>3 DEF Linear!vars
    <3>2. (outer_sum = OuterSum(head, at_token))' /\ (key_sum = KeySum(head, at_token))'
      BY <3>1, LinearSame DEF LinearInv
    <3>3. \A h \in 0 .. LinearHeads - 1 : \A i \in 0 .. LinearLen - 1 :
            (attended[h][i] \in {Linear!None, OutputAt(h, i)})'
      BY <3>1, LinearSame DEF LinearInv, Linear!None
    <3> QED
      BY <3>1, <3>2, <3>3 DEF LinearInv
  <2> QED
    BY <2>1, <2>2, <2>3 DEF Linear!Next
<1>3. LinearInv => Linear!RecurrenceIsAttention
  <2> SUFFICES ASSUME LinearInv, NEW h \in 0 .. LinearHeads - 1, NEW i \in 0 .. LinearLen - 1,
                      attended[h][i] # Linear!None
               PROVE  LET weight == [j \in 0 .. i |-> Linear!SumFor(
                                [f \in Linear!F |-> queries[i][f] * features[h][j][f]])]
                          total  == Linear!SumFor(weight)
                      IN  \A d \in Linear!D :
                            attended[h][i].num[d] * (IF normalize THEN total ELSE 1)
                              = (IF normalize /\ total <= 0 THEN 0
                                 ELSE Linear!SumFor([j \in 0 .. i |->
                                        weight[j] * Linear!V(h, j, d)])) * attended[h][i].den
    BY Zenon DEF Linear!RecurrenceIsAttention
  <2>1. attended[h][i] = OutputAt(h, i)
    BY DEF LinearInv
  <2> QED
    BY <2>1, OutputIsAttention, Zenon
<1> QED
  BY <1>1, <1>2, <1>3, PTL DEF Linear!Spec

---------------------------------------------------------------------------
(* The selective scan, for every shape and chunk: an instance of            *)
(* SelectiveScan of its own, with the sizes open.                           *)

CONSTANTS Batches, ScanLen, Channels, StateDims, TapCount, ScanChunks, Deltas
VARIABLES
  delta, chunk, channel, scan_stage, chunk_at, step_at, carries, carry, Abar, Bbar, scanned

Scan == INSTANCE SelectiveScan WITH
  Batch <- Batches, L <- ScanLen, Di <- Channels, Ds <- StateDims, K <- TapCount,
  ChunkSizes <- ScanChunks,
  ch <- channel, stage <- scan_stage, t0 <- chunk_at, s <- step_at,
  h <- carries, hh <- carry, y <- scanned

\* There may be no channel to scan; a sequence has a step.  The size of a chunk
\* is any number, which the scan raises to 1.
ScanConstants ==
  /\ Batches \in Nat /\ ScanLen \in Nat \ {0} /\ Channels \in Nat
  /\ StateDims \in Nat /\ TapCount \in Nat
  /\ ScanChunks \subseteq Int

StateDim == 0 .. StateDims - 1
Times == 0 .. ScanLen - 1
AllChannels == 0 .. Batches * Channels - 1

\* The state before the first step, and after the step at t from the one
\* before it.
ZeroState == [n \in StateDim |-> 0]
StateFrom(b, d, t, before) ==
  [n \in StateDim |-> Scan!Exp(delta[b][t][d] * Scan!A(d, n)) * before[n]
                        + (delta[b][t][d] * Scan!B(b, t, n)) * Scan!Filtered(b, t, d)]

\* The states of a channel up to time m, as the reference computes them.
AreStates(b, d, m, st) ==
  st = [t \in -1 .. m |-> IF t = -1 THEN ZeroState ELSE StateFrom(b, d, t, st[t - 1])]

StateOf(c) == Scan!RefState(c \div Channels, c % Channels)

\* The rows of the tables that a chunk uses.
ARow(c, t) == [n \in StateDim |->
  Scan!Exp(delta[c \div Channels][t][c % Channels] * Scan!A(c % Channels, n))]
BRow(c, t) == [n \in StateDim |->
  delta[c \div Channels][t][c % Channels] * Scan!B(c \div Channels, t, n)]

\* The inductive invariant: the carry is the reference's state after the last
\* step, the tables are those of the steps to come, and every finished channel
\* and every output is the reference's.
ScanInv ==
  /\ chunk \in Nat \ {0} /\ channel \in 0 .. Batches * Channels
  /\ scan_stage \in {"load", "discretize", "step", "store"}
  /\ scan_stage # "load" => channel < Batches * Channels
  /\ carries = [c \in AllChannels |-> IF c < channel THEN StateOf(c)[ScanLen - 1] ELSE ZeroState]
  /\ scan_stage = "discretize" =>
       chunk_at \in 0 .. ScanLen /\ carry = StateOf(channel)[chunk_at - 1]
  /\ scan_stage = "step" =>
       /\ chunk_at \in Times /\ step_at \in 0 .. Scan!Length
       /\ carry = StateOf(channel)[chunk_at + step_at - 1]
       /\ \A i \in 0 .. Scan!Length - 1 :
            Abar[i] = ARow(channel, chunk_at + i) /\ Bbar[i] = BRow(channel, chunk_at + i)
  /\ scan_stage = "store" => carry = StateOf(channel)[ScanLen - 1]
  /\ \E f : scanned = [c \in AllChannels |-> [t \in Times |-> f[c][t]]]
  /\ \A c \in AllChannels : \A t \in Times :
       scanned[c][t] \in {Scan!None, Scan!RefOut(c \div Channels, t, c % Channels)}

LEMMA ScanSums == ASSUME NEW f PROVE Scan!SumFor(f) = SumFunctionOnSet(f, DOMAIN f)
BY DEF Scan!SumFor, Scan!MapThenSumSet, Scan!MapThenFoldSet,
       SumFunctionOnSet, FoldFunctionOnSet, MapThenFoldSet

\* The convolution that leaves out what is before the sequence is the one over
\* the sequence padded with zeros.
LEMMA ConvIsFilter ==
  ASSUME ScanConstants, NEW b \in Int, NEW c \in Int, NEW t \in Times
  PROVE  Scan!Conv1d(b, t, c) = Scan!Filtered(b, t, c)
<1> DEFINE S == 0 .. TapCount - 1
           T == Scan!Taps(b, t)
           f == [k \in S |-> Scan!Padded(b, t - k, c) * Scan!W(c, k)]
           g == [k \in T |-> Scan!Raw(((b * ScanLen + (t - k)) * Channels) + c) * Scan!W(c, k)]
<1>1. IsFiniteSet(S) /\ T \in SUBSET S /\ \A k \in S : k \in Int /\ (k \in T <=> t - k >= 0)
  <2>1. IsFiniteSet(S)
    BY FS_Interval DEF ScanConstants
  <2>2. T = {k \in S : t - k >= 0}
    BY DEF Scan!Taps
  <2>3. \A k \in S : k \in Int
    OBVIOUS
  <2> HIDE DEF S, T
  <2> QED
    BY <2>1, <2>2, <2>3
<1>2. t \in Int /\ ScanLen \in Int /\ Channels \in Int
  BY DEF Times, ScanConstants
<1>3. \A x, y \in Int : x * y \in Int
  OBVIOUS
<1>4. ASSUME NEW k \in S
      PROVE  /\ f[k] = IF k \in T THEN g[k] ELSE 0
             /\ f[k] \in Int
  <2>1. k \in Int /\ f[k] = Scan!Padded(b, t - k, c) * Scan!W(c, k) /\ Scan!W(c, k) \in Int
    BY <1>1 DEF Scan!W
  <2>2. CASE k \in T
    <3>1. ~ t - k < 0
      BY <1>1, <1>2, <2>1, <2>2
    <3>2. Scan!Padded(b, t - k, c) = 1 + c + Channels * (t - k) + Channels * ScanLen * b
      BY <3>1 DEF Scan!Padded
    <3>3. \A x, l, u, d, e \in Int : 1 + (((x * l + u) * d) + e) = 1 + e + d * u + d * l * x
      OBVIOUS
    <3>4. 1 + (((b * ScanLen + (t - k)) * Channels) + c)
            = 1 + c + Channels * (t - k) + Channels * ScanLen * b
      BY <1>2, <2>1, <3>3
    <3>5. Channels * (t - k) \in Int /\ Channels * ScanLen * b \in Int
      BY <1>2, <1>3, <2>1
    <3>6. Scan!Padded(b, t - k, c) \in Int
      BY <3>2, <3>5
    <3>7. g[k] = Scan!Raw(((b * ScanLen + (t - k)) * Channels) + c) * Scan!W(c, k)
      BY <2>2
    <3>8. g[k] = Scan!Padded(b, t - k, c) * Scan!W(c, k)
      BY <3>2, <3>4, <3>7 DEF Scan!Raw
    <3> QED
      BY <1>3, <2>1, <2>2, <3>6, <3>8
  <2>3. CASE k \notin T
    <3>1. t - k < 0
      BY <1>1, <1>2, <2>1, <2>3
    <3>2. Scan!Padded(b, t - k, c) = 0
      BY <3>1 DEF Scan!Padded
    <3> QED
      BY <2>1, <2>3, <3>2
  <2> QED
    BY <2>2, <2>3
<1>5. Scan!Conv1d(b, t, c) = Scan!SumFor(g) /\ Scan!Filtered(b, t, c) = Scan!SumFor(f)
  BY DEF Scan!Conv1d, Scan!Filtered
<1>6. DOMAIN g = T /\ DOMAIN f = S
  OBVIOUS
<1> HIDE DEF f, g, S, T
<1>7. SumFunctionOnSet(g, T) = SumFunctionOnSet(f, S)
  BY <1>1, <1>4, SumWithoutZeros
<1> QED
  BY <1>5, <1>6, <1>7, ScanSums

\* A value of a computation is by its rule.
LEMMA StatesAt ==
  ASSUME NEW b, NEW d, NEW m \in Int, NEW st, AreStates(b, d, m, st), NEW t \in -1 .. m
  PROVE  st[t] = IF t = -1 THEN ZeroState ELSE StateFrom(b, d, t, st[t - 1])
<1> DEFINE F(i) == IF i = -1 THEN ZeroState ELSE StateFrom(b, d, i, st[i - 1])
<1>1. st = [i \in -1 .. m |-> F(i)]
  BY DEF AreStates
<1> HIDE DEF F
<1>2. st[t] = F(t)
  BY <1>1, Zenon
<1> QED
  BY <1>2 DEF F

\* The reference's recursion is well defined.
LEMMA StatesExist ==
  ASSUME NEW b, NEW d
  PROVE  \A n \in Nat : \E st : AreStates(b, d, n - 1, st)
<1> DEFINE S == {n \in Nat : \E st : AreStates(b, d, n - 1, st)}
<1>1. 0 \in S
  <2> DEFINE z == [t \in -1 .. -1 |-> ZeroState]
  <2>1. z = [t \in -1 .. -1 |-> IF t = -1 THEN ZeroState ELSE StateFrom(b, d, t, z[t - 1])]
    OBVIOUS
  <2> HIDE DEF z
  <2>2. AreStates(b, d, 0 - 1, z)
    <3>1. 0 - 1 = -1
      OBVIOUS
    <3> QED
      BY <2>1, <3>1 DEF AreStates
  <2> QED
    BY <2>2
<1>2. ASSUME NEW n \in Nat, n \in S
      PROVE  n + 1 \in S
  <2>1. PICK st : AreStates(b, d, n - 1, st)
    BY <1>2
  <2> DEFINE F(f, t) == IF t = -1 THEN ZeroState ELSE StateFrom(b, d, t, f[t - 1])
             c == [t \in -1 .. n |-> IF t <= n - 1 THEN st[t] ELSE F(st, t)]
  <2>2. \A t \in -1 .. n - 1 : c[t] = st[t]
    OBVIOUS
  <2>3. ASSUME NEW t \in -1 .. n PROVE c[t] = F(c, t)
    <3>1. c[t] = F(st, t)
      <4>1. CASE t <= n - 1
        <5>1. t \in -1 .. n - 1 /\ c[t] = st[t] /\ n - 1 \in Int
          BY <4>1
        <5> HIDE DEF c
        <5> QED
          BY <2>1, <5>1, StatesAt
      <4>2. CASE t > n - 1
        BY <4>2
      <4> QED
        BY <4>1, <4>2
    <3>2. t # -1 => t - 1 \in -1 .. n - 1
      OBVIOUS
    <3> HIDE DEF c
    <3>3. t # -1 => c[t - 1] = st[t - 1]
      BY <2>2, <3>2
    <3> QED
      BY <3>1, <3>3
  <2>4. c = [t \in -1 .. n |-> c[t]]
    OBVIOUS
  <2> HIDE DEF c
  <2>5. AreStates(b, d, n, c)
    BY <2>3, <2>4 DEF AreStates
  <2>6. (n + 1) - 1 = n
    OBVIOUS
  <2> QED
    BY <2>5, <2>6
<1> HIDE DEF S
<1>3. \A n \in Nat : n \in S
  BY <1>1, <1>2, SetInduction
<1> QED
  BY <1>3 DEF S

\* The reference's states, one by one.
LEMMA RefStates ==
  ASSUME ScanConstants, NEW b, NEW d
  PROVE  /\ Scan!RefState(b, d)[-1] = ZeroState
         /\ \A t \in Times : Scan!RefState(b, d)[t]
                               = StateFrom(b, d, t, Scan!RefState(b, d)[t - 1])
<1> DEFINE m == ScanLen - 1
           st == CHOOSE f : AreStates(b, d, m, f)
<1>1. \E f : AreStates(b, d, m, f)
  BY StatesExist DEF ScanConstants
<1>2. AreStates(b, d, m, st)
  BY <1>1
<1>3. Scan!RefState(b, d) = st
  BY DEF Scan!RefState, AreStates, StateFrom, ZeroState, StateDim
<1>4. m \in Int /\ -1 \in -1 .. m /\ \A t \in Times : t \in -1 .. m /\ t # -1
  BY DEF ScanConstants, Times
<1> HIDE DEF st, m
<1> QED
  BY <1>2, <1>3, <1>4, StatesAt

LEMMA ScanCount == ScanConstants => Batches * Channels \in Nat
<1>1. \A x, w \in Nat : x * w \in Nat
  OBVIOUS
<1> QED
  BY <1>1 DEF ScanConstants

\* A channel and the batch it is of.
LEMMA ScanPlace ==
  ASSUME ScanConstants, NEW c \in AllChannels
  PROVE  c \div Channels \in Int /\ c % Channels \in Int
<1>1. Batches * Channels > 0
  BY ScanCount DEF AllChannels
<1>2. Channels # 0
  <2>1. \A x \in Nat : x * 0 = 0
    OBVIOUS
  <2> QED
    BY <1>1, <2>1 DEF ScanConstants
<1>3. c \in Int /\ Channels \in Nat \ {0}
  BY <1>2 DEF ScanConstants, AllChannels
<1> QED
  BY <1>3

\* The states of a channel, one by one.
LEMMA ChannelStates ==
  ASSUME ScanConstants, NEW c
  PROVE  /\ StateOf(c)[-1] = ZeroState
         /\ \A t \in Times : StateOf(c)[t]
              = StateFrom(c \div Channels, c % Channels, t, StateOf(c)[t - 1])
BY RefStates DEF StateOf

\* Nothing that is said of a channel depends on the step.
LEMMA ScanSame ==
  ASSUME delta' = delta
  PROVE  /\ \A c : StateOf(c)' = StateOf(c)
         /\ \A c, t : ARow(c, t)' = ARow(c, t) /\ BRow(c, t)' = BRow(c, t)
         /\ \A b, t, d : Scan!RefOut(b, t, d)' = Scan!RefOut(b, t, d)
<1>1. \A b, d : Scan!RefState(b, d)' = Scan!RefState(b, d)
  BY DEF Scan!RefState
<1> QED
  BY <1>1 DEF StateOf, ARow, BRow, Scan!RefOut

LEMMA ScanInit == ScanConstants /\ Scan!Init => ScanInv
<1> SUFFICES ASSUME ScanConstants, Scan!Init PROVE ScanInv
  OBVIOUS
<1>1. /\ \E size \in ScanChunks : chunk = Scan!Clamped(size)
      /\ channel = 0 /\ scan_stage = "load"
      /\ carries = [c \in AllChannels |-> ZeroState]
      /\ scanned = [c \in AllChannels |-> [t \in Times |-> Scan!None]]
  BY DEF Scan!Init, AllChannels, ZeroState, StateDim, Times
<1>2. Batches * Channels \in Nat
  BY ScanCount
<1>3. chunk \in Nat \ {0} /\ channel \in 0 .. Batches * Channels
  BY <1>1, <1>2 DEF ScanConstants, Scan!Clamped
<1>4. carries = [c \in AllChannels |-> IF c < channel THEN StateOf(c)[ScanLen - 1] ELSE ZeroState]
  <2>1. \A c \in AllChannels : ~ c < channel
    BY <1>1 DEF AllChannels
  <2> QED
    BY <1>1, <2>1
<1>5. \E f : scanned = [c \in AllChannels |-> [t \in Times |-> f[c][t]]]
  <2>1. scanned = [c \in AllChannels |-> [t \in Times |-> scanned[c][t]]]
    BY <1>1
  <2> QED
    BY <2>1
<1>6. \A c \in AllChannels : \A t \in Times : scanned[c][t] = Scan!None
  BY <1>1
<1> QED
  BY <1>1, <1>3, <1>4, <1>5, <1>6 DEF ScanInv

\* A channel starts from the carry of the call, which is still zero.
LEMMA ScanLoad ==
  ASSUME ScanConstants, ScanInv, Scan!Load
  PROVE  ScanInv'
<1>1. /\ scan_stage = "load" /\ channel < Batches * Channels
      /\ carry' = carries[channel] /\ chunk_at' = 0 /\ scan_stage' = "discretize"
      /\ delta' = delta /\ chunk' = chunk /\ channel' = channel /\ step_at' = step_at
      /\ carries' = carries /\ Abar' = Abar /\ Bbar' = Bbar /\ scanned' = scanned
  BY DEF Scan!Load
<1>2. channel \in AllChannels /\ ~ channel < channel
  <2>1. channel \in 0 .. Batches * Channels
    BY DEF ScanInv
  <2> QED
    BY <1>1, <2>1, ScanCount DEF AllChannels
<1>3. carry' = ZeroState
  BY <1>1, <1>2 DEF ScanInv
<1>4. chunk_at' \in 0 .. ScanLen /\ chunk_at' - 1 = -1
  BY <1>1 DEF ScanConstants
<1>5. carry' = StateOf(channel)'[chunk_at' - 1]
  BY <1>1, <1>3, <1>4, ScanSame, ChannelStates
<1>6. carries' = [c \in AllChannels |->
                IF c < channel' THEN StateOf(c)'[ScanLen - 1] ELSE ZeroState]
  BY <1>1, ScanSame DEF ScanInv
<1>7. \A c \in AllChannels : \A t \in Times :
        scanned'[c][t] \in {Scan!None, Scan!RefOut(c \div Channels, t, c % Channels)'}
  BY <1>1, ScanSame DEF ScanInv
<1>8. (carry = StateOf(channel)[chunk_at - 1])'
  BY <1>1, <1>5, ScanSame
<1>9. chunk' \in Nat \ {0} /\ channel' \in 0 .. Batches * Channels
  BY <1>1 DEF ScanInv
<1>10. \E f : scanned' = [c \in AllChannels |-> [t \in Times |-> f[c][t]]]
  BY <1>1 DEF ScanInv
<1> QED
  BY <1>1, <1>4, <1>6, <1>7, <1>8, <1>9, <1>10
     DEF ScanInv, Scan!None, ZeroState, StateDim, AllChannels, Times

\* The length of a chunk that starts within the sequence.
LEMMA ScanLength ==
  ASSUME ScanConstants, chunk \in Nat \ {0}, chunk_at \in Times
  PROVE  /\ Scan!Length \in Nat \ {0} /\ Scan!Length <= chunk
         /\ chunk_at + Scan!Length <= ScanLen
         /\ IF chunk_at + chunk < ScanLen THEN Scan!Length = chunk
            ELSE chunk_at + Scan!Length = ScanLen
BY DEF Scan!Length, ScanConstants, Times

\* The tables of a chunk are those of its own steps, whatever was there.
LEMMA ScanDiscretize ==
  ASSUME ScanConstants, ScanInv, Scan!Discretize
  PROVE  ScanInv'
<1>1. /\ scan_stage = "discretize" /\ chunk_at < ScanLen
      /\ step_at' = 0 /\ scan_stage' = "step"
      /\ delta' = delta /\ chunk' = chunk /\ channel' = channel /\ chunk_at' = chunk_at
      /\ carries' = carries /\ carry' = carry /\ scanned' = scanned
  BY DEF Scan!Discretize
<1>2. /\ chunk_at \in Times /\ chunk \in Nat \ {0}
      /\ carry = StateOf(channel)[chunk_at - 1] /\ channel < Batches * Channels
  <2>1. /\ chunk_at \in 0 .. ScanLen /\ chunk \in Nat \ {0}
        /\ carry = StateOf(channel)[chunk_at - 1] /\ channel < Batches * Channels
    BY <1>1 DEF ScanInv
  <2>2. chunk_at \in Times
    BY <1>1, <2>1 DEF ScanConstants, Times
  <2> QED
    BY <2>1, <2>2
<1>3. Scan!Length \in Nat \ {0} /\ Scan!Length <= chunk /\ Scan!Length' = Scan!Length
  BY <1>1, <1>2, ScanLength DEF Scan!Length
<1>4. ASSUME NEW i \in 0 .. Scan!Length - 1
      PROVE  Abar'[i] = ARow(channel, chunk_at + i) /\ Bbar'[i] = BRow(channel, chunk_at + i)
  <2>1. i \in 0 .. chunk - 1 /\ i < Scan!Length
    BY <1>2, <1>3
  <2>2. /\ Abar' = [j \in 0 .. chunk - 1 |->
             IF j < Scan!Length THEN ARow(channel, chunk_at + j) ELSE Abar[j]]
        /\ Bbar' = [j \in 0 .. chunk - 1 |->
             IF j < Scan!Length THEN BRow(channel, chunk_at + j) ELSE Bbar[j]]
    BY DEF Scan!Discretize, ARow, BRow, StateDim, Scan!b_, Scan!d_
  <2> QED
    BY <2>1, <2>2
<1>5. chunk_at + 0 - 1 = chunk_at - 1
  BY <1>2 DEF Times
<1>6. (carry = StateOf(channel)[chunk_at + step_at - 1])'
  BY <1>1, <1>2, <1>5, ScanSame
<1>7. (\A i \in 0 .. Scan!Length - 1 :
         Abar[i] = ARow(channel, chunk_at + i) /\ Bbar[i] = BRow(channel, chunk_at + i))'
  BY <1>1, <1>3, <1>4, ScanSame
<1>8. carries' = [c \in AllChannels |->
                IF c < channel' THEN StateOf(c)'[ScanLen - 1] ELSE ZeroState]
  BY <1>1, ScanSame DEF ScanInv
<1>9. \A c \in AllChannels : \A t \in Times :
        scanned'[c][t] \in {Scan!None, Scan!RefOut(c \div Channels, t, c % Channels)'}
  BY <1>1, ScanSame DEF ScanInv
<1>10. step_at' \in 0 .. Scan!Length'
  BY <1>1, <1>3
<1> QED
  BY <1>1, <1>2, <1>6, <1>7, <1>8, <1>9, <1>10
     DEF ScanInv, Scan!None, ZeroState, StateDim, AllChannels, Times

\* A step carries the reference's state on, and its output is the reference's.
LEMMA ScanOneStep ==
  ASSUME ScanConstants, ScanInv, Scan!Step
  PROVE  ScanInv'
<1> DEFINE b == channel \div Channels
           d == channel % Channels
           t == chunk_at + step_at
           x == Scan!Filtered(b, t, d)
           new == StateFrom(b, d, t, carry)
           out == Scan!SumFor([n \in StateDim |-> Scan!C(b, t, n) * new[n]]) + Scan!Skip(d) * x
<1>1. /\ scan_stage = "step" /\ step_at < Scan!Length /\ step_at' = step_at + 1
      /\ delta' = delta /\ chunk' = chunk /\ channel' = channel /\ scan_stage' = scan_stage
      /\ chunk_at' = chunk_at /\ carries' = carries /\ Abar' = Abar /\ Bbar' = Bbar
  BY DEF Scan!Step
<1>2. /\ chunk_at \in Times /\ chunk \in Nat \ {0} /\ step_at \in 0 .. Scan!Length
      /\ carry = StateOf(channel)[chunk_at + step_at - 1]
      /\ channel \in 0 .. Batches * Channels /\ channel < Batches * Channels
      /\ \A i \in 0 .. Scan!Length - 1 :
           Abar[i] = ARow(channel, chunk_at + i) /\ Bbar[i] = BRow(channel, chunk_at + i)
  BY <1>1 DEF ScanInv
<1>3. /\ Scan!Length \in Nat \ {0} /\ chunk_at + Scan!Length <= ScanLen
      /\ Scan!Length' = Scan!Length
  BY <1>1, <1>2, ScanLength DEF Scan!Length
<1>4. /\ t \in Times /\ t + 1 - 1 = t /\ step_at \in 0 .. Scan!Length - 1
      /\ step_at + 1 \in 0 .. Scan!Length /\ chunk_at + (step_at + 1) - 1 = t
  BY <1>1, <1>2, <1>3 DEF Times, ScanConstants
<1>5. channel \in AllChannels
  BY <1>2, ScanCount DEF AllChannels
<1>6. b \in Int /\ d \in Int
  BY <1>5, ScanPlace
<1>7. Scan!Conv1d(b, t, d) = x
  BY <1>4, <1>6, ConvIsFilter
<1>8. Abar[step_at] = ARow(channel, t) /\ Bbar[step_at] = BRow(channel, t)
  BY <1>2, <1>4
<1>9. new = [n \in StateDim |-> Abar[step_at][n] * carry[n]
                                  + Bbar[step_at][n] * Scan!Conv1d(b, t, d)]
  <2>1. \A n \in StateDim : /\ ARow(channel, t)[n] = Scan!Exp(delta[b][t][d] * Scan!A(d, n))
                            /\ BRow(channel, t)[n] = delta[b][t][d] * Scan!B(b, t, n)
    BY DEF ARow, BRow
  <2> QED
    BY <1>7, <1>8, <2>1 DEF StateFrom
<1>10. new = StateOf(channel)[t]
  <2>1. StateOf(channel)[t] = StateFrom(b, d, t, StateOf(channel)[t - 1])
    BY <1>4, ChannelStates
  <2>2. carry = StateOf(channel)[t - 1]
    <3>1. chunk_at + step_at - 1 = t - 1
      BY <1>2, <1>3 DEF Times, ScanConstants
    <3> QED
      BY <1>2, <3>1
  <2> QED
    BY <2>1, <2>2
<1>11. carry' = new /\ scanned' = [scanned EXCEPT ![channel][t] = out]
  <2> DEFINE made == [n \in StateDim |-> Abar[step_at][n] * carry[n]
                                           + Bbar[step_at][n] * Scan!Conv1d(b, t, d)]
  <2>1. /\ carry' = made
        /\ scanned' = [scanned EXCEPT ![channel][t] =
             Scan!SumFor([n \in StateDim |-> Scan!C(b, t, n) * made[n]])
               + Scan!Skip(d) * Scan!Conv1d(b, t, d)]
    BY DEF Scan!Step, StateDim, Scan!b_, Scan!d_
  <2>2. made = new
    BY <1>9
  <2> HIDE DEF made, new
  <2> QED
    BY <1>7, <2>1, <2>2
<1>12. out = Scan!RefOut(b, t, d)
  <2>1. StateOf(channel) = Scan!RefState(b, d)
    BY DEF StateOf
  <2> HIDE DEF new
  <2> QED
    BY <1>10, <2>1 DEF Scan!RefOut, StateDim
<1> HIDE DEF new, out, x
<1>13. carry' = StateOf(channel)'[chunk_at' + step_at' - 1]
  BY <1>1, <1>4, <1>10, <1>11, ScanSame
<1>14. (carry = StateOf(channel)[chunk_at + step_at - 1])'
  BY <1>1, <1>13, ScanSame
<1>15. (\A i \in 0 .. Scan!Length - 1 :
          Abar[i] = ARow(channel, chunk_at + i) /\ Bbar[i] = BRow(channel, chunk_at + i))'
  BY <1>1, <1>2, <1>3, ScanSame
<1>16. carries' = [c \in AllChannels |->
                IF c < channel' THEN StateOf(c)'[ScanLen - 1] ELSE ZeroState]
  BY <1>1, ScanSame DEF ScanInv
<1>17. PICK g : scanned = [c \in AllChannels |-> [i \in Times |-> g[c][i]]]
  BY DEF ScanInv
<1>18. scanned' = [c \in AllChannels |-> [i \in Times |-> scanned'[c][i]]]
  BY <1>4, <1>5, <1>11, <1>17
<1>19. \A c \in AllChannels : \A i \in Times :
         scanned'[c][i] = IF c = channel /\ i = t THEN out ELSE scanned[c][i]
  BY <1>4, <1>5, <1>11, <1>17
<1>20. \A c \in AllChannels : \A i \in Times :
         scanned'[c][i] \in {Scan!None, Scan!RefOut(c \div Channels, i, c % Channels)'}
  <2> SUFFICES ASSUME NEW c \in AllChannels, NEW i \in Times
               PROVE  scanned'[c][i] \in
                        {Scan!None, Scan!RefOut(c \div Channels, i, c % Channels)'}
    BY Zenon
  <2>1. Scan!RefOut(c \div Channels, i, c % Channels)'
          = Scan!RefOut(c \div Channels, i, c % Channels)
    BY <1>1, ScanSame
  <2>2. scanned[c][i] \in {Scan!None, Scan!RefOut(c \div Channels, i, c % Channels)}
    BY DEF ScanInv
  <2> QED
    BY <1>12, <1>19, <2>1, <2>2
<1>21. /\ step_at' \in 0 .. Scan!Length'
       /\ \E f : scanned' = [c \in AllChannels |-> [i \in Times |-> f[c][i]]]
  BY <1>1, <1>3, <1>4, <1>18
<1> QED
  BY <1>1, <1>2, <1>14, <1>15, <1>16, <1>20, <1>21
     DEF ScanInv, Scan!None, ZeroState, StateDim, AllChannels, Times

\* The next chunk starts where this one ended, and the last one ended the
\* sequence.
LEMMA ScanNextChunk ==
  ASSUME ScanConstants, ScanInv, Scan!NextChunk
  PROVE  ScanInv'
<1>1. /\ scan_stage = "step" /\ step_at = Scan!Length /\ chunk_at' = chunk_at + chunk
      /\ scan_stage' = (IF chunk_at + chunk < ScanLen THEN "discretize" ELSE "store")
      /\ delta' = delta /\ chunk' = chunk /\ channel' = channel /\ carry' = carry
      /\ carries' = carries /\ scanned' = scanned
  BY DEF Scan!NextChunk
<1>2. /\ chunk_at \in Times /\ chunk \in Nat \ {0}
      /\ carry = StateOf(channel)[chunk_at + step_at - 1]
      /\ channel \in 0 .. Batches * Channels /\ channel < Batches * Channels
  BY <1>1 DEF ScanInv
<1>3. carries' = [c \in AllChannels |->
                IF c < channel' THEN StateOf(c)'[ScanLen - 1] ELSE ZeroState]
  BY <1>1, ScanSame DEF ScanInv
<1>4. \A c \in AllChannels : \A t \in Times :
        scanned'[c][t] \in {Scan!None, Scan!RefOut(c \div Channels, t, c % Channels)'}
  BY <1>1, ScanSame DEF ScanInv
<1>5. \E f : scanned' = [c \in AllChannels |-> [i \in Times |-> f[c][i]]]
  BY <1>1 DEF ScanInv
<1>6. CASE chunk_at + chunk < ScanLen
  <2>1. chunk_at + step_at - 1 = chunk_at' - 1 /\ chunk_at' \in 0 .. ScanLen
    BY <1>1, <1>2, <1>6, ScanLength DEF ScanConstants, Times
  <2>2. (carry = StateOf(channel)[chunk_at - 1])'
    BY <1>1, <1>2, <2>1, ScanSame
  <2>3. scan_stage' = "discretize"
    BY <1>1, <1>6
  <2> QED
    BY <1>1, <1>2, <1>3, <1>4, <1>5, <2>1, <2>2, <2>3
       DEF ScanInv, Scan!None, ZeroState, StateDim, AllChannels, Times
<1>7. CASE ~ chunk_at + chunk < ScanLen
  <2>1. chunk_at + step_at - 1 = ScanLen - 1
    BY <1>1, <1>2, <1>7, ScanLength DEF ScanConstants, Times
  <2>2. (carry = StateOf(channel)[ScanLen - 1])'
    BY <1>1, <1>2, <2>1, ScanSame
  <2>3. scan_stage' = "store"
    BY <1>1, <1>7
  <2> QED
    BY <1>1, <1>2, <1>3, <1>4, <1>5, <2>2, <2>3
       DEF ScanInv, Scan!None, ZeroState, StateDim, AllChannels, Times
<1> QED
  BY <1>6, <1>7

\* The carry of a finished channel is the reference's last state.
LEMMA ScanStore ==
  ASSUME ScanConstants, ScanInv, Scan!Store
  PROVE  ScanInv'
<1>1. /\ scan_stage = "store" /\ carries' = [carries EXCEPT ![channel] = carry]
      /\ channel' = channel + 1 /\ scan_stage' = "load"
      /\ delta' = delta /\ chunk' = chunk /\ scanned' = scanned
  BY DEF Scan!Store
<1>2. /\ chunk \in Nat \ {0} /\ carry = StateOf(channel)[ScanLen - 1]
      /\ channel \in 0 .. Batches * Channels /\ channel < Batches * Channels
      /\ carries = [c \in AllChannels |->
                      IF c < channel THEN StateOf(c)[ScanLen - 1] ELSE ZeroState]
  BY <1>1 DEF ScanInv
<1>3. channel' \in 0 .. Batches * Channels /\ channel \in AllChannels
  BY <1>1, <1>2, ScanCount DEF AllChannels
<1>4. \A c \in AllChannels : c < channel + 1 <=> c < channel \/ c = channel
  BY <1>2, ScanCount DEF AllChannels
<1>5. carries' = [c \in AllChannels |->
                    IF c < channel + 1 THEN StateOf(c)[ScanLen - 1] ELSE ZeroState]
  BY <1>1, <1>2, <1>3, <1>4
<1>6. carries' = [c \in AllChannels |->
                IF c < channel' THEN StateOf(c)'[ScanLen - 1] ELSE ZeroState]
  BY <1>1, <1>5, ScanSame
<1>7. \A c \in AllChannels : \A t \in Times :
        scanned'[c][t] \in {Scan!None, Scan!RefOut(c \div Channels, t, c % Channels)'}
  BY <1>1, ScanSame DEF ScanInv
<1>8. \E f : scanned' = [c \in AllChannels |-> [i \in Times |-> f[c][i]]]
  BY <1>1 DEF ScanInv
<1> QED
  BY <1>1, <1>2, <1>3, <1>6, <1>7, <1>8
     DEF ScanInv, Scan!None, ZeroState, StateDim, AllChannels, Times

\* The chunked scan over the convolved input has the numerics of the reference
\* over the filtered one, for every number of batches, channels, steps, state
\* dimensions and taps, every chunk size and every delta (ssm.hpp:52-53,
\* conv1d.hpp:28-29): the carry crosses the borders of chunks, and the buffers
\* that chunks and channels reuse bring nothing from one to the next.
THEOREM ScanExact == ScanConstants => (Scan!Spec => []Scan!ChunkedMatchesRef)
<1> SUFFICES ASSUME ScanConstants PROVE Scan!Spec => []Scan!ChunkedMatchesRef
  OBVIOUS
<1>1. Scan!Init => ScanInv
  BY ScanInit
<1>2. ScanInv /\ [Scan!Next]_Scan!vars => ScanInv'
  <2> SUFFICES ASSUME ScanInv, [Scan!Next]_Scan!vars PROVE ScanInv'
    OBVIOUS
  <2>1. CASE Scan!Load
    BY <2>1, ScanLoad
  <2>2. CASE Scan!Discretize
    BY <2>2, ScanDiscretize
  <2>3. CASE Scan!Step
    BY <2>3, ScanOneStep
  <2>4. CASE Scan!NextChunk
    BY <2>4, ScanNextChunk
  <2>5. CASE Scan!Store
    BY <2>5, ScanStore
  <2>6. CASE UNCHANGED Scan!vars
    <3>1. /\ delta' = delta /\ chunk' = chunk /\ channel' = channel /\ scan_stage' = scan_stage
          /\ chunk_at' = chunk_at /\ step_at' = step_at /\ carries' = carries /\ carry' = carry
          /\ Abar' = Abar /\ Bbar' = Bbar /\ scanned' = scanned /\ Scan!Length' = Scan!Length
      BY <2>6 DEF Scan!vars, Scan!Length
    <3>2. carries' = [c \in AllChannels |->
                        IF c < channel' THEN StateOf(c)'[ScanLen - 1] ELSE ZeroState]
      BY <3>1, ScanSame DEF ScanInv
    <3>3. \A c \in AllChannels : \A t \in Times :
            scanned'[c][t] \in {Scan!None, Scan!RefOut(c \div Channels, t, c % Channels)'}
      BY <3>1, ScanSame DEF ScanInv
    <3>4. StateOf(channel)' = StateOf(channel)
      BY <3>1, ScanSame
    <3>5. (\A i \in 0 .. Scan!Length - 1 :
             Abar[i] = ARow(channel, chunk_at + i) /\ Bbar[i] = BRow(channel, chunk_at + i))'
          <=> \A i \in 0 .. Scan!Length - 1 :
                Abar[i] = ARow(channel, chunk_at + i) /\ Bbar[i] = BRow(channel, chunk_at + i)
      BY <3>1, ScanSame
    <3> QED
      BY <3>1, <3>2, <3>3, <3>4, <3>5
         DEF ScanInv, Scan!None, ZeroState, StateDim, AllChannels, Times
  <2> QED
    BY <2>1, <2>2, <2>3, <2>4, <2>5, <2>6 DEF Scan!Next
<1>3. ScanInv => Scan!ChunkedMatchesRef
  <2> SUFFICES ASSUME ScanInv, NEW c \in AllChannels
               PROVE  /\ \A t \in Times : scanned[c][t] # Scan!None =>
                           scanned[c][t] = Scan!RefOut(c \div Channels, t, c % Channels)
                      /\ c < channel => carries[c] = StateOf(c)[ScanLen - 1]
    BY Zenon DEF Scan!ChunkedMatchesRef, AllChannels, Times, StateOf
  <2> QED
    BY DEF ScanInv
<1> QED
  BY <1>1, <1>2, <1>3, PTL DEF Scan!Spec
=============================================================================
