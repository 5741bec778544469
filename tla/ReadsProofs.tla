---------------------------- MODULE ReadsProofs ----------------------------
(***************************************************************************)
(* What the reads answer and what the chunks hold, for any users,          *)
(* accounts, rows, ranges, limits and texts: TransactionReads' TotalsAgree *)
(* and ListsAgree, and Chunking's ChunksKeepParagraphs. The operators of   *)
(* both modules fold over sets and sequences; what such a fold computes is *)
(* proved first, by an induction over the subsets of a finite set.         *)
(***************************************************************************)
EXTENDS TransactionReads, Chunking, FiniteSetTheorems, SequenceTheorems, WellFoundedInduction, TLAPS

------------------------------------------------------------------------------
(* Sums over finite sets *)

\* Induction over the natural numbers, for a set of them.
LEMMA NatSet ==
  ASSUME NEW C, 0 \in C, \A k \in Nat : k \in C => k + 1 \in C
  PROVE  Nat \subseteq C
<1> DEFINE Bad == Nat \ C
           Less == {ss \in Nat \X Nat : ss[1] < ss[2]}
<1>1. IsWellFoundedOn(Less, Nat)
  BY NatLessThanWellFounded DEF OpToRel
<1>2. SUFFICES ASSUME Bad # {} PROVE FALSE
  OBVIOUS
<1>3. PICK m \in Bad : \A k \in Bad : ~ <<k, m>> \in Less
  <2>1. Bad \subseteq Nat
    OBVIOUS
  <2> HIDE DEF Bad, Less
  <2>2. QED
    BY <1>1, <1>2, <2>1, WFMin
<1>4. m \in Nat /\ m # 0
  OBVIOUS
<1>5. m - 1 \in Nat /\ <<m - 1, m>> \in Less
  BY <1>4
<1>6. m - 1 \in C
  BY <1>3, <1>5
<1>7. QED
  BY <1>4, <1>5, <1>6

\* C has every subset of S from which removing any one element leads into C.
Inductive(S, C) == \A T \in SUBSET S : (\A x \in T : T \ {x} \in C) => T \in C

\* Induction over the subsets of a finite set, for a set of them.
LEMMA SubsetInduction ==
  ASSUME NEW S, IsFiniteSet(S), NEW C, Inductive(S, C)
  PROVE  SUBSET S \subseteq C
<1> USE DEF Inductive
<1> DEFINE Good == {k \in Nat : \A T \in SUBSET S : Cardinality(T) = k => T \in C}
<1>1. 0 \in Good
  BY FS_Subset, FS_EmptySet
<1>2. \A k \in Nat : k \in Good => k + 1 \in Good
  <2> SUFFICES ASSUME NEW k \in Nat, k \in Good, NEW T \in SUBSET S, Cardinality(T) = k + 1
               PROVE  T \in C
    OBVIOUS
  <2>1. IsFiniteSet(T)
    BY FS_Subset
  <2>2. \A x \in T : Cardinality(T \ {x}) = k
    <3> HIDE DEF Good
    <3>1. \A x \in T : Cardinality(T \ {x}) = Cardinality(T) - 1
      BY <2>1, FS_RemoveElement
    <3>2. QED
      BY <3>1
  <2>3. \A x \in T : T \ {x} \in C
    BY <2>2
  <2>4. QED
    BY <2>3
<1>3. Nat \subseteq Good
  <2> HIDE DEF Good
  <2> QED
    BY <1>1, <1>2, NatSet
<1>4. SUFFICES ASSUME NEW T \in SUBSET S PROVE T \in C
  OBVIOUS
<1>5. Cardinality(T) \in Nat
  BY FS_Subset, FS_CardinalityType
<1>6. QED
  BY <1>3, <1>5

\* A function that picks an element of every nonempty subset.
Picks(pick, S) == \A T \in SUBSET S : T # {} => pick[T] \in T

\* g[T] is computed from what g is without the element picked from T.
Recurs(g, S, base, pick, H) ==
  \A T \in SUBSET S : g[T] = IF T = {} THEN base ELSE H[<<pick[T], g[T \ {pick[T]}]>>]

\* A function on the subsets of a finite set may be defined by removing one element at a time.
LEMMA SetRecursion ==
  ASSUME NEW S, IsFiniteSet(S), NEW B, NEW base \in B,
         NEW pick, Picks(pick, S), NEW H \in [S \X B -> B]
  PROVE  \E g \in [SUBSET S -> B] : Recurs(g, S, base, pick, H)
<1> USE DEF Picks, Recurs
<1> DEFINE Level(k) == {T \in SUBSET S : Cardinality(T) <= k}
           Is(g, k) == \A T \in Level(k) :
                          g[T] = IF T = {} THEN base ELSE H[<<pick[T], g[T \ {pick[T]}]>>]
           Good == {k \in Nat : \E g \in [Level(k) -> B] : Is(g, k)}
<1>0. \A T \in SUBSET S : IsFiniteSet(T) /\ Cardinality(T) \in Nat
  BY FS_Subset, FS_CardinalityType
<1>1. 0 \in Good
  <2>1. \A T \in Level(0) : T = {}
    BY <1>0, FS_EmptySet
  <2> DEFINE g == [T \in Level(0) |-> base]
  <2>2. g \in [Level(0) -> B] /\ Is(g, 0)
    BY <2>1
  <2> QED
    BY <2>2
<1>2. \A k \in Nat : k \in Good => k + 1 \in Good
  <2> SUFFICES ASSUME NEW k \in Nat, k \in Good PROVE k + 1 \in Good
    OBVIOUS
  <2>1. PICK g \in [Level(k) -> B] : Is(g, k)
    OBVIOUS
  <2> DEFINE h == [T \in Level(k + 1) |->
                     IF T \in Level(k) THEN g[T] ELSE H[<<pick[T], g[T \ {pick[T]}]>>]]
  <2>2. \A T \in Level(k + 1) : T # {} => pick[T] \in T /\ T \ {pick[T]} \in Level(k) /\ T \ {pick[T]} \in Level(k + 1)
    <3> SUFFICES ASSUME NEW T \in Level(k + 1), T # {}
                 PROVE  pick[T] \in T /\ T \ {pick[T]} \in Level(k)  /\ T \ {pick[T]} \in Level(k + 1)
      OBVIOUS
    <3>1. Cardinality(T \ {pick[T]}) = Cardinality(T) - 1
      BY <1>0, FS_RemoveElement
    <3>2. QED
      BY <3>1, <1>0
  <2>3. \A T \in Level(k + 1) : T \notin Level(k) => T # {}
    BY <1>0, FS_EmptySet
  <2>4. h \in [Level(k + 1) -> B]
    <3> SUFFICES ASSUME NEW T \in Level(k + 1)
                 PROVE  (IF T \in Level(k) THEN g[T] ELSE H[<<pick[T], g[T \ {pick[T]}]>>]) \in B
      OBVIOUS
    <3>1. CASE T \in Level(k)
      BY <3>1, <2>1
    <3>2. CASE T \notin Level(k)
      <4>1. pick[T] \in S /\ g[T \ {pick[T]}] \in B
        BY <2>2, <2>3, <3>2, <2>1
      <4>2. QED
        BY <4>1, <3>2
    <3>3. QED
      BY <3>1, <3>2
  <2>5. Is(h, k + 1)
    <3> SUFFICES ASSUME NEW T \in Level(k + 1)
                 PROVE  h[T] = IF T = {} THEN base ELSE H[<<pick[T], h[T \ {pick[T]}]>>]
      OBVIOUS
    <3>1. CASE T = {}
      <4>1. {} \in Level(k)
        BY FS_EmptySet
      <4>2. g[{}] = base
        BY <4>1, <2>1
      <4>3. QED
        BY <4>1, <4>2, <3>1
    <3>2. CASE T # {}
      <4>1. h[T \ {pick[T]}] = g[T \ {pick[T]}]
        BY <2>2, <3>2
      <4>2. h[T] = H[<<pick[T], g[T \ {pick[T]}]>>]
        BY <2>1, <3>2
      <4>3. QED
        BY <4>1, <4>2, <3>2
    <3>3. QED
      BY <3>1, <3>2
  <2> HIDE DEF h, Level, Is
  <2>6. QED
    BY <2>4, <2>5
<1>3. Nat \subseteq Good
  <2> HIDE DEF Good
  <2> QED
    BY <1>1, <1>2, NatSet
<1>4. Cardinality(S) \in Good
  BY <1>0, <1>3
<1>5. Level(Cardinality(S)) = SUBSET S
  BY FS_Subset
<1>6. QED
  BY <1>4, <1>5

\* Whole numbers.
Integral(v, S) == \A x \in S : v[x] \in Int

\* s[T] is the sum of v over T, and removing an element takes its value away.
Sums(s, v, S) ==
  /\ \A T \in SUBSET S : SumFunctionOnSet(v, T) = s[T]
  /\ s[{}] = 0
  /\ \A T \in SUBSET S : \A x \in T : s[T] = v[x] + s[T \ {x}]

\* The sums of a function over the subsets of a finite set.
LEMMA SumFold ==
  ASSUME NEW S, IsFiniteSet(S), NEW v, Integral(v, S)
  PROVE  \E s \in [SUBSET S -> Int] : Sums(s, v, S)
<1> USE DEF Integral, Sums
<1> DEFINE pick == [T \in SUBSET S |-> CHOOSE x \in T : TRUE]
           H == [p \in S \X Int |-> v[p[1]] + p[2]]
<1>1. Picks(pick, S)
  BY DEF Picks
<1>2. H \in [S \X Int -> Int]
  OBVIOUS
<1>3. PICK g \in [SUBSET S -> Int] : Recurs(g, S, 0, pick, H)
  <2> HIDE DEF pick, H
  <2>1. 0 \in Int
    OBVIOUS
  <2>2. QED
    BY <1>1, <1>2, <2>1, SetRecursion
<1>4. \A T \in SUBSET S :
        g[T] = IF T = {} THEN 0 ELSE v[CHOOSE x \in T : TRUE] + g[T \ {CHOOSE x \in T : TRUE}]
  <2> SUFFICES ASSUME NEW T \in SUBSET S, T # {}
               PROVE  g[T] = v[CHOOSE x \in T : TRUE] + g[T \ {CHOOSE x \in T : TRUE}]
    BY <1>3 DEF Recurs
  <2>1. pick[T] \in S /\ g[T \ {pick[T]}] \in Int /\ pick[T] = CHOOSE x \in T : TRUE
    BY <1>1 DEF Picks
  <2>2. H[<<pick[T], g[T \ {pick[T]}]>>] = v[pick[T]] + g[T \ {pick[T]}]
    <3> HIDE DEF pick
    <3> QED
      BY <2>1
  <2>3. QED
    BY <1>3, <2>1, <2>2 DEF Recurs
<1>5. \A T \in SUBSET S : SumFunctionOnSet(v, T) = g[T]
  <2> SUFFICES ASSUME NEW T \in SUBSET S PROVE SumFunctionOnSet(v, T) = g[T]
    OBVIOUS
  <2> DEFINE Eq(h) == h = [U \in SUBSET T |->
                             IF U = {} THEN 0
                             ELSE v[CHOOSE x \in U : TRUE] + h[U \ {CHOOSE x \in U : TRUE}]]
             iter == CHOOSE h : Eq(h)
  <2>1. SumFunctionOnSet(v, T) = iter[T]
    BY DEF SumFunctionOnSet, FoldFunctionOnSet, MapThenFoldSet
  <2>2. Eq([U \in SUBSET T |-> g[U]])
    BY <1>4
  <2>3. Eq(iter)
    <3> HIDE DEF Eq
    <3> QED
      BY <2>2
  <2> HIDE DEF iter
  <2> DEFINE C == {U \in SUBSET T : iter[U] = g[U]}
  <2>4. Inductive(T, C)
    <3> SUFFICES ASSUME NEW U \in SUBSET T, \A x \in U : U \ {x} \in C
                 PROVE  iter[U] = g[U]
      BY DEF Inductive
    <3>1. CASE U = {}
      BY <2>3, <1>4, <3>1
    <3>2. CASE U # {}
      <4>1. PICK p : p = CHOOSE x \in U : TRUE
        OBVIOUS
      <4>2. p \in U
        BY <4>1, <3>2
      <4>3. iter[U \ {p}] = g[U \ {p}]
        BY <4>2
      <4>4. iter[U] = v[p] + iter[U \ {p}]
        BY <2>3, <3>2, <4>1
      <4>5. g[U] = v[p] + g[U \ {p}]
        BY <1>4, <3>2, <4>1
      <4>6. QED
        BY <4>3, <4>4, <4>5
    <3>3. QED
      BY <3>1, <3>2
  <2>5. IsFiniteSet(T)
    BY FS_Subset
  <2>6. SUBSET T \subseteq C
    <3> HIDE DEF C
    <3> QED
      BY <2>4, <2>5, SubsetInduction
  <2>7. QED
    BY <2>1, <2>6
<1>6. g[{}] = 0
  BY <1>4
<1>7. \A T \in SUBSET S : \A x \in T : g[T] = v[x] + g[T \ {x}]
  <2> DEFINE C == {T \in SUBSET S : \A x \in T : g[T] = v[x] + g[T \ {x}]}
  <2>1. Inductive(S, C)
    <3> SUFFICES ASSUME NEW T \in SUBSET S, \A x \in T : T \ {x} \in C, NEW x \in T
                 PROVE  g[T] = v[x] + g[T \ {x}]
      BY DEF Inductive
    <3>1. PICK p \in T : g[T] = v[p] + g[T \ {p}]
      <4> DEFINE p == CHOOSE p \in T : TRUE
      <4>1. p \in T /\ T # {}
        OBVIOUS
      <4>2. g[T] = v[p] + g[T \ {p}]
        BY <1>4, <4>1
      <4>3. QED
        BY <4>1, <4>2
    <3>2. CASE p = x
      BY <3>1, <3>2
    <3>3. CASE p # x
      <4>1. g[T \ {p}] = v[x] + g[(T \ {p}) \ {x}]
        BY <3>3
      <4>2. g[T \ {x}] = v[p] + g[(T \ {x}) \ {p}]
        BY <3>3
      <4>3. (T \ {x}) \ {p} = (T \ {p}) \ {x}
        OBVIOUS
      <4>4. PICK a \in Int, b \in Int, c \in Int : a = v[x] /\ b = v[p] /\ c = g[(T \ {p}) \ {x}]
        OBVIOUS
      <4>5. g[T \ {p}] = a + c /\ g[T \ {x}] = b + c /\ g[T] = b + (a + c)
        BY <3>1, <4>1, <4>2, <4>3, <4>4
      <4>6. QED
        BY <4>4, <4>5
    <3>4. QED
      BY <3>2, <3>3
  <2>2. SUBSET S \subseteq C
    <3> HIDE DEF C
    <3> QED
      BY <2>1, SubsetInduction
  <2>3. QED
    BY <2>2
<1>8. QED
  BY <1>5, <1>6, <1>7

\* Adding up over a finite set.
LEMMA SumType ==
  ASSUME NEW S, IsFiniteSet(S), NEW v, Integral(v, S)
  PROVE  SumFunctionOnSet(v, S) \in Int
<1>1. PICK s \in [SUBSET S -> Int] : Sums(s, v, S)
  BY SumFold
<1>2. QED
  BY <1>1 DEF Sums

\* Nothing adds up to 0.
LEMMA SumEmpty ==
  ASSUME NEW v
  PROVE  SumFunctionOnSet(v, {}) = 0
<1>1. IsFiniteSet({}) /\ Integral(v, {})
  BY FS_EmptySet DEF Integral
<1>2. PICK s \in [SUBSET {} -> Int] : Sums(s, v, {})
  BY <1>1, SumFold
<1>3. QED
  BY <1>2 DEF Sums

\* One element less.
LEMMA SumRemove ==
  ASSUME NEW S, IsFiniteSet(S), NEW v, Integral(v, S), NEW x \in S
  PROVE  /\ SumFunctionOnSet(v, S \ {x}) \in Int
         /\ SumFunctionOnSet(v, S) = v[x] + SumFunctionOnSet(v, S \ {x})
<1>1. PICK s \in [SUBSET S -> Int] : Sums(s, v, S)
  BY SumFold
<1> USE DEF Integral, Sums
<1>2. S \in SUBSET S /\ S \ {x} \in SUBSET S
  OBVIOUS
<1>3. QED
  BY <1>1, <1>2

\* Functions that agree on a set have the same sum over it.
LEMMA SumSame ==
  ASSUME NEW S, IsFiniteSet(S), NEW v, Integral(v, S), NEW w, \A x \in S : w[x] = v[x]
  PROVE  SumFunctionOnSet(w, S) = SumFunctionOnSet(v, S)
<1> DEFINE C == {T \in SUBSET S : SumFunctionOnSet(w, T) = SumFunctionOnSet(v, T)}
<1>1. Inductive(S, C)
  <2> SUFFICES ASSUME NEW T \in SUBSET S, \A x \in T : T \ {x} \in C
               PROVE  SumFunctionOnSet(w, T) = SumFunctionOnSet(v, T)
    BY DEF Inductive
  <2>1. CASE T = {}
    BY <2>1, SumEmpty
  <2>2. CASE T # {}
    <3>1. PICK x \in T : TRUE
      BY <2>2
    <3>2. IsFiniteSet(T) /\ Integral(v, T) /\ Integral(w, T)
      BY FS_Subset DEF Integral
    <3>3. SumFunctionOnSet(v, T) = v[x] + SumFunctionOnSet(v, T \ {x})
      BY <3>2, SumRemove
    <3>4. SumFunctionOnSet(w, T) = w[x] + SumFunctionOnSet(w, T \ {x})
      BY <3>2, SumRemove
    <3>5. SumFunctionOnSet(w, T \ {x}) = SumFunctionOnSet(v, T \ {x}) /\ w[x] = v[x]
      OBVIOUS
    <3>6. QED
      BY <3>3, <3>4, <3>5
  <2>3. QED
    BY <2>1, <2>2
<1>2. SUBSET S \subseteq C
  <2> HIDE DEF C
  <2> QED
    BY <1>1, SubsetInduction
<1>3. QED
  BY <1>2

\* The sum over two sets that share nothing.
LEMMA SumUnion ==
  ASSUME NEW S, IsFiniteSet(S), NEW v, Integral(v, S),
         NEW U \in SUBSET S
  PROVE  /\ SumFunctionOnSet(v, U) \in Int /\ SumFunctionOnSet(v, S \ U) \in Int
         /\ SumFunctionOnSet(v, S) = SumFunctionOnSet(v, U) + SumFunctionOnSet(v, S \ U)
<1>1. PICK s \in [SUBSET S -> Int] : Sums(s, v, S)
  BY SumFold
<1> USE DEF Integral, Sums
<1> DEFINE C == {T \in SUBSET S : s[T] = s[T \cap U] + s[T \ U]}
<1>2. Inductive(S, C)
  <2> SUFFICES ASSUME NEW T \in SUBSET S, \A x \in T : T \ {x} \in C
               PROVE  s[T] = s[T \cap U] + s[T \ U]
    BY DEF Inductive
  <2>1. CASE T = {}
    <3>1. T \cap U = {} /\ T \ U = {}
      BY <2>1
    <3>2. QED
      BY <1>1, <2>1, <3>1
  <2>2. CASE T # {}
    <3>1. PICK x \in T : TRUE
      BY <2>2
    <3> DEFINE R == T \ {x}
    <3>2. s[T] = v[x] + s[R]
      BY <1>1
    <3>3. s[R] = s[R \cap U] + s[R \ U]
      OBVIOUS
    <3>4. v[x] \in Int /\ s[R \cap U] \in Int /\ s[R \ U] \in Int
      OBVIOUS
    <3>5. CASE x \in U
      <4>1. s[T \cap U] = v[x] + s[(T \cap U) \ {x}]
        BY <1>1, <3>5
      <4>2. (T \cap U) \ {x} = R \cap U /\ T \ U = R \ U
        BY <3>5
      <4> HIDE DEF R
      <4>3. s[T \cap U] = v[x] + s[R \cap U] /\ s[T \ U] = s[R \ U]
        BY <4>1, <4>2
      <4>4. QED
        BY <3>2, <3>3, <3>4, <4>3
    <3>6. CASE x \notin U
      <4>1. s[T \ U] = v[x] + s[(T \ U) \ {x}]
        BY <1>1, <3>6
      <4>2. (T \ U) \ {x} = R \ U /\ T \cap U = R \cap U
        BY <3>6
      <4> HIDE DEF R
      <4>3. s[T \ U] = v[x] + s[R \ U] /\ s[T \cap U] = s[R \cap U]
        BY <4>1, <4>2
      <4>4. QED
        BY <3>2, <3>3, <3>4, <4>3
    <3>7. QED
      BY <3>5, <3>6
  <2>3. QED
    BY <2>1, <2>2
<1>3. SUBSET S \subseteq C
  <2> HIDE DEF C
  <2> QED
    BY <1>2, SubsetInduction
<1>4. s[S] = s[S \cap U] + s[S \ U] /\ S \cap U = U
  BY <1>3
<1>5. S \in SUBSET S /\ U \in SUBSET S /\ S \ U \in SUBSET S
  OBVIOUS
<1>6. SumFunctionOnSet(v, S) = s[S] /\ SumFunctionOnSet(v, U) = s[U] /\ SumFunctionOnSet(v, S \ U) = s[S \ U]
  BY <1>1, <1>5
<1>7. s[U] \in Int /\ s[S \ U] \in Int
  BY <1>5
<1>8. QED
  BY <1>4, <1>6, <1>7

\* Adding up the sums of the parts.
LEMMA SumParts ==
  ASSUME NEW S, IsFiniteSet(S), NEW v, Integral(v, S),
         NEW G, IsFiniteSet(G), NEW part \in [G -> SUBSET S],
         \A g, h \in G : g # h => part[g] \cap part[h] = {},
         \A x \in S : \E g \in G : x \in part[g],
         NEW w, \A g \in G : w[g] = SumFunctionOnSet(v, part[g])
  PROVE  /\ Integral(w, G)
         /\ SumFunctionOnSet(w, G) = SumFunctionOnSet(v, S)
<1> DEFINE All(F) == {x \in S : \E g \in F : x \in part[g]}
           C == {F \in SUBSET G : SumFunctionOnSet(w, F) = SumFunctionOnSet(v, All(F))}
<1>0. \A T \in SUBSET S : IsFiniteSet(T) /\ Integral(v, T)
  BY FS_Subset DEF Integral
<1>1. Integral(w, G)
  BY <1>0, SumType DEF Integral
<1>2. Inductive(G, C)
  <2> SUFFICES ASSUME NEW F \in SUBSET G, \A g \in F : F \ {g} \in C
               PROVE  SumFunctionOnSet(w, F) = SumFunctionOnSet(v, All(F))
    BY DEF Inductive
  <2>1. CASE F = {}
    <3>1. All(F) = {}
      BY <2>1
    <3>2. QED
      BY <2>1, <3>1, SumEmpty
  <2>2. CASE F # {}
    <3>1. PICK g \in F : TRUE
      BY <2>2
    <3>2. IsFiniteSet(F) /\ Integral(w, F)
      BY <1>1, FS_Subset DEF Integral
    <3>3. SumFunctionOnSet(w, F) = w[g] + SumFunctionOnSet(w, F \ {g})
      BY <3>2, SumRemove
    <3>4. SumFunctionOnSet(w, F \ {g}) = SumFunctionOnSet(v, All(F \ {g}))
      OBVIOUS
    <3>5. All(F \ {g}) = All(F) \ part[g] /\ part[g] \in SUBSET All(F)
      OBVIOUS
    <3>6. IsFiniteSet(All(F)) /\ Integral(v, All(F))
      BY <1>0
    <3> HIDE DEF All
    <3>7. SumFunctionOnSet(v, All(F))
            = SumFunctionOnSet(v, part[g]) + SumFunctionOnSet(v, All(F) \ part[g])
      BY <3>5, <3>6, SumUnion
    <3>8. QED
      BY <3>3, <3>4, <3>5, <3>7
  <2>3. QED
    BY <2>1, <2>2
<1>3. SUBSET G \subseteq C
  <2> HIDE DEF C
  <2> QED
    BY <1>2, SubsetInduction
<1>4. All(G) = S
  OBVIOUS
<1>5. QED
  BY <1>1, <1>3, <1>4

\* Adding up ones counts.
LEMMA SumOnes ==
  ASSUME NEW S, IsFiniteSet(S), NEW v, \A x \in S : v[x] = 1
  PROVE  SumFunctionOnSet(v, S) = Cardinality(S)
<1> DEFINE C == {T \in SUBSET S : SumFunctionOnSet(v, T) = Cardinality(T)}
<1>1. Inductive(S, C)
  <2> SUFFICES ASSUME NEW T \in SUBSET S, \A x \in T : T \ {x} \in C
               PROVE  SumFunctionOnSet(v, T) = Cardinality(T)
    BY DEF Inductive
  <2>1. CASE T = {}
    BY <2>1, SumEmpty, FS_EmptySet
  <2>2. CASE T # {}
    <3>1. PICK x \in T : TRUE
      BY <2>2
    <3>2. IsFiniteSet(T) /\ Integral(v, T)
      BY FS_Subset DEF Integral
    <3>3. SumFunctionOnSet(v, T) = v[x] + SumFunctionOnSet(v, T \ {x})
      BY <3>2, SumRemove
    <3>4. SumFunctionOnSet(v, T \ {x}) = Cardinality(T \ {x}) /\ v[x] = 1
      OBVIOUS
    <3>5. Cardinality(T \ {x}) = Cardinality(T) - 1 /\ Cardinality(T) \in Nat
      BY <3>2, FS_RemoveElement, FS_CardinalityType
    <3> HIDE DEF C
    <3>6. QED
      BY <3>3, <3>4, <3>5
  <2>3. QED
    BY <2>1, <2>2
<1>2. SUBSET S \subseteq C
  <2> HIDE DEF C
  <2> QED
    BY <1>1, SubsetInduction
<1>3. QED
  BY <1>2

\* Multiples of ten within five of the values add up to one within five for each.
LEMMA SumRounded ==
  ASSUME NEW S, IsFiniteSet(S), NEW v, Integral(v, S),
         NEW w, \A x \in S : \E k \in Int : w[x] = 10 * k /\ w[x] - v[x] \in -5..5
  PROVE  \E k \in Int :
            /\ SumFunctionOnSet(w, S) = 10 * k
            /\ 10 * k - SumFunctionOnSet(v, S) \in (-5 * Cardinality(S))..(5 * Cardinality(S))
<1> DEFINE Near(T) ==
             \E k \in Int :
                /\ SumFunctionOnSet(w, T) = 10 * k
                /\ 10 * k - SumFunctionOnSet(v, T) \in (-5 * Cardinality(T))..(5 * Cardinality(T))
           C == {T \in SUBSET S : Near(T)}
<1>1. Inductive(S, C)
  <2> SUFFICES ASSUME NEW T \in SUBSET S, \A x \in T : T \ {x} \in C
               PROVE  Near(T)
    BY DEF Inductive
  <2>1. CASE T = {}
    <3>1. SumFunctionOnSet(w, T) = 10 * 0 /\ SumFunctionOnSet(v, T) = 0 /\ Cardinality(T) = 0
      BY <2>1, SumEmpty, FS_EmptySet
    <3>2. QED
      BY <3>1
  <2>2. CASE T # {}
    <3>1. PICK x \in T : TRUE
      BY <2>2
    <3>2. IsFiniteSet(T) /\ Integral(v, T) /\ Integral(w, T)
      BY FS_Subset DEF Integral
    <3>3. SumFunctionOnSet(v, T) = v[x] + SumFunctionOnSet(v, T \ {x})
          /\ SumFunctionOnSet(v, T \ {x}) \in Int
      BY <3>2, SumRemove
    <3>4. SumFunctionOnSet(w, T) = w[x] + SumFunctionOnSet(w, T \ {x})
      BY <3>2, SumRemove
    <3>5. Cardinality(T \ {x}) = Cardinality(T) - 1 /\ Cardinality(T) \in Nat
      BY <3>2, FS_RemoveElement, FS_CardinalityType
    <3>6. PICK k \in Int : w[x] = 10 * k /\ w[x] - v[x] \in -5..5
      OBVIOUS
    <3>7. Near(T \ {x})
      OBVIOUS
    <3>8. PICK l \in Int :
                /\ SumFunctionOnSet(w, T \ {x}) = 10 * l
                /\ 10 * l - SumFunctionOnSet(v, T \ {x})
                      \in (-5 * (Cardinality(T) - 1))..(5 * (Cardinality(T) - 1))
      BY <3>5, <3>7
    <3>9. v[x] \in Int
      BY <3>2 DEF Integral
    <3>10. /\ k + l \in Int
           /\ SumFunctionOnSet(w, T) = 10 * (k + l)
           /\ 10 * (k + l) - SumFunctionOnSet(v, T) \in (-5 * Cardinality(T))..(5 * Cardinality(T))
      <4> HIDE DEF C, Near
      <4> QED
        BY <3>3, <3>4, <3>5, <3>6, <3>8, <3>9
    <3>11. QED
      BY <3>10
  <2>3. QED
    BY <2>1, <2>2
<1>2. SUBSET S \subseteq C
  <2> HIDE DEF C
  <2> QED
    BY <1>1, SubsetInduction
<1>3. QED
  BY <1>2
------------------------------------------------------------------------------
(* What every write keeps *)

\* What a query may rely on: whole rows, of finitely many, each of an account and
\* a category of its user that are still there.
ReadsInv ==
  /\ rows \in [DOMAIN rows -> Row] /\ IsFiniteSet(DOMAIN rows)
  /\ initialBalance \in [accounts -> Int] /\ IsFiniteSet(accounts) /\ accounts \subseteq Accounts
  /\ \A i \in DOMAIN rows : Owned(rows[i])

\* No row and no account to start with.
LEMMA ReadsStart == ReadsInit => ReadsInv
BY FS_EmptySet DEF ReadsInit, ReadsInv, Empty, accounts

\* Whatever changes the rows or the accounts keeps it.
LEMMA ReadsStep ==
  ASSUME ReadsInv, ReadsNext
  PROVE  ReadsInv'
<1> USE ReadsAssumption DEF ReadsInv, accounts
<1>1. CASE CreateRow
  <2>1. PICK i \in Transactions \ DOMAIN rows, r \in Row :
          Owned(r) /\ rows' = With(rows, i, r) /\ UNCHANGED <<initialBalance, categories>>
    BY <1>1 DEF CreateRow
  <2>2. DOMAIN rows' = DOMAIN rows \cup {i} /\ rows' \in [DOMAIN rows' -> Row]
    BY <2>1 DEF With
  <2>3. rows'[i] = r /\ \A j \in DOMAIN rows : j # i => rows'[j] = rows[j]
    BY <2>1 DEF With
  <2>4. IsFiniteSet(DOMAIN rows \cup {i})
    BY FS_AddElement
  <2>5. \A j \in DOMAIN rows' : Owned(rows[j])'
    BY <2>1, <2>2, <2>3 DEF Owned
  <2>6. QED
    BY <2>1, <2>2, <2>4, <2>5
<1>2. CASE UpdateRow
  BY <1>2 DEF UpdateRow, Owned
<1>3. CASE DeleteRow
  <2>1. PICK i \in DOMAIN rows :
          rows' = Restrict(rows, DOMAIN rows \ {i}) /\ UNCHANGED <<initialBalance, categories>>
    BY <1>3 DEF DeleteRow
  <2>2. IsFiniteSet(DOMAIN rows \ {i})
    BY FS_RemoveElement
  <2>3. QED
    BY <2>1, <2>2 DEF Restrict, Owned
<1>4. CASE CreateBankAccount
  <2>1. PICK a \in Accounts \ accounts, b \in Balances :
          initialBalance' = With(initialBalance, a, b) /\ UNCHANGED <<rows, categories>>
    BY <1>4 DEF CreateBankAccount
  <2>2. DOMAIN initialBalance' = accounts \cup {a} /\ initialBalance' \in [DOMAIN initialBalance' -> Int]
    BY <2>1 DEF With
  <2>3. IsFiniteSet(accounts \cup {a})
    BY FS_AddElement
  <2>4. QED
    BY <2>1, <2>2, <2>3 DEF Owned
<1>5. CASE UpdateBankAccount
  BY <1>5 DEF UpdateBankAccount, Owned
<1>6. CASE DeleteBankAccount
  <2>1. PICK a \in accounts :
          /\ initialBalance' = Restrict(initialBalance, accounts \ {a})
          /\ rows' = Restrict(rows, {i \in DOMAIN rows : rows[i].account # a})
          /\ UNCHANGED categories
    BY <1>6 DEF DeleteBankAccount
  <2>2. IsFiniteSet(accounts \ {a}) /\ IsFiniteSet({i \in DOMAIN rows : rows[i].account # a})
    BY FS_RemoveElement, FS_Subset
  <2>3. QED
    BY <2>1, <2>2 DEF Restrict, Owned
<1>7. CASE CreateCategory
  BY <1>7 DEF CreateCategory, Owned
<1>8. CASE DeleteCategory
  <2>1. PICK c \in categories :
          /\ categories' = categories \ {c}
          /\ rows' = [i \in DOMAIN rows |->
                       IF rows[i].category = c THEN [rows[i] EXCEPT !.category = None] ELSE rows[i]]
          /\ UNCHANGED initialBalance
    BY <1>8 DEF DeleteCategory
  <2>2. \A i \in DOMAIN rows : rows'[i] \in Row
    BY <2>1 DEF Row
  <2>3. \A i \in DOMAIN rows : Owned(rows[i])'
    BY <2>1 DEF Owned, Row
  <2>4. QED
    BY <2>1, <2>2, <2>3
<1>9. QED
  BY <1>1, <1>2, <1>3, <1>4, <1>5, <1>6, <1>7, <1>8, ReadsNext DEF ReadsNext

\* ReadsInv always holds.
LEMMA ReadsInvariant == ReadsSpec => []ReadsInv
<1>1. ReadsInv /\ UNCHANGED readVars => ReadsInv'
  BY DEF ReadsInv, readVars, accounts, Owned
<1>2. QED
  BY ReadsStart, ReadsStep, <1>1, PTL DEF ReadsSpec

------------------------------------------------------------------------------
(* Days, rows and groups *)

\* Rounding down to a multiple, and multiples keep their order.
LEMMA Quotient ==
  ASSUME NEW n \in Nat, NEW d \in Nat \ {0}
  PROVE  /\ n \div d \in Nat
         /\ (n \div d) * d <= n /\ n < (n \div d) * d + d
<1>1. n \div d \in Int
  OBVIOUS
<1>2. n = d * (n \div d) + (n % d) /\ n % d \in 0..(d - 1)
  OBVIOUS
<1>3. n \div d >= 0
  BY <1>2
<1>4. QED
  BY <1>1, <1>2, <1>3

LEMMA Steps ==
  ASSUME NEW a \in Int, NEW b \in Int, NEW d \in Nat, a <= b
  PROVE  a * d <= b * d
<1>1. PICK c \in Nat : b = a + c
  OBVIOUS
<1>2. c * d \in Nat
  OBVIOUS
<1>3. b * d = a * d + c * d
  BY <1>1
<1>4. a * d \in Int
  OBVIOUS
<1>5. QED
  BY <1>2, <1>3, <1>4

\* A range of instants that ends with its last day has whole days.
LEMMA WholeDays ==
  ASSUME NEW t \in Nat, NEW d \in Nat \ {0}, NEW a \in Nat, NEW b \in Nat
  PROVE  (a * d <= t /\ t <= b * d + d - 1) <=> (t \div d) * d \in (a * d)..(b * d)
<1>1. PICK q \in Nat : q = t \div d /\ q * d <= t /\ t < q * d + d
  BY Quotient
<1>2. a * d \in Nat /\ b * d \in Nat /\ q * d \in Nat
  OBVIOUS
<1>3. a * d <= t => a * d <= q * d
  <2> SUFFICES ASSUME a * d <= t PROVE a <= q
    BY Steps
  <2>1. (q + 1) * d = q * d + d
    OBVIOUS
  <2>2. q + 1 <= a => (q + 1) * d <= a * d
    BY Steps
  <2>3. ~ q + 1 <= a
    BY <1>1, <1>2, <2>1, <2>2
  <2>4. QED
    BY <2>3
<1>4. t <= b * d + d - 1 => q * d <= b * d
  <2> SUFFICES ASSUME t <= b * d + d - 1 PROVE q <= b
    BY Steps
  <2>1. (b + 1) * d = b * d + d
    OBVIOUS
  <2>2. b + 1 <= q => (b + 1) * d <= q * d
    BY Steps
  <2>3. ~ b + 1 <= q
    BY <1>1, <1>2, <2>1, <2>2
  <2>4. QED
    BY <2>3
<1>5. QED
  BY <1>1, <1>2, <1>3, <1>4

\* What is known of one row.
LEMMA RowType ==
  ASSUME ReadsInv, NEW i \in DOMAIN rows
  PROVE  /\ rows[i] \in Row /\ rows[i].date \in Nat /\ rows[i].value \in Nat
         /\ rows[i].type \in Type /\ rows[i].userId \in Users
BY ReadsAssumption DEF ReadsInv, Row, Instants

\* The filter of the assistant's reads takes the rows of the days asked for.
LEMMA ReadsWanted ==
  ASSUME ReadsInv, NEW u \in Users, NEW f, f.from \in isoDate, f.to \in isoDate
  PROVE  readWhere(u, f) = Wanted(u, f)
<1>1. PICK a \in Nat, b \in Nat : f.from = a * DayLength /\ f.to = b * DayLength
  BY ReadsAssumption DEF isoDate, startOfDay, Days
<1>2. DayLength \in Nat \ {0}
  BY ReadsAssumption
<1>3. ASSUME NEW i \in DOMAIN rows
      PROVE  (f.from <= rows[i].date /\ rows[i].date <= endOfDay(f.to))
                <=> startOfDay(rows[i].date \div DayLength) \in f.from..f.to
  <2>1. rows[i].date \in Nat
    BY RowType
  <2>2. QED
    BY <1>1, <1>2, <2>1, WholeDays DEF endOfDay, startOfDay
<1>4. QED
  BY <1>3 DEF readWhere, Wanted, Passes

\* round2 is off by half a cent at most, and leaves whole cents alone.
LEMMA Rounding ==
  ASSUME NEW n \in Int
  PROVE  /\ \E k \in Int : round2(n) = 10 * k /\ round2(n) - n \in -5..5
         /\ \A k \in Int : n = 10 * k => round2(n) = n
BY DEF round2

\* Rows whose values are natural numbers.
NaturalValues(S) == \A i \in S : rows[i].value \in Nat

\* Each group of G is the count and the rounded sum of its part of S.
GroupsOf(G, part, S) ==
  /\ part \in [G -> SUBSET S]
  /\ \A g, h \in G : g # h => part[g] \cap part[h] = {}
  /\ \A i \in S : \E g \in G : i \in part[g]
  /\ \A g \in G : g.count = Cardinality(part[g]) /\ g.total = round2(ValueOf(part[g]))

\* Groups that count a set of rows, and whose total is off by half a cent each at
\* most.
AddsUp(G, S) ==
  /\ SumFunction([g \in G |-> g.count]) = Cardinality(S)
  /\ round2(SumFunction([g \in G |-> g.total])) - ValueOf(S)
        \in (-5 * Cardinality(G))..(5 * Cardinality(G))

\* The parts of a read, each with its count and its rounded sum, cover the read.
LEMMA GroupsAddUp ==
  ASSUME NEW S, IsFiniteSet(S), NaturalValues(S),
         NEW G, IsFiniteSet(G), NEW part, GroupsOf(G, part, S)
  PROVE  AddsUp(G, S)
<1> USE DEF NaturalValues, GroupsOf, AddsUp
<1> DEFINE v == [i \in S |-> rows[i].value]
           one == [i \in S |-> 1]
           count == [g \in G |-> g.count]
           total == [g \in G |-> g.total]
           exact == [g \in G |-> SumFunctionOnSet(v, part[g])]
<1>1. Integral(v, S) /\ Integral(one, S)
  BY DEF Integral
<1>2. \A T \in SUBSET S : IsFiniteSet(T)
  BY FS_Subset
<1>3. \A T \in SUBSET S : ValueOf(T) = SumFunctionOnSet(v, T)
  <2> SUFFICES ASSUME NEW T \in SUBSET S PROVE ValueOf(T) = SumFunctionOnSet(v, T)
    OBVIOUS
  <2> DEFINE w == [i \in T |-> rows[i].value]
  <2>1. Integral(v, T) /\ \A i \in T : w[i] = v[i]
    BY DEF Integral
  <2>2. ValueOf(T) = SumFunctionOnSet(w, T)
    BY DEF ValueOf, SumFunction
  <2> HIDE DEF w, v
  <2>3. QED
    BY <1>2, <2>1, <2>2, SumSame
<1>4. SumFunction(count) = Cardinality(S)
  <2>1. \A T \in SUBSET S : SumFunctionOnSet(one, T) = Cardinality(T)
    <3>1. \A T \in SUBSET S : \A i \in T : one[i] = 1
      OBVIOUS
    <3> HIDE DEF one
    <3>2. QED
      BY <1>2, <3>1, SumOnes
  <2>2. \A g \in G : count[g] = SumFunctionOnSet(one, part[g])
    BY <2>1
  <2>3. SumFunction(count) = SumFunctionOnSet(count, G)
    BY DEF SumFunction
  <2> HIDE DEF one, count
  <2>4. SumFunctionOnSet(count, G) = SumFunctionOnSet(one, S)
    BY <1>1, <2>2, SumParts
  <2>5. QED
    BY <2>1, <2>3, <2>4
<1>5. /\ Integral(exact, G)
      /\ SumFunctionOnSet(exact, G) = SumFunctionOnSet(v, S)
  <2>1. \A g \in G : exact[g] = SumFunctionOnSet(v, part[g])
    OBVIOUS
  <2> HIDE DEF exact, v
  <2>2. QED
    BY <1>1, <2>1, SumParts
<1>6. \A g \in G : \E k \in Int : total[g] = 10 * k /\ total[g] - exact[g] \in -5..5
  <2> SUFFICES ASSUME NEW g \in G
               PROVE  \E k \in Int : total[g] = 10 * k /\ total[g] - exact[g] \in -5..5
    OBVIOUS
  <2>1. total[g] = round2(exact[g]) /\ exact[g] \in Int
    BY <1>3, <1>5 DEF Integral
  <2> HIDE DEF total, exact
  <2>2. QED
    BY <2>1, Rounding
<1>7. PICK k \in Int :
         /\ SumFunctionOnSet(total, G) = 10 * k
         /\ 10 * k - SumFunctionOnSet(exact, G) \in (-5 * Cardinality(G))..(5 * Cardinality(G))
  <2> HIDE DEF total, exact
  <2> QED
    BY <1>5, <1>6, SumRounded
<1>8. SumFunction(total) = 10 * k /\ ValueOf(S) = SumFunctionOnSet(exact, G)
  BY <1>3, <1>5, <1>7 DEF SumFunction
<1>9. round2(10 * k) = 10 * k
  <2>1. PICK n \in Int : n = 10 * k
    OBVIOUS
  <2>2. round2(n) = n
    BY <2>1, Rounding
  <2>3. QED
    BY <2>1, <2>2
<1>10. QED
  BY <1>4, <1>7, <1>8, <1>9

\* The groups that the rows of a set make by a key.
GroupedBy(key, S) == {Group(k, {i \in S : key[i] = k}) : k \in Range(key)}

\* Rows grouped by a key.
LEMMA KeyedGroups ==
  ASSUME NEW S, IsFiniteSet(S), NaturalValues(S), NEW key, DOMAIN key = S
  PROVE  AddsUp(GroupedBy(key, S), S)
<1> DEFINE G == GroupedBy(key, S)
<1> USE DEF GroupedBy
<1> DEFINE part == [g \in G |-> {i \in S : key[i] = g.key}]
           group == [i \in S |-> Group(key[i], {j \in S : key[j] = key[i]})]
<1>1. IsFiniteSet(G)
  <2>1. group \in [S -> G]
    <3>1. \A i \in S : key[i] \in Range(key)
      BY DEF Range
    <3>2. \A i \in S : group[i] \in G
      BY <3>1
    <3>3. QED
      BY <3>2
  <2>2. \A g \in G : \E i \in S : group[i] = g
    BY DEF Range
  <2>3. group \in Surjection(S, G)
    BY <2>1, <2>2 DEF Surjection
  <2> HIDE DEF group, G
  <2>4. QED
    BY <2>3, FS_Surjection
<1>2. part \in [G -> SUBSET S]
  OBVIOUS
<1>3. \A g \in G : \E k \in Range(key) : g = Group(k, {i \in S : key[i] = k})
  OBVIOUS
<1>4. \A g \in G : /\ g = Group(g.key, part[g])
                   /\ g.count = Cardinality(part[g]) /\ g.total = round2(ValueOf(part[g]))
  <2> SUFFICES ASSUME NEW g \in G
               PROVE  /\ g = Group(g.key, part[g])
                      /\ g.count = Cardinality(part[g]) /\ g.total = round2(ValueOf(part[g]))
    OBVIOUS
  <2>1. PICK k \in Range(key) : g = Group(k, {i \in S : key[i] = k})
    BY <1>3
  <2>2. g.key = k
    BY <2>1 DEF Group
  <2>3. part[g] = {i \in S : key[i] = k}
    BY <2>2
  <2>4. QED
    BY <2>1, <2>2, <2>3 DEF Group
<1>5. \A g, h \in G : g # h => part[g] \cap part[h] = {}
  <2> SUFFICES ASSUME NEW g \in G, NEW h \in G, NEW i \in S, i \in part[g], i \in part[h]
               PROVE  g = h
    BY <1>2
  <2>1. g.key = h.key /\ part[g] = part[h]
    OBVIOUS
  <2>2. QED
    BY <1>4, <2>1
<1>6. \A i \in S : \E g \in G : i \in part[g]
  <2> SUFFICES ASSUME NEW i \in S PROVE group[i] \in G /\ i \in part[group[i]]
    OBVIOUS
  <2>1. key[i] \in Range(key) /\ group[i].key = key[i]
    BY DEF Range, Group
  <2>2. group[i] \in G
    BY <2>1
  <2>3. QED
    BY <2>1, <2>2
<1>7. GroupsOf(G, part, S)
  BY <1>2, <1>4, <1>5, <1>6 DEF GroupsOf
<1> HIDE DEF part, G
<1>8. AddsUp(G, S)
  BY <1>1, <1>7, GroupsAddUp
<1>9. QED
  BY <1>8 DEF G

\* A read takes finitely many rows.
LEMMA ReadIsFinite ==
  ASSUME ReadsInv, NEW u \in Users, NEW f
  PROVE  IsFiniteSet(readWhere(u, f)) /\ NaturalValues(readWhere(u, f))
<1>1. readWhere(u, f) \in SUBSET DOMAIN rows
  BY DEF readWhere
<1>2. IsFiniteSet(DOMAIN rows)
  BY DEF ReadsInv
<1>3. QED
  BY <1>1, <1>2, RowType, FS_Subset DEF NaturalValues

\* So the totals add up, whatever they are grouped by.
LEMMA TotalsAddUp ==
  ASSUME NEW u, NEW f, NEW groupBy \in {"none", "category", "month"},
         IsFiniteSet(readWhere(u, f)), NaturalValues(readWhere(u, f))
  PROVE  AddsUp(totals(u, f, groupBy), readWhere(u, f))
<1> DEFINE S == readWhere(u, f)
<1>1. CASE groupBy = "none"
  <2> DEFINE G == {Group("all", S)}
             part == [g \in G |-> S]
  <2>1. totals(u, f, groupBy) = G
    BY <1>1 DEF totals
  <2>2. IsFiniteSet(G)
    BY FS_Singleton
  <2>3. GroupsOf(G, part, S)
    BY DEF Group, GroupsOf
  <2> HIDE DEF G, part
  <2>4. QED
    BY <2>1, <2>2, <2>3, GroupsAddUp
<1>2. CASE groupBy = "category"
  <2> DEFINE key == [i \in S |-> rows[i].category]
  <2>1. totals(u, f, groupBy) = GroupedBy(key, S) /\ DOMAIN key = S
    BY <1>2 DEF totals, GroupedBy
  <2> HIDE DEF key
  <2>2. QED
    BY <2>1, KeyedGroups
<1>3. CASE groupBy = "month"
  <2> DEFINE key == [i \in S |-> monthOf(rows[i].date)]
  <2>1. totals(u, f, groupBy) = GroupedBy(key, S) /\ DOMAIN key = S
    BY <1>3 DEF totals, GroupedBy
  <2> HIDE DEF key
  <2>2. QED
    BY <2>1, KeyedGroups
<1>4. QED
  BY <1>1, <1>2, <1>3

\* And so TotalsAgree holds wherever ReadsInv does.
LEMMA TotalsHold == ASSUME ReadsInv PROVE TotalsAgree
<1>1. SUFFICES ASSUME NEW u \in Users, NEW f \in totalsInput,
                      NEW groupBy \in {"none", "category", "month"},
                      ~runTool(f, compute_totals(u, f, groupBy)).is_error
               PROVE  LET answer == runTool(f, compute_totals(u, f, groupBy))
                      IN  /\ SumFunction([g \in answer.groups |-> g.count]) = Cardinality(Wanted(u, f))
                          /\ answer.grandTotal - ValueOf(Wanted(u, f)) \in
                                (-5 * Cardinality(answer.groups))..(5 * Cardinality(answer.groups))
  BY DEF TotalsAgree
<1>2. runTool(f, compute_totals(u, f, groupBy)) = compute_totals(u, f, groupBy)
  BY <1>1 DEF runTool, ToolError
<1>3. /\ compute_totals(u, f, groupBy).groups = totals(u, f, groupBy)
      /\ compute_totals(u, f, groupBy).grandTotal
            = round2(SumFunction([g \in totals(u, f, groupBy) |-> g.total]))
  BY DEF compute_totals
<1>4. readWhere(u, f) = Wanted(u, f)
  BY ReadsWanted DEF totalsInput, range
<1>5. AddsUp(totals(u, f, groupBy), readWhere(u, f))
  BY ReadIsFinite, TotalsAddUp
<1>6. QED
  BY <1>2, <1>3, <1>4, <1>5 DEF AddsUp

(***************************************************************************)
(* TotalsCorrect: after any writes, whatever range, filters and grouping   *)
(* the assistant asks compute_totals for, the groups of an accepted answer *)
(* count each row of the user on those days once and no other, and their   *)
(* sum is off by at most half a cent a group                               *)
(* (transactions.prisma.repository 120-193, agent-tools 186-194).          *)
(***************************************************************************)
THEOREM TotalsCorrect == ReadsSpec => []TotalsAgree
BY ReadsInvariant, TotalsHold, PTL

------------------------------------------------------------------------------
(* Balances *)

\* The sum of the opposites.
LEMMA SumNegated ==
  ASSUME NEW S, IsFiniteSet(S), NEW v, Integral(v, S), NEW w, \A x \in S : w[x] = -v[x]
  PROVE  SumFunctionOnSet(w, S) = -SumFunctionOnSet(v, S)
<1> DEFINE C == {T \in SUBSET S : SumFunctionOnSet(w, T) = -SumFunctionOnSet(v, T)}
<1>1. Inductive(S, C)
  <2> SUFFICES ASSUME NEW T \in SUBSET S, \A x \in T : T \ {x} \in C
               PROVE  SumFunctionOnSet(w, T) = -SumFunctionOnSet(v, T)
    BY DEF Inductive
  <2>1. CASE T = {}
    BY <2>1, SumEmpty
  <2>2. CASE T # {}
    <3>1. PICK x \in T : TRUE
      BY <2>2
    <3>2. IsFiniteSet(T) /\ Integral(v, T) /\ Integral(w, T)
      BY FS_Subset DEF Integral
    <3>3. SumFunctionOnSet(v, T) = v[x] + SumFunctionOnSet(v, T \ {x})
          /\ SumFunctionOnSet(v, T \ {x}) \in Int
      BY <3>2, SumRemove
    <3>4. SumFunctionOnSet(w, T) = w[x] + SumFunctionOnSet(w, T \ {x})
      BY <3>2, SumRemove
    <3>5. SumFunctionOnSet(w, T \ {x}) = -SumFunctionOnSet(v, T \ {x}) /\ w[x] = -v[x] /\ v[x] \in Int
      BY DEF Integral
    <3> HIDE DEF C
    <3>6. QED
      BY <3>3, <3>4, <3>5
  <2>3. QED
    BY <2>1, <2>2
<1>2. SUBSET S \subseteq C
  <2> HIDE DEF C
  <2> QED
    BY <1>1, SubsetInduction
<1>3. QED
  BY <1>2

\* A row moves the balance of one account, which is its user's.
LEMMA BalancesHold == ASSUME ReadsInv PROVE BalancesAgree
<1> SUFFICES ASSUME NEW u \in Users
             PROVE  LET mine == {a \in accounts : AccountOwner[a] = u}
                        Sum(type) == ValueOf({i \in DOMAIN rows : rows[i].userId = u /\ rows[i].type = type})
                    IN  SumFunction([a \in mine |-> currentBalance(a) - initialBalance[a]])
                            = Sum("INCOME") - Sum("EXPENSE")
  BY DEF BalancesAgree
<1> DEFINE mine == {a \in accounts : AccountOwner[a] = u}
           S == {i \in DOMAIN rows : rows[i].userId = u}
           Of(type) == {i \in DOMAIN rows : rows[i].userId = u /\ rows[i].type = type}
           moved == [i \in DOMAIN rows |-> Moved(i)]
           value == [i \in DOMAIN rows |-> rows[i].value]
           part == [a \in mine |-> {i \in DOMAIN rows : rows[i].account = a}]
           change == [a \in mine |-> currentBalance(a) - initialBalance[a]]
<1>1. IsFiniteSet(DOMAIN rows) /\ IsFiniteSet(mine) /\ \A T \in SUBSET DOMAIN rows : IsFiniteSet(T)
  BY FS_Subset DEF ReadsInv
<1>2. \A T \in SUBSET DOMAIN rows : Integral(moved, T) /\ Integral(value, T)
  BY RowType DEF Integral, Moved
<1>3. \A i \in DOMAIN rows : AccountOwner[rows[i].account] = rows[i].userId /\ rows[i].account \in accounts
  BY DEF ReadsInv, Owned
<1>4. ASSUME NEW a \in mine
      PROVE  change[a] = SumFunctionOnSet(moved, part[a])
  <2> DEFINE w == [i \in part[a] |-> Moved(i)]
  <2>1. part[a] \in SUBSET DOMAIN rows /\ \A i \in part[a] : w[i] = moved[i]
    OBVIOUS
  <2>2. currentBalance(a) = initialBalance[a] + SumFunctionOnSet(w, part[a])
    BY DEF currentBalance, SumFunction
  <2>3. initialBalance[a] \in Int
    BY DEF ReadsInv
  <2>4. SumFunctionOnSet(w, part[a]) = SumFunctionOnSet(moved, part[a])
        /\ SumFunctionOnSet(moved, part[a]) \in Int
    <3> HIDE DEF w, moved, part
    <3> QED
      BY <1>1, <1>2, <2>1, SumSame, SumType
  <2>5. change[a] = currentBalance(a) - initialBalance[a]
    OBVIOUS
  <2> HIDE DEF w, change, moved, part
  <2>6. QED
    BY <2>2, <2>3, <2>4, <2>5
<1>5. SumFunctionOnSet(change, mine) = SumFunctionOnSet(moved, S)
  <2>1. part \in [mine -> SUBSET S]
    BY <1>3
  <2>2. \A a, b \in mine : a # b => part[a] \cap part[b] = {}
    OBVIOUS
  <2>3. \A i \in S : \E a \in mine : i \in part[a]
    BY <1>3
  <2>4. IsFiniteSet(S) /\ Integral(moved, S)
    BY <1>1, <1>2
  <2> HIDE DEF mine, S, moved, part, change
  <2>5. QED
    BY <1>1, <1>4, <2>1, <2>2, <2>3, <2>4, SumParts
<1>6. \A T \in SUBSET DOMAIN rows : ValueOf(T) = SumFunctionOnSet(value, T)
  <2> SUFFICES ASSUME NEW T \in SUBSET DOMAIN rows PROVE ValueOf(T) = SumFunctionOnSet(value, T)
    OBVIOUS
  <2> DEFINE w == [i \in T |-> rows[i].value]
  <2>1. \A i \in T : w[i] = value[i]
    OBVIOUS
  <2>2. ValueOf(T) = SumFunctionOnSet(w, T)
    BY DEF ValueOf, SumFunction
  <2> HIDE DEF w, value
  <2>3. QED
    BY <1>1, <1>2, <2>1, <2>2, SumSame
<1> DEFINE earned == Of("INCOME")
           spent == Of("EXPENSE")
<1>7. /\ earned \in SUBSET S /\ S \ earned = spent
      /\ earned \in SUBSET DOMAIN rows /\ spent \in SUBSET DOMAIN rows /\ S \in SUBSET DOMAIN rows
  BY RowType DEF Type
<1>8. SumFunctionOnSet(moved, S) = SumFunctionOnSet(moved, earned) + SumFunctionOnSet(moved, spent)
  <2>1. IsFiniteSet(S) /\ Integral(moved, S)
    BY <1>1, <1>2, <1>7
  <2> HIDE DEF S, earned, spent, moved
  <2>2. SumFunctionOnSet(moved, S) = SumFunctionOnSet(moved, earned) + SumFunctionOnSet(moved, S \ earned)
    BY ONLY <1>7, <2>1, SumUnion
  <2>3. QED
    BY <1>7, <2>2
<1>9. SumFunctionOnSet(moved, earned) = ValueOf(earned) /\ ValueOf(earned) \in Int
  <2>1. \A i \in earned : moved[i] = value[i]
    BY DEF Moved
  <2>2. IsFiniteSet(earned) /\ Integral(value, earned) /\ ValueOf(earned) = SumFunctionOnSet(value, earned)
    BY <1>1, <1>2, <1>6, <1>7
  <2> HIDE DEF earned, moved, value
  <2>3. QED
    BY <2>1, <2>2, SumSame, SumType
<1>10. SumFunctionOnSet(moved, spent) = -ValueOf(spent) /\ ValueOf(spent) \in Int
  <2>1. \A i \in spent : moved[i] = -value[i]
    BY DEF Moved
  <2>2. IsFiniteSet(spent) /\ Integral(value, spent) /\ ValueOf(spent) = SumFunctionOnSet(value, spent)
    BY <1>1, <1>2, <1>6, <1>7
  <2> HIDE DEF spent, moved, value
  <2>3. QED
    BY <2>1, <2>2, SumNegated, SumType
<1>11. SumFunction(change) = SumFunctionOnSet(change, mine)
  BY DEF SumFunction
<1>12. SumFunction(change) = ValueOf(earned) - ValueOf(spent)
  <2> HIDE DEF change, mine, earned, spent, moved, S
  <2> QED
    BY <1>5, <1>8, <1>9, <1>10, <1>11
<1>13. QED
  BY <1>12

------------------------------------------------------------------------------
(* Listings *)

\* The lesser of two numbers.
LEMMA Lesser ==
  ASSUME NEW a \in Int, NEW b \in Int
  PROVE  Min({a, b}) = IF a <= b THEN a ELSE b
BY DEF Min

\* Some order of a finite set.
LEMMA Listed ==
  ASSUME NEW S, IsFiniteSet(S)
  PROVE  /\ SetToSeq(S) \in [1..Cardinality(S) -> S] /\ IsInjective(SetToSeq(S))
         /\ SetToSeq(S) \in Seq(S) /\ Len(SetToSeq(S)) = Cardinality(S) /\ Cardinality(S) \in Nat
<1>1. Cardinality(S) \in Nat /\ \E f \in [1..Cardinality(S) -> S] : IsInjective(f)
  BY FS_CardinalityType DEF ExistsBijection, Bijection, Injection
<1>2. SetToSeq(S) \in [1..Cardinality(S) -> S] /\ IsInjective(SetToSeq(S))
  BY <1>1 DEF SetToSeq
<1>3. QED
  BY <1>1, <1>2

------------------------------------------------------------------------------
(* The pages of a month *)

\* A part of a sequence.
LEMMA Part ==
  ASSUME NEW X, NEW s \in Seq(X), NEW m \in Nat \ {0}, NEW n \in Nat, n <= Len(s)
  PROVE  /\ SubSeq(s, m, n) \in Seq(X)
         /\ Len(SubSeq(s, m, n)) = IF m <= n THEN n - m + 1 ELSE 0
         /\ \A i \in 1..(n - m + 1) : SubSeq(s, m, n)[i] = s[m + i - 1]
<1>1. \A i \in m..n : s[i] \in X
  OBVIOUS
<1>2. QED
  BY <1>1, SubSeqProperties

\* t is what is left of s after a elements, l of them at most.
Sliced(t, X, s, a, l) ==
  /\ t \in Seq(X)
  /\ Len(t) = IF Len(s) <= a THEN 0 ELSE IF a + l <= Len(s) THEN l ELSE Len(s) - a
  /\ \A k \in 1..Len(t) : t[k] = s[a + k]

\* What is left of a sequence after some elements, as far as a limit.
LEMMA Slice ==
  ASSUME NEW X, NEW s \in Seq(X), NEW a \in Nat, NEW l \in Nat \ {0}
  PROVE  Sliced(SubSeq(s, a + 1, Min({a + l, Len(s)})), X, s, a, l)
<1> DEFINE t == SubSeq(s, a + 1, Min({a + l, Len(s)}))
           b == IF a + l <= Len(s) THEN a + l ELSE Len(s)
           m == a + 1
<1>1. Min({a + l, Len(s)}) = b
  BY Lesser
<1>2. b \in Nat /\ m \in Nat \ {0} /\ b <= Len(s) /\ m = a + 1
  OBVIOUS
<1>3. t = SubSeq(s, m, b)
  BY <1>1
<1>4. Len(s) \in Nat /\ b = IF a + l <= Len(s) THEN a + l ELSE Len(s)
  OBVIOUS
<1> HIDE DEF b, m, t
<1>5. /\ t \in Seq(X) /\ Len(t) = IF m <= b THEN b - m + 1 ELSE 0
      /\ \A i \in 1..(b - m + 1) : t[i] = s[m + i - 1]
  <2> DEFINE u == SubSeq(s, m, b)
  <2>1. u \in Seq(X) /\ (Len(u) = IF m <= b THEN b - m + 1 ELSE 0)
        /\ \A i \in 1..(b - m + 1) : u[i] = s[m + i - 1]
    BY ONLY <1>2, Part, s \in Seq(X)
  <2>2. QED
    BY <1>3, <2>1
<1>6. Len(t) = IF Len(s) <= a THEN 0 ELSE IF a + l <= Len(s) THEN l ELSE Len(s) - a
  BY <1>2, <1>4, <1>5
<1>7. \A k \in 1..Len(t) : t[k] = s[a + k]
  <2> SUFFICES ASSUME NEW k \in 1..Len(t) PROVE t[k] = s[a + k]
    OBVIOUS
  <2>1. k \in 1..(b - m + 1) /\ m + k - 1 = a + k
    BY <1>2, <1>5
  <2>2. QED
    BY <1>5, <2>1
<1>8. Sliced(t, X, s, a, l)
  BY <1>5, <1>6, <1>7 DEF Sliced
<1>9. QED
  BY <1>8 DEF t

\* The length of page p of n rows, l to a page.
PageLength(n, l, p) ==
  IF n <= (p - 1) * l THEN 0 ELSE IF (p - 1) * l + l <= n THEN l ELSE n - (p - 1) * l

\* As many pages as the answer says hold all the rows, and none of them is empty.
LEMMA LastPage ==
  ASSUME NEW n \in Nat, NEW l \in Nat \ {0}, NEW last, last = (n + l - 1) \div l
  PROVE  /\ last \in Nat
         /\ n <= last * l /\ last * l < n + l
         /\ \A p \in 1..last : PageLength(n, l, p) \in 1..l
         /\ PageLength(n, l, last + 1) = 0
<1>1. last \in Nat /\ last * l <= n + l - 1 /\ n + l - 1 < last * l + l
  BY Quotient
<1>2. n <= last * l /\ last * l < n + l
  <2>1. last * l \in Int
    BY <1>1
  <2>2. QED
    BY <1>1, <2>1
<1>3. ASSUME NEW p \in 1..last
      PROVE  PageLength(n, l, p) \in 1..l
  <2>1. p - 1 <= last - 1 /\ p - 1 \in Int /\ last - 1 \in Int
    BY <1>1
  <2>2. (p - 1) * l <= (last - 1) * l
    BY <2>1, Steps
  <2>3. (last - 1) * l = last * l - l
    BY <1>1
  <2>4. (p - 1) * l \in Int /\ last * l \in Int
    BY <1>1
  <2>5. PICK q \in Int : q = (p - 1) * l
    BY <2>4
  <2>6. q < n
    BY <1>2, <2>2, <2>3, <2>4, <2>5
  <2>7. PageLength(n, l, p) = IF n <= q THEN 0 ELSE IF q + l <= n THEN l ELSE n - q
    BY <2>5 DEF PageLength
  <2>8. QED
    BY <2>6, <2>7
<1>4. PageLength(n, l, last + 1) = 0
  <2>1. last + 1 - 1 = last
    BY <1>1
  <2>2. QED
    BY <1>2, <2>1 DEF PageLength
<1>5. QED
  BY <1>1, <1>2, <1>3, <1>4

\* The pages before the last are full, and together they hold every row once.
LEMMA PagesAddUp ==
  ASSUME NEW n \in Nat, NEW l \in Nat \ {0}, NEW last \in Nat,
         n <= last * l, last * l < n + l,
         NEW v, \A p \in 1..last : v[p] = PageLength(n, l, p)
  PROVE  SumFunctionOnSet(v, 1..last) = n
<1> DEFINE C == {k \in Nat : k <= last => SumFunctionOnSet(v, 1..k) = IF k * l <= n THEN k * l ELSE n}
<1>1. 0 \in C
  <2>1. 1..0 = {} /\ 0 * l = 0
    OBVIOUS
  <2>2. SumFunctionOnSet(v, {}) = 0
    BY SumEmpty
  <2>3. QED
    BY <2>1, <2>2
<1>2. ASSUME NEW k \in Nat, k \in C PROVE k + 1 \in C
  <2> SUFFICES ASSUME k + 1 <= last
               PROVE  SumFunctionOnSet(v, 1..(k + 1)) = IF (k + 1) * l <= n THEN (k + 1) * l ELSE n
    OBVIOUS
  <2>1. PICK q \in Nat : q = k * l
    OBVIOUS
  <2>2. (k + 1) * l = q + l
    BY <2>1
  <2>3. v[k + 1] = IF n <= q THEN 0 ELSE IF q + l <= n THEN l ELSE n - q
    <3>1. k + 1 \in 1..last /\ (k + 1) - 1 = k
      OBVIOUS
    <3>2. QED
      BY <2>1, <3>1 DEF PageLength
  <2>4. SumFunctionOnSet(v, 1..k) = IF q <= n THEN q ELSE n
    BY <1>2, <2>1
  <2>5. SumFunctionOnSet(v, 1..(k + 1)) = v[k + 1] + SumFunctionOnSet(v, 1..k)
    <3>1. IsFiniteSet(1..(k + 1)) /\ k + 1 \in 1..(k + 1) /\ (1..(k + 1)) \ {k + 1} = 1..k
      BY FS_Interval
    <3>2. Integral(v, 1..(k + 1))
      <4> SUFFICES ASSUME NEW p \in 1..(k + 1) PROVE v[p] \in Int
        BY DEF Integral
      <4>1. p \in 1..last
        OBVIOUS
      <4>2. (p - 1) * l \in Int /\ v[p] = PageLength(n, l, p)
        BY <4>1
      <4>3. QED
        BY <4>2 DEF PageLength
    <3>3. QED
      BY <3>1, <3>2, SumRemove
  <2> HIDE DEF C
  <2>6. SumFunctionOnSet(v, 1..(k + 1)) = IF q + l <= n THEN q + l ELSE n
    BY <2>3, <2>4, <2>5
  <2>7. QED
    BY <2>2, <2>6
<1>3. Nat \subseteq C
  <2> HIDE DEF C
  <2> QED
    BY <1>1, <1>2, NatSet
<1>4. SumFunctionOnSet(v, 1..last) = IF last * l <= n THEN last * l ELSE n
  BY <1>3
<1>5. last * l \in Int
  OBVIOUS
<1>6. QED
  BY <1>4, <1>5

\* A list of a month and a page of it.
MonthRows(u, f) ==
  {i \in DOMAIN rows :
     /\ rows[i].userId = u
     /\ startOfMonth(f.month) <= rows[i].date
     /\ rows[i].date < startOfMonth(f.month + 1)
     /\ Passes(f.account, rows[i].account) /\ Passes(f.type, rows[i].type)}

\* How long a page of a month is, and how many pages the answer says there are.
LEMMA PageOfMonth ==
  ASSUME ReadsInv, NEW u, NEW f, f.page \in Nat \ {0}, f.limit \in Nat \ {0}
  PROVE  LET n == Cardinality(MonthRows(u, f))
         IN  /\ n \in Nat
             /\ findAllByUserId(u, f).totalPages = (n + f.limit - 1) \div f.limit
             /\ Len(findAllByUserId(u, f).data) = PageLength(n, f.limit, f.page)
             /\ findAllByUserId(u, f).data \in Seq(MonthRows(u, f))
<1> DEFINE S == MonthRows(u, f)
           a == (f.page - 1) * f.limit
           found == SetToSeq(S)
           t == SubSeq(found, a + 1, Min({a + f.limit, Len(found)}))
<1>1. IsFiniteSet(S)
  BY FS_Subset DEF ReadsInv, MonthRows
<1>2. found \in Seq(S) /\ Len(found) = Cardinality(S) /\ Cardinality(S) \in Nat
  BY <1>1, Listed
<1>3. a \in Nat
  OBVIOUS
<1>4. t \in Seq(S)
      /\ Len(t) = IF Len(found) <= a THEN 0 ELSE IF a + f.limit <= Len(found) THEN f.limit ELSE Len(found) - a
  <2>1. PICK l \in Nat \ {0} : l = f.limit
    OBVIOUS
  <2>2. t = SubSeq(found, a + 1, Min({a + l, Len(found)}))
    BY <2>1
  <2> HIDE DEF t, a, found, S
  <2>3. Sliced(SubSeq(found, a + 1, Min({a + l, Len(found)})), S, found, a, l)
    BY ONLY <1>2, <1>3, l \in Nat \ {0}, Slice
  <2>4. QED
    BY <2>1, <2>2, <2>3 DEF Sliced
<1>5. findMany(u, f) = [data |-> t, total |-> Cardinality(S)]
  BY DEF findMany, skip, MonthRows
<1>6. findAllByUserId(u, f) = [data |-> t, total |-> Cardinality(S),
                               totalPages |-> (Cardinality(S) + f.limit - 1) \div f.limit]
  BY <1>5 DEF findAllByUserId
<1>7. Len(t) = PageLength(Cardinality(S), f.limit, f.page)
  <2> HIDE DEF t, S, found
  <2> QED
    BY <1>2, <1>4 DEF PageLength
<1> HIDE DEF t, found
<1>8. QED
  BY <1>2, <1>4, <1>6, <1>7

\* The list of a month and the assistant's count from its first day to its last are of the same rows.
LEMMA MonthIsRange ==
  ASSUME ReadsInv, NEW u, NEW m \in 0..(Months - 1), NEW type \in Type, NEW page_, NEW limit
  PROVE  MonthRows(u, [month |-> m, account |-> None, type |-> type, page |-> page_, limit |-> limit])
           = readWhere(u, [from |-> startOfMonth(m), to |-> startOfMonth(m + 1) - DayLength,
                           type |-> type, category |-> None])
<1> DEFINE g == [month |-> m, account |-> None, type |-> type, page |-> page_, limit |-> limit]
           f == [from |-> startOfMonth(m), to |-> startOfMonth(m + 1) - DayLength,
                 type |-> type, category |-> None]
<1>1. startOfMonth(m + 1) \in Int /\ DayLength \in Int
  BY ReadsAssumption DEF startOfMonth
<1>2. \A t \in Nat : t < startOfMonth(m + 1) <=> t <= endOfDay(f.to)
  BY <1>1 DEF endOfDay
<1>3. \A i \in DOMAIN rows : rows[i].date \in Nat
  BY RowType
<1>4. QED
  BY <1>2, <1>3 DEF MonthRows, readWhere, Passes

\* And so MonthsAgree holds wherever ReadsInv does.
LEMMA MonthsHold == ASSUME ReadsInv PROVE MonthsAgree
<1> SUFFICES ASSUME NEW u \in Users, NEW m \in 0..(Months - 1), NEW type \in Type, NEW limit \in Limits
             PROVE  LET Page(p) == findAllByUserId(u, [month |-> m, account |-> None, type |-> type,
                                                       page |-> p, limit |-> limit])
                        last == Page(1).totalPages
                        f == [from |-> startOfMonth(m), to |-> startOfMonth(m + 1) - DayLength,
                              type |-> type, category |-> None]
                    IN  /\ \A p \in 1..last : Len(Page(p).data) \in 1..limit
                        /\ Page(last + 1).data = <<>>
                        /\ SumFunction([p \in 1..last |-> Len(Page(p).data)]) =
                               SumFunction([g \in totals(u, f, "none") |-> g.count])
  BY DEF MonthsAgree
<1> DEFINE Page(p) == findAllByUserId(u, [month |-> m, account |-> None, type |-> type,
                                          page |-> p, limit |-> limit])
           last == Page(1).totalPages
           f == [from |-> startOfMonth(m), to |-> startOfMonth(m + 1) - DayLength,
                 type |-> type, category |-> None]
           S == readWhere(u, f)
           n == Cardinality(S)
           sizes == [p \in 1..last |-> Len(Page(p).data)]
<1>1. limit \in Nat \ {0}
  BY ReadsAssumption
<1>2. ASSUME NEW p \in Nat \ {0}
      PROVE  /\ n \in Nat
             /\ Page(p).totalPages = (n + limit - 1) \div limit
             /\ Len(Page(p).data) = PageLength(n, limit, p)
             /\ Page(p).data \in Seq(S)
  <2> DEFINE g == [month |-> m, account |-> None, type |-> type, page |-> p, limit |-> limit]
  <2>1. g.page = p /\ g.limit = limit
    OBVIOUS
  <2>2. MonthRows(u, g) = S
    BY MonthIsRange
  <2> HIDE DEF g, S
  <2>3. /\ Cardinality(MonthRows(u, g)) \in Nat
        /\ findAllByUserId(u, g).totalPages = (Cardinality(MonthRows(u, g)) + g.limit - 1) \div g.limit
        /\ Len(findAllByUserId(u, g).data) = PageLength(Cardinality(MonthRows(u, g)), g.limit, g.page)
        /\ findAllByUserId(u, g).data \in Seq(MonthRows(u, g))
    <3>1. g.page \in Nat \ {0} /\ g.limit \in Nat \ {0}
      BY <1>1, <2>1
    <3>2. QED
      BY <3>1, PageOfMonth
  <2>4. QED
    BY <2>1, <2>2, <2>3 DEF g
<1>3. last = (n + limit - 1) \div limit /\ n \in Nat
  BY <1>2
<1>4. ReadsInv /\ IsFiniteSet(S) /\ NaturalValues(S)
  BY ReadIsFinite
<1> HIDE DEF Page, S, n, last, f
<1>5. /\ last \in Nat /\ n <= last * limit /\ last * limit < n + limit
      /\ \A p \in 1..last : PageLength(n, limit, p) \in 1..limit
      /\ PageLength(n, limit, last + 1) = 0
  BY ONLY <1>1, <1>3, LastPage
<1>6. \A p \in 1..last : Len(Page(p).data) \in 1..limit
  BY <1>2, <1>5
<1>7. Page(last + 1).data = <<>>
  <2>1. last + 1 \in Nat \ {0}
    BY <1>5
  <2>2. Len(Page(last + 1).data) = 0 /\ Page(last + 1).data \in Seq(S)
    BY <1>2, <1>5, <2>1
  <2>3. QED
    BY <2>2
<1>8. SumFunctionOnSet(sizes, 1..last) = n
  <2>1. \A p \in 1..last : sizes[p] = PageLength(n, limit, p)
    BY <1>2, <1>5
  <2> HIDE DEF sizes
  <2>2. QED
    BY ONLY <1>1, <1>3, <1>5, <2>1, PagesAddUp
<1>9. SumFunction(sizes) = n
  BY <1>8 DEF SumFunction
<1>10. SumFunction([g \in totals(u, f, "none") |-> g.count]) = n
  <2>1. AddsUp(totals(u, f, "none"), readWhere(u, f))
    BY <1>4, TotalsAddUp DEF S
  <2>2. QED
    BY <2>1 DEF AddsUp, S, n
<1>11. QED
  BY <1>6, <1>7, <1>9, <1>10 DEF Page, last, f

------------------------------------------------------------------------------
(* Searches *)

\* An element of the least key.
LEMMA Least ==
  ASSUME NEW S, IsFiniteSet(S), NEW key, Integral(key, S), S # {}
  PROVE  \E x \in S : \A y \in S : key[x] <= key[y]
<1> USE DEF Integral
<1> DEFINE C == {T \in SUBSET S : T # {} => \E x \in T : \A y \in T : key[x] <= key[y]}
<1>1. Inductive(S, C)
  <2> SUFFICES ASSUME NEW T \in SUBSET S, \A x \in T : T \ {x} \in C, T # {}
               PROVE  \E x \in T : \A y \in T : key[x] <= key[y]
    BY DEF Inductive
  <2>1. PICK z \in T : TRUE
    OBVIOUS
  <2>2. CASE T \ {z} = {}
    <3>1. \A y \in T : y = z
      BY <2>2
    <3>2. key[z] <= key[z]
      OBVIOUS
    <3>3. QED
      BY <3>1, <3>2
  <2>3. CASE T \ {z} # {}
    <3>1. PICK x \in T \ {z} : \A y \in T \ {z} : key[x] <= key[y]
      BY <2>3
    <3>2. CASE key[x] <= key[z]
      BY <3>1, <3>2
    <3>3. CASE ~ key[x] <= key[z]
      <4>1. \A y \in T : key[z] <= key[y]
        <5> SUFFICES ASSUME NEW y \in T PROVE key[z] <= key[y]
          OBVIOUS
        <5>1. PICK a \in Int, b \in Int, c \in Int : a = key[x] /\ b = key[y] /\ c = key[z]
          OBVIOUS
        <5>2. CASE y = z
          BY <5>1, <5>2
        <5>3. CASE y # z
          BY <3>1, <3>3, <5>1, <5>3
        <5>4. QED
          BY <5>2, <5>3
      <4>2. QED
        BY <4>1
    <3>4. QED
      BY <3>2, <3>3
  <2>4. QED
    BY <2>2, <2>3
<1>2. SUBSET S \subseteq C
  <2> HIDE DEF C
  <2> QED
    BY <1>1, SubsetInduction
<1>3. QED
  BY <1>2

\* s has every element of S once, the largest key first.
Ordered(s, S, key) ==
  /\ s \in [1..Cardinality(S) -> S] /\ IsInjective(s)
  /\ \A p, q \in DOMAIN s : p < q => key[s[p]] >= key[s[q]]

\* A finite set can be listed in the order of a key.
LEMMA ListingOrdered ==
  ASSUME NEW S, IsFiniteSet(S), NEW key, Integral(key, S)
  PROVE  Ordered(Listing(S, key), S, key)
<1> DEFINE C == {T \in SUBSET S : \E s \in [1..Cardinality(T) -> T] : Ordered(s, T, key)}
<1>0. \A T \in SUBSET S : IsFiniteSet(T) /\ Cardinality(T) \in Nat /\ Integral(key, T)
  BY FS_Subset, FS_CardinalityType DEF Integral
<1>1. Inductive(S, C)
  <2> SUFFICES ASSUME NEW T \in SUBSET S, \A x \in T : T \ {x} \in C
               PROVE  T \in C
    BY DEF Inductive
  <2>1. CASE T = {}
    <3> DEFINE s == [k \in 1..0 |-> k]
    <3>1. Cardinality(T) = 0
      BY <2>1, FS_EmptySet
    <3>2. s \in [1..Cardinality(T) -> T] /\ Ordered(s, T, key)
      BY <3>1 DEF Ordered, IsInjective
    <3>3. QED
      BY <3>2
  <2>2. CASE T # {}
    <3>1. PICK x \in T : \A y \in T : key[x] <= key[y]
      BY <1>0, <2>2, Least
    <3> DEFINE R == T \ {x}
               n == Cardinality(R)
    <3>2. PICK s \in [1..n -> R] : Ordered(s, R, key)
      OBVIOUS
    <3>3. Cardinality(T) = n + 1 /\ n \in Nat
      <4>1. n = Cardinality(T) - 1
        BY <1>0, FS_RemoveElement
      <4>2. QED
        BY <4>1, <1>0
    <3> DEFINE t == [k \in 1..(n + 1) |-> IF k = n + 1 THEN x ELSE s[k]]
    <3> HIDE DEF n
    <3>4. t \in [1..(n + 1) -> T]
      BY <3>3
    <3>5. \A k \in 1..n : t[k] = s[k] /\ s[k] \in R
      BY <3>3
    <3>6. t[n + 1] = x
      BY <3>3
    <3> HIDE DEF t
    <3>7. IsInjective(t)
      <4> SUFFICES ASSUME NEW a \in 1..(n + 1), NEW b \in 1..(n + 1), t[a] = t[b] PROVE a = b
        BY <3>4 DEF IsInjective
      <4>1. CASE a \in 1..n /\ b \in 1..n
        <5>1. s[a] = s[b] /\ a \in DOMAIN s /\ b \in DOMAIN s
          BY <3>5, <4>1
        <5>2. QED
          BY <3>2, <5>1 DEF Ordered, IsInjective
      <4>2. CASE ~(a \in 1..n /\ b \in 1..n)
        BY <3>3, <3>5, <3>6, <4>2
      <4>3. QED
        BY <4>1, <4>2
    <3>8. ASSUME NEW p \in 1..(n + 1), NEW q \in 1..(n + 1), p < q
          PROVE  key[t[p]] >= key[t[q]]
      <4>1. p \in 1..n
        BY <3>3, <3>8
      <4>2. CASE q \in 1..n
        <5>1. key[s[p]] >= key[s[q]]
          BY <3>2, <3>8, <4>1, <4>2 DEF Ordered
        <5>2. QED
          BY <3>5, <4>1, <4>2, <5>1
      <4>3. CASE q \notin 1..n
        <5>1. t[q] = x
          BY <3>3, <3>6, <4>3
        <5>2. t[p] \in T
          BY <3>5, <4>1
        <5>3. key[x] <= key[t[p]] /\ key[x] \in Int /\ key[t[p]] \in Int
          BY <3>1, <5>2, <1>0 DEF Integral
        <5>4. QED
          BY <5>1, <5>3
      <4>4. QED
        BY <4>2, <4>3
    <3>9. Ordered(t, T, key)
      BY <3>3, <3>4, <3>7, <3>8 DEF Ordered
    <3>10. QED
      BY <3>3, <3>4, <3>9
  <2>3. QED
    BY <2>1, <2>2
<1>2. SUBSET S \subseteq C
  <2> HIDE DEF C
  <2> QED
    BY <1>1, SubsetInduction
<1>3. PICK s \in [1..Cardinality(S) -> S] : Ordered(s, S, key)
  BY <1>2
<1>4. QED
  BY <1>3 DEF Listing, Ordered

\* t is the first k elements of s.
FirstOf(t, X, s, k) == t \in [1..k -> X] /\ Len(t) = k /\ \A i \in 1..k : t[i] = s[i]

\* FirstOf is what SubSeq computes.
LEMMA Prefix ==
  ASSUME NEW X, NEW s \in Seq(X), NEW k \in Nat, k <= Len(s)
  PROVE  FirstOf(SubSeq(s, 1, k), X, s, k)
<1> DEFINE t == SubSeq(s, 1, k)
<1>1. 1 \in Nat \ {0}
  OBVIOUS
<1>2. t \in Seq(X) /\ (Len(t) = IF 1 <= k THEN k - 1 + 1 ELSE 0)
      /\ \A i \in 1..(k - 1 + 1) : t[i] = s[1 + i - 1]
  BY <1>1, Part
<1> HIDE DEF t
<1>3. Len(t) = k
  BY <1>2
<1>4. ASSUME NEW i \in 1..k PROVE t[i] = s[i]
  <2>1. i \in 1..(k - 1 + 1) /\ 1 + i - 1 = i
    OBVIOUS
  <2>2. QED
    BY <1>2, <2>1
<1>5. t \in [1..k -> X]
  BY <1>2, <1>3
<1>6. FirstOf(t, X, s, k)
  BY <1>3, <1>4, <1>5 DEF FirstOf
<1>7. QED
  BY <1>6 DEF t

\* t has the elements of S of the largest keys, as many as the limit allows.
Shows(t, S, key, limit) ==
  /\ Range(t) \subseteq S
  /\ Len(t) = Min({limit, Cardinality(S)})
  /\ Cardinality(Range(t)) = Len(t)
  /\ Cardinality(S) > Len(t) <=> Range(t) # S
  /\ \A i \in Range(t), j \in S \ Range(t) : key[i] >= key[j]

\* The first elements of a listing, as far as a limit, are the ones of the largest keys.
LEMMA FirstOfListing ==
  ASSUME NEW S, IsFiniteSet(S), NEW key, NEW s, Ordered(s, S, key),
         NEW limit \in Nat \ {0}
  PROVE  Shows(SubSeq(s, 1, Min({limit, Len(s)})), S, key, limit)
<1> DEFINE t == SubSeq(s, 1, Min({limit, Len(s)}))
           n == Cardinality(S)
           k == IF limit <= n THEN limit ELSE n
<1>1. n \in Nat /\ s \in Seq(S) /\ Len(s) = n
  BY FS_CardinalityType DEF Ordered
<1>2. k \in Nat /\ k <= n /\ Min({limit, n}) = k
  BY <1>1, Lesser
<1>3. t = SubSeq(s, 1, k)
  BY <1>1, <1>2
<1> HIDE DEF k, n, t
<1>5. t \in [1..k -> S] /\ Len(t) = k /\ \A i \in 1..k : t[i] = s[i]
  <2>1. FirstOf(SubSeq(s, 1, k), S, s, k)
    BY ONLY <1>1, <1>2, Prefix
  <2>2. QED
    BY <1>3, <2>1 DEF FirstOf
<1>6. Range(t) = {s[i] : i \in 1..k}
  BY <1>5 DEF Range
<1>7. IsInjective(t)
  <2>1. \A a, b \in 1..k : s[a] = s[b] => a = b
    BY <1>1, <1>2 DEF Ordered, IsInjective, n
  <2>2. DOMAIN t = 1..k
    BY <1>5
  <2>3. ASSUME NEW a \in 1..k, NEW b \in 1..k, t[a] = t[b] PROVE a = b
    <3>1. t[a] = s[a] /\ t[b] = s[b]
      BY <1>5
    <3>2. QED
      BY <2>1, <2>3, <3>1
  <2>4. QED
    BY <2>2, <2>3 DEF IsInjective
<1>8. Cardinality(Range(t)) = k /\ Range(t) \subseteq S
  <2>1. t \in Bijection(1..k, Range(t))
    BY <1>5, <1>7 DEF Bijection, Injection, Surjection, Range
  <2>2. IsFiniteSet(1..k) /\ Cardinality(1..k) = k
    <3>1. Cardinality(1..k) = IF 1 > k THEN 0 ELSE k - 1 + 1
      BY <1>2, FS_Interval
    <3>2. QED
      BY <1>2, <3>1, FS_Interval
  <2>3. Cardinality(Range(t)) = Cardinality(1..k)
    BY <2>1, <2>2, FS_Bijection DEF ExistsBijection
  <2>4. QED
    BY <1>5, <2>2, <2>3 DEF Range
<1>9. n > k <=> Range(t) # S
  <2>1. Range(t) \in SUBSET S
    BY <1>8
  <2>2. Cardinality(S) = Cardinality(Range(t)) => S = Range(t)
    BY <2>1, FS_Subset
  <2>3. QED
    BY <1>1, <1>2, <1>8, <2>2 DEF n
<1>10. ASSUME NEW i \in Range(t), NEW j \in S \ Range(t)
       PROVE  key[i] >= key[j]
  <2>1. PICK p \in 1..k : i = s[p]
    BY <1>6
  <2>2. PICK q \in 1..n : j = s[q]
    <3>1. s \in Injection(1..n, S) /\ IsFiniteSet(1..n) /\ Cardinality(1..n) = n
      <4>1. Cardinality(1..n) = IF 1 > n THEN 0 ELSE n - 1 + 1
        BY <1>1, FS_Interval
      <4>2. IsFiniteSet(1..n) /\ Cardinality(1..n) = n
        BY <1>1, <4>1, FS_Interval
      <4>3. s \in [1..n -> S] /\ IsInjective(s)
        BY DEF Ordered, n
      <4>4. QED
        BY <4>2, <4>3 DEF Injection
    <3>2. s \in Surjection(1..n, S)
      BY <3>1, FS_Injection DEF n
    <3>3. QED
      BY <3>2 DEF Surjection
  <2>3. q \notin 1..k
    BY <1>6, <2>2
  <2>4. p < q /\ p \in 1..n
    BY <1>1, <1>2, <2>3
  <2>5. DOMAIN s = 1..n
    BY DEF Ordered, n
  <2>6. key[s[p]] >= key[s[q]]
    BY <2>2, <2>4, <2>5 DEF Ordered
  <2>7. QED
    BY <2>1, <2>2, <2>6
<1>11. Shows(t, S, key, limit)
  BY <1>2, <1>5, <1>8, <1>9, <1>10 DEF n, Shows
<1>12. QED
  BY <1>11 DEF t

\* And so SearchesAreHonest holds wherever ReadsInv does.
LEMMA SearchesHold == ASSUME ReadsInv PROVE SearchesAreHonest
<1> SUFFICES ASSUME NEW u \in Users, NEW f \in range, NEW b \in Bounds, NEW limit \in Limits,
                    NEW orderBy \in {"date", "value"}
             PROVE  LET g == [from |-> f.from, to |-> f.to, type |-> f.type, category |-> f.category,
                              minValue |-> b[1], maxValue |-> b[2], limit |-> limit, orderBy |-> orderBy]
                        answer == runTool(g, query_transactions(u, g))
                        all == {i \in Wanted(u, f) : rows[i].value \in b[1]..b[2]}
                        key(i) == IF orderBy = "date" THEN rows[i].date ELSE rows[i].value
                        shown == Range(answer.transactions)
                    IN  ~answer.is_error =>
                            /\ shown \subseteq all
                            /\ Cardinality(shown) = Min({limit, Cardinality(all)})
                            /\ answer.truncated <=> shown # all
                            /\ \A i \in shown, j \in all \ shown : key(i) >= key(j)
  BY DEF SearchesAreHonest
<1> DEFINE g == [from |-> f.from, to |-> f.to, type |-> f.type, category |-> f.category,
                 minValue |-> b[1], maxValue |-> b[2], limit |-> limit, orderBy |-> orderBy]
           answer == runTool(g, query_transactions(u, g))
           all == {i \in Wanted(u, f) : rows[i].value \in b[1]..b[2]}
           key == [i \in all |-> IF orderBy = "date" THEN rows[i].date ELSE rows[i].value]
           sorted == Listing(all, key)
           t == SubSeq(sorted, 1, Min({limit, Len(sorted)}))
<1> SUFFICES ASSUME ~answer.is_error
             PROVE  /\ Range(answer.transactions) \subseteq all
                    /\ Cardinality(Range(answer.transactions)) = Min({limit, Cardinality(all)})
                    /\ answer.truncated <=> Range(answer.transactions) # all
                    /\ \A i \in Range(answer.transactions), j \in all \ Range(answer.transactions) :
                          (IF orderBy = "date" THEN rows[i].date ELSE rows[i].value)
                             >= (IF orderBy = "date" THEN rows[j].date ELSE rows[j].value)
  OBVIOUS
<1>1. answer = query_transactions(u, g)
  BY DEF runTool, ToolError
<1>2. limit \in Nat \ {0} /\ b[1] \in Nat /\ b[2] \in Nat
  BY ReadsAssumption
<1>3. IsFiniteSet(all) /\ Integral(key, all)
  <2>1. IsFiniteSet(all)
    BY FS_Subset DEF ReadsInv, Wanted
  <2>2. \A i \in all : rows[i].date \in Int /\ rows[i].value \in Int
    BY RowType DEF Wanted
  <2>3. QED
    BY <2>1, <2>2 DEF Integral
<1>4. {i \in readWhere(u, g) : g.minValue <= rows[i].value /\ rows[i].value <= g.maxValue} = all
  <2>1. readWhere(u, g) = readWhere(u, f)
    BY DEF readWhere
  <2>2. readWhere(u, f) = Wanted(u, f)
    BY ReadsWanted DEF range
  <2>3. \A i \in readWhere(u, f) : rows[i].value \in Nat
    BY RowType DEF readWhere
  <2>4. QED
    BY <1>2, <2>1, <2>2, <2>3
<1>5. search(u, g) = [data |-> t, total |-> Cardinality(all)]
  <2>1. g.orderBy = orderBy /\ g.limit = limit
    OBVIOUS
  <2> HIDE DEF g
  <2>2. [i \in all |-> IF g.orderBy = "date" THEN rows[i].date ELSE rows[i].value] = key
    BY <2>1
  <2>3. search(u, g) = [data |-> SubSeq(sorted, 1, Min({g.limit, Len(sorted)})), total |-> Cardinality(all)]
    <3> HIDE DEF all, key
    <3> QED
      BY <1>4, <2>2 DEF search
  <2>4. QED
    BY <2>1, <2>3
<1> HIDE DEF t, all
<1>6. answer = [is_error |-> FALSE, transactions |-> t, total |-> Cardinality(all),
                truncated |-> Cardinality(all) > Len(t)]
  <2>1. answer = [is_error |-> FALSE, transactions |-> search(u, g).data, total |-> search(u, g).total,
                  truncated |-> search(u, g).total > Len(search(u, g).data)]
    <3> HIDE DEF g, answer
    <3> QED
      BY <1>1 DEF query_transactions
  <2> HIDE DEF g, answer
  <2>2. QED
    BY <1>5, <2>1
<1> USE DEF t, all
<1>7. Ordered(sorted, all, key)
  <2> HIDE DEF all, key
  <2> QED
    BY <1>3, ListingOrdered
<1>8. /\ Range(t) \subseteq all
      /\ Len(t) = Min({limit, Cardinality(all)})
      /\ Cardinality(Range(t)) = Len(t)
      /\ Cardinality(all) > Len(t) <=> Range(t) # all
      /\ \A i \in Range(t), j \in all \ Range(t) : key[i] >= key[j]
  <2> HIDE DEF all, key, sorted
  <2>1. Shows(SubSeq(sorted, 1, Min({limit, Len(sorted)})), all, key, limit)
    BY ONLY <1>2, <1>3, <1>7, FirstOfListing
  <2>2. QED
    BY <2>1 DEF Shows
<1>9. \A i \in Range(t), j \in all \ Range(t) :
        (IF orderBy = "date" THEN rows[i].date ELSE rows[i].value)
           >= (IF orderBy = "date" THEN rows[j].date ELSE rows[j].value)
  <2> HIDE DEF t, all
  <2> QED
    BY <1>8
<1> HIDE DEF t, all, answer
<1>10. answer.transactions = t /\ answer.truncated = (Cardinality(all) > Len(t))
  BY <1>6
<1>11. QED
  BY <1>8, <1>9, <1>10

\* All three parts of ListsAgree.
LEMMA ListsHold == ASSUME ReadsInv PROVE ListsAgree
BY MonthsHold, SearchesHold, BalancesHold DEF ListsAgree

(***************************************************************************)
(* ListsCorrect: after any writes, the pages of a month hold as many rows  *)
(* as compute_totals counts for its days, a search shows the first rows of *)
(* its order and says when it leaves some out, and the balances of a       *)
(* user's accounts moved by the user's income less expenses                *)
(* (transactions.prisma.repository 43-66 and 94-118, transactions.service  *)
(* 51-67, bank-accounts.service 30-52).                                    *)
(***************************************************************************)
THEOREM ListsCorrect == ReadsSpec => []ListsAgree
BY ReadsInvariant, ListsHold, PTL

------------------------------------------------------------------------------
(* Paragraphs and what flattening makes of their sequences *)

\* A sum of natural numbers is one.
LEMMA SumNatural ==
  ASSUME NEW S, IsFiniteSet(S), NEW v, \A x \in S : v[x] \in Nat
  PROVE  SumFunctionOnSet(v, S) \in Nat
<1> DEFINE C == {T \in SUBSET S : SumFunctionOnSet(v, T) \in Nat}
<1>1. Inductive(S, C)
  <2> SUFFICES ASSUME NEW T \in SUBSET S, \A x \in T : T \ {x} \in C
               PROVE  SumFunctionOnSet(v, T) \in Nat
    BY DEF Inductive
  <2>1. CASE T = {}
    BY <2>1, SumEmpty
  <2>2. CASE T # {}
    <3>1. PICK x \in T : TRUE
      BY <2>2
    <3>2. IsFiniteSet(T) /\ Integral(v, T)
      BY FS_Subset DEF Integral
    <3>3. SumFunctionOnSet(v, T) = v[x] + SumFunctionOnSet(v, T \ {x})
      BY <3>2, SumRemove
    <3>4. SumFunctionOnSet(v, T \ {x}) \in Nat /\ v[x] \in Nat
      OBVIOUS
    <3> HIDE DEF C
    <3>5. QED
      BY <3>3, <3>4
  <2>3. QED
    BY <2>1, <2>2
<1>2. SUBSET S \subseteq C
  <2> HIDE DEF C
  <2> QED
    BY <1>1, SubsetInduction
<1>3. QED
  BY <1>2

\* t is s with e after its last element.
Appended(t, s, e, X) ==
  /\ t \in Seq(X) /\ t # <<>> /\ Len(s) \in Nat /\ Len(t) = Len(s) + 1
  /\ DOMAIN s = 1..Len(s) /\ DOMAIN t = 1..(Len(s) + 1)
  /\ t[Len(s) + 1] = e /\ \A i \in 1..Len(s) : t[i] = s[i] /\ s[i] \in X

\* Appended is what Append computes.
LEMMA Appending ==
  ASSUME NEW X, NEW s \in Seq(X), NEW e \in X
  PROVE  Appended(Append(s, e), s, e, X)
<1>1. /\ Append(s, e) \in Seq(X) /\ Append(s, e) # <<>> /\ Len(Append(s, e)) = Len(s) + 1
      /\ \A i \in 1..Len(s) : Append(s, e)[i] = s[i]
      /\ Append(s, e)[Len(s) + 1] = e
  BY AppendProperties
<1>2. Len(s) \in Nat /\ DOMAIN s = 1..Len(s) /\ \A i \in 1..Len(s) : s[i] \in X
  OBVIOUS
<1>3. DOMAIN Append(s, e) = 1..(Len(s) + 1)
  BY <1>1
<1>4. QED
  BY <1>1, <1>2, <1>3 DEF Appended

\* What a paragraph of a page is.
Paragraph == [page : Nat, place : Nat, size : Nat]

\* One paragraph more has its words more.
LEMMA WordsAppend ==
  ASSUME NEW ps \in Seq(Paragraph), NEW p \in Paragraph
  PROVE  Words(ps) \in Nat /\ Words(Append(ps, p)) = Words(ps) + p.size
<1> DEFINE n == Len(ps)
           v == [i \in DOMAIN ps |-> ps[i].size]
           qs == Append(ps, p)
           w == [i \in DOMAIN qs |-> qs[i].size]
<1>0. Appended(qs, ps, p, Paragraph)
  BY Appending
<1> HIDE DEF n, qs
<1>1. n \in Nat /\ DOMAIN ps = 1..n /\ DOMAIN qs = 1..(n + 1)
  BY <1>0 DEF Appended, n
<1>2. \A i \in 1..n : v[i] \in Nat /\ qs[i] = ps[i]
  <2>1. \A i \in 1..n : ps[i] \in Paragraph /\ qs[i] = ps[i]
    BY <1>0 DEF Appended, n
  <2>2. \A x \in Paragraph : x.size \in Nat
    BY DEF Paragraph
  <2>3. QED
    BY <1>1, <2>1, <2>2
<1>3. qs[n + 1] = p /\ p.size \in Nat
  <2>1. qs[n + 1] = p
    BY <1>0 DEF Appended, n
  <2>2. QED
    BY <2>1 DEF Paragraph
<1>4. IsFiniteSet(1..n) /\ IsFiniteSet(1..(n + 1)) /\ (1..(n + 1)) \ {n + 1} = 1..n /\ n + 1 \in 1..(n + 1)
  <2>1. n + 1 \in Int /\ n \in Int /\ 1 \in Int
    BY <1>1
  <2>2. IsFiniteSet(1..n) /\ IsFiniteSet(1..(n + 1))
    BY ONLY <2>1, FS_Interval
  <2>3. QED
    BY <1>1, <2>2
<1>5. Words(ps) = SumFunctionOnSet(v, 1..n) /\ Words(qs) = SumFunctionOnSet(w, 1..(n + 1))
  BY <1>1 DEF Words, SumFunction
<1>6. \A i \in 1..n : w[i] = v[i]
  BY <1>1, <1>2
<1>7. w[n + 1] = p.size
  BY <1>1, <1>3
<1>8. \A i \in 1..(n + 1) : w[i] \in Nat
  BY <1>1, <1>2, <1>3, <1>6, <1>7
<1> HIDE DEF v, w, n, qs
<1>9. Integral(w, 1..(n + 1)) /\ Integral(v, 1..n)
  BY <1>1, <1>2, <1>8 DEF Integral
<1>10. SumFunctionOnSet(w, 1..(n + 1)) = w[n + 1] + SumFunctionOnSet(w, (1..(n + 1)) \ {n + 1})
  BY <1>4, <1>9, SumRemove
<1>11. SumFunctionOnSet(w, 1..n) = SumFunctionOnSet(v, 1..n)
  BY <1>4, <1>6, <1>9, SumSame
<1>12. SumFunctionOnSet(v, 1..n) \in Nat
  BY <1>2, <1>4, SumNatural
<1>13. Words(qs) = Words(ps) + p.size /\ Words(ps) \in Nat
  <2>1. SumFunctionOnSet(w, 1..(n + 1)) = w[n + 1] + SumFunctionOnSet(w, 1..n)
    BY <1>4, <1>10
  <2>2. QED
    BY <1>3, <1>5, <1>7, <1>11, <1>12, <2>1
<1>14. QED
  BY <1>13 DEF qs

\* f[i] is the first i sequences of ss, one after the other.
JoinsUpTo(f, ss, k) == \A i \in 1..k : f[i] = IF i = 1 THEN ss[i] ELSE f[i - 1] \o ss[i]
Joins(f, ss) == JoinsUpTo(f, ss, Len(ss))

\* Two functions that join the same sequences are the same.
LEMMA JoinsSame ==
  ASSUME NEW X, NEW ss \in Seq(Seq(X)), NEW f, Joins(f, ss), NEW g, Joins(g, ss)
  PROVE  \A i \in 1..Len(ss) : f[i] = g[i]
<1> DEFINE C == {k \in Nat : k \in 1..Len(ss) => f[k] = g[k]}
<1>1. 0 \in C
  OBVIOUS
<1>2. \A k \in Nat : k \in C => k + 1 \in C
  <2> SUFFICES ASSUME NEW k \in Nat, k \in C, k + 1 \in 1..Len(ss)
               PROVE  f[k + 1] = g[k + 1]
    OBVIOUS
  <2>1. CASE k = 0
    BY <2>1 DEF Joins, JoinsUpTo
  <2>2. CASE k # 0
    <3>1. k \in 1..Len(ss) /\ k + 1 # 1 /\ (k + 1) - 1 = k
      BY <2>2
    <3>2. f[k] = g[k]
      BY <3>1
    <3>3. f[k + 1] = f[k] \o ss[k + 1] /\ g[k + 1] = g[k] \o ss[k + 1]
      BY <3>1 DEF Joins, JoinsUpTo
    <3>4. QED
      BY <3>2, <3>3
  <2>3. QED
    BY <2>1, <2>2
<1>3. Nat \subseteq C
  <2> HIDE DEF C
  <2> QED
    BY <1>1, <1>2, NatSet
<1>4. QED
  BY <1>3

\* FlattenSeq is the last value of the function that joins.
LEMMA FlattenJoins ==
  ASSUME NEW X, NEW ss \in Seq(Seq(X)), ss # <<>>, NEW f \in [1..Len(ss) -> Seq(X)], Joins(f, ss)
  PROVE  FlattenSeq(ss) = f[Len(ss)]
<1> DEFINE Eq(h) == h = [i \in 1..Len(ss) |-> IF i = 1 THEN ss[i] ELSE h[i - 1] \o ss[i]]
           flatten == CHOOSE h : Eq(h)
<1>1. FlattenSeq(ss) = flatten[Len(ss)]
  BY DEF FlattenSeq
<1>2. Eq(f)
  BY DEF Joins, JoinsUpTo
<1>3. Eq(flatten)
  <2> HIDE DEF Eq
  <2> QED
    BY <1>2
<1>4. Joins(flatten, ss)
  BY <1>3 DEF Joins, JoinsUpTo
<1> HIDE DEF flatten
<1>5. \A i \in 1..Len(ss) : f[i] = flatten[i]
  BY <1>4, JoinsSame
<1>6. Len(ss) \in 1..Len(ss)
  OBVIOUS
<1>7. QED
  BY <1>1, <1>5, <1>6

\* There is a function that joins.
LEMMA JoinsExist ==
  ASSUME NEW X, NEW ss \in Seq(Seq(X))
  PROVE  \E f \in [1..Len(ss) -> Seq(X)] : Joins(f, ss)
<1> DEFINE Upto(f, k) == JoinsUpTo(f, ss, k)
           Good(k) == k <= Len(ss) => \E f \in [1..k -> Seq(X)] : Upto(f, k)
           C == {k \in Nat : Good(k)}
<1>1. 0 \in C
  <2> DEFINE f == [i \in 1..0 |-> <<>>]
  <2>1. f \in [1..0 -> Seq(X)] /\ Upto(f, 0)
    BY DEF JoinsUpTo
  <2>2. QED
    BY <2>1
<1>2. \A k \in Nat : k \in C => k + 1 \in C
  <2> SUFFICES ASSUME NEW k \in Nat, k \in C, k + 1 <= Len(ss)
               PROVE  \E f \in [1..(k + 1) -> Seq(X)] : Upto(f, k + 1)
    <3> HIDE DEF Upto
    <3> QED
      OBVIOUS
  <2>1. PICK f \in [1..k -> Seq(X)] : Upto(f, k)
    OBVIOUS
  <2> DEFINE last == IF k = 0 THEN ss[1] ELSE f[k] \o ss[k + 1]
             g == [i \in 1..(k + 1) |-> IF i = k + 1 THEN last ELSE f[i]]
  <2>2. last \in Seq(X)
    <3>1. ss[k + 1] \in Seq(X)
      OBVIOUS
    <3>2. k # 0 => f[k] \in Seq(X)
      OBVIOUS
    <3>3. QED
      BY <3>1, <3>2
  <2>3. g \in [1..(k + 1) -> Seq(X)]
    BY <2>2
  <2>4. g[k + 1] = last /\ \A i \in 1..k : g[i] = f[i]
    <3> HIDE DEF last
    <3>1. k + 1 \in 1..(k + 1) /\ \A i \in 1..k : i \in 1..(k + 1) /\ i # k + 1
      OBVIOUS
    <3>2. QED
      BY <3>1
  <2> HIDE DEF g
  <2>5. ASSUME NEW i \in 1..(k + 1)
        PROVE  g[i] = IF i = 1 THEN ss[i] ELSE g[i - 1] \o ss[i]
    <3>1. CASE i = k + 1
      <4>1. CASE k = 0
        BY <2>4, <3>1, <4>1
      <4>2. CASE k # 0
        <5>1. k \in 1..k /\ i - 1 = k /\ i # 1
          BY <3>1, <4>2
        <5>2. g[k] = f[k]
          BY <2>4, <5>1
        <5>3. QED
          BY <2>4, <3>1, <4>2, <5>1, <5>2
      <4>3. QED
        BY <4>1, <4>2
    <3>2. CASE i # k + 1
      <4>1. i \in 1..k /\ (i # 1 => i - 1 \in 1..k)
        BY <3>2
      <4>2. QED
        BY <2>1, <2>4, <4>1 DEF JoinsUpTo
    <3>3. QED
      BY <3>1, <3>2
  <2>6. Upto(g, k + 1)
    BY <2>5 DEF JoinsUpTo
  <2> HIDE DEF Upto
  <2>7. QED
    BY <2>3, <2>6
<1>3. Nat \subseteq C
  <2> HIDE DEF C
  <2> QED
    BY <1>1, <1>2, NatSet
<1>4. PICK f \in [1..Len(ss) -> Seq(X)] : Upto(f, Len(ss))
  <2>1. Len(ss) \in C
    BY <1>3
  <2> HIDE DEF Upto
  <2>2. QED
    BY <2>1
<1>5. QED
  BY <1>4 DEF Joins, JoinsUpTo

\* One sequence more.
LEMMA FlattenAppend ==
  ASSUME NEW X, NEW ss \in Seq(Seq(X)), NEW e \in Seq(X)
  PROVE  /\ FlattenSeq(ss) \in Seq(X)
         /\ FlattenSeq(Append(ss, e)) = FlattenSeq(ss) \o e
<1> DEFINE n == Len(ss)
           tt == Append(ss, e)
<1>1. PICK f \in [1..n -> Seq(X)] : Joins(f, ss)
  BY JoinsExist
<1>2. tt \in Seq(Seq(X)) /\ tt # <<>> /\ Len(tt) = n + 1 /\ n \in Nat
      /\ tt[n + 1] = e /\ \A i \in 1..n : tt[i] = ss[i]
  <2>1. Appended(tt, ss, e, Seq(X))
    BY Appending
  <2> HIDE DEF tt
  <2>2. QED
    BY <2>1 DEF Appended
<1> HIDE DEF tt
<1>3. PICK g \in [1..Len(tt) -> Seq(X)] : Joins(g, tt)
  BY <1>2, JoinsExist
<1>4. FlattenSeq(tt) = g[n + 1]
  BY <1>2, <1>3, FlattenJoins
<1>5. CASE ss = <<>>
  <2>1. n = 0 /\ FlattenSeq(ss) = ss
    BY <1>5 DEF FlattenSeq
  <2>2. g[1] = e
    BY <1>2, <1>3, <2>1 DEF Joins, JoinsUpTo
  <2>3. FlattenSeq(tt) = e
    BY <1>4, <2>1, <2>2
  <2>4. FlattenSeq(ss) \in Seq(X) /\ FlattenSeq(ss) \o e = e
    <3>1. <<>> \o e = e
      BY ConcatEmptySeq
    <3>2. <<>> \in Seq(X)
      OBVIOUS
    <3>3. QED
      BY <1>5, <2>1, <3>1, <3>2
  <2>5. QED
    BY <2>3, <2>4 DEF tt
<1>6. CASE ss # <<>>
  <2>1. FlattenSeq(ss) = f[n] /\ n # 0
    BY <1>1, <1>6, FlattenJoins
  <2>2. Joins(g, ss)
    <3> SUFFICES ASSUME NEW i \in 1..n
                 PROVE  g[i] = IF i = 1 THEN ss[i] ELSE g[i - 1] \o ss[i]
      BY DEF Joins, JoinsUpTo
    <3>1. i \in 1..Len(tt) /\ tt[i] = ss[i]
      BY <1>2
    <3>2. QED
      BY <1>3, <3>1 DEF Joins, JoinsUpTo
  <2>3. f[n] = g[n]
    <3>1. n \in 1..n
      BY <1>2, <2>1
    <3>2. \A i \in 1..Len(ss) : f[i] = g[i]
      BY <1>1, <2>2, JoinsSame
    <3>3. QED
      BY <3>1, <3>2
  <2>4. g[n + 1] = g[n] \o e
    <3>1. n + 1 \in 1..Len(tt) /\ n + 1 # 1 /\ (n + 1) - 1 = n
      BY <1>2, <2>1
    <3>2. QED
      BY <1>2, <1>3, <3>1 DEF Joins, JoinsUpTo
  <2>5. f[n] \in Seq(X)
    <3>1. n \in 1..n
      BY <1>2, <2>1
    <3>2. QED
      BY <1>1, <3>1
  <2>6. QED
    BY <1>4, <2>1, <2>3, <2>4, <2>5 DEF tt
<1>7. QED
  BY <1>5, <1>6

\* The greatest of finitely many numbers is one of them.
LEMMA Greatest ==
  ASSUME NEW S \in SUBSET Int, IsFiniteSet(S), S # {}
  PROVE  Max(S) \in S
<1> DEFINE key == [x \in S |-> -x]
<1>1. Integral(key, S)
  BY DEF Integral
<1>2. PICK x \in S : \A y \in S : key[x] <= key[y]
  <2> HIDE DEF key
  <2> QED
    BY <1>1, Least
<1>3. \A y \in S : x >= y
  <2> SUFFICES ASSUME NEW y \in S PROVE x >= y
    OBVIOUS
  <2>1. key[x] = -x /\ key[y] = -y /\ key[x] <= key[y] /\ x \in Int /\ y \in Int
    BY <1>2
  <2> HIDE DEF key
  <2>2. QED
    BY <2>1
<1>4. QED
  BY <1>3 DEF Max

\* A block is split into parts of some numbers of words.
LEMMA SplitType ==
  ASSUME NEW n \in Nat, NEW sentences \in [1..n -> Nat]
  PROVE  splitLongParagraph(sentences) \in Seq(Nat)
<1> DEFINE D == 1..n
           Total == SumFunction(sentences)
           Join(parts, s) ==
             IF parts # <<>> /\ Last(parts) + s <= MAX_CHUNK_WORDS
             THEN [parts EXCEPT ![Len(parts)] = @ + s]
             ELSE Append(parts, s)
           Eq(h) == h = [U \in SUBSET D |->
                           IF U = {} THEN <<>> ELSE Join(h[U \ {Max(U)}], sentences[Max(U)])]
           iter == CHOOSE h : Eq(h)
<1>1. IsFiniteSet(D)
  BY FS_Interval
<1>2. Total \in Nat
  <2>1. Total = SumFunctionOnSet(sentences, D)
    BY DEF SumFunction
  <2>2. \A i \in D : sentences[i] \in Nat
    OBVIOUS
  <2> HIDE DEF D, Total
  <2>3. QED
    BY <1>1, <2>1, <2>2, SumNatural
<1>3. FoldLeft(Join, <<>>, sentences) = iter[D]
  BY DEF FoldLeft, MapThenFoldSet
<1>4. ASSUME NEW parts \in Seq(Nat), NEW s \in Nat
      PROVE  Join(parts, s) \in Seq(Nat)
  <2>1. CASE parts # <<>>
    <3>1. Len(parts) \in 1..Len(parts) /\ parts[Len(parts)] + s \in Nat
      BY <2>1
    <3>2. [parts EXCEPT ![Len(parts)] = @ + s] \in Seq(Nat)
      BY <3>1
    <3>3. Append(parts, s) \in Seq(Nat)
      OBVIOUS
    <3>4. QED
      BY <3>2, <3>3
  <2>2. CASE parts = <<>>
    BY <2>2
  <2>3. QED
    BY <2>1, <2>2
<1>5. \A U \in SUBSET D : U # {} => Max(U) \in U
  <2> SUFFICES ASSUME NEW U \in SUBSET D, U # {} PROVE Max(U) \in U
    OBVIOUS
  <2>1. IsFiniteSet(U)
    BY <1>1, FS_Subset
  <2>2. U \in SUBSET Int
    OBVIOUS
  <2>3. QED
    BY <2>1, <2>2, Greatest
<1> DEFINE pick == [U \in SUBSET D |-> Max(U)]
           H == [q \in D \X Seq(Nat) |-> Join(q[2], sentences[q[1]])]
<1>6. PICK g \in [SUBSET D -> Seq(Nat)] : Recurs(g, D, <<>>, pick, H)
  <2>1. Picks(pick, D)
    BY <1>5 DEF Picks
  <2>2. H \in [D \X Seq(Nat) -> Seq(Nat)]
    <3> HIDE DEF Join
    <3> SUFFICES ASSUME NEW q \in D \X Seq(Nat) PROVE Join(q[2], sentences[q[1]]) \in Seq(Nat)
      OBVIOUS
    <3>1. q[2] \in Seq(Nat) /\ sentences[q[1]] \in Nat
      OBVIOUS
    <3>2. QED
      BY <1>4, <3>1
  <2>3. <<>> \in Seq(Nat)
    OBVIOUS
  <2> HIDE DEF D, pick, H
  <2>4. QED
    BY <1>1, <2>1, <2>2, <2>3, SetRecursion
<1>7. Eq(g)
  <2> SUFFICES ASSUME NEW U \in SUBSET D
               PROVE  g[U] = IF U = {} THEN <<>> ELSE Join(g[U \ {Max(U)}], sentences[Max(U)])
    OBVIOUS
  <2>1. CASE U = {}
    BY <1>6, <2>1 DEF Recurs
  <2>2. CASE U # {}
    <3>1. pick[U] = Max(U) /\ Max(U) \in D /\ g[U \ {Max(U)}] \in Seq(Nat)
      BY <1>5, <2>2
    <3> HIDE DEF Join, pick
    <3>2. H[<<Max(U), g[U \ {Max(U)}]>>] = Join(g[U \ {Max(U)}], sentences[Max(U)])
      BY <3>1
    <3> HIDE DEF H
    <3>3. g[U] = H[<<pick[U], g[U \ {pick[U]}]>>]
      BY <1>6, <2>2 DEF Recurs
    <3>4. QED
      BY <2>2, <3>1, <3>2, <3>3
  <2>3. QED
    BY <2>1, <2>2
<1>8. Eq(iter)
  <2> HIDE DEF Eq
  <2> QED
    BY <1>7
<1> DEFINE C == {U \in SUBSET D : iter[U] \in Seq(Nat)}
<1> HIDE DEF Join, iter
<1>9. Inductive(D, C)
  <2> SUFFICES ASSUME NEW U \in SUBSET D, \A x \in U : U \ {x} \in C
               PROVE  iter[U] \in Seq(Nat)
    BY DEF Inductive
  <2>1. CASE U = {}
    BY <1>8, <2>1
  <2>2. CASE U # {}
    <3>1. Max(U) \in U /\ iter[U \ {Max(U)}] \in Seq(Nat) /\ sentences[Max(U)] \in Nat
      BY <1>5, <2>2
    <3>2. iter[U] = Join(iter[U \ {Max(U)}], sentences[Max(U)])
      BY <1>8, <2>2
    <3>3. PICK parts \in Seq(Nat), s \in Nat : parts = iter[U \ {Max(U)}] /\ s = sentences[Max(U)]
      BY <3>1
    <3>4. Join(parts, s) \in Seq(Nat)
      BY <1>4
    <3>5. QED
      BY <3>2, <3>3, <3>4
  <2>3. QED
    BY <2>1, <2>2
<1>10. SUBSET D \subseteq C
  <2> HIDE DEF C, D
  <2> QED
    BY <1>1, <1>9, SubsetInduction
<1>11. iter[D] \in Seq(Nat)
  BY <1>10
<1>12. splitLongParagraph(sentences)
         = IF Total <= MAX_CHUNK_WORDS THEN <<Total>> ELSE FoldLeft(Join, <<>>, sentences)
  BY DEF splitLongParagraph, Join
<1>13. QED
  BY <1>2, <1>3, <1>11, <1>12

------------------------------------------------------------------------------
(* Chunks one after another *)

\* The chunks that may be stored.
ChunkSet == {c \in [page : Nat, paragraphs : Seq(Paragraph)] : c.paragraphs # <<>>}

\* What the chunks hold when no paragraph is counted twice, and whether they are all as they should be.
Pieces(all) == [i \in DOMAIN all |-> Fresh(all, i)]
Flat(all) == FlattenSeq(Pieces(all))
Good(all) == \A i \in DOMAIN all : GoodChunk(all, i)

\* The same of a chunk after all the others.
Follows(all, c) == all # <<>> /\ all[Len(all)].page = c.page
LastFresh(all, c) == IF Follows(all, c) THEN Tail(c.paragraphs) ELSE c.paragraphs
GoodLast(all, c) ==
  /\ LastFresh(all, c) # <<>>
  /\ \A j \in DOMAIN c.paragraphs : c.paragraphs[j].page = c.page
  /\ Follows(all, c) =>
        /\ Head(c.paragraphs) = Last(all[Len(all)].paragraphs)
        /\ Words(all[Len(all)].paragraphs) >= MIN_CHUNK_WORDS
  /\ \/ Words(c.paragraphs) <= MAX_CHUNK_WORDS
     \/ Len(LastFresh(all, c)) = 1
     \/ Words(Front(c.paragraphs)) < MIN_CHUNK_WORDS

\* The pieces are sequences of paragraphs, one for each chunk.
LEMMA PiecesType ==
  ASSUME NEW all \in Seq(ChunkSet)
  PROVE  Pieces(all) \in Seq(Seq(Paragraph)) /\ Len(Pieces(all)) = Len(all)
<1>1. Len(all) \in Nat /\ DOMAIN all = 1..Len(all)
  OBVIOUS
<1>2. ASSUME NEW i \in 1..Len(all)
      PROVE  Fresh(all, i) \in Seq(Paragraph)
  <2>1. all[i] \in ChunkSet
    OBVIOUS
  <2>2. all[i].paragraphs \in Seq(Paragraph) /\ all[i].paragraphs # <<>>
    BY <2>1 DEF ChunkSet
  <2>3. PICK ps \in Seq(Paragraph) : ps = all[i].paragraphs /\ ps # <<>>
    BY <2>2
  <2>4. Tail(ps) \in Seq(Paragraph)
    BY <2>3
  <2>5. QED
    BY <2>3, <2>4 DEF Fresh
<1>3. Pieces(all) \in [1..Len(all) -> Seq(Paragraph)]
  BY <1>1, <1>2 DEF Pieces
<1>4. QED
  BY <1>1, <1>3

\* Adding a chunk leaves what was said of the others.
LEMMA ChunkAppended ==
  ASSUME NEW all \in Seq(ChunkSet), NEW c \in ChunkSet
  PROVE  /\ Flat(all) \in Seq(Paragraph) /\ LastFresh(all, c) \in Seq(Paragraph)
         /\ Flat(Append(all, c)) = Flat(all) \o LastFresh(all, c)
         /\ Good(Append(all, c)) <=> Good(all) /\ GoodLast(all, c)
<1> DEFINE n == Len(all)
           bb == Append(all, c)
<1>1. Appended(bb, all, c, ChunkSet)
  BY Appending
<1>2. /\ bb \in Seq(ChunkSet) /\ n \in Nat /\ Len(bb) = n + 1
      /\ DOMAIN all = 1..n /\ DOMAIN bb = 1..(n + 1)
      /\ bb[n + 1] = c /\ \A i \in 1..n : bb[i] = all[i]
  <2> HIDE DEF bb
  <2> QED
    BY <1>1 DEF Appended
<1>3. all # <<>> <=> n # 0
  OBVIOUS
<1> HIDE DEF bb, n
<1>4. ASSUME NEW i \in 1..n
      PROVE  /\ SamePage(bb, i) <=> SamePage(all, i)
             /\ Fresh(bb, i) = Fresh(all, i)
             /\ GoodChunk(bb, i) <=> GoodChunk(all, i)
  <2>1. bb[i] = all[i] /\ (i > 1 => bb[i - 1] = all[i - 1])
    BY <1>2
  <2>2. SamePage(bb, i) <=> SamePage(all, i)
    BY <2>1 DEF SamePage
  <2>3. Fresh(bb, i) = Fresh(all, i)
    BY <2>1, <2>2 DEF Fresh
  <2>4. SamePage(all, i) => bb[i - 1] = all[i - 1]
    BY <2>1 DEF SamePage
  <2>5. GoodChunk(bb, i) <=> GoodChunk(all, i)
    BY <2>1, <2>2, <2>3, <2>4 DEF GoodChunk
  <2>6. QED
    BY <2>2, <2>3, <2>5
<1>5. SamePage(bb, n + 1) <=> Follows(all, c)
  <2>1. CASE n = 0
    BY <1>2, <1>3, <2>1 DEF SamePage, Follows
  <2>2. CASE n # 0
    <3>1. n + 1 > 1 /\ (n + 1) - 1 = n /\ bb[n] = all[n]
      BY <1>2, <2>2
    <3>2. QED
      BY <1>2, <1>3, <2>2, <3>1 DEF SamePage, Follows, n
  <2>3. QED
    BY <2>1, <2>2
<1>6. Fresh(bb, n + 1) = LastFresh(all, c)
  BY <1>2, <1>5 DEF Fresh, LastFresh
<1>7. GoodChunk(bb, n + 1) <=> GoodLast(all, c)
  <2>1. Follows(all, c) => bb[(n + 1) - 1] = all[Len(all)]
    <3>1. Follows(all, c) => n # 0
      BY <1>3 DEF Follows
    <3>2. n # 0 => (n + 1) - 1 = n /\ bb[n] = all[n]
      BY <1>2
    <3>3. QED
      BY <3>1, <3>2 DEF n
  <2>2. QED
    BY <1>2, <1>5, <1>6, <2>1 DEF GoodChunk, GoodLast
<1>8. Good(bb) <=> Good(all) /\ GoodLast(all, c)
  <2>1. 1..(n + 1) = (1..n) \cup {n + 1}
    BY <1>2
  <2>2. QED
    BY <1>2, <1>4, <1>7, <2>1 DEF Good
<1>9. Pieces(all) \in Seq(Seq(Paragraph)) /\ Len(Pieces(all)) = n
      /\ Pieces(bb) \in Seq(Seq(Paragraph)) /\ Len(Pieces(bb)) = n + 1
  BY <1>2, PiecesType DEF n
<1>10. LastFresh(all, c) \in Seq(Paragraph)
  <2>1. n + 1 \in 1..(n + 1) /\ Pieces(bb)[n + 1] \in Seq(Paragraph)
    BY <1>2, <1>9
  <2>2. QED
    BY <1>2, <1>6, <2>1 DEF Pieces
<1>11. Pieces(bb) = Append(Pieces(all), LastFresh(all, c))
  <2>1. Appended(Append(Pieces(all), LastFresh(all, c)), Pieces(all), LastFresh(all, c), Seq(Paragraph))
    BY <1>9, <1>10, Appending
  <2> DEFINE tt == Append(Pieces(all), LastFresh(all, c))
  <2> HIDE DEF tt
  <2>2. tt \in Seq(Seq(Paragraph)) /\ Len(tt) = n + 1 /\ tt[n + 1] = LastFresh(all, c)
        /\ \A i \in 1..n : tt[i] = Pieces(all)[i]
    BY <1>9, <2>1 DEF Appended, tt
  <2>3. \A i \in 1..(n + 1) : Pieces(bb)[i] = tt[i]
    <3>1. Pieces(bb)[n + 1] = tt[n + 1]
      BY <1>2, <1>6, <2>2 DEF Pieces
    <3>2. \A i \in 1..n : Pieces(bb)[i] = tt[i]
      BY <1>2, <1>4, <2>2 DEF Pieces
    <3>3. 1..(n + 1) = (1..n) \cup {n + 1}
      BY <1>2
    <3>4. QED
      BY <3>1, <3>2, <3>3
  <2>4. QED
    BY <1>9, <2>2, <2>3, SeqEqual DEF tt
<1>12. Flat(all) \in Seq(Paragraph) /\ Flat(bb) = Flat(all) \o LastFresh(all, c)
  BY <1>9, <1>10, <1>11, FlattenAppend DEF Flat
<1>13. QED
  BY <1>8, <1>10, <1>12 DEF bb

------------------------------------------------------------------------------
(* The loop over the pages *)

\* What the loop over the pages maintains: it works on the paragraphs of one page, the
\* chunks of earlier pages are behind it, and the page has a chunk only with more to come.
ChunkInv ==
  /\ page \in Nat /\ text \in Seq(Paragraph) /\ pending \in Seq(Paragraph)
  /\ current \in Seq(Paragraph) /\ chunks \in Seq(ChunkSet)
  /\ hasNewContent \in BOOLEAN /\ (hasNewContent <=> current # <<>>)
  /\ \A j \in DOMAIN pending : pending[j].page = page
  /\ \A j \in DOMAIN current : current[j].page = page
  /\ \A i \in DOMAIN chunks : chunks[i].page <= page /\ (~hasNewContent => chunks[i].page < page)
  /\ ChunksKeepParagraphs

\* The paragraphs read are those of the chunks, of the one that grows, and those to come.
Kept(all, rest, txt) == Flat(all) \o rest = txt /\ Good(all)

\* The property says this of the chunks so far.
LEMMA KeepsMeans == ChunksKeepParagraphs <=> Kept(ChunksSoFar, pending, text)
BY DEF ChunksKeepParagraphs, Kept, Flat, Pieces, Good

\* Two sequences joined, and then a third.
Joined(X, s, t, u) == s \o t \in Seq(X) /\ (s \o t) \o u = s \o (t \o u)

\* Joined is what concatenation gives.
LEMMA Joining ==
  ASSUME NEW X, NEW s \in Seq(X), NEW t \in Seq(X), NEW u \in Seq(X)
  PROVE  Joined(X, s, t, u)
BY ConcatAssociative, ConcatProperties DEF Joined

\* A paragraph moves from those to come to the last of a chunk.
Passed(f, q) == (f \o <<Head(q)>>) \o Tail(q) = f \o q
PassedTo(f, r, q) == (f \o Append(r, Head(q))) \o Tail(q) = (f \o r) \o q

\* Passing a paragraph on loses none: as the first of a chunk,
LEMMA Passing ==
  ASSUME NEW X, NEW f \in Seq(X), NEW q \in Seq(X), q # <<>>
  PROVE  Passed(f, q)
<1>1. Head(q) \in X /\ Tail(q) \in Seq(X)
  OBVIOUS
<1>2. <<Head(q)>> \in Seq(X) /\ <<Head(q)>> \o Tail(q) = q
  BY <1>1
<1>3. PICK h \in Seq(X), t \in Seq(X) : h = <<Head(q)>> /\ t = Tail(q) /\ h \o t = q
  BY <1>1, <1>2
<1>4. Joined(X, f, h, t)
  BY Joining
<1>5. QED
  BY <1>3, <1>4 DEF Joined, Passed

\* or as the last of one.
LEMMA PassingTo ==
  ASSUME NEW X, NEW f \in Seq(X), NEW r \in Seq(X), NEW q \in Seq(X), q # <<>>
  PROVE  PassedTo(f, r, q)
<1>1. Head(q) \in X /\ Tail(q) \in Seq(X)
  OBVIOUS
<1>2. Append(r, Head(q)) = r \o <<Head(q)>> /\ <<Head(q)>> \in Seq(X)
  BY <1>1, AppendIsConcat
<1>3. PICK h \in Seq(X) : h = <<Head(q)>>
  BY <1>2
<1>4. Joined(X, f, r, h)
  BY Joining
<1>5. PICK g \in Seq(X) : g = f \o r
  BY <1>4 DEF Joined
<1>6. Passed(g, q)
  BY Passing
<1>7. QED
  BY <1>2, <1>3, <1>4, <1>5, <1>6 DEF Joined, Passed, PassedTo

\* No text and no chunk to start with.
LEMMA ChunkStart == ChunkInit => ChunkInv
<1> SUFFICES ASSUME ChunkInit PROVE ChunkInv
  OBVIOUS
<1>1. page = 1 /\ text = <<>> /\ pending = <<>> /\ current = <<>> /\ hasNewContent = FALSE /\ chunks = <<>>
  BY DEF ChunkInit
<1>2. ChunksSoFar = <<>>
  BY <1>1 DEF ChunksSoFar
<1>3. Flat(<<>>) = <<>>
  <2>1. Pieces(<<>>) \in Seq(Seq(Paragraph)) /\ Len(Pieces(<<>>)) = 0
    <3>1. <<>> \in Seq(ChunkSet) /\ Len(<<>>) = 0
      OBVIOUS
    <3>2. PICK e \in Seq(ChunkSet) : e = <<>> /\ Len(e) = 0
      BY <3>1
    <3>3. Pieces(e) \in Seq(Seq(Paragraph)) /\ Len(Pieces(e)) = Len(e)
      BY PiecesType
    <3>4. QED
      BY <3>2, <3>3
  <2>2. Pieces(<<>>) = <<>>
    BY <2>1
  <2>3. QED
    BY <2>2 DEF Flat, FlattenSeq
<1>4. Kept(<<>>, <<>>, <<>>)
  BY <1>3 DEF Kept, Good
<1>5. ChunksKeepParagraphs
  BY <1>1, <1>2, <1>4, KeepsMeans
<1>6. /\ <<>> \in Seq(Paragraph) /\ <<>> \in Seq(ChunkSet) /\ DOMAIN <<>> = {}
  OBVIOUS
<1>7. QED
  BY <1>1, <1>5, <1>6 DEF ChunkInv

\* The chunk that grows.
LEMMA ChunkType ==
  ASSUME ChunkInv, hasNewContent
  PROVE  Chunk \in ChunkSet /\ ChunksSoFar = Append(chunks, Chunk)
BY DEF ChunkInv, Chunk, ChunkSet, ChunksSoFar

\* paragraphsOf adds paragraphs of the page, to the text and to those to come.
LEMMA ReadBlockKeeps ==
  ASSUME ChunkInv, ReadBlock
  PROVE  ChunkInv'
<1> DEFINE Block(sentences) ==
             [i \in DOMAIN splitLongParagraph(sentences) |->
                [page |-> page, place |-> Len(text) + i, size |-> splitLongParagraph(sentences)[i]]]
<1>0. PICK n \in 1..MaxSentences : \E sentences \in [1..n -> Sentences] :
         text' = text \o Block(sentences) /\ pending' = pending \o Block(sentences)
  BY DEF ReadBlock
<1>1. PICK sentences \in [1..n -> Sentences] :
         text' = text \o Block(sentences) /\ pending' = pending \o Block(sentences)
  BY <1>0
<1> DEFINE new == Block(sentences)
<1>2. PICK parts \in Seq(Nat) : parts = splitLongParagraph(sentences)
  <2>1. n \in Nat /\ sentences \in [1..n -> Nat]
    <3>1. MaxSentences \in Nat /\ \A x \in Sentences : x \in Nat
      BY ChunkAssumption
    <3>2. n \in Nat
      BY <3>1
    <3>3. QED
      BY <3>1
  <2>2. QED
    BY <2>1, SplitType
<1>3. new \in Seq(Paragraph) /\ \A j \in DOMAIN new : new[j].page = page
  <2>1. DOMAIN parts = 1..Len(parts) /\ Len(parts) \in Nat /\ \A i \in 1..Len(parts) : parts[i] \in Nat
    OBVIOUS
  <2>2. page \in Nat /\ Len(text) \in Nat
    BY DEF ChunkInv
  <2>3. new = [i \in 1..Len(parts) |-> [page |-> page, place |-> Len(text) + i, size |-> parts[i]]]
    BY <1>1, <1>2, <2>1
  <2>4. \A i \in 1..Len(parts) : new[i] \in Paragraph /\ new[i].page = page
    <3> HIDE DEF new
    <3>1. SUFFICES ASSUME NEW i \in 1..Len(parts) PROVE new[i] \in Paragraph /\ new[i].page = page
      OBVIOUS
    <3>2. new[i] = [page |-> page, place |-> Len(text) + i, size |-> parts[i]]
      BY <2>3
    <3>3. page \in Nat /\ Len(text) + i \in Nat /\ parts[i] \in Nat
      BY <2>1, <2>2
    <3>4. QED
      BY <3>2, <3>3 DEF Paragraph
  <2>5. new \in [1..Len(parts) -> Paragraph]
    BY <2>3, <2>4
  <2>6. QED
    BY <2>1, <2>4, <2>5
<1> HIDE DEF new
<1>4. UNCHANGED <<page, current, hasNewContent, chunks>> /\ current = <<>> /\ ~hasNewContent
  BY DEF ReadBlock, ChunkInv
<1>5. text \in Seq(Paragraph) /\ pending \in Seq(Paragraph) /\ chunks \in Seq(ChunkSet)
  BY DEF ChunkInv
<1>6. text' \in Seq(Paragraph) /\ pending' \in Seq(Paragraph)
  BY <1>1, <1>3, <1>5 DEF new
<1>7. \A j \in DOMAIN pending' : pending'[j].page = page
  <2>1. \A j \in 1..(Len(pending) + Len(new)) :
          (pending \o new)[j] = IF j <= Len(pending) THEN pending[j] ELSE new[j - Len(pending)]
    BY <1>3, <1>5, ConcatProperties
  <2>2. Len(pending) \in Nat /\ Len(new) \in Nat /\ DOMAIN new = 1..Len(new)
        /\ DOMAIN pending = 1..Len(pending) /\ DOMAIN pending' = 1..(Len(pending) + Len(new))
    BY <1>1, <1>3, <1>5 DEF new
  <2>3. \A j \in DOMAIN pending : pending[j].page = page
    BY DEF ChunkInv
  <2>4. SUFFICES ASSUME NEW j \in 1..(Len(pending) + Len(new)) PROVE pending'[j].page = page
    BY <2>2
  <2>5. CASE j <= Len(pending)
    BY <1>1, <2>1, <2>2, <2>3, <2>5 DEF new
  <2>6. CASE ~ j <= Len(pending)
    <3>1. j - Len(pending) \in DOMAIN new
      BY <2>2, <2>6
    <3>2. pending'[j] = new[j - Len(pending)]
      BY <1>1, <2>1, <2>6 DEF new
    <3>3. QED
      BY <1>3, <3>1, <3>2
  <2>7. QED
    BY <2>5, <2>6
<1>8. ChunksKeepParagraphs'
  <2>1. ChunksSoFar = chunks /\ ChunksSoFar' = chunks
    BY <1>4 DEF ChunksSoFar
  <2>2. Kept(chunks, pending, text)
    BY <2>1, KeepsMeans DEF ChunkInv
  <2>3. Flat(chunks) \in Seq(Paragraph)
    BY <1>5, PiecesType, FlattenAppend DEF Flat
  <2>4. Flat(chunks) \o (pending \o new) = (Flat(chunks) \o pending) \o new
    <3>1. Joined(Paragraph, Flat(chunks), pending, new)
      BY <1>3, <1>5, <2>3, Joining
    <3>2. QED
      BY <3>1 DEF Joined
  <2>5. Kept(chunks, pending', text')
    BY <1>1, <2>2, <2>4 DEF Kept, new
  <2>6. ChunksKeepParagraphs' <=> Kept(ChunksSoFar', pending', text')
    BY DEF ChunksKeepParagraphs, Kept, Flat, Pieces, Good
  <2>7. QED
    BY <2>1, <2>5, <2>6
<1>9. QED
  BY <1>4, <1>6, <1>7, <1>8 DEF ChunkInv

------------------------------------------------------------------------------
(* A chunk that grows and the next one *)

\* Append and Front undo each other.
LEMMA FrontOfAppend ==
  ASSUME NEW X, NEW s \in Seq(X), NEW e \in X
  PROVE  Front(Append(s, e)) = s
<1> DEFINE t == Append(s, e)
           f == SubSeq(t, 1, Len(s))
<1>1. Appended(t, s, e, X)
  BY Appending
<1>2. Len(s) \in Nat /\ t \in Seq(X) /\ Len(t) = Len(s) + 1 /\ \A i \in 1..Len(s) : t[i] = s[i]
  <2> HIDE DEF t
  <2> QED
    BY <1>1 DEF Appended
<1> HIDE DEF t
<1>3. Front(t) = f
  BY <1>2 DEF Front
<1>4. FirstOf(f, X, t, Len(s))
  BY <1>2, Prefix
<1> HIDE DEF f
<1>5. f \in Seq(X) /\ Len(f) = Len(s) /\ \A i \in 1..Len(s) : f[i] = s[i]
  BY <1>2, <1>4 DEF FirstOf
<1>6. f = s
  BY <1>5, SeqEqual
<1>7. QED
  BY <1>3, <1>6 DEF t

\* The overlap is the last paragraph alone.
LEMMA LastOne ==
  ASSUME NEW X, NEW s \in Seq(X), s # <<>>
  PROVE  overlap(s) = <<Last(s)>> /\ Last(s) \in X /\ Len(s) \in DOMAIN s
<1> DEFINE n == Len(s)
           t == SubSeq(s, n, n)
<1>1. n \in Nat \ {0} /\ n <= Len(s) /\ n \in DOMAIN s /\ s[n] \in X
  OBVIOUS
<1> HIDE DEF n
<1>2. t \in Seq(X) /\ (Len(t) = IF n <= n THEN n - n + 1 ELSE 0)
      /\ \A i \in 1..(n - n + 1) : t[i] = s[n + i - 1]
  BY ONLY <1>1, s \in Seq(X), Part
<1> HIDE DEF t
<1>3. Len(t) = 1 /\ t[1] = s[n]
  <2>1. 1 \in 1..(n - n + 1) /\ n + 1 - 1 = n /\ n - n + 1 = 1 /\ n <= n
    BY <1>1
  <2>2. QED
    BY <1>2, <2>1
<1>4. t = <<s[n]>>
  BY <1>2, <1>3
<1>5. QED
  BY <1>1, <1>4 DEF overlap, Last, t, n

\* A chunk of the overlap and one paragraph more.
LEMMA TwoOf ==
  ASSUME NEW X, NEW l \in X, NEW p \in X
  PROVE  /\ Append(<<l>>, p) = <<l, p>> /\ <<l, p>> \in Seq(X) /\ <<l, p>> # <<>>
         /\ DOMAIN <<l, p>> = {1, 2} /\ <<l, p>>[1] = l /\ <<l, p>>[2] = p
<1>1. <<l>> \in Seq(X) /\ Len(<<l>>) = 1 /\ <<l>>[1] = l
  OBVIOUS
<1>2. <<l, p>> \in Seq(X) /\ Len(<<l, p>>) = 2 /\ <<l, p>>[1] = l /\ <<l, p>>[2] = p
  OBVIOUS
<1>3. Append(<<l>>, p) = <<l, p>>
  <2>1. Appended(Append(<<l>>, p), <<l>>, p, X)
    BY <1>1, Appending
  <2> DEFINE s == <<l>>
             t == Append(s, p)
  <2> HIDE DEF t, s
  <2>2. Len(s) = 1 /\ s[1] = l
    BY <1>1 DEF s
  <2>3. Appended(t, s, p, X)
    BY <2>1 DEF t, s
  <2>4. t \in Seq(X) /\ Len(t) = 2 /\ t[1] = l /\ t[2] = p
    BY <2>2, <2>3 DEF Appended
  <2>5. t = <<l, p>>
    BY <2>4
  <2>6. QED
    BY <2>5 DEF t, s
<1>4. DOMAIN <<l, p>> = {1, 2} /\ <<l, p>> # <<>>
  OBVIOUS
<1>5. QED
  BY <1>2, <1>3, <1>4

\* A paragraph still fits, or the chunk is too small to end.
Room(ps, p) == (Words(ps) + p.size <= MAX_CHUNK_WORDS) \/ (Words(ps) < MIN_CHUNK_WORDS)

\* A chunk that grew by a paragraph is as it should be, and holds that one more.
Grown(all, c, d, p) ==
  /\ d \in ChunkSet /\ GoodLast(all, d)
  /\ LastFresh(all, c) \in Seq(Paragraph) /\ LastFresh(all, d) = Append(LastFresh(all, c), p)

\* A paragraph joins the chunk that grows, which is not full or is still too small.
LEMMA Grows ==
  ASSUME NEW all \in Seq(ChunkSet), NEW ps \in Seq(Paragraph), ps # <<>>,
         NEW g \in Nat, NEW p \in Paragraph, p.page = g,
         NEW c, c = [page |-> g, paragraphs |-> ps], GoodLast(all, c),
         NEW d, d = [page |-> g, paragraphs |-> Append(ps, p)],
         Room(ps, p)
  PROVE  Grown(all, c, d, p)
<1> DEFINE qs == Append(ps, p)
<1>1. Appended(qs, ps, p, Paragraph)
  BY Appending
<1>2. Head(qs) = Head(ps) /\ Tail(qs) = Append(Tail(ps), p)
  BY HeadTailAppend
<1>3. Front(qs) = ps
  BY FrontOfAppend
<1>4. Words(qs) = Words(ps) + p.size
  BY WordsAppend
<1>5. Tail(ps) \in Seq(Paragraph)
  OBVIOUS
<1> HIDE DEF qs
<1>6. qs \in Seq(Paragraph) /\ qs # <<>> /\ DOMAIN qs = (DOMAIN ps) \cup {Len(ps) + 1}
      /\ qs[Len(ps) + 1] = p /\ \A i \in DOMAIN ps : qs[i] = ps[i]
  BY <1>1 DEF Appended
<1>7. d.page = g /\ d.paragraphs = qs /\ c.page = g /\ c.paragraphs = ps
  BY DEF qs
<1>8. d \in ChunkSet
  BY <1>6, <1>7 DEF ChunkSet, qs
<1>9. Follows(all, c) <=> Follows(all, d)
  BY <1>7 DEF Follows
<1>10. LastFresh(all, c) \in Seq(Paragraph) /\ LastFresh(all, d) = Append(LastFresh(all, c), p)
  BY <1>2, <1>5, <1>7, <1>9 DEF LastFresh, qs
<1>11. LastFresh(all, d) # <<>>
  <2>1. Appended(LastFresh(all, d), LastFresh(all, c), p, Paragraph)
    BY <1>10, Appending
  <2>2. QED
    BY <2>1 DEF Appended
<1>12. \A j \in DOMAIN qs : qs[j].page = g
  <2>1. \A j \in DOMAIN ps : ps[j].page = g
    BY <1>7 DEF GoodLast
  <2>2. QED
    BY <1>6, <2>1
<1>13. GoodLast(all, d)
  BY <1>2, <1>3, <1>4, <1>7, <1>9, <1>11, <1>12 DEF GoodLast, Room
<1>14. QED
  BY <1>8, <1>10, <1>13 DEF Grown

\* The first paragraph of a page starts a chunk.
LEMMA Opens ==
  ASSUME NEW all \in Seq(ChunkSet), NEW g \in Nat, NEW p \in Paragraph, p.page = g,
         \A i \in DOMAIN all : all[i].page < g,
         NEW d, d = [page |-> g, paragraphs |-> <<p>>]
  PROVE  d \in ChunkSet /\ GoodLast(all, d) /\ LastFresh(all, d) = <<p>>
<1>1. d.page = g /\ d.paragraphs = <<p>> /\ <<p>> \in Seq(Paragraph) /\ <<p>> # <<>>
  OBVIOUS
<1>2. ~Follows(all, d)
  <2> SUFFICES ASSUME all # <<>> PROVE all[Len(all)].page # g
    BY <1>1 DEF Follows
  <2>1. Len(all) \in DOMAIN all /\ all[Len(all)] \in ChunkSet
    OBVIOUS
  <2>2. all[Len(all)].page < g /\ all[Len(all)].page \in Nat
    BY <2>1 DEF ChunkSet
  <2>3. QED
    BY <2>2
<1>3. LastFresh(all, d) = <<p>>
  BY <1>1, <1>2 DEF LastFresh
<1>4. d \in ChunkSet
  BY <1>1 DEF ChunkSet
<1>5. Len(<<p>>) = 1 /\ DOMAIN <<p>> = {1} /\ <<p>>[1] = p
  OBVIOUS
<1>6. GoodLast(all, d)
  BY <1>1, <1>2, <1>3, <1>5 DEF GoodLast
<1>7. QED
  BY <1>3, <1>4, <1>6

\* A chunk that is full is followed by one that starts with its last paragraph.
LEMMA Continues ==
  ASSUME NEW all \in Seq(ChunkSet), NEW ps \in Seq(Paragraph), ps # <<>>,
         NEW g \in Nat, NEW p \in Paragraph, p.page = g,
         NEW c, c = [page |-> g, paragraphs |-> ps], GoodLast(all, c), c \in ChunkSet,
         NEW d, d = [page |-> g, paragraphs |-> <<Last(ps), p>>],
         Words(ps) >= MIN_CHUNK_WORDS
  PROVE  /\ d \in ChunkSet /\ GoodLast(Append(all, c), d)
         /\ LastFresh(Append(all, c), d) = <<p>>
<1> DEFINE bb == Append(all, c)
           qs == <<Last(ps), p>>
<1>1. Appended(bb, all, c, ChunkSet)
  BY Appending
<1> HIDE DEF bb
<1>2. bb # <<>> /\ bb[Len(bb)] = c
  BY <1>1 DEF Appended
<1>3. Last(ps) \in Paragraph /\ Last(ps).page = g
  <2>1. Len(ps) \in DOMAIN ps /\ ps[Len(ps)] \in Paragraph
    OBVIOUS
  <2>2. c.paragraphs = ps /\ c.page = g
    OBVIOUS
  <2>3. \A j \in DOMAIN ps : ps[j].page = g
    BY <2>2 DEF GoodLast
  <2>4. QED
    BY <2>1, <2>3 DEF Last
<1>4. qs \in Seq(Paragraph) /\ qs # <<>> /\ Head(qs) = Last(ps) /\ Tail(qs) = <<p>> /\ Len(<<p>>) = 1
      /\ \A j \in DOMAIN qs : qs[j].page = g
  <2>1. PICK l \in Paragraph : l = Last(ps) /\ l.page = g
    BY <1>3
  <2>2. <<l, p>> \in Seq(Paragraph) /\ <<l, p>> # <<>> /\ Head(<<l, p>>) = l /\ Tail(<<l, p>>) = <<p>>
        /\ Len(<<p>>) = 1 /\ DOMAIN <<l, p>> = {1, 2} /\ <<l, p>>[1] = l /\ <<l, p>>[2] = p
    OBVIOUS
  <2>3. QED
    BY <2>1, <2>2
<1> HIDE DEF qs
<1>5. d.page = g /\ d.paragraphs = qs /\ c.page = g /\ c.paragraphs = ps
  BY DEF qs
<1>6. Follows(bb, d)
  BY <1>2, <1>5 DEF Follows
<1>7. LastFresh(bb, d) = <<p>>
  BY <1>4, <1>5, <1>6 DEF LastFresh
<1>8. d \in ChunkSet
  BY <1>4, <1>5 DEF ChunkSet, qs
<1>9. <<p>> # <<>>
  OBVIOUS
<1>10. GoodLast(bb, d)
  BY <1>2, <1>4, <1>5, <1>7, <1>9 DEF GoodLast
<1>11. QED
  BY <1>7, <1>8, <1>10 DEF bb

------------------------------------------------------------------------------
(* Every step *)

\* What a step that takes a paragraph has to show.
LEMMA TakeEnds ==
  ASSUME ChunkInv, Take,
         chunks' \in Seq(ChunkSet), current' \in Seq(Paragraph), current' # <<>>,
         \A j \in DOMAIN current' : current'[j].page = page,
         \A i \in DOMAIN chunks' : chunks'[i].page <= page,
         NEW d, d = [page |-> page, paragraphs |-> current'],
         Kept(Append(chunks', d), Tail(pending), text)
  PROVE  ChunkInv'
<1>1. UNCHANGED <<page, blocks, text>> /\ pending' = Tail(pending) /\ hasNewContent' = TRUE /\ pending # <<>>
  BY DEF Take
<1>2. pending' \in Seq(Paragraph) /\ \A j \in DOMAIN pending' : pending'[j].page = page
  <2>1. PICK q \in Seq(Paragraph) : q = pending /\ q # <<>> /\ \A j \in DOMAIN q : q[j].page = page
    BY <1>1 DEF ChunkInv
  <2>2. Tail(q) \in Seq(Paragraph) /\ \A j \in DOMAIN Tail(q) : j + 1 \in DOMAIN q /\ Tail(q)[j] = q[j + 1]
    BY <2>1
  <2>3. QED
    BY <1>1, <2>1, <2>2
<1>3. ChunksSoFar' = Append(chunks', d)
  BY <1>1 DEF ChunksSoFar, Chunk
<1>4. ChunksKeepParagraphs'
  <2>1. ChunksKeepParagraphs' <=> Kept(ChunksSoFar', pending', text')
    BY DEF ChunksKeepParagraphs, Kept, Flat, Pieces, Good
  <2>2. QED
    BY <1>1, <1>3, <2>1
<1>5. page \in Nat /\ text \in Seq(Paragraph)
  BY DEF ChunkInv
<1>6. QED
  BY <1>1, <1>2, <1>4, <1>5 DEF ChunkInv

\* Taking a paragraph keeps ChunkInv: it joins the chunk, opens one, or ends one
\* and opens the next.
LEMMA TakeKeeps ==
  ASSUME ChunkInv, Take
  PROVE  ChunkInv'
<1> DEFINE p == Head(pending)
           full == isFull(p.size)
           c == [page |-> page, paragraphs |-> current]
           d == [page |-> page, paragraphs |-> current']
<1>0. /\ page \in Nat /\ text \in Seq(Paragraph) /\ pending \in Seq(Paragraph) /\ pending # <<>>
      /\ current \in Seq(Paragraph) /\ chunks \in Seq(ChunkSet)
      /\ hasNewContent \in BOOLEAN /\ (hasNewContent <=> current # <<>>)
      /\ \A j \in DOMAIN current : current[j].page = page
      /\ \A i \in DOMAIN chunks : chunks[i].page <= page /\ (~hasNewContent => chunks[i].page < page)
      /\ Kept(ChunksSoFar, pending, text)
  BY KeepsMeans DEF ChunkInv, Take
<1>1. p \in Paragraph /\ p.page = page
  <2>1. PICK q \in Seq(Paragraph) : q = pending /\ q # <<>> /\ \A j \in DOMAIN q : q[j].page = page
    BY <1>0 DEF ChunkInv
  <2>2. 1 \in DOMAIN q /\ q[1] \in Paragraph /\ Head(q) = q[1]
    BY <2>1
  <2>3. QED
    BY <2>1, <2>2
<1>2. /\ chunks' = IF full THEN Append(chunks, Chunk) ELSE chunks
      /\ current' = Append(IF full THEN overlap(current) ELSE current, p)
  BY DEF Take
<1>3. Chunk = c
  BY DEF Chunk
<1>4. \A all \in Seq(ChunkSet) : Flat(all) \in Seq(Paragraph)
  BY PiecesType, FlattenAppend DEF Flat
<1> HIDE DEF p, full, c, d
<1>5. /\ \A f \in Seq(Paragraph) : (f \o <<p>>) \o Tail(pending) = f \o pending
      /\ \A f, r \in Seq(Paragraph) : (f \o Append(r, p)) \o Tail(pending) = (f \o r) \o pending
  <2>1. /\ \A f \in Seq(Paragraph) : Passed(f, pending)
        /\ \A f, r \in Seq(Paragraph) : PassedTo(f, r, pending)
    BY <1>0, Passing, PassingTo
  <2>2. QED
    BY <2>1 DEF p, Passed, PassedTo
<1>6. CASE ~hasNewContent
  <2>1. ~full /\ current = <<>>
    BY <1>0, <1>6 DEF full, isFull
  <2>2. chunks' = chunks /\ current' = <<p>>
    BY <1>2, <2>1
  <2>3. d = [page |-> page, paragraphs |-> <<p>>]
    BY <2>2 DEF d
  <2>4. d \in ChunkSet /\ GoodLast(chunks, d) /\ LastFresh(chunks, d) = <<p>>
    BY <1>0, <1>1, <1>6, <2>3, Opens
  <2>5. /\ Flat(Append(chunks, d)) = Flat(chunks) \o <<p>>
        /\ Good(Append(chunks, d)) <=> Good(chunks) /\ GoodLast(chunks, d)
    BY <1>0, <2>4, ChunkAppended
  <2>6. Kept(chunks, pending, text)
    BY <1>0, <1>6 DEF ChunksSoFar
  <2>7. Kept(Append(chunks, d), Tail(pending), text)
    <3>1. (Flat(chunks) \o <<p>>) \o Tail(pending) = Flat(chunks) \o pending
      BY <1>0, <1>4, <1>5
    <3>2. QED
      BY <2>4, <2>5, <2>6, <3>1 DEF Kept
  <2>8. current' \in Seq(Paragraph) /\ current' # <<>> /\ \A j \in DOMAIN current' : current'[j].page = page
    <3>1. <<p>> \in Seq(Paragraph) /\ <<p>> # <<>> /\ DOMAIN <<p>> = {1} /\ <<p>>[1] = p
      BY <1>1
    <3>2. QED
      BY <1>1, <2>2, <3>1
  <2>9. d = [page |-> page, paragraphs |-> current']
    BY DEF d
  <2>10. QED
    BY <1>0, <2>2, <2>7, <2>8, <2>9, TakeEnds
<1>7. CASE hasNewContent
  <2>1. current # <<>> /\ c \in ChunkSet /\ ChunksSoFar = Append(chunks, c)
    BY <1>0, <1>3, <1>7, ChunkType
  <2>2. /\ Flat(Append(chunks, c)) = Flat(chunks) \o LastFresh(chunks, c)
        /\ LastFresh(chunks, c) \in Seq(Paragraph)
        /\ Good(Append(chunks, c)) <=> Good(chunks) /\ GoodLast(chunks, c)
    BY <1>0, <2>1, ChunkAppended
  <2>3. /\ Good(chunks) /\ GoodLast(chunks, c)
        /\ (Flat(chunks) \o LastFresh(chunks, c)) \o pending = text
    BY <1>0, <2>1, <2>2 DEF Kept
  <2>4. c = [page |-> page, paragraphs |-> current] /\ d = [page |-> page, paragraphs |-> current']
    BY DEF c, d
  <2>5. CASE ~full
    <3>1. chunks' = chunks /\ current' = Append(current, p)
      BY <1>2, <2>5
    <3>2. Room(current, p)
      <4>1. Words(current) \in Nat /\ p.size \in Nat
        BY <1>0, <1>1, WordsAppend DEF Paragraph
      <4>2. MIN_CHUNK_WORDS \in Nat /\ MAX_CHUNK_WORDS \in Nat
        BY ChunkAssumption
      <4>3. ~(Words(current) + p.size > MAX_CHUNK_WORDS /\ Words(current) >= MIN_CHUNK_WORDS)
        BY <1>7, <2>5 DEF full, isFull
      <4>4. QED
        BY <4>1, <4>2, <4>3 DEF Room
    <3>3. d = [page |-> page, paragraphs |-> Append(current, p)]
      BY <2>4, <3>1
    <3>4. /\ d \in ChunkSet /\ GoodLast(chunks, d)
          /\ LastFresh(chunks, d) = Append(LastFresh(chunks, c), p)
      <4>1. Grown(chunks, c, d, p)
        BY <1>0, <1>1, <2>1, <2>3, <2>4, <3>2, <3>3, Grows
      <4>2. QED
        BY <4>1 DEF Grown
    <3>5. /\ Flat(Append(chunks, d)) = Flat(chunks) \o LastFresh(chunks, d)
          /\ Good(Append(chunks, d)) <=> Good(chunks) /\ GoodLast(chunks, d)
      BY <1>0, <3>4, ChunkAppended
    <3>6. (Flat(chunks) \o Append(LastFresh(chunks, c), p)) \o Tail(pending)
            = (Flat(chunks) \o LastFresh(chunks, c)) \o pending
      BY <1>0, <1>4, <1>5, <2>2
    <3>7. Kept(Append(chunks, d), Tail(pending), text)
      BY <2>3, <3>4, <3>5, <3>6 DEF Kept
    <3>8. current' \in Seq(Paragraph) /\ current' # <<>> /\ \A j \in DOMAIN current' : current'[j].page = page
      <4>1. Appended(current', current, p, Paragraph)
        BY <1>0, <1>1, <3>1, Appending
      <4>2. DOMAIN current' = (DOMAIN current) \cup {Len(current) + 1}
        BY <4>1 DEF Appended
      <4>3. QED
        BY <1>0, <1>1, <4>1, <4>2 DEF Appended
    <3>9. QED
      BY <1>0, <2>4, <3>1, <3>7, <3>8, TakeEnds
  <2>6. CASE full
    <3>1. overlap(current) = <<Last(current)>> /\ Last(current) \in Paragraph /\ Last(current).page = page
      <4>1. overlap(current) = <<Last(current)>> /\ Last(current) \in Paragraph /\ Len(current) \in DOMAIN current
        BY <1>0, <2>1, LastOne
      <4>2. QED
        BY <1>0, <4>1 DEF Last
    <3>2. PICK l \in Paragraph : l = Last(current) /\ l.page = page
      BY <3>1
    <3>3. Append(<<l>>, p) = <<l, p>> /\ <<l, p>> \in Seq(Paragraph) /\ <<l, p>> # <<>>
          /\ DOMAIN <<l, p>> = {1, 2} /\ <<l, p>>[1] = l /\ <<l, p>>[2] = p
      BY <1>1, TwoOf
    <3>4. chunks' = Append(chunks, c) /\ current' = <<l, p>>
      BY <1>2, <1>3, <2>6, <3>1, <3>2, <3>3
    <3>5. chunks' \in Seq(ChunkSet) /\ \A i \in DOMAIN chunks' : chunks'[i].page <= page
      <4>1. Appended(Append(chunks, c), chunks, c, ChunkSet)
        BY <1>0, <2>1, Appending
      <4>2. DOMAIN Append(chunks, c) = (DOMAIN chunks) \cup {Len(chunks) + 1}
        BY <4>1 DEF Appended
      <4>3. c.page = page /\ page <= page
        BY <1>0, <2>4
      <4>4. QED
        BY <1>0, <3>4, <4>1, <4>2, <4>3 DEF Appended
    <3>6. Words(current) >= MIN_CHUNK_WORDS
      BY <2>6 DEF full, isFull
    <3>7. d = [page |-> page, paragraphs |-> <<Last(current), p>>]
      BY <2>4, <3>2, <3>4
    <3>8. /\ d \in ChunkSet /\ GoodLast(Append(chunks, c), d)
          /\ LastFresh(Append(chunks, c), d) = <<p>>
      BY <1>0, <1>1, <2>1, <2>3, <2>4, <3>6, <3>7, Continues
    <3>9. /\ Flat(Append(chunks', d)) = Flat(chunks') \o <<p>> /\ Flat(chunks') \in Seq(Paragraph)
          /\ Good(Append(chunks', d)) <=> Good(chunks') /\ GoodLast(chunks', d)
      <4>1. PICK bb \in Seq(ChunkSet) : bb = Append(chunks, c) /\ bb = chunks'
        BY <3>4, <3>5
      <4>2. LastFresh(bb, d) = <<p>>
        BY <3>8, <4>1
      <4>3. /\ Flat(Append(bb, d)) = Flat(bb) \o LastFresh(bb, d) /\ Flat(bb) \in Seq(Paragraph)
            /\ Good(Append(bb, d)) <=> Good(bb) /\ GoodLast(bb, d)
        BY <3>8, ChunkAppended
      <4>4. QED
        BY <4>1, <4>2, <4>3
    <3>10. Kept(Append(chunks', d), Tail(pending), text)
      <4>1. (Flat(chunks') \o <<p>>) \o Tail(pending) = Flat(chunks') \o pending
        BY <1>5, <3>9
      <4>2. Flat(chunks') \o pending = text /\ Good(chunks')
        BY <2>2, <2>3, <3>4
      <4>3. QED
        BY <3>4, <3>8, <3>9, <4>1, <4>2 DEF Kept
    <3>11. current' \in Seq(Paragraph) /\ current' # <<>> /\ \A j \in DOMAIN current' : current'[j].page = page
      BY <1>1, <3>2, <3>3, <3>4
    <3>12. QED
      BY <2>4, <3>5, <3>10, <3>11, TakeEnds
  <2>7. QED
    BY <2>5, <2>6
<1>8. QED
  BY <1>0, <1>6, <1>7

\* At the end of a page the chunk that grew is one of the chunks, and the next page has none.
LEMMA EndPageKeeps ==
  ASSUME ChunkInv, EndPage
  PROVE  ChunkInv'
<1>1. /\ pending = <<>> /\ page' = page + 1 /\ current' = <<>> /\ hasNewContent' = FALSE
      /\ text' = text /\ pending' = pending
      /\ chunks' = IF hasNewContent THEN Append(chunks, Chunk) ELSE chunks
  BY DEF EndPage
<1>2. /\ page \in Nat /\ text \in Seq(Paragraph) /\ pending \in Seq(Paragraph) /\ chunks \in Seq(ChunkSet)
      /\ hasNewContent \in BOOLEAN
      /\ \A i \in DOMAIN chunks : chunks[i].page <= page
      /\ Kept(ChunksSoFar, pending, text)
  BY KeepsMeans DEF ChunkInv
<1>3. ChunksSoFar' = chunks' /\ chunks' = ChunksSoFar
  BY <1>1 DEF ChunksSoFar
<1>4. ChunksKeepParagraphs'
  <2>1. ChunksKeepParagraphs' <=> Kept(ChunksSoFar', pending', text')
    BY DEF ChunksKeepParagraphs, Kept, Flat, Pieces, Good
  <2>2. QED
    BY <1>1, <1>2, <1>3, <2>1
<1>5. chunks' \in Seq(ChunkSet) /\ \A i \in DOMAIN chunks' : chunks'[i].page <= page
  <2>1. CASE hasNewContent
    <3>1. PICK c \in ChunkSet : c = Chunk /\ c.page = page
      BY <2>1, ChunkType DEF Chunk
    <3>2. Appended(Append(chunks, c), chunks, c, ChunkSet)
      BY <1>2, Appending
    <3>3. DOMAIN Append(chunks, c) = (DOMAIN chunks) \cup {Len(chunks) + 1} /\ page <= page
      BY <1>2, <3>2 DEF Appended
    <3>4. QED
      BY <1>1, <1>2, <2>1, <3>1, <3>2, <3>3 DEF Appended
  <2>2. CASE ~hasNewContent
    BY <1>1, <1>2, <2>2
  <2>3. QED
    BY <1>2, <2>1, <2>2
<1>6. \A i \in DOMAIN chunks' : chunks'[i].page < page' /\ chunks'[i].page <= page'
  <2>1. \A i \in DOMAIN chunks' : chunks'[i].page \in Nat
    <3>1. \A i \in DOMAIN chunks' : chunks'[i] \in ChunkSet
      BY <1>5
    <3>2. \A c \in ChunkSet : c.page \in Nat
      BY DEF ChunkSet
    <3>3. QED
      BY <3>1, <3>2
  <2>2. QED
    BY <1>1, <1>2, <1>5, <2>1
<1>7. <<>> \in Seq(Paragraph) /\ DOMAIN <<>> = {} /\ page' \in Nat
  BY <1>1, <1>2
<1>8. QED
  BY <1>1, <1>2, <1>4, <1>5, <1>6, <1>7 DEF ChunkInv

\* ChunkInv always holds.
LEMMA ChunkInvariant == ChunkSpec => []ChunkInv
<1>1. ChunkInv /\ ChunkNext => ChunkInv'
  BY ReadBlockKeeps, TakeKeeps, EndPageKeeps DEF ChunkNext
<1>2. ChunkInv /\ UNCHANGED chunkVars => ChunkInv'
  <2> SUFFICES ASSUME ChunkInv, UNCHANGED chunkVars PROVE ChunkInv'
    OBVIOUS
  <2>1. UNCHANGED <<page, text, pending, current, hasNewContent, chunks>>
    BY DEF chunkVars
  <2>2. ChunksSoFar' = ChunksSoFar
    BY <2>1 DEF ChunksSoFar, Chunk
  <2>3. ChunksKeepParagraphs' <=> Kept(ChunksSoFar', pending', text')
    BY DEF ChunksKeepParagraphs, Kept, Flat, Pieces, Good
  <2>4. ChunksKeepParagraphs'
    BY <2>1, <2>2, <2>3, KeepsMeans DEF ChunkInv
  <2>5. QED
    BY <2>1, <2>4 DEF ChunkInv
<1>3. QED
  BY ChunkStart, <1>1, <1>2, PTL DEF ChunkSpec

(***************************************************************************)
(* ChunksCorrect: at every point of the chunking of any text, with any     *)
(* bounds on the words of a chunk, every paragraph read so far is in one   *)
(* chunk, or in two neighbours as the overlap, in the order of the text; a *)
(* chunk stays on one page, always brings something new, and only passes   *)
(* the bound on its words where the code lets it (chunking.ts).            *)
(***************************************************************************)
THEOREM ChunksCorrect == ChunkSpec => []ChunksKeepParagraphs
<1>1. ChunkInv => ChunksKeepParagraphs
  BY DEF ChunkInv
<1>2. QED
  BY ChunkInvariant, <1>1, PTL
=============================================================================
