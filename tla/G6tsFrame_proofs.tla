-------------------------- MODULE G6tsFrame_proofs --------------------------
(***************************************************************************)
(* The safety properties of a frame, for every size of the sensor, every   *)
(* report, every image and every set of tracks.  Those of the parser, the  *)
(* flood fill and the table of contacts follow from the inductive          *)
(* invariant HeatInv; that the assignment is optimal follows from AlgInv,  *)
(* the invariant of the Hungarian algorithm, and LinkInv, which says whose *)
(* frame its matrix is.  Induction over sets and numbers is by a least     *)
(* counterexample.                                                         *)
(***************************************************************************)
EXTENDS G6tsFrame, FiniteSetTheorems, SequenceTheorems, TLAPS

USE DEF parseVars, mapVars, scanVars

-----------------------------------------------------------------------------
(* Induction over finite sets and over numbers, without an operator as a   *)
(* parameter: a set of counterexamples has a least one.                    *)

(* Of the members of a family of subsets of a finite set, one is least.    *)
LEMMA FinSetWF ==
  ASSUME NEW S, IsFiniteSet(S), NEW F, F # {}, \A X \in F : X \subseteq S
  PROVE \E X \in F : \A Y \in F : Y \subseteq X => Y = X
<1>1. IsWellFoundedOn(StrictSubsetOrdering(S), SUBSET S)
  BY FS_StrictSubsetOrderingWellFounded, FS_FiniteSubsetsOfFinite
<1>2. PICK X \in F : \A Y \in F : ~(<<Y, X>> \in StrictSubsetOrdering(S))
  BY <1>1, WFMin
<1> QED BY <1>2 DEF StrictSubsetOrdering

(* A family of subsets of S that holds a set whenever it holds all those   *)
(* that are smaller holds them all.                                        *)
LEMMA SubsetInduction ==
  ASSUME NEW S, IsFiniteSet(S), NEW P,
         \A s \in SUBSET S : (\A t \in SUBSET s : t # s => t \in P) => s \in P
  PROVE  \A s \in SUBSET S : s \in P
<1>. DEFINE B == {s \in SUBSET S : s \notin P}
<1>. SUFFICES ASSUME B # {} PROVE FALSE
  OBVIOUS
<1>1. \A s \in B : s \subseteq S
  OBVIOUS
<1>2. PICK s \in B : \A t \in B : t \subseteq s => t = s
  <2>. HIDE DEF B
  <2> QED
    BY <1>1, FinSetWF
<1>3. \A t \in SUBSET s : t # s => t \in P
  BY <1>2
<1> QED
  BY <1>3

(* A set of numbers with 0 and with every successor is all of them.        *)
LEMMA NatSetInduction ==
  ASSUME NEW T \in SUBSET Nat, 0 \in T, \A k \in T : k + 1 \in T
  PROVE  T = Nat
<1>. SUFFICES ASSUME NEW m \in Nat, m \notin T PROVE FALSE
  OBVIOUS
<1>. DEFINE F == {{k \in 0 .. m : k <= l} : l \in (0 .. m) \ T}
<1>1. IsFiniteSet(0 .. m)
  BY FS_Interval
<1>2. F # {} /\ \A X \in F : X \subseteq 0 .. m
  <2>1. m \in (0 .. m) \ T
    OBVIOUS
  <2>2. {k \in 0 .. m : k <= m} \in F
    BY <2>1
  <2>3. \A X \in F : X \subseteq 0 .. m
    OBVIOUS
  <2> QED
    BY <2>2, <2>3
<1>3. PICK X \in F : \A Y \in F : Y \subseteq X => Y = X
  <2>. HIDE DEF F
  <2> QED
    BY <1>1, <1>2, FinSetWF
<1>4. PICK l \in (0 .. m) \ T : X = {k \in 0 .. m : k <= l}
  BY <1>3
<1>5. l # 0 /\ l - 1 \in (0 .. m) \ T
  BY <1>4
<1>6. {k \in 0 .. m : k <= l - 1} \in F
  BY <1>5
<1>7. {k \in 0 .. m : k <= l - 1} \subseteq X
  BY <1>4
<1>8. l \in X /\ l \notin {k \in 0 .. m : k <= l - 1}
  BY <1>4
<1> QED
  BY <1>3, <1>6, <1>7, <1>8

-----------------------------------------------------------------------------
(* Sums over finite sets.  The folds take one element after another; Pick  *)
(* is the one they take.                                                   *)
Pick(s) == CHOOSE x \in s : TRUE

(* Pick takes a member of any set that has one.                            *)
LEMMA PickIn == \A s : s # {} => Pick(s) \in s
BY DEF Pick

(* it is the sum of g over every subset of S.                              *)
SumsUp(S, g, it) ==
  it = [s \in SUBSET S |-> IF s = {} THEN 0 ELSE g[Pick(s)] + it[s \ {Pick(s)}]]

Total(g, S) == (CHOOSE it : SumsUp(S, g, it))[S]

(* The recursion that a fold over a finite set runs has a solution.        *)
LEMMA SumExists ==
  ASSUME NEW S, IsFiniteSet(S), NEW g, \A x \in S : g[x] \in Int
  PROVE  \E it \in [SUBSET S -> Int] : SumsUp(S, g, it)
<1>. DEFINE UpTo(k, it) ==
       \A s \in SUBSET S : Cardinality(s) <= k =>
         it[s] = IF s = {} THEN 0 ELSE g[Pick(s)] + it[s \ {Pick(s)}]
            T == {k \in Nat : \E it \in [SUBSET S -> Int] : UpTo(k, it)}
<1>0. \A s \in SUBSET S : /\ Cardinality(s) \in Nat
                          /\ Cardinality(s) = 0 <=> s = {}
                          /\ s # {} => /\ Pick(s) \in s
                                       /\ Cardinality(s \ {Pick(s)}) = Cardinality(s) - 1
  <2>. SUFFICES ASSUME NEW s \in SUBSET S
       PROVE  /\ Cardinality(s) \in Nat
              /\ Cardinality(s) = 0 <=> s = {}
              /\ s # {} => /\ Pick(s) \in s
                           /\ Cardinality(s \ {Pick(s)}) = Cardinality(s) - 1
    OBVIOUS
  <2>1. IsFiniteSet(s)
    BY FS_Subset
  <2> QED
    BY <2>1, PickIn, FS_CardinalityType, FS_EmptySet, FS_RemoveElement
<1>1. 0 \in T
  <2>. DEFINE it0 == [s \in SUBSET S |-> 0]
  <2>1. it0 \in [SUBSET S -> Int]
    OBVIOUS
  <2>2. UpTo(0, it0)
    <3>1. ASSUME NEW s \in SUBSET S, Cardinality(s) <= 0 PROVE s = {}
      <4>. HIDE DEF UpTo, T, it0
      <4>1. Cardinality(s) \in Nat
        BY <1>0
      <4>2. Cardinality(s) = 0
        BY <4>1, <3>1
      <4> QED
        BY <1>0, <4>2
    <3> QED
      BY <3>1
  <2> QED
    BY <2>1, <2>2
<1>2. ASSUME NEW k \in T PROVE k + 1 \in T
  <2>1. PICK it \in [SUBSET S -> Int] : UpTo(k, it)
    OBVIOUS
  <2>. DEFINE it2 == [s \in SUBSET S |-> IF Cardinality(s) = k + 1
                        THEN g[Pick(s)] + it[s \ {Pick(s)}] ELSE it[s]]
  <2>2. it2 \in [SUBSET S -> Int]
    <3>. SUFFICES ASSUME NEW s \in SUBSET S, Cardinality(s) = k + 1
         PROVE  g[Pick(s)] + it[s \ {Pick(s)}] \in Int
      OBVIOUS
    <3>1. s # {}
      <4>1. Cardinality(s) # 0
        OBVIOUS
      <4> QED
        BY <4>1, <1>0
    <3>2. Pick(s) \in S /\ s \ {Pick(s)} \in SUBSET S
      BY <3>1, PickIn
    <3> QED
      BY <3>2
  <2>3. ASSUME NEW s \in SUBSET S, Cardinality(s) <= k + 1
        PROVE  it2[s] = IF s = {} THEN 0 ELSE g[Pick(s)] + it2[s \ {Pick(s)}]
    <3>1. CASE s = {}
      <4>1. Cardinality(s) = 0 /\ k \in Nat
        BY <3>1, <1>0
      <4>2. it2[s] = it[s]
        BY <4>1
      <4>3. it[s] = 0
        BY <3>1, <4>1, <2>1
      <4> QED
        BY <3>1, <4>2, <4>3
    <3>2. CASE s # {}
      <4>1. s \ {Pick(s)} \in SUBSET S /\ Cardinality(s \ {Pick(s)}) <= k
        BY <3>2, <1>0, <2>3
      <4>2. it2[s \ {Pick(s)}] = it[s \ {Pick(s)}]
        BY <4>1
      <4>3. CASE Cardinality(s) = k + 1
        BY <4>2, <4>3, <3>2
      <4>4. CASE Cardinality(s) # k + 1
        BY <4>2, <4>4, <3>2, <2>1, <1>0, <2>3
      <4> QED
        BY <4>3, <4>4
    <3> QED
      BY <3>1, <3>2
  <2>4. UpTo(k + 1, it2)
    BY <2>3
  <2>5. k + 1 \in Nat
    OBVIOUS
  <2>. HIDE DEF it2, UpTo
  <2> QED
    BY <2>2, <2>4, <2>5
<1>3. T = Nat
  <2>. HIDE DEF T
  <2>1. T \in SUBSET Nat
    BY DEF T
  <2> QED
    BY <1>1, <1>2, <2>1, NatSetInduction
<1>4. Cardinality(S) \in T
  BY <1>3, <1>0
<1>5. PICK it \in [SUBSET S -> Int] : UpTo(Cardinality(S), it)
  BY <1>4
<1>6. \A s \in SUBSET S : Cardinality(s) <= Cardinality(S)
  BY FS_Subset
<1>7. it = [s \in SUBSET S |-> IF s = {} THEN 0 ELSE g[Pick(s)] + it[s \ {Pick(s)}]]
  BY <1>5, <1>6
<1> QED
  BY <1>7 DEF SumsUp

(* The recursion that a fold over a finite set runs has one solution.      *)
LEMMA SumUnique ==
  ASSUME NEW S, IsFiniteSet(S), NEW T, T \subseteq S, NEW g, NEW h,
         \A x \in T : g[x] = h[x],
         NEW a, SumsUp(S, g, a), NEW b, SumsUp(T, h, b)
  PROVE  a[T] = b[T]
<1>. DEFINE P == {s \in SUBSET S : s \in SUBSET T => a[s] = b[s]}
<1>1. ASSUME NEW s \in SUBSET S, \A t \in SUBSET s : t # s => t \in P
      PROVE  s \in P
  <2>. SUFFICES ASSUME s \in SUBSET T, s # {} PROVE a[s] = b[s]
    BY DEF SumsUp
  <2>1. Pick(s) \in s /\ Pick(s) \in T
    BY PickIn
  <2>2. s \ {Pick(s)} \in P
    BY <1>1, <2>1
  <2>3. a[s \ {Pick(s)}] = b[s \ {Pick(s)}]
    BY <2>2
  <2>4. a[s] = g[Pick(s)] + a[s \ {Pick(s)}]
    BY DEF SumsUp
  <2>5. b[s] = h[Pick(s)] + b[s \ {Pick(s)}]
    BY DEF SumsUp
  <2> QED
    BY <2>1, <2>3, <2>4, <2>5
<1>2. \A s \in SUBSET S : s \in P
  <2>. HIDE DEF P
  <2> QED
    BY <1>1, SubsetInduction
<1> QED
  BY <1>2

(* The total over a finite set is what that recursion says it is.          *)
LEMMA TotalIs ==
  ASSUME NEW S, IsFiniteSet(S), NEW g, \A x \in S : g[x] \in Int,
         NEW it, SumsUp(S, g, it)
  PROVE  \A s \in SUBSET S : it[s] = Total(g, s) /\ Total(g, s) \in Int
<1>. SUFFICES ASSUME NEW s \in SUBSET S
     PROVE  it[s] = Total(g, s) /\ Total(g, s) \in Int
  OBVIOUS
<1>1. IsFiniteSet(s)
  BY FS_Subset
<1>2. PICK b \in [SUBSET s -> Int] : SumsUp(s, g, b)
  BY <1>1, SumExists
<1>3. SumsUp(s, g, CHOOSE c : SumsUp(s, g, c))
  BY <1>2
<1>4. Total(g, s) = b[s]
  BY <1>1, <1>2, <1>3, SumUnique DEF Total
<1>5. it[s] = b[s]
  <2>1. PICK h : h = g
    OBVIOUS
  <2>2. SumsUp(s, h, b) /\ \A x \in s : g[x] = h[x]
    BY <1>2, <2>1
  <2>3. SumsUp(S, g, it) /\ s \subseteq S
    OBVIOUS
  <2>. HIDE <2>1
  <2> QED
    BY <2>2, <2>3, SumUnique, SMTT(30)
<1> QED
  BY <1>2, <1>4, <1>5

(* The total is that of the member picked and of the rest.                 *)
LEMMA TotalPick ==
  ASSUME NEW S, IsFiniteSet(S), NEW g, \A x \in S : g[x] \in Int
  PROVE  /\ Total(g, S) \in Int
         /\ Total(g, {}) = 0
         /\ S # {} => Total(g, S) = g[Pick(S)] + Total(g, S \ {Pick(S)})
<1>1. PICK it \in [SUBSET S -> Int] : SumsUp(S, g, it)
  BY SumExists
<1>2. \A s \in SUBSET S : it[s] = Total(g, s) /\ Total(g, s) \in Int
  BY <1>1, TotalIs
<1>3. it[{}] = 0 /\ (S # {} => it[S] = g[Pick(S)] + it[S \ {Pick(S)}])
  BY <1>1 DEF SumsUp
<1>4. {} \in SUBSET S /\ S \in SUBSET S /\ S \ {Pick(S)} \in SUBSET S
  OBVIOUS
<1> QED
  BY <1>2, <1>3, <1>4

(* Any member may be taken out of a total, not only the one picked.        *)
LEMMA TotalRemove ==
  ASSUME NEW S, IsFiniteSet(S), NEW g, \A x \in S : g[x] \in Int, NEW x \in S
  PROVE  Total(g, S) = g[x] + Total(g, S \ {x})
<1>. DEFINE P == {s \in SUBSET S : \A y \in s : Total(g, s) = g[y] + Total(g, s \ {y})}
<1>1. ASSUME NEW s \in SUBSET S, \A t \in SUBSET s : t # s => t \in P
      PROVE  s \in P
  <2>. SUFFICES ASSUME NEW y \in s PROVE Total(g, s) = g[y] + Total(g, s \ {y})
    OBVIOUS
  <2>1. PICK z : z = Pick(s)
    OBVIOUS
  <2>2. z \in s
    BY <2>1, PickIn
  <2>3. IsFiniteSet(s) /\ IsFiniteSet((s \ {y}) \ {z})
    BY FS_Subset
  <2>4. Total(g, s) = g[z] + Total(g, s \ {z})
    BY <2>1, <2>3, TotalPick
  <2>5. CASE y = z
    BY <2>4, <2>5
  <2>6. CASE y # z
    <3>1. s \ {z} \in P /\ s \ {y} \in P
      BY <1>1, <2>2
    <3>2. Total(g, s \ {z}) = g[y] + Total(g, (s \ {z}) \ {y})
      BY <3>1, <2>6
    <3>3. Total(g, s \ {y}) = g[z] + Total(g, (s \ {y}) \ {z})
      BY <3>1, <2>2, <2>6
    <3>4. (s \ {z}) \ {y} = (s \ {y}) \ {z}
      OBVIOUS
    <3>5. PICK rest \in Int : rest = Total(g, (s \ {y}) \ {z})
      BY <2>3, TotalPick
    <3>6. g[y] \in Int /\ g[z] \in Int
      BY <2>2
    <3>7. Total(g, s \ {z}) = g[y] + rest /\ Total(g, s \ {y}) = g[z] + rest
      BY <3>2, <3>3, <3>4, <3>5
    <3>. HIDE DEF P
    <3> QED
      BY <2>4, <3>5, <3>6, <3>7
  <2> QED
    BY <2>5, <2>6
<1>2. \A s \in SUBSET S : s \in P
  <2>. HIDE DEF P
  <2> QED
    BY <1>1, SubsetInduction
<1>3. S \in SUBSET S
  OBVIOUS
<1>4. S \in P
  BY <1>2, <1>3
<1> QED
  BY <1>4

(* A total depends on the values at its members only.                      *)
LEMMA TotalSame ==
  ASSUME NEW S, IsFiniteSet(S), NEW g, \A x \in S : g[x] \in Int,
         NEW h, \A x \in S : h[x] = g[x]
  PROVE  Total(h, S) = Total(g, S)
<1>1. PICK a \in [SUBSET S -> Int] : SumsUp(S, g, a)
  BY SumExists
<1>2. \A x \in S : h[x] \in Int
  OBVIOUS
<1>3. PICK b \in [SUBSET S -> Int] : SumsUp(S, h, b)
  BY <1>2, SumExists
<1>4. S \in SUBSET S
  OBVIOUS
<1>5. a[S] = b[S]
  BY <1>1, <1>3, <1>4, SumUnique
<1> QED
  BY <1>1, <1>2, <1>3, <1>4, <1>5, TotalIs

(* The sum of a sum.                                                       *)
LEMMA TotalAdd ==
  ASSUME NEW S, IsFiniteSet(S), NEW g, NEW h, NEW f,
         \A x \in S : g[x] \in Int /\ h[x] \in Int /\ f[x] = g[x] + h[x]
  PROVE  Total(f, S) = Total(g, S) + Total(h, S)
<1>. DEFINE P == {s \in SUBSET S : Total(f, s) = Total(g, s) + Total(h, s)}
<1>1. ASSUME NEW s \in SUBSET S, \A t \in SUBSET s : t # s => t \in P
      PROVE  s \in P
  <2>1. IsFiniteSet(s)
    BY FS_Subset
  <2>2. /\ \A x \in s : g[x] \in Int /\ h[x] \in Int /\ f[x] = g[x] + h[x]
        /\ \A x \in s : f[x] \in Int
    OBVIOUS
  <2>3. CASE s = {}
    <3>1. Total(f, s) = 0 /\ Total(g, s) = 0 /\ Total(h, s) = 0
      BY <2>1, <2>2, <2>3, TotalPick
    <3> QED
      BY <3>1
  <2>4. CASE s # {}
    <3>1. PICK x \in s : TRUE
      BY <2>4
    <3>2. s \ {x} \in P /\ IsFiniteSet(s \ {x})
      BY <1>1, <2>1, FS_RemoveElement
    <3>3. Total(f, s \ {x}) = Total(g, s \ {x}) + Total(h, s \ {x})
      BY <3>2
    <3>. HIDE DEF P
    <3>4. /\ Total(f, s) = f[x] + Total(f, s \ {x})
          /\ Total(g, s) = g[x] + Total(g, s \ {x})
          /\ Total(h, s) = h[x] + Total(h, s \ {x})
      BY <2>1, <2>2, TotalRemove
    <3>5. Total(g, s \ {x}) \in Int /\ Total(h, s \ {x}) \in Int
      BY <2>2, <3>2, TotalPick
    <3>6. Total(f, s) = Total(g, s) + Total(h, s)
      BY <2>2, <3>3, <3>4, <3>5
    <3> QED
      BY <3>6 DEF P
  <2> QED
    BY <2>3, <2>4
<1>2. \A s \in SUBSET S : s \in P
  <2>. HIDE DEF P
  <2> QED
    BY <1>1, SubsetInduction
<1>3. S \in SUBSET S
  OBVIOUS
<1>4. S \in P
  BY <1>2, <1>3
<1> QED
  BY <1>4

(* A sum does not shrink when its summands, or naturals, are added to.     *)
LEMMA TotalWithin ==
  ASSUME NEW A, IsFiniteSet(A), NEW D \in SUBSET A, NEW g, \A x \in A : g[x] \in Nat
  PROVE  /\ Total(g, D) \in Int /\ Total(g, D) <= Total(g, A) /\ Total(g, A) \in Int
         /\ (\A x \in A \ D : g[x] = 0) => Total(g, D) = Total(g, A)
<1>. DEFINE P == {s \in SUBSET A : D \subseteq s =>
                    /\ Total(g, D) <= Total(g, s)
                    /\ (\A x \in s \ D : g[x] = 0) => Total(g, D) = Total(g, s)}
<1>0. \A s \in SUBSET A : IsFiniteSet(s) /\ Total(g, s) \in Int
  <2>. SUFFICES ASSUME NEW s \in SUBSET A PROVE IsFiniteSet(s) /\ Total(g, s) \in Int
    OBVIOUS
  <2>1. IsFiniteSet(s)
    BY FS_Subset
  <2>2. \A x \in s : g[x] \in Int
    OBVIOUS
  <2> QED
    BY <2>1, <2>2, TotalPick
<1>1. ASSUME NEW s \in SUBSET A, \A t \in SUBSET s : t # s => t \in P
      PROVE  s \in P
  <2>. SUFFICES ASSUME D \subseteq s, s # D
       PROVE  /\ Total(g, D) <= Total(g, s)
              /\ (\A x \in s \ D : g[x] = 0) => Total(g, D) = Total(g, s)
    BY <1>0
  <2>1. PICK x \in s : x \notin D
    OBVIOUS
  <2>2. s \ {x} \in P /\ D \subseteq s \ {x}
    BY <1>1, <2>1
  <2>3. /\ Total(g, D) <= Total(g, s \ {x})
        /\ (\A y \in (s \ {x}) \ D : g[y] = 0) => Total(g, D) = Total(g, s \ {x})
    BY <2>2
  <2>. HIDE DEF P
  <2>4. Total(g, s) = g[x] + Total(g, s \ {x})
    <3>1. \A y \in s : g[y] \in Int
      OBVIOUS
    <3> QED
      BY <1>0, <3>1, TotalRemove
  <2>5. Total(g, s \ {x}) \in Int /\ Total(g, D) \in Int /\ g[x] \in Nat
    BY <1>0
  <2>6. Total(g, D) <= Total(g, s)
    BY <2>3, <2>4, <2>5
  <2>7. ASSUME \A y \in s \ D : g[y] = 0 PROVE Total(g, D) = Total(g, s)
    <3>1. g[x] = 0
      BY <2>1, <2>7
    <3>2. Total(g, D) = Total(g, s \ {x})
      BY <2>3, <2>7
    <3> QED
      BY <2>4, <2>5, <3>1, <3>2
  <2> QED
    BY <2>6, <2>7
<1>2. \A s \in SUBSET A : s \in P
  <2>. HIDE DEF P
  <2> QED
    BY <1>1, SubsetInduction
<1>3. A \in SUBSET A
  OBVIOUS
<1>4. A \in P
  BY <1>2, <1>3
<1> QED
  BY <1>0, <1>4

(* The sum over an index that names no element twice.                      *)
LEMMA TotalThrough ==
  ASSUME NEW D, IsFiniteSet(D), NEW A, IsFiniteSet(A), NEW h,
         \A c \in D : h[c] \in A, \A c, d \in D : h[c] = h[d] => c = d,
         NEW g, \A x \in A : g[x] \in Int, NEW f, \A c \in D : f[c] = g[h[c]],
         NEW R, \A x : x \in R <=> \E c \in D : x = h[c]
  PROVE  Total(f, D) = Total(g, R)
<1>. DEFINE P == {s \in SUBSET D : Total(f, s) = Total(g, {h[c] : c \in s})}
<1>1. ASSUME NEW s \in SUBSET D, \A t \in SUBSET s : t # s => t \in P
      PROVE  s \in P
  <2>1. IsFiniteSet(s) /\ \A c \in s : f[c] \in Int
    BY FS_Subset
  <2>2. PICK im : im = {h[c] : c \in s}
    OBVIOUS
  <2>3. im \subseteq A
    BY <2>2
  <2>4. IsFiniteSet(im) /\ \A x \in im : g[x] \in Int
    BY <2>3, FS_Subset
  <2>5. CASE s = {}
    <3>1. im = {}
      BY <2>2, <2>5
    <3>2. Total(f, s) = 0 /\ Total(g, im) = 0
      BY <2>1, <2>4, <2>5, <3>1, TotalPick
    <3> QED
      BY <2>2, <3>2
  <2>6. CASE s # {}
    <3>1. PICK c \in s : TRUE
      BY <2>6
    <3>2. s \ {c} \in P
      BY <1>1
    <3>3. im \ {h[c]} = {h[d] : d \in s \ {c}}
      BY <2>2
    <3>4. Total(f, s \ {c}) = Total(g, im \ {h[c]})
      BY <3>2, <3>3
    <3>5. h[c] \in im
      BY <2>2
    <3>. HIDE DEF P
    <3>6. Total(f, s) = f[c] + Total(f, s \ {c})
      BY <2>1, TotalRemove
    <3>7. Total(g, im) = g[h[c]] + Total(g, im \ {h[c]})
      BY <2>4, <3>5, TotalRemove
    <3>8. Total(f, s) = Total(g, im)
      BY <3>4, <3>6, <3>7
    <3> QED
      BY <2>2, <3>8 DEF P
  <2> QED
    BY <2>5, <2>6
<1>2. \A s \in SUBSET D : s \in P
  <2>. HIDE DEF P
  <2> QED
    BY <1>1, SubsetInduction
<1>3. D \in SUBSET D
  OBVIOUS
<1>4. D \in P
  BY <1>2, <1>3
<1>5. R = {h[c] : c \in D}
  OBVIOUS
<1> QED
  BY <1>4, <1>5

(* A sum of no greater summands is no greater.                             *)
LEMMA TotalLess ==
  ASSUME NEW S, IsFiniteSet(S), NEW g, NEW h,
         \A x \in S : g[x] \in Int /\ h[x] \in Int /\ g[x] <= h[x]
  PROVE  Total(g, S) <= Total(h, S)
<1>. DEFINE e == [x \in S |-> h[x] - g[x]]
<1>1. \A x \in S : e[x] \in Nat /\ h[x] = g[x] + e[x] /\ e[x] \in Int
  OBVIOUS
<1>. HIDE DEF e
<1>2. Total(h, S) = Total(g, S) + Total(e, S)
  BY <1>1, TotalAdd
<1>3. Total(g, S) \in Int
  BY TotalPick
<1>4. {} \in SUBSET S /\ S \in SUBSET S
  OBVIOUS
<1>5. Total(e, {}) = 0
  BY <1>1, TotalPick
<1>6. Total(e, {}) <= Total(e, S) /\ Total(e, S) \in Int
  BY <1>1, <1>4, TotalWithin
<1> QED
  BY <1>2, <1>3, <1>5, <1>6

(* A sum of positive summands is positive.                                 *)
LEMMA TotalPositive ==
  ASSUME NEW S, IsFiniteSet(S), S # {}, NEW g, \A x \in S : g[x] \in Nat \ {0}
  PROVE  Total(g, S) \in Nat \ {0}
<1>1. PICK x \in S : TRUE
  OBVIOUS
<1>0. \A y \in S : g[y] \in Int
  OBVIOUS
<1>2. Total(g, S) = g[x] + Total(g, S \ {x})
  BY <1>0, TotalRemove
<1>3. IsFiniteSet(S \ {x}) /\ {} \in SUBSET (S \ {x})
  BY FS_RemoveElement
<1>4. \A y \in S \ {x} : g[y] \in Nat /\ g[y] \in Int
  OBVIOUS
<1>5. Total(g, {}) = 0
  BY <1>0, TotalPick
<1>6. Total(g, {}) <= Total(g, S \ {x}) /\ Total(g, S \ {x}) \in Int
  BY <1>3, <1>4, TotalWithin
<1>7. g[x] \in Nat \ {0}
  OBVIOUS
<1> QED
  BY <1>2, <1>5, <1>6, <1>7

-----------------------------------------------------------------------------
(* The cells of the sensor.                                                *)

(* Every cell is where its row and its column say.                         *)
LEMMA Grid ==
  /\ Samples \in Nat \ {0}
  /\ \A c \in Cells : /\ c \in Nat /\ c <= Samples - 1
                      /\ Row(c) \in Int /\ Col(c) \in 0 .. Cols - 1
                      /\ c = Cols * Row(c) + Col(c)
<1>1. Samples \in Nat \ {0}
  BY GridAssumption DEF Samples
<1>2. ASSUME NEW c \in Cells
      PROVE  /\ c \in Nat /\ c <= Samples - 1
             /\ Row(c) \in Int /\ Col(c) \in 0 .. Cols - 1
             /\ c = Cols * Row(c) + Col(c)
  <2>1. c \in Nat /\ c <= Samples - 1
    BY <1>1 DEF Cells
  <2>2. Cols \in Nat /\ Cols > 0
    BY GridAssumption
  <2> QED
    BY <2>1, <2>2 DEF Row, Col
<1> QED
  BY <1>1, <1>2

(* Two squares add up to one only as zero and one.                         *)
LEMMA SquareUnit ==
  ASSUME NEW a \in Int, NEW b \in Int
  PROVE  a * a + b * b = 1 <=> \/ a = 0 /\ b \in {-1, 1}
                               \/ b = 0 /\ a \in {-1, 1}
<1>1. ASSUME NEW m \in Int PROVE m * m >= 0 /\ (m \notin {-1, 0, 1} => m * m >= 2)
  <2>1. CASE m >= 0
    <3>1. CASE m >= 2
      <4>1. m * m >= 2 * m
        BY <3>1
      <4> QED
        BY <4>1, <3>1
    <3>2. CASE m \in {0, 1}
      BY <3>2
    <3> QED
      BY <2>1, <3>1, <3>2
  <2>2. CASE m < 0
    <3>1. PICK k \in Nat : k = -m /\ m * m = k * k
      BY <2>2
    <3>2. CASE k >= 2
      <4>1. k * k >= 2 * k
        BY <3>2
      <4> QED
        BY <4>1, <3>1, <3>2
    <3>3. CASE k \in {0, 1}
      BY <3>3, <3>1
    <3> QED
      BY <3>1, <3>2, <3>3
  <2> QED
    BY <2>1, <2>2
<1>2. a * a \in Int /\ b * b \in Int
  OBVIOUS
<1>3. CASE a \in {-1, 0, 1} /\ b \in {-1, 0, 1}
  BY <1>3
<1>4. CASE a \notin {-1, 0, 1}
  BY <1>1, <1>2, <1>4
<1>5. CASE b \notin {-1, 0, 1}
  BY <1>1, <1>2, <1>5
<1> QED
  BY <1>3, <1>4, <1>5

(* The neighbours that GrowBlob looks at are the cells that touch.         *)
LEMMA TouchIsNeighbour ==
  ASSUME NEW c \in Cells, NEW d \in Cells
  PROVE  /\ Touch(c, d) <=> d \in Neighbours(c)
         /\ Touch(c, d) <=> Touch(d, c)
<1>1. Row(c) \in Int /\ Col(c) \in Int /\ Row(d) \in Int /\ Col(d) \in Int
  BY Grid
<1>2. /\ Row(c) - Row(d) \in Int /\ Col(c) - Col(d) \in Int
      /\ Row(d) - Row(c) \in Int /\ Col(d) - Col(c) \in Int
  BY <1>1
<1>3. Touch(c, d) <=> (Row(c) - Row(d)) * (Row(c) - Row(d))
                        + (Col(c) - Col(d)) * (Col(c) - Col(d)) = 1
  BY DEF Touch
<1>4. Touch(d, c) <=> (Row(d) - Row(c)) * (Row(d) - Row(c))
                        + (Col(d) - Col(c)) * (Col(d) - Col(c)) = 1
  BY DEF Touch
<1>5. Touch(c, d) <=> \/ Row(c) - Row(d) = 0 /\ Col(c) - Col(d) \in {-1, 1}
                      \/ Col(c) - Col(d) = 0 /\ Row(c) - Row(d) \in {-1, 1}
  BY <1>2, <1>3, SquareUnit
<1>6. Touch(d, c) <=> \/ Row(d) - Row(c) = 0 /\ Col(d) - Col(c) \in {-1, 1}
                      \/ Col(d) - Col(c) = 0 /\ Row(d) - Row(c) \in {-1, 1}
  BY <1>2, <1>4, SquareUnit
<1> QED
  BY <1>1, <1>5, <1>6 DEF Neighbours

(* A neighbour is up, left, right or down: the four that are pushed.       *)
LEMMA NeighboursAre ==
  ASSUME NEW c \in Cells, NEW d \in Neighbours(c)
  PROVE  d \in {c - Cols, c - 1, c + 1, c + Cols}
<1>1. d \in Cells
  BY DEF Neighbours
<1>2. /\ c = Cols * Row(c) + Col(c) /\ d = Cols * Row(d) + Col(d)
      /\ Row(c) \in Int /\ Row(d) \in Int /\ Col(c) \in Int /\ Col(d) \in Int
  BY <1>1, Grid
<1>3. Cols \in Nat
  BY GridAssumption
<1>4. CASE Row(d) = Row(c) /\ Col(d) - Col(c) \in {-1, 1}
  <2>1. Cols * Row(c) \in Int
    BY <1>2, <1>3
  <2> QED
    BY <1>2, <1>4, <2>1
<1>5. CASE Col(d) = Col(c) /\ Row(d) - Row(c) \in {-1, 1}
  <2>1. Row(d) = Row(c) + 1 \/ Row(d) = Row(c) - 1
    BY <1>5, <1>2
  <2>2. Cols * (Row(c) + 1) = Cols * Row(c) + Cols
    BY <1>2, <1>3
  <2>3. Cols * (Row(c) - 1) = Cols * Row(c) - Cols
    BY <1>2, <1>3
  <2>4. Cols * Row(c) \in Int
    BY <1>2, <1>3
  <2> QED
    BY <1>2, <1>3, <1>5, <2>1, <2>2, <2>3, <2>4
<1> QED
  BY <1>4, <1>5 DEF Neighbours

(* A set of numbers with a member has a least one, and Min is it.          *)
LEMMA MinOfNaturals ==
  ASSUME NEW T \in SUBSET Nat, NEW m \in T
  PROVE  Min(T) \in T /\ \A y \in T : Min(T) <= y
<1>. DEFINE F == {{k \in 0 .. m : k <= n} : n \in T \cap 0 .. m}
<1>1. IsFiniteSet(0 .. m)
  BY FS_Interval
<1>2. F # {} /\ \A X \in F : X \subseteq 0 .. m
  <2>1. {k \in 0 .. m : k <= m} \in F
    OBVIOUS
  <2>2. \A X \in F : X \subseteq 0 .. m
    OBVIOUS
  <2> QED
    BY <2>1, <2>2
<1>3. PICK X \in F : \A Y \in F : Y \subseteq X => Y = X
  <2>. HIDE DEF F
  <2> QED
    BY <1>1, <1>2, FinSetWF
<1>4. PICK n \in T \cap 0 .. m : X = {k \in 0 .. m : k <= n}
  BY <1>3
<1>5. ASSUME NEW y \in T, y < n PROVE FALSE
  <2>1. y \in T \cap 0 .. m
    BY <1>4, <1>5
  <2>2. {k \in 0 .. m : k <= y} \in F /\ {k \in 0 .. m : k <= y} \subseteq X
    BY <2>1, <1>4, <1>5
  <2>3. n \in X /\ n \notin {k \in 0 .. m : k <= y}
    BY <1>4, <1>5
  <2> QED
    BY <1>3, <2>2, <2>3
<1>6. \E x \in T : \A y \in T : x <= y
  BY <1>4, <1>5
<1> QED
  BY <1>6, Zenon DEF Min

-----------------------------------------------------------------------------
(* Strengths, and a table that keeps the strongest.                        *)

(* The sums of the code, on any map.                                       *)
StrengthOf(map, cells) == MapThenSumSet(LAMBDA c : SignalZero - map[c], cells)
WeightedXOf(map, cells) == MapThenSumSet(LAMBDA c : Col(c) * (SignalZero - map[c]), cells)
WeightedYOf(map, cells) == MapThenSumSet(LAMBDA c : Row(c) * (SignalZero - map[c]), cells)

(* The strength of a finite set of cells as a sum.                         *)
LEMMA StrengthTotal ==
  ASSUME NEW S, IsFiniteSet(S), NEW map,
         \A x \in S : SignalZero - map[x] \in Int
  PROVE  StrengthOf(map, S) = Total([x \in S |-> SignalZero - map[x]], S)
<1>. DEFINE Sums(it) == it = [s \in SUBSET S |-> IF s = {} THEN 0
           ELSE (SignalZero - map[(CHOOSE x \in s : TRUE)])
                   + it[s \ {CHOOSE x \in s : TRUE}]]
            F == CHOOSE it : Sums(it)
            g == [x \in S |-> SignalZero - map[x]]
<1>1. StrengthOf(map, S) = F[S]
  BY DEF StrengthOf, MapThenSumSet, MapThenFoldSet
<1>2. \A it : SumsUp(S, g, it) <=> Sums(it)
  <2>1. \A s \in SUBSET S : s # {} =>
           g[Pick(s)] = SignalZero - map[(CHOOSE x \in s : TRUE)]
    BY PickIn DEF Pick
  <2>. HIDE DEF g
  <2> QED
    BY <2>1 DEF SumsUp, Pick
<1>3. \A x \in S : g[x] \in Int
  OBVIOUS
<1>. HIDE DEF Sums, g
<1>4. SumsUp(S, g, F)
  <2>1. PICK it : SumsUp(S, g, it)
    BY <1>3, SumExists
  <2>2. Sums(F)
    BY <2>1, <1>2
  <2> QED
    BY <2>2, <1>2
<1>. HIDE DEF F
<1>5. F[S] = Total(g, S)
  BY <1>3, <1>4, TotalIs
<1> QED
  BY <1>1, <1>5 DEF g

(* The same of the sum that is weighted with the column.                   *)
LEMMA WeightedXTotal ==
  ASSUME NEW S, IsFiniteSet(S), NEW map,
         \A x \in S : Col(x) * (SignalZero - map[x]) \in Int
  PROVE  WeightedXOf(map, S) = Total([x \in S |-> Col(x) * (SignalZero - map[x])], S)
<1>. DEFINE Sums(it) == it = [s \in SUBSET S |-> IF s = {} THEN 0
           ELSE (Col((CHOOSE x \in s : TRUE)) * (SignalZero - map[(CHOOSE x \in s : TRUE)]))
                   + it[s \ {CHOOSE x \in s : TRUE}]]
            F == CHOOSE it : Sums(it)
            g == [x \in S |-> Col(x) * (SignalZero - map[x])]
<1>1. WeightedXOf(map, S) = F[S]
  BY DEF WeightedXOf, MapThenSumSet, MapThenFoldSet
<1>2. \A it : SumsUp(S, g, it) <=> Sums(it)
  <2>1. \A s \in SUBSET S : s # {} =>
           g[Pick(s)] = Col((CHOOSE x \in s : TRUE)) * (SignalZero - map[(CHOOSE x \in s : TRUE)])
    BY PickIn DEF Pick
  <2>. HIDE DEF g
  <2> QED
    BY <2>1 DEF SumsUp, Pick
<1>3. \A x \in S : g[x] \in Int
  OBVIOUS
<1>. HIDE DEF Sums, g
<1>4. SumsUp(S, g, F)
  <2>1. PICK it : SumsUp(S, g, it)
    BY <1>3, SumExists
  <2>2. Sums(F)
    BY <2>1, <1>2
  <2> QED
    BY <2>2, <1>2
<1>. HIDE DEF F
<1>5. F[S] = Total(g, S)
  BY <1>3, <1>4, TotalIs
<1> QED
  BY <1>1, <1>5 DEF g

(* The same of the sum that is weighted with the row.                      *)
LEMMA WeightedYTotal ==
  ASSUME NEW S, IsFiniteSet(S), NEW map,
         \A x \in S : Row(x) * (SignalZero - map[x]) \in Int
  PROVE  WeightedYOf(map, S) = Total([x \in S |-> Row(x) * (SignalZero - map[x])], S)
<1>. DEFINE Sums(it) == it = [s \in SUBSET S |-> IF s = {} THEN 0
           ELSE (Row((CHOOSE x \in s : TRUE)) * (SignalZero - map[(CHOOSE x \in s : TRUE)]))
                   + it[s \ {CHOOSE x \in s : TRUE}]]
            F == CHOOSE it : Sums(it)
            g == [x \in S |-> Row(x) * (SignalZero - map[x])]
<1>1. WeightedYOf(map, S) = F[S]
  BY DEF WeightedYOf, MapThenSumSet, MapThenFoldSet
<1>2. \A it : SumsUp(S, g, it) <=> Sums(it)
  <2>1. \A s \in SUBSET S : s # {} =>
           g[Pick(s)] = Row((CHOOSE x \in s : TRUE)) * (SignalZero - map[(CHOOSE x \in s : TRUE)])
    BY PickIn DEF Pick
  <2>. HIDE DEF g
  <2> QED
    BY <2>1 DEF SumsUp, Pick
<1>3. \A x \in S : g[x] \in Int
  OBVIOUS
<1>. HIDE DEF Sums, g
<1>4. SumsUp(S, g, F)
  <2>1. PICK it : SumsUp(S, g, it)
    BY <1>3, SumExists
  <2>2. Sums(F)
    BY <2>1, <1>2
  <2> QED
    BY <2>2, <1>2
<1>. HIDE DEF F
<1>5. F[S] = Total(g, S)
  BY <1>3, <1>4, TotalIs
<1> QED
  BY <1>1, <1>5 DEF g

(* What an assignment saves, as a sum.                                     *)
LEMMA SavedTotal ==
  ASSUME NEW S, IsFiniteSet(S), NEW m, NEW dist, NEW worth, S = {x \in DOMAIN m : m[x] # -1},
         \A x \in S : worth - dist[<<m[x], x>>] \in Int
  PROVE  Matching!Saved(m, dist, worth) = Total([x \in S |-> worth - dist[<<m[x], x>>]], S)
<1>. DEFINE Sums(it) == it = [s \in SUBSET S |-> IF s = {} THEN 0
           ELSE (worth - dist[<<m[Pick(s)], Pick(s)>>])
                   + it[s \ {Pick(s)}]]
            F == CHOOSE it : Sums(it)
            g == [x \in S |-> worth - dist[<<m[x], x>>]]
<1>1. Matching!Saved(m, dist, worth) = F[S]
  BY DEF Matching!Saved, Matching!NoSlot, Matching!MapThenSumSet,
     Matching!MapThenFoldSet, Pick
<1>2. \A it : SumsUp(S, g, it) <=> Sums(it)
  <2>1. \A s \in SUBSET S : s # {} =>
           g[Pick(s)] = worth - dist[<<m[Pick(s)], Pick(s)>>]
    BY PickIn
  <2>. HIDE DEF g
  <2> QED
    BY <2>1 DEF SumsUp
<1>3. \A x \in S : g[x] \in Int
  OBVIOUS
<1>. HIDE DEF Sums, g
<1>4. SumsUp(S, g, F)
  <2>1. PICK it : SumsUp(S, g, it)
    BY <1>3, SumExists
  <2>2. Sums(F)
    BY <2>1, <1>2
  <2> QED
    BY <2>2, <1>2
<1>. HIDE DEF F
<1>5. F[S] = Total(g, S)
  BY <1>3, <1>4, TotalIs
<1> QED
  BY <1>1, <1>5 DEF g

(* Of finitely many numbers in a row one is least: the weakest contact.    *)
LEMMA MinIndex ==
  ASSUME NEW m \in Nat \ {0}, NEW w, \A k \in 1 .. m : w[k] \in Int
  PROVE  \E k \in 1 .. m : \A l \in 1 .. m : w[k] <= w[l]
<1>. DEFINE T == {n \in Nat : n < m =>
                    \E k \in 1 .. n + 1 : \A l \in 1 .. n + 1 : w[k] <= w[l]}
<1>1. 0 \in T
  OBVIOUS
<1>2. ASSUME NEW n \in T PROVE n + 1 \in T
  <2>. SUFFICES ASSUME n + 1 < m
       PROVE  \E k \in 1 .. n + 2 : \A l \in 1 .. n + 2 : w[k] <= w[l]
    OBVIOUS
  <2>1. PICK k \in 1 .. n + 1 : \A l \in 1 .. n + 1 : w[k] <= w[l]
    OBVIOUS
  <2>2. w[k] \in Int /\ w[n + 2] \in Int /\ \A l \in 1 .. n + 1 : w[l] \in Int
    OBVIOUS
  <2>3. CASE w[k] <= w[n + 2]
    <3>1. \A l \in 1 .. n + 2 : w[k] <= w[l]
      BY <2>1, <2>3
    <3> QED
      BY <3>1
  <2>4. CASE ~(w[k] <= w[n + 2])
    <3>1. \A l \in 1 .. n + 2 : w[n + 2] <= w[l]
      BY <2>1, <2>2, <2>4
    <3> QED
      BY <3>1
  <2> QED
    BY <2>3, <2>4
<1>3. T = Nat
  <2>. HIDE DEF T
  <2>1. T \in SUBSET Nat
    BY DEF T
  <2> QED
    BY <1>1, <1>2, <2>1, NatSetInduction
<1>4. m - 1 \in Nat /\ m - 1 < m /\ m - 1 + 1 = m
  OBVIOUS
<1>5. m - 1 \in T
  BY <1>3, <1>4
<1> QED
  BY <1>4, <1>5

(* kept holds, once each, the elements of W or the K heaviest of them.     *)
Ranked(kept, W, w, K) ==
  /\ kept \in Seq(W) /\ Len(kept) <= K
  /\ \A a, b \in 1 .. Len(kept) : kept[a] = kept[b] => a = b
  /\ \/ \A x \in W : \E k \in 1 .. Len(kept) : kept[k] = x
     \/ /\ Len(kept) = K
        /\ \A x \in W : \/ \E k \in 1 .. Len(kept) : kept[k] = x
                        \/ \A k \in 1 .. Len(kept) : w[x] <= w[kept[k]]

(* While the table has room, a further blob only goes to its end.          *)
LEMMA RankedAppend ==
  ASSUME NEW W, NEW w, NEW K \in Nat, NEW kept, Ranked(kept, W, w, K),
         NEW b, b \notin W, Len(kept) < K
  PROVE  Ranked(Append(kept, b), W \cup {b}, w, K)
<1>. DEFINE new == Append(kept, b)
<1>1. kept \in Seq(W) /\ kept \in Seq(W \cup {b}) /\ Len(kept) \in Nat
  <2>1. kept \in Seq(W)
    BY DEF Ranked
  <2> QED
    BY <2>1
<1>2. /\ new \in Seq(W \cup {b}) /\ Len(new) = Len(kept) + 1
      /\ \A k \in 1 .. Len(kept) : new[k] = kept[k]
      /\ new[Len(kept) + 1] = b
  BY <1>1
<1>3. \A k \in 1 .. Len(kept) : kept[k] \in W
  BY <1>1
<1>4. ASSUME NEW k \in 1 .. Len(new), NEW l \in 1 .. Len(new), new[k] = new[l]
      PROVE  k = l
  <2>. HIDE DEF new
  <2>1. CASE k \in 1 .. Len(kept) /\ l \in 1 .. Len(kept)
    BY <1>2, <1>4, <2>1 DEF Ranked
  <2>2. CASE k \in 1 .. Len(kept) /\ l \notin 1 .. Len(kept)
    <3>1. l = Len(kept) + 1
      BY <1>1, <1>2, <2>2
    <3> QED
      BY <1>2, <1>3, <1>4, <2>2, <3>1
  <2>3. CASE k \notin 1 .. Len(kept)
    <3>1. k = Len(kept) + 1
      BY <1>1, <1>2, <2>3
    <3>2. CASE l \in 1 .. Len(kept)
      BY <1>2, <1>3, <1>4, <3>1, <3>2
    <3>3. CASE l \notin 1 .. Len(kept)
      BY <1>1, <1>2, <3>1, <3>3
    <3> QED
      BY <3>2, <3>3
  <2> QED
    BY <2>1, <2>2, <2>3
<1>5. \A x \in W : \E k \in 1 .. Len(kept) : kept[k] = x
  BY <1>1 DEF Ranked
<1>6. \A x \in W \cup {b} : \E k \in 1 .. Len(new) : new[k] = x
  <2>1. ASSUME NEW x \in W PROVE \E k \in 1 .. Len(new) : new[k] = x
    <3>1. PICK k \in 1 .. Len(kept) : kept[k] = x
      BY <1>5
    <3>2. k \in 1 .. Len(new) /\ new[k] = x
      BY <3>1, <1>1, <1>2
    <3> QED
      BY <3>2
  <2>2. Len(kept) + 1 \in 1 .. Len(new) /\ new[Len(kept) + 1] = b
    BY <1>1, <1>2
  <2> QED
    BY <2>1, <2>2
<1>7. Len(new) <= K
  BY <1>1, <1>2
<1>. HIDE DEF new
<1>8. Ranked(new, W \cup {b}, w, K)
  BY <1>2, <1>4, <1>6, <1>7 DEF Ranked
<1> QED
  BY <1>8 DEF new

(* The lightest of K gives way to a heavier newcomer, and to no other.     *)
LEMMA RankedFull ==
  ASSUME NEW W, NEW w, NEW K \in Nat, NEW kept, Ranked(kept, W, w, K),
         NEW b, b \notin W, \A x \in W \cup {b} : w[x] \in Int, Len(kept) = K,
         NEW least \in 1 .. K, \A k \in 1 .. K : w[kept[least]] <= w[kept[k]]
  PROVE  Ranked(IF w[b] > w[kept[least]] THEN [kept EXCEPT ![least] = b] ELSE kept,
                W \cup {b}, w, K)
<1>1. /\ kept \in Seq(W) /\ kept \in Seq(W \cup {b}) /\ Len(kept) \in Nat
      /\ DOMAIN kept = 1 .. K
  <2>1. kept \in Seq(W)
    BY DEF Ranked
  <2> QED
    BY <2>1
<1>2. \A k \in 1 .. K : kept[k] \in W /\ w[kept[k]] \in Int
  BY <1>1
<1>3. \A x \in W : \/ \E k \in 1 .. K : kept[k] = x
                   \/ \A k \in 1 .. K : w[x] <= w[kept[k]]
  BY DEF Ranked
<1>4. \A k, l \in 1 .. K : kept[k] = kept[l] => k = l
  BY DEF Ranked
<1>5. w[b] \in Int /\ w[kept[least]] \in Int
  BY <1>2
<1>6. CASE w[b] > w[kept[least]]
  <2>. DEFINE new == [kept EXCEPT ![least] = b]
  <2>1. /\ new \in Seq(W \cup {b}) /\ Len(new) = K
        /\ \A k \in 1 .. K : new[k] = IF k = least THEN b ELSE kept[k]
    BY <1>1
  <2>2. \A k, l \in 1 .. Len(new) : new[k] = new[l] => k = l
    BY <2>1, <1>2, <1>4
  <2>3. ASSUME NEW x \in W \cup {b}
        PROVE  \/ \E k \in 1 .. K : new[k] = x
               \/ \A k \in 1 .. K : w[x] <= w[new[k]]
    <3>1. CASE x = b
      BY <3>1, <2>1
    <3>2. CASE \E k \in 1 .. K : kept[k] = x
      <4>1. PICK k \in 1 .. K : kept[k] = x
        BY <3>2
      <4>2. CASE k = least
        BY <4>1, <4>2, <2>1, <1>2, <1>5, <1>6
      <4>3. CASE k # least
        BY <4>1, <4>3, <2>1
      <4> QED
        BY <4>2, <4>3
    <3>3. CASE x \in W /\ \A k \in 1 .. K : w[x] <= w[kept[k]]
      <4>1. w[x] \in Int /\ w[x] <= w[kept[least]]
        BY <3>3
      <4> QED
        BY <4>1, <3>3, <2>1, <1>5, <1>6
    <3> QED
      BY <3>1, <3>2, <3>3, <1>3
  <2>. HIDE DEF new
  <2>4. Ranked(new, W \cup {b}, w, K)
    BY <2>1, <2>2, <2>3 DEF Ranked
  <2> QED
    BY <2>4, <1>6 DEF new
<1>7. CASE ~(w[b] > w[kept[least]])
  <2>1. ASSUME NEW x \in W \cup {b}
        PROVE  \/ \E k \in 1 .. K : kept[k] = x
               \/ \A k \in 1 .. K : w[x] <= w[kept[k]]
    <3>1. CASE x \in W
      BY <3>1, <1>3
    <3>2. CASE x = b
      BY <3>2, <1>2, <1>5, <1>7
    <3> QED
      BY <3>1, <3>2
  <2>2. Ranked(kept, W \cup {b}, w, K)
    BY <2>1, <1>1, <1>4 DEF Ranked
  <2> QED
    BY <2>2, <1>7
<1> QED
  BY <1>6, <1>7

(* Blobs: two that meet are one.                                           *)
LEMMA BlobsMeet ==
  ASSUME NEW a \in SUBSET Cells, NEW b \in SUBSET Cells, IsBlob(a), IsBlob(b),
         a \cap b # {}
  PROVE  a = b
<1>1. ASSUME NEW x \in SUBSET Cells, NEW y \in SUBSET Cells, IsBlob(x), IsBlob(y),
             x \cap y # {}
      PROVE  x \subseteq y
  <2>. SUFFICES ASSUME x \cap y # x PROVE FALSE
    OBVIOUS
  <2>1. x \cap y \in (SUBSET x) \ {{}, x}
    BY <1>1
  <2>2. PICK c \in x \cap y, d \in x \ (x \cap y) : Touch(c, d)
    BY <1>1, <2>1 DEF IsBlob
  <2>3. d \in Cells /\ IsActive(d) /\ c \in y
    BY <1>1, <2>2 DEF IsBlob
  <2>4. d \in y
    BY <1>1, <2>2, <2>3 DEF IsBlob
  <2> QED
    BY <2>2, <2>4
<1> QED
  BY <1>1

(* A set that no cut leaves without an edge across it.                     *)
Connected(cells) ==
  \A part \in (SUBSET cells) \ {{}, cells} :
    \E c \in part, d \in cells \ part : Touch(c, d)

(* A connected set stays connected when cells that touch it are added.     *)
LEMMA ConnectedGrows ==
  ASSUME NEW Q \in SUBSET Cells, Connected(Q), NEW at \in Q, NEW new \in SUBSET Cells,
         \A d \in new : Touch(at, d)
  PROVE  Connected(Q \cup new)
<1>. SUFFICES ASSUME NEW part \in SUBSET (Q \cup new), part # {}, part # Q \cup new
     PROVE  \E c \in part, d \in (Q \cup new) \ part : Touch(c, d)
  BY DEF Connected
<1>1. CASE part \cap Q = {}
  <2>1. PICK c \in part : c \in new
    BY <1>1
  <2>2. Touch(c, at) /\ at \in (Q \cup new) \ part
    BY <2>1, <1>1, TouchIsNeighbour
  <2> QED
    BY <2>2
<1>2. CASE part \cap Q = Q
  <2>1. PICK d \in (Q \cup new) \ part : d \in new
    BY <1>2
  <2>2. Touch(at, d) /\ at \in part
    BY <2>1, <1>2
  <2> QED
    BY <2>1, <2>2
<1>3. CASE part \cap Q # {} /\ part \cap Q # Q
  <2>1. part \cap Q \in (SUBSET Q) \ {{}, Q}
    BY <1>3
  <2>2. PICK c \in part \cap Q, d \in Q \ (part \cap Q) : Touch(c, d)
    BY <2>1 DEF Connected
  <2> QED
    BY <2>2
<1> QED
  BY <1>1, <1>2, <1>3

-----------------------------------------------------------------------------
(* The queue of the search.                                                *)

(* No cell is queued twice.                                                *)
Distinct(q) == \A a, b \in 1 .. Len(q) : q[a] = q[b] => a = b

(* What q2 is, when the members of new, none of them in q yet, are put at  *)
(* the end of q.                                                           *)
Extends(q2, q, new) ==
  /\ q2 \in Seq(Cells) /\ Len(q2) >= Len(q)
  /\ \A k \in 1 .. Len(q) : q2[k] = q[k]
  /\ ToSet(q2) = ToSet(q) \cup new
  /\ Distinct(q2)

(* One of the four pushes, of a cell that is not in the queue.             *)
LEMMA ExtendsOne ==
  ASSUME NEW q0, NEW q, NEW d, NEW new \in SUBSET Cells, NEW put,
         q0 \in Seq(Cells), Extends(q, q0, put), d \notin ToSet(q0) \cup put
  PROVE  Extends(IF d \in new THEN Append(q, d) ELSE q, q0, put \cup ({d} \cap new))
<1>1. q \in Seq(Cells) /\ Len(q) \in Nat /\ Len(q0) \in Nat /\ Len(q) >= Len(q0)
  BY DEF Extends
<1>2. CASE d \notin new
  <2>1. {d} \cap new = {}
    BY <1>2
  <2>2. put \cup ({d} \cap new) = put
    BY <2>1
  <2> QED
    BY <1>2, <2>2
<1>3. CASE d \in new
  <2>. DEFINE r == Append(q, d)
  <2>1. /\ r \in Seq(Cells) /\ Len(r) = Len(q) + 1
        /\ \A k \in 1 .. Len(q) : r[k] = q[k]
        /\ r[Len(q) + 1] = d
    BY <1>1, <1>3
  <2>2. ToSet(q) = ToSet(q0) \cup put
    BY DEF Extends
  <2>3. DOMAIN q = 1 .. Len(q) /\ DOMAIN r = 1 .. Len(q) + 1
    BY <1>1, <2>1
  <2>4. ToSet(r) = ToSet(q) \cup {d}
    <3>1. ToSet(q) = {q[k] : k \in 1 .. Len(q)}
      BY <2>3 DEF ToSet
    <3>2. ToSet(r) = {r[k] : k \in 1 .. Len(q) + 1}
      BY <2>3 DEF ToSet
    <3>. HIDE DEF r
    <3>3. ASSUME NEW x \in ToSet(r) PROVE x \in ToSet(q) \cup {d}
      <4>1. PICK k \in 1 .. Len(q) + 1 : x = r[k]
        BY <3>2
      <4>2. CASE k = Len(q) + 1
        BY <4>1, <4>2, <2>1
      <4>3. CASE k # Len(q) + 1
        <5>1. k \in 1 .. Len(q)
          BY <4>3, <1>1
        <5> QED
          BY <5>1, <4>1, <2>1, <3>1
      <4> QED
        BY <4>2, <4>3
    <3>4. ASSUME NEW x \in ToSet(q) PROVE x \in ToSet(r)
      <4>1. PICK k \in 1 .. Len(q) : x = q[k]
        BY <3>1
      <4>2. k \in 1 .. Len(q) + 1 /\ x = r[k]
        BY <4>1, <2>1, <1>1
      <4> QED
        BY <4>2, <3>2
    <3>5. d \in ToSet(r)
      <4>1. Len(q) + 1 \in 1 .. Len(q) + 1
        BY <1>1
      <4> QED
        BY <4>1, <2>1, <3>2
    <3> QED
      BY <3>3, <3>4, <3>5
  <2>5. \A k \in 1 .. Len(q) : q[k] # d
    BY <2>2, <2>3 DEF ToSet
  <2>6. Distinct(q)
    BY DEF Extends
  <2>. HIDE DEF r
  <2>7. Distinct(r)
    <3>. SUFFICES ASSUME NEW a \in 1 .. Len(r), NEW b \in 1 .. Len(r), r[a] = r[b]
         PROVE  a = b
      BY DEF Distinct
    <3>1. CASE a = Len(q) + 1 \/ b = Len(q) + 1
      BY <3>1, <2>1, <2>5, <1>1
    <3>2. CASE a # Len(q) + 1 /\ b # Len(q) + 1
      <4>1. a \in 1 .. Len(q) /\ b \in 1 .. Len(q)
        BY <3>2, <2>1, <1>1
      <4> QED
        BY <4>1, <2>1, <2>6 DEF Distinct
    <3> QED
      BY <3>1, <3>2
  <2>8. \A k \in 1 .. Len(q0) : r[k] = q0[k]
    BY <2>1, <1>1 DEF Extends
  <2>9. ToSet(r) = ToSet(q0) \cup (put \cup ({d} \cap new))
    BY <2>2, <2>4, <1>3
  <2>10. Extends(r, q0, put \cup ({d} \cap new))
    BY <2>1, <2>7, <2>8, <2>9, <1>1 DEF Extends
  <2> QED
    BY <2>10, <1>3 DEF r
<1> QED
  BY <1>2, <1>3

(* The four neighbours of a cell of the queue are put one after the other. *)
LEMMA ExtendsFour ==
  ASSUME NEW q \in Seq(Cells), Distinct(q), NEW at \in Cells,
         NEW new \in SUBSET Neighbours(at), new \cap ToSet(q) = {}
  PROVE  LET Push(r, d) == IF d \in new THEN Append(r, d) ELSE r
         IN Extends(Push(Push(Push(Push(q, at - Cols), at - 1), at + 1), at + Cols),
                    q, new)
<1>. DEFINE Push(r, d) == IF d \in new THEN Append(r, d) ELSE r
            q1 == Push(q, at - Cols)
            q2 == Push(q1, at - 1)
            q3 == Push(q2, at + 1)
            q4 == Push(q3, at + Cols)
            p1 == {} \cup ({at - Cols} \cap new)
            p2 == p1 \cup ({at - 1} \cap new)
            p3 == p2 \cup ({at + 1} \cap new)
            p4 == p3 \cup ({at + Cols} \cap new)
<1>1. new \in SUBSET Cells /\ at \in Nat /\ Cols \in Nat /\ Cols > 1
  BY GridAssumption, Grid DEF Neighbours
<1>2. p4 = new
  BY NeighboursAre
<1>3. /\ at - 1 \notin {at - Cols} /\ at + 1 \notin {at - Cols, at - 1}
      /\ at + Cols \notin {at - Cols, at - 1, at + 1}
  BY <1>1
<1>4. Extends(q, q, {})
  BY DEF Extends
<1>. HIDE DEF Push
<1>5. \A r, d, put : Extends(r, q, put) /\ d \notin put =>
                       Extends(Push(r, d), q, put \cup ({d} \cap new))
  <2>. SUFFICES ASSUME NEW r, NEW d, NEW put, Extends(r, q, put), d \notin put
       PROVE  Extends(Push(r, d), q, put \cup ({d} \cap new))
    OBVIOUS
  <2>1. CASE d \notin ToSet(q) \cup put
    BY <2>1, <1>1, ExtendsOne DEF Push
  <2>2. CASE d \in ToSet(q)
    <3>1. d \notin new
      BY <2>2
    <3>2. Push(r, d) = r /\ put \cup ({d} \cap new) = put
      BY <3>1 DEF Push
    <3> QED
      BY <3>2
  <2> QED
    BY <2>1, <2>2
<1>6. Extends(q1, q, p1)
  BY <1>4, <1>5
<1>7. Extends(q2, q, p2)
  <2>. HIDE DEF q1
  <2>1. at - 1 \notin p1
    BY <1>3
  <2>. HIDE DEF p1
  <2> QED
    BY <2>1, <1>5, <1>6
<1>8. Extends(q3, q, p3)
  <2>. HIDE DEF q2
  <2>1. at + 1 \notin p2
    BY <1>3
  <2>. HIDE DEF p2
  <2> QED
    BY <2>1, <1>5, <1>7
<1>9. Extends(q4, q, p4)
  <2>. HIDE DEF q3
  <2>1. at + Cols \notin p3
    BY <1>3
  <2>. HIDE DEF p3
  <2> QED
    BY <2>1, <1>5, <1>8
<1> QED
  BY <1>2, <1>9 DEF Push

-----------------------------------------------------------------------------
(* The invariant of the parser and of the search.                          *)

(* The parser: what the map holds is what the runs so far have measured.   *)
ParseInv ==
  /\ hpc \in {"parse", "runs", "scan", "grow", "found", "refused"}
  /\ image \in [Cells -> Nat]
  /\ sections \in Seq(Section) /\ runs \in Seq(HeatRun)
  /\ complete \in BOOLEAN /\ ~outside
  /\ written \subseteq Cells
  /\ hpc = "runs" => /\ ~complete /\ sections # <<>>
                     /\ heatmap = [c \in Cells |-> IF c \in written THEN image[c] ELSE 0]
  /\ complete => heatmap = image

Busy == hpc \in {"scan", "grow", "found"}

(* The cells of the blobs that the search has finished with.               *)
Done == IF hpc = "grow" THEN seen \ ToSet(queue) ELSE seen

Wanted(cells) == {b \in SUBSET cells : IsBlob(b) /\ ~Rejected(b)}
Strengths(map) == [b \in SUBSET Cells |-> StrengthOf(map, b)]

QueueInv == queue \in Seq(Cells) /\ Distinct(queue)

(* The search: what is done are whole blobs, and the best of them are kept *)
SearchInv ==
  /\ Busy => complete
  /\ ~Busy => seen = {} /\ contacts = <<>>
  /\ Busy => /\ seen \subseteq Cells /\ \A c \in seen : IsActive(c)
             /\ \A c \in Done : \E b \in SUBSET Done : IsBlob(b) /\ c \in b
  /\ Ranked(contacts, Wanted(Done), Strengths(heatmap), MaxContacts)

(* the queue is in one piece, and what it has served is surrounded.        *)
GrowInv ==
  /\ hpc = "grow" => /\ queue # <<>> /\ head \in 1 .. Len(queue) + 1
                     /\ ToSet(queue) \subseteq seen
                     /\ Connected(ToSet(queue))
                     /\ \A k \in 1 .. head - 1 : \A d \in Cells :
                          Touch(queue[k], d) /\ IsActive(d) => d \in seen
  /\ hpc = "found" => \A c \in Cells : IsActive(c) => c \in seen

HeatInv == ParseInv /\ QueueInv /\ SearchInv /\ GrowInv

-----------------------------------------------------------------------------
(* The strength of a set of cells is a number.                             *)
LEMMA StrengthIs ==
  /\ \A b : Strength(b) = StrengthOf(heatmap, b)
  /\ heatmap \in [Cells -> Nat] =>
       \A b \in SUBSET Cells : Strengths(heatmap)[b] = Strength(b) /\ Strength(b) \in Int
<1>1. \A b : Strength(b) = StrengthOf(heatmap, b)
  BY DEF Strength, StrengthOf
<1>2. ASSUME heatmap \in [Cells -> Nat], NEW b \in SUBSET Cells
      PROVE  StrengthOf(heatmap, b) \in Int
  <2>1. IsFiniteSet(Cells)
    BY Grid, FS_Interval DEF Cells
  <2>2. IsFiniteSet(b)
    BY <2>1, FS_Subset
  <2>3. \A x \in b : SignalZero - heatmap[x] \in Int
    BY <1>2, GridAssumption
  <2>4. PICK g : g = [x \in b |-> SignalZero - heatmap[x]]
    OBVIOUS
  <2>5. StrengthOf(heatmap, b) = Total(g, b)
    BY <2>2, <2>3, <2>4, StrengthTotal
  <2>6. \A x \in b : g[x] \in Int
    BY <2>3, <2>4
  <2> QED
    BY <2>2, <2>5, <2>6, TotalPick
<1> QED
  BY <1>1, <1>2 DEF Strengths

(* While the map and the noise are what they were, so are the blobs, their *)
(* strengths and the judgment on them.                                     *)
LEMMA SameMap ==
  ASSUME heatmap' = heatmap, nsr' = nsr
  PROVE  /\ \A b : IsBlob(b)' <=> IsBlob(b)
         /\ \A b : Rejected(b)' <=> Rejected(b)
         /\ Strengths(heatmap)' = Strengths(heatmap)
         /\ \A c : IsActive(c)' <=> IsActive(c)
<1>1. ASSUME NEW c PROVE IsActive(c)' <=> IsActive(c)
  BY DEF IsActive
<1>2. ASSUME NEW b PROVE IsBlob(b)' <=> IsBlob(b)
  BY DEF IsBlob, IsActive
<1>3. ASSUME NEW b PROVE Rejected(b)' <=> Rejected(b)
  <2>1. Strength(b)' = Strength(b)
    <3>1. Strength(b)' = StrengthOf(heatmap', b)
      BY DEF Strength, StrengthOf, MapThenSumSet, MapThenFoldSet
    <3> QED
      BY <3>1, StrengthIs
  <2>2. WeightedY(b)' = WeightedY(b)
    <3>1. WeightedY(b)' = WeightedYOf(heatmap', b)
      BY DEF WeightedY, WeightedYOf, MapThenSumSet, MapThenFoldSet
    <3>2. WeightedY(b) = WeightedYOf(heatmap, b)
      BY DEF WeightedY, WeightedYOf
    <3> QED
      BY <3>1, <3>2
  <2>3. TooNoisy(b)' <=> TooNoisy(b)
    BY <2>1, <2>2 DEF TooNoisy
  <2> QED
    BY <2>3 DEF Rejected, Span
<1>4. Strengths(heatmap)' = Strengths(heatmap)
  OBVIOUS
<1> QED
  BY <1>1, <1>2, <1>3, <1>4

(* While the map and the noise stay, so do the blobs that are wanted.      *)
LEMMA SameWanted ==
  ASSUME heatmap' = heatmap, nsr' = nsr
  PROVE  \A D : Wanted(D)' = Wanted(D)
<1>1. ASSUME NEW D PROVE Wanted(D)' = Wanted(D)
  BY SameMap DEF Wanted
<1> QED
  BY <1>1

-----------------------------------------------------------------------------
(* A frame that begins satisfies the invariant.                            *)
LEMMA HeatInvInit == Init => HeatInv
<1>. SUFFICES ASSUME Init PROVE HeatInv
  OBVIOUS
<1>1. ParseInv
  <2>1. image \in [Cells -> Nat] /\ sections \in Seq(Section)
    BY GridAssumption DEF Init
  <2>2. hpc = "parse" /\ runs = <<>> /\ ~complete /\ written = {} /\ ~outside
    BY DEF Init
  <2>3. complete \in BOOLEAN
    BY DEF Init
  <2> QED
    BY <2>1, <2>2, <2>3 DEF ParseInv
<1>2. QueueInv
  BY DEF Init, QueueInv, Distinct
<1>3. SearchInv /\ GrowInv
  <2>1. Done = {} /\ ~Busy /\ contacts = <<>> /\ seen = {} /\ hpc = "parse"
    BY DEF Init, Done, Busy
  <2>2. Wanted({}) = {}
    BY DEF Wanted, IsBlob
  <2>3. Ranked(<<>>, {}, Strengths(heatmap), MaxContacts)
    BY GridAssumption DEF Ranked
  <2> QED
    BY <2>1, <2>2, <2>3 DEF SearchInv, GrowInv
<1> QED
  BY <1>1, <1>2, <1>3 DEF HeatInv

-----------------------------------------------------------------------------
(* The parser.                                                             *)

(* A run that is not unfit lies inside the map.                            *)
LEMMA FitRun ==
  ASSUME NEW r \in HeatRun, ~RunUnfit(r)
  PROVE  r.first .. r.first + r.count - 1 \subseteq Cells
<1>1. r.first \in Nat /\ r.count \in Nat /\ U32 \in Nat /\ Samples \in Nat /\ U32 > Samples
  BY Grid, GridAssumption DEF HeatRun
<1>2. r.count <= Samples /\ r.first <= (Samples - r.count) % U32
  BY <1>1 DEF RunUnfit
<1>3. Samples - r.count \in 0 .. U32 - 1
  BY <1>1, <1>2
<1>4. \A m \in 0 .. U32 - 1 : m % U32 = m
  BY <1>1
<1>5. r.first <= Samples - r.count
  BY <1>2, <1>3, <1>4
<1> QED
  BY <1>1, <1>5 DEF Cells

(* Of a sequence that is not empty, the head is typed and so is the tail.  *)
LEMMA HeadTail ==
  ASSUME NEW S, NEW s \in Seq(S), s # <<>>
  PROVE  Head(s) \in S /\ Tail(s) \in Seq(S)
OBVIOUS

(* The parser never touches the search.                                    *)
Parser == \/ Refuse /\ hpc \in {"parse", "runs"}
          \/ ParseMetadata \/ ParseOther \/ ParseHeat \/ CopyRun \/ HeatEnds

(* A section that is refused leaves what the parser has done.              *)
LEMMA ParseRefuse ==
  ASSUME ParseInv, Refuse
  PROVE  ParseInv'
<1>1. complete' \in BOOLEAN
  BY DEF ParseInv, Refuse
<1> QED
  BY <1>1 DEF ParseInv, Refuse

(* A metadata or an unknown section leaves the map alone.                  *)
LEMMA ParseSections ==
  ASSUME ParseInv, ParseMetadata \/ ParseOther
  PROVE  ParseInv'
<1>1. CASE Refuse
  BY <1>1, ParseRefuse
<1>2. CASE ~Refuse
  <2>1. /\ hpc = "parse" /\ sections # <<>> /\ sections' = Tail(sections)
        /\ UNCHANGED <<hpc, image, runs, complete, mapVars, scanVars>>
    BY <1>2 DEF ParseMetadata, ParseOther
  <2>2. sections' \in Seq(Section)
    BY <2>1, HeadTail DEF ParseInv
  <2>3. complete' \in BOOLEAN
    BY <2>1 DEF ParseInv
  <2> QED
    BY <2>1, <2>2, <2>3 DEF ParseInv
<1> QED
  BY <1>1, <1>2

(* The heat section clears the map before its first run.                   *)
LEMMA ParseHeatStep ==
  ASSUME ParseInv, ParseHeat
  PROVE  ParseInv'
<1>1. CASE Refuse
  BY <1>1, ParseRefuse
<1>2. CASE ~Refuse
  <2>1. /\ hpc' = "runs" /\ runs' = Head(sections).runs /\ sections # <<>>
        /\ heatmap' = [c \in Cells |-> 0] /\ written' = {} /\ ~complete
        /\ Head(sections).type = "heat"
        /\ UNCHANGED <<image, sections, complete, nsr, outside, scanVars>>
    BY <1>2 DEF ParseHeat
  <2>2. Head(sections) \in Section
    BY <2>1, HeadTail DEF ParseInv
  <2>3. runs' \in Seq(HeatRun)
    BY <2>1, <2>2 DEF Section
  <2>4. complete' \in BOOLEAN
    BY <2>1 DEF ParseInv
  <2> QED
    BY <2>1, <2>3, <2>4 DEF ParseInv
<1> QED
  BY <1>1, <1>2

(* One run of a heat section copies what the sensor has measured.          *)
LEMMA CopyRunStep ==
  ASSUME ParseInv, CopyRun
  PROVE  ParseInv'
<1>1. CASE Refuse
  BY <1>1, ParseRefuse
<1>2. CASE ~Refuse
  <2>. DEFINE r == Head(runs)
              cells == r.first .. r.first + r.count - 1
  <2>1. /\ hpc = "runs" /\ runs # <<>> /\ runs' = Tail(runs) /\ ~RunUnfit(r)
        /\ heatmap' = [c \in Cells |-> IF c \in cells THEN image[c] ELSE heatmap[c]]
        /\ written' = written \cup (cells \cap Cells)
        /\ outside' = (outside \/ ~(cells \subseteq Cells))
        /\ UNCHANGED <<hpc, image, sections, complete, nsr, scanVars>>
    BY <1>2 DEF CopyRun
  <2>2. r \in HeatRun /\ runs' \in Seq(HeatRun)
    BY <2>1, HeadTail DEF ParseInv
  <2>. HIDE DEF r
  <2>3. cells \subseteq Cells
    BY <2>1, <2>2, FitRun
  <2>. HIDE DEF cells
  <2>4. ~outside'
    BY <2>1, <2>3 DEF ParseInv
  <2>5. heatmap' = [c \in Cells |-> IF c \in written' THEN image'[c] ELSE 0]
    BY <2>1, <2>3 DEF ParseInv
  <2>6. complete' \in BOOLEAN /\ ~complete' /\ written' \subseteq Cells
    BY <2>1, <2>3 DEF ParseInv
  <2> QED
    BY <2>1, <2>2, <2>4, <2>5, <2>6 DEF ParseInv
<1> QED
  BY <1>1, <1>2

(* A map with as many cells written as it has is written everywhere.       *)
LEMMA HeatEndsStep ==
  ASSUME ParseInv, HeatEnds
  PROVE  ParseInv'
<1>1. CASE Refuse
  BY <1>1, ParseRefuse
<1>2. CASE ~Refuse
  <2>1. /\ hpc = "runs" /\ hpc' = "parse" /\ complete' = TRUE
        /\ sections' = Tail(sections) /\ Cardinality(written) = Samples
        /\ UNCHANGED <<image, runs, nsr, mapVars, scanVars>>
    BY <1>2 DEF HeatEnds
  <2>2. IsFiniteSet(Cells) /\ Cardinality(Cells) = Samples
    BY Grid, FS_Interval DEF Cells
  <2>3. written = Cells
    BY <2>1, <2>2, FS_Subset DEF ParseInv
  <2>4. heatmap = image
    BY <2>1, <2>3 DEF ParseInv
  <2>5. sections' \in Seq(Section)
    BY <2>1, HeadTail DEF ParseInv
  <2> QED
    BY <2>1, <2>4, <2>5 DEF ParseInv
<1> QED
  BY <1>1, <1>2

(* The parser never touches the search.                                    *)
LEMMA ParserLeavesSearch ==
  ASSUME Parser
  PROVE  /\ hpc \in {"parse", "runs"} /\ hpc' \in {"parse", "runs", "refused"}
         /\ UNCHANGED scanVars
BY DEF Parser, Refuse, ParseMetadata, ParseOther, ParseHeat, CopyRun, HeatEnds

(* The parser keeps the invariant.                                         *)
LEMMA ParserStep ==
  ASSUME HeatInv, Parser
  PROVE  HeatInv'
<1>1. ParseInv'
  BY ParseRefuse, ParseSections, ParseHeatStep, CopyRunStep, HeatEndsStep
     DEF HeatInv, Parser
<1>2. /\ hpc \in {"parse", "runs"} /\ hpc' \in {"parse", "runs", "refused"}
      /\ UNCHANGED scanVars
  BY ParserLeavesSearch
<1>3. QueueInv'
  BY <1>2 DEF HeatInv, QueueInv, Distinct
<1>4. SearchInv'
  <2>1. /\ ~Busy /\ ~Busy' /\ seen' = {} /\ contacts' = <<>> /\ Done' = {}
    BY <1>2 DEF HeatInv, SearchInv, Busy, Done
  <2>2. Wanted({})' = {}
    BY DEF Wanted, IsBlob
  <2>3. Wanted(Done)' = {}
    BY <2>1, <2>2 DEF Wanted
  <2>4. Ranked(<<>>, {}, Strengths(heatmap'), MaxContacts)
    BY GridAssumption DEF Ranked
  <2> QED
    BY <2>1, <2>3, <2>4 DEF SearchInv
<1>5. GrowInv'
  BY <1>2 DEF GrowInv
<1> QED
  BY <1>1, <1>3, <1>4, <1>5 DEF HeatInv

(* The end of the container hands a complete map to the search.            *)
LEMMA ContainerEndsStep ==
  ASSUME HeatInv, ContainerEnds
  PROVE  HeatInv'
<1>1. /\ hpc = "parse" /\ hpc' = IF complete THEN "scan" ELSE "refused"
      /\ UNCHANGED <<image, parseVars, mapVars, scanVars>>
  BY DEF ContainerEnds
<1>2. ParseInv'
  <2>1. complete' \in BOOLEAN
    BY <1>1 DEF HeatInv, ParseInv
  <2> QED
    BY <1>1, <2>1 DEF HeatInv, ParseInv
<1>3. QueueInv'
  BY <1>1 DEF HeatInv, QueueInv, Distinct
<1>4. seen = {} /\ contacts = <<>> /\ Done = {} /\ Done' = {} /\ (Busy' => complete')
  BY <1>1 DEF HeatInv, SearchInv, Busy, Done
<1>5. Wanted(Done)' = {}
  <2>1. Wanted({})' = {}
    BY DEF Wanted, IsBlob
  <2> QED
    BY <1>4, <2>1 DEF Wanted
<1>6. SearchInv'
  <2>1. Ranked(<<>>, {}, Strengths(heatmap'), MaxContacts)
    BY GridAssumption DEF Ranked
  <2> QED
    BY <1>1, <1>4, <1>5, <2>1 DEF SearchInv
<1>7. GrowInv'
  BY <1>1 DEF GrowInv
<1> QED
  BY <1>2, <1>3, <1>6, <1>7 DEF HeatInv

-----------------------------------------------------------------------------
(* The search.                                                             *)

(* In a step of the search the map and what the parser left stay as they   *)
(* are.                                                                    *)
LEMMA SearchKeepsParse ==
  ASSUME ParseInv, hpc \in {"scan", "grow"}, hpc' \in {"scan", "grow", "found"},
         UNCHANGED <<image, parseVars, mapVars>>
  PROVE  ParseInv'
<1>1. complete' \in BOOLEAN
  BY DEF ParseInv
<1> QED
  BY <1>1 DEF ParseInv

(* The search begins a blob at an active cell nobody has seen, or ends.    *)
LEMMA SeedBlobStep ==
  ASSUME HeatInv, SeedBlob
  PROVE  HeatInv'
<1>. DEFINE open == {c \in Cells \ seen : IsActive(c)}
<1>1. hpc = "scan" /\ UNCHANGED <<image, parseVars, mapVars>>
  BY DEF SeedBlob
<1>2. CASE open = {}
  <2>1. hpc' = "found" /\ UNCHANGED scanVars
    BY <1>2 DEF SeedBlob
  <2>2. ParseInv'
    BY <1>1, <2>1, SearchKeepsParse DEF HeatInv
  <2>3. QueueInv'
    BY <2>1 DEF HeatInv, QueueInv, Distinct
  <2>4. Done' = Done /\ Busy /\ Wanted(Done)' = Wanted(Done)
    BY <1>1, <2>1, SameWanted DEF Done, Busy
  <2>5. SearchInv'
    BY <1>1, <2>1, <2>4, SameMap DEF HeatInv, SearchInv, Busy
  <2>6. \A c \in Cells : IsActive(c) => c \in seen
    BY <1>2
  <2>7. GrowInv'
    BY <1>1, <2>1, <2>6, SameMap DEF GrowInv
  <2> QED
    BY <2>2, <2>3, <2>5, <2>7 DEF HeatInv
<1>3. CASE open # {}
  <2>1. PICK c0 : c0 = Min(open)
    OBVIOUS
  <2>2. c0 \in open
    <3>1. open \in SUBSET Nat
      BY Grid
    <3>. HIDE DEF open
    <3> QED
      BY <1>3, <2>1, <3>1, MinOfNaturals
  <2>3. /\ hpc' = "grow" /\ queue' = <<c0>> /\ head' = 1
        /\ seen' = seen \cup {c0} /\ contacts' = contacts
    BY <1>3, <2>1 DEF SeedBlob
  <2>4. c0 \in Cells /\ c0 \notin seen /\ IsActive(c0)
    BY <2>2
  <2>. HIDE DEF open
  <2>5. ParseInv'
    BY <1>1, <2>3, SearchKeepsParse DEF HeatInv
  <2>6. queue' \in Seq(Cells) /\ Len(queue') = 1 /\ queue'[1] = c0 /\ ToSet(queue') = {c0}
    BY <2>3, <2>4 DEF ToSet
  <2>7. QueueInv'
    BY <2>6 DEF QueueInv, Distinct
  <2>8. Done' = Done /\ Busy /\ Busy'
    BY <1>1, <2>3, <2>4, <2>6 DEF Done, Busy
  <2>9. Wanted(Done)' = Wanted(Done)
    BY <1>1, <2>8, SameWanted
  <2>10. SearchInv'
    <3>1. /\ Busy' => complete'
          /\ ~Busy' => seen' = {} /\ contacts' = <<>>
          /\ seen' \subseteq Cells /\ \A c \in seen' : IsActive(c)'
      BY <1>1, <2>3, <2>4, <2>8, SameMap DEF HeatInv, SearchInv
    <3>2. \A c \in Done' : \E b \in SUBSET Done' : IsBlob(b)' /\ c \in b
      BY <1>1, <2>8, SameMap DEF HeatInv, SearchInv
    <3>3. Ranked(contacts', Wanted(Done)', Strengths(heatmap)', MaxContacts)
      BY <1>1, <2>3, <2>9, SameMap DEF HeatInv, SearchInv
    <3> QED
      BY <3>1, <3>2, <3>3 DEF SearchInv
  <2>11. GrowInv'
    <3>1. Connected({c0})
      BY DEF Connected
    <3>2. queue' # <<>> /\ head' \in 1 .. Len(queue') + 1
      BY <2>3, <2>6
    <3>3. Connected(ToSet(queue'))
      BY <3>1, <2>6
    <3> QED
      BY <3>2, <3>3, <2>3, <2>6 DEF GrowInv, Connected
  <2> QED
    BY <2>5, <2>7, <2>10, <2>11 DEF HeatInv
<1> QED
  BY <1>2, <1>3

(* One cell of the queue is served: its neighbours are queued.             *)
LEMMA GrowBlobStep ==
  ASSUME HeatInv, GrowBlob
  PROVE  HeatInv'
<1>1. /\ hpc = "grow" /\ hpc' = "grow" /\ head <= Len(queue) /\ head' = head + 1
      /\ UNCHANGED <<image, parseVars, mapVars, contacts>>
  BY DEF GrowBlob
<1>2. PICK at, new : at = queue[head] /\ new = {d \in Neighbours(at) \ seen : IsActive(d)}
  OBVIOUS
<1>3. /\ queue \in Seq(Cells) /\ Distinct(queue) /\ head \in 1 .. Len(queue)
      /\ ToSet(queue) \subseteq seen /\ Connected(ToSet(queue)) /\ seen \subseteq Cells
      /\ \A c \in seen : IsActive(c)
  BY <1>1 DEF HeatInv, QueueInv, SearchInv, GrowInv, Busy
<1>4. at \in Cells /\ at \in ToSet(queue)
  BY <1>2, <1>3 DEF ToSet
<1>5. /\ new \in SUBSET Cells /\ new \in SUBSET Neighbours(at) /\ new \cap seen = {}
      /\ \A d \in new : IsActive(d)
  BY <1>2 DEF Neighbours
<1>6. seen' = seen \cup new
  BY <1>2 DEF GrowBlob
<1>7. Extends(queue', queue, new)
  <2>1. LET Push(r, d) == IF d \in new THEN Append(r, d) ELSE r
        IN queue' = Push(Push(Push(Push(queue, at - Cols), at - 1), at + 1), at + Cols)
    BY <1>2 DEF GrowBlob
  <2>2. new \cap ToSet(queue) = {}
    BY <1>3, <1>5
  <2>3. LET Push(r, d) == IF d \in new THEN Append(r, d) ELSE r
        IN Extends(Push(Push(Push(Push(queue, at - Cols), at - 1), at + 1), at + Cols),
                   queue, new)
    BY <1>3, <1>4, <1>5, <2>2, ExtendsFour
  <2> QED
    BY <2>1, <2>3
<1>8. /\ queue' \in Seq(Cells) /\ Len(queue') >= Len(queue) /\ Distinct(queue')
      /\ \A k \in 1 .. Len(queue) : queue'[k] = queue[k]
      /\ ToSet(queue') = ToSet(queue) \cup new
  BY <1>7 DEF Extends
<1>9. ParseInv'
  BY <1>1, SearchKeepsParse DEF HeatInv
<1>10. QueueInv'
  BY <1>8 DEF QueueInv, Distinct
<1>11. Done' = Done /\ Busy /\ Busy'
  BY <1>1, <1>3, <1>5, <1>6, <1>8 DEF Done, Busy
<1>12. SearchInv'
  <2>1. Wanted(Done)' = Wanted(Done)
    BY <1>1, <1>11, SameWanted
  <2>2. /\ Busy' => complete'
        /\ ~Busy' => seen' = {} /\ contacts' = <<>>
        /\ seen' \subseteq Cells /\ \A c \in seen' : IsActive(c)'
    BY <1>1, <1>3, <1>5, <1>6, <1>11, SameMap DEF HeatInv, SearchInv
  <2>3. \A c \in Done' : \E b \in SUBSET Done' : IsBlob(b)' /\ c \in b
    BY <1>1, <1>11, SameMap DEF HeatInv, SearchInv
  <2>4. Ranked(contacts', Wanted(Done)', Strengths(heatmap)', MaxContacts)
    BY <1>1, <2>1, SameMap DEF HeatInv, SearchInv
  <2> QED
    BY <2>2, <2>3, <2>4 DEF SearchInv
<1>13. GrowInv'
  <2>1. queue' # <<>> /\ head' \in 1 .. Len(queue') + 1
    <3>1. Len(queue') \in Nat /\ Len(queue') >= 1
      BY <1>3, <1>8
    <3> QED
      BY <1>1, <1>3, <1>8, <3>1
  <2>2. ToSet(queue') \subseteq seen'
    BY <1>3, <1>6, <1>8
  <2>3. Connected(ToSet(queue'))
    <3>1. ToSet(queue) \in SUBSET Cells
      BY <1>3
    <3>2. \A d \in new : Touch(at, d)
      BY <1>4, <1>5, TouchIsNeighbour
    <3> QED
      BY <1>3, <1>4, <1>5, <1>8, <3>1, <3>2, ConnectedGrows
  <2>4. ASSUME NEW k \in 1 .. head' - 1, NEW d \in Cells, Touch(queue'[k], d), IsActive(d)
        PROVE  d \in seen'
    <3>1. k \in 1 .. head
      BY <1>1, <1>3
    <3>2. Touch(queue[k], d)
      BY <3>1, <1>3, <1>8, <2>4
    <3>3. CASE k = head
      <4>1. d \in Neighbours(at)
        BY <3>2, <3>3, <1>2, <1>4, TouchIsNeighbour
      <4> QED
        BY <4>1, <2>4, <1>2, <1>6
    <3>4. CASE k # head
      <4>1. k \in 1 .. head - 1
        BY <3>1, <3>4, <1>3
      <4> QED
        BY <4>1, <3>2, <2>4, <1>1, <1>6 DEF HeatInv, GrowInv
    <3> QED
      BY <3>3, <3>4
  <2>5. \A k \in 1 .. head' - 1 : \A d \in Cells :
          Touch(queue'[k], d) /\ IsActive(d)' => d \in seen'
    BY <2>4, <1>1, SameMap
  <2>6. Connected(ToSet(queue))'
    BY <2>3 DEF Connected, ToSet
  <2>7. \A k \in 1 .. head' - 1 : \A d \in Cells :
          (Touch(queue[k], d))' /\ IsActive(d)' => d \in seen'
    BY <2>5 DEF Touch, Row, Col
  <2> QED
    BY <1>1, <2>1, <2>2, <2>6, <2>7 DEF GrowInv, ToSet
<1> QED
  BY <1>9, <1>10, <1>12, <1>13 DEF HeatInv

-----------------------------------------------------------------------------
(* A blob is found.                                                        *)

(* g6ts_store_contact keeps the strongest.                                 *)
LEMMA StoredRanks ==
  ASSUME heatmap \in [Cells -> Nat], NEW W \in SUBSET SUBSET Cells, NEW kept,
         Ranked(kept, W, Strengths(heatmap), MaxContacts),
         NEW b \in SUBSET Cells, b \notin W
  PROVE  Ranked(Stored(kept, b), W \cup {b}, Strengths(heatmap), MaxContacts)
<1>. DEFINE w == Strengths(heatmap)
<1>1. \A x \in SUBSET Cells : w[x] = Strength(x) /\ Strength(x) \in Int
  BY StrengthIs
<1>2. /\ kept \in Seq(W) /\ Len(kept) \in Nat /\ Len(kept) <= MaxContacts
      /\ DOMAIN kept = 1 .. Len(kept)
  <2>1. kept \in Seq(W) /\ Len(kept) <= MaxContacts
    BY DEF Ranked
  <2> QED
    BY <2>1
<1>3. MaxContacts \in Nat \ {0}
  BY GridAssumption
<1>4. CASE Len(kept) < MaxContacts
  <2>1. Stored(kept, b) = Append(kept, b)
    BY <1>4 DEF Stored
  <2>. HIDE DEF w
  <2> QED
    BY <1>3, <1>4, <2>1, RankedAppend
<1>5. CASE ~(Len(kept) < MaxContacts)
  <2>1. Len(kept) = MaxContacts
    <3>. HIDE DEF w
    <3>1. \A m, k \in Nat : k <= m /\ ~(k < m) => k = m
      OBVIOUS
    <3>2. MaxContacts \in Nat
      BY <1>3
    <3> QED
      BY <1>2, <1>5, <3>1, <3>2
  <2>. DEFINE at(k) == Strength(kept[k])
              S == {at(k) : k \in DOMAIN kept}
              least == Min(S)
              weakest == Min({k \in DOMAIN kept : at(k) = least})
  <2>2. \A k \in 1 .. MaxContacts :
          kept[k] \in SUBSET Cells /\ at(k) = w[kept[k]] /\ at(k) \in Int
    BY <1>1, <1>2, <2>1
  <2>3. least \in S /\ \A y \in S : least <= y
    <3>. DEFINE f == [k \in 1 .. MaxContacts |-> w[kept[k]]]
    <3>1. \A k \in 1 .. MaxContacts : f[k] \in Int /\ f[k] = at(k)
      BY <2>2
    <3>. HIDE DEF f
    <3>2. PICK k \in 1 .. MaxContacts : \A l \in 1 .. MaxContacts : f[k] <= f[l]
      BY <1>3, <3>1, MinIndex
    <3>. HIDE DEF at
    <3>3. at(k) \in S /\ \A y \in S : at(k) <= y
      BY <1>2, <2>1, <3>1, <3>2
    <3>. HIDE DEF S
    <3> QED
      BY <3>3, Zenon DEF Min
  <2>4. weakest \in DOMAIN kept /\ at(weakest) = least
    <3>1. PICK m \in DOMAIN kept : at(m) = least
      BY <2>3
    <3>. HIDE DEF at, least
    <3>2. m \in {k \in DOMAIN kept : at(k) = least}
      BY <3>1
    <3>3. {k \in DOMAIN kept : at(k) = least} \in SUBSET Nat
      BY <1>2
    <3> QED
      BY <3>2, <3>3, MinOfNaturals
  <2>5. Stored(kept, b) = IF Strength(b) > least THEN [kept EXCEPT ![weakest] = b]
                                                 ELSE kept
    BY <1>5 DEF Stored
  <2>6. /\ weakest \in 1 .. MaxContacts /\ least = w[kept[weakest]]
        /\ \A k \in 1 .. MaxContacts : w[kept[weakest]] <= w[kept[k]]
    <3>1. weakest \in 1 .. MaxContacts /\ least = w[kept[weakest]]
      <4>. HIDE DEF at, least, weakest
      <4> QED
        BY <1>2, <2>1, <2>2, <2>4
    <3>2. \A k \in 1 .. MaxContacts : at(k) \in S
      BY <1>2, <2>1
    <3>. HIDE DEF at, S, least, weakest, w
    <3> QED
      BY <2>2, <2>3, <3>1, <3>2
  <2>7. Strength(b) = w[b]
    BY <1>1
  <2>8. \A x \in W \cup {b} : w[x] \in Int
    BY <1>1
  <2>. HIDE DEF at, S, least, weakest, w
  <2>9. Ranked(kept, W, w, MaxContacts)
    BY DEF w
  <2>10. Ranked(IF w[b] > w[kept[weakest]] THEN [kept EXCEPT ![weakest] = b] ELSE kept,
                W \cup {b}, w, MaxContacts)
    BY <1>3, <2>1, <2>6, <2>8, <2>9, RankedFull
  <2>11. Stored(kept, b) = IF w[b] > w[kept[weakest]] THEN [kept EXCEPT ![weakest] = b]
                                                     ELSE kept
    BY <2>5, <2>6, <2>7
  <2>12. Ranked(Stored(kept, b), W \cup {b}, w, MaxContacts)
    BY <2>10, <2>11
  <2> QED
    BY <2>12 DEF w
<1> QED
  BY <1>4, <1>5

(* A search that has served its whole queue has found a blob.              *)
LEMMA QueueIsBlob ==
  ASSUME HeatInv, hpc = "grow", head > Len(queue)
  PROVE  /\ IsBlob(ToSet(queue)) /\ ToSet(queue) \subseteq seen
         /\ Done = seen \ ToSet(queue)
<1>. DEFINE Q == ToSet(queue)
<1>1. /\ queue \in Seq(Cells) /\ queue # <<>> /\ head = Len(queue) + 1
      /\ Q \subseteq seen /\ Connected(Q) /\ seen \subseteq Cells
      /\ \A c \in seen : IsActive(c)
      /\ \A k \in 1 .. head - 1 : \A d \in Cells :
           Touch(queue[k], d) /\ IsActive(d) => d \in seen
  BY DEF HeatInv, QueueInv, SearchInv, GrowInv, Busy
<1>2. \A c \in Q : \E k \in 1 .. head - 1 : queue[k] = c
  BY <1>1 DEF ToSet
<1>3. Q # {}
  <2>1. 1 \in DOMAIN queue
    BY <1>1
  <2> QED
    BY <2>1 DEF ToSet
<1>4. Done = seen \ Q
  BY DEF Done
<1>. HIDE DEF Q
<1>5. ASSUME NEW c \in Q, NEW d \in Cells, Touch(c, d), IsActive(d)
      PROVE  d \in Q
  <2>1. PICK k \in 1 .. head - 1 : queue[k] = c
    BY <1>2
  <2>2. d \in seen
    BY <1>1, <1>5, <2>1
  <2>. SUFFICES ASSUME d \in Done PROVE FALSE
    BY <1>4, <2>2
  <2>3. PICK b \in SUBSET Done : IsBlob(b) /\ d \in b
    BY DEF HeatInv, SearchInv, Busy
  <2>4. c \in Cells /\ IsActive(c) /\ Touch(d, c)
    BY <1>1, <1>5, TouchIsNeighbour
  <2>5. c \in b
    BY <2>3, <2>4 DEF IsBlob
  <2> QED
    BY <1>4, <2>5
<1>6. IsBlob(Q)
  BY <1>1, <1>3, <1>5 DEF IsBlob, Connected
<1> QED
  BY <1>1, <1>4, <1>6 DEF Q

(* The queue is served: the blob is stored or rejected.                    *)
LEMMA CloseBlobStep ==
  ASSUME HeatInv, CloseBlob
  PROVE  HeatInv'
<1>. DEFINE Q == ToSet(queue)
<1>1. /\ hpc = "grow" /\ hpc' = "scan" /\ head > Len(queue)
      /\ contacts' = IF Rejected(Q) THEN contacts ELSE Stored(contacts, Q)
      /\ UNCHANGED <<image, parseVars, mapVars, seen, queue, head>>
  BY DEF CloseBlob
<1>2. IsBlob(Q) /\ Q \subseteq seen /\ Done = seen \ Q
  BY <1>1, QueueIsBlob
<1>. HIDE DEF Q
<1>3. ParseInv'
  BY <1>1, SearchKeepsParse DEF HeatInv
<1>4. QueueInv'
  BY <1>1 DEF HeatInv, QueueInv, Distinct
<1>5. seen \subseteq Cells /\ (\A c \in seen : IsActive(c)) /\ complete
  BY <1>1 DEF HeatInv, SearchInv, Busy
<1>6. Done' = seen /\ Busy'
  BY <1>1 DEF Done, Busy
<1>7. Q # {} /\ Q \notin Wanted(Done)
  BY <1>2 DEF IsBlob, Wanted
<1>8. ASSUME NEW b \in SUBSET seen, IsBlob(b) PROVE b = Q \/ b \in SUBSET Done
  <2>1. CASE b \cap Q = {}
    BY <1>2, <2>1
  <2>2. CASE b \cap Q # {}
    BY <1>2, <1>5, <1>8, <2>2, BlobsMeet
  <2> QED
    BY <2>1, <2>2
<1>9. Wanted(seen) = Wanted(Done) \cup (IF Rejected(Q) THEN {} ELSE {Q})
  BY <1>2, <1>8 DEF Wanted
<1>10. heatmap \in [Cells -> Nat]
  BY <1>5 DEF HeatInv, ParseInv
<1>11. Ranked(contacts, Wanted(Done), Strengths(heatmap), MaxContacts)
  BY DEF HeatInv, SearchInv
<1>12. Ranked(contacts', Wanted(seen), Strengths(heatmap), MaxContacts)
  <2>1. CASE Rejected(Q)
    <3>1. contacts' = contacts /\ Wanted(seen) = Wanted(Done)
      BY <1>1, <1>9, <2>1
    <3> QED
      BY <1>11, <3>1
  <2>2. CASE ~Rejected(Q)
    <3>1. contacts' = Stored(contacts, Q) /\ Wanted(seen) = Wanted(Done) \cup {Q}
      BY <1>1, <1>9, <2>2
    <3>2. Wanted(Done) \in SUBSET SUBSET Cells /\ Q \in SUBSET Cells
      BY <1>2, <1>5 DEF Wanted
    <3> QED
      BY <1>7, <1>10, <1>11, <3>1, <3>2, StoredRanks
  <2> QED
    BY <2>1, <2>2
<1>13. SearchInv'
  <2>1. Wanted(Done)' = Wanted(seen)
    BY <1>1, <1>6, SameWanted
  <2>2. Ranked(contacts', Wanted(Done)', Strengths(heatmap)', MaxContacts)
    BY <1>1, <1>12, <2>1, SameMap
  <2>3. ASSUME NEW c \in Done' PROVE \E b \in SUBSET Done' : IsBlob(b)' /\ c \in b
    <3>1. CASE c \in Q
      BY <1>1, <1>2, <1>6, <3>1, SameMap
    <3>2. CASE c \in Done
      <4>1. PICK b \in SUBSET Done : IsBlob(b) /\ c \in b
        BY <1>1, <3>2 DEF HeatInv, SearchInv, Busy
      <4>2. b \in SUBSET Done' /\ IsBlob(b)'
        BY <1>1, <1>2, <1>6, <4>1, SameMap
      <4> QED
        BY <4>1, <4>2
    <3> QED
      BY <1>2, <1>6, <2>3, <3>1, <3>2
  <2>4. complete' /\ Busy' /\ seen' \subseteq Cells /\ \A c \in seen' : IsActive(c)'
    BY <1>1, <1>5, <1>6, SameMap
  <2> QED
    BY <2>2, <2>3, <2>4 DEF SearchInv
<1>14. GrowInv'
  BY <1>1 DEF GrowInv
<1> QED
  BY <1>3, <1>4, <1>13, <1>14 DEF HeatInv

-----------------------------------------------------------------------------
(* Every step of the first half of a frame keeps the invariant.            *)
LEMMA HeatInvNext ==
  ASSUME HeatInv, Next
  PROVE  HeatInv'
<1>1. CASE Parser
  BY <1>1, ParserStep
<1>2. CASE ContainerEnds
  BY <1>2, ContainerEndsStep
<1>3. CASE SeedBlob
  BY <1>3, SeedBlobStep
<1>4. CASE GrowBlob
  BY <1>4, GrowBlobStep
<1>5. CASE CloseBlob
  BY <1>5, CloseBlobStep
<1> QED
  BY <1>1, <1>2, <1>3, <1>4, <1>5 DEF Next, Parser

(* A step that leaves the map and the search alone keeps the invariant.    *)
LEMMA HeatInvStutter ==
  ASSUME HeatInv, UNCHANGED heatVars
  PROVE  HeatInv'
<1>. USE DEF heatVars
<1>1. complete' \in BOOLEAN
  BY DEF HeatInv, ParseInv
<1>2. ParseInv'
  BY <1>1 DEF HeatInv, ParseInv
<1>3. QueueInv'
  BY DEF HeatInv, QueueInv, Distinct
<1>4. Done' = Done /\ (Busy' <=> Busy)
  BY DEF Done, Busy
<1>5. Wanted(Done)' = Wanted(Done)
  BY <1>4, SameWanted
<1>6. Ranked(contacts', Wanted(Done)', Strengths(heatmap)', MaxContacts)
  BY <1>5, SameMap DEF HeatInv, SearchInv
<1>7. Busy => /\ \A c \in seen : IsActive(c)'
              /\ \A c \in Done' : \E b \in SUBSET Done' : IsBlob(b)' /\ c \in b
  BY <1>4, SameMap DEF HeatInv, SearchInv
<1>8. SearchInv'
  BY <1>4, <1>6, <1>7 DEF HeatInv, SearchInv
<1>9. GrowInv'
  <2>1. Connected(ToSet(queue))' <=> Connected(ToSet(queue))
    BY DEF ToSet, Connected
  <2>2. ToSet(queue)' = ToSet(queue)
    BY DEF ToSet
  <2>3. \A k, d : (Touch(queue[k], d))' <=> Touch(queue[k], d)
    BY DEF Touch, Row, Col
  <2> QED
    BY <2>1, <2>2, <2>3, SameMap DEF HeatInv, GrowInv
<1> QED
  BY <1>2, <1>3, <1>8, <1>9 DEF HeatInv

(* The assignment never touches the map, the search or its contacts.       *)
LEMMA FrameKeepsHeat ==
  ASSUME HeatInv, [FrameNext]_vars
  PROVE  HeatInv'
<1>1. CASE Parse
  BY <1>1, HeatInvNext DEF Parse
<1>2. CASE ~Parse
  <2>1. CASE BeginAssign
    BY <2>1, HeatInvStutter, Zenon DEF BeginAssign
  <2>2. CASE AssignStep
    BY <2>2, HeatInvStutter, Zenon DEF AssignStep
  <2>3. CASE UNCHANGED vars
    BY <2>3, HeatInvStutter DEF vars
  <2> QED
    BY <1>2, <2>1, <2>2, <2>3 DEF FrameNext
<1> QED
  BY <1>1, <1>2

(* The invariant of the parser and of the flood fill holds always, for     *)
(* every size of the sensor, every report and every image.                 *)
THEOREM HeatInvariant == FrameSpec => []HeatInv
<1>1. FrameInit => HeatInv
  BY HeatInvInit DEF FrameInit
<1>2. HeatInv /\ [FrameNext]_vars => HeatInv'
  BY FrameKeepsHeat
<1> QED
  BY <1>1, <1>2, PTL DEF FrameSpec

(* No cell is queued twice, so the queue is never longer than the map.     *)
LEMMA SamplesBound ==
  ASSUME HeatInv
  PROVE  NoWriteOutside
<1>1. queue \in Seq(Cells) /\ Distinct(queue) /\ ~outside
  BY DEF HeatInv, QueueInv, ParseInv
<1>2. IsFiniteSet(Cells) /\ Cardinality(Cells) = Samples
  BY Grid, FS_Interval DEF Cells
<1>3. IsFiniteSet(1 .. Len(queue)) /\ Cardinality(1 .. Len(queue)) = Len(queue)
  <2>1. PICK m \in Nat : m = Len(queue)
    BY <1>1
  <2>2. IsFiniteSet(1 .. m) /\ Cardinality(1 .. m) = m
    BY FS_Interval
  <2> QED
    BY <2>1, <2>2
<1>4. queue \in Injection(1 .. Len(queue), Cells)
  <2>1. queue \in [1 .. Len(queue) -> Cells]
    BY <1>1
  <2> QED
    BY <1>1, <2>1 DEF Distinct, Injection, IsInjective
<1>5. Len(queue) <= Samples
  BY <1>2, <1>3, <1>4, FS_Injection
<1>6. Len(contacts) <= MaxContacts
  BY DEF HeatInv, SearchInv, Ranked
<1> QED
  BY <1>1, <1>5, <1>6 DEF NoWriteOutside

(* No run of g6ts_extract_heatmap writes outside the map, whatever its two *)
(* 32-bit numbers are, heat_queue never overflows, and neither does the    *)
(* table of contacts.                                                      *)
THEOREM NothingIsWrittenOutside == FrameSpec => []NoWriteOutside
<1>1. HeatInv => NoWriteOutside
  BY SamplesBound
<1> QED
  BY <1>1, HeatInvariant, PTL

(* The blobs are looked for only in a map that every cell of was measured: *)
(* no cell of an earlier frame or of no run is left in it.                 *)
THEOREM TheMapIsMeasured == FrameSpec => []MapIsMeasured
<1>1. HeatInv => MapIsMeasured
  BY DEF HeatInv, ParseInv, SearchInv, Busy, MapIsMeasured
<1> QED
  BY <1>1, HeatInvariant, PTL

(* When the search is over, what is done is all that is active.            *)
LEMMA FoundIsRanked ==
  ASSUME HeatInv
  PROVE  ContactsAreStrongestBlobs
<1>. SUFFICES ASSUME hpc = "found" PROVE ContactsAreStrongestBlobs
  BY DEF ContactsAreStrongestBlobs
<1>. DEFINE W == {b \in SUBSET Cells : IsBlob(b) /\ ~Rejected(b)}
            kept == ToSet(contacts)
            w == Strengths(heatmap)
<1>1. seen \subseteq Cells /\ Done = seen /\ complete
      /\ \A c \in Cells : IsActive(c) => c \in seen
  BY DEF HeatInv, SearchInv, GrowInv, Busy, Done
<1>2. W = Wanted(seen)
  <2>1. \A b \in SUBSET Cells : IsBlob(b) => b \subseteq seen
    BY <1>1 DEF IsBlob
  <2> QED
    BY <1>1, <2>1 DEF Wanted
<1>3. Ranked(contacts, W, w, MaxContacts)
  BY <1>1, <1>2 DEF HeatInv, SearchInv
<1>4. \A b \in W : w[b] = Strength(b)
  <2>1. heatmap \in [Cells -> Nat]
    BY <1>1 DEF HeatInv, ParseInv
  <2> QED
    BY <2>1, StrengthIs
<1>. HIDE DEF W, w
<1>5. contacts \in Seq(W) /\ DOMAIN contacts = 1 .. Len(contacts) /\ Len(contacts) \in Nat
  <2>1. contacts \in Seq(W)
    BY <1>3 DEF Ranked
  <2> QED
    BY <2>1
<1>6. kept = {contacts[k] : k \in 1 .. Len(contacts)} /\ kept \subseteq W
  BY <1>5 DEF ToSet
<1>7. Len(contacts) = Cardinality(kept)
  <2>1. contacts \in Bijection(1 .. Len(contacts), kept)
    <3>1. contacts \in [1 .. Len(contacts) -> kept]
      BY <1>5, <1>6
    <3>2. \A a, b \in 1 .. Len(contacts) : contacts[a] = contacts[b] => a = b
      BY <1>3 DEF Ranked
    <3>3. \A x \in kept : \E k \in 1 .. Len(contacts) : contacts[k] = x
      BY <1>6
    <3>. HIDE DEF kept
    <3> QED
      BY <3>1, <3>2, <3>3 DEF Bijection, Injection, Surjection, IsInjective
  <2>2. IsFiniteSet(1 .. Len(contacts)) /\ Cardinality(1 .. Len(contacts)) = Len(contacts)
    <3>1. PICK m \in Nat : m = Len(contacts)
      BY <1>5
    <3>2. IsFiniteSet(1 .. m) /\ Cardinality(1 .. m) = m
      BY FS_Interval
    <3> QED
      BY <3>1, <3>2
  <2>. HIDE DEF kept
  <2>3. ExistsBijection(1 .. Len(contacts), kept)
    BY <2>1 DEF ExistsBijection
  <2> QED
    BY <2>2, <2>3, FS_Bijection
<1>8. \/ kept = W
      \/ /\ Len(contacts) = MaxContacts
         /\ \A b \in W \ kept : \A k \in kept : Strength(b) <= Strength(k)
  <2>1. CASE \A x \in W : \E k \in 1 .. Len(contacts) : contacts[k] = x
    BY <2>1, <1>6
  <2>2. CASE /\ Len(contacts) = MaxContacts
             /\ \A x \in W : \/ \E k \in 1 .. Len(contacts) : contacts[k] = x
                             \/ \A k \in 1 .. Len(contacts) : w[x] <= w[contacts[k]]
    <3>1. ASSUME NEW b \in W \ kept, NEW x \in kept PROVE Strength(b) <= Strength(x)
      <4>1. PICK k \in 1 .. Len(contacts) : contacts[k] = x
        BY <1>6
      <4>2. w[b] <= w[x]
        BY <2>2, <1>6, <4>1
      <4>3. x \in W
        BY <1>6
      <4> QED
        BY <1>4, <4>2, <4>3
    <3> QED
      BY <2>2, <3>1
  <2> QED
    BY <1>3, <2>1, <2>2 DEF Ranked
<1> QED
  BY <1>6, <1>7, <1>8 DEF ContactsAreStrongestBlobs, W

(* The contacts of a frame are the connected regions of active cells that  *)
(* are not rejected, or the MaxContacts strongest of them when there are   *)
(* more, each of them once.                                                *)
THEOREM TheContactsAreTheStrongestBlobs == FrameSpec => []ContactsAreStrongestBlobs
<1>1. HeatInv => ContactsAreStrongestBlobs
  BY FoundIsRanked
<1> QED
  BY <1>1, HeatInvariant, PTL

-----------------------------------------------------------------------------
(* The assignment: rows, matching and potentials.                          *)

Size == Len(active_slots) + count
Rounds == apc \in {"row", "relax", "shift"}

(* The rows that are in, and the columns that hold a row of their own.     *)
Entered == IF apc = "row" THEN i - 1 ELSE i
Held == ((IF apc = "row" THEN 1 ELSE 0) .. Size)
          \ (IF apc = "shift" THEN {j0} ELSE {})

Slack(r, j) == cost[<<r, j>>] - u[r] - v[j]

ArraysInv ==
  /\ count \in Nat \ {0} /\ Len(active_slots) \in Nat \ {0}
  /\ cost \in [(1 .. Size) \X (1 .. Size) -> 0 .. InvalidCost]
  /\ u \in [0 .. Size -> 0 .. InvalidCost] /\ v \in [0 .. Size -> Int]
  /\ p \in [0 .. Size -> 0 .. Size] /\ way \in [0 .. Size -> 0 .. Size]
  /\ minv \in [0 .. Size -> 0 .. IntMax] /\ used \subseteq 0 .. Size
  /\ i \in 1 .. Size + 1 /\ j0 \in 0 .. Size

(* Every row that is in has a column, and no column has two.               *)
MatchInv ==
  /\ apc \in {"relax", "shift"} => i <= Size /\ p[0] = i
  /\ \A j, k \in Held : p[j] = p[k] /\ p[j] # 0 => j = k
  /\ \A r \in 1 .. Entered : \E j \in Held : p[j] = r
  /\ \A j \in Held : p[j] <= Entered

(* The potentials never exceed a cost, and a matched pair meets it.  What  *)
(* the virtual column loses in a row is what the row gains.                *)
DualInv ==
  /\ \A r \in 1 .. Entered : \A j \in 1 .. Size : Slack(r, j) >= 0
  /\ \A r \in Entered + 1 .. Size : u[r] = 0
  /\ \A j \in Held \ {0} : p[j] # 0 => Slack(p[j], j) = 0
  /\ \A j \in 1 .. Size : v[j] \in -InvalidCost .. 0 /\ (p[j] = 0 => v[j] = 0)
  /\ v[0] <= 0
  /\ v[0] + (IF apc = "row" THEN 0 ELSE u[i]) >= -(InvalidCost * (i - 1))

(* way leads from the columns that were reached back to the virtual one,   *)
(* over edges that meet their cost; ord is the order of the visit.         *)
TreeInv(ord) ==
  \A k \in (used \cup {j0}) \ {0} : ord[k] <= ord[j0] =>
    /\ way[k] \in used /\ ord[way[k]] < ord[k]
    /\ p[way[k]] # 0 /\ Slack(p[way[k]], k) = 0

(* minv is the least slack between a column and the rows reached.          *)
RelaxInv(ord) ==
  /\ j0 \notin used /\ (used = {} <=> j0 = 0) /\ (j0 # 0 => 0 \in used /\ minv[j0] = 0)
  /\ \A k \in used : ord[k] < ord[j0]
  /\ \A k \in used \cup {j0} : p[k] # 0
  /\ \A j \in (1 .. Size) \ used :
       IF used = {} THEN minv[j] = IntMax
       ELSE /\ way[j] \in used /\ minv[j] = Slack(p[way[j]], j)
            /\ \A k \in used : minv[j] <= Slack(p[k], j)

PathInv(ord) ==
  /\ TreeInv(ord)
  /\ apc = "relax" => RelaxInv(ord)
  /\ apc = "shift" => j0 # 0

AlgInv ==
  Rounds =>
    /\ ArraysInv /\ MatchInv /\ DualInv
    /\ apc # "row" => \E ord \in [0 .. Size -> Nat] : PathInv(ord)

(* The workspace is square, and its numbers are numbers.                   *)
LEMMA Sizes ==
  ASSUME ArraysInv
  PROVE  /\ Size \in Nat /\ Size >= 2 /\ Assign!n = Size
         /\ \A j \in 0 .. Size : u[j] \in Int /\ v[j] \in Int /\ p[j] \in 0 .. Size
         /\ \A r, j \in 1 .. Size : cost[<<r, j>>] \in 0 .. InvalidCost /\ Slack(r, j) \in Int
<1>1. Size \in Nat /\ Size >= 2 /\ Assign!n = Size
  BY DEF ArraysInv, Size, Assign!n, Assign!active_count
<1>2. InvalidCost \in Nat
  BY CostAssumption
<1>3. \A j \in 0 .. Size : u[j] \in Int /\ v[j] \in Int /\ p[j] \in 0 .. Size
  <2>. SUFFICES ASSUME NEW j \in 0 .. Size
                PROVE  u[j] \in Int /\ v[j] \in Int /\ p[j] \in 0 .. Size
    OBVIOUS
  <2>1. u \in [0 .. Size -> 0 .. InvalidCost]
    BY DEF ArraysInv
  <2>2. u[j] \in 0 .. InvalidCost
    BY <2>1
  <2>3. v[j] \in Int
    BY DEF ArraysInv
  <2>4. p[j] \in 0 .. Size
    BY DEF ArraysInv
  <2> QED
    BY <1>2, <2>2, <2>3, <2>4
<1>4. ASSUME NEW r \in 1 .. Size, NEW j \in 1 .. Size
      PROVE  cost[<<r, j>>] \in 0 .. InvalidCost /\ Slack(r, j) \in Int
  <2>1. <<r, j>> \in (1 .. Size) \X (1 .. Size)
    OBVIOUS
  <2>2. cost[<<r, j>>] \in 0 .. InvalidCost
    BY <2>1 DEF ArraysInv
  <2>3. u[r] \in Int /\ v[j] \in Int
    BY <1>1, <1>3
  <2> QED
    BY <1>2, <2>2, <2>3 DEF Slack
<1> QED
  BY <1>1, <1>3, <1>4

(* While a row looks for a column, there is one that holds none.           *)
LEMMA FreeColumn ==
  ASSUME ArraysInv, MatchInv, apc = "relax"
  PROVE  \E k \in 1 .. Size : p[k] = 0
<1>. SUFFICES ASSUME \A k \in 1 .. Size : p[k] # 0 PROVE FALSE
  OBVIOUS
<1>0. Size \in Nat /\ \A j \in 0 .. Size : p[j] \in 0 .. Size
  BY Sizes
<1>1. i \in 1 .. Size /\ p[0] = i /\ Held = 0 .. Size /\ Entered = i
  BY DEF ArraysInv, MatchInv, Held, Entered
<1>2. PICK m \in Nat, l \in Nat : m = Size /\ l = i /\ l <= m /\ l >= 1
  BY <1>0, <1>1
<1>. DEFINE f == [k \in 1 .. m |-> p[k]]
<1>3. ASSUME NEW k \in 1 .. m PROVE f[k] \in 1 .. l - 1
  <2>1. p[k] \in 0 .. Size /\ p[k] # 0 /\ k \in Held /\ 0 \in Held
    BY <1>0, <1>1, <1>2
  <2>2. p[k] <= i
    BY <2>1, <1>1 DEF MatchInv
  <2>3. p[k] # p[0]
    BY <2>1 DEF MatchInv
  <2> QED
    BY <1>1, <1>2, <2>1, <2>2, <2>3
<1>4. ASSUME NEW a \in 1 .. m, NEW b \in 1 .. m, f[a] = f[b] PROVE a = b
  <2>1. a \in Held /\ b \in Held /\ p[a] = p[b] /\ p[a] # 0
    BY <1>1, <1>2, <1>4
  <2> QED
    BY <2>1 DEF MatchInv
<1>5. f \in Injection(1 .. m, 1 .. l - 1)
  <2>1. f \in [1 .. m -> 1 .. l - 1]
    BY <1>3
  <2>. HIDE DEF f
  <2> QED
    BY <2>1, <1>4 DEF Injection, IsInjective
<1>. HIDE DEF f
<1>6. IsFiniteSet(1 .. l - 1) /\ Cardinality(1 .. l - 1) = l - 1 /\ Cardinality(1 .. m) = m
  BY <1>2, FS_Interval
<1>7. Cardinality(1 .. m) <= Cardinality(1 .. l - 1)
  BY <1>5, <1>6, FS_Injection
<1> QED
  BY <1>2, <1>6, <1>7

-----------------------------------------------------------------------------
(* The rounds of the two loops.                                            *)

(* The columns that were reached, with the one that is being taken in.     *)
Reached == used \cup {j0}

(* The smallest cost of a column not reached yet, with the row it is from. *)
Relaxed(j) == IF j \in Assign!Nearer THEN Slack(p[j0], j) ELSE minv[j]
From(j) == IF j \in Assign!Nearer THEN j0 ELSE way[j]

(* The cost of a gated-out pair fits into an int twice.                    *)
LEMMA IntsFit == InvalidCost \in Nat /\ IntMax \in Nat /\ 2 * InvalidCost < IntMax
<1>1. InvalidCost \in Nat /\ IntMax \in Nat /\ MaxContacts \in Nat /\ MaxContacts >= 1
  BY CostAssumption, GridAssumption
<1>2. PICK a \in Nat, b \in Nat : a = InvalidCost /\ b = MaxContacts
  BY <1>1
<1>3. 2 * b * a >= 2 * a
  BY <1>1, <1>2
<1> QED
  BY <1>1, <1>2, <1>3, CostAssumption

(* Each column reached, the virtual one too, holds a row that is in.       *)
LEMMA ReachedIs ==
  ASSUME ArraysInv, MatchInv, apc = "relax", NEW ord, RelaxInv(ord)
  PROVE  /\ Reached \subseteq 0 .. Size /\ 0 \in Reached
         /\ Held = 0 .. Size /\ Entered = i /\ i \in 1 .. Size /\ p[0] = i
         /\ \A k \in Reached : p[k] \in 1 .. i
         /\ Assign!Open = (1 .. Size) \ Reached /\ Assign!Marked = Reached
<1>0. Size \in Nat /\ Assign!n = Size /\ \A j \in 0 .. Size : p[j] \in 0 .. Size
  BY Sizes
<1>1. Held = 0 .. Size /\ Entered = i
  BY DEF Held, Entered
<1>2. i \in 1 .. Size /\ p[0] = i
  BY <1>0 DEF ArraysInv, MatchInv
<1>3. Reached \subseteq 0 .. Size /\ 0 \in Reached
  BY DEF ArraysInv, RelaxInv, Reached
<1>4. ASSUME NEW k \in Reached PROVE p[k] \in 1 .. i
  <2>1. p[k] # 0 /\ k \in 0 .. Size
    BY <1>3 DEF RelaxInv, Reached
  <2>2. p[k] <= i /\ p[k] \in 0 .. Size
    BY <1>0, <1>1, <2>1 DEF MatchInv
  <2> QED
    BY <1>0, <1>2, <2>1, <2>2
<1>5. Assign!Open = (1 .. Size) \ Reached /\ Assign!Marked = Reached
  BY <1>0 DEF Assign!Open, Assign!Marked, Reached
<1> QED
  BY <1>1, <1>2, <1>3, <1>4, <1>5

(* After a column is taken in, each open one knows its nearest row.        *)
LEMMA RelaxedIs ==
  ASSUME ArraysInv, MatchInv, DualInv, apc = "relax", NEW ord, RelaxInv(ord),
         NEW j \in (1 .. Size) \ Reached
  PROVE  /\ Relaxed(j) \in 0 .. IntMax /\ From(j) \in Reached
         /\ Relaxed(j) = Slack(p[From(j)], j)
         /\ \A k \in Reached : Relaxed(j) <= Slack(p[k], j)
<1>0. Size \in Nat /\ \A k \in 0 .. Size : p[k] \in 0 .. Size
  BY Sizes
<1>1. /\ Reached \subseteq 0 .. Size /\ Entered = i /\ i \in 1 .. Size
      /\ \A k \in Reached : p[k] \in 1 .. i
      /\ Assign!Open = (1 .. Size) \ Reached
  BY ReachedIs
<1>2. ASSUME NEW k \in Reached
      PROVE  Slack(p[k], j) \in 0 .. 2 * InvalidCost /\ p[k] \in 1 .. Size
  <2>1. p[k] \in 1 .. i /\ p[k] \in 1 .. Size
    BY <1>0, <1>1
  <2>2. Slack(p[k], j) >= 0
    BY <1>1, <2>1 DEF DualInv
  <2>3. cost[<<p[k], j>>] \in 0 .. InvalidCost /\ Slack(p[k], j) \in Int
    BY <2>1, Sizes
  <2>4. u[p[k]] \in 0 .. InvalidCost
    <3>1. u \in [0 .. Size -> 0 .. InvalidCost]
      BY DEF ArraysInv
    <3>2. p[k] \in 0 .. Size
      BY <1>0, <2>1
    <3> QED
      BY <3>1, <3>2
  <2>5. v[j] \in -InvalidCost .. 0
    BY DEF DualInv
  <2> QED
    BY <2>1, <2>2, <2>3, <2>4, <2>5, IntsFit DEF Slack
<1>3. j0 \in Reached /\ Assign!Reduced(j) = Slack(p[j0], j)
  BY DEF Reached, Assign!Reduced, Slack
<1>4. minv[j] \in 0 .. IntMax /\ j \in 1 .. Size /\ j \notin used
  BY <1>0 DEF ArraysInv, Reached
<1>5. j \in Assign!Nearer <=> Slack(p[j0], j) < minv[j]
  BY <1>1, <1>3 DEF Assign!Nearer
<1>6. CASE used = {}
  <2>1. minv[j] = IntMax /\ Reached = {j0}
    BY <1>4, <1>6 DEF RelaxInv, Reached
  <2>2. Slack(p[j0], j) \in 0 .. 2 * InvalidCost
    BY <1>2, <1>3
  <2>3. j \in Assign!Nearer
    BY <1>5, <2>1, <2>2, IntsFit
  <2> QED
    BY <1>3, <2>1, <2>2, <2>3, IntsFit DEF Relaxed, From
<1>7. CASE used # {}
  <2>1. /\ way[j] \in used /\ minv[j] = Slack(p[way[j]], j)
        /\ \A k \in used : minv[j] <= Slack(p[k], j)
    BY <1>4, <1>7 DEF RelaxInv
  <2>2. Slack(p[j0], j) \in 0 .. 2 * InvalidCost
    BY <1>2, <1>3
  <2>3. CASE j \in Assign!Nearer
    <3>1. Relaxed(j) = Slack(p[j0], j) /\ From(j) = j0
      BY <2>3 DEF Relaxed, From
    <3>2. ASSUME NEW k \in Reached PROVE Slack(p[j0], j) <= Slack(p[k], j)
      <4>1. Slack(p[k], j) \in 0 .. 2 * InvalidCost
        BY <1>2
      <4>2. k = j0 \/ minv[j] <= Slack(p[k], j)
        BY <2>1 DEF Reached
      <4> QED
        BY <1>4, <1>5, <2>2, <2>3, <4>1, <4>2, IntsFit
    <3> QED
      BY <1>3, <2>2, <3>1, <3>2, IntsFit
  <2>4. CASE j \notin Assign!Nearer
    <3>1. Relaxed(j) = minv[j] /\ From(j) = way[j]
      BY <2>4 DEF Relaxed, From
    <3>2. ASSUME NEW k \in Reached PROVE minv[j] <= Slack(p[k], j)
      <4>1. CASE k = j0
        BY <1>4, <1>5, <2>2, <2>4, <4>1, IntsFit
      <4> QED
        BY <2>1, <4>1 DEF Reached
    <3> QED
      BY <1>4, <2>1, <3>1, <3>2 DEF Reached
  <2> QED
    BY <2>3, <2>4
<1> QED
  BY <1>6, <1>7

(* What a round of the inner loop leaves, delta being the least slack.     *)
RelaxedBy(delta) ==
  /\ delta \in Nat /\ used' = Reached /\ j0' \in (1 .. Size) \ Reached
  /\ u' = [r \in 0 .. Size |->
             IF \E j \in Reached : p[j] = r THEN u[r] + delta ELSE u[r]]
  /\ v' = [j \in 0 .. Size |-> IF j \in Reached THEN v[j] - delta ELSE v[j]]
  /\ way' = [j \in 0 .. Size |-> IF j \in Reached \cup {0} THEN way[j] ELSE From(j)]
  /\ minv' = [j \in 0 .. Size |->
                IF j \in Reached \cup {0} THEN minv[j] ELSE Relaxed(j) - delta]
  /\ \A j \in (1 .. Size) \ Reached : delta <= Relaxed(j)
  /\ Relaxed(j0') = delta
  /\ apc' = IF p[j0'] # 0 THEN "relax" ELSE "shift"

(* One round of the inner loop, with the arrays read at each index.        *)
LEMMA RelaxFacts ==
  ASSUME ArraysInv, MatchInv, DualInv, apc = "relax", NEW ord, RelaxInv(ord),
         Assign!Relax
  PROVE  \E delta \in Nat : RelaxedBy(delta)
<1>. DEFINE relaxed == [j \in 0 .. Assign!n |->
                          IF j \in Assign!Nearer THEN Assign!Reduced(j) ELSE minv[j]]
            delta == Assign!Min({relaxed[j] : j \in Assign!Open})
<1>0. Size \in Nat /\ Assign!n = Size /\ \A k \in 0 .. Size : p[k] \in 0 .. Size
  BY Sizes
<1>1. /\ Reached \subseteq 0 .. Size /\ 0 \in Reached
      /\ \A k \in Reached : p[k] # 0
      /\ Assign!Open = (1 .. Size) \ Reached /\ Assign!Marked = Reached
  BY ReachedIs
<1>2. ASSUME NEW j \in (1 .. Size) \ Reached
      PROVE  relaxed[j] = Relaxed(j) /\ Relaxed(j) \in Nat
  <2>1. Assign!Reduced(j) = Slack(p[j0], j)
    BY DEF Assign!Reduced, Slack
  <2>2. Relaxed(j) \in 0 .. IntMax
    BY RelaxedIs
  <2>3. j \in 0 .. Assign!n
    BY <1>0
  <2> QED
    BY <2>1, <2>2, <2>3, IntsFit DEF Relaxed
<1>3. ASSUME NEW j \in Reached PROVE relaxed[j] = minv[j]
  BY <1>0, <1>1 DEF Assign!Nearer
<1>4. /\ used' = Assign!Marked
      /\ way' = [j \in 0 .. Assign!n |-> IF j \in Assign!Nearer THEN j0 ELSE way[j]]
      /\ minv' = [j \in 0 .. Assign!n |-> IF j \in Assign!Open THEN relaxed[j] - delta
                                                              ELSE relaxed[j]]
      /\ Assign!RaisePotentials(delta, used')
      /\ j0' = Assign!Min({j \in Assign!Open : relaxed[j] = delta})
      /\ apc' = IF p[j0'] # 0 THEN "relax" ELSE "shift"
  BY DEF Assign!Relax
<1>. HIDE DEF relaxed, delta
<1>5. PICK free \in (1 .. Size) \ Reached : TRUE
  <2>1. PICK k \in 1 .. Size : p[k] = 0
    BY FreeColumn
  <2> QED
    BY <1>1, <2>1
<1>6. /\ delta \in Nat
      /\ \A j \in (1 .. Size) \ Reached : delta <= Relaxed(j)
      /\ \E j \in (1 .. Size) \ Reached : relaxed[j] = delta
  <2>. DEFINE T == {relaxed[j] : j \in Assign!Open}
  <2>1. T \subseteq Nat /\ relaxed[free] \in T
    BY <1>1, <1>2, <1>5
  <2>2. delta = Min(T)
    BY DEF delta, Assign!Min, Min
  <2>3. delta \in T /\ \A y \in T : delta <= y
    <3>. HIDE DEF T
    <3> QED
      BY <2>1, <2>2, MinOfNaturals
  <2> QED
    BY <1>1, <1>2, <2>1, <2>3
<1>7. j0' \in (1 .. Size) \ Reached /\ relaxed[j0'] = delta
  <2>. DEFINE T == {j \in Assign!Open : relaxed[j] = delta}
  <2>1. PICK j \in (1 .. Size) \ Reached : relaxed[j] = delta
    BY <1>6
  <2>2. T \subseteq Nat /\ j \in T
    BY <1>0, <1>1, <2>1
  <2>3. j0' = Min(T)
    BY <1>4 DEF Assign!Min, Min
  <2>4. j0' \in T
    <3>. HIDE DEF T
    <3> QED
      BY <2>2, <2>3, MinOfNaturals
  <2> QED
    BY <1>1, <2>4
<1>8. Relaxed(j0') = delta
  BY <1>2, <1>7
<1>9. /\ u' = [r \in 0 .. Size |->
                IF \E j \in Reached : p[j] = r THEN u[r] + delta ELSE u[r]]
      /\ v' = [j \in 0 .. Size |-> IF j \in Reached THEN v[j] - delta ELSE v[j]]
  <2>1. Assign!RaisePotentials(delta, Reached)
    BY <1>1, <1>4
  <2>2. ASSUME NEW r PROVE r \in {p[j] : j \in Reached} <=> \E j \in Reached : p[j] = r
    OBVIOUS
  <2> QED
    BY <1>0, <2>1, <2>2 DEF Assign!RaisePotentials
<1>10. way' = [j \in 0 .. Size |-> IF j \in Reached \cup {0} THEN way[j] ELSE From(j)]
  <2>1. ASSUME NEW j \in 0 .. Size
        PROVE  (IF j \in Assign!Nearer THEN j0 ELSE way[j])
                 = (IF j \in Reached \cup {0} THEN way[j] ELSE From(j))
    <3>1. CASE j \in Reached \cup {0}
      BY <1>0, <1>1, <3>1 DEF Assign!Nearer
    <3>2. CASE j \notin Reached \cup {0}
      BY <3>2 DEF From
    <3> QED
      BY <3>1, <3>2
  <2> QED
    BY <1>0, <1>4, <2>1
<1>11. minv' = [j \in 0 .. Size |->
                 IF j \in Reached \cup {0} THEN minv[j] ELSE Relaxed(j) - delta]
  <2>1. ASSUME NEW j \in 0 .. Size
        PROVE  (IF j \in Assign!Open THEN relaxed[j] - delta ELSE relaxed[j])
                 = (IF j \in Reached \cup {0} THEN minv[j] ELSE Relaxed(j) - delta)
    <3>1. CASE j \in Reached \cup {0}
      BY <1>0, <1>1, <1>3, <3>1
    <3>2. CASE j \notin Reached \cup {0}
      <4>1. j \in (1 .. Size) \ Reached
        BY <1>0, <3>2
      <4> QED
        BY <1>1, <1>2, <3>2, <4>1
    <3> QED
      BY <3>1, <3>2
  <2> QED
    BY <1>0, <1>4, <2>1
<1>12. RelaxedBy(delta)
  BY <1>1, <1>4, <1>6, <1>7, <1>8, <1>9, <1>10, <1>11 DEF RelaxedBy
<1> QED
  BY <1>6, <1>12

(* A round moves the potentials of the rows and columns that are reached.  *)
LEMMA SlackMoves ==
  ASSUME ArraysInv, MatchInv, apc = "relax", NEW ord, RelaxInv(ord),
         NEW delta \in Nat, RelaxedBy(delta), UNCHANGED <<active_slots, count, cost, p, i>>
  PROVE  /\ Size' = Size
         /\ \A k \in Reached, j \in (1 .. Size) \ Reached :
              Slack(p[k], j)' = Slack(p[k], j) - delta
         /\ \A k \in Reached, j \in (1 .. Size) \cap Reached :
              Slack(p[k], j)' = Slack(p[k], j)
         /\ \A k \in (0 .. Size) \ Reached, j \in (1 .. Size) \ Reached :
              p[k] # 0 => Slack(p[k], j)' = Slack(p[k], j)
         /\ \A r, j \in 1 .. Size : Slack(r, j)' \in Int
         /\ \A r \in 1 .. Size, j \in (1 .. Size) \cap Reached : Slack(r, j)' >= Slack(r, j)
         /\ \A r \in 1 .. Size, j \in (1 .. Size) \ Reached :
              (\A k \in Reached : p[k] # r) => Slack(r, j)' = Slack(r, j)
<1>0. Size \in Nat /\ Size' = Size
  BY Sizes DEF Size
<1>1. /\ Reached \subseteq 0 .. Size /\ Held = 0 .. Size /\ i \in 1 .. Size
      /\ \A k \in Reached : p[k] \in 1 .. i
  BY ReachedIs
<1>2. /\ \A r \in 0 .. Size : u'[r] = IF \E j \in Reached : p[j] = r THEN u[r] + delta ELSE u[r]
      /\ \A j \in 0 .. Size : v'[j] = IF j \in Reached THEN v[j] - delta ELSE v[j]
      /\ cost' = cost /\ p' = p
  BY DEF RelaxedBy
<1>3. ASSUME NEW r \in 1 .. Size, NEW j \in 1 .. Size
      PROVE  /\ Slack(r, j)' = cost[<<r, j>>] - u'[r] - v'[j]
             /\ Slack(r, j) = cost[<<r, j>>] - u[r] - v[j]
             /\ cost[<<r, j>>] \in Int /\ u[r] \in Int /\ v[j] \in Int
             /\ u'[r] = IF \E k \in Reached : p[k] = r THEN u[r] + delta ELSE u[r]
             /\ v'[j] = IF j \in Reached THEN v[j] - delta ELSE v[j]
  <2>1. r \in 0 .. Size /\ j \in 0 .. Size
    BY <1>0
  <2>2. cost[<<r, j>>] \in 0 .. InvalidCost /\ u[r] \in Int /\ v[j] \in Int
    BY <2>1, Sizes
  <2> QED
    BY <1>2, <2>1, <2>2, IntsFit DEF Slack
<1>4. ASSUME NEW k \in Reached PROVE p[k] \in 1 .. Size
  BY <1>0, <1>1
<1>5. ASSUME NEW k \in Reached, NEW j \in (1 .. Size) \ Reached
      PROVE  Slack(p[k], j)' = Slack(p[k], j) - delta
  <2>1. p[k] \in 1 .. Size /\ p'[k] = p[k]
    BY <1>2, <1>4
  <2>2. u'[p[k]] = u[p[k]] + delta /\ v'[j] = v[j]
    BY <1>3, <2>1
  <2>3. /\ cost[<<p[k], j>>] \in Int /\ u[p[k]] \in Int /\ v[j] \in Int
        /\ Slack(p[k], j) = cost[<<p[k], j>>] - u[p[k]] - v[j]
    BY <1>3, <2>1
  <2>4. Slack(p[k], j)' = cost[<<p[k], j>>] - u'[p[k]] - v'[j]
    BY <1>2 DEF Slack
  <2> QED
    BY <2>2, <2>3, <2>4
<1>6. ASSUME NEW k \in Reached, NEW j \in (1 .. Size) \cap Reached
      PROVE  Slack(p[k], j)' = Slack(p[k], j)
  <2>1. p[k] \in 1 .. Size
    BY <1>4
  <2>2. u'[p[k]] = u[p[k]] + delta /\ v'[j] = v[j] - delta
    BY <1>3, <2>1
  <2>3. /\ cost[<<p[k], j>>] \in Int /\ u[p[k]] \in Int /\ v[j] \in Int
        /\ Slack(p[k], j) = cost[<<p[k], j>>] - u[p[k]] - v[j]
    BY <1>3, <2>1
  <2>4. Slack(p[k], j)' = cost[<<p[k], j>>] - u'[p[k]] - v'[j]
    BY <1>2 DEF Slack
  <2> QED
    BY <2>2, <2>3, <2>4
<1>7. ASSUME NEW r \in 1 .. Size, NEW j \in (1 .. Size) \ Reached,
             \A k \in Reached : p[k] # r
      PROVE  Slack(r, j)' = Slack(r, j)
  <2>1. u'[r] = u[r] /\ v'[j] = v[j]
    BY <1>3, <1>7
  <2>2. Slack(r, j)' = cost[<<r, j>>] - u'[r] - v'[j]
    BY <1>2 DEF Slack
  <2> QED
    BY <2>1, <2>2 DEF Slack
<1>8. ASSUME NEW k \in (0 .. Size) \ Reached, NEW j \in (1 .. Size) \ Reached, p[k] # 0
      PROVE  Slack(p[k], j)' = Slack(p[k], j)
  <2>1. p[k] \in 1 .. Size
    BY <1>0, <1>8, Sizes
  <2>2. \A l \in Reached : p[l] # p[k]
    BY <1>1, <1>8 DEF MatchInv
  <2>3. u'[p[k]] = u[p[k]] /\ v'[j] = v[j]
    BY <1>3, <2>1, <2>2
  <2>4. Slack(p[k], j)' = cost[<<p[k], j>>] - u'[p[k]] - v'[j]
    BY <1>2 DEF Slack
  <2> QED
    BY <2>3, <2>4 DEF Slack
<1>9. ASSUME NEW r \in 1 .. Size, NEW j \in 1 .. Size
      PROVE  Slack(r, j)' \in Int /\ (j \in Reached => Slack(r, j)' >= Slack(r, j))
  <2>1. Slack(r, j)' = cost[<<r, j>>] - u'[r] - v'[j]
    BY <1>2 DEF Slack
  <2>2. /\ cost[<<r, j>>] \in Int /\ u[r] \in Int /\ v[j] \in Int
        /\ u'[r] = u[r] \/ u'[r] = u[r] + delta
        /\ v'[j] = v[j] \/ v'[j] = v[j] - delta
        /\ j \in Reached => v'[j] = v[j] - delta
        /\ Slack(r, j) = cost[<<r, j>>] - u[r] - v[j]
    BY <1>3
  <2> QED
    BY <2>1, <2>2
<1>10. \A r, j \in 1 .. Size : Slack(r, j)' \in Int
  BY <1>9
<1>11. \A r \in 1 .. Size, j \in (1 .. Size) \cap Reached : Slack(r, j)' >= Slack(r, j)
  BY <1>9
<1> QED
  BY <1>0, <1>5, <1>6, <1>7, <1>8, <1>10, <1>11

(* A round keeps the matching: at the end of the way a free column is let  *)
(* go of.                                                                  *)
LEMMA RelaxKeepsMatch ==
  ASSUME ArraysInv, MatchInv, apc = "relax", NEW ord, RelaxInv(ord),
         NEW delta \in Nat, RelaxedBy(delta), UNCHANGED <<active_slots, count, cost, p, i>>
  PROVE  MatchInv' /\ Held' \subseteq Held /\ Entered' = Entered
<1>0. Size \in Nat /\ Size' = Size
  BY Sizes DEF Size
<1>1. Held = 0 .. Size /\ Entered = i /\ i \in 1 .. Size /\ p[0] = i
  BY ReachedIs
<1>2. apc' \in {"relax", "shift"} /\ (apc' = "shift" => p[j0'] = 0)
  BY DEF RelaxedBy
<1>3. Held' = (0 .. Size) \ (IF apc' = "shift" THEN {j0'} ELSE {}) /\ Entered' = i
  BY <1>0, <1>2 DEF Held, Entered
<1>4. \A j, k \in Held' : p[j] = p[k] /\ p[j] # 0 => j = k
  BY <1>1, <1>3 DEF MatchInv
<1>5. ASSUME NEW r \in 1 .. i PROVE \E j \in Held' : p[j] = r
  <2>1. PICK j \in Held : p[j] = r
    BY <1>1 DEF MatchInv
  <2>2. apc' = "shift" => j # j0'
    BY <1>2, <2>1
  <2> QED
    BY <1>1, <1>3, <2>1, <2>2
<1>6. \A j \in Held' : p[j] <= i
  BY <1>1, <1>3 DEF MatchInv
<1>7. MatchInv'
  BY <1>0, <1>1, <1>2, <1>3, <1>4, <1>5, <1>6 DEF MatchInv
<1> QED
  BY <1>1, <1>3, <1>7

(* What the arrays hold at a column.                                       *)
LEMMA PotentialsAre ==
  ASSUME ArraysInv, NEW j \in 0 .. Size
  PROVE  u[j] \in 0 .. InvalidCost /\ v[j] \in Int /\ minv[j] \in 0 .. IntMax
         /\ way[j] \in 0 .. Size
<1>1. u \in [0 .. Size -> 0 .. InvalidCost]
  BY DEF ArraysInv
<1>2. minv \in [0 .. Size -> 0 .. IntMax] /\ v \in [0 .. Size -> Int]
  BY DEF ArraysInv
<1>3. way \in [0 .. Size -> 0 .. Size]
  BY DEF ArraysInv
<1>4. u[j] \in 0 .. InvalidCost
  BY <1>1
<1>5. minv[j] \in 0 .. IntMax
  BY <1>2
<1> QED
  BY <1>2, <1>3, <1>4, <1>5

(* No potential of a row exceeds a cost, for there is a free column.       *)
LEMMA RelaxKeepsDual ==
  ASSUME ArraysInv, MatchInv, DualInv, apc = "relax", NEW ord, RelaxInv(ord),
         NEW delta \in Nat, RelaxedBy(delta), UNCHANGED <<active_slots, count, cost, p, i>>
  PROVE  DualInv' /\ \A r \in 0 .. Size : u'[r] \in 0 .. InvalidCost /\ v'[r] \in Int
<1>0. Size \in Nat /\ Size' = Size /\ \A j \in 0 .. Size : p[j] \in 0 .. Size
  BY Sizes, SlackMoves
<1>1. /\ Reached \subseteq 0 .. Size /\ 0 \in Reached
      /\ Held = 0 .. Size /\ Entered = i /\ i \in 1 .. Size /\ p[0] = i
      /\ \A k \in Reached : p[k] \in 1 .. i
  BY ReachedIs
<1>2. Held' \subseteq Held /\ Entered' = i /\ p' = p /\ i' = i /\ apc' # "row"
  BY <1>1, RelaxKeepsMatch DEF RelaxedBy
<1>3. ASSUME NEW r \in 1 .. i, NEW j \in 1 .. Size PROVE Slack(r, j)' >= 0
  <2>1. r \in 1 .. Size /\ Slack(r, j) >= 0 /\ Slack(r, j) \in Int /\ Slack(r, j)' \in Int
    <3>1. r \in 1 .. Size
      BY <1>0, <1>1
    <3>2. Slack(r, j) >= 0
      BY <1>1 DEF DualInv
    <3>3. Slack(r, j) \in Int
      BY <3>1, Sizes
    <3>4. Slack(r, j)' \in Int
      BY <3>1, SlackMoves
    <3> QED
      BY <3>1, <3>2, <3>3, <3>4
  <2>2. CASE j \in Reached
    <3>1. Slack(r, j)' >= Slack(r, j)
      BY <2>1, <2>2, SlackMoves
    <3> QED
      BY <2>1, <3>1
  <2>3. CASE j \notin Reached /\ \E k \in Reached : p[k] = r
    <3>1. PICK k \in Reached : p[k] = r
      BY <2>3
    <3>2. delta <= Relaxed(j) /\ Relaxed(j) \in 0 .. IntMax /\ Relaxed(j) <= Slack(p[k], j)
      BY <2>3, RelaxedIs DEF RelaxedBy
    <3>3. Slack(p[k], j)' = Slack(p[k], j) - delta
      BY <2>3, SlackMoves
    <3>4. Slack(r, j)' = Slack(p[k], j)'
      BY <1>2, <3>1 DEF Slack
    <3>5. Relaxed(j) \in Int /\ delta \in Int
      BY <3>2, IntsFit
    <3> QED
      BY <2>1, <3>1, <3>2, <3>3, <3>4, <3>5
  <2>4. CASE j \notin Reached /\ \A k \in Reached : p[k] # r
    <3>1. Slack(r, j)' = Slack(r, j)
      BY <2>1, <2>4, SlackMoves
    <3> QED
      BY <2>1, <3>1
  <2> QED
    BY <2>2, <2>3, <2>4
<1>4. /\ \A r \in 0 .. Size : u'[r] = IF \E j \in Reached : p[j] = r THEN u[r] + delta ELSE u[r]
      /\ \A j \in 0 .. Size : v'[j] = IF j \in Reached THEN v[j] - delta ELSE v[j]
      /\ cost' = cost
  BY DEF RelaxedBy
<1>5. ASSUME NEW r \in i + 1 .. Size PROVE u'[r] = 0 /\ u[r] = 0
  <2>1. ~ \E j \in Reached : p[j] = r
    BY <1>1
  <2>2. r \in 0 .. Size /\ u[r] = 0
    BY <1>0, <1>1 DEF DualInv
  <2> QED
    BY <1>4, <2>1, <2>2
<1>6. ASSUME NEW r \in 0 .. Size PROVE u'[r] \in 0 .. InvalidCost /\ v'[r] \in Int
  <2>0. v'[r] \in Int /\ u'[r] \in Nat /\ u[r] \in 0 .. InvalidCost
    <3>1. u[r] \in 0 .. InvalidCost /\ v[r] \in Int
      BY PotentialsAre
    <3> QED
      BY <1>4, <3>1, IntsFit
  <2>1. CASE r \in 1 .. i
    <3>1. PICK k \in 1 .. Size : p[k] = 0
      BY FreeColumn
    <3>2. k \notin Reached /\ k \in 0 .. Size
      BY <1>0, <1>1, <3>1
    <3>3. v'[k] = 0
      BY <1>4, <3>1, <3>2 DEF DualInv
    <3>4. Slack(r, k)' >= 0 /\ r \in 1 .. Size
      BY <1>0, <1>1, <1>3, <2>1
    <3>5. Slack(r, k)' = cost[<<r, k>>] - u'[r] - v'[k]
      BY <1>4 DEF Slack
    <3>6. cost[<<r, k>>] \in 0 .. InvalidCost
      BY <3>4, Sizes
    <3> QED
      BY <2>0, <3>3, <3>4, <3>5, <3>6, IntsFit
  <2>2. CASE r = 0
    <3>1. ~ \E j \in Reached : p[j] = r
      BY <1>1, <2>2
    <3>2. u'[r] = u[r]
      BY <1>4, <3>1
    <3> QED
      BY <2>0, <3>2
  <2>3. CASE r \in i + 1 .. Size
    BY <1>5, <2>0, <2>3, IntsFit
  <2> QED
    BY <1>0, <1>1, <2>1, <2>2, <2>3
<1>7. ASSUME NEW j \in Held' \ {0}, p[j] # 0 PROVE Slack(p[j], j)' = 0 /\ p[j] \in 1 .. Size
  <2>1. j \in 1 .. Size /\ j \in Held \ {0} /\ p[j] \in 1 .. Size
    BY <1>0, <1>1, <1>2, <1>7
  <2>2. Slack(p[j], j) = 0
    BY <1>7, <2>1 DEF DualInv
  <2>3. CASE j \in Reached
    BY <2>1, <2>2, <2>3, SlackMoves
  <2>4. CASE j \notin Reached
    <3>1. j \in (0 .. Size) \ Reached
      BY <1>0, <2>1, <2>4
    <3> QED
      BY <1>7, <2>1, <2>2, <2>4, <3>1, SlackMoves
  <2> QED
    BY <2>1, <2>3, <2>4
<1>8. ASSUME NEW j \in 1 .. Size
      PROVE  v'[j] \in -InvalidCost .. 0 /\ (p[j] = 0 => v'[j] = 0)
  <2>0. v[j] \in -InvalidCost .. 0 /\ (p[j] = 0 => v[j] = 0) /\ j \in 0 .. Size
    BY <1>0 DEF DualInv
  <2>1. CASE j \notin Reached
    BY <1>4, <2>0, <2>1
  <2>2. CASE j \in Reached
    <3>1. p[j] \in 1 .. i /\ p[j] # 0
      BY <1>1, <2>2
    <3>2. Slack(p[j], j) = 0
      BY <1>1, <2>0, <3>1 DEF DualInv
    <3>3. Slack(p[j], j)' = 0
      BY <2>2, <3>2, SlackMoves
    <3>4. p[j] \in 1 .. Size /\ p[j] \in 0 .. Size
      BY <1>0, <2>0, <3>1
    <3>5. Slack(p[j], j)' = cost[<<p[j], j>>] - u'[p[j]] - v'[j]
      BY <1>2, <1>4 DEF Slack
    <3>6. cost[<<p[j], j>>] \in 0 .. InvalidCost /\ u'[p[j]] \in 0 .. InvalidCost
      BY <1>6, <3>4, Sizes
    <3>7. v'[j] = v[j] - delta
      BY <1>4, <2>0, <2>2
    <3> QED
      BY <2>0, <3>1, <3>3, <3>5, <3>6, <3>7, IntsFit
  <2> QED
    BY <2>1, <2>2
<1>9. /\ v'[0] <= 0
      /\ v'[0] + u'[i] >= -(InvalidCost * (i - 1))
  <2>1. v'[0] = v[0] - delta /\ u'[i] = u[i] + delta
    BY <1>0, <1>1, <1>4
  <2>2. v[0] \in Int /\ u[i] \in Int
    BY <1>0, <1>1, Sizes
  <2>3. v[0] <= 0 /\ v[0] + u[i] >= -(InvalidCost * (i - 1))
    BY DEF DualInv
  <2>4. PICK b \in Int : b = -(InvalidCost * (i - 1))
    BY <1>1, IntsFit
  <2> QED
    BY <2>1, <2>2, <2>3, <2>4
<1>10. DualInv'
  <2>1. \A r \in 1 .. Entered' : \A j \in 1 .. Size' : Slack(r, j)' >= 0
    BY <1>0, <1>2, <1>3
  <2>2. \A r \in Entered' + 1 .. Size' : u'[r] = 0
    BY <1>0, <1>2, <1>5
  <2>3. \A j \in Held' \ {0} : p'[j] # 0 => Slack(p[j], j)' = 0
    BY <1>2, <1>7
  <2>4. \A j \in 1 .. Size' : v'[j] \in -InvalidCost .. 0 /\ (p'[j] = 0 => v'[j] = 0)
    BY <1>0, <1>2, <1>8
  <2> QED
    BY <1>2, <1>9, <2>1, <2>2, <2>3, <2>4 DEF DualInv
<1> QED
  BY <1>6, <1>10

(* No potential of a row grows beyond the cost of a gated-out pair: a      *)
(* column that is free bounds it.                                          *)
LEMMA RelaxKeepsArrays ==
  ASSUME ArraysInv, MatchInv, DualInv, apc = "relax", NEW ord, RelaxInv(ord),
         NEW delta \in Nat, RelaxedBy(delta), UNCHANGED <<active_slots, count, cost, p, i>>
  PROVE  ArraysInv'
<1>0. Size \in Nat /\ Size' = Size
  BY Sizes, SlackMoves
<1>1. Reached \subseteq 0 .. Size
  BY ReachedIs
<1>2. u' \in [0 .. Size -> 0 .. InvalidCost] /\ v' \in [0 .. Size -> Int]
  <2>1. \A r \in 0 .. Size : u'[r] \in 0 .. InvalidCost /\ v'[r] \in Int
    BY RelaxKeepsDual
  <2>2. u' = [r \in 0 .. Size |-> u'[r]] /\ v' = [r \in 0 .. Size |-> v'[r]]
    BY DEF RelaxedBy
  <2> QED
    BY <2>1, <2>2
<1>3. way' \in [0 .. Size -> 0 .. Size]
  <2>1. ASSUME NEW j \in 0 .. Size
        PROVE  (IF j \in Reached \cup {0} THEN way[j] ELSE From(j)) \in 0 .. Size
    <3>1. way[j] \in 0 .. Size
      BY PotentialsAre
    <3>2. j \notin Reached \cup {0} => j \in (1 .. Size) \ Reached
      BY <1>0
    <3>3. j \notin Reached \cup {0} => From(j) \in Reached
      BY <3>2, RelaxedIs
    <3> QED
      BY <1>1, <3>1, <3>3
  <2>2. way' = [j \in 0 .. Size |-> IF j \in Reached \cup {0} THEN way[j] ELSE From(j)]
    BY DEF RelaxedBy
  <2> QED
    BY <2>1, <2>2
<1>4. minv' \in [0 .. Size -> 0 .. IntMax]
  <2>1. ASSUME NEW j \in 0 .. Size
        PROVE  (IF j \in Reached \cup {0} THEN minv[j] ELSE Relaxed(j) - delta) \in 0 .. IntMax
    <3>1. minv[j] \in 0 .. IntMax
      BY PotentialsAre
    <3>2. CASE j \notin Reached \cup {0}
      <4>1. j \in (1 .. Size) \ Reached
        BY <1>0, <3>2
      <4>2. Relaxed(j) \in 0 .. IntMax /\ delta <= Relaxed(j)
        BY <4>1, RelaxedIs DEF RelaxedBy
      <4>3. Relaxed(j) - delta \in 0 .. IntMax
        BY <4>2, IntsFit
      <4> QED
        BY <3>2, <4>3
    <3> QED
      BY <3>1, <3>2
  <2>2. minv' = [j \in 0 .. Size |->
                   IF j \in Reached \cup {0} THEN minv[j] ELSE Relaxed(j) - delta]
    BY DEF RelaxedBy
  <2> QED
    BY <2>1, <2>2
<1>5. used' \subseteq 0 .. Size /\ j0' \in 0 .. Size
  BY <1>0, <1>1 DEF RelaxedBy
<1>6. /\ count' \in Nat \ {0} /\ Len(active_slots)' \in Nat \ {0}
      /\ cost' \in [(1 .. Size) \X (1 .. Size) -> 0 .. InvalidCost]
      /\ p' \in [0 .. Size -> 0 .. Size] /\ i' \in 1 .. Size + 1
  BY DEF ArraysInv
<1> QED
  BY <1>0, <1>2, <1>3, <1>4, <1>5, <1>6 DEF ArraysInv

(* The tree of the columns reached grows by the nearest one.               *)
LEMMA RelaxKeepsPath ==
  ASSUME ArraysInv, MatchInv, DualInv, apc = "relax",
         NEW ord \in [0 .. Size -> Nat], PathInv(ord),
         NEW delta \in Nat, RelaxedBy(delta), UNCHANGED <<active_slots, count, cost, p, i>>
  PROVE  \E next \in [0 .. Size -> Nat] : PathInv(next)'
<1>0. TreeInv(ord) /\ RelaxInv(ord)
  BY DEF PathInv
<1>1. Size \in Nat /\ Size' = Size
  BY Sizes, SlackMoves, <1>0
<1>2. Reached \subseteq 0 .. Size /\ 0 \in Reached /\ \A k \in Reached : p[k] # 0
  BY <1>0, ReachedIs
<1>3. /\ used' = Reached /\ j0' \in (1 .. Size) \ Reached /\ p' = p
      /\ apc' = IF p[j0'] # 0 THEN "relax" ELSE "shift"
      /\ \A j \in Reached : way'[j] = way[j]
      /\ \A j \in (1 .. Size) \ Reached :
           way'[j] = From(j) /\ minv'[j] = Relaxed(j) - delta
      /\ Relaxed(j0') = delta
  <2>1. ASSUME NEW j \in Reached PROVE way'[j] = way[j]
    BY <1>2 DEF RelaxedBy
  <2>2. ASSUME NEW j \in (1 .. Size) \ Reached
        PROVE  way'[j] = From(j) /\ minv'[j] = Relaxed(j) - delta
    <3>1. j \in 0 .. Size /\ j \notin Reached \cup {0}
      BY <1>1
    <3> QED
      BY <3>1 DEF RelaxedBy
  <2> QED
    BY <2>1, <2>2 DEF RelaxedBy
<1>4. PICK next \in [0 .. Size -> Nat] :
        /\ next[j0'] = ord[j0] + 1 /\ \A k \in Reached : next[k] = ord[k]
        /\ ord[j0] \in Nat /\ \A k \in Reached : ord[k] \in Nat /\ ord[k] <= ord[j0]
  <2>. DEFINE later == [ord EXCEPT ![j0'] = ord[j0] + 1]
  <2>1. j0 \in 0 .. Size /\ j0' \in 0 .. Size
    BY <1>1, <1>3 DEF ArraysInv
  <2>2. ord[j0] \in Nat /\ \A k \in Reached : ord[k] \in Nat
    BY <1>2, <2>1
  <2>3. \A k \in Reached : ord[k] <= ord[j0]
    BY <1>0, <2>2 DEF RelaxInv, Reached
  <2>4. /\ later \in [0 .. Size -> Nat]
        /\ later[j0'] = ord[j0] + 1 /\ \A k \in Reached : later[k] = ord[k]
    BY <1>2, <1>3, <2>1, <2>2
  <2>. HIDE DEF later
  <2> QED
    BY <2>2, <2>3, <2>4
<1>5. ASSUME NEW j \in (1 .. Size) \ Reached
      PROVE  /\ way'[j] \in Reached /\ minv'[j] = Slack(p[way[j]], j)'
             /\ \A k \in Reached : minv'[j] <= Slack(p[k], j)'
  <2>1. /\ Relaxed(j) \in 0 .. IntMax /\ From(j) \in Reached
        /\ Relaxed(j) = Slack(p[From(j)], j)
        /\ \A k \in Reached : Relaxed(j) <= Slack(p[k], j)
    BY <1>0, RelaxedIs
  <2>2. \A k \in Reached : Slack(p[k], j)' = Slack(p[k], j) - delta
    BY <1>0, SlackMoves
  <2>3. way'[j] = From(j) /\ minv'[j] = Relaxed(j) - delta
    BY <1>3
  <2>0. PICK f \in Reached : f = From(j)
    BY <2>1
  <2>4. Slack(p[f], j)' = Relaxed(j) - delta
    BY <2>0, <2>1, <2>2
  <2>5. Slack(p[way[j]], j)' = Relaxed(j) - delta
    <3>1. Slack(p[way[j]], j)' = cost'[<<p'[way'[j]], j>>] - u'[p'[way'[j]]] - v'[j]
      BY DEF Slack
    <3>2. Slack(p[f], j)' = cost'[<<p'[f], j>>] - u'[p'[f]] - v'[j]
      BY DEF Slack
    <3> QED
      BY <2>0, <2>3, <2>4, <3>1, <3>2
  <2>6. ASSUME NEW k \in Reached PROVE minv'[j] <= Slack(p[k], j)'
    <3>1. Slack(p[k], j) \in Int
      <4>1. p[k] \in 1 .. Size
        <5>1. p[k] \in 1 .. i /\ i \in 1 .. Size
          BY <1>0, ReachedIs
        <5> QED
          BY <1>1, <5>1
      <4> QED
        BY <4>1, Sizes
    <3>2. Relaxed(j) \in Int
      BY <2>1, IntsFit
    <3> QED
      BY <2>1, <2>2, <2>3, <3>1, <3>2
  <2> QED
    BY <2>1, <2>3, <2>5, <2>6
<1>6. TreeInv(next)'
  <2>. SUFFICES ASSUME NEW k \in (Reached \cup {j0'}) \ {0}
                PROVE  /\ way'[k] \in Reached /\ next[way'[k]] < next[k]
                       /\ p[way'[k]] # 0 /\ Slack(p[way[k]], k)' = 0
    BY <1>3 DEF TreeInv
  <2>1. CASE k = j0'
    <3>1. way'[k] \in Reached /\ minv'[k] = Slack(p[way[k]], k)'
      BY <1>3, <1>5, <2>1
    <3>2. minv'[k] = 0
      <4>1. minv'[k] = Relaxed(k) - delta /\ Relaxed(k) = delta
        BY <1>3, <2>1
      <4> QED
        BY <4>1
    <3>3. next[way'[k]] < next[k]
      BY <1>4, <2>1, <3>1
    <3> QED
      BY <1>2, <3>1, <3>2, <3>3
  <2>2. CASE k \in Reached
    <3>0. k \in (used \cup {j0}) \ {0} /\ k \in 1 .. Size /\ ord[k] <= ord[j0]
      BY <1>1, <1>2, <1>4, <2>2 DEF Reached
    <3>1. /\ way[k] \in used /\ ord[way[k]] < ord[k]
          /\ p[way[k]] # 0 /\ Slack(p[way[k]], k) = 0
      BY <1>0, <3>0 DEF TreeInv
    <3>2. way[k] \in Reached /\ way'[k] = way[k]
      BY <1>3, <2>2, <3>1 DEF Reached
    <3>3. \A l \in Reached, j \in (1 .. Size) \cap Reached :
            Slack(p[l], j)' = Slack(p[l], j)
      BY <1>0, SlackMoves
    <3>4. PICK l \in Reached : l = way[k]
      BY <3>2
    <3>5. Slack(p[l], k)' = 0
      BY <2>2, <3>0, <3>1, <3>3, <3>4
    <3>6. Slack(p[way[k]], k)' = 0
      <4>1. Slack(p[way[k]], k)' = cost'[<<p'[way'[k]], k>>] - u'[p'[way'[k]]] - v'[k]
        BY DEF Slack
      <4>2. Slack(p[l], k)' = cost'[<<p'[l], k>>] - u'[p'[l]] - v'[k]
        BY DEF Slack
      <4> QED
        BY <3>2, <3>4, <3>5, <4>1, <4>2
    <3> QED
      BY <1>4, <2>2, <3>1, <3>2, <3>6
  <2> QED
    BY <2>1, <2>2
<1>7. ASSUME apc' = "relax" PROVE RelaxInv(next)'
  <2>1. j0' \notin used' /\ (used' = {} <=> j0' = 0) /\ 0 \in used' /\ minv'[j0'] = 0
    <3>1. minv'[j0'] = Relaxed(j0') - delta /\ Relaxed(j0') = delta
      BY <1>3
    <3> QED
      BY <1>1, <1>2, <1>3, <3>1
  <2>2. \A k \in used' : next[k] < next[j0']
    BY <1>3, <1>4
  <2>3. \A k \in used' \cup {j0'} : p'[k] # 0
    BY <1>2, <1>3, <1>7
  <2>4. \A j \in (1 .. Size') \ used' :
           /\ way'[j] \in used' /\ minv'[j] = Slack(p[way[j]], j)'
           /\ \A k \in used' : minv'[j] <= Slack(p[k], j)'
    BY <1>1, <1>3, <1>5
  <2>5. used' # {}
    BY <1>2, <1>3
  <2> QED
    BY <2>1, <2>2, <2>3, <2>4, <2>5 DEF RelaxInv
<1>8. PathInv(next)'
  BY <1>1, <1>3, <1>6, <1>7 DEF PathInv
<1> QED
  BY <1>4, <1>8

(* One round of the inner loop keeps the invariant.                        *)
LEMMA RelaxStep ==
  ASSUME AlgInv, Assign!Relax
  PROVE  AlgInv'
<1>1. apc = "relax" /\ UNCHANGED <<active_slots, count, cost, p, i>>
  BY DEF Assign!Relax
<1>2. ArraysInv /\ MatchInv /\ DualInv /\ \E ord \in [0 .. Size -> Nat] : PathInv(ord)
  BY <1>1 DEF AlgInv, Rounds
<1>3. PICK ord \in [0 .. Size -> Nat] : PathInv(ord)
  BY <1>2
<1>4. RelaxInv(ord)
  BY <1>1, <1>3 DEF PathInv
<1>5. PICK delta \in Nat : RelaxedBy(delta)
  BY <1>1, <1>2, <1>4, RelaxFacts
<1>6. ArraysInv'
  BY <1>1, <1>2, <1>4, <1>5, RelaxKeepsArrays
<1>7. MatchInv'
  BY <1>1, <1>2, <1>4, <1>5, RelaxKeepsMatch
<1>8. DualInv'
  BY <1>1, <1>2, <1>4, <1>5, RelaxKeepsDual
<1>9. \E next \in [0 .. Size -> Nat] : PathInv(next)'
  BY <1>1, <1>2, <1>3, <1>5, RelaxKeepsPath
<1>10. Size' = Size
  BY <1>1 DEF Size
<1> QED
  BY <1>6, <1>7, <1>8, <1>9, <1>10 DEF AlgInv

(* A row that begins has no potential, and no potential of a column is     *)
(* positive.                                                               *)
LEMMA StartRowStep ==
  ASSUME AlgInv, Assign!StartRow
  PROVE  AlgInv'
<1>1. /\ apc = "row" /\ p' = [p EXCEPT ![0] = i] /\ j0' = 0 /\ used' = {}
      /\ minv' = [j \in 0 .. Assign!n |-> IntMax] /\ apc' = "relax" /\ i <= Assign!n
      /\ UNCHANGED <<active_slots, count, cost, u, v, way, i>>
  BY DEF Assign!StartRow
<1>2. ArraysInv /\ MatchInv /\ DualInv
  BY <1>1 DEF AlgInv, Rounds
<1>3. /\ Size \in Nat /\ Size' = Size /\ Assign!n = Size
      /\ \A j \in 0 .. Size : p[j] \in 0 .. Size
  BY <1>1, <1>2, Sizes DEF Size
<1>4. Entered = i - 1 /\ Entered' = i /\ i \in 1 .. Size
  BY <1>1, <1>2, <1>3 DEF Entered, ArraysInv
<1>5. Held = 1 .. Size /\ Held' = 0 .. Size
  BY <1>1, <1>3 DEF Held
<1>6. /\ p' \in [0 .. Size -> 0 .. Size] /\ p'[0] = i
      /\ \A j \in 1 .. Size : p'[j] = p[j]
  <2>1. p \in [0 .. Size -> 0 .. Size]
    BY <1>2 DEF ArraysInv
  <2>2. i \in 0 .. Size /\ 0 \in 0 .. Size
    BY <1>3, <1>4
  <2> QED
    BY <1>1, <1>3, <2>1, <2>2
<1>7. ArraysInv'
  <2>1. minv' \in [0 .. Size -> 0 .. IntMax]
    BY <1>1, <1>3, IntsFit
  <2>2. /\ count' \in Nat \ {0} /\ Len(active_slots)' \in Nat \ {0}
        /\ cost' \in [(1 .. Size) \X (1 .. Size) -> 0 .. InvalidCost]
        /\ u' \in [0 .. Size -> 0 .. InvalidCost] /\ v' \in [0 .. Size -> Int]
        /\ way' \in [0 .. Size -> 0 .. Size] /\ i' \in 1 .. Size + 1
    BY <1>1, <1>2 DEF ArraysInv
  <2>3. used' \subseteq 0 .. Size /\ j0' \in 0 .. Size
    BY <1>1, <1>3
  <2> QED
    BY <1>3, <1>6, <2>1, <2>2, <2>3 DEF ArraysInv
<1>8. MatchInv'
  <2>1. \A j \in 1 .. Size : p[j] <= i - 1 /\ p[j] \in Nat
    BY <1>2, <1>3, <1>4, <1>5 DEF MatchInv
  <2>2. ASSUME NEW j \in 0 .. Size, NEW k \in 0 .. Size, p'[j] = p'[k], p'[j] # 0
        PROVE  j = k
    <3>1. CASE j = 0 /\ k # 0
      <4>1. k \in 1 .. Size
        BY <3>1
      <4>2. p'[k] <= i - 1 /\ p'[k] \in Nat
        BY <1>6, <2>1, <4>1
      <4> QED
        BY <1>4, <1>6, <2>2, <3>1, <4>2
    <3>2. CASE j # 0 /\ k = 0
      <4>1. j \in 1 .. Size
        BY <3>2
      <4>2. p'[j] <= i - 1 /\ p'[j] \in Nat
        BY <1>6, <2>1, <4>1
      <4> QED
        BY <1>4, <1>6, <2>2, <3>2, <4>2
    <3>3. CASE j # 0 /\ k # 0
      <4>1. j \in 1 .. Size /\ k \in 1 .. Size
        BY <3>3
      <4> QED
        BY <1>2, <1>5, <1>6, <2>2, <4>1 DEF MatchInv
    <3> QED
      BY <3>1, <3>2, <3>3
  <2>3. ASSUME NEW r \in 1 .. i PROVE \E j \in 0 .. Size : p'[j] = r
    <3>1. CASE r = i
      BY <1>3, <1>6, <3>1
    <3>2. CASE r # i
      <4>1. r \in 1 .. Entered
        BY <1>4, <3>2
      <4>2. PICK j \in 1 .. Size : p[j] = r
        BY <1>2, <1>5, <4>1 DEF MatchInv
      <4> QED
        BY <1>6, <4>2
    <3> QED
      BY <3>1, <3>2
  <2>4. ASSUME NEW j \in 0 .. Size PROVE p'[j] <= i
    <3>1. j = 0 \/ j \in 1 .. Size
      BY <1>3
    <3> QED
      BY <1>4, <1>6, <2>1, <3>1
  <2> QED
    BY <1>1, <1>3, <1>4, <1>5, <1>6, <2>2, <2>3, <2>4 DEF MatchInv
<1>9. DualInv'
  <2>0. ASSUME NEW r, NEW j PROVE Slack(r, j)' = Slack(r, j)
    BY <1>1 DEF Slack
  <2>1. ASSUME NEW r \in 1 .. i, NEW j \in 1 .. Size PROVE Slack(r, j)' >= 0
    <3>1. CASE r = i
      <4>1. u[r] = 0
        BY <1>2, <1>3, <1>4, <3>1 DEF DualInv
      <4>2. v[j] \in -InvalidCost .. 0
        BY <1>2 DEF DualInv
      <4>3. cost[<<r, j>>] \in 0 .. InvalidCost
        <5>1. r \in 1 .. Size
          BY <1>4, <3>1
        <5> QED
          BY <1>2, <5>1, Sizes
      <4>4. Slack(r, j) >= 0
        BY <4>1, <4>2, <4>3, IntsFit DEF Slack
      <4> QED
        BY <2>0, <4>4
    <3>2. CASE r # i
      <4>1. r \in 1 .. Entered
        BY <1>4, <3>2
      <4>2. Slack(r, j) >= 0
        BY <1>2, <4>1 DEF DualInv
      <4> QED
        BY <2>0, <4>2
    <3> QED
      BY <3>1, <3>2
  <2>2. ASSUME NEW r \in i + 1 .. Size PROVE u'[r] = 0
    <3>1. r \in Entered + 1 .. Size
      BY <1>3, <1>4
    <3> QED
      BY <1>1, <1>2, <3>1 DEF DualInv
  <2>3. ASSUME NEW j \in (0 .. Size) \ {0}, p'[j] # 0 PROVE Slack(p[j], j)' = 0
    <3>0. j \in 1 .. Size
      BY <1>3
    <3>1. j \in 1 .. Size /\ p'[j] = p[j] /\ j \in Held \ {0}
      BY <1>5, <1>6, <3>0
    <3>2. Slack(p[j], j) = 0
      BY <1>2, <2>3, <3>1 DEF DualInv
    <3>3. Slack(p[j], j)' = cost'[<<p'[j], j>>] - u'[p'[j]] - v'[j]
      BY DEF Slack
    <3> QED
      BY <1>1, <3>1, <3>2, <3>3 DEF Slack
  <2>4. \A j \in 1 .. Size : v'[j] \in -InvalidCost .. 0 /\ (p'[j] = 0 => v'[j] = 0)
    BY <1>1, <1>2, <1>6 DEF DualInv
  <2>5. v'[0] <= 0 /\ v'[0] + u'[i] >= -(InvalidCost * (i - 1))
    <3>1. u[i] = 0
      BY <1>2, <1>3, <1>4 DEF DualInv
    <3>2. v[0] \in Int /\ v[0] <= 0 /\ v[0] + 0 >= -(InvalidCost * (i - 1))
      BY <1>1, <1>2, <1>3, Sizes DEF DualInv
    <3> QED
      BY <1>1, <3>1, <3>2
  <2> QED
    BY <1>1, <1>3, <1>4, <1>5, <2>1, <2>2, <2>3, <2>4, <2>5 DEF DualInv
<1>10. \E ord \in [0 .. Size -> Nat] : PathInv(ord)'
  <2>1. PICK ord \in [0 .. Size -> Nat] : TRUE
    <3>1. [k \in 0 .. Size |-> 0] \in [0 .. Size -> Nat]
      OBVIOUS
    <3> QED
      BY <3>1
  <2>2. TreeInv(ord)'
    BY <1>1 DEF TreeInv
  <2>3. RelaxInv(ord)'
    <3>1. p'[0] # 0
      BY <1>4, <1>6
    <3>2. \A j \in (1 .. Size) : minv'[j] = IntMax
      BY <1>1, <1>3
    <3> QED
      BY <1>1, <1>3, <3>1, <3>2 DEF RelaxInv
  <2>4. PathInv(ord)'
    BY <1>1, <2>2, <2>3 DEF PathInv
  <2> QED
    BY <2>4
<1> QED
  BY <1>3, <1>7, <1>8, <1>9, <1>10 DEF AlgInv

(* The column that was let go of takes the row of the one before it on the *)
(* way, which is let go of in its place; at the virtual column the row     *)
(* that was added has found its own.                                       *)
LEMMA ShiftStep ==
  ASSUME AlgInv, Assign!Shift
  PROVE  AlgInv'
<1>1. /\ apc = "shift" /\ p' = [p EXCEPT ![j0] = p[way[j0]]] /\ j0' = way[j0]
      /\ IF j0' = 0 THEN apc' = "row" /\ i' = i + 1 ELSE UNCHANGED <<apc, i>>
      /\ UNCHANGED <<active_slots, count, cost, u, v, way, minv, used>>
  BY DEF Assign!Shift
<1>2. ArraysInv /\ MatchInv /\ DualInv /\ \E ord \in [0 .. Size -> Nat] : PathInv(ord)
  BY <1>1 DEF AlgInv, Rounds
<1>3. PICK ord \in [0 .. Size -> Nat] : PathInv(ord)
  BY <1>2
<1>4. TreeInv(ord) /\ j0 # 0
  BY <1>1, <1>3 DEF PathInv
<1>5. PICK w : w = way[j0]
  OBVIOUS
<1>6. /\ Size \in Nat /\ Size' = Size /\ \A j \in 0 .. Size : p[j] \in 0 .. Size
      /\ j0 \in 1 .. Size /\ \A k \in used : k \in 0 .. Size
  <2>1. Size \in Nat /\ Size' = Size /\ \A j \in 0 .. Size : p[j] \in 0 .. Size
    BY <1>1, <1>2, Sizes DEF Size
  <2>2. j0 \in 0 .. Size /\ used \subseteq 0 .. Size
    BY <1>2 DEF ArraysInv
  <2> QED
    BY <1>4, <2>1, <2>2
<1>7. /\ w \in used /\ w \in 0 .. Size /\ ord[w] < ord[j0] /\ p[w] # 0
      /\ Slack(p[w], j0) = 0 /\ ord[w] \in Nat /\ ord[j0] \in Nat /\ w # j0
  <2>1. ord[j0] \in Nat
    BY <1>6
  <2>2. /\ way[j0] \in used /\ ord[way[j0]] < ord[j0]
        /\ p[way[j0]] # 0 /\ Slack(p[way[j0]], j0) = 0
    BY <1>4, <2>1 DEF TreeInv
  <2>3. w \in 0 .. Size /\ ord[w] \in Nat
    BY <1>5, <1>6, <2>2
  <2> QED
    BY <1>5, <2>1, <2>2, <2>3
<1>8. /\ p' \in [0 .. Size -> 0 .. Size] /\ p'[j0] = p[w]
      /\ \A j \in 0 .. Size : j # j0 => p'[j] = p[j]
  <2>1. p \in [0 .. Size -> 0 .. Size]
    BY <1>2 DEF ArraysInv
  <2>2. p[w] \in 0 .. Size /\ j0 \in 0 .. Size
    BY <1>6, <1>7
  <2> QED
    BY <1>1, <1>5, <2>1, <2>2
<1>9. i \in 1 .. Size /\ p[0] = i
  BY <1>1, <1>2, <1>6 DEF ArraysInv, MatchInv
<1>10. Entered = i /\ Entered' = i
  BY <1>1, <1>9 DEF Entered
<1>11. Held = (0 .. Size) \ {j0} /\ Held' = (0 .. Size) \ {w}
  <2>1. Held = (0 .. Size) \ {j0}
    BY <1>1 DEF Held
  <2>2. CASE w = 0
    <3>1. Held' = 1 .. Size
      BY <1>1, <1>5, <1>6, <2>2 DEF Held
    <3> QED
      BY <1>6, <2>1, <2>2, <3>1
  <2>3. CASE w # 0
    BY <1>1, <1>5, <1>6, <2>1, <2>3 DEF Held
  <2> QED
    BY <2>1, <2>2, <2>3
<1>12. MatchInv'
  <2>1. ASSUME NEW j \in Held', NEW k \in Held', p'[j] = p'[k], p'[j] # 0
        PROVE  j = k
    <3>0. j \in 0 .. Size /\ k \in 0 .. Size /\ j # w /\ k # w
      BY <1>11, <2>1
    <3>1. CASE j = j0 /\ k # j0
      <4>1. p[w] = p[k] /\ w \in Held /\ k \in Held
        BY <1>7, <1>8, <1>11, <2>1, <3>0, <3>1
      <4>2. w = k
        BY <1>2, <1>7, <4>1 DEF MatchInv
      <4> QED
        BY <3>0, <4>2
    <3>2. CASE j # j0 /\ k = j0
      <4>1. p[w] = p[j] /\ w \in Held /\ j \in Held
        BY <1>7, <1>8, <1>11, <2>1, <3>0, <3>2
      <4>2. w = j
        BY <1>2, <1>7, <4>1 DEF MatchInv
      <4> QED
        BY <3>0, <4>2
    <3>3. CASE j # j0 /\ k # j0
      <4>1. p[j] = p[k] /\ p[j] # 0 /\ j \in Held /\ k \in Held
        BY <1>8, <1>11, <2>1, <3>0, <3>3
      <4> QED
        BY <1>2, <4>1 DEF MatchInv
    <3> QED
      BY <3>1, <3>2, <3>3
  <2>2. ASSUME NEW r \in 1 .. i PROVE \E j \in Held' : p'[j] = r
    <3>1. PICK j \in Held : p[j] = r
      BY <1>2, <1>10 DEF MatchInv
    <3>2. CASE j = w
      <4>1. j0 \in Held' /\ p'[j0] = r
        BY <1>6, <1>7, <1>8, <1>11, <3>1, <3>2
      <4> QED
        BY <4>1
    <3>3. CASE j # w
      <4>1. j \in Held' /\ p'[j] = r
        BY <1>8, <1>11, <3>1, <3>3
      <4> QED
        BY <4>1
    <3> QED
      BY <3>2, <3>3
  <2>3. ASSUME NEW j \in Held' PROVE p'[j] <= i
    <3>1. CASE j = j0
      <4>1. w \in Held
        BY <1>7, <1>11
      <4>2. p[w] <= i
        BY <1>2, <1>10, <4>1 DEF MatchInv
      <4> QED
        BY <1>8, <3>1, <4>2
    <3>2. CASE j # j0
      <4>1. j \in Held /\ p'[j] = p[j]
        BY <1>8, <1>11, <3>2
      <4> QED
        BY <1>2, <1>10, <4>1 DEF MatchInv
    <3> QED
      BY <3>1, <3>2
  <2>4. ASSUME apc' \in {"relax", "shift"} PROVE i' <= Size /\ p'[0] = i'
    <3>1. i' = i
      BY <1>1, <2>4
    <3>2. 0 \in 0 .. Size /\ j0 # 0
      BY <1>6
    <3>3. p'[0] = p[0]
      BY <1>8, <3>2
    <3> QED
      BY <1>9, <3>1, <3>3
  <2> QED
    BY <1>6, <1>10, <2>1, <2>2, <2>3, <2>4 DEF MatchInv
<1>13. ASSUME NEW r, NEW j PROVE Slack(r, j)' = Slack(r, j)
  BY <1>1 DEF Slack
<1>14. DualInv'
  <2>1. \A r \in 1 .. Entered' : \A j \in 1 .. Size' : Slack(r, j)' >= 0
    BY <1>2, <1>6, <1>10, <1>13 DEF DualInv
  <2>2. \A r \in Entered' + 1 .. Size' : u'[r] = 0
    BY <1>1, <1>2, <1>6, <1>10 DEF DualInv
  <2>3. ASSUME NEW j \in Held' \ {0}, p'[j] # 0 PROVE Slack(p[j], j)' = 0
    <3>0. Slack(p[j], j)' = cost[<<p'[j], j>>] - u[p'[j]] - v[j]
      BY <1>1 DEF Slack
    <3>1. CASE j = j0
      BY <1>7, <1>8, <3>0, <3>1 DEF Slack
    <3>2. CASE j # j0
      <4>1. j \in Held \ {0} /\ p'[j] = p[j]
        BY <1>8, <1>11, <3>2
      <4>2. Slack(p[j], j) = 0
        BY <1>2, <2>3, <4>1 DEF DualInv
      <4> QED
        BY <3>0, <4>1, <4>2 DEF Slack
    <3> QED
      BY <3>1, <3>2
  <2>4. ASSUME NEW j \in 1 .. Size
        PROVE  v'[j] \in -InvalidCost .. 0 /\ (p'[j] = 0 => v'[j] = 0)
    <3>1. v[j] \in -InvalidCost .. 0 /\ (p[j] = 0 => v[j] = 0) /\ j \in 0 .. Size
      BY <1>2, <1>6 DEF DualInv
    <3>2. p'[j] = 0 => p[j] = 0
      BY <1>7, <1>8, <3>1
    <3> QED
      BY <1>1, <3>1, <3>2
  <2>5. v'[0] <= 0
    BY <1>1, <1>2 DEF DualInv
  <2>6. v'[0] + (IF apc' = "row" THEN 0 ELSE u'[i']) >= -(InvalidCost * (i' - 1))
    <3>1. v[0] <= 0 /\ v[0] + u[i] >= -(InvalidCost * (i - 1))
      BY <1>1, <1>2 DEF DualInv
    <3>2. CASE w # 0
      BY <1>1, <1>5, <3>1, <3>2
    <3>3. CASE w = 0
      <4>1. apc' = "row" /\ i' = i + 1
        BY <1>1, <1>5, <3>3
      <4>2. u[i] \in 0 .. InvalidCost /\ v[0] \in Int
        <5>1. i \in 0 .. Size /\ 0 \in 0 .. Size
          BY <1>6, <1>9
        <5>2. u[i] \in 0 .. InvalidCost
          BY <1>2, <5>1, PotentialsAre
        <5>3. v[0] \in Int
          BY <1>2, <5>1, PotentialsAre
        <5> QED
          BY <5>2, <5>3
      <4>3. -(InvalidCost * (i - 1)) - InvalidCost = -(InvalidCost * i)
        BY <1>9, IntsFit
      <4>4. PICK a \in Int, b \in Int : a = -(InvalidCost * (i - 1)) /\ b = -(InvalidCost * i)
        BY <1>9, IntsFit
      <4>5. i' - 1 = i
        BY <1>9, <4>1
      <4>6. v[0] + 0 >= b
        BY <3>1, <4>2, <4>3, <4>4, IntsFit
      <4> QED
        BY <1>1, <3>1, <4>1, <4>4, <4>5, <4>6
    <3> QED
      BY <3>2, <3>3
  <2>7. \A j \in (Held \ {0})' : p'[j] # 0 => Slack(p[j], j)' = 0
    BY <2>3
  <2>8. \A j \in 1 .. Size' : v'[j] \in -InvalidCost .. 0 /\ (p'[j] = 0 => v'[j] = 0)
    BY <1>6, <2>4
  <2> QED
    BY <2>1, <2>2, <2>5, <2>6, <2>7, <2>8, Zenon DEF DualInv
<1>15. ArraysInv'
  <2>1. /\ count' \in Nat \ {0} /\ Len(active_slots)' \in Nat \ {0}
        /\ cost' \in [(1 .. Size) \X (1 .. Size) -> 0 .. InvalidCost]
        /\ u' \in [0 .. Size -> 0 .. InvalidCost] /\ v' \in [0 .. Size -> Int]
        /\ way' \in [0 .. Size -> 0 .. Size] /\ minv' \in [0 .. Size -> 0 .. IntMax]
        /\ used' \subseteq 0 .. Size
    BY <1>1, <1>2 DEF ArraysInv
  <2>2. i' \in 1 .. Size + 1 /\ j0' \in 0 .. Size
    BY <1>1, <1>5, <1>6, <1>7, <1>9
  <2> QED
    BY <1>6, <1>8, <2>1, <2>2 DEF ArraysInv
<1>16. apc' # "row" => PathInv(ord)'
  <2>. SUFFICES ASSUME w # 0 PROVE PathInv(ord)'
    BY <1>1, <1>5
  <2>1. apc' = "shift" /\ j0' = w /\ w # 0 /\ used' = used
    BY <1>1, <1>5
  <2>2. ASSUME NEW k \in (used \cup {w}) \ {0}, ord[k] <= ord[w]
        PROVE  /\ way[k] \in used /\ ord[way[k]] < ord[k]
               /\ p'[way[k]] # 0 /\ Slack(p[way[k]], k)' = 0
    <3>1. k \in (used \cup {j0}) \ {0} /\ k \in 0 .. Size /\ ord[k] \in Nat
      BY <1>6, <1>7
    <3>2. ord[k] <= ord[j0]
      BY <1>7, <2>2, <3>1
    <3>3. /\ way[k] \in used /\ ord[way[k]] < ord[k]
          /\ p[way[k]] # 0 /\ Slack(p[way[k]], k) = 0
      BY <1>4, <3>1, <3>2 DEF TreeInv
    <3>4. PICK l \in 0 .. Size : l = way[k]
      BY <1>6, <3>3
    <3>5. l # j0
      BY <1>7, <2>2, <3>1, <3>3, <3>4
    <3>6. p'[l] = p[l]
      BY <1>8, <3>5
    <3>7. Slack(p[way[k]], k)' = cost'[<<p'[way'[k]], k>>] - u'[p'[way'[k]]] - v'[k]
      BY DEF Slack
    <3>8. Slack(p[way[k]], k)' = Slack(p[way[k]], k)
      BY <1>1, <3>4, <3>6, <3>7 DEF Slack
    <3> QED
      BY <3>3, <3>4, <3>6, <3>8
  <2>3. TreeInv(ord)'
    BY <1>1, <2>1, <2>2 DEF TreeInv
  <2> QED
    BY <2>1, <2>3 DEF PathInv
<1> QED
  BY <1>3, <1>6, <1>12, <1>14, <1>15, <1>16 DEF AlgInv

-----------------------------------------------------------------------------
(* What the assignment is given: slots, points and their distances.        *)

(* The smaller elements of a finite set of numbers number its elements.    *)
Ranking(S) ==
  [r \in 1 .. Cardinality(S) |-> CHOOSE s \in S : Cardinality({t \in S : t < s}) = r - 1]

(* A finite set of numbers in ascending order: each of them once.          *)
LEMMA RankedSlots ==
  ASSUME NEW S \in SUBSET Nat, IsFiniteSet(S), NEW m \in Nat, m = Cardinality(S),
         NEW f, f = Ranking(S)
  PROVE  /\ \A r \in 1 .. m : f[r] \in S
         /\ \A a, b \in 1 .. m : f[a] = f[b] => a = b
         /\ \A s \in S : \E r \in 1 .. m : f[r] = s
<1>0. f = [r \in 1 .. m |-> CHOOSE s \in S : Cardinality({t \in S : t < s}) = r - 1]
  BY DEF Ranking
<1>. DEFINE rank == [s \in S |-> Cardinality({t \in S : t < s})]
<1>1. ASSUME NEW s \in S
      PROVE  /\ IsFiniteSet({t \in S : t < s}) /\ rank[s] \in Nat
             /\ rank[s] = Cardinality({t \in S : t < s}) /\ rank[s] < m
  <2>. DEFINE T == {t \in S : t < s}
  <2>1. IsFiniteSet(T) /\ Cardinality(T) <= m /\ (m = Cardinality(T) => S = T)
    BY FS_Subset
  <2>2. T # S
    <3>1. s \notin T
      OBVIOUS
    <3> QED
      BY <3>1
  <2>3. Cardinality(T) \in Nat
    BY <2>1, FS_CardinalityType
  <2>4. rank[s] = Cardinality(T)
    OBVIOUS
  <2>. HIDE DEF T
  <2>5. Cardinality(T) < m
    BY <2>1, <2>2, <2>3
  <2> QED
    BY <2>1, <2>3, <2>4, <2>5 DEF T
<1>2. ASSUME NEW s \in S, NEW l \in S, s < l PROVE rank[s] < rank[l]
  <2>. DEFINE T == {t \in S : t < s}
              V == {t \in S : t < l}
  <2>1. IsFiniteSet(T) /\ IsFiniteSet(V) /\ rank[s] = Cardinality(T) /\ rank[l] = Cardinality(V)
        /\ rank[s] \in Nat /\ rank[l] \in Nat
    BY <1>1
  <2>2. T \subseteq V /\ s \in V /\ s \notin T
    <3>1. s \in Nat /\ l \in Nat /\ \A t \in S : t \in Nat
      OBVIOUS
    <3>2. \A t \in S : t < s => t < l
      BY <1>2, <3>1
    <3>3. ~(s < s)
      BY <3>1
    <3> QED
      BY <1>2, <3>2, <3>3
  <2>. HIDE DEF T, V, rank
  <2>3. Cardinality(T) <= Cardinality(V) /\ (Cardinality(V) = Cardinality(T) => V = T)
    BY <2>1, <2>2, FS_Subset
  <2> QED
    BY <2>1, <2>2, <2>3
<1>. HIDE DEF rank
<1>3. ASSUME NEW s \in S, NEW l \in S, rank[s] = rank[l] PROVE s = l
  <2>1. s < l \/ l < s \/ s = l
    OBVIOUS
  <2>2. rank[s] \in Nat /\ rank[l] \in Nat
    BY <1>1
  <2> QED
    BY <1>2, <1>3, <2>1, <2>2
<1>4. PICK g : g = [s \in S |-> rank[s] + 1]
  OBVIOUS
<1>5. g \in Injection(S, 1 .. m)
  <2>1. ASSUME NEW s \in S PROVE g[s] \in 1 .. m
    <3>1. rank[s] \in Nat /\ rank[s] < m
      BY <1>1
    <3>2. rank[s] + 1 \in 1 .. m
      BY <3>1
    <3> QED
      BY <1>4, <3>2
  <2>2. ASSUME NEW s \in S, NEW l \in S, g[s] = g[l] PROVE s = l
    <3>1. rank[s] = rank[l]
      <4>1. rank[s] \in Nat /\ rank[l] \in Nat
        BY <1>1
      <4> QED
        BY <1>4, <2>2, <4>1
    <3> QED
      BY <1>3, <3>1
  <2>3. g \in [S -> 1 .. m]
    BY <1>4, <2>1
  <2> QED
    BY <2>2, <2>3 DEF Injection, IsInjective
<1>6. IsFiniteSet(1 .. m) /\ Cardinality(1 .. m) = m
  BY FS_Interval
<1>7. g \in Surjection(S, 1 .. m)
  BY <1>5, <1>6, FS_Injection
<1>8. ASSUME NEW r \in 1 .. m PROVE f[r] \in S /\ rank[f[r]] = r - 1
  <2>1. PICK s \in S : g[s] = r
    BY <1>7 DEF Surjection
  <2>2. Cardinality({t \in S : t < s}) = r - 1
    BY <1>1, <1>4, <2>1
  <2>3. f[r] \in S /\ Cardinality({t \in S : t < f[r]}) = r - 1
    BY <1>0, <2>2
  <2> QED
    BY <1>1, <2>3
<1>9. ASSUME NEW a \in 1 .. m, NEW b \in 1 .. m, f[a] = f[b] PROVE a = b
  <2>1. a - 1 = b - 1
    BY <1>8, <1>9
  <2> QED
    BY <2>1
<1>10. ASSUME NEW s \in S PROVE \E r \in 1 .. m : f[r] = s
  <2>1. rank[s] \in Nat /\ rank[s] < m
    BY <1>1
  <2>2. PICK r \in 1 .. m : r = rank[s] + 1
    BY <2>1
  <2>3. f[r] \in S /\ rank[f[r]] = rank[s]
    <3>1. f[r] \in S /\ rank[f[r]] = r - 1
      BY <1>8
    <3>2. r - 1 = rank[s]
      BY <2>1, <2>2
    <3> QED
      BY <3>1, <3>2
  <2> QED
    BY <1>3, <2>3
<1> QED
  BY <1>8, <1>9, <1>10

(* The integer square root of a square at most is at most its side.        *)
LEMMA IntSqrtBound ==
  ASSUME NEW a \in Nat, NEW b \in Nat, a <= b * b
  PROVE  IntSqrt(a) \in 0 .. b
<1>. DEFINE T == {r \in 0 .. a : r * r <= a}
            D == {a - r : r \in T}
<1>1. D \subseteq Nat /\ a \in D
  <2>1. D \subseteq Nat
    OBVIOUS
  <2>2. 0 \in T
    OBVIOUS
  <2> QED
    BY <2>1, <2>2
<1>2. Min(D) \in D /\ \A y \in D : Min(D) <= y
  <2>. HIDE DEF D
  <2> QED
    BY <1>1, MinOfNaturals
<1>3. PICK r \in T : a - r = Min(D)
  BY <1>2
<1>4. ASSUME NEW y \in T PROVE r >= y
  <2>1. a - y \in D
    OBVIOUS
  <2>2. a - r <= a - y
    BY <1>2, <1>3, <2>1
  <2> QED
    BY <2>2
<1>5. IntSqrt(a) = Max(T)
  BY DEF IntSqrt
<1>. HIDE DEF D
<1>6. Max(T) \in T
  <2>. HIDE DEF T
  <2> QED
    BY <1>4 DEF Max
<1>7. PICK q \in Nat : q = Max(T) /\ q * q <= a
  <2>1. PICK q : q = Max(T)
    OBVIOUS
  <2>2. q \in 0 .. a /\ q * q <= a
    BY <1>6, <2>1
  <2>3. q \in Nat
    BY <2>2
  <2> QED
    BY <2>1, <2>2, <2>3
<1>8. q <= b
  <2>. SUFFICES ASSUME q >= b + 1 PROVE FALSE
    OBVIOUS
  <2>1. q * q >= (b + 1) * (b + 1)
    <3>1. q * q >= q * (b + 1)
      OBVIOUS
    <3>2. q * (b + 1) >= (b + 1) * (b + 1)
      OBVIOUS
    <3> QED
      BY <3>1, <3>2
  <2>2. (b + 1) * (b + 1) > b * b
    OBVIOUS
  <2> QED
    BY <1>7, <2>1, <2>2
<1> QED
  BY <1>5, <1>7, <1>8

(* The contacts of a frame that was found, and where they are.             *)
LEMMA ContactsAre ==
  ASSUME HeatInv, hpc = "found"
  PROVE  /\ Len(contacts) \in Nat /\ DOMAIN contacts = 1 .. Len(contacts)
         /\ Len(contacts) <= MaxContacts
         /\ \A c \in DOMAIN contacts : Point(contacts[c]).x \in Int /\ Point(contacts[c]).y \in Int
<1>1. complete /\ heatmap \in [Cells -> Nat]
  BY DEF HeatInv, SearchInv, ParseInv, Busy
<1>2. contacts \in Seq(Wanted(Done)) /\ Len(contacts) <= MaxContacts
  BY DEF HeatInv, SearchInv, Ranked
<1>3. Len(contacts) \in Nat /\ DOMAIN contacts = 1 .. Len(contacts)
      /\ \A c \in DOMAIN contacts : contacts[c] \in Wanted(Done)
  BY <1>2
<1>4. Done \subseteq Cells
  BY DEF HeatInv, SearchInv, Busy, Done
<1>5. ASSUME NEW b \in SUBSET Cells, IsBlob(b)
      PROVE  Point(b).x \in Int /\ Point(b).y \in Int
  <2>1. IsFiniteSet(b) /\ b # {}
    <3>1. IsFiniteSet(Cells)
      BY Grid, FS_Interval DEF Cells
    <3> QED
      BY <1>5, <3>1, FS_Subset DEF IsBlob
  <2>2. ASSUME NEW x \in b
        PROVE  /\ SignalZero - heatmap[x] \in Nat \ {0}
               /\ Col(x) * (SignalZero - heatmap[x]) \in Int
               /\ Row(x) * (SignalZero - heatmap[x]) \in Int
    <3>1. heatmap[x] \in Nat /\ heatmap[x] <= ActiveMax
      BY <1>1, <1>5 DEF IsBlob, IsActive
    <3>2. SignalZero - heatmap[x] \in Nat \ {0}
      BY <3>1, GridAssumption
    <3>3. Col(x) \in Int /\ Row(x) \in Int
      <4>1. Cols \in Nat
        BY GridAssumption
      <4>2. Col(x) \in 0 .. Cols - 1 /\ Row(x) \in Int
        BY Grid
      <4> QED
        BY <4>1, <4>2
    <3> QED
      BY <3>2, <3>3
  <2>3. Strength(b) \in Nat \ {0}
    <3>1. PICK g : g = [x \in b |-> SignalZero - heatmap[x]]
      OBVIOUS
    <3>2. Strength(b) = Total(g, b)
      BY <2>1, <2>2, <3>1, StrengthTotal, StrengthIs
    <3> QED
      BY <2>1, <2>2, <3>1, <3>2, TotalPositive
  <2>4. WeightedX(b) \in Int
    <3>1. PICK g : g = [x \in b |-> Col(x) * (SignalZero - heatmap[x])]
      OBVIOUS
    <3>2. WeightedX(b) = WeightedXOf(heatmap, b)
      BY DEF WeightedX, WeightedXOf
    <3>3. WeightedX(b) = Total(g, b)
      BY <2>1, <2>2, <3>1, <3>2, WeightedXTotal
    <3> QED
      BY <2>1, <2>2, <3>1, <3>3, TotalPick
  <2>5. WeightedY(b) \in Int
    <3>1. PICK g : g = [x \in b |-> Row(x) * (SignalZero - heatmap[x])]
      OBVIOUS
    <3>2. WeightedY(b) = WeightedYOf(heatmap, b)
      BY DEF WeightedY, WeightedYOf
    <3>3. WeightedY(b) = Total(g, b)
      BY <2>1, <2>2, <3>1, <3>2, WeightedYTotal
    <3> QED
      BY <2>1, <2>2, <3>1, <3>3, TotalPick
  <2>6. ASSUME NEW a \in Nat \ {0}, NEW s \in Nat \ {0}, NEW w \in Int
        PROVE  (w * LogicalMax) \div (s * a) \in Int
    <3>1. s * a \in Nat /\ s * a > 0
      OBVIOUS
    <3>2. w * LogicalMax \in Int
      BY CostAssumption
    <3> QED
      BY <3>1, <3>2
  <2>7. Cols - 1 \in Nat \ {0} /\ Rows - 1 \in Nat \ {0}
    BY GridAssumption
  <2> QED
    BY <2>3, <2>4, <2>5, <2>6, <2>7 DEF Point
<1>6. \A c \in DOMAIN contacts : contacts[c] \in SUBSET Cells /\ IsBlob(contacts[c])
  BY <1>3, <1>4 DEF Wanted
<1> QED
  BY <1>2, <1>3, <1>5, <1>6

-----------------------------------------------------------------------------
(* The frame that is assigned.                                             *)

(* The pairs of a slot and a contact that are not gated out, and how far   *)
(* apart they are.                                                         *)
Points == [c \in DOMAIN contacts |-> Point(contacts[c])]
NearPairs ==
  {sc \in (DOMAIN predicted) \X (DOMAIN contacts) :
     Squared(predicted[sc[1]], Points[sc[2]]) <= Square(MatchMax)}
Dist == [sc \in NearPairs |-> IntSqrt(Squared(predicted[sc[1]], Points[sc[2]]))]

CostOf(row, col) ==
  IF row <= Len(active_slots) /\ col <= count
    THEN IF <<active_slots[row], col>> \in NearPairs
           THEN Dist[<<active_slots[row], col>>] ELSE InvalidCost
  ELSE IF row <= Len(active_slots) \/ col <= count THEN UnmatchedCost
  ELSE 0

OptimalNow ==
  contact_slots \in
    Matching!Optimal(DOMAIN predicted, DOMAIN contacts, NearPairs, Dist, 2 * UnmatchedCost)

(* The assignment is of the frame that was found.                          *)
LinkInv ==
  /\ predicted \in Predictions
  /\ apc \in {"idle", "row", "relax", "shift", "done"}
  /\ apc # "idle" => hpc = "found"
  /\ Rounds => /\ active_slots = ActiveSlots /\ count = Len(contacts)
               /\ \A row, col \in 1 .. Size : cost[<<row, col>>] = CostOf(row, col)
  /\ apc = "done" => OptimalNow

(* The slots of the active tracks, in the order of the matrix's rows.      *)
LEMMA PredictedIs ==
  ASSUME predicted \in Predictions
  PROVE  /\ DOMAIN predicted \in SUBSET (0 .. MaxContacts - 1)
         /\ IsFiniteSet(DOMAIN predicted)
         /\ Len(ActiveSlots) \in Nat /\ Len(ActiveSlots) <= MaxContacts
         /\ DOMAIN ActiveSlots = 1 .. Len(ActiveSlots)
         /\ (Len(ActiveSlots) = 0 <=> DOMAIN predicted = {})
         /\ \A r \in 1 .. Len(ActiveSlots) : ActiveSlots[r] \in DOMAIN predicted
         /\ \A a, b \in 1 .. Len(ActiveSlots) : ActiveSlots[a] = ActiveSlots[b] => a = b
         /\ \A s \in DOMAIN predicted : \E r \in 1 .. Len(ActiveSlots) : ActiveSlots[r] = s
         /\ \A s \in DOMAIN predicted : predicted[s].x \in Int /\ predicted[s].y \in Int
<1>1. PICK slots \in SUBSET (0 .. MaxContacts - 1) :
        predicted \in [slots -> [x : 0 .. LogicalMax, y : 0 .. LogicalMax]]
  BY PredictionAssumption
<1>2. MaxContacts \in Nat /\ LogicalMax \in Nat
  BY GridAssumption, CostAssumption
<1>3. DOMAIN predicted = slots
  BY <1>1
<1>4. slots \in SUBSET Nat /\ IsFiniteSet(slots) /\ Cardinality(slots) <= MaxContacts
  <2>1. PICK m \in Nat : m = MaxContacts
    BY <1>2
  <2>2. IsFiniteSet(0 .. m - 1) /\ Cardinality(0 .. m - 1) = m
    BY FS_Interval
  <2>3. slots \in SUBSET (0 .. m - 1)
    BY <2>1
  <2>4. IsFiniteSet(slots) /\ Cardinality(slots) <= Cardinality(0 .. m - 1)
    BY <2>2, <2>3, FS_Subset
  <2> QED
    BY <2>1, <2>2, <2>3, <2>4
<1>5. PICK m \in Nat : m = Cardinality(slots)
  BY <1>4, FS_CardinalityType
<1>6. PICK f : f = Ranking(slots)
  OBVIOUS
<1>7. ActiveSlots = f
  BY <1>3, <1>6 DEF ActiveSlots, Ranking
<1>8. /\ \A r \in 1 .. m : f[r] \in slots
      /\ \A a, b \in 1 .. m : f[a] = f[b] => a = b
      /\ \A s \in slots : \E r \in 1 .. m : f[r] = s
  <2>1. slots \in SUBSET Nat /\ IsFiniteSet(slots)
    BY <1>4
  <2> QED
    BY <2>1, <1>5, <1>6, RankedSlots
<1>9. Len(f) = m /\ DOMAIN f = 1 .. m
  <2>1. f \in [1 .. m -> slots] /\ DOMAIN f = 1 .. m
    BY <1>5, <1>6, <1>8 DEF Ranking
  <2>2. f \in Seq(slots)
    BY <2>1, SeqDef
  <2>3. DOMAIN f = 1 .. Len(f) /\ Len(f) \in Nat
    BY <2>2
  <2> QED
    BY <2>1, <2>3
<1>10. m = 0 <=> slots = {}
  <2>1. CASE m = 0
    <3>1. 1 .. m = {}
      BY <2>1
    <3> QED
      BY <1>8, <2>1, <3>1
  <2>2. CASE slots = {}
    <3>1. Cardinality(slots) = 0
      BY <2>2, FS_EmptySet
    <3> QED
      BY <1>5, <2>2, <3>1
  <2> QED
    BY <2>1, <2>2
<1>11. ASSUME NEW s \in slots PROVE predicted[s].x \in Int /\ predicted[s].y \in Int
  <2>1. predicted[s] \in [x : 0 .. LogicalMax, y : 0 .. LogicalMax]
    BY <1>1
  <2>2. predicted[s].x \in 0 .. LogicalMax /\ predicted[s].y \in 0 .. LogicalMax
    BY <2>1
  <2> QED
    BY <1>2, <2>2
<1> QED
  BY <1>3, <1>4, <1>5, <1>7, <1>8, <1>9, <1>10, <1>11

(* A pair that is not gated out is no farther apart than the gate.         *)
LEMMA DistIs ==
  ASSUME HeatInv, hpc = "found", predicted \in Predictions, NEW sc \in NearPairs
  PROVE  Dist[sc] \in 0 .. MatchMax
<1>1. sc[1] \in DOMAIN predicted /\ sc[2] \in DOMAIN contacts
      /\ Squared(predicted[sc[1]], Points[sc[2]]) <= Square(MatchMax)
  BY DEF NearPairs
<1>2. predicted[sc[1]].x \in Int /\ predicted[sc[1]].y \in Int
  BY <1>1, PredictedIs
<1>3. Points[sc[2]].x \in Int /\ Points[sc[2]].y \in Int
  BY <1>1, ContactsAre DEF Points
<1>4. PICK q \in Nat : q = Squared(predicted[sc[1]], Points[sc[2]])
  <2>1. \A z \in Int : z * z \in Nat
    OBVIOUS
  <2>2. predicted[sc[1]].x - Points[sc[2]].x \in Int /\ predicted[sc[1]].y - Points[sc[2]].y \in Int
    BY <1>2, <1>3
  <2>3. /\ Square(predicted[sc[1]].x - Points[sc[2]].x) \in Nat
        /\ Square(predicted[sc[1]].y - Points[sc[2]].y) \in Nat
    BY <2>1, <2>2 DEF Square
  <2> QED
    BY <2>3 DEF Squared
<1>5. MatchMax \in Nat /\ q <= MatchMax * MatchMax
  BY <1>1, <1>4, CostAssumption DEF Square
<1>6. IntSqrt(q) \in 0 .. MatchMax
  BY <1>5, IntSqrtBound
<1> QED
  BY <1>4, <1>6 DEF Dist

(* What the assignment reads of a frame does not move under it.            *)
LEMMA SameFrame ==
  ASSUME heatmap' = heatmap, contacts' = contacts, predicted' = predicted
  PROVE  /\ Points' = Points /\ NearPairs' = NearPairs /\ Dist' = Dist
         /\ ActiveSlots' = ActiveSlots
<1>1. ASSUME NEW b PROVE Point(b)' = Point(b)
  <2>1. Strength(b)' = StrengthOf(heatmap', b)
    BY DEF Strength, StrengthOf, MapThenSumSet, MapThenFoldSet
  <2>2. WeightedX(b)' = WeightedXOf(heatmap', b)
    BY DEF WeightedX, WeightedXOf, MapThenSumSet, MapThenFoldSet
  <2>3. WeightedY(b)' = WeightedYOf(heatmap', b)
    BY DEF WeightedY, WeightedYOf, MapThenSumSet, MapThenFoldSet
  <2>4. Strength(b) = StrengthOf(heatmap, b)
    BY StrengthIs
  <2>5. WeightedX(b) = WeightedXOf(heatmap, b) /\ WeightedY(b) = WeightedYOf(heatmap, b)
    BY DEF WeightedX, WeightedXOf, WeightedY, WeightedYOf
  <2> QED
    BY <2>1, <2>2, <2>3, <2>4, <2>5 DEF Point
<1>2. Points' = Points
  <2>1. Points' = [c \in DOMAIN contacts' |-> Point(contacts[c])']
    BY DEF Points
  <2>2. ASSUME NEW c \in DOMAIN contacts PROVE Point(contacts[c])' = Point(contacts[c])
    <3>1. PICK b : b = contacts[c]
      OBVIOUS
    <3>2. Point(b)' = Point(b)
      BY <1>1
    <3>3. Point(contacts[c])' = Point(b)'
      BY <3>1 DEF Point, Strength, WeightedX, WeightedY
    <3> QED
      BY <3>1, <3>2, <3>3
  <2> QED
    BY <2>1, <2>2 DEF Points
<1>3. NearPairs' = NearPairs
  BY <1>2 DEF NearPairs, Squared, Square
<1>4. Dist' = Dist
  BY <1>2, <1>3 DEF Dist, IntSqrt, Squared, Square
<1>5. ActiveSlots' = ActiveSlots
  BY DEF ActiveSlots
<1> QED
  BY <1>2, <1>3, <1>4, <1>5

(* What the first half of g6ts_assign_tracks leaves in its workspace.      *)
LEMMA BeginFacts ==
  ASSUME HeatInv, LinkInv, BeginAssign, NEW a \in Nat, a = Len(ActiveSlots),
         NEW k \in Nat, k = Len(contacts)
  PROVE  /\ hpc = "found" /\ apc = "idle" /\ UNCHANGED <<heatVars, predicted>>
         /\ active_slots' = ActiveSlots /\ count' = k
         /\ contact_slots' = [c \in 1 .. k |-> -1]
         /\ apc' = IF a = 0 \/ k = 0 THEN "done" ELSE "row"
         /\ LET zero == [j \in 0 .. a + k |-> 0] IN
              u' = zero /\ v' = zero /\ p' = zero /\ way' = zero /\ minv' = zero
         /\ used' = {} /\ i' = 1 /\ j0' = 0
         /\ cost' \in [(1 .. a + k) \X (1 .. a + k) -> 0 .. InvalidCost]
         /\ \A row, col \in 1 .. a + k : cost'[<<row, col>>] = CostOf(row, col)'
<1>. DEFINE points == [c \in DOMAIN contacts |-> Point(contacts[c])]
            d == [rc \in Near(ActiveSlots, points) |->
                    IntSqrt(Squared(predicted[ActiveSlots[rc[1]]], points[rc[2]]))]
            costAt(row, col) ==
              IF row <= a /\ col <= k
                THEN IF <<row, col>> \in DOMAIN d THEN d[<<row, col>>] ELSE InvalidCost
              ELSE IF row <= a \/ col <= k THEN UnmatchedCost
              ELSE 0
<1>1. hpc = "found" /\ Assign!Begin(ActiveSlots, k, d) /\ UNCHANGED <<heatVars, predicted>>
  BY DEF BeginAssign
<1>2. points = Points
  BY DEF Points
<1>. HIDE DEF d
<1>3. /\ apc = "idle" /\ active_slots' = ActiveSlots /\ count' = k
      /\ contact_slots' = [c \in 1 .. k |-> -1]
      /\ apc' = IF a = 0 \/ k = 0 THEN "done" ELSE "row"
      /\ u' = [j \in 0 .. a + k |-> 0] /\ v' = [j \in 0 .. a + k |-> 0]
      /\ p' = [j \in 0 .. a + k |-> 0] /\ way' = [j \in 0 .. a + k |-> 0]
      /\ minv' = [j \in 0 .. a + k |-> 0]
      /\ used' = {} /\ i' = 1 /\ j0' = 0
  BY <1>1 DEF Assign!Begin, Assign!NoSlot
<1>4. cost' = [rc \in (1 .. a + k) \X (1 .. a + k) |-> costAt(rc[1], rc[2])]
  BY <1>1 DEF Assign!Begin
<1>5. predicted \in Predictions /\ DOMAIN contacts = 1 .. k
  BY <1>1, ContactsAre DEF LinkInv
<1>6. DOMAIN ActiveSlots = 1 .. a /\ \A r \in 1 .. a : ActiveSlots[r] \in DOMAIN predicted
  BY <1>5, PredictedIs
<1>7. ASSUME NEW row \in 1 .. a, NEW col \in 1 .. k
      PROVE  /\ <<row, col>> \in DOMAIN d <=> <<ActiveSlots[row], col>> \in NearPairs
             /\ <<row, col>> \in DOMAIN d => d[<<row, col>>] = Dist[<<ActiveSlots[row], col>>]
  <2>1. DOMAIN d = Near(ActiveSlots, Points)
    BY <1>2 DEF d
  <2>2. DOMAIN Points = 1 .. k
    BY <1>5 DEF Points
  <2>3. <<row, col>> \in DOMAIN d <=>
          Squared(predicted[ActiveSlots[row]], Points[col]) <= Square(MatchMax)
    BY <1>6, <2>1, <2>2 DEF Near
  <2>4. <<ActiveSlots[row], col>> \in NearPairs <=>
          Squared(predicted[ActiveSlots[row]], Points[col]) <= Square(MatchMax)
    BY <1>5, <1>6 DEF NearPairs
  <2>5. ASSUME <<row, col>> \in DOMAIN d
        PROVE  d[<<row, col>>] = Dist[<<ActiveSlots[row], col>>]
    <3>1. d[<<row, col>>] = IntSqrt(Squared(predicted[ActiveSlots[row]], Points[col]))
      BY <1>2, <2>5 DEF d
    <3>2. <<ActiveSlots[row], col>> \in NearPairs
      BY <2>3, <2>4, <2>5
    <3> QED
      BY <3>1, <3>2 DEF Dist
  <2> QED
    BY <2>3, <2>4, <2>5
<1>8. /\ active_slots' = ActiveSlots /\ Len(active_slots)' = a /\ NearPairs' = NearPairs
      /\ Dist' = Dist
  <2>1. heatmap' = heatmap /\ contacts' = contacts /\ predicted' = predicted
    BY <1>1 DEF heatVars
  <2> QED
    BY <1>3, <2>1, SameFrame
<1>9. ASSUME NEW row \in 1 .. a + k, NEW col \in 1 .. a + k
      PROVE  costAt(row, col) = CostOf(row, col)' /\ costAt(row, col) \in 0 .. InvalidCost
  <2>1. CostOf(row, col)' =
          IF row <= a /\ col <= k
            THEN IF <<ActiveSlots[row], col>> \in NearPairs
                   THEN Dist[<<ActiveSlots[row], col>>] ELSE InvalidCost
          ELSE IF row <= a \/ col <= k THEN UnmatchedCost
          ELSE 0
    BY <1>3, <1>8 DEF CostOf
  <2>2. /\ InvalidCost \in Nat /\ UnmatchedCost \in 0 .. InvalidCost
        /\ InvalidCost \in 0 .. InvalidCost
        /\ MatchMax \in Nat /\ \A q \in 0 .. MatchMax : q \in 0 .. InvalidCost
    BY CostAssumption
  <2>3. CASE row <= a /\ col <= k
    <3>1. row \in 1 .. a /\ col \in 1 .. k
      BY <2>3
    <3>2. CASE <<row, col>> \in DOMAIN d
      <4>1. <<ActiveSlots[row], col>> \in NearPairs
            /\ d[<<row, col>>] = Dist[<<ActiveSlots[row], col>>]
        BY <1>7, <3>1, <3>2
      <4>2. Dist[<<ActiveSlots[row], col>>] \in 0 .. MatchMax
        BY <1>1, <1>5, <4>1, DistIs
      <4> QED
        BY <2>1, <2>2, <2>3, <3>2, <4>1, <4>2
    <3>3. CASE <<row, col>> \notin DOMAIN d
      <4>1. <<ActiveSlots[row], col>> \notin NearPairs
        BY <1>7, <3>1, <3>3
      <4> QED
        BY <2>1, <2>2, <2>3, <3>3, <4>1
    <3> QED
      BY <3>2, <3>3
  <2>4. CASE ~(row <= a /\ col <= k)
    BY <2>1, <2>2, <2>4
  <2> QED
    BY <2>3, <2>4
<1>. HIDE DEF costAt
<1>10. ASSUME NEW row \in 1 .. a + k, NEW col \in 1 .. a + k
       PROVE  cost'[<<row, col>>] = CostOf(row, col)'
  <2>1. cost'[<<row, col>>] = costAt(row, col)
    BY <1>4
  <2> QED
    BY <1>9, <2>1
<1>11. cost' \in [(1 .. a + k) \X (1 .. a + k) -> 0 .. InvalidCost]
  <2>1. ASSUME NEW rc \in (1 .. a + k) \X (1 .. a + k)
        PROVE  costAt(rc[1], rc[2]) \in 0 .. InvalidCost
    BY <1>9
  <2> QED
    BY <1>4, <2>1
<1> QED
  BY <1>1, <1>3, <1>10, <1>11

(* The rounds begin with empty rows and no potentials.                     *)
LEMMA BeginAlg ==
  ASSUME HeatInv, LinkInv, BeginAssign
  PROVE  AlgInv'
<1>1. hpc = "found" /\ predicted \in Predictions
  BY DEF BeginAssign, LinkInv
<1>2. PICK a \in Nat, k \in Nat : a = Len(ActiveSlots) /\ k = Len(contacts)
  BY <1>1, PredictedIs, ContactsAre
<1>3. /\ active_slots' = ActiveSlots /\ count' = k
      /\ apc' = IF a = 0 \/ k = 0 THEN "done" ELSE "row"
      /\ u' = [j \in 0 .. a + k |-> 0] /\ v' = [j \in 0 .. a + k |-> 0]
      /\ p' = [j \in 0 .. a + k |-> 0] /\ way' = [j \in 0 .. a + k |-> 0]
      /\ minv' = [j \in 0 .. a + k |-> 0]
      /\ used' = {} /\ i' = 1 /\ j0' = 0
      /\ cost' \in [(1 .. a + k) \X (1 .. a + k) -> 0 .. InvalidCost]
      /\ UNCHANGED predicted
  BY <1>2, BeginFacts
<1>. SUFFICES ASSUME a # 0, k # 0 PROVE ArraysInv' /\ MatchInv' /\ DualInv' /\ apc' = "row"
  BY <1>3 DEF AlgInv, Rounds
<1>4. apc' = "row" /\ Len(active_slots)' = a /\ Size' = a + k
  BY <1>2, <1>3 DEF Size
<1>5. PICK m \in Nat : m = a + k /\ m >= 2
  OBVIOUS
<1>6. ASSUME NEW B, 0 \in B PROVE [j \in 0 .. m |-> 0] \in [0 .. m -> B]
  BY <1>6
<1>7. ArraysInv'
  <2>1. 0 \in 0 .. InvalidCost /\ 0 \in 0 .. IntMax
    BY IntsFit
  <2>2. 0 \in 0 .. m /\ 0 \in Int
    BY <1>5
  <2>3. u' \in [0 .. m -> 0 .. InvalidCost]
    BY <1>3, <1>5, <1>6, <2>1
  <2>4. v' \in [0 .. m -> Int]
    BY <1>3, <1>5, <1>6, <2>2
  <2>5. p' \in [0 .. m -> 0 .. m] /\ way' \in [0 .. m -> 0 .. m]
    BY <1>3, <1>5, <1>6, <2>2
  <2>6. minv' \in [0 .. m -> 0 .. IntMax]
    BY <1>3, <1>5, <1>6, <2>1
  <2>7. cost' \in [(1 .. m) \X (1 .. m) -> 0 .. InvalidCost]
    BY <1>3, <1>5
  <2>8. i' \in 1 .. m + 1 /\ j0' \in 0 .. m /\ used' \subseteq 0 .. m
    BY <1>3, <1>5
  <2> QED
    BY <1>3, <1>4, <1>5, <2>3, <2>4, <2>5, <2>6, <2>7, <2>8 DEF ArraysInv
<1>8. Entered' = 0 /\ Held' = 1 .. m
  BY <1>3, <1>4, <1>5 DEF Entered, Held
<1>9. \A j \in 0 .. m : p'[j] = 0 /\ u'[j] = 0 /\ v'[j] = 0
  BY <1>3, <1>5
<1>10. MatchInv'
  BY <1>4, <1>8, <1>9 DEF MatchInv
<1>11. DualInv'
  <2>1. \A r \in 1 .. Entered' : \A j \in 1 .. Size' : Slack(r, j)' >= 0
    BY <1>8
  <2>2. \A r \in Entered' + 1 .. Size' : u'[r] = 0
    BY <1>4, <1>5, <1>8, <1>9
  <2>3. \A j \in (Held \ {0})' : p'[j] # 0 => Slack(p[j], j)' = 0
    BY <1>8, <1>9
  <2>4. \A j \in 1 .. Size' : v'[j] \in -InvalidCost .. 0 /\ (p'[j] = 0 => v'[j] = 0)
    BY <1>4, <1>5, <1>9, IntsFit
  <2>5. v'[0] <= 0
    BY <1>5, <1>9
  <2>6. v'[0] + (IF apc' = "row" THEN 0 ELSE u'[i']) >= -(InvalidCost * (i' - 1))
    <3>1. v'[0] = 0 /\ i' - 1 = 0
      BY <1>3, <1>5, <1>9
    <3>2. InvalidCost * 0 = 0
      BY IntsFit
    <3> QED
      BY <1>4, <3>1, <3>2
  <2> QED
    BY <2>1, <2>2, <2>3, <2>4, <2>5, <2>6, Zenon DEF DualInv
<1> QED
  BY <1>4, <1>7, <1>10, <1>11

-----------------------------------------------------------------------------
(* Duality: prices of slots and contacts that no near pair exceeds bound   *)
(* what any pairing saves, and a pairing that meets them is optimal.       *)
LEMMA PricesBound ==
  ASSUME NEW S, IsFiniteSet(S), -1 \notin S, NEW C, IsFiniteSet(C), NEW near, NEW dist,
         NEW worth \in Int, \A sc \in near : dist[sc] \in Int,
         NEW X, \A s \in S : X[s] \in Nat, NEW Y, \A c \in C : Y[c] \in Nat,
         \A s \in S, c \in C : <<s, c>> \in near => worth - dist[<<s, c>>] <= X[s] + Y[c],
         NEW m \in Matching!Pairings(S, C, near)
  PROVE  /\ Matching!Saved(m, dist, worth) \in Int
         /\ Matching!Saved(m, dist, worth) <= Total(X, S) + Total(Y, C)
         /\ (/\ \A c \in C : m[c] # -1 => worth - dist[<<m[c], c>>] = X[m[c]] + Y[c]
             /\ \A c \in C : m[c] = -1 => Y[c] = 0
             /\ \A s \in S : (\A c \in C : m[c] # s) => X[s] = 0)
            => Matching!Saved(m, dist, worth) = Total(X, S) + Total(Y, C)
<1>1. PICK D : D = {c \in C : m[c] # -1}
  OBVIOUS
<1>2. /\ m \in [C -> S \cup {-1}]
      /\ \A c \in C : m[c] # -1 => /\ <<m[c], c>> \in near
                                   /\ \A d \in C : m[c] = m[d] => c = d
  BY DEF Matching!Pairings, Matching!NoSlot
<1>3. D \in SUBSET C /\ IsFiniteSet(D)
  BY <1>1, FS_Subset
<1>4. /\ \A c \in D : m[c] \in S /\ <<m[c], c>> \in near
      /\ \A c, d \in D : m[c] = m[d] => c = d
  BY <1>1, <1>2
<1>5. PICK g, h, f : /\ g = [c \in D |-> worth - dist[<<m[c], c>>]]
                     /\ h = [c \in D |-> X[m[c]]]
                     /\ f = [c \in D |-> X[m[c]] + Y[c]]
  OBVIOUS
<1>6. \A c \in D : /\ g[c] \in Int /\ h[c] \in Int /\ Y[c] \in Int /\ f[c] \in Int
                   /\ g[c] <= f[c] /\ f[c] = h[c] + Y[c] /\ h[c] = X[m[c]]
  BY <1>3, <1>4, <1>5
<1>7. Matching!Saved(m, dist, worth) = Total(g, D)
  <2>1. D = {c \in DOMAIN m : m[c] # -1}
    BY <1>1, <1>2
  <2>2. \A c \in D : worth - dist[<<m[c], c>>] \in Int
    BY <1>4
  <2> QED
    BY <1>3, <1>5, <2>1, <2>2, SavedTotal
<1>8. Total(g, D) \in Int /\ Total(g, D) <= Total(f, D)
  <2>1. Total(g, D) \in Int
    BY <1>3, <1>6, TotalPick
  <2>2. Total(g, D) <= Total(f, D)
    BY <1>3, <1>6, TotalLess
  <2> QED
    BY <2>1, <2>2
<1>9. Total(f, D) = Total(h, D) + Total(Y, D)
  BY <1>3, <1>6, TotalAdd
<1>10. PICK R : R = {m[c] : c \in D}
  OBVIOUS
<1>11. R \in SUBSET S /\ Total(h, D) = Total(X, R)
  <2>1. R \in SUBSET S
    BY <1>4, <1>10
  <2>2. \A x \in S : X[x] \in Int
    OBVIOUS
  <2>3. \A x : x \in R <=> \E c \in D : x = m[c]
    BY <1>10
  <2>4. \A c \in D : m[c] \in S /\ h[c] = X[m[c]]
    BY <1>4, <1>6
  <2>5. Total(h, D) = Total(X, R)
    BY <1>3, <1>4, <2>2, <2>3, <2>4, TotalThrough
  <2> QED
    BY <2>1, <2>5
<1>12. /\ Total(X, R) \in Int /\ Total(X, R) <= Total(X, S) /\ Total(X, S) \in Int
       /\ (\A x \in S \ R : X[x] = 0) => Total(X, R) = Total(X, S)
  BY <1>11, TotalWithin
<1>13. /\ Total(Y, D) \in Int /\ Total(Y, D) <= Total(Y, C) /\ Total(Y, C) \in Int
       /\ (\A x \in C \ D : Y[x] = 0) => Total(Y, D) = Total(Y, C)
  BY <1>3, TotalWithin
<1>14. Total(f, D) \in Int /\ Total(f, D) <= Total(X, S) + Total(Y, C)
  BY <1>9, <1>11, <1>12, <1>13
<1>15. ASSUME /\ \A c \in C : m[c] # -1 => worth - dist[<<m[c], c>>] = X[m[c]] + Y[c]
              /\ \A c \in C : m[c] = -1 => Y[c] = 0
              /\ \A s \in S : (\A c \in C : m[c] # s) => X[s] = 0
       PROVE  Total(g, D) = Total(X, S) + Total(Y, C)
  <2>1. \A c \in D : g[c] = f[c]
    BY <1>1, <1>5, <1>15
  <2>2. Total(g, D) = Total(f, D)
    BY <1>3, <1>6, <2>1, TotalSame
  <2>3. Total(Y, D) = Total(Y, C)
    BY <1>1, <1>13, <1>15
  <2>4. \A s \in S \ R : X[s] = 0
    <3>. SUFFICES ASSUME NEW s \in S \ R PROVE X[s] = 0
      OBVIOUS
    <3>1. \A c \in C : m[c] # s
      BY <1>1, <1>10
    <3> QED
      BY <1>15, <3>1
  <2>5. Total(X, R) = Total(X, S)
    BY <1>12, <2>4
  <2> QED
    BY <1>9, <1>11, <2>2, <2>3, <2>5
<1>16. Matching!Saved(m, dist, worth) <= Total(X, S) + Total(Y, C)
  BY <1>7, <1>8, <1>12, <1>13, <1>14
<1>17. Matching!Saved(m, dist, worth) \in Int
  BY <1>7, <1>8
<1> QED
  BY <1>7, <1>15, <1>16, <1>17

(* A pairing that meets its prices is one of the best.                     *)
LEMMA PricesDecide ==
  ASSUME NEW S, IsFiniteSet(S), -1 \notin S, NEW C, IsFiniteSet(C), NEW near, NEW dist,
         NEW worth \in Int, \A sc \in near : dist[sc] \in Int,
         NEW X, \A s \in S : X[s] \in Nat, NEW Y, \A c \in C : Y[c] \in Nat,
         \A s \in S, c \in C : <<s, c>> \in near => worth - dist[<<s, c>>] <= X[s] + Y[c],
         NEW m \in Matching!Pairings(S, C, near),
         \A c \in C : m[c] # -1 => worth - dist[<<m[c], c>>] = X[m[c]] + Y[c],
         \A c \in C : m[c] = -1 => Y[c] = 0,
         \A s \in S : (\A c \in C : m[c] # s) => X[s] = 0
  PROVE  m \in Matching!Optimal(S, C, near, dist, worth)
<1>1. PICK all : all = Matching!Pairings(S, C, near)
  OBVIOUS
<1>2. PICK most : most = Total(X, S) + Total(Y, C)
  OBVIOUS
<1>3. ASSUME NEW x \in all
      PROVE  Matching!Saved(x, dist, worth) \in Int /\ Matching!Saved(x, dist, worth) <= most
  BY <1>1, <1>2, PricesBound
<1>4. Matching!Saved(m, dist, worth) = most
  BY <1>2, PricesBound
<1>5. PICK T : T = {Matching!Saved(x, dist, worth) : x \in all}
  OBVIOUS
<1>6. most \in T /\ \A y \in T : y \in Int /\ y <= most
  BY <1>1, <1>3, <1>4, <1>5
<1>7. Matching!Max(T) = most
  <2>1. \E x \in T : \A y \in T : x >= y
    BY <1>6
  <2>2. PICK q : q = Matching!Max(T)
    OBVIOUS
  <2>3. q \in T /\ \A y \in T : q >= y
    BY <2>1, <2>2 DEF Matching!Max
  <2> QED
    BY <1>6, <2>2, <2>3
<1> QED
  BY <1>1, <1>4, <1>5, <1>7 DEF Matching!Optimal

-----------------------------------------------------------------------------
(* The answer.                                                             *)

(* When every row is in, every column holds one, and meets its cost.       *)
LEMMA EveryColumnIsHeld ==
  ASSUME AlgInv, apc = "row", i > Size
  PROVE  /\ \A j \in 1 .. Size : p[j] \in 1 .. Size
         /\ \A r \in 1 .. Size : \E j \in 1 .. Size : p[j] = r
         /\ \A j, l \in 1 .. Size : p[j] = p[l] => j = l
         /\ \A r, j \in 1 .. Size : u[r] + v[j] <= cost[<<r, j>>]
         /\ \A j \in 1 .. Size : u[p[j]] + v[j] = cost[<<p[j], j>>]
         /\ \A r, j \in 1 .. Size : /\ u[r] \in Int /\ v[j] \in Int
                                    /\ cost[<<r, j>>] \in 0 .. InvalidCost
<1>1. ArraysInv /\ MatchInv /\ DualInv
  BY DEF AlgInv, Rounds
<1>2. /\ Size \in Nat /\ Size >= 2 /\ i = Size + 1
      /\ \A j \in 0 .. Size : u[j] \in Int /\ v[j] \in Int /\ p[j] \in 0 .. Size
      /\ \A r, j \in 1 .. Size : cost[<<r, j>>] \in 0 .. InvalidCost /\ Slack(r, j) \in Int
  <2>1. /\ Size \in Nat /\ Size >= 2
        /\ \A j \in 0 .. Size : u[j] \in Int /\ v[j] \in Int /\ p[j] \in 0 .. Size
        /\ \A r, j \in 1 .. Size : cost[<<r, j>>] \in 0 .. InvalidCost /\ Slack(r, j) \in Int
    BY <1>1, Sizes
  <2>2. i = Size + 1
    BY <1>1, <2>1 DEF ArraysInv
  <2> QED
    BY <2>1, <2>2
<1>3. PICK m \in Nat : m = Size
  BY <1>2
<1>4. Entered = m /\ Held = 1 .. m
  BY <1>2, <1>3 DEF Entered, Held
<1>5. /\ \A r \in 1 .. m : \E j \in 1 .. m : p[j] = r
      /\ \A j, l \in 1 .. m : p[j] = p[l] /\ p[j] # 0 => j = l
  BY <1>1, <1>4 DEF MatchInv
<1>6. ASSUME NEW j \in 1 .. m PROVE p[j] # 0
  <2>1. PICK g : g = [r \in 1 .. m |-> CHOOSE l \in 1 .. m : p[l] = r]
    OBVIOUS
  <2>2. \A r \in 1 .. m : g[r] \in 1 .. m /\ p[g[r]] = r
    BY <1>5, <2>1
  <2>3. g \in Injection(1 .. m, 1 .. m)
    <3>1. g \in [1 .. m -> 1 .. m]
      BY <2>1, <2>2
    <3>2. \A r, q \in 1 .. m : g[r] = g[q] => r = q
      BY <2>2
    <3> QED
      BY <3>1, <3>2 DEF Injection, IsInjective
  <2>4. IsFiniteSet(1 .. m)
    BY FS_Interval
  <2>5. g \in Surjection(1 .. m, 1 .. m)
    BY <2>3, <2>4, FS_Injection
  <2>6. PICK r \in 1 .. m : g[r] = j
    BY <2>5 DEF Surjection
  <2>7. p[j] = r
    BY <2>2, <2>6
  <2> QED
    BY <2>7
<1>7. \A j \in 1 .. m : p[j] \in 1 .. m
  BY <1>2, <1>3, <1>6
<1>8. ASSUME NEW r \in 1 .. m, NEW j \in 1 .. m
      PROVE  /\ u[r] \in Int /\ v[j] \in Int /\ cost[<<r, j>>] \in 0 .. InvalidCost
             /\ u[r] + v[j] <= cost[<<r, j>>]
             /\ p[j] = r => u[r] + v[j] = cost[<<r, j>>]
  <2>1. u[r] \in Int /\ v[j] \in Int /\ cost[<<r, j>>] \in 0 .. InvalidCost
    BY <1>2, <1>3
  <2>2. cost[<<r, j>>] \in Int
    BY <2>1, IntsFit
  <2>3. Slack(r, j) >= 0
    BY <1>1, <1>3, <1>4 DEF DualInv
  <2>4. p[j] = r => Slack(r, j) = 0
    BY <1>1, <1>4, <1>6 DEF DualInv
  <2> QED
    BY <2>1, <2>2, <2>3, <2>4 DEF Slack
<1>9. \A j \in 1 .. m : u[p[j]] + v[j] = cost[<<p[j], j>>]
  BY <1>7, <1>8
<1> QED
  BY <1>3, <1>5, <1>6, <1>7, <1>8, <1>9

(* A contact holds a track only if a dummy row holds a dummy column.       *)
LEMMA DummiesMeet ==
  ASSUME NEW a \in Nat, NEW k \in Nat, NEW m \in Nat, m = a + k, NEW f,
         \A j \in 1 .. m : f[j] \in 1 .. m, \A j, l \in 1 .. m : f[j] = f[l] => j = l,
         \A j \in k + 1 .. m : f[j] <= a, NEW c \in 1 .. k
  PROVE  f[c] > a
<1>. SUFFICES ASSUME f[c] <= a PROVE FALSE
  <2>1. f[c] \in 1 .. m
    OBVIOUS
  <2> QED
    BY <2>1
<1>1. PICK D : D = {c} \cup (k + 1 .. m)
  OBVIOUS
<1>2. D \subseteq 1 .. m /\ \A j \in D : f[j] \in 1 .. a
  <2>1. D \subseteq 1 .. m
    BY <1>1
  <2>2. \A j \in D : f[j] <= a /\ f[j] \in 1 .. m
    BY <1>1, <2>1
  <2> QED
    BY <2>1, <2>2
<1>3. PICK g : g = [j \in D |-> f[j]]
  OBVIOUS
<1>4. g \in Injection(D, 1 .. a)
  <2>1. g \in [D -> 1 .. a]
    BY <1>2, <1>3
  <2>2. \A j, l \in D : g[j] = g[l] => j = l
    BY <1>2, <1>3
  <2> QED
    BY <2>1, <2>2 DEF Injection, IsInjective
<1>5. IsFiniteSet(1 .. a) /\ Cardinality(1 .. a) = a
  BY FS_Interval
<1>6. Cardinality(D) <= a
  BY <1>4, <1>5, FS_Injection
<1>7. Cardinality(D) = a + 1
  <2>1. PICK E : E = k + 1 .. m
    OBVIOUS
  <2>2. IsFiniteSet(E) /\ Cardinality(E) = a
    <3>1. k + 1 \in Int /\ m \in Int
      OBVIOUS
    <3>2. IsFiniteSet(k + 1 .. m)
          /\ Cardinality(k + 1 .. m) = IF k + 1 > m THEN 0 ELSE m - (k + 1) + 1
      BY <3>1, FS_Interval
    <3> QED
      BY <2>1, <3>2
  <2>3. c \notin E
    BY <2>1
  <2>4. D = E \cup {c}
    BY <1>1, <2>1
  <2>5. Cardinality(E \cup {c}) = a + 1
    BY <2>2, <2>3, FS_AddElement
  <2> QED
    BY <2>4, <2>5
<1> QED
  BY <1>6, <1>7

Answer ==
  [c \in 1 .. count |->
     IF p[c] <= Len(active_slots) /\ cost[<<p[c], c>>] < InvalidCost
       THEN active_slots[p[c]] ELSE -1]

(* The square matrix, read as prices: real and dummy rows and columns.     *)
Matrix(a, k, m, rowOf) ==
  /\ a = Len(active_slots) /\ k = count /\ m = Size /\ m = a + k /\ a # 0 /\ k # 0
  /\ DOMAIN contacts = 1 .. k
  /\ \A r \in 1 .. a : active_slots[r] \in DOMAIN predicted
  /\ \A r \in 1 .. a : rowOf[active_slots[r]] = r
  /\ \A s \in DOMAIN predicted : rowOf[s] \in 1 .. a /\ active_slots[rowOf[s]] = s
  /\ \A r \in 1 .. a, c \in 1 .. k :
       /\ <<active_slots[r], c>> \in NearPairs =>
            cost[<<r, c>>] = Dist[<<active_slots[r], c>>] /\ cost[<<r, c>>] < InvalidCost
       /\ <<active_slots[r], c>> \notin NearPairs => cost[<<r, c>>] = InvalidCost
  /\ \A r \in 1 .. a, j \in k + 1 .. m : cost[<<r, j>>] = UnmatchedCost
  /\ \A r \in a + 1 .. m, c \in 1 .. k : cost[<<r, c>>] = UnmatchedCost
  /\ \A r \in a + 1 .. m, j \in k + 1 .. m : cost[<<r, j>>] = 0
  /\ \A sc \in NearPairs : Dist[sc] \in Int

(* When the last row is in, the matrix is the one of the frame.            *)
LEMMA MatrixFacts ==
  ASSUME HeatInv, LinkInv, AlgInv, apc = "row", i > Size
  PROVE  \E a, k, m \in Nat : \E rowOf \in [DOMAIN predicted -> Nat] : Matrix(a, k, m, rowOf)
<1>1. /\ predicted \in Predictions /\ hpc = "found"
      /\ active_slots = ActiveSlots /\ count = Len(contacts)
      /\ \A row, col \in 1 .. Size : cost[<<row, col>>] = CostOf(row, col)
  BY DEF LinkInv, Rounds
<1>2. PICK a \in Nat, k \in Nat : a = Len(active_slots) /\ k = count /\ a # 0 /\ k # 0
  BY DEF AlgInv, Rounds, ArraysInv
<1>3. PICK m \in Nat : m = a + k /\ m = Size
  BY <1>2 DEF Size
<1>4. DOMAIN contacts = 1 .. k
  BY <1>1, <1>2, ContactsAre
<1>5. /\ \A r \in 1 .. a : active_slots[r] \in DOMAIN predicted
      /\ \A r, q \in 1 .. a : active_slots[r] = active_slots[q] => r = q
      /\ \A s \in DOMAIN predicted : \E r \in 1 .. a : active_slots[r] = s
  BY <1>1, <1>2, PredictedIs
<1>6. PICK rowOf : rowOf = [s \in DOMAIN predicted |->
                               CHOOSE r \in 1 .. a : active_slots[r] = s]
  OBVIOUS
<1>7. \A s \in DOMAIN predicted : rowOf[s] \in 1 .. a /\ active_slots[rowOf[s]] = s
  BY <1>5, <1>6
<1>8. \A r \in 1 .. a : rowOf[active_slots[r]] = r
  BY <1>5, <1>7
<1>9. ASSUME NEW row \in 1 .. m, NEW col \in 1 .. m
      PROVE  cost[<<row, col>>] =
               IF row <= a /\ col <= k
                 THEN IF <<active_slots[row], col>> \in NearPairs
                        THEN Dist[<<active_slots[row], col>>] ELSE InvalidCost
               ELSE IF row <= a \/ col <= k THEN UnmatchedCost
               ELSE 0
  BY <1>1, <1>2, <1>3 DEF CostOf
<1>10. MatchMax \in Nat /\ InvalidCost \in Nat /\ MatchMax < InvalidCost
  BY CostAssumption
<1>11. \A sc \in NearPairs : Dist[sc] \in Int /\ Dist[sc] < InvalidCost
  <2>. SUFFICES ASSUME NEW sc \in NearPairs PROVE Dist[sc] \in Int /\ Dist[sc] < InvalidCost
    OBVIOUS
  <2>1. Dist[sc] \in 0 .. MatchMax
    BY <1>1, DistIs
  <2> QED
    BY <1>10, <2>1
<1>12. \A r \in 1 .. a, c \in 1 .. k :
         /\ <<active_slots[r], c>> \in NearPairs =>
              cost[<<r, c>>] = Dist[<<active_slots[r], c>>] /\ cost[<<r, c>>] < InvalidCost
         /\ <<active_slots[r], c>> \notin NearPairs => cost[<<r, c>>] = InvalidCost
  <2>. SUFFICES ASSUME NEW r \in 1 .. a, NEW c \in 1 .. k
                PROVE  /\ <<active_slots[r], c>> \in NearPairs =>
                            /\ cost[<<r, c>>] = Dist[<<active_slots[r], c>>]
                            /\ cost[<<r, c>>] < InvalidCost
                       /\ <<active_slots[r], c>> \notin NearPairs =>
                            cost[<<r, c>>] = InvalidCost
    OBVIOUS
  <2>1. r \in 1 .. m /\ c \in 1 .. m /\ r <= a /\ c <= k
    BY <1>3
  <2>2. cost[<<r, c>>] = IF <<active_slots[r], c>> \in NearPairs
                          THEN Dist[<<active_slots[r], c>>] ELSE InvalidCost
    BY <1>9, <2>1
  <2> QED
    BY <1>11, <2>2
<1>13. \A r \in 1 .. a, j \in k + 1 .. m : cost[<<r, j>>] = UnmatchedCost
  <2>. SUFFICES ASSUME NEW r \in 1 .. a, NEW j \in k + 1 .. m
                PROVE  cost[<<r, j>>] = UnmatchedCost
    OBVIOUS
  <2>1. r \in 1 .. m /\ j \in 1 .. m /\ r <= a /\ ~(j <= k)
    BY <1>3
  <2> QED
    BY <1>9, <2>1
<1>14. \A r \in a + 1 .. m, c \in 1 .. k : cost[<<r, c>>] = UnmatchedCost
  <2>. SUFFICES ASSUME NEW r \in a + 1 .. m, NEW c \in 1 .. k
                PROVE  cost[<<r, c>>] = UnmatchedCost
    OBVIOUS
  <2>1. r \in 1 .. m /\ c \in 1 .. m /\ ~(r <= a) /\ c <= k
    BY <1>3
  <2> QED
    BY <1>9, <2>1
<1>15. \A r \in a + 1 .. m, j \in k + 1 .. m : cost[<<r, j>>] = 0
  <2>. SUFFICES ASSUME NEW r \in a + 1 .. m, NEW j \in k + 1 .. m
                PROVE  cost[<<r, j>>] = 0
    OBVIOUS
  <2>1. r \in 1 .. m /\ j \in 1 .. m /\ ~(r <= a) /\ ~(j <= k)
    BY <1>3
  <2> QED
    BY <1>9, <2>1
<1>16. \A sc \in NearPairs : Dist[sc] \in Int
  BY <1>11
<1>17. Matrix(a, k, m, rowOf)
  BY <1>2, <1>3, <1>4, <1>5, <1>7, <1>8, <1>12, <1>13, <1>14, <1>15, <1>16, Zenon DEF Matrix
<1>18. rowOf \in [DOMAIN predicted -> Nat]
  BY <1>6, <1>7
<1> QED
  BY <1>17, <1>18

(* What the matrix holds at the end is a pairing of slots and contacts.    *)
LEMMA AnswerIsPairing ==
  ASSUME HeatInv, LinkInv, AlgInv, apc = "row", i > Size
  PROVE  Answer \in Matching!Pairings(DOMAIN predicted, DOMAIN contacts, NearPairs)
<1>0. PICK a, k, m \in Nat : \E rowOf \in [DOMAIN predicted -> Nat] : Matrix(a, k, m, rowOf)
  BY MatrixFacts
<1>6. PICK rowOf \in [DOMAIN predicted -> Nat] : Matrix(a, k, m, rowOf)
  BY <1>0
<1>1. /\ a = Len(active_slots) /\ k = count /\ m = Size /\ m = a + k
      /\ DOMAIN contacts = 1 .. k
      /\ \A r \in 1 .. a : active_slots[r] \in DOMAIN predicted
      /\ \A r \in 1 .. a : rowOf[active_slots[r]] = r
      /\ \A r \in 1 .. a, c \in 1 .. k :
           <<active_slots[r], c>> \notin NearPairs => cost[<<r, c>>] = InvalidCost
  <2>1. /\ a = Len(active_slots) /\ k = count /\ m = Size /\ m = a + k
        /\ DOMAIN contacts = 1 .. k
        /\ \A r \in 1 .. a : active_slots[r] \in DOMAIN predicted
        /\ \A r \in 1 .. a : rowOf[active_slots[r]] = r
    BY <1>6, Zenon DEF Matrix
  <2>2. \A r \in 1 .. a, c \in 1 .. k :
          <<active_slots[r], c>> \notin NearPairs => cost[<<r, c>>] = InvalidCost
    BY <1>6, SMTT(30) DEF Matrix
  <2> QED
    BY <2>1, <2>2
<1>2. /\ \A j \in 1 .. m : p[j] \in 1 .. m
      /\ \A j, l \in 1 .. m : p[j] = p[l] => j = l
  BY <1>1, EveryColumnIsHeld
<1>3. ASSUME NEW c \in 1 .. k, Answer[c] # -1
      PROVE  /\ p[c] \in 1 .. a /\ Answer[c] = active_slots[p[c]] /\ c \in 1 .. m
             /\ <<Answer[c], c>> \in NearPairs
  <2>1. c \in 1 .. m /\ p[c] \in 1 .. m
    BY <1>1, <1>2
  <2>2. /\ p[c] <= a /\ cost[<<p[c], c>>] < InvalidCost
        /\ Answer[c] = active_slots[p[c]]
    BY <1>1, <1>3 DEF Answer
  <2>3. p[c] \in 1 .. a
    BY <2>1, <2>2
  <2>4. cost[<<p[c], c>>] # InvalidCost
    BY <2>2, IntsFit
  <2> QED
    BY <1>1, <2>1, <2>2, <2>3, <2>4
<1>4. Answer \in [1 .. k -> DOMAIN predicted \cup {-1}]
  <2>1. \A c \in 1 .. k : Answer[c] \in DOMAIN predicted \cup {-1}
    BY <1>1, <1>3
  <2> QED
    BY <1>1, <2>1 DEF Answer
<1>5. ASSUME NEW c \in 1 .. k, NEW d \in 1 .. k, Answer[c] # -1, Answer[c] = Answer[d]
      PROVE  c = d
  <2>1. /\ p[c] \in 1 .. a /\ Answer[c] = active_slots[p[c]] /\ c \in 1 .. m
        /\ p[d] \in 1 .. a /\ Answer[d] = active_slots[p[d]] /\ d \in 1 .. m
    BY <1>3, <1>5
  <2>2. p[c] = p[d]
    <3>1. rowOf[active_slots[p[c]]] = p[c] /\ rowOf[active_slots[p[d]]] = p[d]
      BY <1>1, <2>1
    <3>2. active_slots[p[c]] = active_slots[p[d]]
      BY <1>5, <2>1
    <3> QED
      BY <3>1, <3>2
  <2> QED
    BY <1>2, <2>1, <2>2
<1> QED
  BY <1>1, <1>3, <1>4, <1>5 DEF Matching!Pairings, Matching!NoSlot

(* What each side of a near pair may save, and what the matching saves.    *)
Prices(a, k, m, rowOf, X, Y) ==
  /\ \A s \in DOMAIN predicted : X[s] \in Nat
  /\ \A c \in 1 .. k : Y[c] \in Nat
  /\ \A s \in DOMAIN predicted, c \in 1 .. k :
       /\ cost[<<rowOf[s], c>>] \in Int
       /\ 2 * UnmatchedCost - cost[<<rowOf[s], c>>] <= X[s] + Y[c]
       /\ p[c] = rowOf[s] => 2 * UnmatchedCost - cost[<<rowOf[s], c>>] = X[s] + Y[c]
  /\ \A c \in 1 .. k : p[c] > a => Y[c] = 0
  /\ \A s \in DOMAIN predicted : \A j \in k + 1 .. m : p[j] = rowOf[s] => X[s] = 0

(* Two dummies are matched: the potentials of that pair, taken off, leave  *)
(* the prices of slots and contacts.                                       *)
LEMMA PricesOfDummies ==
  ASSUME HeatInv, LinkInv, AlgInv, apc = "row", i > Size,
         NEW a \in Nat, NEW k \in Nat, NEW m \in Nat, NEW rowOf, Matrix(a, k, m, rowOf),
         NEW dj \in k + 1 .. m, p[dj] > a,
         NEW X, \A s \in DOMAIN predicted : X[s] = UnmatchedCost - v[dj] - u[rowOf[s]],
         NEW Y, \A c \in 1 .. k : Y[c] = UnmatchedCost - u[p[dj]] - v[c]
  PROVE  Prices(a, k, m, rowOf, X, Y)
<1>1. UnmatchedCost \in Nat
  BY CostAssumption
<1>2. /\ m = Size /\ m = a + k /\ a # 0 /\ k # 0
      /\ \A s \in DOMAIN predicted : rowOf[s] \in 1 .. a
      /\ \A r \in 1 .. a, j \in k + 1 .. m : cost[<<r, j>>] = UnmatchedCost
      /\ \A r \in a + 1 .. m, c \in 1 .. k : cost[<<r, c>>] = UnmatchedCost
      /\ \A r \in a + 1 .. m, j \in k + 1 .. m : cost[<<r, j>>] = 0
  BY DEF Matrix
<1>3. /\ \A j \in 1 .. m : p[j] \in 1 .. m
      /\ \A r, j \in 1 .. m : u[r] + v[j] <= cost[<<r, j>>]
      /\ \A j \in 1 .. m : u[p[j]] + v[j] = cost[<<p[j], j>>]
      /\ \A r, j \in 1 .. m : u[r] \in Int /\ v[j] \in Int /\ cost[<<r, j>>] \in 0 .. InvalidCost
  BY <1>2, EveryColumnIsHeld
<1>4. /\ \A r \in 1 .. a : r \in 1 .. m
      /\ \A c \in 1 .. k : c \in 1 .. m
      /\ \A j \in k + 1 .. m : j \in 1 .. m
  BY <1>2
<1>5. PICK al \in Int, be \in Int : al = u[p[dj]] /\ be = v[dj] /\ al + be = 0
  <2>1. dj \in 1 .. m /\ p[dj] \in 1 .. m
    BY <1>3, <1>4
  <2>2. u[p[dj]] \in Int /\ v[dj] \in Int /\ u[p[dj]] + v[dj] = cost[<<p[dj], dj>>]
    BY <1>3, <2>1
  <2>3. p[dj] \in a + 1 .. m
    BY <2>1
  <2> QED
    BY <1>2, <2>2, <2>3
<1>6. ASSUME NEW s \in DOMAIN predicted
      PROVE  X[s] = UnmatchedCost - be - u[rowOf[s]] /\ u[rowOf[s]] \in Int /\ X[s] \in Nat
  <2>1. rowOf[s] \in 1 .. m /\ rowOf[s] \in 1 .. a /\ dj \in 1 .. m
    BY <1>2, <1>4
  <2>2. u[rowOf[s]] \in Int /\ u[rowOf[s]] + v[dj] <= cost[<<rowOf[s], dj>>]
    BY <1>3, <2>1
  <2>3. cost[<<rowOf[s], dj>>] = UnmatchedCost
    BY <1>2, <2>1
  <2> QED
    BY <1>1, <1>5, <2>2, <2>3
<1>7. ASSUME NEW c \in 1 .. k
      PROVE  Y[c] = UnmatchedCost - al - v[c] /\ v[c] \in Int /\ Y[c] \in Nat
  <2>1. c \in 1 .. m /\ dj \in 1 .. m /\ p[dj] \in 1 .. m
    BY <1>3, <1>4
  <2>2. v[c] \in Int /\ u[p[dj]] + v[c] <= cost[<<p[dj], c>>]
    BY <1>3, <2>1
  <2>3. p[dj] \in a + 1 .. m
    BY <2>1
  <2>4. cost[<<p[dj], c>>] = UnmatchedCost
    BY <1>2, <2>3
  <2> QED
    BY <1>1, <1>5, <2>2, <2>4
<1>8. ASSUME NEW s \in DOMAIN predicted, NEW c \in 1 .. k
      PROVE  /\ cost[<<rowOf[s], c>>] \in Int
             /\ 2 * UnmatchedCost - cost[<<rowOf[s], c>>] <= X[s] + Y[c]
             /\ p[c] = rowOf[s] => 2 * UnmatchedCost - cost[<<rowOf[s], c>>] = X[s] + Y[c]
  <2>1. rowOf[s] \in 1 .. m /\ c \in 1 .. m
    BY <1>2, <1>4
  <2>2. cost[<<rowOf[s], c>>] \in 0 .. InvalidCost
    BY <1>3, <2>1
  <2>3. cost[<<rowOf[s], c>>] \in Int
    BY <2>2, IntsFit
  <2>4. u[rowOf[s]] + v[c] <= cost[<<rowOf[s], c>>]
    BY <1>3, <2>1
  <2>5. p[c] = rowOf[s] => u[rowOf[s]] + v[c] = cost[<<rowOf[s], c>>]
    BY <1>3, <2>1
  <2>6. X[s] = UnmatchedCost - be - u[rowOf[s]] /\ u[rowOf[s]] \in Int
        /\ Y[c] = UnmatchedCost - al - v[c] /\ v[c] \in Int
    BY <1>6, <1>7
  <2>7. X[s] + Y[c] = 2 * UnmatchedCost - (u[rowOf[s]] + v[c])
    <3>1. PICK x \in Int, y \in Int : x = u[rowOf[s]] /\ y = v[c]
      BY <2>6
    <3>2. X[s] = UnmatchedCost - be - x /\ Y[c] = UnmatchedCost - al - y
      BY <2>6, <3>1
    <3>3. al + be = 0
      BY <1>5
    <3> QED
      BY <1>1, <3>1, <3>2, <3>3
  <2> QED
    BY <1>1, <2>3, <2>4, <2>5, <2>6, <2>7
<1>9. ASSUME NEW c \in 1 .. k, p[c] > a PROVE Y[c] = 0
  <2>1. c \in 1 .. m /\ p[c] \in 1 .. m /\ dj \in 1 .. m
    BY <1>3, <1>4
  <2>2. p[c] \in a + 1 .. m
    BY <1>9, <2>1
  <2>3. /\ u[p[c]] \in Int /\ v[c] \in Int
        /\ u[p[c]] + v[c] = cost[<<p[c], c>>]
        /\ u[p[c]] + v[dj] <= cost[<<p[c], dj>>]
    BY <1>3, <2>1
  <2>4. cost[<<p[c], c>>] = UnmatchedCost /\ cost[<<p[c], dj>>] = 0
    BY <1>2, <2>2
  <2>5. Y[c] = UnmatchedCost - al - v[c] /\ Y[c] \in Nat
    BY <1>7
  <2> QED
    BY <1>1, <1>5, <2>3, <2>4, <2>5
<1>10. ASSUME NEW s \in DOMAIN predicted, NEW j \in k + 1 .. m, p[j] = rowOf[s]
       PROVE  X[s] = 0
  <2>1. j \in 1 .. m /\ rowOf[s] \in 1 .. a /\ rowOf[s] \in 1 .. m /\ dj \in 1 .. m
        /\ p[dj] \in 1 .. m
    BY <1>2, <1>3, <1>4
  <2>2. u[p[j]] + v[j] = cost[<<p[j], j>>]
    BY <1>3, <2>1
  <2>3. /\ u[rowOf[s]] \in Int /\ v[j] \in Int
        /\ u[p[dj]] + v[j] <= cost[<<p[dj], j>>]
    BY <1>3, <2>1
  <2>4. p[dj] \in a + 1 .. m
    BY <2>1
  <2>5. cost[<<rowOf[s], j>>] = UnmatchedCost /\ cost[<<p[dj], j>>] = 0
    BY <1>2, <2>1, <2>4
  <2>6. X[s] = UnmatchedCost - be - u[rowOf[s]] /\ X[s] \in Nat
    BY <1>6
  <2>7. u[rowOf[s]] + v[j] = UnmatchedCost
    BY <1>10, <2>2, <2>5
  <2> QED
    BY <1>1, <1>5, <2>3, <2>5, <2>6, <2>7
<1> QED
  BY <1>6, <1>7, <1>8, <1>9, <1>10 DEF Prices

(* No two dummies are: every track is closed and every contact is new, and *)
(* no pair is near enough to save anything.                                *)
LEMMA NothingToSave ==
  ASSUME HeatInv, LinkInv, AlgInv, apc = "row", i > Size,
         NEW a \in Nat, NEW k \in Nat, NEW m \in Nat, NEW rowOf, Matrix(a, k, m, rowOf),
         \A j \in k + 1 .. m : p[j] <= a
  PROVE  /\ \A c \in 1 .. k : p[c] > a
         /\ \A s \in DOMAIN predicted, c \in 1 .. k :
              /\ cost[<<rowOf[s], c>>] \in Int
              /\ 2 * UnmatchedCost - cost[<<rowOf[s], c>>] <= 0
<1>1. UnmatchedCost \in Nat
  BY CostAssumption
<1>2. /\ m = Size /\ m = a + k /\ a # 0 /\ k # 0
      /\ \A s \in DOMAIN predicted : rowOf[s] \in 1 .. a
      /\ \A r \in 1 .. a, j \in k + 1 .. m : cost[<<r, j>>] = UnmatchedCost
      /\ \A r \in a + 1 .. m, c \in 1 .. k : cost[<<r, c>>] = UnmatchedCost
      /\ \A r \in a + 1 .. m, j \in k + 1 .. m : cost[<<r, j>>] = 0
  BY DEF Matrix
<1>3. /\ \A j \in 1 .. m : p[j] \in 1 .. m
      /\ \A r \in 1 .. m : \E j \in 1 .. m : p[j] = r
      /\ \A j, l \in 1 .. m : p[j] = p[l] => j = l
      /\ \A r, j \in 1 .. m : u[r] + v[j] <= cost[<<r, j>>]
      /\ \A j \in 1 .. m : u[p[j]] + v[j] = cost[<<p[j], j>>]
      /\ \A r, j \in 1 .. m : u[r] \in Int /\ v[j] \in Int /\ cost[<<r, j>>] \in 0 .. InvalidCost
  BY <1>2, EveryColumnIsHeld
<1>4. ASSUME NEW c \in 1 .. k PROVE p[c] > a
  BY <1>2, <1>3, DummiesMeet
<1>5. ASSUME NEW s \in DOMAIN predicted, NEW c \in 1 .. k
      PROVE  /\ cost[<<rowOf[s], c>>] \in Int
             /\ 2 * UnmatchedCost - cost[<<rowOf[s], c>>] <= 0
  <2>1. rowOf[s] \in 1 .. a /\ rowOf[s] \in 1 .. m /\ c \in 1 .. m
    BY <1>2
  <2>2. PICK j \in 1 .. m : p[j] = rowOf[s]
    BY <1>3, <2>1
  <2>3. j \in k + 1 .. m
    <3>1. j \in 1 .. k => p[j] > a
      BY <1>4
    <3>2. ~(p[j] > a)
      BY <2>1, <2>2
    <3> QED
      BY <1>2, <3>1, <3>2
  <2>4. p[c] \in a + 1 .. m
    <3>1. p[c] \in 1 .. m /\ p[c] > a
      BY <1>3, <1>4, <2>1
    <3> QED
      BY <3>1
  <2>5. /\ cost[<<rowOf[s], j>>] = UnmatchedCost /\ cost[<<p[c], c>>] = UnmatchedCost
        /\ cost[<<p[c], j>>] = 0
    BY <1>2, <2>1, <2>3, <2>4
  <2>6. u[rowOf[s]] + v[j] = UnmatchedCost /\ u[p[c]] + v[c] = UnmatchedCost
    <3>1. u[p[j]] + v[j] = cost[<<p[j], j>>] /\ u[p[c]] + v[c] = cost[<<p[c], c>>]
      BY <1>3, <2>1
    <3> QED
      BY <2>2, <2>5, <3>1
  <2>7. p[c] \in 1 .. m
    BY <1>3, <2>1
  <2>8. /\ u[p[c]] + v[j] <= 0 /\ u[rowOf[s]] + v[c] <= cost[<<rowOf[s], c>>]
        /\ u[p[c]] \in Int /\ u[rowOf[s]] \in Int /\ v[j] \in Int /\ v[c] \in Int
        /\ cost[<<rowOf[s], c>>] \in 0 .. InvalidCost
    <3>1. u[p[c]] + v[j] <= cost[<<p[c], j>>]
      BY <1>3, <2>7
    <3> QED
      BY <1>3, <2>1, <2>5, <2>7, <3>1
  <2>9. cost[<<rowOf[s], c>>] \in Int
    BY <2>8, IntsFit
  <2> QED
    BY <1>1, <2>6, <2>8, <2>9
<1> QED
  BY <1>4, <1>5

(* The potentials, read as prices against a dummy pair that meets at no    *)
(* cost, show the answer to be optimal; if no dummy pair meets, no pair    *)
(* saves anything.                                                         *)
LEMMA AnswerIsOptimal ==
  ASSUME HeatInv, LinkInv, AlgInv, apc = "row", i > Size
  PROVE  Answer \in Matching!Optimal(DOMAIN predicted, DOMAIN contacts, NearPairs, Dist,
                                     2 * UnmatchedCost)
<1>0. PICK a, k, m \in Nat : \E rowOf \in [DOMAIN predicted -> Nat] : Matrix(a, k, m, rowOf)
  BY MatrixFacts
<1>1. PICK rowOf \in [DOMAIN predicted -> Nat] : Matrix(a, k, m, rowOf)
  BY <1>0
<1>2. /\ a = Len(active_slots) /\ k = count /\ m = Size /\ m = a + k
      /\ DOMAIN contacts = 1 .. k
      /\ \A r \in 1 .. a : rowOf[active_slots[r]] = r /\ active_slots[r] \in DOMAIN predicted
      /\ \A s \in DOMAIN predicted : rowOf[s] \in 1 .. a /\ active_slots[rowOf[s]] = s
      /\ \A r \in 1 .. a, c \in 1 .. k :
           <<active_slots[r], c>> \in NearPairs => cost[<<r, c>>] = Dist[<<active_slots[r], c>>]
      /\ \A r \in 1 .. a, c \in 1 .. k :
           <<active_slots[r], c>> \notin NearPairs => cost[<<r, c>>] = InvalidCost
      /\ \A sc \in NearPairs : Dist[sc] \in Int
  BY <1>1 DEF Matrix
<1>3. /\ \A j \in 1 .. m : p[j] \in 1 .. m
      /\ \A r \in 1 .. m : \E j \in 1 .. m : p[j] = r
  BY <1>2, EveryColumnIsHeld
<1>4. PICK S, C : S = DOMAIN predicted /\ C = 1 .. k
  OBVIOUS
<1>5. IsFiniteSet(S) /\ -1 \notin S /\ IsFiniteSet(C) /\ DOMAIN contacts = C
  <2>1. predicted \in Predictions
    BY DEF LinkInv
  <2>2. IsFiniteSet(S) /\ S \in SUBSET (0 .. MaxContacts - 1)
    BY <1>4, <2>1, PredictedIs
  <2>3. MaxContacts \in Nat
    BY GridAssumption
  <2>4. -1 \notin S
    BY <2>2, <2>3
  <2>5. IsFiniteSet(1 .. k)
    BY FS_Interval
  <2> QED
    BY <1>2, <1>4, <2>2, <2>4, <2>5
<1>6. Answer \in Matching!Pairings(S, C, NearPairs)
  BY <1>4, <1>5, AnswerIsPairing
<1>7. UnmatchedCost \in Nat /\ 2 * UnmatchedCost \in Int /\ 2 * UnmatchedCost < InvalidCost
      /\ InvalidCost \in Nat
  BY CostAssumption
<1>8. \A s \in S, c \in C : <<s, c>> \in NearPairs => Dist[<<s, c>>] = cost[<<rowOf[s], c>>]
  BY <1>2, <1>4
<1>9. CASE \E j \in k + 1 .. m : p[j] > a
  <2>1. PICK dj \in k + 1 .. m : p[dj] > a
    BY <1>9
  <2>2. PICK X : \A s \in S : X[s] = UnmatchedCost - v[dj] - u[rowOf[s]]
    <3>1. \A s \in S : [t \in S |-> UnmatchedCost - v[dj] - u[rowOf[t]]][s]
                         = UnmatchedCost - v[dj] - u[rowOf[s]]
      OBVIOUS
    <3> QED
      BY <3>1
  <2>3. PICK Y : \A c \in C : Y[c] = UnmatchedCost - u[p[dj]] - v[c]
    <3>1. \A c \in C : [t \in C |-> UnmatchedCost - u[p[dj]] - v[t]][c]
                         = UnmatchedCost - u[p[dj]] - v[c]
      OBVIOUS
    <3> QED
      BY <3>1
  <2>4. /\ \A s \in S : X[s] \in Nat
        /\ \A c \in C : Y[c] \in Nat
        /\ \A s \in S, c \in C :
             /\ cost[<<rowOf[s], c>>] \in Int
             /\ 2 * UnmatchedCost - cost[<<rowOf[s], c>>] <= X[s] + Y[c]
             /\ p[c] = rowOf[s] => 2 * UnmatchedCost - cost[<<rowOf[s], c>>] = X[s] + Y[c]
        /\ \A c \in C : p[c] > a => Y[c] = 0
        /\ \A s \in S : \A j \in k + 1 .. m : p[j] = rowOf[s] => X[s] = 0
    <3>1. \A s \in DOMAIN predicted : X[s] = UnmatchedCost - v[dj] - u[rowOf[s]]
      BY <1>4, <2>2
    <3>2. \A c \in 1 .. k : Y[c] = UnmatchedCost - u[p[dj]] - v[c]
      BY <1>4, <2>3
    <3>3. Prices(a, k, m, rowOf, X, Y)
      <4>1. a \in Nat /\ k \in Nat /\ m \in Nat /\ dj \in k + 1 .. m /\ p[dj] > a
        BY <2>1
      <4> QED
        BY <1>1, <4>1, <3>1, <3>2, PricesOfDummies
    <3> QED
      BY <1>4, <3>3 DEF Prices
  <2>5. ASSUME NEW c \in C, p[c] <= a
        PROVE  /\ Answer[c] = active_slots[p[c]] /\ Answer[c] \in S /\ Answer[c] # -1
               /\ rowOf[Answer[c]] = p[c] /\ <<Answer[c], c>> \in NearPairs
    <3>1. c \in 1 .. m /\ c \in 1 .. k /\ p[c] \in 1 .. a
      <4>1. c \in 1 .. m /\ c \in 1 .. k
        BY <1>2, <1>4
      <4>2. p[c] \in 1 .. m
        BY <1>3, <4>1
      <4> QED
        BY <2>5, <4>1, <4>2
    <3>2. PICK s \in S : s = active_slots[p[c]] /\ rowOf[s] = p[c]
      BY <1>2, <1>4, <3>1
    <3>3. /\ cost[<<p[c], c>>] \in Int
          /\ 2 * UnmatchedCost - cost[<<p[c], c>>] = X[s] + Y[c]
      BY <2>4, <3>2
    <3>4. X[s] \in Nat /\ Y[c] \in Nat
      BY <2>4
    <3>5. cost[<<p[c], c>>] < InvalidCost
      BY <1>7, <3>3, <3>4
    <3>6. Answer[c] = s
      BY <1>2, <2>5, <3>1, <3>2, <3>5 DEF Answer
    <3>7. <<s, c>> \in NearPairs
      <4>1. cost[<<p[c], c>>] # InvalidCost
        BY <1>7, <3>3, <3>5
      <4> QED
        BY <1>2, <3>1, <3>2, <4>1
    <3> QED
      BY <1>5, <3>2, <3>6, <3>7
  <2>6. ASSUME NEW c \in C, ~(p[c] <= a) PROVE Answer[c] = -1 /\ Y[c] = 0
    <3>1. c \in 1 .. m /\ c \in 1 .. k
      BY <1>2, <1>4
    <3>2. p[c] \in 1 .. m
      BY <1>3, <3>1
    <3>3. p[c] > a
      BY <2>6, <3>2
    <3> QED
      BY <1>2, <2>4, <2>6, <3>1, <3>3 DEF Answer
  <2>7. \A c \in C : Answer[c] # -1 =>
          2 * UnmatchedCost - Dist[<<Answer[c], c>>] = X[Answer[c]] + Y[c]
    <3>. SUFFICES ASSUME NEW c \in C, Answer[c] # -1
         PROVE 2 * UnmatchedCost - Dist[<<Answer[c], c>>] = X[Answer[c]] + Y[c]
      OBVIOUS
    <3>1. p[c] <= a
      BY <2>6
    <3>2. PICK s \in S : s = Answer[c] /\ rowOf[s] = p[c] /\ <<s, c>> \in NearPairs
      BY <2>5, <3>1
    <3>3. 2 * UnmatchedCost - cost[<<rowOf[s], c>>] = X[s] + Y[c]
      BY <2>4, <3>2
    <3>4. Dist[<<s, c>>] = cost[<<rowOf[s], c>>]
      BY <1>8, <3>2
    <3> QED
      BY <3>2, <3>3, <3>4
  <2>8. \A c \in C : Answer[c] = -1 => Y[c] = 0
    BY <2>5, <2>6
  <2>9. \A s \in S : (\A c \in C : Answer[c] # s) => X[s] = 0
    <3>. SUFFICES ASSUME NEW s \in S, \A c \in C : Answer[c] # s PROVE X[s] = 0
      OBVIOUS
    <3>1. rowOf[s] \in 1 .. a /\ rowOf[s] \in 1 .. m /\ active_slots[rowOf[s]] = s
      BY <1>2, <1>4
    <3>2. PICK j \in 1 .. m : p[j] = rowOf[s]
      BY <1>3, <3>1
    <3>3. j \notin C
      <4>. SUFFICES ASSUME j \in C PROVE FALSE
        OBVIOUS
      <4>1. p[j] <= a
        BY <3>1, <3>2
      <4>2. Answer[j] = s
        BY <2>5, <3>1, <3>2, <4>1
      <4> QED
        BY <4>2
    <3>4. j \in k + 1 .. m
      BY <1>2, <1>4, <3>3
    <3> QED
      BY <2>4, <3>2, <3>4
  <2>10. \A s \in S, c \in C : <<s, c>> \in NearPairs =>
           2 * UnmatchedCost - Dist[<<s, c>>] <= X[s] + Y[c]
    BY <1>8, <2>4
  <2>11. Answer \in Matching!Optimal(S, C, NearPairs, Dist, 2 * UnmatchedCost)
    <3>1. PICK worth \in Int : worth = 2 * UnmatchedCost
      BY <1>7
    <3>2. \A sc \in NearPairs : Dist[sc] \in Int
      BY <1>2
    <3>3. (\A s \in S : X[s] \in Nat) /\ (\A c \in C : Y[c] \in Nat)
      BY <2>4
    <3>4. \A c \in C : Answer[c] # -1 =>
             worth - Dist[<<Answer[c], c>>] = X[Answer[c]] + Y[c]
      BY <2>7, <3>1
    <3>5. \A s \in S, c \in C : <<s, c>> \in NearPairs =>
             worth - Dist[<<s, c>>] <= X[s] + Y[c]
      BY <2>10, <3>1
    <3>6. Answer \in Matching!Optimal(S, C, NearPairs, Dist, worth)
      BY <1>5, <1>6, <2>8, <2>9, <3>2, <3>3, <3>4, <3>5, PricesDecide
    <3> QED
      BY <3>1, <3>6
  <2> QED
    BY <1>4, <1>5, <2>11
<1>10. CASE \A j \in k + 1 .. m : ~(p[j] > a)
  <2>0. \A j \in k + 1 .. m : p[j] <= a
    <3>. SUFFICES ASSUME NEW j \in k + 1 .. m PROVE p[j] <= a
      OBVIOUS
    <3>1. j \in 1 .. m
      BY <1>2
    <3>2. p[j] \in 1 .. m
      BY <1>3, <3>1
    <3> QED
      BY <1>10, <3>2
  <2>1. /\ \A c \in C : p[c] > a
        /\ \A s \in S, c \in C : /\ cost[<<rowOf[s], c>>] \in Int
                                 /\ 2 * UnmatchedCost - cost[<<rowOf[s], c>>] <= 0
    BY <1>1, <1>4, <2>0, NothingToSave
  <2>2. \A c \in C : Answer[c] = -1
    <3>. SUFFICES ASSUME NEW c \in C PROVE Answer[c] = -1
      OBVIOUS
    <3>1. c \in 1 .. k /\ c \in 1 .. m
      BY <1>2, <1>4
    <3>2. p[c] > a /\ p[c] \in 1 .. m
      BY <1>3, <2>1, <3>1
    <3>3. ~(p[c] <= a)
      BY <3>2
    <3> QED
      BY <1>2, <3>1, <3>3 DEF Answer
  <2>3. PICK X, Y : X = [s \in S |-> 0] /\ Y = [c \in C |-> 0]
    OBVIOUS
  <2>4. /\ \A s \in S : X[s] \in Nat /\ X[s] = 0
        /\ \A c \in C : Y[c] \in Nat /\ Y[c] = 0
    BY <2>3
  <2>5. \A s \in S, c \in C : <<s, c>> \in NearPairs =>
           2 * UnmatchedCost - Dist[<<s, c>>] <= X[s] + Y[c]
    <3>. SUFFICES ASSUME NEW s \in S, NEW c \in C, <<s, c>> \in NearPairs
         PROVE 2 * UnmatchedCost - Dist[<<s, c>>] <= X[s] + Y[c]
      OBVIOUS
    <3>1. 2 * UnmatchedCost - cost[<<rowOf[s], c>>] <= 0
      BY <2>1
    <3>2. Dist[<<s, c>>] = cost[<<rowOf[s], c>>]
      BY <1>8
    <3>3. X[s] + Y[c] = 0
      BY <2>4
    <3> QED
      BY <3>1, <3>2, <3>3
  <2>6. Answer \in Matching!Optimal(S, C, NearPairs, Dist, 2 * UnmatchedCost)
    <3>0. PICK worth \in Int : worth = 2 * UnmatchedCost
      BY <1>7
    <3>1. \A c \in C : Answer[c] # -1 =>
             worth - Dist[<<Answer[c], c>>] = X[Answer[c]] + Y[c]
      BY <2>2
    <3>2. \A c \in C : Answer[c] = -1 => Y[c] = 0
      BY <2>4
    <3>3. \A s \in S : (\A c \in C : Answer[c] # s) => X[s] = 0
      BY <2>4
    <3>4. (\A s \in S : X[s] \in Nat) /\ (\A c \in C : Y[c] \in Nat)
      BY <2>4
    <3>5. \A sc \in NearPairs : Dist[sc] \in Int
      BY <1>2
    <3>6. \A s \in S, c \in C : <<s, c>> \in NearPairs =>
             worth - Dist[<<s, c>>] <= X[s] + Y[c]
      BY <2>5, <3>0
    <3>7. Answer \in Matching!Optimal(S, C, NearPairs, Dist, worth)
      BY <1>5, <1>6, <3>1, <3>2, <3>3, <3>4, <3>5, <3>6, PricesDecide
    <3> QED
      BY <3>0, <3>7
  <2> QED
    BY <1>4, <1>5, <2>6
<1> QED
  BY <1>9, <1>10

-----------------------------------------------------------------------------
(* The invariant of the assignment.                                        *)

(* With no track or no contact there is nothing to pair.                   *)
LEMMA NothingToPair ==
  ASSUME HeatInv, hpc = "found", predicted \in Predictions, NEW k \in Nat, k = Len(contacts),
         Len(ActiveSlots) = 0 \/ k = 0
  PROVE  [c \in 1 .. k |-> -1] \in
           Matching!Optimal(DOMAIN predicted, DOMAIN contacts, NearPairs, Dist, 2 * UnmatchedCost)
<1>1. PICK S, C, X, Y, m : /\ S = DOMAIN predicted /\ C = 1 .. k
                           /\ X = [s \in S |-> 0] /\ Y = [c \in C |-> 0]
                           /\ m = [c \in C |-> -1]
  OBVIOUS
<1>2. DOMAIN contacts = C
  BY <1>1, ContactsAre
<1>3. IsFiniteSet(S) /\ -1 \notin S /\ IsFiniteSet(C)
  <2>1. IsFiniteSet(S) /\ S \in SUBSET (0 .. MaxContacts - 1)
    BY <1>1, PredictedIs
  <2>2. MaxContacts \in Nat
    BY GridAssumption
  <2>3. -1 \notin S
    BY <2>1, <2>2
  <2>4. IsFiniteSet(1 .. k)
    BY FS_Interval
  <2> QED
    BY <1>1, <2>1, <2>3, <2>4
<1>4. NearPairs = {}
  <2>1. S = {} \/ C = {}
    BY <1>1, PredictedIs
  <2> QED
    BY <1>1, <1>2, <2>1 DEF NearPairs
<1>5. m \in Matching!Pairings(S, C, NearPairs)
  BY <1>1 DEF Matching!Pairings, Matching!NoSlot
<1>6. (\A s \in S : X[s] = 0) /\ (\A c \in C : Y[c] = 0 /\ m[c] = -1)
  BY <1>1
<1>7. PICK worth \in Int : worth = 2 * UnmatchedCost
  BY CostAssumption
<1>8. m \in Matching!Optimal(S, C, NearPairs, Dist, worth)
  <2>1. (\A s \in S : X[s] \in Nat) /\ (\A c \in C : Y[c] \in Nat)
    BY <1>6
  <2>2. \A sc \in NearPairs : Dist[sc] \in Int
    BY <1>4
  <2>3. \A s \in S, c \in C : <<s, c>> \in NearPairs => worth - Dist[<<s, c>>] <= X[s] + Y[c]
    BY <1>4
  <2>4. \A c \in C : m[c] # -1 => worth - Dist[<<m[c], c>>] = X[m[c]] + Y[c]
    BY <1>6
  <2>5. \A c \in C : m[c] = -1 => Y[c] = 0
    BY <1>6
  <2>6. \A s \in S : (\A c \in C : m[c] # s) => X[s] = 0
    BY <1>6
  <2> QED
    BY <1>3, <1>5, <2>1, <2>2, <2>3, <2>4, <2>5, <2>6, PricesDecide
<1> QED
  BY <1>1, <1>2, <1>7, <1>8

(* The assignment begins with the tracks and contacts of the frame found.  *)
LEMMA BeginLink ==
  ASSUME HeatInv, LinkInv, BeginAssign
  PROVE  LinkInv'
<1>1. hpc = "found" /\ predicted \in Predictions
  BY DEF BeginAssign, LinkInv
<1>2. PICK a \in Nat, k \in Nat : a = Len(ActiveSlots) /\ k = Len(contacts)
  BY <1>1, PredictedIs, ContactsAre
<1>3. /\ UNCHANGED <<heatVars, predicted>> /\ active_slots' = ActiveSlots /\ count' = k
      /\ contact_slots' = [c \in 1 .. k |-> -1]
      /\ apc' = IF a = 0 \/ k = 0 THEN "done" ELSE "row"
      /\ \A row, col \in 1 .. a + k : cost'[<<row, col>>] = CostOf(row, col)'
  BY <1>2, BeginFacts
<1>4. hpc' = hpc /\ heatmap' = heatmap /\ contacts' = contacts /\ predicted' = predicted
  BY <1>3 DEF heatVars
<1>5. /\ Points' = Points /\ NearPairs' = NearPairs /\ Dist' = Dist
      /\ ActiveSlots' = ActiveSlots
  BY <1>4, SameFrame
<1>6. Size' = a + k /\ Len(contacts)' = k
  BY <1>2, <1>3, <1>4 DEF Size
<1>7. ASSUME apc' = "done" PROVE OptimalNow'
  <2>1. a = 0 \/ k = 0
    BY <1>3, <1>7
  <2>2. contact_slots' \in
          Matching!Optimal(DOMAIN predicted, DOMAIN contacts, NearPairs, Dist, 2 * UnmatchedCost)
    BY <1>1, <1>2, <1>3, <2>1, NothingToPair
  <2> QED
    BY <1>4, <1>5, <2>2 DEF OptimalNow
<1>8. predicted' \in Predictions
  BY <1>1, <1>4
<1>9. apc' \in {"row", "done"}
  BY <1>3
<1>10. \A row, col \in 1 .. Size' : cost'[<<row, col>>] = CostOf(row, col)'
  BY <1>3, <1>6
<1>11. active_slots' = ActiveSlots' /\ count' = Len(contacts)'
  BY <1>3, <1>5, <1>6
<1>12. hpc' = "found"
  BY <1>1, <1>4
<1> QED
  BY <1>7, <1>8, <1>9, <1>10, <1>11, <1>12, Zenon DEF LinkInv

(* What the cost matrix was made from does not move under the rounds.      *)
LEMMA LinkStays ==
  ASSUME LinkInv, UNCHANGED <<heatVars, predicted, active_slots, count, cost>>,
         Rounds' => Rounds, apc' \in {"idle", "row", "relax", "shift", "done"},
         apc' # "idle" => apc # "idle", apc' = "done" => OptimalNow'
  PROVE  LinkInv'
<1>1. hpc' = hpc /\ heatmap' = heatmap /\ contacts' = contacts /\ predicted' = predicted
  BY DEF heatVars
<1>2. NearPairs' = NearPairs /\ Dist' = Dist /\ ActiveSlots' = ActiveSlots
  BY <1>1, SameFrame
<1>3. Size' = Size
  BY DEF Size
<1>4. ASSUME NEW row, NEW col PROVE CostOf(row, col)' = CostOf(row, col)
  BY <1>2 DEF CostOf
<1>5. ASSUME Rounds'
      PROVE  /\ active_slots' = ActiveSlots' /\ count' = Len(contacts)'
             /\ \A row, col \in 1 .. Size' : cost'[<<row, col>>] = CostOf(row, col)'
  <2>1. /\ active_slots = ActiveSlots /\ count = Len(contacts)
        /\ \A row, col \in 1 .. Size : cost[<<row, col>>] = CostOf(row, col)
    BY <1>5 DEF LinkInv
  <2>2. active_slots' = ActiveSlots' /\ count' = Len(contacts)'
    BY <1>1, <1>2, <2>1
  <2>3. ASSUME NEW row \in 1 .. Size', NEW col \in 1 .. Size'
        PROVE  cost'[<<row, col>>] = CostOf(row, col)'
    BY <1>3, <1>4, <2>1
  <2> QED
    BY <2>2, <2>3
<1>6. predicted' \in Predictions
  BY <1>1 DEF LinkInv
<1>7. apc' # "idle" => hpc' = "found"
  BY <1>1 DEF LinkInv
<1> QED
  BY <1>5, <1>6, <1>7, Zenon DEF LinkInv

(* A step of the rounds keeps the workspace, and the last one answers.     *)
LEMMA AssignStepKeeps ==
  ASSUME HeatInv, LinkInv, AlgInv, AssignStep
  PROVE  LinkInv' /\ AlgInv'
<1>1. UNCHANGED <<heatVars, predicted>>
  BY DEF AssignStep
<1>2. CASE Assign!StartRow \/ Assign!Relax \/ Assign!Shift
  <2>1. AlgInv'
    BY <1>2, StartRowStep, RelaxStep, ShiftStep
  <2>2. /\ UNCHANGED <<active_slots, count, cost>>
        /\ apc \in {"row", "relax", "shift"} /\ apc' \in {"row", "relax", "shift"}
    <3>1. CASE Assign!StartRow
      BY <3>1 DEF Assign!StartRow
    <3>2. CASE Assign!Relax
      BY <3>2 DEF Assign!Relax
    <3>3. CASE Assign!Shift
      BY <3>3 DEF Assign!Shift
    <3> QED
      BY <1>2, <3>1, <3>2, <3>3
  <2>3. LinkInv'
    BY <1>1, <2>2, LinkStays DEF Rounds
  <2> QED
    BY <2>1, <2>3
<1>3. CASE Assign!Finish
  <2>1. /\ apc = "row" /\ i > Assign!n /\ apc' = "done"
        /\ UNCHANGED <<active_slots, count, cost>>
    BY <1>3 DEF Assign!Finish, Assign!workVars
  <2>2. i > Size
    BY <2>1, Sizes DEF AlgInv, Rounds
  <2>3. contact_slots' = Answer
    BY <1>3 DEF Assign!Finish, Assign!active_count, Assign!NoSlot, Answer
  <2>4. Answer \in Matching!Optimal(DOMAIN predicted, DOMAIN contacts, NearPairs, Dist,
                                    2 * UnmatchedCost)
    BY <2>1, <2>2, AnswerIsOptimal
  <2>5. /\ contacts' = contacts /\ predicted' = predicted
        /\ NearPairs' = NearPairs /\ Dist' = Dist
    <3>1. heatmap' = heatmap /\ contacts' = contacts /\ predicted' = predicted
      BY <1>1 DEF heatVars
    <3> QED
      BY <3>1, SameFrame
  <2>6. OptimalNow'
    BY <2>3, <2>4, <2>5 DEF OptimalNow
  <2>7. ~Rounds' /\ AlgInv'
    BY <2>1 DEF AlgInv, Rounds
  <2>8. LinkInv'
    <3>1. apc' # "idle" /\ apc # "idle" /\ apc' = "done"
      BY <2>1
    <3> QED
      BY <1>1, <2>1, <2>6, <2>7, <3>1, LinkStays
  <2> QED
    BY <2>7, <2>8
<1> QED
  BY <1>2, <1>3 DEF AssignStep, Assign!Next

(* While a report is being read or searched nothing is being assigned.     *)
LEMMA ParseKeeps ==
  ASSUME LinkInv, Parse
  PROVE  LinkInv' /\ AlgInv'
<1>1. hpc # "found"
  BY DEF Parse, Next, ParseMetadata, ParseOther, ParseHeat, CopyRun, HeatEnds, ContainerEnds,
         SeedBlob, GrowBlob, CloseBlob
<1>2. apc = "idle" /\ predicted \in Predictions
  BY <1>1 DEF LinkInv
<1>3. apc' = "idle" /\ predicted' = predicted
  BY <1>2 DEF Parse, assignVars
<1> QED
  BY <1>2, <1>3 DEF LinkInv, AlgInv, Rounds

(* A step that changes nothing keeps the invariant.                        *)
LEMMA AssignStutter ==
  ASSUME LinkInv, AlgInv, UNCHANGED vars
  PROVE  LinkInv' /\ AlgInv'
<1>1. UNCHANGED <<heatVars, predicted, active_slots, count, cost, apc, contact_slots>>
  BY DEF vars, assignVars
<1>2. UNCHANGED <<u, v, p, way, minv, used, i, j0>>
  BY DEF vars, assignVars
<1>3. LinkInv'
  <2>1. Rounds' = Rounds
    BY <1>1 DEF Rounds
  <2>2. apc' = "done" => OptimalNow'
    <3>1. heatmap' = heatmap /\ contacts' = contacts /\ predicted' = predicted
      BY <1>1 DEF heatVars
    <3>2. NearPairs' = NearPairs /\ Dist' = Dist
      BY <3>1, SameFrame
    <3> QED
      BY <1>1, <3>1, <3>2 DEF OptimalNow, LinkInv
  <2> QED
    BY <1>1, <2>1, <2>2, LinkStays DEF LinkInv
<1>4. Size' = Size /\ Rounds' = Rounds /\ Held' = Held /\ Entered' = Entered
  BY <1>1, <1>2 DEF Size, Rounds, Held, Entered
<1>5. ASSUME Rounds PROVE ArraysInv' /\ MatchInv' /\ DualInv'
  <2>1. ArraysInv /\ MatchInv /\ DualInv
    BY <1>5 DEF AlgInv
  <2>2. ArraysInv'
    BY <1>1, <1>2, <1>4, <2>1 DEF ArraysInv
  <2>3. MatchInv'
    BY <1>1, <1>2, <1>4, <2>1 DEF MatchInv
  <2>4. DualInv'
    BY <1>1, <1>2, <1>4, <2>1 DEF DualInv, Slack
  <2> QED
    BY <2>2, <2>3, <2>4
<1>6. ASSUME NEW ord, PathInv(ord) PROVE PathInv(ord)'
  BY <1>1, <1>2, <1>4, <1>6 DEF PathInv, TreeInv, RelaxInv, Slack
<1>7. AlgInv'
  <2>1. CASE Rounds
    <3>1. ASSUME apc' # "row" PROVE \E ord \in [0 .. Size' -> Nat] : PathInv(ord)'
      <4>1. PICK ord \in [0 .. Size -> Nat] : PathInv(ord)
        BY <1>1, <2>1, <3>1 DEF AlgInv
      <4> QED
        BY <1>4, <1>6, <4>1
    <3> QED
      BY <1>5, <2>1, <3>1, Zenon DEF AlgInv
  <2>2. CASE ~Rounds
    BY <1>4, <2>2 DEF AlgInv
  <2> QED
    BY <2>1, <2>2
<1> QED
  BY <1>3, <1>7

(* The invariant of the assignment holds always, next to that of the parser*)
(* and of the flood fill.                                                  *)
THEOREM AssignmentInvariant == FrameSpec => [](HeatInv /\ LinkInv /\ AlgInv)
<1>1. FrameInit => HeatInv /\ LinkInv /\ AlgInv
  <2>. SUFFICES ASSUME FrameInit PROVE HeatInv /\ LinkInv /\ AlgInv
    OBVIOUS
  <2>1. HeatInv
    BY HeatInvInit DEF FrameInit
  <2>2. apc = "idle" /\ predicted \in Predictions
    BY DEF FrameInit, Assign!Init
  <2> QED
    BY <2>1, <2>2 DEF LinkInv, AlgInv, Rounds
<1>2. HeatInv /\ LinkInv /\ AlgInv /\ [FrameNext]_vars => (HeatInv /\ LinkInv /\ AlgInv)'
  <2>. SUFFICES ASSUME HeatInv, LinkInv, AlgInv, [FrameNext]_vars
                PROVE  HeatInv' /\ LinkInv' /\ AlgInv'
    OBVIOUS
  <2>1. HeatInv'
    BY FrameKeepsHeat
  <2>2. CASE Parse
    BY <2>1, <2>2, ParseKeeps
  <2>3. CASE BeginAssign
    BY <2>1, <2>3, BeginAlg, BeginLink
  <2>4. CASE AssignStep
    BY <2>1, <2>4, AssignStepKeeps
  <2>5. CASE UNCHANGED vars
    BY <2>1, <2>5, AssignStutter
  <2> QED
    BY <2>2, <2>3, <2>4, <2>5 DEF FrameNext
<1> QED
  BY <1>1, <1>2, PTL DEF FrameSpec

(* The rounds' invariant holds the certificate and bounds every int.       *)
LEMMA CertificateHeld ==
  ASSUME HeatInv, LinkInv, AlgInv
  PROVE  Assign!PotentialsFeasible
<1>. SUFFICES ASSUME Rounds PROVE Assign!PotentialsFeasible
  BY DEF Rounds, Assign!PotentialsFeasible
<1>1. ArraysInv /\ MatchInv /\ DualInv
  BY DEF AlgInv
<1>2. PICK m \in Nat : m = Size /\ Assign!n = m
  BY <1>1, Sizes
<1>3. /\ \A j \in 0 .. m : u[j] \in Int /\ v[j] \in Int /\ p[j] \in 0 .. m
      /\ \A r, j \in 1 .. m : cost[<<r, j>>] \in Int
  BY <1>1, <1>2, Sizes, IntsFit
<1>4. i \in 1 .. m + 1
  BY <1>1, <1>2 DEF ArraysInv
<1>5. ASSUME apc = "row"
      PROVE  /\ \A r \in 1 .. i - 1 : \A j \in 1 .. m : u[r] + v[j] <= cost[<<r, j>>]
             /\ \A j \in 1 .. m : p[j] # 0 => u[p[j]] + v[j] = cost[<<p[j], j>>]
             /\ \A j, k \in 1 .. m : p[j] = p[k] /\ p[j] # 0 => j = k
  <2>1. Entered = i - 1 /\ Held = 1 .. m
    BY <1>2, <1>5 DEF Entered, Held
  <2>2. ASSUME NEW r \in 1 .. i - 1, NEW j \in 1 .. m PROVE u[r] + v[j] <= cost[<<r, j>>]
    <3>1. Slack(r, j) >= 0
      BY <1>1, <1>2, <2>1 DEF DualInv
    <3>2. r \in 1 .. m /\ j \in 1 .. m /\ r \in 0 .. m /\ j \in 0 .. m
      BY <1>4
    <3>3. u[r] \in Int /\ v[j] \in Int /\ cost[<<r, j>>] \in Int
      BY <1>3, <3>2
    <3> QED
      BY <3>1, <3>3 DEF Slack
  <2>3. ASSUME NEW j \in 1 .. m, p[j] # 0 PROVE u[p[j]] + v[j] = cost[<<p[j], j>>]
    <3>1. j \in Held \ {0}
      BY <2>1
    <3>2. Slack(p[j], j) = 0
      BY <1>1, <2>3, <3>1 DEF DualInv
    <3>3. p[j] \in 1 .. m /\ p[j] \in 0 .. m /\ j \in 0 .. m
      BY <1>3, <2>3
    <3>4. u[p[j]] \in Int /\ v[j] \in Int /\ cost[<<p[j], j>>] \in Int
      BY <1>3, <3>3
    <3> QED
      BY <3>2, <3>4 DEF Slack
  <2>4. ASSUME NEW j \in 1 .. m, NEW k \in 1 .. m, p[j] = p[k], p[j] # 0 PROVE j = k
    BY <1>1, <2>1, <2>4 DEF MatchInv
  <2> QED
    BY <2>2, <2>3, <2>4
<1>6. InvalidCost \in Nat /\ IntMax \in Nat /\ InvalidCost < IntMax
  BY IntsFit
<1>7. m <= 2 * MaxContacts /\ MaxContacts \in Nat
  <2>1. m = Len(active_slots) + count
    BY <1>2 DEF Size
  <2>2. active_slots = ActiveSlots /\ count = Len(contacts) /\ hpc = "found"
        /\ predicted \in Predictions
    BY DEF LinkInv, Rounds
  <2>3. Len(ActiveSlots) \in Nat /\ Len(ActiveSlots) <= MaxContacts
    BY <2>2, PredictedIs
  <2>4. Len(contacts) \in Nat /\ Len(contacts) <= MaxContacts
    BY <2>2, ContactsAre
  <2> QED
    BY <2>1, <2>2, <2>3, <2>4, GridAssumption
<1>8. PICK t \in Nat : t <= m /\ v[0] >= -(InvalidCost * t)
  <2>1. v[0] \in Int
    BY <1>3
  <2>2. CASE apc = "row"
    <3>1. v[0] + 0 >= -(InvalidCost * (i - 1))
      BY <1>1, <2>2 DEF DualInv
    <3>2. PICK t \in Nat : t = i - 1 /\ t <= m
      BY <1>4
    <3>3. v[0] >= -(InvalidCost * t)
      <4>1. v[0] + 0 >= -(InvalidCost * t)
        BY <3>1, <3>2
      <4> QED
        BY <2>1, <4>1
    <3> QED
      BY <3>2, <3>3
  <2>3. CASE apc # "row"
    <3>1. v[0] + u[i] >= -(InvalidCost * (i - 1))
      BY <1>1, <2>3 DEF DualInv
    <3>2. i <= m /\ i \in Nat
      BY <1>1, <1>2, <1>4, <2>3 DEF MatchInv, Rounds
    <3>3. u[i] \in 0 .. InvalidCost
      <4>1. u \in [0 .. m -> 0 .. InvalidCost]
        BY <1>1, <1>2 DEF ArraysInv
      <4>2. i \in 0 .. m
        BY <3>2
      <4> QED
        BY <4>1, <4>2
    <3>4. InvalidCost * (i - 1) + InvalidCost = InvalidCost * i
      BY <1>6, <3>2
    <3>5. InvalidCost * (i - 1) \in Int /\ InvalidCost * i \in Int
      BY <1>6, <3>2
    <3>6. v[0] >= -(InvalidCost * i)
      BY <1>6, <2>1, <3>1, <3>3, <3>4, <3>5
    <3> QED
      BY <3>2, <3>6
  <2> QED
    BY <2>2, <2>3
<1>9. v[0] \in -IntMax .. IntMax
  <2>1. InvalidCost * t <= InvalidCost * (2 * MaxContacts)
    <3>1. PICK b \in Nat : b = 2 * MaxContacts /\ t <= b
      BY <1>7, <1>8
    <3>2. InvalidCost * t <= InvalidCost * b
      BY <1>6, <3>1
    <3> QED
      BY <3>1, <3>2
  <2>2. InvalidCost * (2 * MaxContacts) = 2 * MaxContacts * InvalidCost
    BY <1>6, <1>7
  <2>3. InvalidCost * t \in Nat
    BY <1>6, <1>8
  <2>4. InvalidCost * t < IntMax
    BY <1>6, <1>7, <2>1, <2>2, <2>3, CostAssumption
  <2>5. v[0] \in Int /\ v[0] <= 0
    BY <1>1, <1>3 DEF DualInv
  <2> QED
    BY <1>6, <1>8, <2>3, <2>4, <2>5
<1>10. ASSUME NEW j \in 0 .. m
       PROVE  u[j] \in -IntMax .. IntMax /\ v[j] \in -IntMax .. IntMax
              /\ minv[j] \in -IntMax .. IntMax
  <2>1. u[j] \in 0 .. InvalidCost /\ minv[j] \in 0 .. IntMax
    <3>1. u \in [0 .. m -> 0 .. InvalidCost] /\ minv \in [0 .. m -> 0 .. IntMax]
      BY <1>1, <1>2 DEF ArraysInv
    <3> QED
      BY <3>1
  <2>2. v[j] \in -IntMax .. IntMax
    <3>1. CASE j = 0
      BY <1>9, <3>1
    <3>2. CASE j # 0
      <4>1. v[j] \in -InvalidCost .. 0
        BY <1>1, <1>2, <3>2 DEF DualInv
      <4> QED
        BY <1>6, <4>1
    <3> QED
      BY <3>1, <3>2
  <2> QED
    BY <1>6, <2>1, <2>2
<1> QED
  BY <1>2, <1>5, <1>10 DEF Assign!PotentialsFeasible

(* The certificate goes with every row, the ints stay in range, and what   *)
(* the assignment returns is one of the best pairings.                     *)
THEOREM TheAssignmentIsOptimal == FrameSpec => []AssignsOptimally
<1>1. HeatInv /\ LinkInv /\ AlgInv => AssignsOptimally
  <2>. SUFFICES ASSUME HeatInv, LinkInv, AlgInv PROVE AssignsOptimally
    OBVIOUS
  <2>1. Assign!PotentialsFeasible
    BY CertificateHeld
  <2>2. apc = "done" => OptimalNow
    BY DEF LinkInv
  <2> QED
    BY <2>1, <2>2 DEF AssignsOptimally, OptimalNow, Dist, NearPairs, Points
<1> QED
  BY <1>1, AssignmentInvariant, PTL
=============================================================================
