-------------------------------- MODULE Sums --------------------------------
(***************************************************************************)
(* What MapThenSumSet comes to on a finite set.  It is defined by a        *)
(* recursive function over the subsets of the set that counts an arbitrary *)
(* member first; here: that there is such a function, that any member may  *)
(* be counted first, and what a reader expects of a sum.  The induction    *)
(* over subsets is on a smallest counterexample.                           *)
(***************************************************************************)
EXTENDS Integers, FiniteSetsExt, FiniteSetTheorems, TLAPS

\* A set of subsets of a finite set has a smallest member.
LEMMA Smallest ==
  ASSUME NEW S, IsFiniteSet(S), NEW B, B \subseteq SUBSET S, B # {}
  PROVE  \E T \in B : \A U \in B : U \subseteq T => U = T
<1>1. IsWellFoundedOn(StrictSubsetOrdering(S), SUBSET S)
  BY FS_StrictSubsetOrderingWellFounded, FS_FiniteSubsetsOfFinite
<1>2. PICK T \in B : \A U \in B : <<U, T>> \notin StrictSubsetOrdering(S)
  BY <1>1, WFMin
<1>3. ASSUME NEW U \in B, U \subseteq T, U # T PROVE FALSE
  <2>1. <<U, T>> \in StrictSubsetOrdering(S)
    BY <1>3 DEF StrictSubsetOrdering
  <2> QED
    BY <1>2, <2>1
<1> QED
  BY <1>3

\* A set of natural numbers has a least one.
LEMMA LeastNat ==
  ASSUME NEW B, B \subseteq Nat, B # {}
  PROVE  \E n \in B : \A m \in B : n <= m
<1> PICK b \in B : TRUE
  OBVIOUS
<1> DEFINE C == {0 .. m : m \in {k \in B : k <= b}}
           all == 0 .. b
<1>1. C \subseteq SUBSET all /\ C # {} /\ IsFiniteSet(all)
  <2>1. IsFiniteSet(all)
    BY FS_Interval
  <2>2. 0 .. b \in C
    OBVIOUS
  <2>3. ASSUME NEW m \in B, m <= b PROVE 0 .. m \subseteq all
    <3>1. m \in Int /\ b \in Int
      OBVIOUS
    <3> QED
      BY <2>3, <3>1
  <2> QED
    BY <2>1, <2>2, <2>3
<1> HIDE DEF C, all
<1>2. PICK T \in C : \A U \in C : U \subseteq T => U = T
  BY <1>1, Smallest
<1>3. PICK n \in B : T = 0 .. n /\ n <= b
  BY DEF C
<1>4. ASSUME NEW m \in B, m < n PROVE FALSE
  <2>1. 0 .. m \in C /\ 0 .. m \subseteq 0 .. n
    BY <1>3, <1>4 DEF C
  <2>2. 0 .. m = 0 .. n
    BY <1>2, <1>3, <2>1
  <2> QED
    BY <1>4, <2>2
<1>5. ASSUME NEW m \in B PROVE n <= m
  <2>1. n \in Nat /\ m \in Nat /\ ~(m < n)
    BY <1>4
  <2> QED
    BY <2>1
<1> QED
  BY <1>5

First(T) == CHOOSE x \in T : TRUE

LEMMA FirstIn == ASSUME NEW T, T # {} PROVE First(T) \in T
  BY DEF First

\* h[U] is the sum of F over U, for every subset U of T.
SumsUp(F, h, T) ==
  h = [U \in SUBSET T |-> IF U = {} THEN 0 ELSE F[First(U)] + h[U \ {First(U)}]]

Total(F, S) == MapThenSumSet(LAMBDA x : F[x], S)

LEMMA TotalDef ==
  ASSUME NEW F, NEW S
  PROVE  Total(F, S) = (CHOOSE h : SumsUp(F, h, S))[S]
  BY DEF Total, MapThenSumSet, MapThenFoldSet, SumsUp, First

LEMMA OneSum ==
  ASSUME NEW F, NEW S, IsFiniteSet(S), NEW T \in SUBSET S,
         NEW h, SumsUp(F, h, S), NEW k, SumsUp(F, k, T)
  PROVE  \A U \in SUBSET T : h[U] = k[U]
<1> DEFINE B == {U \in SUBSET T : h[U] # k[U]}
<1> SUFFICES ASSUME B # {} PROVE FALSE
  OBVIOUS
<1>1. PICK U \in B : \A V \in B : V \subseteq U => V = U
  <2>1. B \subseteq SUBSET S
    OBVIOUS
  <2> HIDE DEF B
  <2> QED
    BY <2>1, Smallest
<1>2. U \in SUBSET T /\ U \in SUBSET S /\ h[U] # k[U]
  OBVIOUS
<1> HIDE DEF B
<1>3. CASE U = {}
  BY <1>2, <1>3 DEF SumsUp
<1>4. CASE U # {}
  <2> DEFINE V == U \ {First(U)}
  <2>1. V \subseteq U /\ V # U /\ V \in SUBSET T
    BY <1>2, <1>4, FirstIn
  <2>2. h[V] = k[V]
    BY <1>1, <2>1 DEF B
  <2>3. h[U] = F[First(U)] + h[V] /\ k[U] = F[First(U)] + k[V]
    BY <1>2, <1>4 DEF SumsUp
  <2> QED
    BY <1>2, <2>2, <2>3
<1> QED
  BY <1>3, <1>4

LEMMA SumExists ==
  ASSUME NEW F, NEW S, IsFiniteSet(S)
  PROVE  \A T \in SUBSET S : \E h : SumsUp(F, h, T)
<1> DEFINE B == {T \in SUBSET S : ~\E h : SumsUp(F, h, T)}
<1> SUFFICES ASSUME B # {} PROVE FALSE
  OBVIOUS
<1>1. PICK T \in B : \A U \in B : U \subseteq T => U = T
  <2> HIDE DEF B
  <2>1. B \subseteq SUBSET S
    BY DEF B
  <2> QED
    BY <2>1, Smallest
<1>2. T \in SUBSET S /\ ~\E h : SumsUp(F, h, T)
  OBVIOUS
<1> DEFINE G(U) == CHOOSE h : SumsUp(F, h, U)
           H == [U \in SUBSET T |->
                   IF U = {} THEN 0 ELSE F[First(U)] + G(U \ {First(U)})[U \ {First(U)}]]
<1>3. ASSUME NEW U \in SUBSET T, U # T PROVE SumsUp(F, G(U), U)
  <2>1. \E h : SumsUp(F, h, U)
    BY <1>1, <1>2, <1>3
  <2> QED
    BY <2>1
<1> HIDE DEF B, G
<1>4. ASSUME NEW V \in SUBSET T, V # T PROVE H[V] = G(V)[V]
  <2>1. SumsUp(F, G(V), V)
    BY <1>3, <1>4
  <2>2. CASE V = {}
    BY <2>1, <2>2 DEF SumsUp
  <2>3. CASE V # {}
    <3> DEFINE W == V \ {First(V)}
    <3>1. W \in SUBSET V /\ W \in SUBSET T /\ W # T
      BY <1>4, <2>3, FirstIn
    <3>2. SumsUp(F, G(W), W)
      BY <1>3, <3>1
    <3>3. IsFiniteSet(V)
      BY <1>2, FS_Subset
    <3>4. G(V)[W] = G(W)[W]
      BY <2>1, <3>1, <3>2, <3>3, OneSum
    <3>5. G(V)[V] = F[First(V)] + G(V)[W]
      BY <2>1, <2>3 DEF SumsUp
    <3>6. H[V] = F[First(V)] + G(W)[W]
      BY <2>3
    <3> QED
      BY <3>4, <3>5, <3>6
  <2> QED
    BY <2>2, <2>3
<1>5. SumsUp(F, H, T)
  <2>1. ASSUME NEW U \in SUBSET T, U # {}
        PROVE H[U \ {First(U)}] = G(U \ {First(U)})[U \ {First(U)}]
    <3>1. U \ {First(U)} \in SUBSET T /\ U \ {First(U)} # T
      BY <2>1, FirstIn
    <3> HIDE DEF H
    <3> QED
      BY <1>4, <3>1
  <2>2. H = [U \in SUBSET T |-> IF U = {} THEN 0 ELSE F[First(U)] + H[U \ {First(U)}]]
    BY <2>1
  <2> QED
    BY <2>2 DEF SumsUp
<1> QED
  BY <1>2, <1>5

LEMMA TotalSums ==
  ASSUME NEW F, NEW S, IsFiniteSet(S)
  PROVE  \E h : SumsUp(F, h, S) /\ \A T \in SUBSET S : Total(F, T) = h[T]
<1> DEFINE h == CHOOSE g : SumsUp(F, g, S)
<1>1. SumsUp(F, h, S)
  BY SumExists
<1>2. ASSUME NEW T \in SUBSET S PROVE Total(F, T) = h[T]
  <2> DEFINE k == CHOOSE g : SumsUp(F, g, T)
  <2>1. SumsUp(F, k, T)
    BY SumExists
  <2>2. Total(F, T) = k[T]
    BY TotalDef
  <2> HIDE DEF h, k
  <2> QED
    BY <1>1, <2>1, <2>2, OneSum
<1> QED
  BY <1>1, <1>2

\* The first member of a set is counted first.
LEMMA TotalFirst ==
  ASSUME NEW F, NEW S, IsFiniteSet(S)
  PROVE  Total(F, S) = IF S = {} THEN 0 ELSE F[First(S)] + Total(F, S \ {First(S)})
<1>1. PICK h : SumsUp(F, h, S) /\ \A T \in SUBSET S : Total(F, T) = h[T]
  BY TotalSums
<1>2. h[S] = IF S = {} THEN 0 ELSE F[First(S)] + h[S \ {First(S)}]
  BY <1>1 DEF SumsUp
<1>3. S \in SUBSET S /\ S \ {First(S)} \in SUBSET S
  OBVIOUS
<1> QED
  BY <1>1, <1>2, <1>3

LEMMA TotalNone == ASSUME NEW F PROVE Total(F, {}) = 0
  BY TotalFirst, FS_EmptySet

LEMMA TotalInt ==
  ASSUME NEW S, IsFiniteSet(S), NEW F, \A x \in S : F[x] \in Int
  PROVE  Total(F, S) \in Int
<1> DEFINE B == {T \in SUBSET S : Total(F, T) \notin Int}
<1> SUFFICES ASSUME B # {} PROVE FALSE
  OBVIOUS
<1>1. PICK T \in B : \A U \in B : U \subseteq T => U = T
  <2>1. B \subseteq SUBSET S
    OBVIOUS
  <2> HIDE DEF B
  <2> QED
    BY <2>1, Smallest
<1>2. T \in SUBSET S /\ Total(F, T) \notin Int /\ IsFiniteSet(T)
  BY FS_Subset
<1>3. T # {}
  <2>1. Total(F, {}) = 0
    BY TotalNone
  <2> HIDE DEF B
  <2> QED
    BY <1>2, <2>1
<1> DEFINE U == T \ {First(T)}
<1>4. First(T) \in T /\ U \in SUBSET S /\ U # T
  BY <1>2, <1>3, FirstIn
<1>5. Total(F, U) \in Int
  BY <1>1, <1>4
<1>6. Total(F, T) = F[First(T)] + Total(F, U)
  BY <1>2, <1>3, TotalFirst
<1> QED
  BY <1>2, <1>4, <1>5, <1>6

\* Any member may be counted first.
LEMMA TotalStep ==
  ASSUME NEW S, IsFiniteSet(S), NEW F, \A x \in S : F[x] \in Int
  PROVE  \A x \in S : Total(F, S) = F[x] + Total(F, S \ {x})
<1> DEFINE B == {T \in SUBSET S : \E x \in T : Total(F, T) # F[x] + Total(F, T \ {x})}
<1> SUFFICES ASSUME B # {} PROVE FALSE
  OBVIOUS
<1>1. PICK T \in B : \A U \in B : U \subseteq T => U = T
  <2>1. B \subseteq SUBSET S
    OBVIOUS
  <2> HIDE DEF B
  <2> QED
    BY <2>1, Smallest
<1>2. T \in SUBSET S /\ IsFiniteSet(T)
  BY FS_Subset
<1>3. PICK x \in T : Total(F, T) # F[x] + Total(F, T \ {x})
  OBVIOUS
<1> DEFINE c == First(T)
<1>4. c \in T /\ Total(F, T) = F[c] + Total(F, T \ {c})
  BY <1>2, <1>3, TotalFirst, FirstIn
<1>5. x # c
  BY <1>3, <1>4
<1>6. \A U \in SUBSET S : U \subseteq T /\ U # T =>
        \A y \in U : Total(F, U) = F[y] + Total(F, U \ {y})
  BY <1>1, <1>2
<1> HIDE DEF B, c
<1> DEFINE W == T \ {x, c}
<1>7. W = (T \ {c}) \ {x} /\ W = (T \ {x}) \ {c}
  OBVIOUS
<1>8. Total(F, T \ {c}) = F[x] + Total(F, W)
  <2>1. T \ {c} \in SUBSET S /\ T \ {c} # T /\ x \in T \ {c}
    BY <1>2, <1>4, <1>5
  <2> QED
    BY <1>6, <1>7, <2>1
<1>9. Total(F, T \ {x}) = F[c] + Total(F, W)
  <2>1. T \ {x} \in SUBSET S /\ T \ {x} # T /\ c \in T \ {x}
    BY <1>2, <1>4, <1>5
  <2> QED
    BY <1>6, <1>7, <2>1
<1>10. Total(F, W) \in Int /\ F[x] \in Int /\ F[c] \in Int
  <2>1. IsFiniteSet(W) /\ W \subseteq S
    BY <1>2, FS_Subset
  <2> QED
    BY <1>2, <1>4, <2>1, TotalInt
<1> HIDE DEF W
<1> QED
  BY <1>3, <1>4, <1>8, <1>9, <1>10

\* Three functions of which one is the sum of the others.
LEMMA TotalAdds ==
  ASSUME NEW S, IsFiniteSet(S), NEW F, NEW G, NEW H,
         \A x \in S : G[x] \in Int /\ H[x] \in Int /\ F[x] = G[x] + H[x]
  PROVE  Total(F, S) = Total(G, S) + Total(H, S)
<1> DEFINE B == {T \in SUBSET S : Total(F, T) # Total(G, T) + Total(H, T)}
<1> SUFFICES ASSUME B # {} PROVE FALSE
  OBVIOUS
<1>1. PICK T \in B : \A U \in B : U \subseteq T => U = T
  <2>1. B \subseteq SUBSET S
    OBVIOUS
  <2> HIDE DEF B
  <2> QED
    BY <2>1, Smallest
<1>2. T \in SUBSET S /\ IsFiniteSet(T) /\ Total(F, T) # Total(G, T) + Total(H, T)
  BY FS_Subset
<1>3. T # {}
  <2>1. Total(F, {}) = 0 /\ Total(G, {}) = 0 /\ Total(H, {}) = 0
    BY TotalNone
  <2> HIDE DEF B
  <2> QED
    BY <1>2, <2>1
<1> DEFINE U == T \ {First(T)}
<1>4. First(T) \in T /\ U \in SUBSET S /\ U # T /\ U \subseteq T
  BY <1>2, <1>3, FirstIn
<1>5. Total(F, U) = Total(G, U) + Total(H, U)
  BY <1>1, <1>4
<1>6. /\ Total(F, T) = F[First(T)] + Total(F, U)
      /\ Total(G, T) = G[First(T)] + Total(G, U)
      /\ Total(H, T) = H[First(T)] + Total(H, U)
  BY <1>2, <1>3, TotalFirst
<1>7. Total(G, U) \in Int /\ Total(H, U) \in Int
  <2>1. IsFiniteSet(U)
    BY <1>2, FS_Subset
  <2> QED
    BY <1>4, <2>1, TotalInt
<1>8. /\ G[First(T)] \in Int /\ H[First(T)] \in Int
      /\ F[First(T)] = G[First(T)] + H[First(T)]
  BY <1>2, <1>4
<1> HIDE DEF B, U
<1> QED
  BY <1>2, <1>5, <1>6, <1>7, <1>8


\* Nothing but zeros adds up to nothing.
LEMMA TotalZeros ==
  ASSUME NEW S, IsFiniteSet(S), NEW F, \A x \in S : F[x] = 0
  PROVE  Total(F, S) = 0
<1>1. Total(F, S) = Total(F, S) + Total(F, S)
  <2>1. \A x \in S : F[x] \in Int /\ F[x] \in Int /\ F[x] = F[x] + F[x]
    OBVIOUS
  <2> QED
    BY <2>1, TotalAdds
<1>2. Total(F, S) \in Int
  BY TotalInt
<1>3. \A v \in Int : v = v + v => v = 0
  OBVIOUS
<1> QED
  BY <1>1, <1>2, <1>3, Zenon

LEMMA TotalSame ==
  ASSUME NEW S, IsFiniteSet(S), NEW F, NEW G,
         \A x \in S : G[x] \in Int /\ F[x] = G[x]
  PROVE  Total(F, S) = Total(G, S)
<1> DEFINE Z == [x \in S |-> 0]
<1>1. Total(Z, S) = 0
  BY TotalZeros
<1>2. Total(F, S) = Total(G, S) + Total(Z, S)
  <2>1. \A x \in S : G[x] \in Int /\ Z[x] \in Int /\ F[x] = G[x] + Z[x]
    OBVIOUS
  <2> HIDE DEF Z
  <2> QED
    BY <2>1, TotalAdds
<1>3. Total(G, S) \in Int
  BY TotalInt
<1> QED
  BY <1>1, <1>2, <1>3

\* What adds nothing may be left out.
LEMMA TotalSupport ==
  ASSUME NEW S, IsFiniteSet(S), NEW F, \A x \in S : F[x] \in Int,
         NEW R \in SUBSET S, \A x \in S \ R : F[x] = 0
  PROVE  Total(F, S) = Total(F, R)
<1> DEFINE B == {T \in SUBSET S : T \cap R = {} /\ Total(F, S) # Total(F, S \ T)}
<1> SUFFICES ASSUME B # {} PROVE FALSE
  <2>1. S \ R \notin B
    OBVIOUS
  <2>2. S \ (S \ R) = R
    OBVIOUS
  <2> QED
    BY <2>1, <2>2
<1>1. PICK T \in B : \A U \in B : U \subseteq T => U = T
  <2>1. B \subseteq SUBSET S
    OBVIOUS
  <2> HIDE DEF B
  <2> QED
    BY <2>1, Smallest
<1>2. T \in SUBSET S /\ T \cap R = {} /\ Total(F, S) # Total(F, S \ T)
  OBVIOUS
<1>3. T # {}
  <2>1. S \ {} = S
    OBVIOUS
  <2> HIDE DEF B
  <2> QED
    BY <1>2, <2>1
<1>4. PICK x \in T : TRUE
  BY <1>3
<1> DEFINE U == T \ {x}
<1>5. Total(F, S) = Total(F, S \ U)
  <2>1. U \in SUBSET S /\ U \cap R = {} /\ U # T
    BY <1>2, <1>4
  <2> QED
    BY <1>1, <2>1
<1>6. Total(F, S \ U) = F[x] + Total(F, (S \ U) \ {x})
  <2>1. x \in S \ U /\ S \ U \subseteq S /\ IsFiniteSet(S \ U)
    BY <1>2, <1>4, FS_Subset
  <2>2. \A y \in S \ U : F[y] \in Int
    OBVIOUS
  <2> HIDE DEF U, B
  <2> QED
    BY <2>1, <2>2, TotalStep
<1>7. (S \ U) \ {x} = S \ T
  BY <1>2, <1>4
<1>8. F[x] = 0 /\ Total(F, S \ T) \in Int
  <2>1. x \in S \ R /\ IsFiniteSet(S \ T)
    BY <1>2, <1>4, FS_Subset
  <2> QED
    BY <2>1, TotalInt
<1> HIDE DEF U, B
<1>9. Total(F, S \ U) = Total(F, S \ T)
  <2>1. Total(F, S \ U) = F[x] + Total(F, S \ T)
    BY <1>6, <1>7, Zenon
  <2> DEFINE rest == Total(F, S \ T)
  <2>2. F[x] = 0 /\ rest \in Int /\ Total(F, S \ U) = F[x] + rest
    BY <1>8, <2>1
  <2> HIDE DEF rest
  <2>3. Total(F, S \ U) = rest
    BY <2>2
  <2> QED
    BY <2>3 DEF rest
<1> QED
  BY <1>2, <1>5, <1>9

\* The sum over two parts.
LEMMA TotalParts ==
  ASSUME NEW S, IsFiniteSet(S), NEW F, \A x \in S : F[x] \in Int, NEW R \in SUBSET S
  PROVE  Total(F, S) = Total(F, R) + Total(F, S \ R)
<1> DEFINE G == [x \in S |-> IF x \in R THEN F[x] ELSE 0]
           H == [x \in S |-> IF x \in R THEN 0 ELSE F[x]]
<1>1. /\ \A x \in S : G[x] \in Int /\ H[x] \in Int /\ F[x] = G[x] + H[x]
      /\ \A x \in S \ R : G[x] = 0
      /\ \A x \in S \ (S \ R) : H[x] = 0
      /\ \A x \in R : F[x] \in Int /\ G[x] = F[x]
      /\ \A x \in S \ R : F[x] \in Int /\ H[x] = F[x]
  OBVIOUS
<1>2. IsFiniteSet(R) /\ IsFiniteSet(S \ R) /\ S \ R \in SUBSET S
  BY FS_Subset
<1> HIDE DEF G, H
<1>3. Total(F, S) = Total(G, S) + Total(H, S)
  BY <1>1, TotalAdds
<1>4. Total(G, S) = Total(G, R)
  BY <1>1, TotalSupport
<1>5. Total(G, R) = Total(F, R)
  BY <1>1, <1>2, TotalSame
<1>6. Total(H, S) = Total(H, S \ R)
  BY <1>1, <1>2, TotalSupport
<1>7. Total(H, S \ R) = Total(F, S \ R)
  BY <1>1, <1>2, TotalSame
<1> QED
  BY <1>3, <1>4, <1>5, <1>6, <1>7

LEMMA TotalNat ==
  ASSUME NEW S, IsFiniteSet(S), NEW F, \A x \in S : F[x] \in Nat
  PROVE  Total(F, S) \in Nat
<1> DEFINE B == {T \in SUBSET S : Total(F, T) \notin Nat}
<1> SUFFICES ASSUME B # {} PROVE FALSE
  OBVIOUS
<1>1. PICK T \in B : \A U \in B : U \subseteq T => U = T
  <2>1. B \subseteq SUBSET S
    OBVIOUS
  <2> HIDE DEF B
  <2> QED
    BY <2>1, Smallest
<1>2. T \in SUBSET S /\ Total(F, T) \notin Nat /\ IsFiniteSet(T)
  BY FS_Subset
<1>3. T # {}
  <2>1. Total(F, {}) = 0
    BY TotalNone
  <2> HIDE DEF B
  <2> QED
    BY <1>2, <2>1
<1> DEFINE U == T \ {First(T)}
<1>4. First(T) \in T /\ U \in SUBSET S /\ U # T
  BY <1>2, <1>3, FirstIn
<1>5. Total(F, U) \in Nat
  BY <1>1, <1>4
<1>6. Total(F, T) = F[First(T)] + Total(F, U)
  BY <1>2, <1>3, TotalFirst
<1> QED
  BY <1>2, <1>4, <1>5, <1>6

\* Summing over S is summing over the image of S, for a one-to-one m.
LEMMA TotalImage ==
  ASSUME NEW S, IsFiniteSet(S), NEW m, NEW F, NEW G,
         \A x \in S : G[x] \in Int /\ F[m[x]] = G[x],
         \A x, y \in S : m[x] = m[y] => x = y
  PROVE  Total(F, {m[x] : x \in S}) = Total(G, S)
<1> DEFINE Im(T) == {m[x] : x \in T}
           B == {T \in SUBSET S : Total(F, Im(T)) # Total(G, T)}
<1> SUFFICES ASSUME B # {} PROVE FALSE
  OBVIOUS
<1>1. PICK T \in B : \A U \in B : U \subseteq T => U = T
  <2>1. B \subseteq SUBSET S
    OBVIOUS
  <2> HIDE DEF B
  <2> QED
    BY <2>1, Smallest
<1>2. T \in SUBSET S /\ Total(F, Im(T)) # Total(G, T) /\ IsFiniteSet(T)
  BY FS_Subset
<1>3. T # {}
  <2>1. Total(F, {}) = 0 /\ Total(G, {}) = 0
    BY TotalNone
  <2>2. Im({}) = {}
    OBVIOUS
  <2> HIDE DEF B, Im
  <2> QED
    BY <1>2, <2>1, <2>2
<1> DEFINE c == First(T)
           U == T \ {c}
<1>4. c \in T /\ U \in SUBSET S /\ U # T /\ U \subseteq T
  BY <1>2, <1>3, FirstIn
<1>5. Total(F, Im(U)) = Total(G, U)
  BY <1>1, <1>4
<1>6. Total(G, T) = G[c] + Total(G, U)
  BY <1>2, <1>3, TotalFirst
<1> HIDE DEF B, c
<1>7. Im(T) \ {m[c]} = Im(U)
  BY <1>2, <1>4
<1>8. Total(F, Im(T)) = F[m[c]] + Total(F, Im(U))
  <2>1. IsFiniteSet(Im(T))
    <3> DEFINE g == [x \in T |-> m[x]]
    <3>1. g \in Surjection(T, Im(T))
      BY DEF Surjection
    <3> HIDE DEF g, Im
    <3> QED
      BY <1>2, <3>1, FS_Surjection
  <2>2. m[c] \in Im(T) /\ \A y \in Im(T) : F[y] \in Int
    BY <1>2, <1>4
  <2> HIDE DEF Im, U
  <2> QED
    BY <1>7, <2>1, <2>2, TotalStep
<1>9. F[m[c]] = G[c]
  BY <1>2, <1>4
<1> HIDE DEF Im, U
<1> QED
  BY <1>2, <1>5, <1>6, <1>8, <1>9

\* One summand changes.
LEMMA TotalChange ==
  ASSUME NEW S, IsFiniteSet(S), NEW F, NEW G,
         \A x \in S : F[x] \in Int /\ G[x] \in Int,
         NEW s \in S, \A x \in S \ {s} : F[x] = G[x]
  PROVE  Total(G, S) = Total(F, S) + (G[s] - F[s])
<1> DEFINE rest == Total(F, S \ {s})
<1>1. IsFiniteSet(S \ {s})
  BY FS_Subset
<1>2. Total(G, S \ {s}) = rest
  BY <1>1, TotalSame
<1>3. Total(F, S) = F[s] + rest
  BY TotalStep
<1>4. Total(G, S) = G[s] + rest
  BY <1>2, TotalStep
<1>5. rest \in Int /\ F[s] \in Int /\ G[s] \in Int
  BY <1>1, TotalInt
<1> HIDE DEF rest
<1> QED
  BY <1>3, <1>4, <1>5

\* One more summand.
LEMMA TotalOneMore ==
  ASSUME NEW T, IsFiniteSet(T), NEW s \in T, NEW S, S = T \ {s},
         NEW F, NEW G, \A x \in S : F[x] \in Int /\ G[x] = F[x], G[s] \in Int
  PROVE  Total(G, T) = Total(F, S) + G[s]
<1>1. IsFiniteSet(S)
  BY FS_Subset
<1>2. \A x \in T : G[x] \in Int
  OBVIOUS
<1>3. Total(G, T) = G[s] + Total(G, S)
  BY <1>2, TotalStep
<1>4. Total(G, S) = Total(F, S) /\ Total(F, S) \in Int
  BY <1>1, TotalSame, TotalInt
<1> QED
  BY <1>3, <1>4
=============================================================================
