------------------------------ MODULE Sums_proofs ------------------------------
(***************************************************************************)
(* What the models count - replies of a note, bytes of the cache, requests  *)
(* of a client - they count with SumFunctionOnSet of the community modules. *)
(* Here its laws, for a finite set of indices: the sum of nothing is zero,  *)
(* and an index can be taken out.  At the end, the places of a ranking.    *)
(*                                                                         *)
(* SumFunctionOnSet is a recursive function, so its laws take induction.    *)
(* Instead of an induction theorem, whose parameter is an operator, each    *)
(* proof looks at a smallest subset of S for which the claim would fail.    *)
(***************************************************************************)
EXTENDS Functions, FiniteSetsExt, FiniteSetTheorems, TLAPS

LEMMA SmallestSubset ==
  ASSUME NEW S, IsFiniteSet(S), NEW T \in SUBSET (SUBSET S), T # {}
  PROVE  \E U \in T: \A V \in SUBSET U: V # U => V \notin T
<1>1. IsWellFoundedOn(StrictSubsetOrdering(S), SUBSET S)
  BY FS_StrictSubsetOrderingWellFounded, FS_FiniteSubsetsOfFinite
<1>2. PICK U \in T: \A V \in T: <<V, U>> \notin StrictSubsetOrdering(S)
  BY <1>1, WFMin
<1>3. ASSUME NEW V \in SUBSET U, V # U, V \in T PROVE FALSE
  <2>1. <<V, U>> \in StrictSubsetOrdering(S)
    BY <1>3 DEF StrictSubsetOrdering
  <2>. QED BY <1>2, <1>3, <2>1
<1>. QED BY <1>3

-------------------------------------------------------------------------------
(* The recursive function behind SumFunctionOnSet exists and is unique. *)

Pick(s) == CHOOSE x \in s : TRUE

SumStep(f, g, s) == IF s = {} THEN 0 ELSE f[Pick(s)] + g[s \ {Pick(s)}]

Sums(f, S, g) == g = [s \in SUBSET S |-> SumStep(f, g, s)]

LEMMA PickIsMember == ASSUME NEW S, S # {} PROVE Pick(S) \in S
BY DEF Pick

LEMMA SumIs ==
  ASSUME NEW f, NEW S
  PROVE  SumFunctionOnSet(f, S) = (CHOOSE g: Sums(f, S, g))[S]
BY DEF SumFunctionOnSet, FoldFunctionOnSet, MapThenFoldSet, Sums, SumStep, Pick

LEMMA SumsAt ==
  ASSUME NEW f, NEW S, NEW g, Sums(f, S, g), NEW s \in SUBSET S
  PROVE  g[s] = SumStep(f, g, s)
<1>. DEFINE G == [u \in SUBSET S |-> SumStep(f, g, u)]
<1>1. g = G
  BY DEF Sums
<1>2. G[s] = SumStep(f, g, s)
  OBVIOUS
<1>. QED BY <1>1, <1>2

LEMMA SumsUnique ==
  ASSUME NEW f, NEW S, IsFiniteSet(S), NEW g, NEW h, Sums(f, S, g), Sums(f, S, h)
  PROVE  g = h
<1>. DEFINE T == {s \in SUBSET S: g[s] # h[s]}
<1>1. ASSUME T # {} PROVE FALSE
  <2>1. PICK U \in T: \A V \in SUBSET U: V # U => V \notin T
    <3>1. T \in SUBSET (SUBSET S)
      OBVIOUS
    <3>. HIDE DEF T
    <3>. QED BY <1>1, <3>1, SmallestSubset
  <2>2. U # {}
    BY SumsAt DEF SumStep
  <2>3. g[U \ {Pick(U)}] = h[U \ {Pick(U)}]
    BY <2>1, <2>2, PickIsMember
  <2>. QED BY <2>2, <2>3, SumsAt DEF SumStep
<1>2. \A s \in SUBSET S: g[s] = h[s]
  BY <1>1
<1>3. g = [s \in SUBSET S |-> g[s]] /\ h = [s \in SUBSET S |-> h[s]]
  BY DEF Sums
<1>. QED BY <1>2, <1>3

LEMMA SumsRestrict ==
  ASSUME NEW f, NEW S, NEW g, Sums(f, S, g), NEW U \in SUBSET S
  PROVE  Sums(f, U, [s \in SUBSET U |-> g[s]])
<1>. DEFINE h == [s \in SUBSET U |-> g[s]]
<1>1. ASSUME NEW s \in SUBSET U PROVE h[s] = SumStep(f, h, s)
  <2>1. s \ {Pick(s)} \in SUBSET U /\ s \in SUBSET S
    OBVIOUS
  <2>2. h[s] = g[s] /\ h[s \ {Pick(s)}] = g[s \ {Pick(s)}]
    BY <2>1
  <2>3. g[s] = SumStep(f, g, s)
    BY <2>1, SumsAt
  <2>. QED BY <2>2, <2>3 DEF SumStep
<1>. HIDE DEF h
<1>2. h = [s \in SUBSET U |-> h[s]]
  BY DEF h
<1>3. h = [s \in SUBSET U |-> SumStep(f, h, s)]
  BY <1>1, <1>2
<1>. QED BY <1>3 DEF Sums, h

LEMMA SumsExist ==
  ASSUME NEW f, NEW S, IsFiniteSet(S)
  PROVE  \E g: Sums(f, S, g)
<1>. DEFINE T == {U \in SUBSET S: ~\E g: Sums(f, U, g)}
<1>. SUFFICES ASSUME T # {} PROVE FALSE
  OBVIOUS
<1>1. PICK U \in T: \A V \in SUBSET U: V # U => V \notin T
  <2>1. T \in SUBSET (SUBSET S)
    OBVIOUS
  <2>. HIDE DEF T
  <2>. QED BY <2>1, SmallestSubset
<1>. DEFINE Of(V) == CHOOSE g: Sums(f, V, g)
            F == [V \in SUBSET U |-> Of(V)[V]]
            G == [V \in SUBSET U |-> IF V = U THEN SumStep(f, F, U) ELSE F[V]]
<1>2. ASSUME NEW V \in SUBSET U, V # U PROVE Sums(f, V, Of(V))
  <2>1. \E g: Sums(f, V, g)
    BY <1>1, <1>2
  <2>. QED BY <2>1
<1>. HIDE DEF Of
<1>3. ASSUME NEW V \in SUBSET U, V # U PROVE F[V] = SumStep(f, F, V)
  <2>. DEFINE W == V \ {Pick(V)}
  <2>1. F[V] = Of(V)[V] /\ F[W] = Of(W)[W]
    OBVIOUS
  <2>2. Of(V)[V] = SumStep(f, Of(V), V)
    BY <1>2, <1>3, SumsAt
  <2>3. CASE V = {}
    BY <2>1, <2>2, <2>3 DEF SumStep
  <2>4. CASE V # {}
    <3>1. W \in SUBSET U /\ W # U /\ W \in SUBSET V
      BY <1>3
    <3>2. IsFiniteSet(W)
      BY FS_Subset
    <3>3. Sums(f, W, Of(W))
      BY <3>1, <1>2
    <3>4. Sums(f, W, [s \in SUBSET W |-> Of(V)[s]])
      BY <3>1, <1>2, <1>3, SumsRestrict
    <3>5. Of(W) = [s \in SUBSET W |-> Of(V)[s]]
      BY <3>2, <3>3, <3>4, SumsUnique
    <3>6. Of(W)[W] = Of(V)[W]
      BY <3>5
    <3>. QED BY <2>1, <2>2, <2>4, <3>6 DEF SumStep
  <2>. QED BY <2>3, <2>4
<1>4. ASSUME NEW V \in SUBSET U PROVE G[V] = SumStep(f, G, V)
  <2>. DEFINE W == V \ {Pick(V)}
  <2>1. V = {} \/ (W \in SUBSET U /\ W # U)
    BY PickIsMember
  <2>2. V = {} \/ G[W] = F[W]
    BY <2>1
  <2>3. SumStep(f, G, V) = SumStep(f, F, V)
    BY <2>2 DEF SumStep
  <2>4. G[V] = SumStep(f, F, V)
    BY <1>3
  <2>. QED BY <2>3, <2>4
<1>. HIDE DEF G
<1>5. G = [V \in SUBSET U |-> G[V]]
  BY DEF G
<1>6. Sums(f, U, G)
  BY <1>4, <1>5 DEF Sums
<1>. QED BY <1>6, <1>1

-------------------------------------------------------------------------------
(* The laws. *)

LEMMA SumOfNothing == ASSUME NEW f PROVE SumFunctionOnSet(f, {}) = 0
<1>1. \E g: Sums(f, {}, g)
  BY FS_EmptySet, SumsExist
<1>2. Sums(f, {}, CHOOSE g: Sums(f, {}, g))
  BY <1>1
<1>. QED BY <1>2, SumsAt, SumIs DEF SumStep

LEMMA SumUnfolds ==
  ASSUME NEW f, NEW S, IsFiniteSet(S), S # {}
  PROVE  SumFunctionOnSet(f, S) = f[Pick(S)] + SumFunctionOnSet(f, S \ {Pick(S)})
<1>. DEFINE W == S \ {Pick(S)}
            g == CHOOSE g: Sums(f, S, g)
            h == CHOOSE h: Sums(f, W, h)
<1>1. IsFiniteSet(W) /\ W \in SUBSET S
  BY FS_Subset
<1>2. Sums(f, S, g) /\ Sums(f, W, h)
  BY <1>1, SumsExist
<1>3. SumFunctionOnSet(f, S) = g[S] /\ SumFunctionOnSet(f, W) = h[W]
  BY SumIs
<1>. HIDE DEF g, h
<1>4. Sums(f, W, [s \in SUBSET W |-> g[s]])
  BY <1>1, <1>2, SumsRestrict
<1>5. h = [s \in SUBSET W |-> g[s]]
  BY <1>1, <1>2, <1>4, SumsUnique
<1>6. h[W] = g[W]
  BY <1>5
<1>7. g[S] = f[Pick(S)] + g[W]
  BY <1>2, SumsAt DEF SumStep
<1>. QED BY <1>3, <1>6, <1>7

LEMMA SumType ==
  ASSUME NEW f, NEW S, IsFiniteSet(S), \A s \in S: f[s] \in Nat
  PROVE  SumFunctionOnSet(f, S) \in Nat
<1>. DEFINE T == {U \in SUBSET S: SumFunctionOnSet(f, U) \notin Nat}
<1>. SUFFICES ASSUME T # {} PROVE FALSE
  OBVIOUS
<1>1. PICK U \in T: \A V \in SUBSET U: V # U => V \notin T
  <2>1. T \in SUBSET (SUBSET S)
    OBVIOUS
  <2>. HIDE DEF T
  <2>. QED BY <2>1, SmallestSubset
<1>2. U # {} /\ IsFiniteSet(U)
  <2>1. U # {}
    BY SumOfNothing
  <2>2. U \in SUBSET S
    OBVIOUS
  <2>. QED BY <2>1, <2>2, FS_Subset
<1>3. Pick(U) \in U
  BY <1>2, PickIsMember
<1>4. SumFunctionOnSet(f, U \ {Pick(U)}) \in Nat
  BY <1>1, <1>3
<1>. QED BY <1>2, <1>3, <1>4, SumUnfolds

\* An index can be taken out, whichever it is.
LEMMA SumWithout ==
  ASSUME NEW f, NEW S, IsFiniteSet(S), \A s \in S: f[s] \in Nat, NEW x \in S
  PROVE  SumFunctionOnSet(f, S) = f[x] + SumFunctionOnSet(f, S \ {x})
<1>. DEFINE T == {U \in SUBSET S: \E y \in U: SumFunctionOnSet(f, U) #
                                              f[y] + SumFunctionOnSet(f, U \ {y})}
<1>. SUFFICES ASSUME T # {} PROVE FALSE
  OBVIOUS
<1>1. PICK U \in T: \A V \in SUBSET U: V # U => V \notin T
  <2>1. T \in SUBSET (SUBSET S)
    OBVIOUS
  <2>. HIDE DEF T
  <2>. QED BY <2>1, SmallestSubset
<1>2. PICK y \in U: SumFunctionOnSet(f, U) # f[y] + SumFunctionOnSet(f, U \ {y})
  BY <1>1
<1>. DEFINE p == Pick(U)
<1>3. p \in U /\ IsFiniteSet(U)
  BY PickIsMember, FS_Subset
<1>4. SumFunctionOnSet(f, U) = f[p] + SumFunctionOnSet(f, U \ {p})
  BY <1>3, SumUnfolds
<1>. HIDE DEF p
<1>5. p # y
  BY <1>2, <1>4
<1>6. SumFunctionOnSet(f, U \ {p}) = f[y] + SumFunctionOnSet(f, (U \ {p}) \ {y})
  <2>1. U \ {p} \in SUBSET U /\ U \ {p} # U /\ U \ {p} \in SUBSET S /\ y \in U \ {p}
    BY <1>3, <1>5
  <2>. QED BY <1>1, <2>1
<1>7. SumFunctionOnSet(f, U \ {y}) = f[p] + SumFunctionOnSet(f, (U \ {y}) \ {p})
  <2>1. U \ {y} \in SUBSET U /\ U \ {y} # U /\ U \ {y} \in SUBSET S /\ p \in U \ {y}
    BY <1>3, <1>5
  <2>. QED BY <1>1, <2>1
<1>8. (U \ {p}) \ {y} = (U \ {y}) \ {p}
  OBVIOUS
<1>9. SumFunctionOnSet(f, (U \ {y}) \ {p}) \in Nat
  <2>1. IsFiniteSet((U \ {y}) \ {p})
    BY <1>3, FS_Subset
  <2>. QED BY <2>1, SumType
<1>10. f[p] \in Nat /\ f[y] \in Nat
  BY <1>3
<1>. QED BY <1>2, <1>4, <1>6, <1>7, <1>8, <1>9, <1>10

LEMMA SumWith ==
  ASSUME NEW f, NEW S, IsFiniteSet(S), NEW x, x \notin S, \A s \in S \union {x}: f[s] \in Nat
  PROVE  SumFunctionOnSet(f, S \union {x}) = f[x] + SumFunctionOnSet(f, S)
<1>1. IsFiniteSet(S \union {x}) /\ (S \union {x}) \ {x} = S
  BY FS_AddElement
<1>. QED BY <1>1, SumWithout

LEMMA SumSame ==
  ASSUME NEW f, NEW g, NEW S, IsFiniteSet(S), \A s \in S: f[s] = g[s]
  PROVE  SumFunctionOnSet(f, S) = SumFunctionOnSet(g, S)
<1>. DEFINE T == {U \in SUBSET S: SumFunctionOnSet(f, U) # SumFunctionOnSet(g, U)}
<1>. SUFFICES ASSUME T # {} PROVE FALSE
  OBVIOUS
<1>1. PICK U \in T: \A V \in SUBSET U: V # U => V \notin T
  <2>1. T \in SUBSET (SUBSET S)
    OBVIOUS
  <2>. HIDE DEF T
  <2>. QED BY <2>1, SmallestSubset
<1>2. U # {} /\ IsFiniteSet(U)
  <2>1. U # {}
    BY SumOfNothing
  <2>2. U \in SUBSET S
    OBVIOUS
  <2>. QED BY <2>1, <2>2, FS_Subset
<1>3. Pick(U) \in U
  BY <1>2, PickIsMember
<1>4. SumFunctionOnSet(f, U \ {Pick(U)}) = SumFunctionOnSet(g, U \ {Pick(U)})
  BY <1>1, <1>3
<1>5. f[Pick(U)] = g[Pick(U)]
  BY <1>3
<1>. QED BY <1>2, <1>4, <1>5, SumUnfolds

LEMMA SumMonotonic ==
  ASSUME NEW f, NEW g, NEW S, IsFiniteSet(S),
         \A s \in S: f[s] \in Nat /\ g[s] \in Nat /\ f[s] <= g[s]
  PROVE  SumFunctionOnSet(f, S) <= SumFunctionOnSet(g, S)
<1>. DEFINE T == {U \in SUBSET S: ~(SumFunctionOnSet(f, U) <= SumFunctionOnSet(g, U))}
<1>. SUFFICES ASSUME T # {} PROVE FALSE
  OBVIOUS
<1>1. PICK U \in T: \A V \in SUBSET U: V # U => V \notin T
  <2>1. T \in SUBSET (SUBSET S)
    OBVIOUS
  <2>. HIDE DEF T
  <2>. QED BY <2>1, SmallestSubset
<1>2. U # {} /\ IsFiniteSet(U)
  <2>1. U # {}
    BY SumOfNothing
  <2>2. U \in SUBSET S
    OBVIOUS
  <2>. QED BY <2>1, <2>2, FS_Subset
<1>3. Pick(U) \in U /\ U \ {Pick(U)} \in SUBSET S
  BY <1>2, PickIsMember
<1>4. SumFunctionOnSet(f, U \ {Pick(U)}) <= SumFunctionOnSet(g, U \ {Pick(U)})
  BY <1>1, <1>3
<1>5. SumFunctionOnSet(f, U \ {Pick(U)}) \in Nat /\ SumFunctionOnSet(g, U \ {Pick(U)}) \in Nat
  <2>1. IsFiniteSet(U \ {Pick(U)})
    BY <1>2, FS_Subset
  <2>. QED BY <2>1, <1>3, SumType
<1>6. /\ SumFunctionOnSet(f, U) = f[Pick(U)] + SumFunctionOnSet(f, U \ {Pick(U)})
      /\ SumFunctionOnSet(g, U) = g[Pick(U)] + SumFunctionOnSet(g, U \ {Pick(U)})
  BY <1>2, SumUnfolds
<1>7. f[Pick(U)] \in Nat /\ g[Pick(U)] \in Nat /\ f[Pick(U)] <= g[Pick(U)]
  BY <1>3
<1>. QED BY <1>1, <1>4, <1>5, <1>6, <1>7

LEMMA SumOfZeros ==
  ASSUME NEW f, NEW S, IsFiniteSet(S), \A s \in S: f[s] = 0
  PROVE  SumFunctionOnSet(f, S) = 0
<1>. DEFINE T == {U \in SUBSET S: SumFunctionOnSet(f, U) # 0}
<1>. SUFFICES ASSUME T # {} PROVE FALSE
  OBVIOUS
<1>1. PICK U \in T: \A V \in SUBSET U: V # U => V \notin T
  <2>1. T \in SUBSET (SUBSET S)
    OBVIOUS
  <2>. HIDE DEF T
  <2>. QED BY <2>1, SmallestSubset
<1>2. U # {} /\ IsFiniteSet(U)
  <2>1. U # {}
    BY SumOfNothing
  <2>2. U \in SUBSET S
    OBVIOUS
  <2>. QED BY <2>1, <2>2, FS_Subset
<1>3. Pick(U) \in U /\ U \ {Pick(U)} \in SUBSET S
  BY <1>2, PickIsMember
<1>4. f[Pick(U)] = 0 /\ SumFunctionOnSet(f, U \ {Pick(U)}) = 0
  BY <1>1, <1>3
<1>5. SumFunctionOnSet(f, U) = f[Pick(U)] + SumFunctionOnSet(f, U \ {Pick(U)})
  BY <1>2, SumUnfolds
<1>. QED BY <1>1, <1>4, <1>5

\* One summand changes.
LEMMA SumChanges ==
  ASSUME NEW f, NEW g, NEW S, IsFiniteSet(S), NEW x \in S, NEW d \in Int,
         \A s \in S: f[s] \in Nat /\ g[s] \in Nat,
         \A s \in S \ {x}: g[s] = f[s],
         g[x] = f[x] + d
  PROVE  SumFunctionOnSet(g, S) = SumFunctionOnSet(f, S) + d
<1>1. IsFiniteSet(S \ {x})
  BY FS_Subset
<1>2. SumFunctionOnSet(g, S \ {x}) = SumFunctionOnSet(f, S \ {x})
  BY <1>1, SumSame
<1>3. SumFunctionOnSet(f, S \ {x}) \in Nat
  BY <1>1, SumType
<1>4. /\ SumFunctionOnSet(f, S) = f[x] + SumFunctionOnSet(f, S \ {x})
      /\ SumFunctionOnSet(g, S) = g[x] + SumFunctionOnSet(g, S \ {x})
  BY SumWithout
<1>. QED BY <1>2, <1>3, <1>4

\* Every summand of D grows by one.
LEMMA SumOfIncrements ==
  ASSUME NEW S, IsFiniteSet(S), NEW f \in [S -> Nat], NEW D \in SUBSET S
  PROVE  SumFunctionOnSet([s \in S |-> IF s \in D THEN f[s] + 1 ELSE f[s]], S) =
           SumFunctionOnSet(f, S) + Cardinality(D)
<1>. DEFINE g(U) == [s \in S |-> IF s \in U THEN f[s] + 1 ELSE f[s]]
            T == {U \in SUBSET D: SumFunctionOnSet(g(U), S) #
                                  SumFunctionOnSet(f, S) + Cardinality(U)}
<1>1. IsFiniteSet(D)
  BY FS_Subset
<1>2. SumFunctionOnSet(f, S) \in Nat
  BY SumType
<1>3. \A U \in SUBSET D: IsFiniteSet(U) /\ Cardinality(U) \in Nat
  BY <1>1, FS_Subset, FS_CardinalityType
<1>4. ASSUME T # {} PROVE FALSE
  <2>1. PICK U \in T: \A V \in SUBSET U: V # U => V \notin T
    <3>1. T \in SUBSET (SUBSET D)
      OBVIOUS
    <3>. HIDE DEF T
    <3>. QED BY <1>1, <1>4, <3>1, SmallestSubset
  <2>2. CASE U = {}
    <3>1. \A s \in S: g(U)[s] = f[s]
      BY <2>2
    <3>. HIDE DEF g
    <3>2. SumFunctionOnSet(g(U), S) = SumFunctionOnSet(f, S)
      BY <3>1, SumSame
    <3>3. Cardinality(U) = 0
      BY <2>2, FS_EmptySet
    <3>. QED BY <1>2, <2>1, <3>2, <3>3
  <2>3. CASE U # {}
    <3>1. PICK p \in U: TRUE
      BY <2>3
    <3>. DEFINE V == U \ {p}
    <3>2. SumFunctionOnSet(g(V), S) = SumFunctionOnSet(f, S) + Cardinality(V)
      BY <2>1, <3>1
    <3>3. Cardinality(V) = Cardinality(U) - 1
      BY <1>3, <3>1, FS_RemoveElement
    <3>4. /\ \A s \in S: g(V)[s] \in Nat /\ g(U)[s] \in Nat
          /\ \A s \in S \ {p}: g(U)[s] = g(V)[s]
          /\ p \in S /\ g(U)[p] = g(V)[p] + 1
      BY <3>1
    <3>. HIDE DEF g, V
    <3>5. SumFunctionOnSet(g(U), S) = SumFunctionOnSet(g(V), S) + 1
      BY <3>4, SumChanges
    <3>6. SumFunctionOnSet(g(U), S) # SumFunctionOnSet(f, S) + Cardinality(U)
      BY <2>1
    <3>7. Cardinality(U) \in Nat
      BY <1>3, <2>1
    <3>. QED BY <1>2, <3>2, <3>3, <3>5, <3>6, <3>7
  <2>. QED BY <2>2, <2>3
<1>. QED BY <1>4

\* The indices of U and the others.
LEMMA SumSplits ==
  ASSUME NEW f, NEW S, IsFiniteSet(S), \A s \in S: f[s] \in Nat, NEW U \in SUBSET S
  PROVE  /\ SumFunctionOnSet(f, S) = SumFunctionOnSet(f, U) + SumFunctionOnSet(f, S \ U)
         /\ SumFunctionOnSet(f, U) \in Nat /\ SumFunctionOnSet(f, S \ U) \in Nat
<1>. DEFINE Split(V) == SumFunctionOnSet(f, S) = SumFunctionOnSet(f, V) + SumFunctionOnSet(f, S \ V)
            T == {V \in SUBSET S: ~Split(V)}
<1>1. \A V \in SUBSET S: /\ IsFiniteSet(V) /\ IsFiniteSet(S \ V)
                         /\ SumFunctionOnSet(f, V) \in Nat /\ SumFunctionOnSet(f, S \ V) \in Nat
  <2>. TAKE V \in SUBSET S
  <2>1. IsFiniteSet(V) /\ IsFiniteSet(S \ V)
    BY FS_Subset
  <2>. QED BY <2>1, SumType
<1>2. ASSUME T # {} PROVE FALSE
  <2>1. PICK V \in T: \A W \in SUBSET V: W # V => W \notin T
    <3>1. T \in SUBSET (SUBSET S)
      OBVIOUS
    <3>. HIDE DEF T
    <3>. QED BY <1>2, <3>1, SmallestSubset
  <2>2. CASE V = {}
    <3>1. S \ V = S
      BY <2>2
    <3>2. SumFunctionOnSet(f, V) = 0
      BY <2>2, SumOfNothing
    <3>3. SumFunctionOnSet(f, S) \in Nat
      BY SumType
    <3>4. Split(V)
      BY <3>1, <3>2, <3>3
    <3>. QED BY <2>1, <3>4
  <2>3. CASE V # {}
    <3>1. PICK x \in V: TRUE
      BY <2>3
    <3>2. PICK W \in SUBSET S: W = V \ {x}
      BY <2>1
    <3>3. /\ V \in SUBSET S /\ Split(W)
          /\ (S \ W) \ {x} = S \ V /\ x \in S \ W /\ x \in S
      BY <2>1, <3>1, <3>2
    <3>4. SumFunctionOnSet(f, V) = f[x] + SumFunctionOnSet(f, W)
      BY <1>1, <3>1, <3>2, <3>3, SumWithout
    <3>5. SumFunctionOnSet(f, S \ W) = f[x] + SumFunctionOnSet(f, S \ V)
      <4>1. IsFiniteSet(S \ W) /\ \A s \in S \ W: f[s] \in Nat
        BY <1>1
      <4>2. SumFunctionOnSet(f, S \ W) = f[x] + SumFunctionOnSet(f, (S \ W) \ {x})
        BY <3>3, <4>1, SumWithout
      <4>. QED BY <3>3, <4>2
    <3>6. f[x] \in Nat /\ SumFunctionOnSet(f, W) \in Nat /\ SumFunctionOnSet(f, S \ V) \in Nat
      BY <1>1, <3>3
    <3>7. Split(V)
      BY <3>3, <3>4, <3>5, <3>6
    <3>. QED BY <2>1, <3>7
  <2>. QED BY <2>2, <2>3
<1>. QED BY <1>1, <1>2

\* A part of the indices, and other values elsewhere.
LEMMA SumOfPart ==
  ASSUME NEW f, NEW S, IsFiniteSet(S), \A s \in S: f[s] \in Nat,
         NEW g, NEW U \in SUBSET S, \A s \in U: g[s] = f[s]
  PROVE  SumFunctionOnSet(g, U) \in Nat /\ SumFunctionOnSet(g, U) <= SumFunctionOnSet(f, S)
<1>1. SumFunctionOnSet(g, U) = SumFunctionOnSet(f, U)
  BY FS_Subset, SumSame
<1>2. /\ SumFunctionOnSet(f, S) = SumFunctionOnSet(f, U) + SumFunctionOnSet(f, S \ U)
      /\ SumFunctionOnSet(f, U) \in Nat /\ SumFunctionOnSet(f, S \ U) \in Nat
  BY SumSplits
<1>. QED BY <1>1, <1>2

-------------------------------------------------------------------------------
(* Least and greatest numbers. *)

LEMMA LeastExists ==
  ASSUME NEW S, S \subseteq Nat, S # {}
  PROVE  Min(S) \in S /\ \A n \in S: Min(S) <= n
<1>1. PICK k \in S: k \in Nat
  OBVIOUS
<1>. DEFINE T == {V \in SUBSET (0 .. k): \E n \in S: V = 0 .. n}
<1>2. IsFiniteSet(0 .. k) /\ T \in SUBSET (SUBSET (0 .. k)) /\ T # {}
  <2>1. 0 .. k \in T
    BY <1>1
  <2>2. IsFiniteSet(0 .. k)
    <3>1. 0 \in Int /\ k \in Int
      BY <1>1
    <3>. QED BY <3>1, FS_Interval
  <2>. QED BY <2>1, <2>2
<1>3. PICK U \in T: \A V \in SUBSET U: V # U => V \notin T
  <2>. HIDE DEF T
  <2>. QED BY <1>2, SmallestSubset
<1>4. PICK x \in S: U = 0 .. x
  BY <1>3
<1>5. ASSUME NEW y \in S, y < x PROVE FALSE
  <2>1. 0 .. y \in SUBSET U /\ 0 .. y # U
    BY <1>4, <1>5
  <2>2. 0 .. y \in SUBSET (0 .. k)
    BY <1>3, <2>1
  <2>. QED BY <1>3, <2>1, <2>2
<1>6. \A y \in S: x <= y
  BY <1>5
<1>. QED BY <1>6 DEF Min

LEMMA SmallerOf ==
  ASSUME NEW a \in Nat, NEW b \in Nat
  PROVE  Min({a, b}) = IF a <= b THEN a ELSE b
<1>1. {a, b} \subseteq Nat /\ {a, b} # {}
  OBVIOUS
<1>2. Min({a, b}) \in {a, b} /\ \A n \in {a, b}: Min({a, b}) <= n
  BY <1>1, LeastExists
<1>. QED BY <1>2

LEMMA AtLeastNothing ==
  ASSUME NEW n \in Int
  PROVE  Max({0, n}) = IF n > 0 THEN n ELSE 0
<1>. DEFINE m == IF n > 0 THEN n ELSE 0
<1>1. m \in {0, n} /\ \A k \in {0, n}: m >= k
  OBVIOUS
<1>2. \A k \in {0, n}: (\A l \in {0, n}: k >= l) => k = m
  OBVIOUS
<1>. HIDE DEF m
<1>3. Max({0, n}) = m
  BY <1>1, <1>2 DEF Max
<1>. QED BY <1>3 DEF m

-------------------------------------------------------------------------------
(* Ranking: in a finite set with a strict total order every place is taken. *)

LEMMA RankPlaces ==
  ASSUME NEW S, IsFiniteSet(S), NEW R,
         \A x \in S: <<x, x>> \notin R,
         \A x, y \in S: x # y => <<x, y>> \in R \/ <<y, x>> \in R,
         \A x, y, z \in S: <<x, y>> \in R /\ <<y, z>> \in R => <<x, z>> \in R
  PROVE  \A n \in 1 .. Cardinality(S):
           \E x \in S: Cardinality({y \in S: <<y, x>> \in R}) = n - 1
<1>. DEFINE Ahead(x) == {y \in S: <<y, x>> \in R}
            size == Cardinality(S)
            place == [x \in S |-> Cardinality(Ahead(x)) + 1]
<1>1. size \in Nat
  BY FS_CardinalityType
<1>2. ASSUME NEW x \in S
      PROVE  /\ IsFiniteSet(Ahead(x)) /\ Cardinality(Ahead(x)) \in Nat
             /\ Cardinality(Ahead(x)) <= size - 1
  <2>1. Ahead(x) \subseteq S \ {x}
    OBVIOUS
  <2>2. IsFiniteSet(S \ {x}) /\ Cardinality(S \ {x}) = size - 1
    BY FS_RemoveElement
  <2>. HIDE DEF Ahead
  <2>3. IsFiniteSet(Ahead(x)) /\ Cardinality(Ahead(x)) <= Cardinality(S \ {x})
    BY <2>1, <2>2, FS_Subset
  <2>. QED BY <2>2, <2>3, FS_CardinalityType
<1>3. ASSUME NEW x \in S, NEW y \in S, <<x, y>> \in R
      PROVE  Cardinality(Ahead(x)) < Cardinality(Ahead(y))
  <2>1. Ahead(x) \subseteq Ahead(y) \ {x} /\ x \in Ahead(y)
    BY <1>3
  <2>. HIDE DEF Ahead
  <2>2. IsFiniteSet(Ahead(y) \ {x}) /\ Cardinality(Ahead(y) \ {x}) = Cardinality(Ahead(y)) - 1
    BY <1>2, <2>1, FS_RemoveElement
  <2>3. Cardinality(Ahead(x)) <= Cardinality(Ahead(y) \ {x})
    BY <2>1, <2>2, FS_Subset
  <2>. QED BY <1>2, <2>2, <2>3
<1>. HIDE DEF Ahead
<1>4. place \in [S -> 1 .. size]
  BY <1>1, <1>2
<1>5. ASSUME NEW x \in S, NEW y \in S, place[x] = place[y] PROVE x = y
  <2>1. Cardinality(Ahead(x)) = Cardinality(Ahead(y))
    BY <1>2, <1>5
  <2>2. <<x, y>> \notin R /\ <<y, x>> \notin R
    BY <1>2, <1>3, <2>1
  <2>. QED BY <2>2
<1>6. place \in Injection(S, 1 .. size)
  BY <1>4, <1>5 DEF Injection, IsInjective
<1>7. IsFiniteSet(1 .. size) /\ Cardinality(1 .. size) = size
  BY <1>1, FS_Interval
<1>8. place \in Surjection(S, 1 .. size)
  <2>. HIDE DEF place
  <2>. QED BY <1>6, <1>7, FS_Injection
<1>9. ASSUME NEW n \in 1 .. size PROVE \E x \in S: Cardinality(Ahead(x)) = n - 1
  <2>1. PICK x \in S: place[x] = n
    BY <1>8 DEF Surjection
  <2>. QED BY <1>2, <2>1
<1>. QED BY <1>9 DEF Ahead
===============================================================================
