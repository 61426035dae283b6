----------------------------- MODULE SumTheorems -----------------------------
(***************************************************************************)
(* Facts about minimal elements and about sums over finite sets, which the *)
(* proofs about drafts (SuggestionReview) and about cash flows             *)
(* (BrokerAccounts) share.  SumFunctionOnSet adds the elements in an order *)
(* nobody knows: what is proved here is that the order does not matter.    *)
(***************************************************************************)
EXTENDS Integers, FiniteSets, Functions, FiniteSetTheorems, TLAPS

-----------------------------------------------------------------------------
(* Minimal elements: induction over one property at a time *)

\* A family of finite sets that is not empty has a minimal one.
LEMMA LeastSet ==
    ASSUME NEW C, C # {}, \A S \in C : IsFiniteSet(S)
    PROVE  \E S \in C : \A T \in C : T \subseteq S => T = S
<1> DEFINE U == UNION C
<1>1. C \subseteq FiniteSubsetsOf(U)
  BY DEF FiniteSubsetsOf
<1>2. \E S \in C : \A T \in C : ~ (<<T, S>> \in StrictSubsetOrdering(U))
  BY <1>1, FS_StrictSubsetOrderingWellFounded, WFMin
<1> QED BY <1>1, <1>2 DEF StrictSubsetOrdering, FiniteSubsetsOf

\* A set of numbers that is not empty has a least one.
LEMMA LeastNat ==
    ASSUME NEW T \in SUBSET Nat, T # {}
    PROVE  \E n \in T : \A m \in T : n <= m
<1> DEFINE C == {1 .. n : n \in T}
<1>1. \A S \in C : IsFiniteSet(S)
  <2>1. ASSUME NEW n \in T PROVE IsFiniteSet(1 .. n)
    <3>1. 1 \in Int /\ n \in Int
      OBVIOUS
    <3> QED BY <3>1, FS_Interval
  <2> QED BY <2>1
<1>2. PICK S \in C : \A R \in C : R \subseteq S => R = S
  <2>1. C # {}
    OBVIOUS
  <2> HIDE DEF C
  <2> QED BY <1>1, <2>1, LeastSet
<1>3. PICK n \in T : S = 1 .. n
  OBVIOUS
<1>4. ASSUME NEW m \in T, m < n PROVE FALSE
  <2>1. 1 .. m \subseteq 1 .. n /\ n \in 1 .. n /\ n \notin 1 .. m
    BY <1>4
  <2> QED BY <1>2, <1>3, <2>1
<1> QED BY <1>4

-----------------------------------------------------------------------------
(* The recursion behind SumFunctionOnSet *)

Pick(s) == CHOOSE x \in s : TRUE

\* g adds the values of f over every subset of S, one element after another.
Adds(g, f, S) ==
    g = [s \in SUBSET S |-> IF s = {} THEN 0 ELSE f[Pick(s)] + g[s \ {Pick(s)}]]

\* SumFunctionOnSet is defined by such a function.
LEMMA SumIs ==
    ASSUME NEW f, NEW S
    PROVE  SumFunctionOnSet(f, S) = (CHOOSE g : Adds(g, f, S))[S]
BY DEF SumFunctionOnSet, FoldFunctionOnSet, MapThenFoldSet, Adds, Pick

\* Picking from a finite set.
LEMMA PickIn ==
    ASSUME NEW s, s # {}
    PROVE  Pick(s) \in s /\ s \ {Pick(s)} \subseteq s /\ s \ {Pick(s)} # s
BY DEF Pick

\* Two such functions agree on the sets they share.
LEMMA AddsUnique ==
    ASSUME NEW f, NEW S, NEW T, IsFiniteSet(S), NEW g, NEW h, Adds(g, f, S), Adds(h, f, T),
           NEW u \in SUBSET (S \cap T)
    PROVE  g[u] = h[u]
<1> DEFINE C == {s \in SUBSET (S \cap T) : g[s] # h[s]}
<1>1. SUFFICES ASSUME C # {} PROVE FALSE
  OBVIOUS
<1>2. PICK s \in C : \A t \in C : t \subseteq s => t = s
  <2>1. \A t \in C : IsFiniteSet(t)
    BY FS_Subset
  <2> HIDE DEF C
  <2> QED BY <1>1, <2>1, LeastSet
<1>3. s # {}
  BY <1>2 DEF Adds
<1> DEFINE t == s \ {Pick(s)}
<1>4. t \subseteq s /\ t # s
  BY <1>3, PickIn
<1>5. t \notin C
  BY <1>2, <1>4
<1>6. g[t] = h[t]
  BY <1>4, <1>5
<1>7. g[s] = f[Pick(s)] + g[t] /\ h[s] = f[Pick(s)] + h[t]
  BY <1>3 DEF Adds
<1> QED BY <1>2, <1>6, <1>7

\* The recursion of a sum, where the functions that add it up exist.
LEMMA SumUnfold ==
    ASSUME NEW f, NEW S, IsFiniteSet(S), \A t \in SUBSET S : \E g : Adds(g, f, t)
    PROVE  SumFunctionOnSet(f, S) = IF S = {} THEN 0
                                    ELSE f[Pick(S)] + SumFunctionOnSet(f, S \ {Pick(S)})
<1> DEFINE A(t) == CHOOSE g : Adds(g, f, t)
<1>1. \A t \in SUBSET S : Adds(A(t), f, t)
  OBVIOUS
<1>2. \A t \in SUBSET S : SumFunctionOnSet(f, t) = A(t)[t]
  BY SumIs
<1> HIDE DEF A
<1>3. A(S)[S] = IF S = {} THEN 0 ELSE f[Pick(S)] + A(S)[S \ {Pick(S)}]
  BY <1>1 DEF Adds
<1>4. ASSUME S # {} PROVE A(S)[S \ {Pick(S)}] = A(S \ {Pick(S)})[S \ {Pick(S)}]
  <2>1. PICK t : t = S \ {Pick(S)}
    OBVIOUS
  <2>2. t \in SUBSET S /\ t \in SUBSET (S \cap t)
    BY <2>1
  <2>3. Adds(A(S), f, S) /\ Adds(A(t), f, t)
    BY <1>1, <2>2
  <2>4. A(S)[t] = A(t)[t]
    BY <2>2, <2>3, AddsUnique
  <2> QED BY <2>1, <2>4
<1> QED BY <1>2, <1>3, <1>4

\* They exist for every finite set.
LEMMA AddsExists ==
    ASSUME NEW f, NEW U, IsFiniteSet(U)
    PROVE  \E g : Adds(g, f, U)
<1> DEFINE C == {S \in SUBSET U : ~ \E g : Adds(g, f, S)}
<1>1. SUFFICES ASSUME C # {} PROVE FALSE
  OBVIOUS
<1>2. PICK S \in C : \A T \in C : T \subseteq S => T = S
  <2>1. \A T \in C : IsFiniteSet(T)
    BY FS_Subset
  <2> HIDE DEF C
  <2> QED BY <1>1, <2>1, LeastSet
<1>3. \A t \in SUBSET S : t # S => \E g : Adds(g, f, t)
  BY <1>2
<1> DEFINE V(t) == SumFunctionOnSet(f, t)
           G == [s \in SUBSET S |-> IF s = {} THEN 0 ELSE f[Pick(s)] + V(s \ {Pick(s)})]
<1>4. ASSUME NEW t \in SUBSET S, t # S
      PROVE  V(t) = IF t = {} THEN 0 ELSE f[Pick(t)] + V(t \ {Pick(t)})
  <2>1. IsFiniteSet(t)
    BY <1>2, FS_Subset
  <2>2. \A r \in SUBSET t : \E g : Adds(g, f, r)
    BY <1>3, <1>4
  <2> QED BY <2>1, <2>2, SumUnfold
<1>5. \A t \in SUBSET S : t # S => G[t] = V(t)
  BY <1>4
<1>6. ASSUME NEW s \in SUBSET S, s # {}
      PROVE  G[s] = f[Pick(s)] + G[s \ {Pick(s)}]
  <2>1. s \ {Pick(s)} \in SUBSET S /\ s \ {Pick(s)} # S
    BY <1>6, PickIn
  <2> QED BY <1>5, <1>6, <2>1
<1>7. G[{}] = 0
  OBVIOUS
<1>8. G = [s \in SUBSET S |-> IF s = {} THEN 0 ELSE f[Pick(s)] + G[s \ {Pick(s)}]]
  BY <1>6, <1>7
<1> HIDE DEF G
<1>9. Adds(G, f, S)
  BY <1>8 DEF Adds
<1> QED BY <1>2, <1>9

-----------------------------------------------------------------------------
(* Sums *)

\* The recursion of a sum.
LEMMA SumRec ==
    ASSUME NEW f, NEW S, IsFiniteSet(S)
    PROVE  SumFunctionOnSet(f, S) = IF S = {} THEN 0
                                    ELSE f[Pick(S)] + SumFunctionOnSet(f, S \ {Pick(S)})
<1>1. \A t \in SUBSET S : \E g : Adds(g, f, t)
  BY AddsExists, FS_Subset
<1> QED BY <1>1, SumUnfold

\* Nothing adds up to 0.
LEMMA SumEmpty == \A f : SumFunctionOnSet(f, {}) = 0
BY SumRec, FS_EmptySet

\* A sum of integers is an integer.
LEMMA SumInt ==
    ASSUME NEW f, NEW S, IsFiniteSet(S), \A x \in S : f[x] \in Int
    PROVE  SumFunctionOnSet(f, S) \in Int
<1> DEFINE C == {t \in SUBSET S : SumFunctionOnSet(f, t) \notin Int}
<1>1. SUFFICES ASSUME C # {} PROVE FALSE
  OBVIOUS
<1>2. PICK s \in C : \A t \in C : t \subseteq s => t = s
  <2>1. \A t \in C : IsFiniteSet(t)
    BY FS_Subset
  <2> HIDE DEF C
  <2> QED BY <1>1, <2>1, LeastSet
<1>e. SumFunctionOnSet(f, {}) = 0
  BY SumEmpty
<1>z. SumFunctionOnSet(f, {}) \in Int
  BY <1>e
<1>3. s # {}
  BY <1>2, <1>z, Zenon
<1>4. s \ {Pick(s)} \notin C /\ f[Pick(s)] \in Int
  BY <1>2, <1>3, PickIn
<1>5. SumFunctionOnSet(f, s) = f[Pick(s)] + SumFunctionOnSet(f, s \ {Pick(s)})
  BY <1>2, <1>3, SumRec, FS_Subset
<1> QED BY <1>2, <1>4, <1>5

\* Any element may be taken out first.
LEMMA SumRemove ==
    ASSUME NEW f, NEW S, IsFiniteSet(S), \A x \in S : f[x] \in Int, NEW e \in S
    PROVE  SumFunctionOnSet(f, S) = f[e] + SumFunctionOnSet(f, S \ {e})
<1> DEFINE V(t) == SumFunctionOnSet(f, t)
           C == {t \in SUBSET S : \E x \in t : V(t) # f[x] + V(t \ {x})}
<1>0. \A t \in SUBSET S : IsFiniteSet(t) /\ V(t) \in Int
  BY FS_Subset, SumInt
<1>1. SUFFICES ASSUME C # {} PROVE FALSE
  OBVIOUS
<1>2. PICK s \in C : \A t \in C : t \subseteq s => t = s
  <2>1. \A t \in C : IsFiniteSet(t)
    BY FS_Subset
  <2> HIDE DEF C
  <2> QED BY <1>1, <2>1, LeastSet
<1>3. PICK x \in s : V(s) # f[x] + V(s \ {x})
  BY <1>2
<1> DEFINE p == Pick(s)
<1>4. p \in s /\ V(s) = f[p] + V(s \ {p})
  BY <1>0, <1>2, <1>3, SumRec, PickIn
<1> HIDE DEF p, V
<1>5. p # x
  BY <1>3, <1>4
<1>6. V(s \ {p}) = f[x] + V((s \ {p}) \ {x})
  BY <1>2, <1>3, <1>4, <1>5
<1>7. V(s \ {x}) = f[p] + V((s \ {x}) \ {p})
  BY <1>2, <1>3, <1>4, <1>5
<1>8. PICK u : u = (s \ {x}) \ {p} /\ u = (s \ {p}) \ {x}
  OBVIOUS
<1>9. f[p] \in Int /\ f[x] \in Int /\ V(u) \in Int
  BY <1>0, <1>2, <1>3, <1>4, <1>8
<1>10. V(s) = f[p] + (f[x] + V(u)) /\ V(s \ {x}) = f[p] + V(u)
  BY <1>4, <1>6, <1>7, <1>8
<1>11. V(s) = f[x] + V(s \ {x})
  BY <1>9, <1>10
<1> QED BY <1>3, <1>11

\* Only the values on the set count.
LEMMA SumAgree ==
    ASSUME NEW f, NEW g, NEW S, IsFiniteSet(S), \A x \in S : f[x] = g[x]
    PROVE  SumFunctionOnSet(f, S) = SumFunctionOnSet(g, S)
<1> DEFINE C == {t \in SUBSET S : SumFunctionOnSet(f, t) # SumFunctionOnSet(g, t)}
<1>1. SUFFICES ASSUME C # {} PROVE FALSE
  OBVIOUS
<1>2. PICK s \in C : \A t \in C : t \subseteq s => t = s
  <2>1. \A t \in C : IsFiniteSet(t)
    BY FS_Subset
  <2> HIDE DEF C
  <2> QED BY <1>1, <2>1, LeastSet
<1>3. SumFunctionOnSet(f, {}) = 0 /\ SumFunctionOnSet(g, {}) = 0
  BY SumEmpty
<1>4. s # {}
  BY <1>2, <1>3
<1>5. s \ {Pick(s)} \notin C /\ f[Pick(s)] = g[Pick(s)]
  BY <1>2, <1>4, PickIn
<1>6. /\ SumFunctionOnSet(f, s) = f[Pick(s)] + SumFunctionOnSet(f, s \ {Pick(s)})
      /\ SumFunctionOnSet(g, s) = g[Pick(s)] + SumFunctionOnSet(g, s \ {Pick(s)})
  BY <1>2, <1>4, SumRec, FS_Subset
<1> QED BY <1>2, <1>5, <1>6

\* The sums over two disjoint sets add up to the sum over both.
LEMMA SumDisjoint ==
    ASSUME NEW f, NEW S, NEW T, IsFiniteSet(S), IsFiniteSet(T), S \cap T = {},
           \A x \in S \cup T : f[x] \in Int
    PROVE  SumFunctionOnSet(f, S \cup T) = SumFunctionOnSet(f, S) + SumFunctionOnSet(f, T)
<1> DEFINE V(t) == SumFunctionOnSet(f, t)
           C == {t \in SUBSET S : V(t \cup T) # V(t) + V(T)}
<1>0. \A t \in SUBSET (S \cup T) : IsFiniteSet(t) /\ V(t) \in Int
  BY FS_Union, FS_Subset, SumInt
<1>1. SUFFICES ASSUME C # {} PROVE FALSE
  OBVIOUS
<1>2. PICK s \in C : \A t \in C : t \subseteq s => t = s
  <2>1. \A t \in C : IsFiniteSet(t)
    BY FS_Subset
  <2> HIDE DEF C
  <2> QED BY <1>1, <2>1, LeastSet
<1>3. V({}) = 0
  BY SumEmpty
<1>4. s # {}
  <2>1. {} \cup T = T /\ V(T) \in Int
    BY <1>0
  <2> HIDE DEF V
  <2>2. V({} \cup T) = V({}) + V(T)
    BY <1>3, <2>1
  <2> QED BY <1>2, <2>2, Zenon
<1>5. PICK e \in s : TRUE
  BY <1>4
<1>6. V(s) = f[e] + V(s \ {e})
  <2>1. IsFiniteSet(s) /\ \A x \in s : f[x] \in Int
    BY <1>0, <1>2
  <2> QED BY <2>1, SumRemove
<1>7. V(s \cup T) = f[e] + V((s \cup T) \ {e})
  BY <1>0, <1>2, SumRemove
<1>8. (s \cup T) \ {e} = (s \ {e}) \cup T
  BY <1>2
<1>9. f[e] \in Int /\ V(s \ {e}) \in Int /\ V(T) \in Int
  BY <1>0, <1>2
<1> HIDE DEF V
<1>10. V((s \ {e}) \cup T) = V(s \ {e}) + V(T)
  BY <1>2
<1> QED BY <1>2, <1>6, <1>7, <1>8, <1>9, <1>10

\* Renaming the elements one to one does not change a sum.
LEMMA SumRename ==
    ASSUME NEW f, NEW S, NEW g, NEW h, IsFiniteSet(S),
           \A x \in S : f[x] \in Int /\ g[h[x]] = f[x],
           \A x, y \in S : h[x] = h[y] => x = y
    PROVE  SumFunctionOnSet(g, {h[x] : x \in S}) = SumFunctionOnSet(f, S)
<1> DEFINE I(t) == {h[x] : x \in t}
           C == {t \in SUBSET S : SumFunctionOnSet(g, I(t)) # SumFunctionOnSet(f, t)}
<1>1. SUFFICES ASSUME C # {} PROVE FALSE
  OBVIOUS
<1>2. PICK s \in C : \A t \in C : t \subseteq s => t = s
  <2>1. \A t \in C : IsFiniteSet(t)
    BY FS_Subset
  <2> HIDE DEF C
  <2> QED BY <1>1, <2>1, LeastSet
<1>3. SumFunctionOnSet(f, {}) = 0 /\ SumFunctionOnSet(g, {}) = 0
  BY SumEmpty
<1>4. s # {}
  BY <1>2, <1>3
<1>5. PICK e \in s : TRUE
  BY <1>4
<1>6. I(s \ {e}) = I(s) \ {h[e]} /\ h[e] \in I(s)
  BY <1>2
<1>7. SumFunctionOnSet(f, s) = f[e] + SumFunctionOnSet(f, s \ {e})
  BY <1>2, SumRemove, FS_Subset
<1>8. IsFiniteSet(I(s))
  <2>1. IsFiniteSet(s) /\ [x \in s |-> h[x]] \in Surjection(s, I(s))
    BY <1>2, FS_Subset DEF Surjection
  <2> QED BY <2>1, FS_Surjection
<1>9. SumFunctionOnSet(g, I(s)) = g[h[e]] + SumFunctionOnSet(g, I(s) \ {h[e]})
  BY <1>2, <1>6, <1>8, SumRemove
<1>10. s \ {e} \notin C
  BY <1>2, <1>5
<1> QED BY <1>2, <1>6, <1>7, <1>9, <1>10

=============================================================================
