---------------------------- MODULE SumTheorems ----------------------------
(***************************************************************************)
(* Facts about sums over finite sets and over sequences, as the community  *)
(* module Functions defines them: by a recursive function that takes an    *)
(* element chosen from the set, so each is proved from a smallest set that *)
(* refutes it.                                                             *)
(***************************************************************************)
EXTENDS Integers, Sequences, Functions, FiniteSetTheorems, WellFoundedInduction, TLAPS

LEMMA SmallestSubset ==
  ASSUME NEW S, IsFiniteSet(S), NEW T \in SUBSET (SUBSET S), T # {}
  PROVE  \E m \in T : \A U \in T : U \subseteq m => U = m
<1> DEFINE R == StrictSubsetOrdering(S)
<1>1. IsWellFoundedOn(R, SUBSET S)
  BY FS_StrictSubsetOrderingWellFounded, FS_FiniteSubsetsOfFinite
<1>2. \A U, m \in SUBSET S : U \subseteq m /\ U # m => <<U, m>> \in R
  BY DEF StrictSubsetOrdering
<1> HIDE DEF R
<1>3. PICK m \in T : \A U \in T : <<U, m>> \notin R
  BY <1>1, WFMin
<1> QED
  BY <1>2, <1>3

-----------------------------------------------------------------------------
(* The recursive function exists, and all of them agree. *)

Chosen(S) == CHOOSE x \in S : TRUE

Adds(g, f, S) ==
  g = [s \in SUBSET S |-> IF s = {} THEN 0 ELSE f[Chosen(s)] + g[s \ {Chosen(s)}]]

LEMMA ChosenIn == ASSUME NEW S, S # {} PROVE Chosen(S) \in S
BY DEF Chosen

LEMMA SumIsAdds ==
  ASSUME NEW f, NEW S
  PROVE  SumFunctionOnSet(f, S) = (CHOOSE g : Adds(g, f, S))[S]
BY DEF SumFunctionOnSet, FoldFunctionOnSet, MapThenFoldSet, Adds, Chosen

LEMMA AddsAt ==
  ASSUME NEW f, NEW S, NEW g, Adds(g, f, S), NEW U \in SUBSET S
  PROVE  /\ U = {} => g[U] = 0
         /\ U # {} => g[U] = f[Chosen(U)] + g[U \ {Chosen(U)}]
<1>1. g = [s \in SUBSET S |-> IF s = {} THEN 0 ELSE f[Chosen(s)] + g[s \ {Chosen(s)}]]
  BY DEF Adds
<1>2. g[U] = IF U = {} THEN 0 ELSE f[Chosen(U)] + g[U \ {Chosen(U)}]
  BY <1>1, Zenon
<1> QED
  BY <1>2

LEMMA AddsAgree ==
  ASSUME NEW f, NEW S, NEW T, NEW g, NEW h, Adds(g, f, S), Adds(h, f, T),
         IsFiniteSet(S), NEW U \in SUBSET S, U \in SUBSET T
  PROVE  g[U] = h[U]
<1> DEFINE Bad == {V \in SUBSET S : V \subseteq T /\ g[V] # h[V]}
<1>1. SUFFICES ASSUME Bad # {} PROVE FALSE
  OBVIOUS
<1>2. PICK V \in Bad : \A W \in Bad : W \subseteq V => W = V
  <2>1. Bad \in SUBSET (SUBSET S)
    OBVIOUS
  <2> HIDE DEF Bad
  <2> QED
    BY <1>1, <2>1, SmallestSubset
<1>3. V # {}
  <2>1. V = {} => g[V] = 0 /\ h[V] = 0
    <3> HIDE DEF Bad
    <3>1. V \in SUBSET S /\ V \in SUBSET T
      BY DEF Bad
    <3> QED
      BY <3>1, AddsAt
  <2> QED
    BY <2>1
<1> DEFINE W == V \ {Chosen(V)}
<1>4. W \subseteq V /\ W # V
  BY <1>3, ChosenIn
<1>5. g[W] = h[W]
  BY <1>2, <1>4
<1>6. g[V] = f[Chosen(V)] + g[W] /\ h[V] = f[Chosen(V)] + h[W]
  BY <1>3, AddsAt
<1> QED
  BY <1>5, <1>6

LEMMA AddsExists ==
  ASSUME NEW f, NEW S, IsFiniteSet(S)
  PROVE  \E g : Adds(g, f, S)
<1> DEFINE Has(T) == \E g : Adds(g, f, T)
           Bad == {T \in SUBSET S : ~Has(T)}
<1>1. SUFFICES ASSUME Bad # {} PROVE FALSE
  BY Zenon
<1>2. PICK T \in Bad : \A U \in Bad : U \subseteq T => U = T
  <2>1. Bad \in SUBSET (SUBSET S)
    OBVIOUS
  <2> HIDE DEF Bad
  <2> QED
    BY <1>1, <2>1, SmallestSubset
<1> DEFINE G(U) == CHOOSE g : Adds(g, f, U)
           h == [s \in SUBSET T |-> IF s = {} THEN 0
                   ELSE f[Chosen(s)] + G(s \ {Chosen(s)})[s \ {Chosen(s)}]]
<1>3. ASSUME NEW U \in SUBSET T, U # T PROVE Adds(G(U), f, U)
  <2>1. U \in SUBSET S /\ U \notin Bad
    BY <1>2, <1>3
  <2>2. Has(U)
    BY <2>1
  <2> QED
    BY <2>2
<1>4. ASSUME NEW U \in SUBSET T, U # T PROVE h[U] = G(U)[U]
  <2>0. Adds(G(U), f, U)
    BY <1>3, <1>4
  <2>1. CASE U = {}
    <3>1. G(U)[U] = 0
      <4> HIDE DEF G
      <4> QED
        BY <2>0, <2>1, AddsAt
    <3>2. h[U] = 0
      BY <2>1
    <3> QED
      BY <3>1, <3>2
  <2>2. CASE U # {}
    <3> DEFINE V == U \ {Chosen(U)}
    <3>1. V \in SUBSET U /\ V \in SUBSET T /\ V # T
      BY <2>2, ChosenIn, <1>4
    <3>2. Adds(G(V), f, V)
      BY <3>1, <1>3
    <3>3. IsFiniteSet(U)
      BY <1>2, FS_Subset
    <3>4. G(U)[V] = G(V)[V]
      <4> HIDE DEF G
      <4> QED
        BY <3>1, <3>2, <3>3, <2>0, AddsAgree
    <3>5. G(U)[U] = f[Chosen(U)] + G(U)[V]
      <4> HIDE DEF G
      <4> QED
        BY <2>0, <2>2, AddsAt
    <3>6. h[U] = f[Chosen(U)] + G(V)[V]
      BY <2>2
    <3> QED
      BY <3>4, <3>5, <3>6
  <2> QED
    BY <2>1, <2>2
<1>5. ASSUME NEW s \in SUBSET T, s # {}
      PROVE  h[s \ {Chosen(s)}] = G(s \ {Chosen(s)})[s \ {Chosen(s)}]
  <2>1. s \ {Chosen(s)} \in SUBSET T /\ s \ {Chosen(s)} # T
    BY <1>5, ChosenIn
  <2> HIDE DEF h, G
  <2> QED
    BY <2>1, <1>4
<1>6. h = [s \in SUBSET T |-> IF s = {} THEN 0 ELSE f[Chosen(s)] + h[s \ {Chosen(s)}]]
  <2> DEFINE k == [s \in SUBSET T |-> IF s = {} THEN 0 ELSE f[Chosen(s)] + h[s \ {Chosen(s)}]]
  <2>1. \A s \in SUBSET T : h[s] = k[s]
    <3> TAKE s \in SUBSET T
    <3>1. CASE s = {}
      BY <3>1
    <3>2. CASE s # {}
      <4>1. h[s] = f[Chosen(s)] + G(s \ {Chosen(s)})[s \ {Chosen(s)}]
        BY <3>2
      <4>2. k[s] = f[Chosen(s)] + h[s \ {Chosen(s)}]
        <5> HIDE DEF h
        <5> QED
          BY <3>2
      <4> HIDE DEF h, k, G
      <4> QED
        BY <4>1, <4>2, <3>2, <1>5
    <3> QED
      BY <3>1, <3>2
  <2>2. h = [s \in SUBSET T |-> h[s]]
    OBVIOUS
  <2>3. k = [s \in SUBSET T |-> k[s]]
    <3> HIDE DEF h
    <3> QED
      OBVIOUS
  <2>4. h = k
    <3> HIDE DEF h, k
    <3> QED
      BY <2>1, <2>2, <2>3
  <2> HIDE DEF h
  <2> QED
    BY <2>4
<1>7. Adds(h, f, T)
  <2> HIDE DEF h
  <2> QED
    BY <1>6 DEF Adds
<1>8. Has(T)
  <2> HIDE DEF h
  <2> QED
    BY <1>7
<1> QED
  BY <1>2, <1>8

-----------------------------------------------------------------------------
(* The sum of a set, by an element taken from it: first the chosen one, then *)
(* any other.                                                               *)

LEMMA SumEmpty == ASSUME NEW f PROVE SumFunctionOnSet(f, {}) = 0
<1>1. PICK g : Adds(g, f, {})
  BY AddsExists, FS_EmptySet
<1>2. Adds((CHOOSE h : Adds(h, f, {})), f, {})
  BY <1>1
<1> QED
  BY <1>2, AddsAt, SumIsAdds

LEMMA SumChosen ==
  ASSUME NEW f, NEW S, IsFiniteSet(S), S # {}
  PROVE  SumFunctionOnSet(f, S) = f[Chosen(S)] + SumFunctionOnSet(f, S \ {Chosen(S)})
<1> DEFINE U == S \ {Chosen(S)}
           G(T) == CHOOSE g : Adds(g, f, T)
<1>1. IsFiniteSet(U)
  BY FS_RemoveElement
<1>2. Adds(G(S), f, S) /\ Adds(G(U), f, U)
  BY <1>1, AddsExists
<1>3. SumFunctionOnSet(f, S) = G(S)[S] /\ SumFunctionOnSet(f, U) = G(U)[U]
  BY SumIsAdds
<1> HIDE DEF G
<1>4. G(S)[S] = f[Chosen(S)] + G(S)[U]
  BY <1>2, AddsAt
<1>5. G(S)[U] = G(U)[U]
  BY <1>2, AddsAgree
<1> QED
  BY <1>3, <1>4, <1>5

LEMMA SumClosed ==
  ASSUME NEW D, 0 \in D, \A a, b \in D : a + b \in D,
         NEW S, IsFiniteSet(S), NEW f, \A x \in S : f[x] \in D
  PROVE  SumFunctionOnSet(f, S) \in D
<1> DEFINE Bad == {T \in SUBSET S : SumFunctionOnSet(f, T) \notin D}
<1>1. SUFFICES ASSUME Bad # {} PROVE FALSE
  OBVIOUS
<1>2. PICK T \in Bad : \A U \in Bad : U \subseteq T => U = T
  <2>1. Bad \in SUBSET (SUBSET S)
    OBVIOUS
  <2> HIDE DEF Bad
  <2> QED
    BY <1>1, <2>1, SmallestSubset
<1>3. T # {}
  BY SumEmpty
<1>4. T \ {Chosen(T)} \notin Bad /\ T \ {Chosen(T)} \in SUBSET S /\ Chosen(T) \in S
  BY <1>2, <1>3, ChosenIn
<1>5. SumFunctionOnSet(f, T) = f[Chosen(T)] + SumFunctionOnSet(f, T \ {Chosen(T)})
  <2>1. T \in SUBSET S
    OBVIOUS
  <2>2. IsFiniteSet(T)
    BY <2>1, FS_Subset
  <2> QED
    BY <1>3, <2>2, SumChosen
<1> QED
  BY <1>4, <1>5

LEMMA SumInt ==
  ASSUME NEW S, IsFiniteSet(S), NEW f, \A x \in S : f[x] \in Int
  PROVE  SumFunctionOnSet(f, S) \in Int
<1>1. 0 \in Int /\ \A a, b \in Int : a + b \in Int
  OBVIOUS
<1> QED
  BY <1>1, SumClosed

LEMMA SumNat ==
  ASSUME NEW S, IsFiniteSet(S), NEW f, \A x \in S : f[x] \in Nat
  PROVE  SumFunctionOnSet(f, S) \in Nat
<1>1. 0 \in Nat /\ \A a, b \in Nat : a + b \in Nat
  OBVIOUS
<1> QED
  BY <1>1, SumClosed

LEMMA SumRemove ==
  ASSUME NEW S, IsFiniteSet(S), NEW f, \A y \in S : f[y] \in Int, NEW x \in S
  PROVE  SumFunctionOnSet(f, S) = f[x] + SumFunctionOnSet(f, S \ {x})
<1> DEFINE Holds(T, z) == SumFunctionOnSet(f, T) = f[z] + SumFunctionOnSet(f, T \ {z})
           Bad == {T \in SUBSET S : \E z \in T : ~Holds(T, z)}
<1>1. SUFFICES ASSUME Bad # {} PROVE FALSE
  OBVIOUS
<1>2. PICK T \in Bad : \A U \in Bad : U \subseteq T => U = T
  <2>1. Bad \in SUBSET (SUBSET S)
    OBVIOUS
  <2> HIDE DEF Bad
  <2> QED
    BY <1>1, <2>1, SmallestSubset
<1>3. PICK z \in T : ~Holds(T, z)
  BY <1>2
<1> DEFINE y == Chosen(T)
<1>4. T \in SUBSET S /\ IsFiniteSet(T) /\ y \in T
  BY <1>3, FS_Subset, ChosenIn
<1>5. Holds(T, y)
  BY <1>4, <1>3, SumChosen
<1>6. ASSUME NEW u \in T, NEW v \in T, u # v
      PROVE  SumFunctionOnSet(f, T \ {u}) = f[v] + SumFunctionOnSet(f, T \ {u, v})
  <2>1. T \ {u} \in SUBSET S /\ T \ {u} \notin Bad /\ v \in T \ {u}
    BY <1>2, <1>4, <1>6
  <2>2. (T \ {u}) \ {v} = T \ {u, v}
    OBVIOUS
  <2> QED
    BY <2>1, <2>2
<1>7. SumFunctionOnSet(f, T \ {y, z}) \in Int /\ f[y] \in Int /\ f[z] \in Int
  <2>1. T \ {y, z} \in SUBSET S
    BY <1>4
  <2>2. IsFiniteSet(T \ {y, z})
    BY <2>1, FS_Subset
  <2>3. SumFunctionOnSet(f, T \ {y, z}) \in Int
    BY <2>1, <2>2, SumInt
  <2> QED
    BY <2>3, <1>4
<1>8. y # z /\ T \ {y, z} = T \ {z, y}
  BY <1>3, <1>5
<1>9. /\ SumFunctionOnSet(f, T \ {y}) = f[z] + SumFunctionOnSet(f, T \ {y, z})
      /\ SumFunctionOnSet(f, T \ {z}) = f[y] + SumFunctionOnSet(f, T \ {y, z})
  BY <1>4, <1>6, <1>8
<1> QED
  BY <1>3, <1>5, <1>7, <1>9

LEMMA SumAdd ==
  ASSUME NEW S, IsFiniteSet(S), NEW f, \A y \in S : f[y] \in Int,
         NEW x, x \notin S, f[x] \in Int
  PROVE  SumFunctionOnSet(f, S \cup {x}) = SumFunctionOnSet(f, S) + f[x]
<1>1. (S \cup {x}) \ {x} = S
  OBVIOUS
<1>2. IsFiniteSet(S \cup {x})
  BY FS_AddElement
<1>3. SumFunctionOnSet(f, S \cup {x}) = f[x] + SumFunctionOnSet(f, S)
  BY <1>1, <1>2, SumRemove
<1> QED
  BY <1>3, SumInt

LEMMA SumSame ==
  ASSUME NEW S, IsFiniteSet(S), NEW f, NEW g, \A x \in S : f[x] = g[x]
  PROVE  SumFunctionOnSet(f, S) = SumFunctionOnSet(g, S)
<1> DEFINE Bad == {T \in SUBSET S : SumFunctionOnSet(f, T) # SumFunctionOnSet(g, T)}
<1>1. SUFFICES ASSUME Bad # {} PROVE FALSE
  OBVIOUS
<1>2. PICK T \in Bad : \A U \in Bad : U \subseteq T => U = T
  <2>1. Bad \in SUBSET (SUBSET S)
    OBVIOUS
  <2> HIDE DEF Bad
  <2> QED
    BY <1>1, <2>1, SmallestSubset
<1>3. T # {}
  BY SumEmpty
<1>4. T \ {Chosen(T)} \notin Bad /\ T \ {Chosen(T)} \in SUBSET S /\ Chosen(T) \in S
  BY <1>2, <1>3, ChosenIn
<1>5. /\ SumFunctionOnSet(f, T) = f[Chosen(T)] + SumFunctionOnSet(f, T \ {Chosen(T)})
      /\ SumFunctionOnSet(g, T) = g[Chosen(T)] + SumFunctionOnSet(g, T \ {Chosen(T)})
  <2>1. T \in SUBSET S
    OBVIOUS
  <2>2. IsFiniteSet(T)
    BY <2>1, FS_Subset
  <2> QED
    BY <1>3, <2>2, SumChosen
<1> QED
  BY <1>4, <1>5

\* One value replaced by another.
LEMMA SumChange ==
  ASSUME NEW S, IsFiniteSet(S), NEW f, \A y \in S : f[y] \in Int, NEW x \in S,
         NEW g, g[x] \in Int, \A y \in S \ {x} : g[y] = f[y]
  PROVE  SumFunctionOnSet(g, S) = SumFunctionOnSet(f, S) - f[x] + g[x]
<1>1. IsFiniteSet(S \ {x})
  BY FS_RemoveElement
<1>2. SumFunctionOnSet(f, S) = f[x] + SumFunctionOnSet(f, S \ {x})
  BY SumRemove
<1>3. SumFunctionOnSet(g, S) = g[x] + SumFunctionOnSet(g, S \ {x})
  <2>1. \A y \in S : g[y] \in Int
    OBVIOUS
  <2> QED
    BY <2>1, SumRemove
<1>4. SumFunctionOnSet(g, S \ {x}) = SumFunctionOnSet(f, S \ {x})
  BY <1>1, SumSame
<1>5. SumFunctionOnSet(f, S \ {x}) \in Int
  BY <1>1, SumInt
<1> QED
  BY <1>2, <1>3, <1>4, <1>5

\* Zeroes may be left out.
LEMMA SumSupport ==
  ASSUME NEW S, IsFiniteSet(S), NEW f, \A y \in S : f[y] \in Int,
         NEW Z \in SUBSET S, \A y \in Z : f[y] = 0
  PROVE  SumFunctionOnSet(f, S \ Z) = SumFunctionOnSet(f, S)
<1> DEFINE Bad == {T \in SUBSET S : T \subseteq Z /\ SumFunctionOnSet(f, S \ T) # SumFunctionOnSet(f, S)}
<1>1. SUFFICES ASSUME Bad # {} PROVE FALSE
  OBVIOUS
<1>2. PICK T \in Bad : \A U \in Bad : U \subseteq T => U = T
  <2>1. Bad \in SUBSET (SUBSET S)
    OBVIOUS
  <2> HIDE DEF Bad
  <2> QED
    BY <1>1, <2>1, SmallestSubset
<1>3. PICK x : x \in T
  <2>1. T # {}
    OBVIOUS
  <2> QED
    BY <2>1
<1> DEFINE U == T \ {x}
<1>4. U \in SUBSET S /\ U \notin Bad /\ x \in S /\ f[x] = 0
  BY <1>2, <1>3
<1>5. (S \ U) \ {x} = S \ T /\ S \ U \in SUBSET S /\ x \in S \ U
  BY <1>3, <1>4
<1>6. IsFiniteSet(S \ U) /\ IsFiniteSet(S \ T)
  BY <1>5, FS_Subset
<1>7. SumFunctionOnSet(f, S \ U) = f[x] + SumFunctionOnSet(f, S \ T)
  BY <1>5, <1>6, SumRemove
<1>8. SumFunctionOnSet(f, S \ T) \in Int
  BY <1>6, SumInt
<1> QED
  BY <1>4, <1>7, <1>8

LEMMA SumZero ==
  ASSUME NEW S, IsFiniteSet(S)
  PROVE  SumFunction([x \in S |-> 0]) = 0
<1> DEFINE f == [x \in S |-> 0]
<1>1. DOMAIN f = S /\ \A x \in S : f[x] = 0 /\ f[x] \in {0}
  OBVIOUS
<1>2. 0 \in {0} /\ \A a, b \in {0} : a + b \in {0}
  OBVIOUS
<1> HIDE DEF f
<1>3. SumFunctionOnSet(f, S) \in {0}
  BY <1>1, <1>2, SumClosed
<1> QED
  BY <1>1, <1>3 DEF SumFunction, f

\* One value moves by n, and so does the sum.
LEMMA SumMove ==
  ASSUME NEW S, IsFiniteSet(S), NEW f \in [S -> Int], NEW x \in S, NEW n \in Int,
         NEW g, g = [f EXCEPT ![x] = @ + n]
  PROVE  /\ SumFunction(g) = SumFunction(f) + n
         /\ SumFunction(f) \in Int /\ SumFunction(g) \in Int
<1>1. \A y \in S : f[y] \in Int
  OBVIOUS
<1>2. g[x] \in Int /\ \A y \in S \ {x} : g[y] = f[y]
  OBVIOUS
<1>3. f[x] \in Int /\ g[x] = f[x] + n /\ DOMAIN f = S /\ DOMAIN g = S
  OBVIOUS
<1> DEFINE after == g
<1>4. SumFunctionOnSet(after, S) = SumFunctionOnSet(f, S) - f[x] + after[x]
  <2>1. after[x] \in Int /\ \A y \in S \ {x} : after[y] = f[y]
    BY <1>2
  <2> HIDE DEF after
  <2> QED BY <1>1, <2>1, SumChange
<1>5. SumFunctionOnSet(f, S) \in Int
  BY <1>1, SumInt
<1>6. SumFunction(f) = SumFunctionOnSet(f, S) /\ SumFunction(g) = SumFunctionOnSet(g, S)
  BY <1>3 DEF SumFunction
<1> QED
  BY <1>3, <1>4, <1>5, <1>6

-----------------------------------------------------------------------------
(* Sums of sequences. *)

LEMMA SumFunctionInt ==
  ASSUME NEW s \in Seq(Int)
  PROVE  SumFunction(s) \in Int
<1>1. IsFiniteSet(DOMAIN s)
  BY FS_Interval
<1>2. \A i \in DOMAIN s : s[i] \in Int
  OBVIOUS
<1> QED
  BY <1>1, <1>2, SumInt DEF SumFunction

LEMMA SumNothing == SumFunction(<<>>) = 0
BY SumEmpty DEF SumFunction

LEMMA SumAppend ==
  ASSUME NEW s \in Seq(Int), NEW e \in Int
  PROVE  SumFunction(Append(s, e)) = SumFunction(s) + e
<1> DEFINE t == Append(s, e)
           n == Len(s) + 1
<1>1. DOMAIN s \in SUBSET Int /\ n \notin DOMAIN s /\ DOMAIN t = DOMAIN s \cup {n}
  OBVIOUS
<1>2. IsFiniteSet(DOMAIN s)
  BY FS_Interval
<1>3. \A i \in DOMAIN s : t[i] \in Int /\ s[i] \in Int /\ s[i] = t[i]
  OBVIOUS
<1>4. t[n] = e
  OBVIOUS
<1> HIDE DEF t, n
<1>5. SumFunctionOnSet(t, DOMAIN t) = SumFunctionOnSet(t, DOMAIN s) + e
  BY <1>1, <1>2, <1>3, <1>4, SumAdd
<1>6. SumFunctionOnSet(t, DOMAIN s) = SumFunctionOnSet(s, DOMAIN s)
  BY <1>2, <1>3, SumSame
<1> QED
  BY <1>5, <1>6 DEF SumFunction, t
=============================================================================
