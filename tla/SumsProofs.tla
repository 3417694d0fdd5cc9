----------------------------- MODULE SumsProofs -----------------------------
EXTENDS Sums, FiniteSetTheorems, TLAPS

\* The library's theorems of induction take a predicate.  This one, which a
\* proof can use, takes the set of what would refute it.
LEMMA Minimal ==
    ASSUME NEW S, IsFiniteSet(S), NEW C \in SUBSET SUBSET S, C # {}
    PROVE  \E T \in C : \A U \in C : U \subseteq T => U = T
  <1>1. IsWellFoundedOn(StrictSubsetOrdering(S), SUBSET S)
    BY FS_StrictSubsetOrderingWellFounded, FS_FiniteSubsetsOfFinite
  <1>2. PICK T \in C : \A U \in C : ~ (<<U, T>> \in StrictSubsetOrdering(S))
    BY <1>1, WFMin
  <1>3. \A U \in C : U \subseteq T => U = T
    BY <1>2 DEF StrictSubsetOrdering
  <1>4. QED
    BY <1>3

-----------------------------------------------------------------------------
(* The recursion that the sum is defined by *)

Picked(s) == CHOOSE x \in s : TRUE

Unpicked(s) == s \ {Picked(s)}

LEMMA PickedIn == \A s : s # {} => Picked(s) \in s /\ Unpicked(s) \subseteq s /\ Unpicked(s) # s
  BY DEF Picked, Unpicked

\* One way to add up f over the subsets of S: an element chosen, then the rest.
Adds(g, f, S) ==
    g = [s \in SUBSET S |-> IF s = {} THEN 0 ELSE f[Picked(s)] + g[Unpicked(s)]]

LEMMA SumChooses ==
    ASSUME NEW f, NEW S
    PROVE  SumOver(f, S) = (CHOOSE g : Adds(g, f, S))[S]
  BY DEF SumOver, MapThenSumSet, MapThenFoldSet, Adds, Picked, Unpicked

LEMMA AddsAt ==
    ASSUME NEW f, NEW S, NEW g, Adds(g, f, S), NEW s \in SUBSET S
    PROVE  g[s] = IF s = {} THEN 0 ELSE f[Picked(s)] + g[Unpicked(s)]
  BY DEF Adds

\* Two ways agree on what both add up.
LEMMA AddsAgree ==
    ASSUME NEW f, NEW S, IsFiniteSet(S), NEW T \in SUBSET S,
           NEW g, Adds(g, f, S), NEW h, Adds(h, f, T)
    PROVE  \A s \in SUBSET T : g[s] = h[s]
  <1> DEFINE C == {s \in SUBSET T : g[s] # h[s]}
  <1>1. SUFFICES ASSUME C # {} PROVE FALSE
    OBVIOUS
  <1>2. IsFiniteSet(T)
    BY FS_Subset
  <1>3. PICK s \in C : \A u \in C : u \subseteq s => u = s
    <2>1. C \in SUBSET SUBSET T
      OBVIOUS
    <2> HIDE DEF C
    <2>2. QED
      BY <1>1, <1>2, <2>1, Minimal
  <1>4. s \in SUBSET T /\ s \in SUBSET S /\ g[s] # h[s]
    BY <1>3
  <1>5. /\ g[s] = IF s = {} THEN 0 ELSE f[Picked(s)] + g[Unpicked(s)]
        /\ h[s] = IF s = {} THEN 0 ELSE f[Picked(s)] + h[Unpicked(s)]
    BY <1>4, AddsAt
  <1>6. s # {}
    BY <1>4, <1>5
  <1>7. Unpicked(s) \in SUBSET T /\ Unpicked(s) \notin C
    <2>1. Unpicked(s) \subseteq s /\ Unpicked(s) # s
      BY <1>6, PickedIn
    <2>2. Unpicked(s) \in SUBSET T
      BY <1>4, <2>1
    <2> HIDE DEF C
    <2>3. QED
      BY <1>3, <2>1, <2>2
  <1>8. QED
    BY <1>4, <1>5, <1>6, <1>7

LEMMA AddsExists ==
    ASSUME NEW f, NEW S, IsFiniteSet(S) PROVE \E g : Adds(g, f, S)
  <1> DEFINE C == {T \in SUBSET S : ~ \E g : Adds(g, f, T)}
             G(T) == CHOOSE g : Adds(g, f, T)
  <1>1. SUFFICES ASSUME C # {} PROVE FALSE
    OBVIOUS
  <1>2. PICK T \in C : \A U \in C : U \subseteq T => U = T
    <2>1. C \in SUBSET SUBSET S
      OBVIOUS
    <2> HIDE DEF C
    <2>2. QED
      BY <1>1, <2>1, Minimal
  <1>3. ASSUME NEW U \in SUBSET T, U # T PROVE Adds(G(U), f, U) /\ IsFiniteSet(U)
    <2>1. U \in SUBSET S /\ U \notin C
      <3>1. T \in SUBSET S
        BY <1>2
      <3> HIDE DEF C
      <3>2. QED
        BY <1>2, <1>3, <3>1
    <2>2. \E g : Adds(g, f, U)
      BY <2>1
    <2>3. Adds(G(U), f, U)
      BY <2>2
    <2>4. IsFiniteSet(U)
      BY <2>1, FS_Subset
    <2>5. QED
      BY <2>3, <2>4
  <1> DEFINE g == [s \in SUBSET T |-> IF s = {} THEN 0
                                      ELSE f[Picked(s)] + G(Unpicked(s))[Unpicked(s)]]
  <1>4. ASSUME NEW s \in SUBSET T, s # {} PROVE g[Unpicked(s)] = G(Unpicked(s))[Unpicked(s)]
    <2> DEFINE u == Unpicked(s)
    <2>1. u \in SUBSET T /\ u # T
      BY <1>4, PickedIn
    <2>2. Adds(G(u), f, u) /\ IsFiniteSet(u)
      BY <1>3, <2>1
    <2>3. CASE u = {}
      BY <2>1, <2>2, <2>3, AddsAt
    <2>4. CASE u # {}
      <3>1. Unpicked(u) \in SUBSET u /\ Unpicked(u) \in SUBSET T /\ Unpicked(u) # T
        BY <2>1, <2>4, PickedIn
      <3>2. Adds(G(Unpicked(u)), f, Unpicked(u))
        BY <1>3, <3>1
      <3>3. G(u)[Unpicked(u)] = G(Unpicked(u))[Unpicked(u)]
        BY <2>2, <3>1, <3>2, AddsAgree
      <3>4. G(u)[u] = f[Picked(u)] + G(u)[Unpicked(u)]
        BY <2>2, <2>4, AddsAt
      <3>5. g[u] = f[Picked(u)] + G(Unpicked(u))[Unpicked(u)]
        BY <2>1, <2>4
      <3>6. QED
        BY <3>3, <3>4, <3>5
    <2>5. QED
      BY <2>3, <2>4
  <1>5. Adds(g, f, T)
    <2>1. ASSUME NEW s \in SUBSET T
          PROVE  g[s] = IF s = {} THEN 0 ELSE f[Picked(s)] + g[Unpicked(s)]
      <3>1. g[s] = IF s = {} THEN 0 ELSE f[Picked(s)] + G(Unpicked(s))[Unpicked(s)]
        OBVIOUS
      <3>2. s # {} => g[Unpicked(s)] = G(Unpicked(s))[Unpicked(s)]
        BY <1>4
      <3> HIDE DEF g, G
      <3>3. QED
        BY <3>1, <3>2
    <2>2. g = [s \in SUBSET T |-> g[s]]
      OBVIOUS
    <2> HIDE DEF g
    <2>3. QED
      BY <2>1, <2>2 DEF Adds
  <1>6. QED
    BY <1>2, <1>5

LEMMA SumStep ==
    ASSUME NEW f, NEW S, IsFiniteSet(S)
    PROVE  SumOver(f, S) = IF S = {} THEN 0 ELSE f[Picked(S)] + SumOver(f, Unpicked(S))
  <1> DEFINE G(T) == CHOOSE g : Adds(g, f, T)
  <1>1. ASSUME NEW T, IsFiniteSet(T) PROVE SumOver(f, T) = G(T)[T] /\ Adds(G(T), f, T)
    BY <1>1, SumChooses, AddsExists
  <1>2. CASE S = {}
    <2>1. Adds(G(S), f, S) /\ SumOver(f, S) = G(S)[S]
      BY <1>1
    <2> HIDE DEF G
    <2>2. QED
      BY <1>2, <2>1, AddsAt
  <1>3. CASE S # {}
    <2>1. Unpicked(S) \in SUBSET S /\ IsFiniteSet(Unpicked(S))
      BY <1>3, PickedIn, FS_Subset
    <2>2. G(S)[Unpicked(S)] = G(Unpicked(S))[Unpicked(S)]
      BY <1>1, <2>1, AddsAgree
    <2>3. G(S)[S] = f[Picked(S)] + G(S)[Unpicked(S)]
      BY <1>1, <1>3, AddsAt
    <2>4. QED
      BY <1>1, <1>3, <2>1, <2>2, <2>3
  <1>4. QED
    BY <1>2, <1>3

-----------------------------------------------------------------------------
(* What the rest of the project knows of sums *)

\* Nothing adds up to zero.
THEOREM SumEmpty == \A f : SumOver(f, {}) = 0
  BY SumStep, FS_EmptySet

\* It does not matter which element is added first.
THEOREM SumTake ==
    ASSUME NEW S, IsFiniteSet(S), NEW f, \A x \in S : f[x] \in Int
    PROVE  /\ SumOver(f, S) \in Int
           /\ \A x \in S : SumOver(f, S) = f[x] + SumOver(f, S \ {x})
  <1> DEFINE Good(T) == /\ SumOver(f, T) \in Int
                        /\ \A x \in T : SumOver(f, T) = f[x] + SumOver(f, T \ {x})
             C == {T \in SUBSET S : ~Good(T)}
  <1>1. SUFFICES ASSUME C # {} PROVE FALSE
    OBVIOUS
  <1>2. PICK T \in C : \A U \in C : U \subseteq T => U = T
    <2>1. C \in SUBSET SUBSET S
      OBVIOUS
    <2> HIDE DEF C
    <2>2. QED
      BY <1>1, <2>1, Minimal
  <1>3. T \in SUBSET S /\ ~Good(T)
    BY <1>2
  <1>4. ASSUME NEW U \in SUBSET T, U # T PROVE Good(U)
    <2>1. U \in SUBSET S
      BY <1>3
    <2>2. U \notin C
      <3> HIDE DEF C
      <3>1. QED
        BY <1>2, <1>4
    <2>3. QED
      BY <2>1, <2>2
  <1> HIDE DEF C
  <1>5. \A U \in SUBSET T : IsFiniteSet(U)
    BY <1>3, FS_Subset
  <1>6. CASE T = {}
    BY <1>3, <1>6, SumEmpty
  <1>7. CASE T # {}
    <2> DEFINE c == Picked(T)
    <2>1. c \in T /\ Unpicked(T) = T \ {c}
      BY <1>7, PickedIn DEF Unpicked
    <2> HIDE DEF c
    <2>2. SumOver(f, T) = f[c] + SumOver(f, T \ {c})
      BY <1>5, <1>7, <2>1, SumStep DEF c
    <2>3. f[c] \in Int /\ SumOver(f, T \ {c}) \in Int
      BY <1>3, <1>4, <2>1
    <2>4. SumOver(f, T) \in Int
      BY <2>2, <2>3
    <2>5. ASSUME NEW x \in T, x # c
          PROVE  SumOver(f, T) = f[x] + SumOver(f, T \ {x})
      <3> DEFINE r == (T \ {c}) \ {x}
      <3>1. SumOver(f, T \ {c}) = f[x] + SumOver(f, r)
        <4>1. Good(T \ {c}) /\ x \in T \ {c}
          BY <1>4, <2>1, <2>5
        <4>2. QED
          BY <4>1
      <3>2. SumOver(f, T \ {x}) = f[c] + SumOver(f, r)
        <4>1. Good(T \ {x}) /\ c \in T \ {x}
          BY <1>4, <2>1, <2>5
        <4>2. r = (T \ {x}) \ {c}
          OBVIOUS
        <4> HIDE DEF r
        <4>3. QED
          BY <4>1, <4>2
      <3>3. SumOver(f, r) \in Int /\ f[x] \in Int
        <4>1. r \in SUBSET T /\ r # T
          BY <2>1
        <4>2. Good(r)
          BY <1>4, <4>1
        <4>3. QED
          BY <1>3, <4>2
      <3> HIDE DEF r, Good
      <3>4. QED
        BY <2>2, <2>3, <3>1, <3>2, <3>3
    <2>6. Good(T)
      BY <2>2, <2>4, <2>5
    <2>7. QED
      BY <1>3, <2>6
  <1>8. QED
    BY <1>6, <1>7

\* Induction over the subsets of a finite set: G holds those of which it is
\* proved.
LEMMA BySubsets ==
    ASSUME NEW S, IsFiniteSet(S), NEW G, {} \in G,
           \A T \in SUBSET S, x \in S : x \in T /\ T \ {x} \in G => T \in G
    PROVE  S \in G
  <1> DEFINE C == (SUBSET S) \ G
  <1>1. SUFFICES ASSUME S \notin G PROVE FALSE
    OBVIOUS
  <1>0. C # {}
    BY <1>1
  <1>2. PICK T \in C : \A U \in C : U \subseteq T => U = T
    <2>1. C \in SUBSET SUBSET S
      OBVIOUS
    <2> HIDE DEF C
    <2>2. QED
      BY <1>0, <2>1, Minimal
  <1>3. PICK x \in S : x \in T
    BY <1>2
  <1>4. T \in SUBSET S /\ T \notin G /\ T \ {x} \in SUBSET S
    BY <1>2
  <1>5. T \ {x} \notin C
    <2> HIDE DEF C
    <2>1. T \ {x} \subseteq T /\ T \ {x} # T
      BY <1>3
    <2>2. QED
      BY <1>2, <2>1
  <1>6. QED
    BY <1>3, <1>4, <1>5

Whole(f, S) == \A x \in S : f[x] \in Int

\* Integers add up to an integer.
THEOREM SumInt ==
    ASSUME NEW S, IsFiniteSet(S), NEW f, Whole(f, S)
    PROVE  SumOver(f, S) \in Int
  BY SumTake DEF Whole

\* What is never less than nothing adds up to no less.
THEOREM SumNat ==
    ASSUME NEW S, IsFiniteSet(S), NEW f, \A x \in S : f[x] \in Nat
    PROVE  SumOver(f, S) \in Nat
  <1> DEFINE G == {T \in SUBSET S : SumOver(f, T) \in Nat}
  <1>1. {} \in G
    BY SumEmpty
  <1>2. ASSUME NEW T \in SUBSET S, NEW x \in S, x \in T, T \ {x} \in G
        PROVE  T \in G
    <2>1. IsFiniteSet(T) /\ \A y \in T : f[y] \in Int
      BY FS_Subset
    <2>2. SumOver(f, T) = f[x] + SumOver(f, T \ {x})
      BY <1>2, <2>1, SumTake
    <2>3. SumOver(f, T) \in Nat
      BY <1>2, <2>2
    <2>4. QED
      BY <2>3
  <1> HIDE DEF G
  <1>3. S \in G
    BY <1>1, <1>2, BySubsets
  <1>4. QED
    BY <1>3 DEF G

\* A sum looks at its function only where it adds.
THEOREM SumSame ==
    ASSUME NEW S, IsFiniteSet(S), NEW f, NEW g, Whole(f, S),
           \A x \in S : f[x] = g[x]
    PROVE  SumOver(f, S) = SumOver(g, S)
  <1> DEFINE G == {T \in SUBSET S : SumOver(f, T) = SumOver(g, T)}
  <1>1. {} \in G
    BY SumEmpty
  <1>2. ASSUME NEW T \in SUBSET S, NEW x \in S, x \in T, T \ {x} \in G
        PROVE  T \in G
    <2>1. IsFiniteSet(T) /\ \A y \in T : f[y] \in Int /\ g[y] \in Int
      BY FS_Subset DEF Whole
    <2>2. /\ SumOver(f, T) = f[x] + SumOver(f, T \ {x})
          /\ SumOver(g, T) = g[x] + SumOver(g, T \ {x})
      BY <1>2, <2>1, SumTake
    <2>3. QED
      BY <1>2, <2>2
  <1> HIDE DEF G
  <1>3. S \in G
    BY <1>1, <1>2, BySubsets
  <1>4. QED
    BY <1>3 DEF G

\* What adds nothing can be left out.
THEOREM SumPart ==
    ASSUME NEW S, IsFiniteSet(S), NEW f, Whole(f, S),
           NEW P, \A x \in S : x \notin P => f[x] = 0
    PROVE  SumOver(f, S) = SumOver(f, S \cap P)
  <1> DEFINE G == {T \in SUBSET S : SumOver(f, T) = SumOver(f, T \cap P)}
  <1>1. {} \in G
    BY SumEmpty
  <1>2. ASSUME NEW T \in SUBSET S, NEW x \in S, x \in T, T \ {x} \in G
        PROVE  T \in G
    <2>1. /\ IsFiniteSet(T) /\ IsFiniteSet(T \cap P) /\ IsFiniteSet(T \ {x})
          /\ \A y \in T : f[y] \in Int
      BY FS_Subset DEF Whole
    <2>2. /\ SumOver(f, T) = f[x] + SumOver(f, T \ {x})
          /\ SumOver(f, T \ {x}) \in Int
      BY <1>2, <2>1, SumTake
    <2>3. SumOver(f, T \ {x}) = SumOver(f, (T \ {x}) \cap P)
      BY <1>2
    <2>4. CASE x \in P
      <3>1. SumOver(f, T \cap P) = f[x] + SumOver(f, (T \cap P) \ {x})
        BY <1>2, <2>1, <2>4, SumTake
      <3>2. (T \cap P) \ {x} = (T \ {x}) \cap P
        OBVIOUS
      <3>3. QED
        BY <2>2, <2>3, <3>1, <3>2
    <2>5. CASE x \notin P
      <3>1. (T \ {x}) \cap P = T \cap P /\ f[x] = 0
        BY <2>5
      <3>2. SumOver(f, T) = SumOver(f, T \ {x})
        BY <2>2, <3>1
      <3>3. QED
        BY <2>3, <3>1, <3>2
    <2>6. QED
      BY <2>4, <2>5
  <1> HIDE DEF G
  <1>3. S \in G
    BY <1>1, <1>2, BySubsets
  <1>4. QED
    BY <1>3 DEF G

\* The sum of two functions.
THEOREM SumPlus ==
    ASSUME NEW S, IsFiniteSet(S), NEW f, NEW g, NEW h, Whole(f, S), Whole(g, S),
           \A x \in S : h[x] = f[x] + g[x]
    PROVE  SumOver(h, S) = SumOver(f, S) + SumOver(g, S)
  <1> DEFINE G == {T \in SUBSET S : SumOver(h, T) = SumOver(f, T) + SumOver(g, T)}
  <1>1. {} \in G
    BY SumEmpty
  <1>2. ASSUME NEW T \in SUBSET S, NEW x \in S, x \in T, T \ {x} \in G
        PROVE  T \in G
    <2>1. /\ IsFiniteSet(T) /\ IsFiniteSet(T \ {x})
          /\ \A y \in T : f[y] \in Int /\ g[y] \in Int /\ h[y] \in Int
      BY FS_Subset DEF Whole
    <2>2. /\ SumOver(f, T) = f[x] + SumOver(f, T \ {x})
          /\ SumOver(g, T) = g[x] + SumOver(g, T \ {x})
          /\ SumOver(h, T) = h[x] + SumOver(h, T \ {x})
          /\ SumOver(f, T \ {x}) \in Int /\ SumOver(g, T \ {x}) \in Int
      BY <1>2, <2>1, SumTake
    <2>3. SumOver(h, T \ {x}) = SumOver(f, T \ {x}) + SumOver(g, T \ {x})
      BY <1>2
    <2>4. SumOver(h, T) = SumOver(f, T) + SumOver(g, T)
      <3> DEFINE a == SumOver(f, T \ {x})
                 b == SumOver(g, T \ {x})
      <3>1. h[x] = f[x] + g[x] /\ f[x] \in Int /\ g[x] \in Int /\ a \in Int /\ b \in Int
        BY <1>2, <2>1, <2>2
      <3>2. /\ SumOver(f, T) = f[x] + a /\ SumOver(g, T) = g[x] + b
            /\ SumOver(h, T) = h[x] + (a + b)
        BY <2>2, <2>3
      <3> HIDE DEF a, b
      <3>3. QED
        BY <3>1, <3>2
    <2>5. QED
      BY <2>4
  <1> HIDE DEF G
  <1>3. S \in G
    BY <1>1, <1>2, BySubsets
  <1>4. QED
    BY <1>3 DEF G

\* A change at one place changes the sum by as much.
THEOREM SumChange ==
    ASSUME NEW S, IsFiniteSet(S), NEW f, NEW g, Whole(f, S),
           NEW x \in S, g[x] \in Int, \A y \in S \ {x} : g[y] = f[y]
    PROVE  SumOver(g, S) = SumOver(f, S) + (g[x] - f[x])
  <1>1. /\ IsFiniteSet(S \ {x}) /\ Whole(g, S) /\ Whole(f, S \ {x})
    BY FS_Subset DEF Whole
  <1>2. /\ SumOver(f, S) = f[x] + SumOver(f, S \ {x})
        /\ SumOver(g, S) = g[x] + SumOver(g, S \ {x})
    BY <1>1, SumTake DEF Whole
  <1>3. SumOver(f, S \ {x}) = SumOver(g, S \ {x}) /\ SumOver(f, S \ {x}) \in Int
    BY <1>1, SumSame, SumInt
  <1>4. f[x] \in Int
    BY DEF Whole
  <1>5. QED
    BY <1>2, <1>3, <1>4

\* Two sets with nothing in common.
THEOREM SumUnion ==
    ASSUME NEW S, IsFiniteSet(S), NEW Q, IsFiniteSet(Q), S \cap Q = {},
           NEW f, Whole(f, S \union Q)
    PROVE  SumOver(f, S \union Q) = SumOver(f, S) + SumOver(f, Q)
  <1> DEFINE G == {T \in SUBSET S : SumOver(f, T \union Q) = SumOver(f, T) + SumOver(f, Q)}
  <1>1. {} \in G
    <2>1. SumOver(f, Q) \in Int
      BY SumInt DEF Whole
    <2>2. {} \union Q = Q
      OBVIOUS
    <2>3. QED
      BY <2>1, <2>2, SumEmpty
  <1>2. ASSUME NEW T \in SUBSET S, NEW x \in S, x \in T, T \ {x} \in G
        PROVE  T \in G
    <2>1. /\ IsFiniteSet(T) /\ IsFiniteSet(T \ {x}) /\ IsFiniteSet(T \union Q)
          /\ \A y \in T \union Q : f[y] \in Int
      <3>1. IsFiniteSet(T)
        BY FS_Subset
      <3>2. QED
        BY <3>1, FS_Subset, FS_Union DEF Whole
    <2>2. /\ SumOver(f, T) = f[x] + SumOver(f, T \ {x})
          /\ SumOver(f, T \ {x}) \in Int
      BY <1>2, <2>1, SumTake
    <2>3. SumOver(f, T \union Q) = f[x] + SumOver(f, (T \union Q) \ {x})
      BY <1>2, <2>1, SumTake
    <2>4. (T \union Q) \ {x} = (T \ {x}) \union Q
      OBVIOUS
    <2>5. SumOver(f, (T \ {x}) \union Q) = SumOver(f, T \ {x}) + SumOver(f, Q)
      BY <1>2
    <2>6. SumOver(f, Q) \in Int /\ f[x] \in Int
      BY <1>2, <2>1, SumTake
    <2>7. SumOver(f, T \union Q) = SumOver(f, T) + SumOver(f, Q)
      <3> DEFINE a == SumOver(f, T \ {x})
                 b == SumOver(f, Q)
                 t == SumOver(f, T)
                 u == SumOver(f, T \union Q)
      <3>1. f[x] \in Int /\ a \in Int /\ b \in Int
        BY <2>2, <2>6
      <3>2. u = f[x] + (a + b) /\ t = f[x] + a
        BY <2>2, <2>3, <2>4, <2>5
      <3> HIDE DEF a, b, t, u
      <3>3. u = t + b
        BY <3>1, <3>2
      <3>4. QED
        BY <3>3 DEF t, u, b
    <2>8. QED
      BY <2>7
  <1> HIDE DEF G
  <1>3. S \in G
    BY <1>1, <1>2, BySubsets
  <1>4. QED
    BY <1>3 DEF G

\* What is added owner by owner is added once: the sum over the owners of what
\* each one owns is the sum of all that is owned.
OwnedBy(P, o, i) == {p \in P : o[p] = i}

THEOREM SumByOwner ==
    ASSUME NEW S, IsFiniteSet(S), NEW P, IsFiniteSet(P), NEW f, Whole(f, P),
           NEW o, \A p \in P : o[p] \in S,
           NEW g, \A i \in S : g[i] = SumOver(f, OwnedBy(P, o, i))
    PROVE  SumOver(g, S) = SumOver(f, P)
  <1> DEFINE Owned(T) == {p \in P : o[p] \in T}
             G == {T \in SUBSET S : SumOver(g, T) = SumOver(f, Owned(T))}
  <1>0. ASSUME NEW Q \in SUBSET P PROVE IsFiniteSet(Q) /\ SumOver(f, Q) \in Int
    <2>1. IsFiniteSet(Q) /\ Whole(f, Q)
      BY FS_Subset DEF Whole
    <2>2. QED
      BY <2>1, SumInt
  <1>a. \A i \in S : g[i] \in Int
    BY <1>0 DEF OwnedBy
  <1>1. {} \in G
    <2>1. Owned({}) = {}
      OBVIOUS
    <2>2. QED
      BY <2>1, SumEmpty
  <1>2. ASSUME NEW T \in SUBSET S, NEW x \in S, x \in T, T \ {x} \in G
        PROVE  T \in G
    <2> DEFINE Q == OwnedBy(P, o, x)
    <2>1. /\ SumOver(g, T) = g[x] + SumOver(g, T \ {x})
          /\ SumOver(g, T \ {x}) = SumOver(f, Owned(T \ {x}))
          /\ g[x] = SumOver(f, Q)
      <3>1. IsFiniteSet(T) /\ \A y \in T : g[y] \in Int
        BY <1>a, FS_Subset
      <3>2. QED
        BY <1>2, <3>1, SumTake
    <2>2. Owned(T) = Owned(T \ {x}) \union Q /\ Owned(T \ {x}) \cap Q = {}
      BY <1>2 DEF OwnedBy
    <2>3. SumOver(f, Owned(T)) = SumOver(f, Owned(T \ {x})) + SumOver(f, Q)
      <3>1. Owned(T \ {x}) \in SUBSET P /\ Q \in SUBSET P
        BY DEF OwnedBy
      <3>2. Whole(f, Owned(T \ {x}) \union Q)
        BY DEF Whole, OwnedBy
      <3>3. IsFiniteSet(Owned(T \ {x})) /\ IsFiniteSet(Q)
        BY <1>0, <3>1
      <3> DEFINE A == Owned(T \ {x})
                 B == Owned(T)
      <3>4. B = A \union Q /\ A \cap Q = {}
        BY <2>2
      <3> HIDE DEF A, B, Q
      <3>5. IsFiniteSet(A) /\ IsFiniteSet(Q) /\ Whole(f, A \union Q)
        BY <3>2, <3>3 DEF A, Q
      <3>6. SumOver(f, A \union Q) = SumOver(f, A) + SumOver(f, Q)
        BY <3>4, <3>5, SumUnion
      <3>7. QED
        BY <3>4, <3>6 DEF A, B
    <2>4. SumOver(f, Owned(T \ {x})) \in Int /\ SumOver(f, Q) \in Int
      BY <1>0 DEF OwnedBy
    <2>5. SumOver(g, T) = SumOver(f, Owned(T))
      <3> HIDE DEF Owned, Q
      <3>1. QED
        BY <2>1, <2>3, <2>4
    <2>6. QED
      BY <2>5
  <1> HIDE DEF G
  <1>3. S \in G
    BY <1>1, <1>2, BySubsets
  <1>4. Owned(S) = P
    OBVIOUS
  <1>5. QED
    BY <1>3, <1>4 DEF G
=============================================================================
