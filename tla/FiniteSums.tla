----------------------------- MODULE FiniteSums -----------------------------
(***************************************************************************)
(* What a sum over a finite set is worth, and which element of a finite set *)
(* comes first: lemmas for the proofs about budgets, engine and analytics.  *)
(* The library folds over a set with a recursive function; a set on which   *)
(* such a function goes wrong has a least subset on which it does.          *)
(***************************************************************************)
EXTENDS Functions, FiniteSets, Integers, FiniteSetTheorems, FunctionTheorems, WellFoundedInduction, TLAPS

\* Among subsets of a finite set there is one that contains no other.
LEMMA LeastSet ==
    ASSUME NEW S, IsFiniteSet(S), NEW F \in SUBSET (SUBSET S), F # {}
    PROVE  \E x \in F : \A y \in F : y \subseteq x => y = x
<1>1. F \subseteq FiniteSubsetsOf(S)
    BY FS_Subset DEF FiniteSubsetsOf
<1>2. PICK x \in F : \A y \in F : ~(<<y, x>> \in StrictSubsetOrdering(S))
    BY <1>1, FS_StrictSubsetOrderingWellFounded, WFMin
<1>3. QED
    BY <1>2 DEF StrictSubsetOrdering

One(s) == CHOOSE x \in s : TRUE
Added(f, g, s) == IF s = {} THEN 0 ELSE f[One(s)] + g[s \ {One(s)}]
Adding(f, S, g) == g = [s \in SUBSET S |-> Added(f, g, s)]
Summed(f, S) == CHOOSE g : Adding(f, S, g)

LEMMA OneTaken ==
    ASSUME NEW s, s # {}
    PROVE  One(s) \in s /\ s \ {One(s)} \subseteq s /\ s \ {One(s)} # s
BY DEF One

\* Two functions that sum up f agree where both are defined.
LEMMA AddingAgrees ==
    ASSUME NEW S, IsFiniteSet(S), NEW T \in SUBSET S, NEW f, NEW g, NEW h,
           Adding(f, S, g), Adding(f, T, h)
    PROVE  \A s \in SUBSET T : g[s] = h[s]
<1> DEFINE bad == {s \in SUBSET T : g[s] # h[s]}
<1>1. \A s \in SUBSET T : g[s] = Added(f, g, s) /\ h[s] = Added(f, h, s)
    BY DEF Adding
<1>2. ASSUME bad # {} PROVE FALSE
  <2>1. IsFiniteSet(T) /\ bad \in SUBSET (SUBSET T)
      BY FS_Subset
  <2>2. PICK s \in bad : \A t \in bad : t \subseteq s => t = s
    <3> HIDE DEF bad
    <3>1. QED
        BY <1>2, <2>1, LeastSet
  <2>3. s \in SUBSET T /\ g[s] # h[s]
      OBVIOUS
  <2>4. s # {}
      BY <1>1, <2>3 DEF Added
  <2>5. s \ {One(s)} \in SUBSET T /\ s \ {One(s)} \subseteq s /\ s \ {One(s)} # s
      BY <2>3, <2>4, OneTaken
  <2>6. g[s \ {One(s)}] = h[s \ {One(s)}]
      BY <2>2, <2>5
  <2>7. QED
      BY <1>1, <2>3, <2>4, <2>6 DEF Added
<1>3. QED
    BY <1>2

LEMMA AddingExists ==
    ASSUME NEW S, IsFiniteSet(S), NEW f
    PROVE  \E g : Adding(f, S, g)
<1> DEFINE unmade == {T \in SUBSET S : ~\E g : Adding(f, T, g)}
<1>1. ASSUME unmade # {} PROVE FALSE
  <2>1. unmade \in SUBSET (SUBSET S)
      OBVIOUS
  <2>2. PICK T \in unmade : \A t \in unmade : t \subseteq T => t = T
    <3> HIDE DEF unmade
    <3>1. QED
        BY <1>1, <2>1, LeastSet
  <2>3. T \in SUBSET S /\ ~(\E g : Adding(f, T, g))
      OBVIOUS
  <2>4. \A t \in SUBSET T : t # T => \E g : Adding(f, t, g)
      BY <2>2, <2>3
  <2> DEFINE part == [t \in SUBSET T |-> Summed(f, t)]
             all == [s \in SUBSET T |-> IF s = {} THEN 0
                        ELSE f[One(s)] + part[s \ {One(s)}][s \ {One(s)}]]
  <2>5. ASSUME NEW t \in SUBSET T, t # T PROVE Adding(f, t, part[t])
    <3>1. Adding(f, t, Summed(f, t))
        BY <2>4, <2>5 DEF Summed
    <3>2. part[t] = Summed(f, t)
        OBVIOUS
    <3>3. QED
        BY <3>1, <3>2
  <2>6. ASSUME NEW t \in SUBSET T, t # T PROVE part[t][t] = all[t]
    <3>1. part[t][t] = Added(f, part[t], t)
        BY <2>5, <2>6 DEF Adding
    <3>2. CASE t = {}
        BY <3>1, <3>2 DEF Added
    <3>3. CASE t # {}
      <4> DEFINE u == t \ {One(t)}
      <4>1. u \in SUBSET t /\ u \in SUBSET T /\ u # T
          BY <2>6, <3>3, OneTaken
      <4>2. IsFiniteSet(t) /\ Adding(f, t, part[t]) /\ Adding(f, u, part[u])
          BY <2>3, <2>5, <2>6, <4>1, FS_Subset
      <4>3. part[t][u] = part[u][u]
        <5> HIDE DEF part, u
        <5>1. QED
            BY <4>1, <4>2, AddingAgrees
      <4>4. all[t] = f[One(t)] + part[u][u]
          BY <3>3
      <4>5. part[t][t] = f[One(t)] + part[t][u]
          BY <3>1, <3>3 DEF Added
      <4>6. QED
          BY <4>3, <4>4, <4>5
    <3>4. QED
        BY <3>2, <3>3
  <2>7. ASSUME NEW s \in SUBSET T PROVE all[s] = Added(f, all, s)
    <3>1. CASE s = {}
        BY <3>1 DEF Added
    <3>2. CASE s # {}
      <4>1. s \ {One(s)} \in SUBSET T /\ s \ {One(s)} # T
          BY <2>7, <3>2, OneTaken
      <4>2. all[s] = f[One(s)] + part[s \ {One(s)}][s \ {One(s)}]
          BY <3>2
      <4>3. part[s \ {One(s)}][s \ {One(s)}] = all[s \ {One(s)}]
          BY <2>6, <4>1
      <4> HIDE DEF all, part
      <4>4. QED
          BY <3>2, <4>2, <4>3 DEF Added
    <3>3. QED
        BY <3>1, <3>2
  <2>8. all = [s \in SUBSET T |-> all[s]]
      OBVIOUS
  <2> HIDE DEF all
  <2>9. Adding(f, T, all)
      BY <2>7, <2>8 DEF Adding
  <2>10. QED
      BY <2>3, <2>9
<1>2. S \notin unmade
    BY <1>1
<1>3. QED
    BY <1>2

\* The library's sum is one of these.
LEMMA SumAdds ==
    ASSUME NEW S, IsFiniteSet(S), NEW f
    PROVE  \E g : Adding(f, S, g) /\ SumFunctionOnSet(f, S) = g[S]
<1>1. SumFunctionOnSet(f, S) = Summed(f, S)[S]
    BY DEF Summed, SumFunctionOnSet, FoldFunctionOnSet, MapThenFoldSet, Adding, Added, One
<1>2. Adding(f, S, Summed(f, S))
    BY AddingExists DEF Summed
<1>3. QED
    BY <1>1, <1>2

\* A sum of naturals is one, and moves with any of its terms.
LEMMA SumMoves ==
    ASSUME NEW S, IsFiniteSet(S), NEW f \in [S -> Nat], NEW g \in [S -> Nat], NEW i \in S,
           \A j \in S \ {i} : f[j] = g[j]
    PROVE  /\ SumFunctionOnSet(f, S) \in Nat /\ SumFunctionOnSet(g, S) \in Nat
           /\ SumFunctionOnSet(f, S) + g[i] = SumFunctionOnSet(g, S) + f[i]
<1>1. PICK F : Adding(f, S, F) /\ SumFunctionOnSet(f, S) = F[S]
    BY SumAdds
<1>2. PICK G : Adding(g, S, G) /\ SumFunctionOnSet(g, S) = G[S]
    BY SumAdds
<1> DEFINE Good(s) == /\ F[s] \in Nat /\ G[s] \in Nat
                      /\ i \notin s => F[s] = G[s]
                      /\ i \in s => F[s] + g[i] = G[s] + f[i]
           bad == {s \in SUBSET S : ~Good(s)}
<1>3. \A s \in SUBSET S : F[s] = Added(f, F, s) /\ G[s] = Added(g, G, s)
    BY <1>1, <1>2 DEF Adding
<1>4. ASSUME bad # {} PROVE FALSE
  <2>1. bad \in SUBSET (SUBSET S)
      OBVIOUS
  <2>2. PICK s \in bad : \A t \in bad : t \subseteq s => t = s
    <3> HIDE DEF bad
    <3>1. QED
        BY <1>4, <2>1, LeastSet
  <2>3. s \in SUBSET S /\ ~Good(s)
      OBVIOUS
  <2>4. s # {}
      BY <1>3, <2>3 DEF Added
  <2>5. PICK x \in S : x = One(s) /\ x \in s
      BY <2>3, <2>4, OneTaken
  <2> DEFINE t == s \ {x}
  <2>6. t \in SUBSET S /\ t \subseteq s /\ t # s
      BY <2>3, <2>5
  <2>7. Good(t)
      BY <2>2, <2>6
  <2>8. F[s] = f[x] + F[t] /\ G[s] = g[x] + G[t]
      BY <1>3, <2>3, <2>4, <2>5 DEF Added
  <2>9. f[x] \in Nat /\ g[x] \in Nat /\ f[i] \in Nat /\ g[i] \in Nat /\ (x # i => f[x] = g[x])
      OBVIOUS
  <2>10. F[t] \in Nat /\ G[t] \in Nat /\ (i \notin t => F[t] = G[t]) /\ (i \in t => F[t] + g[i] = G[t] + f[i])
      BY <2>7
  <2>11. (i \in t <=> i \in s /\ i # x) /\ x \in s
      BY <2>5
  <2> HIDE DEF t
  <2>12. Good(s)
      BY <2>8, <2>9, <2>10, <2>11
  <2>13. QED
      BY <2>3, <2>12
<1>5. Good(S)
    BY <1>4
<1>6. QED
    BY <1>1, <1>2, <1>5

\* Nothing adds up to nothing.
LEMMA SumOfNothing ==
    ASSUME NEW S, IsFiniteSet(S), NEW f, \A i \in S : f[i] = 0
    PROVE  SumFunctionOnSet(f, S) = 0
<1>1. PICK F : Adding(f, S, F) /\ SumFunctionOnSet(f, S) = F[S]
    BY SumAdds
<1> DEFINE bad == {s \in SUBSET S : F[s] # 0}
<1>2. \A s \in SUBSET S : F[s] = Added(f, F, s)
    BY <1>1 DEF Adding
<1>3. ASSUME bad # {} PROVE FALSE
  <2>1. bad \in SUBSET (SUBSET S)
      OBVIOUS
  <2>2. PICK s \in bad : \A t \in bad : t \subseteq s => t = s
    <3> HIDE DEF bad
    <3>1. QED
        BY <1>3, <2>1, LeastSet
  <2>3. s \in SUBSET S /\ F[s] # 0
      OBVIOUS
  <2>4. s # {}
      BY <1>2, <2>3 DEF Added
  <2>5. s \ {One(s)} \in SUBSET S /\ s \ {One(s)} \subseteq s /\ s \ {One(s)} # s /\ One(s) \in S
      BY <2>3, <2>4, OneTaken
  <2>6. F[s \ {One(s)}] = 0 /\ f[One(s)] = 0
      BY <2>2, <2>5
  <2>7. F[s] = 0 + 0
      BY <1>2, <2>3, <2>4, <2>6 DEF Added
  <2>8. QED
      BY <2>3, <2>7
<1>4. QED
    BY <1>1, <1>3

\* A term is part of its sum.
LEMMA TermInSum ==
    ASSUME NEW S, IsFiniteSet(S), NEW f \in [S -> Nat], NEW i \in S
    PROVE  SumFunctionOnSet(f, S) \in Nat /\ f[i] <= SumFunctionOnSet(f, S)
<1> DEFINE g == [f EXCEPT ![i] = 0]
<1>1. g \in [S -> Nat] /\ g[i] = 0 /\ \A j \in S \ {i} : f[j] = g[j]
    OBVIOUS
<1> HIDE DEF g
<1>2. /\ SumFunctionOnSet(f, S) \in Nat /\ SumFunctionOnSet(g, S) \in Nat
      /\ SumFunctionOnSet(f, S) + g[i] = SumFunctionOnSet(g, S) + f[i]
    BY <1>1, SumMoves
<1>3. f[i] \in Nat
    OBVIOUS
<1>4. QED
    BY <1>1, <1>2, <1>3

-----------------------------------------------------------------------------
(* The first in order. *)

Leads(a, T, R) == \A b \in T \ {a} : <<a, b>> \in R
HasFirst(T, R) == \E a \in T : Leads(a, T, R)

\* A relation that orders a finite set strictly has a first element.
LEMMA FirstExists ==
    ASSUME NEW S, IsFiniteSet(S), S # {}, NEW R \in SUBSET (S \X S),
           \A a, b \in S : a # b => <<a, b>> \in R \/ <<b, a>> \in R,
           \A a, b, c \in S : <<a, b>> \in R /\ <<b, c>> \in R => <<a, c>> \in R
    PROVE  \E a \in S : Leads(a, S, R)
<1> DEFINE bad == {T \in SUBSET S : T # {} /\ ~HasFirst(T, R)}
<1>1. ASSUME bad # {} PROVE FALSE
  <2>1. bad \in SUBSET (SUBSET S)
      OBVIOUS
  <2>2. PICK T \in bad : \A t \in bad : t \subseteq T => t = T
    <3> HIDE DEF bad
    <3>1. QED
        BY <1>1, <2>1, LeastSet
  <2>3. T \in SUBSET S /\ T # {} /\ ~HasFirst(T, R)
      OBVIOUS
  <2>4. PICK x \in T : TRUE
      BY <2>3
  <2>5. T \ {x} # {}
      BY <2>3, <2>4 DEF HasFirst, Leads
  <2>6. HasFirst(T \ {x}, R)
    <3> DEFINE t == T \ {x}
    <3>1. t \in SUBSET S /\ t \subseteq T /\ t # T /\ t # {}
        BY <2>3, <2>4, <2>5
    <3>2. t \notin bad
      <4> HIDE DEF bad, t
      <4>1. QED
          BY <2>2, <3>1
    <3> HIDE DEF t
    <3>3. HasFirst(t, R)
        BY <3>1, <3>2
    <3>4. QED
        BY <3>3 DEF t
  <2>7. PICK y \in T \ {x} : \A b \in (T \ {x}) \ {y} : <<y, b>> \in R
      BY <2>6 DEF HasFirst, Leads
  <2>8. x \in S /\ y \in S /\ x # y
      BY <2>3, <2>4, <2>7
  <2>9. y \in T /\ ~(\A b \in T \ {y} : <<y, b>> \in R) /\ ~(\A b \in T \ {x} : <<x, b>> \in R)
      BY <2>3, <2>4, <2>7 DEF HasFirst, Leads
  <2>10. <<y, x>> \notin R
      BY <2>7, <2>9
  <2>11. <<x, y>> \in R
      BY <2>8, <2>10
  <2>12. ASSUME NEW b \in T \ {x} PROVE <<x, b>> \in R
    <3>1. CASE b = y
        BY <2>11, <3>1
    <3>2. CASE b # y
      <4>1. <<y, b>> \in R /\ b \in S
          BY <2>3, <2>7, <3>2
      <4>2. QED
          BY <2>8, <2>11, <4>1
    <3>3. QED
        BY <3>1, <3>2
  <2>13. QED
      BY <2>9, <2>12
<1>2. S \notin bad
    BY <1>1
<1>3. QED
    BY <1>2 DEF HasFirst

\* A set of indices has a first and a last one.
LEMMA IndexEnds ==
    ASSUME NEW n \in Nat, NEW I \in SUBSET (1..n), I # {}
    PROVE  /\ \E x \in I : \A y \in I : x <= y
           /\ \E x \in I : \A y \in I : x >= y
<1> DEFINE up == {e \in I \X I : e[1] < e[2]}
           down == {e \in I \X I : e[2] < e[1]}
<1>1. IsFiniteSet(I) /\ I \subseteq Nat
    <2>1. IsFiniteSet(1..n)
        BY FS_Interval
    <2>2. IsFiniteSet(I)
        BY <2>1, FS_Subset
    <2>3. I \subseteq Nat
        OBVIOUS
    <2>4. QED
        BY <2>2, <2>3
<1>2. /\ up \in SUBSET (I \X I) /\ down \in SUBSET (I \X I)
      /\ \A x, y \in I : (<<x, y>> \in up <=> x < y) /\ (<<x, y>> \in down <=> y < x)
    OBVIOUS
<1> HIDE DEF up, down
<1>3. /\ \A x, y \in I : x # y => <<x, y>> \in up \/ <<y, x>> \in up
      /\ \A x, y, z \in I : <<x, y>> \in up /\ <<y, z>> \in up => <<x, z>> \in up
    BY <1>1, <1>2
<1>4. /\ \A x, y \in I : x # y => <<x, y>> \in down \/ <<y, x>> \in down
      /\ \A x, y, z \in I : <<x, y>> \in down /\ <<y, z>> \in down => <<x, z>> \in down
    BY <1>1, <1>2
<1>5. PICK a \in I : Leads(a, I, up)
    BY <1>1, <1>2, <1>3, FirstExists
<1>6. PICK b \in I : Leads(b, I, down)
    BY <1>1, <1>2, <1>4, FirstExists
<1>7. ASSUME NEW y \in I PROVE a <= y /\ b >= y
    <2>1. a \in Nat /\ b \in Nat /\ y \in Nat
        BY <1>1
    <2>2. y # a => a < y
        BY <1>2, <1>5 DEF Leads
    <2>3. y # b => y < b
        BY <1>2, <1>6 DEF Leads
    <2>4. QED
        BY <2>1, <2>2, <2>3
<1>8. QED
    BY <1>7

-----------------------------------------------------------------------------
(* Sums of integers over a set: term by term, in parts, and key by key. *)

\* A sum does not depend on the order its terms are taken in.
InAnyOrder(f, S, g) ==
    \A s \in SUBSET S : g[s] \in Int /\ \A x \in s : g[s] = f[x] + g[s \ {x}]

LEMMA AnyTaken ==
    ASSUME NEW S, IsFiniteSet(S), NEW f, \A i \in S : f[i] \in Int, NEW g, Adding(f, S, g)
    PROVE  InAnyOrder(f, S, g)
<1> DEFINE Fine(s) == g[s] \in Int /\ \A x \in s : g[s] = f[x] + g[s \ {x}]
           bad == {s \in SUBSET S : ~Fine(s)}
<1>1. \A s \in SUBSET S : g[s] = Added(f, g, s)
    BY DEF Adding
<1>2. ASSUME bad # {} PROVE FALSE
  <2>1. bad \in SUBSET (SUBSET S)
      OBVIOUS
  <2>2. PICK s \in bad : \A t \in bad : t \subseteq s => t = s
    <3> HIDE DEF bad
    <3>1. QED
        BY <1>2, <2>1, LeastSet
  <2>3. s \in SUBSET S /\ ~Fine(s)
      OBVIOUS
  <2>4. s # {}
      BY <1>1, <2>3 DEF Added
  <2>5. PICK o : o = One(s)
      OBVIOUS
  <2>6. o \in s /\ g[s] = f[o] + g[s \ {o}]
      BY <1>1, <2>3, <2>4, <2>5, OneTaken DEF Added
  <2>7. \A t \in SUBSET S : t \subseteq s /\ t # s => Fine(t)
      BY <2>2
  <2>8. Fine(s \ {o})
      BY <2>3, <2>6, <2>7
  <2>9. g[s] \in Int
      BY <2>3, <2>6, <2>8
  <2>10. ASSUME NEW x \in s, x # o PROVE g[s] = f[x] + g[s \ {x}]
    <3>1. Fine(s \ {x})
        BY <2>3, <2>7
    <3>2. PICK t \in SUBSET S : t = (s \ {x}) \ {o}
        BY <2>3
    <3>3. (s \ {o}) \ {x} = t /\ x \in s \ {o} /\ o \in s \ {x}
        BY <2>6, <2>10, <3>2
    <3>4. g[s \ {o}] = f[x] + g[t]
        BY <2>8, <3>3
    <3>5. g[s \ {x}] = f[o] + g[t]
        BY <3>1, <3>2, <3>3
    <3>6. Fine(t)
        BY <2>3, <2>6, <2>7, <3>2
    <3>7. f[x] \in Int /\ f[o] \in Int /\ g[t] \in Int
        BY <2>3, <2>6, <3>6
    <3>8. QED
        BY <2>6, <3>4, <3>5, <3>7
  <2>11. QED
      BY <2>3, <2>6, <2>9, <2>10
<1>3. QED
    BY <1>2 DEF InAnyOrder

LEMMA SumStep ==
    ASSUME NEW T, IsFiniteSet(T), NEW f, \A i \in T : f[i] \in Int, NEW x \in T
    PROVE  /\ SumFunctionOnSet(f, T) \in Int /\ SumFunctionOnSet(f, T \ {x}) \in Int
           /\ SumFunctionOnSet(f, T) = f[x] + SumFunctionOnSet(f, T \ {x})
<1> DEFINE t == T \ {x}
<1>1. IsFiniteSet(t) /\ t \in SUBSET T /\ T \in SUBSET T
    BY FS_Subset
<1> HIDE DEF t
<1>2. PICK F : Adding(f, T, F) /\ SumFunctionOnSet(f, T) = F[T]
    BY SumAdds
<1>3. PICK G : Adding(f, t, G) /\ SumFunctionOnSet(f, t) = G[t]
    BY <1>1, SumAdds
<1>4. \A s \in SUBSET t : F[s] = G[s]
    BY <1>1, <1>2, <1>3, AddingAgrees
<1>5. \A s \in SUBSET T : F[s] \in Int /\ \A y \in s : F[s] = f[y] + F[s \ {y}]
  <2>1. InAnyOrder(f, T, F)
      BY <1>2, AnyTaken
  <2>2. QED
      BY <2>1 DEF InAnyOrder
<1>6. F[t] = G[t]
    BY <1>4
<1>7. F[T] = f[x] + F[T \ {x}]
    BY <1>1, <1>5
<1>8. F[t] \in Int /\ F[T] \in Int
    BY <1>1, <1>5
<1>9. QED
    BY <1>2, <1>3, <1>6, <1>7, <1>8 DEF t

LEMMA SumEmpty ==
    ASSUME NEW f
    PROVE  SumFunctionOnSet(f, {}) = 0
BY FS_EmptySet, SumOfNothing

LEMMA SumIsInt ==
    ASSUME NEW T, IsFiniteSet(T), NEW f, \A i \in T : f[i] \in Int
    PROVE  SumFunctionOnSet(f, T) \in Int
<1>1. CASE T = {}
    BY <1>1, SumEmpty
<1>2. CASE T # {}
    BY <1>2, SumStep
<1>3. QED
    BY <1>1, <1>2

\* What holds of the sum over nothing and goes on when an element is added.
LEMMA SumsAgree ==
    ASSUME NEW S, IsFiniteSet(S), NEW f, NEW e, \A i \in S : f[i] \in Int /\ e[i] = f[i]
    PROVE  SumFunctionOnSet(e, S) = SumFunctionOnSet(f, S)
<1> DEFINE bad == {s \in SUBSET S : SumFunctionOnSet(e, s) # SumFunctionOnSet(f, s)}
<1>1. ASSUME bad # {} PROVE FALSE
  <2>1. bad \in SUBSET (SUBSET S)
      OBVIOUS
  <2>2. PICK s \in bad : \A t \in bad : t \subseteq s => t = s
    <3> HIDE DEF bad
    <3>1. QED
        BY <1>1, <2>1, LeastSet
  <2>3. s \in SUBSET S /\ SumFunctionOnSet(e, s) # SumFunctionOnSet(f, s)
      OBVIOUS
  <2>4. PICK x : x \in s
      BY <2>3, SumEmpty
  <2>5. IsFiniteSet(s) /\ \A i \in s : f[i] \in Int /\ e[i] \in Int /\ e[i] = f[i]
      BY <2>3, FS_Subset
  <2>6. SumFunctionOnSet(e, s \ {x}) = SumFunctionOnSet(f, s \ {x})
      BY <2>2, <2>3, <2>4
  <2>7. SumFunctionOnSet(e, s) = e[x] + SumFunctionOnSet(e, s \ {x})
      BY <2>4, <2>5, SumStep
  <2>8. SumFunctionOnSet(f, s) = f[x] + SumFunctionOnSet(f, s \ {x})
      BY <2>4, <2>5, SumStep
  <2>9. e[x] = f[x]
      BY <2>4, <2>5
  <2>10. QED
      BY <2>3, <2>6, <2>7, <2>8, <2>9
<1>2. QED
    BY <1>1

LEMMA SumOfOnes ==
    ASSUME NEW S, IsFiniteSet(S), NEW f, \A i \in S : f[i] = 1
    PROVE  SumFunctionOnSet(f, S) = Cardinality(S)
<1> DEFINE bad == {s \in SUBSET S : SumFunctionOnSet(f, s) # Cardinality(s)}
<1>1. ASSUME bad # {} PROVE FALSE
  <2>1. bad \in SUBSET (SUBSET S)
      OBVIOUS
  <2>2. PICK s \in bad : \A t \in bad : t \subseteq s => t = s
    <3> HIDE DEF bad
    <3>1. QED
        BY <1>1, <2>1, LeastSet
  <2>3. s \in SUBSET S /\ SumFunctionOnSet(f, s) # Cardinality(s)
      OBVIOUS
  <2>4. PICK x : x \in s
      BY <2>3, SumEmpty, FS_EmptySet
  <2>5. IsFiniteSet(s) /\ (\A i \in s : f[i] \in Int) /\ f[x] = 1
      BY <2>3, <2>4, FS_Subset
  <2>6. SumFunctionOnSet(f, s \ {x}) = Cardinality(s \ {x})
      BY <2>2, <2>3, <2>4
  <2>7. SumFunctionOnSet(f, s) = f[x] + SumFunctionOnSet(f, s \ {x})
      BY <2>4, <2>5, SumStep
  <2>8. Cardinality(s \ {x}) = Cardinality(s) - 1 /\ Cardinality(s) \in Nat
      BY <2>4, <2>5, FS_RemoveElement, FS_CardinalityType
  <2>9. QED
      BY <2>3, <2>5, <2>6, <2>7, <2>8
<1>2. QED
    BY <1>1

\* A sum is the sum of two parts.
LEMMA SumSplits ==
    ASSUME NEW S, IsFiniteSet(S), NEW f, \A i \in S : f[i] \in Int, NEW A \in SUBSET S
    PROVE  SumFunctionOnSet(f, S) = SumFunctionOnSet(f, A) + SumFunctionOnSet(f, S \ A)
<1> DEFINE Split(a) == SumFunctionOnSet(f, S) = SumFunctionOnSet(f, a) + SumFunctionOnSet(f, S \ a)
           bad == {a \in SUBSET S : ~Split(a)}
<1>1. ASSUME bad # {} PROVE FALSE
  <2>1. bad \in SUBSET (SUBSET S)
      OBVIOUS
  <2>2. PICK a \in bad : \A t \in bad : t \subseteq a => t = a
    <3> HIDE DEF bad
    <3>1. QED
        BY <1>1, <2>1, LeastSet
  <2>3. a \in SUBSET S /\ ~Split(a)
      OBVIOUS
  <2>4. Split({})
    <3>1. S \ {} = S /\ SumFunctionOnSet(f, S) \in Int
        BY SumIsInt
    <3>2. QED
        BY <3>1, SumEmpty
  <2>5. PICK x : x \in a
    <3>1. a # {}
        BY <2>3, <2>4
    <3>2. QED
        BY <3>1
  <2>6. Split(a \ {x})
      BY <2>2, <2>3, <2>5
  <2>7. PICK b : b = S \ (a \ {x})
      OBVIOUS
  <2>8. x \in b /\ b \ {x} = S \ a /\ b \in SUBSET S
      BY <2>3, <2>5, <2>7
  <2>9. IsFiniteSet(a) /\ IsFiniteSet(b) /\ \A i \in a \cup b : f[i] \in Int
      BY <2>3, <2>8, FS_Subset
  <2>10. /\ SumFunctionOnSet(f, a) \in Int /\ SumFunctionOnSet(f, a \ {x}) \in Int
         /\ SumFunctionOnSet(f, a) = f[x] + SumFunctionOnSet(f, a \ {x})
      BY <2>5, <2>9, SumStep
  <2>11. /\ SumFunctionOnSet(f, b) \in Int /\ SumFunctionOnSet(f, b \ {x}) \in Int
         /\ SumFunctionOnSet(f, b) = f[x] + SumFunctionOnSet(f, b \ {x})
      BY <2>8, <2>9, SumStep
  <2>12. f[x] \in Int
      BY <2>5, <2>9
  <2>13. SumFunctionOnSet(f, S) = SumFunctionOnSet(f, a \ {x}) + SumFunctionOnSet(f, b)
      BY <2>6, <2>7
  <2>14. SumFunctionOnSet(f, S) = SumFunctionOnSet(f, a) + SumFunctionOnSet(f, b \ {x})
      BY <2>10, <2>11, <2>12, <2>13
  <2>15. QED
      BY <2>3, <2>8, <2>14
<1>2. QED
    BY <1>1

\* Terms that are all nothing add nothing.
LEMMA SumOfPart ==
    ASSUME NEW S, IsFiniteSet(S), NEW f, \A i \in S : f[i] \in Int, NEW A \in SUBSET S,
           \A i \in S \ A : f[i] = 0
    PROVE  SumFunctionOnSet(f, S) = SumFunctionOnSet(f, A)
<1>1. IsFiniteSet(S \ A) /\ IsFiniteSet(A)
    BY FS_Subset
<1>2. SumFunctionOnSet(f, S \ A) = 0
    BY <1>1, SumOfNothing
<1>3. SumFunctionOnSet(f, A) \in Int
    BY <1>1, SumIsInt
<1>4. QED
    BY <1>2, <1>3, SumSplits

\* Added up for each key first, it is the same.
LEMMA SumByKey ==
    ASSUME NEW S, IsFiniteSet(S), NEW f, \A i \in S : f[i] \in Int,
           NEW K, IsFiniteSet(K), NEW key, \A i \in S : key[i] \in K
    PROVE  SumFunctionOnSet([k \in K |-> SumFunctionOnSet(f, {i \in S : key[i] = k})], K)
             = SumFunctionOnSet(f, S)
<1> DEFINE Part(s, k) == {i \in s : key[i] = k}
           h(s) == [k \in K |-> SumFunctionOnSet(f, Part(s, k))]
           Same(s) == SumFunctionOnSet(h(s), K) = SumFunctionOnSet(f, s)
           bad == {s \in SUBSET S : ~Same(s)}
<1>1. ASSUME bad # {} PROVE FALSE
  <2>1. bad \in SUBSET (SUBSET S)
      OBVIOUS
  <2>2. PICK s \in bad : \A t \in bad : t \subseteq s => t = s
    <3> HIDE DEF bad
    <3>1. QED
        BY <1>1, <2>1, LeastSet
  <2>3. s \in SUBSET S /\ ~Same(s)
      OBVIOUS
  <2>4. Same({})
    <3>1. \A k \in K : h({})[k] = 0
      <4>1. \A k : Part({}, k) = {}
          OBVIOUS
      <4>2. QED
          BY <4>1, SumEmpty
    <3>2. SumFunctionOnSet(h({}), K) = 0
      <4> HIDE DEF h
      <4>1. QED
          BY <3>1, SumOfNothing
    <3>3. QED
        BY <3>2, SumEmpty
  <2>5. s # {}
      BY <2>3, <2>4
  <2>6. PICK x : x \in s
      BY <2>5
  <2>7. PICK t : t = s \ {x}
      OBVIOUS
  <2>8. t \in SUBSET S /\ t \subseteq s /\ t # s
      BY <2>3, <2>6, <2>7
  <2>9. Same(t)
      BY <2>2, <2>8
  <2>10. PICK q \in K : q = key[x]
      BY <2>3, <2>6
  <2>11. \A k \in K : h(s)[k] \in Int /\ h(t)[k] \in Int
    <3>1. \A k \in K : Part(s, k) \in SUBSET S /\ Part(t, k) \in SUBSET S
        BY <2>3, <2>8
    <3>2. ASSUME NEW p \in SUBSET S PROVE SumFunctionOnSet(f, p) \in Int
      <4>1. IsFiniteSet(p) /\ \A i \in p : f[i] \in Int
          BY FS_Subset
      <4>2. QED
          BY <4>1, SumIsInt
    <3>3. QED
        BY <3>1, <3>2
  <2>12. \A k \in K \ {q} : h(s)[k] = h(t)[k]
    <3>1. \A k \in K \ {q} : Part(s, k) = Part(t, k)
        BY <2>7, <2>10
    <3>2. QED
        BY <3>1
  <2>13. h(s)[q] = f[x] + h(t)[q]
    <3>1. PICK p : p = Part(s, q)
        OBVIOUS
    <3>2. x \in p /\ p \ {x} = Part(t, q) /\ p \in SUBSET S
        BY <2>3, <2>6, <2>7, <2>10, <3>1
    <3>3. IsFiniteSet(p) /\ \A i \in p : f[i] \in Int
        BY <3>2, FS_Subset
    <3>4. SumFunctionOnSet(f, p) = f[x] + SumFunctionOnSet(f, p \ {x})
        BY <3>2, <3>3, SumStep
    <3>5. QED
        BY <3>1, <3>2, <3>4
  <2>14. f[x] \in Int
      BY <2>3, <2>6
  <2>15. SumFunctionOnSet(f, s) = f[x] + SumFunctionOnSet(f, t)
    <3>1. IsFiniteSet(s) /\ \A i \in s : f[i] \in Int
        BY <2>3, FS_Subset
    <3>2. QED
        BY <2>6, <2>7, <3>1, SumStep
  <2>16. SumFunctionOnSet(h(s), K) = f[x] + SumFunctionOnSet(h(t), K)
    <3> HIDE DEF h
    <3>1. /\ SumFunctionOnSet(h(s), K \ {q}) \in Int
          /\ SumFunctionOnSet(h(s), K) = h(s)[q] + SumFunctionOnSet(h(s), K \ {q})
        BY <2>11, SumStep
    <3>2. /\ SumFunctionOnSet(h(t), K \ {q}) \in Int
          /\ SumFunctionOnSet(h(t), K) = h(t)[q] + SumFunctionOnSet(h(t), K \ {q})
        BY <2>11, SumStep
    <3>3. SumFunctionOnSet(h(s), K \ {q}) = SumFunctionOnSet(h(t), K \ {q})
      <4>1. IsFiniteSet(K \ {q}) /\ \A k \in K \ {q} : h(t)[k] \in Int /\ h(s)[k] = h(t)[k]
          BY <2>11, <2>12, FS_Subset
      <4>2. QED
          BY <4>1, SumsAgree
    <3>4. h(t)[q] \in Int
        BY <2>11
    <3>5. QED
        BY <2>13, <2>14, <3>1, <3>2, <3>3, <3>4
  <2>17. QED
      BY <2>3, <2>9, <2>15, <2>16
<1>2. S \in SUBSET S
    OBVIOUS
<1>3. Same(S)
    BY <1>1, <1>2
<1>4. QED
    BY <1>3

\* What a function makes of a finite set is one.
LEMMA ImageIsFinite ==
    ASSUME NEW S, IsFiniteSet(S), NEW f
    PROVE  IsFiniteSet({f[x] : x \in S})
<1> DEFINE T == {f[x] : x \in S}
           g == [x \in S |-> f[x]]
<1>1. g \in Surjection(S, T)
    BY DEF Surjection
<1> HIDE DEF g, T
<1>2. IsFiniteSet(T)
    BY <1>1, FS_Surjection
<1>3. QED
    BY <1>2 DEF T

\* Sums of terms that are no less are no less.
LEMMA SumGrows ==
    ASSUME NEW S, IsFiniteSet(S), NEW f, NEW g, \A i \in S : f[i] \in Int /\ g[i] \in Int /\ f[i] <= g[i]
    PROVE  SumFunctionOnSet(f, S) <= SumFunctionOnSet(g, S)
<1> DEFINE bad == {s \in SUBSET S : ~(SumFunctionOnSet(f, s) <= SumFunctionOnSet(g, s))}
<1>1. ASSUME bad # {} PROVE FALSE
  <2>1. bad \in SUBSET (SUBSET S)
      OBVIOUS
  <2>2. PICK s \in bad : \A t \in bad : t \subseteq s => t = s
    <3> HIDE DEF bad
    <3>1. QED
        BY <1>1, <2>1, LeastSet
  <2>3. s \in SUBSET S /\ ~(SumFunctionOnSet(f, s) <= SumFunctionOnSet(g, s))
      OBVIOUS
  <2>4. CASE s = {}
      BY <2>3, <2>4, SumEmpty
  <2>5. ASSUME NEW x \in s PROVE FALSE
    <3>1. IsFiniteSet(s) /\ (\A i \in s : f[i] \in Int /\ g[i] \in Int /\ f[i] <= g[i])
        BY <2>3, FS_Subset
    <3>2. /\ SumFunctionOnSet(f, s \ {x}) \in Int /\ SumFunctionOnSet(f, s) = f[x] + SumFunctionOnSet(f, s \ {x})
          /\ SumFunctionOnSet(g, s \ {x}) \in Int /\ SumFunctionOnSet(g, s) = g[x] + SumFunctionOnSet(g, s \ {x})
        BY <2>5, <3>1, SumStep
    <3>3. SumFunctionOnSet(f, s \ {x}) <= SumFunctionOnSet(g, s \ {x})
        BY <2>2, <2>3, <2>5
    <3>4. f[x] \in Int /\ g[x] \in Int /\ f[x] <= g[x]
        BY <2>5, <3>1
    <3> HIDE DEF bad
    <3>5. QED
        BY <2>3, <3>2, <3>3, <3>4
  <2>6. QED
      BY <2>4, <2>5
<1>2. QED
    BY <1>1

\* What is the same for all adds up to as many times as there are.
LEMMA SumOfSame ==
    ASSUME NEW S, IsFiniteSet(S), NEW c \in Int, NEW f, \A i \in S : f[i] = c
    PROVE  SumFunctionOnSet(f, S) = c * Cardinality(S)
<1> DEFINE bad == {s \in SUBSET S : SumFunctionOnSet(f, s) # c * Cardinality(s)}
<1>1. ASSUME bad # {} PROVE FALSE
  <2>1. bad \in SUBSET (SUBSET S)
      OBVIOUS
  <2>2. PICK s \in bad : \A t \in bad : t \subseteq s => t = s
    <3> HIDE DEF bad
    <3>1. QED
        BY <1>1, <2>1, LeastSet
  <2>3. IsFiniteSet(s) /\ \A i \in s : f[i] \in Int /\ f[i] = c
      BY FS_Subset
  <2>4. s # {}
      BY SumEmpty, FS_EmptySet
  <2>5. PICK x : x \in s
      BY <2>4
  <2>6. PICK t : t = s \ {x}
      OBVIOUS
  <2>7. IsFiniteSet(t) /\ Cardinality(t) \in Nat /\ Cardinality(s) = Cardinality(t) + 1
    <3>1. IsFiniteSet(t) /\ Cardinality(t) = Cardinality(s) - 1
        BY <2>3, <2>5, <2>6, FS_RemoveElement
    <3>2. QED
        BY <2>3, <3>1, FS_CardinalityType
  <2>8. SumFunctionOnSet(f, s) = c + SumFunctionOnSet(f, t) /\ SumFunctionOnSet(f, t) \in Int
      BY <2>3, <2>5, <2>6, SumStep
  <2>9. SumFunctionOnSet(f, t) = c * Cardinality(t)
      BY <2>2, <2>5, <2>6
  <2>10. c * (Cardinality(t) + 1) = c * Cardinality(t) + c
      BY <2>7
  <2>11. QED
      BY <2>7, <2>8, <2>9, <2>10
<1>2. S \in SUBSET S
    OBVIOUS
<1>3. QED
    BY <1>1, <1>2

LEMMA SumOfOne ==
    ASSUME NEW f, NEW x, f[x] \in Int
    PROVE  SumFunctionOnSet(f, {x}) = f[x]
<1>1. IsFiniteSet({x}) /\ {x} \ {x} = {}
    BY FS_Singleton
<1>2. PICK T : T = {x}
    OBVIOUS
<1>3. SumFunctionOnSet(f, T) = f[x] + SumFunctionOnSet(f, T \ {x})
    BY <1>1, <1>2, SumStep
<1>4. QED
    BY <1>1, <1>2, <1>3, SumEmpty

\* A sum does not change with the names of what is summed.
LEMMA SumRenamed ==
    ASSUME NEW S, IsFiniteSet(S), NEW f, NEW g, NEW b, NEW T,
           T = {b[x] : x \in S}, \A x, y \in S : b[x] = b[y] => x = y,
           \A x \in S : f[x] \in Int /\ g[b[x]] = f[x]
    PROVE  /\ IsFiniteSet(T) /\ Cardinality(T) = Cardinality(S)
           /\ SumFunctionOnSet(g, T) = SumFunctionOnSet(f, S)
<1> DEFINE h == [x \in S |-> b[x]]
           e == [t \in T |-> SumFunctionOnSet(f, {x \in S : b[x] = t})]
<1>1. IsFiniteSet(T)
    BY ImageIsFinite
<1>2. ExistsBijection(S, T)
  <2>1. /\ h \in [S -> T]
        /\ \A x, y \in S : h[x] = h[y] => x = y
        /\ \A t \in T : \E x \in S : h[x] = t
      OBVIOUS
  <2> HIDE DEF h
  <2>2. h \in Bijection(S, T)
      BY <2>1, Fun_IsBij
  <2>3. QED
      BY <2>2 DEF ExistsBijection
<1>3. Cardinality(T) = Cardinality(S)
    BY <1>2, FS_Bijection
<1>4. SumFunctionOnSet(e, T) = SumFunctionOnSet(f, S)
  <2>1. \A x \in S : f[x] \in Int /\ b[x] \in T
      OBVIOUS
  <2>2. QED
      BY <1>1, <2>1, SumByKey
<1>5. ASSUME NEW t \in T PROVE e[t] = g[t] /\ g[t] \in Int
  <2>1. PICK x \in S : t = b[x]
      OBVIOUS
  <2>2. {y \in S : b[y] = t} = {x}
      BY <2>1
  <2>3. e[t] = SumFunctionOnSet(f, {x})
      BY <2>2
  <2> HIDE DEF e
  <2>4. QED
      BY <2>1, <2>3, SumOfOne
<1> HIDE DEF e
<1>6. SumFunctionOnSet(e, T) = SumFunctionOnSet(g, T)
    BY <1>1, <1>5, SumsAgree
<1>7. QED
    BY <1>1, <1>3, <1>4, <1>6

\* A part of some counts adds up to no more than the whole, and to none at the least.
LEMMA PartIsLess ==
    ASSUME NEW S, IsFiniteSet(S), NEW f, \A i \in S : f[i] \in Nat, NEW A \in SUBSET S
    PROVE  /\ SumFunctionOnSet(f, S) \in Nat
           /\ SumFunctionOnSet(f, A) <= SumFunctionOnSet(f, S)
<1>1. ASSUME NEW T \in SUBSET S PROVE SumFunctionOnSet(f, T) \in Nat
  <2> DEFINE zero == [i \in T |-> 0]
  <2>1. IsFiniteSet(T) /\ \A i \in T : zero[i] \in Int /\ zero[i] = 0 /\ f[i] \in Int /\ zero[i] <= f[i]
      BY FS_Subset
  <2> HIDE DEF zero
  <2>2. SumFunctionOnSet(zero, T) <= SumFunctionOnSet(f, T)
      BY <2>1, SumGrows
  <2>3. SumFunctionOnSet(zero, T) = 0
      BY <2>1, SumOfNothing
  <2>4. SumFunctionOnSet(f, T) \in Int
      BY <2>1, SumIsInt
  <2>5. QED
      BY <2>2, <2>3, <2>4
<1>2. S \in SUBSET S /\ S \ A \in SUBSET S /\ \A i \in S : f[i] \in Int
    OBVIOUS
<1>3. SumFunctionOnSet(f, S) = SumFunctionOnSet(f, A) + SumFunctionOnSet(f, S \ A)
    BY <1>2, SumSplits
<1>4. /\ SumFunctionOnSet(f, S) \in Nat /\ SumFunctionOnSet(f, A) \in Nat
      /\ SumFunctionOnSet(f, S \ A) \in Nat
    BY <1>1, <1>2
<1>5. QED
    BY <1>3, <1>4

-----------------------------------------------------------------------------
(* Ranks. *)

\* Of any two members one comes before the other.
Ordering(S, R) ==
    /\ R \subseteq S \X S
    /\ \A x \in S : <<x, x>> \notin R
    /\ \A x, y \in S : x # y => <<x, y>> \in R \/ <<y, x>> \in R
    /\ \A x, y, z \in S : <<x, y>> \in R /\ <<y, z>> \in R => <<x, z>> \in R
RankIn(S, R, x) == Cardinality({y \in S : <<y, x>> \in R})
Leaders(S, R, n) == {x \in S : RankIn(S, R, x) < n}

\* What comes before a member is less than all, and more than comes before an earlier one.
LEMMA RanksGrow ==
    ASSUME NEW S, IsFiniteSet(S), NEW R, Ordering(S, R)
    PROVE  /\ \A x \in S : RankIn(S, R, x) \in Nat /\ RankIn(S, R, x) < Cardinality(S)
           /\ \A x, y \in S : <<x, y>> \in R => RankIn(S, R, x) < RankIn(S, R, y)
<1> DEFINE Earlier(x) == {y \in S : <<y, x>> \in R}
<1>1. ASSUME NEW x \in S
      PROVE  /\ IsFiniteSet(Earlier(x)) /\ RankIn(S, R, x) = Cardinality(Earlier(x))
             /\ Cardinality(Earlier(x)) \in Nat
             /\ x \notin Earlier(x)
    BY FS_Subset, FS_CardinalityType DEF Ordering, RankIn
<1>2. ASSUME NEW A \in SUBSET S, NEW B \in SUBSET A, NEW x \in A, x \notin B PROVE Cardinality(B) < Cardinality(A)
  <2>1. IsFiniteSet(A) /\ IsFiniteSet(B) /\ A # B
      BY <1>2, FS_Subset
  <2>2. Cardinality(A) \in Nat /\ Cardinality(B) \in Nat
      BY <2>1, FS_CardinalityType
  <2>3. Cardinality(B) <= Cardinality(A) /\ Cardinality(A) # Cardinality(B)
      BY <2>1, FS_Subset
  <2>4. QED
      BY <2>2, <2>3
<1>3. ASSUME NEW x \in S PROVE RankIn(S, R, x) < Cardinality(S)
  <2>1. Earlier(x) \in SUBSET S /\ S \in SUBSET S
      OBVIOUS
  <2> HIDE DEF Earlier
  <2>2. QED
      BY <1>1, <1>2, <2>1
<1>4. ASSUME NEW x \in S, NEW y \in S, <<x, y>> \in R PROVE RankIn(S, R, x) < RankIn(S, R, y)
  <2>1. Earlier(x) \in SUBSET Earlier(y) /\ x \in Earlier(y) /\ Earlier(y) \in SUBSET S
      BY <1>4 DEF Ordering
  <2> HIDE DEF Earlier
  <2>2. Cardinality(Earlier(x)) < Cardinality(Earlier(y))
      BY <1>1, <1>2, <2>1
  <2>3. QED
      BY <1>1, <2>2
<1>5. QED
    BY <1>1, <1>3, <1>4

\* As many lead as are asked for, or all.
LEMMA LeadersCounted ==
    ASSUME NEW S, IsFiniteSet(S), NEW R, Ordering(S, R), NEW n \in Nat
    PROVE  Cardinality(Leaders(S, R, n)) = IF Cardinality(S) < n THEN Cardinality(S) ELSE n
<1> DEFINE N == Cardinality(S)
           T == {x \in S : RankIn(S, R, x) < n}
           rank == [x \in S |-> RankIn(S, R, x)]
           m == IF N < n THEN N ELSE n
           part == [x \in T |-> RankIn(S, R, x)]
<1>1. N \in Nat
    BY FS_CardinalityType
<1>2. \A k \in Nat : IsFiniteSet(0 .. (k - 1)) /\ Cardinality(0 .. (k - 1)) = k
  <2>1. TAKE k \in Nat
  <2>2. PICK l \in Int : l = k - 1
      OBVIOUS
  <2>3. IsFiniteSet(0 .. l) /\ Cardinality(0 .. l) = IF 0 > l THEN 0 ELSE l - 0 + 1
      BY FS_Interval, 0 \in Int
  <2>4. QED
      BY <2>2, <2>3
<1>3. \A x \in S : RankIn(S, R, x) \in 0 .. (N - 1)
    BY <1>1, RanksGrow
<1>4. ASSUME NEW x \in S, NEW y \in S, RankIn(S, R, x) = RankIn(S, R, y) PROVE x = y
  <2>1. RankIn(S, R, x) \in Nat /\ RankIn(S, R, y) \in Nat
      BY RanksGrow
  <2>2. ~(<<x, y>> \in R) /\ ~(<<y, x>> \in R)
    <3>1. <<x, y>> \in R => RankIn(S, R, x) < RankIn(S, R, y)
        BY RanksGrow
    <3>2. <<y, x>> \in R => RankIn(S, R, y) < RankIn(S, R, x)
        BY RanksGrow
    <3>3. QED
        BY <1>4, <2>1, <3>1, <3>2
  <2>3. QED
      BY <2>2 DEF Ordering
<1>5. rank \in Injection(S, 0 .. (N - 1))
  <2>1. rank \in [S -> 0 .. (N - 1)]
      BY <1>3
  <2>2. \A x, y \in S : rank[x] = rank[y] => x = y
      BY <1>4
  <2> HIDE DEF rank, N
  <2>3. QED
      BY <2>1, <2>2, Fun_IsInj
<1>6. rank \in Surjection(S, 0 .. (N - 1))
  <2> HIDE DEF rank
  <2>1. PICK I : I = 0 .. (N - 1) /\ IsFiniteSet(I) /\ Cardinality(I) = Cardinality(S)
      BY <1>1, <1>2
  <2>2. QED
      BY <1>5, <2>1, FS_Injection
<1>7. \A k \in 0 .. (N - 1) : \E x \in S : RankIn(S, R, x) = k
    BY <1>6 DEF Surjection
<1>8. m \in Nat /\ m <= N /\ m <= n
    BY <1>1
<1>9. part \in Bijection(T, 0 .. (m - 1))
  <2>1. part \in [T -> 0 .. (m - 1)]
      BY <1>1, <1>3
  <2>2. \A x, y \in T : part[x] = part[y] => x = y
      BY <1>4
  <2>3. \A k \in 0 .. (m - 1) : \E x \in T : part[x] = k
      BY <1>1, <1>7, <1>8
  <2> HIDE DEF part, T, m
  <2>4. QED
      BY <2>1, <2>2, <2>3, Fun_IsBij
<1>10. IsFiniteSet(T) /\ ExistsBijection(T, 0 .. (m - 1))
    BY <1>9, FS_Subset DEF ExistsBijection
<1>11. Cardinality(0 .. (m - 1)) = Cardinality(T)
    BY <1>10, FS_Bijection
<1>12. Cardinality(0 .. (m - 1)) = m /\ Leaders(S, R, n) = T
    BY <1>2, <1>8 DEF Leaders
<1> HIDE DEF T
<1>13. QED
    BY <1>11, <1>12

\* What is of the first numbers is finite.
LEMMA SubsetsCounted ==
    ASSUME NEW n \in Nat
    PROVE  \A S \in SUBSET (1 .. n) : IsFiniteSet(S) /\ Cardinality(S) \in Nat
<1>1. IsFiniteSet(1 .. n)
    BY FS_Interval
<1>2. QED
    BY <1>1, FS_Subset, FS_CardinalityType
=============================================================================
