---------------------------- MODULE OrdersProofs ----------------------------
(***************************************************************************)
(* Theorems about Orders for every stock, every basket, every number of    *)
(* requests and every budget of them.                                      *)
(*                                                                         *)
(* The sums of Orders are folds over finite sets.  What such a sum is is   *)
(* proved first, by taking a smallest set for which it would fail.         *)
(***************************************************************************)
EXTENDS Orders, FiniteSetTheorems, SequenceTheorems, WellFoundedInduction, NaturalsInduction, TLAPS

-----------------------------------------------------------------------------
(* Sums over finite sets.                                                  *)

\* The element a fold takes next.
First(s) == CHOOSE x \in s : TRUE

\* g[s] is the sum of w over s.
IsSum(g, w) ==
    /\ g = [s \in SUBSET DOMAIN w |-> g[s]]
    /\ \A s \in SUBSET DOMAIN w : g[s] = IF s = {} THEN 0 ELSE w[First(s)] + g[s \ {First(s)}]

Total(w) == CHOOSE n : \E g : IsSum(g, w) /\ n = g[DOMAIN w]

\* What holds of some natural number holds of a least one.
LEMMA LeastNat ==
    ASSUME NEW bad, bad \subseteq Nat, bad # {}
    PROVE  \E n \in bad : \A m \in bad : n <= m
<1> DEFINE R == {ss \in Nat \X Nat : ss[1] < ss[2]}
<1>1. IsWellFoundedOn(R, Nat)
  BY NatLessThanWellFounded DEF OpToRel
<1>2. PICK n \in bad : \A m \in bad : ~ (<<m, n>> \in R)
  BY <1>1, WFMin
<1>3. \A m \in Nat : n \in Nat /\ ~ (<<m, n>> \in R) => n <= m
  OBVIOUS
<1>4. \A m \in bad : n <= m
  BY <1>2, <1>3
<1>5. QED
  BY <1>4

\* A nonempty set has an element that the fold takes, and what is left is smaller.
LEMMA TakeOne ==
    ASSUME NEW s, IsFiniteSet(s), s # {}
    PROVE  /\ First(s) \in s
           /\ IsFiniteSet(s) /\ Cardinality(s) \in Nat /\ Cardinality(s) > 0
           /\ \A x \in s : IsFiniteSet(s \ {x}) /\ Cardinality(s \ {x}) = Cardinality(s) - 1
<1>1. First(s) \in s
  BY DEF First
<1>2. Cardinality(s) \in Nat /\ Cardinality(s) > 0
  BY FS_CardinalityType, FS_EmptySet
<1>3. QED
  BY <1>1, <1>2, FS_RemoveElement

LEMMA SumExists ==
    ASSUME NEW S, IsFiniteSet(S), NEW w \in [S -> Nat]
    PROVE  \E g : IsSum(g, w)
<1> DEFINE Upto(g, n) == \A s \in SUBSET S : Cardinality(s) <= n =>
                            g[s] = IF s = {} THEN 0 ELSE w[First(s)] + g[s \ {First(s)}]
           Has(n) == \E g \in [SUBSET S -> Nat] : Upto(g, n)
           bad == {n \in Nat : ~ Has(n)}
<1>0. \A s \in SUBSET S : IsFiniteSet(s) /\ Cardinality(s) \in Nat /\ Cardinality(s) <= Cardinality(S)
  BY FS_Subset, FS_CardinalityType
<1>1. Has(0)
  <2> DEFINE g == [s \in SUBSET S |-> 0]
  <2>1. \A s \in SUBSET S : Cardinality(s) <= 0 => s = {}
    BY <1>0, FS_EmptySet
  <2>2. g \in [SUBSET S -> Nat] /\ Upto(g, 0)
    BY <2>1
  <2>3. QED
    BY <2>2
<1>2. ASSUME NEW n \in Nat, Has(n) PROVE Has(n + 1)
  <2>1. PICK g \in [SUBSET S -> Nat] : Upto(g, n)
    BY <1>2
  <2> DEFINE step(s) == IF s = {} THEN 0 ELSE w[First(s)] + g[s \ {First(s)}]
             h == [s \in SUBSET S |-> step(s)]
  <2>2. ASSUME NEW s \in SUBSET S, s # {} PROVE First(s) \in S /\ s \ {First(s)} \in SUBSET S
    BY <2>2, <1>0, TakeOne
  <2>3. h \in [SUBSET S -> Nat]
    <3>1. \A s \in SUBSET S : step(s) \in Nat
      BY <2>2
    <3> HIDE DEF step
    <3>2. QED
      BY <3>1
  <2>4. ASSUME NEW s \in SUBSET S, s # {}, Cardinality(s) <= n + 1
        PROVE  h[s] = w[First(s)] + h[s \ {First(s)}]
    <3> DEFINE t == s \ {First(s)}
    <3>1. t \in SUBSET S /\ Cardinality(t) <= n
      BY <1>0, <1>2, <2>4, TakeOne
    <3>2. h[t] = step(t) /\ h[s] = step(s)
      BY <3>1
    <3>3. g[t] = step(t)
      BY <2>1, <3>1
    <3>4. step(s) = w[First(s)] + g[t]
      BY <2>4
    <3>5. QED
      BY <3>2, <3>3, <3>4
  <2>5. h[{}] = 0
    OBVIOUS
  <2> HIDE DEF h
  <2>6. Upto(h, n + 1)
    BY <2>4, <2>5
  <2>7. QED
    BY <2>3, <2>6
<1>3. Has(Cardinality(S))
  <2> HIDE DEF Has
  <2>0. Cardinality(S) \in Nat
    BY <1>0
  <2>1. CASE bad = {}
    BY <2>0, <2>1
  <2>2. CASE bad # {}
    <3>1. PICK n \in bad : \A m \in bad : n <= m
      BY <2>2, LeastNat
    <3>2. n \in Nat /\ n # 0 /\ ~ Has(n)
      BY <1>1
    <3>3. n - 1 \in Nat /\ (n - 1) + 1 = n /\ ~ (n <= n - 1)
      BY <3>2
    <3>4. Has(n - 1)
      BY <3>1, <3>3
    <3>5. QED
      BY <1>2, <3>2, <3>3, <3>4
  <2>3. QED
    BY <2>1, <2>2
<1>4. PICK g \in [SUBSET S -> Nat] : Upto(g, Cardinality(S))
  BY <1>3
<1>5. IsSum(g, w)
  BY <1>0, <1>4 DEF IsSum
<1>6. QED
  BY <1>5

LEMMA SumType ==
    ASSUME NEW S, IsFiniteSet(S), NEW w \in [S -> Nat], NEW g, IsSum(g, w)
    PROVE  g \in [SUBSET S -> Nat]
<1> DEFINE bad == {n \in Nat : \E s \in SUBSET S : Cardinality(s) = n /\ g[s] \notin Nat}
<1>0. \A s \in SUBSET S : IsFiniteSet(s) /\ Cardinality(s) \in Nat
  BY FS_Subset, FS_CardinalityType
<1>1. bad = {}
  <2> SUFFICES ASSUME bad # {} PROVE FALSE
    OBVIOUS
  <2>1. PICK n \in bad : \A m \in bad : n <= m
    BY LeastNat
  <2>2. PICK s \in SUBSET S : Cardinality(s) = n /\ g[s] \notin Nat
    BY <2>1
  <2>3. s # {} /\ g[s] = w[First(s)] + g[s \ {First(s)}]
    <3>1. g[s] = IF s = {} THEN 0 ELSE w[First(s)] + g[s \ {First(s)}]
      BY <2>2 DEF IsSum
    <3>2. s # {}
      BY <2>2, <3>1
    <3>3. QED
      BY <3>1, <3>2
  <2> DEFINE t == s \ {First(s)}
  <2>4. First(s) \in S /\ t \in SUBSET S /\ Cardinality(t) \in Nat /\ Cardinality(t) < n
    BY <1>0, <2>2, <2>3, TakeOne
  <2>5. Cardinality(t) \notin bad
    BY <2>1, <2>4
  <2>6. g[t] \in Nat
    BY <2>4, <2>5
  <2>7. QED
    BY <2>2, <2>3, <2>4, <2>6
<1>2. \A s \in SUBSET S : g[s] \in Nat
  BY <1>0, <1>1
<1>3. g = [s \in SUBSET S |-> g[s]]
  BY DEF IsSum
<1>4. QED
  BY <1>2, <1>3

\* Any element may be taken first.
LEMMA SumTake ==
    ASSUME NEW S, IsFiniteSet(S), NEW w \in [S -> Nat], NEW g, IsSum(g, w),
           NEW s \in SUBSET S, NEW a \in s
    PROVE  g[s] = w[a] + g[s \ {a}]
<1> DEFINE Fine(u) == \A x \in u : g[u] = w[x] + g[u \ {x}]
           bad == {n \in Nat : \E u \in SUBSET S : Cardinality(u) = n /\ ~ Fine(u)}
<1>0. \A u \in SUBSET S : IsFiniteSet(u) /\ Cardinality(u) \in Nat
  BY FS_Subset, FS_CardinalityType
<1>00. g \in [SUBSET S -> Nat]
  BY SumType
<1>1. bad = {}
  <2> SUFFICES ASSUME bad # {} PROVE FALSE
    OBVIOUS
  <2>1. PICK n \in bad : \A m \in bad : n <= m
    BY LeastNat
  <2>2. PICK u \in SUBSET S : Cardinality(u) = n /\ ~ Fine(u)
    BY <2>1
  <2>3. PICK x \in u : g[u] # w[x] + g[u \ {x}]
    BY <2>2
  <2> DEFINE c == First(u)
  <2>4. g[u] = w[c] + g[u \ {c}] /\ c \in u
    BY <1>0, <2>3, TakeOne DEF IsSum
  <2>5. c # x
    BY <2>3, <2>4
  <2>6. /\ u \ {c} \in SUBSET S /\ Cardinality(u \ {c}) \in Nat /\ Cardinality(u \ {c}) < n
        /\ u \ {x} \in SUBSET S /\ Cardinality(u \ {x}) \in Nat /\ Cardinality(u \ {x}) < n
    BY <1>0, <2>2, <2>3, <2>4, TakeOne
  <2>7. Fine(u \ {c}) /\ Fine(u \ {x})
    BY <2>1, <2>6
  <2> HIDE DEF c
  <2>8. g[u \ {c}] = w[x] + g[(u \ {c}) \ {x}] /\ g[u \ {x}] = w[c] + g[(u \ {x}) \ {c}]
    BY <2>3, <2>4, <2>5, <2>7
  <2>9. (u \ {c}) \ {x} = (u \ {x}) \ {c} /\ (u \ {x}) \ {c} \in SUBSET S
    OBVIOUS
  <2>10. w[x] \in Nat /\ w[c] \in Nat /\ g[(u \ {x}) \ {c}] \in Nat
    BY <1>00, <2>2, <2>3, <2>4, <2>9
  <2>11. g[u \ {c}] = w[x] + g[(u \ {x}) \ {c}]
    BY <2>8, <2>9
  <2>12. ASSUME NEW p \in Nat, NEW q \in Nat, NEW r \in Nat
         PROVE  q + (p + r) = p + (q + r)
    BY <2>12
  <2>13. w[c] + (w[x] + g[(u \ {x}) \ {c}]) = w[x] + (w[c] + g[(u \ {x}) \ {c}])
    BY <2>10, <2>12
  <2>14. g[u] = w[x] + g[u \ {x}]
    BY <2>4, <2>8, <2>11, <2>13
  <2>15. QED
    BY <2>3, <2>14
<1>2. Fine(s)
  BY <1>0, <1>1
<1>3. QED
  BY <1>2

\* A part of the set has the sum the whole gives it.
LEMMA SumPart ==
    ASSUME NEW S, IsFiniteSet(S), NEW w \in [S -> Nat], NEW g, IsSum(g, w),
           NEW T \in SUBSET S, NEW v \in [T -> Nat], \A x \in T : v[x] = w[x], NEW h, IsSum(h, v)
    PROVE  \A s \in SUBSET T : h[s] = g[s]
<1> DEFINE bad == {n \in Nat : \E u \in SUBSET T : Cardinality(u) = n /\ h[u] # g[u]}
<1>0. \A u \in SUBSET T : u \in SUBSET S /\ IsFiniteSet(u) /\ Cardinality(u) \in Nat
  BY FS_Subset, FS_CardinalityType
<1>1. bad = {}
  <2> SUFFICES ASSUME bad # {} PROVE FALSE
    OBVIOUS
  <2>1. PICK n \in bad : \A m \in bad : n <= m
    BY LeastNat
  <2>2. PICK u \in SUBSET T : Cardinality(u) = n /\ h[u] # g[u]
    BY <2>1
  <2>3. u # {}
    BY <1>0, <2>2 DEF IsSum
  <2> DEFINE c == First(u)
  <2>4. h[u] = v[c] + h[u \ {c}] /\ g[u] = w[c] + g[u \ {c}]
    BY <1>0, <2>2, <2>3 DEF IsSum
  <2>5. c \in u /\ u \ {c} \in SUBSET T /\ Cardinality(u \ {c}) \in Nat /\ Cardinality(u \ {c}) < n
    BY <1>0, <2>2, <2>3, TakeOne
  <2>6. h[u \ {c}] = g[u \ {c}]
    BY <2>1, <2>5
  <2>7. QED
    BY <2>2, <2>4, <2>5, <2>6
<1>2. QED
  BY <1>0, <1>1

LEMMA TotalIs ==
    ASSUME NEW S, IsFiniteSet(S), NEW w \in [S -> Nat], NEW g, IsSum(g, w)
    PROVE  Total(w) = g[S]
<1>1. DOMAIN w = S /\ S \in SUBSET S
  OBVIOUS
<1>2. \A h : IsSum(h, w) => h[S] = g[S]
  BY <1>1, SumPart
<1>3. \E n : \E h : IsSum(h, w) /\ n = h[S]
  OBVIOUS
<1>4. \E h : IsSum(h, w) /\ Total(w) = h[S]
  BY <1>1, <1>3 DEF Total
<1>5. QED
  BY <1>2, <1>4

LEMMA TotalType ==
    ASSUME NEW S, IsFiniteSet(S), NEW w \in [S -> Nat]
    PROVE  Total(w) \in Nat /\ (S = {} => Total(w) = 0)
<1>1. PICK g : IsSum(g, w)
  BY SumExists
<1>2. g \in [SUBSET S -> Nat] /\ Total(w) = g[S]
  BY <1>1, SumType, TotalIs
<1>3. S = {} => g[S] = 0
  BY <1>1 DEF IsSum
<1>4. QED
  BY <1>2, <1>3

\* The weights without a's.
Without(w, a) == [x \in DOMAIN w \ {a} |-> w[x]]

\* A sum with one more term.
LEMMA TotalTake ==
    ASSUME NEW S, IsFiniteSet(S), NEW w \in [S -> Nat], NEW a \in S
    PROVE  Total(w) = w[a] + Total(Without(w, a))
<1> DEFINE T == S \ {a}
           v == [x \in T |-> w[x]]
<1>0. IsFiniteSet(T) /\ v \in [T -> Nat] /\ T \in SUBSET S /\ \A x \in T : v[x] = w[x]
  BY FS_RemoveElement
<1>1. PICK g : IsSum(g, w)
  BY SumExists
<1> HIDE DEF T, v
<1>2. PICK h : IsSum(h, v)
  BY <1>0, SumExists
<1>3. h[T] = g[T]
  BY <1>0, <1>1, <1>2, SumPart
<1>4. g[S] = w[a] + g[T]
  BY <1>1, SumTake DEF T
<1>5. Total(w) = g[S] /\ Total(v) = h[T]
  BY <1>0, <1>1, <1>2, TotalIs
<1>6. QED
  BY <1>3, <1>4, <1>5 DEF T, v, Without

-----------------------------------------------------------------------------
(* The units of lines and of orders.                                       *)

Of(lines, r) == {l \in DOMAIN lines : lines[l].row = r}

\* UnitsOf for the orders of any table.
UnitsIn(table, os, r) == MapThenSumSet(LAMBDA o : Units(table[o].lines, r), os)

\* Lines as a sum wants them.
LEMMA LinesFine ==
    ASSUME NEW lines \in Seq(LineRec)
    PROVE  IsFiniteSet(DOMAIN lines) /\ \A l \in DOMAIN lines : lines[l] \in LineRec /\ lines[l].qty \in Nat
<1>1. DOMAIN lines = 1..Len(lines) /\ Len(lines) \in Nat /\ \A l \in DOMAIN lines : lines[l] \in LineRec
  BY LenProperties, ElementOfSeq
<1>2. QED
  BY <1>1, FS_Interval DEF LineRec

\* The fold the library defines is the sum above.
LEMMA UnitsTotal ==
    ASSUME NEW lines, IsFiniteSet(DOMAIN lines), \A l \in DOMAIN lines : lines[l].qty \in Nat, NEW r
    PROVE  /\ IsFiniteSet(Of(lines, r))
           /\ [l \in Of(lines, r) |-> lines[l].qty] \in [Of(lines, r) -> Nat]
           /\ Units(lines, r) = Total([l \in Of(lines, r) |-> lines[l].qty])
<1> DEFINE D == {l \in DOMAIN lines : lines[l].row = r}
           w == [l \in D |-> lines[l].qty]
           body(g) == [s \in SUBSET D |-> IF s = {} THEN 0
                                          ELSE lines[CHOOSE x \in s : TRUE].qty + g[s \ {CHOOSE x \in s : TRUE}]]
           iter == CHOOSE g : g = body(g)
<1>1. Units(lines, r) = iter[D]
  BY DEF Units, MapThenSumSet, MapThenFoldSet
<1>2. IsFiniteSet(D)
  BY FS_Subset
<1>3. w \in [D -> Nat]
  OBVIOUS
<1>4. \A s \in SUBSET D : s # {} => w[CHOOSE x \in s : TRUE] = lines[CHOOSE x \in s : TRUE].qty
  OBVIOUS
<1>5. ASSUME NEW g, IsSum(g, w) PROVE g = body(g)
  <2>1. DOMAIN w = D /\ g = [s \in SUBSET D |-> g[s]]
    BY <1>5 DEF IsSum
  <2>2. \A s \in SUBSET D : g[s] = IF s = {} THEN 0
                                  ELSE lines[CHOOSE x \in s : TRUE].qty + g[s \ {CHOOSE x \in s : TRUE}]
    BY <1>4, <1>5, <2>1 DEF IsSum, First
  <2> HIDE DEF w, D
  <2>3. QED
    BY <2>1, <2>2
<1>6. ASSUME NEW g, g = body(g) PROVE IsSum(g, w)
  <2>1. DOMAIN w = D /\ g = [s \in SUBSET D |-> g[s]]
    BY <1>6
  <2>2. \A s \in SUBSET D : g[s] = IF s = {} THEN 0
                                  ELSE lines[CHOOSE x \in s : TRUE].qty + g[s \ {CHOOSE x \in s : TRUE}]
    BY <1>6
  <2>3. \A s \in SUBSET D : g[s] = IF s = {} THEN 0 ELSE w[First(s)] + g[s \ {First(s)}]
    BY <1>4, <2>2 DEF First
  <2> HIDE DEF w, D
  <2>4. QED
    BY <2>1, <2>3 DEF IsSum
<1>7. PICK g : IsSum(g, w)
  BY <1>2, <1>3, SumExists
<1> HIDE DEF body
<1>8. \E h : h = body(h)
  BY <1>5, <1>7
<1>9. iter = body(iter)
  BY <1>8
<1>10. IsSum(iter, w)
  BY <1>6, <1>9
<1> HIDE DEF D, iter
<1>11. Total(w) = iter[D]
  BY <1>2, <1>3, <1>10, TotalIs
<1>12. QED
  BY <1>1, <1>2, <1>3, <1>11 DEF Of, D

\* Lines that name the same rows and quantities.
SameLines(p, q) ==
    /\ DOMAIN p = DOMAIN q
    /\ \A l \in DOMAIN p : p[l].row = q[l].row /\ p[l].qty = q[l].qty

LEMMA UnitsSame ==
    ASSUME NEW p \in Seq(LineRec), NEW q \in Seq(LineRec), SameLines(p, q), NEW r
    PROVE  Units(p, r) = Units(q, r)
<1>1. Of(p, r) = Of(q, r)
  BY DEF SameLines, Of
<1>2. [l \in Of(p, r) |-> p[l].qty] = [l \in Of(q, r) |-> q[l].qty]
  BY <1>1 DEF SameLines, Of
<1>3. QED
  BY <1>2, UnitsTotal, LinesFine

LEMMA UnitsNat ==
    ASSUME NEW p, IsFiniteSet(DOMAIN p), \A l \in DOMAIN p : p[l].qty \in Nat, NEW r
    PROVE  Units(p, r) \in Nat /\ ((\A l \in DOMAIN p : p[l].row # r) => Units(p, r) = 0)
<1>1. (\A l \in DOMAIN p : p[l].row # r) => Of(p, r) = {}
  BY DEF Of
<1> DEFINE w == [l \in Of(p, r) |-> p[l].qty]
<1>2. IsFiniteSet(Of(p, r)) /\ w \in [Of(p, r) -> Nat] /\ Units(p, r) = Total(w)
  BY UnitsTotal
<1> HIDE DEF w
<1>3. QED
  BY <1>1, <1>2, TotalType

LEMMA UnitsType ==
    ASSUME NEW p \in Seq(LineRec), NEW r
    PROVE  Units(p, r) \in Nat /\ ((\A l \in DOMAIN p : p[l].row # r) => Units(p, r) = 0)
BY LinesFine, UnitsNat

\* The units each of these orders asks for.
UnitsEach(table, os, r) == [o \in os |-> Units(table[o].lines, r)]

LEMMA UnitsInTotal ==
    ASSUME NEW table \in Seq(OrderRec), NEW os, os \subseteq DOMAIN table, NEW r
    PROVE  /\ IsFiniteSet(os)
           /\ UnitsEach(table, os, r) \in [os -> Nat]
           /\ UnitsIn(table, os, r) = Total(UnitsEach(table, os, r))
<1> DEFINE u(o) == Units(table[o].lines, r)
           w == [o \in os |-> u(o)]
           body(g) == [s \in SUBSET os |-> IF s = {} THEN 0
                                           ELSE Units(table[CHOOSE x \in s : TRUE].lines, r) + g[s \ {CHOOSE x \in s : TRUE}]]
           iter == CHOOSE g : g = body(g)
<1>1. UnitsIn(table, os, r) = iter[os]
  BY DEF UnitsIn, MapThenSumSet, MapThenFoldSet
<1>2. IsFiniteSet(os)
  <2>1. DOMAIN table = 1..Len(table) /\ Len(table) \in Nat
    BY LenProperties
  <2>2. IsFiniteSet(1..Len(table))
    BY <2>1, FS_Interval
  <2>3. QED
    BY <2>1, <2>2, FS_Subset
<1>3. w \in [os -> Nat]
  <2>1. \A o \in os : table[o] \in OrderRec
    BY LenProperties, ElementOfSeq
  <2>2. \A o \in os : table[o].lines \in Seq(LineRec)
    BY <2>1 DEF OrderRec
  <2>3. \A o \in os : u(o) \in Nat
    BY <2>2, UnitsType
  <2> HIDE DEF u
  <2>4. QED
    BY <2>3
<1>4. \A s \in SUBSET os : s # {} => w[CHOOSE x \in s : TRUE] = Units(table[CHOOSE x \in s : TRUE].lines, r)
  OBVIOUS
<1>5. ASSUME NEW g, IsSum(g, w) PROVE g = body(g)
  <2>1. DOMAIN w = os /\ g = [s \in SUBSET os |-> g[s]]
    BY <1>5 DEF IsSum
  <2>2. \A s \in SUBSET os : g[s] = IF s = {} THEN 0
                                   ELSE Units(table[CHOOSE x \in s : TRUE].lines, r) + g[s \ {CHOOSE x \in s : TRUE}]
    BY <1>4, <1>5, <2>1 DEF IsSum, First
  <2> HIDE DEF w
  <2>3. QED
    BY <2>1, <2>2
<1>6. ASSUME NEW g, g = body(g) PROVE IsSum(g, w)
  <2>1. DOMAIN w = os /\ g = [s \in SUBSET os |-> g[s]]
    BY <1>6
  <2>2. \A s \in SUBSET os : g[s] = IF s = {} THEN 0
                                   ELSE Units(table[CHOOSE x \in s : TRUE].lines, r) + g[s \ {CHOOSE x \in s : TRUE}]
    BY <1>6
  <2>3. \A s \in SUBSET os : g[s] = IF s = {} THEN 0 ELSE w[First(s)] + g[s \ {First(s)}]
    BY <1>4, <2>2 DEF First
  <2> HIDE DEF w
  <2>4. QED
    BY <2>1, <2>3 DEF IsSum
<1>7. PICK g : IsSum(g, w)
  BY <1>2, <1>3, SumExists
<1> HIDE DEF body
<1>8. \E h : h = body(h)
  BY <1>5, <1>7
<1>9. iter = body(iter)
  BY <1>8
<1>10. IsSum(iter, w)
  BY <1>6, <1>9
<1> HIDE DEF iter
<1>11. Total(w) = iter[os]
  BY <1>2, <1>3, <1>10, TotalIs
<1>12. QED
  BY <1>1, <1>2, <1>3, <1>11 DEF UnitsEach

LEMMA UnitsInType ==
    ASSUME NEW table \in Seq(OrderRec), NEW os, os \subseteq DOMAIN table, NEW r
    PROVE  UnitsIn(table, os, r) \in Nat
<1>1. IsFiniteSet(os) /\ UnitsEach(table, os, r) \in [os -> Nat] /\ UnitsIn(table, os, r) = Total(UnitsEach(table, os, r))
  BY UnitsInTotal
<1>2. QED
  BY <1>1, TotalType

\* The units of the same orders, whatever else the table holds.
LEMMA UnitsInSame ==
    ASSUME NEW t \in Seq(OrderRec), NEW u \in Seq(OrderRec), NEW r,
           NEW os, os \subseteq DOMAIN t, os \subseteq DOMAIN u,
           \A o \in os : Units(t[o].lines, r) = Units(u[o].lines, r)
    PROVE  UnitsIn(t, os, r) = UnitsIn(u, os, r)
<1>1. UnitsEach(t, os, r) = UnitsEach(u, os, r)
  BY DEF UnitsEach
<1>2. UnitsIn(t, os, r) = Total(UnitsEach(t, os, r))
  BY UnitsInTotal
<1>3. UnitsIn(u, os, r) = Total(UnitsEach(u, os, r))
  BY UnitsInTotal
<1>4. QED
  BY <1>1, <1>2, <1>3

\* One more order.
LEMMA UnitsInAdd ==
    ASSUME NEW t \in Seq(OrderRec), NEW os, os \subseteq DOMAIN t, NEW o \in DOMAIN t, o \notin os, NEW r
    PROVE  UnitsIn(t, os \cup {o}, r) = Units(t[o].lines, r) + UnitsIn(t, os, r)
<1> DEFINE all == os \cup {o}
           w == UnitsEach(t, all, r)
<1>1. all \subseteq DOMAIN t /\ all \ {o} = os /\ o \in all
  OBVIOUS
<1>2. IsFiniteSet(all) /\ w \in [all -> Nat] /\ UnitsIn(t, all, r) = Total(w)
  BY <1>1, UnitsInTotal
<1>3. Without(w, o) = UnitsEach(t, os, r) /\ w[o] = Units(t[o].lines, r)
  BY DEF UnitsEach, Without
<1> HIDE DEF w, all
<1>4. Total(w) = w[o] + Total(Without(w, o))
  BY <1>1, <1>2, TotalTake
<1>5. UnitsIn(t, os, r) = Total(UnitsEach(t, os, r))
  BY UnitsInTotal
<1>6. QED
  BY <1>1, <1>2, <1>3, <1>4, <1>5 DEF all

-----------------------------------------------------------------------------
(* Type correctness.                                                       *)

StockRec == [qty : Nat, status : {"listed", "in_stock", "sold"}]

TypeOK ==
    /\ inv \in [Rows -> StockRec]
    /\ orders \in Seq(OrderRec)
    /\ listing \in [Rows -> [live : BOOLEAN, qty : Nat]]
    /\ shelf \in [Rows -> Nat]
    /\ ebay \in [Refs -> {"none", "open", "shipped"}]
    /\ asked \in [Kinds -> Nat]
    /\ sess \in [Sessions -> Locals]

OnOrder == {"pickItem", "pickCount", "pickStatus", "shipLines", "shipTx", "after"}
Syncing == {"syncRead", "syncLive", "syncPush", "syncSave", "syncEnd"}

\* What a request has in hand is there.
LocalOK(r) ==
    /\ r.pc \in OnOrder => r.o \in Ids
    /\ r.pc = "pickItem" /\ Exists(r.o) => r.l \in DOMAIN orders[r.o].lines
    /\ r.pc \in Syncing => r.lines # <<>>

TypeInv == TypeOK /\ \A s \in Sessions : LocalOK(sess[s])

LEMMA OrdersTable ==
    ASSUME NEW q \in Seq(OrderRec)
    PROVE  /\ DOMAIN q = 1..Len(q) /\ Len(q) \in Nat
           /\ \A o \in 1..Len(q) : q[o] \in OrderRec /\ q[o].lines \in Seq(LineRec)
<1>1. DOMAIN q = 1..Len(q) /\ Len(q) \in Nat
  BY LenProperties
<1>2. \A o \in 1..Len(q) : q[o] \in OrderRec
  BY ElementOfSeq
<1>3. \A x \in OrderRec : x.lines \in Seq(LineRec)
  BY DEF OrderRec
<1>4. QED
  BY <1>1, <1>2, <1>3

LEMMA IdsAre == TypeOK => /\ Ids = DOMAIN orders /\ Len(orders) \in Nat /\ Ids = 1..Len(orders)
                          /\ \A o \in Ids : orders[o] \in OrderRec /\ orders[o].lines \in Seq(LineRec)
BY OrdersTable DEF TypeOK, Ids

LEMMA IdleType == Idle \in Locals /\ Idle.pc = "idle"
BY EmptySeq DEF Idle, Locals

LEMMA TypeInit == Init => TypeInv
<1> SUFFICES ASSUME Init PROVE TypeInv
  OBVIOUS
<1>1. orders \in Seq(OrderRec)
  BY EmptySeq DEF Init
<1>2. TypeOK
  BY <1>1, IdleType, StockAssumption DEF Init, TypeOK, StockRec
<1>3. QED
  BY <1>2, IdleType DEF Init, TypeInv, LocalOK, OnOrder, Syncing

\* A table after a row is added.
LEMMA AddRow ==
    ASSUME NEW S, NEW q \in Seq(S), NEW e \in S
    PROVE  /\ Append(q, e) \in Seq(S)
           /\ Len(Append(q, e)) = Len(q) + 1
           /\ \A i \in 1..Len(q) : Append(q, e)[i] = q[i]
           /\ Append(q, e)[Len(q) + 1] = e
BY AppendProperties

\* A sequence rewritten element by element.
LEMMA RewriteSeq ==
    ASSUME NEW S, NEW T, NEW q \in Seq(S), NEW r \in [DOMAIN q -> T]
    PROVE  r \in Seq(T) /\ Len(r) = Len(q) /\ DOMAIN r = DOMAIN q
<1>1. Len(q) \in Nat /\ DOMAIN q = 1..Len(q)
  BY LenProperties
<1>2. r \in [1..Len(q) -> T]
  BY <1>1
<1>3. r \in Seq(T)
  BY <1>1, <1>2, SeqDef
<1>4. DOMAIN r = 1..Len(r) /\ Len(r) \in Nat
  BY <1>3, LenProperties
<1>5. QED
  BY <1>1, <1>2, <1>3, <1>4

Baskets2 == Baskets \cup {BasketOf[f] : f \in Refs}

\* A new order waits, with the lines of its basket.
LEMMA NewOrder ==
    ASSUME TypeOK, NEW b \in Baskets2, NEW ref \in Refs \cup {NoRef}, CreateOrder(ref, b)
    PROVE  \E rec \in OrderRec : orders' = Append(orders, rec) /\ rec.ref = ref /\ rec.status = "pending"
<1>1. b \in Seq((DOMAIN RowsOf) \X (Nat \ {0})) /\ \A k \in DOMAIN RowsOf : RowsOf[k] \subseteq Rows
  BY StockAssumption DEF Baskets2
<1>2. \A l \in DOMAIN b : b[l][1] \in DOMAIN RowsOf /\ b[l][2] \in Nat \ {0}
  BY <1>1, LenProperties, ElementOfSeq
<1>3. PICK rows \in [DOMAIN b -> Rows \cup {NoRow}] :
         orders' = Append(orders,
               [ref |-> ref, status |-> "pending",
                lines |-> [l \in DOMAIN b |-> [row |-> rows[l], qty |-> b[l][2], picked |-> FALSE]]])
  BY DEF CreateOrder
<1> DEFINE lines == [l \in DOMAIN b |-> [row |-> rows[l], qty |-> b[l][2], picked |-> FALSE]]
           rec == [ref |-> ref, status |-> "pending", lines |-> lines]
<1>4. lines \in [DOMAIN b -> LineRec]
  BY <1>2 DEF LineRec
<1>5. orders' = Append(orders, rec)
  BY <1>3
<1> HIDE DEF lines
<1>6. lines \in Seq(LineRec)
  BY <1>1, <1>4, RewriteSeq
<1>7. rec \in OrderRec /\ rec.ref = ref /\ rec.status = "pending"
  BY <1>6 DEF OrderRec, Statuses
<1>8. QED
  BY <1>5, <1>7

\* The table of orders is written by these.
LEMMA OrdersWriters ==
    ASSUME [Next]_vars, orders' # orders
    PROVE  \E s \in Sessions :
              \/ \E b \in Baskets : Place(s, b)
              \/ FetchOrder(s) \/ PickItem(s) \/ PickStatus(s) \/ ShipTx(s)
              \/ \E o \in Ids : Delete(s, o)
<1>1. ASSUME NEW s \in Sessions, Placing(s)
      PROVE  (\E b \in Baskets : Place(s, b)) \/ FetchOrder(s) \/ \E o \in Ids : Delete(s, o)
  BY <1>1 DEF Placing, FetchStart, FetchSeen, FetchDone
<1>2. ASSUME NEW s \in Sessions, Picking(s) PROVE PickItem(s) \/ PickStatus(s)
  BY <1>2 DEF Picking, PickStart, PickCount
<1>3. ASSUME NEW s \in Sessions, Shipping(s) PROVE ShipTx(s)
  BY <1>3 DEF Shipping, ShipStart, ShipLines, AfterEbay, AfterOther, SyncSkip, SyncRead, SyncLive, SyncPush,
              SyncSave, SyncEnd, Mark
<1>4. ~ (\E s \in Sessions : Die(s)) /\ ~ (\E f \in Refs : Buy(f)) /\ ~ UNCHANGED vars
  BY DEF Die, Buy, vars
<1>5. QED
  BY <1>1, <1>2, <1>3, <1>4 DEF Next

\* What a step may do to an order.
Rewritten(o) ==
    \/ orders'[o] = orders[o]
    \/ \E s \in Sessions : /\ PickItem(s) /\ sess[s].o = o /\ Exists(o)
                           /\ orders'[o].status = orders[o].status
                           /\ SameLines(orders'[o].lines, orders[o].lines)
    \/ \E s \in Sessions : /\ PickStatus(s) /\ sess[s].o = o /\ Exists(o)
                           /\ orders'[o].status \in {"picked", "pending"}
                           /\ orders'[o].lines = orders[o].lines
    \/ \E s \in Sessions : /\ ShipTx(s) /\ sess[s].o = o /\ Exists(o)
                           /\ orders'[o].status = "shipped"
                           /\ SameLines(orders'[o].lines, orders[o].lines)
    \/ \E s \in Sessions : /\ Delete(s, o) /\ Exists(o) /\ orders[o].status # "shipped"
                           /\ orders'[o].status = "gone" /\ orders'[o].lines = <<>>

\* An order of the table keeps its id and what it is an import of; a new one waits at the end.
LEMMA OrderStep ==
    ASSUME TypeInv, [Next]_vars
    PROVE  /\ orders' \in Seq(OrderRec)
           /\ \A o \in Ids : o \in Ids' /\ orders'[o].ref = orders[o].ref /\ Rewritten(o)
           /\ \A o \in Ids' \ Ids :
                 /\ o = Len(orders) + 1 /\ orders'[o].status = "pending"
                 /\ \E s \in Sessions :
                       \/ FetchOrder(s) /\ orders'[o].ref \in sess[s].refs /\ sess'[s].refs = sess[s].refs \ {orders'[o].ref}
                       \/ orders'[o].ref = NoRef /\ \E b \in Baskets : Place(s, b)
<1> DEFINE Kept == /\ orders' \in Seq(OrderRec) /\ Len(orders') = Len(orders)
                   /\ \A o \in Ids : orders'[o].ref = orders[o].ref /\ Rewritten(o)
           Added(ref) == \E rec \in OrderRec : orders' = Append(orders, rec) /\ rec.ref = ref /\ rec.status = "pending"
<1>0. /\ TypeOK /\ orders \in Seq(OrderRec) /\ Ids = 1..Len(orders) /\ Len(orders) \in Nat
      /\ \A o \in Ids : orders[o] \in OrderRec /\ orders[o].lines \in Seq(LineRec)
  BY IdsAre DEF TypeInv, TypeOK
<1>1. ASSUME Kept
      PROVE  /\ orders' \in Seq(OrderRec) /\ Ids' = Ids
             /\ \A o \in Ids : orders'[o].ref = orders[o].ref /\ Rewritten(o)
  BY <1>1 DEF Ids
<1>2. ASSUME NEW ref, Added(ref)
      PROVE  /\ orders' \in Seq(OrderRec)
             /\ \A o \in Ids : o \in Ids' /\ orders'[o] = orders[o]
             /\ \A o \in Ids' \ Ids : o = Len(orders) + 1 /\ orders'[o].status = "pending" /\ orders'[o].ref = ref
  <2>1. PICK rec \in OrderRec : orders' = Append(orders, rec) /\ rec.ref = ref /\ rec.status = "pending"
    BY <1>2
  <2>2. /\ orders' \in Seq(OrderRec) /\ Len(orders') = Len(orders) + 1 /\ orders'[Len(orders) + 1] = rec
        /\ \A o \in 1..Len(orders) : orders'[o] = orders[o]
    BY <1>0, <2>1, AddRow
  <2>3. Ids' = 1..(Len(orders) + 1)
    BY <2>2 DEF Ids
  <2>4. QED
    BY <1>0, <2>1, <2>2, <2>3
<1>3. CASE orders' = orders
  BY <1>0, <1>3 DEF Ids, Rewritten
<1>4. ASSUME NEW o \in Ids, NEW e \in OrderRec, orders' = [orders EXCEPT ![o] = e],
             e.ref = orders[o].ref, orders'[o] = e => Rewritten(o)
      PROVE  Kept
  <2>1. orders' \in Seq(OrderRec) /\ Len(orders') = Len(orders)
        /\ \A j \in Ids : orders'[j] = IF j = o THEN e ELSE orders[j]
    BY <1>0, <1>4, ExceptSeq
  <2>2. QED
    BY <1>4, <2>1 DEF Rewritten
<1>5. ASSUME NEW s \in Sessions, PickItem(s), orders' # orders PROVE Kept
  <2> DEFINE o == sess[s].o
             l == sess[s].l
             v == sess[s].val
             ln == [orders[o].lines[l] EXCEPT !.picked = v]
             ls == [orders[o].lines EXCEPT ![l] = ln]
             e == [orders[o] EXCEPT !.lines = ls]
  <2>1. Exists(o) /\ o \in Ids /\ orders' = [orders EXCEPT ![o].lines[l].picked = v]
    BY <1>5 DEF PickItem, Exists
  <2>2. orders' = [orders EXCEPT ![o] = e]
    BY <2>1
  <2>3. l \in DOMAIN orders[o].lines /\ v \in BOOLEAN
    BY <1>0, <1>5, <2>1 DEF PickItem, TypeInv, TypeOK, LocalOK, Locals
  <2>4. orders[o].lines[l] \in LineRec /\ orders[o].lines \in Seq(LineRec)
    BY <1>0, <2>1, <2>3, LinesFine
  <2>5. ln \in LineRec /\ ln.row = orders[o].lines[l].row /\ ln.qty = orders[o].lines[l].qty
    BY <2>3, <2>4 DEF LineRec
  <2> HIDE DEF ln
  <2>6. ls \in Seq(LineRec) /\ SameLines(ls, orders[o].lines)
    <3>1. ls \in [DOMAIN orders[o].lines -> LineRec] /\ DOMAIN ls = DOMAIN orders[o].lines
      BY <2>3, <2>4, <2>5, LinesFine
    <3>2. ls \in Seq(LineRec)
      BY <2>4, <3>1, RewriteSeq
    <3>3. \A k \in DOMAIN ls : ls[k] = IF k = l THEN ln ELSE orders[o].lines[k]
      BY <3>1
    <3> HIDE DEF ls
    <3>4. QED
      BY <2>5, <3>1, <3>2, <3>3 DEF SameLines
  <2> HIDE DEF ls
  <2>7. e \in OrderRec /\ e.ref = orders[o].ref /\ e.status = orders[o].status /\ e.lines = ls
    BY <1>0, <2>1, <2>6 DEF OrderRec
  <2> HIDE DEF e
  <2>8. orders'[o] = e => Rewritten(o)
    BY <1>5, <2>1, <2>6, <2>7 DEF Rewritten
  <2> HIDE DEF o
  <2>9. QED
    BY <1>4, <2>1, <2>2, <2>7, <2>8
<1>6. ASSUME NEW s \in Sessions, PickStatus(s), orders' # orders PROVE Kept
  <2> DEFINE o == sess[s].o
             st == IF sess[s].val THEN "picked" ELSE "pending"
             e == [orders[o] EXCEPT !.status = st]
  <2>1. Exists(o) /\ o \in Ids /\ orders' = [orders EXCEPT ![o] = e]
    BY <1>6 DEF PickStatus, Exists
  <2>2. st \in {"picked", "pending"}
    OBVIOUS
  <2> HIDE DEF st
  <2>3. e \in OrderRec /\ e.ref = orders[o].ref /\ e.status = st /\ e.lines = orders[o].lines
    <3>1. orders[o] \in OrderRec
      BY <1>0, <2>1
    <3>2. QED
      BY <2>2, <3>1 DEF OrderRec, Statuses
  <2> HIDE DEF e
  <2>4. orders'[o] = e => Rewritten(o)
    BY <1>6, <2>1, <2>2, <2>3 DEF Rewritten
  <2> HIDE DEF o
  <2>5. QED
    BY <1>4, <2>1, <2>3, <2>4
<1>7. ASSUME NEW s \in Sessions, ShipTx(s), orders' # orders PROVE Kept
  <2> DEFINE o == sess[s].o
             ls == [l \in DOMAIN orders[o].lines |-> [orders[o].lines[l] EXCEPT !.picked = TRUE]]
             e == [orders[o] EXCEPT !.status = "shipped", !.lines = ls]
  <2>1. Exists(o) /\ o \in Ids /\ orders' = [orders EXCEPT ![o] = e]
    BY <1>7 DEF ShipTx, Exists
  <2>2. orders[o].lines \in Seq(LineRec) /\ \A l \in DOMAIN orders[o].lines : orders[o].lines[l] \in LineRec
    BY <1>0, <2>1, LinesFine
  <2>3. ASSUME NEW l \in DOMAIN orders[o].lines
        PROVE  LET n == [orders[o].lines[l] EXCEPT !.picked = TRUE]
               IN  n \in LineRec /\ n.row = orders[o].lines[l].row /\ n.qty = orders[o].lines[l].qty
    BY <2>2 DEF LineRec
  <2>4. ls \in [DOMAIN orders[o].lines -> LineRec] /\ SameLines(ls, orders[o].lines)
    BY <2>3 DEF SameLines
  <2> HIDE DEF ls
  <2>5. ls \in Seq(LineRec)
    BY <2>2, <2>4, RewriteSeq
  <2>6. e \in OrderRec /\ e.ref = orders[o].ref /\ e.status = "shipped" /\ e.lines = ls
    <3>1. ASSUME NEW x \in OrderRec, NEW y \in Seq(LineRec)
          PROVE  LET z == [x EXCEPT !.status = "shipped", !.lines = y]
                 IN  z \in OrderRec /\ z.ref = x.ref /\ z.status = "shipped" /\ z.lines = y
      BY DEF OrderRec, Statuses
    <3>2. QED
      BY <1>0, <2>1, <2>5, <3>1
  <2> HIDE DEF e
  <2>7. orders'[o] = e => Rewritten(o)
    BY <1>7, <2>1, <2>4, <2>6 DEF Rewritten
  <2> HIDE DEF o
  <2>8. QED
    BY <1>4, <2>1, <2>6, <2>7
<1>8. ASSUME NEW s \in Sessions, NEW o \in Ids, Delete(s, o) PROVE Kept
  <2> DEFINE e == [orders[o] EXCEPT !.status = "gone", !.lines = <<>>]
  <2>1. Exists(o) /\ orders[o].status # "shipped" /\ orders' = [orders EXCEPT ![o] = e]
    BY <1>8 DEF Delete
  <2>2. e \in OrderRec /\ e.ref = orders[o].ref /\ e.status = "gone" /\ e.lines = <<>>
    BY <1>0, EmptySeq DEF OrderRec, Statuses
  <2> HIDE DEF e
  <2>3. orders'[o] = e => Rewritten(o)
    BY <1>8, <2>1, <2>2 DEF Rewritten
  <2>4. QED
    BY <1>4, <2>1, <2>2, <2>3
<1>9. ASSUME NEW s \in Sessions, NEW b \in Baskets, Place(s, b) PROVE Added(NoRef)
  BY <1>0, <1>9, NewOrder DEF Place, Baskets2
<1>10. ASSUME NEW s \in Sessions, FetchOrder(s)
       PROVE  \E f \in sess[s].refs : Added(f) /\ sess'[s].refs = sess[s].refs \ {f}
  <2>1. PICK f \in sess[s].refs : /\ CreateOrder(f, BasketOf[f])
                                  /\ sess' = [sess EXCEPT ![s] = [sess[s] EXCEPT !.refs = @ \ {f}]]
    BY <1>10 DEF FetchOrder
  <2>2. sess[s] \in Locals /\ sess \in [Sessions -> Locals]
    BY <1>0 DEF TypeOK
  <2>3. f \in Refs
    BY <2>2 DEF Locals
  <2>4. Added(f)
    BY <1>0, <2>1, <2>3, NewOrder DEF Baskets2
  <2>5. sess'[s].refs = sess[s].refs \ {f}
    BY <2>1, <2>2 DEF Locals
  <2>6. QED
    BY <2>4, <2>5
<1>11. ASSUME NEW s \in Sessions, NEW b \in Baskets, Place(s, b)
       PROVE  /\ orders' \in Seq(OrderRec)
              /\ \A o \in Ids : o \in Ids' /\ orders'[o] = orders[o]
              /\ \A o \in Ids' \ Ids : o = Len(orders) + 1 /\ orders'[o].status = "pending" /\ orders'[o].ref = NoRef
  BY <1>2, <1>9, <1>11
<1>12. ASSUME NEW s \in Sessions, FetchOrder(s)
       PROVE  \E f \in sess[s].refs :
                 /\ sess'[s].refs = sess[s].refs \ {f}
                 /\ orders' \in Seq(OrderRec)
                 /\ \A o \in Ids : o \in Ids' /\ orders'[o] = orders[o]
                 /\ \A o \in Ids' \ Ids : o = Len(orders) + 1 /\ orders'[o].status = "pending" /\ orders'[o].ref = f
  BY <1>2, <1>10, <1>12
<1> HIDE DEF Kept, Added
<1>13. CASE Kept
  BY <1>1, <1>13
<1>14. CASE \E s \in Sessions, b \in Baskets : Place(s, b)
  BY <1>11, <1>14 DEF Rewritten
<1>15. CASE \E s \in Sessions : FetchOrder(s)
  BY <1>12, <1>15 DEF Rewritten
<1>16. QED
  BY <1>3, <1>5, <1>6, <1>7, <1>8, <1>13, <1>14, <1>15, OrdersWriters

\* An order that is there was there, with the same lines.
LEMMA OrderKept ==
    ASSUME TypeInv, [Next]_vars, NEW o \in Ids, Exists(o)'
    PROVE  Exists(o) /\ SameLines(orders'[o].lines, orders[o].lines)
<1>1. orders'[o].status # "gone" /\ Rewritten(o)
  BY OrderStep DEF Exists
<1>2. QED
  BY <1>1 DEF Rewritten, Exists, SameLines

\* What a request has in hand stays good while others move.
LEMMA LocalStep ==
    ASSUME TypeInv, [Next]_vars, NEW r \in Locals, LocalOK(r)
    PROVE  LocalOK(r)'
<1>1. r.pc \in OnOrder => r.o \in Ids'
  BY OrderStep DEF LocalOK
<1>2. ASSUME r.pc = "pickItem", Exists(r.o)' PROVE r.l \in DOMAIN orders'[r.o].lines
  <2>1. r.o \in Ids
    BY <1>2 DEF LocalOK, OnOrder
  <2>2. Exists(r.o) /\ SameLines(orders'[r.o].lines, orders[r.o].lines)
    BY <1>2, <2>1, OrderKept
  <2>3. QED
    BY <1>2, <2>2 DEF LocalOK, SameLines
<1>3. QED
  BY <1>1, <1>2 DEF LocalOK

\* A request moves in its own steps.
LEMMA OwnStep ==
    ASSUME TypeOK, [Next]_vars, NEW u \in Sessions, sess'[u] # sess[u]
    PROVE  Placing(u) \/ Picking(u) \/ Shipping(u) \/ Die(u)
<1> USE DEF TypeOK
<1>1. ASSUME NEW s \in Sessions, s # u, Placing(s) PROVE sess'[u] = sess[u]
  BY <1>1 DEF Placing, Place, FetchStart, FetchSeen, FetchOrder, FetchDone, Delete, Finish
<1>2. ASSUME NEW s \in Sessions, s # u, Picking(s) PROVE sess'[u] = sess[u]
  BY <1>2 DEF Picking, PickStart, PickItem, PickCount, PickStatus, Finish
<1>3. ASSUME NEW s \in Sessions, s # u, Shipping(s) PROVE sess'[u] = sess[u]
  BY <1>3 DEF Shipping, ShipStart, ShipLines, ShipTx, AfterEbay, AfterOther, SyncSkip, SyncRead, SyncLive, SyncPush,
              SyncSave, SyncEnd, Mark, Finish, NextLine
<1>4. ASSUME NEW s \in Sessions, s # u, Die(s) PROVE sess'[u] = sess[u]
  BY <1>4 DEF Die, Finish
<1>5. QED
  BY <1>1, <1>2, <1>3, <1>4 DEF Next, vars, Buy

LEMMA LocalPlacing ==
    ASSUME TypeInv, NEW u \in Sessions, Placing(u)
    PROVE  sess' \in [Sessions -> Locals] /\ LocalOK(sess'[u])
<1>0. TypeOK /\ sess \in [Sessions -> Locals] /\ LocalOK(sess[u]) /\ Idle \in Locals /\ LocalOK(Idle)
  BY IdleType DEF TypeInv, TypeOK, LocalOK, OnOrder, Syncing
<1>1. CASE FetchStart(u)
  <2> DEFINE open == {f \in Refs : ebay[f] = "open"}
             r == [Idle EXCEPT !.pc = "fetchSeen", !.refs = open]
  <2>1. open \in SUBSET Refs
    OBVIOUS
  <2>2. sess' = [sess EXCEPT ![u] = r]
    BY <1>1 DEF FetchStart
  <2> HIDE DEF open
  <2>3. r \in Locals /\ r.pc = "fetchSeen"
    BY <1>0, <2>1 DEF Locals
  <2> HIDE DEF r
  <2>4. QED
    BY <1>0, <2>2, <2>3 DEF LocalOK, OnOrder, Syncing
<1>2. CASE FetchSeen(u)
  <2> DEFINE left == sess[u].refs \ ExistingRefs
             r == [sess[u] EXCEPT !.pc = "fetchOrder", !.refs = left]
  <2>1. left \in SUBSET Refs
    BY <1>0 DEF Locals
  <2>2. sess' = [sess EXCEPT ![u] = r]
    BY <1>2 DEF FetchSeen
  <2> HIDE DEF left
  <2>3. r \in Locals /\ r.pc = "fetchOrder"
    BY <1>0, <2>1 DEF Locals
  <2> HIDE DEF r
  <2>4. QED
    BY <1>0, <2>2, <2>3 DEF LocalOK, OnOrder, Syncing
<1>3. CASE FetchOrder(u)
  <2>1. PICK f \in sess[u].refs : sess' = [sess EXCEPT ![u] = [sess[u] EXCEPT !.refs = @ \ {f}]]
    BY <1>3 DEF FetchOrder
  <2> DEFINE r == [sess[u] EXCEPT !.refs = @ \ {f}]
  <2>2. r \in Locals /\ r.pc = "fetchOrder"
    BY <1>0, <1>3 DEF Locals, FetchOrder
  <2>3. sess' = [sess EXCEPT ![u] = r]
    BY <2>1
  <2> HIDE DEF r
  <2>4. QED
    BY <1>0, <2>2, <2>3 DEF LocalOK, OnOrder, Syncing
<1>4. CASE FetchDone(u)
  BY <1>0, <1>4 DEF FetchDone, Finish
<1>5. CASE sess' = sess
  BY <1>0, <1>5
<1>6. QED
  BY <1>1, <1>2, <1>3, <1>4, <1>5 DEF Placing, Place, Delete

LEMMA LocalPicking ==
    ASSUME TypeInv, NEW u \in Sessions, Picking(u)
    PROVE  sess' \in [Sessions -> Locals] /\ LocalOK(sess'[u])
<1>0. /\ TypeOK /\ sess \in [Sessions -> Locals] /\ LocalOK(sess[u]) /\ Idle \in Locals /\ LocalOK(Idle)
      /\ Ids \subseteq Nat /\ \A o \in Ids : orders[o].lines \in Seq(LineRec)
  BY IdleType, IdsAre DEF TypeInv, TypeOK, LocalOK, OnOrder, Syncing
<1>1. ASSUME NEW o \in Ids, NEW l \in DOMAIN orders[o].lines, NEW v \in BOOLEAN, PickStart(u, o, l, v)
      PROVE  sess' \in [Sessions -> Locals] /\ LocalOK(sess'[u])
  <2> DEFINE r == [Idle EXCEPT !.pc = "pickItem", !.o = o, !.l = l, !.val = v]
  <2>1. l \in Nat
    BY <1>0, LenProperties
  <2>2. sess' = [sess EXCEPT ![u] = r]
    BY <1>1 DEF PickStart
  <2>3. r \in Locals /\ r.pc = "pickItem" /\ r.o = o /\ r.l = l
    BY <1>0, <2>1 DEF Locals, Idle
  <2> HIDE DEF r
  <2>4. QED
    BY <1>0, <2>2, <2>3 DEF LocalOK, OnOrder, Syncing
<1>2. CASE PickItem(u)
  <2> DEFINE r == [sess[u] EXCEPT !.pc = "pickCount", !.val = FALSE]
  <2>1. sess' = [sess EXCEPT ![u] = r] /\ sess[u].o \in Ids
    BY <1>0, <1>2 DEF PickItem, LocalOK, OnOrder
  <2>2. r \in Locals /\ r.pc = "pickCount" /\ r.o = sess[u].o
    BY <1>0 DEF Locals
  <2> HIDE DEF r
  <2>3. QED
    BY <1>0, <2>1, <2>2 DEF LocalOK, OnOrder, Syncing
<1>3. CASE PickCount(u)
  <2> DEFINE v == AllPicked(orders[sess[u].o].lines)
             r == [sess[u] EXCEPT !.pc = "pickStatus", !.val = v]
  <2>1. sess' = [sess EXCEPT ![u] = r] /\ sess[u].o \in Ids /\ v \in BOOLEAN
    BY <1>0, <1>3 DEF PickCount, LocalOK, OnOrder, AllPicked
  <2> HIDE DEF v
  <2>2. r \in Locals /\ r.pc = "pickStatus" /\ r.o = sess[u].o
    BY <1>0, <2>1 DEF Locals
  <2> HIDE DEF r
  <2>3. QED
    BY <1>0, <2>1, <2>2 DEF LocalOK, OnOrder, Syncing
<1>4. CASE PickStatus(u)
  BY <1>0, <1>4 DEF PickStatus, Finish
<1>5. QED
  BY <1>1, <1>2, <1>3, <1>4 DEF Picking

\* The loop over an order's lines goes on with the next, if there is one.
LEMMA LocalNextLine ==
    ASSUME TypeInv, NEW u \in Sessions, sess[u].pc \in Syncing, NextLine(u)
    PROVE  sess' \in [Sessions -> Locals] /\ LocalOK(sess'[u])
<1>0. TypeOK /\ sess \in [Sessions -> Locals] /\ LocalOK(sess[u]) /\ Idle \in Locals /\ LocalOK(Idle)
  BY IdleType DEF TypeInv, TypeOK, LocalOK, OnOrder, Syncing
<1>1. CASE Finish(u)
  BY <1>0, <1>1 DEF Finish
<1>2. CASE Len(sess[u].lines) # 1
  <2> DEFINE rest == Tail(sess[u].lines)
             r == [sess[u] EXCEPT !.pc = "syncRead", !.num = 0, !.lines = rest]
  <2>1. sess[u].lines \in Seq(LineRec) /\ sess[u].lines # <<>>
    BY <1>0 DEF Locals, LocalOK
  <2>2. rest \in Seq(LineRec) /\ Len(rest) = Len(sess[u].lines) - 1 /\ Len(sess[u].lines) \in Nat
    BY <2>1, HeadTailProperties, LenProperties
  <2>3. Len(rest) # 0
    BY <1>2, <2>2
  <2>4. rest # <<>>
    BY <2>3, EmptySeq
  <2>5. sess' = [sess EXCEPT ![u] = r]
    BY <1>2 DEF NextLine
  <2> HIDE DEF rest
  <2>6. r \in Locals /\ r.pc = "syncRead" /\ r.lines = rest
    BY <1>0, <2>2 DEF Locals
  <2> HIDE DEF r
  <2>7. QED
    BY <1>0, <2>4, <2>5, <2>6 DEF LocalOK, OnOrder, Syncing
<1>3. QED
  BY <1>1, <1>2 DEF NextLine

LEMMA LocalShipping ==
    ASSUME TypeInv, NEW u \in Sessions, Shipping(u)
    PROVE  sess' \in [Sessions -> Locals] /\ LocalOK(sess'[u])
<1>0. /\ TypeOK /\ sess \in [Sessions -> Locals] /\ LocalOK(sess[u]) /\ Idle \in Locals /\ LocalOK(Idle)
      /\ Ids \subseteq Nat /\ \A o \in Ids : orders[o].lines \in Seq(LineRec)
  BY IdleType, IdsAre DEF TypeInv, TypeOK, LocalOK, OnOrder, Syncing
<1>1. ASSUME NEW r \in Locals, LocalOK(r), sess' = [sess EXCEPT ![u] = r]
      PROVE  sess' \in [Sessions -> Locals] /\ LocalOK(sess'[u])
  BY <1>0, <1>1
<1>2. ASSUME NEW o \in Ids, ShipStart(u, o) PROVE sess' \in [Sessions -> Locals] /\ LocalOK(sess'[u])
  <2> DEFINE pc == IF orders[o].status = "shipped" THEN "after" ELSE "shipLines"
             r == [Idle EXCEPT !.pc = pc, !.o = o]
  <2>1. sess' = [sess EXCEPT ![u] = r] /\ (pc = "after" \/ pc = "shipLines")
    BY <1>2 DEF ShipStart
  <2> HIDE DEF pc
  <2>2. r \in Locals /\ r.pc = pc /\ r.o = o
    BY <1>0, <2>1 DEF Locals, Idle
  <2> HIDE DEF r
  <2>3. LocalOK(r)
    BY <2>1, <2>2 DEF LocalOK, OnOrder, Syncing
  <2>4. QED
    BY <1>1, <2>1, <2>2, <2>3
<1>3. CASE ShipLines(u)
  <2> DEFINE ls == orders[sess[u].o].lines
             r == [sess[u] EXCEPT !.pc = "shipTx", !.lines = ls]
  <2>1. sess' = [sess EXCEPT ![u] = r] /\ sess[u].o \in Ids
    BY <1>0, <1>3 DEF ShipLines, LocalOK, OnOrder
  <2>2. ls \in Seq(LineRec)
    BY <1>0, <2>1
  <2> HIDE DEF ls
  <2>3. r \in Locals /\ r.pc = "shipTx" /\ r.o = sess[u].o
    BY <1>0, <2>2 DEF Locals
  <2> HIDE DEF r
  <2>4. LocalOK(r)
    BY <2>1, <2>3 DEF LocalOK, OnOrder, Syncing
  <2>5. QED
    BY <1>1, <2>1, <2>3, <2>4
<1>4. CASE ShipTx(u)
  <2> DEFINE r == [sess[u] EXCEPT !.pc = "after", !.lines = <<>>]
  <2>1. sess' = [sess EXCEPT ![u] = r] /\ sess[u].o \in Ids
    BY <1>0, <1>4 DEF ShipTx, LocalOK, OnOrder
  <2>2. r \in Locals /\ r.pc = "after" /\ r.o = sess[u].o
    BY <1>0, EmptySeq DEF Locals
  <2> HIDE DEF r
  <2>3. LocalOK(r)
    BY <2>1, <2>2 DEF LocalOK, OnOrder, Syncing
  <2>4. QED
    BY <1>1, <2>1, <2>2, <2>3
<1>5. CASE AfterEbay(u)
  BY <1>0, <1>5 DEF AfterEbay, Finish
<1>6. CASE AfterOther(u)
  <2> DEFINE ls == orders[sess[u].o].lines
             r == [Idle EXCEPT !.pc = "syncRead", !.lines = ls]
  <2>1. sess[u].o \in Ids
    BY <1>0, <1>6 DEF AfterOther, LocalOK, OnOrder
  <2>2. ls \in Seq(LineRec)
    BY <1>0, <2>1
  <2>3. (sess' = [sess EXCEPT ![u] = r] /\ ls # <<>>) \/ Finish(u)
    BY <1>6 DEF AfterOther
  <2> HIDE DEF ls
  <2>4. r \in Locals /\ r.pc = "syncRead" /\ r.lines = ls
    BY <1>0, <2>2 DEF Locals, Idle
  <2> HIDE DEF r
  <2>5. ls # <<>> => LocalOK(r)
    BY <2>4 DEF LocalOK, OnOrder, Syncing
  <2>6. QED
    BY <1>0, <1>1, <2>3, <2>4, <2>5 DEF Finish
<1>7. CASE SyncSkip(u)
  BY <1>7, LocalNextLine DEF SyncSkip, Syncing
<1>8. CASE SyncRead(u)
  <2> DEFINE n == inv[Row(u)].qty
             r == [sess[u] EXCEPT !.pc = "syncLive", !.num = n]
  <2>1. sess' = [sess EXCEPT ![u] = r] /\ Row(u) # NoRow /\ sess[u].lines # <<>>
    BY <1>0, <1>8 DEF SyncRead, LocalOK, Syncing
  <2>2. sess[u].lines \in Seq(LineRec)
    BY <1>0 DEF Locals
  <2>3. sess[u].lines[1] \in LineRec
    BY <2>1, <2>2, EmptySeq, LenProperties, ElementOfSeq
  <2>4. Row(u) \in Rows
    BY <2>1, <2>3 DEF Row, LineRec
  <2>5. n \in Nat
    BY <1>0, <2>4 DEF TypeOK, StockRec
  <2> HIDE DEF n
  <2>6. r \in Locals /\ r.pc = "syncLive" /\ r.lines = sess[u].lines
    BY <1>0, <2>5 DEF Locals
  <2> HIDE DEF r
  <2>7. LocalOK(r)
    BY <2>1, <2>6 DEF LocalOK, OnOrder, Syncing
  <2>8. QED
    BY <1>1, <2>1, <2>6, <2>7
<1>9. ASSUME NEW pc \in Syncing, sess[u].pc \in Syncing, sess' = [sess EXCEPT ![u] = [sess[u] EXCEPT !.pc = pc]]
      PROVE  sess' \in [Sessions -> Locals] /\ LocalOK(sess'[u])
  <2> DEFINE r == [sess[u] EXCEPT !.pc = pc]
  <2>1. r \in Locals /\ r.pc = pc /\ r.lines = sess[u].lines /\ sess[u].lines # <<>>
    BY <1>0, <1>9 DEF Locals, LocalOK, Syncing
  <2>2. sess' = [sess EXCEPT ![u] = r]
    BY <1>9
  <2> HIDE DEF r
  <2>3. LocalOK(r)
    BY <2>1 DEF LocalOK, OnOrder, Syncing
  <2>4. QED
    BY <1>1, <2>1, <2>2, <2>3
<1>10. CASE SyncLive(u)
  BY <1>9, <1>10, LocalNextLine DEF SyncLive, Syncing
<1>11. CASE SyncPush(u)
  BY <1>9, <1>11 DEF SyncPush, Syncing
<1>12. CASE SyncSave(u)
  BY <1>9, <1>12, LocalNextLine DEF SyncSave, Syncing
<1>13. CASE SyncEnd(u)
  BY <1>13, LocalNextLine DEF SyncEnd, Syncing
<1>14. CASE \E r \in Rows, st \in {"listed", "in_stock"} : Mark(u, r, st)
  BY <1>0, <1>14 DEF Mark
<1>15. QED
  BY <1>2, <1>3, <1>4, <1>5, <1>6, <1>7, <1>8, <1>10, <1>11, <1>12, <1>13, <1>14 DEF Shipping

\* What shipping leaves of a row.
LEMMA TakeOffIs ==
    ASSUME TypeOK, NEW lines \in Seq(LineRec)
    PROVE  /\ TakeOff(lines) \in [Rows -> StockRec]
           /\ \A r \in Rows : TakeOff(lines)[r].qty = IF inv[r].qty > Units(lines, r) THEN inv[r].qty - Units(lines, r) ELSE 0
<1> SUFFICES ASSUME NEW r \in Rows
             PROVE  /\ TakeOff(lines)[r] \in StockRec
                    /\ TakeOff(lines)[r].qty = IF inv[r].qty > Units(lines, r) THEN inv[r].qty - Units(lines, r) ELSE 0
  BY DEF TakeOff
<1>1. inv[r] \in StockRec /\ inv[r].qty \in Nat
  BY DEF TypeOK, StockRec
<1>2. Units(lines, r) \in Nat /\ ((\A l \in DOMAIN lines : lines[l].row # r) => Units(lines, r) = 0)
  BY UnitsType
<1> DEFINE n == Units(lines, r)
<1> HIDE DEF n
<1>3. CASE \A l \in DOMAIN lines : lines[l].row # r
  <2>1. TakeOff(lines)[r] = inv[r] /\ Units(lines, r) = 0
    BY <1>2, <1>3 DEF TakeOff
  <2>2. QED
    BY <1>1, <2>1
<1>4. CASE ~ (\A l \in DOMAIN lines : lines[l].row # r) /\ inv[r].qty > n
  <2> DEFINE d == inv[r].qty - n
  <2>1. d \in Nat
    BY <1>1, <1>2, <1>4 DEF n
  <2>2. TakeOff(lines)[r] = [inv[r] EXCEPT !.qty = d]
    BY <1>4 DEF TakeOff, n
  <2> HIDE DEF d
  <2>3. TakeOff(lines)[r] \in StockRec /\ TakeOff(lines)[r].qty = d
    BY <1>1, <2>1, <2>2 DEF StockRec
  <2>4. QED
    BY <1>4, <2>3 DEF d, n
<1>5. CASE ~ (\A l \in DOMAIN lines : lines[l].row # r) /\ ~ (inv[r].qty > n)
  <2>1. TakeOff(lines)[r] = [qty |-> 0, status |-> "sold"]
    BY <1>5 DEF TakeOff, n
  <2>2. QED
    BY <1>5, <2>1 DEF StockRec, n
<1>6. QED
  BY <1>3, <1>4, <1>5

\* The copies on hand change only when an order is shipped.
LEMMA InvStep ==
    ASSUME TypeOK, [Next]_vars
    PROVE  /\ inv' \in [Rows -> StockRec]
           /\ \/ \A r \in Rows : inv'[r].qty = inv[r].qty
              \/ \E s \in Sessions : ShipTx(s)
<1>0. inv \in [Rows -> StockRec] /\ \A s \in Sessions : sess[s].lines \in Seq(LineRec)
  BY DEF TypeOK, Locals
<1>1. ASSUME NEW s \in Sessions, ShipTx(s) PROVE inv' \in [Rows -> StockRec]
  BY <1>0, <1>1, TakeOffIs DEF ShipTx
<1>2. ASSUME NEW s \in Sessions, NEW r \in Rows, NEW st \in {"listed", "in_stock"}, Mark(s, r, st)
      PROVE  inv' \in [Rows -> StockRec] /\ \A q \in Rows : inv'[q].qty = inv[q].qty
  BY <1>0, <1>2 DEF Mark, StockRec
<1>3. ASSUME NEW s \in Sessions, Placing(s) \/ Picking(s) \/ Die(s) PROVE inv' = inv
  BY <1>3 DEF Placing, Place, FetchStart, FetchSeen, FetchOrder, FetchDone, Delete,
              Picking, PickStart, PickItem, PickCount, PickStatus, Die
<1>4. ASSUME NEW s \in Sessions, Shipping(s)
      PROVE  inv' = inv \/ ShipTx(s) \/ \E r \in Rows, st \in {"listed", "in_stock"} : Mark(s, r, st)
  BY <1>4 DEF Shipping, ShipStart, ShipLines, AfterEbay, AfterOther, SyncSkip, SyncRead, SyncLive, SyncPush,
              SyncSave, SyncEnd
<1>5. (UNCHANGED vars \/ \E f \in Refs : Buy(f)) => inv' = inv
  BY DEF vars, Buy
<1>6. QED
  BY <1>0, <1>1, <1>2, <1>3, <1>4, <1>5 DEF Next

\* What a buyer takes was on the shelf.
LEMMA BuyType ==
    ASSUME TypeOK, NEW f \in Refs, Buy(f)
    PROVE  shelf' \in [Rows -> Nat] /\ ebay' \in [Refs -> {"none", "open", "shipped"}]
<1>1. PICK rows \in [DOMAIN BasketOf[f] -> Rows] :
         LET wanted(r) == Units([l \in DOMAIN rows |-> [row |-> rows[l], qty |-> BasketOf[f][l][2]]], r)
         IN  /\ \A r \in Rows : wanted(r) <= shelf[r]
             /\ shelf' = [r \in Rows |-> shelf[r] - wanted(r)]
  BY DEF Buy
<1> DEFINE ls == [l \in DOMAIN rows |-> [row |-> rows[l], qty |-> BasketOf[f][l][2]]]
<1>2. BasketOf[f] \in Seq((DOMAIN RowsOf) \X (Nat \ {0}))
  BY StockAssumption
<1>3. /\ DOMAIN BasketOf[f] = 1..Len(BasketOf[f]) /\ Len(BasketOf[f]) \in Nat
      /\ \A l \in DOMAIN BasketOf[f] : BasketOf[f][l] \in (DOMAIN RowsOf) \X (Nat \ {0})
  BY <1>2, LenProperties, ElementOfSeq
<1>4. IsFiniteSet(DOMAIN ls) /\ \A l \in DOMAIN ls : ls[l].qty \in Nat
  <2>1. DOMAIN ls = 1..Len(BasketOf[f]) /\ \A l \in DOMAIN ls : ls[l].qty = BasketOf[f][l][2]
    BY <1>3
  <2>2. \A l \in DOMAIN BasketOf[f] : BasketOf[f][l][2] \in Nat
    BY <1>3
  <2>3. IsFiniteSet(1..Len(BasketOf[f]))
    BY <1>3, FS_Interval
  <2> HIDE DEF ls
  <2>4. QED
    BY <1>3, <2>1, <2>2, <2>3
<1>5. (\A r \in Rows : Units(ls, r) <= shelf[r]) /\ shelf' = [r \in Rows |-> shelf[r] - Units(ls, r)]
  BY <1>1
<1> HIDE DEF ls
<1>6. \A r \in Rows : Units(ls, r) \in Nat
  BY <1>4, UnitsNat
<1>7. \A r \in Rows : shelf[r] - Units(ls, r) \in Nat
  BY <1>5, <1>6 DEF TypeOK
<1>8. QED
  BY <1>5, <1>7 DEF Buy, TypeOK

LEMMA MarketType ==
    ASSUME TypeOK, [Next]_vars
    PROVE  /\ listing' \in [Rows -> [live : BOOLEAN, qty : Nat]]
           /\ shelf' \in [Rows -> Nat]
           /\ ebay' \in [Refs -> {"none", "open", "shipped"}]
           /\ asked' \in [Kinds -> Nat]
<1>0. /\ listing \in [Rows -> [live : BOOLEAN, qty : Nat]] /\ shelf \in [Rows -> Nat]
      /\ ebay \in [Refs -> {"none", "open", "shipped"}] /\ asked \in [Kinds -> Nat]
      /\ \A s \in Sessions : sess[s].num \in Nat
  BY DEF TypeOK, Locals
<1>1. ASSUME NEW s \in Sessions, NEW k \in Kinds, Ask(s, k) PROVE asked' \in [Kinds -> Nat]
  BY <1>0, <1>1 DEF Ask
<1>2. ASSUME NEW s \in Sessions, Placing(s) \/ Picking(s)
      PROVE  asked' \in [Kinds -> Nat] /\ UNCHANGED <<listing, shelf, ebay>>
  BY <1>0, <1>1, <1>2
     DEF Placing, Place, FetchStart, FetchSeen, FetchOrder, FetchDone, Delete, Picking, PickStart, PickItem,
         PickCount, PickStatus, market, Kinds
<1>3. ASSUME NEW s \in Sessions, Die(s) PROVE asked' \in [Kinds -> Nat] /\ UNCHANGED <<listing, shelf, ebay>>
  BY <1>0, <1>3 DEF Die, market, Kinds
<1>4. ASSUME NEW s \in Sessions, NEW r, NEW st, Mark(s, r, st) \/ ShipStart(s, r)
      PROVE  asked' \in [Kinds -> Nat] /\ UNCHANGED <<listing, shelf, ebay>>
  BY <1>1, <1>4 DEF Mark, ShipStart, market, Kinds
<1>5. ASSUME NEW s \in Sessions, ShipLines(s) \/ ShipTx(s) \/ AfterOther(s) \/ SyncSkip(s) \/ SyncRead(s) \/ SyncLive(s)
      PROVE  UNCHANGED <<asked, listing, shelf, ebay>>
  BY <1>5 DEF ShipLines, ShipTx, AfterOther, SyncSkip, SyncRead, SyncLive, market
<1>6. ASSUME NEW s \in Sessions, AfterEbay(s)
      PROVE  UNCHANGED <<asked, listing, shelf>> /\ ebay' \in [Refs -> {"none", "open", "shipped"}]
  BY <1>0, <1>6 DEF AfterEbay
<1>7. ASSUME NEW s \in Sessions, SyncPush(s)
      PROVE  UNCHANGED <<asked, listing, ebay>> /\ shelf' \in [Rows -> Nat]
  BY <1>0, <1>7 DEF SyncPush
<1>8. ASSUME NEW s \in Sessions, SyncSave(s) \/ SyncEnd(s)
      PROVE  UNCHANGED <<asked, shelf, ebay>> /\ listing' \in [Rows -> [live : BOOLEAN, qty : Nat]]
  <2>1. CASE SyncSave(s)
    <3>1. sess[s].num \in Nat
      BY <1>0
    <3>2. listing' \in [Rows -> [live : BOOLEAN, qty : Nat]]
      BY <1>0, <2>1, <3>1 DEF SyncSave
    <3>3. QED
      BY <2>1, <3>2 DEF SyncSave
  <2>2. CASE SyncEnd(s)
    BY <1>0, <2>2 DEF SyncEnd
  <2>3. QED
    BY <1>8, <2>1, <2>2
<1>9. ASSUME NEW s \in Sessions, Shipping(s)
      PROVE  /\ asked' \in [Kinds -> Nat] /\ listing' \in [Rows -> [live : BOOLEAN, qty : Nat]]
             /\ shelf' \in [Rows -> Nat] /\ ebay' \in [Refs -> {"none", "open", "shipped"}]
  BY <1>0, <1>4, <1>5, <1>6, <1>7, <1>8, <1>9 DEF Shipping
<1>10. CASE UNCHANGED vars
  BY <1>0, <1>10 DEF vars
<1>11. CASE \E f \in Refs : Buy(f)
  BY <1>0, <1>11, BuyType DEF Buy
<1>12. QED
  BY <1>0, <1>2, <1>3, <1>9, <1>10, <1>11 DEF Next

LEMMA TypeNext == TypeInv /\ [Next]_vars => TypeInv'
<1> SUFFICES ASSUME TypeInv, [Next]_vars PROVE TypeInv'
  OBVIOUS
<1>0. TypeOK /\ sess \in [Sessions -> Locals] /\ Idle \in Locals
  BY IdleType DEF TypeInv, TypeOK
<1>1. ASSUME NEW u \in Sessions, Die(u) PROVE sess' \in [Sessions -> Locals] /\ sess'[u] = Idle
  BY <1>0, <1>1 DEF Die, Finish
<1>2. sess' \in [Sessions -> Locals]
  BY <1>0, <1>1, LocalPlacing, LocalPicking, LocalShipping DEF Next, vars, Buy
<1>3. ASSUME NEW u \in Sessions PROVE LocalOK(sess[u])'
  <2>1. LocalOK(Idle)
    BY IdleType DEF LocalOK, OnOrder, Syncing
  <2>2. LocalOK(sess'[u])
    <3>1. CASE sess'[u] = sess[u]
      BY <3>1 DEF TypeInv
    <3>2. QED
      BY <1>0, <1>1, <2>1, <3>1, OwnStep, LocalPlacing, LocalPicking, LocalShipping
  <2>3. sess'[u] \in Locals
    BY <1>2
  <2>4. QED
    BY <2>2, <2>3, LocalStep DEF LocalOK, Exists, Ids
<1>4. TypeOK'
  BY <1>0, <1>2, InvStep, OrderStep, MarketType DEF TypeOK
<1>5. QED
  BY <1>3, <1>4 DEF TypeInv

\* Quantities stay counts, orders keep the shape of orders, and each request has in hand what
\* its next statement needs, whatever is asked, interrupted or overlapped.
THEOREM OrdersTypes == Spec => []TypeOK
<1>1. TypeInv => TypeOK
  BY DEF TypeInv
<1>2. QED
  BY TypeInit, TypeNext, <1>1, PTL DEF Spec

-----------------------------------------------------------------------------
(* Fetched orders.                                                         *)

\* eBay's orders are fetched by one request at a time.
OneFetch == \A s, u \in Sessions : "fetch" \in Serves[s] /\ "fetch" \in Serves[u] => s = u

\* What a fetch has still to import is not here yet.
FetchInv ==
    /\ \A s \in Sessions : sess[s].pc \in {"fetchSeen", "fetchOrder"} => "fetch" \in Serves[s]
    /\ \A s \in Sessions, o \in Ids :
          sess[s].pc = "fetchOrder" /\ Exists(o) => orders[o].ref \notin sess[s].refs
    /\ ImportedOnce

LEMMA FetchInit == Init => FetchInv
<1> SUFFICES ASSUME Init PROVE FetchInv
  OBVIOUS
<1>1. Ids = {}
  BY EmptySeq DEF Init, Ids
<1>2. QED
  BY <1>1 DEF Init, FetchInv, ImportedOnce, Idle

LEMMA FetchStep ==
    ASSUME TypeOK, [Next]_vars, NEW u \in Sessions, sess'[u].pc \in {"fetchSeen", "fetchOrder"}
    PROVE  sess'[u] = sess[u] \/ FetchStart(u) \/ FetchSeen(u) \/ FetchOrder(u)
<1>0. sess \in [Sessions -> Locals] /\ Idle.pc = "idle"
  BY IdleType DEF TypeOK
<1>1. CASE Placing(u)
  BY <1>0, <1>1 DEF Placing, Place, Delete, FetchDone, Finish
<1>2. ASSUME Picking(u) PROVE FALSE
  <2>1. ASSUME NEW o, NEW l, NEW v, PickStart(u, o, l, v) PROVE sess'[u].pc = "pickItem"
    BY <1>0, <2>1 DEF PickStart, Idle
  <2>2. PickItem(u) => sess'[u].pc = "pickCount"
    BY <1>0 DEF PickItem, Locals
  <2>3. PickCount(u) => sess'[u].pc = "pickStatus"
    BY <1>0 DEF PickCount, Locals
  <2>4. PickStatus(u) => sess'[u].pc = "idle"
    BY <1>0 DEF PickStatus, Finish
  <2>5. QED
    BY <1>2, <2>1, <2>2, <2>3, <2>4 DEF Picking
<1>3. ASSUME Shipping(u), sess'[u] # sess[u] PROVE FALSE
  <2>0. NextLine(u) => sess'[u].pc = "idle" \/ sess'[u].pc = "syncRead"
    BY <1>0 DEF NextLine, Finish, Locals
  <2>1. ASSUME NEW o \in Ids, ShipStart(u, o) PROVE sess'[u].pc = "after" \/ sess'[u].pc = "shipLines"
    BY <1>0, <2>1 DEF ShipStart, Idle
  <2>2. ShipLines(u) => sess'[u].pc = "shipTx"
    BY <1>0 DEF ShipLines, Locals
  <2>3. ShipTx(u) => sess'[u].pc = "after"
    BY <1>0 DEF ShipTx, Locals
  <2>4. AfterEbay(u) \/ AfterOther(u) => sess'[u].pc = "idle" \/ sess'[u].pc = "syncRead"
    BY <1>0 DEF AfterEbay, AfterOther, Finish, Idle
  <2>5. SyncRead(u) \/ SyncPush(u) => sess'[u].pc = "syncLive" \/ sess'[u].pc = "syncSave"
    BY <1>0 DEF SyncRead, SyncPush, Locals
  <2>6. SyncLive(u) => sess'[u].pc = "syncPush" \/ NextLine(u)
    BY <1>0 DEF SyncLive, Locals
  <2>7. SyncSave(u) => sess'[u].pc = "syncEnd" \/ NextLine(u)
    BY <1>0 DEF SyncSave, Locals
  <2>8. SyncSkip(u) \/ SyncEnd(u) => NextLine(u)
    BY DEF SyncSkip, SyncEnd
  <2>9. ~ \E r \in Rows, st \in {"listed", "in_stock"} : Mark(u, r, st)
    BY <1>3 DEF Mark
  <2>10. QED
    BY <1>3, <2>0, <2>1, <2>2, <2>3, <2>4, <2>5, <2>6, <2>7, <2>8, <2>9 DEF Shipping
<1>4. ~ Die(u)
  BY <1>0 DEF Die, Finish
<1>5. QED
  BY <1>1, <1>2, <1>3, <1>4, OwnStep

LEMMA FetchNext == OneFetch /\ TypeInv /\ FetchInv /\ [Next]_vars => FetchInv'
<1> SUFFICES ASSUME OneFetch, TypeInv, TypeInv', FetchInv, [Next]_vars PROVE FetchInv'
  BY TypeNext
<1>0. /\ TypeOK /\ sess \in [Sessions -> Locals] /\ NoRef \notin Refs
      /\ \A s \in Sessions : sess[s].refs \subseteq Refs /\ sess'[s].refs \subseteq Refs
  BY StockAssumption DEF TypeInv, TypeOK, Locals
<1>1. ASSUME NEW s \in Sessions, sess'[s].pc \in {"fetchSeen", "fetchOrder"} PROVE "fetch" \in Serves[s]
  BY <1>0, <1>1, FetchStep DEF FetchInv, FetchStart, FetchSeen, FetchOrder, Ask
<1>2. ASSUME NEW o \in Ids, Exists(o)' PROVE Exists(o) /\ orders'[o].ref = orders[o].ref
  BY <1>2, OrderKept, OrderStep
<1>3. ASSUME NEW s \in Sessions, FetchOrder(s) PROVE "fetch" \in Serves[s] /\ sess[s].pc = "fetchOrder"
  BY <1>3 DEF FetchInv, FetchOrder
<1>4. ASSUME NEW s \in Sessions, sess'[s].pc = "fetchOrder", NEW o \in Ids', Exists(o)'
      PROVE  orders'[o].ref \notin sess'[s].refs
  <2>1. CASE o \in Ids
    <3>1. CASE sess'[s] = sess[s] \/ FetchOrder(s)
      <4>1. sess'[s].refs \subseteq sess[s].refs /\ sess[s].pc = "fetchOrder"
        BY <1>0, <1>4, <3>1 DEF FetchOrder, Locals
      <4>2. QED
        BY <1>2, <1>4, <2>1, <4>1 DEF FetchInv
    <3>2. CASE FetchSeen(s)
      <4>1. sess'[s].refs = sess[s].refs \ ExistingRefs
        BY <1>0, <3>2 DEF FetchSeen, Locals
      <4>2. orders[o].ref \in ExistingRefs \/ orders[o].ref = NoRef
        BY <1>2, <1>4, <2>1 DEF ExistingRefs
      <4>3. QED
        BY <1>0, <1>2, <1>4, <2>1, <4>1, <4>2
    <3>3. ~ FetchStart(s)
      BY <1>0, <1>4 DEF FetchStart, Idle
    <3>4. QED
      BY <1>0, <1>4, <3>1, <3>2, <3>3, FetchStep
  <2>2. CASE o \notin Ids
    <3>1. ASSUME NEW u \in Sessions, FetchOrder(u), sess'[u].refs = sess[u].refs \ {orders'[o].ref}
          PROVE  orders'[o].ref \notin sess'[s].refs
      <4>1. u = s
        BY <1>1, <1>3, <1>4, <3>1 DEF OneFetch
      <4>2. QED
        BY <3>1, <4>1
    <3>2. QED
      BY <1>0, <1>4, <2>2, <3>1, OrderStep
  <2>3. QED
    BY <2>1, <2>2
<1>5. ASSUME NEW o \in Ids', NEW p \in Ids', Exists(o)', Exists(p)', orders'[o].ref = orders'[p].ref, orders'[o].ref # NoRef
      PROVE  o = p
  <2>1. CASE o \in Ids /\ p \in Ids
    BY <1>2, <1>5, <2>1 DEF FetchInv, ImportedOnce
  <2>2. ASSUME NEW x \in Ids' \ Ids, NEW y \in Ids, Exists(y)', orders'[x].ref = orders'[y].ref, orders'[x].ref # NoRef
        PROVE  FALSE
    <3>1. PICK u \in Sessions : FetchOrder(u) /\ orders'[x].ref \in sess[u].refs
      BY <2>2, OrderStep
    <3>2. QED
      BY <1>2, <1>3, <2>2, <3>1 DEF FetchInv
  <2>3. CASE o \notin Ids /\ p \notin Ids
    BY <2>3, OrderStep
  <2>4. QED
    BY <1>5, <2>1, <2>2, <2>3
<1>6. ImportedOnce'
  BY <1>5 DEF ImportedOnce
<1>7. QED
  BY <1>1, <1>4, <1>6 DEF FetchInv

\* "Fetching dedupes": where one request at a time fetches, an eBay order has one order here,
\* also when the fetch was interrupted, and when the order was picked, shipped or deleted meanwhile.
THEOREM OrdersImportedOnce == OneFetch /\ Spec => []ImportedOnce
<1>1. FetchInv => ImportedOnce
  BY DEF FetchInv
<1>2. OneFetch => OneFetch'
  BY DEF OneFetch
<1>3. QED
  BY TypeInit, TypeNext, FetchInit, FetchNext, <1>1, <1>2, PTL DEF Spec

-----------------------------------------------------------------------------
(* Stock and shipped orders.                                               *)

\* Orders are picked, shipped and deleted by one request at a time.
Clerk == {"pick", "ship", "delete"}
OneClerk == \A s, u \in Sessions : Serves[s] \cap Clerk # {} /\ Serves[u] \cap Clerk # {} => s = u

Working == {"pickItem", "pickCount", "pickStatus", "shipLines", "shipTx"}

\* The order being worked on is there and not shipped, and the lines read of it are its lines.
AtWork(s) ==
    /\ Serves[s] \cap Clerk # {}
    /\ Exists(sess[s].o) /\ orders[sess[s].o].status # "shipped"
    /\ sess[s].pc = "shipTx" => SameLines(sess[s].lines, orders[sess[s].o].lines)

ClerkInv == \A s \in Sessions : sess[s].pc \in Working => AtWork(s)

LEMMA ClerkInit == Init => ClerkInv
BY DEF Init, ClerkInv, Idle, Working

\* How a request comes to work on an order.
LEMMA ClerkStep ==
    ASSUME TypeOK, [Next]_vars, NEW u \in Sessions, sess'[u].pc \in Working, sess'[u] # sess[u]
    PROVE  \/ /\ \E o \in Ids : sess'[u].o = o /\ Exists(o) /\ orders[o].status # "shipped"
              /\ orders' = orders /\ Serves[u] \cap Clerk # {} /\ sess'[u].pc # "shipTx"
           \/ /\ PickItem(u) \/ (PickCount(u) /\ orders' = orders)
              /\ sess[u].pc \in Working /\ sess'[u].o = sess[u].o /\ sess'[u].pc # "shipTx"
           \/ /\ ShipLines(u) /\ orders' = orders
              /\ sess[u].pc \in Working /\ sess'[u].o = sess[u].o /\ sess'[u].lines = orders[sess[u].o].lines
<1>0. sess \in [Sessions -> Locals] /\ Idle.pc = "idle" /\ "idle" \notin Working
  BY IdleType DEF TypeOK, Working
<1>1. ASSUME Placing(u) PROVE FALSE
  <2>1. CASE FetchStart(u) \/ FetchDone(u)
    <3>1. sess'[u].pc = "fetchSeen" \/ sess'[u].pc = "idle"
      BY <1>0, <2>1 DEF FetchStart, FetchDone, Finish, Idle
    <3>2. QED
      BY <3>1 DEF Working
  <2>2. CASE FetchSeen(u) \/ FetchOrder(u)
    <3>1. sess'[u].pc = "fetchOrder"
      BY <1>0, <2>2 DEF FetchSeen, FetchOrder, Locals
    <3>2. QED
      BY <3>1 DEF Working
  <2>3. QED
    BY <1>1, <2>1, <2>2 DEF Placing, Place, Delete
<1>2. ASSUME NEW o \in Ids, NEW l, NEW v, PickStart(u, o, l, v)
      PROVE  /\ sess'[u].o = o /\ Exists(o) /\ orders[o].status # "shipped"
             /\ orders' = orders /\ Serves[u] \cap Clerk # {} /\ sess'[u].pc # "shipTx"
  BY <1>0, <1>2 DEF PickStart, Ask, Idle, Clerk
<1>3. ASSUME NEW o \in Ids, ShipStart(u, o)
      PROVE  /\ sess'[u].o = o /\ Exists(o) /\ orders[o].status # "shipped"
             /\ orders' = orders /\ Serves[u] \cap Clerk # {} /\ sess'[u].pc # "shipTx"
  <2>1. sess'[u].o = o /\ sess'[u].pc = IF orders[o].status = "shipped" THEN "after" ELSE "shipLines"
    BY <1>0, <1>3 DEF ShipStart, Idle
  <2>2. orders[o].status # "shipped" /\ sess'[u].pc = "shipLines"
    BY <2>1 DEF Working
  <2>3. QED
    BY <1>3, <2>1, <2>2 DEF ShipStart, Ask, Clerk
<1>4. PickItem(u) \/ PickCount(u) => sess'[u].o = sess[u].o /\ sess'[u].pc # "shipTx" /\ sess[u].pc \in Working
  BY <1>0 DEF PickItem, PickCount, Locals, Working
<1>5. ~ PickStatus(u) /\ ~ Die(u)
  BY <1>0 DEF PickStatus, Die, Finish
<1>6. ShipLines(u) => sess'[u].o = sess[u].o /\ sess'[u].lines = orders[sess[u].o].lines /\ sess[u].pc \in Working
  BY <1>0 DEF ShipLines, Locals, Working
<1>7. ASSUME Shipping(u), ~ ShipLines(u), ~ \E o \in Ids : ShipStart(u, o) PROVE FALSE
  <2>0. ~ NextLine(u)
    BY <1>0 DEF NextLine, Finish, Locals, Working
  <2>1. ~ ShipTx(u)
    BY <1>0 DEF ShipTx, Locals, Working
  <2>2. ~ AfterEbay(u) /\ ~ AfterOther(u)
    BY <1>0 DEF AfterEbay, AfterOther, Finish, Idle, Working
  <2>3. ~ SyncRead(u) /\ ~ SyncPush(u)
    BY <1>0 DEF SyncRead, SyncPush, Locals, Working
  <2>4. ~ SyncLive(u)
    BY <1>0, <2>0 DEF SyncLive, Locals, Working
  <2>5. ~ SyncSave(u)
    BY <1>0, <2>0 DEF SyncSave, Locals, Working
  <2>6. ~ SyncSkip(u) /\ ~ SyncEnd(u)
    BY <2>0 DEF SyncSkip, SyncEnd
  <2>7. ~ \E r \in Rows, st \in {"listed", "in_stock"} : Mark(u, r, st)
    BY DEF Mark
  <2>8. QED
    BY <1>7, <2>1, <2>2, <2>3, <2>4, <2>5, <2>6, <2>7 DEF Shipping
<1>8. CASE Picking(u)
  BY <1>2, <1>4, <1>5, <1>8 DEF Picking, PickCount
<1>9. CASE Shipping(u)
  BY <1>3, <1>6, <1>7, <1>9 DEF ShipLines
<1>10. QED
  BY <1>1, <1>5, <1>8, <1>9, OwnStep

LEMMA ClerkNext == OneClerk /\ TypeInv /\ ClerkInv /\ [Next]_vars => ClerkInv'
<1> SUFFICES ASSUME OneClerk, TypeInv, ClerkInv, [Next]_vars, NEW u \in Sessions, sess'[u].pc \in Working
             PROVE  AtWork(u)'
  BY DEF ClerkInv
<1>0. TypeOK /\ sess \in [Sessions -> Locals] /\ "idle" \notin Working
  BY DEF TypeInv, TypeOK, Working
<1>1. CASE sess'[u] = sess[u]
  <2> DEFINE o == sess[u].o
  <2>0. AtWork(u) /\ o \in Ids /\ Exists(o) /\ orders[o].status # "shipped" /\ Serves[u] \cap Clerk # {}
    BY <1>1 DEF ClerkInv, AtWork, Exists
  <2>1. ASSUME NEW s \in Sessions, ShipTx(s) PROVE FALSE
    <3>1. s = u
      BY <2>0, <2>1 DEF ShipTx, ClerkInv, AtWork, OneClerk, Working
    <3>2. sess'[s].pc = "after"
      BY <1>0, <2>1 DEF ShipTx, Locals
    <3>3. QED
      BY <3>1, <3>2 DEF Working
  <2>2. ASSUME NEW s \in Sessions, Delete(s, o) PROVE FALSE
    <3>1. s = u /\ sess[s].pc = "idle"
      BY <2>0, <2>2 DEF Delete, Ask, Clerk, OneClerk
    <3>2. QED
      BY <1>0, <1>1, <3>1
  <2>3. o \in Ids' /\ Rewritten(o)
    BY <2>0, OrderStep
  <2>4. orders'[o].status # "gone" /\ orders'[o].status # "shipped" /\ SameLines(orders'[o].lines, orders[o].lines)
    BY <2>0, <2>1, <2>2, <2>3 DEF Rewritten, Exists, SameLines
  <2>5. sess[u].pc = "shipTx" => SameLines(sess[u].lines, orders'[o].lines)
    BY <2>0, <2>4 DEF AtWork, SameLines
  <2>6. QED
    BY <1>1, <2>0, <2>3, <2>4, <2>5 DEF AtWork, Exists
<1>2. CASE sess'[u] # sess[u]
  <2>1. CASE /\ \E o \in Ids : sess'[u].o = o /\ Exists(o) /\ orders[o].status # "shipped"
             /\ orders' = orders /\ Serves[u] \cap Clerk # {} /\ sess'[u].pc # "shipTx"
    BY <2>1 DEF AtWork, Exists, Ids
  <2>2. CASE /\ PickItem(u) \/ (PickCount(u) /\ orders' = orders)
             /\ sess[u].pc \in Working /\ sess'[u].o = sess[u].o /\ sess'[u].pc # "shipTx"
    <3> DEFINE o == sess[u].o
    <3>0. Serves[u] \cap Clerk # {} /\ o \in Ids /\ Exists(o) /\ orders[o].status # "shipped"
      BY <2>2 DEF ClerkInv, AtWork, Exists
    <3>1. o \in Ids' /\ orders'[o].status = orders[o].status
      <4>1. CASE orders' = orders
        BY <3>0, <4>1 DEF Ids
      <4>2. CASE PickItem(u)
        <5>1. orders[o] \in OrderRec /\ Ids = DOMAIN orders
          BY <1>0, <3>0, IdsAre
        <5>2. orders' = [orders EXCEPT ![o] = [orders[o] EXCEPT
                            !.lines = [orders[o].lines EXCEPT ![sess[u].l] = [orders[o].lines[sess[u].l] EXCEPT !.picked = sess[u].val]]]]
          BY <3>0, <4>2 DEF PickItem
        <5>3. ASSUME NEW ls, orders' = [orders EXCEPT ![o] = [orders[o] EXCEPT !.lines = ls]]
              PROVE  orders'[o].status = orders[o].status
          BY <3>0, <5>1, <5>3 DEF OrderRec
        <5>4. QED
          BY <3>0, <5>2, <5>3, OrderStep
      <4>3. QED
        BY <2>2, <4>1, <4>2
    <3>2. QED
      BY <2>2, <3>0, <3>1 DEF AtWork, Exists
  <2>3. CASE /\ ShipLines(u) /\ orders' = orders
             /\ sess[u].pc \in Working /\ sess'[u].o = sess[u].o /\ sess'[u].lines = orders[sess[u].o].lines
    BY <2>3 DEF ClerkInv, AtWork, Exists, Ids, SameLines
  <2>4. QED
    BY <1>0, <1>2, <2>1, <2>2, <2>3, ClerkStep
<1>3. QED
  BY <1>1, <1>2

Shipped(table) == {o \in 1..Len(table) : table[o].status = "shipped"}

Left(n, g) == IF n > g THEN n - g ELSE 0

\* What StockMatchesShipped says of a table of orders and an inventory.
StockLeft(table, stock) == \A r \in Rows : stock[r].qty = Left(Stock[r], UnitsIn(table, Shipped(table), r))

LEMMA StockIs == StockMatchesShipped <=> StockLeft(orders, inv)
BY DEF StockMatchesShipped, StockLeft, UnitsOf, UnitsIn, Shipped, Ids, Left, MapThenSumSet, MapThenFoldSet

LEMMA StockIsThen == StockMatchesShipped' <=> StockLeft(orders', inv')
BY DEF StockMatchesShipped, StockLeft, UnitsOf, UnitsIn, Shipped, Ids, Left, MapThenSumSet, MapThenFoldSet

\* Nothing is shipped to begin with.
LEMMA StockInit == Init => StockMatchesShipped
<1> SUFFICES ASSUME Init PROVE StockLeft(orders, inv)
  BY StockIs
<1>1. orders \in Seq(OrderRec) /\ Shipped(orders) = {}
  BY EmptySeq DEF Init, Shipped
<1>2. ASSUME NEW r \in Rows PROVE UnitsIn(orders, {}, r) = 0
  <2>1. UnitsEach(orders, {}, r) \in [{} -> Nat] /\ UnitsIn(orders, {}, r) = Total(UnitsEach(orders, {}, r)) /\ IsFiniteSet({})
    BY <1>1, UnitsInTotal
  <2>2. QED
    BY <2>1, TotalType
<1>3. \A r \in Rows : Stock[r] \in Nat /\ Stock[r] > 0 /\ inv[r].qty = Stock[r]
  BY StockAssumption DEF Init
<1>4. QED
  BY <1>1, <1>2, <1>3 DEF StockLeft, Left

\* Shipping, whatever is left.
LEMMA LeftTwice ==
    ASSUME NEW n \in Nat, NEW g \in Nat, NEW u \in Nat
    PROVE  (IF Left(n, g) > u THEN Left(n, g) - u ELSE 0) = Left(n, u + g)
BY DEF Left

LEMMA StockNext == TypeInv /\ ClerkInv /\ StockMatchesShipped /\ [Next]_vars => StockMatchesShipped'
<1> SUFFICES ASSUME TypeInv, ClerkInv, StockLeft(orders, inv), [Next]_vars PROVE StockLeft(orders', inv')
  BY StockIs, StockIsThen
<1>0. /\ TypeOK /\ orders \in Seq(OrderRec) /\ orders' \in Seq(OrderRec)
      /\ Ids = 1..Len(orders) /\ Ids = DOMAIN orders /\ Ids' = 1..Len(orders') /\ Ids' = DOMAIN orders'
      /\ \A o \in Ids : orders[o] \in OrderRec /\ orders[o].lines \in Seq(LineRec)
      /\ \A o \in Ids' : orders'[o] \in OrderRec /\ orders'[o].lines \in Seq(LineRec)
  BY IdsAre, OrderStep, OrdersTable DEF TypeInv, TypeOK, Ids
<1>1. CASE \E s \in Sessions : ShipTx(s)
  <2>1. PICK s \in Sessions : ShipTx(s)
    BY <1>1
  <2> DEFINE o == sess[s].o
             ls == [l \in DOMAIN orders[o].lines |-> [orders[o].lines[l] EXCEPT !.picked = TRUE]]
             e == [orders[o] EXCEPT !.status = "shipped", !.lines = ls]
  <2>2. /\ Exists(o) /\ o \in Ids /\ orders[o].status # "shipped"
        /\ SameLines(sess[s].lines, orders[o].lines) /\ sess[s].lines \in Seq(LineRec)
    BY <1>0, <2>1 DEF ShipTx, ClerkInv, AtWork, Working, Exists, TypeOK, Locals
  <2>3. orders' = [orders EXCEPT ![o] = e] /\ inv' = TakeOff(sess[s].lines)
    BY <2>1, <2>2 DEF ShipTx
  <2>4. orders'[o] = e /\ DOMAIN orders' = DOMAIN orders /\ \A j \in Ids : j # o => orders'[j] = orders[j]
    BY <1>0, <2>2, <2>3
  <2>5. e.status = "shipped" /\ e.lines = ls
    BY <1>0, <2>2 DEF OrderRec
  <2>6. \A r : Units(sess[s].lines, r) = Units(orders[o].lines, r)
    BY <1>0, <2>2, UnitsSame
  <2>7. SameLines(ls, orders[o].lines)
    <3>1. \A l \in DOMAIN orders[o].lines : orders[o].lines[l] \in LineRec
      BY <1>0, <2>2, LinesFine
    <3>2. QED
      BY <3>1 DEF SameLines, LineRec
  <2> HIDE DEF ls, e, o
  <2>8. \A r : Units(orders'[o].lines, r) = Units(orders[o].lines, r)
    BY <1>0, <2>2, <2>4, <2>5, <2>7, UnitsSame
  <2> DEFINE old == Shipped(orders)
  <2>9. Shipped(orders') = old \cup {o} /\ o \notin old /\ old \subseteq Ids
    BY <1>0, <2>2, <2>4, <2>5 DEF Shipped
  <2> HIDE DEF old
  <2>10. ASSUME NEW r \in Rows PROVE inv'[r].qty = Left(Stock[r], UnitsIn(orders', Shipped(orders'), r))
    <3> DEFINE u == Units(orders[o].lines, r)
               g == UnitsIn(orders, old, r)
    <3>1. u \in Nat /\ g \in Nat
      BY <1>0, <2>2, <2>9, UnitsType, UnitsInType
    <3>2. UnitsIn(orders', old, r) = g
      <4>1. \A j \in old : Units(orders'[j].lines, r) = Units(orders[j].lines, r)
        BY <2>4, <2>9
      <4>2. QED
        BY <1>0, <2>4, <2>9, <4>1, UnitsInSame
    <3>3. UnitsIn(orders', old \cup {o}, r) = u + g
      BY <1>0, <2>2, <2>4, <2>8, <2>9, <3>2, UnitsInAdd
    <3>4. inv'[r].qty = IF inv[r].qty > u THEN inv[r].qty - u ELSE 0
      BY <1>0, <2>2, <2>3, <2>6, TakeOffIs
    <3>5. inv[r].qty = Left(Stock[r], g) /\ Stock[r] \in Nat
      BY StockAssumption DEF StockLeft, old
    <3> HIDE DEF u, g
    <3>6. QED
      BY <2>9, <3>1, <3>3, <3>4, <3>5, LeftTwice
  <2>11. QED
    BY <2>10 DEF StockLeft
<1>2. CASE ~ \E s \in Sessions : ShipTx(s)
  <2>1. ASSUME NEW o \in Ids
        PROVE  /\ orders[o].status = "shipped" => orders'[o] = orders[o]
               /\ orders'[o].status = "shipped" => orders[o].status = "shipped"
    <3>1. ASSUME NEW s \in Sessions, PickItem(s) \/ PickStatus(s), sess[s].o = o PROVE orders[o].status # "shipped"
      BY <3>1 DEF PickItem, PickStatus, ClerkInv, AtWork, Working
    <3>2. Rewritten(o)
      BY OrderStep
    <3>3. QED
      BY <1>2, <3>1, <3>2 DEF Rewritten
  <2>2. \A o \in Ids' \ Ids : orders'[o].status # "shipped"
    BY OrderStep
  <2>3. Shipped(orders') = Shipped(orders) /\ Shipped(orders) \subseteq Ids /\ Ids \subseteq Ids'
    <3>1. Ids \subseteq Ids'
      BY OrderStep
    <3>2. QED
      BY <1>0, <2>1, <2>2, <3>1 DEF Shipped
  <2>4. ASSUME NEW r \in Rows PROVE UnitsIn(orders', Shipped(orders'), r) = UnitsIn(orders, Shipped(orders), r)
    <3>1. \A o \in Shipped(orders) : Units(orders'[o].lines, r) = Units(orders[o].lines, r)
      BY <1>0, <2>1 DEF Shipped
    <3>2. QED
      BY <1>0, <2>3, <3>1, UnitsInSame
  <2>5. \A r \in Rows : inv'[r].qty = inv[r].qty
    BY <1>0, <1>2, InvStep
  <2>6. QED
    BY <2>4, <2>5 DEF StockLeft
<1>3. QED
  BY <1>1, <1>2

\* "Quantities come off inventory when you ship": where one request at a time picks, ships and
\* deletes, the units of the shipped orders are off the rows, once, and no other order's are,
\* whatever is placed, fetched or marked beside it and wherever a request stops.
THEOREM OrdersStockMatchesShipped == OneClerk /\ Spec => []StockMatchesShipped
<1>1. OneClerk => OneClerk'
  BY DEF OneClerk
<1>2. QED
  BY TypeInit, TypeNext, ClerkInit, ClerkNext, StockInit, StockNext, <1>1, PTL DEF Spec

-----------------------------------------------------------------------------
(* The abstract fulfilment.                                                *)

\* What the requests made so far may have booked.
Booked == asked["place"] + Cardinality(Refs) * asked["fetch"]

Fetching(s) == sess[s].pc \in {"fetchSeen", "fetchOrder"}

\* The orders, and those a fetch has still to import, are among what was asked for.
CountInv ==
    /\ \A k \in Kinds : asked[k] <= Budget[k]
    /\ Len(orders) <= Booked
    /\ \A s \in Sessions : Fetching(s) => Len(orders) + Cardinality(sess[s].refs) <= Booked

LEMMA Times ==
    ASSUME NEW c \in Nat, NEW m \in Nat, NEW n \in Nat, m <= n
    PROVE  c * m \in Nat /\ c * n \in Nat /\ c * m <= c * n /\ c * (m + 1) = c * m + c
<1>1. PICK d \in Nat : n = m + d
  <2>1. n - m \in Nat /\ n = m + (n - m)
    OBVIOUS
  <2>2. QED
    BY <2>1
<1>2. c * (m + d) = c * m + c * d /\ c * m \in Nat /\ c * d \in Nat
  OBVIOUS
<1>3. c * (m + 1) = c * m + c
  OBVIOUS
<1>4. QED
  BY <1>1, <1>2, <1>3

\* A step counts at most one request, within its budget.
LEMMA AskedStep ==
    ASSUME TypeOK, [Next]_vars
    PROVE  \/ asked' = asked
           \/ \E k \in Kinds : asked[k] < Budget[k] /\ asked' = [asked EXCEPT ![k] = @ + 1]
<1>1. ASSUME NEW s \in Sessions, NEW k \in Kinds, Ask(s, k)
      PROVE  asked[k] < Budget[k] /\ asked' = [asked EXCEPT ![k] = @ + 1]
  BY <1>1 DEF Ask
<1>2. \A k \in {"place", "fetch", "pick", "ship", "delete", "mark", "die"} : k \in Kinds
  BY DEF Kinds
<1>3. ASSUME NEW s \in Sessions, Placing(s)
      PROVE  asked' = asked \/ \E k \in Kinds : Ask(s, k)
  BY <1>2, <1>3 DEF Placing, Place, FetchStart, FetchSeen, FetchOrder, FetchDone, Delete
<1>4. ASSUME NEW s \in Sessions, Picking(s)
      PROVE  asked' = asked \/ \E k \in Kinds : Ask(s, k)
  BY <1>2, <1>4 DEF Picking, PickStart, PickItem, PickCount, PickStatus
<1>5. ASSUME NEW s \in Sessions, Shipping(s)
      PROVE  asked' = asked \/ \E k \in Kinds : Ask(s, k)
  BY <1>2, <1>5 DEF Shipping, ShipStart, ShipLines, ShipTx, AfterEbay, AfterOther, SyncSkip, SyncRead, SyncLive,
              SyncPush, SyncSave, SyncEnd, Mark
<1>6. ASSUME NEW s \in Sessions, Die(s)
      PROVE  asked["die"] < Budget["die"] /\ asked' = [asked EXCEPT !["die"] = @ + 1]
  BY <1>6 DEF Die
<1>7. QED
  BY <1>1, <1>2, <1>3, <1>4, <1>5, <1>6 DEF Next, vars, Buy

LEMMA CountInit == Init => CountInv
<1> SUFFICES ASSUME Init PROVE CountInv
  OBVIOUS
<1>1. Len(orders) = 0
  BY DEF Init
<1>2. asked["place"] = 0 /\ asked["fetch"] = 0 /\ Cardinality(Refs) \in Nat /\ \A k \in Kinds : asked[k] = 0 /\ Budget[k] \in Nat
  BY StockAssumption, RequestAssumption, FS_CardinalityType DEF Init, Kinds
<1>3. \A s \in Sessions : ~ Fetching(s)
  BY DEF Init, Fetching, Idle
<1>4. QED
  BY <1>1, <1>2, <1>3 DEF CountInv, Booked

LEMMA CountNext == OneFetch /\ TypeInv /\ FetchInv /\ CountInv /\ [Next]_vars => CountInv'
<1> SUFFICES ASSUME OneFetch, TypeInv, TypeInv', FetchInv, CountInv, [Next]_vars PROVE CountInv'
  BY TypeNext
<1> DEFINE C == Cardinality(Refs)
<1>0. /\ TypeOK /\ IsFiniteSet(Refs) /\ C \in Nat
      /\ asked \in [Kinds -> Nat] /\ asked' \in [Kinds -> Nat] /\ Budget \in [Kinds -> Nat]
      /\ "place" \in Kinds /\ "fetch" \in Kinds
      /\ sess \in [Sessions -> Locals] /\ sess' \in [Sessions -> Locals]
  BY StockAssumption, RequestAssumption, FS_CardinalityType DEF TypeInv, TypeOK, Kinds
<1>1. ASSUME NEW k \in Kinds PROVE asked[k] <= asked'[k] /\ asked'[k] <= Budget[k]
  <2>1. asked[k] <= Budget[k] /\ asked[k] \in Nat /\ Budget[k] \in Nat
    BY <1>0 DEF CountInv
  <2>2. ASSUME NEW i \in Kinds, asked[i] < Budget[i], asked' = [asked EXCEPT ![i] = @ + 1]
        PROVE  asked[k] <= asked'[k] /\ asked'[k] <= Budget[k]
    <3>1. asked'[k] = IF k = i THEN asked[k] + 1 ELSE asked[k]
      BY <1>0, <2>2
    <3>2. QED
      BY <2>1, <2>2, <3>1
  <2>3. QED
    BY <1>0, <2>1, <2>2, AskedStep
<1>2. Booked <= Booked' /\ Booked \in Nat /\ Booked' \in Nat
  <2>1. C * asked["fetch"] <= C * asked'["fetch"] /\ C * asked["fetch"] \in Nat /\ C * asked'["fetch"] \in Nat
    BY <1>0, <1>1, Times
  <2>2. QED
    BY <1>0, <1>1, <2>1 DEF Booked
<1>3. ASSUME NEW s \in Sessions
      PROVE  /\ IsFiniteSet(sess[s].refs) /\ IsFiniteSet(sess'[s].refs)
             /\ Cardinality(sess[s].refs) \in Nat /\ Cardinality(sess'[s].refs) \in Nat /\ Cardinality(sess'[s].refs) <= C
             /\ sess'[s].refs \subseteq sess[s].refs => Cardinality(sess'[s].refs) <= Cardinality(sess[s].refs)
  <2>1. sess[s].refs \subseteq Refs /\ sess'[s].refs \subseteq Refs
    BY <1>0 DEF Locals
  <2>2. QED
    BY <1>0, <2>1, FS_Subset, FS_CardinalityType
<1>4. Len(orders) \in Nat /\ Len(orders') \in Nat /\ Ids = 1..Len(orders) /\ Ids' = 1..Len(orders')
  BY IdsAre, OrderStep, OrdersTable DEF TypeInv, Ids
<1>5. CASE Len(orders') = Len(orders)
  <2>1. ASSUME NEW u \in Sessions, Fetching(u)'
        PROVE  Len(orders') + Cardinality(sess'[u].refs) <= Booked'
    <3>1. CASE sess'[u].refs \subseteq sess[u].refs /\ Fetching(u)
      BY <1>2, <1>3, <1>4, <1>5, <3>1 DEF CountInv
    <3>2. CASE FetchStart(u)
      <4>1. asked'["fetch"] = asked["fetch"] + 1 /\ asked'["place"] = asked["place"]
        BY <1>0, <3>2 DEF FetchStart, Ask
      <4>2. C * (asked["fetch"] + 1) = C * asked["fetch"] + C /\ C * asked["fetch"] \in Nat
        BY <1>0, Times
      <4>3. Booked' = Booked + C
        BY <1>0, <4>1, <4>2 DEF Booked
      <4>4. QED
        BY <1>0, <1>2, <1>3, <1>4, <1>5, <4>3 DEF CountInv
    <3>3. CASE sess'[u] = sess[u] \/ FetchSeen(u) \/ FetchOrder(u)
      <4>1. FetchSeen(u) => sess'[u].refs \subseteq sess[u].refs /\ Fetching(u)
        BY <1>0 DEF FetchSeen, Fetching, Locals
      <4>2. FetchOrder(u) => sess'[u].refs \subseteq sess[u].refs /\ Fetching(u)
        BY <1>0 DEF FetchOrder, Fetching, Locals
      <4>3. sess'[u] = sess[u] => Fetching(u)
        BY <2>1 DEF Fetching
      <4>4. QED
        BY <3>1, <3>3, <4>1, <4>2, <4>3
    <3>4. QED
      BY <1>0, <2>1, <3>2, <3>3, FetchStep DEF Fetching
  <2>2. QED
    BY <1>1, <1>2, <1>4, <1>5, <2>1 DEF CountInv
<1>6. CASE Len(orders') # Len(orders)
  <2>1. Len(orders') = Len(orders) + 1 /\ Len(orders') \in Ids' \ Ids
    <3>1. \A o \in Ids : o \in Ids'
      BY OrderStep
    <3>2. \A o \in Ids' \ Ids : o = Len(orders) + 1
      BY OrderStep
    <3>3. Len(orders) <= Len(orders')
      BY <1>4, <3>1
    <3>4. Len(orders') \in Ids' \ Ids
      BY <1>4, <1>6, <3>3
    <3>5. QED
      BY <3>2, <3>4
  <2>2. ASSUME NEW s \in Sessions, NEW b, Place(s, b) PROVE CountInv'
    <3>1. asked'["fetch"] = asked["fetch"] /\ asked'["place"] = asked["place"] + 1 /\ sess' = sess
      BY <1>0, <2>2 DEF Place, Ask
    <3>2. Booked' = Booked + 1
      <4>1. C * asked["fetch"] \in Nat
        BY <1>0, Times
      <4>2. QED
        BY <1>0, <3>1, <4>1 DEF Booked
    <3>3. QED
      BY <1>1, <1>2, <1>3, <1>4, <2>1, <3>1, <3>2 DEF CountInv, Fetching
  <2>3. ASSUME NEW s \in Sessions, FetchOrder(s), NEW f \in sess[s].refs, sess'[s].refs = sess[s].refs \ {f} PROVE CountInv'
    <3>1. asked' = asked /\ Booked' = Booked /\ Fetching(s) /\ "fetch" \in Serves[s]
      BY <2>3 DEF FetchOrder, Booked, Fetching, FetchInv
    <3>2. Cardinality(sess'[s].refs) = Cardinality(sess[s].refs) - 1
      BY <1>3, <2>3, FS_RemoveElement
    <3>3. Len(orders') + Cardinality(sess'[s].refs) <= Booked'
      BY <1>2, <1>3, <1>4, <2>1, <3>1, <3>2 DEF CountInv
    <3>4. ASSUME NEW u \in Sessions, Fetching(u)' PROVE u = s
      <4>1. ~ FetchStart(u)
        <5>1. FetchStart(u) => asked'["fetch"] = asked["fetch"] + 1
          BY <1>0 DEF FetchStart, Ask
        <5>2. QED
          BY <1>0, <3>1, <5>1
      <4>2. Fetching(u)
        <5>1. sess'[u] = sess[u] => Fetching(u)
          BY <3>4 DEF Fetching
        <5>2. FetchSeen(u) \/ FetchOrder(u) => Fetching(u)
          BY DEF FetchSeen, FetchOrder, Fetching
        <5>3. QED
          BY <1>0, <3>4, <4>1, <5>1, <5>2, FetchStep DEF Fetching
      <4>3. QED
        BY <3>1, <4>2 DEF FetchInv, Fetching, OneFetch
    <3>5. QED
      BY <1>1, <1>2, <1>3, <1>4, <3>3, <3>4 DEF CountInv
  <2>4. QED
    BY <2>1, <2>2, <2>3, OrderStep
<1>7. QED
  BY <1>5, <1>6

\* An order whose lines and standing are kept is the same to the abstract fulfilment.
LEMMA SameOrder ==
    ASSUME TypeInv, [Next]_vars, NEW o \in Ids, Exists(o), Exists(o)',
           orders[o].status = "shipped" <=> orders'[o].status = "shipped"
    PROVE  Stage(o)' = Stage(o) /\ Need(o)' = Need(o)
<1>1. o \in Ids' /\ orders' \in Seq(OrderRec) /\ SameLines(orders'[o].lines, orders[o].lines)
  BY OrderStep, OrderKept
<1>2. orders[o].lines \in Seq(LineRec) /\ orders'[o].lines \in Seq(LineRec)
  BY <1>1, IdsAre, OrdersTable DEF TypeInv, Ids
<1>3. \A r : Units(orders'[o].lines, r) = Units(orders[o].lines, r)
  BY <1>1, <1>2, UnitsSame
<1>4. Need(o)' = Need(o)
  BY <1>3 DEF Need
<1>5. Stage(o)' = Stage(o)
  BY <1>1 DEF Stage, Exists
<1>6. QED
  BY <1>4, <1>5

\* An order that is not written, or not there, is the same too.
LEMMA OtherOrder ==
    ASSUME NEW o, o \in Ids <=> o \in Ids', o \in Ids => orders'[o] = orders[o]
    PROVE  Stage(o)' = Stage(o) /\ Need(o)' = Need(o)
BY DEF Stage, Need, Exists

LEMMA StageIs ==
    ASSUME NEW o
    PROVE  /\ o \notin Ids => Stage(o) = "none"
           /\ Exists(o) /\ orders[o].status # "shipped" => Stage(o) = "waiting"
           /\ Exists(o) /\ orders[o].status = "shipped" => Stage(o) = "shipped"
           /\ o \in Ids /\ ~ Exists(o) => Stage(o) = "deleted" /\ Need(o) = [r \in Rows |-> 0]
BY DEF Stage, Exists, Need

\* One order is written: what the abstract variables become.
LEMMA OneWritten ==
    ASSUME NEW n \in 1..MaxOrders,
           \A o \in 1..MaxOrders : o # n => Stage(o)' = Stage(o) /\ Need(o)' = Need(o)
    PROVE  /\ [o \in 1..MaxOrders |-> Stage(o)]' = [[o \in 1..MaxOrders |-> Stage(o)] EXCEPT ![n] = Stage(n)']
           /\ [o \in 1..MaxOrders |-> Need(o)]' = [[o \in 1..MaxOrders |-> Need(o)] EXCEPT ![n] = Need(n)']
           /\ [o \in 1..MaxOrders |-> Need(o)]'[n] = Need(n)'
<1>1. MaxOrders' = MaxOrders
  BY DEF MaxOrders
<1>2. QED
  BY <1>1

LEMMA NothingWritten ==
    ASSUME \A o \in 1..MaxOrders : Stage(o)' = Stage(o) /\ Need(o)' = Need(o),
           \A r \in Rows : inv'[r].qty = inv[r].qty
    PROVE  UNCHANGED Fulfil!vars
<1>1. MaxOrders' = MaxOrders
  BY DEF MaxOrders
<1>2. QED
  BY <1>1 DEF Fulfil!vars

\* There is an id for every order.
LEMMA RoomLeft == TypeInv /\ CountInv => Len(orders) <= MaxOrders /\ MaxOrders \in Nat
<1> SUFFICES ASSUME TypeInv, CountInv PROVE Len(orders) <= MaxOrders /\ MaxOrders \in Nat
  OBVIOUS
<1>1. /\ asked["place"] <= Budget["place"] /\ asked["fetch"] <= Budget["fetch"] /\ Cardinality(Refs) \in Nat
      /\ asked["place"] \in Nat /\ asked["fetch"] \in Nat /\ Budget["place"] \in Nat /\ Budget["fetch"] \in Nat
  BY StockAssumption, RequestAssumption, FS_CardinalityType DEF TypeInv, TypeOK, CountInv, Kinds
<1>2. /\ Cardinality(Refs) * asked["fetch"] <= Cardinality(Refs) * Budget["fetch"]
      /\ Cardinality(Refs) * asked["fetch"] \in Nat /\ Cardinality(Refs) * Budget["fetch"] \in Nat
  BY <1>1, Times
<1>3. Len(orders) \in Nat
  BY IdsAre DEF TypeInv
<1>4. Len(orders) <= asked["place"] + Cardinality(Refs) * asked["fetch"]
  BY DEF CountInv, Booked
<1>5. PICK n : n = Cardinality(Refs) * asked["fetch"]
  OBVIOUS
<1>6. PICK m : m = Cardinality(Refs) * Budget["fetch"]
  OBVIOUS
<1>7. n \in Nat /\ m \in Nat /\ n <= m /\ Len(orders) <= asked["place"] + n
  BY <1>2, <1>4, <1>5, <1>6
<1>8. Len(orders) <= Budget["place"] + m /\ Budget["place"] + m \in Nat
  BY <1>1, <1>3, <1>7
<1>9. QED
  BY <1>6, <1>8 DEF MaxOrders

LEMMA FulfilInit == Init => Fulfil!Init
<1> SUFFICES ASSUME Init PROVE Fulfil!Init
  OBVIOUS
<1>1. \A o : o \notin Ids
  BY DEF Init, Ids
<1>2. \A o : Stage(o) = "none" /\ Need(o) = [r \in Rows |-> 0]
  BY <1>1 DEF Stage, Need, Exists
<1>3. [r \in Rows |-> inv[r].qty] = Stock
  BY StockAssumption DEF Init
<1>4. QED
  BY <1>2, <1>3 DEF Fulfil!Init, Fulfil!Nothing

\* A new order is placed.
LEMMA PlaceMaps ==
    ASSUME TypeInv, TypeInv', CountInv', [Next]_vars, Ids' # Ids
    PROVE  Fulfil!Next
<1>0. PICK n : n = Len(orders) + 1
  OBVIOUS
<1>1. /\ Ids = 1..Len(orders) /\ Ids' = 1..Len(orders') /\ Len(orders) \in Nat /\ Len(orders') \in Nat
      /\ orders' \in Seq(OrderRec)
  BY IdsAre, OrderStep, OrdersTable DEF TypeInv, Ids
<1>2. /\ \A o \in Ids : o \in Ids'
      /\ \A o \in Ids' \ Ids : o = n /\ orders'[o].status = "pending"
  BY <1>0, OrderStep
<1>3. Ids' = Ids \cup {n} /\ n \in Ids' /\ n \notin Ids /\ Len(orders') = n /\ orders'[n].status = "pending"
  <2>1. Len(orders) <= Len(orders') /\ Len(orders) # Len(orders')
    BY <1>1, <1>2
  <2>2. Len(orders') \in Ids' \ Ids
    BY <1>1, <2>1
  <2>3. Len(orders') = n
    BY <1>2, <2>2
  <2>4. QED
    BY <1>1, <1>2, <2>2, <2>3
<1>4. n \in 1..MaxOrders
  <2>1. Len(orders') <= MaxOrders' /\ MaxOrders' \in Nat /\ MaxOrders' = MaxOrders
    <3>1. (TypeInv /\ CountInv => Len(orders) <= MaxOrders /\ MaxOrders \in Nat)'
      BY RoomLeft, PTL
    <3>2. QED
      BY <3>1 DEF MaxOrders
  <2>2. QED
    BY <1>1, <1>3, <2>1
<1>5. PICK s \in Sessions : FetchOrder(s) \/ \E b \in Baskets : Place(s, b)
  BY <1>2, <1>3, OrderStep
<1>6. \E ref, b : CreateOrder(ref, b) /\ b \in Baskets2 /\ ref \in Refs \cup {NoRef}
  <2>1. sess[s].refs \subseteq Refs
    BY DEF TypeInv, TypeOK, Locals
  <2>2. CASE FetchOrder(s)
    BY <2>1, <2>2 DEF FetchOrder, Baskets2
  <2>3. CASE \E b \in Baskets : Place(s, b)
    BY <2>3 DEF Place, Baskets2
  <2>4. QED
    BY <1>5, <2>2, <2>3
<1>7. PICK rec \in OrderRec : orders' = Append(orders, rec)
  BY <1>6, NewOrder DEF TypeInv
<1>8. \A o \in Ids : orders'[o] = orders[o]
  BY <1>1, <1>7, AddRow DEF TypeInv, TypeOK
<1>9. \A o \in 1..MaxOrders : o # n => Stage(o)' = Stage(o) /\ Need(o)' = Need(o)
  BY <1>3, <1>8, OtherOrder
<1>10. Stage(n) = "none" /\ Stage(n)' = "waiting"
  BY <1>3 DEF Stage
<1>11. Need(n)' \in [Rows -> Nat]
  <2>1. orders'[n].lines \in Seq(LineRec)
    BY <1>1, <1>3, OrdersTable
  <2>2. \A r \in Rows : Units(orders'[n].lines, r) \in Nat
    BY <2>1, UnitsType
  <2>3. QED
    BY <2>2 DEF Need
<1>12. inv' = inv
  BY <1>5 DEF FetchOrder, Place
<1>13. Fulfil!Place(n)
  BY <1>4, <1>9, <1>10, <1>11, <1>12, OneWritten DEF Fulfil!Place
<1>14. QED
  BY <1>4, <1>13 DEF Fulfil!Next

\* An order is shipped: its units come off as the abstract shipping takes them.
LEMMA ShipMaps ==
    ASSUME TypeInv, ClerkInv, CountInv, [Next]_vars, NEW s \in Sessions, ShipTx(s)
    PROVE  Fulfil!Next
<1>0. PICK o : o = sess[s].o
  OBVIOUS
<1>1. /\ Exists(o) /\ o \in Ids /\ orders[o].status # "shipped"
      /\ SameLines(sess[s].lines, orders[o].lines) /\ sess[s].lines \in Seq(LineRec)
  BY <1>0 DEF ShipTx, ClerkInv, AtWork, Working, Exists, TypeInv, TypeOK, Locals
<1>2. /\ Ids = 1..Len(orders) /\ Ids = DOMAIN orders /\ Len(orders) \in Nat
      /\ orders[o] \in OrderRec /\ orders[o].lines \in Seq(LineRec) /\ orders \in Seq(OrderRec)
  BY <1>1, IdsAre DEF TypeInv, TypeOK
<1> DEFINE ls == [l \in DOMAIN orders[o].lines |-> [orders[o].lines[l] EXCEPT !.picked = TRUE]]
           e == [orders[o] EXCEPT !.status = "shipped", !.lines = ls]
<1>3. orders' = [orders EXCEPT ![o] = e] /\ inv' = TakeOff(sess[s].lines)
  BY <1>0, <1>1 DEF ShipTx
<1>4. e.status = "shipped"
  BY <1>2 DEF OrderRec
<1> HIDE DEF e, ls
<1>5. orders'[o] = e /\ DOMAIN orders' = DOMAIN orders /\ \A j \in Ids : j # o => orders'[j] = orders[j]
  BY <1>1, <1>2, <1>3
<1>6. Ids' = Ids
  BY <1>2, <1>5, OrderStep, OrdersTable DEF Ids
<1>7. \A j \in 1..MaxOrders : j # o => Stage(j)' = Stage(j) /\ Need(j)' = Need(j)
  BY <1>5, <1>6, OtherOrder
<1>8. o \in 1..MaxOrders
  BY <1>1, <1>2, RoomLeft
<1>9. Stage(o) = "waiting" /\ Stage(o)' = "shipped"
  BY <1>1, <1>4, <1>5, <1>6 DEF Stage, Exists
<1>10. Need(o)' = Need(o)
  <2>1. /\ SameLines(orders'[o].lines, orders[o].lines) /\ Exists(o)' /\ orders'[o].lines \in Seq(LineRec)
    BY <1>1, <1>4, <1>5, <1>6, OrderKept, OrderStep, OrdersTable DEF Exists, Ids
  <2>2. \A r : Units(orders'[o].lines, r) = Units(orders[o].lines, r)
    BY <1>2, <2>1, UnitsSame
  <2>3. QED
    BY <1>1, <2>1, <2>2 DEF Need
<1>11. ASSUME NEW r \in Rows
       PROVE  inv'[r].qty = IF inv[r].qty > Need(o)[r] THEN inv[r].qty - Need(o)[r] ELSE 0
  <2>1. inv'[r].qty = IF inv[r].qty > Units(sess[s].lines, r) THEN inv[r].qty - Units(sess[s].lines, r) ELSE 0
    BY <1>1, <1>3, TakeOffIs DEF TypeInv
  <2>2. Units(sess[s].lines, r) = Units(orders[o].lines, r) /\ Need(o)[r] = Units(orders[o].lines, r)
    BY <1>1, <1>2, UnitsSame DEF Need
  <2>3. QED
    BY <2>1, <2>2
<1>12. MaxOrders' = MaxOrders /\ [j \in 1..MaxOrders |-> Need(j)]' = [j \in 1..MaxOrders |-> Need(j)]
  <2>1. MaxOrders' = MaxOrders
    BY DEF MaxOrders
  <2>2. \A j \in 1..MaxOrders : Need(j)' = Need(j)
    BY <1>7, <1>10
  <2>3. QED
    BY <2>1, <2>2
<1>13. [r \in Rows |-> inv[r].qty]' = [r \in Rows |-> IF inv[r].qty > Need(o)[r] THEN inv[r].qty - Need(o)[r] ELSE 0]
  BY <1>11
<1>14. Fulfil!Ship(o)
  BY <1>7, <1>8, <1>9, <1>12, <1>13, OneWritten DEF Fulfil!Ship
<1>15. QED
  BY <1>8, <1>14 DEF Fulfil!Next

LEMMA DeleteMaps ==
    ASSUME TypeInv, CountInv, [Next]_vars, NEW s \in Sessions, NEW o \in Ids, Delete(s, o)
    PROVE  Fulfil!Next
<1>1. /\ Exists(o) /\ orders[o].status # "shipped" /\ inv' = inv
      /\ Ids = 1..Len(orders) /\ Ids = DOMAIN orders /\ Len(orders) \in Nat /\ orders[o] \in OrderRec
  BY IdsAre DEF Delete, TypeInv
<1> DEFINE e == [orders[o] EXCEPT !.status = "gone", !.lines = <<>>]
<1>2. orders' = [orders EXCEPT ![o] = e]
  BY DEF Delete
<1>3. e.status = "gone"
  BY <1>1 DEF OrderRec
<1> HIDE DEF e
<1>4. orders'[o] = e /\ DOMAIN orders' = DOMAIN orders /\ \A j \in Ids : j # o => orders'[j] = orders[j]
  BY <1>1, <1>2
<1>5. Ids' = Ids
  BY <1>1, <1>4, OrderStep, OrdersTable DEF Ids
<1>6. \A j \in 1..MaxOrders : j # o => Stage(j)' = Stage(j) /\ Need(j)' = Need(j)
  BY <1>4, <1>5, OtherOrder
<1>7. o \in 1..MaxOrders
  BY <1>1, RoomLeft
<1>8. Stage(o) = "waiting" /\ Stage(o)' = "deleted" /\ Need(o)' = [r \in Rows |-> 0]
  BY <1>1, <1>3, <1>4, <1>5 DEF Stage, Exists, Need
<1>9. Fulfil!Delete(o)
  BY <1>1, <1>6, <1>7, <1>8, OneWritten DEF Fulfil!Delete, Fulfil!Nothing
<1>10. QED
  BY <1>7, <1>9 DEF Fulfil!Next

LEMMA FulfilNext ==
    TypeInv /\ TypeInv' /\ ClerkInv /\ CountInv /\ CountInv' /\ [Next]_vars => [Fulfil!Next]_Fulfil!vars
<1> SUFFICES ASSUME TypeInv, TypeInv', ClerkInv, CountInv, CountInv', [Next]_vars PROVE Fulfil!Next \/ UNCHANGED Fulfil!vars
  OBVIOUS
<1>1. CASE Ids' # Ids
  BY <1>1, PlaceMaps
<1>2. CASE \E s \in Sessions : ShipTx(s)
  BY <1>2, ShipMaps
<1>3. CASE \E s \in Sessions : \E o \in Ids : Delete(s, o)
  BY <1>3, DeleteMaps
<1>4. ASSUME Ids' = Ids, ~ \E s \in Sessions : ShipTx(s), ~ \E s \in Sessions : \E o \in Ids : Delete(s, o)
      PROVE  UNCHANGED Fulfil!vars
  <2>1. ASSUME NEW o PROVE Stage(o)' = Stage(o) /\ Need(o)' = Need(o)
    <3>1. CASE o \notin Ids \/ orders'[o] = orders[o]
      BY <1>4, <3>1, OtherOrder
    <3>2. ASSUME NEW s \in Sessions, PickItem(s) \/ PickStatus(s), sess[s].o = o, o \in Ids
          PROVE  Exists(o) /\ orders[o].status # "shipped"
      BY <3>2 DEF PickItem, PickStatus, ClerkInv, AtWork, Working
    <3>3. CASE o \in Ids /\ orders'[o] # orders[o]
      <4>1. /\ Exists(o) /\ orders[o].status # "shipped"
            /\ orders'[o].status # "shipped" /\ orders'[o].status # "gone"
        BY <1>4, <3>2, <3>3, OrderStep DEF Rewritten, Exists
      <4>2. Exists(o)'
        BY <1>4, <3>3, <4>1 DEF Exists
      <4>3. QED
        BY <3>3, <4>1, <4>2, SameOrder
    <3>4. QED
      BY <3>1, <3>3
  <2>2. \A r \in Rows : inv'[r].qty = inv[r].qty
    BY <1>4, InvStep DEF TypeInv
  <2>3. QED
    BY <2>1, <2>2, NothingWritten
<1>5. QED
  BY <1>1, <1>2, <1>3, <1>4

\* The Orders page keeps the promise of Fulfilment: where one request at a time picks, ships and
\* deletes and one fetches, every order waits until it is shipped, its units off the rows once, or
\* deleted, and nothing else moves the stock; and every order has an id among the MaxOrders.
THEOREM OrdersImplementFulfilment == OneClerk /\ OneFetch /\ Spec => FulfilmentSpec
<1>1. OneClerk /\ OneFetch => (OneClerk /\ OneFetch)'
  BY DEF OneClerk, OneFetch
<1>2. QED
  BY TypeInit, TypeNext, ClerkInit, ClerkNext, FetchInit, FetchNext, CountInit, CountNext, FulfilInit, FulfilNext,
     <1>1, PTL DEF Spec, FulfilmentSpec, Fulfil!Spec

-----------------------------------------------------------------------------
(* What eBay offers.                                                       *)

\* The lines of a buyer's order on row r, and the units they add up to.
BoughtLines(f, r) == {l \in DOMAIN BasketOf[f] : r \in RowsOf[BasketOf[f][l][1]]}
BoughtEach(f, r) == [l \in BoughtLines(f, r) |-> BasketOf[f][l][2]]
Bought(f, r) == Total(BoughtEach(f, r))
ByBuyers(r) == \E f \in Refs : BoughtLines(f, r) # {}

\* A SKU that buyers order is on one row at most.
OneRowEach == \A f \in Refs : \A l \in DOMAIN BasketOf[f] : \A q, r \in RowsOf[BasketOf[f][l][1]] : q = r

LEMMA BasketIs ==
    ASSUME NEW f \in Refs
    PROVE  /\ BasketOf[f] \in Seq((DOMAIN RowsOf) \X (Nat \ {0}))
           /\ DOMAIN BasketOf[f] = 1..Len(BasketOf[f]) /\ Len(BasketOf[f]) \in Nat
           /\ IsFiniteSet(DOMAIN BasketOf[f])
           /\ \A l \in DOMAIN BasketOf[f] : /\ BasketOf[f][l][1] \in DOMAIN RowsOf /\ BasketOf[f][l][2] \in Nat \ {0}
                                            /\ RowsOf[BasketOf[f][l][1]] \subseteq Rows
<1>1. BasketOf[f] \in Seq((DOMAIN RowsOf) \X (Nat \ {0})) /\ \A k \in DOMAIN RowsOf : RowsOf[k] \subseteq Rows
  BY StockAssumption
<1>2. /\ DOMAIN BasketOf[f] = 1..Len(BasketOf[f]) /\ Len(BasketOf[f]) \in Nat
      /\ \A l \in DOMAIN BasketOf[f] : BasketOf[f][l] \in (DOMAIN RowsOf) \X (Nat \ {0})
  BY <1>1, LenProperties, ElementOfSeq
<1>3. IsFiniteSet(1..Len(BasketOf[f]))
  BY <1>2, FS_Interval
<1>4. QED
  BY <1>1, <1>2, <1>3

LEMMA BoughtType ==
    ASSUME NEW f \in Refs, NEW r
    PROVE  /\ IsFiniteSet(BoughtLines(f, r)) /\ BoughtEach(f, r) \in [BoughtLines(f, r) -> Nat]
           /\ Bought(f, r) \in Nat /\ (BoughtLines(f, r) = {} => Bought(f, r) = 0)
<1>1. IsFiniteSet(BoughtLines(f, r))
  BY BasketIs, FS_Subset DEF BoughtLines
<1>2. BoughtEach(f, r) \in [BoughtLines(f, r) -> Nat]
  BY BasketIs DEF BoughtLines, BoughtEach
<1>3. QED
  BY <1>1, <1>2, TotalType DEF Bought

\* The fold of EbayStockTrue over the lines of a buyer's order is that sum.
LEMMA BoughtIs ==
    ASSUME NEW f \in Refs, NEW r
    PROVE  MapThenSumSet(LAMBDA l : BasketOf[f][l][2],
                         {l \in DOMAIN BasketOf[f] : r \in RowsOf[BasketOf[f][l][1]]}) = Bought(f, r)
<1> DEFINE D == {l \in DOMAIN BasketOf[f] : r \in RowsOf[BasketOf[f][l][1]]}
           w == [l \in D |-> BasketOf[f][l][2]]
           body(g) == [s \in SUBSET D |-> IF s = {} THEN 0
                                          ELSE BasketOf[f][CHOOSE x \in s : TRUE][2] + g[s \ {CHOOSE x \in s : TRUE}]]
           iter == CHOOSE g : g = body(g)
<1>1. MapThenSumSet(LAMBDA l : BasketOf[f][l][2],
                    {l \in DOMAIN BasketOf[f] : r \in RowsOf[BasketOf[f][l][1]]}) = iter[D]
  BY DEF MapThenSumSet, MapThenFoldSet
<1>2. D = BoughtLines(f, r) /\ w = BoughtEach(f, r)
  BY DEF BoughtLines, BoughtEach
<1>3. IsFiniteSet(D) /\ w \in [D -> Nat]
  BY <1>2, BoughtType
<1>4. \A s \in SUBSET D : s # {} => w[CHOOSE x \in s : TRUE] = BasketOf[f][CHOOSE x \in s : TRUE][2]
  OBVIOUS
<1>5. ASSUME NEW g, IsSum(g, w) PROVE g = body(g)
  <2>1. DOMAIN w = D /\ g = [s \in SUBSET D |-> g[s]]
    BY <1>5 DEF IsSum
  <2>2. \A s \in SUBSET D : g[s] = IF s = {} THEN 0
                                  ELSE BasketOf[f][CHOOSE x \in s : TRUE][2] + g[s \ {CHOOSE x \in s : TRUE}]
    BY <1>4, <1>5, <2>1 DEF IsSum, First
  <2> HIDE DEF w, D
  <2>3. QED
    BY <2>1, <2>2
<1>6. ASSUME NEW g, g = body(g) PROVE IsSum(g, w)
  <2>1. DOMAIN w = D /\ g = [s \in SUBSET D |-> g[s]]
    BY <1>6
  <2>2. \A s \in SUBSET D : g[s] = IF s = {} THEN 0
                                  ELSE BasketOf[f][CHOOSE x \in s : TRUE][2] + g[s \ {CHOOSE x \in s : TRUE}]
    BY <1>6
  <2>3. \A s \in SUBSET D : g[s] = IF s = {} THEN 0 ELSE w[First(s)] + g[s \ {First(s)}]
    BY <1>4, <2>2 DEF First
  <2> HIDE DEF w, D
  <2>4. QED
    BY <2>1, <2>3 DEF IsSum
<1>7. PICK g : IsSum(g, w)
  BY <1>3, SumExists
<1> HIDE DEF body
<1>8. \E h : h = body(h)
  BY <1>5, <1>7
<1>9. iter = body(iter)
  BY <1>8
<1>10. IsSum(iter, w)
  BY <1>6, <1>9
<1> HIDE DEF D, w, iter
<1>11. Total(w) = iter[D]
  BY <1>3, <1>10, TotalIs
<1>12. QED
  BY <1>1, <1>2, <1>11 DEF Bought

\* What eBay's waiting buyers are owed of a row.
OwedEach(r) == [f \in Refs |-> Owed(f, r)]

LEMMA OwedType ==
    ASSUME NEW r
    PROVE  OwedEach(r) \in [Refs -> Nat] /\ \A f \in Refs : Owed(f, r) \in {0, Bought(f, r)}
<1>1. \A f \in Refs : Owed(f, r) \in {0, Bought(f, r)}
  BY BoughtIs DEF Owed
<1>2. QED
  BY <1>1, BoughtType DEF OwedEach

LEMMA OwedIs ==
    ASSUME NEW r
    PROVE  MapThenSumSet(LAMBDA f : Owed(f, r), Refs) = Total(OwedEach(r))
<1> DEFINE w == OwedEach(r)
           body(g) == [s \in SUBSET Refs |-> IF s = {} THEN 0
                                             ELSE Owed(CHOOSE x \in s : TRUE, r) + g[s \ {CHOOSE x \in s : TRUE}]]
           iter == CHOOSE g : g = body(g)
<1>1. MapThenSumSet(LAMBDA f : Owed(f, r), Refs) = iter[Refs]
  BY DEF MapThenSumSet, MapThenFoldSet
<1>3. IsFiniteSet(Refs) /\ w \in [Refs -> Nat] /\ DOMAIN w = Refs
  BY OwedType, StockAssumption DEF OwedEach
<1>4. \A s \in SUBSET Refs : s # {} => w[CHOOSE x \in s : TRUE] = Owed(CHOOSE x \in s : TRUE, r)
  BY DEF OwedEach
<1> HIDE DEF w
<1>5. ASSUME NEW g, IsSum(g, w) PROVE g = body(g)
  <2>1. g = [s \in SUBSET Refs |-> g[s]]
    BY <1>3, <1>5 DEF IsSum
  <2>2. \A s \in SUBSET Refs : g[s] = IF s = {} THEN 0
                                     ELSE Owed(CHOOSE x \in s : TRUE, r) + g[s \ {CHOOSE x \in s : TRUE}]
    BY <1>3, <1>4, <1>5 DEF IsSum, First
  <2>3. QED
    BY <2>1, <2>2
<1>6. ASSUME NEW g, g = body(g) PROVE IsSum(g, w)
  <2>1. g = [s \in SUBSET Refs |-> g[s]]
    BY <1>6
  <2>2. \A s \in SUBSET Refs : g[s] = IF s = {} THEN 0
                                     ELSE Owed(CHOOSE x \in s : TRUE, r) + g[s \ {CHOOSE x \in s : TRUE}]
    BY <1>6
  <2>3. \A s \in SUBSET Refs : g[s] = IF s = {} THEN 0 ELSE w[First(s)] + g[s \ {First(s)}]
    BY <1>4, <2>2 DEF First
  <2>4. QED
    BY <1>3, <2>1, <2>3 DEF IsSum
<1>7. PICK g : IsSum(g, w)
  BY <1>3, SumExists
<1> HIDE DEF body
<1>8. \E h : h = body(h)
  BY <1>5, <1>7
<1>9. iter = body(iter)
  BY <1>8
<1>10. IsSum(iter, w)
  BY <1>6, <1>9
<1> HIDE DEF iter
<1>11. Total(w) = iter[Refs]
  BY <1>3, <1>10, TotalIs
<1>12. QED
  BY <1>1, <1>11 DEF w

\* A sum of nothing.
LEMMA TotalZero ==
    ASSUME NEW S, IsFiniteSet(S), NEW w \in [S -> Nat], \A x \in S : w[x] = 0
    PROVE  Total(w) = 0
<1>1. PICK g : IsSum(g, w)
  BY SumExists
<1>2. g[S] = 0
  <2> DEFINE bad == {n \in Nat : \E s \in SUBSET S : Cardinality(s) = n /\ g[s] # 0}
  <2> SUFFICES ASSUME g[S] # 0 PROVE FALSE
    OBVIOUS
  <2>1. Cardinality(S) \in bad
    BY FS_CardinalityType
  <2>2. PICK n \in bad : \A m \in bad : n <= m
    BY <2>1, LeastNat
  <2>3. PICK s \in SUBSET S : Cardinality(s) = n /\ g[s] # 0
    OBVIOUS
  <2>4. IsFiniteSet(s)
    BY FS_Subset
  <2>5. s # {} /\ g[s] = w[First(s)] + g[s \ {First(s)}]
    BY <1>1, <2>3 DEF IsSum
  <2>6. First(s) \in s /\ Cardinality(s \ {First(s)}) \in Nat /\ Cardinality(s \ {First(s)}) < n
    BY <2>3, <2>4, <2>5, TakeOne
  <2>7. g[s \ {First(s)}] = 0
    BY <2>2, <2>6
  <2>8. QED
    BY <2>3, <2>5, <2>6, <2>7
<1>3. QED
  BY <1>1, <1>2, TotalIs

\* A line adds its units.
LEMMA UnitsSome ==
    ASSUME NEW p \in Seq(LineRec), NEW r, \E l \in DOMAIN p : p[l].row = r
    PROVE  Units(p, r) > 0
<1>1. PICK l \in DOMAIN p : p[l].row = r
  OBVIOUS
<1> DEFINE w == [k \in Of(p, r) |-> p[k].qty]
<1>2. IsFiniteSet(Of(p, r)) /\ w \in [Of(p, r) -> Nat] /\ Units(p, r) = Total(w)
  BY LinesFine, UnitsTotal
<1>3. l \in Of(p, r) /\ w[l] \in Nat /\ w[l] > 0
  <2>1. l \in Of(p, r)
    BY <1>1 DEF Of
  <2>2. p[l] \in LineRec
    BY ElementOfSeq, LenProperties
  <2>3. p[l].qty \in Nat \ {0}
    BY <2>2 DEF LineRec
  <2>4. w[l] = p[l].qty
    BY <2>1
  <2>5. QED
    BY <2>1, <2>3, <2>4
<1>4. Without(w, l) \in [Of(p, r) \ {l} -> Nat] /\ IsFiniteSet(Of(p, r) \ {l})
  BY <1>2, FS_Subset DEF Without
<1> HIDE DEF w
<1>5. Total(w) = w[l] + Total(Without(w, l)) /\ Total(Without(w, l)) \in Nat
  BY <1>2, <1>3, <1>4, TotalTake, TotalType
<1>6. QED
  BY <1>2, <1>3, <1>5

\* One buyer's order is owed more or less, the others as they were.
LEMMA OwedOther ==
    ASSUME NEW w \in [Refs -> Nat], NEW v \in [Refs -> Nat], NEW f \in Refs,
           \A e \in Refs : e # f => v[e] = w[e]
    PROVE  \E rest \in Nat : Total(w) = w[f] + rest /\ Total(v) = v[f] + rest
<1>1. IsFiniteSet(Refs)
  BY StockAssumption
<1>2. Total(w) = w[f] + Total(Without(w, f)) /\ Total(v) = v[f] + Total(Without(v, f))
  BY <1>1, TotalTake
<1>3. Without(v, f) = Without(w, f)
  BY DEF Without
<1>4. Without(w, f) \in [Refs \ {f} -> Nat] /\ IsFiniteSet(Refs \ {f})
  BY <1>1, FS_Subset DEF Without
<1>5. Total(Without(w, f)) \in Nat
  BY <1>4, TotalType
<1>6. QED
  BY <1>2, <1>3, <1>5

\* Lines made of a buyer's basket, each on a row of its SKU.
LEMMA LinesBought ==
    ASSUME OneRowEach, NEW f \in Refs, NEW rows \in [DOMAIN BasketOf[f] -> Rows \cup {NoRow}],
           \A l \in DOMAIN BasketOf[f] : IF RowsOf[BasketOf[f][l][1]] = {} THEN rows[l] = NoRow
                                         ELSE rows[l] \in RowsOf[BasketOf[f][l][1]],
           NEW lines, DOMAIN lines = DOMAIN BasketOf[f],
           \A l \in DOMAIN lines : lines[l].row = rows[l] /\ lines[l].qty = BasketOf[f][l][2],
           NEW r \in Rows
    PROVE  Units(lines, r) = Bought(f, r)
<1>1. ASSUME NEW l \in DOMAIN lines PROVE rows[l] = r <=> r \in RowsOf[BasketOf[f][l][1]]
  <2>1. \A q \in RowsOf[BasketOf[f][l][1]] : \A p \in RowsOf[BasketOf[f][l][1]] : q = p
    BY DEF OneRowEach
  <2>2. CASE RowsOf[BasketOf[f][l][1]] = {}
    BY <2>2, StockAssumption
  <2>3. CASE RowsOf[BasketOf[f][l][1]] # {}
    BY <2>1, <2>3
  <2>4. QED
    BY <2>2, <2>3
<1>2. Of(lines, r) = BoughtLines(f, r)
  BY <1>1 DEF Of, BoughtLines
<1>3. [l \in Of(lines, r) |-> lines[l].qty] = BoughtEach(f, r)
  BY <1>2 DEF BoughtEach, BoughtLines
<1>4. IsFiniteSet(DOMAIN lines) /\ \A l \in DOMAIN lines : lines[l].qty \in Nat
  BY BasketIs
<1>5. QED
  BY <1>3, <1>4, UnitsTotal DEF Bought

-----------------------------------------------------------------------------
(* What the balance rests on.                                              *)

\* What has been bought stays bought; an order here, and one a fetch has in hand, has been
\* bought at eBay.
RefsInv ==
    /\ \A o \in Ids : orders[o].ref # NoRef => ebay[orders[o].ref] # "none"
    /\ \A s \in Sessions : \A f \in sess[s].refs : ebay[f] # "none"

\* An imported order has the units its buyer ordered.
UnitsInv ==
    \A o \in Ids, r \in Rows :
        Exists(o) /\ orders[o].ref # NoRef => Units(orders[o].lines, r) = Bought(orders[o].ref, r)

\* A shipped order stays as it is; another is shipped only by ShipTx.
LEMMA ShippedStays ==
    ASSUME TypeInv, ClerkInv, [Next]_vars, NEW o \in Ids
    PROVE  /\ o \in Ids' /\ orders'[o].ref = orders[o].ref
           /\ orders[o].status = "shipped" => orders'[o] = orders[o]
           /\ orders[o].status # "shipped" /\ orders'[o].status = "shipped" =>
                 Exists(o) /\ \E s \in Sessions : ShipTx(s) /\ sess[s].o = o
<1>1. o \in Ids' /\ orders'[o].ref = orders[o].ref /\ Rewritten(o)
  BY OrderStep
<1>2. ASSUME NEW s \in Sessions, PickItem(s) \/ PickStatus(s) \/ ShipTx(s), sess[s].o = o
      PROVE  orders[o].status # "shipped"
  BY <1>2 DEF PickItem, PickStatus, ShipTx, ClerkInv, AtWork, Working
<1>3. QED
  BY <1>1, <1>2 DEF Rewritten

\* What is at eBay changes when a buyer buys or a shipped order is reported.
LEMMA EbayStep ==
    ASSUME TypeOK, [Next]_vars
    PROVE  \/ ebay' = ebay
           \/ \E f \in Refs : Buy(f)
           \/ \E s \in Sessions : AfterEbay(s)
<1>1. ASSUME NEW s \in Sessions, Placing(s) \/ Picking(s) \/ Die(s) PROVE ebay' = ebay
  BY <1>1 DEF Placing, Place, FetchStart, FetchSeen, FetchOrder, FetchDone, Delete, market,
              Picking, PickStart, PickItem, PickCount, PickStatus, Die
<1>2. ASSUME NEW s \in Sessions, Shipping(s) PROVE ebay' = ebay \/ AfterEbay(s)
  BY <1>2 DEF Shipping, ShipStart, ShipLines, ShipTx, AfterOther, SyncSkip, SyncRead, SyncLive, SyncPush,
              SyncSave, SyncEnd, Mark, market
<1>3. UNCHANGED vars => ebay' = ebay
  BY DEF vars
<1>4. QED
  BY <1>1, <1>2, <1>3 DEF Next

LEMMA BoughtStays ==
    ASSUME TypeOK, [Next]_vars, NEW f \in Refs, ebay[f] # "none"
    PROVE  ebay'[f] # "none"
<1>0. ebay \in [Refs -> {"none", "open", "shipped"}]
  BY DEF TypeOK
<1>1. QED
  BY <1>0, EbayStep DEF Buy, AfterEbay

\* The orders a request has in hand are open ones, or some it had.
LEMMA RefsStep ==
    ASSUME TypeOK, [Next]_vars, NEW u \in Sessions, NEW f \in sess'[u].refs
    PROVE  f \in sess[u].refs \/ (f \in Refs /\ ebay[f] = "open")
<1>0. sess \in [Sessions -> Locals] /\ Idle.refs = {}
  BY DEF TypeOK, Idle
<1>1. CASE Placing(u)
  <2>1. CASE FetchStart(u)
    <3> DEFINE open == {e \in Refs : ebay[e] = "open"}
               r == [Idle EXCEPT !.pc = "fetchSeen", !.refs = open]
    <3>1. sess' = [sess EXCEPT ![u] = r] /\ r.refs = open
      BY <2>1 DEF FetchStart, Idle
    <3> HIDE DEF r
    <3>2. QED
      BY <1>0, <3>1
  <2>2. CASE FetchSeen(u) \/ FetchOrder(u)
    <3>1. FetchSeen(u) => sess'[u].refs = sess[u].refs \ ExistingRefs
      BY <1>0 DEF FetchSeen, Locals
    <3>2. FetchOrder(u) => sess'[u].refs \subseteq sess[u].refs
      BY <1>0 DEF FetchOrder, Locals
    <3>3. QED
      BY <2>2, <3>1, <3>2
  <2>3. CASE FetchDone(u)
    BY <1>0, <2>3 DEF FetchDone, Finish
  <2>4. QED
    BY <1>1, <2>1, <2>2, <2>3 DEF Placing, Place, Delete
<1>2. CASE Picking(u)
  <2>1. (\E o \in Ids : \E l \in DOMAIN orders[o].lines, v \in BOOLEAN : PickStart(u, o, l, v)) => f \in sess[u].refs
    BY <1>0 DEF PickStart, Idle
  <2>2. PickItem(u) => f \in sess[u].refs
    BY <1>0 DEF PickItem, Locals
  <2>3. PickCount(u) => f \in sess[u].refs
    BY <1>0 DEF PickCount, Locals
  <2>4. PickStatus(u) => f \in sess[u].refs
    BY <1>0 DEF PickStatus, Finish
  <2>5. QED
    BY <1>2, <2>1, <2>2, <2>3, <2>4 DEF Picking
<1>3. CASE Shipping(u)
  <2>1. ASSUME NEW r, sess' = [sess EXCEPT ![u] = r], r.refs = {} \/ r.refs = sess[u].refs
        PROVE  f \in sess[u].refs
    BY <1>0, <2>1
  <2>2. NextLine(u) => f \in sess[u].refs
    BY <1>0 DEF NextLine, Finish, Locals
  <2>3. (\E o \in Ids : ShipStart(u, o)) \/ ShipLines(u) \/ ShipTx(u) => f \in sess[u].refs
    BY <1>0 DEF ShipStart, ShipLines, ShipTx, Idle, Locals
  <2>4. AfterEbay(u) \/ AfterOther(u) => f \in sess[u].refs
    BY <1>0 DEF AfterEbay, AfterOther, Finish, Idle
  <2>5. SyncSkip(u) \/ SyncRead(u) \/ SyncLive(u) \/ SyncPush(u) \/ SyncSave(u) \/ SyncEnd(u) => f \in sess[u].refs
    BY <1>0, <2>2 DEF SyncSkip, SyncRead, SyncLive, SyncPush, SyncSave, SyncEnd, Locals
  <2>6. (\E r \in Rows, st \in {"listed", "in_stock"} : Mark(u, r, st)) => f \in sess[u].refs
    BY DEF Mark
  <2>7. QED
    BY <1>3, <2>3, <2>4, <2>5, <2>6 DEF Shipping
<1>4. CASE Die(u)
  BY <1>0, <1>4 DEF Die, Finish
<1>5. QED
  BY <1>1, <1>2, <1>3, <1>4, OwnStep

LEMMA RefsNext == TypeInv /\ RefsInv /\ [Next]_vars => RefsInv'
<1> SUFFICES ASSUME TypeInv, RefsInv, [Next]_vars PROVE RefsInv'
  OBVIOUS
<1>0. TypeOK /\ \A s \in Sessions : sess[s].refs \subseteq Refs
  BY DEF TypeInv, TypeOK, Locals
<1>1. ASSUME NEW o \in Ids', orders'[o].ref # NoRef PROVE ebay'[orders'[o].ref] # "none"
  <2>1. CASE o \in Ids
    <3>1. orders'[o].ref = orders[o].ref /\ orders[o].ref \in Refs
      BY <1>0, <1>1, <2>1, OrderStep, IdsAre DEF OrderRec
    <3>2. QED
      BY <1>0, <1>1, <2>1, <3>1, BoughtStays DEF RefsInv
  <2>2. CASE o \notin Ids
    <3>1. PICK s \in Sessions : FetchOrder(s) /\ orders'[o].ref \in sess[s].refs
      BY <1>1, <2>2, OrderStep
    <3>2. QED
      BY <1>0, <3>1, BoughtStays DEF RefsInv
  <2>3. QED
    BY <2>1, <2>2
<1>2. ASSUME NEW s \in Sessions, NEW f \in sess'[s].refs PROVE ebay'[f] # "none"
  <2>1. f \in Refs /\ ebay[f] # "none"
    BY <1>0, RefsStep DEF RefsInv
  <2>2. QED
    BY <1>0, <2>1, BoughtStays
<1>3. QED
  BY <1>1, <1>2 DEF RefsInv

LEMMA UnitsNext == OneRowEach /\ TypeInv /\ UnitsInv /\ [Next]_vars => UnitsInv'
<1> SUFFICES ASSUME OneRowEach, TypeInv, TypeInv', UnitsInv, [Next]_vars,
                    NEW o \in Ids', NEW r \in Rows, Exists(o)', orders'[o].ref # NoRef
             PROVE  Units(orders'[o].lines, r) = Bought(orders'[o].ref, r)
  BY TypeNext DEF UnitsInv, Exists
<1>0. TypeOK /\ orders' \in Seq(OrderRec) /\ orders'[o].lines \in Seq(LineRec)
  BY OrderStep, OrdersTable DEF TypeInv, Ids
<1>1. CASE o \in Ids
  <2>1. Exists(o) /\ SameLines(orders'[o].lines, orders[o].lines) /\ orders'[o].ref = orders[o].ref
    BY <1>1, OrderKept, OrderStep
  <2>2. Units(orders'[o].lines, r) = Units(orders[o].lines, r)
    BY <1>0, <1>1, <2>1, IdsAre, UnitsSame
  <2>3. QED
    BY <1>1, <2>1, <2>2 DEF UnitsInv
<1>2. CASE o \notin Ids
  <2>1. PICK s \in Sessions : FetchOrder(s)
    BY <1>2, OrderStep
  <2>2. PICK f \in sess[s].refs : CreateOrder(f, BasketOf[f])
    BY <2>1 DEF FetchOrder
  <2>3. f \in Refs
    BY <1>0 DEF TypeOK, Locals
  <2>4. PICK rows \in [DOMAIN BasketOf[f] -> Rows \cup {NoRow}] :
            /\ \A l \in DOMAIN BasketOf[f] : IF RowsOf[BasketOf[f][l][1]] = {} THEN rows[l] = NoRow
                                             ELSE rows[l] \in RowsOf[BasketOf[f][l][1]]
            /\ orders' = Append(orders,
                   [ref |-> f, status |-> "pending",
                    lines |-> [l \in DOMAIN BasketOf[f] |-> [row |-> rows[l], qty |-> BasketOf[f][l][2], picked |-> FALSE]]])
    BY <2>2 DEF CreateOrder
  <2> DEFINE lines == [l \in DOMAIN BasketOf[f] |-> [row |-> rows[l], qty |-> BasketOf[f][l][2], picked |-> FALSE]]
             rec == [ref |-> f, status |-> "pending", lines |-> lines]
  <2>5. orders' = Append(orders, rec) /\ rec.ref = f /\ rec.lines = lines
    BY <2>4
  <2>6. DOMAIN lines = DOMAIN BasketOf[f] /\ \A l \in DOMAIN lines : lines[l].row = rows[l] /\ lines[l].qty = BasketOf[f][l][2]
    OBVIOUS
  <2> HIDE DEF lines
  <2>7. Units(lines, r) = Bought(f, r)
    BY <2>3, <2>4, <2>6, LinesBought
  <2> HIDE DEF rec
  <2>8. orders'[o] = rec
    <3>1. Len(orders') = Len(orders) + 1 /\ orders'[Len(orders) + 1] = rec /\ Len(orders) \in Nat
      BY <2>5, <1>0, AppendProperties, IdsAre DEF TypeOK
    <3>2. o = Len(orders) + 1
      BY <1>2, <3>1 DEF Ids
    <3>3. QED
      BY <3>1, <3>2
  <2>9. QED
    BY <2>5, <2>7, <2>8
<1>3. QED
  BY <1>1, <1>2

\* Lines that name a row.
Names(lines, r) == \E l \in DOMAIN lines : lines[l].row = r

\* A row that a shipped order typed in has taken units off.
TypedOut(r) ==
    \E o \in Ids : /\ orders[o].ref = NoRef /\ orders[o].status = "shipped"
                   /\ Names(orders[o].lines, r)

LEMMA TypedStays ==
    ASSUME TypeInv, ClerkInv, [Next]_vars, NEW r, TypedOut(r)
    PROVE  TypedOut(r)'
BY ShippedStays DEF TypedOut

\* A request past the transaction that shipped its order: the order stays shipped; the lines
\* it goes through are of an order typed in; and the quantity in hand is the row's.
Past == Syncing \cup {"after"}

PastOK(s) ==
    /\ sess[s].pc \in Past => Serves[s] \cap Clerk # {}
    /\ sess[s].pc = "after" => Exists(sess[s].o) /\ orders[sess[s].o].status = "shipped"
    /\ sess[s].pc \in Syncing => \A r \in Rows : Names(sess[s].lines, r) => TypedOut(r)
    /\ sess[s].pc \in Syncing \ {"syncRead"} => Row(s) \in Rows /\ sess[s].num = inv[Row(s)].qty
    /\ sess[s].pc \in {"syncSave", "syncEnd"} /\ ~ ByBuyers(Row(s)) => shelf[Row(s)] = sess[s].num
    /\ sess[s].pc = "syncEnd" => sess[s].num = 0

PastInv == \A s \in Sessions : PastOK(s)

\* A listing is ended when nothing is left.
EndedInv == \A r \in Rows : ~ listing[r].live => inv[r].qty = 0 /\ (~ ByBuyers(r) => shelf[r] = 0)

\* A request that ships, or has shipped, is the clerk's.
LEMMA OnlyClerk ==
    ASSUME OneClerk, ClerkInv, PastInv, NEW s \in Sessions, NEW u \in Sessions,
           sess[s].pc \in Past \cup {"shipTx"}, sess[u].pc \in Past \cup {"shipTx"}
    PROVE  s = u
<1>1. ASSUME NEW t \in Sessions, sess[t].pc \in Past \cup {"shipTx"} PROVE Serves[t] \cap Clerk # {}
  BY <1>1 DEF PastInv, PastOK, ClerkInv, AtWork, Working
<1>2. QED
  BY <1>1 DEF OneClerk

\* The shelf is written by a buyer and by a push.
LEMMA ShelfStep ==
    ASSUME TypeOK, [Next]_vars
    PROVE  \/ shelf' = shelf
           \/ \E f \in Refs : Buy(f)
           \/ \E s \in Sessions : SyncPush(s)
<1>1. ASSUME NEW s \in Sessions, Placing(s) \/ Picking(s) \/ Die(s) PROVE shelf' = shelf
  BY <1>1 DEF Placing, Place, FetchStart, FetchSeen, FetchOrder, FetchDone, Delete, market,
              Picking, PickStart, PickItem, PickCount, PickStatus, Die
<1>2. ASSUME NEW s \in Sessions, Shipping(s) PROVE shelf' = shelf \/ SyncPush(s)
  BY <1>2 DEF Shipping, ShipStart, ShipLines, ShipTx, AfterEbay, AfterOther, SyncSkip, SyncRead, SyncLive,
              SyncSave, SyncEnd, Mark, market
<1>3. UNCHANGED vars => shelf' = shelf
  BY DEF vars
<1>4. QED
  BY <1>1, <1>2, <1>3 DEF Next

\* What a purchase takes of a row.
LEMMA BuyTakes ==
    ASSUME TypeOK, NEW f \in Refs, Buy(f), NEW r \in Rows
    PROVE  /\ OneRowEach => Bought(f, r) <= shelf[r] /\ shelf'[r] = shelf[r] - Bought(f, r)
           /\ ~ ByBuyers(r) => shelf'[r] = shelf[r]
<1>1. PICK rows \in [DOMAIN BasketOf[f] -> Rows] :
         LET wanted(q) == Units([l \in DOMAIN rows |-> [row |-> rows[l], qty |-> BasketOf[f][l][2]]], q)
         IN  /\ \A l \in DOMAIN rows : rows[l] \in RowsOf[BasketOf[f][l][1]]
             /\ \A q \in Rows : wanted(q) <= shelf[q]
             /\ shelf' = [q \in Rows |-> shelf[q] - wanted(q)]
  BY DEF Buy
<1> DEFINE ls == [l \in DOMAIN rows |-> [row |-> rows[l], qty |-> BasketOf[f][l][2]]]
<1>2. Units(ls, r) <= shelf[r] /\ shelf'[r] = shelf[r] - Units(ls, r)
  BY <1>1
<1>3. /\ DOMAIN ls = DOMAIN BasketOf[f] /\ \A l \in DOMAIN ls : ls[l].row = rows[l] /\ ls[l].qty = BasketOf[f][l][2]
      /\ rows \in [DOMAIN BasketOf[f] -> Rows \cup {NoRow}]
      /\ \A l \in DOMAIN BasketOf[f] : rows[l] \in RowsOf[BasketOf[f][l][1]]
  BY <1>1
<1> HIDE DEF ls
<1>4. OneRowEach => Units(ls, r) = Bought(f, r)
  BY <1>3, LinesBought
<1>5. ASSUME ~ ByBuyers(r) PROVE Units(ls, r) = 0
  <2>1. \A l \in DOMAIN BasketOf[f] : r \notin RowsOf[BasketOf[f][l][1]]
    BY <1>5 DEF ByBuyers, BoughtLines
  <2>2. \A l \in DOMAIN ls : ls[l].row # r
    BY <1>3, <2>1
  <2>3. IsFiniteSet(DOMAIN ls) /\ \A l \in DOMAIN ls : ls[l].qty \in Nat
    BY <1>3, BasketIs
  <2>4. QED
    BY <2>2, <2>3, UnitsNat
<1>6. shelf[r] \in Nat
  BY DEF TypeOK
<1>7. QED
  BY <1>2, <1>4, <1>5, <1>6

\* The first line, and the others.
LEMMA NamesTail ==
    ASSUME NEW lines \in Seq(LineRec), lines # <<>>, NEW r
    PROVE  /\ Len(lines) = 1 => ~ Names(Tail(lines), r)
           /\ Names(lines, r) <=> lines[1].row = r \/ Names(Tail(lines), r)
           /\ 1 \in DOMAIN lines /\ lines[1] \in LineRec
<1>1. /\ Tail(lines) \in Seq(LineRec) /\ Len(Tail(lines)) = Len(lines) - 1 /\ Len(lines) \in Nat
      /\ \A i \in 1..Len(Tail(lines)) : Tail(lines)[i] = lines[i + 1]
  BY HeadTailProperties, LenProperties
<1>2. DOMAIN lines = 1..Len(lines) /\ DOMAIN Tail(lines) = 1..Len(Tail(lines))
  BY <1>1, LenProperties
<1>3. Len(lines) > 0
  BY <1>1, EmptySeq
<1>4. \A k \in DOMAIN lines : k # 1 => k - 1 \in DOMAIN Tail(lines) /\ Tail(lines)[k - 1] = lines[k]
  <2>1. \A k \in 1..Len(lines) : k # 1 => k - 1 \in 1..Len(Tail(lines)) /\ (k - 1) + 1 = k
    BY <1>1
  <2>2. QED
    BY <1>1, <1>2, <2>1
<1>5. \A l \in DOMAIN Tail(lines) : l + 1 \in DOMAIN lines /\ Tail(lines)[l] = lines[l + 1]
  BY <1>1, <1>2
<1>6. 1 \in DOMAIN lines /\ lines[1] \in LineRec
  BY <1>2, <1>3, ElementOfSeq
<1>7. Names(lines, r) <=> lines[1].row = r \/ Names(Tail(lines), r)
  BY <1>4, <1>5, <1>6 DEF Names
<1>8. Len(lines) = 1 => ~ Names(Tail(lines), r)
  <2>1. ASSUME Len(lines) = 1 PROVE DOMAIN Tail(lines) = {}
    <3>1. Len(Tail(lines)) = 0
      BY <1>1, <2>1
    <3>2. 1..0 = {}
      OBVIOUS
    <3>3. QED
      BY <1>2, <3>1, <3>2
  <2>2. QED
    BY <2>1 DEF Names
<1>9. QED
  BY <1>5, <1>6, <1>7, <1>8

\* A request that stays where it is.
LEMMA PastStays ==
    ASSUME OneClerk, TypeInv, ClerkInv, PastInv, [Next]_vars, NEW u \in Sessions, sess'[u] = sess[u]
    PROVE  PastOK(u)'
<1>0. TypeOK /\ sess \in [Sessions -> Locals] /\ LocalOK(sess[u]) /\ PastOK(u)
  BY DEF TypeInv, TypeOK, PastInv
<1>1. sess[u].pc = "after" => Exists(sess[u].o)' /\ orders'[sess[u].o].status = "shipped"
  BY <1>0, ShippedStays DEF PastOK, Exists
<1>2. ASSUME NEW s \in Sessions, ShipTx(s) \/ SyncPush(s), sess[u].pc \in Past PROVE FALSE
  <2>1. sess[s].pc \in Past \cup {"shipTx"}
    BY <1>2 DEF ShipTx, SyncPush, Past, Syncing
  <2>2. s = u
    BY <1>2, <2>1, OnlyClerk
  <2>3. \/ sess'[s].pc = "after" /\ sess[s].pc = "shipTx"
        \/ sess'[s].pc = "syncSave" /\ sess[s].pc = "syncPush"
    BY <1>0, <1>2 DEF ShipTx, SyncPush, Locals
  <2>4. QED
    BY <2>2, <2>3
<1>3. ASSUME sess[u].pc \in Syncing, Row(u) \in Rows
      PROVE  inv'[Row(u)].qty = inv[Row(u)].qty /\ (~ ByBuyers(Row(u)) => shelf'[Row(u)] = shelf[Row(u)])
  BY <1>0, <1>2, <1>3, InvStep, ShelfStep, BuyTakes DEF Past
<1>4. Row(u)' = Row(u)
  BY DEF Row
<1>5. ASSUME sess[u].pc \in Syncing, NEW r \in Rows, Names(sess[u].lines, r) PROVE TypedOut(r)'
  BY <1>0, <1>5, TypedStays DEF PastOK
<1>6. QED
  BY <1>0, <1>1, <1>3, <1>4, <1>5 DEF PastOK, Syncing

\* A request that goes on with the next line, or is done.
LEMMA PastNextLine ==
    ASSUME TypeInv, ClerkInv, PastInv, [Next]_vars, NEW u \in Sessions, sess[u].pc \in Syncing, NextLine(u)
    PROVE  /\ PastOK(u)'
           /\ \A r : Names(Tail(sess[u].lines), r) => sess'[u].pc = "syncRead" /\ sess'[u].lines = Tail(sess[u].lines)
<1>0. TypeOK /\ sess \in [Sessions -> Locals] /\ LocalOK(sess[u]) /\ PastOK(u)
  BY DEF TypeInv, TypeOK, PastInv
<1>1. sess[u].lines \in Seq(LineRec) /\ sess[u].lines # <<>>
  BY <1>0 DEF Locals, LocalOK
<1>2. CASE Len(sess[u].lines) = 1
  <2>1. sess'[u].pc = "idle"
    BY <1>0, <1>2, IdleType DEF NextLine, Finish
  <2>2. QED
    BY <1>1, <1>2, <2>1, NamesTail DEF PastOK, Past, Syncing
<1>3. CASE Len(sess[u].lines) # 1
  <2> DEFINE rest == Tail(sess[u].lines)
  <2>1. sess'[u].pc = "syncRead" /\ sess'[u].lines = rest
    <3>1. sess' = [sess EXCEPT ![u] = [sess[u] EXCEPT !.pc = "syncRead", !.num = 0, !.lines = rest]]
      BY <1>3 DEF NextLine
    <3> HIDE DEF rest
    <3>2. QED
      BY <1>0, <3>1 DEF Locals
  <2>2. ASSUME NEW r \in Rows, Names(rest, r) PROVE TypedOut(r)'
    <3>1. Names(sess[u].lines, r)
      BY <1>1, <2>2, NamesTail
    <3>2. TypedOut(r)
      BY <1>0, <3>1 DEF PastOK
    <3>3. QED
      BY <3>2, TypedStays
  <2>3. Serves[u] \cap Clerk # {}
    BY <1>0 DEF PastOK, Past
  <2>4. QED
    BY <2>1, <2>2, <2>3 DEF PastOK, Past, Syncing
<1>4. QED
  BY <1>2, <1>3

\* The lines stay, and the quantity read stays the row's.
LEMMA PastSameLine ==
    ASSUME TypeInv, ClerkInv, PastInv, [Next]_vars, NEW u \in Sessions, sess[u].pc \in Syncing,
           inv' = inv, sess'[u].lines = sess[u].lines, sess'[u].pc \in Syncing,
           sess'[u].pc # "syncRead" => Row(u) \in Rows /\ sess'[u].num = inv[Row(u)].qty,
           sess'[u].pc \in {"syncSave", "syncEnd"} /\ ~ ByBuyers(Row(u)) => shelf'[Row(u)] = sess'[u].num,
           sess'[u].pc = "syncEnd" => sess'[u].num = 0
    PROVE  PastOK(u)'
<1>0. PastOK(u) /\ Row(u)' = Row(u)
  BY DEF PastInv, Row
<1>1. ASSUME NEW r \in Rows, Names(sess[u].lines, r) PROVE TypedOut(r)'
  BY <1>0, <1>1, TypedStays DEF PastOK
<1>2. QED
  BY <1>0, <1>1 DEF PastOK, Past, Syncing

LEMMA PastNext == OneClerk /\ TypeInv /\ ClerkInv /\ PastInv /\ [Next]_vars => PastInv'
<1> SUFFICES ASSUME OneClerk, TypeInv, ClerkInv, PastInv, [Next]_vars, NEW u \in Sessions PROVE PastOK(u)'
  BY DEF PastInv
<1>0. TypeOK /\ sess \in [Sessions -> Locals] /\ LocalOK(sess[u]) /\ PastOK(u) /\ Idle.pc = "idle"
  BY IdleType DEF TypeInv, TypeOK, PastInv
<1>1. sess'[u].pc \notin Past => PastOK(u)'
  BY DEF PastOK, Past, Syncing
<1>2. sess'[u] = sess[u] => PastOK(u)'
  BY PastStays
<1>3. CASE Placing(u)
  <2>1. FetchStart(u) \/ FetchSeen(u) \/ FetchOrder(u) \/ FetchDone(u) =>
           sess'[u].pc \in {"fetchSeen", "fetchOrder", "idle"}
    BY <1>0 DEF FetchStart, FetchSeen, FetchOrder, FetchDone, Finish, Idle, Locals
  <2>2. (\E b \in Baskets : Place(u, b)) \/ (\E o \in Ids : Delete(u, o)) => sess' = sess
    BY DEF Place, Delete
  <2>3. QED
    BY <1>1, <1>2, <1>3, <2>1, <2>2 DEF Placing, Past, Syncing
<1>4. CASE Picking(u)
  <2>1. (\E o \in Ids : \E l \in DOMAIN orders[o].lines, v \in BOOLEAN : PickStart(u, o, l, v)) =>
           sess'[u].pc = "pickItem"
    BY <1>0 DEF PickStart, Idle
  <2>2. PickItem(u) \/ PickCount(u) \/ PickStatus(u) => sess'[u].pc \in {"pickCount", "pickStatus", "idle"}
    <3>1. PickItem(u) => sess'[u].pc = "pickCount"
      BY <1>0 DEF PickItem, Locals
    <3>2. PickCount(u) => sess'[u].pc = "pickStatus"
      BY <1>0 DEF PickCount, Locals
    <3>3. PickStatus(u) => sess'[u].pc = "idle"
      BY <1>0 DEF PickStatus, Finish
    <3>4. QED
      BY <3>1, <3>2, <3>3
  <2>3. QED
    BY <1>1, <1>4, <2>1, <2>2 DEF Picking, Past, Syncing
<1>5. CASE Die(u)
  BY <1>0, <1>1, <1>5 DEF Die, Finish, Past, Syncing
<1>6. CASE Shipping(u)
  <2>1. ASSUME NEW o \in Ids, ShipStart(u, o) PROVE PastOK(u)'
    <3>1. /\ sess'[u].o = o /\ sess'[u].pc = (IF orders[o].status = "shipped" THEN "after" ELSE "shipLines")
          /\ Exists(o) /\ orders' = orders /\ Serves[u] \cap Clerk # {}
      BY <1>0, <2>1 DEF ShipStart, Ask, Idle, Clerk
    <3>2. QED
      BY <1>1, <3>1 DEF PastOK, Past, Syncing, Exists, Ids
  <2>2. CASE ShipLines(u)
    <3>1. sess'[u].pc = "shipTx"
      BY <1>0, <2>2 DEF ShipLines, Locals
    <3>2. QED
      BY <1>1, <3>1 DEF Past, Syncing
  <2>3. CASE ShipTx(u)
    <3> DEFINE o == sess[u].o
    <3>1. Exists(o) /\ o \in Ids /\ Serves[u] \cap Clerk # {}
      BY <2>3 DEF ShipTx, ClerkInv, AtWork, Working, Exists
    <3>2. sess'[u].pc = "after" /\ sess'[u].o = o
      BY <1>0, <2>3 DEF ShipTx, Locals
    <3>3. o \in Ids' /\ orders'[o].status = "shipped"
      <4>1. orders' = [orders EXCEPT ![o] = [orders[o] EXCEPT !.status = "shipped",
                           !.lines = [l \in DOMAIN orders[o].lines |-> [orders[o].lines[l] EXCEPT !.picked = TRUE]]]]
        BY <2>3, <3>1 DEF ShipTx
      <4>2. orders[o] \in OrderRec /\ Ids = DOMAIN orders
        BY <1>0, <3>1, IdsAre
      <4>3. ASSUME NEW ls, orders' = [orders EXCEPT ![o] = [orders[o] EXCEPT !.status = "shipped", !.lines = ls]]
            PROVE  orders'[o].status = "shipped"
        BY <3>1, <4>2, <4>3 DEF OrderRec
      <4>4. QED
        BY <3>1, <4>1, <4>3, OrderStep
    <3>4. QED
      BY <3>1, <3>2, <3>3 DEF PastOK, Past, Syncing, Exists
  <2>4. CASE AfterEbay(u)
    BY <1>0, <1>1, <2>4 DEF AfterEbay, Finish, Past, Syncing
  <2>5. CASE AfterOther(u)
    <3> DEFINE o == sess[u].o
    <3>1. Exists(o) /\ orders[o].status = "shipped" /\ orders[o].ref = NoRef /\ o \in Ids /\ Serves[u] \cap Clerk # {}
      BY <1>0, <2>5 DEF AfterOther, PastOK, Past, Exists
    <3>2. CASE sess'[u].pc = "idle"
      BY <1>1, <3>2 DEF Past, Syncing
    <3>3. CASE sess'[u].pc # "idle"
      <4>1. sess'[u].pc = "syncRead" /\ sess'[u].lines = orders[o].lines
        BY <1>0, <2>5, <3>3 DEF AfterOther, Finish, Idle
      <4>2. \A r : Names(orders[o].lines, r) => TypedOut(r)
        BY <3>1 DEF TypedOut
      <4>3. ASSUME NEW r \in Rows, Names(orders[o].lines, r) PROVE TypedOut(r)'
        BY <4>2, <4>3, TypedStays
      <4>4. QED
        BY <3>1, <4>1, <4>3 DEF PastOK, Past, Syncing
    <3>4. QED
      BY <3>2, <3>3
  <2>6. CASE SyncSkip(u)
    BY <2>6, PastNextLine DEF SyncSkip, Syncing
  <2>7. CASE SyncRead(u)
    <3>1. sess'[u].pc = "syncLive" /\ sess'[u].lines = sess[u].lines /\ sess'[u].num = inv[Row(u)].qty
      BY <1>0, <2>7 DEF SyncRead, Locals
    <3>2. Row(u) \in Rows
      <4>1. sess[u].lines \in Seq(LineRec) /\ sess[u].lines # <<>> /\ Row(u) # NoRow
        BY <1>0, <2>7 DEF SyncRead, Locals, LocalOK, Syncing
      <4>2. sess[u].lines[1] \in LineRec
        BY <4>1, NamesTail
      <4>3. QED
        BY <4>1, <4>2 DEF Row, LineRec
    <3>3. sess[u].pc = "syncRead" /\ inv' = inv
      BY <2>7 DEF SyncRead
    <3>4. QED
      BY <3>1, <3>2, <3>3, PastSameLine DEF Syncing
  <2>8. CASE SyncLive(u)
    <3>1. CASE NextLine(u)
      BY <2>8, <3>1, PastNextLine DEF SyncLive, Syncing
    <3>2. CASE ~ NextLine(u)
      <4>1. sess'[u].pc = "syncPush" /\ sess'[u].lines = sess[u].lines /\ sess'[u].num = sess[u].num
        BY <1>0, <2>8, <3>2 DEF SyncLive, Locals
      <4>2. sess[u].pc = "syncLive" /\ inv' = inv /\ Row(u) \in Rows /\ sess[u].num = inv[Row(u)].qty
        BY <1>0, <2>8 DEF SyncLive, PastOK, Syncing
      <4>3. QED
        BY <4>1, <4>2, PastSameLine DEF Syncing
    <3>3. QED
      BY <3>1, <3>2
  <2>9. CASE SyncPush(u)
    <3>1. sess'[u].pc = "syncSave" /\ sess'[u].lines = sess[u].lines /\ sess'[u].num = sess[u].num
      BY <1>0, <2>9 DEF SyncPush, Locals
    <3>2. sess[u].pc = "syncPush" /\ inv' = inv /\ Row(u) \in Rows /\ sess[u].num = inv[Row(u)].qty
      BY <1>0, <2>9 DEF SyncPush, PastOK, Syncing
    <3>3. shelf'[Row(u)] = sess[u].num
      BY <1>0, <2>9, <3>2 DEF SyncPush, TypeOK
    <3>4. QED
      BY <3>1, <3>2, <3>3, PastSameLine DEF Syncing
  <2>10. CASE SyncSave(u)
    <3>1. CASE NextLine(u)
      BY <2>10, <3>1, PastNextLine DEF SyncSave, Syncing
    <3>2. CASE ~ NextLine(u)
      <4>1. /\ sess'[u].pc = "syncEnd" /\ sess'[u].lines = sess[u].lines /\ sess'[u].num = sess[u].num
            /\ sess[u].num = 0
        BY <1>0, <2>10, <3>2 DEF SyncSave, Locals
      <4>2. /\ sess[u].pc = "syncSave" /\ inv' = inv /\ Row(u) \in Rows /\ sess[u].num = inv[Row(u)].qty
            /\ shelf' = shelf /\ (~ ByBuyers(Row(u)) => shelf[Row(u)] = sess[u].num)
        BY <1>0, <2>10 DEF SyncSave, PastOK, Syncing
      <4>3. QED
        BY <4>1, <4>2, PastSameLine DEF Syncing
    <3>3. QED
      BY <3>1, <3>2
  <2>11. CASE SyncEnd(u)
    BY <2>11, PastNextLine DEF SyncEnd, Syncing
  <2>12. CASE \E r \in Rows, st \in {"listed", "in_stock"} : Mark(u, r, st)
    BY <1>2, <2>12 DEF Mark
  <2>13. QED
    BY <1>6, <2>1, <2>2, <2>3, <2>4, <2>5, <2>6, <2>7, <2>8, <2>9, <2>10, <2>11, <2>12 DEF Shipping
<1>7. CASE sess'[u] # sess[u]
  <2>1. Placing(u) \/ Picking(u) \/ Shipping(u) \/ Die(u)
    BY <1>0, <1>7, OwnStep
  <2>2. QED
    BY <1>3, <1>4, <1>5, <1>6, <2>1
<1>8. QED
  BY <1>2, <1>7

LEMMA EndedNext == OneClerk /\ TypeInv /\ ClerkInv /\ PastInv /\ EndedInv /\ [Next]_vars => EndedInv'
<1> SUFFICES ASSUME OneClerk, TypeInv, ClerkInv, PastInv, EndedInv, [Next]_vars,
                    NEW r \in Rows, ~ listing'[r].live
             PROVE  inv'[r].qty = 0 /\ (~ ByBuyers(r) => shelf'[r] = 0)
  BY DEF EndedInv
<1>0. /\ TypeOK /\ listing \in [Rows -> [live : BOOLEAN, qty : Nat]] /\ shelf \in [Rows -> Nat]
      /\ inv[r].qty \in Nat /\ \A s \in Sessions : sess[s].lines \in Seq(LineRec)
  BY DEF TypeInv, TypeOK, Locals, StockRec
<1>1. CASE ~ listing[r].live
  <2>1. inv[r].qty = 0 /\ (~ ByBuyers(r) => shelf[r] = 0)
    BY <1>1 DEF EndedInv
  <2>2. ASSUME NEW s \in Sessions, ShipTx(s) PROVE inv'[r].qty = 0
    <3>1. Units(sess[s].lines, r) \in Nat
      BY <1>0, UnitsType
    <3>2. inv'[r].qty = IF inv[r].qty > Units(sess[s].lines, r) THEN inv[r].qty - Units(sess[s].lines, r) ELSE 0
      BY <1>0, <2>2, TakeOffIs DEF ShipTx
    <3>3. QED
      BY <2>1, <3>1, <3>2
  <2>3. inv'[r].qty = 0
    BY <1>0, <2>1, <2>2, InvStep
  <2>4. ASSUME NEW s \in Sessions, SyncPush(s), ~ ByBuyers(r) PROVE shelf'[r] = 0
    <3>1. Row(s) \in Rows /\ sess[s].num = inv[Row(s)].qty
      BY <2>4 DEF SyncPush, PastInv, PastOK, Syncing
    <3>2. QED
      BY <1>0, <2>1, <2>4, <3>1 DEF SyncPush
  <2>5. ~ ByBuyers(r) => shelf'[r] = 0
    BY <1>0, <2>1, <2>4, ShelfStep, BuyTakes
  <2>6. QED
    BY <2>3, <2>5
<1>2. CASE listing[r].live
  <2>1. ASSUME NEW s \in Sessions, Placing(s) \/ Picking(s) \/ Die(s) PROVE listing' = listing
    BY <2>1 DEF Placing, Place, FetchStart, FetchSeen, FetchOrder, FetchDone, Delete, market,
                Picking, PickStart, PickItem, PickCount, PickStatus, Die
  <2>2. ASSUME NEW s \in Sessions, SyncSave(s) PROVE listing'[r].live
    BY <1>0, <1>2, <2>2 DEF SyncSave
  <2>3. ASSUME NEW s \in Sessions, Shipping(s), ~ SyncSave(s), ~ SyncEnd(s) PROVE listing' = listing
    BY <2>3 DEF Shipping, ShipStart, ShipLines, ShipTx, AfterEbay, AfterOther, SyncSkip, SyncRead, SyncLive,
                SyncPush, Mark, market
  <2>4. UNCHANGED vars \/ (\E f \in Refs : Buy(f)) => listing' = listing
    BY DEF vars, Buy
  <2>5. PICK s \in Sessions : SyncEnd(s)
    BY <1>2, <2>1, <2>2, <2>3, <2>4 DEF Next
  <2>6. r = Row(s) /\ inv' = inv /\ shelf' = shelf
    BY <1>0, <1>2, <2>5 DEF SyncEnd
  <2>7. QED
    BY <2>5, <2>6 DEF SyncEnd, PastInv, PastOK, Syncing
<1>3. QED
  BY <1>1, <1>2

-----------------------------------------------------------------------------
(* The rows buyers do not order.                                           *)

\* The request has still to push the quantity of row r.
Pending(s, r) ==
    \/ sess[s].pc = "after" /\ orders[sess[s].o].ref = NoRef /\ Names(orders[sess[s].o].lines, r)
    \/ sess[s].pc \in {"syncRead", "syncLive", "syncPush"} /\ Names(sess[s].lines, r)
    \/ sess[s].pc \in {"syncSave", "syncEnd"} /\ Names(Tail(sess[s].lines), r)

TypedBalance ==
    asked["die"] = 0 =>
        \A r \in Rows : ~ ByBuyers(r) => shelf[r] = inv[r].qty \/ \E s \in Sessions : Pending(s, r)

\* An order that is shipped takes units off the rows it names, and leaves those rows to push.
LEMMA PendingShip ==
    ASSUME TypeInv, ClerkInv, UnitsInv, [Next]_vars, NEW s \in Sessions, ShipTx(s),
           NEW r \in Rows, ~ ByBuyers(r), shelf[r] = inv[r].qty
    PROVE  shelf'[r] = inv'[r].qty \/ Pending(s, r)'
<1> DEFINE o == sess[s].o
<1>0. /\ TypeOK /\ sess \in [Sessions -> Locals] /\ sess[s].lines \in Seq(LineRec) /\ inv[r].qty \in Nat
  BY DEF TypeInv, TypeOK, Locals, StockRec
<1>1. Exists(o) /\ o \in Ids /\ orders[o].status # "shipped" /\ SameLines(sess[s].lines, orders[o].lines)
  BY DEF ShipTx, ClerkInv, AtWork, Working, Exists
<1>2. /\ o \in Ids' /\ orders'[o].ref = orders[o].ref /\ Rewritten(o)
      /\ orders[o].lines \in Seq(LineRec) /\ orders[o].ref \in Refs \cup {NoRef}
  BY <1>0, <1>1, OrderStep, IdsAre DEF OrderRec
<1>3. orders'[o].status # "gone"
  <2>1. sess'[s].pc = "after" /\ sess[s].pc = "shipTx"
    BY <1>0 DEF ShipTx, Locals
  <2>2. \A u \in Sessions : ~ (Delete(u, o))
    BY <1>0, <2>1 DEF Delete
  <2>3. QED
    BY <1>1, <1>2, <2>2 DEF Rewritten, Exists
<1>4. SameLines(orders'[o].lines, orders[o].lines)
  BY <1>1, <1>2, <1>3, OrderKept DEF Exists
<1>5. shelf' = shelf /\ inv' = TakeOff(sess[s].lines)
  BY DEF ShipTx, market
<1>6. CASE orders[o].ref = NoRef /\ Names(orders[o].lines, r)
  <2>1. sess'[s].pc = "after" /\ sess'[s].o = o
    BY <1>0 DEF ShipTx, Locals
  <2>2. Names(orders'[o].lines, r)
    BY <1>4, <1>6 DEF Names, SameLines
  <2>3. QED
    BY <1>2, <1>6, <2>1, <2>2 DEF Pending
<1>7. CASE ~ (orders[o].ref = NoRef /\ Names(orders[o].lines, r))
  <2>1. Units(orders[o].lines, r) = 0
    <3>1. CASE orders[o].ref = NoRef
      BY <1>2, <1>7, <3>1, UnitsType DEF Names
    <3>2. CASE orders[o].ref # NoRef
      <4>1. Units(orders[o].lines, r) = Bought(orders[o].ref, r) /\ orders[o].ref \in Refs
        BY <1>1, <1>2, <3>2 DEF UnitsInv
      <4>2. BoughtLines(orders[o].ref, r) = {}
        BY <4>1 DEF ByBuyers
      <4>3. QED
        BY <4>1, <4>2, BoughtType
    <3>3. QED
      BY <3>1, <3>2
  <2>2. Units(sess[s].lines, r) = 0
    BY <1>0, <1>1, <1>2, <2>1, UnitsSame
  <2>3. inv'[r].qty = IF inv[r].qty > 0 THEN inv[r].qty - 0 ELSE 0
    BY <1>0, <1>5, <2>2, TakeOffIs
  <2>4. QED
    BY <1>0, <1>5, <2>3
<1>8. QED
  BY <1>6, <1>7

\* What is pending stays so until it is pushed, or there is nothing to push.
LEMMA PendingStep ==
    ASSUME OneClerk, TypeInv, ClerkInv, PastInv, EndedInv, [Next]_vars, asked'["die"] = 0,
           NEW s \in Sessions, NEW r \in Rows, ~ ByBuyers(r), Pending(s, r), shelf[r] # inv[r].qty
    PROVE  shelf'[r] = inv'[r].qty \/ Pending(s, r)'
<1>0. /\ TypeOK /\ sess \in [Sessions -> Locals] /\ LocalOK(sess[s]) /\ PastOK(s) /\ Idle.pc = "idle"
      /\ sess[s].lines \in Seq(LineRec) /\ asked \in [Kinds -> Nat] /\ r # NoRow
  BY IdleType, StockAssumption DEF TypeInv, TypeOK, PastInv, Locals
<1>1. CASE sess'[s] = sess[s]
  <2>1. CASE sess[s].pc = "after"
    <3>1. sess[s].o \in Ids /\ orders[sess[s].o].status = "shipped"
      BY <1>0, <2>1 DEF PastOK, Exists
    <3>2. orders'[sess[s].o] = orders[sess[s].o]
      BY <3>1, ShippedStays
    <3>3. QED
      BY <1>1, <2>1, <3>2 DEF Pending
  <2>2. CASE sess[s].pc # "after"
    BY <1>1, <2>2 DEF Pending
  <2>3. QED
    BY <2>1, <2>2
<1>2. CASE sess'[s] # sess[s]
  <2>0. sess[s].pc \in Past
    BY DEF Pending, Past, Syncing
  <2>1. ~ Die(s)
    BY <1>0 DEF Die, Kinds
  <2>2. ~ Placing(s) /\ ~ Picking(s)
    <3>1. ~ Placing(s)
      BY <1>2, <2>0 DEF Placing, Place, Ask, FetchStart, FetchSeen, FetchOrder, FetchDone, Delete, Past, Syncing
    <3>2. ~ Picking(s)
      BY <2>0 DEF Picking, PickStart, Ask, PickItem, PickCount, PickStatus, Past, Syncing
    <3>3. QED
      BY <3>1, <3>2
  <2>3. Shipping(s)
    BY <1>0, <1>2, <2>1, <2>2, OwnStep
  <2>4. ~ (\E o \in Ids : ShipStart(s, o)) /\ ~ ShipLines(s) /\ ~ ShipTx(s)
    BY <2>0 DEF ShipStart, Ask, ShipLines, ShipTx, Past, Syncing
  <2>5. ~ AfterEbay(s)
    BY DEF AfterEbay, Pending
  <2>6. ~ (\E q \in Rows, st \in {"listed", "in_stock"} : Mark(s, q, st))
    BY <1>2 DEF Mark
  <2>7. sess[s].pc \in Syncing =>
           /\ sess[s].lines # <<>>
           /\ Names(sess[s].lines, r) <=> Row(s) = r \/ Names(Tail(sess[s].lines), r)
    BY <1>0, NamesTail DEF LocalOK, Row
  <2>8. ASSUME NextLine(s), sess[s].pc \in Syncing, Names(Tail(sess[s].lines), r) PROVE Pending(s, r)'
    <3>1. sess'[s].pc = "syncRead" /\ sess'[s].lines = Tail(sess[s].lines)
      BY <2>8, PastNextLine
    <3>2. QED
      BY <2>8, <3>1 DEF Pending
  <2>9. CASE AfterOther(s)
    <3> DEFINE o == sess[s].o
    <3>1. sess[s].pc = "after" /\ Exists(o) /\ Names(orders[o].lines, r)
      BY <1>0, <2>9 DEF AfterOther, Pending, PastOK
    <3>2. orders[o].lines # <<>>
      BY <3>1, EmptySeq DEF Names
    <3>3. sess'[s].pc = "syncRead" /\ sess'[s].lines = orders[o].lines
      <4> DEFINE rec == [Idle EXCEPT !.pc = "syncRead", !.lines = orders[o].lines]
      <4>1. rec.pc = "syncRead" /\ rec.lines = orders[o].lines
        BY DEF Idle
      <4>2. sess' = [sess EXCEPT ![s] = rec]
        BY <2>9, <3>1, <3>2 DEF AfterOther
      <4> HIDE DEF rec
      <4>3. QED
        BY <1>0, <4>1, <4>2
    <3>4. QED
      BY <3>1, <3>3 DEF Pending
  <2>10. CASE SyncSkip(s)
    <3>1. sess[s].pc = "syncRead" /\ Row(s) # r /\ NextLine(s)
      BY <1>0, <2>10 DEF SyncSkip
    <3>2. Names(Tail(sess[s].lines), r)
      BY <2>7, <3>1 DEF Pending, Syncing
    <3>3. QED
      BY <2>8, <3>1, <3>2 DEF Syncing
  <2>11. CASE SyncRead(s)
    <3>1. sess[s].pc = "syncRead" /\ sess'[s].pc = "syncLive" /\ sess'[s].lines = sess[s].lines
      BY <1>0, <2>11 DEF SyncRead, Locals
    <3>2. QED
      BY <3>1 DEF Pending
  <2>12. CASE SyncLive(s)
    <3>1. sess[s].pc = "syncLive" /\ Names(sess[s].lines, r)
      BY <2>12 DEF SyncLive, Pending
    <3>2. CASE listing[Row(s)].live
      <4>1. sess'[s].pc = "syncPush" /\ sess'[s].lines = sess[s].lines
        BY <1>0, <2>12, <3>2 DEF SyncLive, Locals
      <4>2. QED
        BY <3>1, <4>1 DEF Pending
    <3>3. CASE ~ listing[Row(s)].live
      <4>1. Row(s) # r
        BY <1>0, <3>3 DEF EndedInv
      <4>2. NextLine(s)
        BY <2>12, <3>3 DEF SyncLive
      <4>3. QED
        BY <2>7, <2>8, <3>1, <4>1, <4>2 DEF Syncing
    <3>4. QED
      BY <3>2, <3>3
  <2>13. CASE SyncPush(s)
    <3>1. sess[s].pc = "syncPush" /\ Names(sess[s].lines, r) /\ inv' = inv
      BY <2>13 DEF SyncPush, Pending
    <3>2. CASE Row(s) = r
      <4>1. sess[s].num = inv[r].qty
        BY <1>0, <3>1, <3>2 DEF PastOK, Syncing
      <4>2. shelf'[r] = sess[s].num
        BY <1>0, <2>13, <3>2 DEF SyncPush, TypeOK
      <4>3. QED
        BY <3>1, <4>1, <4>2
    <3>3. CASE Row(s) # r
      <4>1. sess'[s].pc = "syncSave" /\ sess'[s].lines = sess[s].lines
        BY <1>0, <2>13 DEF SyncPush, Locals
      <4>2. Names(Tail(sess[s].lines), r)
        BY <2>7, <3>1, <3>3 DEF Syncing
      <4>3. QED
        BY <4>1, <4>2 DEF Pending
    <3>4. QED
      BY <3>2, <3>3
  <2>14. CASE SyncSave(s)
    <3>1. sess[s].pc = "syncSave" /\ Names(Tail(sess[s].lines), r)
      BY <2>14 DEF SyncSave, Pending
    <3>2. CASE NextLine(s)
      BY <2>8, <3>1, <3>2 DEF Syncing
    <3>3. CASE ~ NextLine(s)
      <4>1. sess'[s].pc = "syncEnd" /\ sess'[s].lines = sess[s].lines
        BY <1>0, <2>14, <3>3 DEF SyncSave, Locals
      <4>2. QED
        BY <3>1, <4>1 DEF Pending
    <3>4. QED
      BY <3>2, <3>3
  <2>15. CASE SyncEnd(s)
    <3>1. sess[s].pc = "syncEnd" /\ Names(Tail(sess[s].lines), r) /\ NextLine(s)
      BY <2>15 DEF SyncEnd, Pending
    <3>2. QED
      BY <2>8, <3>1 DEF Syncing
  <2>16. QED
    BY <2>3, <2>4, <2>5, <2>6, <2>9, <2>10, <2>11, <2>12, <2>13, <2>14, <2>15 DEF Shipping
<1>3. QED
  BY <1>1, <1>2

LEMMA TypedNext ==
    OneClerk /\ TypeInv /\ ClerkInv /\ UnitsInv /\ PastInv /\ EndedInv /\ TypedBalance /\ [Next]_vars => TypedBalance'
<1> SUFFICES ASSUME OneClerk, TypeInv, ClerkInv, UnitsInv, PastInv, EndedInv, TypedBalance, [Next]_vars,
                    asked'["die"] = 0, NEW r \in Rows, ~ ByBuyers(r)
             PROVE  shelf'[r] = inv'[r].qty \/ \E s \in Sessions : Pending(s, r)'
  BY DEF TypedBalance
<1>0. TypeOK /\ asked \in [Kinds -> Nat] /\ "die" \in Kinds /\ shelf \in [Rows -> Nat]
  BY DEF TypeInv, TypeOK, Kinds
<1>1. asked["die"] = 0
  BY <1>0, AskedStep
<1>2. CASE shelf[r] = inv[r].qty
  <2>1. ASSUME NEW s \in Sessions, ShipTx(s) PROVE shelf'[r] = inv'[r].qty \/ Pending(s, r)'
    BY <1>2, <2>1, PendingShip
  <2>2. ASSUME NEW s \in Sessions, SyncPush(s) PROVE shelf'[r] = inv'[r].qty
    <3>1. Row(s) \in Rows /\ sess[s].num = inv[Row(s)].qty /\ inv' = inv
      BY <2>2 DEF SyncPush, PastInv, PastOK, Syncing
    <3>2. QED
      BY <1>0, <1>2, <2>2, <3>1 DEF SyncPush
  <2>3. CASE ~ (\E s \in Sessions : ShipTx(s) \/ SyncPush(s))
    BY <1>0, <1>2, <2>3, InvStep, ShelfStep, BuyTakes
  <2>4. QED
    BY <2>1, <2>2, <2>3
<1>3. CASE shelf[r] # inv[r].qty
  <2>1. PICK s \in Sessions : Pending(s, r)
    BY <1>1, <1>3 DEF TypedBalance
  <2>2. QED
    BY <1>3, <2>1, PendingStep
<1>4. QED
  BY <1>2, <1>3

-----------------------------------------------------------------------------
(* The rows buyers order.                                                  *)

BuyerBalance ==
    \A r \in Rows : ByBuyers(r) => TypedOut(r) \/ shelf[r] + Total(OwedEach(r)) = inv[r].qty

Reported(f) == \E o \in Ids : orders[o].ref = f /\ orders[o].status = "shipped"

LEMMA OwedWhat ==
    ASSUME NEW f \in Refs, NEW r
    PROVE  Owed(f, r) = IF ebay[f] = "none" \/ Reported(f) THEN 0 ELSE Bought(f, r)
BY BoughtIs DEF Owed, Reported

LEMMA OwedThen ==
    ASSUME NEW f \in Refs, NEW r
    PROVE  Owed(f, r)' = IF ebay'[f] = "none" \/ Reported(f)' THEN 0 ELSE Bought(f, r)
<1>1. Owed(f, r) = IF ebay[f] = "none" \/ Reported(f) THEN 0 ELSE Bought(f, r)
  BY OwedWhat
<1>2. (Owed(f, r) = IF ebay[f] = "none" \/ Reported(f) THEN 0 ELSE Bought(f, r))'
  BY <1>1, PTL
<1>3. Bought(f, r)' = Bought(f, r)
  BY DEF Bought, BoughtEach, BoughtLines
<1>4. QED
  BY <1>2

\* What is owed of a row changes with what is bought and what is shipped.
LEMMA ReportedStays ==
    ASSUME TypeInv, ClerkInv, [Next]_vars, NEW f, Reported(f)
    PROVE  Reported(f)'
BY ShippedStays DEF Reported

LEMMA ReportedStep ==
    ASSUME TypeInv, ClerkInv, [Next]_vars, NEW f, Reported(f)'
    PROVE  Reported(f) \/ \E s \in Sessions : ShipTx(s) /\ Exists(sess[s].o) /\ orders[sess[s].o].ref = f
<1>1. PICK o \in Ids' : orders'[o].ref = f /\ orders'[o].status = "shipped"
  BY DEF Reported
<1>2. o \in Ids
  BY <1>1, OrderStep
<1>3. QED
  BY <1>1, <1>2, ShippedStays DEF Reported

LEMMA BalanceShip ==
    ASSUME OneRowEach, TypeInv, ClerkInv, FetchInv, RefsInv, UnitsInv, [Next]_vars,
           NEW s \in Sessions, ShipTx(s), NEW r \in Rows, ~ TypedOut(r)',
           shelf[r] + Total(OwedEach(r)) = inv[r].qty
    PROVE  shelf'[r] + Total(OwedEach(r)') = inv'[r].qty
<1> DEFINE o == sess[s].o
           w == OwedEach(r)
           v == OwedEach(r)'
<1>0. /\ TypeOK /\ sess \in [Sessions -> Locals] /\ sess[s].lines \in Seq(LineRec)
      /\ shelf[r] \in Nat /\ inv[r].qty \in Nat
  BY DEF TypeInv, TypeOK, Locals, StockRec
<1>1. Exists(o) /\ o \in Ids /\ orders[o].status # "shipped" /\ SameLines(sess[s].lines, orders[o].lines)
  BY DEF ShipTx, ClerkInv, AtWork, Working, Exists
<1>2. /\ o \in Ids' /\ orders'[o].ref = orders[o].ref /\ Rewritten(o)
      /\ orders[o].lines \in Seq(LineRec) /\ orders[o].ref \in Refs \cup {NoRef}
  BY <1>0, <1>1, OrderStep, IdsAre DEF OrderRec
<1>3. orders'[o].status = "shipped" /\ SameLines(orders'[o].lines, orders[o].lines)
  <2>1. orders' = [orders EXCEPT ![o] = [orders[o] EXCEPT !.status = "shipped",
                       !.lines = [l \in DOMAIN orders[o].lines |-> [orders[o].lines[l] EXCEPT !.picked = TRUE]]]]
    BY <1>1 DEF ShipTx
  <2>2. orders[o] \in OrderRec /\ Ids = DOMAIN orders
    BY <1>0, <1>1, IdsAre
  <2>3. ASSUME NEW ls, orders' = [orders EXCEPT ![o] = [orders[o] EXCEPT !.status = "shipped", !.lines = ls]]
        PROVE  orders'[o].status = "shipped"
    BY <1>1, <2>2, <2>3 DEF OrderRec
  <2>4. orders'[o].status = "shipped"
    BY <2>1, <2>3
  <2>5. QED
    BY <1>1, <1>2, <2>4, OrderKept DEF Exists
<1>4. shelf' = shelf /\ ebay' = ebay /\ inv' = TakeOff(sess[s].lines)
  BY DEF ShipTx, market
<1>5. Units(sess[s].lines, r) = Units(orders[o].lines, r) /\ Units(orders[o].lines, r) \in Nat
  BY <1>0, <1>1, <1>2, UnitsSame, UnitsType
<1>6. inv'[r].qty = IF inv[r].qty > Units(orders[o].lines, r) THEN inv[r].qty - Units(orders[o].lines, r) ELSE 0
  BY <1>0, <1>4, <1>5, TakeOffIs
<1>7. w \in [Refs -> Nat]
  BY OwedType
<1>8. v \in [Refs -> Nat]
  <2>1. \A f \in Refs : v[f] = Owed(f, r)'
    BY DEF OwedEach
  <2>2. \A f \in Refs : Owed(f, r)' \in Nat
    BY OwedThen, BoughtType
  <2>3. v = [f \in Refs |-> Owed(f, r)']
    BY DEF OwedEach
  <2>4. QED
    BY <2>2, <2>3
<1>9. \A f \in Refs : w[f] = Owed(f, r) /\ v[f] = Owed(f, r)'
  BY DEF OwedEach
<1>10. ASSUME NEW f \in Refs, f # orders[o].ref PROVE v[f] = w[f]
  <2>1. Reported(f)' <=> Reported(f)
    <3>1. ASSUME NEW u \in Sessions, ShipTx(u), orders[sess[u].o].ref = f PROVE FALSE
      <4>1. u = s
        <5>1. sess[u] \in Locals /\ sess[s] \in Locals /\ sess[u].pc = "shipTx"
          BY <1>0, <3>1 DEF ShipTx
        <5>2. sess' = [sess EXCEPT ![u] = [sess[u] EXCEPT !.pc = "after", !.lines = <<>>]]
          BY <3>1 DEF ShipTx
        <5>3. sess' = [sess EXCEPT ![s] = [sess[s] EXCEPT !.pc = "after", !.lines = <<>>]]
          BY DEF ShipTx
        <5>4. sess'[u].pc = "after"
          BY <1>0, <5>1, <5>2 DEF Locals
        <5>5. u # s => sess'[u] = sess[u]
          BY <1>0, <5>3
        <5>6. QED
          BY <5>1, <5>4, <5>5
      <4>2. QED
        BY <1>10, <3>1, <4>1
    <3>2. QED
      BY <3>1, ReportedStays, ReportedStep
  <2>2. QED
    BY <1>4, <1>9, <2>1, OwedWhat, OwedThen
<1> HIDE DEF w, v
<1>11. CASE orders[o].ref = NoRef
  <2>1. v = w
    BY <1>7, <1>8, <1>10, <1>11, StockAssumption
  <2>2. ~ Names(orders'[o].lines, r)
    BY <1>2, <1>3, <1>11 DEF TypedOut
  <2>3. ~ Names(orders[o].lines, r)
    BY <1>3, <2>2 DEF Names, SameLines
  <2>4. Units(orders[o].lines, r) = 0
    BY <1>2, <2>3, UnitsType DEF Names
  <2>5. inv'[r].qty = inv[r].qty
    BY <1>0, <1>6, <2>4
  <2>6. QED
    BY <1>4, <2>1, <2>5 DEF w, v
<1>12. CASE orders[o].ref # NoRef
  <2> DEFINE u == Units(orders[o].lines, r)
  <2>0. PICK f \in Refs : f = orders[o].ref
    BY <1>2, <1>12
  <2>1. u = Bought(f, r) /\ ebay[f] # "none"
    BY <1>1, <1>2, <1>12, <2>0 DEF UnitsInv, RefsInv
  <2>2. ~ Reported(f) /\ Reported(f)'
    <3>1. Reported(f)'
      BY <1>2, <1>3, <2>0 DEF Reported
    <3>2. ASSUME NEW p \in Ids, orders[p].ref = f, orders[p].status = "shipped" PROVE FALSE
      <4>1. Exists(p)
        BY <3>2 DEF Exists
      <4>2. p = o
        BY <1>1, <1>12, <2>0, <3>2, <4>1 DEF FetchInv, ImportedOnce
      <4>3. QED
        BY <1>1, <3>2, <4>2
    <3>3. QED
      BY <3>1, <3>2 DEF Reported
  <2>3. w[f] = u /\ v[f] = 0
    BY <1>9, <2>1, <2>2, OwedWhat, OwedThen
  <2> HIDE DEF u
  <2>4. PICK rest \in Nat : Total(w) = w[f] + rest /\ Total(v) = v[f] + rest
    BY <1>7, <1>8, <1>10, <2>0, OwedOther
  <2>5. shelf[r] + (u + rest) = inv[r].qty /\ u \in Nat
    BY <1>5, <2>3, <2>4 DEF w, u
  <2>6. inv'[r].qty = shelf[r] + rest
    BY <1>0, <1>6, <2>4, <2>5 DEF u
  <2>7. Total(v) = rest
    BY <2>3, <2>4
  <2>8. QED
    BY <1>4, <2>6, <2>7 DEF v
<1>13. QED
  BY <1>11, <1>12

LEMMA BalanceBuy ==
    ASSUME OneRowEach, TypeInv, ClerkInv, RefsInv, [Next]_vars, NEW f \in Refs, Buy(f), NEW r \in Rows,
           shelf[r] + Total(OwedEach(r)) = inv[r].qty
    PROVE  shelf'[r] + Total(OwedEach(r)') = inv'[r].qty
<1> DEFINE w == OwedEach(r)
           v == OwedEach(r)'
<1>0. TypeOK /\ shelf[r] \in Nat /\ inv[r].qty \in Nat /\ ebay \in [Refs -> {"none", "open", "shipped"}]
  BY DEF TypeInv, TypeOK, StockRec
<1>1. inv' = inv /\ orders' = orders /\ ebay[f] = "none" /\ ebay' = [ebay EXCEPT ![f] = "open"]
  BY DEF Buy
<1>2. Bought(f, r) <= shelf[r] /\ shelf'[r] = shelf[r] - Bought(f, r) /\ Bought(f, r) \in Nat
  BY <1>0, BuyTakes, BoughtType
<1>3. \A e : Reported(e)' <=> Reported(e)
  BY <1>1 DEF Reported, Ids
<1>4. ~ Reported(f)
  BY <1>1, StockAssumption DEF Reported, RefsInv
<1>5. \A e \in Refs : w[e] = Owed(e, r) /\ v[e] = Owed(e, r)'
  BY DEF OwedEach
<1>6. w \in [Refs -> Nat]
  BY OwedType
<1>7. v \in [Refs -> Nat]
  <2>1. v = [e \in Refs |-> Owed(e, r)']
    BY DEF OwedEach
  <2>2. \A e \in Refs : Owed(e, r)' \in Nat
    BY OwedThen, BoughtType
  <2>3. QED
    BY <2>1, <2>2
<1>8. \A e \in Refs : e # f => v[e] = w[e]
  BY <1>0, <1>1, <1>3, <1>5, OwedWhat, OwedThen
<1>9. w[f] = 0 /\ v[f] = Bought(f, r)
  BY <1>0, <1>1, <1>3, <1>4, <1>5, OwedWhat, OwedThen
<1> HIDE DEF w, v
<1>10. PICK rest \in Nat : Total(w) = w[f] + rest /\ Total(v) = v[f] + rest
  BY <1>6, <1>7, <1>8, OwedOther
<1>11. Total(w) = rest /\ Total(v) = Bought(f, r) + rest
  BY <1>2, <1>9, <1>10
<1>12. shelf[r] + rest = inv[r].qty
  BY <1>11 DEF w
<1>13. shelf'[r] + Total(v) = inv[r].qty
  BY <1>0, <1>2, <1>10, <1>11, <1>12
<1>14. QED
  BY <1>1, <1>13 DEF v

LEMMA BuyerNext ==
    /\ OneRowEach /\ TypeInv /\ ClerkInv /\ FetchInv /\ RefsInv /\ UnitsInv /\ PastInv /\ BuyerBalance
    /\ [Next]_vars
    => BuyerBalance'
<1> SUFFICES ASSUME OneRowEach, TypeInv, ClerkInv, FetchInv, RefsInv, UnitsInv, PastInv, BuyerBalance, [Next]_vars,
                    NEW r \in Rows, ByBuyers(r), ~ TypedOut(r)'
             PROVE  shelf'[r] + Total(OwedEach(r)') = inv'[r].qty
  BY DEF BuyerBalance, ByBuyers, BoughtLines
<1>0. TypeOK /\ shelf \in [Rows -> Nat]
  BY DEF TypeInv, TypeOK
<1>1. ~ TypedOut(r) /\ shelf[r] + Total(OwedEach(r)) = inv[r].qty
  BY TypedStays DEF BuyerBalance
<1>2. CASE \E s \in Sessions : ShipTx(s)
  BY <1>1, <1>2, BalanceShip
<1>3. CASE \E f \in Refs : Buy(f)
  BY <1>1, <1>3, BalanceBuy
<1>4. CASE ~ (\E s \in Sessions : ShipTx(s)) /\ ~ (\E f \in Refs : Buy(f))
  <2>1. inv'[r].qty = inv[r].qty
    BY <1>0, <1>4, InvStep
  <2>2. ASSUME NEW s \in Sessions, SyncPush(s) PROVE shelf'[r] = shelf[r]
    <3>1. sess[s].pc = "syncPush" /\ Row(s) \in Rows
      BY <2>2 DEF SyncPush, PastInv, PastOK, Syncing
    <3>2. Names(sess[s].lines, Row(s))
      <4>1. sess[s].lines \in Seq(LineRec) /\ sess[s].lines # <<>>
        BY <1>0, <3>1 DEF TypeInv, TypeOK, Locals, LocalOK, Syncing
      <4>2. QED
        BY <4>1, NamesTail DEF Row
    <3>3. Row(s) # r
      BY <1>1, <3>1, <3>2 DEF PastInv, PastOK, Syncing
    <3>4. QED
      BY <1>0, <2>2, <3>3 DEF SyncPush
  <2>3. shelf'[r] = shelf[r]
    BY <1>0, <1>4, <2>2, ShelfStep
  <2>4. ASSUME NEW f \in Refs PROVE Owed(f, r)' = Owed(f, r)
    <3>1. Reported(f)' <=> Reported(f)
      BY <1>4, ReportedStays, ReportedStep
    <3>2. ebay'[f] = "none" <=> ebay[f] = "none"
      <4>1. ASSUME NEW s \in Sessions, AfterEbay(s) PROVE ebay'[f] = ebay[f] \/ (ebay'[f] = "shipped" /\ ebay[f] # "none")
        <5>1. sess[s].o \in Ids /\ orders[sess[s].o].ref # NoRef
          BY <4>1 DEF AfterEbay, Exists
        <5>2. ebay[orders[sess[s].o].ref] # "none"
          BY <5>1 DEF RefsInv
        <5>3. ebay \in [Refs -> {"none", "open", "shipped"}]
          BY <1>0 DEF TypeOK
        <5>4. QED
          BY <4>1, <5>2, <5>3 DEF AfterEbay
      <4>2. QED
        BY <1>0, <1>4, <4>1, EbayStep
    <3>3. QED
      BY <3>1, <3>2, OwedWhat, OwedThen
  <2>5. OwedEach(r)' = OwedEach(r)
    BY <2>4 DEF OwedEach
  <2>6. QED
    BY <1>1, <2>1, <2>3, <2>5
<1>5. QED
  BY <1>2, <1>3, <1>4

-----------------------------------------------------------------------------
LEMMA BalanceInit == Init => RefsInv /\ UnitsInv /\ PastInv /\ EndedInv /\ TypedBalance /\ BuyerBalance
<1> SUFFICES ASSUME Init PROVE RefsInv /\ UnitsInv /\ PastInv /\ EndedInv /\ TypedBalance /\ BuyerBalance
  OBVIOUS
<1>1. Ids = {} /\ Idle.refs = {} /\ Idle.pc = "idle"
  BY EmptySeq DEF Init, Ids, Idle
<1>2. RefsInv /\ UnitsInv
  BY <1>1 DEF Init, RefsInv, UnitsInv
<1>3. PastInv
  BY <1>1 DEF Init, PastInv, PastOK, Past, Syncing
<1>4. \A r \in Rows : Stock[r] \in Nat /\ inv[r].qty = Stock[r] /\ shelf[r] = Stock[r] /\ listing[r].live
  BY StockAssumption DEF Init
<1>5. EndedInv /\ TypedBalance
  BY <1>4 DEF EndedInv, TypedBalance
<1>6. ASSUME NEW r \in Rows PROVE Total(OwedEach(r)) = 0
  <2> DEFINE w == OwedEach(r)
  <2>1. \A f \in Refs : w[f] = 0
    BY OwedWhat DEF Init, OwedEach
  <2>2. w \in [Refs -> Nat] /\ IsFiniteSet(Refs)
    BY OwedType, StockAssumption
  <2> HIDE DEF w
  <2>3. Total(w) = 0
    BY <2>1, <2>2, TotalZero
  <2>4. QED
    BY <2>3 DEF w
<1>7. BuyerBalance
  BY <1>4, <1>6 DEF BuyerBalance
<1>8. QED
  BY <1>2, <1>3, <1>5, <1>7

\* Between requests that have stopped nowhere the two balances are what the property says.
LEMMA BalanceIs == TypeInv /\ TypedBalance /\ BuyerBalance => EbayStockTrue
<1> SUFFICES ASSUME TypeInv, TypedBalance, BuyerBalance, asked["die"] = 0, \A s \in Sessions : sess[s].pc = "idle",
                    NEW r \in Rows \ SoldBothWays
             PROVE  shelf[r] + MapThenSumSet(LAMBDA f : Owed(f, r), Refs) = inv[r].qty
  BY DEF EbayStockTrue
<1>0. TypeOK /\ shelf[r] \in Nat /\ inv[r].qty \in Nat
  BY DEF TypeInv, TypeOK, StockRec
<1>1. MapThenSumSet(LAMBDA f : Owed(f, r), Refs) = Total(OwedEach(r))
  BY OwedIs
<1>2. CASE ByBuyers(r)
  <2>1. ASSUME NEW o \in Ids, orders[o].ref = NoRef, orders[o].status = "shipped", Names(orders[o].lines, r)
        PROVE  FALSE
    <3>1. orders[o].lines \in Seq(LineRec)
      BY <1>0, IdsAre
    <3>2. Units(orders[o].lines, r) > 0
      BY <2>1, <3>1, UnitsSome DEF Names
    <3>3. \E f \in Refs : \E l \in DOMAIN BasketOf[f] : r \in RowsOf[BasketOf[f][l][1]]
      BY <1>2 DEF ByBuyers, BoughtLines
    <3>4. r \in SoldBothWays
      BY <2>1, <3>2, <3>3 DEF SoldBothWays
    <3>5. QED
      BY <3>4
  <2>2. ~ TypedOut(r)
    BY <2>1 DEF TypedOut
  <2>3. QED
    BY <1>1, <1>2, <2>2 DEF BuyerBalance
<1>3. CASE ~ ByBuyers(r)
  <2>1. shelf[r] = inv[r].qty
    BY <1>3 DEF TypedBalance, Pending
  <2>2. \A f \in Refs : Owed(f, r) = 0
    BY <1>3, OwedType, BoughtType DEF ByBuyers
  <2> DEFINE w == OwedEach(r)
  <2>3. w \in [Refs -> Nat] /\ IsFiniteSet(Refs) /\ \A f \in Refs : w[f] = 0
    BY <2>2, OwedType, StockAssumption DEF OwedEach
  <2> HIDE DEF w
  <2>4. Total(w) = 0
    BY <2>3, TotalZero
  <2>5. QED
    BY <1>0, <1>1, <2>1, <2>4 DEF w
<1>4. QED
  BY <1>2, <1>3

\* "So eBay stock stays true": where one request at a time picks, ships and deletes, one fetches, and
\* a SKU that buyers order is on one row, then between requests that have stopped nowhere what eBay
\* offers and what its waiting buyers are owed add up to the copies on hand, for each row that is not
\* sold on eBay and elsewhere.
THEOREM OrdersEbayStockTrue == OneClerk /\ OneFetch /\ OneRowEach /\ Spec => []EbayStockTrue
<1> DEFINE All == /\ TypeInv /\ ClerkInv /\ FetchInv /\ RefsInv /\ UnitsInv /\ PastInv /\ EndedInv
                  /\ TypedBalance /\ BuyerBalance
<1>1. Init => All
  BY TypeInit, ClerkInit, FetchInit, BalanceInit
<1>2. OneClerk /\ OneFetch /\ OneRowEach /\ All /\ [Next]_vars => All'
  BY TypeNext, ClerkNext, FetchNext, RefsNext, UnitsNext, PastNext, EndedNext, TypedNext, BuyerNext
<1>3. All => EbayStockTrue
  BY BalanceIs
<1>4. /\ OneClerk => OneClerk'
      /\ OneFetch => OneFetch'
      /\ OneRowEach => OneRowEach'
  BY DEF OneClerk, OneFetch, OneRowEach
<1> HIDE DEF All
<1>5. QED
  BY <1>1, <1>2, <1>3, <1>4, PTL DEF Spec
=============================================================================
