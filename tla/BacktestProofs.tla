---------------------------- MODULE BacktestProofs ----------------------------
(***************************************************************************)
(* TLAPS proofs about Backtest: what sums, indicators, the loop over the   *)
(* bars and the correlation compute, for series of closes of any length.   *)
(* Recursions are reasoned about with Upward, the principle of induction   *)
(* in terms of a set: an interval whose first number is in the set, and    *)
(* with a number the next, is in the set.                                  *)
(***************************************************************************)
EXTENDS Backtest, FiniteSetTheorems, SequenceTheorems, TLAPS

LEMMA LeastNatural ==
  ASSUME NEW T \in SUBSET Nat, T # {}
  PROVE  \E n \in T : \A m \in T : n <= m
<1> DEFINE R == OpToRel(<, Nat)
<1>1. \A a, b \in Nat : <<a, b>> \in R <=> a < b
  BY DEF OpToRel
<1>2. IsWellFoundedOn(R, Nat)
  BY NatLessThanWellFounded
<1> HIDE DEF R
<1>3. PICK n \in T : \A m \in T : ~(<<m, n>> \in R)
  BY <1>2, WFMin
<1>4. n \in Nat /\ \A m \in T : m \in Nat /\ ~(m < n)
  BY <1>1, <1>3
<1>5. QED
  BY <1>3, <1>4

LEMMA Upward ==
  ASSUME NEW S, NEW a \in Int, NEW b \in Int, a \in S,
         \A i \in a .. b - 1 : i \in S => i + 1 \in S
  PROVE  a .. b \subseteq S
<1> SUFFICES ASSUME NEW x \in a .. b, x \notin S PROVE FALSE
  OBVIOUS
<1> DEFINE T == {n \in Nat : a + n <= b /\ a + n \notin S}
<1>1. x - a \in T
  OBVIOUS
<1>2. T \in SUBSET Nat /\ T # {}
  BY <1>1
<1>3. PICK n \in T : \A m \in T : n <= m
  BY <1>2, LeastNatural
<1>4. n # 0
  BY <1>3
<1>5. n - 1 \notin T /\ n - 1 \in Nat
  BY <1>3, <1>4
<1>6. a + n - 1 \in S /\ a + n - 1 \in a .. b - 1
  BY <1>3, <1>5
<1>7. a + n \in S
  BY <1>3, <1>6
<1>8. QED
  BY <1>3, <1>7

\* A family of sets that has a subset of D when it has that subset without any of its
\* elements has all of them.
LEMMA SetUpward ==
  ASSUME NEW D, IsFiniteSet(D), NEW Q, {} \in Q,
         \A s \in SUBSET D : s # {} /\ (\A x \in s : s \ {x} \in Q) => s \in Q
  PROVE  SUBSET D \subseteq Q
<1> DEFINE T == {k \in Nat : \A s \in SUBSET D : Cardinality(s) = k => s \in Q}
<1>1. \A s \in SUBSET D : IsFiniteSet(s) /\ Cardinality(s) \in Nat
                         /\ Cardinality(s) <= Cardinality(D)
  BY FS_Subset, FS_CardinalityType
<1>2. 0 \in T
  BY <1>1, FS_EmptySet
<1>3. Cardinality(D) \in Nat
  BY FS_CardinalityType
<1>4. ASSUME NEW k \in 0 .. Cardinality(D) - 1, k \in T PROVE k + 1 \in T
  <2> SUFFICES ASSUME NEW s \in SUBSET D, Cardinality(s) = k + 1 PROVE s \in Q
    BY <1>3
  <2>1. s # {}
    BY <1>3, FS_EmptySet
  <2>2. ASSUME NEW x \in s PROVE s \ {x} \in Q
    <3>1. Cardinality(s \ {x}) = k
      BY <1>1, <1>3, FS_RemoveElement
    <3>2. s \ {x} \in SUBSET D
      OBVIOUS
    <3>3. QED
      BY <1>4, <3>1, <3>2
  <2>3. QED
    BY <2>1, <2>2
<1> HIDE DEF T
<1>5. 0 .. Cardinality(D) \subseteq T
  BY <1>2, <1>3, <1>4, Upward
<1>6. ASSUME NEW s \in SUBSET D PROVE s \in Q
  <2>1. Cardinality(s) \in T
    BY <1>1, <1>3, <1>5
  <2>2. QED
    BY <2>1 DEF T
<1>7. QED
  BY <1>6

(***************************************************************************)
(* Sums.  Adding says of it that it holds the sum of each subset of D.     *)
(***************************************************************************)
Chosen(s) == CHOOSE x \in s : TRUE

LEMMA ChosenIn ==
  ASSUME NEW s, s # {}
  PROVE  Chosen(s) \in s
BY Zenon DEF Chosen

Adding(it, f, D) ==
  it = [s \in SUBSET D |-> IF s = {} THEN 0 ELSE f[Chosen(s)] + it[s \ {Chosen(s)}]]

AddingUpTo(it, f, D, k) ==
  it = [s \in {t \in SUBSET D : Cardinality(t) <= k} |->
          IF s = {} THEN 0 ELSE f[Chosen(s)] + it[s \ {Chosen(s)}]]

LEMMA AddingExists ==
  ASSUME NEW D, IsFiniteSet(D), NEW f
  PROVE  \E it : Adding(it, f, D)
<1> DEFINE Few(k) == {t \in SUBSET D : Cardinality(t) <= k}
           S == {k \in Nat : \E it : AddingUpTo(it, f, D, k)}
<1>1. \A s \in SUBSET D : IsFiniteSet(s) /\ Cardinality(s) \in Nat
                         /\ Cardinality(s) <= Cardinality(D)
  BY FS_Subset, FS_CardinalityType
<1>2. Cardinality(D) \in Nat
  BY FS_CardinalityType
<1>3. 0 \in S
  <2>1. \A s \in Few(0) : s = {}
    BY <1>1, FS_EmptySet
  <2> DEFINE g == [s \in Few(0) |-> 0]
  <2>2. g = [s \in Few(0) |-> IF s = {} THEN 0 ELSE f[Chosen(s)] + g[s \ {Chosen(s)}]]
    BY <2>1
  <2> HIDE DEF g
  <2>3. AddingUpTo(g, f, D, 0)
    BY <2>2 DEF AddingUpTo
  <2>4. QED
    BY <2>3
<1>4. ASSUME NEW k \in 0 .. Cardinality(D) - 1, k \in S PROVE k + 1 \in S
  <2>1. PICK it : AddingUpTo(it, f, D, k)
    BY <1>4
  <2> DEFINE g == [s \in Few(k + 1) |->
                     IF s = {} THEN 0 ELSE f[Chosen(s)] + it[s \ {Chosen(s)}]]
  <2>2. \A s \in Few(k) : s \in Few(k + 1)
    BY <1>1, <1>2
  <2>3. \A s \in Few(k) : g[s] = it[s]
    BY <2>1, <2>2 DEF AddingUpTo
  <2>4. ASSUME NEW s \in Few(k + 1), s # {}
        PROVE  s \ {Chosen(s)} \in Few(k)
    <3>1. Chosen(s) \in s
      BY <2>4, ChosenIn
    <3>2. Cardinality(s \ {Chosen(s)}) = Cardinality(s) - 1
      BY <1>1, <3>1, FS_RemoveElement
    <3>3. QED
      BY <1>1, <1>2, <3>2
  <2>5. \A s \in Few(k + 1) : s # {} => it[s \ {Chosen(s)}] = g[s \ {Chosen(s)}]
    BY <2>3, <2>4
  <2>6. g = [s \in Few(k + 1) |->
               IF s = {} THEN 0 ELSE f[Chosen(s)] + g[s \ {Chosen(s)}]]
    BY <2>5
  <2> HIDE DEF g
  <2>7. AddingUpTo(g, f, D, k + 1)
    BY <2>6 DEF AddingUpTo
  <2>8. k + 1 \in Nat
    BY <1>2
  <2>9. QED
    BY <2>7, <2>8
<1> HIDE DEF S
<1>5. 0 .. Cardinality(D) \subseteq S
  BY <1>2, <1>3, <1>4, Upward
<1>6. PICK it : AddingUpTo(it, f, D, Cardinality(D))
  <2>1. Cardinality(D) \in S
    BY <1>2, <1>5
  <2>2. QED
    BY <2>1 DEF S
<1>7. Few(Cardinality(D)) = SUBSET D
  BY <1>1
<1>8. Adding(it, f, D)
  BY <1>6, <1>7 DEF AddingUpTo, Adding
<1>9. QED
  BY <1>8

LEMMA SumIs ==
  ASSUME NEW f, IsFiniteSet(DOMAIN f)
  PROVE  \E it : Adding(it, f, DOMAIN f) /\ SumFunction(f) = it[DOMAIN f]
<1>1. SumFunction(f) = (CHOOSE it : Adding(it, f, DOMAIN f))[DOMAIN f]
  BY DEF SumFunction, SumFunctionOnSet, FoldFunctionOnSet, MapThenFoldSet, Adding, Chosen
<1>2. \E it : Adding(it, f, DOMAIN f)
  BY AddingExists
<1>3. Adding(CHOOSE it : Adding(it, f, DOMAIN f), f, DOMAIN f)
  BY <1>2, Zenon
<1>4. QED
  BY <1>1, <1>3

LEMMA AddingSame ==
  ASSUME NEW s, IsFiniteSet(s), NEW D, NEW E, s \subseteq D, s \subseteq E,
         NEW f, NEW g, \A x \in s : f[x] = g[x],
         NEW it, Adding(it, f, D), NEW jt, Adding(jt, g, E)
  PROVE  it[s] = jt[s]
<1> DEFINE Q == {t \in SUBSET s : it[t] = jt[t]}
<1>1. \A t \in SUBSET s : it[t] = IF t = {} THEN 0 ELSE f[Chosen(t)] + it[t \ {Chosen(t)}]
  BY DEF Adding
<1>2. \A t \in SUBSET s : jt[t] = IF t = {} THEN 0 ELSE g[Chosen(t)] + jt[t \ {Chosen(t)}]
  BY DEF Adding
<1>3. {} \in Q
  BY <1>1, <1>2
<1>4. ASSUME NEW t \in SUBSET s, t # {}, \A x \in t : t \ {x} \in Q PROVE t \in Q
  <2>1. Chosen(t) \in t
    BY <1>4, ChosenIn
  <2>2. it[t \ {Chosen(t)}] = jt[t \ {Chosen(t)}] /\ f[Chosen(t)] = g[Chosen(t)]
    BY <1>4, <2>1
  <2>3. it[t] = jt[t]
    BY <1>1, <1>2, <1>4, <2>2
  <2>4. QED
    BY <2>3
<1> HIDE DEF Q
<1>5. SUBSET s \subseteq Q
  BY <1>3, <1>4, SetUpward
<1>6. s \in Q
  BY <1>5
<1>7. QED
  BY <1>6 DEF Q

\* A sum is the chosen term and the sum of the others.
LEMMA SumChosen ==
  ASSUME NEW s, IsFiniteSet(s), s # {}, NEW x
  PROVE  SumOver(x, s) = x[Chosen(s)] + SumOver(x, s \ {Chosen(s)})
<1> DEFINE t == s \ {Chosen(s)}
           f == [i \in s |-> x[i]]
           g == [i \in t |-> x[i]]
<1>1. Chosen(s) \in s
  BY ChosenIn
<1>2. IsFiniteSet(t) /\ DOMAIN f = s /\ DOMAIN g = t /\ t \subseteq s
  BY FS_RemoveElement
<1>3. f[Chosen(s)] = x[Chosen(s)] /\ \A i \in t : f[i] = g[i]
  BY <1>1
<1>4. SumOver(x, s) = SumFunction(f) /\ SumOver(x, t) = SumFunction(g)
  BY DEF SumOver
<1> HIDE DEF t, f, g
<1>5. PICK it : Adding(it, f, s) /\ SumFunction(f) = it[s]
  BY <1>2, SumIs
<1>6. PICK jt : Adding(jt, g, t) /\ SumFunction(g) = jt[t]
  BY <1>2, SumIs
<1>7. it[t] = jt[t]
  BY <1>2, <1>3, <1>5, <1>6, AddingSame
<1>8. it[s] = f[Chosen(s)] + it[t]
  BY <1>5 DEF Adding, t
<1>9. QED
  BY <1>3, <1>4, <1>5, <1>6, <1>7, <1>8 DEF t

LEMMA SumEmpty ==
  ASSUME NEW x
  PROVE  SumOver(x, {}) = 0
<1> DEFINE f == [i \in {} |-> x[i]]
<1>1. DOMAIN f = {} /\ IsFiniteSet({}) /\ SumOver(x, {}) = SumFunction(f)
  BY FS_EmptySet DEF SumOver
<1> HIDE DEF f
<1>2. PICK it : Adding(it, f, {}) /\ SumFunction(f) = it[{}]
  BY <1>1, SumIs
<1>3. QED
  BY <1>1, <1>2 DEF Adding

LEMMA SumType ==
  ASSUME NEW s, IsFiniteSet(s), NEW x, \A i \in s : x[i] \in Int
  PROVE  SumOver(x, s) \in Int
<1> DEFINE Q == {t \in SUBSET s : SumOver(x, t) \in Int}
<1>1. {} \in Q
  BY SumEmpty
<1>2. ASSUME NEW t \in SUBSET s, t # {}, \A i \in t : t \ {i} \in Q PROVE t \in Q
  <2>1. Chosen(t) \in t
    BY <1>2, ChosenIn
  <2>2. SumOver(x, t \ {Chosen(t)}) \in Int /\ x[Chosen(t)] \in Int
    BY <1>2, <2>1
  <2>3. IsFiniteSet(t)
    BY FS_Subset
  <2>4. SumOver(x, t) = x[Chosen(t)] + SumOver(x, t \ {Chosen(t)})
    BY <1>2, <2>3, SumChosen
  <2>5. SumOver(x, t) \in Int
    BY <2>2, <2>4
  <2>6. QED
    BY <2>5
<1> HIDE DEF Q
<1>3. SUBSET s \subseteq Q
  BY <1>1, <1>2, SetUpward
<1>4. s \in Q
  BY <1>3
<1>5. QED
  BY <1>4 DEF Q

\* Any term can be taken out first.
LEMMA SumRemove ==
  ASSUME NEW s, IsFiniteSet(s), NEW x, \A i \in s : x[i] \in Int, NEW i \in s
  PROVE  SumOver(x, s) = x[i] + SumOver(x, s \ {i})
<1> DEFINE Q == {t \in SUBSET s : \A j \in t : SumOver(x, t) = x[j] + SumOver(x, t \ {j})}
<1>1. {} \in Q
  OBVIOUS
<1>2. ASSUME NEW t \in SUBSET s, t # {}, \A j \in t : t \ {j} \in Q PROVE t \in Q
  <2> SUFFICES ASSUME NEW j \in t PROVE SumOver(x, t) = x[j] + SumOver(x, t \ {j})
    OBVIOUS
  <2>1. PICK c : c = Chosen(t) /\ c \in t
    BY <1>2, ChosenIn
  <2>2. IsFiniteSet(t)
    BY FS_Subset
  <2>3. SumOver(x, t) = x[c] + SumOver(x, t \ {c})
    BY <1>2, <2>1, <2>2, SumChosen
  <2>4. CASE j = c
    BY <2>3, <2>4
  <2>5. CASE j # c
    <3>1. j \in t \ {c} /\ c \in t \ {j} /\ (t \ {c}) \ {j} = (t \ {j}) \ {c}
      BY <2>1, <2>5
    <3>2. PICK rest : rest = (t \ {c}) \ {j}
      OBVIOUS
    <3>3. SumOver(x, t \ {c}) = x[j] + SumOver(x, rest)
      BY <1>2, <2>1, <3>1, <3>2
    <3>4. SumOver(x, t \ {j}) = x[c] + SumOver(x, rest)
      BY <1>2, <3>1, <3>2
    <3>5. IsFiniteSet(rest) /\ rest \subseteq s
      BY <2>2, <3>2, FS_RemoveElement
    <3>6. x[c] \in Int /\ x[j] \in Int /\ SumOver(x, rest) \in Int
      BY <2>1, <3>5, SumType
    <3>7. QED
      BY <2>3, <3>3, <3>4, <3>6
  <2>6. QED
    BY <2>4, <2>5
<1> HIDE DEF Q
<1>3. SUBSET s \subseteq Q
  BY <1>1, <1>2, SetUpward
<1>4. s \in Q
  BY <1>3
<1>5. QED
  BY <1>4 DEF Q

LEMMA SumNat ==
  ASSUME NEW s, IsFiniteSet(s), NEW x, \A i \in s : x[i] \in Nat
  PROVE  SumOver(x, s) \in Nat
<1> DEFINE Q == {t \in SUBSET s : SumOver(x, t) \in Nat}
<1>1. {} \in Q
  BY SumEmpty
<1>2. ASSUME NEW t \in SUBSET s, t # {}, \A i \in t : t \ {i} \in Q PROVE t \in Q
  <2>1. Chosen(t) \in t
    BY <1>2, ChosenIn
  <2>2. SumOver(x, t \ {Chosen(t)}) \in Nat /\ x[Chosen(t)] \in Nat
    BY <1>2, <2>1
  <2>3. IsFiniteSet(t)
    BY FS_Subset
  <2>4. SumOver(x, t) = x[Chosen(t)] + SumOver(x, t \ {Chosen(t)})
    BY <1>2, <2>3, SumChosen
  <2>5. SumOver(x, t) \in Nat
    BY <2>2, <2>4
  <2>6. QED
    BY <2>5
<1> HIDE DEF Q
<1>3. SUBSET s \subseteq Q
  BY <1>1, <1>2, SetUpward
<1>4. s \in Q
  BY <1>3
<1>5. QED
  BY <1>4 DEF Q

LEMMA SumPositive ==
  ASSUME NEW s, IsFiniteSet(s), s # {}, NEW x, \A i \in s : x[i] \in Nat \ {0}
  PROVE  SumOver(x, s) \in Nat \ {0}
<1>1. PICK i : i \in s
  OBVIOUS
<1>2. IsFiniteSet(s \ {i}) /\ \A j \in s : x[j] \in Nat /\ x[j] \in Int
  BY FS_RemoveElement
<1>3. SumOver(x, s \ {i}) \in Nat
  BY <1>2, SumNat
<1>4. SumOver(x, s) = x[i] + SumOver(x, s \ {i})
  BY <1>1, <1>2, SumRemove
<1>5. x[i] \in Nat \ {0}
  BY <1>1
<1>6. QED
  BY <1>3, <1>4, <1>5

LEMMA SumSame ==
  ASSUME NEW x, NEW y, NEW bars, \A i \in bars : x[i] = y[i]
  PROVE  SumOver(x, bars) = SumOver(y, bars)
<1>1. [i \in bars |-> x[i]] = [i \in bars |-> y[i]]
  OBVIOUS
<1>2. QED
  BY <1>1 DEF SumOver

LEMMA SumAll ==
  ASSUME NEW f, NEW s, f = [i \in s |-> f[i]]
  PROVE  SumFunction(f) = SumOver(f, s)
BY DEF SumOver

LEMMA SumScale ==
  ASSUME NEW s, IsFiniteSet(s), NEW x, NEW y, NEW k \in Int,
         \A i \in s : x[i] \in Int /\ y[i] = k * x[i]
  PROVE  SumOver(y, s) = k * SumOver(x, s)
<1> DEFINE Q == {t \in SUBSET s : SumOver(y, t) = k * SumOver(x, t)}
<1>1. {} \in Q
  <2>1. k * 0 = 0
    OBVIOUS
  <2>2. QED
    BY <2>1, SumEmpty
<1>2. ASSUME NEW t \in SUBSET s, t # {}, \A i \in t : t \ {i} \in Q PROVE t \in Q
  <2>1. PICK i : i \in t
    BY <1>2
  <2>2. PICK rest : rest = t \ {i}
    OBVIOUS
  <2>3. IsFiniteSet(t) /\ IsFiniteSet(rest)
    BY <2>2, FS_Subset
  <2>4. \A j \in t : x[j] \in Int /\ y[j] \in Int
    OBVIOUS
  <2>5. SumOver(x, rest) \in Int
    BY <2>2, <2>3, <2>4, SumType
  <2>6. SumOver(x, t) = x[i] + SumOver(x, rest)
    BY <2>1, <2>2, <2>3, <2>4, SumRemove
  <2>7. SumOver(y, t) = y[i] + SumOver(y, rest)
    BY <2>1, <2>2, <2>3, <2>4, SumRemove
  <2>8. SumOver(y, rest) = k * SumOver(x, rest)
    BY <1>2, <2>1, <2>2
  <2>9. x[i] \in Int /\ y[i] = k * x[i]
    BY <2>1
  <2>10. SumOver(y, t) = k * SumOver(x, t)
    BY <2>5, <2>6, <2>7, <2>8, <2>9
  <2>11. QED
    BY <2>10
<1> HIDE DEF Q
<1>3. SUBSET s \subseteq Q
  BY <1>1, <1>2, SetUpward
<1>4. s \in Q
  BY <1>3
<1>5. QED
  BY <1>4 DEF Q

\* The sum of products of deviations, multiplied out.
LEMMA MultipliedOut ==
  ASSUME NEW a \in Int, NEW b \in Int, NEW c \in Int, NEW x \in Int, NEW y \in Int,
         NEW p \in Int, NEW u \in Int, NEW v \in Int, NEW n \in Int
  PROVE  (a * x - b) * (a * y - c) + (a * a * p - a * c * u - a * b * v + n * (b * c))
           = a * a * (x * y + p) - a * c * (x + u) - a * b * (y + v) + (n + 1) * (b * c)
OBVIOUS

\* A product of two deviations, and the sum of n of them from the sums of the values.
Deviations(a, b, c, x, y) == (a * x - b) * (a * y - c)
OfDeviations(a, b, c, products, x, y, n) == a * a * products - a * c * x - a * b * y + n * (b * c)

LEMMA SumProducts ==
  ASSUME NEW s, IsFiniteSet(s), NEW a \in Int, NEW b \in Int, NEW c \in Int,
         NEW x, NEW y, NEW xy, NEW d,
         \A i \in s : x[i] \in Int, \A i \in s : y[i] \in Int,
         \A i \in s : xy[i] = x[i] * y[i],
         \A i \in s : d[i] = Deviations(a, b, c, x[i], y[i])
  PROVE  SumOver(d, s) = OfDeviations(a, b, c, SumOver(xy, s), SumOver(x, s), SumOver(y, s),
                                      Cardinality(s))
<1> DEFINE Total(t) == a * a * SumOver(xy, t) - a * c * SumOver(x, t) - a * b * SumOver(y, t)
                         + Cardinality(t) * (b * c)
           Q == {t \in SUBSET s : SumOver(d, t) = Total(t)}
<1>1. {} \in Q
  <2>1. /\ SumOver(d, {}) = 0 /\ SumOver(xy, {}) = 0 /\ SumOver(x, {}) = 0
        /\ SumOver(y, {}) = 0 /\ Cardinality({}) = 0
    BY SumEmpty, FS_EmptySet
  <2>2. QED
    BY <2>1
<1>2. ASSUME NEW t \in SUBSET s, t # {}, \A i \in t : t \ {i} \in Q PROVE t \in Q
  <2>1. PICK i : i \in t
    BY <1>2
  <2>2. PICK rest : rest = t \ {i}
    OBVIOUS
  <2>3. IsFiniteSet(t) /\ IsFiniteSet(rest)
    BY <2>2, FS_Subset
  <2>4. \A j \in t : x[j] \in Int /\ y[j] \in Int /\ xy[j] \in Int /\ d[j] \in Int
    BY DEF Deviations
  <2>5. SumOver(x, rest) \in Int /\ SumOver(y, rest) \in Int /\ SumOver(xy, rest) \in Int
    BY <2>2, <2>3, <2>4, SumType
  <2>6. /\ SumOver(x, t) = x[i] + SumOver(x, rest) /\ SumOver(y, t) = y[i] + SumOver(y, rest)
        /\ SumOver(xy, t) = xy[i] + SumOver(xy, rest)
        /\ SumOver(d, t) = d[i] + SumOver(d, rest)
    BY <2>1, <2>2, <2>3, <2>4, SumRemove
  <2>7. Cardinality(rest) \in Nat /\ Cardinality(t) = Cardinality(rest) + 1
    <3>1. Cardinality(t) \in Nat /\ Cardinality(rest) = Cardinality(t) - 1
      BY <2>1, <2>2, <2>3, FS_RemoveElement, FS_CardinalityType
    <3>2. Cardinality(rest) \in Nat
      BY <2>3, FS_CardinalityType
    <3>3. QED
      BY <3>1, <3>2
  <2>8. SumOver(d, rest) = Total(rest)
    BY <1>2, <2>1, <2>2
  <2>9. /\ x[i] \in Int /\ y[i] \in Int /\ xy[i] = x[i] * y[i]
        /\ d[i] = (a * x[i] - b) * (a * y[i] - c)
    BY <2>1 DEF Deviations
  <2>10. PICK p, u, v, n : /\ p = SumOver(xy, rest) /\ u = SumOver(x, rest)
                           /\ v = SumOver(y, rest) /\ n = Cardinality(rest)
    OBVIOUS
  <2>11. p \in Int /\ u \in Int /\ v \in Int /\ n \in Int
    BY <2>5, <2>7, <2>10
  <2>12. SumOver(d, t) = (a * x[i] - b) * (a * y[i] - c)
                           + (a * a * p - a * c * u - a * b * v + n * (b * c))
    BY <2>6, <2>8, <2>9, <2>10
  <2>13. Total(t) = a * a * (x[i] * y[i] + p) - a * c * (x[i] + u) - a * b * (y[i] + v)
                      + (n + 1) * (b * c)
    BY <2>6, <2>7, <2>9, <2>10
  <2>14. SumOver(d, t) = Total(t)
    BY <2>9, <2>11, <2>12, <2>13, MultipliedOut
  <2>15. QED
    BY <2>14
<1> HIDE DEF Q
<1>3. SUBSET s \subseteq Q
  BY <1>1, <1>2, SetUpward
<1>4. s \in Q
  BY <1>3
<1>5. QED
  BY <1>4 DEF Q, OfDeviations

LEMMA SumConst ==
  ASSUME NEW s, IsFiniteSet(s), NEW x, NEW v \in Int, \A i \in s : x[i] = v
  PROVE  SumOver(x, s) = Cardinality(s) * v
<1> DEFINE Q == {t \in SUBSET s : SumOver(x, t) = Cardinality(t) * v}
<1>1. {} \in Q
  <2>1. 0 * v = 0
    OBVIOUS
  <2>2. QED
    BY <2>1, SumEmpty, FS_EmptySet
<1>2. ASSUME NEW t \in SUBSET s, t # {}, \A i \in t : t \ {i} \in Q PROVE t \in Q
  <2>1. PICK i : i \in t
    BY <1>2
  <2>2. PICK rest : rest = t \ {i}
    OBVIOUS
  <2>3. IsFiniteSet(t) /\ IsFiniteSet(rest)
    BY <2>2, FS_Subset
  <2>4. \A j \in t : x[j] \in Int
    OBVIOUS
  <2>5. SumOver(x, t) = x[i] + SumOver(x, rest)
    BY <2>1, <2>2, <2>3, <2>4, SumRemove
  <2>6. Cardinality(rest) \in Nat /\ Cardinality(t) = Cardinality(rest) + 1
    <3>1. Cardinality(t) \in Nat /\ Cardinality(rest) = Cardinality(t) - 1
      BY <2>1, <2>2, <2>3, FS_RemoveElement, FS_CardinalityType
    <3>2. Cardinality(rest) \in Nat
      BY <2>3, FS_CardinalityType
    <3>3. QED
      BY <3>1, <3>2
  <2>7. SumOver(x, rest) = Cardinality(rest) * v
    BY <1>2, <2>1, <2>2
  <2>8. x[i] = v
    BY <2>1
  <2>9. SumOver(x, t) = Cardinality(t) * v
    BY <2>5, <2>6, <2>7, <2>8
  <2>10. QED
    BY <2>9
<1> HIDE DEF Q
<1>3. SUBSET s \subseteq Q
  BY <1>1, <1>2, SetUpward
<1>4. s \in Q
  BY <1>3
<1>5. QED
  BY <1>4 DEF Q

LEMMA SumPart ==
  ASSUME NEW s, IsFiniteSet(s), NEW part \in SUBSET s, NEW y, \A i \in s : y[i] \in Int,
         NEW x, \A i \in s : x[i] = IF i \in part THEN y[i] ELSE 0
  PROVE  SumOver(x, s) = SumOver(y, part)
<1> DEFINE Q == {t \in SUBSET s : SumOver(x, t) = SumOver(y, t \cap part)}
<1>1. {} \in Q
  <2>1. {} \cap part = {}
    OBVIOUS
  <2>2. QED
    BY <2>1, SumEmpty
<1>2. ASSUME NEW t \in SUBSET s, t # {}, \A i \in t : t \ {i} \in Q PROVE t \in Q
  <2>1. PICK i : i \in t
    BY <1>2
  <2>2. PICK rest, here : rest = t \ {i} /\ here = t \cap part
    OBVIOUS
  <2>3. IsFiniteSet(t) /\ IsFiniteSet(rest) /\ IsFiniteSet(here)
    BY <2>2, FS_Subset
  <2>4. \A j \in t : x[j] \in Int
    OBVIOUS
  <2>5. SumOver(x, t) = x[i] + SumOver(x, rest)
    BY <2>1, <2>2, <2>3, <2>4, SumRemove
  <2>6. SumOver(x, rest) = SumOver(y, rest \cap part)
    BY <1>2, <2>1, <2>2
  <2>7. CASE i \in part
    <3>1. here \ {i} = rest \cap part /\ i \in here /\ \A j \in here : y[j] \in Int
      BY <2>1, <2>2, <2>7
    <3>2. SumOver(y, here) = y[i] + SumOver(y, here \ {i})
      BY <2>3, <3>1, SumRemove
    <3>3. x[i] = y[i]
      BY <2>1, <2>7
    <3>4. SumOver(x, t) = SumOver(y, here)
      BY <2>5, <2>6, <3>1, <3>2, <3>3
    <3>5. QED
      BY <2>2, <3>4
  <2>8. CASE i \notin part
    <3>1. here = rest \cap part
      BY <2>2, <2>8
    <3>2. x[i] = 0
      BY <2>1, <2>8
    <3>3. SumOver(x, rest) \in Int
      BY <2>2, <2>3, <2>4, SumType
    <3>4. SumOver(x, rest) = SumOver(y, here)
      BY <2>6, <3>1
    <3>5. SumOver(x, t) = SumOver(y, here)
      BY <2>5, <3>2, <3>3, <3>4
    <3>6. QED
      BY <2>2, <3>5
  <2>9. QED
    BY <2>7, <2>8
<1> HIDE DEF Q
<1>3. SUBSET s \subseteq Q
  BY <1>1, <1>2, SetUpward
<1>4. s \in Q /\ s \cap part = part
  BY <1>3
<1>5. QED
  BY <1>4 DEF Q

LEMMA SumOfSquares ==
  ASSUME NEW s, IsFiniteSet(s), NEW x, NEW squares,
         \A i \in s : x[i] \in Int /\ squares[i] = x[i] * x[i], SumOver(squares, s) = 0
  PROVE  \A i \in s : x[i] = 0
<1> TAKE i \in s
<1>1. \A j \in s : squares[j] \in Nat /\ squares[j] \in Int
  OBVIOUS
<1>2. IsFiniteSet(s \ {i})
  BY FS_RemoveElement
<1>3. SumOver(squares, s \ {i}) \in Nat
  BY <1>1, <1>2, SumNat
<1>4. SumOver(squares, s) = squares[i] + SumOver(squares, s \ {i})
  BY <1>1, SumRemove
<1>5. squares[i] = 0
  BY <1>1, <1>3, <1>4
<1>6. x[i] \in Int /\ x[i] * x[i] = 0
  BY <1>5
<1>7. QED
  BY <1>6

(***************************************************************************)
(* The correlation.  CrossOf is n times the cross term of the textbook.    *)
(***************************************************************************)
CrossOf(n, products, x, y) == n * (n * products - x * y)

LEMMA CrossSum ==
  ASSUME NEW s, IsFiniteSet(s), NEW n, n = Cardinality(s), NEW x, NEW y, NEW xy, NEW d,
         \A i \in s : x[i] \in Int, \A i \in s : y[i] \in Int,
         \A i \in s : xy[i] = x[i] * y[i],
         \A i \in s : d[i] = Deviations(n, SumOver(x, s), SumOver(y, s), x[i], y[i])
  PROVE  SumOver(d, s) = CrossOf(n, SumOver(xy, s), SumOver(x, s), SumOver(y, s))
<1>1. n \in Int /\ \A i \in s : xy[i] \in Int
  BY FS_CardinalityType
<1>2. PICK p, u, v : p = SumOver(xy, s) /\ u = SumOver(x, s) /\ v = SumOver(y, s)
  OBVIOUS
<1>3. p \in Int /\ u \in Int /\ v \in Int
  BY <1>1, <1>2, SumType
<1>4. \A i \in s : d[i] = Deviations(n, u, v, x[i], y[i])
  BY <1>2
<1>5. SumOver(d, s) = OfDeviations(n, u, v, p, u, v, n)
  BY <1>1, <1>2, <1>3, <1>4, SumProducts
<1>6. OfDeviations(n, u, v, p, u, v, n) = CrossOf(n, p, u, v)
  BY <1>1, <1>3 DEF OfDeviations, CrossOf
<1>7. QED
  BY <1>2, <1>5, <1>6

LEMMA PearsonIs ==
  ASSUME NEW s, IsFiniteSet(s), NEW n, n = Cardinality(s),
         NEW x, x = [i \in s |-> x[i]], NEW y, y = [i \in s |-> y[i]],
         \A i \in s : x[i] \in Int, \A i \in s : y[i] \in Int,
         NEW xx, NEW yy, NEW xy,
         \A i \in s : xx[i] = x[i] * x[i], \A i \in s : yy[i] = y[i] * y[i],
         \A i \in s : xy[i] = x[i] * y[i]
  PROVE  btPearson(x, y) =
           IF \/ n < 2
              \/ CrossOf(n, SumOver(xx, s), SumOver(x, s), SumOver(x, s)) = 0
              \/ CrossOf(n, SumOver(yy, s), SumOver(y, s), SumOver(y, s)) = 0
           THEN Zero
           ELSE <<CrossOf(n, SumOver(xy, s), SumOver(x, s), SumOver(y, s)),
                  CrossOf(n, SumOver(xx, s), SumOver(x, s), SumOver(x, s))
                    * CrossOf(n, SumOver(yy, s), SumOver(y, s), SumOver(y, s))>>
<1> DEFINE dx == [i \in s |-> n * x[i] - SumOver(x, s)]
           dy == [i \in s |-> n * y[i] - SumOver(y, s)]
           dxx == [i \in s |-> dx[i] * dx[i]]
           dyy == [i \in s |-> dy[i] * dy[i]]
           dxy == [i \in s |-> dx[i] * dy[i]]
<1>1. DOMAIN x = s /\ DOMAIN y = s
  OBVIOUS
<1>2. SumFunction(x) = SumOver(x, s) /\ SumFunction(y) = SumOver(y, s)
  BY SumAll
<1>3. btPearson(x, y) = IF n < 2 \/ SumFunction(dxx) = 0 \/ SumFunction(dyy) = 0 THEN Zero
                        ELSE <<SumFunction(dxy), SumFunction(dxx) * SumFunction(dyy)>>
  BY <1>1, <1>2 DEF btPearson
<1>4. /\ \A i \in s : dxx[i] = Deviations(n, SumOver(x, s), SumOver(x, s), x[i], x[i])
      /\ \A i \in s : dyy[i] = Deviations(n, SumOver(y, s), SumOver(y, s), y[i], y[i])
      /\ \A i \in s : dxy[i] = Deviations(n, SumOver(x, s), SumOver(y, s), x[i], y[i])
  BY DEF Deviations
<1>5. /\ dxx = [i \in s |-> dxx[i]] /\ dyy = [i \in s |-> dyy[i]] /\ dxy = [i \in s |-> dxy[i]]
  OBVIOUS
<1> HIDE DEF dx, dy, dxx, dyy, dxy
<1>6. /\ SumFunction(dxx) = SumOver(dxx, s) /\ SumFunction(dyy) = SumOver(dyy, s)
      /\ SumFunction(dxy) = SumOver(dxy, s)
  BY <1>5, SumAll
<1>7. SumOver(dxx, s) = CrossOf(n, SumOver(xx, s), SumOver(x, s), SumOver(x, s))
  BY <1>4, CrossSum
<1>8. SumOver(dyy, s) = CrossOf(n, SumOver(yy, s), SumOver(y, s), SumOver(y, s))
  BY <1>4, CrossSum
<1>9. SumOver(dxy, s) = CrossOf(n, SumOver(xy, s), SumOver(x, s), SumOver(y, s))
  BY <1>4, CrossSum
<1>10. QED
  BY <1>3, <1>6, <1>7, <1>8, <1>9

\* A factor that is not 0 can be left out.
LEMMA Divided ==
  ASSUME NEW n \in Nat \ {0}, NEW a \in Int
  PROVE  /\ n * a > 0 <=> a > 0
         /\ n * a < 0 <=> a < 0
         /\ \A b \in Int : n * a = n * b => a = b
<1>1. a > 0 => n * a > 0
  OBVIOUS
<1>2. a < 0 => n * a < 0
  OBVIOUS
<1>3. a = 0 => n * a = 0
  OBVIOUS
<1>4. ASSUME NEW b \in Int, n * a = n * b PROVE a = b
  <2>1. n * (a - b) = 0
    BY <1>4
  <2>2. a - b > 0 => n * (a - b) > 0
    OBVIOUS
  <2>3. a - b < 0 => n * (a - b) < 0
    OBVIOUS
  <2>4. QED
    BY <2>1, <2>2, <2>3
<1>5. n * a \in Int
  OBVIOUS
<1>6. QED
  BY <1>1, <1>2, <1>3, <1>4, <1>5

\* The correlation of being chosen with a value has the sign of how much better the chosen
\* did than the average.
Correlates(correlation, s, part, y) ==
  LET better == Cardinality(s) * SumOver(y, part) - Cardinality(part) * SumOver(y, s)
  IN  IF part \in {{}, s} \/ \A i, j \in s : y[i] = y[j] THEN correlation = Zero
      ELSE /\ (correlation[1] > 0) = (better > 0)
           /\ (correlation[1] < 0) = (better < 0)

LEMMA CorrelationSign ==
  ASSUME NEW s, IsFiniteSet(s), NEW part \in SUBSET s, NEW y, y = [i \in s |-> y[i]],
         \A i \in s : y[i] \in Int, NEW x, x = [i \in s |-> IF i \in part THEN 1 ELSE 0]
  PROVE  Correlates(btPearson(x, y), s, part, y)
<1>1. PICK flat \in BOOLEAN : flat <=> \A i, j \in s : y[i] = y[j]
  OBVIOUS
<1>2. PICK better :
         better = Cardinality(s) * SumOver(y, part) - Cardinality(part) * SumOver(y, s)
  OBVIOUS
<1> DEFINE yy == [i \in s |-> y[i] * y[i]]
           xy == [i \in s |-> x[i] * y[i]]
<1>3. PICK n, m, v, w : /\ n = Cardinality(s) /\ m = Cardinality(part)
                        /\ v = SumOver(y, s) /\ w = SumOver(y, part)
  OBVIOUS
<1>4. IsFiniteSet(part) /\ n \in Nat /\ m \in Nat /\ m <= n /\ (m = n => part = s)
  BY <1>3, FS_Subset, FS_CardinalityType
<1>5. (m = 0 <=> part = {}) /\ (part = s => m = n)
  BY <1>3, <1>4, FS_EmptySet
<1>6. /\ \A i \in s : x[i] \in Int /\ x[i] = x[i] * x[i]
      /\ \A i \in s : y[i] \in Int
  OBVIOUS
<1>7. SumOver(x, s) = m
  <2> DEFINE one == [i \in s |-> 1]
  <2>1. /\ \A i \in s : one[i] \in Int
        /\ \A i \in s : x[i] = IF i \in part THEN one[i] ELSE 0
        /\ \A i \in part : one[i] = 1
    OBVIOUS
  <2> HIDE DEF one
  <2>2. SumOver(x, s) = SumOver(one, part)
    <3>1. /\ \A i \in s : one[i] \in Int
      BY <2>1
    <3>2. \A i \in s : x[i] = IF i \in part THEN one[i] ELSE 0
      BY <2>1
    <3>3. QED
      BY <3>1, <3>2, SumPart
  <2>3. SumOver(one, part) = m * 1
    BY <1>3, <1>4, <2>1, SumConst
  <2>4. QED
    BY <1>4, <2>2, <2>3
<1>8. SumOver(xy, s) = w
  <2>1. \A i \in s : xy[i] = IF i \in part THEN y[i] ELSE 0
    OBVIOUS
  <2> HIDE DEF xy
  <2>2. QED
    BY <1>3, <1>6, <2>1, SumPart
<1>9. /\ \A i \in s : yy[i] = y[i] * y[i] /\ yy[i] \in Int
      /\ \A i \in s : xy[i] = x[i] * y[i]
  OBVIOUS
<1> HIDE DEF yy, xy
<1>10. PICK q : q = SumOver(yy, s)
  OBVIOUS
<1>11. v \in Int /\ w \in Int /\ q \in Int
  BY <1>3, <1>4, <1>6, <1>9, <1>10, SumType
<1>12. btPearson(x, y) = IF n < 2 \/ CrossOf(n, m, m, m) = 0 \/ CrossOf(n, q, v, v) = 0
                         THEN Zero
                         ELSE <<CrossOf(n, w, m, v), CrossOf(n, m, m, m) * CrossOf(n, q, v, v)>>
  <2>1. /\ x = [i \in s |-> x[i]] /\ \A i \in s : x[i] \in Int
        /\ \A i \in s : x[i] = x[i] * x[i]
    BY <1>6
  <2>2. \A i \in s : yy[i] = y[i] * y[i]
    BY <1>9
  <2>3. \A i \in s : xy[i] = x[i] * y[i]
    BY <1>9
  <2>4. QED
    BY <1>3, <1>6, <1>7, <1>8, <1>10, <2>1, <2>2, <2>3, PearsonIs
<1>13. better = n * w - m * v
  BY <1>2, <1>3
<1>14. ASSUME part \in {{}, s} \/ flat PROVE btPearson(x, y) = Zero
  <2>1. part \in {{}, s} => CrossOf(n, m, m, m) = 0
    <3>1. part \in {{}, s} => m = 0 \/ m = n
      BY <1>5
    <3>2. m = 0 \/ m = n => n * (n * m - m * m) = 0
      BY <1>4
    <3>3. QED
      BY <3>1, <3>2 DEF CrossOf
  <2>2. flat => n < 2 \/ CrossOf(n, q, v, v) = 0
    <3>1. SUFFICES ASSUME flat, n >= 2 PROVE CrossOf(n, q, v, v) = 0
      BY <1>4
    <3>2. PICK i : i \in s
      BY <1>3, <3>1, FS_EmptySet
    <3>3. PICK a : a = y[i]
      OBVIOUS
    <3>4. a \in Int /\ a * a \in Int /\ \A j \in s : y[j] = a /\ yy[j] = a * a
      BY <1>1, <1>9, <3>1, <3>2, <3>3
    <3>5. v = n * a
      BY <1>3, <3>4, SumConst
    <3>6. q = n * (a * a)
      BY <1>3, <1>10, <3>4, SumConst
    <3>7. n * (n * (n * (a * a)) - (n * a) * (n * a)) = 0
      BY <1>4, <3>4
    <3>8. QED
      BY <3>5, <3>6, <3>7 DEF CrossOf
  <2>3. btPearson(x, y) = Zero
    BY <1>12, <1>14, <2>1, <2>2
  <2>4. QED
    BY <1>14, <2>3
<1>15. ASSUME ~(part \in {{}, s} \/ flat)
       PROVE  /\ (btPearson(x, y)[1] > 0) = (better > 0)
              /\ (btPearson(x, y)[1] < 0) = (better < 0)
  <2>1. m \in 1 .. n - 1 /\ n >= 2
    BY <1>4, <1>5, <1>15
  <2>2. CrossOf(n, m, m, m) # 0
    <3>1. CrossOf(n, m, m, m) = n * (m * (n - m))
      BY <1>4 DEF CrossOf
    <3>2. m * (n - m) \in Nat \ {0}
      <4>1. n - m \in Nat \ {0} /\ m \in Nat \ {0}
        BY <1>4, <2>1
      <4>2. \A a, b \in Nat \ {0} : a * b \in Nat \ {0}
        OBVIOUS
      <4>3. QED
        BY <4>1, <4>2
    <3>3. n * (m * (n - m)) # 0
      <4>1. n \in Nat \ {0}
        BY <1>4, <2>1
      <4>2. \A a, b \in Nat \ {0} : a * b # 0
        OBVIOUS
      <4>3. QED
        BY <3>2, <4>1, <4>2
    <3>4. QED
      BY <3>1, <3>3
  <2>3. CrossOf(n, q, v, v) # 0
    <3>1. SUFFICES ASSUME CrossOf(n, q, v, v) = 0 PROVE FALSE
      OBVIOUS
    <3> DEFINE d == [i \in s |-> n * y[i] - v]
               dd == [i \in s |-> d[i] * d[i]]
    <3>2. \A i \in s : dd[i] = Deviations(n, v, v, y[i], y[i])
      BY DEF Deviations
    <3>3. \A i \in s : d[i] \in Int /\ dd[i] = d[i] * d[i] /\ d[i] = n * y[i] - v
      BY <1>4, <1>11
    <3> HIDE DEF d, dd
    <3>4. \A i \in s : yy[i] = y[i] * y[i]
      BY <1>9
    <3>5. SumOver(dd, s) = CrossOf(n, q, v, v)
      BY <1>3, <1>6, <1>10, <3>2, <3>4, CrossSum
    <3>6. \A i \in s : d[i] = 0
      BY <3>1, <3>3, <3>5, SumOfSquares
    <3>7. ASSUME NEW i \in s, NEW j \in s PROVE y[i] = y[j]
      <4>1. n * y[i] = n * y[j]
        <5>1. n * y[i] - v = 0 /\ n * y[j] - v = 0
          BY <3>3, <3>6
        <5>2. n * y[i] \in Int /\ n * y[j] \in Int
          BY <1>4, <1>6
        <5>3. QED
          BY <1>11, <5>1, <5>2
      <4>2. y[i] \in Int /\ y[j] \in Int
        BY <1>6
      <4>3. n \in Nat \ {0}
        BY <1>4, <2>1
      <4>4. QED
        BY <4>1, <4>2, <4>3, Divided
    <3>8. QED
      BY <1>1, <1>15, <3>7
  <2>4. btPearson(x, y)[1] = CrossOf(n, w, m, v)
    BY <1>4, <1>12, <2>1, <2>2, <2>3
  <2>5. CrossOf(n, w, m, v) = n * better /\ better \in Int
    BY <1>2, <1>4, <1>11, <1>13 DEF CrossOf
  <2>6. /\ n * better > 0 <=> better > 0
        /\ n * better < 0 <=> better < 0
    <3>1. n \in Nat \ {0}
      BY <1>4, <2>1
    <3>2. QED
      BY <2>5, <3>1, Divided
  <2>7. QED
    BY <1>15, <2>4, <2>5, <2>6
<1>16. part \in {{}, s} \/ (\A i, j \in s : y[i] = y[j]) <=> part \in {{}, s} \/ flat
  BY <1>1
<1>17. QED
  BY <1>2, <1>14, <1>15, <1>16 DEF Correlates

(***************************************************************************)
(* The loop over the bars.  Loop says of e that it holds the trades after  *)
(* each bar.                                                               *)
(***************************************************************************)
TradeRec == [bar : Nat, kind : {"buy", "sell"}]

Turn(before, i, buys, sells) ==
  AfterBar(before, i, i \in buys, i \in sells[Last(before).bar])

Loop(e, n, buys, sells) ==
  e = [i \in 0 .. n |-> IF i = 0 THEN <<>> ELSE Turn(e[i - 1], i, buys, sells)]

LEMMA LoopExists ==
  ASSUME NEW n \in Nat, NEW buys, NEW sells
  PROVE  \E e : Loop(e, n, buys, sells) /\ Trade(n, buys, sells) = e[n]
<1> DEFINE S == {k \in Nat : \E e : Loop(e, k, buys, sells)}
<1>1. 0 \in S
  <2> DEFINE e == [i \in 0 .. 0 |-> <<>>]
  <2>1. e = [i \in 0 .. 0 |-> IF i = 0 THEN <<>> ELSE Turn(e[i - 1], i, buys, sells)]
    OBVIOUS
  <2> HIDE DEF e
  <2>2. Loop(e, 0, buys, sells)
    BY <2>1 DEF Loop
  <2>3. QED
    BY <2>2
<1>2. ASSUME NEW k \in 0 .. n - 1, k \in S PROVE k + 1 \in S
  <2>1. PICK e : Loop(e, k, buys, sells)
    BY <1>2
  <2> DEFINE f == [i \in 0 .. k + 1 |->
                     IF i = 0 THEN <<>> ELSE Turn(e[i - 1], i, buys, sells)]
  <2>2. \A i \in 0 .. k : f[i] = e[i]
    BY <2>1 DEF Loop
  <2>3. \A i \in 0 .. k + 1 :
          i # 0 => Turn(e[i - 1], i, buys, sells) = Turn(f[i - 1], i, buys, sells)
    BY <2>2
  <2>4. f = [i \in 0 .. k + 1 |->
               IF i = 0 THEN <<>> ELSE Turn(f[i - 1], i, buys, sells)]
    BY <2>3
  <2> HIDE DEF f
  <2>5. Loop(f, k + 1, buys, sells)
    BY <2>4 DEF Loop
  <2>6. QED
    BY <2>5
<1> HIDE DEF S
<1>3. 0 .. n \subseteq S
  BY <1>1, <1>2, Upward
<1>4. \E e : Loop(e, n, buys, sells)
  <2>1. n \in S
    BY <1>3
  <2>2. QED
    BY <2>1 DEF S
<1> DEFINE e == CHOOSE e : Loop(e, n, buys, sells)
<1>5. Loop(e, n, buys, sells)
  BY <1>4, Zenon
<1>6. Trade(n, buys, sells) = e[n]
  BY DEF Trade, Loop, Turn
<1>7. QED
  BY <1>5, <1>6, Zenon

LEMMA LoopTurns ==
  ASSUME NEW n \in Nat, NEW buys, NEW sells, NEW e, Loop(e, n, buys, sells)
  PROVE  e[0] = <<>> /\ \A i \in 1 .. n : e[i] = Turn(e[i - 1], i, buys, sells)
<1>1. e[0] = <<>>
  BY DEF Loop
<1>2. \A i \in 1 .. n : e[i] = Turn(e[i - 1], i, buys, sells)
  BY DEF Loop
<1>3. QED
  BY <1>1, <1>2

\* A bar adds a trade of its own, or none.
LEMMA TurnAdds ==
  ASSUME NEW before \in Seq(TradeRec), NEW i \in Nat, NEW buys, NEW sells,
         NEW after, after = Turn(before, i, buys, sells)
  PROVE  \/ after = before
         \/ \E trade \in TradeRec : trade.bar = i /\ after = Append(before, trade)
<1>1. TradeEvent(i, "buy") \in TradeRec /\ TradeEvent(i, "buy").bar = i
  BY DEF TradeEvent, TradeRec
<1>2. TradeEvent(i, "sell") \in TradeRec /\ TradeEvent(i, "sell").bar = i
  BY DEF TradeEvent, TradeRec
<1>3. \/ after = before
      \/ after = Append(before, TradeEvent(i, "buy"))
      \/ after = Append(before, TradeEvent(i, "sell"))
  BY DEF Turn, AfterBar
<1>4. QED
  BY <1>1, <1>2, <1>3

\* The trades after a bar are trades of the bars up to it.
Bounded(events, i) ==
  events \in Seq(TradeRec) /\ \A k \in 1 .. Len(events) : events[k].bar \in 1 .. i

LEMMA BoundedOn ==
  ASSUME NEW i \in Nat, NEW before, Bounded(before, i), NEW buys, NEW sells,
         NEW after, after = Turn(before, i + 1, buys, sells)
  PROVE  Bounded(after, i + 1)
<1>1. before \in Seq(TradeRec) /\ Len(before) \in Nat
      /\ \A k \in 1 .. Len(before) : before[k].bar \in 1 .. i + 1
  BY LenProperties DEF Bounded
<1>2. CASE after = before
  BY <1>1, <1>2 DEF Bounded
<1>3. CASE after # before
  <2>1. PICK trade \in TradeRec : trade.bar = i + 1 /\ after = Append(before, trade)
    BY <1>1, <1>3, TurnAdds
  <2>2. /\ after \in Seq(TradeRec) /\ Len(after) = Len(before) + 1
        /\ \A k \in 1 .. Len(before) : after[k] = before[k]
        /\ after[Len(before) + 1] = trade
    BY <1>1, <2>1, AppendProperties
  <2>3. \A k \in 1 .. Len(after) : k \in 1 .. Len(before) \/ k = Len(before) + 1
    BY <1>1, <2>2
  <2>4. i + 1 \in 1 .. i + 1
    OBVIOUS
  <2>5. \A k \in 1 .. Len(after) : after[k].bar \in 1 .. i + 1
    BY <1>1, <2>1, <2>2, <2>3, <2>4
  <2>6. QED
    BY <2>2, <2>5 DEF Bounded
<1>4. QED
  BY <1>2, <1>3

LEMMA LoopBounded ==
  ASSUME NEW n \in Nat, NEW buys, NEW sells, NEW e, Loop(e, n, buys, sells)
  PROVE  \A i \in 0 .. n : Bounded(e[i], i)
<1> DEFINE S == {i \in Nat : Bounded(e[i], i)}
<1>1. 0 \in S
  <2>1. e[0] = <<>>
    BY LoopTurns
  <2>2. <<>> \in Seq(TradeRec) /\ Len(<<>>) = 0
    BY EmptySeq
  <2>3. Bounded(<<>>, 0)
    BY <2>2 DEF Bounded
  <2>4. QED
    BY <2>1, <2>3
<1>2. ASSUME NEW i \in 0 .. n - 1, i \in S PROVE i + 1 \in S
  <2>1. i \in Nat /\ i + 1 \in 1 .. n /\ i + 1 - 1 = i
    OBVIOUS
  <2>2. e[i + 1] = Turn(e[i], i + 1, buys, sells)
    BY <2>1, LoopTurns
  <2>3. Bounded(e[i], i)
    BY <1>2
  <2>4. Bounded(e[i + 1], i + 1)
    BY <2>1, <2>2, <2>3, BoundedOn
  <2>5. QED
    BY <2>4
<1> HIDE DEF S
<1>3. 0 .. n \subseteq S
  BY <1>1, <1>2, Upward
<1>4. QED
  BY <1>3 DEF S

LEMMA HeldSince ==
  ASSUME NEW i \in Nat, NEW before, Bounded(before, i), Held(before)
  PROVE  Last(before).bar \in 1 .. i
<1>1. before \in Seq(TradeRec) /\ before # <<>>
  BY DEF Bounded, Held
<1>2. Len(before) \in 1 .. Len(before)
  BY <1>1, EmptySeq, LenProperties
<1>3. QED
  BY <1>2 DEF Bounded, Last

LEMMA TradeBounded ==
  ASSUME NEW n \in Nat, NEW buys, NEW sells
  PROVE  Bounded(Trade(n, buys, sells), n)
<1>1. PICK e : Loop(e, n, buys, sells) /\ Trade(n, buys, sells) = e[n]
  BY LoopExists
<1>2. Bounded(e[n], n)
  BY <1>1, LoopBounded
<1>3. QED
  BY <1>1, <1>2

(***************************************************************************)
(* What the loop holds after a bar, and which bars it trades on.           *)
(***************************************************************************)
LEMMA Appended ==
  ASSUME NEW before \in Seq(TradeRec), NEW trade \in TradeRec, NEW after,
         after = Append(before, trade)
  PROVE  after # <<>> /\ Last(after) = trade /\ (Held(after) <=> trade.kind = "buy")
<1>1. Len(before) \in Nat /\ Len(after) = Len(before) + 1 /\ after[Len(before) + 1] = trade
  BY LenProperties, AppendProperties
<1>2. after # <<>>
  BY <1>1, EmptySeq
<1>3. Last(after) = trade
  BY <1>1 DEF Last
<1>4. QED
  BY <1>2, <1>3 DEF Held

LEMMA TurnHeld ==
  ASSUME NEW before \in Seq(TradeRec), NEW i \in Nat, NEW buys, NEW sells,
         NEW after, after = Turn(before, i, buys, sells)
  PROVE  /\ Held(before) => (Held(after) <=> i \notin sells[Last(before).bar])
         /\ ~Held(before) => (Held(after) <=> i \in buys)
         /\ after = <<>> <=> before = <<>> /\ i \notin buys
<1>1. /\ TradeEvent(i, "buy") \in TradeRec /\ TradeEvent(i, "buy").kind = "buy"
      /\ TradeEvent(i, "sell") \in TradeRec /\ TradeEvent(i, "sell").kind = "sell"
  BY DEF TradeEvent, TradeRec
<1>2. Held(before) => before # <<>>
  BY DEF Held
<1>3. CASE ~Held(before) /\ i \in buys
  <2>1. after = Append(before, TradeEvent(i, "buy"))
    BY <1>3 DEF Turn, AfterBar
  <2>2. after # <<>> /\ Held(after)
    BY <1>1, <2>1, Appended
  <2>3. QED
    BY <1>3, <2>2
<1>4. CASE Held(before) /\ i \in sells[Last(before).bar]
  <2>1. after = Append(before, TradeEvent(i, "sell"))
    BY <1>4 DEF Turn, AfterBar
  <2>2. after # <<>> /\ ~Held(after)
    BY <1>1, <2>1, Appended
  <2>3. QED
    BY <1>2, <1>4, <2>2
<1>5. CASE ~(~Held(before) /\ i \in buys) /\ ~(Held(before) /\ i \in sells[Last(before).bar])
  <2>1. after = before
    BY <1>5 DEF Turn, AfterBar
  <2>2. QED
    BY <1>2, <1>5, <2>1
<1>6. QED
  BY <1>3, <1>4, <1>5

\* Buys and sells take turns, each on a later bar than the one before it and on a bar that
\* the strategy says.
TakesTurns(events, buys, sells) ==
  /\ \A k \in 1 .. Len(events) :
       IF k % 2 = 1 THEN events[k].kind = "buy" /\ events[k].bar \in buys
       ELSE events[k].kind = "sell" /\ events[k].bar \in sells[events[k - 1].bar]
  /\ \A k \in 1 .. Len(events) - 1 : events[k].bar < events[k + 1].bar

LEMMA NextParity ==
  ASSUME NEW n \in Nat
  PROVE  /\ n % 2 = 1 => (n + 1) % 2 = 0
         /\ n % 2 # 1 => (n + 1) % 2 = 1
OBVIOUS

LEMMA HeldParity ==
  ASSUME NEW events \in Seq(TradeRec), NEW buys, NEW sells, TakesTurns(events, buys, sells)
  PROVE  Held(events) <=> Len(events) % 2 = 1
<1>1. Len(events) \in Nat /\ (events = <<>> <=> Len(events) = 0)
  BY LenProperties, EmptySeq
<1>2. CASE events = <<>>
  BY <1>1, <1>2 DEF Held
<1>3. CASE events # <<>>
  <2>1. Len(events) \in 1 .. Len(events)
    BY <1>1, <1>3
  <2>2. Last(events).kind = IF Len(events) % 2 = 1 THEN "buy" ELSE "sell"
    BY <2>1 DEF TakesTurns, Last
  <2>3. QED
    BY <1>3, <2>2 DEF Held
<1>4. QED
  BY <1>2, <1>3

LEMMA TurnTakesTurns ==
  ASSUME NEW i \in Nat, NEW before, Bounded(before, i), NEW buys, NEW sells,
         TakesTurns(before, buys, sells),
         NEW after, after = Turn(before, i + 1, buys, sells)
  PROVE  TakesTurns(after, buys, sells)
<1>1. before \in Seq(TradeRec) /\ Len(before) \in Nat
  BY LenProperties DEF Bounded
<1>2. Held(before) <=> Len(before) % 2 = 1
  BY <1>1, HeldParity
<1>3. CASE after = before
  BY <1>3
<1>4. CASE after # before
  <2>1. PICK trade : /\ after = Append(before, trade) /\ trade \in TradeRec
                     /\ trade.bar = i + 1
                     /\ \/ ~Held(before) /\ i + 1 \in buys /\ trade.kind = "buy"
                        \/ /\ Held(before) /\ i + 1 \in sells[Last(before).bar]
                           /\ trade.kind = "sell"
    BY <1>4 DEF Turn, AfterBar, TradeEvent, TradeRec
  <2>2. PICK n : n = Len(before)
    OBVIOUS
  <2>3. /\ Len(after) = n + 1 /\ n \in Nat
        /\ \A k \in 1 .. n : after[k] = before[k]
        /\ after[n + 1] = trade
    BY <1>1, <2>1, <2>2, AppendProperties
  <2>4. \A k \in 1 .. n + 1 : k \in 1 .. n \/ k = n + 1
    BY <2>3
  <2>5. ASSUME NEW k \in 1 .. n
        PROVE  IF k % 2 = 1 THEN after[k].kind = "buy" /\ after[k].bar \in buys
               ELSE after[k].kind = "sell" /\ after[k].bar \in sells[after[k - 1].bar]
    <3>1. k % 2 # 1 => k - 1 \in 1 .. n
      BY <2>3
    <3>2. QED
      BY <2>2, <2>3, <3>1 DEF TakesTurns
  <2>6. IF (n + 1) % 2 = 1 THEN trade.kind = "buy" /\ trade.bar \in buys
        ELSE trade.kind = "sell" /\ trade.bar \in sells[after[n].bar]
    <3>1. CASE Held(before)
      <4>1. n % 2 = 1 /\ (n + 1) % 2 = 0
        BY <1>2, <2>2, <2>3, <3>1, NextParity
      <4>2. n \in 1 .. n
        BY <2>3, <4>1
      <4>3. Last(before) = after[n]
        BY <2>2, <2>3, <4>2 DEF Last
      <4>4. trade.kind = "sell" /\ trade.bar \in sells[Last(before).bar]
        BY <2>1, <3>1
      <4>5. (n + 1) % 2 # 1
        BY <4>1
      <4>6. QED
        BY <4>3, <4>4, <4>5
    <3>2. CASE ~Held(before)
      <4>1. (n + 1) % 2 = 1
        BY <1>2, <2>2, <2>3, <3>2, NextParity
      <4>2. QED
        BY <2>1, <3>2, <4>1
    <3>3. QED
      BY <3>1, <3>2
  <2>7. ASSUME NEW k \in 1 .. n PROVE after[k].bar < after[k + 1].bar
    <3>1. after[k].bar \in 1 .. i
      BY <2>2, <2>3 DEF Bounded
    <3>2. CASE k = n
      BY <2>1, <2>3, <3>1, <3>2
    <3>3. CASE k # n
      <4>1. k \in 1 .. n - 1 /\ k + 1 \in 1 .. n
        BY <2>3, <3>3
      <4>2. QED
        BY <2>2, <2>3, <4>1 DEF TakesTurns
    <3>4. QED
      BY <3>2, <3>3
  <2>8. n + 1 - 1 = n
    BY <2>3
  <2>9. \A k \in 1 .. n + 1 :
          IF k % 2 = 1 THEN after[k].kind = "buy" /\ after[k].bar \in buys
          ELSE after[k].kind = "sell" /\ after[k].bar \in sells[after[k - 1].bar]
    BY <2>3, <2>4, <2>5, <2>6, <2>8
  <2>10. QED
    BY <2>3, <2>7, <2>8, <2>9 DEF TakesTurns
<1>5. QED
  BY <1>3, <1>4

LEMMA LoopTakesTurns ==
  ASSUME NEW n \in Nat, NEW buys, NEW sells, NEW e, Loop(e, n, buys, sells)
  PROVE  \A i \in 0 .. n : TakesTurns(e[i], buys, sells)
<1> DEFINE S == {i \in Nat : TakesTurns(e[i], buys, sells)}
<1>1. 0 \in S
  <2>1. e[0] = <<>>
    BY LoopTurns
  <2>2. Len(<<>>) = 0
    BY EmptySeq
  <2>3. TakesTurns(<<>>, buys, sells)
    BY <2>2 DEF TakesTurns
  <2>4. QED
    BY <2>1, <2>3
<1>2. ASSUME NEW i \in 0 .. n - 1, i \in S PROVE i + 1 \in S
  <2>1. i \in Nat /\ i + 1 \in 1 .. n /\ i + 1 - 1 = i /\ i \in 0 .. n
    OBVIOUS
  <2>2. e[i + 1] = Turn(e[i], i + 1, buys, sells)
    BY <2>1, LoopTurns
  <2>3. Bounded(e[i], i)
    BY <2>1, LoopBounded
  <2>4. TakesTurns(e[i], buys, sells)
    BY <1>2
  <2>5. TakesTurns(e[i + 1], buys, sells)
    BY <2>1, <2>2, <2>3, <2>4, TurnTakesTurns
  <2>6. QED
    BY <2>5
<1> HIDE DEF S
<1>3. 0 .. n \subseteq S
  BY <1>1, <1>2, Upward
<1>4. QED
  BY <1>3 DEF S

LEMMA TradeTakesTurns ==
  ASSUME NEW n \in Nat, NEW buys, NEW sells
  PROVE  TakesTurns(Trade(n, buys, sells), buys, sells)
<1>1. PICK e : Loop(e, n, buys, sells) /\ Trade(n, buys, sells) = e[n]
  BY LoopExists
<1>2. n \in 0 .. n
  OBVIOUS
<1>3. QED
  BY <1>1, <1>2, LoopTakesTurns

\* The last trade is a buy or a sell on a bar that says so.
LEMMA LastTrade ==
  ASSUME NEW events \in Seq(TradeRec), events # <<>>, NEW buys, NEW sells,
         TakesTurns(events, buys, sells)
  PROVE  \/ Last(events).kind = "buy" /\ Last(events).bar \in buys
         \/ /\ Last(events).kind = "sell" /\ Len(events) - 1 \in 1 .. Len(events)
            /\ Last(events).bar \in sells[events[Len(events) - 1].bar]
<1>1. PICK n : n = Len(events)
  OBVIOUS
<1>2. n \in Nat \ {0}
  BY <1>1, LenProperties, EmptySeq
<1>3. n \in 1 .. n /\ (n % 2 # 1 => n - 1 \in 1 .. n)
  BY <1>2
<1>4. Last(events) = events[n]
  BY <1>1 DEF Last
<1>5. IF n % 2 = 1 THEN events[n].kind = "buy" /\ events[n].bar \in buys
      ELSE events[n].kind = "sell" /\ events[n].bar \in sells[events[n - 1].bar]
  BY <1>1, <1>3 DEF TakesTurns
<1>6. QED
  BY <1>1, <1>3, <1>4, <1>5

(***************************************************************************)
(* The loop of a strategy that does not ask when it bought.                *)
(***************************************************************************)
LoopOf(e, n, buys, sells) == Loop(e, n, buys, [entry \in 1 .. n |-> sells])

LEMMA LoopOfExists ==
  ASSUME NEW n \in Nat, NEW buys, NEW sells
  PROVE  \E e : LoopOf(e, n, buys, sells) /\ TradeSignals(n, buys, sells) = e[n]
<1> DEFINE all == [entry \in 1 .. n |-> sells]
<1>1. TradeSignals(n, buys, sells) = Trade(n, buys, all)
  BY DEF TradeSignals
<1>2. \A e : LoopOf(e, n, buys, sells) <=> Loop(e, n, buys, all)
  BY DEF LoopOf
<1> HIDE DEF all
<1>3. QED
  BY <1>1, <1>2, LoopExists

LEMMA LoopOfTurns ==
  ASSUME NEW n \in Nat, NEW buys, NEW sells, NEW e, LoopOf(e, n, buys, sells)
  PROVE  /\ e[0] = <<>>
         /\ \A i \in 0 .. n - 1 :
              /\ Held(e[i]) => (Held(e[i + 1]) <=> i + 1 \notin sells)
              /\ ~Held(e[i]) => (Held(e[i + 1]) <=> i + 1 \in buys)
              /\ e[i + 1] = <<>> <=> e[i] = <<>> /\ i + 1 \notin buys
<1> DEFINE all == [entry \in 1 .. n |-> sells]
<1>1. Loop(e, n, buys, all) /\ \A entry \in 1 .. n : all[entry] = sells
  BY DEF LoopOf
<1> HIDE DEF all
<1>2. e[0] = <<>>
  BY <1>1, LoopTurns
<1>3. ASSUME NEW i \in 0 .. n - 1
      PROVE  /\ Held(e[i]) => (Held(e[i + 1]) <=> i + 1 \notin sells)
             /\ ~Held(e[i]) => (Held(e[i + 1]) <=> i + 1 \in buys)
             /\ e[i + 1] = <<>> <=> e[i] = <<>> /\ i + 1 \notin buys
  <2>1. i \in Nat /\ i + 1 \in Nat /\ i + 1 \in 1 .. n /\ i + 1 - 1 = i /\ i \in 0 .. n
    OBVIOUS
  <2>2. e[i + 1] = Turn(e[i], i + 1, buys, all)
    BY <1>1, <2>1, LoopTurns
  <2>3. Bounded(e[i], i) /\ e[i] \in Seq(TradeRec)
    BY <1>1, <2>1, LoopBounded DEF Bounded
  <2>4. Held(e[i]) => all[Last(e[i]).bar] = sells
    <3>1. Held(e[i]) => Last(e[i]).bar \in 1 .. i
      BY <2>1, <2>3, HeldSince
    <3>2. QED
      BY <1>1, <2>1, <3>1
  <2>5. /\ Held(e[i]) => (Held(e[i + 1]) <=> i + 1 \notin all[Last(e[i]).bar])
        /\ ~Held(e[i]) => (Held(e[i + 1]) <=> i + 1 \in buys)
        /\ e[i + 1] = <<>> <=> e[i] = <<>> /\ i + 1 \notin buys
    BY <2>1, <2>2, <2>3, TurnHeld
  <2>6. QED
    BY <2>4, <2>5
<1>4. QED
  BY <1>2, <1>3

LEMMA SignalsBounded ==
  ASSUME NEW n \in Nat, NEW buys, NEW sells
  PROVE  Bounded(TradeSignals(n, buys, sells), n)
BY TradeBounded DEF TradeSignals

\* What is bought is held while nothing says to sell.
LEMMA HeldFrom ==
  ASSUME NEW n \in Nat, NEW buys, NEW sells, NEW v \in 1 .. n, v \in buys,
         \A j \in v .. n : j \notin sells
  PROVE  Held(TradeSignals(n, buys, sells))
<1>1. PICK e : LoopOf(e, n, buys, sells) /\ TradeSignals(n, buys, sells) = e[n]
  BY LoopOfExists
<1> DEFINE S == {i \in Nat : Held(e[i])}
<1>2. v \in S
  <2>1. v - 1 \in 0 .. n - 1 /\ v - 1 + 1 = v /\ v \in v .. n /\ v \in Nat
    OBVIOUS
  <2>2. /\ Held(e[v - 1]) => (Held(e[v]) <=> v \notin sells)
        /\ ~Held(e[v - 1]) => (Held(e[v]) <=> v \in buys)
    BY <1>1, <2>1, LoopOfTurns
  <2>3. Held(e[v])
    BY <2>1, <2>2
  <2>4. QED
    BY <2>1, <2>3
<1>3. ASSUME NEW i \in v .. n - 1, i \in S PROVE i + 1 \in S
  <2>1. i \in 0 .. n - 1 /\ i + 1 \in v .. n /\ i + 1 \in Nat
    OBVIOUS
  <2>2. Held(e[i]) => (Held(e[i + 1]) <=> i + 1 \notin sells)
    BY <1>1, <2>1, LoopOfTurns, SMTT(30)
  <2>3. Held(e[i + 1])
    BY <1>3, <2>1, <2>2
  <2>4. QED
    BY <2>1, <2>3
<1> HIDE DEF S
<1>4. v .. n \subseteq S
  BY <1>2, <1>3, Upward
<1>5. n \in S
  BY <1>4
<1>6. QED
  BY <1>1, <1>5 DEF S

\* What is sold stays sold while nothing says to buy.
LEMMA FlatFrom ==
  ASSUME NEW n \in Nat, NEW buys, NEW sells, NEW v \in 1 .. n, v \in sells,
         \A j \in v .. n : j \notin buys
  PROVE  ~Held(TradeSignals(n, buys, sells))
<1>1. PICK e : LoopOf(e, n, buys, sells) /\ TradeSignals(n, buys, sells) = e[n]
  BY LoopOfExists
<1> DEFINE S == {i \in Nat : ~Held(e[i])}
<1>2. v \in S
  <2>1. v - 1 \in 0 .. n - 1 /\ v - 1 + 1 = v /\ v \in v .. n /\ v \in Nat
    OBVIOUS
  <2>2. /\ Held(e[v - 1]) => (Held(e[v]) <=> v \notin sells)
        /\ ~Held(e[v - 1]) => (Held(e[v]) <=> v \in buys)
    BY <1>1, <2>1, LoopOfTurns
  <2>3. ~Held(e[v])
    BY <2>1, <2>2
  <2>4. QED
    BY <2>1, <2>3
<1>3. ASSUME NEW i \in v .. n - 1, i \in S PROVE i + 1 \in S
  <2>1. i \in 0 .. n - 1 /\ i + 1 \in v .. n /\ i + 1 \in Nat
    OBVIOUS
  <2>2. ~Held(e[i]) => (Held(e[i + 1]) <=> i + 1 \in buys)
    BY <1>1, <2>1, LoopOfTurns, SMTT(30)
  <2>3. ~Held(e[i + 1])
    BY <1>3, <2>1, <2>2
  <2>4. QED
    BY <2>1, <2>3
<1> HIDE DEF S
<1>4. v .. n \subseteq S
  BY <1>2, <1>3, Upward
<1>5. n \in S
  BY <1>4
<1>6. QED
  BY <1>1, <1>5 DEF S

\* Without a bar that buys there is no trade.
LEMMA NoTrades ==
  ASSUME NEW n \in Nat, NEW buys, NEW sells, \A i \in 1 .. n : i \notin buys
  PROVE  TradeSignals(n, buys, sells) = <<>>
<1>1. PICK e : LoopOf(e, n, buys, sells) /\ TradeSignals(n, buys, sells) = e[n]
  BY LoopOfExists
<1> DEFINE S == {i \in Nat : e[i] = <<>>}
<1>2. 0 \in S
  BY <1>1, LoopOfTurns
<1>3. ASSUME NEW i \in 0 .. n - 1, i \in S PROVE i + 1 \in S
  <2>1. i + 1 \in 1 .. n
    OBVIOUS
  <2>2. e[i + 1] = <<>> <=> e[i] = <<>> /\ i + 1 \notin buys
    BY <1>1, LoopOfTurns
  <2>3. QED
    BY <1>3, <2>1, <2>2
<1> HIDE DEF S
<1>4. 0 .. n \subseteq S
  BY <1>2, <1>3, Upward
<1>5. n \in S
  BY <1>4
<1>6. QED
  BY <1>1, <1>5 DEF S

\* A strategy that buys on the bars, from the first on, that are above when the one before
\* is not, and sells the other way round, holds after its first trade what is above.
LEMMA Follows ==
  ASSUME NEW n \in Nat, NEW first, NEW above, NEW buys, NEW sells,
         \A i \in 0 .. n - 1 : i \in first => i + 1 \in first,
         \A i \in 0 .. n - 1 :
           i + 1 \in buys <=> i + 1 \in first /\ i \notin above /\ i + 1 \in above,
         \A i \in 0 .. n - 1 :
           i + 1 \in sells <=> i + 1 \in first /\ i \in above /\ i + 1 \notin above
  PROVE  TradeSignals(n, buys, sells) # <<>>
           => (Held(TradeSignals(n, buys, sells)) <=> n \in above)
<1>1. PICK e : LoopOf(e, n, buys, sells) /\ TradeSignals(n, buys, sells) = e[n]
  BY LoopOfExists
<1> DEFINE S == {i \in Nat : e[i] # <<>> => i \in first /\ (Held(e[i]) <=> i \in above)}
<1>2. 0 \in S
  BY <1>1, LoopOfTurns
<1>3. ASSUME NEW i \in 0 .. n - 1, i \in S PROVE i + 1 \in S
  <2>1. /\ Held(e[i]) => (Held(e[i + 1]) <=> i + 1 \notin sells)
        /\ ~Held(e[i]) => (Held(e[i + 1]) <=> i + 1 \in buys)
        /\ e[i + 1] = <<>> <=> e[i] = <<>> /\ i + 1 \notin buys
    BY <1>1, LoopOfTurns
  <2>2. e[i] = <<>> => ~Held(e[i])
    BY DEF Held
  <2>3. e[i] # <<>> => i \in first /\ (Held(e[i]) <=> i \in above)
    BY <1>3
  <2>4. e[i + 1] # <<>> => i + 1 \in first /\ (Held(e[i + 1]) <=> i + 1 \in above)
    BY <2>1, <2>2, <2>3
  <2>5. QED
    BY <2>4
<1> HIDE DEF S
<1>4. 0 .. n \subseteq S
  BY <1>2, <1>3, Upward
<1>5. n \in S
  BY <1>4
<1>6. QED
  BY <1>1, <1>5 DEF S

\* A trade on the last bar is one that the bar's signals say.
LEMMA TradedNow ==
  ASSUME NEW n \in Nat, NEW buys, NEW sells, NEW events, events = TradeSignals(n, buys, sells),
         events # <<>>, Last(events).bar = n
  PROVE  \/ Last(events).kind = "buy" /\ n \in buys
         \/ Last(events).kind = "sell" /\ n \in sells
<1> DEFINE all == [entry \in 1 .. n |-> sells]
<1>1. events = Trade(n, buys, all) /\ \A entry \in 1 .. n : all[entry] = sells
  BY DEF TradeSignals
<1> HIDE DEF all
<1>2. Bounded(events, n) /\ TakesTurns(events, buys, all)
  BY <1>1, TradeBounded, TradeTakesTurns
<1>3. \/ Last(events).kind = "buy" /\ Last(events).bar \in buys
      \/ /\ Last(events).kind = "sell" /\ Len(events) - 1 \in 1 .. Len(events)
         /\ Last(events).bar \in all[events[Len(events) - 1].bar]
  BY <1>2, LastTrade DEF Bounded
<1>4. Len(events) - 1 \in 1 .. Len(events) => all[events[Len(events) - 1].bar] = sells
  BY <1>1, <1>2 DEF Bounded
<1>5. QED
  BY <1>3, <1>4

(***************************************************************************)
(* Two runs of the loop whose signals agree up to a bar make the same      *)
(* trades up to that bar, and later trades are trades of later bars.       *)
(***************************************************************************)
SameSignals(m, buys, sells, buys2, sells2) ==
  /\ \A i \in 1 .. m : i \in buys <=> i \in buys2
  /\ \A entry, i \in 1 .. m : i \in sells[entry] <=> i \in sells2[entry]

LEMMA TurnSame ==
  ASSUME NEW m \in Nat, NEW i \in 0 .. m - 1, NEW before, Bounded(before, i),
         NEW buys, NEW sells, NEW buys2, NEW sells2,
         SameSignals(m, buys, sells, buys2, sells2)
  PROVE  Turn(before, i + 1, buys, sells) = Turn(before, i + 1, buys2, sells2)
<1>1. i + 1 \in buys <=> i + 1 \in buys2
  BY DEF SameSignals
<1>2. CASE Held(before)
  <2>1. Last(before).bar \in 1 .. m /\ i + 1 \in 1 .. m
    BY <1>2, HeldSince
  <2>2. i + 1 \in sells[Last(before).bar] <=> i + 1 \in sells2[Last(before).bar]
    BY <2>1 DEF SameSignals
  <2>3. QED
    BY <1>1, <2>2 DEF Turn, AfterBar
<1>3. CASE ~Held(before)
  BY <1>1, <1>3 DEF Turn, AfterBar
<1>4. QED
  BY <1>2, <1>3

LEMMA LoopSame ==
  ASSUME NEW m \in Nat, NEW n \in Nat, NEW n2 \in Nat, m <= n, m <= n2,
         NEW buys, NEW sells, NEW e, Loop(e, n, buys, sells),
         NEW buys2, NEW sells2, NEW f, Loop(f, n2, buys2, sells2),
         SameSignals(m, buys, sells, buys2, sells2)
  PROVE  e[m] = f[m]
<1> DEFINE S == {i \in Nat : e[i] = f[i]}
<1>1. 0 \in S
  BY LoopTurns
<1>2. ASSUME NEW i \in 0 .. m - 1, i \in S PROVE i + 1 \in S
  <2>1. i + 1 \in 1 .. n /\ i + 1 \in 1 .. n2 /\ i + 1 - 1 = i /\ i \in 0 .. n
    OBVIOUS
  <2>2. e[i + 1] = Turn(e[i], i + 1, buys, sells)
    BY <2>1, LoopTurns
  <2>3. f[i + 1] = Turn(f[i], i + 1, buys2, sells2)
    BY <2>1, LoopTurns
  <2>4. Bounded(e[i], i)
    BY <2>1, LoopBounded
  <2>5. Turn(e[i], i + 1, buys, sells) = Turn(e[i], i + 1, buys2, sells2)
    BY <2>4, TurnSame
  <2>6. e[i] = f[i]
    BY <1>2
  <2>7. QED
    BY <2>2, <2>3, <2>5, <2>6
<1> HIDE DEF S
<1>3. 0 .. m \subseteq S
  BY <1>1, <1>2, Upward
<1>4. m \in S
  BY <1>3
<1>5. QED
  BY <1>4 DEF S

\* Trades were added to the first ones, all of them later than bar m.
GrownBy(first, events, m) ==
  /\ Len(first) <= Len(events)
  /\ \A k \in 1 .. Len(first) : events[k] = first[k]
  /\ \A k \in 1 .. Len(events) : events[k].bar <= m => k <= Len(first)

LEMMA TurnGrows ==
  ASSUME NEW m \in Nat, NEW i \in Nat, m <= i, NEW first \in Seq(TradeRec),
         NEW before \in Seq(TradeRec), GrownBy(first, before, m),
         NEW buys, NEW sells, NEW after, after = Turn(before, i + 1, buys, sells)
  PROVE  GrownBy(first, after, m)
<1>1. CASE after = before
  BY <1>1
<1>2. CASE after # before
  <2>1. PICK trade \in TradeRec : trade.bar = i + 1 /\ after = Append(before, trade)
    BY <1>2, TurnAdds
  <2>2. Len(before) \in Nat /\ Len(first) \in Nat
    BY LenProperties
  <2>3. /\ Len(after) = Len(before) + 1
        /\ \A k \in 1 .. Len(before) : after[k] = before[k]
        /\ after[Len(before) + 1] = trade
    BY <2>1, AppendProperties
  <2>4. \A k \in 1 .. Len(after) : k \in 1 .. Len(before) \/ k = Len(before) + 1
    BY <2>2, <2>3
  <2>5. \A k \in 1 .. Len(after) : after[k].bar <= m => k \in 1 .. Len(before)
    BY <2>1, <2>3, <2>4
  <2>6. \A k \in 1 .. Len(after) : after[k].bar <= m => k <= Len(first)
    BY <2>3, <2>5 DEF GrownBy
  <2>7. Len(first) <= Len(before) /\ \A k \in 1 .. Len(first) : before[k] = first[k]
    BY DEF GrownBy
  <2>8. Len(first) <= Len(after) /\ \A k \in 1 .. Len(first) : after[k] = first[k]
    BY <2>2, <2>3, <2>7
  <2>9. QED
    BY <2>6, <2>8 DEF GrownBy
<1>3. QED
  BY <1>1, <1>2

LEMMA LoopGrows ==
  ASSUME NEW m \in Nat, NEW n \in Nat, m <= n,
         NEW buys, NEW sells, NEW e, Loop(e, n, buys, sells)
  PROVE  GrownBy(e[m], e[n], m)
<1>1. \A i \in 0 .. n : e[i] \in Seq(TradeRec)
  BY LoopBounded DEF Bounded
<1> DEFINE S == {i \in Nat : GrownBy(e[m], e[i], m)}
<1>2. m \in S
  <2>1. e[m] \in Seq(TradeRec)
    BY <1>1
  <2>2. Len(e[m]) \in Nat
    BY <2>1, LenProperties
  <2>3. QED
    BY <2>2 DEF GrownBy
<1>3. ASSUME NEW i \in m .. n - 1, i \in S PROVE i + 1 \in S
  <2>1. i + 1 \in 1 .. n /\ i + 1 - 1 = i /\ i \in Nat /\ m <= i /\ i \in 0 .. n /\ m \in 0 .. n
    OBVIOUS
  <2>2. e[i + 1] = Turn(e[i], i + 1, buys, sells)
    BY <2>1, LoopTurns
  <2>3. e[i] \in Seq(TradeRec) /\ e[m] \in Seq(TradeRec) /\ GrownBy(e[m], e[i], m)
    BY <1>1, <1>3, <2>1
  <2>4. GrownBy(e[m], e[i + 1], m)
    BY <2>1, <2>2, <2>3, TurnGrows
  <2>5. QED
    BY <2>1, <2>4
<1> HIDE DEF S
<1>4. m .. n \subseteq S
  BY <1>2, <1>3, Upward
<1>5. n \in S
  BY <1>4
<1>6. QED
  BY <1>5 DEF S

\* The trades of bars up to m are trades of others as well.
AgreeUpTo(m, events, others) ==
  \A k \in 1 .. Len(events) :
    events[k].bar <= m => k \in 1 .. Len(others) /\ others[k] = events[k]

LEMMA TradesAgree ==
  ASSUME NEW m \in Nat, NEW n \in Nat, NEW n2 \in Nat, m <= n, m <= n2,
         NEW buys, NEW sells, NEW buys2, NEW sells2,
         SameSignals(m, buys, sells, buys2, sells2)
  PROVE  AgreeUpTo(m, Trade(n, buys, sells), Trade(n2, buys2, sells2))
<1>1. PICK e : Loop(e, n, buys, sells) /\ Trade(n, buys, sells) = e[n]
  BY LoopExists
<1>2. PICK f : Loop(f, n2, buys2, sells2) /\ Trade(n2, buys2, sells2) = f[n2]
  BY LoopExists
<1>3. e[m] = f[m]
  BY <1>1, <1>2, LoopSame
<1>4. GrownBy(e[m], e[n], m) /\ GrownBy(e[m], f[n2], m)
  BY <1>1, <1>2, <1>3, LoopGrows
<1>5. e[n] \in Seq(TradeRec) /\ e[m] \in Seq(TradeRec) /\ f[n2] \in Seq(TradeRec)
  <2>1. n \in 0 .. n /\ m \in 0 .. n /\ n2 \in 0 .. n2
    OBVIOUS
  <2>2. Bounded(e[n], n) /\ Bounded(e[m], m)
    BY <1>1, <2>1, LoopBounded
  <2>3. Bounded(f[n2], n2)
    BY <1>2, <2>1, LoopBounded
  <2>4. QED
    BY <2>2, <2>3 DEF Bounded
<1>6. Len(e[n]) \in Nat /\ Len(e[m]) \in Nat /\ Len(f[n2]) \in Nat
  BY <1>5, LenProperties
<1>7. AgreeUpTo(m, e[n], f[n2])
  BY <1>4, <1>6 DEF GrownBy, AgreeUpTo
<1>8. QED
  BY <1>1, <1>2, <1>7

(***************************************************************************)
(* The indicators of a bar are functions of the closes up to that bar:     *)
(* twins are series of closes that agree up to bar m.                      *)
(***************************************************************************)
Series(c) == Len(c) \in Nat /\ DOMAIN c = 1 .. Len(c)

Twins(m, c, d) ==
  /\ m \in Nat \ {0} /\ Series(c) /\ Series(d)
  /\ m <= Len(c) /\ m <= Len(d)
  /\ \A i \in 1 .. m : c[i] = d[i]

LEMMA TwinsFacts ==
  ASSUME NEW m, NEW c, NEW d, Twins(m, c, d)
  PROVE  /\ m \in Nat \ {0} /\ Len(c) \in Nat /\ Len(d) \in Nat
         /\ m <= Len(c) /\ m <= Len(d)
         /\ DOMAIN c = 1 .. Len(c) /\ DOMAIN d = 1 .. Len(d)
         /\ \A i \in 1 .. m : c[i] = d[i]
BY DEF Twins, Series

LEMMA SMASame ==
  ASSUME NEW m, NEW c, NEW d, Twins(m, c, d), NEW i \in 1 .. m, NEW period \in Nat \ {0}
  PROVE  barSMA(c, i, period) = barSMA(d, i, period)
<1>1. CASE i < period
  BY <1>1 DEF barSMA
<1>2. CASE ~(i < period)
  <2>1. \A j \in i - period + 1 .. i : c[j] = d[j]
    BY <1>2, TwinsFacts
  <2>2. SumOver(c, i - period + 1 .. i) = SumOver(d, i - period + 1 .. i)
    BY <2>1, SumSame
  <2>3. QED
    BY <1>2, <2>2 DEF barSMA
<1>3. QED
  BY <1>1, <1>2

(***************************************************************************)
(* The exponential averages, which begin with the values of seed.          *)
(***************************************************************************)
EMAOf(ema, x, n, first, seed, period) ==
  ema = [i \in 1 .. n |-> IF i <= first THEN seed[i]
                         ELSE Smoothed(ema[i - 1], x[i], period)]

LEMMA EMAExists ==
  ASSUME NEW n \in Nat, NEW x, NEW first \in Nat \ {0}, NEW seed, NEW period
  PROVE  \E ema : EMAOf(ema, x, n, first, seed, period)
<1> DEFINE S == {k \in Nat : \E ema : EMAOf(ema, x, k, first, seed, period)}
<1>1. 0 \in S
  <2> DEFINE f == [i \in 1 .. 0 |-> Zero]
  <2>1. f = [i \in 1 .. 0 |-> IF i <= first THEN seed[i]
                              ELSE Smoothed(f[i - 1], x[i], period)]
    OBVIOUS
  <2> HIDE DEF f
  <2>2. EMAOf(f, x, 0, first, seed, period)
    BY <2>1 DEF EMAOf
  <2>3. QED
    BY <2>2
<1>2. ASSUME NEW k \in 0 .. n - 1, k \in S PROVE k + 1 \in S
  <2>1. PICK e : EMAOf(e, x, k, first, seed, period)
    BY <1>2
  <2> DEFINE f == [i \in 1 .. k + 1 |-> IF i <= first THEN seed[i]
                                       ELSE Smoothed(e[i - 1], x[i], period)]
  <2>2. \A i \in 1 .. k : f[i] = e[i]
    BY <2>1 DEF EMAOf
  <2>3. \A i \in 1 .. k + 1 : ~(i <= first) => i - 1 \in 1 .. k
    OBVIOUS
  <2>4. \A i \in 1 .. k + 1 :
          ~(i <= first) => Smoothed(e[i - 1], x[i], period) = Smoothed(f[i - 1], x[i], period)
    BY <2>2, <2>3
  <2>5. f = [i \in 1 .. k + 1 |-> IF i <= first THEN seed[i]
                                 ELSE Smoothed(f[i - 1], x[i], period)]
    BY <2>4
  <2> HIDE DEF f
  <2>6. EMAOf(f, x, k + 1, first, seed, period)
    BY <2>5 DEF EMAOf
  <2>7. QED
    BY <2>6
<1> HIDE DEF S
<1>3. 0 .. n \subseteq S
  BY <1>1, <1>2, Upward
<1>4. n \in S
  BY <1>3
<1>5. QED
  BY <1>4 DEF S

LEMMA EMAOfSame ==
  ASSUME NEW m \in Nat, NEW n \in Nat, NEW n2 \in Nat, m <= n, m <= n2,
         NEW first \in Nat \ {0}, NEW period,
         NEW x, NEW seed, NEW e, EMAOf(e, x, n, first, seed, period),
         NEW y, NEW seed2, NEW f, EMAOf(f, y, n2, first, seed2, period),
         \A i \in 1 .. m : x[i] = y[i] /\ seed[i] = seed2[i]
  PROVE  \A i \in 1 .. m : e[i] = f[i]
<1>1. \A i \in 1 .. n : e[i] = IF i <= first THEN seed[i]
                               ELSE Smoothed(e[i - 1], x[i], period)
  BY DEF EMAOf
<1>2. \A i \in 1 .. n2 : f[i] = IF i <= first THEN seed2[i]
                                ELSE Smoothed(f[i - 1], y[i], period)
  BY DEF EMAOf
<1> DEFINE S == {i \in Nat : i # 0 => e[i] = f[i]}
<1>3. 0 \in S
  OBVIOUS
<1>4. ASSUME NEW i \in 0 .. m - 1, i \in S PROVE i + 1 \in S
  <2>1. i + 1 \in 1 .. n /\ i + 1 \in 1 .. n2 /\ i + 1 \in 1 .. m /\ i + 1 - 1 = i
    OBVIOUS
  <2>2. e[i + 1] = IF i + 1 <= first THEN seed[i + 1] ELSE Smoothed(e[i], x[i + 1], period)
    BY <1>1, <2>1
  <2>3. f[i + 1] = IF i + 1 <= first THEN seed2[i + 1] ELSE Smoothed(f[i], y[i + 1], period)
    BY <1>2, <2>1
  <2>4. x[i + 1] = y[i + 1] /\ seed[i + 1] = seed2[i + 1]
    BY <2>1
  <2>5. i + 1 <= first \/ e[i] = f[i]
    BY <1>4
  <2>6. e[i + 1] = f[i + 1]
    BY <2>2, <2>3, <2>4, <2>5
  <2>7. QED
    BY <2>6
<1> HIDE DEF S
<1>5. 0 .. m \subseteq S
  BY <1>3, <1>4, Upward
<1>6. QED
  BY <1>5 DEF S

LEMMA EMAIs ==
  ASSUME NEW c, Series(c), NEW period \in Nat \ {0}
  PROVE  EMAOf(computeEMA(c, period), c, Len(c), period,
               [i \in 1 .. Len(c) |-> barSMA(c, i, period)], period)
<1> DEFINE seed == [i \in 1 .. Len(c) |-> barSMA(c, i, period)]
           Is(e) == e = [i \in DOMAIN c |-> IF i <= period THEN barSMA(c, i, period)
                                           ELSE Smoothed(e[i - 1], c[i], period)]
<1>1. DOMAIN c = 1 .. Len(c) /\ Len(c) \in Nat
  BY DEF Series
<1>2. ASSUME NEW e PROVE Is(e) <=> EMAOf(e, c, Len(c), period, seed, period)
  BY <1>1 DEF EMAOf
<1>3. \E e : Is(e)
  BY <1>1, <1>2, EMAExists
<1>4. computeEMA(c, period) = CHOOSE e : Is(e)
  BY DEF computeEMA
<1>5. Is(computeEMA(c, period))
  BY <1>3, <1>4
<1>6. QED
  BY <1>2, <1>5

LEMMA FromFirstIs ==
  ASSUME NEW c, Series(c), NEW period
  PROVE  EMAOf(FromFirst(c, period), c, Len(c), 1, [i \in 1 .. 1 |-> <<c[1], 1>>], period)
<1> DEFINE seed == [i \in 1 .. 1 |-> <<c[1], 1>>]
           Is(e) == e = [i \in DOMAIN c |-> IF i = 1 THEN <<c[1], 1>>
                                           ELSE Smoothed(e[i - 1], c[i], period)]
<1>1. DOMAIN c = 1 .. Len(c) /\ Len(c) \in Nat
  BY DEF Series
<1>2. ASSUME NEW e PROVE Is(e) <=> EMAOf(e, c, Len(c), 1, seed, period)
  <2>1. seed[1] = <<c[1], 1>>
    OBVIOUS
  <2> HIDE DEF seed
  <2>2. [i \in DOMAIN c |-> IF i = 1 THEN <<c[1], 1>> ELSE Smoothed(e[i - 1], c[i], period)]
          = [i \in 1 .. Len(c) |-> IF i <= 1 THEN seed[i]
                                  ELSE Smoothed(e[i - 1], c[i], period)]
    BY <1>1, <2>1
  <2>3. QED
    BY <2>2 DEF EMAOf
<1>3. \E e : Is(e)
  <2> HIDE DEF seed
  <2> DEFINE first == 1
  <2>1. first \in Nat \ {0}
    OBVIOUS
  <2> HIDE DEF first
  <2>2. \E e : EMAOf(e, c, Len(c), first, seed, period)
    BY <1>1, <2>1, EMAExists
  <2>3. PICK e : EMAOf(e, c, Len(c), 1, seed, period)
    BY <2>2 DEF first
  <2>4. QED
    BY <1>2, <2>3
<1>4. FromFirst(c, period) = CHOOSE e : Is(e)
  BY DEF FromFirst
<1>5. Is(FromFirst(c, period))
  BY <1>3, <1>4
<1>6. QED
  BY <1>2, <1>5

LEMMA EMASame ==
  ASSUME NEW m, NEW c, NEW d, Twins(m, c, d), NEW period \in Nat \ {0}
  PROVE  \A i \in 1 .. m : computeEMA(c, period)[i] = computeEMA(d, period)[i]
<1>1. /\ m \in Nat /\ Len(c) \in Nat /\ Len(d) \in Nat /\ m <= Len(c) /\ m <= Len(d)
      /\ \A i \in 1 .. m : c[i] = d[i]
  BY TwinsFacts
<1> DEFINE seed == [i \in 1 .. Len(c) |-> barSMA(c, i, period)]
           seed2 == [i \in 1 .. Len(d) |-> barSMA(d, i, period)]
<1>2. \A i \in 1 .. m : c[i] = d[i] /\ seed[i] = seed2[i]
  BY <1>1, SMASame
<1>3. EMAOf(computeEMA(c, period), c, Len(c), period, seed, period)
  BY EMAIs DEF Twins
<1>4. EMAOf(computeEMA(d, period), d, Len(d), period, seed2, period)
  BY EMAIs DEF Twins
<1> HIDE DEF seed, seed2
<1>5. PICK n, n2, e, f : /\ n = Len(c) /\ n2 = Len(d)
                         /\ e = computeEMA(c, period) /\ f = computeEMA(d, period)
  OBVIOUS
<1>6. m \in Nat /\ n \in Nat /\ n2 \in Nat /\ m <= n /\ m <= n2
  BY <1>1, <1>5
<1>7. EMAOf(e, c, n, period, seed, period) /\ EMAOf(f, d, n2, period, seed2, period)
  BY <1>3, <1>4, <1>5
<1>8. \A i \in 1 .. m : e[i] = f[i]
  BY <1>2, <1>6, <1>7, EMAOfSame
<1>9. QED
  BY <1>5, <1>8

LEMMA FromFirstSame ==
  ASSUME NEW m, NEW c, NEW d, Twins(m, c, d), NEW period
  PROVE  \A i \in 1 .. m : FromFirst(c, period)[i] = FromFirst(d, period)[i]
<1>1. /\ m \in Nat /\ 1 \in 1 .. m /\ Len(c) \in Nat /\ Len(d) \in Nat
      /\ m <= Len(c) /\ m <= Len(d)
      /\ \A i \in 1 .. m : c[i] = d[i]
  BY TwinsFacts
<1> DEFINE seed == [i \in 1 .. 1 |-> <<c[1], 1>>]
           first == 1
<1>2. seed = [i \in 1 .. 1 |-> <<d[1], 1>>]
  BY <1>1
<1>3. EMAOf(FromFirst(c, period), c, Len(c), first, seed, period)
  BY FromFirstIs DEF Twins
<1>4. EMAOf(FromFirst(d, period), d, Len(d), first, [i \in 1 .. 1 |-> <<d[1], 1>>], period)
  BY FromFirstIs DEF Twins
<1>5. EMAOf(FromFirst(d, period), d, Len(d), first, seed, period)
  BY <1>2, <1>4
<1>6. first \in Nat \ {0} /\ \A i \in 1 .. m : c[i] = d[i] /\ seed[i] = seed[i]
  BY <1>1
<1> HIDE DEF seed, first
<1>7. QED
  BY <1>1, <1>3, <1>5, <1>6, EMAOfSame, SMTT(30)

LEMMA AveragesSame ==
  ASSUME NEW m, NEW c, NEW d, Twins(m, c, d), NEW period \in Nat \ {0}, NEW useEMA
  PROVE  \A i \in 1 .. m : Averages(c, period, useEMA)[i] = Averages(d, period, useEMA)[i]
<1>1. CASE useEMA
  BY <1>1, EMASame DEF Averages
<1>2. CASE ~useEMA
  <2>1. ASSUME NEW i \in 1 .. m
        PROVE  Averages(c, period, useEMA)[i] = Averages(d, period, useEMA)[i]
    <3>1. barSMA(c, i, period) = barSMA(d, i, period)
      BY SMASame
    <3>2. i \in DOMAIN c /\ i \in DOMAIN d
      BY TwinsFacts
    <3>3. QED
      BY <1>2, <3>1, <3>2 DEF Averages
  <2>2. QED
    BY <2>1
<1>3. QED
  BY <1>1, <1>2

(***************************************************************************)
(* Wilder's averages, and the RSI.                                         *)
(***************************************************************************)
WilderStep(last, move, period) ==
  <<last[1] * (period - 1) + move * last[2], last[2] * period>>

WilderOf(avg, moves, n, period) ==
  avg = [i \in 1 .. n |-> IF i <= period THEN Zero
                         ELSE IF i = period + 1 THEN <<SumOver(moves, 2 .. i), period>>
                         ELSE WilderStep(avg[i - 1], moves[i], period)]

LEMMA WilderExists ==
  ASSUME NEW n \in Nat, NEW moves, NEW period \in Nat \ {0}
  PROVE  \E avg : WilderOf(avg, moves, n, period)
<1> DEFINE S == {k \in Nat : \E avg : WilderOf(avg, moves, k, period)}
<1>1. 0 \in S
  <2> DEFINE f == [i \in 1 .. 0 |-> Zero]
  <2>1. f = [i \in 1 .. 0 |-> IF i <= period THEN Zero
                              ELSE IF i = period + 1 THEN <<SumOver(moves, 2 .. i), period>>
                              ELSE WilderStep(f[i - 1], moves[i], period)]
    OBVIOUS
  <2> HIDE DEF f
  <2>2. WilderOf(f, moves, 0, period)
    BY <2>1 DEF WilderOf
  <2>3. QED
    BY <2>2
<1>2. ASSUME NEW k \in 0 .. n - 1, k \in S PROVE k + 1 \in S
  <2>1. PICK e : WilderOf(e, moves, k, period)
    BY <1>2
  <2> DEFINE f == [i \in 1 .. k + 1 |-> IF i <= period THEN Zero
                                       ELSE IF i = period + 1 THEN <<SumOver(moves, 2 .. i), period>>
                                       ELSE WilderStep(e[i - 1], moves[i], period)]
  <2>2. \A i \in 1 .. k : f[i] = e[i]
    BY <2>1, SMTT(30) DEF WilderOf
  <2>3. \A i \in 1 .. k + 1 : ~(i <= period) => i - 1 \in 1 .. k
    OBVIOUS
  <2>4. \A i \in 1 .. k + 1 :
          ~(i <= period) => WilderStep(e[i - 1], moves[i], period)
                              = WilderStep(f[i - 1], moves[i], period)
    BY <2>2, <2>3
  <2>5. f = [i \in 1 .. k + 1 |-> IF i <= period THEN Zero
                                 ELSE IF i = period + 1 THEN <<SumOver(moves, 2 .. i), period>>
                                 ELSE WilderStep(f[i - 1], moves[i], period)]
    BY <2>4
  <2> HIDE DEF f
  <2>6. WilderOf(f, moves, k + 1, period)
    BY <2>5 DEF WilderOf
  <2>7. QED
    BY <2>6
<1> HIDE DEF S
<1>3. 0 .. n \subseteq S
  BY <1>1, <1>2, Upward
<1>4. n \in S
  BY <1>3
<1>5. QED
  BY <1>4 DEF S

LEMMA WilderIs ==
  ASSUME NEW n \in Nat, NEW moves, DOMAIN moves \cup {1} = 1 .. n, NEW period \in Nat \ {0}
  PROVE  WilderOf(Wilder(moves, period), moves, n, period)
<1> DEFINE Is(e) == e = [i \in DOMAIN moves \cup {1} |->
                           IF i <= period THEN Zero
                           ELSE IF i = period + 1 THEN <<SumOver(moves, 2 .. i), period>>
                           ELSE <<e[i - 1][1] * (period - 1) + moves[i] * e[i - 1][2],
                                  e[i - 1][2] * period>>]
<1>1. ASSUME NEW e PROVE Is(e) <=> WilderOf(e, moves, n, period)
  BY Zenon DEF WilderOf, WilderStep
<1>2. \E e : Is(e)
  BY <1>1, WilderExists
<1>3. Wilder(moves, period) = CHOOSE e : Is(e)
  BY DEF Wilder
<1>4. Is(Wilder(moves, period))
  BY <1>2, <1>3
<1>5. QED
  BY <1>1, <1>4

LEMMA WilderSame ==
  ASSUME NEW m \in Nat, NEW n \in Nat, NEW n2 \in Nat, m <= n, m <= n2,
         NEW period \in Nat \ {0}, NEW x, NEW y, \A i \in 2 .. m : x[i] = y[i],
         DOMAIN x \cup {1} = 1 .. n, DOMAIN y \cup {1} = 1 .. n2
  PROVE  \A i \in 1 .. m : Wilder(x, period)[i] = Wilder(y, period)[i]
<1>1. PICK e : e = Wilder(x, period) /\ WilderOf(e, x, n, period)
  BY WilderIs
<1>2. PICK f : f = Wilder(y, period) /\ WilderOf(f, y, n2, period)
  BY WilderIs
<1>3. \A i \in 1 .. n : e[i] = IF i <= period THEN Zero
                               ELSE IF i = period + 1 THEN <<SumOver(x, 2 .. i), period>>
                               ELSE WilderStep(e[i - 1], x[i], period)
  BY <1>1 DEF WilderOf
<1>4. \A i \in 1 .. n2 : f[i] = IF i <= period THEN Zero
                                ELSE IF i = period + 1 THEN <<SumOver(y, 2 .. i), period>>
                                ELSE WilderStep(f[i - 1], y[i], period)
  BY <1>2 DEF WilderOf
<1> DEFINE S == {i \in Nat : i # 0 => e[i] = f[i]}
<1>5. 0 \in S
  OBVIOUS
<1>6. ASSUME NEW i \in 0 .. m - 1, i \in S PROVE i + 1 \in S
  <2>1. i + 1 \in 1 .. n /\ i + 1 \in 1 .. n2 /\ i + 1 \in 1 .. m /\ i + 1 - 1 = i
    OBVIOUS
  <2>2. e[i + 1] = IF i + 1 <= period THEN Zero
                   ELSE IF i + 1 = period + 1 THEN <<SumOver(x, 2 .. i + 1), period>>
                   ELSE WilderStep(e[i], x[i + 1], period)
    BY <1>3, <2>1
  <2>3. f[i + 1] = IF i + 1 <= period THEN Zero
                   ELSE IF i + 1 = period + 1 THEN <<SumOver(y, 2 .. i + 1), period>>
                   ELSE WilderStep(f[i], y[i + 1], period)
    BY <1>4, <2>1
  <2>4. \A j \in 2 .. i + 1 : x[j] = y[j]
    BY <2>1
  <2>5. SumOver(x, 2 .. i + 1) = SumOver(y, 2 .. i + 1)
    BY <2>4, SumSame
  <2>6. i + 1 <= period \/ (e[i] = f[i] /\ x[i + 1] = y[i + 1])
    BY <1>6, <2>4
  <2>7. e[i + 1] = f[i + 1]
    BY <2>2, <2>3, <2>5, <2>6
  <2>8. QED
    BY <2>7
<1> HIDE DEF S
<1>7. 0 .. m \subseteq S
  BY <1>5, <1>6, Upward
<1>8. \A i \in 1 .. m : e[i] = f[i]
  BY <1>7 DEF S
<1>9. QED
  BY <1>1, <1>2, <1>8

LEMMA RSISame ==
  ASSUME NEW m, NEW c, NEW d, Twins(m, c, d), NEW period \in Nat \ {0}
  PROVE  \A i \in 1 .. m : computeRSI(c, period)[i] = computeRSI(d, period)[i]
<1>1. /\ m \in Nat \ {0} /\ Len(c) \in Nat /\ Len(d) \in Nat /\ m <= Len(c) /\ m <= Len(d)
      /\ DOMAIN c = 1 .. Len(c) /\ DOMAIN d = 1 .. Len(d)
      /\ \A i \in 1 .. m : c[i] = d[i]
  BY TwinsFacts
<1>2. \A i \in 2 .. m : /\ i \in DOMAIN c \ {1} /\ i \in DOMAIN d \ {1}
                       /\ c[i] = d[i] /\ c[i - 1] = d[i - 1]
  BY <1>1
<1>3. \A i \in 2 .. m : Gains(c)[i] = Gains(d)[i]
  BY <1>2 DEF Gains, Gain
<1>4. \A i \in 2 .. m : Losses(c)[i] = Losses(d)[i]
  BY <1>2 DEF Losses, Loss
<1>5. /\ DOMAIN Gains(c) \cup {1} = 1 .. Len(c) /\ DOMAIN Gains(d) \cup {1} = 1 .. Len(d)
      /\ DOMAIN Losses(c) \cup {1} = 1 .. Len(c) /\ DOMAIN Losses(d) \cup {1} = 1 .. Len(d)
  BY <1>1 DEF Gains, Losses
<1>6. \A i \in 1 .. m : Wilder(Gains(c), period)[i] = Wilder(Gains(d), period)[i]
  <2>1. PICK x, y : x = Gains(c) /\ y = Gains(d)
    OBVIOUS
  <2>2. /\ DOMAIN x \cup {1} = 1 .. Len(c) /\ DOMAIN y \cup {1} = 1 .. Len(d)
        /\ \A i \in 2 .. m : x[i] = y[i]
    BY <1>3, <1>5, <2>1
  <2>3. m \in Nat
    BY <1>1
  <2>4. \A i \in 1 .. m : Wilder(x, period)[i] = Wilder(y, period)[i]
    BY <1>1, <2>2, <2>3, WilderSame, SMTT(30)
  <2>5. QED
    BY <2>1, <2>4
<1>7. \A i \in 1 .. m : Wilder(Losses(c), period)[i] = Wilder(Losses(d), period)[i]
  <2>1. PICK x, y : x = Losses(c) /\ y = Losses(d)
    OBVIOUS
  <2>2. /\ DOMAIN x \cup {1} = 1 .. Len(c) /\ DOMAIN y \cup {1} = 1 .. Len(d)
        /\ \A i \in 2 .. m : x[i] = y[i]
    BY <1>4, <1>5, <2>1
  <2>3. m \in Nat
    BY <1>1
  <2>4. \A i \in 1 .. m : Wilder(x, period)[i] = Wilder(y, period)[i]
    BY <1>1, <2>2, <2>3, WilderSame, SMTT(30)
  <2>5. QED
    BY <2>1, <2>4
<1>8. \A i \in 1 .. m : i \in DOMAIN c /\ i \in DOMAIN d
  BY <1>1
<1>9. QED
  BY <1>6, <1>7, <1>8 DEF computeRSI

(***************************************************************************)
(* Bollinger's bands and the breakout.                                     *)
(***************************************************************************)
LEMMA BandSame ==
  ASSUME NEW m, NEW c, NEW d, Twins(m, c, d), NEW period \in Nat \ {0}, NEW stdDevs
  PROVE  \A i \in 1 .. m :
           computeBollinger(c, period, stdDevs)[i] = computeBollinger(d, period, stdDevs)[i]
<1> TAKE i \in 1 .. m
<1>1. i \in DOMAIN c /\ i \in DOMAIN d
  BY TwinsFacts
<1>2. CASE i < period
  BY <1>1, <1>2 DEF computeBollinger
<1>3. CASE ~(i < period)
  <2> DEFINE bars == i - period + 1 .. i
             d2(x) == [j \in bars |-> Squared(period * x[j] - SumOver(x, bars))]
             Band(x) == [mid |-> SumOver(x, bars),
                         spread |-> Squared(stdDevs) * (SumFunction(d2(x)) \div period)]
  <2>1. computeBollinger(c, period, stdDevs)[i] = Band(c)
    BY <1>1, <1>3 DEF computeBollinger, BarsUpTo
  <2>2. computeBollinger(d, period, stdDevs)[i] = Band(d)
    BY <1>1, <1>3 DEF computeBollinger, BarsUpTo
  <2>3. \A j \in bars : c[j] = d[j]
    BY <1>3, TwinsFacts
  <2>4. SumOver(c, bars) = SumOver(d, bars)
    BY <2>3, SumSame
  <2>5. d2(c) = d2(d)
    BY <2>3, <2>4
  <2> HIDE DEF bars, d2
  <2>6. Band(c) = Band(d)
    BY <2>4, <2>5
  <2>7. QED
    BY <2>1, <2>2, <2>6
<1>4. QED
  BY <1>2, <1>3

LEMMA BreaksOutSame ==
  ASSUME NEW m, NEW c, NEW d, Twins(m, c, d), Lookback \in Nat \ {0},
         NEW i \in Lookback + 1 .. m
  PROVE  BreaksOut(c, i) <=> BreaksOut(d, i)
<1>1. i \in 1 .. m /\ \A j \in i - Lookback .. i - 1 : j \in 1 .. m
  BY TwinsFacts
<1>2. c[i] = d[i] /\ \A j \in i - Lookback .. i - 1 : c[j] = d[j]
  BY <1>1, TwinsFacts
<1>3. QED
  BY <1>2 DEF BreaksOut

(***************************************************************************)
(* The strategies and the programs: what two of them trade on twins agrees *)
(* up to bar m.                                                            *)
(***************************************************************************)
LEMMA Parameters ==
  /\ Fast \in Nat \ {0} /\ Slow \in Nat \ {0} /\ Period \in Nat \ {0}
  /\ BandPeriod \in Nat \ {0} /\ Lookback \in Nat \ {0} /\ HoldBars \in Nat \ {0}
BY BacktestAssumption

LEMMA SignalsAgree ==
  ASSUME NEW m \in Nat, NEW n \in Nat, NEW n2 \in Nat, m <= n, m <= n2,
         NEW buys, NEW sells, NEW buys2, NEW sells2,
         \A i \in 1 .. m : i \in buys <=> i \in buys2,
         \A i \in 1 .. m : i \in sells <=> i \in sells2
  PROVE  AgreeUpTo(m, TradeSignals(n, buys, sells), TradeSignals(n2, buys2, sells2))
<1> DEFINE all == [entry \in 1 .. n |-> sells]
           all2 == [entry \in 1 .. n2 |-> sells2]
<1>1. \A entry \in 1 .. m : all[entry] = sells /\ all2[entry] = sells2
  OBVIOUS
<1> HIDE DEF all, all2
<1>2. SameSignals(m, buys, all, buys2, all2)
  BY <1>1 DEF SameSignals
<1>3. AgreeUpTo(m, Trade(n, buys, all), Trade(n2, buys2, all2))
  BY <1>2, TradesAgree
<1>4. QED
  BY <1>3 DEF TradeSignals, all, all2

LEMMA CrossoverAgrees ==
  ASSUME NEW m, NEW c, NEW d, Twins(m, c, d), NEW useEMA
  PROVE  AgreeUpTo(m, runCrossover(c, useEMA), runCrossover(d, useEMA))
<1> DEFINE fast(x) == Averages(x, Fast, useEMA)
           slow(x) == Averages(x, Slow, useEMA)
           Above(x, i) == Less(slow(x)[i], fast(x)[i])
           buys(x) == {i \in Slow + 2 .. Len(x) : ~Above(x, i - 1) /\ Above(x, i)}
           sells(x) == {i \in Slow + 2 .. Len(x) : Above(x, i - 1) /\ ~Above(x, i)}
<1>1. /\ runCrossover(c, useEMA) = TradeSignals(Len(c), buys(c), sells(c))
      /\ runCrossover(d, useEMA) = TradeSignals(Len(d), buys(d), sells(d))
  BY DEF runCrossover
<1>2. \A i \in 1 .. m : fast(c)[i] = fast(d)[i] /\ slow(c)[i] = slow(d)[i]
  BY AveragesSame, Parameters
<1>3. \A i \in 1 .. m : Above(c, i) <=> Above(d, i)
  BY <1>2
<1> HIDE DEF Above
<1>4. m \in Nat /\ Len(c) \in Nat /\ Len(d) \in Nat /\ m <= Len(c) /\ m <= Len(d)
  BY TwinsFacts
<1>5. \A i \in 1 .. m : i \in Slow + 2 .. Len(c) <=> i \in Slow + 2 .. Len(d)
  BY <1>4
<1>6. \A i \in Slow + 2 .. Len(c) : i \in 1 .. m => i - 1 \in 1 .. m
  BY <1>4, Parameters
<1>7. /\ \A i \in 1 .. m : i \in buys(c) <=> i \in buys(d)
      /\ \A i \in 1 .. m : i \in sells(c) <=> i \in sells(d)
  BY <1>3, <1>5, <1>6
<1> HIDE DEF buys, sells
<1>8. QED
  BY <1>1, <1>4, <1>7, SignalsAgree

LEMMA RSIAgrees ==
  ASSUME NEW m, NEW c, NEW d, Twins(m, c, d)
  PROVE  /\ AgreeUpTo(m, runRSI(c), runRSI(d))
         /\ AgreeUpTo(m, harness("rsi_mean_reversion", c), harness("rsi_mean_reversion", d))
<1> DEFINE rsi(x) == computeRSI(x, Period)
           valued(x) == Period + 2 .. Len(x)
           buys(x) == {i \in valued(x) : ~Equal(rsi(x)[i], Zero)
                                           /\ Less(rsi(x)[i], <<Oversold, 1>>)}
           buysToo(x) == {i \in valued(x) : Less(rsi(x)[i], <<Oversold, 1>>)}
           sells(x) == {i \in valued(x) : Less(<<Overbought, 1>>, rsi(x)[i])}
<1>1. /\ runRSI(c) = TradeSignals(Len(c), buys(c), sells(c))
      /\ runRSI(d) = TradeSignals(Len(d), buys(d), sells(d))
  BY DEF runRSI
<1>2. /\ harness("rsi_mean_reversion", c) = TradeSignals(Len(c), buysToo(c), sells(c))
      /\ harness("rsi_mean_reversion", d) = TradeSignals(Len(d), buysToo(d), sells(d))
  BY DEF harness
<1>3. \A i \in 1 .. m : rsi(c)[i] = rsi(d)[i]
  BY RSISame, Parameters
<1>4. m \in Nat /\ Len(c) \in Nat /\ Len(d) \in Nat /\ m <= Len(c) /\ m <= Len(d)
  BY TwinsFacts
<1>5. \A i \in 1 .. m : i \in valued(c) <=> i \in valued(d)
  BY <1>4
<1> HIDE DEF valued, rsi
<1>6. \A i \in 1 .. m : i \in buys(c) <=> i \in buys(d)
  BY <1>3, <1>5
<1>7. \A i \in 1 .. m : i \in buysToo(c) <=> i \in buysToo(d)
  BY <1>3, <1>5
<1>8. \A i \in 1 .. m : i \in sells(c) <=> i \in sells(d)
  BY <1>3, <1>5
<1> HIDE DEF buys, buysToo, sells
<1>9. AgreeUpTo(m, runRSI(c), runRSI(d))
  BY <1>1, <1>4, <1>6, <1>8, SignalsAgree
<1>10. AgreeUpTo(m, harness("rsi_mean_reversion", c), harness("rsi_mean_reversion", d))
  BY <1>2, <1>4, <1>7, <1>8, SignalsAgree
<1>11. QED
  BY <1>9, <1>10

LEMMA BollingerAgrees ==
  ASSUME NEW m, NEW c, NEW d, Twins(m, c, d)
  PROVE  /\ AgreeUpTo(m, runBollinger(c), runBollinger(d))
         /\ AgreeUpTo(m, harness("bollinger_bands", c), harness("bollinger_bands", d))
<1> DEFINE band(x) == computeBollinger(x, BandPeriod, StdDevs)
           bars(x) == {i \in BandPeriod + 1 .. Len(x) : ~LowerIsZero(band(x)[i])}
           banded(x) == BandPeriod .. Len(x)
           Low(x, i) == BelowLower(x[i], band(x)[i], BandPeriod)
           High(x, i) == AboveMiddle(x[i], band(x)[i], BandPeriod)
           buys(x) == {i \in bars(x) : Low(x, i)}
           sells(x) == {i \in bars(x) : High(x, i)}
           buysToo(x) == {i \in banded(x) : Low(x, i)}
           sellsToo(x) == {i \in banded(x) : High(x, i)}
<1>1. /\ runBollinger(c) = TradeSignals(Len(c), buys(c), sells(c))
      /\ runBollinger(d) = TradeSignals(Len(d), buys(d), sells(d))
  BY DEF runBollinger
<1>2. /\ harness("bollinger_bands", c) = TradeSignals(Len(c), buysToo(c), sellsToo(c))
      /\ harness("bollinger_bands", d) = TradeSignals(Len(d), buysToo(d), sellsToo(d))
  BY DEF harness
<1>3. m \in Nat /\ Len(c) \in Nat /\ Len(d) \in Nat /\ m <= Len(c) /\ m <= Len(d)
  BY TwinsFacts
<1>4. \A i \in 1 .. m : c[i] = d[i] /\ band(c)[i] = band(d)[i]
  BY BandSame, TwinsFacts, Parameters
<1>5. \A i \in 1 .. m : (Low(c, i) <=> Low(d, i)) /\ (High(c, i) <=> High(d, i))
  BY <1>4
<1>6. \A i \in 1 .. m : i \in banded(c) <=> i \in banded(d)
  BY <1>3
<1>7. \A i \in 1 .. m : i \in BandPeriod + 1 .. Len(c) <=> i \in BandPeriod + 1 .. Len(d)
  BY <1>3
<1>8. \A i \in 1 .. m : i \in bars(c) <=> i \in bars(d)
  BY <1>4, <1>7
<1> HIDE DEF Low, High, bars, banded
<1>9. /\ \A i \in 1 .. m : i \in buys(c) <=> i \in buys(d)
      /\ \A i \in 1 .. m : i \in sells(c) <=> i \in sells(d)
  BY <1>5, <1>8
<1>10. /\ \A i \in 1 .. m : i \in buysToo(c) <=> i \in buysToo(d)
       /\ \A i \in 1 .. m : i \in sellsToo(c) <=> i \in sellsToo(d)
  BY <1>5, <1>6
<1> HIDE DEF buys, sells, buysToo, sellsToo
<1>11. AgreeUpTo(m, runBollinger(c), runBollinger(d))
  BY <1>1, <1>3, <1>9, SignalsAgree
<1>12. AgreeUpTo(m, harness("bollinger_bands", c), harness("bollinger_bands", d))
  BY <1>2, <1>3, <1>10, SignalsAgree
<1>13. QED
  BY <1>11, <1>12

LEMMA BreakoutAgrees ==
  ASSUME NEW m, NEW c, NEW d, Twins(m, c, d)
  PROVE  /\ AgreeUpTo(m, runBreakout(c), runBreakout(d))
         /\ AgreeUpTo(m, harness("breakout", c), harness("breakout", d))
<1> DEFINE bars(x) == Lookback + 1 .. Len(x)
           buys(x) == {i \in bars(x) : BreaksOut(x, i)}
           sells(x) == [entry \in 1 .. Len(x) |-> {i \in bars(x) : HeldLong(i, entry)}]
           sellsToo(x) == [entry \in 1 .. Len(x) |-> {i \in bars(x) : i - entry >= HoldBars}]
<1>1. /\ runBreakout(c) = Trade(Len(c), buys(c), sells(c))
      /\ runBreakout(d) = Trade(Len(d), buys(d), sells(d))
  BY DEF runBreakout
<1>2. /\ harness("breakout", c) = Trade(Len(c), buys(c), sellsToo(c))
      /\ harness("breakout", d) = Trade(Len(d), buys(d), sellsToo(d))
  BY DEF harness
<1>3. m \in Nat /\ Len(c) \in Nat /\ Len(d) \in Nat /\ m <= Len(c) /\ m <= Len(d)
  BY TwinsFacts
<1>4. \A i \in 1 .. m : i \in bars(c) <=> i \in bars(d)
  BY <1>3
<1>5. \A i \in 1 .. m : i \in bars(c) => i \in Lookback + 1 .. m
  BY <1>3
<1>6. \A i \in 1 .. m : i \in bars(c) => (BreaksOut(c, i) <=> BreaksOut(d, i))
  BY <1>5, BreaksOutSame, Parameters
<1>7. \A entry \in 1 .. m : entry \in 1 .. Len(c) /\ entry \in 1 .. Len(d)
  BY <1>3
<1> HIDE DEF bars
<1>8. \A i \in 1 .. m : i \in buys(c) <=> i \in buys(d)
  BY <1>4, <1>6
<1>9. \A entry, i \in 1 .. m : i \in sells(c)[entry] <=> i \in sells(d)[entry]
  BY <1>4, <1>7
<1>10. \A entry, i \in 1 .. m : i \in sellsToo(c)[entry] <=> i \in sellsToo(d)[entry]
  BY <1>4, <1>7
<1> HIDE DEF buys, sells, sellsToo
<1>11. SameSignals(m, buys(c), sells(c), buys(d), sells(d))
  BY <1>8, <1>9 DEF SameSignals
<1>12. SameSignals(m, buys(c), sellsToo(c), buys(d), sellsToo(d))
  BY <1>8, <1>10 DEF SameSignals
<1>13. AgreeUpTo(m, runBreakout(c), runBreakout(d))
  BY <1>1, <1>3, <1>11, TradesAgree
<1>14. AgreeUpTo(m, harness("breakout", c), harness("breakout", d))
  BY <1>2, <1>3, <1>12, TradesAgree
<1>15. QED
  BY <1>13, <1>14

LEMMA CrossesAgree ==
  ASSUME NEW m, NEW c, NEW d, Twins(m, c, d), NEW first \in Nat,
         NEW fast, NEW slow, NEW fast2, NEW slow2,
         \A i \in 1 .. m : fast[i] = fast2[i] /\ slow[i] = slow2[i]
  PROVE  AgreeUpTo(m, Crosses(first, Len(c), fast, slow), Crosses(first, Len(d), fast2, slow2))
<1> DEFINE buys == {i \in first .. Len(c) : Less(slow[i], fast[i])}
           sells == {i \in first .. Len(c) : Less(fast[i], slow[i])}
           buys2 == {i \in first .. Len(d) : Less(slow2[i], fast2[i])}
           sells2 == {i \in first .. Len(d) : Less(fast2[i], slow2[i])}
<1>1. m \in Nat /\ Len(c) \in Nat /\ Len(d) \in Nat /\ m <= Len(c) /\ m <= Len(d)
  BY TwinsFacts
<1>2. \A i \in 1 .. m : i \in first .. Len(c) <=> i \in first .. Len(d)
  BY <1>1
<1>3. \A i \in 1 .. m : (i \in buys <=> i \in buys2) /\ (i \in sells <=> i \in sells2)
  BY <1>2
<1> HIDE DEF buys, sells, buys2, sells2
<1>4. AgreeUpTo(m, TradeSignals(Len(c), buys, sells), TradeSignals(Len(d), buys2, sells2))
  BY <1>1, <1>3, SignalsAgree
<1>5. QED
  BY <1>4 DEF Crosses, buys, sells, buys2, sells2

LEMMA HarnessAgrees ==
  ASSUME NEW m, NEW c, NEW d, Twins(m, c, d), NEW code \in Preset
  PROVE  AgreeUpTo(m, harness(code, c), harness(code, d))
<1>1. Slow + 1 \in Nat /\ Slow \in Nat /\ Fast \in Nat \ {0} /\ Slow \in Nat \ {0}
  BY Parameters
<1>2. \A i \in 1 .. m : /\ Averages(c, Fast, FALSE)[i] = Averages(d, Fast, FALSE)[i]
                       /\ Averages(c, Slow, FALSE)[i] = Averages(d, Slow, FALSE)[i]
  <2>1. \A u : \A i \in 1 .. m : /\ Averages(c, Fast, u)[i] = Averages(d, Fast, u)[i]
                                 /\ Averages(c, Slow, u)[i] = Averages(d, Slow, u)[i]
    BY <1>1, AveragesSame
  <2>2. QED
    BY <2>1, Zenon
<1>3. CASE code = "custom"
  BY <1>1, <1>2, <1>3, CrossesAgree DEF harness
<1>4. CASE code = "sma_crossover"
  BY <1>1, <1>2, <1>4, CrossesAgree DEF harness
<1>5. CASE code = "ema_crossover"
  <2>1. \A i \in 1 .. m : /\ FromFirst(c, Fast)[i] = FromFirst(d, Fast)[i]
                         /\ FromFirst(c, Slow)[i] = FromFirst(d, Slow)[i]
    BY FromFirstSame
  <2>2. QED
    BY <1>1, <1>5, <2>1, CrossesAgree DEF harness
<1>6. CASE code = "rsi_mean_reversion"
  BY <1>6, RSIAgrees
<1>7. CASE code = "bollinger_bands"
  BY <1>7, BollingerAgrees
<1>8. CASE code = "breakout"
  BY <1>8, BreakoutAgrees
<1>9. QED
  BY <1>3, <1>4, <1>5, <1>6, <1>7, <1>8 DEF Preset

\* What a session or a page can ask for.
Asked(strategy, code) ==
  \/ strategy \in {"sma_crossover", "ema_crossover", "rsi_mean_reversion", "bollinger_bands",
                  "breakout"}
  \/ strategy = "custom" /\ code \in Preset

LEMMA EventsAgree ==
  ASSUME NEW m, NEW c, NEW d, Twins(m, c, d), NEW strategy, NEW code, Asked(strategy, code)
  PROVE  AgreeUpTo(m, Events(strategy, code, c), Events(strategy, code, d))
<1>1. \A u : AgreeUpTo(m, runCrossover(c, u), runCrossover(d, u))
  BY CrossoverAgrees
<1>2. /\ AgreeUpTo(m, runCrossover(c, FALSE), runCrossover(d, FALSE))
      /\ AgreeUpTo(m, runCrossover(c, TRUE), runCrossover(d, TRUE))
  BY <1>1, Zenon
<1>3. CASE strategy = "sma_crossover"
  BY <1>2, <1>3 DEF Events
<1>4. CASE strategy = "ema_crossover"
  BY <1>2, <1>4 DEF Events
<1>5. CASE strategy = "rsi_mean_reversion"
  BY <1>5, RSIAgrees DEF Events
<1>6. CASE strategy = "bollinger_bands"
  BY <1>6, BollingerAgrees DEF Events
<1>7. CASE strategy = "breakout"
  BY <1>7, BreakoutAgrees DEF Events
<1>8. CASE strategy = "custom" /\ code \in Preset
  BY <1>8, HarnessAgrees DEF Events
<1>9. QED
  BY <1>3, <1>4, <1>5, <1>6, <1>7, <1>8 DEF Asked

LEMMA HarnessBounded ==
  ASSUME NEW c, Len(c) \in Nat, NEW code \in Preset
  PROVE  Bounded(harness(code, c), Len(c))
<1> DEFINE n == Len(c)
           rsi == computeRSI(c, Period)
           band == computeBollinger(c, BandPeriod, StdDevs)
           low == {i \in Period + 2 .. n : Less(rsi[i], <<Oversold, 1>>)}
           high == {i \in Period + 2 .. n : Less(<<Overbought, 1>>, rsi[i])}
           below == {i \in BandPeriod .. n : BelowLower(c[i], band[i], BandPeriod)}
           above == {i \in BandPeriod .. n : AboveMiddle(c[i], band[i], BandPeriod)}
           out == {i \in Lookback + 1 .. n : BreaksOut(c, i)}
           long == [entry \in 1 .. n |-> {i \in Lookback + 1 .. n : i - entry >= HoldBars}]
<1>1. CASE code \in {"custom", "sma_crossover", "ema_crossover"}
  <2>1. \A first, fast, slow : Bounded(Crosses(first, n, fast, slow), n)
    BY SignalsBounded, Zenon DEF Crosses
  <2>2. Bounded(harness("custom", c), n)
    BY <2>1 DEF harness
  <2>3. Bounded(harness("sma_crossover", c), n)
    BY <2>1 DEF harness
  <2>4. Bounded(harness("ema_crossover", c), n)
    BY <2>1 DEF harness
  <2>5. QED
    BY <1>1, <2>2, <2>3, <2>4
<1>2. CASE code = "rsi_mean_reversion"
  <2>1. harness("rsi_mean_reversion", c) = TradeSignals(n, low, high)
    BY DEF harness
  <2> HIDE DEF low, high
  <2>2. QED
    BY <1>2, <2>1, SignalsBounded
<1>3. CASE code = "bollinger_bands"
  <2>1. harness("bollinger_bands", c) = TradeSignals(n, below, above)
    BY DEF harness
  <2> HIDE DEF below, above
  <2>2. QED
    BY <1>3, <2>1, SignalsBounded
<1>4. CASE code = "breakout"
  <2>1. harness("breakout", c) = Trade(n, out, long)
    BY DEF harness
  <2> HIDE DEF out, long
  <2>2. QED
    BY <1>4, <2>1, TradeBounded
<1>5. QED
  BY <1>1, <1>2, <1>3, <1>4 DEF Preset

LEMMA EventsBounded ==
  ASSUME NEW c, Len(c) \in Nat, NEW strategy, NEW code, Asked(strategy, code)
  PROVE  Bounded(Events(strategy, code, c), Len(c))
<1>1. ASSUME NEW useEMA PROVE Bounded(runCrossover(c, useEMA), Len(c))
  BY SignalsBounded, Zenon DEF runCrossover
<1>2. Bounded(runCrossover(c, FALSE), Len(c)) /\ Bounded(runCrossover(c, TRUE), Len(c))
  BY <1>1, Zenon
<1>3. Bounded(runRSI(c), Len(c))
  BY SignalsBounded, Zenon DEF runRSI
<1>4. Bounded(runBollinger(c), Len(c))
  BY SignalsBounded, Zenon DEF runBollinger
<1>5. Bounded(runBreakout(c), Len(c))
  BY TradeBounded, Zenon DEF runBreakout
<1>6. CASE strategy = "custom" /\ code \in Preset
  BY <1>6, HarnessBounded DEF Events
<1>7. QED
  BY <1>2, <1>3, <1>4, <1>5, <1>6 DEF Asked, Events

(***************************************************************************)
(* The trades of every strategy: a buy, its sell, the next buy, each later *)
(* than the one before; and no buy within the warmup.                      *)
(***************************************************************************)
BuysAndSells(events) ==
  /\ \A k \in 1 .. Len(events) : events[k].kind = IF k % 2 = 1 THEN "buy" ELSE "sell"
  /\ \A k \in 1 .. Len(events) - 1 : events[k].bar < events[k + 1].bar

BuysAfter(events, w) == \A k \in 1 .. Len(events) : events[k].kind = "buy" => events[k].bar > w

LEMMA TradeAlternates ==
  ASSUME NEW n \in Nat, NEW buys, NEW sells
  PROVE  BuysAndSells(Trade(n, buys, sells))
BY TradeTakesTurns DEF TakesTurns, BuysAndSells

LEMMA TradeAfter ==
  ASSUME NEW n \in Nat, NEW buys, NEW sells, NEW w, \A i \in buys : i > w
  PROVE  BuysAfter(Trade(n, buys, sells), w)
BY TradeTakesTurns DEF TakesTurns, BuysAfter

LEMMA SignalsAlternate ==
  ASSUME NEW n \in Nat, NEW buys, NEW sells
  PROVE  BuysAndSells(TradeSignals(n, buys, sells))
BY TradeAlternates DEF TradeSignals

LEMMA SignalsAfter ==
  ASSUME NEW n \in Nat, NEW buys, NEW sells, NEW w, \A i \in buys : i > w
  PROVE  BuysAfter(TradeSignals(n, buys, sells), w)
BY TradeAfter DEF TradeSignals

LEMMA HarnessAlternates ==
  ASSUME NEW c, Len(c) \in Nat, NEW code \in Preset
  PROVE  BuysAndSells(harness(code, c))
<1> DEFINE n == Len(c)
           rsi == computeRSI(c, Period)
           band == computeBollinger(c, BandPeriod, StdDevs)
           low == {i \in Period + 2 .. n : Less(rsi[i], <<Oversold, 1>>)}
           high == {i \in Period + 2 .. n : Less(<<Overbought, 1>>, rsi[i])}
           below == {i \in BandPeriod .. n : BelowLower(c[i], band[i], BandPeriod)}
           above == {i \in BandPeriod .. n : AboveMiddle(c[i], band[i], BandPeriod)}
           out == {i \in Lookback + 1 .. n : BreaksOut(c, i)}
           long == [entry \in 1 .. n |-> {i \in Lookback + 1 .. n : i - entry >= HoldBars}]
<1>1. CASE code \in {"custom", "sma_crossover", "ema_crossover"}
  <2>1. \A first, fast, slow : BuysAndSells(Crosses(first, n, fast, slow))
    BY SignalsAlternate, Zenon DEF Crosses
  <2>2. BuysAndSells(harness("custom", c))
    BY <2>1 DEF harness
  <2>3. BuysAndSells(harness("sma_crossover", c))
    BY <2>1 DEF harness
  <2>4. BuysAndSells(harness("ema_crossover", c))
    BY <2>1 DEF harness
  <2>5. QED
    BY <1>1, <2>2, <2>3, <2>4
<1>2. CASE code = "rsi_mean_reversion"
  <2>1. harness("rsi_mean_reversion", c) = TradeSignals(n, low, high)
    BY DEF harness
  <2> HIDE DEF low, high
  <2>2. QED
    BY <1>2, <2>1, SignalsAlternate
<1>3. CASE code = "bollinger_bands"
  <2>1. harness("bollinger_bands", c) = TradeSignals(n, below, above)
    BY DEF harness
  <2> HIDE DEF below, above
  <2>2. QED
    BY <1>3, <2>1, SignalsAlternate
<1>4. CASE code = "breakout"
  <2>1. harness("breakout", c) = Trade(n, out, long)
    BY DEF harness
  <2> HIDE DEF out, long
  <2>2. QED
    BY <1>4, <2>1, TradeAlternates
<1>5. QED
  BY <1>1, <1>2, <1>3, <1>4 DEF Preset

LEMMA EventsAlternate ==
  ASSUME NEW c, Len(c) \in Nat, NEW strategy, NEW code, Asked(strategy, code)
  PROVE  BuysAndSells(Events(strategy, code, c))
<1>1. ASSUME NEW useEMA PROVE BuysAndSells(runCrossover(c, useEMA))
  BY SignalsAlternate, Zenon DEF runCrossover
<1>2. BuysAndSells(runCrossover(c, FALSE)) /\ BuysAndSells(runCrossover(c, TRUE))
  BY <1>1, Zenon
<1>3. BuysAndSells(runRSI(c))
  BY SignalsAlternate, Zenon DEF runRSI
<1>4. BuysAndSells(runBollinger(c))
  BY SignalsAlternate, Zenon DEF runBollinger
<1>5. BuysAndSells(runBreakout(c))
  BY TradeAlternates, Zenon DEF runBreakout
<1>6. CASE strategy = "custom" /\ code \in Preset
  BY <1>6, HarnessAlternates DEF Events
<1>7. QED
  BY <1>2, <1>3, <1>4, <1>5, <1>6 DEF Asked, Events

LEMMA EventsAfter ==
  ASSUME NEW c, Len(c) \in Nat, NEW strategy, NEW code, Asked(strategy, code)
  PROVE  BuysAfter(Events(strategy, code, c), Warmup(strategy)) /\ Warmup(strategy) \in Nat
<1> DEFINE n == Len(c)
<1>1. ASSUME NEW useEMA PROVE BuysAfter(runCrossover(c, useEMA), Slow + 1)
  <2> DEFINE Rises(i) == Less(Averages(c, Slow, useEMA)[i], Averages(c, Fast, useEMA)[i])
             buys == {i \in Slow + 2 .. n : ~Rises(i - 1) /\ Rises(i)}
             sells == {i \in Slow + 2 .. n : Rises(i - 1) /\ ~Rises(i)}
  <2>1. runCrossover(c, useEMA) = TradeSignals(n, buys, sells)
    BY DEF runCrossover
  <2>2. \A i \in buys : i > Slow + 1
    BY Parameters
  <2> HIDE DEF buys, sells
  <2>3. QED
    BY <2>1, <2>2, SignalsAfter
<1>2. BuysAfter(runCrossover(c, FALSE), Slow + 1) /\ BuysAfter(runCrossover(c, TRUE), Slow + 1)
  BY <1>1, Zenon
<1>3. BuysAfter(runRSI(c), Period + 1)
  <2> DEFINE rsi == computeRSI(c, Period)
             buys == {i \in Period + 2 .. n : ~Equal(rsi[i], Zero) /\ Less(rsi[i], <<Oversold, 1>>)}
             sells == {i \in Period + 2 .. n : Less(<<Overbought, 1>>, rsi[i])}
  <2>1. runRSI(c) = TradeSignals(n, buys, sells)
    BY DEF runRSI
  <2>2. \A i \in buys : i > Period + 1
    BY Parameters
  <2> HIDE DEF buys, sells
  <2>3. QED
    BY <2>1, <2>2, SignalsAfter
<1>4. BuysAfter(runBollinger(c), BandPeriod)
  <2> DEFINE band == computeBollinger(c, BandPeriod, StdDevs)
             bars == {i \in BandPeriod + 1 .. n : ~LowerIsZero(band[i])}
             buys == {i \in bars : BelowLower(c[i], band[i], BandPeriod)}
             sells == {i \in bars : AboveMiddle(c[i], band[i], BandPeriod)}
  <2>1. runBollinger(c) = TradeSignals(n, buys, sells)
    BY DEF runBollinger
  <2>2. \A i \in buys : i > BandPeriod
    BY Parameters
  <2> HIDE DEF buys, sells
  <2>3. QED
    BY <2>1, <2>2, SignalsAfter
<1>5. BuysAfter(runBreakout(c), Lookback)
  <2> DEFINE bars == Lookback + 1 .. n
             buys == {i \in bars : BreaksOut(c, i)}
             sells == [entry \in 1 .. n |-> {i \in bars : HeldLong(i, entry)}]
  <2>1. runBreakout(c) = Trade(n, buys, sells)
    BY DEF runBreakout
  <2>2. \A i \in buys : i > Lookback
    BY Parameters
  <2> HIDE DEF buys, sells
  <2>3. QED
    BY <2>1, <2>2, TradeAfter
<1>6. CASE strategy = "custom" /\ code \in Preset
  <2>1. Bounded(Events(strategy, code, c), n)
    BY EventsBounded
  <2>2. BuysAfter(Events(strategy, code, c), 0)
    BY <2>1 DEF Bounded, BuysAfter
  <2>3. QED
    BY <1>6, <2>2 DEF Warmup
<1>7. CASE strategy = "sma_crossover"
  <2>1. Events(strategy, code, c) = runCrossover(c, FALSE)
    BY <1>7 DEF Events
  <2>2. Warmup(strategy) = Slow + 1 /\ Slow + 1 \in Nat
    BY <1>7, Parameters DEF Warmup
  <2>3. QED
    BY <1>2, <2>1, <2>2, Zenon
<1>8. CASE strategy = "ema_crossover"
  <2>1. Events(strategy, code, c) = runCrossover(c, TRUE)
    BY <1>8 DEF Events
  <2>2. Warmup(strategy) = Slow + 1 /\ Slow + 1 \in Nat
    BY <1>8, Parameters DEF Warmup
  <2>3. QED
    BY <1>2, <2>1, <2>2, Zenon
<1>9. CASE strategy = "rsi_mean_reversion"
  BY <1>3, <1>9, Parameters DEF Events, Warmup
<1>10. CASE strategy = "bollinger_bands"
  BY <1>4, <1>10, Parameters DEF Events, Warmup
<1>11. CASE strategy = "breakout"
  BY <1>5, <1>11, Parameters DEF Events, Warmup
<1>12. QED
  BY <1>6, <1>7, <1>8, <1>9, <1>10, <1>11 DEF Asked

(***************************************************************************)
(* The indicators' values, of prices.                                      *)
(***************************************************************************)
PriceSeries(c) ==
  Len(c) \in Nat \ {0} /\ DOMAIN c = 1 .. Len(c) /\ \A i \in 1 .. Len(c) : c[i] \in Nat \ {0}

LEMMA Products ==
  /\ \A a, b \in Nat : a * b \in Nat
  /\ \A a, b \in Nat \ {0} : a * b \in Nat \ {0}
OBVIOUS

LEMMA WilderType ==
  ASSUME NEW n \in Nat, NEW moves, DOMAIN moves \cup {1} = 1 .. n,
         \A i \in 2 .. n : moves[i] \in Nat, NEW period \in Nat \ {0}
  PROVE  \A i \in 1 .. n : /\ Wilder(moves, period)[i][1] \in Nat
                           /\ Wilder(moves, period)[i][2] \in Nat \ {0}
<1>1. PICK avg : avg = Wilder(moves, period) /\ WilderOf(avg, moves, n, period)
  BY WilderIs
<1>2. \A i \in 1 .. n : avg[i] = IF i <= period THEN Zero
                                 ELSE IF i = period + 1 THEN <<SumOver(moves, 2 .. i), period>>
                                 ELSE WilderStep(avg[i - 1], moves[i], period)
  BY <1>1 DEF WilderOf
<1> DEFINE S == {i \in Nat : i # 0 => avg[i][1] \in Nat /\ avg[i][2] \in Nat \ {0}}
<1>3. 0 \in S
  OBVIOUS
<1>4. ASSUME NEW i \in 0 .. n - 1, i \in S PROVE i + 1 \in S
  <2>1. i + 1 \in 1 .. n /\ i + 1 - 1 = i /\ i + 1 \in Nat
    OBVIOUS
  <2>2. avg[i + 1] = IF i + 1 <= period THEN Zero
                     ELSE IF i + 1 = period + 1 THEN <<SumOver(moves, 2 .. i + 1), period>>
                     ELSE WilderStep(avg[i], moves[i + 1], period)
    BY <1>2, <2>1
  <2>3. CASE i + 1 <= period
    <3>1. avg[i + 1] = Zero
      BY <1>2, <2>1, <2>3
    <3>2. QED
      BY <2>1, <3>1 DEF Zero
  <2>4. CASE i + 1 = period + 1
    <3>1. avg[i + 1] = <<SumOver(moves, 2 .. i + 1), period>>
      BY <2>1, <2>2, <2>4
    <3>2. IsFiniteSet(2 .. i + 1) /\ \A j \in 2 .. i + 1 : moves[j] \in Nat
      BY <2>1, FS_Interval
    <3>3. SumOver(moves, 2 .. i + 1) \in Nat
      BY <3>2, SumNat
    <3>4. QED
      BY <2>1, <3>1, <3>3
  <2>5. CASE i + 1 > period + 1
    <3>1. avg[i + 1] = WilderStep(avg[i], moves[i + 1], period)
      BY <2>1, <2>2, <2>5
    <3>2. /\ avg[i][1] \in Nat /\ avg[i][2] \in Nat \ {0} /\ moves[i + 1] \in Nat
          /\ period - 1 \in Nat
      BY <1>4, <2>1, <2>5
    <3>3. PICK a, b, m : a = avg[i][1] /\ b = avg[i][2] /\ m = moves[i + 1]
      OBVIOUS
    <3>4. a * (period - 1) \in Nat /\ m * b \in Nat /\ b * period \in Nat \ {0}
      BY <3>2, <3>3, Products
    <3>5. avg[i + 1] = <<a * (period - 1) + m * b, b * period>>
      BY <3>1, <3>3 DEF WilderStep
    <3>6. QED
      BY <2>1, <3>4, <3>5
  <2>6. QED
    BY <2>1, <2>3, <2>4, <2>5
<1> HIDE DEF S
<1>5. 0 .. n \subseteq S
  BY <1>3, <1>4, Upward
<1>6. \A i \in 1 .. n : avg[i][1] \in Nat /\ avg[i][2] \in Nat \ {0}
  BY <1>5 DEF S
<1>7. QED
  BY <1>1, <1>6

LEMMA MovesType ==
  ASSUME NEW c, PriceSeries(c)
  PROVE  /\ DOMAIN Gains(c) \cup {1} = 1 .. Len(c) /\ DOMAIN Losses(c) \cup {1} = 1 .. Len(c)
         /\ \A i \in 2 .. Len(c) : /\ Gains(c)[i] = Gain(c, i) /\ Losses(c)[i] = Loss(c, i)
                                   /\ Gain(c, i) \in Nat /\ Loss(c, i) \in Nat
<1>1. Len(c) \in Nat \ {0} /\ DOMAIN c = 1 .. Len(c)
  BY DEF PriceSeries
<1>2. /\ DOMAIN Gains(c) \cup {1} = 1 .. Len(c) /\ DOMAIN Losses(c) \cup {1} = 1 .. Len(c)
      /\ \A i \in 2 .. Len(c) : Gains(c)[i] = Gain(c, i) /\ Losses(c)[i] = Loss(c, i)
  BY <1>1 DEF Gains, Losses
<1>3. ASSUME NEW i \in 2 .. Len(c) PROVE Gain(c, i) \in Nat /\ Loss(c, i) \in Nat
  <2>1. i \in 1 .. Len(c) /\ i - 1 \in 1 .. Len(c)
    BY <1>1
  <2>2. c[i] \in Nat /\ c[i - 1] \in Nat
    BY <2>1 DEF PriceSeries
  <2>3. QED
    BY <2>2 DEF Gain, Loss
<1>4. QED
  BY <1>2, <1>3

LEMMA RSIType ==
  ASSUME NEW c, PriceSeries(c), NEW period \in Nat \ {0}
  PROVE  \A i \in 1 .. Len(c) : /\ computeRSI(c, period)[i][1] \in Nat
                                /\ computeRSI(c, period)[i][2] \in Nat \ {0}
                                /\ i <= period => computeRSI(c, period)[i] = Zero
<1>1. PICK n : n = Len(c)
  OBVIOUS
<1>2. PICK x, y : x = Gains(c) /\ y = Losses(c)
  OBVIOUS
<1>3. n \in Nat /\ DOMAIN c = 1 .. n
  BY <1>1 DEF PriceSeries
<1>4. DOMAIN x \cup {1} = 1 .. n /\ DOMAIN y \cup {1} = 1 .. n
  BY <1>1, <1>2, MovesType
<1>5. \A i \in 2 .. n : x[i] \in Nat /\ y[i] \in Nat
  BY <1>1, <1>2, MovesType
<1>6. \A i \in 1 .. n : Wilder(x, period)[i][1] \in Nat /\ Wilder(x, period)[i][2] \in Nat \ {0}
  BY <1>3, <1>4, <1>5, WilderType
<1>7. \A i \in 1 .. n : Wilder(y, period)[i][1] \in Nat /\ Wilder(y, period)[i][2] \in Nat \ {0}
  BY <1>3, <1>4, <1>5, WilderType
<1>8. ASSUME NEW i \in 1 .. n
      PROVE  /\ computeRSI(c, period)[i][1] \in Nat /\ computeRSI(c, period)[i][2] \in Nat \ {0}
             /\ i <= period => computeRSI(c, period)[i] = Zero
  <2>1. computeRSI(c, period)[i]
          = IF i <= period THEN Zero ELSE toRSI(Wilder(x, period)[i], Wilder(y, period)[i])
    BY <1>2, <1>3 DEF computeRSI
  <2>2. PICK g, l : g = Wilder(x, period)[i] /\ l = Wilder(y, period)[i]
    OBVIOUS
  <2>3. g[1] \in Nat /\ l[1] \in Nat
    BY <1>6, <1>7, <2>2
  <2>4. toRSI(g, l)[1] \in Nat /\ toRSI(g, l)[2] \in Nat \ {0}
    BY <2>3 DEF toRSI
  <2>5. Zero[1] \in Nat /\ Zero[2] \in Nat \ {0}
    BY DEF Zero
  <2>6. QED
    BY <2>1, <2>2, <2>4, <2>5
<1>9. QED
  BY <1>1, <1>8

\* A price below the lower band makes that band positive.
LEMMA Below ==
  ASSUME NEW mid \in Nat \ {0}, NEW spread \in Int, NEW scaled \in Nat \ {0}, scaled < mid,
         Squared(mid - scaled) > spread
  PROVE  Squared(mid) > spread
<1>1. PICK w : w = mid - scaled
  OBVIOUS
<1>2. w \in Nat \ {0} /\ w < mid
  BY <1>1
<1>3. w * w < mid * mid
  <2>1. \A a, b \in Nat \ {0} : a < b => a * a < b * b
    OBVIOUS
  <2>2. QED
    BY <1>2, <2>1
<1>4. w * w \in Int /\ mid * mid \in Int /\ w * w > spread
  BY <1>1, <1>2 DEF Squared
<1>5. QED
  BY <1>3, <1>4 DEF Squared

LEMMA BandType ==
  ASSUME NEW c, PriceSeries(c), NEW period \in Nat \ {0}, NEW stdDevs \in Nat,
         NEW i \in period .. Len(c)
  PROVE  /\ computeBollinger(c, period, stdDevs)[i].mid \in Nat \ {0}
         /\ computeBollinger(c, period, stdDevs)[i].spread \in Int
<1> DEFINE bars == i - period + 1 .. i
           sum == SumOver(c, bars)
           d2 == [j \in bars |-> Squared(period * c[j] - sum)]
<1>1. Len(c) \in Nat /\ i \in DOMAIN c /\ ~(i < period)
  BY DEF PriceSeries
<1>2. computeBollinger(c, period, stdDevs)[i]
        = [mid |-> sum, spread |-> Squared(stdDevs) * (SumFunction(d2) \div period)]
  BY <1>1 DEF computeBollinger, BarsUpTo
<1>3. IsFiniteSet(bars)
  BY <1>1, FS_Interval
<1>4. bars # {} /\ \A j \in bars : j \in 1 .. Len(c)
  <2>1. i \in bars
    BY <1>1
  <2>2. QED
    BY <1>1, <2>1
<1>5. \A j \in bars : c[j] \in Nat \ {0}
  BY <1>4 DEF PriceSeries
<1> HIDE DEF bars
<1>6. sum \in Nat \ {0}
  BY <1>3, <1>4, <1>5, SumPositive
<1> HIDE DEF sum
<1>7. \A j \in bars : d2[j] \in Int
  BY <1>5, <1>6 DEF Squared
<1>8. SumOver(d2, bars) = SumFunction(d2)
  <2>1. d2 = [j \in bars |-> d2[j]]
    OBVIOUS
  <2> HIDE DEF d2
  <2>2. QED
    BY <2>1 DEF SumOver
<1> HIDE DEF d2
<1>9. SumFunction(d2) \in Int
  BY <1>3, <1>7, <1>8, SumType
<1>10. Squared(stdDevs) * (SumFunction(d2) \div period) \in Int
  BY <1>9 DEF Squared
<1>11. QED
  BY <1>2, <1>6, <1>10

(***************************************************************************)
(* The programs of the page and the strategies of the code.                *)
(***************************************************************************)
LEMMA BreakoutsEqual ==
  ASSUME NEW c, Len(c) \in Nat
  PROVE  harness("breakout", c) = runBreakout(c)
<1> DEFINE bars == Lookback + 1 .. Len(c)
           buys == {i \in bars : BreaksOut(c, i)}
           sells == [entry \in 1 .. Len(c) |-> {i \in bars : HeldLong(i, entry)}]
           sellsToo == [entry \in 1 .. Len(c) |-> {i \in bars : i - entry >= HoldBars}]
<1>1. runBreakout(c) = Trade(Len(c), buys, sells)
  BY DEF runBreakout
<1>2. harness("breakout", c) = Trade(Len(c), buys, sellsToo)
  BY DEF harness
<1>3. \A i \in bars : i \in Int
  BY Parameters
<1>4. \A entry \in 1 .. Len(c) : \A i \in bars : HeldLong(i, entry) <=> i - entry >= HoldBars
  BY <1>3, Parameters DEF HeldLong
<1> HIDE DEF bars
<1>5. sells = sellsToo
  BY <1>4
<1>6. QED
  BY <1>1, <1>2, <1>5

\* Of two fractions that differ one is less.
LEMMA Differ ==
  ASSUME NEW a, NEW b, a[1] \in Int, a[2] \in Int, b[1] \in Int, b[2] \in Int
  PROVE  /\ ~Equal(a, b) <=> Less(a, b) \/ Less(b, a)
         /\ ~(Less(a, b) /\ Less(b, a))
<1>1. PICK p, q : p = a[1] * b[2] /\ q = b[1] * a[2]
  OBVIOUS
<1>2. p \in Int /\ q \in Int
  BY <1>1
<1>3. (Equal(a, b) <=> p = q) /\ (Less(a, b) <=> p < q) /\ (Less(b, a) <=> q < p)
  BY <1>1 DEF Equal, Less
<1>4. QED
  BY <1>2, <1>3

LEMMA SMAType ==
  ASSUME NEW c, PriceSeries(c), NEW period \in Nat \ {0}, NEW i \in 1 .. Len(c)
  PROVE  barSMA(c, i, period)[1] \in Int /\ barSMA(c, i, period)[2] \in Int
<1>1. CASE i < period
  BY <1>1 DEF barSMA, Zero
<1>2. CASE ~(i < period)
  <2>1. Len(c) \in Nat /\ \A j \in i - period + 1 .. i : j \in 1 .. Len(c)
    BY <1>2 DEF PriceSeries
  <2>2. \A j \in i - period + 1 .. i : c[j] \in Int
    BY <2>1 DEF PriceSeries
  <2>3. IsFiniteSet(i - period + 1 .. i)
    BY FS_Interval
  <2>4. SumOver(c, i - period + 1 .. i) \in Int
    BY <2>2, <2>3, SumType
  <2>5. QED
    BY <1>2, <2>4 DEF barSMA
<1>3. QED
  BY <1>1, <1>2

\* Once a crossover has traded, it holds what is above at the last bar.
LEMMA CrossoverHolds ==
  ASSUME NEW c, PriceSeries(c), NEW useEMA
  PROVE  runCrossover(c, useEMA) # <<>>
           => /\ Len(c) >= Slow + 2
              /\ Held(runCrossover(c, useEMA))
                   <=> Less(Averages(c, Slow, useEMA)[Len(c)], Averages(c, Fast, useEMA)[Len(c)])
<1> DEFINE Above(i) == Less(Averages(c, Slow, useEMA)[i], Averages(c, Fast, useEMA)[i])
           above == {i \in Nat : Above(i)}
           first == {i \in Nat : i >= Slow + 2}
           buys == {i \in Slow + 2 .. Len(c) : ~Above(i - 1) /\ Above(i)}
           sells == {i \in Slow + 2 .. Len(c) : Above(i - 1) /\ ~Above(i)}
<1>1. PICK n : n = Len(c)
  OBVIOUS
<1>2. n \in Nat \ {0} /\ Slow \in Nat \ {0}
  BY <1>1, Parameters DEF PriceSeries
<1>3. PICK events : events = runCrossover(c, useEMA)
  OBVIOUS
<1>4. events = TradeSignals(n, buys, sells)
  BY <1>1, <1>3 DEF runCrossover
<1>5. (n \in above <=> Above(n)) /\ \A i \in Nat : i \in above <=> Above(i)
  BY <1>2
<1>6. \A i \in buys : i \in Slow + 2 .. n
  BY <1>1
<1> HIDE DEF Above
<1>7. \A i \in 0 .. n - 1 : i \in first => i + 1 \in first
  BY <1>2
<1>8. \A i \in 0 .. n - 1 :
        /\ i + 1 - 1 = i /\ i \in Nat /\ i + 1 \in Nat
        /\ i + 1 \in first <=> i + 1 \in Slow + 2 .. Len(c)
  BY <1>1, <1>2
<1>9. \A i \in 0 .. n - 1 :
        i + 1 \in buys <=> i + 1 \in first /\ i \notin above /\ i + 1 \in above
  BY <1>5, <1>8
<1>10. \A i \in 0 .. n - 1 :
         i + 1 \in sells <=> i + 1 \in first /\ i \in above /\ i + 1 \notin above
  BY <1>5, <1>8
<1> HIDE DEF above, first, buys, sells
<1>11. n \in Nat
  BY <1>2
<1>12. events # <<>> => (Held(events) <=> n \in above)
  BY <1>4, <1>7, <1>9, <1>10, <1>11, Follows
<1>13. n < Slow + 2 => events = <<>>
  <2>1. n < Slow + 2 => \A i \in 1 .. n : i \notin buys
    BY <1>2, <1>6
  <2>2. QED
    BY <1>4, <1>11, <2>1, NoTrades
<1>14. events # <<>> => n >= Slow + 2 /\ (Held(events) <=> Above(n))
  BY <1>2, <1>5, <1>12, <1>13
<1>15. QED
  BY <1>1, <1>3, <1>14 DEF Above

\* A program that buys whenever the fast average is above holds what is above at the last
\* bar, if they differ there.
LEMMA CrossesHold ==
  ASSUME NEW n \in Nat \ {0}, NEW first \in Nat, first <= n, NEW fast, NEW slow,
         fast[n][1] \in Int, fast[n][2] \in Int, slow[n][1] \in Int, slow[n][2] \in Int,
         ~Equal(fast[n], slow[n])
  PROVE  Held(Crosses(first, n, fast, slow)) <=> Less(slow[n], fast[n])
<1> DEFINE buys == {i \in first .. n : Less(slow[i], fast[i])}
           sells == {i \in first .. n : Less(fast[i], slow[i])}
<1>1. Crosses(first, n, fast, slow) = TradeSignals(n, buys, sells)
  BY DEF Crosses
<1>2. (n \in buys <=> Less(slow[n], fast[n])) /\ (n \in sells <=> Less(fast[n], slow[n]))
  OBVIOUS
<1>3. n \in buys <=> n \notin sells
  <2>1. Less(fast[n], slow[n]) \/ Less(slow[n], fast[n])
    BY Differ
  <2>2. ~(Less(fast[n], slow[n]) /\ Less(slow[n], fast[n]))
    BY Differ
  <2>3. QED
    BY <1>2, <2>1, <2>2
<1> HIDE DEF buys, sells
<1>4. n \in Nat /\ n \in 1 .. n /\ \A j \in n .. n : j = n
  OBVIOUS
<1>5. n \in buys => Held(TradeSignals(n, buys, sells))
  <2>1. n \in buys => \A j \in n .. n : j \notin sells
    BY <1>3, <1>4
  <2>2. QED
    BY <1>4, <2>1, HeldFrom
<1>6. n \in sells => ~Held(TradeSignals(n, buys, sells))
  <2>1. n \in sells => \A j \in n .. n : j \notin buys
    BY <1>3, <1>4
  <2>2. QED
    BY <1>4, <2>1, FlatFrom
<1>7. QED
  BY <1>1, <1>2, <1>3, <1>5, <1>6

LEMMA CrossoversAgree ==
  ASSUME NEW c, PriceSeries(c), NEW code \in {"custom", "sma_crossover"},
         runCrossover(c, FALSE) # <<>>,
         ~Equal(barSMA(c, Len(c), Fast), barSMA(c, Len(c), Slow))
  PROVE  Held(harness(code, c)) <=> Held(runCrossover(c, FALSE))
<1>1. PICK n : n = Len(c)
  OBVIOUS
<1>2. n \in Nat \ {0} /\ n \in 1 .. n /\ DOMAIN c = 1 .. n
  BY <1>1 DEF PriceSeries
<1>3. PICK fast, slow : fast = Averages(c, Fast, FALSE) /\ slow = Averages(c, Slow, FALSE)
  OBVIOUS
<1>4. fast[n] = barSMA(c, n, Fast) /\ slow[n] = barSMA(c, n, Slow)
  BY <1>2, <1>3 DEF Averages
<1>5. /\ fast[n][1] \in Int /\ fast[n][2] \in Int /\ slow[n][1] \in Int /\ slow[n][2] \in Int
  BY <1>1, <1>2, <1>4, SMAType, Parameters
<1>6. ~Equal(fast[n], slow[n])
  BY <1>1, <1>4
<1>7. n >= Slow + 2 /\ (Held(runCrossover(c, FALSE)) <=> Less(slow[n], fast[n]))
  <2>1. \A u : runCrossover(c, u) # <<>>
                 => /\ Len(c) >= Slow + 2
                    /\ Held(runCrossover(c, u))
                         <=> Less(Averages(c, Slow, u)[Len(c)], Averages(c, Fast, u)[Len(c)])
    BY CrossoverHolds
  <2>2. runCrossover(c, FALSE) # <<>>
          => /\ Len(c) >= Slow + 2
             /\ Held(runCrossover(c, FALSE))
                  <=> Less(Averages(c, Slow, FALSE)[Len(c)], Averages(c, Fast, FALSE)[Len(c)])
    BY <2>1, Zenon
  <2>3. QED
    BY <1>1, <1>3, <2>2
<1>8. PICK first \in {Slow, Slow + 1} : harness(code, c) = Crosses(first, n, fast, slow)
  BY <1>1, <1>3 DEF harness
<1>9. first \in Nat /\ first <= n
  BY <1>2, <1>7, Parameters
<1>10. Held(Crosses(first, n, fast, slow)) <=> Less(slow[n], fast[n])
  BY <1>2, <1>5, <1>6, <1>9, CrossesHold
<1>11. QED
  BY <1>7, <1>8, <1>10

\* Where an RSI is and on which side of the limits.
LEMMA Limits ==
  ASSUME NEW c, PriceSeries(c), NEW i \in 1 .. Len(c), NEW rsi, rsi = computeRSI(c, Period)[i]
  PROVE  /\ ~(Less(rsi, <<Oversold, 1>>) /\ Less(<<Overbought, 1>>, rsi))
         /\ Equal(rsi, Zero) => ~Less(<<Overbought, 1>>, rsi)
         /\ i <= Period => Equal(rsi, Zero)
<1>1. PICK a, b : a = rsi[1] /\ b = rsi[2]
  OBVIOUS
<1>2. Period \in Nat \ {0}
  BY Parameters
<1>3. a \in Nat /\ b \in Nat \ {0} /\ (i <= Period => rsi = Zero)
  BY <1>1, <1>2, RSIType
<1>4. Oversold \in Nat /\ Overbought \in Nat /\ Oversold <= Overbought
  <2>1. Oversold \in 0 .. 100 /\ Overbought \in 0 .. 100 /\ Oversold <= Overbought
    BY BacktestAssumption
  <2>2. QED
    BY <2>1
<1>5. Oversold * b <= Overbought * b /\ Oversold * b \in Nat /\ Overbought * b \in Nat
  BY <1>3, <1>4
<1>6. Less(rsi, <<Oversold, 1>>) <=> a < Oversold * b
  BY <1>1, <1>3 DEF Less
<1>7. Less(<<Overbought, 1>>, rsi) <=> Overbought * b < a
  BY <1>1, <1>3 DEF Less
<1>8. Equal(rsi, Zero) <=> a = 0
  BY <1>1, <1>3 DEF Equal, Zero
<1>9. i <= Period => Equal(rsi, Zero)
  BY <1>3 DEF Equal, Zero
<1>10. QED
  BY <1>3, <1>5, <1>6, <1>7, <1>8, <1>9

LEMMA ReversionsAgree ==
  ASSUME NEW c, PriceSeries(c), NEW n, n = Len(c), n >= Period + 2,
         NEW rsi, rsi = computeRSI(c, Period)[n], ~Equal(rsi, Zero),
         Less(rsi, <<Oversold, 1>>) \/ Less(<<Overbought, 1>>, rsi)
  PROVE  Held(harness("rsi_mean_reversion", c)) <=> Held(runRSI(c))
<1> DEFINE valued == Period + 2 .. Len(c)
           Value(i) == computeRSI(c, Period)[i]
           buys == {i \in valued : ~Equal(Value(i), Zero) /\ Less(Value(i), <<Oversold, 1>>)}
           buysToo == {i \in valued : Less(Value(i), <<Oversold, 1>>)}
           sells == {i \in valued : Less(<<Overbought, 1>>, Value(i))}
<1>1. n \in Nat \ {0} /\ n \in 1 .. n /\ n \in valued
  BY Parameters DEF PriceSeries
<1>2. runRSI(c) = TradeSignals(n, buys, sells)
  BY DEF runRSI
<1>3. harness("rsi_mean_reversion", c) = TradeSignals(n, buysToo, sells)
  BY DEF harness
<1>4. /\ n \in buys <=> Less(rsi, <<Oversold, 1>>)
      /\ n \in buysToo <=> Less(rsi, <<Oversold, 1>>)
      /\ n \in sells <=> Less(<<Overbought, 1>>, rsi)
  BY <1>1
<1>5. ~(Less(rsi, <<Oversold, 1>>) /\ Less(<<Overbought, 1>>, rsi))
  BY <1>1, Limits
<1> HIDE DEF buys, buysToo, sells
<1>6. n \in Nat /\ \A j \in n .. n : j = n
  BY <1>1
<1>7. CASE n \in sells
  <2>1. \A j \in n .. n : j \notin buys /\ j \notin buysToo
    BY <1>4, <1>5, <1>6, <1>7
  <2>2. ~Held(TradeSignals(n, buys, sells))
    BY <1>1, <1>6, <1>7, <2>1, FlatFrom
  <2>3. ~Held(TradeSignals(n, buysToo, sells))
    BY <1>1, <1>6, <1>7, <2>1, FlatFrom
  <2>4. QED
    BY <1>2, <1>3, <2>2, <2>3
<1>8. CASE n \notin sells
  <2>1. n \in buys /\ n \in buysToo /\ \A j \in n .. n : j \notin sells
    BY <1>4, <1>6, <1>8
  <2>2. Held(TradeSignals(n, buys, sells))
    BY <1>1, <1>6, <2>1, HeldFrom
  <2>3. Held(TradeSignals(n, buysToo, sells))
    BY <1>1, <1>6, <2>1, HeldFrom
  <2>4. QED
    BY <1>2, <1>3, <2>2, <2>3
<1>9. QED
  BY <1>7, <1>8

\* A bar before the first one that buys has no use for what it sells.
LEMMA TradeSame ==
  ASSUME NEW n \in Nat, NEW buys, NEW buys2, NEW sells, NEW sells2,
         \A i \in 1 .. n : i \in buys <=> i \in buys2,
         \A i \in 1 .. n : \A j \in 1 .. i - 1 :
           j \in buys => (i \in sells <=> i \in sells2)
  PROVE  TradeSignals(n, buys, sells) = TradeSignals(n, buys2, sells2)
<1> DEFINE all == [entry \in 1 .. n |-> sells]
           all2 == [entry \in 1 .. n |-> sells2]
<1>1. PICK e : Loop(e, n, buys, all) /\ Trade(n, buys, all) = e[n]
  BY LoopExists
<1>2. PICK f : Loop(f, n, buys2, all2) /\ Trade(n, buys2, all2) = f[n]
  BY LoopExists
<1>3. \A entry \in 1 .. n : all[entry] = sells /\ all2[entry] = sells2
  OBVIOUS
<1>4. /\ TradeSignals(n, buys, sells) = Trade(n, buys, all)
      /\ TradeSignals(n, buys2, sells2) = Trade(n, buys2, all2)
  BY DEF TradeSignals
<1> HIDE DEF all, all2
<1> DEFINE S == {i \in Nat : e[i] = f[i]}
<1>5. 0 \in S
  BY <1>1, <1>2, LoopTurns
<1>6. ASSUME NEW i \in 0 .. n - 1, i \in S PROVE i + 1 \in S
  <2>1. i \in Nat /\ i + 1 \in 1 .. n /\ i + 1 - 1 = i /\ i \in 0 .. n
    OBVIOUS
  <2>2. e[i + 1] = Turn(e[i], i + 1, buys, all)
    BY <1>1, <2>1, LoopTurns
  <2>3. f[i + 1] = Turn(f[i], i + 1, buys2, all2)
    BY <1>2, <2>1, LoopTurns
  <2>4. PICK before : before = e[i] /\ before = f[i]
    BY <1>6
  <2>5. Bounded(before, i) /\ TakesTurns(before, buys, all)
    BY <1>1, <2>1, <2>4, LoopBounded, LoopTakesTurns
  <2>6. Turn(before, i + 1, buys, all) = Turn(before, i + 1, buys2, all2)
    <3>1. i + 1 \in buys <=> i + 1 \in buys2
      BY <2>1
    <3>2. CASE Held(before)
      <4>1. before \in Seq(TradeRec) /\ before # <<>> /\ Last(before).kind = "buy"
        BY <2>5, <3>2 DEF Bounded, Held
      <4>2. Last(before).bar \in buys
        BY <2>5, <4>1, LastTrade
      <4>3. Last(before).bar \in 1 .. i
        BY <2>1, <2>5, <3>2, HeldSince
      <4>4. i + 1 \in sells <=> i + 1 \in sells2
        BY <2>1, <4>2, <4>3
      <4>5. all[Last(before).bar] = sells /\ all2[Last(before).bar] = sells2
        BY <1>3, <2>1, <4>3
      <4>6. QED
        BY <3>1, <4>4, <4>5 DEF Turn, AfterBar
    <3>3. CASE ~Held(before)
      BY <3>1, <3>3 DEF Turn, AfterBar
    <3>4. QED
      BY <3>2, <3>3
  <2>7. QED
    BY <2>1, <2>2, <2>3, <2>4, <2>6
<1> HIDE DEF S
<1>7. 0 .. n \subseteq S
  BY <1>5, <1>6, Upward
<1>8. n \in S
  BY <1>7
<1>9. QED
  BY <1>1, <1>2, <1>4, <1>8 DEF S

\* The first bar that buys is the first trade.
LEMMA FirstTrade ==
  ASSUME NEW n \in Nat, NEW buys, NEW sells, NEW v \in 1 .. n, v \in buys, v \notin sells
  PROVE  /\ TradeSignals(n, buys, sells) # <<>>
         /\ TradeSignals(n, buys, sells)[1].bar \in 1 .. v
<1>1. PICK events : events = TradeSignals(n, buys, sells)
  OBVIOUS
<1>2. PICK short : short = TradeSignals(v, buys, sells)
  OBVIOUS
<1>3. v \in Nat /\ v \in 1 .. v /\ v <= n /\ \A j \in v .. v : j = v
  OBVIOUS
<1>4. Held(short)
  BY <1>2, <1>3, HeldFrom
<1>5. Bounded(short, v) /\ Bounded(events, n)
  BY <1>1, <1>2, <1>3, SignalsBounded
<1>6. 1 \in 1 .. Len(short)
  <2>1. short # <<>> /\ short \in Seq(TradeRec)
    BY <1>4, <1>5 DEF Held, Bounded
  <2>2. Len(short) \in Nat \ {0}
    BY <2>1, EmptySeq
  <2>3. QED
    BY <2>2
<1>7. short[1].bar \in 1 .. v
  BY <1>5, <1>6 DEF Bounded
<1>8. AgreeUpTo(v, short, events)
  BY <1>1, <1>2, <1>3, SignalsAgree
<1>9. 1 \in 1 .. Len(events) /\ events[1] = short[1]
  BY <1>3, <1>6, <1>7, <1>8 DEF AgreeUpTo
<1>10. events # <<>>
  BY <1>9, EmptySeq
<1>11. QED
  BY <1>1, <1>7, <1>9, <1>10

LEMMA BandsAgree ==
  ASSUME NEW c, PriceSeries(c), NEW n, n = Len(c),
         NEW band, band = computeBollinger(c, BandPeriod, StdDevs),
         NEW python, python = harness("bollinger_bands", c),
         python # <<>> => python[1].bar > BandPeriod,
         \A i \in BandPeriod + 1 .. n : ~LowerIsZero(band[i])
  PROVE  python = runBollinger(c)
<1> DEFINE bars == {i \in BandPeriod + 1 .. n : ~LowerIsZero(band[i])}
           banded == BandPeriod .. n
           Low(i) == BelowLower(c[i], band[i], BandPeriod)
           High(i) == AboveMiddle(c[i], band[i], BandPeriod)
           buys == {i \in bars : Low(i)}
           sells == {i \in bars : High(i)}
           buysToo == {i \in banded : Low(i)}
           sellsToo == {i \in banded : High(i)}
<1>1. n \in Nat /\ BandPeriod \in Nat \ {0}
  BY Parameters DEF PriceSeries
<1>2. runBollinger(c) = TradeSignals(n, buys, sells)
  BY DEF runBollinger
<1>3. python = TradeSignals(n, buysToo, sellsToo)
  BY DEF harness
<1>4. \A i \in BandPeriod .. n : Low(i) => ~High(i)
  <2> TAKE i \in BandPeriod .. n
  <2>1. StdDevs \in Nat
    BY BacktestAssumption
  <2>2. PICK mid, scaled : mid = band[i].mid /\ scaled = BandPeriod * c[i]
    OBVIOUS
  <2>3. mid \in Nat
    BY <1>1, <2>1, <2>2, BandType
  <2>4. scaled \in Nat
    <3>1. i \in 1 .. n
      BY <1>1
    <3>2. c[i] \in Nat
      BY <3>1 DEF PriceSeries
    <3>3. QED
      BY <1>1, <2>2, <3>2
  <2>5. (Low(i) => scaled < mid) /\ (High(i) <=> scaled > mid)
    BY <2>2 DEF BelowLower, AboveMiddle
  <2>6. QED
    BY <2>3, <2>4, <2>5
<1>5. \A i \in 1 .. n : i # BandPeriod => /\ i \in buys <=> i \in buysToo
                                          /\ i \in sells <=> i \in sellsToo
  BY <1>1
<1>6. BandPeriod \notin buys /\ \A i \in buys : i \in BandPeriod + 1 .. n
  BY <1>1
<1>7. BandPeriod \in buysToo
        => BandPeriod \in 1 .. n /\ BandPeriod \in BandPeriod .. n /\ Low(BandPeriod)
  BY <1>1
<1>8. BandPeriod \in sellsToo => High(BandPeriod)
  OBVIOUS
<1> HIDE DEF Low, High, buys, sells, buysToo, sellsToo
<1>9. BandPeriod \notin buysToo
  <2> SUFFICES ASSUME BandPeriod \in buysToo PROVE FALSE
    OBVIOUS
  <2>1. BandPeriod \in 1 .. n /\ BandPeriod \notin sellsToo
    BY <1>4, <1>7, <1>8
  <2>2. python # <<>> /\ python[1].bar \in 1 .. BandPeriod
    BY <1>1, <1>3, <2>1, FirstTrade
  <2>3. QED
    BY <1>1, <2>2
<1>10. \A i \in 1 .. n : i \in buysToo <=> i \in buys
  BY <1>5, <1>6, <1>9
<1>11. \A i \in 1 .. n : \A j \in 1 .. i - 1 :
         j \in buysToo => (i \in sellsToo <=> i \in sells)
  <2> TAKE i \in 1 .. n
  <2> TAKE j \in 1 .. i - 1
  <2>1. j \in 1 .. n
    BY <1>1
  <2>2. j \in buysToo => i # BandPeriod
    BY <1>1, <1>6, <1>10, <2>1
  <2>3. QED
    BY <1>5, <2>2
<1>12. TradeSignals(n, buysToo, sellsToo) = TradeSignals(n, buys, sells)
  BY <1>1, <1>10, <1>11, TradeSame
<1>13. QED
  BY <1>2, <1>3, <1>12
=============================================================================
