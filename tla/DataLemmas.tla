----------------------------- MODULE DataLemmas -----------------------------
(***************************************************************************)
(* Lemmas about the data that the models share: natural numbers, places in *)
(* a list, sequences that grow, and the sum of a function over a finite    *)
(* set.                                                                    *)
(*                                                                         *)
(* MapThenSumSet sums by taking out an element at a time, through a        *)
(* function that it defines by recursion over the subsets of the set       *)
(* (TotalTable).  What such a function returns is shown for every finite   *)
(* set by least counterexample: the sizes of the sets for which it fails   *)
(* have a least one (LeastNat), and a set of that size fails because a     *)
(* smaller one does.                                                       *)
(***************************************************************************)
EXTENDS Integers, Sequences, FiniteSetsExt, FiniteSetTheorems, NaturalsInduction, WellFoundedInduction, TLAPS

\* The natural numbers below each other.
NatLess == {ss \in Nat \X Nat : ss[1] < ss[2]}

\* The sum of w over S.
Total(w, S) == MapThenSumSet(LAMBDA x : w[x], S)

\* g holds the sums of w over the subsets of S.
TotalTable(w, S, g) ==
    g = [s \in SUBSET S |-> IF s = {} THEN 0
                            ELSE w[CHOOSE x \in s : TRUE] + g[s \ {CHOOSE x \in s : TRUE}]]

\* A set of natural numbers that is not empty has a least element.
LEMMA LeastNat ==
    ASSUME NEW S, S \subseteq Nat, S # {}
    PROVE  \E e \in S : \A f \in S : e <= f
  <1>1. IsWellFoundedOn(NatLess, Nat)
    BY NatLessThanWellFounded DEF OpToRel, NatLess
  <1>2. PICK x \in S : \A y \in S : ~ (<<y, x>> \in NatLess)
    BY <1>1, WFMin
  <1>3. ASSUME NEW y \in S PROVE x <= y
    <2>1. y < x => <<y, x>> \in NatLess
      BY DEF NatLess
    <2> QED
      BY <1>2, <2>1
  <1> QED
    BY <1>3

\* The larger elements of a finite set of numbers are finitely many.
LEMMA PlaceFinite ==
    ASSUME NEW n \in Nat, NEW R, R \subseteq 1 .. n, NEW p
    PROVE  /\ IsFiniteSet(R) /\ Cardinality(R) \in Nat
           /\ IsFiniteSet({q \in R : q >= p}) /\ Cardinality({q \in R : q >= p}) \in Nat
           /\ Cardinality({q \in R : q >= p}) <= Cardinality(R)
           /\ p \in R => Cardinality({q \in R : q >= p}) > 0
  <1> DEFINE F == {q \in R : q >= p}
  <1>1. IsFiniteSet(1 .. n) /\ F \subseteq R
    BY FS_Interval
  <1>2. IsFiniteSet(R) /\ Cardinality(R) \in Nat
    BY <1>1, FS_Subset, FS_CardinalityType
  <1>3. IsFiniteSet(F) /\ Cardinality(F) \in Nat /\ Cardinality(F) <= Cardinality(R)
    BY <1>1, <1>2, FS_Subset, FS_CardinalityType
  <1>4. p \in R => Cardinality(F) > 0
    <2>1. p \in R => p \in F
      OBVIOUS
    <2>2. Cardinality(F) = 0 <=> F = {}
      BY <1>3, FS_EmptySet
    <2> QED
      BY <1>3, <2>1, <2>2
  <1> QED
    BY <1>2, <1>3, <1>4

\* More elements move an element further down, never up.
LEMMA PlaceGrows ==
    ASSUME NEW n \in Nat, NEW R, NEW T, R \subseteq T, T \subseteq 1 .. n, NEW p
    PROVE  Cardinality({q \in R : q >= p}) <= Cardinality({q \in T : q >= p})
  <1>1. {q \in R : q >= p} \subseteq {q \in T : q >= p}
    OBVIOUS
  <1>2. IsFiniteSet({q \in T : q >= p})
    BY PlaceFinite
  <1> QED
    BY <1>1, <1>2, FS_Subset

\* ord orders the elements of H.
Orders(ord, H) ==
    /\ \A a, b \in H : <<a, b>> \in ord \/ <<b, a>> \in ord
    /\ \A a, b \in H : <<a, b>> \in ord /\ <<b, a>> \in ord => a = b
    /\ \A a, b, c \in H : <<a, b>> \in ord /\ <<b, c>> \in ord => <<a, c>> \in ord

\* Those with at most n elements at or before them.
FirstOf(H, ord, n) == {e \in H : Cardinality({h \in H : <<h, e>> \in ord}) <= n}

\* The first n of a finite set are all of it, or n; they have a last one; and what is before
\* one of them is one.
LEMMA FirstPlaces ==
    ASSUME NEW H, IsFiniteSet(H), NEW ord, Orders(ord, H), NEW n \in Nat, NEW F, F = FirstOf(H, ord, n)
    PROVE  /\ Cardinality(F) # n => F = H
           /\ F # {} => \E m \in F : \A x \in F : <<x, m>> \in ord
           /\ \A x \in F, h \in H : <<h, x>> \in ord => h \in F
  <1>u. PICK up : up = [e \in H |-> {h \in H : <<h, e>> \in ord}]
    OBVIOUS
  <1>p. PICK place : place = [e \in H |-> Cardinality(up[e])]
    OBVIOUS
  <1>0. \A e \in H : up[e] = {h \in H : <<h, e>> \in ord} /\ place[e] = Cardinality(up[e])
    BY <1>u, <1>p
  <1>1. ASSUME NEW e \in H
        PROVE  /\ IsFiniteSet(up[e]) /\ e \in up[e]
               /\ IsFiniteSet(up[e] \ {e}) /\ Cardinality(up[e] \ {e}) = Cardinality(up[e]) - 1
    <2>0. up[e] = {h \in H : <<h, e>> \in ord}
      BY <1>0
    <2>1. up[e] \subseteq H
      BY <2>0
    <2>2. <<e, e>> \in ord
      BY DEF Orders
    <2>3. e \in up[e]
      BY <2>0, <2>2
    <2>4. IsFiniteSet(up[e])
      BY <2>1, FS_Subset
    <2> QED
      BY <2>3, <2>4, FS_RemoveElement
  <1>n. \A e \in H : place[e] \in Nat
    BY <1>0, <1>1, FS_CardinalityType
  <1>2. ASSUME NEW h \in H, NEW x \in H, <<h, x>> \in ord, h # x PROVE place[h] < place[x]
    <2>1. up[h] \subseteq up[x] \ {x}
      BY <1>0, <1>2, ZenonT(40) DEF Orders
    <2>2. Cardinality(up[h]) <= Cardinality(up[x] \ {x})
      BY <1>1, <2>1, FS_Subset
    <2>3. place[h] = Cardinality(up[h]) /\ place[x] = Cardinality(up[x])
      BY <1>0
    <2>4. Cardinality(up[x] \ {x}) = Cardinality(up[x]) - 1
      BY <1>1
    <2>5. place[h] <= place[x] - 1
      BY <2>2, <2>3, <2>4
    <2>6. place[h] \in Nat /\ place[x] \in Nat
      BY <1>n
    <2> QED
      BY <2>5, <2>6
  <1>3. F \subseteq H /\ \A e \in H : e \in F <=> place[e] <= n
    BY <1>0 DEF FirstOf
  <1>4. IsFiniteSet(F) /\ Cardinality(F) \in Nat
    BY <1>3, FS_Subset, FS_CardinalityType
  <1>5. ASSUME NEW x \in F, NEW h \in H, <<h, x>> \in ord PROVE h \in F
    <2>1. place[h] <= place[x]
      BY <1>n, <1>2, <1>3, <1>5
    <2> QED
      BY <1>n, <1>3, <2>1
  <1>6. ASSUME F # {} PROVE \E m \in F : \A x \in F : <<x, m>> \in ord
    <2> DEFINE Left == {n - place[x] : x \in F}
    <2>1. Left \subseteq Nat /\ Left # {}
      BY <1>n, <1>3, <1>6
    <2>2. PICK k \in Left : \A j \in Left : k <= j
      <3> HIDE DEF Left
      <3> QED
        BY <2>1, LeastNat
    <2>3. PICK m \in F : k = n - place[m]
      OBVIOUS
    <2>4. ASSUME NEW x \in F PROVE <<x, m>> \in ord
      <3>1. n - place[m] <= n - place[x]
        BY <2>2, <2>3
      <3>2. place[x] <= place[m] /\ x \in H /\ m \in H
        BY <1>n, <1>3, <3>1
      <3>3. <<x, m>> \in ord \/ <<m, x>> \in ord
        BY <3>2 DEF Orders
      <3>4. <<m, x>> \in ord /\ m # x => place[m] < place[x]
        BY <1>2, <3>2
      <3>5. place[m] \in Nat /\ place[x] \in Nat
        BY <1>n, <3>2
      <3>6. ~ (place[m] < place[x])
        BY <3>2, <3>5
      <3> QED
        BY <3>3, <3>4, <3>6
    <2> QED
      BY <2>4
  <1>7. ASSUME F # H PROVE Cardinality(F) = n
    <2>1. Cardinality(F) <= n
      <3>1. CASE F = {}
        BY <3>1, FS_EmptySet
      <3>2. CASE F # {}
        <4>1. PICK m \in F : \A x \in F : <<x, m>> \in ord
          BY <1>6, <3>2
        <4>2. F \subseteq up[m] /\ m \in H
          BY <1>0, <1>3, <4>1
        <4>3. Cardinality(F) <= Cardinality(up[m])
          BY <1>1, <4>2, FS_Subset
        <4>4. place[m] = Cardinality(up[m]) /\ place[m] <= n
          BY <1>0, <1>3, <4>2
        <4> QED
          BY <1>n, <1>4, <4>2, <4>3, <4>4
      <3> QED
        BY <3>1, <3>2
    <2> DEFINE Past == {place[x] : x \in H \ F}
    <2>2. Past \subseteq Nat /\ Past # {}
      BY <1>n, <1>3, <1>7
    <2>3. PICK k \in Past : \A j \in Past : k <= j
      <3> HIDE DEF Past
      <3> QED
        BY <2>2, LeastNat
    <2>4. PICK e \in H \ F : k = place[e]
      OBVIOUS
    <2>5. up[e] \ {e} \subseteq F
      <3> SUFFICES ASSUME NEW h \in up[e], h # e, h \notin F PROVE FALSE
        OBVIOUS
      <3>1. h \in H /\ <<h, e>> \in ord
        BY <1>0
      <3>2. place[h] < place[e]
        BY <1>2, <3>1
      <3>3. place[e] <= place[h]
        BY <2>3, <2>4, <3>1
      <3> QED
        BY <1>n, <3>1, <3>2, <3>3
    <2>6. place[e] - 1 <= Cardinality(F)
      <3>1. Cardinality(up[e] \ {e}) <= Cardinality(F)
        BY <1>1, <1>4, <2>5, FS_Subset
      <3>2. Cardinality(up[e] \ {e}) = Cardinality(up[e]) - 1 /\ place[e] = Cardinality(up[e])
        BY <1>0, <1>1
      <3> QED
        BY <3>1, <3>2
    <2>7. place[e] > n
      BY <1>n, <1>3, <2>4
    <2> QED
      BY <1>n, <1>4, <2>1, <2>4, <2>6, <2>7
  <1> QED
    BY <1>5, <1>6, <1>7

\* A sequence that grows keeps its elements.
LEMMA Appended ==
    ASSUME NEW S, NEW s \in Seq(S), NEW x \in S
    PROVE  /\ Append(s, x) \in Seq(S)
           /\ Len(s) \in Nat /\ Len(Append(s, x)) = Len(s) + 1
           /\ DOMAIN s = 1 .. Len(s) /\ DOMAIN Append(s, x) = 1 .. (Len(s) + 1)
           /\ \A i \in 1 .. Len(s) : Append(s, x)[i] = s[i]
           /\ Append(s, x)[Len(s) + 1] = x
  OBVIOUS

-----------------------------------------------------------------------------
(* Sums *)

\* The sum is the last entry of the table that MapThenSumSet chooses.
LEMMA TotalIsTable ==
    ASSUME NEW w, NEW S, NEW g, TotalTable(w, S, g)
    PROVE  \E h : TotalTable(w, S, h) /\ Total(w, S) = h[S]
  <1> DEFINE h == CHOOSE iter : iter = [s \in SUBSET S |-> IF s = {} THEN 0
                            ELSE w[CHOOSE x \in s : TRUE] + iter[s \ {CHOOSE x \in s : TRUE}]]
  <1>1. TotalTable(w, S, h)
    BY Zenon DEF TotalTable
  <1>2. Total(w, S) = h[S]
    BY Zenon DEF Total, MapThenSumSet, MapThenFoldSet
  <1> QED
    BY <1>1, <1>2


\* One entry of a table.
LEMMA TableAt ==
    ASSUME NEW w, NEW S, NEW g, TotalTable(w, S, g), NEW s \in SUBSET S
    PROVE  /\ s = {} => g[s] = 0
           /\ s # {} => \E x \in s : x = (CHOOSE y \in s : TRUE) /\ g[s] = w[x] + g[s \ {x}]
  <1>1. s # {} => (CHOOSE x \in s : TRUE) \in s
    OBVIOUS
  <1> DEFINE body(t, h) == IF t = {} THEN 0
                     ELSE w[CHOOSE x \in t : TRUE] + h[t \ {CHOOSE x \in t : TRUE}]
  <1>2. g = [t \in SUBSET S |-> body(t, g)]
    BY Zenon DEF TotalTable
  <1>3. g[s] = body(s, g)
    <2> HIDE DEF body
    <2> QED
      BY <1>2
  <1> QED
    BY <1>1, <1>3

\* Two tables agree where they and their weights are both defined.
LEMMA TablesAgree ==
    ASSUME NEW w, NEW v, NEW S, NEW T, NEW g, NEW h, TotalTable(w, S, g), TotalTable(v, T, h),
           NEW R, IsFiniteSet(R), R \subseteq S, R \subseteq T, \A x \in R : w[x] = v[x]
    PROVE  g[R] = h[R]
  <1> DEFINE Bad == {s \in SUBSET R : g[s] # h[s]}
             Sizes == {Cardinality(s) : s \in Bad}
  <1> SUFFICES ASSUME g[R] # h[R] PROVE FALSE
    OBVIOUS
  <1>1. \A s \in SUBSET R : IsFiniteSet(s) /\ Cardinality(s) \in Nat
    BY FS_Subset, FS_CardinalityType
  <1>2. Sizes \subseteq Nat /\ Sizes # {}
    BY <1>1
  <1>3. PICK n \in Sizes : \A m \in Sizes : n <= m
    BY <1>2, LeastNat
  <1>4. PICK s \in SUBSET R : g[s] # h[s] /\ n = Cardinality(s)
    BY <1>3
  <1>5. s \in SUBSET S /\ s \in SUBSET T
    BY <1>4
  <1>6. s # {}
    BY <1>4, <1>5, TableAt
  <1>7. PICK x \in s : g[s] = w[x] + g[s \ {x}] /\ h[s] = v[x] + h[s \ {x}]
    <2>1. PICK x \in s : x = (CHOOSE y \in s : TRUE) /\ g[s] = w[x] + g[s \ {x}]
      BY <1>5, <1>6, TableAt
    <2>2. PICK z \in s : z = (CHOOSE y \in s : TRUE) /\ h[s] = v[z] + h[s \ {z}]
      BY <1>5, <1>6, TableAt
    <2>3. x = z
      BY <2>1, <2>2
    <2> QED
      BY <2>1, <2>2, <2>3
  <1>8. Cardinality(s \ {x}) = n - 1 /\ s \ {x} \in SUBSET R
    BY <1>1, <1>4, <1>7, FS_RemoveElement
  <1>9. n \in Nat /\ s \ {x} \notin Bad
    BY <1>2, <1>3, <1>8
  <1>10. g[s \ {x}] = h[s \ {x}] /\ w[x] = v[x]
    BY <1>4, <1>8, <1>9
  <1> QED
    BY <1>4, <1>7, <1>10

\* A finite set has its sums.
LEMMA TableExists ==
    ASSUME NEW S, IsFiniteSet(S), NEW w, \A x \in S : w[x] \in Nat
    PROVE  \E g \in [SUBSET S -> Nat] : TotalTable(w, S, g)
  <1> DEFINE Small(n) == {s \in SUBSET S : Cardinality(s) <= n}
             body(t, h) == IF t = {} THEN 0
                     ELSE w[CHOOSE x \in t : TRUE] + h[t \ {CHOOSE x \in t : TRUE}]
             Good(n) == \E g \in [Small(n) -> Nat] : \A s \in Small(n) : g[s] = body(s, g)
             Bad == {n \in Nat : ~Good(n)}
  <1>1. \A s \in SUBSET S : IsFiniteSet(s) /\ Cardinality(s) \in Nat /\ Cardinality(s) <= Cardinality(S)
    BY FS_Subset, FS_CardinalityType
  <1>2. \A s \in SUBSET S : s # {} => /\ (CHOOSE x \in s : TRUE) \in s
                                      /\ Cardinality(s \ {CHOOSE x \in s : TRUE}) = Cardinality(s) - 1
    <2> SUFFICES ASSUME NEW s \in SUBSET S, s # {}
                 PROVE  /\ (CHOOSE x \in s : TRUE) \in s
                        /\ Cardinality(s \ {CHOOSE x \in s : TRUE}) = Cardinality(s) - 1
      OBVIOUS
    <2>1. PICK x : x = CHOOSE y \in s : TRUE
      OBVIOUS
    <2>2. x \in s
      BY <2>1
    <2>3. Cardinality(s \ {x}) = Cardinality(s) - 1
      BY <1>1, <2>2, FS_RemoveElement
    <2> QED
      BY <2>1, <2>2, <2>3
  <1>3. Good(0)
    <2>1. \A s \in Small(0) : s = {}
      BY <1>1, FS_EmptySet
    <2> DEFINE g == [s \in Small(0) |-> 0]
    <2>2. g \in [Small(0) -> Nat] /\ \A s \in Small(0) : g[s] = body(s, g)
      BY <2>1
    <2> QED
      BY <2>2
  <1>4. ASSUME NEW n \in Nat, Good(n) PROVE Good(n + 1)
    <2>1. PICK g \in [Small(n) -> Nat] : \A s \in Small(n) : g[s] = body(s, g)
      BY <1>4
    <2> DEFINE h == [s \in Small(n + 1) |-> IF Cardinality(s) <= n THEN g[s] ELSE body(s, g)]
    <2>2. ASSUME NEW s \in Small(n + 1), s # {}
          PROVE  \E x \in s : /\ x = (CHOOSE y \in s : TRUE) /\ w[x] \in Nat
                              /\ s \ {x} \in Small(n) /\ s \ {x} \in Small(n + 1)
      <3>1. PICK x : x = CHOOSE y \in s : TRUE
        OBVIOUS
      <3>2. x \in s /\ Cardinality(s \ {x}) = Cardinality(s) - 1
        BY <1>2, <2>2, <3>1
      <3>3. s \ {x} \in SUBSET S /\ x \in S /\ Cardinality(s) \in Nat /\ Cardinality(s) <= n + 1
        BY <1>1, <2>2, <3>2
      <3>4. s \ {x} \in Small(n) /\ s \ {x} \in Small(n + 1)
        BY <3>2, <3>3
      <3> QED
        BY <3>1, <3>2, <3>3, <3>4
    <2>3. ASSUME NEW s \in Small(n + 1)
          PROVE  h[s] \in Nat /\ h[s] = body(s, h)
      <3>1. CASE s = {}
        <4>1. s \in Small(n) /\ g[s] = 0 /\ Cardinality(s) <= n
          BY <1>1, <2>1, <3>1, FS_EmptySet
        <4> QED
          BY <3>1, <4>1
      <3>2. CASE s # {}
        <4>1. PICK x \in s : /\ x = (CHOOSE y \in s : TRUE) /\ w[x] \in Nat
                             /\ s \ {x} \in Small(n) /\ s \ {x} \in Small(n + 1)
          BY <2>2, <3>2
        <4>2. h[s \ {x}] = g[s \ {x}] /\ g[s \ {x}] \in Nat
          BY <2>1, <4>1
        <4>3. body(s, g) = w[x] + g[s \ {x}] /\ body(s, h) = w[x] + h[s \ {x}]
          BY <3>2, <4>1
        <4>4. h[s] = body(s, g)
          <5>1. CASE Cardinality(s) <= n
            <6>1. s \in Small(n) /\ h[s] = g[s]
              BY <5>1
            <6> QED
              BY <2>1, <6>1
          <5>2. CASE ~(Cardinality(s) <= n)
            BY <5>2
          <5> QED
            BY <5>1, <5>2
        <4> HIDE DEF h, body
        <4> QED
          BY <4>1, <4>2, <4>3, <4>4
      <3> QED
        BY <3>1, <3>2
    <2>4. h \in [Small(n + 1) -> Nat]
      <3>1. h = [s \in Small(n + 1) |-> h[s]]
        OBVIOUS
      <3> HIDE DEF h
      <3> QED
        BY <2>3, <3>1
    <2> HIDE DEF h
    <2> QED
      BY <2>3, <2>4
  <1> HIDE DEF Good
  <1>5. \A n \in Nat : Good(n)
    <2> SUFFICES ASSUME Bad # {} PROVE FALSE
      OBVIOUS
    <2>1. PICK n \in Bad : \A m \in Bad : n <= m
      BY LeastNat
    <2>2. n # 0 /\ n \in Nat
      BY <1>3, <2>1
    <2>3. n - 1 \in Nat /\ n - 1 \notin Bad
      BY <2>1, <2>2
    <2>4. Good((n - 1) + 1)
      BY <1>4, <2>3
    <2> QED
      BY <2>1, <2>2, <2>4
  <1>6. Good(Cardinality(S))
    BY <1>1, <1>5
  <1>7. Small(Cardinality(S)) = SUBSET S
    BY <1>1
  <1>8. PICK g \in [SUBSET S -> Nat] : \A s \in SUBSET S : g[s] = body(s, g)
    BY <1>6, <1>7 DEF Good
  <1>9. g = [s \in SUBSET S |-> body(s, g)]
    <2> HIDE DEF body
    <2> QED
      BY <1>8
  <1>10. TotalTable(w, S, g)
    BY <1>9, Zenon DEF TotalTable
  <1> QED
    BY <1>10


\* An element can be taken out of a table first, whichever is chosen first.
LEMMA TableTakesOut ==
    ASSUME NEW S, IsFiniteSet(S), NEW w, \A x \in S : w[x] \in Nat,
           NEW g \in [SUBSET S -> Nat], TotalTable(w, S, g),
           NEW r \in SUBSET S, NEW e \in r
    PROVE  g[r] = w[e] + g[r \ {e}]
  <1> DEFINE Bad == {s \in SUBSET S : \E x \in s : g[s] # w[x] + g[s \ {x}]}
             Sizes == {Cardinality(s) : s \in Bad}
  <1> SUFFICES ASSUME r \in Bad PROVE FALSE
    OBVIOUS
  <1>1. \A s \in SUBSET S : IsFiniteSet(s) /\ Cardinality(s) \in Nat
    BY FS_Subset, FS_CardinalityType
  <1>2. Sizes \subseteq Nat /\ Sizes # {}
    BY <1>1
  <1>3. PICK n \in Sizes : \A m \in Sizes : n <= m
    BY <1>2, LeastNat
  <1>4. PICK s \in Bad : n = Cardinality(s)
    BY <1>3
  <1>5. PICK x \in s : g[s] # w[x] + g[s \ {x}]
    BY <1>4
  <1>20. s \in SUBSET S /\ s # {}
    BY <1>4, <1>5
  <1>6. PICK c \in s : g[s] = w[c] + g[s \ {c}]
    <2> HIDE DEF Bad
    <2> QED
      BY <1>20, TableAt
  <1>7. x # c /\ s \in SUBSET S
    BY <1>5, <1>6, <1>20
  <1>8. /\ s \ {c} \in SUBSET S /\ s \ {x} \in SUBSET S
        /\ Cardinality(s \ {c}) = n - 1 /\ Cardinality(s \ {x}) = n - 1
    BY <1>1, <1>4, <1>7, FS_RemoveElement
  <1>9. n \in Nat /\ s \ {c} \notin Bad /\ s \ {x} \notin Bad
    <2>1. n \in Nat
      BY <1>2
    <2>2. n - 1 \notin Sizes
      BY <1>3, <2>1
    <2>3. \A z \in Bad : Cardinality(z) \in Sizes
      OBVIOUS
    <2> HIDE DEF Bad, Sizes
    <2> QED
      BY <1>8, <2>1, <2>2, <2>3
  <1>10. g[s \ {c}] = w[x] + g[(s \ {c}) \ {x}] /\ g[s \ {x}] = w[c] + g[(s \ {x}) \ {c}]
    BY <1>7, <1>8, <1>9
  <1>11. (s \ {c}) \ {x} = (s \ {x}) \ {c} /\ (s \ {c}) \ {x} \in SUBSET S
    BY <1>7
  <1>12. PICK a \in Nat, b \in Nat, rest \in Nat :
               a = w[x] /\ b = w[c] /\ rest = g[(s \ {c}) \ {x}]
    BY <1>7, <1>11
  <1>13. g[s] = b + (a + rest) /\ g[s \ {x}] = b + rest
    BY <1>6, <1>10, <1>11, <1>12
  <1>14. w[x] + g[s \ {x}] = a + (b + rest)
    BY <1>12, <1>13
  <1>15. b + (a + rest) = a + (b + rest)
    BY <1>12
  <1> QED
    BY <1>5, <1>13, <1>14, <1>15

\* A sum has a table.
LEMMA TotalTabled ==
    ASSUME NEW S, IsFiniteSet(S), NEW w, \A x \in S : w[x] \in Nat
    PROVE  \E g \in [SUBSET S -> Nat] : TotalTable(w, S, g) /\ Total(w, S) = g[S]
  <1>1. PICK g \in [SUBSET S -> Nat] : TotalTable(w, S, g)
    BY TableExists
  <1>2. PICK h : TotalTable(w, S, h) /\ Total(w, S) = h[S]
    BY <1>1, TotalIsTable
  <1>3. h[S] = g[S]
    BY <1>1, <1>2, TablesAgree
  <1> QED
    BY <1>1, <1>2, <1>3

\* The sum over nothing, and a sum without one of its terms.
LEMMA TotalWithout ==
    ASSUME NEW S, IsFiniteSet(S), NEW w, \A x \in S : w[x] \in Nat
    PROVE  /\ Total(w, S) \in Nat
           /\ S = {} => Total(w, S) = 0
           /\ \A e \in S : Total(w, S) = w[e] + Total(w, S \ {e}) /\ Total(w, S \ {e}) \in Nat
  <1>1. PICK g \in [SUBSET S -> Nat] : TotalTable(w, S, g) /\ Total(w, S) = g[S]
    BY TotalTabled
  <1>2. ASSUME NEW e \in S
        PROVE  Total(w, S) = w[e] + Total(w, S \ {e}) /\ Total(w, S \ {e}) \in Nat
    <2>1. PICK R : R = S \ {e}
      OBVIOUS
    <2>2. IsFiniteSet(R) /\ R \in SUBSET S /\ \A x \in R : w[x] \in Nat
      BY <2>1, FS_Subset
    <2>3. PICK h \in [SUBSET R -> Nat] : TotalTable(w, R, h) /\ Total(w, R) = h[R]
      BY <2>2, TotalTabled
    <2>4. g[R] = h[R]
      BY <1>1, <2>2, <2>3, TablesAgree
    <2>5. g[S] = w[e] + g[R]
      <3>1. S \in SUBSET S
        OBVIOUS
      <3>2. PICK f \in [SUBSET S -> Nat], T \in SUBSET S : TotalTable(w, S, f) /\ f = g /\ T = S
        BY <1>1, <3>1
      <3>3. f[T] = w[e] + f[T \ {e}]
        BY <3>2, TableTakesOut, SMTT(30)
      <3> QED
        BY <2>1, <3>2, <3>3
    <2> QED
      BY <1>1, <2>1, <2>2, <2>3, <2>4, <2>5
  <1>3. S = {} => Total(w, S) = 0
    BY <1>1, TableAt
  <1> QED
    BY <1>1, <1>2, <1>3

\* Equal terms have equal sums.
LEMMA TotalSame ==
    ASSUME NEW S, IsFiniteSet(S), NEW w, NEW v, \A x \in S : w[x] \in Nat /\ v[x] = w[x]
    PROVE  Total(v, S) = Total(w, S)
  <1>1. PICK g \in [SUBSET S -> Nat] : TotalTable(w, S, g) /\ Total(w, S) = g[S]
    BY TotalTabled
  <1>2. PICK h \in [SUBSET S -> Nat] : TotalTable(v, S, h) /\ Total(v, S) = h[S]
    BY TotalTabled
  <1> QED
    BY <1>1, <1>2, TablesAgree

\* Larger terms have larger sums.
LEMMA TotalGrows ==
    ASSUME NEW S, IsFiniteSet(S), NEW w, NEW v,
           \A x \in S : w[x] \in Nat /\ v[x] \in Nat /\ w[x] <= v[x]
    PROVE  Total(w, S) <= Total(v, S)
  <1> DEFINE Bad == {s \in SUBSET S : ~(Total(w, s) <= Total(v, s))}
             Sizes == {Cardinality(s) : s \in Bad}
  <1> SUFFICES ASSUME S \in Bad PROVE FALSE
    OBVIOUS
  <1>1. \A s \in SUBSET S : IsFiniteSet(s) /\ Cardinality(s) \in Nat
    BY FS_Subset, FS_CardinalityType
  <1>2. Sizes \subseteq Nat /\ Sizes # {}
    BY <1>1
  <1>3. PICK n \in Sizes : \A m \in Sizes : n <= m
    BY <1>2, LeastNat
  <1>4. PICK s \in Bad : n = Cardinality(s)
    BY <1>3
  <1>5. s \in SUBSET S /\ IsFiniteSet(s) /\ n \in Nat
    BY <1>1, <1>4
  <1>6. /\ s = {} => Total(w, s) = 0 /\ Total(v, s) = 0
        /\ \A e \in s : /\ Total(w, s) = w[e] + Total(w, s \ {e}) /\ Total(w, s \ {e}) \in Nat
                        /\ Total(v, s) = v[e] + Total(v, s \ {e}) /\ Total(v, s \ {e}) \in Nat
    BY <1>5, TotalWithout
  <1>7. s # {}
    BY <1>4, <1>6
  <1>8. PICK e \in s : TRUE
    BY <1>7
  <1>9. Cardinality(s \ {e}) = n - 1 /\ s \ {e} \in SUBSET S
    BY <1>4, <1>5, <1>8, FS_RemoveElement
  <1>10. s \ {e} \notin Bad
    BY <1>2, <1>3, <1>5, <1>9
  <1>11. Total(w, s \ {e}) <= Total(v, s \ {e})
    BY <1>9, <1>10
  <1>12. PICK a \in Nat, b \in Nat, c \in Nat, d \in Nat :
             /\ a = w[e] /\ b = v[e] /\ c = Total(w, s \ {e}) /\ d = Total(v, s \ {e}) /\ a <= b
    BY <1>5, <1>6, <1>8
  <1> QED
    BY <1>4, <1>6, <1>8, <1>11, <1>12

\* One term changes.
LEMMA TotalMoves ==
    ASSUME NEW S, IsFiniteSet(S), NEW w, NEW v, NEW e \in S,
           \A x \in S : w[x] \in Nat /\ v[x] \in Nat /\ (x # e => v[x] = w[x])
    PROVE  Total(v, S) + w[e] = Total(w, S) + v[e]
  <1>1. PICK R : R = S \ {e} /\ IsFiniteSet(R)
    BY FS_RemoveElement
  <1>2. Total(v, R) = Total(w, R)
    BY <1>1, TotalSame
  <1>3. Total(w, S) = w[e] + Total(w, R) /\ Total(v, S) = v[e] + Total(v, R) /\ Total(w, R) \in Nat
    BY <1>1, TotalWithout
  <1> QED
    BY <1>2, <1>3

\* Nothing but zeros.
LEMMA TotalZero ==
    ASSUME NEW S, IsFiniteSet(S), NEW w, \A x \in S : w[x] \in Nat /\ w[x] = 0
    PROVE  Total(w, S) = 0
  <1> DEFINE Bad == {s \in SUBSET S : Total(w, s) # 0}
             Sizes == {Cardinality(s) : s \in Bad}
  <1> SUFFICES ASSUME S \in Bad PROVE FALSE
    OBVIOUS
  <1>1. \A s \in SUBSET S : IsFiniteSet(s) /\ Cardinality(s) \in Nat
    BY FS_Subset, FS_CardinalityType
  <1>2. Sizes \subseteq Nat /\ Sizes # {}
    BY <1>1
  <1>3. PICK n \in Sizes : \A m \in Sizes : n <= m
    BY <1>2, LeastNat
  <1>4. PICK s \in Bad : n = Cardinality(s)
    BY <1>3
  <1>5. s \in SUBSET S /\ IsFiniteSet(s) /\ n \in Nat
    BY <1>1, <1>4
  <1>6. /\ s = {} => Total(w, s) = 0
        /\ \A e \in s : Total(w, s) = w[e] + Total(w, s \ {e}) /\ Total(w, s \ {e}) \in Nat
    BY <1>5, TotalWithout
  <1>7. PICK e \in s : TRUE
    BY <1>4, <1>6
  <1>8. Cardinality(s \ {e}) = n - 1 /\ s \ {e} \in SUBSET S
    BY <1>4, <1>5, <1>7, FS_RemoveElement
  <1>9. s \ {e} \notin Bad
    BY <1>2, <1>3, <1>5, <1>8
  <1> QED
    BY <1>4, <1>5, <1>6, <1>7, <1>8, <1>9

\* Terms outside T that are zero do not count.
LEMMA TotalOver ==
    ASSUME NEW S, IsFiniteSet(S), NEW T, T \subseteq S, NEW w, NEW v,
           \A x \in T : w[x] \in Nat,
           \A x \in S : v[x] \in Nat /\ v[x] = IF x \in T THEN w[x] ELSE 0
    PROVE  Total(w, T) = Total(v, S)
  <1> DEFINE Bad == {s \in SUBSET S : Total(v, s) # Total(w, s \cap T)}
             Sizes == {Cardinality(s) : s \in Bad}
  <1>0. S \cap T = T
    OBVIOUS
  <1> SUFFICES ASSUME S \in Bad PROVE FALSE
    BY <1>0
  <1>1. \A s \in SUBSET S : /\ IsFiniteSet(s) /\ Cardinality(s) \in Nat
                            /\ IsFiniteSet(s \cap T)
    BY FS_Subset, FS_CardinalityType
  <1>2. Sizes \subseteq Nat /\ Sizes # {}
    BY <1>1
  <1>3. PICK n \in Sizes : \A m \in Sizes : n <= m
    BY <1>2, LeastNat
  <1>4. PICK s \in Bad : n = Cardinality(s)
    BY <1>3
  <1>5. s \in SUBSET S /\ IsFiniteSet(s) /\ IsFiniteSet(s \cap T) /\ n \in Nat
    BY <1>1, <1>4
  <1>6. /\ s = {} => Total(v, s) = 0 /\ s \cap T = {}
        /\ \A e \in s : Total(v, s) = v[e] + Total(v, s \ {e}) /\ Total(v, s \ {e}) \in Nat
    BY <1>5, TotalWithout
  <1>7. PICK u : u = s \cap T
    OBVIOUS
  <1>8. /\ u = {} => Total(w, u) = 0
        /\ \A e \in u : Total(w, u) = w[e] + Total(w, u \ {e}) /\ Total(w, u \ {e}) \in Nat
    <2>1. IsFiniteSet(u) /\ \A x \in u : w[x] \in Nat
      BY <1>5, <1>7
    <2> QED
      BY <2>1, TotalWithout
  <1>9. PICK e \in s : TRUE
    BY <1>4, <1>6, <1>7, <1>8
  <1>10. Cardinality(s \ {e}) = n - 1 /\ s \ {e} \in SUBSET S
    BY <1>4, <1>5, <1>9, FS_RemoveElement
  <1>11. s \ {e} \notin Bad
    <2>1. \A z \in Bad : Cardinality(z) \in Sizes
      OBVIOUS
    <2> HIDE DEF Bad, Sizes
    <2>2. n - 1 \notin Sizes
      BY <1>3, <1>5
    <2> QED
      BY <1>10, <2>1, <2>2
  <1>12. Total(v, s \ {e}) = Total(w, (s \ {e}) \cap T)
    BY <1>10, <1>11
  <1>13. Total(v, s) = v[e] + Total(w, (s \ {e}) \cap T) /\ Total(w, (s \ {e}) \cap T) \in Nat
    BY <1>6, <1>9, <1>12
  <1>14. CASE e \in T
    <2>1. (s \ {e}) \cap T = u \ {e} /\ e \in u /\ v[e] = w[e]
      BY <1>5, <1>7, <1>9, <1>14
    <2> QED
      BY <1>4, <1>7, <1>8, <1>13, <2>1
  <1>15. CASE e \notin T
    <2>1. (s \ {e}) \cap T = u /\ v[e] = 0
      BY <1>5, <1>7, <1>9, <1>15
    <2>2. PICK k \in Nat : k = Total(w, u)
      BY <1>13, <2>1
    <2>3. Total(v, s) = 0 + k
      BY <1>13, <2>1, <2>2
    <2>4. Total(v, s) = Total(w, u)
      BY <2>2, <2>3
    <2> QED
      BY <1>4, <1>7, <2>4
  <1> QED
    BY <1>14, <1>15

=============================================================================
