--------------------------- MODULE NaturalsLemmas ---------------------------
(***************************************************************************)
(* Facts about sets of natural numbers that several proofs need: a set has *)
(* a least element, one that contains 0 and all successors is Nat, and a   *)
(* function can be iterated. Induction is stated for a set, the set of the *)
(* numbers that have the property.                                         *)
(***************************************************************************)
EXTENDS Integers, WellFoundedInduction, TLAPS

\* Every set of naturals has a least element.
LEMMA LeastElement ==
  ASSUME NEW T \in SUBSET Nat, T # {}
  PROVE  \E x \in T : \A y \in T : x <= y
<1> DEFINE R == OpToRel(<, Nat)
<1>1. IsWellFoundedOn(R, Nat)
  BY NatLessThanWellFounded
<1>2. R = {p \in Nat \X Nat : p[1] < p[2]}
  BY DEF OpToRel
<1> HIDE DEF R
<1>3. PICK x \in T : \A y \in T : <<y, x>> \notin R
  BY <1>1, WFMin
<1>4. \A y \in T : <<y, x>> \in R <=> y < x
  BY <1>2
<1>5. \A y \in T : y \in Nat
  OBVIOUS
<1>6. \A y \in T : ~(y < x)
  BY <1>3, <1>4
<1> QED
  BY <1>5, <1>6

\* Every bounded set of naturals has a greatest element.
LEMMA GreatestElement ==
  ASSUME NEW k \in Nat, NEW T \in SUBSET (0 .. k), T # {}
  PROVE  \E x \in T : \A y \in T : y <= x
<1> DEFINE U == {n \in 0 .. k : k - n \in T}
<1>1. U \in SUBSET Nat /\ U # {}
  <2>1. PICK y \in T : TRUE
    OBVIOUS
  <2>2. k - y \in 0 .. k /\ k - (k - y) = y
    OBVIOUS
  <2>3. k - y \in U
    BY <2>1, <2>2
  <2> QED
    BY <2>3
<1>2. PICK n \in U : \A m \in U : n <= m
  BY <1>1, LeastElement
<1>3. ASSUME NEW y \in T PROVE y <= k - n
  <2>1. y \in 0 .. k /\ k - y \in 0 .. k /\ k - (k - y) = y
    OBVIOUS
  <2>2. k - y \in U
    BY <2>1
  <2> QED
    BY <1>2, <2>1, <2>2
<1> QED
  BY <1>2, <1>3

\* Induction, for a set.
LEMMA SetInduction ==
  ASSUME NEW S \in SUBSET Nat, 0 \in S, \A n \in S : n + 1 \in S
  PROVE  S = Nat
<1> SUFFICES ASSUME Nat \ S # {} PROVE FALSE
  OBVIOUS
<1>1. PICK x \in Nat \ S : \A y \in Nat \ S : x <= y
  <2>1. Nat \ S \in SUBSET Nat
    OBVIOUS
  <2> QED
    BY <2>1, LeastElement
<1>2. x - 1 \in Nat /\ x - 1 + 1 = x /\ ~(x <= x - 1)
  BY <1>1
<1>3. x - 1 \in S
  BY <1>1, <1>2
<1> QED
  BY <1>1, <1>2, <1>3

\* The first n + 1 values of the iterates of a function.
Iterates(g, n, X, x0, step) ==
  /\ g \in [0 .. n -> X]
  /\ g[0] = x0
  /\ \A k \in 0 .. n - 1 : g[k + 1] = step[g[k]]

\* All of its values.
HasIterates(X, x0, step) ==
  \E f \in [Nat -> X] : f[0] = x0 /\ \A n \in Nat : f[n + 1] = step[f[n]]

\* A function can be iterated.
LEMMA Iteration ==
  ASSUME NEW X, NEW x0 \in X, NEW step \in [X -> X]
  PROVE  HasIterates(X, x0, step)
<1> DEFINE It(g, n) == Iterates(g, n, X, x0, step)
           G(n) == CHOOSE g : It(g, n)
           S == {n \in Nat : \E g : It(g, n)}
<1>1. 0 \in S
  <2>1. It([k \in 0 .. 0 |-> x0], 0)
    BY DEF Iterates
  <2> QED
    BY <2>1
<1>2. ASSUME NEW n \in S PROVE n + 1 \in S
  <2>1. PICK g : It(g, n)
    OBVIOUS
  <2>2. n \in Nat
    OBVIOUS
  <2> DEFINE h == [k \in 0 .. n + 1 |-> IF k = n + 1 THEN step[g[n]] ELSE g[k]]
  <2>3. g[n] \in X /\ step[g[n]] \in X /\ \A k \in 0 .. n : g[k] \in X
    BY <2>1, <2>2 DEF Iterates
  <2>4. h \in [0 .. n + 1 -> X]
    BY <2>2, <2>3
  <2>5. h[0] = x0
    BY <2>1, <2>2 DEF Iterates
  <2>6. ASSUME NEW k \in 0 .. n + 1 - 1 PROVE h[k + 1] = step[h[k]]
    <3>1. CASE k = n
      BY <2>2, <3>1
    <3>2. CASE k # n
      <4>1. k \in 0 .. n - 1 /\ k + 1 \in 0 .. n + 1 /\ k + 1 # n + 1
            /\ k \in 0 .. n + 1 /\ k # n + 1
        BY <2>2, <3>2
      <4>2. g[k + 1] = step[g[k]]
        BY <2>1, <4>1 DEF Iterates
      <4> QED
        BY <4>1, <4>2
    <3> QED
      BY <3>1, <3>2
  <2> HIDE DEF h
  <2>7. It(h, n + 1)
    BY <2>4, <2>5, <2>6 DEF Iterates
  <2> QED
    BY <2>2, <2>7
<1>3. S = Nat
  <2>1. S \in SUBSET Nat
    OBVIOUS
  <2> HIDE DEF S
  <2> QED
    BY <1>1, <1>2, <2>1, SetInduction
<1>4. ASSUME NEW n \in Nat PROVE It(G(n), n)
  <2>1. \E g : It(g, n)
    BY <1>3
  <2> HIDE DEF It
  <2> QED
    BY <2>1
<1>5. ASSUME NEW n \in Nat PROVE G(n + 1)[n] = G(n)[n]
  <2>1. PICK g, h : g = G(n) /\ h = G(n + 1)
    OBVIOUS
  <2>2. It(g, n) /\ It(h, n + 1)
    BY <1>4, <2>1
  <2> DEFINE T == {k \in Nat : k <= n => g[k] = h[k]}
  <2>3. 0 \in T
    BY <2>2 DEF Iterates
  <2>4. ASSUME NEW k \in T PROVE k + 1 \in T
    <3>1. CASE k + 1 <= n
      <4>1. k \in 0 .. n - 1 /\ k \in 0 .. n + 1 - 1 /\ k <= n
        BY <3>1
      <4>2. g[k + 1] = step[g[k]] /\ h[k + 1] = step[h[k]]
        BY <2>2, <4>1 DEF Iterates
      <4> QED
        BY <4>1, <4>2
    <3> QED
      BY <3>1
  <2>5. T = Nat
    <3>1. T \in SUBSET Nat
      OBVIOUS
    <3> HIDE DEF T
    <3> QED
      BY <2>3, <2>4, <3>1, SetInduction
  <2>6. n \in T
    BY <2>5
  <2> QED
    BY <2>1, <2>6
<1> HIDE DEF G
<1> DEFINE f == [n \in Nat |-> G(n)[n]]
<1>6. \A n \in Nat : f[n] \in X
  BY <1>4 DEF Iterates
<1>7. f[0] = x0
  BY <1>4 DEF Iterates
<1>8. ASSUME NEW n \in Nat PROVE f[n + 1] = step[f[n]]
  <2>1. n + 1 \in Nat /\ n \in 0 .. n + 1 - 1
    OBVIOUS
  <2>2. G(n + 1)[n + 1] = step[G(n + 1)[n]]
    BY <1>4, <2>1 DEF Iterates
  <2> QED
    BY <1>5, <2>1, <2>2
<1>9. f \in [Nat -> X]
  BY <1>6
<1> HIDE DEF f
<1> QED
  BY <1>7, <1>8, <1>9 DEF HasIterates

\* Induction up to n.
LEMMA RangeInduction ==
  ASSUME NEW n \in Nat, NEW S, 0 \in S, \A k \in 1 .. n : k - 1 \in S => k \in S
  PROVE  \A k \in 0 .. n : k \in S
<1> DEFINE T == {k \in Nat : k <= n => k \in S}
<1>1. T \in SUBSET Nat /\ 0 \in T
  OBVIOUS
<1>2. ASSUME NEW k \in T PROVE k + 1 \in T
  <2>1. ASSUME k + 1 <= n PROVE k + 1 \in S
    <3>1. k \in Nat /\ k <= n /\ k + 1 \in 1 .. n /\ k + 1 - 1 = k
      BY <2>1
    <3> QED
      BY <3>1
  <2> QED
    BY <2>1
<1>3. T = Nat
  <2> HIDE DEF T
  <2> QED
    BY <1>1, <1>2, SetInduction
<1> QED
  BY <1>3

\* The values of a loop of n turns, of which turn k may depend on k.
HasRun(n, X, x0, step) ==
  \E f \in [0 .. n -> X] : f[0] = x0 /\ \A k \in 1 .. n : f[k] = step[<<k, f[k - 1]>>]

\* A loop has these values.
LEMMA LoopRuns ==
  ASSUME NEW n \in Nat, NEW X, NEW x0 \in X, NEW step \in [(1 .. n) \X X -> X]
  PROVE  HasRun(n, X, x0, step)
<1> DEFINE Y == (0 .. n) \X X
           turn == [y \in Y |-> IF y[1] < n THEN <<y[1] + 1, step[<<y[1] + 1, y[2]>>]>> ELSE y]
<1>1. <<0, x0>> \in Y
  OBVIOUS
<1>2. ASSUME NEW y \in Y, y[1] < n
      PROVE  <<y[1] + 1, step[<<y[1] + 1, y[2]>>]>> \in Y
  <2>1. y[1] + 1 \in 1 .. n /\ y[1] + 1 \in 0 .. n /\ y[2] \in X
    BY <1>2
  <2> QED
    BY <2>1
<1>3. turn \in [Y -> Y]
  BY <1>2
<1>4. \A y \in Y : y[1] < n => turn[y] = <<y[1] + 1, step[<<y[1] + 1, y[2]>>]>>
  OBVIOUS
<1> HIDE DEF turn
<1>5. PICK f \in [Nat -> Y] : f[0] = <<0, x0>> /\ \A k \in Nat : f[k + 1] = turn[f[k]]
  <2> HIDE DEF Y
  <2>1. HasIterates(Y, <<0, x0>>, turn)
    BY <1>1, <1>3, Iteration
  <2> QED
    BY <2>1 DEF HasIterates
<1>6. ASSUME NEW k \in 1 .. n, f[k - 1][1] = k - 1
      PROVE  f[k][1] = k /\ f[k][2] = step[<<k, f[k - 1][2]>>]
  <2>1. PICK j : j = k - 1
    OBVIOUS
  <2>2. j \in Nat /\ j + 1 = k /\ j < n
    BY <2>1
  <2>3. f[j] \in Y /\ f[j][1] = j /\ f[j + 1] = turn[f[j]]
    BY <1>5, <1>6, <2>1, <2>2
  <2>4. turn[f[j]] = <<j + 1, step[<<j + 1, f[j][2]>>]>>
    BY <1>4, <2>2, <2>3
  <2>5. f[k] = <<k, step[<<k, f[j][2]>>]>>
    BY <2>2, <2>3, <2>4
  <2> QED
    BY <2>1, <2>5
<1>7. \A k \in 0 .. n : f[k][1] = k
  <2> DEFINE S == {k \in 0 .. n : f[k][1] = k}
  <2>1. 0 \in S
    BY <1>5
  <2>2. ASSUME NEW k \in 1 .. n, k - 1 \in S PROVE k \in S
    <3>1. f[k - 1][1] = k - 1 /\ k \in 0 .. n
      BY <2>2
    <3>2. f[k][1] = k
      BY <1>6, <3>1
    <3> QED
      BY <3>1, <3>2
  <2>3. \A k \in 0 .. n : k \in S
    <3> HIDE DEF S
    <3> QED
      BY <2>1, <2>2, RangeInduction
  <2> QED
    BY <2>3
<1> DEFINE g == [k \in 0 .. n |-> f[k][2]]
<1>8. g \in [0 .. n -> X] /\ g[0] = x0
  BY <1>5
<1>9. ASSUME NEW k \in 1 .. n PROVE g[k] = step[<<k, g[k - 1]>>]
  <2>1. k \in 0 .. n /\ k - 1 \in 0 .. n
    OBVIOUS
  <2> QED
    BY <1>6, <1>7, <2>1
<1> HIDE DEF g
<1> QED
  BY <1>8, <1>9 DEF HasRun
=============================================================================
