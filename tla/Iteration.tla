----------------------------- MODULE Iteration ------------------------------
(* Induction on sets of numbers, and that a function on the naturals may be   *)
(* defined by its first value and a step from each to the next. Both are by   *)
(* way of a least number outside of a set.                                    *)
EXTENDS Integers, TLAPS, WellFoundedInduction

LEMMA LeastNumber ==
  ASSUME NEW T, T \subseteq Nat, T # {}
  PROVE  \E x \in T : \A y \in T : x <= y
<1> DEFINE R == OpToRel(<, Nat)
<1>1. PICK x \in T : \A y \in T : ~ (<<y, x>> \in R)
  BY WFMin, NatLessThanWellFounded
<1>2. ASSUME NEW y \in T PROVE x <= y
  <2>1. x \in Nat /\ y \in Nat
    OBVIOUS
  <2>2. ~ (<<y, x>> \in R)
    BY <1>1
  <2>3. ~ (y < x)
    BY <2>1, <2>2 DEF OpToRel
  <2> HIDE DEF R
  <2>4. QED
    BY <2>1, <2>3
<1>3. QED
  BY <1>2

\* Induction.
LEMMA SetInduction ==
  ASSUME NEW S, 0 \in S, \A n \in Nat : n \in S => n + 1 \in S
  PROVE  Nat \subseteq S
<1> SUFFICES ASSUME Nat \ S # {} PROVE FALSE
  OBVIOUS
<1>1. PICK x \in Nat \ S : \A y \in Nat \ S : x <= y
  BY LeastNumber
<1>2. x # 0
  OBVIOUS
<1>3. x - 1 \in Nat /\ (x - 1) + 1 = x /\ ~ (x <= x - 1)
  BY <1>2
<1>4. x - 1 \in S
  BY <1>1, <1>3
<1>5. QED
  BY <1>3, <1>4

\* A bounded set of numbers has a greatest.
LEMMA GreatestNumber ==
  ASSUME NEW T, T \subseteq Nat, T # {}, NEW bound \in Nat, \A y \in T : y <= bound
  PROVE  \E x \in T : \A y \in T : y <= x
<1> DEFINE U == {bound - y : y \in T}
<1>1. U \subseteq Nat /\ U # {}
  <2>1. ASSUME NEW y \in T PROVE bound - y \in Nat
    <3>1. y \in Nat /\ y <= bound
      OBVIOUS
    <3>2. QED
      BY <3>1
  <2>2. QED
    BY <2>1
<1>2. PICK u \in U : \A w \in U : u <= w
  BY <1>1, LeastNumber
<1>3. PICK x \in T : u = bound - x
  BY <1>2
<1>4. ASSUME NEW y \in T PROVE y <= x
  <2>1. bound - x <= bound - y /\ x \in Nat /\ y \in Nat
    BY <1>2, <1>3
  <2>2. QED
    BY <2>1
<1>5. QED
  BY <1>4

-----------------------------------------------------------------------------
\* The functions that give the first n values of an iteration.
FirstValues(S, first, step, n) ==
  {f \in [0..n -> S] : f[0] = first /\ \A i \in 1..n : f[i] = step[f[i - 1]]}

LEMMA FirstValuesExist ==
  ASSUME NEW S, NEW first \in S, NEW step \in [S -> S]
  PROVE  \A n \in Nat : FirstValues(S, first, step, n) # {}
<1> DEFINE T == {n \in Nat : FirstValues(S, first, step, n) # {}}
<1>1. 0 \in T
  <2>1. [i \in 0..0 |-> first] \in FirstValues(S, first, step, 0)
    BY DEF FirstValues
  <2>2. QED
    BY <2>1
<1>2. ASSUME NEW n \in Nat, n \in T PROVE n + 1 \in T
  <2>1. PICK f \in FirstValues(S, first, step, n) : TRUE
    BY <1>2
  <2>2. f \in [0..n -> S] /\ f[0] = first /\ \A i \in 1..n : f[i] = step[f[i - 1]]
    BY <2>1 DEF FirstValues
  <2> DEFINE g == [i \in 0..n + 1 |-> IF i = n + 1 THEN step[f[n]] ELSE f[i]]
  <2>3. g \in [0..n + 1 -> S] /\ g[0] = first
    BY <2>2
  <2>4. ASSUME NEW i \in 1..n + 1 PROVE g[i] = step[g[i - 1]]
    <3>1. i - 1 \in 0..n /\ g[i - 1] = f[i - 1]
      OBVIOUS
    <3>2. QED
      BY <2>2, <3>1
  <2>5. g \in FirstValues(S, first, step, n + 1)
    BY <2>3, <2>4 DEF FirstValues
  <2>6. QED
    BY <2>5
<1>3. QED
  BY <1>1, <1>2, SetInduction

LEMMA FirstValuesAgree ==
  ASSUME NEW S, NEW first \in S, NEW step \in [S -> S], NEW n \in Nat, NEW m \in Nat,
         NEW f \in FirstValues(S, first, step, n), NEW g \in FirstValues(S, first, step, m),
         NEW k \in Nat, k <= n, k <= m
  PROVE  f[k] = g[k]
<1> DEFINE T == {i \in Nat : i <= n /\ i <= m => f[i] = g[i]}
<1>1. 0 \in T
  BY DEF FirstValues
<1>2. ASSUME NEW i \in Nat, i \in T PROVE i + 1 \in T
  <2> SUFFICES ASSUME i + 1 <= n, i + 1 <= m PROVE f[i + 1] = g[i + 1]
    OBVIOUS
  <2>1. i + 1 \in 1..n /\ i + 1 \in 1..m /\ (i + 1) - 1 = i /\ i <= n /\ i <= m
    OBVIOUS
  <2>2. f[i + 1] = step[f[i]] /\ g[i + 1] = step[g[i]] /\ f[i] = g[i]
    BY <1>2, <2>1 DEF FirstValues
  <2>3. QED
    BY <2>2
<1>3. QED
  BY <1>1, <1>2, SetInduction

\* The iteration of a step is a function, and its values are in the step's domain.
LEMMA IterationExists ==
  ASSUME NEW S, NEW first \in S, NEW step \in [S -> S]
  PROVE  \E f \in [Nat -> S] :
           f[0] = first /\ \A n \in Nat \ {0} : f[n] = step[f[n - 1]]
<1> DEFINE values(n) == CHOOSE f \in FirstValues(S, first, step, n) : TRUE
           g == [n \in Nat |-> values(n)[n]]
<1>1. ASSUME NEW n \in Nat PROVE values(n) \in FirstValues(S, first, step, n)
  BY FirstValuesExist
<1>2. g[0] = first
  BY <1>1 DEF FirstValues
<1>3. ASSUME NEW n \in Nat, n # 0 PROVE g[n] = step[g[n - 1]]
  <2>1. PICK f \in FirstValues(S, first, step, n) : g[n] = f[n]
    BY <1>1
  <2>2. n - 1 \in Nat
    BY <1>3
  <2>3. PICK h \in FirstValues(S, first, step, n - 1) : g[n - 1] = h[n - 1]
    BY <1>1, <2>2
  <2>4. f[n] = step[f[n - 1]]
    BY <1>3 DEF FirstValues
  <2>5. f[n - 1] = h[n - 1]
    BY <1>3, FirstValuesAgree
  <2>6. QED
    BY <2>1, <2>3, <2>4, <2>5
<1>4. ASSUME NEW n \in Nat PROVE g[n] \in S
  <2>1. PICK f \in FirstValues(S, first, step, n) : g[n] = f[n]
    BY <1>1
  <2>2. f \in [0..n -> S] /\ n \in 0..n
    BY DEF FirstValues
  <2>3. QED
    BY <2>1, <2>2
<1>5. g = [n \in Nat |-> g[n]]
  OBVIOUS
<1> HIDE DEF g
<1>6. g \in [Nat -> S]
  BY <1>4, <1>5
<1>7. QED
  BY <1>2, <1>3, <1>6
=============================================================================
