-------------------------- MODULE AllocationProofs --------------------------
(***************************************************************************)
(* What the algorithms of Allocation compute, for every radix, width and   *)
(* list: the recursive definitions have the values they are meant to have, *)
(* AddOffset adds, and what is selected by rank is selected once and in    *)
(* order.  Induction is over sets of numbers, from the least element.      *)
(***************************************************************************)
EXTENDS Allocation, FiniteSetTheorems, SequenceTheorems, WellFoundedInduction, TLAPS

LEMMA Least ==
  ASSUME NEW S \in SUBSET Nat, S # {}
  PROVE  \E m \in S : \A n \in S : m <= n
<1> DEFINE R == OpToRel(<, Nat)
<1>1. IsWellFoundedOn(R, Nat)
  BY NatLessThanWellFounded
<1>2. \A x, y \in Nat : y < x => <<y, x>> \in R
  BY DEF OpToRel
<1> HIDE DEF R
<1>3. PICK m \in S : \A n \in S : ~(<<n, m>> \in R)
  BY <1>1, WFMin
<1>4. ASSUME NEW n \in S PROVE ~(n < m)
  <2>1. n \in Nat /\ m \in Nat
    OBVIOUS
  <2> QED BY <1>2, <1>3, <2>1, Zenon
<1>5. \A n \in S : m <= n
  BY <1>4
<1> QED BY <1>5

\* Induction: a set with 0 and the successor of each element has all numbers.
LEMMA Induction ==
  ASSUME NEW S \in SUBSET Nat, 0 \in S, \A n \in S : n + 1 \in S
  PROVE  S = Nat
<1> SUFFICES ASSUME Nat \ S # {} PROVE FALSE
  OBVIOUS
<1>1. PICK m \in Nat \ S : \A n \in Nat \ S : m <= n
  BY Least
<1>2. m - 1 \in Nat /\ m - 1 \notin Nat \ S
  BY <1>1
<1> QED BY <1>1, <1>2

\* The greatest element of a bounded set.
LEMMA Greatest ==
  ASSUME NEW S \in SUBSET Nat, S # {}, NEW b \in Nat, \A n \in S : n <= b
  PROVE  \E m \in S : \A n \in S : n <= m
<1> DEFINE T == {u \in Nat : \A n \in S : n <= u}
<1>1. PICK u \in T : \A v \in T : u <= v
  BY Least
<1>2. u \in S
  <2> SUFFICES ASSUME u \notin S PROVE FALSE
    OBVIOUS
  <2>1. \A n \in S : n < u
    BY <1>1
  <2>2. PICK n \in S : n < u
    BY <2>1
  <2>3. u - 1 \in Nat /\ \A x \in S : x <= u - 1
    BY <1>1, <2>1, <2>2
  <2> QED BY <1>1, <2>3
<1> QED BY <1>1, <1>2

\* A function on the numbers is defined by its first value and a step.
Recurs(f, first, step) == f[0] = first /\ \A i \in Nat : f[i + 1] = step[i][f[i]]

LEMMA Recursion ==
  ASSUME NEW V, NEW first \in V, NEW step \in [Nat -> [V -> V]]
  PROVE  \E f \in [Nat -> V] : Recurs(f, first, step)
<1> DEFINE Starts(g, n) == /\ g \in [0..n -> V] /\ g[0] = first
                           /\ \A i \in 0..(n - 1) : g[i + 1] = step[i][g[i]]
<1>1. ASSUME NEW n \in Nat, NEW g, Starts(g, n), NEW m \in 0..n, NEW h, Starts(h, m)
      PROVE  \A i \in 0..m : g[i] = h[i]
  <2> DEFINE S == {i \in Nat : i \in 0..m => g[i] = h[i]}
  <2>1. 0 \in S
    BY <1>1
  <2>2. ASSUME NEW i \in S PROVE i + 1 \in S
    <3> SUFFICES ASSUME i + 1 \in 0..m PROVE g[i + 1] = h[i + 1]
      OBVIOUS
    <3>1. i \in 0..(m - 1) /\ i \in 0..(n - 1) /\ g[i] = h[i]
      BY <2>2
    <3> QED BY <1>1, <3>1
  <2> HIDE DEF S
  <2>3. S = Nat
    BY <2>1, <2>2, Induction DEF S
  <2> QED BY <2>3 DEF S
<1>2. \A n \in Nat : \E g : Starts(g, n)
  <2> DEFINE S == {n \in Nat : \E g : Starts(g, n)}
  <2>1. 0 \in S
    <3>1. Starts([i \in 0..0 |-> first], 0)
      OBVIOUS
    <3> QED BY <3>1
  <2>2. ASSUME NEW n \in S PROVE n + 1 \in S
    <3>1. PICK g : Starts(g, n)
      BY <2>2
    <3> DEFINE h == [i \in 0..(n + 1) |-> IF i <= n THEN g[i] ELSE step[n][g[n]]]
    <3>2. h \in [0..(n + 1) -> V] /\ h[0] = first
      BY <3>1
    <3>3. ASSUME NEW i \in 0..n PROVE h[i + 1] = step[i][h[i]]
      <4>1. CASE i = n
        BY <4>1
      <4>2. CASE i # n
        <5>1. i \in 0..(n - 1)
          BY <4>2
        <5>2. h[i] = g[i] /\ h[i + 1] = g[i + 1]
          BY <5>1
        <5> QED BY <3>1, <5>1, <5>2
      <4> QED BY <4>1, <4>2
    <3>4. (n + 1) - 1 = n
      OBVIOUS
    <3> HIDE DEF h
    <3>5. Starts(h, n + 1)
      BY <3>2, <3>3, <3>4
    <3> QED BY <3>5
  <2> HIDE DEF S
  <2>3. S = Nat
    BY <2>1, <2>2, Induction DEF S
  <2> QED BY <2>3 DEF S
<1> DEFINE upto == [n \in Nat |-> CHOOSE g : Starts(g, n)]
           f == [n \in Nat |-> upto[n][n]]
<1>3. \A n \in Nat : Starts(upto[n], n)
  BY <1>2, Zenon
<1> HIDE DEF upto
<1>4. f \in [Nat -> V]
  BY <1>3
<1>5. f[0] = first
  BY <1>3
<1>6. ASSUME NEW i \in Nat PROVE f[i + 1] = step[i][f[i]]
  <2>1. Starts(upto[i + 1], i + 1) /\ Starts(upto[i], i) /\ i \in 0..(i + 1)
    BY <1>3
  <2> HIDE DEF Starts
  <2>2. \A j \in 0..i : upto[i + 1][j] = upto[i][j]
    BY <1>1, <2>1
  <2>3. upto[i + 1][i + 1] = step[i][upto[i + 1][i]]
    BY <2>1 DEF Starts
  <2> QED BY <2>2, <2>3
<1> QED BY <1>4, <1>5, <1>6 DEF Recurs

\* The same up to a number.
RecursTo(f, n, first, step) ==
  f[0] = first /\ \A i \in 0..(n - 1) : f[i + 1] = step[i][f[i]]

LEMMA BoundedRecursion ==
  ASSUME NEW n \in Nat, NEW V, NEW first \in V, NEW step \in [Nat -> [V -> V]]
  PROVE  \E f \in [0..n -> V] : RecursTo(f, n, first, step)
<1>1. PICK h \in [Nat -> V] : Recurs(h, first, step)
  BY Recursion
<1> DEFINE f == [i \in 0..n |-> h[i]]
<1>2. f \in [0..n -> V] /\ RecursTo(f, n, first, step)
  <2>1. \A i \in 0..(n - 1) : i \in Nat /\ i \in 0..n /\ i + 1 \in 0..n
    OBVIOUS
  <2> QED BY <1>1, <2>1 DEF Recurs, RecursTo
<1> QED BY <1>2

-----------------------------------------------------------------------------
(* Arithmetic. *)

LEMMA PowerDef ==
  /\ Power[0] = 1 /\ \A i \in Nat : Power[i + 1] = Radix * Power[i]
  /\ \A i \in Nat : Power[i] \in Nat \ {0}
<1> DEFINE step == [i \in Nat |-> [x \in Nat |-> Radix * x]]
           Def(f) == [i \in Nat |-> IF i = 0 THEN 1 ELSE Radix * f[i - 1]]
<1>1. step \in [Nat -> [Nat -> Nat]]
  BY AllocationAssumption
<1>2. PICK f \in [Nat -> Nat] : Recurs(f, 1, step)
  <2>1. 1 \in Nat
    OBVIOUS
  <2> HIDE DEF step
  <2> QED BY <1>1, <2>1, Recursion, Zenon
<1>3. f = Def(f)
  <2> SUFFICES ASSUME NEW i \in Nat PROVE f[i] = IF i = 0 THEN 1 ELSE Radix * f[i - 1]
    BY <1>2
  <2>1. CASE i = 0
    BY <1>2, <2>1 DEF Recurs
  <2>2. CASE i # 0
    <3>1. i - 1 \in Nat /\ (i - 1) + 1 = i
      BY <2>2
    <3> QED BY <1>2, <2>2, <3>1 DEF Recurs
  <2> QED BY <2>1, <2>2
<1>4. Power = Def(Power)
  <2>1. Power = CHOOSE g : g = Def(g)
    BY DEF Power
  <2> QED BY <1>3, <2>1, Zenon
<1>5. Power[0] = 1 /\ \A i \in Nat : Power[i + 1] = Radix * Power[i]
  <2>1. \A i \in Nat : i + 1 \in Nat /\ i + 1 # 0 /\ (i + 1) - 1 = i
    OBVIOUS
  <2> QED BY <1>4, <2>1
<1>6. \A i \in Nat : Power[i] \in Nat \ {0}
  <2> DEFINE S == {i \in Nat : Power[i] \in Nat \ {0}}
  <2>1. 0 \in S
    BY <1>5
  <2>2. \A i \in S : i + 1 \in S
    BY <1>5, AllocationAssumption
  <2> HIDE DEF S
  <2>3. S = Nat
    BY <2>1, <2>2, Induction DEF S
  <2> QED BY <2>3 DEF S
<1> QED BY <1>5, <1>6

LEMMA DivMod ==
  ASSUME NEW a \in Nat, NEW n \in Nat \ {0}
  PROVE  /\ a \div n \in Nat /\ a % n \in 0..(n - 1)
         /\ a = n * (a \div n) + (a % n)
OBVIOUS

LEMMA DivModUnique ==
  ASSUME NEW n \in Nat \ {0}, NEW q \in Nat, NEW r \in 0..(n - 1)
  PROVE  (n * q + r) \div n = q /\ (n * q + r) % n = r
OBVIOUS
LEMMA DigitType ==
  ASSUME NEW a \in Nat, NEW i \in Nat
  PROVE  Digit(a, i) \in 0..(Radix - 1)
<1> DEFINE q == a \div Power[i]
<1>1. Power[i] \in Nat \ {0} /\ Radix \in Nat \ {0}
  BY PowerDef, AllocationAssumption
<1>2. q \in Nat
  BY <1>1, DivMod
<1> HIDE DEF q
<1>3. q % Radix \in 0..(Radix - 1)
  BY <1>1, <1>2, DivMod
<1> QED BY <1>3 DEF Digit, q

LEMMA CarriesDef ==
  ASSUME NEW base \in Nat, NEW offset \in Nat
  PROVE  LET carry == Carries(base, offset) IN
         /\ carry \in [0..Width -> Nat] /\ carry[0] = offset
         /\ \A i \in 0..(Width - 1) :
              carry[i + 1] = (carry[i] \div Radix)
                             + (Digit(base, i) + (carry[i] % Radix)) \div Radix
<1> DEFINE step == [i \in Nat |-> [c \in Nat |->
                      (c \div Radix) + (Digit(base, i) + (c % Radix)) \div Radix]]
           carry == Carries(base, offset)
<1>1. step \in [Nat -> [Nat -> Nat]]
  <2> SUFFICES ASSUME NEW i \in Nat, NEW c \in Nat
               PROVE  (c \div Radix) + (Digit(base, i) + (c % Radix)) \div Radix \in Nat
    OBVIOUS
  <2>1. c \div Radix \in Nat /\ c % Radix \in Nat
    BY DivMod, AllocationAssumption
  <2>2. Digit(base, i) + (c % Radix) \in Nat
    <3>1. Digit(base, i) \in Nat
      BY DigitType
    <3> QED BY <2>1, <3>1
  <2>3. (Digit(base, i) + (c % Radix)) \div Radix \in Nat
    BY <2>2, DivMod, AllocationAssumption
  <2> QED BY <2>1, <2>3
<1>2. PICK r \in [0..Width -> Nat] : RecursTo(r, Width, offset, step)
  <2> HIDE DEF step
  <2> QED BY <1>1, BoundedRecursion, AllocationAssumption, Zenon
<1>3. ASSUME NEW i \in 0..Width, i # 0
      PROVE  i - 1 \in Nat /\ i - 1 \in 0..(Width - 1) /\ i - 1 \in 0..Width /\ (i - 1) + 1 = i
  BY <1>3, AllocationAssumption
<1> DEFINE Body(g) == [i \in 0..Width |-> IF i = 0 THEN offset
                         ELSE (g[i - 1] \div Radix)
                              + (Digit(base, i - 1) + (g[i - 1] % Radix)) \div Radix]
<1>4. r = Body(r)
  <2> SUFFICES ASSUME NEW i \in 0..Width PROVE r[i] = Body(r)[i]
    BY Zenon
  <2>1. CASE i = 0
    BY <1>2, <2>1 DEF RecursTo
  <2>2. CASE i # 0
    <3>1. r[i] = step[i - 1][r[i - 1]] /\ r[i - 1] \in Nat
      BY <1>2, <1>3, <2>2 DEF RecursTo
    <3> QED BY <1>3, <2>2, <3>1
  <2> QED BY <2>1, <2>2
<1>5. carry = Body(carry)
  <2>1. carry = CHOOSE g : g = Body(g)
    BY DEF Carries
  <2> QED BY <1>4, <2>1, Zenon
<1> HIDE DEF carry
<1>6. carry[0] = offset
  BY <1>5, AllocationAssumption
<1>7. \A i \in 0..(Width - 1) : carry[i + 1] = (carry[i] \div Radix)
                             + (Digit(base, i) + (carry[i] % Radix)) \div Radix
  <2>1. \A i \in 0..(Width - 1) : i + 1 \in 0..Width /\ i + 1 # 0 /\ (i + 1) - 1 = i
    BY AllocationAssumption
  <2> QED BY <1>5, <2>1
<1>8. \A i \in 0..Width : carry[i] \in Nat
  <2> DEFINE S == {i \in Nat : i \in 0..Width => carry[i] \in Nat}
  <2>1. 0 \in S
    BY <1>6
  <2>2. ASSUME NEW i \in S PROVE i + 1 \in S
    <3> SUFFICES ASSUME i + 1 \in 0..Width PROVE carry[i + 1] \in Nat
      OBVIOUS
    <3>1. i \in 0..(Width - 1) /\ i \in 0..Width /\ carry[i] \in Nat
      BY <2>2, AllocationAssumption
    <3>2. carry[i + 1] = step[i][carry[i]]
      BY <1>7, <3>1
    <3> HIDE DEF step
    <3> QED BY <1>1, <3>1, <3>2
  <2> HIDE DEF S
  <2>3. S = Nat
    BY <2>1, <2>2, Induction DEF S
  <2> QED BY <2>3, AllocationAssumption DEF S
<1> QED BY <1>5, <1>6, <1>7, <1>8 DEF carry
\* The digits that AddOffset puts together.
LEMMA SumDef ==
  ASSUME NEW base \in Nat, NEW carry \in [0..Width -> Nat],
         NEW sum, sum = CHOOSE g : g = [i \in 0..Width |-> IF i = 0 THEN 0
                    ELSE g[i - 1] + Power[i - 1] * ((Digit(base, i - 1) + carry[i - 1]) % Radix)]
  PROVE  /\ sum[0] = 0
         /\ \A i \in 0..(Width - 1) :
              sum[i + 1] = sum[i] + Power[i] * ((Digit(base, i) + carry[i]) % Radix)
<1> DEFINE digit(i) == (Digit(base, i) + carry[i]) % Radix
           step == [i \in Nat |-> [x \in Nat |->
                      IF i \in 0..Width THEN x + Power[i] * digit(i) ELSE x]]
           Body(g) == [i \in 0..Width |-> IF i = 0 THEN 0 ELSE g[i - 1] + Power[i - 1] * digit(i - 1)]
<1>1. step \in [Nat -> [Nat -> Nat]]
  <2> SUFFICES ASSUME NEW i \in 0..Width, NEW x \in Nat PROVE x + Power[i] * digit(i) \in Nat
    BY AllocationAssumption
  <2> DEFINE e == Digit(base, i) + carry[i]
  <2>1. i \in Nat /\ Radix \in Nat \ {0}
    BY AllocationAssumption
  <2>2. Digit(base, i) \in Nat /\ Power[i] \in Nat
    <3>1. Power[i] \in Nat
      BY <2>1, PowerDef
    <3>2. Digit(base, i) \in 0..(Radix - 1)
      BY <2>1, DigitType
    <3> QED BY <2>1, <3>1, <3>2
  <2>3. e \in Nat
    BY <2>2
  <2> HIDE DEF e
  <2>4. e % Radix \in Nat
    BY <2>1, <2>3, DivMod
  <2> QED BY <2>2, <2>4 DEF e
<1>2. PICK r \in [0..Width -> Nat] : RecursTo(r, Width, 0, step)
  <2>1. 0 \in Nat
    OBVIOUS
  <2> HIDE DEF step
  <2> QED BY <1>1, <2>1, BoundedRecursion, AllocationAssumption, Zenon
<1>3. ASSUME NEW i \in 0..Width, i # 0
      PROVE  i - 1 \in Nat /\ i - 1 \in 0..(Width - 1) /\ i - 1 \in 0..Width /\ (i - 1) + 1 = i
  BY <1>3, AllocationAssumption
<1>4. r = Body(r)
  <2> SUFFICES ASSUME NEW i \in 0..Width PROVE r[i] = Body(r)[i]
    BY Zenon
  <2>1. CASE i = 0
    BY <1>2, <2>1 DEF RecursTo
  <2>2. CASE i # 0
    <3>1. r[i] = step[i - 1][r[i - 1]] /\ r[i - 1] \in Nat
      BY <1>2, <1>3, <2>2 DEF RecursTo
    <3> HIDE DEF digit
    <3> QED BY <1>3, <2>2, <3>1
  <2> QED BY <2>1, <2>2
<1>5. sum = Body(sum)
  BY <1>4, Zenon
<1>6. sum[0] = 0
  <2>1. 0 \in 0..Width
    BY AllocationAssumption
  <2> HIDE DEF digit
  <2> QED BY <1>5, <2>1
<1>7. \A i \in 0..(Width - 1) : sum[i + 1] = sum[i] + Power[i] * digit(i)
  <2>1. \A i \in 0..(Width - 1) : i + 1 \in 0..Width /\ i + 1 # 0 /\ (i + 1) - 1 = i
    BY AllocationAssumption
  <2> HIDE DEF digit
  <2> QED BY <1>5, <2>1
<1> QED BY <1>6, <1>7

\* One digit: what is carried on and what is kept make up the digit and the carry.
\* One digit: what is kept and what is carried on make up the digit and the carry.
LEMMA OneDigit ==
  ASSUME NEW d \in Nat, NEW c \in Nat
  PROVE  LET kept == (d + c) % Radix
             on == (c \div Radix) + (d + (c % Radix)) \div Radix
         IN  kept \in 0..(Radix - 1) /\ on \in Nat /\ kept + Radix * on = d + c
<1> DEFINE q == c \div Radix
           r == c % Radix
           e == d + r
           q2 == e \div Radix
           r2 == e % Radix
<1>0. Radix \in Nat \ {0}
  BY AllocationAssumption
<1>1. q \in Nat /\ r \in Nat /\ c = Radix * q + r
  BY <1>0, DivMod
<1> HIDE DEF q, r
<1>2. e \in Nat
  BY <1>1
<1>3. q2 \in Nat /\ r2 \in 0..(Radix - 1) /\ e = Radix * q2 + r2
  <2> HIDE DEF e
  <2> QED BY <1>0, <1>2, DivMod
<1>4. d + c = Radix * q + e
  BY <1>0, <1>1
<1> HIDE DEF q2, r2, e
<1>5. d + c = Radix * (q + q2) + r2 /\ q + q2 \in Nat
  BY <1>0, <1>1, <1>3, <1>4
<1>6. (d + c) % Radix = r2
  <2> DEFINE s == q + q2
             x == d + c
  <2>1. s \in Nat /\ x = Radix * s + r2
    BY <1>5
  <2> HIDE DEF s, x
  <2>2. x % Radix = r2
    BY <1>0, <1>3, <2>1, DivModUnique
  <2> QED BY <2>2 DEF x
<1> QED BY <1>0, <1>3, <1>5, <1>6 DEF q, r, e, q2, r2

\* What a number leaves of itself modulo the next power.
LEMMA NextDigit ==
  ASSUME NEW a \in Nat, NEW i \in Nat
  PROVE  a % Power[i + 1] = (a % Power[i]) + Power[i] * Digit(a, i)
<1> DEFINE P == Power[i]
           q == a \div P
           r == a % P
           q2 == q \div Radix
           d == q % Radix
<1>1. P \in Nat \ {0} /\ Radix \in Nat \ {0} /\ Power[i + 1] = Radix * P
  BY PowerDef, AllocationAssumption
<1> HIDE DEF P
<1>2. q \in Nat /\ r \in 0..(P - 1) /\ a = P * q + r
  BY <1>1, DivMod
<1> HIDE DEF q, r
<1>3. q2 \in Nat /\ d \in 0..(Radix - 1) /\ q = Radix * q2 + d
  BY <1>1, <1>2, DivMod
<1> HIDE DEF q2, d
<1> DEFINE n == Radix * P
           x == P * d + r
<1>4. n \in Nat \ {0}
  BY <1>1
<1>5. x \in 0..(n - 1)
  <2>1. d <= Radix - 1 /\ r <= P - 1
    BY <1>1, <1>2, <1>3
  <2>2. P * d <= P * (Radix - 1)
    BY <1>1, <1>3, <2>1
  <2>3. P * (Radix - 1) = n - P
    BY <1>1
  <2>4. P * d \in Nat
    BY <1>1, <1>3
  <2> HIDE DEF n
  <2> QED BY <1>1, <1>2, <1>4, <2>1, <2>2, <2>3, <2>4
<1>6. a = n * q2 + x
  <2>1. P * q = P * (Radix * q2) + P * d
    BY <1>1, <1>3
  <2>2. P * (Radix * q2) = (Radix * P) * q2
    BY <1>1, <1>3
  <2>3. P * d \in Nat /\ P * q \in Nat /\ n * q2 \in Nat
    BY <1>1, <1>2, <1>3
  <2> QED BY <1>2, <2>1, <2>2, <2>3
<1> HIDE DEF n, x
<1>7. a % n = x
  BY <1>3, <1>4, <1>5, <1>6, DivModUnique
<1> QED BY <1>1, <1>7 DEF n, x, r, d, q, P, Digit
LEMMA SpaceType == Space \in Nat \ {0} /\ Space >= 2
<1>1. Width - 1 \in Nat /\ (Width - 1) + 1 = Width
  BY AllocationAssumption
<1>2. Power[Width] = Radix * Power[Width - 1] /\ Power[Width - 1] \in Nat \ {0}
  BY <1>1, PowerDef
<1> QED BY <1>2, AllocationAssumption DEF Space

\* Addition digit by digit is addition, whatever the radix, the width and the
\* offset, which is the carry into the last digit (AddOffset).
THEOREM AddOffsetIsAddition ==
  ASSUME NEW a \in Address, NEW o \in Nat
  PROVE  AddOffset(a, o) = IF a + o < Space THEN a + o ELSE NoAddress
<1> DEFINE carry == Carries(a, o)
           sum == CHOOSE g : g = [i \in 0..Width |-> IF i = 0 THEN 0
                    ELSE g[i - 1] + Power[i - 1] * ((Digit(a, i - 1) + carry[i - 1]) % Radix)]
<1>0. a \in Nat /\ a < Space
  BY SpaceType DEF Address
<1>1. AddOffset(a, o) = IF carry[Width] # 0 THEN NoAddress ELSE sum[Width]
  BY DEF AddOffset
<1>2. /\ carry \in [0..Width -> Nat] /\ carry[0] = o
      /\ \A i \in 0..(Width - 1) :
           carry[i + 1] = (carry[i] \div Radix) + (Digit(a, i) + (carry[i] % Radix)) \div Radix
  BY <1>0, CarriesDef
<1> HIDE DEF carry
<1>3. /\ sum[0] = 0
      /\ \A i \in 0..(Width - 1) :
           sum[i + 1] = sum[i] + Power[i] * ((Digit(a, i) + carry[i]) % Radix)
  BY <1>0, <1>2, SumDef
<1> HIDE DEF sum
<1> DEFINE Holds(i) == /\ sum[i] \in 0..(Power[i] - 1)
                       /\ sum[i] + Power[i] * carry[i] = (a % Power[i]) + o
           S == {i \in Nat : i \in 0..Width => Holds(i)}
<1>4. 0 \in S
  <2>1. Power[0] = 1 /\ a % 1 = 0
    BY <1>0, DivMod, PowerDef
  <2>2. sum[0] \in 0..(1 - 1) /\ sum[0] + 1 * carry[0] = 0 + o
    BY <1>2, <1>3
  <2> QED BY <2>1, <2>2
<1>5. ASSUME NEW i \in S PROVE i + 1 \in S
  <2> SUFFICES ASSUME i + 1 \in 0..Width PROVE Holds(i + 1)
    OBVIOUS
  <2>1. i \in Nat /\ i \in 0..(Width - 1) /\ Holds(i) /\ carry[i] \in Nat
    BY <1>2, <1>5, AllocationAssumption
  <2> DEFINE P == Power[i]
             d == Digit(a, i)
             c == carry[i]
             kept == (d + c) % Radix
             on == carry[i + 1]
             s == sum[i]
             t == sum[i + 1]
             m == a % P
  <2>2. P \in Nat \ {0} /\ Power[i + 1] = Radix * P /\ Radix \in Nat \ {0}
    BY <2>1, PowerDef, AllocationAssumption
  <2>3. d \in Nat
    BY <1>0, <2>1, <2>2, DigitType
  <2>4. on = (c \div Radix) + (d + (c % Radix)) \div Radix
    BY <1>2, <2>1
  <2>5. kept \in 0..(Radix - 1) /\ on \in Nat /\ kept + Radix * on = d + c
    <3> HIDE DEF d, c
    <3> QED BY <2>1, <2>3, <2>4, OneDigit DEF c
  <2>6. t = s + P * kept
    BY <1>3, <2>1
  <2>7. a % Power[i + 1] = m + P * d
    BY <1>0, <2>1, NextDigit
  <2>8. s \in 0..(P - 1) /\ s + P * c = m + o /\ m \in Nat /\ c \in Nat
    <3>1. m \in Nat
      <4> HIDE DEF P
      <4> QED BY <1>0, <2>2, DivMod
    <3> QED BY <2>1, <3>1
  <2> HIDE DEF P, d, c, kept, on, s, t, m
  <2>9. t \in 0..(Radix * P - 1)
    <3>1. P * kept <= P * (Radix - 1) /\ P * kept \in Nat
      BY <2>2, <2>5
    <3>2. P * (Radix - 1) = Radix * P - P /\ Radix * P \in Nat
      BY <2>2
    <3> QED BY <2>2, <2>6, <2>8, <3>1, <3>2
  <2>10. t + (Radix * P) * on = (m + P * d) + o
    <3>1. P * (kept + Radix * on) = P * kept + (Radix * P) * on
      BY <2>2, <2>5
    <3>2. P * (d + c) = P * d + P * c
      BY <2>2, <2>3, <2>8
    <3>3. P * kept \in Nat /\ (Radix * P) * on \in Nat /\ P * d \in Nat /\ P * c \in Nat
      BY <2>2, <2>3, <2>5, <2>8
    <3>4. P * kept + (Radix * P) * on = P * d + P * c
      BY <2>5, <3>1, <3>2
    <3> QED BY <2>6, <2>8, <3>3, <3>4
  <2> QED BY <2>2, <2>7, <2>9, <2>10 DEF t, on
<1>6. Holds(Width)
  <2> HIDE DEF S
  <2>1. S = Nat
    BY <1>4, <1>5, Induction DEF S
  <2> QED BY <2>1, AllocationAssumption DEF S
<1>7. a % Space = a
  <2>1. (Space * 0 + a) % Space = a
    BY <1>0, SpaceType, DivModUnique
  <2> QED BY <1>0, <2>1, SpaceType
<1>8. sum[Width] \in 0..(Space - 1) /\ sum[Width] + Space * carry[Width] = a + o
  BY <1>6, <1>7 DEF Space
<1>9. carry[Width] \in Nat
  BY <1>2, AllocationAssumption
<1>10. CASE carry[Width] = 0
  BY <1>0, <1>1, <1>8, <1>10, SpaceType
<1>11. CASE carry[Width] # 0
  <2>1. Space * carry[Width] >= Space /\ Space * carry[Width] \in Nat
    BY <1>9, <1>11, SpaceType
  <2>2. ~(a + o < Space)
    BY <1>0, <1>8, <2>1, SpaceType
  <2> QED BY <1>1, <1>11, <2>2
<1> QED BY <1>10, <1>11

-----------------------------------------------------------------------------
(***************************************************************************)
(* Selection by rank.  Where B[i] is what comes before i in an order of    *)
(* all elements of D, the number of its elements is the place of i.        *)
(***************************************************************************)
Order(D, B) ==
  /\ B \in [D -> SUBSET D]
  /\ \A i \in D : i \notin B[i]
  /\ \A i, j \in D : i # j => i \in B[j] \/ j \in B[i]
  /\ \A i, j \in D : i \in B[j] => B[i] \subseteq B[j]

Ranked(D, B) ==
  /\ \A i \in D : Cardinality(B[i]) \in 0..(Cardinality(D) - 1)
  /\ \A i, j \in D : i \in B[j] => Cardinality(B[i]) < Cardinality(B[j])
  /\ \A i, j \in D : Cardinality(B[i]) = Cardinality(B[j]) => i = j
  /\ \A k \in 0..(Cardinality(D) - 1) : \E i \in D : Cardinality(B[i]) = k

LEMMA Ranks ==
  ASSUME NEW D, IsFiniteSet(D), NEW B, Order(D, B)
  PROVE  Ranked(D, B)
<1> DEFINE size == Cardinality(D)
           T == 0..(size - 1)
           rank == [i \in D |-> Cardinality(B[i])]
<1>1. size \in Nat
  BY FS_CardinalityType
<1>2. \A i \in D : IsFiniteSet(B[i]) /\ Cardinality(B[i]) \in Nat
  <2> SUFFICES ASSUME NEW i \in D PROVE IsFiniteSet(B[i]) /\ Cardinality(B[i]) \in Nat
    OBVIOUS
  <2>1. B[i] \in SUBSET D
    BY DEF Order
  <2>2. IsFiniteSet(B[i])
    BY <2>1, FS_Subset
  <2> QED BY <2>2, FS_CardinalityType
<1>3. ASSUME NEW i \in D, NEW j \in D, i \in B[j] PROVE Cardinality(B[i]) < Cardinality(B[j])
  <2>1. B[i] \in SUBSET B[j] /\ B[i] # B[j]
    BY <1>3 DEF Order
  <2>2. Cardinality(B[i]) <= Cardinality(B[j]) /\ Cardinality(B[i]) # Cardinality(B[j])
    BY <1>2, <2>1, FS_Subset
  <2> QED BY <1>2, <2>2
<1>4. ASSUME NEW i \in D PROVE Cardinality(B[i]) \in T
  <2>1. B[i] \in SUBSET D /\ B[i] # D
    BY DEF Order
  <2>2. Cardinality(B[i]) <= size /\ Cardinality(B[i]) # size
    BY <2>1, FS_Subset
  <2> QED BY <1>1, <1>2, <2>2
<1>5. ASSUME NEW i \in D, NEW j \in D, Cardinality(B[i]) = Cardinality(B[j]) PROVE i = j
  <2> SUFFICES ASSUME i # j PROVE FALSE
    OBVIOUS
  <2>1. CASE i \in B[j]
    BY <1>2, <1>3, <1>5, <2>1
  <2>2. CASE j \in B[i]
    BY <1>2, <1>3, <1>5, <2>2
  <2> QED BY <2>1, <2>2 DEF Order
<1>6. rank \in Injection(D, T)
  <2> HIDE DEF T
  <2>1. rank \in [D -> T] /\ \A i, j \in D : rank[i] = rank[j] => i = j
    BY <1>4, <1>5
  <2> HIDE DEF rank
  <2> QED BY <2>1 DEF Injection, IsInjective
<1>7. rank \in Surjection(D, T)
  <2>1. IsFiniteSet(T) /\ Cardinality(T) = size
    BY <1>1, FS_Interval
  <2> HIDE DEF T, rank
  <2> QED BY <1>6, <2>1, FS_Injection
<1>8. \A k \in T : \E i \in D : Cardinality(B[i]) = k
  <2> HIDE DEF T
  <2>1. \A k \in T : \E i \in D : rank[i] = k
    <3> HIDE DEF rank
    <3> QED BY <1>7 DEF Surjection
  <2> QED BY <2>1
<1> QED BY <1>3, <1>4, <1>5, <1>8 DEF Ranked

\* The n smallest elements of a finite set, in order.
LEMMA SmallestElements ==
  ASSUME NEW S \in SUBSET Nat, IsFiniteSet(S), NEW n \in Nat, n <= Cardinality(S)
  PROVE  /\ Smallest(n, S) \in [1..n -> S]
         /\ \A j, k \in 1..n : j < k => Smallest(n, S)[j] < Smallest(n, S)[k]
<1> DEFINE B == [x \in S |-> {y \in S : y < x}]
           f == Smallest(n, S)
<1>1. Order(S, B)
  <2>1. B \in [S -> SUBSET S] /\ \A x \in S : x \notin B[x]
    OBVIOUS
  <2>2. \A x, y \in S : x # y => x \in B[y] \/ y \in B[x]
    OBVIOUS
  <2>3. \A x, y \in S : x \in B[y] => B[x] \subseteq B[y]
    <3> SUFFICES ASSUME NEW x \in S, NEW y \in S, x < y, NEW z \in S, z < x PROVE z < y
      OBVIOUS
    <3>1. x \in Nat /\ y \in Nat /\ z \in Nat
      OBVIOUS
    <3> QED BY <3>1
  <2> HIDE DEF B
  <2> QED BY <2>1, <2>2, <2>3 DEF Order
<1>2. Cardinality(S) \in Nat
  BY FS_CardinalityType
<1>3. Ranked(S, B)
  BY <1>1, Ranks
<1>4. ASSUME NEW k \in 1..n PROVE f[k] \in S /\ Cardinality(B[f[k]]) = k - 1
  <2>1. k - 1 \in 0..(Cardinality(S) - 1)
    BY <1>2
  <2>2. \E x \in S : Cardinality(B[x]) = k - 1
    <3> HIDE DEF B
    <3> QED BY <1>3, <2>1 DEF Ranked
  <2>3. \E x \in S : Cardinality({y \in S : y < x}) = k - 1
    BY <2>2
  <2>4. f[k] = CHOOSE x \in S : Cardinality({y \in S : y < x}) = k - 1
    BY DEF Smallest
  <2> HIDE DEF f
  <2>5. f[k] \in S /\ Cardinality({y \in S : y < f[k]}) = k - 1
    BY <2>3, <2>4
  <2> QED BY <2>5
<1>5. f \in [1..n -> S]
  <2>1. \A k \in 1..n : (CHOOSE x \in S : Cardinality({y \in S : y < x}) = k - 1) \in S
    BY <1>4 DEF Smallest
  <2> QED BY <2>1 DEF Smallest
<1>6. ASSUME NEW j \in 1..n, NEW k \in 1..n, j < k PROVE f[j] < f[k]
  <2> SUFFICES ASSUME ~(f[j] < f[k]) PROVE FALSE
    OBVIOUS
  <2>1. f[j] \in S /\ f[k] \in S /\ Cardinality(B[f[j]]) = j - 1 /\ Cardinality(B[f[k]]) = k - 1
    BY <1>4
  <2> HIDE DEF f, B
  <2>2. f[j] \in Nat /\ f[k] \in Nat /\ f[j] # f[k]
    <3>1. j - 1 # k - 1
      BY <1>6
    <3>2. f[j] # f[k]
      BY <2>1, <3>1
    <3> QED BY <2>1, <3>2
  <2>3. f[k] \in B[f[j]]
    BY <2>1, <2>2 DEF B
  <2>4. Cardinality(B[f[k]]) < Cardinality(B[f[j]])
    BY <1>3, <2>1, <2>3 DEF Ranked
  <2> QED BY <1>6, <2>1, <2>4
<1> QED BY <1>5, <1>6 DEF f
\* Without keeps elements in their order, and none that it is to leave out.
Keeps(f, kept, of, S) ==
  /\ f \in [DOMAIN kept -> DOMAIN of \ S]
  /\ \A j, k \in DOMAIN kept : j < k => f[j] < f[k]
  /\ \A k \in DOMAIN kept : kept[k] = of[f[k]]

LEMMA WithoutKeeps ==
  ASSUME NEW T, NEW of \in Seq(T), NEW S
  PROVE  Without(of, S) \in Seq(T) /\ \E f : Keeps(f, Without(of, S), of, S)
<1> DEFINE kept == DOMAIN of \ S
           n == Cardinality(kept)
           f == Smallest(n, kept)
           w == [k \in 1..n |-> of[f[k]]]
<1>1. Without(of, S) = w
  BY DEF Without
<1>2. kept \in SUBSET Nat /\ IsFiniteSet(kept) /\ DOMAIN of = 1..Len(of)
  <2>1. DOMAIN of = 1..Len(of) /\ Len(of) \in Nat
    OBVIOUS
  <2>2. IsFiniteSet(1..Len(of))
    BY <2>1, FS_Interval
  <2> QED BY <2>1, <2>2, FS_Subset
<1> HIDE DEF kept
<1>3. n \in Nat
  BY <1>2, FS_CardinalityType
<1>4. f \in [1..n -> kept] /\ \A j, k \in 1..n : j < k => f[j] < f[k]
  BY <1>2, <1>3, SmallestElements
<1> HIDE DEF n, f
<1>5. \A k \in 1..n : of[f[k]] \in T
  BY <1>2, <1>4 DEF kept
<1>6. w \in Seq(T) /\ DOMAIN w = 1..n
  BY <1>3, <1>5
<1>7. Keeps(f, w, of, S)
  BY <1>4, <1>6 DEF Keeps, kept
<1> QED BY <1>1, <1>6, <1>7

\* The text list: an entry for each proxy, and for nothing else.
LEMMA FormatListEntries ==
  ASSUME NEW proxies \in Seq(Proxy)
  PROVE  /\ FormatList(proxies) \in Seq(ListEntry)
         /\ FormatList(proxies) = <<>> => proxies = <<>>
         /\ proxies = <<>> => FormatList(proxies) = <<>>
         /\ \A k \in DOMAIN FormatList(proxies) : \E i \in DOMAIN proxies :
              FormatList(proxies)[k] = Entry(proxies[i])
<1> DEFINE n == Len(proxies)
           D == DOMAIN proxies
           B == [i \in D |-> Before(proxies, i)]
           at(k) == CHOOSE i \in D : Cardinality(Before(proxies, i)) = k - 1
           w == [k \in D |-> Entry(proxies[at(k)])]
<1>1. D = 1..n /\ n \in Nat /\ IsFiniteSet(D) /\ Cardinality(D) = n
  <2>1. D = 1..n /\ n \in Nat
    OBVIOUS
  <2>2. IsFiniteSet(1..n) /\ Cardinality(1..n) = n
    BY <2>1, FS_Interval
  <2> QED BY <2>1, <2>2
<1>2. FormatList(proxies) = w
  BY DEF FormatList
<1>3. \A i \in D : proxies[i] \in Proxy /\ proxies[i].port \in Nat /\ i \in Nat
  <2>1. \A i \in D : proxies[i] \in Proxy /\ i \in Nat
    BY <1>1
  <2>2. \A p \in Proxy : p.port \in Nat
    BY AllocationAssumption DEF Proxy, Port
  <2> QED BY <2>1, <2>2
<1>4. Order(D, B)
  <2>1. B \in [D -> SUBSET D] /\ \A i \in D : i \notin B[i]
    BY <1>3 DEF Before
  <2>2. \A i, j \in D : i # j => i \in B[j] \/ j \in B[i]
    BY <1>3 DEF Before
  <2>3. \A i, j \in D : i \in B[j] => B[i] \subseteq B[j]
    <3> SUFFICES ASSUME NEW i \in D, NEW j \in D, i \in B[j], NEW h \in B[i] PROVE h \in B[j]
      OBVIOUS
    <3> QED BY <1>3 DEF Before
  <2> HIDE DEF B
  <2> QED BY <2>1, <2>2, <2>3 DEF Order
<1>5. \A k \in D : at(k) \in D
  <2> SUFFICES ASSUME NEW k \in D PROVE \E i \in D : Cardinality(Before(proxies, i)) = k - 1
    OBVIOUS
  <2>1. Ranked(D, B)
    <3> HIDE DEF B
    <3> QED BY <1>1, <1>4, Ranks
  <2>2. k - 1 \in 0..(Cardinality(D) - 1)
    BY <1>1
  <2>3. \E i \in D : Cardinality(B[i]) = k - 1
    <3> HIDE DEF B, D
    <3> QED BY <2>1, <2>2 DEF Ranked
  <2> QED BY <2>3
<1> HIDE DEF at
<1>6. \A k \in D : Entry(proxies[at(k)]) \in ListEntry
  BY <1>3, <1>5 DEF Entry, Proxy, ListEntry
<1>7. w \in Seq(ListEntry) /\ DOMAIN w = D
  BY <1>1, <1>6
<1>8. (w = <<>> => proxies = <<>>) /\ (proxies = <<>> => w = <<>>)
  BY <1>1, <1>7
<1>9. \A k \in D : \E i \in D : w[k] = Entry(proxies[i])
  BY <1>5
<1> HIDE DEF w
<1> QED BY <1>2, <1>7, <1>8, <1>9
\* What is imported: an entry and a service each, on ports below the next one.
FromSetup(p, entries, services) ==
  /\ p.port \in DOMAIN services /\ p.text = services[p.port] /\ p.enabled = TRUE
  /\ \E j \in DOMAIN entries : p.port = entries[j].port

LEMMA ImportedList ==
  ASSUME NEW s, NEW entries \in Seq(ListEntry), NEW services,
         \A port \in DOMAIN services : services[port] \in Text,
         s.nextPort \in FirstPort..(LastPort + 2)
  PROVE  \E a, b :
           /\ Imported(s, entries, services) = [s EXCEPT !.proxies = a, !.nextPort = b]
           /\ \A t : \E c : Imported(t, entries, services) = [t EXCEPT !.proxies = a, !.nextPort = c]
           /\ a \in Seq(Proxy) /\ b \in s.nextPort..(LastPort + 2)
           /\ \A i \in DOMAIN a : a[i].port < b /\ FromSetup(a[i], entries, services)
<1> DEFINE S == {i \in DOMAIN entries : entries[i].port \notin DOMAIN services}
           kept == Without(entries, S)
           a == [i \in DOMAIN kept |-> [port |-> kept[i].port, text |-> services[kept[i].port],
                                        cred |-> kept[i].cred, enabled |-> TRUE]]
           ends(t) == {t.nextPort} \union {kept[i].port + 1 : i \in DOMAIN kept}
           next(t) == CHOOSE p \in ends(t) : \A q \in ends(t) : q <= p
<1>1. \A t : Imported(t, entries, services) = [t EXCEPT !.proxies = a, !.nextPort = next(t)]
  BY DEF Imported
<1>2. kept \in Seq(ListEntry) /\ \E f : Keeps(f, kept, entries, S)
  <2> HIDE DEF S
  <2> QED BY WithoutKeeps
<1> HIDE DEF kept
<1>3. PICK f : Keeps(f, kept, entries, S)
  BY <1>2
<1>4. DOMAIN kept = 1..Len(kept) /\ Len(kept) \in Nat /\ \A i \in DOMAIN kept : kept[i] \in ListEntry
  BY <1>2
<1>5. ASSUME NEW i \in DOMAIN kept
      PROVE  /\ kept[i].port \in Port /\ kept[i].cred \in Credential
             /\ kept[i].port \in DOMAIN services
             /\ \E j \in DOMAIN entries : kept[i].port = entries[j].port
  <2>1. kept[i] \in ListEntry
    BY <1>4
  <2>2. f[i] \in DOMAIN entries /\ f[i] \notin S /\ kept[i] = entries[f[i]]
    BY <1>3 DEF Keeps
  <2> QED BY <2>1, <2>2 DEF ListEntry
<1>6. a \in Seq(Proxy) /\ DOMAIN a = DOMAIN kept
  <2>1. \A i \in DOMAIN kept : a[i] \in Proxy
    BY <1>5 DEF Proxy
  <2> QED BY <1>4, <2>1
<1>7. next(s) \in s.nextPort..(LastPort + 2) /\ \A i \in DOMAIN kept : kept[i].port + 1 <= next(s)
  <2>1. ends(s) \in SUBSET Nat /\ ends(s) # {} /\ \A q \in ends(s) : q <= LastPort + 2
    <3>1. \A i \in DOMAIN kept : kept[i].port \in Nat /\ kept[i].port <= LastPort + 1
      BY <1>5, AllocationAssumption DEF Port
    <3> QED BY <3>1, AllocationAssumption
  <2>2. s.nextPort \in ends(s) /\ \A i \in DOMAIN kept : kept[i].port + 1 \in ends(s)
    OBVIOUS
  <2> HIDE DEF ends
  <2>3. \E p \in ends(s) : \A q \in ends(s) : q <= p
    <3> DEFINE b == LastPort + 2
    <3>1. b \in Nat /\ \A q \in ends(s) : q <= b
      BY <2>1, AllocationAssumption
    <3> HIDE DEF b
    <3> QED BY <2>1, <3>1, Greatest
  <2>4. next(s) \in ends(s) /\ \A q \in ends(s) : q <= next(s)
    BY <2>3
  <2> HIDE DEF next
  <2> QED BY <2>1, <2>2, <2>4, AllocationAssumption
<1>8. ASSUME NEW i \in DOMAIN a PROVE a[i].port < next(s) /\ FromSetup(a[i], entries, services)
  <2>1. /\ a[i].port = kept[i].port /\ a[i].text = services[kept[i].port] /\ a[i].enabled = TRUE
        /\ i \in DOMAIN kept
    BY <1>6
  <2>2. kept[i].port \in Nat
    BY <1>5, <1>6, AllocationAssumption DEF Port
  <2> HIDE DEF a, next
  <2>3. next(s) \in Nat
    BY <1>7, AllocationAssumption
  <2> QED BY <1>5, <1>7, <2>1, <2>2, <2>3 DEF FromSetup
<1> HIDE DEF a, next
<1>9. \A t : \E c : Imported(t, entries, services) = [t EXCEPT !.proxies = a, !.nextPort = c]
  BY <1>1, Zenon
<1>10. Imported(s, entries, services) = [s EXCEPT !.proxies = a, !.nextPort = next(s)]
  BY <1>1, Zenon
<1> QED BY <1>6, <1>7, <1>8, <1>9, <1>10, Zenon

\* What Allocate creates: on new ports, in order, and below the next one; at
\* addresses of the prefix that no proxy has.
Created(s, created, nextPort) ==
  /\ created \in Seq(Proxy)
  /\ \A i \in DOMAIN created :
       /\ created[i].port \in s.nextPort..LastPort /\ created[i].port < nextPort
       /\ created[i].port \notin Ports(s.proxies)
       /\ created[i].text.canonical /\ created[i].text \notin Texts(s.proxies)
  /\ \A i, j \in DOMAIN created :
       i # j => created[i].port # created[j].port /\ created[i].text.ip # created[j].text.ip

LEMMA AllocateCreates ==
  ASSUME NEW s, s.nextPort \in Nat \ {0}, s.nextOffset \in Nat,
         s.prefix.lo \in Address, s.prefix.hi \in Address,
         NEW n \in Nat \ {0}, CanAllocate(s, n), NEW pass \in Nat
  PROVE  \E created, nextPort, nextOffset :
           /\ Allocate(s, n, pass) = [s EXCEPT !.proxies = s.proxies \o created,
                                               !.nextPort = nextPort, !.nextOffset = nextOffset]
           /\ Created(s, created, nextPort)
           /\ nextPort \in s.nextPort..(LastPort + 1) /\ nextOffset \in 1..(Space + 1)
<1> DEFINE ports == Smallest(n, FreePorts(s))
           offsets == Smallest(n, FreeOffsets(s))
           created == [k \in 1..n |->
                         [port    |-> ports[k],
                          text    |-> Spelled(AddOffset(s.prefix.lo, offsets[k])),
                          cred    |-> Credentials(ports[k], pass),
                          enabled |-> TRUE]]
           nextPort == ports[n] + 1
           nextOffset == offsets[n] + 1
<1>1. FreePorts(s) \in SUBSET Nat /\ IsFiniteSet(FreePorts(s))
  <2>1. FreePorts(s) \in SUBSET (s.nextPort..LastPort)
    BY DEF FreePorts
  <2>2. IsFiniteSet(s.nextPort..LastPort) /\ s.nextPort..LastPort \subseteq Nat
    <3>1. s.nextPort \in Int /\ LastPort \in Int
      BY AllocationAssumption
    <3>2. s.nextPort..LastPort \subseteq Nat
      BY AllocationAssumption
    <3> QED BY <3>1, <3>2, FS_Interval
  <2> QED BY <2>1, <2>2, FS_Subset
<1>2. FreeOffsets(s) \in SUBSET Nat /\ IsFiniteSet(FreeOffsets(s))
  <2>1. FreeOffsets(s) \in SUBSET (s.nextOffset..Space)
    BY DEF FreeOffsets
  <2>2. IsFiniteSet(s.nextOffset..Space) /\ s.nextOffset..Space \subseteq Nat
    <3>1. s.nextOffset \in Int /\ Space \in Int
      BY SpaceType
    <3>2. s.nextOffset..Space \subseteq Nat
      OBVIOUS
    <3> QED BY <3>1, <3>2, FS_Interval
  <2> QED BY <2>1, <2>2, FS_Subset
<1>3. ports \in [1..n -> FreePorts(s)] /\ \A j, k \in 1..n : j < k => ports[j] < ports[k]
  BY <1>1, SmallestElements DEF CanAllocate
<1>4. offsets \in [1..n -> FreeOffsets(s)] /\ \A j, k \in 1..n : j < k => offsets[j] < offsets[k]
  BY <1>2, SmallestElements DEF CanAllocate
<1>5. Len(ports) = n
  BY DEF Smallest
<1>6. Allocate(s, n, pass) = [s EXCEPT !.proxies = s.proxies \o created,
                                       !.nextPort = nextPort, !.nextOffset = nextOffset]
  BY <1>5 DEF Allocate, NextPort
<1> HIDE DEF ports, offsets
<1>7. n \in 1..n
  OBVIOUS
<1>8. \A k \in 1..n : ports[k] \in s.nextPort..LastPort /\ ports[k] \notin Ports(s.proxies)
                      /\ ports[k] \in Port /\ ports[k] < nextPort
  <2> SUFFICES ASSUME NEW k \in 1..n
               PROVE  /\ ports[k] \in s.nextPort..LastPort /\ ports[k] \notin Ports(s.proxies)
                      /\ ports[k] \in Port /\ ports[k] < nextPort
    OBVIOUS
  <2>1. ports[k] \in s.nextPort..LastPort /\ ports[k] \notin Ports(s.proxies)
    BY <1>3 DEF FreePorts
  <2>2. ports[n] \in s.nextPort..LastPort
    BY <1>3, <1>7 DEF FreePorts
  <2>3. k = n \/ k < n
    OBVIOUS
  <2>4. k = n \/ ports[k] < ports[n]
    BY <1>3, <1>7, <2>3
  <2> QED BY <2>1, <2>2, <2>4, AllocationAssumption DEF Port
<1>9. ASSUME NEW k \in 1..n
      PROVE  LET ip == AddOffset(s.prefix.lo, offsets[k]) IN
             /\ offsets[k] \in s.nextOffset..Space
             /\ ip = s.prefix.lo + offsets[k] /\ ip \in Address
             /\ Spelled(ip) \notin Texts(s.proxies)
  <2> DEFINE o == offsets[k]
             ip == AddOffset(s.prefix.lo, o)
  <2>1. o \in s.nextOffset..Space /\ In(ip, s.prefix) /\ Spelled(ip) \notin Texts(s.proxies)
    BY <1>4 DEF FreeOffsets
  <2>2. o \in Nat
    BY <2>1, SpaceType
  <2> HIDE DEF o
  <2>3. ip = IF s.prefix.lo + o < Space THEN s.prefix.lo + o ELSE NoAddress
    BY <2>2, AddOffsetIsAddition
  <2>4. s.prefix.lo \in Nat /\ s.prefix.hi < Space /\ s.prefix.hi \in Nat
    BY SpaceType DEF Address
  <2>5. ip <= s.prefix.hi
    BY <2>1 DEF In
  <2> HIDE DEF ip
  <2>6. ip = s.prefix.lo + o /\ ip < Space
    BY <2>2, <2>3, <2>4, <2>5, SpaceType DEF NoAddress
  <2>7. ip \in Address
    BY <2>2, <2>4, <2>6, SpaceType DEF Address
  <2> QED BY <2>1, <2>6, <2>7 DEF ip, o
<1>10. created \in Seq(Proxy) /\ DOMAIN created = 1..n
  <2>1. \A k \in 1..n : Spelled(AddOffset(s.prefix.lo, offsets[k])) \in Text
    BY <1>9 DEF Spelled, Text
  <2>2. \A k \in 1..n : Credentials(ports[k], pass) \in Credential
    BY <1>8, AllocationAssumption DEF Credentials, Credential, Custom, Port
  <2>3. \A k \in 1..n : created[k] \in Proxy
    BY <1>8, <2>1, <2>2 DEF Proxy
  <2>4. created \in [1..n -> Proxy]
    BY <2>3
  <2> HIDE DEF created
  <2> QED BY <2>4
<1>11. \A j, k \in 1..n : j # k =>
         /\ ports[j] # ports[k]
         /\ AddOffset(s.prefix.lo, offsets[j]) # AddOffset(s.prefix.lo, offsets[k])
  <2> SUFFICES ASSUME NEW j \in 1..n, NEW k \in 1..n, j < k
               PROVE  /\ ports[j] # ports[k]
                      /\ AddOffset(s.prefix.lo, offsets[j]) # AddOffset(s.prefix.lo, offsets[k])
    OBVIOUS
  <2>1. ports[j] < ports[k] /\ offsets[j] < offsets[k]
    BY <1>3, <1>4
  <2>2. ports[j] \in Nat /\ ports[k] \in Nat /\ offsets[j] \in Nat /\ offsets[k] \in Nat
    BY <1>1, <1>2, <1>3, <1>4
  <2>3. s.prefix.lo \in Nat
    BY SpaceType DEF Address
  <2> QED BY <1>9, <2>1, <2>2, <2>3
<1>12. Created(s, created, nextPort)
  <2>1. \A k \in 1..n : /\ created[k].port = ports[k]
                        /\ created[k].text = Spelled(AddOffset(s.prefix.lo, offsets[k]))
    OBVIOUS
  <2>2. \A ip : Spelled(ip).canonical /\ Spelled(ip).ip = ip
    BY DEF Spelled
  <2> HIDE DEF created, nextPort
  <2> QED BY <1>8, <1>9, <1>10, <1>11, <2>1, <2>2 DEF Created
<1>13. nextPort \in s.nextPort..(LastPort + 1) /\ nextOffset \in 1..(Space + 1)
  BY <1>7, <1>8, <1>9, SpaceType, AllocationAssumption
<1> HIDE DEF created, nextPort, nextOffset
<1> QED BY <1>6, <1>12, <1>13
=============================================================================
