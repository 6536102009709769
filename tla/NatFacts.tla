------------------------------- MODULE NatFacts -------------------------------
(***************************************************************************)
(* Facts about natural numbers that the proofs share: division, induction  *)
(* over a set, recursion, and sums of a function.  The library's induction *)
(* and recursion take an operator, which the provers cannot instantiate;   *)
(* here a set of numbers or a function takes its place.                    *)
(***************************************************************************)
EXTENDS Integers, WellFoundedInduction, TLAPS

-----------------------------------------------------------------------------
(* Division by a positive number *)

\* What x \div b and x % b are.
LEMMA Division ==
  ASSUME NEW b \in Nat \ {0}, NEW x \in Nat
  PROVE  /\ x \div b \in Nat /\ x % b \in 0 .. b - 1
         /\ x = b * (x \div b) + (x % b)
<1> DEFINE q == x \div b
<1>1. q \in Int /\ x % b \in 0 .. b - 1
  OBVIOUS
<1>2. b * q <= x /\ x < b * (q + 1)
  BY Z3
<1>3. q >= 0
  BY <1>1, <1>2, Z3
<1>4. x = b * q + (x % b)
  BY Z3
<1>5. QED
  BY <1>1, <1>3, <1>4

\* A product grows with its factor.
LEMMA ProductGrows ==
  ASSUME NEW b \in Nat, NEW p \in Int, NEW q \in Int, p <= q
  PROVE  b * p <= b * q
  BY Z3

\* Quotient and rest are the only ones.
LEMMA Quotient ==
  ASSUME NEW b \in Nat \ {0}, NEW a \in Nat, NEW r \in 0 .. b - 1, NEW x \in Nat,
         x = b * a + r
  PROVE  x \div b = a /\ x % b = r
<1> DEFINE q == x \div b
           s == x % b
<1>1. q \in Nat /\ s \in 0 .. b - 1 /\ x = b * q + s
  BY Division
<1> HIDE DEF q, s
<1>2. b * a \in Int /\ b * q \in Int
  BY <1>1, Z3
<1>3. CASE q >= a + 1
  <2>1. b * (a + 1) <= b * q
    BY <1>1, <1>3, ProductGrows
  <2>2. b * (a + 1) = b * a + b
    BY Z3
  <2>3. QED
    BY <1>1, <1>2, <2>1, <2>2
<1>4. CASE q + 1 <= a
  <2>1. b * (q + 1) <= b * a
    BY <1>1, <1>4, ProductGrows
  <2>2. b * (q + 1) = b * q + b
    BY <1>1, Z3
  <2>3. QED
    BY <1>1, <1>2, <2>1, <2>2, Z3
<1>5. q = a
  BY <1>1, <1>3, <1>4
<1>6. QED
  BY <1>1, <1>5, Z3 DEF q, s

\* The same operators under names that the provers do not interpret, for the
\* proofs in which a quotient is only a number.
Quot(x, b) == x \div b
Rest(x, b) == x % b
Times(x, b) == x * b

LEMMA TimesType ==
  ASSUME NEW x \in Nat, NEW b \in Nat
  PROVE  Times(x, b) \in Nat /\ Times(x, b) = Times(b, x) /\ (x # 0 /\ b # 0 => Times(x, b) # 0)
  BY Z3 DEF Times

LEMMA TimesGrows ==
  ASSUME NEW b \in Nat, NEW p \in Nat, NEW q \in Nat, p <= q
  PROVE  Times(p, b) <= Times(q, b)
  BY Z3 DEF Times

LEMMA TimesNext ==
  ASSUME NEW b \in Nat, NEW p \in Nat
  PROVE  Times(p + 1, b) = Times(p, b) + b
  BY Z3 DEF Times

LEMMA TimesTimes ==
  ASSUME NEW a \in Nat, NEW b \in Nat, NEW c \in Nat
  PROVE  Times(Times(a, b), c) = Times(a, Times(b, c))
  BY Z3 DEF Times

LEMMA QuotRest ==
  ASSUME NEW b \in Nat \ {0}, NEW x \in Nat
  PROVE  /\ Quot(x, b) \in Nat /\ Rest(x, b) \in 0 .. b - 1
         /\ x = Times(Quot(x, b), b) + Rest(x, b)
<1>1. /\ x \div b \in Nat /\ x % b \in 0 .. b - 1
      /\ x = b * (x \div b) + (x % b)
  BY Division
<1>2. b * (x \div b) = (x \div b) * b
  BY <1>1, Z3
<1>3. QED
  BY <1>1, <1>2, Zenon DEF Quot, Rest, Times

LEMMA QuotRestUnique ==
  ASSUME NEW b \in Nat \ {0}, NEW a \in Nat, NEW r \in 0 .. b - 1, NEW x \in Nat,
         x = Times(a, b) + r
  PROVE  Quot(x, b) = a /\ Rest(x, b) = r
<1>1. x = b * a + r
  BY Z3 DEF Times
<1>2. x \div b = a /\ x % b = r
  BY <1>1, Quotient, SMTT(40)
<1>3. QED
  BY <1>2 DEF Quot, Rest

\* A quotient of a quotient, and the rest of a rest.
LEMMA QuotTwice ==
  ASSUME NEW b \in Nat \ {0}, NEW c \in Nat \ {0}, NEW d, d = Times(c, b), NEW x \in Nat
  PROVE  /\ d \in Nat \ {0}
         /\ Quot(Quot(x, b), c) = Quot(x, d)
         /\ Rest(Quot(x, b), c) = Quot(Rest(x, d), b)
         /\ Rest(Rest(x, d), b) = Rest(x, b)
<1> DEFINE q == Quot(x, b)
           s == Rest(x, b)
           u == Quot(q, c)
           t == Rest(q, c)
           r == Times(t, b) + s
<1>1. q \in Nat /\ s \in 0 .. b - 1 /\ x = Times(q, b) + s
  BY QuotRest
<1>2. u \in Nat /\ t \in 0 .. c - 1 /\ q = Times(u, c) + t
  BY <1>1, QuotRest
<1> HIDE DEF q, s, u, t
<1>3. d \in Nat \ {0} /\ r \in 0 .. d - 1
  <2>1. Times(t + 1, b) <= Times(c, b) /\ Times(t + 1, b) = Times(t, b) + b
    BY <1>2, TimesGrows, TimesNext
  <2>2. Times(t, b) \in Nat /\ Times(c, b) \in Nat \ {0}
    BY <1>2, TimesType
  <2>3. QED
    BY <1>1, <2>1, <2>2
<1>4. x = Times(u, d) + r
  BY <1>1, <1>2, Z3 DEF Times
<1>5. Quot(x, d) = u /\ Rest(x, d) = r
  <2> HIDE DEF r
  <2>1. QED
    BY <1>2, <1>3, <1>4, QuotRestUnique
<1>6. Quot(r, b) = t /\ Rest(r, b) = s
  <2>1. r \in Nat /\ r = Times(t, b) + s
    BY <1>3
  <2> HIDE DEF r
  <2>2. QED
    BY <1>1, <1>2, <2>1, QuotRestUnique
<1>7. QED
  BY <1>3, <1>5, <1>6 DEF q, s, u, t

-----------------------------------------------------------------------------
(* Induction and recursion *)

Precedes == {p \in Nat \X Nat : p[1] < p[2]}

LEMMA PrecedesWellFounded == IsWellFoundedOn(Precedes, Nat)
<1>1. IsWellFoundedOn(OpToRel(<, Nat), Nat)
  BY NatLessThanWellFounded
<1>2. QED
  BY <1>1 DEF OpToRel, Precedes, IsWellFoundedOn

\* A set that has 0 and with each number the next one has all of them.
LEMMA Induction ==
  ASSUME NEW S, 0 \in S, \A n \in Nat : n \in S => n + 1 \in S
  PROVE  \A n \in Nat : n \in S
<1> DEFINE T == Nat \ S
<1>1. SUFFICES ASSUME T # {} PROVE FALSE
  OBVIOUS
<1>2. PICK x \in T : \A y \in T : <<y, x>> \notin Precedes
  <2>1. T \subseteq Nat /\ T # {}
    BY <1>1
  <2> HIDE DEF T
  <2>2. QED
    BY <2>1, PrecedesWellFounded, WFMin
<1>3. x # 0 /\ x \in Nat /\ x - 1 \in Nat /\ x - 1 + 1 = x
  OBVIOUS
<1>4. x - 1 \in S
  <2>1. <<x - 1, x>> \in Precedes
    BY <1>3 DEF Precedes
  <2>2. QED
    BY <1>2, <1>3, <2>1
<1>5. QED
  BY <1>3, <1>4

\* g is the first n steps of the recursion that starts at b.
Approximates(g, n, S, b, step) ==
    /\ g \in [0 .. n -> S]
    /\ g[0] = b
    /\ \A i \in 0 .. n - 1 : g[i + 1] = step[<<g[i], i>>]

\* Two such functions agree where both are defined.
LEMMA ApproximationsAgree ==
  ASSUME NEW S, NEW b, NEW step, NEW n \in Nat, NEW m \in Nat, NEW g, NEW h,
         Approximates(g, n, S, b, step), Approximates(h, m, S, b, step)
  PROVE  \A i \in Nat : (i <= n /\ i <= m) => g[i] = h[i]
<1> DEFINE T == {i \in Nat : (i <= n /\ i <= m) => g[i] = h[i]}
<1>1. 0 \in T
  BY DEF Approximates
<1>2. ASSUME NEW i \in Nat, i \in T PROVE i + 1 \in T
  <2>1. CASE i + 1 <= n /\ i + 1 <= m
    <3>1. i \in 0 .. n - 1 /\ i \in 0 .. m - 1 /\ g[i] = h[i]
      BY <1>2, <2>1
    <3>2. g[i + 1] = step[<<g[i], i>>] /\ h[i + 1] = step[<<h[i], i>>]
      BY <3>1, Zenon DEF Approximates
    <3>3. QED
      BY <3>1, <3>2
  <2>2. CASE ~(i + 1 <= n /\ i + 1 <= m)
    BY <2>2
  <2>3. QED
    BY <2>1, <2>2
<1>3. \A i \in Nat : i \in T
  <2> HIDE DEF T
  <2>1. QED
    BY <1>1, <1>2, Induction
<1>4. QED
  BY <1>3

\* A function on the numbers that starts at b and goes on by step.
Solves(f, S, b, step) ==
    /\ f \in [Nat -> S]
    /\ f[0] = b
    /\ \A n \in Nat : f[n + 1] = step[<<f[n], n>>]

\* A recursion has a solution.
LEMMA Recursion ==
  ASSUME NEW S, NEW b \in S, NEW step \in [S \X Nat -> S]
  PROVE  \E f : Solves(f, S, b, step)
<1> DEFINE T == {n \in Nat : \E g : Approximates(g, n, S, b, step)}
<1>1. 0 \in T
  <2> DEFINE g == [i \in 0 .. 0 |-> b]
  <2>1. Approximates(g, 0, S, b, step)
    BY DEF Approximates
  <2>2. QED
    BY <2>1
<1>2. ASSUME NEW n \in Nat, n \in T PROVE n + 1 \in T
  <2>1. PICK g : Approximates(g, n, S, b, step)
    BY <1>2
  <2> DEFINE h == [i \in 0 .. n + 1 |-> IF i = n + 1 THEN step[<<g[n], n>>] ELSE g[i]]
  <2>2. g \in [0 .. n -> S] /\ g[0] = b /\ \A i \in 0 .. n - 1 : g[i + 1] = step[<<g[i], i>>]
    BY <2>1 DEF Approximates
  <2>3. g[n] \in S /\ step[<<g[n], n>>] \in S
    BY <2>2
  <2>4. h \in [0 .. n + 1 -> S] /\ h[0] = b
    BY <2>2, <2>3
  <2>5. ASSUME NEW i \in 0 .. (n + 1) - 1 PROVE h[i + 1] = step[<<h[i], i>>]
    <3>1. CASE i = n
      <4>1. h[n + 1] = step[<<g[n], n>>] /\ h[n] = g[n]
        OBVIOUS
      <4>2. QED
        BY <3>1, <4>1
    <3>2. CASE i # n
      <4>1. i \in 0 .. n - 1 /\ i + 1 # n + 1 /\ i # n + 1 /\ i + 1 \in 0 .. n + 1 /\ i \in 0 .. n + 1
        BY <3>2
      <4>2. h[i + 1] = g[i + 1] /\ h[i] = g[i]
        BY <4>1
      <4>3. QED
        BY <2>2, <4>1, <4>2
    <3>3. QED
      BY <3>1, <3>2
  <2> HIDE DEF h
  <2>6. Approximates(h, n + 1, S, b, step)
    BY <2>4, <2>5 DEF Approximates
  <2>7. QED
    BY <2>6
<1>3. \A n \in Nat : \E g : Approximates(g, n, S, b, step)
  <2>1. \A n \in Nat : n \in T
    <3> HIDE DEF T
    <3>1. QED
      BY <1>1, <1>2, Induction
  <2>2. QED
    BY <2>1
<1> DEFINE a == [n \in Nat |-> CHOOSE g : Approximates(g, n, S, b, step)]
           f == [n \in Nat |-> a[n][n]]
<1>4. \A n \in Nat : Approximates(a[n], n, S, b, step)
  BY <1>3, Zenon
<1> HIDE DEF a
<1>5. f \in [Nat -> S] /\ f[0] = b
  <2>1. \A n \in Nat : a[n] \in [0 .. n -> S] /\ a[n][0] = b
    BY <1>4, Zenon DEF Approximates
  <2>2. \A n \in Nat : n \in 0 .. n
    OBVIOUS
  <2>3. \A n \in Nat : a[n][n] \in S
    BY <2>1, <2>2
  <2>4. QED
    BY <2>1, <2>3
<1>6. ASSUME NEW n \in Nat PROVE f[n + 1] = step[<<f[n], n>>]
  <2>1. Approximates(a[n], n, S, b, step) /\ Approximates(a[n + 1], n + 1, S, b, step)
    <3>1. n + 1 \in Nat
      OBVIOUS
    <3>2. QED
      BY <1>4, <3>1, Zenon
  <2>2. a[n][n] = a[n + 1][n]
    <3> DEFINE m == n + 1
               g == a[n]
               h == a[m]
    <3>1. m \in Nat /\ n <= n /\ n <= m
      OBVIOUS
    <3>2. Approximates(g, n, S, b, step) /\ Approximates(h, m, S, b, step)
      BY <2>1
    <3> HIDE DEF m, g, h
    <3>3. \A i \in Nat : (i <= n /\ i <= m) => g[i] = h[i]
      BY <3>1, <3>2, ApproximationsAgree
    <3>4. QED
      BY <3>1, <3>3 DEF m, g, h
  <2>3. n \in 0 .. (n + 1) - 1 /\ n + 1 \in Nat
    OBVIOUS
  <2>4. a[n + 1][n + 1] = step[<<a[n + 1][n], n>>]
    BY <2>1, <2>3, Zenon DEF Approximates
  <2>5. QED
    BY <2>2, <2>3, <2>4
<1>7. QED
  BY <1>5, <1>6, Zenon DEF Solves

-----------------------------------------------------------------------------
(* Sums of a function on the numbers *)

\* g[0] + ... + g[k - 1].
Total(g, k) ==
    LET total[i \in Nat] == IF i = 0 THEN 0 ELSE total[i - 1] + g[i - 1]
    IN  total[k]

LEMMA TotalIs ==
  ASSUME NEW g \in [Nat -> Nat]
  PROVE  /\ Total(g, 0) = 0
         /\ \A k \in Nat : Total(g, k) \in Nat /\ Total(g, k + 1) = Total(g, k) + g[k]
<1> DEFINE step == [p \in Nat \X Nat |-> p[1] + g[p[2]]]
           F(f) == [i \in Nat |-> IF i = 0 THEN 0 ELSE f[i - 1] + g[i - 1]]
           total == CHOOSE f : f = F(f)
<1>1. \A k : Total(g, k) = total[k]
  BY Zenon DEF Total
<1>2. step \in [Nat \X Nat -> Nat]
  <2>1. \A p \in Nat \X Nat : p[1] + g[p[2]] \in Nat
    OBVIOUS
  <2>2. QED
    BY <2>1
<1>3. PICK f : Solves(f, Nat, 0, step)
  <2>1. 0 \in Nat
    OBVIOUS
  <2> HIDE DEF step
  <2>2. QED
    BY <1>2, <2>1, Recursion
<1>4. f \in [Nat -> Nat] /\ f[0] = 0 /\ \A i \in Nat : f[i + 1] = f[i] + g[i]
  <2>1. f \in [Nat -> Nat] /\ f[0] = 0 /\ \A i \in Nat : f[i + 1] = step[<<f[i], i>>]
    BY <1>3 DEF Solves
  <2>2. \A i \in Nat : <<f[i], i>> \in Nat \X Nat
    BY <2>1
  <2>3. QED
    BY <2>1, <2>2
<1>5. f = F(f)
  <2>1. \A i \in Nat : f[i] = IF i = 0 THEN 0 ELSE f[i - 1] + g[i - 1]
    <3> TAKE i \in Nat
    <3>1. i = 0 \/ (i - 1 \in Nat /\ (i - 1) + 1 = i)
      OBVIOUS
    <3>2. QED
      BY <1>4, <3>1
  <2>2. QED
    BY <1>4, <2>1
<1>6. total = F(total)
  <2> HIDE DEF F
  <2>1. QED
    BY <1>5
<1> HIDE DEF total
<1>7. \A i \in Nat : total[i] = IF i = 0 THEN 0 ELSE total[i - 1] + g[i - 1]
  BY <1>6
<1>8. total[0] = 0 /\ \A i \in Nat : total[i + 1] = total[i] + g[i]
  <2>1. \A i \in Nat : i + 1 \in Nat /\ i + 1 # 0 /\ (i + 1) - 1 = i
    OBVIOUS
  <2>2. QED
    BY <1>7, <2>1
<1>9. \A k \in Nat : total[k] \in Nat
  <2> DEFINE T == {k \in Nat : total[k] \in Nat}
  <2>1. 0 \in T
    BY <1>8
  <2>2. ASSUME NEW k \in Nat, k \in T PROVE k + 1 \in T
    BY <1>8, <2>2
  <2>3. \A k \in Nat : k \in T
    <3> HIDE DEF T
    <3>1. QED
      BY <2>1, <2>2, Induction
  <2>4. QED
    BY <2>3
<1>10. QED
  BY <1>1, <1>8, <1>9

\* A sum of what two others bound together, from above and from below.
LEMMA TotalShared ==
  ASSUME NEW g \in [Nat -> Nat], NEW u \in [Nat -> Nat], NEW v \in [Nat -> Nat], NEW n \in Nat
  PROVE  /\ (\A i \in Nat : i < n => g[i] <= u[i] + v[i]) =>
              Total(g, n) <= Total(u, n) + Total(v, n)
         /\ (\A i \in Nat : i < n => u[i] + v[i] <= g[i]) =>
              Total(u, n) + Total(v, n) <= Total(g, n)
<1>1. ASSUME \A i \in Nat : i < n => g[i] <= u[i] + v[i]
      PROVE  Total(g, n) <= Total(u, n) + Total(v, n)
  <2> DEFINE T == {k \in Nat : k <= n => Total(g, k) <= Total(u, k) + Total(v, k)}
  <2>1. 0 \in T
    <3>1. Total(g, 0) = 0 /\ Total(u, 0) = 0 /\ Total(v, 0) = 0
      BY TotalIs
    <3>2. QED
      BY <3>1
  <2>2. ASSUME NEW k \in Nat, k \in T PROVE k + 1 \in T
    <3>1. SUFFICES ASSUME k + 1 <= n PROVE Total(g, k + 1) <= Total(u, k + 1) + Total(v, k + 1)
      OBVIOUS
    <3>2. g[k] <= u[k] + v[k] /\ Total(g, k) <= Total(u, k) + Total(v, k)
      BY <1>1, <2>2, <3>1
    <3>3. /\ Total(g, k) \in Nat /\ Total(g, k + 1) = Total(g, k) + g[k]
          /\ Total(u, k) \in Nat /\ Total(u, k + 1) = Total(u, k) + u[k]
          /\ Total(v, k) \in Nat /\ Total(v, k + 1) = Total(v, k) + v[k]
      BY TotalIs
    <3>4. g[k] \in Nat /\ u[k] \in Nat /\ v[k] \in Nat
      OBVIOUS
    <3>5. QED
      BY <3>2, <3>3, <3>4
  <2>3. \A k \in Nat : k \in T
    <3> HIDE DEF T
    <3>1. QED
      BY <2>1, <2>2, Induction
  <2>4. QED
    BY <2>3
<1>2. ASSUME \A i \in Nat : i < n => u[i] + v[i] <= g[i]
      PROVE  Total(u, n) + Total(v, n) <= Total(g, n)
  <2> DEFINE T == {k \in Nat : k <= n => Total(u, k) + Total(v, k) <= Total(g, k)}
  <2>1. 0 \in T
    <3>1. Total(g, 0) = 0 /\ Total(u, 0) = 0 /\ Total(v, 0) = 0
      BY TotalIs
    <3>2. QED
      BY <3>1
  <2>2. ASSUME NEW k \in Nat, k \in T PROVE k + 1 \in T
    <3>1. SUFFICES ASSUME k + 1 <= n PROVE Total(u, k + 1) + Total(v, k + 1) <= Total(g, k + 1)
      OBVIOUS
    <3>2. u[k] + v[k] <= g[k] /\ Total(u, k) + Total(v, k) <= Total(g, k)
      BY <1>2, <2>2, <3>1
    <3>3. /\ Total(g, k) \in Nat /\ Total(g, k + 1) = Total(g, k) + g[k]
          /\ Total(u, k) \in Nat /\ Total(u, k + 1) = Total(u, k) + u[k]
          /\ Total(v, k) \in Nat /\ Total(v, k + 1) = Total(v, k) + v[k]
      BY TotalIs
    <3>4. g[k] \in Nat /\ u[k] \in Nat /\ v[k] \in Nat
      OBVIOUS
    <3>5. QED
      BY <3>2, <3>3, <3>4
  <2>3. \A k \in Nat : k \in T
    <3> HIDE DEF T
    <3>1. QED
      BY <2>1, <2>2, Induction
  <2>4. QED
    BY <2>3
<1>3. QED
  BY <1>1, <1>2

\* A longer sum is no less.
LEMMA TotalGrows ==
  ASSUME NEW g \in [Nat -> Nat], NEW a \in Nat, NEW b \in Nat, a <= b
  PROVE  Total(g, a) <= Total(g, b)
<1> DEFINE T == {d \in Nat : Total(g, a) <= Total(g, a + d)}
<1>1. \A k \in Nat : Total(g, k) \in Nat /\ Total(g, k + 1) = Total(g, k) + g[k] /\ g[k] \in Nat
  BY TotalIs
<1>2. 0 \in T
  <2>1. a + 0 = a /\ Total(g, a) \in Nat
    BY <1>1
  <2>2. QED
    BY <2>1
<1>3. ASSUME NEW d \in Nat, d \in T PROVE d + 1 \in T
  <2>1. a + d \in Nat /\ a + (d + 1) = (a + d) + 1
    OBVIOUS
  <2>2. /\ Total(g, (a + d) + 1) = Total(g, a + d) + g[a + d]
        /\ Total(g, a + d) \in Nat /\ g[a + d] \in Nat
    BY <1>1, <2>1
  <2>3. Total(g, a) <= Total(g, a + d) /\ Total(g, a) \in Nat
    BY <1>1, <1>3
  <2>4. Total(g, a) <= Total(g, a + (d + 1))
    BY <2>1, <2>2, <2>3
  <2>5. QED
    BY <2>4
<1>4. \A d \in Nat : d \in T
  <2> HIDE DEF T
  <2>1. QED
    BY <1>2, <1>3, Induction
<1>5. b - a \in Nat /\ a + (b - a) = b
  OBVIOUS
<1>6. Total(g, a) <= Total(g, a + (b - a))
  BY <1>4, <1>5
<1>7. QED
  BY <1>5, <1>6

\* p takes the numbers below n at which g is not 0, in their order, to numbers
\* below m at which h is no less.
Moves(p, g, n, h, m) ==
    /\ \A i \in Nat : (i < n /\ g[i] # 0) => p[i] \in Nat /\ p[i] < m /\ g[i] <= h[p[i]]
    /\ \A i, j \in Nat : (i < j /\ j < n /\ g[i] # 0 /\ g[j] # 0) => p[i] < p[j]

\* Moving terms apart does not make a sum less.
LEMMA TotalMoved ==
  ASSUME NEW g \in [Nat -> Nat], NEW h \in [Nat -> Nat], NEW n \in Nat, NEW m \in Nat, NEW p,
         Moves(p, g, n, h, m)
  PROVE  Total(g, n) <= Total(h, m)
<1> DEFINE Stays(k, b) == \A i \in Nat : (i < k /\ g[i] # 0) => p[i] < b
           T == {k \in Nat : k <= n => \A b \in Nat : Stays(k, b) => Total(g, k) <= Total(h, b)}
<1>1. 0 \in T
  <2>1. Total(g, 0) = 0
    BY TotalIs
  <2>2. \A b \in Nat : Total(h, b) \in Nat
    BY TotalIs
  <2>3. \A b \in Nat : Total(g, 0) <= Total(h, b)
    BY <2>1, <2>2
  <2>4. QED
    BY <2>3
<1>2. ASSUME NEW k \in Nat, k \in T PROVE k + 1 \in T
  <2>1. SUFFICES ASSUME k + 1 <= n, NEW b \in Nat, Stays(k + 1, b)
                 PROVE  Total(g, k + 1) <= Total(h, b)
    OBVIOUS
  <2>2. \A c \in Nat : Stays(k, c) => Total(g, k) <= Total(h, c)
    BY <1>2, <2>1
  <2>3. Total(g, k) \in Nat /\ Total(g, k + 1) = Total(g, k) + g[k] /\ g[k] \in Nat
    BY TotalIs
  <2>4. CASE g[k] = 0
    <3>1. Stays(k, b)
      BY <2>1
    <3>2. QED
      BY <2>2, <2>3, <2>4, <3>1
  <2>5. CASE g[k] # 0
    <3> DEFINE c == p[k]
    <3>1. c \in Nat /\ g[k] <= h[c] /\ c < b
      BY <2>1, <2>5 DEF Moves
    <3>2. Stays(k, c)
      BY <2>1, <2>5 DEF Moves
    <3> HIDE DEF c
    <3>3. Total(g, k) <= Total(h, c)
      BY <2>2, <3>1, <3>2
    <3>4. Total(h, c + 1) = Total(h, c) + h[c] /\ Total(h, c) \in Nat /\ h[c] \in Nat
      BY <3>1, TotalIs
    <3>5. Total(h, c + 1) <= Total(h, b)
      <4>1. c + 1 \in Nat /\ c + 1 <= b
        BY <3>1
      <4>2. QED
        BY <4>1, TotalGrows
    <3>6. Total(h, b) \in Nat
      BY TotalIs
    <3>7. QED
      BY <2>3, <3>1, <3>3, <3>4, <3>5, <3>6
  <2>6. QED
    BY <2>4, <2>5
<1>3. \A k \in Nat : k \in T
  <2> HIDE DEF T
  <2>1. QED
    BY <1>1, <1>2, Induction
<1>4. Stays(n, m)
  BY DEF Moves
<1>5. QED
  BY <1>3, <1>4

\* A sum when only the term at a changes.
LEMMA TotalReplaced ==
  ASSUME NEW g \in [Nat -> Nat], NEW h \in [Nat -> Nat], NEW n \in Nat, NEW a \in Nat, a < n,
         \A i \in Nat : i # a => g[i] = h[i]
  PROVE  Total(g, n) + h[a] = Total(h, n) + g[a]
<1> DEFINE T == {k \in Nat : IF k <= a THEN Total(g, k) = Total(h, k)
                             ELSE Total(g, k) + h[a] = Total(h, k) + g[a]}
<1>1. 0 \in T
  BY TotalIs
<1>2. ASSUME NEW k \in Nat, k \in T PROVE k + 1 \in T
  <2>1. /\ Total(g, k) \in Nat /\ Total(g, k + 1) = Total(g, k) + g[k]
        /\ Total(h, k) \in Nat /\ Total(h, k + 1) = Total(h, k) + h[k]
    BY TotalIs
  <2>2. g[k] \in Nat /\ h[k] \in Nat /\ g[a] \in Nat /\ h[a] \in Nat
    OBVIOUS
  <2>3. k # a => g[k] = h[k]
    OBVIOUS
  <2>4. CASE k + 1 <= a
    BY <1>2, <2>1, <2>2, <2>3, <2>4
  <2>5. CASE k = a
    BY <1>2, <2>1, <2>2, <2>5
  <2>6. CASE a < k
    BY <1>2, <2>1, <2>2, <2>3, <2>6
  <2>7. QED
    BY <2>4, <2>5, <2>6
<1>3. \A k \in Nat : k \in T
  <2> HIDE DEF T
  <2>1. QED
    BY <1>1, <1>2, Induction
<1>4. n \in T
  BY <1>3
<1>5. QED
  BY <1>4

\* The sum without the term at a.
LEMMA TotalZeroed ==
  ASSUME NEW g \in [Nat -> Nat], NEW n \in Nat, NEW a \in Nat, a < n
  PROVE  /\ [g EXCEPT ![a] = 0] \in [Nat -> Nat]
         /\ \A i \in Nat : [g EXCEPT ![a] = 0][i] = IF i = a THEN 0 ELSE g[i]
         /\ Total(g, n) = Total([g EXCEPT ![a] = 0], n) + g[a]
<1> DEFINE h == [g EXCEPT ![a] = 0]
<1>1. h \in [Nat -> Nat] /\ \A i \in Nat : h[i] = IF i = a THEN 0 ELSE g[i]
  OBVIOUS
<1> HIDE DEF h
<1>2. Total(g, n) + h[a] = Total(h, n) + g[a]
  BY <1>1, TotalReplaced
<1>3. h[a] = 0 /\ Total(g, n) \in Nat
  BY <1>1, TotalIs
<1>4. QED
  BY <1>1, <1>2, <1>3 DEF h

\* Two sums of the same terms.
LEMMA TotalSame ==
  ASSUME NEW g \in [Nat -> Nat], NEW h \in [Nat -> Nat], NEW n \in Nat,
         \A i \in Nat : i < n => g[i] = h[i]
  PROVE  Total(g, n) = Total(h, n)
<1> DEFINE T == {k \in Nat : k <= n => Total(g, k) = Total(h, k)}
<1>1. 0 \in T
  BY TotalIs
<1>2. ASSUME NEW k \in Nat, k \in T PROVE k + 1 \in T
  <2>1. Total(g, k + 1) = Total(g, k) + g[k] /\ Total(h, k + 1) = Total(h, k) + h[k]
    BY TotalIs
  <2>2. QED
    BY <1>2, <2>1
<1>3. \A k \in Nat : k \in T
  <2> HIDE DEF T
  <2>1. QED
    BY <1>1, <1>2, Induction
<1>4. QED
  BY <1>3
=============================================================================
