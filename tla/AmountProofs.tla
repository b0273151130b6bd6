---------------------------- MODULE AmountProofs ----------------------------
(***************************************************************************)
(* The amounts of one wallet and of the demo data, for every significand,  *)
(* every amount and every number of movements, wallets and transfers.      *)
(*                                                                         *)
(* Rounding: what Round is off by, and that a larger number's doubles are  *)
(* no closer together, bound the drift of a balance by the number of its   *)
(* movements (Kept).  Seed script: every pass posts what it stores, so     *)
(* that the sums of the ledger's entries and of the wallets, which start   *)
(* together, move together (Seeded, Accounted).                            *)
(***************************************************************************)
EXTENDS Sidelines, SequenceTheorems, SumTheorems

-----------------------------------------------------------------------------
(* The powers of two.                                                       *)

\* g is the powers of two from 0 on to n.
Powers(g, n) == g = [k \in 0 .. n |-> IF k = 0 THEN 1 ELSE 2 * g[k - 1]]

\* For every n there are the powers up to it.
LEMMA PowersExist ==
  ASSUME NEW n \in Nat
  PROVE  \E g : Powers(g, n)
<1>1. PICK B : B = {m \in Nat : ~\E g : Powers(g, m)}
  OBVIOUS
<1>2. ASSUME B # {}
      PROVE  FALSE
  <2>1. PICK m \in B : \A k \in B : m <= k
    BY <1>1, <1>2, Least
  <2>2. m \in Nat /\ ~\E g : Powers(g, m)
    BY <1>1
  <2>3. CASE m = 0
    <3>1. PICK g : g = [k \in 0 .. 0 |-> 1]
      OBVIOUS
    <3>2. \A k \in 0 .. 0 : k = 0
      OBVIOUS
    <3>3. g = [k \in 0 .. 0 |-> IF k = 0 THEN 1 ELSE 2 * g[k - 1]]
      BY <3>1, <3>2
    <3> QED BY <2>2, <2>3, <3>3 DEF Powers
  <2>4. CASE m # 0
    <3>1. m - 1 \in Nat /\ m - 1 \notin B
      BY <2>1, <2>2, <2>4
    <3>2. PICK g : Powers(g, m - 1)
      BY <1>1, <3>1
    <3>3. PICK h : h = [k \in 0 .. m |-> IF k = 0 THEN 1 ELSE 2 * g[k - 1]]
      OBVIOUS
    <3>4. \A k \in 0 .. m - 1 : k \in 0 .. m
      BY <2>2
    <3>5. \A k \in 0 .. m - 1 : h[k] = g[k]
      BY <3>2, <3>3, <3>4 DEF Powers
    <3>6. \A k \in 0 .. m : k # 0 => k - 1 \in 0 .. m - 1
      BY <2>2
    <3>7. \A k \in 0 .. m : k # 0 => h[k - 1] = g[k - 1]
      BY <3>5, <3>6
    <3>8. h = [k \in 0 .. m |-> IF k = 0 THEN 1 ELSE 2 * h[k - 1]]
      BY <3>3, <3>7
    <3> QED BY <2>2, <3>8 DEF Powers
  <2> QED BY <2>3, <2>4
<1> QED BY <1>1, <1>2

\* Two of them agree where both are defined.
LEMMA PowersAgree ==
  ASSUME NEW g, NEW h, NEW m \in Nat, NEW n \in Nat, m <= n, Powers(g, m), Powers(h, n)
  PROVE  \A k \in 0 .. m : g[k] = h[k]
<1>1. PICK B : B = {k \in 0 .. m : g[k] # h[k]}
  OBVIOUS
<1>2. ASSUME B # {}
      PROVE  FALSE
  <2>1. B \subseteq Nat
    BY <1>1
  <2>2. PICK k \in B : \A j \in B : k <= j
    BY <1>2, <2>1, Least
  <2>3. k \in 0 .. m /\ k \in 0 .. n /\ g[k] # h[k]
    BY <1>1
  <2>4. k # 0
    BY <2>3 DEF Powers
  <2>5. k - 1 \in 0 .. m /\ k - 1 \notin B
    BY <2>2, <2>3, <2>4
  <2>6. g[k - 1] = h[k - 1]
    BY <1>1, <2>5
  <2>7. g[k] = 2 * g[k - 1] /\ h[k] = 2 * h[k - 1]
    BY <2>3, <2>4 DEF Powers
  <2> QED BY <2>3, <2>6, <2>7
<1> QED BY <1>1, <1>2

\* The powers of two.
LEMMA PowerIs ==
  Power[0] = 1 /\ \A k \in Nat : Power[k + 1] = 2 * Power[k]
<1>1. PICK f : f = [n \in Nat |-> (CHOOSE g : Powers(g, n))[n]]
  OBVIOUS
<1>2. \A n \in Nat : Powers(CHOOSE g : Powers(g, n), n)
  BY PowersExist
<1>3. f[0] = 1
  <2>1. PICK g : g = CHOOSE k : Powers(k, 0)
    OBVIOUS
  <2>2. Powers(g, 0)
    BY <1>2, <2>1
  <2>3. 0 \in 0 .. 0
    OBVIOUS
  <2>4. g[0] = 1
    BY <2>2, <2>3 DEF Powers
  <2> QED BY <1>1, <2>1, <2>4
<1>4. ASSUME NEW n \in Nat, n # 0
      PROVE  f[n] = 2 * f[n - 1]
  <2>1. PICK g : g = CHOOSE k : Powers(k, n)
    OBVIOUS
  <2>2. PICK h : h = CHOOSE k : Powers(k, n - 1)
    OBVIOUS
  <2>3. n - 1 \in Nat /\ n - 1 <= n
    BY <1>4
  <2>4. Powers(g, n) /\ Powers(h, n - 1)
    BY <1>2, <2>1, <2>2, <2>3
  <2>5. \A k \in 0 .. n - 1 : h[k] = g[k]
    BY <2>3, <2>4, PowersAgree
  <2>6. n \in 0 .. n /\ n - 1 \in 0 .. n - 1
    BY <2>3
  <2>7. g[n] = 2 * g[n - 1]
    BY <1>4, <2>4, <2>6 DEF Powers
  <2>8. g[n - 1] = h[n - 1]
    BY <2>5, <2>6
  <2>9. f[n] = g[n] /\ f[n - 1] = h[n - 1]
    BY <1>1, <2>1, <2>2, <2>3
  <2> QED BY <2>7, <2>8, <2>9
<1>5. f = [n \in Nat |-> IF n = 0 THEN 1 ELSE 2 * f[n - 1]]
  BY <1>1, <1>3, <1>4
<1>6. \E g : g = [n \in Nat |-> IF n = 0 THEN 1 ELSE 2 * g[n - 1]]
  BY <1>5
<1>7. Power = [n \in Nat |-> IF n = 0 THEN 1 ELSE 2 * Power[n - 1]]
  BY <1>6 DEF Power
<1>8. \A k \in Nat : k + 1 \in Nat /\ k + 1 # 0 /\ (k + 1) - 1 = k
  OBVIOUS
<1> QED BY <1>7, <1>8

\* They grow, are products of one another, and the smaller divide the larger.
LEMMA PowersGrow ==
  /\ \A k \in Nat : Power[k] \in Nat \ {0}
  /\ \A j, k \in Nat : Power[j + k] = Power[j] * Power[k]
  /\ \A j, k \in Nat : j < k => 2 * Power[j] <= Power[k]
<1>1. ASSUME NEW k \in Nat
      PROVE  Power[k] \in Nat \ {0}
  <2>1. PICK B : B = {i \in Nat : Power[i] \notin Nat \ {0}}
    OBVIOUS
  <2>2. ASSUME B # {}
        PROVE  FALSE
    <3>1. PICK m \in B : \A i \in B : m <= i
      BY <2>1, <2>2, Least
    <3>2. m \in Nat /\ m # 0
      BY <2>1, PowerIs
    <3>3. m - 1 \in Nat /\ m - 1 \notin B /\ (m - 1) + 1 = m
      BY <3>1, <3>2
    <3>4. Power[m - 1] \in Nat \ {0} /\ Power[(m - 1) + 1] = 2 * Power[m - 1]
      BY <2>1, <3>3, PowerIs
    <3>5. Power[m] = 2 * Power[m - 1]
      BY <3>3, <3>4
    <3> QED BY <2>1, <3>4, <3>5
  <2> QED BY <2>1, <2>2
<1>2. ASSUME NEW j \in Nat, NEW k \in Nat
      PROVE  Power[j + k] = Power[j] * Power[k]
  <2>1. PICK B : B = {i \in Nat : Power[j + i] # Power[j] * Power[i]}
    OBVIOUS
  <2>2. ASSUME B # {}
        PROVE  FALSE
    <3>1. PICK m \in B : \A i \in B : m <= i
      BY <2>1, <2>2, Least
    <3>2. m # 0
      <4>1. j + 0 = j /\ Power[j] \in Nat
        BY <1>1
      <4>2. Power[j] * 1 = Power[j]
        BY <4>1
      <4> QED BY <2>1, <4>1, <4>2, PowerIs
    <3>3. m - 1 \in Nat /\ m - 1 \notin B /\ (m - 1) + 1 = m /\ j + m = (j + (m - 1)) + 1
          /\ j + (m - 1) \in Nat
      BY <2>1, <3>1, <3>2
    <3>4. PICK x \in Nat, y \in Nat : x = Power[j] /\ y = Power[m - 1]
      BY <1>1, <3>3
    <3>5. Power[j + (m - 1)] = x * y
      BY <2>1, <3>3, <3>4
    <3>6. Power[j + m] = 2 * (x * y) /\ Power[m] = 2 * y
      <4>1. Power[(j + (m - 1)) + 1] = 2 * Power[j + (m - 1)]
        BY <3>3, PowerIs
      <4>2. Power[(m - 1) + 1] = 2 * Power[m - 1]
        BY <3>3, PowerIs
      <4> QED BY <3>3, <3>4, <3>5, <4>1, <4>2
    <3>7. 2 * (x * y) = x * (2 * y)
      BY <3>4
    <3> QED BY <2>1, <3>4, <3>6, <3>7
  <2> QED BY <2>1, <2>2
<1>3. ASSUME NEW j \in Nat, NEW k \in Nat, j < k
      PROVE  2 * Power[j] <= Power[k]
  <2>1. PICK i \in Nat : k = (j + 1) + i
    <3>1. k - (j + 1) \in Nat /\ k = (j + 1) + (k - (j + 1))
      BY <1>3
    <3> QED BY <3>1
  <2>2. PICK x \in Nat \ {0}, y \in Nat \ {0} : x = Power[j] /\ y = Power[i]
    BY <1>1
  <2>3. j + 1 \in Nat /\ Power[j + 1] = 2 * x
    BY <2>2, PowerIs
  <2>4. Power[k] = Power[j + 1] * Power[i]
    BY <1>2, <2>1, <2>3
  <2>5. (2 * x) * y >= 2 * x
    BY <2>2
  <2> QED BY <2>2, <2>3, <2>5, <2>4
<1> QED BY <1>1, <1>2, <1>3

\* Of two powers the smaller is at most half of the larger, and divides it.
LEMMA TwoPowers ==
  ASSUME NEW i \in Nat, NEW j \in Nat
  PROVE  /\ Power[i] < Power[j] => 2 * Power[i] <= Power[j]
         /\ Power[i] <= Power[j] => \E p \in Nat \ {0} : Power[j] = Power[i] * p
<1>1. PICK x \in Nat \ {0}, y \in Nat \ {0} : x = Power[i] /\ y = Power[j]
  BY PowersGrow
<1>2. i < j => 2 * x <= y
  BY <1>1, PowersGrow
<1>3. j < i => 2 * y <= x
  BY <1>1, PowersGrow
<1>4. i = j => x = y
  BY <1>1
<1>5. x < y => i < j
  BY <1>3, <1>4
<1>6. ASSUME i < j
      PROVE  \E p \in Nat \ {0} : y = x * p
  <2>1. j - i \in Nat /\ j = i + (j - i)
    BY <1>6
  <2>2. PICK p \in Nat \ {0} : p = Power[j - i]
    BY <2>1, PowersGrow
  <2>3. Power[i + (j - i)] = Power[i] * Power[j - i]
    BY <2>1, PowersGrow
  <2> QED BY <1>1, <2>1, <2>2, <2>3
<1>7. ASSUME x = y
      PROVE  \E p \in Nat \ {0} : y = x * p
  <2>1. y = x * 1 /\ 1 \in Nat \ {0}
    BY <1>7
  <2> QED BY <2>1
<1> QED BY <1>1, <1>2, <1>5, <1>6, <1>7

\* Euclid's division, as quotient and remainder.
LEMMA Divided ==
  ASSUME NEW n \in Nat, NEW s \in Nat \ {0}
  PROVE  \E q \in Nat, r \in Nat : q = n \div s /\ r = n % s /\ n = s * q + r /\ r < s
<1>1. PICK q \in Nat : q = n \div s
  <2>1. n \div s \in Int /\ n \div s >= 0
    OBVIOUS
  <2> QED BY <2>1
<1>2. s * q <= n /\ n < s * q + s
  BY <1>1
<1>3. n % s = n - s * q
  <2>1. n % s = n - s * (n \div s)
    BY SMT
  <2> QED BY <1>1, <2>1
<1>4. PICK p \in Int : p = s * q
  OBVIOUS
<1>5. n - p \in Nat /\ n = p + (n - p) /\ n - p < s
  BY <1>2, <1>4
<1> QED BY <1>1, <1>3, <1>4, <1>5

\* What is less is less when it is multiplied.
LEMMA Multiplied ==
  ASSUME NEW x \in Int, NEW y \in Int, NEW z \in Nat \ {0}
  PROVE  (x < y <=> z * x < z * y) /\ (x <= y <=> z * x <= z * y)
OBVIOUS

Largest == Bits + 4 + 2 * MaxSteps
InRange(n, d) == n < d * Power[Largest] * Power[Bits]

\* 2^Bits is even, as there is a bit.
LEMMA MoneySizes ==
  /\ Bits \in Nat \ {0} /\ MaxSteps \in Nat /\ Largest \in Nat
  /\ \E c \in Nat \ {0} : Power[Bits] = 2 * c
  /\ One \in Nat \ {0}
<1>1. Bits \in Nat \ {0} /\ MaxSteps \in Nat /\ Largest \in Nat
  BY MoneyAssumption DEF Largest
<1>2. Bits - 1 \in Nat /\ (Bits - 1) + 1 = Bits /\ Bits + 3 \in Nat
  BY <1>1
<1>3. Power[Bits - 1] \in Nat \ {0} /\ Power[(Bits - 1) + 1] = 2 * Power[Bits - 1]
  BY <1>2, PowerIs, PowersGrow
<1> QED BY <1>1, <1>2, <1>3, PowersGrow DEF One

\* The distance of the doubles next to n / d.
LEMMA UlpIs ==
  ASSUME NEW n \in Nat, NEW d \in Nat \ {0}, InRange(n, d)
  PROVE  \E k \in 0 .. Largest :
           /\ Ulp(n, d) = Power[k] /\ Ulp(n, d) \in Nat \ {0}
           /\ n < d * Ulp(n, d) * Power[Bits]
           /\ Ulp(n, d) = 1 \/ 2 * n >= d * Ulp(n, d) * Power[Bits]
<1>1. PICK K \in Nat, b \in Nat \ {0} : K = Largest /\ b = Power[Bits]
  BY MoneySizes, PowersGrow
<1>2. PICK B : B = {k \in 0 .. K : n < d * Power[k] * b}
  OBVIOUS
<1>3. K \in B /\ B \subseteq Nat
  BY <1>1, <1>2 DEF InRange
<1>4. PICK k \in B : \A i \in B : k <= i
  BY <1>3, Least
<1>5. PICK u \in Nat \ {0} : u = Power[k]
  BY <1>3, PowersGrow
<1>6. k \in 0 .. K /\ n < d * u * b
  BY <1>2, <1>5
<1>7. u = 1 \/ 2 * n >= d * u * b
  <2>1. CASE k = 0
    BY <1>5, <2>1, PowerIs
  <2>2. CASE k # 0
    <3>1. k - 1 \in 0 .. K /\ k - 1 \notin B /\ (k - 1) + 1 = k /\ k - 1 \in Nat
      BY <1>1, <1>4, <1>6, <2>2
    <3>2. PICK v \in Nat \ {0} : v = Power[k - 1]
      BY <3>1, PowersGrow
    <3>3. u = 2 * v
      BY <1>5, <3>1, <3>2, PowerIs
    <3>4. ~(n < d * v * b)
      BY <1>2, <3>1, <3>2
    <3>5. PICK p \in Int : p = d * v * b
      OBVIOUS
    <3>6. d * (2 * v) * b = 2 * p
      BY <3>5
    <3>7. 2 * n >= 2 * p
      BY <3>4, <3>5
    <3> QED BY <3>3, <3>6, <3>7
  <2> QED BY <2>1, <2>2
<1>8. PICK S : S = {Power[i] : i \in 0 .. K}
  OBVIOUS
<1>9. PICK w : w = Ulp(n, d)
  OBVIOUS
<1>10. w = CHOOSE x \in S : n < d * x * b /\ (x = 1 \/ 2 * n >= d * x * b)
  BY <1>1, <1>8, <1>9 DEF Ulp, Largest
<1>11. \E x \in S : n < d * x * b /\ (x = 1 \/ 2 * n >= d * x * b)
  BY <1>5, <1>6, <1>7, <1>8
<1>12. w \in S /\ n < d * w * b /\ (w = 1 \/ 2 * n >= d * w * b)
  BY <1>10, <1>11
<1>13. PICK i \in 0 .. K : w = Power[i]
  BY <1>8, <1>12
<1>14. w \in Nat \ {0}
  BY <1>1, <1>13, PowersGrow
<1> QED BY <1>1, <1>9, <1>12, <1>13, <1>14

\* What Round gives: a multiple of the distance u, next to n / d, and n / d
\* itself when that is one.
Rounded(n, d, u, m, q) ==
  /\ Round(n, d) = u * m /\ m \in {q, q + 1}
  /\ (d * u) * q <= n /\ n < (d * u) * (q + 1)
  /\ 2 * ((d * u) * m) <= 2 * n + d * u
  /\ 2 * n <= 2 * ((d * u) * m) + d * u
  /\ (n = (d * u) * q => m = q)

LEMMA RoundIs ==
  ASSUME NEW n \in Nat, NEW d \in Nat \ {0}, NEW u \in Nat \ {0}, u = Ulp(n, d)
  PROVE  \E m \in Nat, q \in Nat : Rounded(n, d, u, m, q)
<1>1. PICK s \in Nat \ {0} : s = d * u
  OBVIOUS
<1>2. PICK q \in Nat, r \in Nat : q = n \div s /\ r = n % s /\ n = s * q + r /\ r < s
  BY Divided
<1>3. PICK high \in BOOLEAN : high <=> 2 * r > s \/ (2 * r = s /\ q % 2 = 1)
  OBVIOUS
<1>4. PICK m \in Nat : m = IF high THEN q + 1 ELSE q
  OBVIOUS
<1>5. Round(n, d) = u * m
  BY <1>1, <1>2, <1>3, <1>4 DEF Round
<1>6. PICK p \in Nat : p = s * q
  OBVIOUS
<1>7. s * (q + 1) = p + s
  BY <1>6
<1>8. /\ s * q <= n /\ n < s * (q + 1)
      /\ n = s * q => r = 0
  BY <1>2, <1>6, <1>7
<1>9. /\ m \in {q, q + 1} /\ (r = 0 => m = q)
      /\ 2 * (s * m) <= 2 * n + s /\ 2 * n <= 2 * (s * m) + s
  <2>1. CASE high
    <3>1. 2 * r >= s /\ m = q + 1
      BY <1>3, <1>4, <2>1
    <3>2. s * m = p + s
      BY <1>7, <3>1
    <3> QED BY <1>2, <1>6, <3>1, <3>2
  <2>2. CASE ~high
    <3>1. 2 * r <= s /\ m = q
      BY <1>3, <1>4, <2>2
    <3>2. s * m = p
      BY <1>6, <3>1
    <3> QED BY <1>2, <1>6, <3>1, <3>2
  <2> QED BY <2>1, <2>2
<1>10. PICK t : t = d * u
  OBVIOUS
<1>11. /\ t * q <= n /\ n < t * (q + 1)
       /\ 2 * (t * m) <= 2 * n + t /\ 2 * n <= 2 * (t * m) + t
       /\ n = t * q => m = q
  BY <1>1, <1>8, <1>9, <1>10
<1>12. Rounded(n, d, u, m, q)
  BY <1>5, <1>9, <1>10, <1>11, Zenon DEF Rounded
<1> QED BY <1>12

\* The distance of a larger number is no less.
LEMMA UlpGrows ==
  ASSUME NEW n \in Nat, NEW m \in Nat, n <= m, InRange(n, 1), InRange(m, 1)
  PROVE  Ulp(n, 1) <= Ulp(m, 1)
<1>1. PICK b \in Nat \ {0} : b = Power[Bits]
  BY MoneySizes, PowersGrow
<1>2. PICK j \in 0 .. Largest, u \in Nat \ {0} :
        /\ u = Ulp(n, 1) /\ u = Power[j] /\ n < 1 * u * b
        /\ u = 1 \/ 2 * n >= 1 * u * b
  BY <1>1, UlpIs
<1>3. PICK k \in 0 .. Largest, v \in Nat \ {0} :
        /\ v = Ulp(m, 1) /\ v = Power[k] /\ m < 1 * v * b
        /\ v = 1 \/ 2 * m >= 1 * v * b
  BY <1>1, UlpIs
<1>4. ASSUME v < u
      PROVE  FALSE
  <2>1. j \in Nat /\ k \in Nat
    BY MoneySizes
  <2>2. 2 * v <= u
    BY <1>2, <1>3, <1>4, <2>1, TwoPowers
  <2>3. b * (2 * v) <= b * u
    BY <2>2, Multiplied
  <2>4. u # 1
    BY <1>4
  <2> QED BY <1>2, <1>3, <2>3, <2>4
<1> QED BY <1>2, <1>3, <1>4

\* What is less than 2^Bits whole units is told apart to a unit.
LEMMA UlpWhole ==
  ASSUME NEW n \in Nat, NEW d \in Nat \ {0}, InRange(n, d), n < d * One * Power[Bits]
  PROVE  \E p \in Nat \ {0} : One = Ulp(n, d) * p
<1>1. PICK b \in Nat \ {0}, w \in Nat \ {0} : b = Power[Bits] /\ w = One
  BY MoneySizes, PowersGrow
<1>2. PICK j \in 0 .. Largest, u \in Nat \ {0} :
        /\ u = Ulp(n, d) /\ u = Power[j] /\ n < d * u * b
        /\ u = 1 \/ 2 * n >= d * u * b
  BY <1>1, UlpIs
<1>3. j \in Nat /\ Bits + 3 \in Nat /\ w = Power[Bits + 3]
  BY <1>1, MoneySizes DEF One
<1>4. ASSUME w < u
      PROVE  FALSE
  <2>1. 2 * w <= u
    BY <1>2, <1>3, <1>4, TwoPowers
  <2>2. PICK e \in Nat \ {0} : e = d * b
    OBVIOUS
  <2>3. e * (2 * w) <= e * u
    BY <2>1, Multiplied
  <2>4. e * (2 * w) = 2 * (d * w * b) /\ e * u = d * u * b
    BY <2>2
  <2>5. u # 1
    BY <1>4
  <2> QED BY <1>1, <1>2, <2>3, <2>4, <2>5
<1>5. u <= w
  BY <1>4
<1>6. \E p \in Nat \ {0} : w = u * p
  BY <1>2, <1>3, <1>5, TwoPowers
<1> QED BY <1>1, <1>2, <1>6

\* The number rounded has no smaller a distance, is at least half of the range
\* of its distance, and at most all of it.
LEMMA UlpOfRounded ==
  ASSUME NEW n \in Nat, NEW d \in Nat \ {0}, InRange(n, d)
  PROVE  /\ Round(n, d) \in Nat
         /\ Round(n, d) <= Ulp(n, d) * Power[Bits]
         /\ Ulp(n, d) = 1 \/ 2 * Round(n, d) >= Ulp(n, d) * Power[Bits]
<1>1. PICK b \in Nat \ {0}, c \in Nat \ {0} : b = Power[Bits] /\ b = 2 * c
  BY MoneySizes, PowersGrow
<1>2. PICK u \in Nat \ {0} :
        /\ u = Ulp(n, d) /\ n < d * u * b
        /\ u = 1 \/ 2 * n >= d * u * b
  BY <1>1, UlpIs
<1>3. PICK m \in Nat, q \in Nat : Rounded(n, d, u, m, q)
  BY <1>2, RoundIs
<1>4. /\ Round(n, d) = u * m /\ m \in {q, q + 1}
      /\ (d * u) * q <= n /\ n < (d * u) * (q + 1)
  BY <1>3, Zenon DEF Rounded
<1>5. PICK s \in Nat \ {0} : s = d * u
  OBVIOUS
<1>6. s * q < s * b
  BY <1>2, <1>4, <1>5
<1>7. q < b
  BY <1>6, Multiplied
<1>8. u * m <= u * b
  <2>1. m <= b
    BY <1>4, <1>7
  <2> QED BY <2>1, Multiplied
<1>9. ASSUME u # 1
      PROVE  u * b <= 2 * (u * m)
  <2>1. 2 * n >= d * u * b
    BY <1>2, <1>9
  <2>2. d * u * b = 2 * (s * c)
    BY <1>1, <1>5
  <2>3. s * c <= n
    BY <2>1, <2>2
  <2>4. s * c < s * (q + 1)
    BY <1>4, <1>5, <2>3
  <2>5. c < q + 1
    BY <2>4, Multiplied
  <2>6. c <= m
    BY <1>4, <2>5
  <2>7. u * c <= u * m
    BY <2>6, Multiplied
  <2>8. u * b = 2 * (u * c)
    BY <1>1
  <2> QED BY <2>7, <2>8
<1> QED BY <1>1, <1>2, <1>4, <1>8, <1>9

\* A rounded number is at most half a distance off, of its own distance, and at
\* most twice the number.
LEMMA Nearest ==
  ASSUME NEW n \in Nat, NEW d \in Nat \ {0}, InRange(n, d)
  PROVE  \E u \in Nat \ {0}, R \in Nat :
           /\ u = Ulp(n, d) /\ R = Round(n, d)
           /\ 2 * (d * R) <= 2 * n + d * u /\ 2 * n <= 2 * (d * R) + d * u
           /\ (InRange(R, 1) => u <= Ulp(R, 1))
           /\ (d = 1 => R <= 2 * n)
<1>1. PICK b \in Nat \ {0} : b = Power[Bits] /\ 2 <= b
  BY MoneySizes, PowersGrow
<1>2. PICK j \in 0 .. Largest, u \in Nat \ {0} :
        /\ u = Ulp(n, d) /\ u = Power[j] /\ n < d * u * b
        /\ u = 1 \/ 2 * n >= d * u * b
  BY <1>1, UlpIs
<1>3. PICK m \in Nat, q \in Nat : Rounded(n, d, u, m, q)
  BY <1>2, RoundIs
<1>4. PICK R \in Nat : R = Round(n, d) /\ R = u * m
  BY <1>3 DEF Rounded
<1>5. d * R = (d * u) * m
  BY <1>4
<1>6. 2 * (d * R) <= 2 * n + d * u /\ 2 * n <= 2 * (d * R) + d * u
  BY <1>3, <1>5 DEF Rounded
<1>7. ASSUME InRange(R, 1)
      PROVE  u <= Ulp(R, 1)
  <2>1. PICK k \in 0 .. Largest, v \in Nat \ {0} :
          v = Ulp(R, 1) /\ v = Power[k] /\ R < 1 * v * b
    BY <1>1, <1>7, UlpIs
  <2>2. ASSUME v < u
        PROVE  FALSE
    <3>1. j \in Nat /\ k \in Nat
      BY MoneySizes
    <3>2. 2 * v <= u
      BY <1>2, <2>1, <2>2, <3>1, TwoPowers
    <3>3. b * (2 * v) <= b * u
      BY <3>2, Multiplied
    <3>4. u # 1
      BY <2>2
    <3>5. 2 * R >= u * b
      BY <1>1, <1>2, <1>4, <3>4, UlpOfRounded
    <3> QED BY <2>1, <3>3, <3>5
  <2> QED BY <2>1, <2>2
<1>8. ASSUME d = 1
      PROVE  R <= 2 * n
  <2>1. 2 * R <= 2 * n + u
    BY <1>6, <1>8
  <2>2. CASE u = 1
    BY <2>1, <2>2
  <2>3. CASE u # 1
    <3>1. 2 * n >= u * b
      BY <1>2, <1>8, <2>3
    <3>2. u * 2 <= u * b
      BY <1>1, Multiplied
    <3> QED BY <2>1, <3>1, <3>2
  <2> QED BY <2>2, <2>3
<1>9. /\ u = Ulp(n, d) /\ R = Round(n, d)
      /\ 2 * (d * R) <= 2 * n + d * u /\ 2 * n <= 2 * (d * R) + d * u
      /\ (InRange(R, 1) => u <= Ulp(R, 1))
      /\ (d = 1 => R <= 2 * n)
  BY <1>2, <1>4, <1>6, <1>7, <1>8, Zenon
<1> QED BY <1>9, Zenon

\* Whole units below 2^Bits are kept as they are.
LEMMA Exact ==
  ASSUME NEW n \in Nat, NEW d \in Nat \ {0}, InRange(n, d), NEW c \in Nat,
         n = d * One * c, n < d * One * Power[Bits]
  PROVE  Round(n, d) = One * c
<1>1. PICK u \in Nat \ {0} : u = Ulp(n, d)
  BY UlpIs
<1>2. PICK p \in Nat \ {0} : One = u * p
  BY <1>1, UlpWhole
<1>3. PICK m \in Nat, q \in Nat : Rounded(n, d, u, m, q)
  BY <1>1, RoundIs
<1>4. PICK s \in Nat \ {0} : s = d * u
  OBVIOUS
<1>5. PICK k \in Nat : k = p * c
  OBVIOUS
<1>6. n = s * k
  BY <1>2, <1>4, <1>5
<1>7. s * q <= n /\ n < s * (q + 1) /\ (n = s * q => m = q) /\ Round(n, d) = u * m
  BY <1>3, <1>4, Zenon DEF Rounded
<1>8. q <= k /\ k < q + 1
  BY <1>6, <1>7, Multiplied
<1>9. m = k
  BY <1>6, <1>7, <1>8
<1>10. u * k = (u * p) * c
  BY <1>5
<1> QED BY <1>2, <1>7, <1>9, <1>10

\* What has reached 2^Bits whole units is not rounded below.
LEMMA StaysLarge ==
  ASSUME NEW n \in Nat, InRange(n, 1), One * Power[Bits] <= n
  PROVE  One * Power[Bits] <= Round(n, 1)
<1>1. PICK b \in Nat \ {0}, w \in Nat \ {0} : b = Power[Bits] /\ w = One
  BY MoneySizes, PowersGrow
<1>2. PICK j \in 0 .. Largest, u \in Nat \ {0} :
        u = Ulp(n, 1) /\ u = Power[j] /\ n < 1 * u * b
  BY <1>1, UlpIs
<1>3. PICK R \in Nat : R = Round(n, 1) /\ (u = 1 \/ 2 * R >= u * b)
  BY <1>1, <1>2, UlpOfRounded
<1>4. j \in Nat /\ Bits + 3 \in Nat /\ w = Power[Bits + 3]
  BY <1>1, MoneySizes DEF One
<1>5. b * w < b * u
  BY <1>1, <1>2
<1>6. w < u
  BY <1>5, Multiplied
<1>7. 2 * w <= u
  BY <1>2, <1>4, <1>6, TwoPowers
<1>8. b * (2 * w) <= b * u
  BY <1>7, Multiplied
<1>9. u # 1
  BY <1>6
<1> QED BY <1>1, <1>3, <1>8, <1>9

\* What k movements of at most One * 2^Bits can reach, and one more; all of it is
\* in the range of Ulp.
LEMMA Tops ==
  ASSUME NEW k \in Nat, k <= MaxSteps
  PROVE  \E t \in Nat \ {0} :
           /\ t = Power[2 * Bits + 3 + 2 * k] /\ One * Power[Bits] <= t
           /\ Power[2 * Bits + 3 + 2 * (k + 1)] = 4 * t
           /\ \A n \in Nat : n <= t => InRange(n, 1)
           /\ (k < MaxSteps => \A n \in Nat : n <= 4 * t => InRange(n, 1))
<1>1. PICK e \in Nat : e = 2 * Bits + 3 + 2 * k
  BY MoneySizes
<1>2. /\ 2 * Bits + 3 + 2 * (k + 1) = (e + 1) + 1 /\ e + 1 \in Nat
      /\ Bits \in Nat /\ Bits + 3 \in Nat /\ Largest \in Nat /\ MaxSteps \in Nat
  BY <1>1, MoneySizes
<1>3. PICK t \in Nat \ {0} : t = Power[e]
  BY PowersGrow
<1>4. Power[e + 1] = 2 * t
  BY <1>3, PowerIs
<1>5. Power[(e + 1) + 1] = 2 * Power[e + 1]
  BY <1>2, PowerIs
<1>6. One * Power[Bits] <= t
  <2>1. One * Power[Bits] = Power[(Bits + 3) + Bits]
    BY <1>2, PowersGrow DEF One
  <2>2. PICK f \in Nat : f = (Bits + 3) + Bits
    BY <1>2
  <2>3. f <= e
    BY <1>1, <1>2, <2>2
  <2>4. f = e \/ 2 * Power[f] <= Power[e]
    BY <2>3, PowersGrow
  <2>5. Power[f] \in Nat
    BY PowersGrow
  <2> QED BY <1>3, <2>1, <2>2, <2>4, <2>5
<1>7. PICK g \in Nat : g = Largest + Bits
  BY <1>2
<1>8. PICK r \in Nat \ {0} : g = Largest + Bits /\ r = Power[g]
  BY <1>7, PowersGrow
<1>9. Power[Largest] * Power[Bits] = r
  <2>1. Power[Largest + Bits] = Power[Largest] * Power[Bits]
    BY <1>2, PowersGrow
  <2> QED BY <1>8, <2>1
<1>10. 2 * t <= r
  <2>1. e < g
    BY <1>1, <1>2, <1>8 DEF Largest
  <2> QED BY <1>3, <1>8, <2>1, PowersGrow
<1>11. ASSUME k < MaxSteps
       PROVE  4 * t < r
  <2>1. (e + 1) + 1 < g
    BY <1>1, <1>2, <1>8, <1>11 DEF Largest
  <2>2. (e + 1) + 1 \in Nat
    BY <1>2
  <2>3. 2 * Power[(e + 1) + 1] <= Power[g]
    BY <2>1, <2>2, <1>8, PowersGrow
  <2> QED BY <1>3, <1>4, <1>5, <1>8, <2>3
<1>12. ASSUME NEW n \in Nat, n < r
       PROVE  InRange(n, 1)
  <2>1. PICK l \in Nat, b \in Nat : l = Power[Largest] /\ b = Power[Bits]
    BY <1>2, PowersGrow
  <2>2. 1 * l * b = r
    BY <1>9, <2>1
  <2> QED BY <1>12, <2>1, <2>2 DEF InRange
<1>13. \A n \in Nat : n <= t => InRange(n, 1)
  <2>1. \A n \in Nat : n <= t => n < r
    BY <1>3, <1>10
  <2> QED BY <1>12, <2>1
<1>14. k < MaxSteps => \A n \in Nat : n <= 4 * t => InRange(n, 1)
  <2>1. k < MaxSteps => \A n \in Nat : n <= 4 * t => n < r
    BY <1>11
  <2> QED BY <1>12, <2>1
<1> QED BY <1>1, <1>2, <1>3, <1>4, <1>5, <1>6, <1>13, <1>14

\* One amount as a double: at most One * 2^Bits, at most half a distance from the
\* decimal, and exact when it is whole.
LEMMA DoubleIs ==
  ASSUME NEW a \in Tenths
  PROVE  \E y \in Nat, u \in Nat \ {0} :
           /\ y = Double(a) /\ y <= One * Power[Bits]
           /\ 2 * (10 * y) <= 2 * (a * One) + 10 * u /\ 2 * (a * One) <= 2 * (10 * y) + 10 * u
           /\ (InRange(y, 1) => u <= Ulp(y, 1))
           /\ (a % 10 = 0 => \E c \in Nat : a = 10 * c /\ y = One * c)
<1>1. PICK w \in Nat \ {0}, b \in Nat \ {0} : w = One /\ b = Power[Bits]
  BY MoneySizes, PowersGrow
<1>2. a \in Nat \ {0} /\ a <= 10 * (b - 1)
  BY <1>1, MoneyAssumption
<1>3. PICK n \in Nat : n = a * One
  BY <1>1, <1>2
<1>4. n < 10 * w * b
  <2>1. a < 10 * b
    BY <1>2
  <2>2. w * a < w * (10 * b)
    BY <1>2, <2>1, Multiplied
  <2> QED BY <1>1, <1>2, <1>3, <2>2
<1>5. InRange(n, 10)
  <2>1. Bits + 3 \in Nat /\ Largest \in Nat /\ Bits + 3 < Largest
    BY MoneySizes DEF Largest
  <2>2. 2 * Power[Bits + 3] <= Power[Largest]
    BY <2>1, PowersGrow
  <2>3. w = Power[Bits + 3]
    BY <1>1 DEF One
  <2>4. PICK l \in Nat \ {0} : l = Power[Largest] /\ w <= l
    <3>1. Power[Largest] \in Nat \ {0}
      BY <2>1, PowersGrow
    <3>2. PICK l \in Nat \ {0} : l = Power[Largest]
      BY <3>1
    <3>3. w <= l
      BY <2>2, <2>3, <3>2
    <3> QED BY <3>2, <3>3
  <2>5. PICK e \in Nat \ {0} : e = 10 * b
    OBVIOUS
  <2>6. e * w <= e * l
    BY <2>4, Multiplied
  <2>7. e * w = 10 * w * b /\ e * l = 10 * l * b
    BY <2>5
  <2>8. n < 10 * l * b
    BY <1>4, <2>6, <2>7
  <2> QED BY <1>1, <2>4, <2>8 DEF InRange
<1>6. PICK u \in Nat \ {0}, y \in Nat :
        /\ u = Ulp(n, 10) /\ y = Round(n, 10)
        /\ 2 * (10 * y) <= 2 * n + 10 * u /\ 2 * n <= 2 * (10 * y) + 10 * u
        /\ (InRange(y, 1) => u <= Ulp(y, 1))
  BY <1>5, Nearest
<1>7. y = Double(a)
  BY <1>3, <1>6 DEF Double
<1>8. y <= w * b
  <2>1. y <= u * b
    BY <1>1, <1>5, <1>6, UlpOfRounded
  <2>2. PICK p \in Nat \ {0} : w = u * p
    BY <1>1, <1>4, <1>5, <1>6, UlpWhole
  <2>3. u * 1 <= u * p
    BY <2>2, Multiplied
  <2>4. b * u <= b * w
    BY <2>2, <2>3, Multiplied
  <2> QED BY <2>1, <2>4
<1>9. ASSUME a % 10 = 0
      PROVE  \E c \in Nat : a = 10 * c /\ y = One * c
  <2>1. PICK c \in Nat : a = 10 * c
    <3>1. a = 10 * (a \div 10) /\ a \div 10 \in Nat
      BY <1>2, <1>9
    <3> QED BY <3>1
  <2>2. n = 10 * One * c
    BY <1>1, <1>3, <2>1
  <2>3. Round(n, 10) = One * c
    BY <1>1, <1>4, <1>5, <2>2, Exact
  <2> QED BY <1>6, <2>1, <2>3
<1> QED BY <1>1, <1>3, <1>6, <1>7, <1>8, <1>9

\* A factor of zero, or more, keeps an order that need not be strict.
LEMMA WeaklyMultiplied ==
  ASSUME NEW x \in Int, NEW y \in Int, NEW z \in Nat, x <= y
  PROVE  z * x <= z * y
<1>1. CASE z = 0
  BY <1>1
<1>2. CASE z # 0
  BY <1>2, Multiplied
<1> QED BY <1>1, <1>2

\* A distance is a bound to either side.
LEMMA DistanceIs ==
  ASSUME NEW x \in Int, NEW y \in Int, NEW z \in Int
  PROVE  Distance(x, y) <= z <=> x <= y + z /\ y <= x + z
BY DEF Distance

\* Why the drift is bounded: the balance is at most the highest there was, which
\* at most quadruples with a movement and so stays in range; and while every
\* amount is whole and the balances are below 2^Bits, nothing is rounded.
Exactly ==
  whole /\ peak < One * Power[Bits] =>
    10 * stored = owed * One /\ posted = stored /\ \E m \in Nat : stored = One * m

MoneyTyped ==
  /\ stored \in Nat /\ peak \in Nat /\ steps \in Nat /\ whole \in BOOLEAN
  /\ posted \in Int /\ owed \in Int /\ steps <= MaxSteps

Ranged == stored <= peak /\ peak <= Power[2 * Bits + 3 + 2 * steps]

Kept == MoneyTyped /\ Ranged /\ DriftBounded /\ Exactly

LEMMA InitKept == MoneyInit => Kept
<1> SUFFICES ASSUME MoneyInit PROVE Kept
  OBVIOUS
<1>1. MoneyTyped
  BY MoneySizes DEF MoneyInit, MoneyTyped
<1>2. PICK t \in Nat \ {0} :
        t = Power[2 * Bits + 3 + 2 * 0] /\ (\A n \in Nat : n <= t => InRange(n, 1))
  BY MoneySizes, Tops
<1>3. Ranged
  BY <1>2 DEF MoneyInit, Ranged
<1>4. DriftBounded
  <2>1. InRange(0, 1)
    BY <1>2
  <2>2. PICK u \in Nat : u = Ulp(0, 1)
    BY <2>1, UlpIs
  <2>3. PICK w \in Nat : w = One
    BY MoneySizes
  <2>4. stored = 0 /\ owed = 0 /\ steps = 0 /\ peak = 0
    BY DEF MoneyInit
  <2>5. Drift = 0
    BY <2>2, <2>4 DEF Drift
  <2>6. Distance(10 * stored, owed * One) = 0
    BY <2>3, <2>4 DEF Distance
  <2> QED BY <2>5, <2>6 DEF DriftBounded
<1>5. Exactly
  <2>1. PICK w \in Nat : w = One
    BY MoneySizes
  <2>2. 0 = w * 0 /\ 10 * 0 = 0 * w
    OBVIOUS
  <2> QED BY <2>1, <2>2 DEF MoneyInit, Exactly
<1> QED BY <1>1, <1>3, <1>4, <1>5 DEF Kept

\* What both movements do: R is the rounded sum or difference n of the balance x
\* and the amount y, and neither's distance is more than that of the highest
\* balance after.
LEMMA MovedRanged ==
  ASSUME MoneyTyped, Ranged, NEW a \in Tenths, NEW R \in Nat, Moved(a, R),
         NEW t \in Nat \ {0}, t = Power[2 * Bits + 3 + 2 * steps],
         Power[2 * Bits + 3 + 2 * (steps + 1)] = 4 * t, R <= 4 * t
  PROVE  /\ Ranged' /\ steps' = steps + 1 /\ steps' <= MaxSteps /\ steps < MaxSteps
         /\ stored' = R /\ peak' \in Nat /\ peak <= peak' /\ R <= peak'
         /\ peak' <= 4 * t /\ peak <= t
         /\ whole' = (whole /\ a % 10 = 0)
<1>1. /\ steps < MaxSteps /\ stored' = R /\ steps' = steps + 1
      /\ peak' = IF R > peak THEN R ELSE peak
  BY DEF Moved
<1>2. peak \in Nat /\ peak <= t /\ steps \in Nat /\ MaxSteps \in Nat
  BY MoneySizes DEF MoneyTyped, Ranged
<1>3. peak' \in Nat /\ peak <= peak' /\ R <= peak' /\ peak' <= 4 * t
  BY <1>1, <1>2
<1>4. Ranged'
  <2>1. Power[2 * Bits + 3 + 2 * steps'] = 4 * t
    BY <1>1
  <2> QED BY <1>1, <1>3, <2>1 DEF Ranged
<1>5. whole' = (whole /\ a % 10 = 0)
  BY DEF Moved
<1> QED BY <1>1, <1>2, <1>3, <1>4, <1>5

\* The drift of one movement more.
LEMMA OneMore ==
  ASSUME NEW k \in Nat, NEW U \in Nat, NEW V \in Nat, U <= V
  PROVE  10 * (k * U) + 10 * V <= 10 * ((k + 1) * V)
<1>1. k * U <= k * V
  BY WeaklyMultiplied
<1>2. PICK p \in Int, q \in Int : p = k * U /\ q = k * V
  OBVIOUS
<1>3. (k + 1) * V = q + V
  BY <1>2
<1> QED BY <1>1, <1>2, <1>3

\* A movement of amount a, stored as y, to the balance R, which is n rounded: d
\* and v are the distances at y and at n, U and V those at the highest balance
\* before and after, and none is more than V.
MovementOf(a, R, n, y, d, U, v, V) ==
  /\ R \in Nat /\ y = Double(a) /\ U = Ulp(peak, 1) /\ V = Ulp(peak', 1)
  /\ U <= V /\ d <= V /\ v <= V
  /\ 2 * (10 * y) <= 2 * (a * One) + 10 * d
  /\ 2 * (a * One) <= 2 * (10 * y) + 10 * d
  /\ 2 * R <= 2 * n + v /\ 2 * n <= 2 * R + v
  /\ InRange(n, 1) /\ InRange(peak', 1) /\ peak' \in Nat

\* The roundings of a movement are within the new balance's distance.
LEMMA MovementIs ==
  ASSUME MoneyTyped, Ranged, steps < MaxSteps, NEW a \in Tenths, NEW R, Moved(a, R),
         NEW n \in Nat, R = Round(n, 1), n <= stored + Double(a),
         Double(a) <= n \/ Double(a) <= stored
  PROVE  \E y \in Nat, d \in Nat, U \in Nat, v \in Nat, V \in Nat :
           MovementOf(a, R, n, y, d, U, v, V)
<1>1. /\ stored \in Nat /\ peak \in Nat /\ steps \in Nat /\ steps <= MaxSteps
      /\ MaxSteps \in Nat /\ stored <= peak
  BY MoneySizes DEF MoneyTyped, Ranged
<1>2. PICK t \in Nat \ {0} :
        /\ t = Power[2 * Bits + 3 + 2 * steps] /\ One * Power[Bits] <= t
        /\ Power[2 * Bits + 3 + 2 * (steps + 1)] = 4 * t
        /\ \A i \in Nat : i <= 4 * t => InRange(i, 1)
  BY <1>1, Tops
<1>3. PICK y \in Nat, d \in Nat \ {0} :
        /\ y = Double(a) /\ y <= One * Power[Bits]
        /\ 2 * (10 * y) <= 2 * (a * One) + 10 * d /\ 2 * (a * One) <= 2 * (10 * y) + 10 * d
        /\ (InRange(y, 1) => d <= Ulp(y, 1))
  BY DoubleIs
<1>4. /\ y <= t /\ stored <= t /\ peak <= t /\ n <= 2 * t
  <2>1. PICK w \in Int : w = One * Power[Bits]
    BY MoneySizes, PowersGrow
  <2>2. y <= w /\ w <= t
    BY <1>2, <1>3, <2>1
  <2>3. peak <= t
    BY <1>2 DEF Ranged
  <2> QED BY <1>1, <1>3, <2>2, <2>3
<1>5. InRange(n, 1) /\ InRange(y, 1) /\ InRange(peak, 1) /\ InRange(stored, 1)
  <2>1. n <= 4 * t /\ y <= 4 * t /\ peak <= 4 * t /\ stored <= 4 * t
    BY <1>1, <1>4
  <2> QED BY <1>1, <1>2, <2>1
<1>6. PICK v \in Nat \ {0}, r \in Nat :
        /\ v = Ulp(n, 1) /\ r = Round(n, 1)
        /\ 2 * (1 * r) <= 2 * n + 1 * v /\ 2 * n <= 2 * (1 * r) + 1 * v
        /\ (InRange(r, 1) => v <= Ulp(r, 1))
        /\ (1 = 1 => r <= 2 * n)
  BY <1>5, Nearest
<1>7. R = r /\ R \in Nat /\ R <= 4 * t
  BY <1>4, <1>6
<1>8. peak' \in Nat /\ peak <= peak' /\ R <= peak' /\ peak' <= 4 * t
  BY <1>2, <1>7, MovedRanged
<1>9. InRange(peak', 1) /\ InRange(R, 1)
  BY <1>2, <1>7, <1>8
<1>10. PICK U \in Nat, V \in Nat : U = Ulp(peak, 1) /\ V = Ulp(peak', 1)
  BY <1>1, <1>5, <1>8, <1>9, UlpIs
<1>11. U <= V
  BY <1>1, <1>5, <1>8, <1>9, <1>10, UlpGrows
<1>12. PICK f \in Nat : f = Ulp(R, 1)
  BY <1>7, <1>9, UlpIs
<1>13. v <= f /\ f <= V
  <2>1. Ulp(R, 1) <= Ulp(peak', 1)
    BY <1>7, <1>8, <1>9, UlpGrows
  <2> QED BY <1>6, <1>7, <1>9, <1>10, <1>12, <2>1
<1>14. d <= V
  <2>1. PICK g \in Nat : g = Ulp(y, 1)
    BY <1>3, <1>5, UlpIs
  <2>2. d <= g
    BY <1>3, <1>5, <2>1
  <2>3. CASE y <= n
    <3>1. g <= v
      BY <1>5, <1>6, <2>1, <2>3, UlpGrows
    <3> QED BY <1>13, <2>2, <3>1
  <2>4. CASE y <= stored
    <3>1. y <= peak
      BY <1>1, <2>4
    <3>2. g <= U
      BY <1>1, <1>5, <1>10, <2>1, <3>1, UlpGrows
    <3> QED BY <1>11, <2>2, <3>2
  <2> QED BY <1>3, <2>3, <2>4
<1>15. v <= V /\ 2 * R <= 2 * n + v /\ 2 * n <= 2 * R + v
  BY <1>6, <1>7, <1>13
<1>16. MovementOf(a, R, n, y, d, U, v, V)
  BY <1>3, <1>5, <1>7, <1>8, <1>9, <1>10, <1>11, <1>14, <1>15, Zenon DEF MovementOf
<1> QED BY <1>16

\* The drift after a movement, from the two roundings it makes.
LEMMA DriftAfter ==
  ASSUME NEW s \in Int, NEW o \in Int, NEW k \in Nat, NEW U \in Nat, NEW V \in Nat,
         NEW d \in Nat, NEW v \in Nat, U <= V, d <= V, v <= V,
         NEW y \in Int, NEW A \in Int, NEW R \in Int, NEW n \in Int,
         10 * s <= o + 10 * (k * U), o <= 10 * s + 10 * (k * U),
         2 * (10 * y) <= 2 * A + 10 * d, 2 * A <= 2 * (10 * y) + 10 * d,
         2 * R <= 2 * n + v, 2 * n <= 2 * R + v
  PROVE  /\ n = s + y => 10 * R <= (o + A) + 10 * ((k + 1) * V)
                         /\ o + A <= 10 * R + 10 * ((k + 1) * V)
         /\ n = s - y => 10 * R <= (o - A) + 10 * ((k + 1) * V)
                         /\ o - A <= 10 * R + 10 * ((k + 1) * V)
<1>1. PICK p \in Int, q \in Int : p = k * U /\ q = (k + 1) * V
  OBVIOUS
<1>2. 10 * p + 10 * V <= 10 * q
  BY <1>1, OneMore
<1>3. /\ n = s + y => 10 * R <= (o + A) + 10 * q /\ o + A <= 10 * R + 10 * q
      /\ n = s - y => 10 * R <= (o - A) + 10 * q /\ o - A <= 10 * R + 10 * q
  BY <1>1, <1>2
<1> QED BY <1>1, <1>3

\* A deposit adds the rounded amount.
LEMMA DepositKept ==
  ASSUME Kept, NEW a \in Tenths, Deposit(a)
  PROVE  Kept'
<1>1. MoneyTyped /\ Ranged /\ DriftBounded /\ Exactly
  BY DEF Kept
<1>2. PICK x \in Nat, k \in Nat, o \in Int, z \in Int, w \in Nat \ {0} :
        x = stored /\ k = steps /\ o = owed /\ z = posted /\ w = One
  BY <1>1, MoneySizes DEF MoneyTyped
<1>3. PICK n \in Nat : n = x + Double(a)
  BY <1>2, DoubleIs
<1>4. PICK R : n = x + Double(a) /\ R = Round(n, 1) /\ R = Add(stored, Double(a))
  BY <1>2, <1>3 DEF Add
<1>5. /\ Moved(a, R) /\ posted' = posted + Double(a) /\ owed' = owed + a
  BY <1>4 DEF Deposit
<1>6. steps < MaxSteps
  BY <1>5 DEF Moved
<1>7. Double(a) \in Nat /\ a \in Int
  BY DoubleIs, MoneyAssumption
<1>8. /\ n <= stored + Double(a) /\ (Double(a) <= n \/ Double(a) <= stored)
      /\ R = Round(n, 1) /\ Moved(a, R) /\ MoneyTyped /\ Ranged
  BY <1>1, <1>2, <1>4, <1>5, <1>7
<1>9. PICK y \in Nat, d \in Nat, U \in Nat, v \in Nat, V \in Nat :
         MovementOf(a, R, n, y, d, U, v, V)
  BY <1>6, <1>8, MovementIs
<1>10. /\ R \in Nat /\ y = Double(a) /\ U = Ulp(peak, 1) /\ V = Ulp(peak', 1)
      /\ U <= V /\ d <= V /\ v <= V
      /\ 2 * (10 * y) <= 2 * (a * One) + 10 * d
      /\ 2 * (a * One) <= 2 * (10 * y) + 10 * d
      /\ 2 * R <= 2 * n + v /\ 2 * n <= 2 * R + v
      /\ InRange(n, 1) /\ InRange(peak', 1) /\ peak' \in Nat
  BY <1>9, Zenon DEF MovementOf
<1>11. PICK t \in Nat \ {0} : t = Power[2 * Bits + 3 + 2 * steps]
        /\ Power[2 * Bits + 3 + 2 * (steps + 1)] = 4 * t /\ One * Power[Bits] <= t
  BY <1>1, Tops DEF MoneyTyped
<1>12. R <= 4 * t
  <2>1. PICK b \in Int : b = w * Power[Bits]
    BY PowersGrow, MoneySizes
  <2>2. y <= t
    <3>1. y <= b
      BY <1>2, <1>10, <2>1, DoubleIs
    <3> QED BY <1>2, <1>11, <2>1, <3>1
  <2>3. x <= t
    BY <1>1, <1>2, <1>11 DEF MoneyTyped, Ranged
  <2>4. R <= 2 * n
    BY <1>4, <1>10, Nearest
  <2> QED BY <1>4, <1>10, <2>2, <2>3, <2>4
<1>13. /\ Ranged' /\ steps' = steps + 1 /\ steps' <= MaxSteps
       /\ stored' = R /\ R <= peak' /\ peak <= peak'
       /\ whole' = (whole /\ a % 10 = 0)
  BY <1>1, <1>5, <1>10, <1>11, <1>12, MovedRanged
<1>14. MoneyTyped'
  <2>1. posted' \in Int /\ owed' \in Int
    BY <1>1, <1>5, <1>7 DEF MoneyTyped
  <2>2. stored' \in Nat /\ peak' \in Nat /\ steps' \in Nat /\ whole' \in BOOLEAN
    BY <1>1, <1>10, <1>13 DEF MoneyTyped
  <2> QED BY <1>13, <2>1, <2>2 DEF MoneyTyped
<1>15. DriftBounded'
  <2>1. PICK i \in Int, A \in Int : i = o * w /\ A = a * w
    BY <1>7
  <2>2. 10 * x <= i + 10 * (k * U) /\ i <= 10 * x + 10 * (k * U)
    <3>1. PICK e \in Int : e = k * U
      OBVIOUS
    <3>2. Distance(10 * x, i) <= 10 * e
      BY <1>1, <1>2, <1>10, <2>1, <3>1 DEF DriftBounded, Drift
    <3> QED BY <2>1, <3>1, <3>2, DistanceIs
  <2>3. n = x + y
    BY <1>4, <1>10
  <2>4. /\ 2 * (10 * y) <= 2 * A + 10 * d /\ 2 * A <= 2 * (10 * y) + 10 * d
    BY <1>2, <1>10, <2>1
  <2>5. 10 * R <= (i + A) + 10 * ((k + 1) * V) /\ i + A <= 10 * R + 10 * ((k + 1) * V)
    BY <1>10, <2>1, <2>2, <2>3, <2>4, DriftAfter
  <2>6. (o + a) * w = i + A
    BY <1>7, <2>1
  <2>7. Drift' = (k + 1) * V
    BY <1>2, <1>10, <1>13 DEF Drift
  <2>8. 10 * stored' = 10 * R /\ owed' * One = i + A
    BY <1>2, <1>5, <1>13, <2>6
  <2>9. Distance(10 * stored', owed' * One) <= 10 * Drift'
    BY <1>10, <2>1, <2>5, <2>7, <2>8, DistanceIs
  <2> QED BY <2>9 DEF DriftBounded
<1>16. Exactly'
  <2> SUFFICES ASSUME whole', peak' < One * Power[Bits]
               PROVE  /\ 10 * stored' = owed' * One /\ posted' = stored'
                      /\ \E m \in Nat : stored' = One * m
    BY DEF Exactly
  <2>1. PICK b \in Nat \ {0} : b = Power[Bits]
    BY PowersGrow, MoneySizes
  <2>2. PICK f \in Nat : f = w * b
    OBVIOUS
  <2>3. R < f /\ peak < f
    BY <1>1, <1>2, <1>10, <1>13, <2>1, <2>2 DEF MoneyTyped
  <2>4. whole /\ a % 10 = 0
    BY <1>13
  <2>5. PICK m \in Nat : x = w * m
    BY <1>1, <1>2, <2>1, <2>2, <2>3, <2>4 DEF Exactly
  <2>6. PICK c \in Nat : a = 10 * c /\ y = w * c
    <3>1. a % 10 = 0 => \E c \in Nat : a = 10 * c /\ Double(a) = One * c
      BY DoubleIs
    <3>2. PICK c \in Nat : a = 10 * c /\ Double(a) = One * c
      BY <2>4, <3>1
    <3>3. a = 10 * c /\ y = w * c
      BY <1>2, <1>10, <3>2
    <3> QED BY <3>3, Zenon
  <2>7. n = w * (m + c)
    <3>1. n = x + y
      BY <1>4, <1>10
    <3>2. w * m + w * c = w * (m + c)
      OBVIOUS
    <3> QED BY <2>5, <2>6, <3>1, <3>2
  <2>8. n < f
    BY <1>2, <1>4, <1>10, <2>1, <2>2, <2>3, StaysLarge
  <2>9. R = w * (m + c)
    <3>1. n = 1 * One * (m + c) /\ n < 1 * One * Power[Bits]
      BY <1>2, <2>1, <2>2, <2>7, <2>8
    <3>2. m + c \in Nat
      OBVIOUS
    <3> QED BY <1>2, <1>4, <1>10, <3>1, <3>2, Exact
  <2>10. 10 * x = o * w /\ z = x
    BY <1>1, <1>2, <2>1, <2>2, <2>3, <2>4 DEF Exactly
  <2>11. (o + a) * w = o * w + 10 * (w * c)
    BY <1>7, <2>6
  <2>12. 10 * R = 10 * x + 10 * (w * c)
    BY <2>5, <2>9
  <2>13. z + y = R
    BY <2>5, <2>6, <2>9, <2>10
  <2>14. stored' = R /\ posted' = z + y /\ owed' = o + a
    BY <1>2, <1>5, <1>10, <1>13
  <2>15. 10 * R = (o + a) * w
    BY <2>10, <2>11, <2>12
  <2>16. 10 * stored' = owed' * One
    BY <1>2, <2>14, <2>15
  <2>17. m + c \in Nat /\ stored' = One * (m + c)
    BY <1>2, <2>9, <2>14
  <2>18. posted' = stored'
    BY <2>13, <2>14
  <2> QED BY <2>16, <2>17, <2>18
<1> QED BY <1>13, <1>14, <1>15, <1>16 DEF Kept

\* A withdrawal subtracts the rounded amount, which the filter has compared.
LEMMA WithdrawKept ==
  ASSUME Kept, NEW a \in Tenths, Withdraw(a)
  PROVE  Kept'
<1>1. MoneyTyped /\ Ranged /\ DriftBounded /\ Exactly
  BY DEF Kept
<1>2. PICK x \in Nat, k \in Nat, o \in Int, z \in Int, w \in Nat \ {0} :
        x = stored /\ k = steps /\ o = owed /\ z = posted /\ w = One
  BY <1>1, MoneySizes DEF MoneyTyped
<1>3. PICK n \in Nat : n = x - Double(a) /\ Double(a) <= x
  BY <1>2, DoubleIs DEF Withdraw
<1>4. PICK R : /\ n = x - Double(a) /\ Double(a) <= x /\ R = Round(n, 1)
               /\ R = Subtract(stored, Double(a))
  BY <1>2, <1>3, DoubleIs DEF Subtract
<1>5. /\ Moved(a, R) /\ posted' = posted - Double(a) /\ owed' = owed - a
  BY <1>4 DEF Withdraw
<1>6. steps < MaxSteps
  BY <1>5 DEF Moved
<1>7. Double(a) \in Nat /\ a \in Int
  BY DoubleIs, MoneyAssumption
<1>8. /\ n <= stored + Double(a) /\ (Double(a) <= n \/ Double(a) <= stored)
      /\ R = Round(n, 1) /\ Moved(a, R) /\ MoneyTyped /\ Ranged
  BY <1>1, <1>2, <1>4, <1>5, <1>7
<1>9. PICK y \in Nat, d \in Nat, U \in Nat, v \in Nat, V \in Nat :
         MovementOf(a, R, n, y, d, U, v, V)
  BY <1>6, <1>8, MovementIs
<1>10. /\ R \in Nat /\ y = Double(a) /\ U = Ulp(peak, 1) /\ V = Ulp(peak', 1)
      /\ U <= V /\ d <= V /\ v <= V
      /\ 2 * (10 * y) <= 2 * (a * One) + 10 * d
      /\ 2 * (a * One) <= 2 * (10 * y) + 10 * d
      /\ 2 * R <= 2 * n + v /\ 2 * n <= 2 * R + v
      /\ InRange(n, 1) /\ InRange(peak', 1) /\ peak' \in Nat
  BY <1>9, Zenon DEF MovementOf
<1>11. PICK t \in Nat \ {0} : t = Power[2 * Bits + 3 + 2 * steps]
        /\ Power[2 * Bits + 3 + 2 * (steps + 1)] = 4 * t /\ One * Power[Bits] <= t
  BY <1>1, Tops DEF MoneyTyped
<1>12. R <= 4 * t
  <2>1. PICK b \in Int : b = w * Power[Bits]
    BY PowersGrow, MoneySizes
  <2>2. y <= t
    <3>1. y <= b
      BY <1>2, <1>10, <2>1, DoubleIs
    <3> QED BY <1>2, <1>11, <2>1, <3>1
  <2>3. x <= t
    BY <1>1, <1>2, <1>11 DEF MoneyTyped, Ranged
  <2>4. R <= 2 * n
    BY <1>4, <1>10, Nearest
  <2> QED BY <1>4, <1>10, <2>2, <2>3, <2>4
<1>13. /\ Ranged' /\ steps' = steps + 1 /\ steps' <= MaxSteps
       /\ stored' = R /\ R <= peak' /\ peak <= peak'
       /\ whole' = (whole /\ a % 10 = 0)
  BY <1>1, <1>5, <1>10, <1>11, <1>12, MovedRanged
<1>14. MoneyTyped'
  <2>1. posted' \in Int /\ owed' \in Int
    BY <1>1, <1>5, <1>7 DEF MoneyTyped
  <2>2. stored' \in Nat /\ peak' \in Nat /\ steps' \in Nat /\ whole' \in BOOLEAN
    BY <1>1, <1>10, <1>13 DEF MoneyTyped
  <2> QED BY <1>13, <2>1, <2>2 DEF MoneyTyped
<1>15. DriftBounded'
  <2>1. PICK i \in Int, A \in Int : i = o * w /\ A = a * w
    BY <1>7
  <2>2. 10 * x <= i + 10 * (k * U) /\ i <= 10 * x + 10 * (k * U)
    <3>1. PICK e \in Int : e = k * U
      OBVIOUS
    <3>2. Distance(10 * x, i) <= 10 * e
      BY <1>1, <1>2, <1>10, <2>1, <3>1 DEF DriftBounded, Drift
    <3> QED BY <2>1, <3>1, <3>2, DistanceIs
  <2>3. n = x - y
    BY <1>4, <1>10
  <2>4. /\ 2 * (10 * y) <= 2 * A + 10 * d /\ 2 * A <= 2 * (10 * y) + 10 * d
    BY <1>2, <1>10, <2>1
  <2>5. 10 * R <= (i - A) + 10 * ((k + 1) * V) /\ i - A <= 10 * R + 10 * ((k + 1) * V)
    BY <1>10, <2>1, <2>2, <2>3, <2>4, DriftAfter
  <2>6. (o - a) * w = i - A
    BY <1>7, <2>1
  <2>7. Drift' = (k + 1) * V
    BY <1>2, <1>10, <1>13 DEF Drift
  <2>8. 10 * stored' = 10 * R /\ owed' * One = i - A
    BY <1>2, <1>5, <1>13, <2>6
  <2>9. Distance(10 * stored', owed' * One) <= 10 * Drift'
    BY <1>10, <2>1, <2>5, <2>7, <2>8, DistanceIs
  <2> QED BY <2>9 DEF DriftBounded
<1>16. Exactly'
  <2> SUFFICES ASSUME whole', peak' < One * Power[Bits]
               PROVE  /\ 10 * stored' = owed' * One /\ posted' = stored'
                      /\ \E m \in Nat : stored' = One * m
    BY DEF Exactly
  <2>1. PICK b \in Nat \ {0} : b = Power[Bits]
    BY PowersGrow, MoneySizes
  <2>2. PICK f \in Nat : f = w * b
    OBVIOUS
  <2>3. R < f /\ peak < f
    BY <1>1, <1>2, <1>10, <1>13, <2>1, <2>2 DEF MoneyTyped
  <2>4. whole /\ a % 10 = 0
    BY <1>13
  <2>5. PICK m \in Nat : x = w * m
    BY <1>1, <1>2, <2>1, <2>2, <2>3, <2>4 DEF Exactly
  <2>6. PICK c \in Nat : a = 10 * c /\ y = w * c
    <3>1. a % 10 = 0 => \E c \in Nat : a = 10 * c /\ Double(a) = One * c
      BY DoubleIs
    <3>2. PICK c \in Nat : a = 10 * c /\ Double(a) = One * c
      BY <2>4, <3>1
    <3>3. a = 10 * c /\ y = w * c
      BY <1>2, <1>10, <3>2
    <3> QED BY <3>3, Zenon
  <2>7. n = w * (m - c)
    <3>1. n = x - y
      BY <1>4, <1>10
    <3>2. w * m - w * c = w * (m - c)
      OBVIOUS
    <3> QED BY <2>5, <2>6, <3>1, <3>2
  <2>8. m - c \in Nat
    <3>1. w * c <= w * m
      BY <1>4, <1>10, <2>5, <2>6
    <3>2. c <= m
      BY <3>1, WeaklyMultiplied, Multiplied
    <3> QED BY <3>2
  <2>9. n < f
    BY <1>1, <1>2, <1>4, <1>7, <2>3 DEF Ranged, MoneyTyped
  <2>10. R = w * (m - c)
    <3>1. n = 1 * One * (m - c) /\ n < 1 * One * Power[Bits]
      BY <1>2, <2>1, <2>2, <2>7, <2>9
    <3>2. m - c \in Nat
      BY <2>8
    <3> QED BY <1>2, <1>4, <1>10, <3>1, <3>2, Exact
  <2>11. 10 * x = o * w /\ z = x
    BY <1>1, <1>2, <2>1, <2>2, <2>3, <2>4 DEF Exactly
  <2>12. (o - a) * w = o * w - 10 * (w * c)
    BY <1>7, <2>6
  <2>13. 10 * R = 10 * x - 10 * (w * c)
    BY <2>5, <2>10
  <2>14. z - y = R
    BY <2>5, <2>6, <2>10, <2>11
  <2>15. stored' = R /\ posted' = z - y /\ owed' = o - a
    BY <1>2, <1>5, <1>10, <1>13
  <2>16. 10 * R = (o - a) * w
    BY <2>11, <2>12, <2>13
  <2>17. 10 * stored' = owed' * One
    BY <1>2, <2>15, <2>16
  <2>18. m - c \in Nat /\ stored' = One * (m - c)
    BY <1>2, <2>10, <2>15, <2>8
  <2>19. posted' = stored'
    BY <2>14, <2>15
  <2> QED BY <2>17, <2>18, <2>19
<1> QED BY <1>13, <1>14, <1>15, <1>16 DEF Kept

-----------------------------------------------------------------------------
(* Every step of the sidelines.                                             *)

\* No other part of the sidelines touches the balance.
LEMMA NextKept == Kept /\ [Next]_vars => Kept'
<1> SUFFICES ASSUME Kept, [Next]_vars PROVE Kept'
  OBVIOUS
<1>1. CASE UNCHANGED moneyVars
  BY <1>1 DEF Kept, MoneyTyped, Ranged, DriftBounded, Drift, Exactly, moneyVars
<1>2. ASSUME NEW a \in Tenths, Deposit(a)
      PROVE  Kept'
  BY <1>2, DepositKept
<1>3. ASSUME NEW a \in Tenths, Withdraw(a)
      PROVE  Kept'
  BY <1>3, WithdrawKept
<1>4. CASE MoneyNext
  BY <1>2, <1>3, <1>4 DEF MoneyNext
<1> QED
  BY <1>1, <1>4 DEF Next, Events, Rounding, Seeding, Probing, Listing, vars

LEMMA AlwaysKept == Spec => []Kept
<1>1. Init => Kept
  BY InitKept DEF Init
<1> QED BY <1>1, NextKept, PTL DEF Spec

\* After any number of $inc the stored balance is off by at most one distance of
\* doubles, at the highest balance there was, for each of them.
THEOREM DriftIsBounded == Spec => []DriftBounded
<1>1. Kept => DriftBounded
  BY DEF Kept
<1> QED BY <1>1, AlwaysKept, PTL

\* The filter { balance: { $gte: amount } } compares rounded balances, and yet no
\* client has taken out a tenth more than was paid in, as long as the bound of
\* the drift is less than a tenth.
THEOREM NoMoneyIsMade == Spec => []NoMoneyMade
<1>1. Kept => NoMoneyMade
  <2> SUFFICES ASSUME Kept, 10 * Drift < One PROVE owed >= 0
    BY DEF NoMoneyMade
  <2>1. PICK x \in Nat, o \in Int, w \in Nat \ {0} : x = stored /\ o = owed /\ w = One
    BY MoneySizes DEF Kept, MoneyTyped
  <2>2. PICK t \in Nat \ {0} :
          t = Power[2 * Bits + 3 + 2 * steps] /\ (\A n \in Nat : n <= t => InRange(n, 1))
    BY Tops DEF Kept, MoneyTyped
  <2>3. peak \in Nat /\ InRange(peak, 1) /\ steps \in Nat
    BY <2>2 DEF Kept, MoneyTyped, Ranged
  <2>4. PICK u \in Nat : u = Ulp(peak, 1)
    BY <2>3, UlpIs
  <2>5. PICK d \in Nat : d = 10 * Drift
    BY <2>3, <2>4 DEF Drift
  <2>6. PICK i \in Int : i = o * w
    OBVIOUS
  <2>7. Distance(10 * x, i) <= d
    BY <2>1, <2>5, <2>6 DEF Kept, DriftBounded
  <2>8. 0 < i + w
    <3>1. 10 * x <= i + d /\ d < w
      BY <2>1, <2>5, <2>6, <2>7, DistanceIs
    <3> QED BY <3>1
  <2>9. w * 0 < w * (o + 1)
    BY <2>6, <2>8
  <2>10. 0 < o + 1
    BY <2>9, Multiplied
  <2> QED BY <2>1, <2>10
<1> QED BY <1>1, AlwaysKept, PTL

\* Balances of whole amounts are exact below 2^Bits, and reconcile, which adds the
\* ledger's entries instead, says so.
THEOREM WholeIsExact == Spec => []WholeExact
<1>1. Kept => WholeExact
  <2> SUFFICES ASSUME Kept, whole, peak < One * Power[Bits]
               PROVE  10 * stored = owed * One /\ InSync
    BY DEF WholeExact
  <2>1. PICK m \in Nat : 10 * stored = owed * One /\ posted = stored /\ stored = One * m
    BY DEF Kept, Exactly
  <2>2. PICK x \in Nat, w \in Nat \ {0}, b \in Nat \ {0} :
          x = stored /\ w = One /\ b = Power[Bits]
    BY MoneySizes, PowersGrow DEF Kept, MoneyTyped
  <2>3. PICK t \in Nat \ {0} :
          t = Power[2 * Bits + 3 + 2 * steps] /\ (\A n \in Nat : n <= t => InRange(n, 1))
    BY Tops DEF Kept, MoneyTyped
  <2>4. stored <= peak /\ peak \in Nat /\ peak <= t
    BY <2>3 DEF Kept, Ranged, MoneyTyped
  <2>5. InRange(x, 1)
    BY <2>2, <2>3, <2>4
  <2>6. PICK f \in Nat : f = w * b
    OBVIOUS
  <2>7. x < f
    BY <2>2, <2>4, <2>6
  <2>8. x = 1 * One * m /\ x < 1 * One * Power[Bits]
    BY <2>1, <2>2, <2>6, <2>7
  <2>9. Round(x, 1) = x
    BY <2>1, <2>2, <2>5, <2>8, Exact
  <2>10. Computed = Round(x, 1)
    <3>1. posted = x /\ x >= 0 /\ x - 0 = x
      BY <2>1, <2>2
    <3> QED BY <3>1 DEF Computed, Subtract
  <2> QED BY <2>1, <2>2, <2>9, <2>10 DEF InSync
<1> QED BY <1>1, AlwaysKept, PTL

-----------------------------------------------------------------------------
(* The seed script.  A pass is known by how many were made before it.       *)

PassNames == {"wallet", "completed", "stuck", "failed", "duplicate", "outbox"}

Filled == Cardinality(DemoWallets)
Posted == CompletedTransfers + StuckTransfers
Passes == Filled + Posted + 3
Done == Passes - Len(todo)

\* The pass that follows k others.
PassAfter(pass, k) ==
  /\ pass = "wallet" <=> k < Filled
  /\ pass = "completed" <=> Filled <= k /\ k < Filled + CompletedTransfers
  /\ pass = "stuck" <=> Filled + CompletedTransfers <= k /\ k < Filled + Posted
  /\ pass = "failed" <=> k = Filled + Posted
  /\ pass = "duplicate" <=> k = Filled + Posted + 1
  /\ pass = "outbox" <=> k = Filled + Posted + 2

\* How many transfers are stored after k passes.
Made(k) == IF k <= Filled THEN 0 ELSE IF k < Passes THEN k - Filled ELSE Posted + 2

StoredEntry == [amount : Int, after : Int]
StoredTransfer ==
  [from : DemoWallets, to : DemoWallets, amount : Nat \ {0},
   status : {"PENDING", "COMPLETED", "FAILED"}]

OnScript ==
  /\ todo \in Seq(PassNames) /\ Len(todo) <= Passes
  /\ \A i \in 1 .. Len(todo) : PassAfter(todo[i], Done + i - 1)

Seeded ==
  /\ OnScript
  /\ balance \in [DemoWallets -> Int] /\ remembered \in [DemoWallets -> Int]
  /\ entries \in [DemoWallets -> Seq(StoredEntry)]
  /\ transfers \in Seq(StoredTransfer) /\ Len(transfers) = Made(Done)
  /\ paid \in Int

\* How many passes there are.
LEMMA SeedSizes == Filled \in Nat /\ Posted \in Nat /\ Passes \in Nat
                   /\ CompletedTransfers \in Nat /\ StuckTransfers \in Nat
<1>1. Cardinality(DemoWallets) \in Nat
  BY SeedAssumption, FS_CardinalityType
<1>2. CompletedTransfers \in Nat /\ StuckTransfers \in Nat
  BY SeedAssumption
<1> QED BY <1>1, <1>2 DEF Filled, Posted, Passes

\* A loop is its pass so many times.
LEMMA TimesIs ==
  ASSUME NEW n \in Nat, NEW pass \in PassNames
  PROVE  /\ Times(n, pass) \in Seq(PassNames) /\ Len(Times(n, pass)) = n
         /\ \A i \in 1 .. n : Times(n, pass)[i] = pass
<1>1. Times(n, pass) \in [1 .. n -> PassNames]
  BY DEF Times
<1>2. Times(n, pass) \in Seq(PassNames)
  BY <1>1, SeqDef
<1>3. DOMAIN Times(n, pass) = 1 .. n
  BY <1>1
<1> QED BY <1>2, <1>3, LenProperties DEF Times

\* The script, pass by pass.
LEMMA ScriptPasses ==
  /\ Script \in Seq(PassNames) /\ Len(Script) = Passes
  /\ \A i \in 1 .. Passes : PassAfter(Script[i], i - 1)
<1>1. PICK w \in Nat, c \in Nat, s \in Nat :
        w = Filled /\ c = CompletedTransfers /\ s = StuckTransfers
  BY SeedSizes
<1>2. PICK A, B, C, D :
        /\ A = Times(w, "wallet") /\ B = Times(c, "completed") /\ C = Times(s, "stuck")
        /\ D = <<"failed", "duplicate", "outbox">>
  OBVIOUS
<1>3. /\ A \in Seq(PassNames) /\ Len(A) = w /\ \A i \in 1 .. w : A[i] = "wallet"
      /\ B \in Seq(PassNames) /\ Len(B) = c /\ \A i \in 1 .. c : B[i] = "completed"
      /\ C \in Seq(PassNames) /\ Len(C) = s /\ \A i \in 1 .. s : C[i] = "stuck"
  <2>1. "wallet" \in PassNames /\ "completed" \in PassNames /\ "stuck" \in PassNames
    BY DEF PassNames
  <2> QED BY <1>1, <1>2, <2>1, TimesIs
<1>4. /\ D \in Seq(PassNames) /\ Len(D) = 3
      /\ D[1] = "failed" /\ D[2] = "duplicate" /\ D[3] = "outbox"
  BY <1>2 DEF PassNames
<1>5. PICK AB : AB = A \o B
  OBVIOUS
<1>6. /\ AB \in Seq(PassNames) /\ Len(AB) = w + c
      /\ \A i \in 1 .. w + c : AB[i] = IF i <= w THEN A[i] ELSE B[i - w]
  <2>1. /\ AB \in Seq(PassNames) /\ Len(AB) = Len(A) + Len(B)
        /\ \A i \in 1 .. Len(A) + Len(B) :
             AB[i] = IF i <= Len(A) THEN A[i] ELSE B[i - Len(A)]
    BY <1>3, <1>5, ConcatProperties
  <2> QED BY <1>3, <2>1
<1>7. PICK ABC : ABC = AB \o C
  OBVIOUS
<1>8. /\ ABC \in Seq(PassNames) /\ Len(ABC) = w + c + s
      /\ \A i \in 1 .. w + c + s : ABC[i] = IF i <= w + c THEN AB[i] ELSE C[i - (w + c)]
  <2>1. /\ ABC \in Seq(PassNames) /\ Len(ABC) = Len(AB) + Len(C)
        /\ \A i \in 1 .. Len(AB) + Len(C) :
             ABC[i] = IF i <= Len(AB) THEN AB[i] ELSE C[i - Len(AB)]
    <3>1. AB \in Seq(PassNames) /\ C \in Seq(PassNames)
      BY <1>3, <1>6
    <3> QED BY <1>7, <3>1, ConcatProperties
  <2> QED BY <1>3, <1>6, <2>1
<1>9. PICK E : E = ABC \o D
  OBVIOUS
<1>10. /\ E \in Seq(PassNames) /\ Len(E) = w + c + s + 3
       /\ \A i \in 1 .. w + c + s + 3 :
            E[i] = IF i <= w + c + s THEN ABC[i] ELSE D[i - (w + c + s)]
  <2>1. /\ E \in Seq(PassNames) /\ Len(E) = Len(ABC) + Len(D)
        /\ \A i \in 1 .. Len(ABC) + Len(D) :
             E[i] = IF i <= Len(ABC) THEN ABC[i] ELSE D[i - Len(ABC)]
    BY <1>4, <1>8, <1>9, ConcatProperties
  <2> QED BY <1>4, <1>8, <2>1
<1>11. E = Script
  BY <1>1, <1>2, <1>5, <1>7, <1>9 DEF Script, Filled
<1>12. Posted = c + s /\ Passes = w + c + s + 3
  BY <1>1 DEF Posted, Passes
<1>13. ASSUME NEW i \in 1 .. w + c + s + 3
       PROVE  PassAfter(E[i], i - 1)
  <2> USE DEF PassAfter
  <2>1. CASE i <= w
    <3>1. E[i] = "wallet"
      <4>1. i <= w + c + s /\ i <= w + c /\ i \in 1 .. w /\ i \in 1 .. w + c
            /\ i \in 1 .. w + c + s
        BY <1>1, <2>1
      <4>2. E[i] = ABC[i] /\ ABC[i] = AB[i] /\ AB[i] = A[i]
        BY <1>6, <1>8, <1>10, <2>1, <4>1
      <4> QED BY <1>3, <4>1, <4>2
    <3> QED BY <1>1, <1>12, <2>1, <3>1
  <2>2. CASE w < i /\ i <= w + c
    <3>1. E[i] = "completed"
      <4>1. i <= w + c + s /\ ~(i <= w) /\ i - w \in 1 .. c /\ i \in 1 .. w + c
            /\ i \in 1 .. w + c + s
        BY <1>1, <2>2
      <4>2. E[i] = ABC[i] /\ ABC[i] = AB[i] /\ AB[i] = B[i - w]
        BY <1>6, <1>8, <1>10, <2>2, <4>1
      <4> QED BY <1>3, <4>1, <4>2
    <3> QED BY <1>1, <1>12, <2>2, <3>1
  <2>3. CASE w + c < i /\ i <= w + c + s
    <3>1. E[i] = "stuck"
      <4>1. ~(i <= w + c) /\ i - (w + c) \in 1 .. s /\ i \in 1 .. w + c + s
        BY <1>1, <2>3
      <4>2. E[i] = ABC[i] /\ ABC[i] = C[i - (w + c)]
        BY <1>8, <1>10, <2>3, <4>1
      <4> QED BY <1>3, <4>1, <4>2
    <3> QED BY <1>1, <1>12, <2>3, <3>1
  <2>4. CASE w + c + s < i
    <3>1. ~(i <= w + c + s) /\ (i - (w + c + s) = 1 \/ i - (w + c + s) = 2 \/ i - (w + c + s) = 3)
      BY <1>1, <2>4
    <3>2. E[i] = D[i - (w + c + s)]
      BY <1>10, <3>1
    <3>3. CASE i - (w + c + s) = 1
      <4>1. E[i] = "failed" /\ i - 1 = w + c + s
        BY <1>1, <1>4, <3>2, <3>3
      <4> QED BY <1>1, <1>12, <4>1
    <3>4. CASE i - (w + c + s) = 2
      <4>1. E[i] = "duplicate" /\ i - 1 = w + c + s + 1
        BY <1>1, <1>4, <3>2, <3>4
      <4> QED BY <1>1, <1>12, <4>1
    <3>5. CASE i - (w + c + s) = 3
      <4>1. E[i] = "outbox" /\ i - 1 = w + c + s + 2
        BY <1>1, <1>4, <3>2, <3>5
      <4> QED BY <1>1, <1>12, <4>1
    <3> QED BY <3>1, <3>3, <3>4, <3>5
  <2> QED BY <1>1, <2>1, <2>2, <2>3, <2>4
<1> QED BY <1>10, <1>11, <1>12, <1>13

\* A pass is made when those before it were, and the others are left.
LEMMA Turns ==
  ASSUME OnScript, NEW pass, Turn(pass)
  PROVE  /\ OnScript' /\ Done \in Nat /\ Done < Passes /\ Done' = Done + 1
         /\ PassAfter(pass, Done)
         /\ ToSet(todo') \subseteq ToSet(todo)
         /\ pass = "duplicate" => "duplicate" \notin ToSet(todo')
<1>1. todo \in Seq(PassNames) /\ todo # <<>> /\ Head(todo) = pass /\ todo' = Tail(todo)
  BY DEF OnScript, Turn
<1>2. PICK r : r = Tail(todo)
  OBVIOUS
<1>3. PICK n \in Nat : n = Len(todo)
  BY <1>1, LenProperties
<1>4. PICK m \in Nat : m = Passes
  BY SeedSizes
<1>5. /\ n # 0 /\ r \in Seq(PassNames) /\ Len(r) = n - 1
      /\ \A i \in 1 .. n - 1 : r[i] = todo[i + 1]
  BY <1>1, <1>2, <1>3, EmptySeq, HeadTailProperties
<1>6. Head(todo) = todo[1]
  BY <1>1
<1>7. n <= m /\ Done = m - n
  BY <1>3, <1>4 DEF OnScript, Done
<1>8. PICK k \in Nat : k = Done
  BY <1>7
<1>9. \A i \in 1 .. n : PassAfter(todo[i], k + i - 1)
  BY <1>3, <1>8 DEF OnScript
<1>10. PassAfter(pass, k)
  <2>1. PassAfter(todo[1], k + 1 - 1)
    BY <1>5, <1>9
  <2>2. k + 1 - 1 = k
    OBVIOUS
  <2> QED BY <1>1, <1>6, <2>1, <2>2
<1>11. Done' = k + 1
  <2>1. Len(todo') = n - 1
    BY <1>1, <1>2, <1>5
  <2>2. Passes' = m
    BY <1>4 DEF Passes, Filled, Posted
  <2> QED BY <1>7, <1>8, <2>1, <2>2 DEF Done
<1>12. ASSUME NEW i \in 1 .. n - 1
       PROVE  PassAfter(r[i], (k + 1) + i - 1)
  <2>1. i + 1 \in 1 .. n /\ k + (i + 1) - 1 = (k + 1) + i - 1
    BY <1>5
  <2>2. PassAfter(todo[i + 1], k + (i + 1) - 1)
    BY <1>9, <2>1
  <2> QED BY <1>5, <2>1, <2>2
<1>13. OnScript'
  <2>1. Len(todo') = n - 1 /\ todo' = r
    BY <1>1, <1>2, <1>5
  <2>2. Len(todo') <= Passes
    BY <1>4, <1>5, <1>7, <2>1
  <2>3. \A i \in 1 .. Len(todo') : PassAfter(todo'[i], Done' + i - 1)
    BY <1>11, <1>12, <2>1
  <2> QED BY <1>5, <2>1, <2>2, <2>3 DEF OnScript, PassAfter, Passes, Filled, Posted
<1>14. DOMAIN todo = 1 .. n /\ DOMAIN r = 1 .. n - 1
  BY <1>1, <1>3, <1>5, LenProperties
<1>15. ToSet(r) \subseteq ToSet(todo)
  <2> SUFFICES ASSUME NEW i \in 1 .. n - 1
               PROVE  r[i] \in ToSet(todo)
    BY <1>14 DEF ToSet
  <2>1. i + 1 \in 1 .. n /\ r[i] = todo[i + 1]
    BY <1>5
  <2> QED BY <1>14, <2>1 DEF ToSet
<1>16. ASSUME pass = "duplicate"
       PROVE  "duplicate" \notin ToSet(r)
  <2> SUFFICES ASSUME NEW i \in 1 .. n - 1, r[i] = "duplicate"
               PROVE  FALSE
    BY <1>14 DEF ToSet
  <2>1. k = Filled + Posted + 1
    BY <1>10, <1>16 DEF PassAfter
  <2>2. (k + 1) + i - 1 = Filled + Posted + 1
    BY <1>12 DEF PassAfter
  <2> QED BY <2>1, <2>2
<1> QED BY <1>1, <1>2, <1>4, <1>5, <1>7, <1>8, <1>10, <1>11, <1>13, <1>15, <1>16

-----------------------------------------------------------------------------
(* What a pass does to a wallet's entries, its balance and the transfers.   *)

\* What entries, or the pending of some transfers, add up to.
Credits(s) == SumFunction([n \in DOMAIN s |-> s[n].amount])
Pending(s) == {n \in DOMAIN s : s[n].status = "PENDING"}
Out(s) == SumFunction([n \in Pending(s) |-> s[n].amount])

\* Two elements are added one after the other.
LEMMA TwoMore ==
  ASSUME NEW S, NEW s \in Seq(S), NEW c \in S, NEW e \in S
  PROVE  s \o <<c, e>> = Append(Append(s, c), e)
<1>1. PICK t : t = <<c, e>>
  OBVIOUS
<1>2. t \in Seq(S) /\ Len(t) = 2 /\ t[1] = c /\ t[2] = e
  BY <1>1
<1>3. PICK n \in Nat : n = Len(s)
  BY LenProperties
<1>4. PICK r : r = Append(s, c)
  OBVIOUS
<1>5. r \in Seq(S) /\ Len(r) = n + 1 /\ r[n + 1] = c /\ \A i \in 1 .. n : r[i] = s[i]
  BY <1>3, <1>4, AppendProperties
<1>6. PICK p, q : p = Append(r, e) /\ q = s \o t
  OBVIOUS
<1>7. /\ p \in Seq(S) /\ Len(p) = (n + 1) + 1 /\ p[(n + 1) + 1] = e
      /\ \A i \in 1 .. n + 1 : p[i] = r[i]
  <2>1. /\ p \in Seq(S) /\ Len(p) = Len(r) + 1 /\ p[Len(r) + 1] = e
        /\ \A i \in 1 .. Len(r) : p[i] = r[i]
    <3>1. r \in Seq(S)
      BY <1>5
    <3> QED BY <1>6, <3>1, AppendProperties
  <2> QED BY <1>5, <2>1
<1>8. /\ q \in Seq(S) /\ Len(q) = n + 2
      /\ \A i \in 1 .. n + 2 : q[i] = IF i <= n THEN s[i] ELSE t[i - n]
  <2>1. /\ q \in Seq(S) /\ Len(q) = Len(s) + Len(t)
        /\ \A i \in 1 .. Len(s) + Len(t) : q[i] = IF i <= Len(s) THEN s[i] ELSE t[i - Len(s)]
    BY <1>2, <1>6, ConcatProperties
  <2> QED BY <1>2, <1>3, <2>1
<1>9. ASSUME NEW i \in 1 .. n + 2
      PROVE  q[i] = p[i]
  <2>1. CASE i <= n
    <3>1. q[i] = s[i] /\ i \in 1 .. n /\ i \in 1 .. n + 1
      BY <1>8, <2>1
    <3> QED BY <1>5, <1>7, <3>1
  <2>2. CASE i = n + 1
    <3>1. q[i] = t[i - n] /\ i - n = 1 /\ i \in 1 .. n + 1
      BY <1>8, <2>2
    <3> QED BY <1>2, <1>5, <1>7, <2>2, <3>1
  <2>3. CASE i = n + 2
    <3>1. q[i] = t[i - n] /\ i - n = 2 /\ i = (n + 1) + 1
      BY <1>8, <2>3
    <3> QED BY <1>2, <1>7, <3>1
  <2> QED BY <2>1, <2>2, <2>3
<1>10. Len(q) = Len(p) /\ \A i \in 1 .. Len(q) : q[i] = p[i]
  BY <1>7, <1>8, <1>9
<1>11. q = p
  BY <1>7, <1>8, <1>10, SeqEqual
<1> QED BY <1>1, <1>4, <1>6, <1>11

\* One entry more.
LEMMA CreditsAdd ==
  ASSUME NEW s \in Seq(StoredEntry), NEW e \in StoredEntry
  PROVE  /\ Append(s, e) \in Seq(StoredEntry) /\ Credits(s) \in Int
         /\ Credits(Append(s, e)) = Credits(s) + e.amount
<1>1. PICK n \in Nat : n = Len(s)
  BY LenProperties
<1>2. PICK r : r = Append(s, e)
  OBVIOUS
<1>3. /\ r \in Seq(StoredEntry) /\ Len(r) = n + 1 /\ r[n + 1] = e
      /\ \A i \in 1 .. n : r[i] = s[i]
  BY <1>1, <1>2, AppendProperties
<1>4. DOMAIN s = 1 .. n /\ DOMAIN r = 1 .. n + 1
  BY <1>1, <1>3, LenProperties
<1>5. PICK f, g : f = [i \in DOMAIN s |-> s[i].amount] /\ g = [i \in DOMAIN r |-> r[i].amount]
  OBVIOUS
<1>6. \A i \in 1 .. n : s[i] \in StoredEntry
  BY <1>1, ElementOfSeq
<1>7. \A i \in 1 .. n : f[i] \in Int /\ g[i] = f[i]
  <2>1. \A i \in 1 .. n : i \in 1 .. n + 1
    OBVIOUS
  <2> QED BY <1>3, <1>4, <1>5, <1>6, <2>1 DEF StoredEntry
<1>8. g[n + 1] = e.amount /\ e.amount \in Int
  <2>1. n + 1 \in 1 .. n + 1
    OBVIOUS
  <2> QED BY <1>3, <1>4, <1>5, <2>1 DEF StoredEntry
<1>9. /\ IsFiniteSet(DOMAIN f) /\ n + 1 \notin DOMAIN f /\ DOMAIN g = DOMAIN f \union {n + 1}
      /\ \A i \in DOMAIN f : f[i] \in Int /\ g[i] = f[i]
  <2>1. DOMAIN f = 1 .. n /\ DOMAIN g = 1 .. n + 1
    BY <1>4, <1>5
  <2>2. 1 .. n + 1 = 1 .. n \union {n + 1} /\ n + 1 \notin 1 .. n
    OBVIOUS
  <2>3. IsFiniteSet(1 .. n)
    BY FS_Interval
  <2> QED BY <1>7, <2>1, <2>2, <2>3
<1>10. SumFunction(g) = SumFunction(f) + g[n + 1]
  BY <1>8, <1>9, WholeGrows
<1>11. SumFunction(f) \in Int
  BY <1>9, WholeInt
<1> QED BY <1>2, <1>3, <1>5, <1>8, <1>10, <1>11 DEF Credits

\* One transfer more.
LEMMA OutAdds ==
  ASSUME NEW s \in Seq(StoredTransfer), NEW x \in StoredTransfer
  PROVE  /\ Out(s) \in Int
         /\ Out(Append(s, x)) = IF x.status = "PENDING" THEN Out(s) + x.amount ELSE Out(s)
<1>1. PICK n \in Nat : n = Len(s)
  BY LenProperties
<1>2. PICK r : r = Append(s, x)
  OBVIOUS
<1>3. /\ Len(r) = n + 1 /\ r[n + 1] = x /\ r \in Seq(StoredTransfer)
      /\ \A i \in 1 .. n : r[i] = s[i]
  BY <1>1, <1>2, AppendProperties
<1>4. DOMAIN s = 1 .. n /\ DOMAIN r = 1 .. n + 1
  BY <1>1, <1>3, LenProperties
<1>5. PICK P, Q : P = Pending(s) /\ Q = Pending(r)
  OBVIOUS
<1>6. PICK f, g : f = [i \in P |-> s[i].amount] /\ g = [i \in Q |-> r[i].amount]
  OBVIOUS
<1>7. P \subseteq 1 .. n /\ IsFiniteSet(P) /\ n + 1 \notin P
  <2>1. P \subseteq 1 .. n
    BY <1>4, <1>5 DEF Pending
  <2>2. IsFiniteSet(1 .. n)
    BY FS_Interval
  <2>3. n + 1 \notin 1 .. n
    OBVIOUS
  <2> QED BY <2>1, <2>2, <2>3, FS_Subset
<1>8. Q = IF x.status = "PENDING" THEN P \union {n + 1} ELSE P
  <2>1. 1 .. n + 1 = 1 .. n \union {n + 1}
    OBVIOUS
  <2>2. \A i : i \in Q <=> (i \in 1 .. n /\ s[i].status = "PENDING")
                             \/ (i = n + 1 /\ x.status = "PENDING")
    BY <1>3, <1>4, <1>5, <2>1 DEF Pending
  <2>3. \A i : i \in P <=> (i \in 1 .. n /\ s[i].status = "PENDING")
    BY <1>4, <1>5 DEF Pending
  <2> QED BY <2>2, <2>3
<1>9. \A i \in P : f[i] \in Int /\ i \in Q /\ g[i] = f[i]
  <2>1. \A i \in 1 .. n : s[i].amount \in Int
    <3>1. \A i \in 1 .. n : s[i] \in StoredTransfer
      BY <1>1, ElementOfSeq
    <3> QED BY <3>1 DEF StoredTransfer
  <2>2. \A i \in P : i \in Q
    BY <1>8
  <2> QED BY <1>3, <1>6, <1>7, <2>1, <2>2
<1>10. SumFunction(f) \in Int
  BY <1>6, <1>7, <1>9, WholeInt
<1>11. CASE x.status = "PENDING"
  <2>1. g[n + 1] = x.amount /\ x.amount \in Int
    BY <1>3, <1>6, <1>8, <1>11 DEF StoredTransfer
  <2>2. /\ IsFiniteSet(DOMAIN f) /\ n + 1 \notin DOMAIN f /\ DOMAIN g = DOMAIN f \union {n + 1}
        /\ \A i \in DOMAIN f : f[i] \in Int /\ g[i] = f[i]
    BY <1>6, <1>7, <1>8, <1>9, <1>11
  <2>3. SumFunction(g) = SumFunction(f) + g[n + 1]
    BY <2>1, <2>2, WholeGrows
  <2> QED BY <1>2, <1>5, <1>6, <1>10, <1>11, <2>1, <2>3 DEF Out
<1>12. CASE x.status # "PENDING"
  <2>1. g = f
    BY <1>6, <1>8, <1>9, <1>12
  <2> QED BY <1>2, <1>5, <1>6, <1>10, <1>12, <2>1 DEF Out
<1> QED BY <1>11, <1>12

\* A pending transfer is set to failed.
LEMMA OutLess ==
  ASSUME NEW s \in Seq(StoredTransfer), NEW n \in DOMAIN s, s[n].status = "PENDING",
         NEW r \in Seq(StoredTransfer), DOMAIN r = DOMAIN s, r[n].status = "FAILED",
         \A i \in DOMAIN s : r[i].amount = s[i].amount /\ (i # n => r[i].status = s[i].status)
  PROVE  Out(r) \in Int /\ Out(s) = Out(r) + s[n].amount
<1>1. PICK m \in Nat : DOMAIN s = 1 .. m /\ DOMAIN r = 1 .. m
  BY LenProperties
<1>2. \A i \in 1 .. m : s[i] \in StoredTransfer
  BY <1>1, LenProperties, ElementOfSeq
<1>3. PICK P, Q : P = Pending(s) /\ Q = Pending(r)
  OBVIOUS
<1>4. PICK f, g : f = [i \in P |-> s[i].amount] /\ g = [i \in Q |-> r[i].amount]
  OBVIOUS
<1>5. P \subseteq 1 .. m /\ n \in P /\ P = Q \union {n} /\ n \notin Q
  <2>1. \A i : i \in Q <=> i \in 1 .. m /\ i # n /\ s[i].status = "PENDING"
    BY <1>1, <1>3 DEF Pending
  <2>2. \A i : i \in P <=> i \in 1 .. m /\ s[i].status = "PENDING"
    BY <1>1, <1>3 DEF Pending
  <2> QED BY <1>1, <2>1, <2>2
<1>6. IsFiniteSet(Q)
  <2>1. IsFiniteSet(1 .. m)
    BY <1>1, FS_Interval
  <2>2. Q \subseteq 1 .. m
    BY <1>5
  <2> QED BY <2>1, <2>2, FS_Subset
<1>7. \A i \in P : f[i] \in Int
  BY <1>2, <1>4, <1>5 DEF StoredTransfer
<1>8. \A i \in Q : g[i] \in Int /\ f[i] = g[i]
  BY <1>1, <1>4, <1>5, <1>7
<1>9. SumFunction(f) = SumFunction(g) + f[n]
  <2>1. DOMAIN g = Q /\ DOMAIN f = Q \union {n} /\ f[n] \in Int
    BY <1>4, <1>5, <1>7
  <2> QED BY <1>5, <1>6, <1>8, <2>1, WholeGrows
<1>10. SumFunction(g) \in Int
  BY <1>4, <1>6, <1>8, WholeInt
<1> QED BY <1>3, <1>4, <1>5, <1>9, <1>10 DEF Out

\* x more is stored of w, and its entries add up to x more.
Shifts(w, x) ==
  balance'[w] = balance[w] + x /\ Credits(entries'[w]) = Credits(entries[w]) + x

\* A pass of from and to, of which to is given y in all.
Posts(from, to, a, y, pass, status) ==
  /\ Turn(pass) /\ from # to /\ UNCHANGED paid
  /\ transfers' = Append(transfers, [from |-> from, to |-> to, amount |-> a, status |-> status])
  /\ balance' \in [DemoWallets -> Int] /\ remembered' \in [DemoWallets -> Int]
  /\ entries' \in [DemoWallets -> Seq(StoredEntry)]
  /\ Shifts(from, -a) /\ Shifts(to, y)
  /\ \A w \in DemoWallets : w # from /\ w # to => Shifts(w, 0)

\* Each pass over the transfers posts to each wallet what it stores of it.
LEMMA BetweenPosts ==
  ASSUME Seeded, NEW from \in DemoWallets, NEW to \in DemoWallets, NEW a \in Amounts,
         Between(from, to, a)
  PROVE  /\ a \in Nat \ {0}
         /\ \/ Posts(from, to, a, a, "completed", "COMPLETED")
            \/ Posts(from, to, a, 0, "stuck", "PENDING")
            \/ Posts(from, to, a, 0, "failed", "FAILED")
            \/ Posts(from, to, a, 2 * a, "duplicate", "COMPLETED")
<1>1. a \in Nat \ {0}
  BY SeedAssumption
<1>2. /\ balance \in [DemoWallets -> Int] /\ remembered \in [DemoWallets -> Int]
      /\ entries \in [DemoWallets -> Seq(StoredEntry)]
      /\ \A w \in DemoWallets : balance[w] \in Int /\ remembered[w] \in Int /\ entries[w] \in Seq(StoredEntry)
  BY DEF Seeded
<1>3. PICK d, c, e : d = Entry(from, -a) /\ c = Entry(to, a) /\ e = [Entry(to, 2 * a) EXCEPT !.amount = a]
  OBVIOUS
<1>4. /\ d \in StoredEntry /\ c \in StoredEntry /\ e \in StoredEntry
      /\ d.amount = -a /\ c.amount = a /\ e.amount = a
  BY <1>1, <1>2, <1>3 DEF Entry, StoredEntry
<1>5. PICK D, C, E : /\ D = Append(entries[from], d) /\ C = Append(entries[to], c)
                     /\ E = entries[to] \o <<c, e>>
  OBVIOUS
<1>6. PICK p \in Int, q \in Int : p = Credits(entries[from]) /\ q = Credits(entries[to])
  BY <1>2, <1>4, CreditsAdd
<1>7. /\ D \in Seq(StoredEntry) /\ Credits(D) = p + (-a)
      /\ C \in Seq(StoredEntry) /\ Credits(C) = q + a
  BY <1>2, <1>4, <1>5, <1>6, CreditsAdd
<1>8. E \in Seq(StoredEntry) /\ Credits(E) = q + 2 * a
  <2>1. PICK F : F = Append(C, e)
    OBVIOUS
  <2>2. F \in Seq(StoredEntry) /\ Credits(F) = (q + a) + a
    BY <1>4, <1>7, <2>1, CreditsAdd
  <2>3. E = F
    <3>1. entries[to] \o <<c, e>> = Append(Append(entries[to], c), e)
      BY <1>2, <1>4, TwoMore
    <3> QED BY <1>5, <2>1, <3>1
  <2> QED BY <1>1, <2>2, <2>3
<1>9. \A w \in DemoWallets : Credits(entries[w]) \in Int
  BY <1>2, <1>4, CreditsAdd
<1>10. CASE Completed(from, to, a)
  <2> USE DEF Completed, Stores
  <2>1. /\ from # to /\ entries' = [entries EXCEPT ![from] = D, ![to] = C]
        /\ balance' = [balance EXCEPT ![from] = @ - a, ![to] = @ + a]
        /\ remembered' = [remembered EXCEPT ![from] = @ - a, ![to] = @ + a]
    BY <1>3, <1>5, <1>10
  <2>2. /\ balance' \in [DemoWallets -> Int] /\ remembered' \in [DemoWallets -> Int]
        /\ balance'[from] = balance[from] + (-a) /\ balance'[to] = balance[to] + a
        /\ \A w \in DemoWallets : w # from /\ w # to => balance'[w] = balance[w] + 0
    <3>1. balance[from] - a \in Int /\ balance[to] + a \in Int
      BY <1>1, <1>2
    <3>2. balance' \in [DemoWallets -> Int] /\ remembered' \in [DemoWallets -> Int]
      BY <1>1, <1>2, <2>1
    <3>3. balance'[from] = balance[from] - a /\ balance'[to] = balance[to] + a
      BY <1>2, <2>1
    <3>4. \A w \in DemoWallets : w # from /\ w # to => balance'[w] = balance[w]
      BY <1>2, <2>1
    <3>5. balance[from] - a = balance[from] + (-a) /\ \A w \in DemoWallets : balance[w] + 0 = balance[w]
      BY <1>1, <1>2
    <3> QED BY <3>2, <3>3, <3>4, <3>5
  <2>3. /\ entries' \in [DemoWallets -> Seq(StoredEntry)]
        /\ entries'[from] = D /\ entries'[to] = C
        /\ \A w \in DemoWallets : w # from /\ w # to => entries'[w] = entries[w]
    BY <1>2, <1>7, <2>1
  <2>4. Shifts(from, -a) /\ Shifts(to, a)
    <3>1. /\ Credits(entries'[from]) = Credits(entries[from]) + (-a)
          /\ Credits(entries'[to]) = Credits(entries[to]) + a
      BY <1>6, <1>7, <2>3
    <3> QED BY <2>2, <3>1 DEF Shifts
  <2>5. \A w \in DemoWallets : w # from /\ w # to => Shifts(w, 0)
    <3>1. \A w \in DemoWallets : Credits(entries[w]) = Credits(entries[w]) + 0
      BY <1>9
    <3> QED BY <2>2, <2>3, <3>1 DEF Shifts
  <2> QED BY <1>1, <1>10, <2>2, <2>3, <2>4, <2>5 DEF Posts
<1>11. CASE Duplicate(from, to, a)
  <2> USE DEF Duplicate, Stores
  <2>1. /\ from # to /\ entries' = [entries EXCEPT ![from] = D, ![to] = E]
        /\ balance' = [balance EXCEPT ![from] = @ - a, ![to] = @ + 2 * a]
        /\ remembered' = remembered
    BY <1>3, <1>5, <1>11
  <2>2. /\ balance' \in [DemoWallets -> Int] /\ remembered' \in [DemoWallets -> Int]
        /\ balance'[from] = balance[from] + (-a) /\ balance'[to] = balance[to] + 2 * a
        /\ \A w \in DemoWallets : w # from /\ w # to => balance'[w] = balance[w] + 0
    <3>1. balance[from] - a \in Int /\ balance[to] + 2 * a \in Int
      BY <1>1, <1>2
    <3>2. balance' \in [DemoWallets -> Int] /\ remembered' \in [DemoWallets -> Int]
      BY <1>1, <1>2, <2>1
    <3>3. balance'[from] = balance[from] - a /\ balance'[to] = balance[to] + 2 * a
      BY <1>2, <2>1
    <3>4. \A w \in DemoWallets : w # from /\ w # to => balance'[w] = balance[w]
      BY <1>2, <2>1
    <3>5. balance[from] - a = balance[from] + (-a) /\ \A w \in DemoWallets : balance[w] + 0 = balance[w]
      BY <1>1, <1>2
    <3> QED BY <3>2, <3>3, <3>4, <3>5
  <2>3. /\ entries' \in [DemoWallets -> Seq(StoredEntry)]
        /\ entries'[from] = D /\ entries'[to] = E
        /\ \A w \in DemoWallets : w # from /\ w # to => entries'[w] = entries[w]
    BY <1>2, <1>7, <1>8, <2>1
  <2>4. Shifts(from, -a) /\ Shifts(to, 2 * a)
    <3>1. /\ Credits(entries'[from]) = Credits(entries[from]) + (-a)
          /\ Credits(entries'[to]) = Credits(entries[to]) + 2 * a
      BY <1>6, <1>7, <1>8, <2>3
    <3> QED BY <2>2, <3>1 DEF Shifts
  <2>5. \A w \in DemoWallets : w # from /\ w # to => Shifts(w, 0)
    <3>1. \A w \in DemoWallets : Credits(entries[w]) = Credits(entries[w]) + 0
      BY <1>9
    <3> QED BY <2>2, <2>3, <3>1 DEF Shifts
  <2> QED BY <1>1, <1>11, <2>2, <2>3, <2>4, <2>5 DEF Posts
<1>12. ASSUME Debits(from, a), from # to
       PROVE  /\ balance' \in [DemoWallets -> Int] /\ entries' \in [DemoWallets -> Seq(StoredEntry)]
              /\ Shifts(from, -a) /\ Shifts(to, 0)
              /\ \A w \in DemoWallets : w # from /\ w # to => Shifts(w, 0)
  <2>1. /\ entries' = [entries EXCEPT ![from] = D]
        /\ balance' = [balance EXCEPT ![from] = @ - a]
    BY <1>3, <1>5, <1>12 DEF Debits
  <2>2. /\ balance' \in [DemoWallets -> Int] /\ balance'[from] = balance[from] + (-a)
        /\ \A w \in DemoWallets : w # from => balance'[w] = balance[w] + 0
    BY <1>1, <1>2, <2>1
  <2>3. /\ entries' \in [DemoWallets -> Seq(StoredEntry)] /\ entries'[from] = D
        /\ \A w \in DemoWallets : w # from => entries'[w] = entries[w]
    BY <1>2, <1>7, <2>1
  <2>4. Shifts(from, -a)
    BY <1>6, <1>7, <2>2, <2>3 DEF Shifts
  <2>5. \A w \in DemoWallets : w # from => Shifts(w, 0)
    BY <1>9, <2>2, <2>3 DEF Shifts
  <2> QED BY <1>12, <2>2, <2>3, <2>4, <2>5
<1>13. CASE Stuck(from, to, a)
  <2>1. remembered' \in [DemoWallets -> Int]
    BY <1>1, <1>2, <1>13 DEF Stuck
  <2> QED BY <1>1, <1>12, <1>13, <2>1 DEF Stuck, Stores, Posts
<1>14. CASE Failed(from, to, a)
  <2>1. remembered' \in [DemoWallets -> Int]
    BY <1>2, <1>14 DEF Failed
  <2> QED BY <1>1, <1>12, <1>14, <2>1 DEF Failed, Stores, Posts
<1> QED BY <1>10, <1>11, <1>13, <1>14 DEF Between

\* A sequence of integers has a sum.
LEMMA TotalInt ==
  ASSUME NEW s \in Seq(Int)
  PROVE  Total(s) \in Int
<1>1. PICK n \in Nat : n = Len(s)
  BY LenProperties
<1>2. DOMAIN s = 1 .. n /\ \A i \in 1 .. n : s[i] \in Int
  BY <1>1, LenProperties, ElementOfSeq
<1>3. IsFiniteSet(1 .. n)
  BY FS_Interval
<1> QED BY <1>2, <1>3, WholeInt DEF Total

\* A wallet that had no entries has those of its movements.
LEMMA FillPosts ==
  ASSUME Seeded, NEW w \in DemoWallets, NEW amounts \in Seq(Int), Fill(w, amounts)
  PROVE  /\ Turn("wallet") /\ entries[w] = <<>> /\ UNCHANGED transfers
         /\ Total(amounts) \in Int /\ paid' = paid + Total(amounts)
         /\ balance' \in [DemoWallets -> Int] /\ remembered' \in [DemoWallets -> Int]
         /\ entries' \in [DemoWallets -> Seq(StoredEntry)]
         /\ balance'[w] = Total(amounts) /\ remembered'[w] = Total(amounts)
         /\ Credits(entries'[w]) = Total(amounts)
         /\ \A x \in DemoWallets : x # w => /\ balance'[x] = balance[x]
                                            /\ remembered'[x] = remembered[x]
                                            /\ entries'[x] = entries[x]
<1>1. PICK n \in Nat : n = Len(amounts)
  BY LenProperties
<1>2. DOMAIN amounts = 1 .. n /\ \A i \in 1 .. n : amounts[i] \in Int
  BY <1>1, LenProperties, ElementOfSeq
<1>3. PICK t : t = Total(amounts)
  OBVIOUS
<1>4. t \in Int
  BY <1>3, TotalInt
<1>5. PICK E : E = [i \in DOMAIN amounts |->
                      [amount |-> amounts[i], after |-> Total(SubSeq(amounts, 1, i))]]
  OBVIOUS
<1>6. \A i \in 1 .. n : Total(SubSeq(amounts, 1, i)) \in Int
  <2> SUFFICES ASSUME NEW i \in 1 .. n
               PROVE  Total(SubSeq(amounts, 1, i)) \in Int
    OBVIOUS
  <2>1. 1 \in Int /\ i \in Int /\ \A j \in 1 .. i : amounts[j] \in Int
    BY <1>2
  <2>2. SubSeq(amounts, 1, i) \in Seq(Int)
    BY <2>1, SubSeqProperties
  <2> QED BY <2>2, TotalInt
<1>7. E \in [1 .. n -> StoredEntry] /\ \A i \in 1 .. n : E[i].amount = amounts[i]
  BY <1>2, <1>5, <1>6 DEF StoredEntry
<1>8. E \in Seq(StoredEntry) /\ DOMAIN E = 1 .. n
  BY <1>7, SeqDef
<1>9. Credits(E) = t
  <2>1. PICK f : f = [i \in DOMAIN E |-> E[i].amount]
    OBVIOUS
  <2>2. DOMAIN f = 1 .. n /\ \A i \in 1 .. n : f[i] = amounts[i]
    BY <1>7, <1>8, <2>1
  <2>3. IsFiniteSet(1 .. n)
    BY FS_Interval
  <2>4. SumFunctionOnSet(f, 1 .. n) = SumFunctionOnSet(amounts, 1 .. n)
    BY <2>2, <2>3, SumSame
  <2> QED BY <1>2, <1>3, <2>1, <2>2, <2>4 DEF Credits, Total, SumFunction
<1>10. /\ balance \in [DemoWallets -> Int] /\ remembered \in [DemoWallets -> Int]
       /\ entries \in [DemoWallets -> Seq(StoredEntry)]
  BY DEF Seeded
<1>11. /\ entries' = [entries EXCEPT ![w] = E] /\ balance' = [balance EXCEPT ![w] = t]
       /\ remembered' = [remembered EXCEPT ![w] = t] /\ paid' = paid + t
       /\ Turn("wallet") /\ entries[w] = <<>> /\ UNCHANGED transfers
  BY <1>3, <1>5 DEF Fill
<1>12. /\ balance' \in [DemoWallets -> Int] /\ remembered' \in [DemoWallets -> Int]
       /\ entries' \in [DemoWallets -> Seq(StoredEntry)]
  BY <1>4, <1>8, <1>10, <1>11
<1>13. balance'[w] = t /\ remembered'[w] = t /\ entries'[w] = E
  BY <1>10, <1>11
<1>14. \A x \in DemoWallets : x # w => /\ balance'[x] = balance[x]
                                       /\ remembered'[x] = remembered[x]
                                       /\ entries'[x] = entries[x]
  BY <1>10, <1>11
<1> QED BY <1>3, <1>4, <1>9, <1>11, <1>12, <1>13, <1>14

\* The amounts of a wallet's movements are such a sequence.
LEMMA MovesAreInts ==
  ASSUME NEW opening \in OpeningDeposits, NEW n \in 0 .. Movements,
         NEW moves \in [1 .. n -> Amounts \cup {-a : a \in Amounts}]
  PROVE  <<opening>> \o moves \in Seq(Int)
<1>1. n \in Nat /\ opening \in Int /\ Amounts \cup {-a : a \in Amounts} \subseteq Int
  BY SeedAssumption
<1>2. moves \in [1 .. n -> Int]
  BY <1>1
<1>3. moves \in Seq(Int)
  BY <1>1, <1>2, SeqDef
<1>4. <<opening>> \in Seq(Int)
  BY <1>1
<1> QED BY <1>3, <1>4, ConcatProperties

\* The sweep gives a sender back what is pending.
LEMMA SweepPosts ==
  ASSUME Seeded, NEW n \in DOMAIN transfers, Sweep(n)
  PROVE  /\ todo = <<>> /\ UNCHANGED <<todo, remembered, paid>>
         /\ transfers[n].from \in DemoWallets /\ transfers[n].amount \in Nat \ {0}
         /\ balance' \in [DemoWallets -> Int]
         /\ entries' \in [DemoWallets -> Seq(StoredEntry)]
         /\ Shifts(transfers[n].from, transfers[n].amount)
         /\ \A w \in DemoWallets : w # transfers[n].from => Shifts(w, 0)
         /\ transfers' \in Seq(StoredTransfer) /\ Len(transfers') = Len(transfers)
         /\ \A i \in DOMAIN transfers :
              transfers'[i].amount = transfers[i].amount /\ transfers'[i].from = transfers[i].from
         /\ Out(transfers') \in Int /\ Out(transfers) = Out(transfers') + transfers[n].amount
<1>1. /\ transfers \in Seq(StoredTransfer) /\ balance \in [DemoWallets -> Int]
      /\ entries \in [DemoWallets -> Seq(StoredEntry)]
  BY DEF Seeded
<1>2. transfers[n] \in StoredTransfer
  BY <1>1, LenProperties, ElementOfSeq
<1>3. PICK w \in DemoWallets, a \in Nat \ {0} : w = transfers[n].from /\ a = transfers[n].amount
  BY <1>2 DEF StoredTransfer
<1>4. PICK e : e = [amount |-> a, after |-> balance[w] + a]
  OBVIOUS
<1>5. e \in StoredEntry /\ e.amount = a /\ balance[w] + a \in Int
  BY <1>1, <1>3, <1>4 DEF StoredEntry
<1>6. PICK E : E = Append(entries[w], e)
  OBVIOUS
<1>7. E \in Seq(StoredEntry) /\ Credits(E) = Credits(entries[w]) + a
  BY <1>1, <1>5, <1>6, CreditsAdd
<1>8. /\ todo = <<>> /\ transfers[n].status = "PENDING" /\ UNCHANGED <<todo, remembered, paid>>
      /\ transfers' = [transfers EXCEPT ![n].status = "FAILED"]
      /\ balance' = [balance EXCEPT ![w] = balance[w] + a]
      /\ entries' = [entries EXCEPT ![w] = E]
  BY <1>3, <1>4, <1>6 DEF Sweep
<1>9. /\ transfers' \in Seq(StoredTransfer) /\ Len(transfers') = Len(transfers)
      /\ \A i \in DOMAIN transfers :
           transfers'[i].amount = transfers[i].amount /\ transfers'[i].from = transfers[i].from
      /\ Out(transfers') \in Int /\ Out(transfers) = Out(transfers') + transfers[n].amount
  <2>1. PICK s, r : s = transfers /\ r = transfers'
    OBVIOUS
  <2>2. PICK m \in Nat : m = Len(s) /\ DOMAIN s = 1 .. m
    BY <1>1, <2>1, LenProperties
  <2>3. PICK x : x = [s[n] EXCEPT !.status = "FAILED"]
    OBVIOUS
  <2>4. /\ x \in StoredTransfer /\ x.status = "FAILED"
        /\ x.amount = s[n].amount /\ x.from = s[n].from
    BY <1>2, <2>1, <2>3 DEF StoredTransfer
  <2>5. r = [s EXCEPT ![n] = x]
    BY <1>8, <2>1, <2>3
  <2>6. /\ r \in Seq(StoredTransfer) /\ Len(r) = m
        /\ \A i \in 1 .. m : r[i] = IF i = n THEN x ELSE s[i]
    BY <1>1, <2>1, <2>2, <2>4, <2>5, ExceptSeq
  <2>7. DOMAIN r = 1 .. m
    BY <2>6, LenProperties
  <2>8. /\ \A i \in 1 .. m : r[i].amount = s[i].amount /\ r[i].from = s[i].from
        /\ \A i \in 1 .. m : i # n => r[i].status = s[i].status
        /\ r[n].status = "FAILED"
    BY <2>1, <2>2, <2>4, <2>6
  <2>9. Out(r) \in Int /\ Out(s) = Out(r) + s[n].amount
    <3>1. /\ s \in Seq(StoredTransfer) /\ r \in Seq(StoredTransfer)
          /\ n \in DOMAIN s /\ DOMAIN r = DOMAIN s
          /\ s[n].status = "PENDING" /\ r[n].status = "FAILED"
      BY <1>1, <1>8, <2>1, <2>2, <2>6, <2>7, <2>8
    <3>2. \A i \in DOMAIN s : r[i].amount = s[i].amount /\ (i # n => r[i].status = s[i].status)
      BY <2>2, <2>8
    <3> QED BY <3>1, <3>2, OutLess
  <2> QED BY <2>1, <2>2, <2>6, <2>8, <2>9
<1>10. balance' \in [DemoWallets -> Int] /\ entries' \in [DemoWallets -> Seq(StoredEntry)]
  BY <1>1, <1>5, <1>7, <1>8
<1>11. /\ balance'[w] = balance[w] + a /\ entries'[w] = E
       /\ \A x \in DemoWallets : x # w => balance'[x] = balance[x] /\ entries'[x] = entries[x]
  BY <1>1, <1>8
<1>12. Shifts(w, a)
  BY <1>7, <1>11 DEF Shifts
<1>13. \A x \in DemoWallets : x # w => Shifts(x, 0)
  <2>1. \A x \in DemoWallets : Credits(entries[x]) \in Int /\ balance[x] \in Int
    BY <1>1, <1>5, CreditsAdd
  <2>2. \A x \in DemoWallets : Credits(entries[x]) + 0 = Credits(entries[x]) /\ balance[x] + 0 = balance[x]
    BY <2>1
  <2> QED BY <1>11, <2>2 DEF Shifts
<1> QED BY <1>3, <1>8, <1>9, <1>10, <1>12, <1>13

-----------------------------------------------------------------------------
(* The script keeps its order, and a wallet's balance its entries' sum.      *)

LEMMA InitSeeded == SeedInit => Seeded
<1> SUFFICES ASSUME SeedInit
             PROVE  Seeded
  OBVIOUS
<1>1. /\ Script \in Seq(PassNames) /\ Len(Script) = Passes /\ Passes \in Nat
      /\ \A i \in 1 .. Passes : PassAfter(Script[i], i - 1)
  BY ScriptPasses, SeedSizes
<1>2. todo = Script /\ Done = 0
  BY <1>1 DEF SeedInit, Done
<1>3. OnScript
  <2>1. \A i \in 1 .. Passes : 0 + i - 1 = i - 1
    BY <1>1
  <2> QED BY <1>1, <1>2, <2>1 DEF OnScript
<1>4. Made(Done) = 0
  BY <1>2, SeedSizes DEF Made
<1>5. \A S : <<>> \in Seq(S) /\ Len(<<>>) = 0
  BY EmptySeq
<1> QED BY <1>3, <1>4, <1>5 DEF Seeded, SeedInit, Zero

\* A rerun begins as the first run did.
LEMMA RerunSeeded == Rerun => Seeded'
<1>1. Rerun => SeedInit'
  BY DEF Rerun, SeedInit, Zero
<1>2. SeedInit' => Seeded'
  BY InitSeeded, PTL
<1> QED BY <1>1, <1>2

\* How many transfers there are after one pass more.
LEMMA MadeNext ==
  ASSUME NEW k \in Nat, NEW pass, PassAfter(pass, k)
  PROVE  /\ pass = "wallet" => Made(k) = 0 /\ Made(k + 1) = 0
         /\ pass \in {"completed", "stuck"} => Made(k) < Posted /\ Made(k + 1) = Made(k) + 1
         /\ pass = "failed" => Made(k) = Posted /\ Made(k + 1) = Posted + 1
         /\ pass = "duplicate" => Made(k) = Posted + 1 /\ Made(k + 1) = Posted + 2
         /\ pass = "outbox" => Made(k) = Posted + 2 /\ Made(k + 1) = Posted + 2
<1>1. PICK f \in Nat, c \in Nat, s \in Nat :
        /\ f = Filled /\ c = CompletedTransfers /\ s = StuckTransfers
        /\ Posted = c + s /\ Passes = f + (c + s) + 3
  BY SeedSizes DEF Posted, Passes
<1>2. CASE pass = "wallet"
  BY <1>1, <1>2 DEF PassAfter, Made
<1>3. CASE pass = "completed"
  BY <1>1, <1>3 DEF PassAfter, Made
<1>4. CASE pass = "stuck"
  BY <1>1, <1>4 DEF PassAfter, Made
<1>5. CASE pass = "failed"
  BY <1>1, <1>5 DEF PassAfter, Made
<1>6. CASE pass = "duplicate"
  BY <1>1, <1>6 DEF PassAfter, Made
<1>7. CASE pass = "outbox"
  BY <1>1, <1>7 DEF PassAfter, Made
<1> QED BY <1>2, <1>3, <1>4, <1>5, <1>6, <1>7

\* A pass that stores transfers stores as many as its place says.
LEMMA PostsSeeded ==
  ASSUME Seeded, NEW from \in DemoWallets, NEW to \in DemoWallets, NEW a \in Nat \ {0},
         NEW y, NEW pass \in {"completed", "stuck", "failed", "duplicate"},
         NEW status \in {"PENDING", "COMPLETED", "FAILED"}, Posts(from, to, a, y, pass, status)
  PROVE  /\ Seeded'
         /\ [from |-> from, to |-> to, amount |-> a, status |-> status] \in StoredTransfer
         /\ pass \in {"completed", "stuck"} => Len(transfers) < Posted
         /\ pass = "failed" => Len(transfers) = Posted
         /\ pass = "duplicate" => Len(transfers) = Posted + 1
<1>1. PICK x : x = [from |-> from, to |-> to, amount |-> a, status |-> status]
  OBVIOUS
<1>2. x \in StoredTransfer
  BY <1>1 DEF StoredTransfer
<1>3. /\ Turn(pass) /\ OnScript /\ transfers \in Seq(StoredTransfer)
      /\ Len(transfers) = Made(Done) /\ transfers' = Append(transfers, x)
  BY <1>1 DEF Seeded, Posts
<1>4. /\ OnScript' /\ Done \in Nat /\ Done' = Done + 1 /\ PassAfter(pass, Done)
  BY <1>3, Turns
<1>5. transfers' \in Seq(StoredTransfer) /\ Len(transfers') = Len(transfers) + 1
  BY <1>2, <1>3, AppendProperties
<1>6. /\ Made(Done + 1) = Made(Done) + 1
      /\ pass \in {"completed", "stuck"} => Made(Done) < Posted
      /\ pass = "failed" => Made(Done) = Posted
      /\ pass = "duplicate" => Made(Done) = Posted + 1
  <2>1. PICK k \in Nat : k = Done
    BY <1>4
  <2>2. PICK l \in Nat : l = Posted
    BY SeedSizes
  <2>3. (l + 1) + 1 = l + 2
    OBVIOUS
  <2> QED BY <1>4, <2>1, <2>2, <2>3, MadeNext
<1>7. Made(Done)' = Made(Done')
  BY DEF Made, Filled, Passes, Posted
<1>8. Len(transfers') = Made(Done)'
  BY <1>3, <1>4, <1>5, <1>6, <1>7
<1>9. /\ balance' \in [DemoWallets -> Int] /\ remembered' \in [DemoWallets -> Int]
      /\ entries' \in [DemoWallets -> Seq(StoredEntry)] /\ paid' \in Int
  BY DEF Posts, Seeded
<1>10. Seeded'
  BY <1>4, <1>5, <1>8, <1>9 DEF Seeded, StoredEntry, StoredTransfer
<1> QED BY <1>1, <1>2, <1>3, <1>6, <1>10

\* With nothing done but a pass without a transfer, or a sweep.
LEMMA FillSeeded ==
  ASSUME Seeded, NEW w \in DemoWallets, NEW amounts \in Seq(Int), Fill(w, amounts)
  PROVE  Seeded'
<1>1. /\ Turn("wallet") /\ OnScript /\ UNCHANGED transfers
      /\ balance' \in [DemoWallets -> Int] /\ remembered' \in [DemoWallets -> Int]
      /\ entries' \in [DemoWallets -> Seq(StoredEntry)] /\ paid' \in Int
  <2>1. /\ Total(amounts) \in Int /\ paid' = paid + Total(amounts)
        /\ balance' \in [DemoWallets -> Int] /\ remembered' \in [DemoWallets -> Int]
        /\ entries' \in [DemoWallets -> Seq(StoredEntry)]
    BY FillPosts
  <2> QED BY <2>1 DEF Seeded, Fill
<1>2. /\ OnScript' /\ Done \in Nat /\ Done' = Done + 1 /\ PassAfter("wallet", Done)
  BY <1>1, Turns
<1>3. Made(Done + 1) = Made(Done)
  BY <1>2, MadeNext
<1>4. Made(Done)' = Made(Done')
  BY DEF Made, Filled, Passes, Posted
<1> QED BY <1>1, <1>2, <1>3, <1>4 DEF Seeded, StoredEntry, StoredTransfer

LEMMA OutboxSeeded == Seeded /\ Outbox => Seeded'
<1> SUFFICES ASSUME Seeded, Outbox
             PROVE  Seeded'
  OBVIOUS
<1>1. /\ Turn("outbox") /\ OnScript
      /\ UNCHANGED <<balance, remembered, entries, transfers, paid>>
  BY DEF Outbox, Seeded
<1>2. /\ OnScript' /\ Done \in Nat /\ Done' = Done + 1 /\ PassAfter("outbox", Done)
  BY <1>1, Turns
<1>3. Made(Done + 1) = Made(Done)
  BY <1>2, MadeNext
<1>4. Made(Done)' = Made(Done')
  BY DEF Made, Filled, Passes, Posted
<1> QED BY <1>1, <1>2, <1>3, <1>4 DEF Seeded, StoredEntry, StoredTransfer

LEMMA SweepSeeded ==
  ASSUME Seeded, NEW n \in DOMAIN transfers, Sweep(n)
  PROVE  Seeded'
<1>1. /\ UNCHANGED <<todo, remembered, paid>> /\ balance' \in [DemoWallets -> Int]
      /\ entries' \in [DemoWallets -> Seq(StoredEntry)]
      /\ transfers' \in Seq(StoredTransfer) /\ Len(transfers') = Len(transfers)
  BY SweepPosts
<1>2. OnScript' /\ Made(Done)' = Made(Done)
  BY <1>1 DEF Seeded, OnScript, PassAfter, Made, Done, Filled, Passes, Posted
<1> QED BY <1>1, <1>2 DEF Seeded, StoredEntry, StoredTransfer

\* The steps of the script and of the sweep.
LEMMA SeedSteps ==
  ASSUME SeedNext
  PROVE  \/ \E w \in DemoWallets, amounts \in Seq(Int) : Fill(w, amounts)
         \/ \E from \in DemoWallets, to \in DemoWallets, a \in Amounts : Between(from, to, a)
         \/ Outbox \/ Rerun
         \/ \E n \in DOMAIN transfers : Sweep(n)
<1>1. CASE \E w \in DemoWallets, opening \in OpeningDeposits, n \in 0 .. Movements :
             \E moves \in [1 .. n -> Amounts \cup {-a : a \in Amounts}] : Fill(w, <<opening>> \o moves)
  <2>1. PICK w \in DemoWallets, opening \in OpeningDeposits, n \in 0 .. Movements :
          \E moves \in [1 .. n -> Amounts \cup {-a : a \in Amounts}] : Fill(w, <<opening>> \o moves)
    BY <1>1
  <2>2. PICK moves \in [1 .. n -> Amounts \cup {-a : a \in Amounts}] : Fill(w, <<opening>> \o moves)
    BY <2>1
  <2>3. PICK s : s = <<opening>> \o moves
    OBVIOUS
  <2>4. s \in Seq(Int)
    BY <2>3, MovesAreInts
  <2> QED BY <2>2, <2>3, <2>4
<1> QED BY <1>1 DEF SeedNext

LEMMA NextSeeded == Seeded /\ [Next]_vars => Seeded'
<1> SUFFICES ASSUME Seeded, [Next]_vars
             PROVE  Seeded'
  OBVIOUS
<1>1. CASE UNCHANGED seedVars
  BY <1>1 DEF seedVars, Seeded, OnScript, PassAfter, Made, Done, Filled, Passes, Posted,
              StoredEntry, StoredTransfer
<1>2. CASE SeedNext
  <2>1. ASSUME NEW w \in DemoWallets, NEW amounts \in Seq(Int), Fill(w, amounts)
        PROVE  Seeded'
    BY <2>1, FillSeeded
  <2>2. ASSUME NEW from \in DemoWallets, NEW to \in DemoWallets, NEW a \in Amounts,
               Between(from, to, a)
        PROVE  Seeded'
    <3>1. /\ a \in Nat \ {0}
          /\ \E y : \E pass \in {"completed", "stuck", "failed", "duplicate"} :
               \E status \in {"PENDING", "COMPLETED", "FAILED"} :
                 Posts(from, to, a, y, pass, status)
      BY <2>2, BetweenPosts, Zenon
    <3>2. PICK y : \E pass \in {"completed", "stuck", "failed", "duplicate"} :
                     \E status \in {"PENDING", "COMPLETED", "FAILED"} :
                       Posts(from, to, a, y, pass, status)
      BY <3>1
    <3>3. PICK pass \in {"completed", "stuck", "failed", "duplicate"},
               status \in {"PENDING", "COMPLETED", "FAILED"} :
            Posts(from, to, a, y, pass, status)
      BY <3>2
    <3>4. Seeded /\ a \in Nat \ {0}
      BY <3>1
    <3>5. PICK b \in Nat \ {0} : b = a
      BY <3>4
    <3>6. Posts(from, to, b, y, pass, status)
      BY <3>3, <3>5
    <3>7. Seeded'
      BY <3>6, PostsSeeded
    <3> QED BY <3>7
  <2>3. ASSUME NEW n \in DOMAIN transfers, Sweep(n)
        PROVE  Seeded'
    BY <2>3, SweepSeeded
  <2> QED BY <1>2, <2>1, <2>2, <2>3, SeedSteps, OutboxSeeded, RerunSeeded
<1> QED BY <1>1, <1>2 DEF Next, Events, Rounding, Seeding, Probing, Listing, vars

LEMMA InitReconciled == SeedInit => Reconciles
<1> SUFFICES ASSUME SeedInit, NEW w \in DemoWallets
             PROVE  balance[w] = Net(w)
  BY DEF Reconciles
<1>1. balance[w] = 0 /\ entries[w] = <<>>
  BY DEF SeedInit, Zero
<1>2. PICK f : f = [n \in DOMAIN entries[w] |-> entries[w][n].amount]
  OBVIOUS
<1>3. DOMAIN f = {}
  BY <1>1, <1>2
<1>4. SumFunction(f) = 0
  BY <1>3, WholeEmpty
<1> QED BY <1>1, <1>2, <1>4 DEF Net

LEMMA RerunReconciled == Rerun => Reconciles'
<1>1. Rerun => SeedInit'
  BY DEF Rerun, SeedInit, Zero
<1>2. SeedInit' => Reconciles'
  BY InitReconciled, PTL
<1> QED BY <1>1, <1>2

LEMMA NextReconciled == Seeded /\ Reconciles /\ [Next]_vars => Reconciles'
<1> SUFFICES ASSUME Seeded, Reconciles, [Next]_vars
             PROVE  Reconciles'
  OBVIOUS
<1>1. CASE UNCHANGED seedVars
  BY <1>1 DEF seedVars, Reconciles, Net
<1>2. \A w \in DemoWallets : balance[w] = Credits(entries[w])
  BY DEF Reconciles, Net, Credits
<1>3. ASSUME NEW w \in DemoWallets, NEW x, Shifts(w, x)
      PROVE  balance'[w] = Credits(entries'[w])
  BY <1>2, <1>3 DEF Shifts
<1>4. SUFFICES ASSUME SeedNext, NEW w \in DemoWallets
               PROVE  balance'[w] = Credits(entries'[w])
  <2>1. CASE SeedNext
    <3>1. \A w \in DemoWallets : balance'[w] = Credits(entries'[w])
      BY <1>4, <2>1
    <3>2. ASSUME NEW v \in DemoWallets
          PROVE  Net(v)' = Credits(entries'[v])
      BY DEF Net, Credits
    <3> QED BY <3>1, <3>2 DEF Reconciles
  <2> QED BY <1>1, <2>1 DEF Next, Events, Rounding, Seeding, Probing, Listing, vars
<1>5. ASSUME NEW v \in DemoWallets, NEW amounts \in Seq(Int), Fill(v, amounts)
      PROVE  balance'[w] = Credits(entries'[w])
  <2>1. /\ balance'[v] = Credits(entries'[v])
        /\ w # v => balance'[w] = balance[w] /\ entries'[w] = entries[w]
    BY <1>5, FillPosts
  <2> QED BY <1>2, <2>1
<1>6. ASSUME NEW from \in DemoWallets, NEW to \in DemoWallets, NEW a \in Amounts,
             Between(from, to, a)
      PROVE  balance'[w] = Credits(entries'[w])
  <2>1. \E y, pass, status : Posts(from, to, a, y, pass, status)
    BY <1>6, BetweenPosts, Zenon
  <2>2. \E x : Shifts(w, x)
    BY <2>1 DEF Posts
  <2> QED BY <1>3, <2>2
<1>7. CASE Outbox
  BY <1>2, <1>7 DEF Outbox
<1>8. CASE Rerun
  BY <1>8, RerunReconciled DEF Reconciles, Net, Credits
<1>9. ASSUME NEW n \in DOMAIN transfers, Sweep(n)
      PROVE  balance'[w] = Credits(entries'[w])
  <2>1. \E x : Shifts(w, x)
    BY <1>9, SweepPosts
  <2> QED BY <1>3, <2>1
<1> QED BY <1>4, <1>5, <1>6, <1>7, <1>8, <1>9, SeedSteps

\* What a wallet of the demo is stored is what its entries add up to, however
\* often the script is run and whatever the sweep refunds.
THEOREM DemoReconciles == Spec => []Reconciles
<1>1. Init => Seeded /\ Reconciles
  BY InitSeeded, InitReconciled DEF Init
<1>2. Seeded /\ Reconciles /\ [Next]_vars => (Seeded /\ Reconciles)'
  BY NextSeeded, NextReconciled
<1> QED BY <1>1, <1>2, PTL DEF Spec

-----------------------------------------------------------------------------
(* What the script remembers.                                               *)

LEMMA InitAgrees == SeedInit => MemoryAgrees
BY DEF SeedInit, MemoryAgrees, Zero

LEMMA RerunAgrees == Rerun => MemoryAgrees'
<1>1. Rerun => SeedInit'
  BY DEF Rerun, SeedInit, Zero
<1>2. SeedInit' => MemoryAgrees'
  BY InitAgrees, PTL
<1> QED BY <1>1, <1>2

\* Nothing is forgotten of a transfer when another is stored.
LEMMA StillFailed ==
  ASSUME NEW s \in Seq(StoredTransfer), NEW x \in StoredTransfer, NEW w,
         \E n \in DOMAIN s : s[n].from = w /\ s[n].status = "FAILED"
  PROVE  \E n \in DOMAIN Append(s, x) :
           Append(s, x)[n].from = w /\ Append(s, x)[n].status = "FAILED"
<1>1. PICK m \in Nat : m = Len(s)
  BY LenProperties
<1>2. PICK r : r = Append(s, x)
  OBVIOUS
<1>3. r \in Seq(StoredTransfer) /\ Len(r) = m + 1 /\ \A i \in 1 .. m : r[i] = s[i]
  BY <1>1, <1>2, AppendProperties
<1>4. DOMAIN s = 1 .. m /\ DOMAIN r = 1 .. m + 1
  BY <1>1, <1>3, LenProperties
<1>5. PICK n \in 1 .. m : s[n].from = w /\ s[n].status = "FAILED"
  BY <1>4
<1>6. n \in DOMAIN r /\ r[n] = s[n]
  BY <1>3, <1>4
<1> QED BY <1>2, <1>5, <1>6

LEMMA NextAgrees == Seeded /\ MemoryAgrees /\ [Next]_vars => MemoryAgrees'
<1> SUFFICES ASSUME Seeded, MemoryAgrees, [Next]_vars
             PROVE  MemoryAgrees'
  OBVIOUS
<1>1. CASE UNCHANGED seedVars
  BY <1>1 DEF seedVars, MemoryAgrees
<1> DEFINE Forgot(w) == \E n \in DOMAIN transfers : transfers[n].from = w /\ transfers[n].status = "FAILED"
<1>2. SUFFICES ASSUME SeedNext, NEW w \in DemoWallets,
                      "duplicate" \in ToSet(todo'), remembered'[w] # balance'[w]
               PROVE  Forgot(w)'
  <2>1. CASE SeedNext
    BY <1>2, <2>1 DEF MemoryAgrees
  <2> QED BY <1>1, <2>1 DEF Next, Events, Rounding, Seeding, Probing, Listing, vars
<1>3. /\ OnScript /\ balance \in [DemoWallets -> Int] /\ remembered \in [DemoWallets -> Int]
      /\ transfers \in Seq(StoredTransfer)
  BY DEF Seeded
<1>4. ASSUME NEW pass, Turn(pass)
      PROVE  /\ pass # "duplicate"
             /\ remembered[w] # balance[w] => Forgot(w)
  <2>1. ToSet(todo') \subseteq ToSet(todo) /\ (pass = "duplicate" => "duplicate" \notin ToSet(todo'))
    BY <1>3, <1>4, Turns
  <2>2. "duplicate" \in ToSet(todo)
    BY <1>2, <2>1
  <2>3. pass # "duplicate"
    BY <1>2, <2>1
  <2> QED BY <2>2, <2>3 DEF MemoryAgrees
<1>5. ASSUME NEW v \in DemoWallets, NEW amounts \in Seq(Int), Fill(v, amounts)
      PROVE  Forgot(w)'
  <2>1. /\ Turn("wallet") /\ UNCHANGED transfers /\ remembered'[v] = balance'[v]
        /\ w # v => balance'[w] = balance[w] /\ remembered'[w] = remembered[w]
    BY <1>5, FillPosts
  <2>2. remembered[w] # balance[w]
    BY <1>2, <2>1
  <2>3. Forgot(w)
    BY <1>4, <2>1, <2>2
  <2> QED BY <2>1, <2>3
<1>6. ASSUME NEW from \in DemoWallets, NEW to \in DemoWallets, NEW a \in Amounts,
             Between(from, to, a)
      PROVE  Forgot(w)'
  <2>1. a \in Nat \ {0}
    BY SeedAssumption
  <2>2. ASSUME NEW status \in {"PENDING", "COMPLETED", "FAILED"}, Stores(from, to, a, status),
               Forgot(w)
        PROVE  Forgot(w)'
    <3>1. PICK x : x = [from |-> from, to |-> to, amount |-> a, status |-> status]
      OBVIOUS
    <3>2. x \in StoredTransfer /\ transfers' = Append(transfers, x)
      BY <2>1, <2>2, <3>1 DEF Stores, StoredTransfer
    <3> QED BY <1>3, <2>2, <3>2, StillFailed
  <2>3. CASE Completed(from, to, a)
    <3>1. /\ Turn("completed") /\ Stores(from, to, a, "COMPLETED") /\ from # to
          /\ balance' = [balance EXCEPT ![from] = @ - a, ![to] = @ + a]
          /\ remembered' = [remembered EXCEPT ![from] = @ - a, ![to] = @ + a]
      BY <2>3 DEF Completed, Stores
    <3>2. remembered[w] = balance[w] => remembered'[w] = balance'[w]
      BY <1>3, <3>1
    <3> QED BY <1>2, <1>4, <2>2, <3>1, <3>2
  <2>4. CASE Stuck(from, to, a)
    <3>1. /\ Turn("stuck") /\ Stores(from, to, a, "PENDING")
          /\ balance' = [balance EXCEPT ![from] = @ - a]
          /\ remembered' = [remembered EXCEPT ![from] = @ - a]
      BY <2>4 DEF Stuck, Debits
    <3>2. remembered[w] = balance[w] => remembered'[w] = balance'[w]
      BY <1>3, <3>1
    <3> QED BY <1>2, <1>4, <2>2, <3>1, <3>2
  <2>5. CASE Failed(from, to, a)
    <3>1. /\ Turn("failed") /\ Stores(from, to, a, "FAILED") /\ remembered' = remembered
          /\ balance' = [balance EXCEPT ![from] = @ - a]
      BY <2>5 DEF Failed, Debits
    <3>2. CASE w = from
      <4>1. PICK x : x = [from |-> from, to |-> to, amount |-> a, status |-> "FAILED"]
        OBVIOUS
      <4>2. x \in StoredTransfer /\ transfers' = Append(transfers, x) /\ x.from = w /\ x.status = "FAILED"
        BY <2>1, <3>1, <3>2, <4>1 DEF Stores, StoredTransfer
      <4>3. PICK m \in Nat : m = Len(transfers)
        BY <1>3, LenProperties
      <4>4. /\ transfers' \in Seq(StoredTransfer) /\ Len(transfers') = m + 1
            /\ transfers'[m + 1] = x
        BY <1>3, <4>2, <4>3, AppendProperties
      <4>5. m + 1 \in DOMAIN transfers'
        BY <4>4, LenProperties
      <4> QED BY <4>2, <4>4, <4>5
    <3>3. CASE w # from
      <4>1. remembered[w] # balance[w]
        BY <1>2, <1>3, <3>1, <3>3
      <4> QED BY <1>4, <2>2, <3>1, <4>1
    <3> QED BY <3>2, <3>3
  <2>6. ~Duplicate(from, to, a)
    BY <1>4 DEF Duplicate
  <2> QED BY <1>6, <2>3, <2>4, <2>5, <2>6 DEF Between
<1>7. CASE Outbox
  <2>1. Turn("outbox") /\ UNCHANGED <<balance, remembered, transfers>>
    BY <1>7 DEF Outbox
  <2> QED BY <1>2, <1>4, <2>1
<1>8. CASE Rerun
  BY <1>2, <1>8, RerunAgrees DEF MemoryAgrees
<1>9. ASSUME NEW n \in DOMAIN transfers, Sweep(n)
      PROVE  FALSE
  <2>1. todo' = <<>>
    BY <1>9 DEF Sweep
  <2> QED BY <1>2, <2>1 DEF ToSet
<1> QED BY <1>2, <1>5, <1>6, <1>7, <1>8, <1>9, SeedSteps

\* What the script takes balanceAfter from is what is stored, but for the sender
\* of the failed transfer, for all the passes that do.
THEOREM ScriptRemembers == Spec => []MemoryAgrees
<1>1. Init => Seeded /\ MemoryAgrees
  BY InitSeeded, InitAgrees DEF Init
<1>2. Seeded /\ MemoryAgrees /\ [Next]_vars => (Seeded /\ MemoryAgrees)'
  BY NextSeeded, NextAgrees
<1> QED BY <1>1, <1>2, PTL DEF Spec

-----------------------------------------------------------------------------
(* The money of the demo.                                                   *)

\* The amount of the transfer at n, when it is stored.
AmountAt(s, n) == IF n <= Len(s) THEN s[n].amount ELSE 0

\* The failed transfer's money is gone, and the duplicate's there twice, from
\* the pass on that stores it.
Accounted ==
  SumFunction(balance) + Out(transfers)
    = paid - AmountAt(transfers, Posted + 1) + AmountAt(transfers, Posted + 2)

\* A transfer that is added has its amount, and the others theirs.
LEMMA AmountAfter ==
  ASSUME NEW s \in Seq(StoredTransfer), NEW x \in StoredTransfer, NEW n \in Nat \ {0}
  PROVE  /\ AmountAt(s, n) \in Int
         /\ AmountAt(Append(s, x), n) = IF n = Len(s) + 1 THEN x.amount ELSE AmountAt(s, n)
<1>1. PICK m \in Nat : m = Len(s)
  BY LenProperties
<1>2. PICK r : r = Append(s, x)
  OBVIOUS
<1>3. Len(r) = m + 1 /\ r[m + 1] = x /\ \A i \in 1 .. m : r[i] = s[i]
  BY <1>1, <1>2, AppendProperties
<1>4. AmountAt(s, n) \in Int
  <2>1. CASE n <= m
    <3>1. n \in 1 .. m
      BY <2>1
    <3>2. s[n] \in StoredTransfer
      BY <1>1, <3>1, ElementOfSeq
    <3> QED BY <1>1, <2>1, <3>2 DEF AmountAt, StoredTransfer
  <2>2. CASE ~(n <= m)
    BY <1>1, <2>2 DEF AmountAt
  <2> QED BY <2>1, <2>2
<1>5. CASE n <= m
  <2>1. n \in 1 .. m /\ n # m + 1 /\ n <= m + 1
    BY <1>5
  <2>2. r[n] = s[n]
    BY <1>3, <2>1
  <2>3. AmountAt(r, n) = s[n].amount /\ AmountAt(s, n) = s[n].amount
    BY <1>1, <1>3, <1>5, <2>1, <2>2 DEF AmountAt
  <2> QED BY <1>1, <1>2, <1>4, <2>1, <2>3
<1>6. CASE n = m + 1
  <2>1. AmountAt(r, n) = r[n].amount
    BY <1>3, <1>6 DEF AmountAt
  <2> QED BY <1>1, <1>2, <1>3, <1>4, <1>6, <2>1
<1>7. CASE n > m + 1
  <2>1. ~(n <= m) /\ ~(n <= m + 1) /\ n # m + 1
    BY <1>7
  <2>2. AmountAt(r, n) = 0 /\ AmountAt(s, n) = 0
    BY <1>1, <1>3, <2>1 DEF AmountAt
  <2> QED BY <1>1, <1>2, <1>4, <2>1, <2>2
<1> QED BY <1>5, <1>6, <1>7

\* Two of the stored balances change.
LEMMA TwoShift ==
  ASSUME NEW f \in [DemoWallets -> Int], NEW g \in [DemoWallets -> Int],
         NEW u \in DemoWallets, NEW v \in DemoWallets, u # v, NEW x \in Int, NEW y \in Int,
         g[u] = f[u] + x, g[v] = f[v] + y,
         \A w \in DemoWallets : w # u /\ w # v => g[w] = f[w]
  PROVE  SumFunction(f) \in Int /\ SumFunction(g) = SumFunction(f) + x + y
<1>1. IsFiniteSet(DemoWallets) /\ DOMAIN f = DemoWallets /\ DOMAIN g = DemoWallets
  BY SeedAssumption
<1>2. PICK h : h = [f EXCEPT ![u] = g[u]]
  OBVIOUS
<1>3. /\ h \in [DemoWallets -> Int] /\ DOMAIN h = DemoWallets /\ h[u] = g[u]
      /\ \A w \in DemoWallets : w # u => h[w] = f[w]
  BY <1>2
<1>4. SumFunction(h) = SumFunction(f) - f[u] + h[u]
  <2>1. \A w \in DOMAIN f : f[w] \in Int
    BY <1>1
  <2>2. h[u] \in Int
    BY <1>3
  <2> QED BY <1>1, <1>3, <2>1, <2>2, WholeChanges
<1>5. SumFunction(g) = SumFunction(h) - h[v] + g[v]
  <2>1. \A w \in DOMAIN h : h[w] \in Int
    BY <1>3
  <2>2. \A w \in DemoWallets : w # v => g[w] = h[w]
    BY <1>3
  <2>3. g[v] \in Int
    OBVIOUS
  <2> QED BY <1>1, <1>3, <2>1, <2>2, <2>3, WholeChanges
<1>6. SumFunction(f) \in Int
  BY <1>1, WholeInt
<1>7. h[v] = f[v] /\ h[u] = f[u] + x
  BY <1>3
<1>8. f[u] \in Int /\ f[v] \in Int
  OBVIOUS
<1>9. SumFunction(h) = SumFunction(f) + x
  BY <1>4, <1>6, <1>7, <1>8
<1> QED BY <1>5, <1>6, <1>7, <1>8, <1>9

\* One of them does.
LEMMA OneShift ==
  ASSUME NEW f \in [DemoWallets -> Int], NEW g \in [DemoWallets -> Int],
         NEW u \in DemoWallets, NEW x \in Int,
         g[u] = f[u] + x, \A w \in DemoWallets : w # u => g[w] = f[w]
  PROVE  SumFunction(f) \in Int /\ SumFunction(g) = SumFunction(f) + x
<1>1. IsFiniteSet(DemoWallets) /\ DOMAIN f = DemoWallets /\ DOMAIN g = DemoWallets
  BY SeedAssumption
<1>2. (\A w \in DOMAIN f : f[w] \in Int) /\ g[u] \in Int /\ f[u] \in Int
  BY <1>1
<1>3. SumFunction(g) = SumFunction(f) - f[u] + g[u]
  BY <1>1, <1>2, WholeChanges
<1>4. SumFunction(f) \in Int
  BY <1>1, <1>2, WholeInt
<1> QED BY <1>2, <1>3, <1>4

LEMMA InitAccounted == SeedInit => Accounted
<1> SUFFICES ASSUME SeedInit
             PROVE  Accounted
  OBVIOUS
<1>1. balance = [w \in DemoWallets |-> 0] /\ transfers = <<>> /\ paid = 0
  BY DEF SeedInit, Zero
<1>2. SumFunction(balance) = 0
  <2>1. PICK f : f = balance
    OBVIOUS
  <2>2. PICK B : B = {s \in SUBSET DemoWallets : SumFunctionOnSet(f, s) # 0}
    OBVIOUS
  <2>3. IsFiniteSet(DemoWallets) /\ DOMAIN f = DemoWallets /\ \A w \in DemoWallets : f[w] = 0
    BY <1>1, <2>1, SeedAssumption
  <2>4. ASSUME B # {}
        PROVE  FALSE
    <3>1. PICK s \in B : \A w \in s : s \ {w} \notin B
      BY <2>2, <2>3, <2>4, SmallestSubset
    <3>2. s \subseteq DemoWallets /\ IsFiniteSet(s) /\ SumFunctionOnSet(f, s) # 0
      BY <2>2, <2>3, FS_Subset
    <3>3. s # {}
      BY <3>2, SumEmpty
    <3>4. Some(s) \in s /\ SumFunctionOnSet(f, s) = f[Some(s)] + SumFunctionOnSet(f, s \ {Some(s)})
      BY <3>2, <3>3, SumFirst
    <3>5. SumFunctionOnSet(f, s \ {Some(s)}) = 0
      BY <2>2, <3>1, <3>2, <3>4
    <3> QED BY <2>3, <3>2, <3>4, <3>5
  <2>5. SumFunctionOnSet(f, DemoWallets) = 0
    BY <2>2, <2>4
  <2> QED BY <2>1, <2>3, <2>5 DEF SumFunction
<1>3. Out(transfers) = 0
  <2>1. DOMAIN [n \in Pending(transfers) |-> transfers[n].amount] = {}
    BY <1>1 DEF Pending
  <2> QED BY <2>1, WholeEmpty DEF Out
<1>4. AmountAt(transfers, Posted + 1) = 0 /\ AmountAt(transfers, Posted + 2) = 0
  <2>1. Len(transfers) = 0 /\ ~(Posted + 1 <= 0) /\ ~(Posted + 2 <= 0)
    BY <1>1, SeedSizes
  <2> QED BY <2>1 DEF AmountAt
<1> QED BY <1>1, <1>2, <1>3, <1>4 DEF Accounted

LEMMA RerunAccounted == Rerun => Accounted'
<1>1. Rerun => SeedInit'
  BY DEF Rerun, SeedInit, Zero
<1>2. SeedInit' => Accounted'
  BY InitAccounted, PTL
<1> QED BY <1>1, <1>2

\* A wallet without entries is stored nothing, and what its movements bring in
\* is what is stored of it.
LEMMA FillAccounted ==
  ASSUME Seeded, Reconciles, Accounted,
         NEW w \in DemoWallets, NEW amounts \in Seq(Int), Fill(w, amounts)
  PROVE  Accounted'
<1>1. PICK t \in Int : t = Total(amounts)
  BY TotalInt
<1>2. /\ entries[w] = <<>> /\ UNCHANGED transfers /\ paid' = paid + t
      /\ balance' \in [DemoWallets -> Int] /\ balance'[w] = t
      /\ \A x \in DemoWallets : x # w => balance'[x] = balance[x]
  BY <1>1, FillPosts
<1>3. balance[w] = 0
  <2>1. PICK f : f = [n \in DOMAIN entries[w] |-> entries[w][n].amount]
    OBVIOUS
  <2>2. DOMAIN f = {}
    BY <1>2, <2>1
  <2>3. SumFunction(f) = 0
    BY <2>2, WholeEmpty
  <2> QED BY <2>1, <2>3 DEF Reconciles, Net
<1>4. PICK f, g : f = balance /\ g = balance'
  OBVIOUS
<1>5. f \in [DemoWallets -> Int] /\ g \in [DemoWallets -> Int]
  BY <1>2, <1>4 DEF Seeded
<1>6. g[w] = f[w] + t /\ \A x \in DemoWallets : x # w => g[x] = f[x]
  BY <1>2, <1>3, <1>4
<1>7. SumFunction(f) \in Int /\ SumFunction(g) = SumFunction(f) + t
  BY <1>5, <1>6, OneShift
<1>8. PICK o, p, q, r : /\ o = Out(transfers) /\ p = AmountAt(transfers, Posted + 1)
                        /\ q = AmountAt(transfers, Posted + 2) /\ r = paid
  OBVIOUS
<1>9. o \in Int /\ p \in Int /\ q \in Int /\ r \in Int
  <2>1. PICK x : x \in StoredTransfer
    <3>1. [from |-> w, to |-> w, amount |-> 1, status |-> "PENDING"] \in StoredTransfer
      BY DEF StoredTransfer
    <3> QED BY <3>1
  <2>2. Posted + 1 \in Nat \ {0} /\ Posted + 2 \in Nat \ {0}
    BY SeedSizes
  <2>3. transfers \in Seq(StoredTransfer) /\ paid \in Int
    BY DEF Seeded
  <2>4. o \in Int
    BY <1>8, <2>1, <2>3, OutAdds
  <2>5. p \in Int /\ q \in Int
    BY <1>8, <2>1, <2>2, <2>3, AmountAfter
  <2> QED BY <1>8, <2>3, <2>4, <2>5
<1>10. SumFunction(f) + o = r - p + q
  BY <1>4, <1>8 DEF Accounted
<1>11. SumFunction(g) + o = (r + t) - p + q
  <2>1. PICK a, b : a = SumFunction(f) /\ b = SumFunction(g)
    OBVIOUS
  <2>2. b = a + t /\ a + o = r - p + q /\ a \in Int
    BY <1>7, <1>10, <2>1
  <2>3. b + o = (r + t) - p + q
    <3>1. b + o = (a + o) + t
      BY <1>9, <2>2
    <3> QED BY <1>9, <2>2, <3>1
  <2> QED BY <2>1, <2>3
<1>12. /\ Out(transfers)' = o /\ AmountAt(transfers, Posted + 1)' = p
       /\ AmountAt(transfers, Posted + 2)' = q /\ paid' = r + t
  BY <1>2, <1>8 DEF Out, Pending, AmountAt, Posted
<1> QED BY <1>4, <1>11, <1>12 DEF Accounted

\* A transfer between two wallets: what leaves the sender and does not reach
\* the receiver is pending, lost, or made up by the second credit.
LEMMA PostsAccounted ==
  ASSUME Seeded, Accounted, NEW from \in DemoWallets, NEW to \in DemoWallets, NEW a \in Nat \ {0},
         NEW y \in Int, NEW pass \in {"completed", "stuck", "failed", "duplicate"},
         NEW status \in {"PENDING", "COMPLETED", "FAILED"}, Posts(from, to, a, y, pass, status),
         pass = "completed" => y = a /\ status = "COMPLETED",
         pass = "stuck" => y = 0 /\ status = "PENDING",
         pass = "failed" => y = 0 /\ status = "FAILED",
         pass = "duplicate" => y = 2 * a /\ status = "COMPLETED"
  PROVE  Accounted'
<1>1. PICK x : x = [from |-> from, to |-> to, amount |-> a, status |-> status]
  OBVIOUS
<1>2. PICK s : s = transfers
  OBVIOUS
<1>3. PICK l \in Nat : l = Posted
  BY SeedSizes
<1>4. PICK k \in Nat : k = Len(s)
  BY <1>2, LenProperties DEF Seeded
<1>5. /\ x \in StoredTransfer /\ s \in Seq(StoredTransfer)
      /\ pass \in {"completed", "stuck"} => k < l
      /\ pass = "failed" => k = l
      /\ pass = "duplicate" => k = l + 1
  <2>1. /\ [from |-> from, to |-> to, amount |-> a, status |-> status] \in StoredTransfer
        /\ pass \in {"completed", "stuck"} => Len(transfers) < Posted
        /\ pass = "failed" => Len(transfers) = Posted
        /\ pass = "duplicate" => Len(transfers) = Posted + 1
    BY PostsSeeded
  <2> QED BY <1>1, <1>2, <1>3, <1>4, <2>1 DEF Seeded
<1>6. transfers' = Append(s, x) /\ paid' = paid /\ paid \in Int /\ x.amount = a /\ x.status = status
  BY <1>1, <1>2 DEF Posts, Seeded
<1>7. SumFunction(balance) \in Int /\ SumFunction(balance') = SumFunction(balance) + (-a) + y
  <2>1. PICK f, g : f = balance /\ g = balance'
    OBVIOUS
  <2>2. /\ f \in [DemoWallets -> Int] /\ g \in [DemoWallets -> Int] /\ from # to
        /\ g[from] = f[from] + (-a) /\ g[to] = f[to] + y
        /\ \A w \in DemoWallets : w # from /\ w # to => g[w] = f[w] + 0
    BY <2>1 DEF Posts, Shifts, Seeded
  <2>3. \A w \in DemoWallets : w # from /\ w # to => g[w] = f[w]
    BY <2>2
  <2>4. -a \in Int
    OBVIOUS
  <2>5. SumFunction(f) \in Int /\ SumFunction(g) = SumFunction(f) + (-a) + y
    BY <2>2, <2>3, <2>4, TwoShift
  <2> QED BY <2>1, <2>5
<1>8. /\ Out(s) \in Int
      /\ Out(Append(s, x)) = IF status = "PENDING" THEN Out(s) + a ELSE Out(s)
  BY <1>5, <1>6, OutAdds
<1>9. /\ AmountAt(s, l + 1) \in Int /\ AmountAt(s, l + 2) \in Int
      /\ AmountAt(Append(s, x), l + 1) = IF l + 1 = k + 1 THEN a ELSE AmountAt(s, l + 1)
      /\ AmountAt(Append(s, x), l + 2) = IF l + 2 = k + 1 THEN a ELSE AmountAt(s, l + 2)
  <2>1. l + 1 \in Nat \ {0} /\ l + 2 \in Nat \ {0}
    BY <1>3
  <2>2. /\ AmountAt(s, l + 1) \in Int
        /\ AmountAt(Append(s, x), l + 1) = IF l + 1 = Len(s) + 1 THEN x.amount ELSE AmountAt(s, l + 1)
    BY <1>5, <2>1, AmountAfter
  <2>3. /\ AmountAt(s, l + 2) \in Int
        /\ AmountAt(Append(s, x), l + 2) = IF l + 2 = Len(s) + 1 THEN x.amount ELSE AmountAt(s, l + 2)
    BY <1>5, <2>1, AmountAfter
  <2> QED BY <1>4, <1>6, <2>2, <2>3
\* A missing amount is nothing.
<1>10. (k <= l => AmountAt(s, l + 1) = 0) /\ (k <= l + 1 => AmountAt(s, l + 2) = 0)
  <2>1. (k <= l => ~(l + 1 <= k)) /\ (k <= l + 1 => ~(l + 2 <= k))
    BY <1>3, <1>4
  <2> QED BY <1>4, <2>1 DEF AmountAt
<1>11. PICK b, c, o, u, p, q, m, n, r :
         /\ b = SumFunction(balance) /\ c = SumFunction(balance')
         /\ o = Out(s) /\ u = Out(Append(s, x)) /\ r = paid
         /\ p = AmountAt(s, l + 1) /\ q = AmountAt(s, l + 2)
         /\ m = AmountAt(Append(s, x), l + 1) /\ n = AmountAt(Append(s, x), l + 2)
  OBVIOUS
<1>12. b \in Int /\ o \in Int /\ p \in Int /\ q \in Int /\ r \in Int
  BY <1>6, <1>7, <1>8, <1>9, <1>11
<1>13. b + o = r - p + q
  BY <1>2, <1>3, <1>11 DEF Accounted
<1>14. c = b + (-a) + y
  BY <1>7, <1>11
<1>15. u = IF status = "PENDING" THEN o + a ELSE o
  BY <1>8, <1>11
<1>16. m = (IF l + 1 = k + 1 THEN a ELSE p) /\ n = (IF l + 2 = k + 1 THEN a ELSE q)
  BY <1>9, <1>11
<1>17. (k <= l => p = 0) /\ (k <= l + 1 => q = 0)
  BY <1>10, <1>11
<1>18. c + u = r - m + n
  <2>1. CASE pass = "completed"
    <3>1. k < l /\ y = a /\ u = o
      BY <1>5, <1>15, <2>1
    <3>2. m = p /\ n = q
      BY <1>3, <1>4, <1>16, <3>1
    <3> QED BY <1>12, <1>13, <1>14, <3>1, <3>2
  <2>2. CASE pass = "stuck"
    <3>1. k < l /\ y = 0 /\ u = o + a
      BY <1>5, <1>15, <2>2
    <3>2. m = p /\ n = q
      BY <1>3, <1>4, <1>16, <3>1
    <3> QED BY <1>12, <1>13, <1>14, <3>1, <3>2
  <2>3. CASE pass = "failed"
    <3>1. k = l /\ y = 0 /\ u = o
      BY <1>5, <1>15, <2>3
    <3>2. m = a /\ n = q /\ p = 0
      BY <1>3, <1>4, <1>16, <1>17, <3>1
    <3> QED BY <1>12, <1>13, <1>14, <3>1, <3>2
  <2>4. CASE pass = "duplicate"
    <3>1. k = l + 1 /\ y = 2 * a /\ u = o
      BY <1>5, <1>15, <2>4
    <3>2. m = p /\ n = a /\ q = 0
      BY <1>3, <1>4, <1>16, <1>17, <3>1
    <3> QED BY <1>12, <1>13, <1>14, <3>1, <3>2
  <2> QED BY <2>1, <2>2, <2>3, <2>4
<1>19. /\ SumFunction(balance)' = c /\ Out(transfers)' = u /\ paid' = r
       /\ AmountAt(transfers, Posted + 1)' = m /\ AmountAt(transfers, Posted + 2)' = n
  <2>1. Out(transfers)' = Out(transfers')
    BY DEF Out, Pending
  <2>2. /\ AmountAt(transfers, Posted + 1)' = AmountAt(transfers', Posted + 1)
        /\ AmountAt(transfers, Posted + 2)' = AmountAt(transfers', Posted + 2)
    BY DEF AmountAt, Posted
  <2> QED BY <1>3, <1>6, <1>11, <2>1, <2>2
<1> QED BY <1>18, <1>19 DEF Accounted

LEMMA BetweenAccounted ==
  ASSUME Seeded, Accounted, NEW from \in DemoWallets, NEW to \in DemoWallets, NEW a \in Amounts,
         Between(from, to, a)
  PROVE  Accounted'
<1>1. /\ a \in Nat \ {0}
      /\ \/ Posts(from, to, a, a, "completed", "COMPLETED")
         \/ Posts(from, to, a, 0, "stuck", "PENDING")
         \/ Posts(from, to, a, 0, "failed", "FAILED")
         \/ Posts(from, to, a, 2 * a, "duplicate", "COMPLETED")
  BY BetweenPosts
<1>2. PICK b \in Nat \ {0} : b = a
  BY <1>1
<1>3. b \in Int /\ 2 * b \in Int /\ 0 \in Int
  BY <1>2
<1>4. CASE Posts(from, to, b, b, "completed", "COMPLETED")
  BY <1>3, <1>4, PostsAccounted
<1>5. CASE Posts(from, to, b, 0, "stuck", "PENDING")
  BY <1>3, <1>5, PostsAccounted
<1>6. CASE Posts(from, to, b, 0, "failed", "FAILED")
  BY <1>3, <1>6, PostsAccounted
<1>7. CASE Posts(from, to, b, 2 * b, "duplicate", "COMPLETED")
  BY <1>3, <1>7, PostsAccounted
<1> QED BY <1>1, <1>2, <1>4, <1>5, <1>6, <1>7

\* The sweep returns what was pending.
LEMMA SweepAccounted ==
  ASSUME Seeded, Accounted, NEW n \in DOMAIN transfers, Sweep(n)
  PROVE  Accounted'
<1>1. PICK w \in DemoWallets, a \in Nat \ {0} : w = transfers[n].from /\ a = transfers[n].amount
  BY SweepPosts
<1>2. /\ balance' \in [DemoWallets -> Int] /\ paid' = paid
      /\ Shifts(w, a) /\ \A v \in DemoWallets : v # w => Shifts(v, 0)
      /\ transfers' \in Seq(StoredTransfer) /\ Len(transfers') = Len(transfers)
      /\ \A i \in DOMAIN transfers : transfers'[i].amount = transfers[i].amount
      /\ Out(transfers') \in Int /\ Out(transfers) = Out(transfers') + a
  BY <1>1, SweepPosts
<1>3. PICK f, g : f = balance /\ g = balance'
  OBVIOUS
<1>4. /\ f \in [DemoWallets -> Int] /\ g \in [DemoWallets -> Int]
      /\ g[w] = f[w] + a /\ \A v \in DemoWallets : v # w => g[v] = f[v] + 0
  BY <1>2, <1>3 DEF Seeded, Shifts
<1>5. \A v \in DemoWallets : v # w => g[v] = f[v]
  BY <1>4
<1>6. SumFunction(f) \in Int /\ SumFunction(g) = SumFunction(f) + a
  BY <1>1, <1>4, <1>5, OneShift
<1>7. PICK l \in Nat : l = Posted
  BY SeedSizes
<1>8. ASSUME NEW i \in Nat \ {0}
      PROVE  AmountAt(transfers', i) = AmountAt(transfers, i)
  <2>1. PICK m \in Nat : m = Len(transfers) /\ DOMAIN transfers = 1 .. m
    BY LenProperties DEF Seeded
  <2>2. CASE i <= m
    <3>1. i \in DOMAIN transfers
      BY <2>1, <2>2
    <3> QED BY <1>2, <2>1, <2>2, <3>1 DEF AmountAt
  <2>3. CASE ~(i <= m)
    BY <1>2, <2>1, <2>3 DEF AmountAt
  <2> QED BY <2>2, <2>3
<1>9. /\ AmountAt(transfers', l + 1) = AmountAt(transfers, l + 1)
      /\ AmountAt(transfers', l + 2) = AmountAt(transfers, l + 2)
  <2>1. l + 1 \in Nat \ {0} /\ l + 2 \in Nat \ {0}
    BY <1>7
  <2> QED BY <1>8, <2>1
<1>10. PICK b, c, o, u, d :
         /\ b = SumFunction(f) /\ c = SumFunction(g) /\ o = Out(transfers) /\ u = Out(transfers')
         /\ d = paid - AmountAt(transfers, l + 1) + AmountAt(transfers, l + 2)
  OBVIOUS
<1>11. b \in Int /\ u \in Int /\ c = b + a /\ o = u + a /\ b + o = d
  BY <1>2, <1>3, <1>6, <1>7, <1>10 DEF Accounted
<1>12. c + u = d
  BY <1>1, <1>11
<1>13. /\ Out(transfers)' = Out(transfers')
       /\ AmountAt(transfers, Posted + 1)' = AmountAt(transfers', Posted + 1)
       /\ AmountAt(transfers, Posted + 2)' = AmountAt(transfers', Posted + 2)
  BY DEF Out, Pending, AmountAt, Posted
<1> QED BY <1>2, <1>3, <1>7, <1>9, <1>10, <1>12, <1>13 DEF Accounted

LEMMA NextAccounted == Seeded /\ Reconciles /\ Accounted /\ [Next]_vars => Accounted'
<1> SUFFICES ASSUME Seeded, Reconciles, Accounted, [Next]_vars
             PROVE  Accounted'
  OBVIOUS
<1>1. CASE UNCHANGED <<balance, transfers, paid>>
  BY <1>1 DEF Accounted, Out, Pending, AmountAt, Posted
<1>2. CASE SeedNext
  <2>1. ASSUME NEW w \in DemoWallets, NEW amounts \in Seq(Int), Fill(w, amounts)
        PROVE  Accounted'
    BY <2>1, FillAccounted
  <2>2. ASSUME NEW from \in DemoWallets, NEW to \in DemoWallets, NEW a \in Amounts,
               Between(from, to, a)
        PROVE  Accounted'
    BY <2>2, BetweenAccounted
  <2>3. CASE Outbox
    BY <1>1, <2>3 DEF Outbox
  <2>4. ASSUME NEW n \in DOMAIN transfers, Sweep(n)
        PROVE  Accounted'
    BY <2>4, SweepAccounted
  <2> QED BY <1>2, <2>1, <2>2, <2>3, <2>4, SeedSteps, RerunAccounted
<1> QED BY <1>1, <1>2 DEF Next, Events, Rounding, Seeding, Probing, Listing, vars, seedVars

\* Once the script has ended, both incidents' transfers are stored.
LEMMA AccountedAtTheEnd == Seeded /\ Accounted => MoneyAccounted
<1> SUFFICES ASSUME Seeded, Accounted, todo = <<>>
             PROVE  SumFunction(balance)
                      + SumFunction([n \in {m \in DOMAIN transfers : transfers[m].status = "PENDING"}
                                       |-> transfers[n].amount])
                      = paid - Incident(1) + Incident(2)
  BY DEF MoneyAccounted
<1>1. PICK f \in Nat, l \in Nat : f = Filled /\ l = Posted
  BY SeedSizes
<1>2. Len(todo) = 0
  OBVIOUS
<1>3. Done = f + l + 3 /\ Passes = f + l + 3
  BY <1>1, <1>2 DEF Done, Passes
<1>4. Len(transfers) = l + 2
  BY <1>1, <1>3 DEF Seeded, Made
<1>5. /\ AmountAt(transfers, Posted + 1) = transfers[l + 1].amount
      /\ AmountAt(transfers, Posted + 2) = transfers[l + 2].amount
  BY <1>1, <1>4 DEF AmountAt
<1>6. /\ Incident(1) = transfers[l + 1].amount /\ Incident(2) = transfers[l + 2].amount
  BY <1>1 DEF Incident, Posted
<1> QED BY <1>5, <1>6 DEF Accounted, Out, Pending

\* When the script has ended, and whatever the sweep has refunded since, the
\* failed transfer's amount is missing of what was paid in, the duplicate's is
\* there once too often, and what is pending is with nobody.
THEOREM DemoMoney == Spec => []MoneyAccounted
<1>1. Init => Seeded /\ Reconciles /\ Accounted
  BY InitSeeded, InitReconciled, InitAccounted DEF Init
<1>2. Seeded /\ Reconciles /\ Accounted /\ [Next]_vars => (Seeded /\ Reconciles /\ Accounted)'
  BY NextSeeded, NextReconciled, NextAccounted
<1> QED BY <1>1, <1>2, AccountedAtTheEnd, PTL DEF Spec

-----------------------------------------------------------------------------
(* The chain of balanceAfter.                                               *)

\* What the script forgot of w: the failed transfer's amount, if w sent it.
Forgotten(s, w) ==
  IF Len(s) > Posted /\ s[Posted + 1].from = w THEN s[Posted + 1].amount ELSE 0

Gap(e, n) == e[n].after - e[n - 1].after - e[n].amount

\* Entries e whose gaps are f, and whose last balanceAfter is b, or is over by f.
Chain(e, b, f) ==
  /\ \A n \in 2 .. Len(e) : Gap(e, n) \in {0, f, -f}
  /\ Len(e) > 0 => e[Len(e)].after - b \in {0, f}

\* Until the duplicate is made, memory is over by what was forgotten.
Chained ==
  \A w \in DemoWallets :
    /\ Chain(entries[w], balance[w], Forgotten(transfers, w))
    /\ Len(transfers) < Posted + 2 => remembered[w] = balance[w] + Forgotten(transfers, w)

\* An entry that goes on from what is stored, or from f more.
LEMMA ChainMore ==
  ASSUME NEW s \in Seq(StoredEntry), NEW x \in StoredEntry, NEW b \in Int, NEW c \in Int,
         NEW f \in Int, Chain(s, b, f), x.after - x.amount - b \in {0, f}, x.after - c \in {0, f}
  PROVE  Append(s, x) \in Seq(StoredEntry) /\ Chain(Append(s, x), c, f)
<1>1. PICK m \in Nat : m = Len(s)
  BY LenProperties
<1>2. PICK r : r = Append(s, x)
  OBVIOUS
<1>3. /\ r \in Seq(StoredEntry) /\ Len(r) = m + 1 /\ r[m + 1] = x
      /\ \A i \in 1 .. m : r[i] = s[i]
  BY <1>1, <1>2, AppendProperties
<1>4. ASSUME NEW n \in 2 .. m + 1
      PROVE  Gap(r, n) \in {0, f, -f}
  <2>1. CASE n <= m
    <3>1. n \in 1 .. m /\ n - 1 \in 1 .. m /\ n \in 2 .. m
      BY <2>1
    <3>2. r[n] = s[n] /\ r[n - 1] = s[n - 1]
      BY <1>3, <3>1
    <3>3. Gap(s, n) \in {0, f, -f}
      BY <1>1, <3>1 DEF Chain
    <3> QED BY <3>2, <3>3 DEF Gap
  <2>2. CASE n = m + 1
    <3>1. m \in 1 .. m /\ m > 0 /\ n - 1 = m
      BY <2>2
    <3>2. s[m] \in StoredEntry /\ r[m] = s[m]
      BY <1>1, <1>3, <3>1, ElementOfSeq
    <3>3. PICK y \in Int, v \in Int, z \in Int : y = s[m].after /\ v = x.after /\ z = x.amount
      BY <3>2 DEF StoredEntry
    <3>4. y - b \in {0, f} /\ v - z - b \in {0, f}
      BY <1>1, <3>1, <3>3 DEF Chain
    <3>5. v - y - z \in {0, f, -f}
      BY <3>4
    <3> QED BY <1>3, <2>2, <3>1, <3>2, <3>3, <3>5 DEF Gap
  <2> QED BY <2>1, <2>2
<1> QED BY <1>2, <1>3, <1>4 DEF Chain

\* The movements of one wallet go on from one another, up to their total.
LEMMA ChainFilled ==
  ASSUME NEW amounts \in Seq(Int), NEW e, NEW f \in Int,
         e = [n \in DOMAIN amounts |->
                [amount |-> amounts[n], after |-> Total(SubSeq(amounts, 1, n))]]
  PROVE  Chain(e, Total(amounts), f)
<1>1. PICK m \in Nat : m = Len(amounts)
  BY LenProperties
<1>2. DOMAIN amounts = 1 .. m /\ \A i \in 1 .. m : amounts[i] \in Int
  BY <1>1, LenProperties, ElementOfSeq
<1>3. Len(e) = m
  <2>1. DOMAIN e = 1 .. m
    BY <1>2
  <2> QED BY <2>1
<1>4. ASSUME NEW i \in 1 .. m
      PROVE  /\ SubSeq(amounts, 1, i) \in Seq(Int) /\ DOMAIN SubSeq(amounts, 1, i) = 1 .. i
             /\ Len(SubSeq(amounts, 1, i)) = i
             /\ \A j \in 1 .. i : SubSeq(amounts, 1, i)[j] = amounts[j]
  <2>1. 1 \in Int /\ i \in Int /\ \A j \in 1 .. i : amounts[j] \in Int
    BY <1>2
  <2>2. PICK q : q = SubSeq(amounts, 1, i)
    OBVIOUS
  <2>3. /\ q \in Seq(Int) /\ Len(q) = (IF 1 <= i THEN i - 1 + 1 ELSE 0)
        /\ \A j \in 1 .. i - 1 + 1 : q[j] = amounts[1 + j - 1]
    BY <2>1, <2>2, SubSeqProperties
  <2>4. Len(q) = i /\ \A j \in 1 .. i : q[j] = amounts[j]
    BY <2>3
  <2>5. DOMAIN q = 1 .. i
    BY <2>3, <2>4, LenProperties
  <2> QED BY <2>2, <2>3, <2>4, <2>5
<1>5. ASSUME NEW n \in 2 .. m
      PROVE  Gap(e, n) = 0
  <2>1. PICK p, q : p = SubSeq(amounts, 1, n - 1) /\ q = SubSeq(amounts, 1, n)
    OBVIOUS
  <2>2. n \in 1 .. m /\ n - 1 \in 1 .. m
    OBVIOUS
  <2>3. /\ p \in Seq(Int) /\ DOMAIN p = 1 .. n - 1 /\ q \in Seq(Int) /\ DOMAIN q = 1 .. n
        /\ \A j \in 1 .. n - 1 : p[j] = amounts[j]
        /\ \A j \in 1 .. n : q[j] = amounts[j]
    BY <1>4, <2>1, <2>2
  <2>4. SumFunction(q) = SumFunction(p) + q[n]
    <3>1. /\ 1 .. n = 1 .. n - 1 \union {n} /\ n \notin 1 .. n - 1
          /\ \A j \in 1 .. n - 1 : j \in 1 .. n /\ j \in 1 .. m
      OBVIOUS
    <3>2. IsFiniteSet(DOMAIN p)
      BY <2>3, FS_Interval
    <3>3. /\ n \notin DOMAIN p /\ DOMAIN q = DOMAIN p \union {n} /\ q[n] \in Int
          /\ \A j \in DOMAIN p : p[j] \in Int /\ q[j] = p[j]
      BY <1>2, <2>2, <2>3, <3>1
    <3> QED BY <3>2, <3>3, WholeGrows
  <2>5. Total(p) \in Int /\ Total(q) = Total(p) + amounts[n] /\ amounts[n] \in Int
    BY <1>2, <2>2, <2>3, <2>4, TotalInt DEF Total
  <2>6. e[n].after = Total(q) /\ e[n - 1].after = Total(p) /\ e[n].amount = amounts[n]
    BY <1>2, <2>1, <2>2
  <2> QED BY <2>5, <2>6 DEF Gap
<1>6. ASSUME m > 0
      PROVE  e[m].after - Total(amounts) = 0
  <2>1. m \in 1 .. m
    BY <1>6
  <2>2. PICK q : q = SubSeq(amounts, 1, m)
    OBVIOUS
  <2>3. q = amounts
    <3>1. /\ q \in Seq(Int) /\ DOMAIN q = 1 .. m /\ Len(q) = m
          /\ \A j \in 1 .. m : q[j] = amounts[j]
      BY <1>4, <2>1, <2>2
    <3> QED BY <1>1, <3>1, SeqEqual
  <2>4. e[m].after = Total(q)
    BY <1>2, <2>1, <2>2
  <2> QED BY <2>3, <2>4, TotalInt
<1> QED BY <1>3, <1>5, <1>6 DEF Chain

\* What is forgotten is a number; a transfer that is added makes it more for
\* none but the failed one's sender.
LEMMA ForgottenInt ==
  ASSUME NEW s \in Seq(StoredTransfer), NEW w
  PROVE  /\ Forgotten(s, w) \in Int
         /\ Len(s) <= Posted => Forgotten(s, w) = 0
<1>1. PICK l \in Nat, m \in Nat : l = Posted /\ m = Len(s)
  BY SeedSizes, LenProperties
<1>2. CASE m > l
  <2>1. l + 1 \in 1 .. m
    BY <1>2
  <2>2. s[l + 1] \in StoredTransfer
    BY <1>1, <2>1, ElementOfSeq
  <2> QED BY <1>1, <1>2, <2>2 DEF Forgotten, StoredTransfer
<1>3. CASE ~(m > l)
  BY <1>1, <1>3 DEF Forgotten
<1> QED BY <1>1, <1>2, <1>3

LEMMA ForgottenMore ==
  ASSUME NEW s \in Seq(StoredTransfer), NEW x \in StoredTransfer, NEW w
  PROVE  Forgotten(Append(s, x), w) =
           IF Len(s) = Posted THEN IF x.from = w THEN x.amount ELSE 0 ELSE Forgotten(s, w)
<1>1. PICK l \in Nat, m \in Nat : l = Posted /\ m = Len(s)
  BY SeedSizes, LenProperties
<1>2. PICK r : r = Append(s, x)
  OBVIOUS
<1>3. Len(r) = m + 1 /\ r[m + 1] = x /\ \A i \in 1 .. m : r[i] = s[i]
  BY <1>1, <1>2, AppendProperties
<1>4. CASE m = l
  BY <1>1, <1>2, <1>3, <1>4 DEF Forgotten
<1>5. CASE m > l
  <2>1. l + 1 \in 1 .. m
    BY <1>5
  <2> QED BY <1>1, <1>2, <1>3, <1>5, <2>1 DEF Forgotten
<1>6. CASE m < l
  BY <1>1, <1>2, <1>3, <1>6 DEF Forgotten
<1> QED BY <1>4, <1>5, <1>6

LEMMA InitChained == SeedInit => Chained
<1> SUFFICES ASSUME SeedInit, NEW w \in DemoWallets
             PROVE  /\ Chain(entries[w], balance[w], Forgotten(transfers, w))
                    /\ remembered[w] = balance[w] + Forgotten(transfers, w)
  BY DEF Chained
<1>1. /\ entries[w] = <<>> /\ balance[w] = 0 /\ remembered[w] = 0 /\ transfers = <<>>
  BY DEF SeedInit, Zero
<1>2. Len(transfers) = 0 /\ ~(0 > Posted)
  BY <1>1, SeedSizes
<1>3. Forgotten(transfers, w) = 0
  BY <1>2 DEF Forgotten
<1>4. Len(entries[w]) = 0
  BY <1>1
<1> QED BY <1>1, <1>3, <1>4 DEF Chain

LEMMA RerunChained == Rerun => Chained'
<1>1. Rerun => SeedInit'
  BY DEF Rerun, SeedInit, Zero
<1>2. SeedInit' => Chained'
  BY InitChained, PTL
<1> QED BY <1>1, <1>2

\* What a wallet's chain is after a step.
ChainedAfter(w) ==
  /\ Chain(entries'[w], balance'[w], Forgotten(transfers', w))
  /\ Len(transfers') < Posted + 2 => remembered'[w] = balance'[w] + Forgotten(transfers', w)

LEMMA FillChained ==
  ASSUME Seeded, Chained, NEW w \in DemoWallets, NEW amounts \in Seq(Int), Fill(w, amounts),
         NEW v \in DemoWallets
  PROVE  ChainedAfter(v)
<1>1. /\ Turn("wallet") /\ UNCHANGED transfers /\ OnScript /\ transfers \in Seq(StoredTransfer)
      /\ balance'[w] = Total(amounts) /\ remembered'[w] = Total(amounts)
      /\ v # w => /\ balance'[v] = balance[v] /\ remembered'[v] = remembered[v]
                  /\ entries'[v] = entries[v]
  BY FillPosts DEF Seeded
<1>2. Forgotten(transfers, w) = 0
  <2>1. PICK k \in Nat : k = Done /\ PassAfter("wallet", k)
    BY <1>1, Turns
  <2>2. Len(transfers) = 0
    BY <2>1, MadeNext DEF Seeded
  <2>3. 0 <= Posted
    BY SeedSizes
  <2> QED BY <1>1, <2>2, <2>3, ForgottenInt
<1>3. CASE v = w
  <2>1. PICK e : e = [n \in DOMAIN amounts |->
                        [amount |-> amounts[n], after |-> Total(SubSeq(amounts, 1, n))]]
    OBVIOUS
  <2>2. entries' = [entries EXCEPT ![w] = e] /\ entries \in [DemoWallets -> Seq(StoredEntry)]
    BY <2>1 DEF Fill, Seeded
  <2>3. entries'[w] = e /\ Chain(e, Total(amounts), 0)
    BY <2>1, <2>2, ChainFilled
  <2>4. Total(amounts) = Total(amounts) + 0
    BY TotalInt
  <2> QED BY <1>1, <1>2, <1>3, <2>3, <2>4 DEF ChainedAfter
<1>4. CASE v # w
  BY <1>1, <1>4 DEF Chained, ChainedAfter
<1> QED BY <1>3, <1>4

\* How many transfers there are at each pass.
LEMMA PassPlace ==
  ASSUME Seeded, NEW pass, Turn(pass)
  PROVE  /\ pass \in {"completed", "stuck"} => Len(transfers) < Posted
         /\ pass = "failed" => Len(transfers) = Posted
         /\ pass = "duplicate" => Len(transfers) = Posted + 1
<1>1. OnScript
  BY DEF Seeded
<1>2. PICK k \in Nat : k = Done /\ PassAfter(pass, k)
  BY <1>1, Turns
<1>3. Len(transfers) = Made(k)
  BY <1>2 DEF Seeded
<1> QED BY <1>2, <1>3, MadeNext

\* A pass between two wallets: the sender's entry goes on from memory, and so do
\* the receiver's, if it has any.
LEMMA BetweenChained ==
  ASSUME Seeded, Chained, NEW from \in DemoWallets, NEW to \in DemoWallets, NEW a \in Amounts,
         Between(from, to, a), NEW v \in DemoWallets
  PROVE  ChainedAfter(v)
<1>1. a \in Nat \ {0}
  BY SeedAssumption
<1>2. /\ balance \in [DemoWallets -> Int] /\ remembered \in [DemoWallets -> Int]
      /\ entries \in [DemoWallets -> Seq(StoredEntry)] /\ transfers \in Seq(StoredTransfer)
      /\ \A w \in DemoWallets : balance[w] \in Int /\ remembered[w] \in Int /\ entries[w] \in Seq(StoredEntry)
  BY DEF Seeded
<1>3. PICK l \in Nat, m \in Nat : l = Posted /\ m = Len(transfers)
  BY <1>2, SeedSizes, LenProperties
<1>4. PICK F, G : /\ F = [w \in DemoWallets |-> Forgotten(transfers, w)]
                  /\ G = [w \in DemoWallets |-> Forgotten(transfers', w)]
  OBVIOUS
<1>5. PICK pass \in {"completed", "stuck", "failed", "duplicate"},
           status \in {"PENDING", "COMPLETED", "FAILED"} :
        Turn(pass) /\ Stores(from, to, a, status)
        /\ (pass = "completed" => Completed(from, to, a)) /\ (pass = "stuck" => Stuck(from, to, a))
        /\ (pass = "failed" => Failed(from, to, a)) /\ (pass = "duplicate" => Duplicate(from, to, a))
  <2>1. CASE Completed(from, to, a)
    BY <2>1 DEF Completed
  <2>2. CASE Stuck(from, to, a)
    BY <2>2 DEF Stuck
  <2>3. CASE Failed(from, to, a)
    BY <2>3 DEF Failed
  <2>4. CASE Duplicate(from, to, a)
    BY <2>4 DEF Duplicate
  <2> QED BY <2>1, <2>2, <2>3, <2>4 DEF Between
<1>6. /\ pass \in {"completed", "stuck"} => m < l
      /\ pass = "failed" => m = l
      /\ pass = "duplicate" => m = l + 1
  BY <1>3, <1>5, PassPlace
<1>7. \A w \in DemoWallets : /\ F[w] \in Int /\ Chain(entries[w], balance[w], F[w])
                             /\ remembered[w] = balance[w] + F[w]
                             /\ m <= l => F[w] = 0
  <2>1. m < l + 2
    BY <1>6
  <2> QED BY <1>2, <1>3, <1>4, <2>1, ForgottenInt DEF Chained
<1>8. /\ from # to /\ Len(transfers') = m + 1
      /\ \A w \in DemoWallets : G[w] = IF m = l THEN IF w = from THEN a ELSE 0 ELSE F[w]
  <2>1. PICK x : x = [from |-> from, to |-> to, amount |-> a, status |-> status]
    OBVIOUS
  <2>2. x \in StoredTransfer /\ x.from = from /\ x.amount = a
    BY <1>1, <2>1 DEF StoredTransfer
  <2>3. transfers' = Append(transfers, x) /\ from # to
    BY <1>5, <2>1 DEF Stores
  <2>4. Len(transfers') = m + 1
    BY <1>2, <1>3, <2>2, <2>3, AppendProperties
  <2>5. ASSUME NEW w \in DemoWallets
        PROVE  G[w] = IF m = l THEN IF w = from THEN a ELSE 0 ELSE F[w]
    BY <1>2, <1>3, <1>4, <2>2, <2>3, ForgottenMore
  <2> QED BY <2>3, <2>4, <2>5
<1>9. PICK d, c, e : d = Entry(from, -a) /\ c = Entry(to, a) /\ e = [Entry(to, 2 * a) EXCEPT !.amount = a]
  OBVIOUS
<1>10. /\ d \in StoredEntry /\ c \in StoredEntry /\ e \in StoredEntry
       /\ d.amount = -a /\ c.amount = a /\ e.amount = a
       /\ d.after = remembered[from] - a /\ c.after = remembered[to] + a
       /\ e.after = remembered[to] + 2 * a
  <2>1. PICK r \in Int, t \in Int : r = remembered[from] /\ t = remembered[to]
    BY <1>2
  <2>2. /\ d = [amount |-> -a, after |-> r + (-a)] /\ c = [amount |-> a, after |-> t + a]
        /\ e = [amount |-> a, after |-> t + 2 * a]
    BY <1>9, <2>1 DEF Entry
  <2>3. -a \in Int /\ a \in Int /\ r + (-a) = r - a /\ r - a \in Int /\ t + a \in Int /\ t + 2 * a \in Int
    BY <1>1
  <2> QED BY <2>1, <2>2, <2>3 DEF StoredEntry
<1>11. /\ G[from] \in Int /\ F[from] \in {0, G[from]}
       /\ \A w \in DemoWallets : w # from => G[w] = F[w]
       /\ m # l => G[from] = F[from]
  BY <1>1, <1>7, <1>8
<1>12. /\ entries'[from] = Append(entries[from], d) /\ balance'[from] = balance[from] - a
       /\ entries'[to] = IF pass = "completed" THEN Append(entries[to], c)
                         ELSE IF pass = "duplicate" THEN entries[to] \o <<c, e>> ELSE entries[to]
       /\ balance'[to] = IF pass = "completed" THEN balance[to] + a
                         ELSE IF pass = "duplicate" THEN balance[to] + 2 * a ELSE balance[to]
       /\ \A w \in DemoWallets : w # from /\ w # to => entries'[w] = entries[w] /\ balance'[w] = balance[w]
       /\ \A w \in DemoWallets :
            remembered'[w] = IF w = from /\ pass \in {"completed", "stuck"} THEN remembered[w] - a
                             ELSE IF w = to /\ pass = "completed" THEN remembered[w] + a
                             ELSE remembered[w]
  <2>1. CASE pass = "completed"
    <3>1. /\ entries' = [entries EXCEPT ![from] = Append(@, d), ![to] = Append(@, c)]
          /\ balance' = [balance EXCEPT ![from] = @ - a, ![to] = @ + a]
          /\ remembered' = [remembered EXCEPT ![from] = @ - a, ![to] = @ + a]
      BY <1>5, <1>9, <2>1 DEF Completed
    <3> QED BY <1>2, <1>8, <2>1, <3>1
  <2>2. CASE pass = "stuck"
    <3>1. /\ entries' = [entries EXCEPT ![from] = Append(@, d)]
          /\ balance' = [balance EXCEPT ![from] = @ - a]
          /\ remembered' = [remembered EXCEPT ![from] = @ - a]
      BY <1>5, <1>9, <2>2 DEF Stuck, Debits
    <3> QED BY <1>2, <1>8, <2>2, <3>1
  <2>3. CASE pass = "failed"
    <3>1. /\ entries' = [entries EXCEPT ![from] = Append(@, d)]
          /\ balance' = [balance EXCEPT ![from] = @ - a] /\ remembered' = remembered
      BY <1>5, <1>9, <2>3 DEF Failed, Debits
    <3> QED BY <1>2, <1>8, <2>3, <3>1
  <2>4. CASE pass = "duplicate"
    <3>1. /\ entries' = [entries EXCEPT ![from] = Append(@, d), ![to] = @ \o <<c, e>>]
          /\ balance' = [balance EXCEPT ![from] = @ - a, ![to] = @ + 2 * a]
          /\ remembered' = remembered
      BY <1>5, <1>9, <2>4 DEF Duplicate
    <3> QED BY <1>2, <1>8, <2>4, <3>1
  <2> QED BY <2>1, <2>2, <2>3, <2>4
<1>13. Chain(entries'[from], balance'[from], G[from])
  <2>1. Chain(entries[from], balance[from], G[from])
    BY <1>7, <1>11 DEF Chain
  <2>2. /\ balance[from] - a \in Int /\ balance[from] \in Int
        /\ d.after - d.amount - balance[from] = F[from]
        /\ d.after - (balance[from] - a) = F[from]
    <3>1. PICK b \in Int, r \in Int, f \in Int :
            b = balance[from] /\ r = remembered[from] /\ f = F[from] /\ r = b + f
      BY <1>2, <1>7
    <3>2. d.amount = -a /\ d.after = r - a
      BY <1>10, <3>1
    <3>3. b - a \in Int /\ r - a - (-a) - b = f /\ r - a - (b - a) = f
      BY <1>1, <3>1
    <3> QED BY <3>1, <3>2, <3>3
  <2>3. Chain(Append(entries[from], d), balance[from] - a, G[from])
    BY <1>2, <1>10, <1>11, <2>1, <2>2, ChainMore
  <2> QED BY <1>12, <2>3
<1>14. Chain(entries'[to], balance'[to], G[to])
  <2>1. Chain(entries[to], balance[to], G[to]) /\ G[to] = F[to] /\ G[to] \in Int
    BY <1>7, <1>8, <1>11
  <2>2. /\ balance[to] \in Int /\ balance[to] + a \in Int /\ balance[to] + 2 * a \in Int
        /\ c.after - c.amount - balance[to] = F[to] /\ c.after - (balance[to] + a) = F[to]
        /\ e.after - e.amount - (balance[to] + a) = F[to] /\ e.after - (balance[to] + 2 * a) = F[to]
    <3>1. PICK b \in Int, r \in Int, f \in Int :
            b = balance[to] /\ r = remembered[to] /\ f = F[to] /\ r = b + f
      BY <1>2, <1>7
    <3>2. c.amount = a /\ c.after = r + a /\ e.amount = a /\ e.after = r + 2 * a
      BY <1>10, <3>1
    <3>3. b + a \in Int /\ b + 2 * a \in Int
      BY <1>1, <3>1
    <3>4. c.after - c.amount - b = f /\ c.after - (b + a) = f
      BY <1>1, <3>1, <3>2
    <3>5. e.after - e.amount - (b + a) = f /\ e.after - (b + 2 * a) = f
      BY <1>1, <3>1, <3>2
    <3> QED BY <3>1, <3>3, <3>4, <3>5
  <2>3. PICK C : C = Append(entries[to], c)
    OBVIOUS
  <2>4. C \in Seq(StoredEntry) /\ Chain(C, balance[to] + a, G[to])
    BY <1>2, <1>10, <2>1, <2>2, <2>3, ChainMore
  <2>5. Chain(Append(C, e), balance[to] + 2 * a, G[to])
    BY <1>10, <2>1, <2>2, <2>4, ChainMore
  <2>6. entries[to] \o <<c, e>> = Append(C, e)
    BY <1>2, <1>10, <2>3, TwoMore
  <2> QED BY <1>12, <2>1, <2>3, <2>4, <2>5, <2>6
<1>15. ASSUME m + 1 < l + 2
       PROVE  remembered'[v] = balance'[v] + G[v]
  <2>1. pass # "duplicate" /\ m <= l /\ F[v] = 0 /\ remembered[v] = balance[v]
    BY <1>2, <1>6, <1>7, <1>15
  <2>2. CASE v = from
    <3>1. G[v] = IF pass = "failed" THEN a ELSE 0
      BY <1>6, <1>7, <1>8, <2>1, <2>2
    <3>2. balance'[v] = balance[v] - a
          /\ remembered'[v] = IF pass = "failed" THEN remembered[v] ELSE remembered[v] - a
      BY <1>12, <2>1, <2>2
    <3> QED BY <1>1, <1>2, <2>1, <3>1, <3>2
  <2>3. CASE v # from
    <3>1. G[v] = 0
      BY <1>11, <2>1, <2>3
    <3>2. balance'[v] = remembered'[v] /\ balance'[v] \in Int
      BY <1>1, <1>2, <1>12, <2>1, <2>3
    <3> QED BY <3>1, <3>2
  <2> QED BY <2>2, <2>3
<1>16. Chain(entries'[v], balance'[v], G[v])
  <2>1. CASE v # from /\ v # to
    BY <1>7, <1>11, <1>12, <2>1
  <2> QED BY <1>13, <1>14, <2>1
<1> QED BY <1>3, <1>4, <1>8, <1>15, <1>16 DEF ChainedAfter

\* A refund goes on from what is stored.
LEMMA SweepChained ==
  ASSUME Seeded, Chained, NEW n \in DOMAIN transfers, Sweep(n), NEW v \in DemoWallets
  PROVE  ChainedAfter(v)
<1>1. /\ balance \in [DemoWallets -> Int] /\ entries \in [DemoWallets -> Seq(StoredEntry)]
      /\ transfers \in Seq(StoredTransfer)
  BY DEF Seeded
<1>2. PICK w \in DemoWallets, a \in Nat \ {0} : w = transfers[n].from /\ a = transfers[n].amount
  BY SweepPosts
<1>3. /\ todo = <<>> /\ Len(transfers') = Len(transfers) /\ transfers' \in Seq(StoredTransfer)
      /\ \A i \in DOMAIN transfers :
           transfers'[i].amount = transfers[i].amount /\ transfers'[i].from = transfers[i].from
  BY SweepPosts
<1>4. PICK l \in Nat, k \in Nat : l = Posted /\ k = Filled
  BY SeedSizes
<1>5. Len(transfers) = l + 2
  <2>1. Len(todo) = 0
    BY <1>3
  <2>2. Done = k + l + 3 /\ Passes = k + l + 3
    BY <1>4, <2>1 DEF Done, Passes
  <2> QED BY <1>4, <2>2 DEF Seeded, Made
<1>6. Forgotten(transfers', v) = Forgotten(transfers, v)
  <2>1. l + 1 \in 1 .. l + 2 /\ DOMAIN transfers = 1 .. l + 2
    BY <1>1, <1>5, LenProperties
  <2> QED BY <1>3, <1>4, <1>5, <2>1 DEF Forgotten
<1>7. PICK f \in Int : f = Forgotten(transfers, v)
  BY <1>1, ForgottenInt
<1>8. PICK x : x = [amount |-> a, after |-> balance[w] + a]
  OBVIOUS
<1>9. /\ x \in StoredEntry /\ x.amount = a /\ x.after = balance[w] + a
      /\ balance[w] \in Int /\ balance[w] + a \in Int /\ entries[w] \in Seq(StoredEntry)
  BY <1>1, <1>8 DEF StoredEntry
<1>10. /\ balance' = [balance EXCEPT ![w] = balance[w] + a]
       /\ entries' = [entries EXCEPT ![w] = Append(entries[w], x)]
  BY <1>2, <1>8 DEF Sweep
<1>11. Chain(entries[v], balance[v], f)
  BY <1>7 DEF Chained
<1>12. CASE v = w
  <2>1. x.after - x.amount - balance[w] = 0 /\ x.after - (balance[w] + a) = 0
    BY <1>2, <1>9
  <2>2. Chain(Append(entries[w], x), balance[w] + a, f)
    BY <1>9, <1>11, <1>12, <2>1, ChainMore
  <2>3. balance'[w] = balance[w] + a /\ entries'[w] = Append(entries[w], x)
    BY <1>1, <1>10
  <2> QED BY <1>3, <1>4, <1>5, <1>6, <1>7, <1>12, <2>2, <2>3 DEF ChainedAfter
<1>13. CASE v # w
  <2>1. balance'[v] = balance[v] /\ entries'[v] = entries[v]
    BY <1>1, <1>10, <1>13
  <2> QED BY <1>3, <1>4, <1>5, <1>6, <1>7, <1>11, <2>1 DEF ChainedAfter
<1> QED BY <1>12, <1>13

LEMMA NextChained == Seeded /\ Chained /\ [Next]_vars => Chained'
<1> SUFFICES ASSUME Seeded, Chained, [Next]_vars
             PROVE  Chained'
  OBVIOUS
<1>1. ASSUME \A v \in DemoWallets : ChainedAfter(v)
      PROVE  Chained'
  BY <1>1 DEF Chained, ChainedAfter, Chain, Gap, Forgotten, Posted
<1>2. CASE UNCHANGED <<balance, remembered, entries, transfers>>
  BY <1>2 DEF Chained, Chain, Gap, Forgotten, Posted
<1>3. CASE SeedNext
  <2>1. ASSUME NEW w \in DemoWallets, NEW amounts \in Seq(Int), Fill(w, amounts)
        PROVE  Chained'
    BY <1>1, <2>1, FillChained
  <2>2. ASSUME NEW from \in DemoWallets, NEW to \in DemoWallets, NEW a \in Amounts,
               Between(from, to, a)
        PROVE  Chained'
    BY <1>1, <2>2, BetweenChained
  <2>3. CASE Outbox
    BY <1>2, <2>3 DEF Outbox
  <2>4. ASSUME NEW n \in DOMAIN transfers, Sweep(n)
        PROVE  Chained'
    BY <1>1, <2>4, SweepChained
  <2> QED BY <1>3, <2>1, <2>2, <2>3, <2>4, SeedSteps, RerunChained
<1> QED BY <1>2, <1>3 DEF Next, Events, Rounding, Seeding, Probing, Listing, vars, seedVars

LEMMA ChainedGaps == Seeded /\ Chained => GapsAreForgotten
<1> SUFFICES ASSUME Seeded, Chained, NEW w \in DemoWallets, NEW n \in 2 .. Len(entries[w]),
                    Gap(entries[w], n) # 0
             PROVE  /\ Len(transfers) > CompletedTransfers + StuckTransfers
                    /\ transfers[CompletedTransfers + StuckTransfers + 1].from = w
                    /\ Gap(entries[w], n) \in {Incident(1), -Incident(1)}
  BY DEF GapsAreForgotten, Gap
<1>1. PICK f : f = Forgotten(transfers, w)
  OBVIOUS
<1>2. Gap(entries[w], n) \in {f, -f} /\ f # 0
  <2>1. Gap(entries[w], n) \in {0, f, -f}
    BY <1>1 DEF Chained, Chain
  <2> QED BY <2>1
<1>3. /\ Len(transfers) > Posted /\ transfers[Posted + 1].from = w
      /\ f = transfers[Posted + 1].amount
  BY <1>1, <1>2 DEF Forgotten
<1> QED BY <1>2, <1>3 DEF Posted, Incident

\* Where an entry does not go on from the one before it, the wallet is the sender
\* of the failed transfer, whose debit the script forgot, and the gap is its amount.
THEOREM GapsExplained == Spec => []GapsAreForgotten
<1>1. Init => Seeded /\ Chained
  BY InitSeeded, InitChained DEF Init
<1>2. Seeded /\ Chained /\ [Next]_vars => (Seeded /\ Chained)'
  BY NextSeeded, NextChained
<1> QED BY <1>1, <1>2, ChainedGaps, PTL DEF Spec

=============================================================================
