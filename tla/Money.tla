-------------------------------- MODULE Money --------------------------------
(***************************************************************************)
(* One wallet's balance as it is stored: Mongoose numbers are doubles,     *)
(* $inc adds them with rounding, and the filter { balance: { $gte } }      *)
(* compares the rounded values.  Amounts are decimals with a fraction      *)
(* (class-validator accepts anything from 0.01 to 2^53 - 1), here whole    *)
(* numbers of tenths; doubles have Bits bits instead of 53, and values are *)
(* kept in units of 1/One, fine enough for a tenth to keep all its bits.   *)
(* Exponents, infinities and signed zeros are out of reach of amounts.     *)
(***************************************************************************)
EXTENDS Integers

CONSTANTS
  Bits,      \* of a double's significand
  Tenths,    \* the amounts, in tenths
  MaxSteps   \* bound: movements

\* 2^k
Power[k \in Nat] == IF k = 0 THEN 1 ELSE 2 * Power[k - 1]

ASSUME MoneyAssumption ==
  /\ Bits \in Nat \ {0} /\ MaxSteps \in Nat
  /\ Tenths \subseteq 1 .. 10 * (Power[Bits] - 1)

VARIABLES
  stored,   \* the balance, as stored
  posted,   \* the exact sum of the amounts as the ledger stores them
  owed,     \* in tenths: what the client has paid in and not taken out
  peak,     \* history: the highest balance
  whole,    \* history: every amount was a whole number
  steps     \* movements made

moneyVars == <<stored, posted, owed, peak, whole, steps>>

One == Power[Bits + 3]

\* The distance of the doubles next to n / d, for what MaxSteps movements reach.
Ulp(n, d) ==
  CHOOSE u \in {Power[k] : k \in 0 .. Bits + 4 + 2 * MaxSteps} :
    n < d * u * Power[Bits] /\ (u = 1 \/ 2 * n >= d * u * Power[Bits])

\* n / d as a double: the nearest, of two the even one.
Round(n, d) ==
  LET step == d * Ulp(n, d)
      q == n \div step
      twice == 2 * (n % step)
      up == twice > step \/ (twice = step /\ q % 2 = 1)
  IN Ulp(n, d) * (IF up THEN q + 1 ELSE q)

\* Mutant: the amount is stored with half the bits, as a float is.
DoubleAsFloat(a) == LET step == 8 * Ulp(a * One, 10) IN (((a * One) \div 10) \div step) * step

\* A decimal of a request's JSON.
Double(a) == Round(a * One, 10)

Add(x, y) == Round(x + y, 1)
Subtract(x, y) == IF x >= y THEN Round(x - y, 1) ELSE -Round(y - x, 1)

MoneyInit ==
  /\ stored = 0 /\ posted = 0 /\ owed = 0 /\ peak = 0
  /\ whole = TRUE /\ steps = 0

Moved(a, after) ==
  /\ steps < MaxSteps
  /\ stored' = after
  /\ peak' = IF after > peak THEN after ELSE peak
  /\ whole' = (whole /\ a % 10 = 0)
  /\ steps' = steps + 1

\* Mutant: the callback of a retried transaction has incremented once before.
DepositTwice(a) ==
  /\ Moved(a, Add(Add(stored, Double(a)), Double(a)))
  /\ posted' = posted + Double(a) /\ owed' = owed + a

\* { $inc: { balance: amount } }
Deposit(a) ==
  /\ Moved(a, Add(stored, Double(a)))
  /\ posted' = posted + Double(a) /\ owed' = owed + a

\* Mutant: no filter.
WithdrawUnguarded(a) ==
  /\ Moved(a, Subtract(stored, Double(a)))
  /\ posted' = posted - Double(a) /\ owed' = owed - a

\* { balance: { $gte: amount } }, { $inc: { balance: -amount } }
Withdraw(a) ==
  /\ stored >= Double(a)
  /\ Moved(a, Subtract(stored, Double(a)))
  /\ posted' = posted - Double(a) /\ owed' = owed - a

MoneyNext == \E a \in Tenths : Deposit(a) \/ Withdraw(a)

\* MongoDB's $sum compensates: it rounds once.  computedBalance of reconcile.
Computed == Subtract(posted, 0)
InSync == Computed = stored

-----------------------------------------------------------------------------

Distance(x, y) == IF x >= y THEN x - y ELSE y - x

\* After n movements the balance is off by at most n units in the last place
\* of the highest balance there was.
Drift == steps * Ulp(peak, 1)

DriftBounded == Distance(10 * stored, owed * One) <= 10 * Drift

\* Rounding up never lets a client take out a tenth more than was paid in, as
\* long as the drift is less than a tenth.
NoMoneyMade == 10 * Drift < One => owed >= 0

\* Whole amounts are exact until the balance reaches 2^Bits, the bound of one
\* amount (@Max) and not of a balance; reconcile then says inSync.
WholeExact == whole /\ peak < One * Power[Bits] => 10 * stored = owed * One /\ InSync

=============================================================================
