------------------------------- MODULE Amounts -------------------------------
(***************************************************************************)
(* Amounts of coins and tokens: big.Int counts of wei, and the big.Floats  *)
(* the program prints and parses (pkg/eth/token.go).  A big.Float holds    *)
(* Precision bits and rounds to the nearest, ties to even: 64 bits for the *)
(* floats of FromWei, 53 for an amount of the configuration file.          *)
(*                                                                         *)
(* A float is the fraction <<num, den>>, den a power of two.               *)
(***************************************************************************)
EXTENDS Integers

CONSTANTS
  Precision,     \* the bits of a big.Float
  Unit,          \* the wei of one coin (params.Ether)
  MaxExponent,   \* bound on the exponents of the floats
  MaxAmount      \* bound on the amounts of wei

\* Pow2[n] is 2 to the n: a function, so that its laws can be proved by induction.
Pow2[n \in Nat] == IF n = 0 THEN 1 ELSE 2 * Pow2[n - 1]

\* The exponents of a big.Float (32 bits) reach far beyond any amount of wei, and beyond
\* the last digit of the smallest one and of any ratio.
ASSUME AmountsAssumption ==
  /\ Precision \in Nat \ {0} /\ Unit \in Nat \ {0}
  /\ MaxExponent \in Nat /\ MaxAmount \in Nat
  /\ 2 * Pow2[Precision] * MaxAmount <= Pow2[MaxExponent]
  /\ 2 * Pow2[Precision] * Unit <= Pow2[MaxExponent]

Zero == <<0, 1>>

HalfEven(num, den) ==
  LET quo == num \div den
      rem == num % den
  IN IF 2 * rem > den \/ (2 * rem = den /\ quo % 2 = 1) THEN quo + 1 ELSE quo

\* 2^e = Up(e) / Down(e)
Up(e)   == IF e > 0 THEN Pow2[e] ELSE 1
Down(e) == IF e < 0 THEN Pow2[-e] ELSE 1

\* The float nearest to num / den: its mantissa m has Precision bits.
Round(num, den) ==
  IF num = 0 THEN Zero
  ELSE LET e == CHOOSE e \in (-MaxExponent) .. MaxExponent :
                  /\ Pow2[Precision - 1] * den * Up(e) <= num * Down(e)
                  /\ num * Down(e) < Pow2[Precision] * den * Up(e)
           m == HalfEven(num * Down(e), den * Up(e))
       IN <<m * Up(e), Down(e)>>

Quo(x, y) == Round(x[1] * y[2], x[2] * y[1])

Mul(x, y) == Round(x[1] * y[1], x[2] * y[2])

SetString(wei) == Round(wei, 1)

FromWei(wei, unit) == Quo(SetString(wei), <<unit, 1>>)

ToWeiTruncatesFirst(val, unit) == Mul(<<val[1] \div val[2], 1>>, <<unit, 1>>)[1]

\* The product is rounded to the precision of val, and cut at the decimal point.
\* (val is overwritten with it; the program does not use val again.)
ToWei(val, unit) ==
  LET valWei == Mul(val, <<unit, 1>>) IN valWei[1] \div valWei[2]

\* Quo of two zeros panics (ErrNaN), of another number and zero is infinite.
RatioPanics(amount0, amount1) == amount0 = 0 /\ amount1 = 0
RatioIsInf(amount0, amount1)  == amount0 # 0 /\ amount1 = 0

TokenRatio(amount0, amount1) == Quo(SetString(amount0), SetString(amount1))

-----------------------------------------------------------------------------
\* The spacing of the floats around an amount of wei, one wei at least.
Ulp(wei) ==
  CHOOSE u \in {Pow2[k] : k \in 0 .. MaxExponent} :
    /\ wei < Pow2[Precision] * u
    /\ u = 1 \/ wei >= Pow2[Precision - 1] * u
=============================================================================
