--------------------------- MODULE DecodersProofs ---------------------------
(***************************************************************************)
(* What the filter, the report, the conversions and the configuration      *)
(* answer, for any addresses, providers, precision of the floats, amounts, *)
(* events of the token and entries of the file.                            *)
(***************************************************************************)
EXTENDS MCDecoders, TxFilterProofs, SequenceTheorems, WellFoundedInduction, FiniteSetTheorems

-----------------------------------------------------------------------------
(* The filter.                                                             *)

\* The filter panics on short call data of a transaction that it would accept
\* otherwise, and on nothing else.
LEMMA FilterPanics ==
  ASSUME NEW tx \in Transaction, NEW networkUp \in BOOLEAN,
         isTargetTransaction(tx, networkUp) = "panic"
  PROVE  /\ tx.to = RouterAddress /\ tx.data.method = "short"
         /\ tx.from \in LiquidityProviders \/ LiquidityProviders = {}
<1>1. AcceptsTo(tx) /\ AcceptsFrom(tx, networkUp) /\ CallDataPanics(tx)
  BY DecodersAssumption DEF isTargetTransaction, Panics
<1>2. tx.to = RouterAddress
  BY <1>1 DEF AcceptsTo, MempoolFilter, arrContains
<1>3. GetTxSender(tx, networkUp) = tx.from
  BY <1>1 DEF AcceptsFrom, GetTxSender
<1>. QED
  BY <1>1, <1>2, <1>3 DEF AcceptsFrom, CallDataPanics, MempoolFilter, arrContains

-----------------------------------------------------------------------------
(* The report.                                                             *)

\* The loop over the logs ends with the amounts of the last one, if that unpacks.
LEMMA LastSwapWins ==
  ASSUME NEW logs \in Seq(Seq(Nat)), logs # <<>>, UnpacksAsSwap(logs[Len(logs)])
  PROVE  SwapData(logs) = logs[Len(logs)]
<1>. DEFINE L(i) == UnpacksAsSwap(logs[i]) /\ \A j \in i + 1 .. Len(logs) : ~UnpacksAsSwap(logs[j])
<1>1. Len(logs) \in Nat /\ DOMAIN logs = 1 .. Len(logs) /\ Len(logs) > 0
  BY EmptySeq
<1>2. Len(logs) \in DOMAIN logs /\ L(Len(logs))
  BY <1>1
<1>3. \A i \in DOMAIN logs : L(i) => i = Len(logs)
  <2>. TAKE i \in DOMAIN logs
  <2>. HAVE L(i)
  <2>1. Len(logs) \notin i + 1 .. Len(logs)
    OBVIOUS
  <2>. QED BY <1>1, <2>1
<1>4. (CHOOSE i \in DOMAIN logs : L(i)) = Len(logs)
  BY <1>2, <1>3
<1>. QED
  BY <1>4 DEF SwapData

\* Whatever the token emits, the report of a mined purchase is of our own swap.
LEMMA ReportsOwnSwap ==
  ASSUME NEW value \in Nat \ {0}, NEW bought \in Nat \ {0}, NEW targetIsToken0 \in BOOLEAN,
         NEW ofToken \in Seq(Seq(Nat))
  PROVE  LET logs == SuccessLogs(value, bought, targetIsToken0, ofToken)
         IN /\ targetIsToken0 =>
                 ~ReportPanics(logs) /\ weiSpent(logs) = value /\ weiBought(logs) = bought
            /\ ~targetIsToken0 => ReportPanics(logs)
<1>. DEFINE head == <<<<value>>, <<value>>>>
            own  == OwnSwap(value, bought, targetIsToken0)
            tail == <<<<bought, value>>, own>>
            logs == SuccessLogs(value, bought, targetIsToken0, ofToken)
<1>1. own \in Seq(Nat) /\ Len(own) = 4
  BY DEF OwnSwap
<1>2. head \in Seq(Seq(Nat)) /\ tail \in Seq(Seq(Nat)) /\ Len(head) = 2 /\ Len(tail) = 2 /\ tail[2] = own
  BY <1>1
<1>3. head \o ofToken \in Seq(Seq(Nat)) /\ Len(head \o ofToken) \in Nat
  BY <1>2, ConcatProperties
<1>4. logs = (head \o ofToken) \o tail
  BY DEF SuccessLogs
<1>5. logs \in Seq(Seq(Nat)) /\ Len(logs) = Len(head \o ofToken) + 2 /\ logs[Len(logs)] = own
  <2>. HIDE DEF head, tail, own, logs
  <2>1. /\ (head \o ofToken) \o tail \in Seq(Seq(Nat))
        /\ Len((head \o ofToken) \o tail) = Len(head \o ofToken) + Len(tail)
        /\ \A i \in 1 .. Len(head \o ofToken) + Len(tail) :
             ((head \o ofToken) \o tail)[i] =
               IF i <= Len(head \o ofToken) THEN (head \o ofToken)[i]
               ELSE tail[i - Len(head \o ofToken)]
    BY <1>2, <1>3, ConcatProperties
  <2>. QED BY <1>2, <1>3, <1>4, <2>1
<1>6. UnpacksAsSwap(own) /\ Len(logs) \in DOMAIN logs /\ logs # <<>>
  BY <1>1, <1>3, <1>5 DEF UnpacksAsSwap, SwapInputs
<1>7. SwapData(logs) = own
  <2>. HIDE DEF logs, own
  <2>. QED BY <1>5, <1>6, LastSwapWins
<1>8. weiSpent(logs) = own[2] /\ weiBought(logs) = own[3]
  BY <1>7 DEF weiSpent, weiBought
<1>9. ReportPanics(logs) <=> (own[2] = 0 /\ own[3] = 0)
  <2>. HIDE DEF logs, own
  <2>. QED BY <1>5, <1>6, <1>8 DEF ReportPanics, RatioPanics
<1>. QED
  BY <1>8, <1>9 DEF OwnSwap

-----------------------------------------------------------------------------
(* Induction.  The induction theorems of the library take an operator; the *)
(* well-founded order of the finite sets gives the same for sets.          *)

\* A set of numbers has a least one.
LEMMA Least ==
  ASSUME NEW T, T \subseteq Nat, T # {}
  PROVE  \E x \in T : \A y \in T : x <= y
<1>. DEFINE R == StrictSubsetOrdering(Nat)
            S == {1 .. n : n \in T}
<1>1. S # {} /\ S \subseteq FiniteSubsetsOf(Nat)
  <2>1. S # {}
    OBVIOUS
  <2>2. S \subseteq FiniteSubsetsOf(Nat)
    BY FS_Interval DEF FiniteSubsetsOf
  <2>. QED BY <2>1, <2>2
<1>2. IsWellFoundedOn(R, FiniteSubsetsOf(Nat))
  BY FS_StrictSubsetOrderingWellFounded
<1>3. PICK I \in S : \A J \in S : <<J, I>> \notin R
  <2>. HIDE DEF R, S
  <2>. QED BY <1>1, <1>2, WFMin
<1>4. PICK x \in T : I = 1 .. x
  OBVIOUS
<1>5. ASSUME NEW y \in T, y < x
      PROVE  FALSE
  <2>1. 1 .. y \in SUBSET Nat /\ I \in SUBSET Nat /\ x \in I /\ x \notin 1 .. y
    BY <1>4, <1>5
  <2>2. 1 .. y \subseteq I
    BY <1>4, <1>5
  <2>3. <<1 .. y, I>> \in R
    BY <2>1, <2>2 DEF StrictSubsetOrdering
  <2>. QED BY <1>3, <2>3
<1>. QED BY <1>5

\* A set that holds 0 and the successor of each of its numbers holds them all.
LEMMA Induction ==
  ASSUME NEW T, 0 \in T, \A n \in Nat : n \in T => n + 1 \in T
  PROVE  Nat \subseteq T
<1>. SUFFICES ASSUME Nat \ T # {} PROVE FALSE
  OBVIOUS
<1>1. PICK n \in Nat \ T : \A m \in Nat \ T : n <= m
  BY Least
<1>2. n # 0 /\ n - 1 \in Nat /\ n - 1 \in T
  BY <1>1
<1>. QED BY <1>1, <1>2

-----------------------------------------------------------------------------
(* The powers of two.                                                      *)

\* The first n powers: the function that Pow2 continues.
PowersTo(f, n) == f \in [0 .. n -> Nat] /\ f[0] = 1 /\ \A i \in 1 .. n : f[i] = 2 * f[i - 1]

LEMMA PowersExist == \A n \in Nat : \E f : PowersTo(f, n)
<1>. DEFINE T == {n \in Nat : \E f : PowersTo(f, n)}
<1>1. 0 \in T
  <2>1. PowersTo([i \in 0 .. 0 |-> 1], 0)
    BY DEF PowersTo
  <2>. QED BY <2>1
<1>2. ASSUME NEW n \in Nat, n \in T
      PROVE  n + 1 \in T
  <2>1. PICK f : PowersTo(f, n)
    BY <1>2
  <2>. DEFINE g == [i \in 0 .. n + 1 |-> IF i = n + 1 THEN 2 * f[n] ELSE f[i]]
  <2>2. PowersTo(g, n + 1)
    BY <2>1 DEF PowersTo
  <2>. QED BY <2>2
<1>. QED BY <1>1, <1>2, Induction

LEMMA PowersAreUnique ==
  ASSUME NEW n \in Nat, NEW k \in Nat, NEW f, NEW g, PowersTo(f, n), PowersTo(g, k)
  PROVE  \A i \in Nat : i <= n /\ i <= k => f[i] = g[i]
<1>. DEFINE T == {i \in Nat : i <= n /\ i <= k => f[i] = g[i]}
<1>1. 0 \in T
  BY DEF PowersTo
<1>2. ASSUME NEW i \in Nat, i \in T
      PROVE  i + 1 \in T
  <2>. SUFFICES ASSUME i + 1 <= n, i + 1 <= k PROVE f[i + 1] = g[i + 1]
    OBVIOUS
  <2>1. f[i] = g[i] /\ i + 1 \in 1 .. n /\ i + 1 \in 1 .. k /\ (i + 1) - 1 = i
    BY <1>2
  <2>. QED BY <2>1 DEF PowersTo
<1>. QED BY <1>1, <1>2, Induction

\* Pow2 is the function its definition describes.
LEMMA Pow2Unfolds == Pow2 = [n \in Nat |-> IF n = 0 THEN 1 ELSE 2 * Pow2[n - 1]]
<1>. DEFINE P(n) == CHOOSE f : PowersTo(f, n)
            f == [n \in Nat |-> P(n)[n]]
<1>1. \A n \in Nat : PowersTo(P(n), n)
  BY PowersExist
<1>2. f = [n \in Nat |-> IF n = 0 THEN 1 ELSE 2 * f[n - 1]]
  <2>1. f[0] = 1
    BY <1>1 DEF PowersTo
  <2>2. ASSUME NEW n \in Nat \ {0}
        PROVE  f[n] = 2 * f[n - 1]
    <3>1. PowersTo(P(n), n) /\ PowersTo(P(n - 1), n - 1) /\ n - 1 \in Nat /\ n \in 1 .. n
      BY <1>1
    <3>. HIDE DEF P
    <3>2. P(n)[n] = 2 * P(n)[n - 1]
      BY <3>1 DEF PowersTo
    <3>3. P(n)[n - 1] = P(n - 1)[n - 1]
      BY <3>1, PowersAreUnique
    <3>. QED BY <3>1, <3>2, <3>3
  <2>. HIDE DEF P
  <2>3. \A n \in Nat : f[n] = IF n = 0 THEN 1 ELSE 2 * f[n - 1]
    BY <2>1, <2>2
  <2>. QED BY <2>3
<1>3. \E g : g = [n \in Nat |-> IF n = 0 THEN 1 ELSE 2 * g[n - 1]]
  BY <1>2
<1>. QED BY <1>3 DEF Pow2

LEMMA Pow2Steps == Pow2[0] = 1 /\ \A n \in Nat : Pow2[n + 1] = 2 * Pow2[n]
BY Pow2Unfolds

LEMMA Pow2Type == \A n \in Nat : Pow2[n] \in Nat \ {0}
<1>. DEFINE T == {n \in Nat : Pow2[n] \in Nat \ {0}}
<1>1. 0 \in T /\ \A n \in Nat : n \in T => n + 1 \in T
  BY Pow2Steps
<1>. QED BY <1>1, Induction

LEMMA Pow2Grows == \A i, j \in Nat : i <= j => Pow2[i] <= Pow2[j]
<1>. SUFFICES ASSUME NEW i \in Nat
     PROVE  \A j \in Nat : i <= j => Pow2[i] <= Pow2[j]
  OBVIOUS
<1>. DEFINE T == {k \in Nat : Pow2[i] <= Pow2[i + k]}
<1>1. 0 \in T
  BY Pow2Type
<1>2. ASSUME NEW k \in Nat, k \in T
      PROVE  k + 1 \in T
  <2>1. Pow2[(i + k) + 1] = 2 * Pow2[i + k] /\ (i + k) + 1 = i + (k + 1)
    BY Pow2Steps
  <2>. QED BY <1>2, <2>1, Pow2Type
<1>. HIDE DEF T
<1>3. Nat \subseteq T
  BY <1>1, <1>2, Induction
<1>4. ASSUME NEW j \in Nat, i <= j
      PROVE  Pow2[i] <= Pow2[j]
  <2>1. j - i \in Nat /\ i + (j - i) = j
    BY <1>4
  <2>2. Pow2[i] <= Pow2[i + (j - i)]
    BY <1>3, <2>1 DEF T
  <2>. QED BY <2>1, <2>2
<1>. QED BY <1>4

\* Of two powers the greater is at least twice the smaller.
LEMMA Pow2Gap ==
  ASSUME NEW i \in Nat, NEW j \in Nat, Pow2[i] < Pow2[j]
  PROVE  2 * Pow2[i] <= Pow2[j]
<1>1. i + 1 <= j
  <2>1. j <= i => Pow2[j] <= Pow2[i]
    BY Pow2Grows
  <2>. QED BY <2>1, Pow2Type
<1>2. Pow2[i + 1] <= Pow2[j]
  BY <1>1, Pow2Grows
<1>. QED BY <1>2, Pow2Steps

-----------------------------------------------------------------------------
(* Integers: products, quotients.                                          *)

LEMMA Increases ==
  ASSUME NEW a \in Int, NEW b \in Int, NEW c \in Nat \ {0}, a < b
  PROVE  a * c < b * c
OBVIOUS

LEMMA Cancel ==
  ASSUME NEW a \in Int, NEW b \in Int, NEW c \in Nat \ {0}
  PROVE  /\ a * c <= b * c <=> a <= b
         /\ a * c < b * c <=> a < b
         /\ a * c = b * c <=> a = b
<1>0. a * c \in Int /\ b * c \in Int
  OBVIOUS
<1>1. CASE a < b
  BY <1>0, <1>1, Increases
<1>2. CASE b < a
  <2>1. b * c < a * c
    BY <1>2, Increases
  <2>. QED BY <1>0, <1>2, <2>1
<1>3. CASE a = b
  BY <1>0, <1>3
<1>. QED BY <1>1, <1>2, <1>3

\* What is at least l times d and less than h + 1 times d has a quotient from l to h.
LEMMA QuotientBetween ==
  ASSUME NEW r \in Int, NEW d \in Nat \ {0}, NEW l \in Int, NEW h \in Int,
         l * d <= r, r < (h + 1) * d
  PROVE  r \div d \in l .. h
<1>. DEFINE q == r \div d
<1>1. q \in Int /\ q * d <= r /\ r < (q + 1) * d
  OBVIOUS
<1>2. l * d < (q + 1) * d /\ q * d < (h + 1) * d
  BY <1>1
<1>3. l < q + 1 /\ q < h + 1
  <2>. HIDE DEF q
  <2>. QED BY <1>1, <1>2, Cancel
<1>. QED BY <1>1, <1>3

\* HalfEven is at most one half away from the fraction.
LEMMA HalfEvenIsNearest ==
  ASSUME NEW num \in Nat, NEW den \in Nat \ {0}
  PROVE  /\ HalfEven(num, den) \in Nat
         /\ 2 * (HalfEven(num, den) * den - num) <= den
         /\ 2 * (num - HalfEven(num, den) * den) <= den
<1>. DEFINE q == num \div den
            r == num % den
            h == HalfEven(num, den)
<1>1. q \in Nat /\ r \in 0 .. den - 1 /\ num = q * den + r
  OBVIOUS
<1>2. (h = q /\ 2 * r <= den) \/ (h = q + 1 /\ 2 * r >= den)
  BY <1>1 DEF HalfEven
<1>. HIDE DEF q, r, h
<1>3. (q + 1) * den = q * den + den /\ q * den \in Int
  BY <1>1
<1>. DEFINE p == q * den
            s == h * den
<1>4. p \in Int /\ num = p + r
  BY <1>1
<1>5. CASE h = q /\ 2 * r <= den
  <2>1. s = p /\ h \in Nat
    BY <1>1, <1>5
  <2>. HIDE DEF p, s
  <2>2. h \in Nat /\ 2 * (s - num) <= den /\ 2 * (num - s) <= den
    BY <1>1, <1>4, <1>5, <2>1
  <2>. QED BY <2>2 DEF s, h
<1>6. CASE h = q + 1 /\ 2 * r >= den
  <2>1. s = p + den /\ h \in Nat
    BY <1>1, <1>3, <1>6
  <2>. HIDE DEF p, s
  <2>2. h \in Nat /\ 2 * (s - num) <= den /\ 2 * (num - s) <= den
    BY <1>1, <1>4, <1>6, <2>1
  <2>. QED BY <2>2 DEF s, h
<1>. QED BY <1>2, <1>5, <1>6

-----------------------------------------------------------------------------
(* Rounding.                                                               *)

\* The bounds of a mantissa, and the factor that the greatest exponent gives.
High == Pow2[Precision]
Low  == Pow2[Precision - 1]
Top  == Pow2[MaxExponent]

LEMMA Bits ==
  /\ High \in Nat \ {0} /\ Low \in Nat \ {0} /\ Top \in Nat \ {0} /\ High = 2 * Low
<1>1. Precision - 1 \in Nat /\ (Precision - 1) + 1 = Precision
  BY AmountsAssumption
<1>2. Pow2[(Precision - 1) + 1] = 2 * Pow2[Precision - 1]
  BY <1>1, Pow2Steps
<1>. QED BY <1>1, <1>2, Pow2Type, AmountsAssumption DEF High, Low, Top

LEMMA AmountsFit ==
  MaxAmount \in Nat /\ 4 * MaxAmount <= Top /\ 2 * (High * MaxAmount) <= Top
<1>1. MaxAmount \in Nat /\ 2 * High * MaxAmount <= Top
  BY AmountsAssumption DEF High, Top
<1>2. 2 * MaxAmount <= High * MaxAmount /\ High * MaxAmount \in Nat
  BY <1>1, Bits
<1>3. 2 * High * MaxAmount = 2 * (High * MaxAmount)
  BY <1>1, Bits
<1>. QED BY <1>1, <1>2, <1>3, Bits

\* The fractions that the exponents of the model reach.
Reached(num, den) == num < High * den * Top /\ Low * den <= num * Top

Exponents == (-MaxExponent) .. MaxExponent

\* num / den is above, and below, a float of exponent e.
Above(num, den, e) == Low * den * Up(e) <= num * Down(e)
Below(num, den, e) == num * Down(e) < High * den * Up(e)

LEMMA UpAndDown ==
  ASSUME NEW e \in Int
  PROVE  /\ Up(e) \in Nat \ {0} /\ Down(e) \in Nat \ {0}
         /\ e >= 1 => Up(e) = 2 * Up(e - 1) /\ Down(e) = 1 /\ Down(e - 1) = 1
         /\ e <= 0 => Down(e - 1) = 2 * Down(e) /\ Up(e) = 1 /\ Up(e - 1) = 1
<1>1. Up(e) \in Nat \ {0} /\ Down(e) \in Nat \ {0}
  BY Pow2Type DEF Up, Down
<1>2. ASSUME e >= 1
      PROVE  Up(e) = 2 * Up(e - 1) /\ Down(e) = 1 /\ Down(e - 1) = 1
  <2>1. e - 1 \in Nat /\ (e - 1) + 1 = e
    BY <1>2
  <2>2. Pow2[(e - 1) + 1] = 2 * Pow2[e - 1] /\ Pow2[0] = 1
    BY <2>1, Pow2Steps
  <2>. QED BY <1>2, <2>1, <2>2 DEF Up, Down
<1>3. ASSUME e <= 0
      PROVE  Down(e - 1) = 2 * Down(e) /\ Up(e) = 1 /\ Up(e - 1) = 1
  <2>1. -e \in Nat /\ (-e) + 1 = -(e - 1)
    BY <1>3
  <2>2. Pow2[(-e) + 1] = 2 * Pow2[-e] /\ Pow2[0] = 1
    BY <2>1, Pow2Steps
  <2>. QED BY <1>3, <2>1, <2>2 DEF Up, Down
<1>. QED BY <1>1, <1>2, <1>3

\* The least exponent that is not too small is not too great either.
LEMMA ExponentExists ==
  ASSUME NEW num \in Nat \ {0}, NEW den \in Nat \ {0}, Reached(num, den)
  PROVE  \E e \in Exponents : Above(num, den, e) /\ Below(num, den, e)
<1>. DEFINE M == MaxExponent
            T == {k \in Nat : k - M \in Exponents /\ Below(num, den, k - M)}
<1>0. M \in Nat
  BY AmountsAssumption
<1>1. Up(M) = Top /\ Down(M) = 1 /\ Up(-M) = 1 /\ Down(-M) = Top
  BY <1>0, Pow2Steps DEF Up, Down, Top
<1>2. 2 * M \in T
  <2>1. Below(num, den, M)
    BY <1>1 DEF Reached, Below
  <2>. QED BY <1>0, <2>1 DEF Exponents
<1>3. PICK k \in T : \A y \in T : k <= y
  <2>. HIDE DEF T
  <2>1. T \subseteq Nat
    BY DEF T
  <2>. QED BY <1>2, <2>1, Least
<1>. DEFINE e == k - M
<1>4. e \in Exponents /\ Below(num, den, e) /\ e \in Int
  BY <1>0, <1>3
<1>5. Above(num, den, e)
  <2>1. CASE e = -M
    BY <1>1, <2>1, Bits DEF Reached, Above
  <2>2. CASE e # -M
    <3>1. k - 1 \in Nat /\ (k - 1) - M = e - 1 /\ e - 1 \in Exponents
      BY <1>0, <1>4, <2>2, <1>3 DEF Exponents
    <3>2. ~Below(num, den, e - 1)
      BY <1>3, <3>1
    <3>. HIDE DEF e
    <3>. DEFINE a == num * Down(e - 1)
                b == High * den * Up(e - 1)
    <3>3. /\ Up(e) \in Nat \ {0} /\ Down(e) \in Nat \ {0}
          /\ Up(e - 1) \in Nat \ {0} /\ Down(e - 1) \in Nat \ {0}
      BY <1>4, UpAndDown
    <3>4. b <= a
      BY <3>2, <3>3, Bits DEF Below
    <3>5. CASE e >= 1
      <4>1. a = num * Down(e) /\ b = Low * den * Up(e)
        BY <1>4, <3>3, <3>5, UpAndDown, Bits
      <4>. QED BY <3>4, <4>1 DEF Above
    <3>6. CASE e <= 0
      <4>1. a = 2 * (num * Down(e)) /\ b = 2 * (Low * den * Up(e))
        BY <1>4, <3>3, <3>6, UpAndDown, Bits
      <4>2. num * Down(e) \in Int /\ Low * den * Up(e) \in Int
        BY <3>3, Bits
      <4>. QED BY <3>4, <4>1, <4>2 DEF Above
    <3>. QED BY <1>4, <3>5, <3>6
  <2>. QED BY <2>1, <2>2
<1>. QED BY <1>4, <1>5

\* The two halves of a power of two, one of them 1.
Scale(up, down) ==
  \/ down = 1 /\ \E i \in Nat : up = Pow2[i]
  \/ up = 1 /\ \E i \in Nat : down = Pow2[i]

\* The float <<m * up, down>> is the one nearest to num / den.
Nearest(num, den, m, up, down) ==
  /\ Scale(up, down)
  /\ Low * den * up <= num * down /\ num * down < High * den * up
  /\ m = HalfEven(num * down, den * up)

LEMMA RoundIsNearest ==
  ASSUME NEW num \in Nat \ {0}, NEW den \in Nat \ {0}, Reached(num, den)
  PROVE  \E up, down \in Nat \ {0}, m \in Nat :
           Nearest(num, den, m, up, down) /\ Round(num, den) = <<m * up, down>>
<1>. DEFINE e == CHOOSE e \in Exponents : Above(num, den, e) /\ Below(num, den, e)
            m == HalfEven(num * Down(e), den * Up(e))
<1>1. e \in Exponents /\ Above(num, den, e) /\ Below(num, den, e) /\ e \in Int
  BY ExponentExists, AmountsAssumption DEF Exponents
<1>2. Round(num, den) = <<m * Up(e), Down(e)>>
  BY DEF Round, Exponents, Above, Below, High, Low
<1>. HIDE DEF e
<1>3. Up(e) \in Nat \ {0} /\ Down(e) \in Nat \ {0}
  BY <1>1, UpAndDown
<1>4. num * Down(e) \in Nat /\ den * Up(e) \in Nat \ {0}
  BY <1>3
<1>5. m \in Nat
  BY <1>4, HalfEvenIsNearest
<1>6. Scale(Up(e), Down(e))
  <2>1. 0 \in Nat /\ (e > 0 => e \in Nat) /\ (e < 0 => -e \in Nat)
    BY <1>1
  <2>. QED BY <1>1, <2>1, Pow2Steps DEF Scale, Up, Down
<1>. QED
  BY <1>1, <1>2, <1>3, <1>5, <1>6 DEF Nearest, Above, Below

\* What Nearest says of the numerator a and the denominator b of its mantissa.
LEMMA Mantissa ==
  ASSUME NEW num \in Nat \ {0}, NEW den \in Nat \ {0}, NEW m \in Nat,
         NEW up \in Nat \ {0}, NEW down \in Nat \ {0}, Nearest(num, den, m, up, down)
  PROVE  LET a == num * down
             b == den * up
         IN /\ a \in Nat \ {0} /\ b \in Nat \ {0}
            /\ Low * b <= a /\ a < High * b
            /\ 2 * (m * b - a) <= b /\ 2 * (a - m * b) <= b
            /\ Low <= m /\ m <= High
<1>. DEFINE a == num * down
            b == den * up
<1>1. a \in Nat \ {0} /\ b \in Nat \ {0} /\ m * b \in Int
  OBVIOUS
<1>2. Low * b <= a /\ a < High * b
  BY Bits DEF Nearest
<1>3. 2 * (m * b - a) <= b /\ 2 * (a - m * b) <= b
  <2>1. m = HalfEven(a, b)
    BY DEF Nearest
  <2>. HIDE DEF a, b
  <2>. QED BY <1>1, <2>1, HalfEvenIsNearest
<1>. HIDE DEF a, b
<1>4. Low * b \in Int /\ High * b \in Int /\ (m + 1) * b = m * b + b /\ (High + 1) * b = High * b + b
  BY <1>1, Bits
<1>5. Low * b < (m + 1) * b /\ m * b < (High + 1) * b
  BY <1>1, <1>2, <1>3, <1>4
<1>6. Low < m + 1 /\ m < High + 1
  BY <1>1, <1>5, Bits, Cancel
<1>7. Low <= m /\ m <= High
  BY <1>6, Bits
<1>. QED BY <1>1, <1>2, <1>3, <1>7 DEF a, b

\* The spacing up / down compared to a power of two u.
LEMMA Spacing ==
  ASSUME NEW up \in Nat \ {0}, NEW down \in Nat \ {0}, Scale(up, down),
         NEW k \in Nat, NEW u, u = Pow2[k]
  PROVE  /\ up < 2 * (u * down) => up <= u * down
         /\ u * down < up => down = 1 /\ 2 * u <= up
         /\ u * down < up /\ up < 4 * (u * down) => up = 2 * u
<1>1. u \in Nat \ {0} /\ u * down \in Nat \ {0}
  BY Pow2Type
<1>2. CASE down = 1
  <2>1. PICK i \in Nat : up = Pow2[i]
    BY <1>2, Pow2Steps DEF Scale
  <2>2. u < up => 2 * u <= up
    BY <2>1, Pow2Gap
  <2>3. 2 * u = Pow2[k + 1] /\ k + 1 \in Nat
    BY Pow2Steps
  <2>4. 2 * u < up => 2 * (2 * u) <= up
    BY <2>1, <2>3, Pow2Gap
  <2>5. u * down = u
    BY <1>1, <1>2
  <2>. QED BY <1>1, <1>2, <2>2, <2>4, <2>5
<1>3. CASE down # 1
  <2>1. up = 1
    BY <1>3 DEF Scale
  <2>. QED BY <1>1, <2>1
<1>. QED BY <1>2, <1>3

\* u is the spacing of the floats around x, one at least.
IsUlp(u, x) ==
  /\ \E k \in Nat : u = Pow2[k]
  /\ x < High * u
  /\ u = 1 \/ x >= Low * u

LEMMA UlpIsSpacing ==
  ASSUME NEW x \in 0 .. MaxAmount
  PROVE  Ulp(x) \in Nat \ {0} /\ IsUlp(Ulp(x), x)
<1>. DEFINE Powers == {Pow2[k] : k \in 0 .. MaxExponent}
            T == {k \in 0 .. MaxExponent : x < High * Pow2[k]}
<1>0. MaxExponent \in Nat /\ x \in Nat
  BY AmountsAssumption
<1>1. MaxExponent \in T
  <2>1. x <= MaxAmount /\ 4 * MaxAmount <= Top /\ MaxAmount \in Nat
    BY AmountsFit
  <2>2. x < Top
    BY <1>0, <2>1, Bits
  <2>3. Top <= High * Top
    BY Bits
  <2>4. x < High * Top
    BY <1>0, <2>2, <2>3, Bits
  <2>. QED BY <1>0, <2>4 DEF Top
<1>2. PICK k \in T : \A y \in T : k <= y
  <2>. HIDE DEF T
  <2>1. T \subseteq Nat
    BY DEF T
  <2>. QED BY <1>1, <2>1, Least
<1>3. Pow2[k] = 1 \/ x >= Low * Pow2[k]
  <2>1. CASE k = 0
    BY <2>1, Pow2Steps
  <2>2. CASE k # 0
    <3>1. k - 1 \in 0 .. MaxExponent /\ k - 1 \in Nat /\ (k - 1) + 1 = k
      <4>1. k \in 0 .. MaxExponent
        BY <1>2
      <4>. QED BY <1>0, <2>2, <4>1
    <3>2. k - 1 \notin T
      BY <1>2, <3>1
    <3>3. High * Pow2[k - 1] <= x
      BY <1>0, <3>1, <3>2, Pow2Type, Bits
    <3>4. Pow2[(k - 1) + 1] = 2 * Pow2[k - 1]
      BY <3>1, Pow2Steps
    <3>5. High * Pow2[k - 1] = Low * Pow2[k]
      BY <3>1, <3>4, Pow2Type, Bits
    <3>. QED BY <3>3, <3>5
  <2>. QED BY <2>1, <2>2
<1>4. \E u \in Powers : x < High * u /\ (u = 1 \/ x >= Low * u)
  BY <1>2, <1>3
<1>5. Ulp(x) \in Powers /\ x < High * Ulp(x) /\ (Ulp(x) = 1 \/ x >= Low * Ulp(x))
  <2>. HIDE DEF Powers
  <2>1. Ulp(x) = CHOOSE u \in Powers : x < High * u /\ (u = 1 \/ x >= Low * u)
    BY DEF Ulp, Powers, High, Low
  <2>. QED BY <1>4, <2>1
<1>6. PICK i \in 0 .. MaxExponent : Ulp(x) = Pow2[i]
  BY <1>5
<1>7. i \in Nat
  OBVIOUS
<1>. QED BY <1>5, <1>6, <1>7, Pow2Type DEF IsUlp

-----------------------------------------------------------------------------
(* An amount x of wei as a float w, as a fraction of a coin, and as wei    *)
(* again.  u is the spacing around x.                                      *)

\* w is x, to within half a unit of the last place.
ReadAs(w, x, u) ==
  /\ 2 * (w - x) <= u /\ 2 * (x - w) <= u
  /\ u = 1 => w = x
  /\ w <= High * u

LEMMA ReadIn ==
  ASSUME NEW x \in 1 .. MaxAmount, NEW u \in Nat \ {0}, IsUlp(u, x)
  PROVE  \E w, k \in Nat \ {0} : SetString(x) = <<w * k, k>> /\ ReadAs(w, x, u)
<1>0. x \in Nat \ {0}
  BY AmountsAssumption
<1>1. Reached(x, 1)
  <2>1. x <= MaxAmount /\ 4 * MaxAmount <= Top /\ MaxAmount \in Nat
    BY AmountsFit
  <2>2. x < Top /\ Top <= High * Top /\ Top <= x * Top
    BY <1>0, <2>1, Bits
  <2>3. Low <= Top
    <3>1. 2 * High * Unit <= Top /\ Unit \in Nat \ {0}
      BY AmountsAssumption DEF High, Top
    <3>2. 2 * High <= 2 * High * Unit
      BY <3>1, Bits
    <3>. QED BY <3>1, <3>2, Bits
  <2>4. High * Top \in Nat /\ x * Top \in Nat /\ High * 1 * Top = High * Top /\ Low * 1 = Low
    BY <1>0, Bits
  <2>. QED BY <1>0, <2>2, <2>3, <2>4, Bits DEF Reached
<1>2. PICK up, down \in Nat \ {0}, m \in Nat :
        Nearest(x, 1, m, up, down) /\ SetString(x) = <<m * up, down>>
  BY <1>0, <1>1, RoundIsNearest DEF SetString
<1>3. PICK i \in Nat : u = Pow2[i]
  BY DEF IsUlp
<1>. DEFINE a == x * down
            b == 1 * up
<1>4. /\ a \in Nat \ {0} /\ b = up
      /\ Low * up <= a /\ a < High * up
      /\ 2 * (m * up - a) <= up /\ 2 * (a - m * up) <= up
      /\ Low <= m /\ m <= High
  BY <1>0, <1>2, Mantissa
<1>5. Scale(up, down)
  BY <1>2 DEF Nearest
<1>6. x < High * u /\ (u = 1 \/ Low * u <= x)
  BY <1>0, Bits DEF IsUlp
<1>7. CASE x < High
  <2>1. u = 1
    <3>1. CASE u # 1
      <4>1. Low * u <= x /\ Low * 2 <= Low * u
        BY <1>6, <3>1, Bits
      <4>. QED BY <1>0, <1>7, <4>1, Bits
    <3>. QED BY <3>1
  <2>2. up = 1
    <3>1. CASE down = 1
      <4>1. Low * up < Low * 2
        BY <1>0, <1>4, <1>7, <3>1, Bits
      <4>. QED BY <4>1, Bits
    <3>. QED BY <1>5, <3>1 DEF Scale
  <2>3. m = a
    <3>. HIDE DEF a
    <3>. QED BY <1>4, <2>2
  <2>4. SetString(x) = <<x * down, down>> /\ ReadAs(x, x, u)
    BY <1>0, <1>2, <1>7, <2>1, <2>2, <2>3, Bits DEF ReadAs
  <2>. QED BY <1>0, <2>4
<1>8. CASE High <= x
  <2>1. u # 1
    BY <1>0, <1>6, <1>8, Bits
  <2>2. down < up
    <3>1. High * down <= a
      BY <1>0, <1>8, Bits
    <3>2. down * High < up * High
      BY <1>4, <3>1, Bits
    <3>. QED BY <3>2, Bits, Cancel
  <2>3. down = 1
    BY <1>5, <2>2 DEF Scale
  <2>4. a = x
    BY <1>0, <2>3
  <2>5. PICK j \in Nat : up = Pow2[j]
    BY <1>5, <2>3, Pow2Steps DEF Scale
  <2>6. Low * u < Low * (2 * up) /\ Low * up < Low * (2 * u)
    BY <1>0, <1>4, <1>6, <2>1, <2>4, Bits
  <2>7. u < 2 * up /\ up < 2 * u
    BY <2>6, Bits, Cancel
  <2>8. up = u
    BY <1>3, <2>5, <2>7, Pow2Gap
  <2>. DEFINE w == m * u
  <2>9. w \in Nat \ {0} /\ w <= High * u
    BY <1>4, Bits
  <2>10. 2 * (w - x) <= u /\ 2 * (x - w) <= u
    BY <1>4, <2>4, <2>8
  <2>11. SetString(x) = <<w * 1, 1>>
    BY <1>2, <2>3, <2>8
  <2>. QED BY <2>1, <2>9, <2>10, <2>11 DEF ReadAs
<1>. QED BY <1>0, <1>7, <1>8, Bits

\* z = zn / zd is w, to within one part in High, which it does not reach.
CloseTo(zn, zd, w) ==
  \/ zn = w * zd
  \/ High * (zn - w * zd) < w * zd /\ High * (w * zd - zn) < w * zd

\* The quotient q of w and unit, times unit, is close to w.
LEMMA DividedIsClose ==
  ASSUME NEW w \in Nat \ {0}, NEW k \in Nat \ {0}, NEW unit \in Nat \ {0},
         Reached(w * k, k * unit)
  PROVE  \E n \in Nat, zd \in Nat \ {0} :
           /\ Round(w * k, k * unit) = <<n, zd>>
           /\ n * unit \in Nat \ {0} /\ CloseTo(n * unit, zd, w)
<1>. DEFINE num == w * k
            den == k * unit
<1>1. num \in Nat \ {0} /\ den \in Nat \ {0} /\ Reached(num, den)
  OBVIOUS
<1>2. PICK up, down \in Nat \ {0}, m \in Nat :
        Nearest(num, den, m, up, down) /\ Round(num, den) = <<m * up, down>>
  <2>. HIDE DEF num, den
  <2>. QED BY <1>1, RoundIsNearest
<1>. DEFINE a == num * down
            b == den * up
<1>3. /\ a \in Nat \ {0} /\ b \in Nat \ {0}
      /\ Low * b <= a /\ a < High * b
      /\ 2 * (m * b - a) <= b /\ 2 * (a - m * b) <= b
      /\ Low <= m /\ m <= High
  <2>. HIDE DEF num, den
  <2>. QED BY <1>1, <1>2, Mantissa
<1>. DEFINE n == m * up
            zn == n * unit
            wd == w * down
<1>4. n \in Nat \ {0} /\ zn \in Nat \ {0} /\ wd \in Nat \ {0}
  BY <1>3, Bits
<1>5. a = wd * k /\ m * b = zn * k
  OBVIOUS
<1>6. zn = wd \/ (High * (zn - wd) < wd /\ High * (wd - zn) < wd)
  <2>. HIDE DEF num, den, a, b, n, zn, wd
  <2>1. m * b \in Int /\ Low * b \in Int
    BY <1>3, Bits
  <2>2. CASE Low * b = a
    <3>1. (Low + 1) * b = a + b
      BY <1>3, <2>2, Bits
    <3>2. m * b < (Low + 1) * b
      BY <1>3, <2>1, <3>1
    <3>3. m < Low + 1
      BY <1>3, <3>2, Bits, Cancel
    <3>4. m = Low
      BY <1>3, <3>3, Bits
    <3>5. zn * k = wd * k
      BY <1>5, <2>2, <3>4
    <3>. QED BY <1>4, <3>5, Cancel
  <2>3. CASE Low * b < a
    <3>. DEFINE c == m * b - a
    <3>1. c \in Int /\ 2 * c <= b /\ 2 * (-c) <= b
      BY <1>3, <2>1
    <3>. DEFINE f == zn - wd
    <3>2. f \in Int /\ c = f * k
      BY <1>4, <1>5
    <3>. HIDE DEF c, f
    <3>3. Low * (2 * c) <= Low * b /\ Low * (2 * (-c)) <= Low * b
      BY <1>3, <3>1, Bits
    <3>4. Low * (2 * c) = (High * f) * k /\ Low * (2 * (-c)) = (High * (-f)) * k
      BY <3>1, <3>2, Bits
    <3>5. (High * f) * k < wd * k /\ (High * (-f)) * k < wd * k
      BY <1>3, <1>4, <1>5, <2>1, <2>3, <3>2, <3>3, <3>4, Bits
    <3>6. High * f \in Int /\ High * (-f) \in Int
      BY <3>2, Bits
    <3>7. High * f < wd /\ High * (-f) < wd
      BY <1>4, <3>5, <3>6, Cancel
    <3>8. -f = wd - zn
      BY <1>4 DEF f
    <3>. QED BY <3>7, <3>8 DEF f
  <2>. QED BY <1>3, <2>1, <2>2, <2>3
<1>. QED BY <1>2, <1>4, <1>6 DEF CloseTo

\* The spacing around an amount is no more than the amount, and the float is small
\* enough for the exponents.
LEMMA ReadIsSmall ==
  ASSUME NEW x \in 1 .. MaxAmount, NEW u \in Nat \ {0}, IsUlp(u, x),
         NEW w \in Nat \ {0}, ReadAs(w, x, u)
  PROVE  2 * w < Top
<1>1. x \in Nat \ {0} /\ 4 * x <= Top /\ Top \in Nat
  <2>1. x <= MaxAmount /\ 4 * MaxAmount <= Top /\ MaxAmount \in Nat
    BY AmountsFit
  <2>. QED BY <2>1, Bits
<1>2. u <= x
  <2>1. u <= Low * u
    BY Bits
  <2>2. Low * u \in Int
    BY Bits
  <2>. QED BY <1>1, <2>1, <2>2 DEF IsUlp
<1>. QED BY <1>1, <1>2 DEF ReadAs

\* In the units of x the float is within one part in High of it.
LEMMA ReadIsClose ==
  ASSUME NEW x \in 1 .. MaxAmount, NEW u \in Nat \ {0}, IsUlp(u, x),
         NEW w \in Nat \ {0}, ReadAs(w, x, u)
  PROVE  High * (w - x) <= x /\ High * (x - w) <= x
<1>0. x \in Nat \ {0}
  BY AmountsFit
<1>1. CASE u = 1
  BY <1>0, <1>1, Bits DEF ReadAs
<1>2. CASE Low * u <= x
  <2>1. (2 * (w - x)) * Low <= u * Low /\ (2 * (x - w)) * Low <= u * Low
    BY <1>0, Bits, Cancel DEF ReadAs
  <2>2. /\ (2 * (w - x)) * Low = High * (w - x) /\ (2 * (x - w)) * Low = High * (x - w)
        /\ u * Low = Low * u /\ Low * u \in Int
        /\ High * (w - x) \in Int /\ High * (x - w) \in Int
    BY <1>0, Bits
  <2>. QED BY <1>0, <1>2, <2>1, <2>2
<1>. QED BY <1>0, <1>1, <1>2, Bits DEF IsUlp

LEMMA QuotientIsReached ==
  ASSUME NEW w \in Nat \ {0}, NEW k \in Nat \ {0}, 2 * w < Top
  PROVE  Reached(w * k, k * Unit)
<1>1. Unit \in Nat \ {0} /\ 2 * High * Unit <= Top
  BY AmountsAssumption DEF High, Top
<1>2. w * k < High * (k * Unit) * Top
  <2>1. w * k < Top * k
    BY Bits, Cancel
  <2>2. Top * k <= (High * Unit) * (Top * k)
    <3>1. High * Unit \in Nat \ {0} /\ Top * k \in Nat \ {0}
      BY <1>1, Bits
    <3>. DEFINE p == High * Unit  t == Top * k
    <3>. HIDE DEF p, t
    <3>2. t <= p * t
      BY <3>1 DEF p, t
    <3>. QED BY <3>2 DEF p, t
  <2>3. (High * Unit) * (Top * k) = High * (k * Unit) * Top
    BY <1>1, Bits
  <2>4. w * k \in Nat /\ Top * k \in Nat /\ High * (k * Unit) * Top \in Nat
    BY <1>1, Bits
  <2>. QED BY <2>1, <2>2, <2>3, <2>4
<1>3. Low * (k * Unit) <= (w * k) * Top
  <2>1. Low * Unit \in Nat /\ 2 * High * Unit = 4 * (Low * Unit)
    BY <1>1, Bits
  <2>2. Low * Unit <= Top
    BY <1>1, <2>1, Bits
  <2>3. (Low * Unit) * k <= Top * k
    BY <2>1, <2>2, Bits, Cancel
  <2>4. Top * k \in Nat \ {0} /\ (w * k) * Top = w * (Top * k) /\ Low * (k * Unit) = (Low * Unit) * k
    BY <1>1, Bits
  <2>. DEFINE t == Top * k
  <2>5. t <= w * t
    <3>. HIDE DEF t
    <3>. QED BY <2>4 DEF t
  <2>6. (Low * Unit) * k \in Int /\ w * t \in Int
    BY <2>1, <2>4
  <2>. QED BY <2>3, <2>4, <2>5, <2>6
<1>. QED BY <1>2, <1>3 DEF Reached

LEMMA CloseIsReached ==
  ASSUME NEW w \in Nat \ {0}, 2 * w < Top,
         NEW zn \in Nat \ {0}, NEW zd \in Nat \ {0}, CloseTo(zn, zd, w)
  PROVE  Reached(zn, zd)
<1>. DEFINE wd == w * zd
<1>1. wd \in Nat \ {0} /\ zd <= wd
  OBVIOUS
<1>2. zn <= 2 * wd /\ wd <= 2 * zn
  <2>. DEFINE f == zn - wd
  <2>1. f \in Int
    BY <1>1
  <2>2. f = 0 \/ (High * f < wd /\ High * (-f) < wd)
    <3>1. -f = wd - zn
      BY <1>1
    <3>. QED BY <1>1, <3>1 DEF CloseTo
  <2>. HIDE DEF f, wd
  <2>3. (f >= 0 => 2 * f <= High * f) /\ (f <= 0 => 2 * (-f) <= High * (-f))
    BY <2>1, Bits
  <2>4. High * f \in Int /\ High * (-f) \in Int
    BY <2>1, Bits
  <2>5. 2 * f <= wd /\ 2 * (-f) <= wd
    BY <1>1, <2>1, <2>2, <2>3, <2>4
  <2>. QED BY <1>1, <2>5 DEF f
<1>3. zn < High * zd * Top
  <2>1. (2 * w) * zd < Top * zd /\ (2 * w) * zd = 2 * wd
    BY Bits, Cancel
  <2>2. Top * zd \in Nat \ {0} /\ High * zd * Top = High * (Top * zd)
    BY Bits
  <2>3. Top * zd <= High * (Top * zd)
    <3>. DEFINE t == Top * zd
    <3>. HIDE DEF t
    <3>1. t <= High * t
      BY <2>2, Bits DEF t
    <3>. QED BY <3>1 DEF t
  <2>4. High * (Top * zd) \in Int
    BY <2>2, Bits
  <2>. QED BY <1>1, <1>2, <2>1, <2>2, <2>3, <2>4
<1>4. Low * zd <= zn * Top
  <2>1. zd <= 2 * zn
    BY <1>1, <1>2
  <2>2. zd * Low <= (2 * zn) * Low
    BY <2>1, Bits, Cancel
  <2>3. (2 * zn) * Low = High * zn
    BY Bits
  <2>4. High <= Top
    <3>1. 2 * High * Unit <= Top /\ Unit \in Nat \ {0}
      BY AmountsAssumption DEF High, Top
    <3>. QED BY <3>1, Bits
  <2>5. High * zn <= Top * zn
    BY <2>4, Bits, Cancel
  <2>6. zd * Low = Low * zd /\ Top * zn = zn * Top /\ zd * Low \in Int /\ High * zn \in Int /\ Top * zn \in Int
    BY Bits
  <2>. QED BY <2>2, <2>3, <2>5, <2>6
<1>. QED BY <1>3, <1>4 DEF Reached

\* The last rounding: zn / zd, close to w, comes back as an amount near x.
LEMMA ComesBack ==
  ASSUME NEW x \in 1 .. MaxAmount, NEW u \in Nat \ {0}, IsUlp(u, x),
         NEW w \in Nat \ {0}, ReadAs(w, x, u),
         NEW zn \in Nat \ {0}, NEW zd \in Nat \ {0}, CloseTo(zn, zd, w)
  PROVE  LET back == Round(zn, zd)[1] \div Round(zn, zd)[2]
         IN /\ back \in x - 2 * u .. x + 2 * u
            /\ x < Low => back \in {x - 1, x}
<1>0. x \in Nat \ {0}
  BY AmountsAssumption
<1>1. Reached(zn, zd)
  BY ReadIsSmall, CloseIsReached
<1>2. PICK up, down \in Nat \ {0}, m \in Nat :
        Nearest(zn, zd, m, up, down) /\ Round(zn, zd) = <<m * up, down>>
  BY <1>1, RoundIsNearest
<1>3. PICK k \in Nat : u = Pow2[k]
  BY DEF IsUlp
<1>4. Scale(up, down)
  BY <1>2 DEF Nearest
\* Everything in units of 1 / (zd * down): the amount, its float, the fraction, the
\* spacing around the amount and the spacing of the result.
<1>. DEFINE xz == x * (zd * down)
            wz == w * (zd * down)
            a  == zn * down
            g  == u * (zd * down)
            b  == zd * up
            r  == m * up
<1>5. /\ a \in Nat \ {0} /\ b \in Nat \ {0}
      /\ Low * b <= a /\ a < High * b
      /\ 2 * (m * b - a) <= b /\ 2 * (a - m * b) <= b
      /\ Low <= m /\ m <= High
  BY <1>2, Mantissa
<1>6. xz \in Nat \ {0} /\ wz \in Nat \ {0} /\ g \in Nat \ {0} /\ zd * down \in Nat \ {0}
  BY <1>0
<1>7. 2 * (wz - xz) <= g /\ 2 * (xz - wz) <= g /\ wz <= High * g /\ xz < High * g
  <2>. DEFINE t == zd * down
  <2>1. t \in Nat \ {0}
    BY <1>6
  <2>. HIDE DEF t
  <2>2. (2 * (w - x)) * t <= u * t /\ (2 * (x - w)) * t <= u * t
    BY <1>0, <2>1, Cancel DEF ReadAs
  <2>3. w * t <= (High * u) * t /\ x * t < (High * u) * t
    BY <1>0, <2>1, Cancel, Bits DEF ReadAs, IsUlp
  <2>4. /\ (2 * (w - x)) * t = 2 * (w * t - x * t) /\ (2 * (x - w)) * t = 2 * (x * t - w * t)
        /\ (High * u) * t = High * (u * t)
    BY <1>0, <2>1, Bits
  <2>. QED BY <2>2, <2>3, <2>4 DEF t
<1>8. a = wz \/ (High * (a - wz) < wz /\ High * (wz - a) < wz)
  <2>1. CASE zn = w * zd
    BY <2>1
  <2>2. CASE High * (zn - w * zd) < w * zd /\ High * (w * zd - zn) < w * zd
    <3>. DEFINE v == w * zd
    <3>1. v \in Nat \ {0} /\ v * down = wz
      OBVIOUS
    <3>2. High * (zn - v) < v /\ High * (v - zn) < v
      BY <2>2
    <3>. HIDE DEF v, wz
    <3>3. (High * (zn - v)) * down < v * down /\ (High * (v - zn)) * down < v * down
      BY <3>1, <3>2, Bits, Cancel
    <3>4. /\ (High * (zn - v)) * down = High * (a - v * down)
          /\ (High * (v - zn)) * down = High * (v * down - a)
      BY <3>1, Bits
    <3>. QED BY <3>1, <3>3, <3>4
  <2>. QED BY <2>1, <2>2 DEF CloseTo
<1>9. m * b = r * zd /\ m * b \in Int /\ r \in Int
  OBVIOUS
<1>10. /\ b < 2 * g => b <= g
       /\ g < b => down = 1 /\ 2 * g <= b
       /\ g < b /\ b < 4 * g => b = 2 * g
  <2>. DEFINE ud == u * down
  <2>1. ud \in Nat \ {0} /\ g = ud * zd /\ 2 * g = (2 * ud) * zd /\ 4 * g = (4 * ud) * zd /\ b = up * zd
    OBVIOUS
  <2>2. /\ up < 2 * ud => up <= ud
        /\ ud < up => down = 1 /\ 2 * u <= up
        /\ ud < up /\ up < 4 * ud => up = 2 * u
    BY <1>3, <1>4, Spacing
  <2>3. down = 1 => ud = u
    OBVIOUS
  <2>. HIDE DEF ud, g, b
  <2>4. /\ up * zd < (2 * ud) * zd <=> up < 2 * ud
        /\ up * zd <= ud * zd <=> up <= ud
        /\ ud * zd < up * zd <=> ud < up
        /\ (2 * ud) * zd <= up * zd <=> 2 * ud <= up
        /\ up * zd < (4 * ud) * zd <=> up < 4 * ud
        /\ up * zd = (2 * ud) * zd <=> up = 2 * ud
    BY <2>1, Cancel
  <2>. QED BY <2>1, <2>2, <2>3, <2>4
<1>11. m * b <= xz + 2 * g /\ xz - 2 * g <= m * b
  <2>. HIDE DEF xz, wz, a, g, b, r
  <2>. DEFINE mb == m * b
  <2>. HIDE DEF mb
  <2>1. /\ mb \in Int /\ Low * b \in Int /\ High * b \in Int /\ High * g \in Int
        /\ High * b = 2 * (Low * b) /\ High * g = 2 * (Low * g) /\ Low * g \in Nat \ {0}
        /\ Low * (2 * g) = High * g /\ Low * (4 * g) = 2 * (High * g) /\ g <= High * g
    BY <1>5, <1>6, Bits DEF mb
  <2>2. a - wz < g /\ wz - a < g
    <3>1. High * (a - wz) < High * g /\ High * (wz - a) < High * g
      BY <1>6, <1>7, <1>8, <1>5, <2>1, Bits
    <3>2. (a - wz) * High < g * High /\ (wz - a) * High < g * High
      BY <1>5, <1>6, <3>1, Bits
    <3>. QED BY <1>5, <1>6, <3>2, Bits, Cancel
  <2>3. CASE a < High * g
    <3>1. b * Low < (2 * g) * Low
      BY <1>5, <1>6, <2>1, <2>3, Bits
    <3>2. b < 2 * g
      BY <1>5, <1>6, <3>1, Bits, Cancel
    <3>3. b <= g
      BY <1>10, <3>2
    <3>4. mb <= xz + 2 * g /\ xz - 2 * g <= mb
      BY <1>5, <1>6, <1>7, <2>1, <2>2, <3>3 DEF mb
    <3>. QED BY <3>4 DEF mb
  <2>4. CASE High * g <= a
    <3>1. g * High < b * High
      BY <1>5, <1>6, <2>1, <2>4, Bits
    <3>2. g < b
      BY <1>5, <1>6, <3>1, Bits, Cancel
    <3>3. a < High * g + g
      BY <1>5, <1>6, <1>7, <2>1, <2>2
    <3>4. b * Low < (4 * g) * Low
      BY <1>5, <1>6, <2>1, <3>3, Bits
    <3>5. b < 4 * g
      BY <1>5, <1>6, <3>4, Bits, Cancel
    <3>6. b = 2 * g
      BY <1>10, <3>2, <3>5
    <3>7. Low * b = High * g /\ (Low + 1) * b = Low * b + b
      BY <1>6, <3>6, Bits
    <3>8. mb < (Low + 1) * b
      BY <1>5, <1>6, <2>1, <3>3, <3>6, <3>7 DEF mb
    <3>9. m < Low + 1
      BY <1>5, <3>8, Bits, Cancel DEF mb
    <3>10. mb = High * g
      BY <1>5, <3>7, <3>9, Bits DEF mb
    <3>11. mb <= xz + 2 * g /\ xz - 2 * g <= mb
      BY <1>5, <1>6, <1>7, <2>1, <2>2, <2>4, <3>10
    <3>. QED BY <3>11 DEF mb
  <2>. QED BY <1>5, <2>1, <2>3, <2>4
<1>12. ASSUME x < Low
       PROVE  m * b < xz + zd * down /\ xz - zd * down < m * b
  <2>1. u = 1 /\ w = x
    <3>1. Low <= Low * u /\ Low * u \in Int
      BY Bits
    <3>. QED BY <1>0, <1>12, <3>1, Bits DEF ReadAs, IsUlp
  <2>2. g = zd * down /\ wz = xz
    BY <2>1
  <2>3. xz < Low * g /\ xz + g <= Low * g
    <3>1. (x + 1) * g <= Low * g
      BY <1>0, <1>6, <1>12, Bits, Cancel
    <3>2. (x + 1) * g = xz + g
      BY <2>2, <1>0
    <3>3. Low * g \in Int
      BY <1>6, Bits
    <3>. HIDE DEF xz, g
    <3>. QED BY <1>6, <3>1, <3>2, <3>3
  <2>4. down >= 2 => 2 * (zd * 1) <= g
    <3>1. down >= 2 => 2 * zd <= down * zd
      BY Cancel
    <3>2. down * zd = g /\ zd * 1 = zd
      BY <2>2
    <3>. QED BY <3>1, <3>2
  <2>. HIDE DEF xz, wz, a, g, r
  <2>5. /\ Low * g \in Int /\ High * (a - wz) \in Int /\ High * (wz - a) \in Int
        /\ High * (a - wz) = (2 * (a - wz)) * Low /\ High * (wz - a) = (2 * (wz - a)) * Low
        /\ Low * g = g * Low
    BY <1>5, <1>6, Bits
  <2>6. 2 * (a - xz) < g /\ 2 * (xz - a) < g
    <3>1. CASE a = wz
      BY <1>5, <1>6, <2>2, <3>1
    <3>2. CASE High * (a - wz) < wz /\ High * (wz - a) < wz
      <4>1. (2 * (a - wz)) * Low < g * Low /\ (2 * (wz - a)) * Low < g * Low
        BY <1>6, <2>2, <2>3, <2>5, <3>2
      <4>2. 2 * (a - wz) < g /\ 2 * (wz - a) < g
        BY <1>5, <1>6, <4>1, Bits, Cancel
      <4>. QED BY <2>2, <4>2
    <3>. QED BY <1>8, <3>1, <3>2
  <2>7. a < g * Low
    BY <1>5, <1>6, <2>3, <2>5, <2>6
  <2>8. b < g
    <3>. HIDE DEF b
    <3>1. b * Low < g * Low
      BY <1>5, <1>6, <2>5, <2>7, Bits
    <3>. QED BY <1>5, <1>6, <3>1, Bits, Cancel
  <2>9. up = 1 /\ down >= 2
    <3>1. up * zd < down * zd
      BY <2>2, <2>8
    <3>2. up < down
      BY <3>1, Cancel
    <3>. QED BY <1>4, <3>2 DEF Scale
  <2>10. 2 * b <= g
    BY <2>4, <2>9
  <2>. DEFINE mb == m * b
  <2>. HIDE DEF b, mb
  <2>11. mb \in Int /\ 2 * (mb - a) <= b /\ 2 * (a - mb) <= b
    BY <1>5, <1>9 DEF mb
  <2>12. mb < xz + g /\ xz - g < mb
    BY <1>5, <1>6, <2>6, <2>10, <2>11
  <2>. QED BY <2>2, <2>12 DEF mb
<1>13. r \div down \in x - 2 * u .. x + 2 * u
  <2>1. (x - 2 * u) * (zd * down) = ((x - 2 * u) * down) * zd
    BY <1>0
  <2>2. (x + 2 * u) * (zd * down) = ((x + 2 * u) * down) * zd
    BY <1>0
  <2>3. xz + 2 * g = (x + 2 * u) * (zd * down) /\ xz - 2 * g = (x - 2 * u) * (zd * down)
    BY <1>0
  <2>4. ((x - 2 * u) * down) * zd <= r * zd /\ r * zd <= ((x + 2 * u) * down) * zd
    BY <1>9, <1>11, <2>1, <2>2, <2>3
  <2>5. (x - 2 * u) * down \in Int /\ (x + 2 * u) * down \in Int /\ (x - 2 * u) \in Int /\ (x + 2 * u) \in Int
    BY <1>0
  <2>. HIDE DEF r
  <2>6. (x - 2 * u) * down <= r /\ r <= (x + 2 * u) * down
    BY <1>9, <2>4, <2>5, Cancel
  <2>7. (x + 2 * u) * down < (x + 2 * u + 1) * down
    BY <2>5, Increases
  <2>8. r < (x + 2 * u + 1) * down
    BY <1>9, <2>5, <2>6, <2>7
  <2>. QED BY <1>9, <2>5, <2>6, <2>8, QuotientBetween
<1>14. ASSUME x < Low
       PROVE  r \div down \in {x - 1, x}
  <2>1. /\ xz + zd * down = ((x + 1) * down) * zd
        /\ xz - zd * down = ((x - 1) * down) * zd
    BY <1>0
  <2>2. (x + 1) * down \in Int /\ (x - 1) * down \in Int
    BY <1>0
  <2>3. ((x - 1) * down) * zd < r * zd /\ r * zd < ((x + 1) * down) * zd
    BY <1>9, <1>12, <1>14, <2>1
  <2>. HIDE DEF r
  <2>4. (x - 1) * down < r /\ r < (x + 1) * down
    BY <1>9, <2>2, <2>3, Cancel
  <2>5. /\ r \in Int /\ x \in Int /\ x - 1 \in Int
        /\ (x - 1) * down <= r /\ r < (x + 1) * down
    BY <1>0, <1>9, <2>2, <2>4
  <2>6. r \div down \in x - 1 .. x
    BY <2>5, QuotientBetween
  <2>. QED BY <1>0, <2>6
<1>. QED BY <1>2, <1>13, <1>14

\* The quotient by Unit of the float read from x, times Unit.
LEMMA AmountOfCoins ==
  ASSUME NEW x \in 1 .. MaxAmount,
         NEW w \in Nat \ {0}, NEW k \in Nat \ {0}, ReadAs(w, x, Ulp(x))
  PROVE  LET back == ToWei(Round(w * k, k * Unit), Unit)
         IN /\ back \in x - 2 * Ulp(x) .. x + 2 * Ulp(x)
            /\ x < Low => back \in {x - 1, x}
<1>1. x \in 0 .. MaxAmount /\ Unit \in Nat \ {0}
  BY AmountsAssumption
<1>2. Ulp(x) \in Nat \ {0} /\ IsUlp(Ulp(x), x)
  BY <1>1, UlpIsSpacing
<1>3. Reached(w * k, k * Unit)
  BY <1>2, ReadIsSmall, QuotientIsReached
<1>4. PICK n \in Nat, zd \in Nat \ {0} :
        /\ Round(w * k, k * Unit) = <<n, zd>>
        /\ n * Unit \in Nat \ {0} /\ CloseTo(n * Unit, zd, w)
  BY <1>1, <1>3, DividedIsClose
<1>. DEFINE z == Round(n * Unit, zd)
<1>5. ToWei(<<n, zd>>, Unit) = z[1] \div z[2]
  BY DEF ToWei, Mul
<1>. HIDE DEF z
<1>6. /\ z[1] \div z[2] \in x - 2 * Ulp(x) .. x + 2 * Ulp(x)
      /\ x < Low => z[1] \div z[2] \in {x - 1, x}
  BY <1>2, <1>4, ComesBack DEF z
<1>. QED BY <1>4, <1>5, <1>6

\* An amount comes back from FromWei and ToWei, and from the configuration file.
LEMMA RoundTrip ==
  ASSUME NEW x \in 0 .. MaxAmount,
         NEW back \in {ToWei(FromWei(x, Unit), Unit), InTokenBuyAmount(x)}
  PROVE  /\ back \in x - 2 * Ulp(x) .. x + 2 * Ulp(x)
         /\ x < Low => back \in {x - 1, x}
<1>1. Ulp(x) \in Nat \ {0} /\ IsUlp(Ulp(x), x)
  BY UlpIsSpacing
<1>2. CASE x = 0
  <2>1. SetString(x) = Zero /\ Round(x, Unit) = Zero
    BY <1>2 DEF SetString, Round
  <2>2. Unit \in Nat \ {0}
    BY AmountsAssumption
  <2>3. Quo(Zero, <<Unit, 1>>) = Zero /\ ToWei(Zero, Unit) = 0
    BY <2>2 DEF Quo, ToWei, Mul, Round, Zero
  <2>4. back = 0
    BY <1>2, <2>1, <2>3 DEF FromWei, InTokenBuyAmount
  <2>. QED BY <1>1, <1>2, <2>4
<1>3. CASE x # 0
  <2>1. x \in 1 .. MaxAmount
    BY <1>3, AmountsAssumption
  <2>2. CASE back = ToWei(FromWei(x, Unit), Unit)
    <3>1. PICK w, k \in Nat \ {0} : SetString(x) = <<w * k, k>> /\ ReadAs(w, x, Ulp(x))
      BY <1>1, <2>1, ReadIn
    <3>2. FromWei(x, Unit) = Round((w * k) * 1, k * Unit) /\ (w * k) * 1 = w * k
      BY <3>1 DEF FromWei, Quo
    <3>3. FromWei(x, Unit) = Round(w * k, k * Unit)
      BY <3>2
    <3>. QED BY <2>1, <2>2, <3>1, <3>3, AmountOfCoins
  <2>3. CASE back = InTokenBuyAmount(x)
    <3>1. ReadAs(x, x, Ulp(x)) /\ x \in Nat \ {0}
      BY <1>1, <2>1, AmountsAssumption, Bits DEF ReadAs, IsUlp
    <3>2. InTokenBuyAmount(x) = ToWei(Round(x * 1, 1 * Unit), Unit)
      <4>1. x * 1 = x /\ 1 * Unit = Unit
        BY <3>1, AmountsAssumption
      <4>2. ~(x < 0)
        BY <2>1
      <4>. QED BY <4>1, <4>2 DEF InTokenBuyAmount
    <3>. QED BY <2>1, <2>3, <3>1, <3>2, AmountOfCoins
  <2>. QED BY <2>2, <2>3
<1>. QED BY <1>2, <1>3

-----------------------------------------------------------------------------
(* The price.                                                              *)

LEMMA RatioIsReached ==
  ASSUME NEW a \in 1 .. MaxAmount, NEW v \in Nat \ {0}, 2 * v <= 3 * a,
         NEW w \in Nat \ {0}, 2 * w < Top, NEW k \in Nat \ {0}
  PROVE  Reached(w * k, k * v)
<1>1. a \in Nat \ {0} /\ High * a <= High * MaxAmount /\ High * MaxAmount \in Nat
  BY AmountsFit, Bits
<1>2. w * k < High * (k * v) * Top
  <2>. DEFINE t == Top * k
              p == High * v
  <2>1. t \in Nat \ {0} /\ p \in Nat \ {0} /\ w * k \in Nat
    BY Bits
  <2>2. w * k < t
    BY Bits, Cancel
  <2>3. p * t = High * (k * v) * Top
    BY Bits
  <2>. HIDE DEF p, t
  <2>4. t <= p * t /\ p * t \in Nat
    BY <2>1
  <2>. QED BY <2>1, <2>2, <2>3, <2>4
<1>3. Low * (k * v) <= (w * k) * Top
  <2>1. Low * v <= Top
    <3>1. Low * (2 * v) <= Low * (3 * a)
      BY <1>1, Bits
    <3>2. Low * (2 * v) = 2 * (Low * v) /\ 2 * (Low * (3 * a)) = 3 * (High * a)
      BY <1>1, Bits
    <3>3. Low * v \in Int /\ Low * (3 * a) \in Int /\ High * a \in Int
      BY <1>1, Bits
    <3>. QED BY <1>1, <3>1, <3>2, <3>3, AmountsFit, Bits
  <2>. DEFINE t == Top * k
  <2>2. t \in Nat \ {0} /\ w * t = (w * k) * Top
    BY Bits
  <2>3. Low * (k * v) <= t
    <3>1. (Low * v) * k <= Top * k
      BY <2>1, Bits, Cancel
    <3>2. (Low * v) * k = Low * (k * v)
      BY Bits
    <3>. QED BY <3>1, <3>2
  <2>4. Low * (k * v) \in Int
    BY Bits
  <2>. HIDE DEF t
  <2>5. t <= w * t /\ w * t \in Int
    BY <2>2
  <2>. QED BY <2>2, <2>3, <2>4, <2>5
<1>. QED BY <1>2, <1>3 DEF Reached

\* The price that the watcher computes from two reserves is their ratio, to within four
\* parts in 2 ^ Precision, whatever their sizes (token.go:93-104).
THEOREM RatioIsAccurate ==
  ASSUME NEW amount0 \in 1 .. MaxAmount, NEW amount1 \in 1 .. MaxAmount, Precision >= 3
  PROVE  \E n, d \in Nat \ {0} :
           /\ TokenRatio(amount0, amount1) = <<n, d>>
           /\ Pow2[Precision] * (n * amount1 - d * amount0) <= 4 * (d * amount0)
           /\ Pow2[Precision] * (d * amount0 - n * amount1) <= 4 * (d * amount0)
<1>. DEFINE u0 == Ulp(amount0)
            u1 == Ulp(amount1)
<1>1. /\ amount0 \in Nat \ {0} /\ amount1 \in Nat \ {0}
      /\ amount0 \in 0 .. MaxAmount /\ amount1 \in 0 .. MaxAmount
  BY AmountsFit
<1>2. /\ u0 \in Nat \ {0} /\ IsUlp(u0, amount0)
      /\ u1 \in Nat \ {0} /\ IsUlp(u1, amount1)
  BY <1>1, UlpIsSpacing
<1>. HIDE DEF u0, u1
<1>3. PICK w, k \in Nat \ {0} : SetString(amount0) = <<w * k, k>> /\ ReadAs(w, amount0, u0)
  BY <1>2, ReadIn
<1>4. PICK v, l \in Nat \ {0} : SetString(amount1) = <<v * l, l>> /\ ReadAs(v, amount1, u1)
  BY <1>2, ReadIn
<1>5. TokenRatio(amount0, amount1) = Round(w * (k * l), (k * l) * v) /\ k * l \in Nat \ {0}
  <2>1. (w * k) * l = w * (k * l) /\ k * (v * l) = (k * l) * v /\ k * l \in Nat \ {0}
    OBVIOUS
  <2>. QED BY <1>3, <1>4, <2>1 DEF TokenRatio, Quo
<1>6. 2 * w < Top
  BY <1>2, <1>3, ReadIsSmall
<1>7. /\ High * (w - amount0) <= amount0 /\ High * (amount0 - w) <= amount0
      /\ High * (v - amount1) <= amount1 /\ High * (amount1 - v) <= amount1
  BY <1>2, <1>3, <1>4, ReadIsClose
<1>8. High >= 8
  <2>1. Pow2[2 + 1] = 8
    <3>1. Pow2[0 + 1] = 2 /\ Pow2[1 + 1] = 4
      BY Pow2Steps
    <3>. QED BY <3>1, Pow2Steps
  <2>2. Pow2[3] <= Pow2[Precision]
    BY Pow2Grows, AmountsAssumption
  <2>. QED BY <2>1, <2>2 DEF High
<1>9. 2 * v <= 3 * amount1
  <2>. DEFINE f == v - amount1
  <2>1. f \in Int
    BY <1>1
  <2>. HIDE DEF f
  <2>2. f >= 0 => 2 * f <= High * f
    BY <2>1, Bits
  <2>3. High * f <= amount1 /\ High * f \in Int
    BY <1>7, <2>1, Bits DEF f
  <2>. QED BY <1>1, <2>1, <2>2, <2>3 DEF f
<1>10. Reached(w * (k * l), (k * l) * v)
  BY <1>5, <1>6, <1>9, RatioIsReached
<1>11. PICK n \in Nat, d \in Nat \ {0} :
         /\ Round(w * (k * l), (k * l) * v) = <<n, d>>
         /\ n * v \in Nat \ {0} /\ CloseTo(n * v, d, w)
  BY <1>5, <1>10, DividedIsClose
<1>12. n \in Nat \ {0}
  BY <1>11
\* The ratio, its float, and the floats of the amounts, over the same denominator.
<1>. DEFINE N == n * amount1
            Z == n * v
            W == w * d
            D == d * amount0
<1>13. N \in Nat \ {0} /\ Z \in Nat \ {0} /\ W \in Nat \ {0} /\ D \in Nat \ {0}
  BY <1>1, <1>11, <1>12
<1>14. High * (Z - W) <= W /\ High * (W - Z) <= W
  <2>1. Z = W => High * (Z - W) = 0 /\ High * (W - Z) = 0
    BY <1>13, Bits
  <2>2. High * (Z - W) \in Int /\ High * (W - Z) \in Int
    BY <1>13, Bits
  <2>. QED BY <1>11, <1>13, <2>1, <2>2 DEF CloseTo
<1>15. High * (W - D) <= D /\ High * (D - W) <= D
  <2>1. /\ (High * (w - amount0)) * d <= amount0 * d
        /\ (High * (amount0 - w)) * d <= amount0 * d
    BY <1>1, <1>7, Bits, Cancel
  <2>2. /\ (High * (w - amount0)) * d = High * (W - D)
        /\ (High * (amount0 - w)) * d = High * (D - W)
        /\ amount0 * d = D
    BY <1>1, Bits
  <2>. QED BY <2>1, <2>2
<1>16. High * (Z - N) <= N /\ High * (N - Z) <= N
  <2>1. /\ (High * (v - amount1)) * n <= amount1 * n
        /\ (High * (amount1 - v)) * n <= amount1 * n
    BY <1>1, <1>7, <1>12, Bits, Cancel
  <2>2. /\ (High * (v - amount1)) * n = High * (Z - N)
        /\ (High * (amount1 - v)) * n = High * (N - Z)
        /\ amount1 * n = N
    BY <1>1, Bits
  <2>. QED BY <2>1, <2>2
<1>17. High * (N - D) <= 4 * D /\ High * (D - N) <= 4 * D
  <2>. HIDE DEF N, Z, W, D
  <2>1. /\ High * (Z - W) = High * Z - High * W /\ High * (W - Z) = High * W - High * Z
        /\ High * (W - D) = High * W - High * D /\ High * (D - W) = High * D - High * W
        /\ High * (Z - N) = High * Z - High * N /\ High * (N - Z) = High * N - High * Z
        /\ High * (N - D) = High * N - High * D /\ High * (D - N) = High * D - High * N
    BY <1>13, Bits
  <2>. DEFINE hN == High * N
              hZ == High * Z
              hW == High * W
              hD == High * D
  <2>2. hN \in Nat /\ hZ \in Nat /\ hW \in Nat /\ hD \in Nat
    BY <1>13, Bits
  <2>3. 8 * (W - D) <= D
    <3>1. W - D >= 0 => 8 * (W - D) <= High * (W - D)
      BY <1>8, <1>13, Bits
    <3>2. High * (W - D) \in Int
      BY <1>13, Bits
    <3>. QED BY <1>13, <1>15, <3>1, <3>2
  <2>4. 8 * (Z - W) <= W
    <3>1. Z - W >= 0 => 8 * (Z - W) <= High * (Z - W)
      BY <1>8, <1>13, Bits
    <3>2. High * (Z - W) \in Int
      BY <1>13, Bits
    <3>. QED BY <1>13, <1>14, <3>1, <3>2
  <2>5. 8 * (N - Z) <= N
    <3>1. N - Z >= 0 => 8 * (N - Z) <= High * (N - Z)
      BY <1>8, <1>13, Bits
    <3>2. High * (N - Z) \in Int
      BY <1>13, Bits
    <3>. QED BY <1>13, <1>16, <3>1, <3>2
  <2>6. hN - hD <= 4 * D /\ hD - hN <= 4 * D
    <3>1. /\ hZ - hW <= W /\ hW - hZ <= W /\ hW - hD <= D /\ hD - hW <= D
          /\ hZ - hN <= N /\ hN - hZ <= N
      BY <1>14, <1>15, <1>16, <2>1
    <3>. HIDE DEF hN, hZ, hW, hD
    <3>. QED BY <1>13, <2>2, <2>3, <2>4, <2>5, <3>1
  <2>. QED BY <2>1, <2>6
<1>. QED BY <1>5, <1>11, <1>12, <1>17 DEF High

-----------------------------------------------------------------------------
(* The behaviours: one computation on one input.                           *)

\* The input is one of its task, and a verdict is that of the code.
Answered ==
  /\ task = "classify" =>
       /\ input \in MCTransactions
       /\ verdict \in {<<>>, <<isTargetTransaction(input.tx, input.networkUp)>>}
  /\ task = "report" =>
       /\ input \in MCPurchases
       /\ verdict \in {<<>>,
            <<Report([value |-> input.value, gasPrice |-> input.gasPrice, gas |-> input.gas],
                     [logs |-> Logs, gasUsed |-> input.gasUsed])>>}
  /\ task = "amount" =>
       /\ input \in 0 .. MaxAmount
       /\ verdict \in {<<>>, <<ToWei(FromWei(input, Unit), Unit), InTokenBuyAmount(input)>>}
  /\ task = "config" =>
       /\ input \in MCFiles
       /\ verdict \in {<<>>, FromYaml(input)}

LEMMA InitAnswered == Init => Answered
  BY DEF Init, Answered

LEMMA AnsweredStep ==
  ASSUME Answered, [Next]_<<task, input, verdict>>
  PROVE  Answered'
<1>1. UNCHANGED <<task, input>>
  BY DEF Next
<1>2. Logs' = Logs
  BY <1>1 DEF Logs
<1>3. CASE Classify
  BY <1>1, <1>3 DEF Classify, Answered
<1>4. CASE ReportPurchase
  BY <1>1, <1>2, <1>4 DEF ReportPurchase, Answered
<1>5. CASE Convert
  BY <1>1, <1>5 DEF Convert, Answered
<1>6. CASE Configure
  BY <1>1, <1>6 DEF Configure, Answered
<1>7. CASE UNCHANGED verdict
  BY <1>1, <1>2, <1>7 DEF Answered
<1>. QED
  BY <1>3, <1>4, <1>5, <1>6, <1>7 DEF Next

THEOREM Computed == Spec => []Answered
  BY InitAnswered, AnsweredStep, PTL DEF Spec

\* The filter says "target" of exactly the transactions that add liquidity for the
\* target token and whose sender it can recover, for any addresses and providers.
THEOREM TargetIsExact == Spec => []TargetExact
<1>1. Answered => TargetExact
  <2>. SUFFICES ASSUME Answered, Done("classify")
       PROVE  verdict = <<"target">> <=> /\ AddsTargetLiquidity(input.tx)
                                         /\ input.networkUp
                                         /\ input.tx.signature \in {"eip155", "homestead"}
    BY DEF TargetExact
  <2>1. verdict = <<isTargetTransaction(input.tx, input.networkUp)>>
    BY DEF Answered, Done
  <2>2. input.tx \in Transaction /\ input.networkUp \in BOOLEAN
    BY DEF Answered, Done, MCTransactions
  <2>3. verdict = <<"target">> <=> isTargetTransaction(input.tx, input.networkUp) = "target"
    BY <2>1
  <2>. QED
    BY <2>2, <2>3, FilterExact, DecodersAssumption
<1>. QED BY <1>1, Computed, PTL

\* The filter panics on nothing but call data shorter than a selector.
THEOREM PanicsAreShort == Spec => []PanicsOnlyOnShortCalls
<1>1. Answered => PanicsOnlyOnShortCalls
  <2>. SUFFICES ASSUME Answered, Done("classify"), verdict = <<"panic">>
       PROVE  /\ input.tx.to = RouterAddress /\ input.tx.data.method = "short"
              /\ input.tx.from \in LiquidityProviders \/ LiquidityProviders = {}
    BY DEF PanicsOnlyOnShortCalls
  <2>1. verdict = <<isTargetTransaction(input.tx, input.networkUp)>>
    BY DEF Answered, Done
  <2>2. input.tx \in Transaction /\ input.networkUp \in BOOLEAN
    BY DEF Answered, Done, MCTransactions
  <2>3. isTargetTransaction(input.tx, input.networkUp) = "panic"
    BY <2>1
  <2>. QED
    BY <2>2, <2>3, FilterPanics
<1>. QED BY <1>1, Computed, PTL

\* What is printed of a purchase is of our own swap, whatever other events there are: its
\* amounts and gas fees are exact, its price as near as RatioIsAccurate says, and its total
\* cost too high by the price of the gas that was not used.
THEOREM ReportIsExact == Spec => []ReportExactOrNone
<1>1. Answered => ReportExactOrNone
  <2>. DEFINE trade == [value |-> input.value, gasPrice |-> input.gasPrice, gas |-> input.gas]
              receipt == [logs |-> Logs, gasUsed |-> input.gasUsed]
              whole ==
                [tokensBought |-> input.bought,
                 tokensSpent  |-> input.value,
                 buyPrice     |-> TokenRatio(input.value, input.bought),
                 gasFees      |-> input.gasPrice * input.gasUsed,
                 dexFees      |-> input.gasPrice * (input.gas - input.gasUsed),
                 totalFees    |-> input.gasPrice * input.gas,
                 totalCost    |-> input.value + input.gasPrice * input.gas]
  <2>. SUFFICES ASSUME Answered, Done("report")
       PROVE  ReportExactOrNone
    BY DEF ReportExactOrNone
  <2>1. input \in MCPurchases /\ verdict = <<Report(trade, receipt)>>
    BY DEF Answered, Done
  <2>2. /\ input.value \in Nat \ {0} /\ input.bought \in Nat \ {0}
        /\ input.gasPrice \in Nat /\ input.gas \in Nat /\ input.gasUsed \in Nat
        /\ input.targetIsToken0 \in BOOLEAN /\ input.reverted \in BOOLEAN
    BY <2>1 DEF MCPurchases
  <2>3. input.ofToken \in Seq(Seq(Nat))
    <3>1. input.ofToken \in MCTokenLogs
      BY <2>1 DEF MCPurchases
    <3>2. PICK n \in 0 .. 2 :
            input.ofToken \in [1 .. n -> {<<7>>, <<1, 2, 3, 4>>, <<0, 0, 0, 0>>, <<5, 0, 0, 6, 1>>}]
      BY <3>1 DEF MCTokenLogs
    <3>3. {<<7>>, <<1, 2, 3, 4>>, <<0, 0, 0, 0>>, <<5, 0, 0, 6, 1>>} \subseteq Seq(Nat)
      OBVIOUS
    <3>4. n \in Nat
      OBVIOUS
    <3>. HIDE DEF trade, receipt, whole
    <3>5. input.ofToken \in [1 .. n -> Seq(Nat)]
      <4>. SUFFICES \A T : input.ofToken \in [1 .. n -> T] /\ T \subseteq Seq(Nat)
                       => input.ofToken \in [1 .. n -> Seq(Nat)]
        BY <3>2, <3>3
      <4>. QED OBVIOUS
    <3>. QED BY <3>4, <3>5, SeqDef
  <2>. DEFINE Right == Report(trade, receipt) =
                         IF input.targetIsToken0 /\ ~input.reverted THEN whole ELSE <<>>
  <2>4. ASSUME input.reverted PROVE Right
    <3>1. Logs = <<>>
      BY <2>4 DEF Logs
    <3>2. ReportPanics(<<>>)
      BY DEF ReportPanics
    <3>. QED BY <2>4, <3>1, <3>2 DEF Report
  <2>5. ASSUME ~input.reverted PROVE Right
    <3>1. Logs = SuccessLogs(input.value, input.bought, input.targetIsToken0, input.ofToken)
      BY <2>5 DEF Logs
    <3>2. /\ input.targetIsToken0 =>
               ~ReportPanics(Logs) /\ weiSpent(Logs) = input.value /\ weiBought(Logs) = input.bought
          /\ ~input.targetIsToken0 => ReportPanics(Logs)
      BY <2>2, <2>3, <3>1, ReportsOwnSwap
    <3>3. CASE ~input.targetIsToken0
      BY <3>2, <3>3 DEF Report
    <3>4. CASE input.targetIsToken0
      <4>1. Cost(trade) = input.value + input.gasPrice * input.gas
        BY DEF Cost
      <4>2. Report(trade, receipt) =
              [tokensBought |-> input.bought,
               tokensSpent  |-> input.value,
               buyPrice     |-> TokenRatio(input.value, input.bought),
               gasFees      |-> input.gasUsed * input.gasPrice,
               dexFees      |-> Cost(trade) - input.value - input.gasUsed * input.gasPrice,
               totalFees    |-> Cost(trade) - input.value,
               totalCost    |-> Cost(trade)]
        <5>1. input.bought # 0
          BY <2>2
        <5>2. buyPrice(Logs) = TokenRatio(input.value, input.bought)
          BY <3>2, <3>4, <5>1 DEF buyPrice, RatioIsInf
        <5>. QED BY <3>2, <3>4, <5>2 DEF Report
      <4>3. /\ input.gasUsed * input.gasPrice = input.gasPrice * input.gasUsed
            /\ Cost(trade) - input.value = input.gasPrice * input.gas
            /\ Cost(trade) - input.value - input.gasUsed * input.gasPrice =
                 input.gasPrice * (input.gas - input.gasUsed)
        <5>. HIDE DEF trade, receipt, whole
        <5>. QED BY <2>2, <4>1
      <4>. QED BY <2>5, <3>4, <4>1, <4>2, <4>3
    <3>. QED BY <3>3, <3>4
  <2>6. Right
    BY <2>4, <2>5
  <2>7. CASE ~(input.targetIsToken0 /\ ~input.reverted)
    <3>1. verdict = <<<<>>>>
      BY <2>1, <2>6, <2>7
    <3>. QED BY <2>7, <3>1 DEF ReportExactOrNone
  <2>8. CASE input.targetIsToken0 /\ ~input.reverted
    <3>1. verdict[1] = whole
      BY <2>1, <2>6, <2>8
    <3>2. /\ verdict[1].tokensBought = input.bought /\ verdict[1].tokensSpent = input.value
          /\ verdict[1].buyPrice = TokenRatio(input.value, input.bought)
          /\ verdict[1].gasFees = input.gasPrice * input.gasUsed
          /\ verdict[1].dexFees = input.gasPrice * (input.gas - input.gasUsed)
          /\ verdict[1].totalCost = input.value + input.gasPrice * input.gas
      BY <3>1
    <3>3. IsRatio(TokenRatio(input.value, input.bought), input.value, input.bought)
      <4>1. 2 <= MaxAmount /\ MaxAmount \in Nat /\ Precision >= 3
        BY DecodersAssumption, AmountsAssumption
      <4>2. input.value \in 1 .. MaxAmount /\ input.bought \in 1 .. MaxAmount
        BY <2>1, <4>1 DEF MCPurchases
      <4>3. PICK n, d \in Nat \ {0} :
              /\ TokenRatio(input.value, input.bought) = <<n, d>>
              /\ Pow2[Precision] * (n * input.bought - d * input.value) <= 4 * (d * input.value)
              /\ Pow2[Precision] * (d * input.value - n * input.bought) <= 4 * (d * input.value)
        BY <4>1, <4>2, RatioIsAccurate
      <4>. QED BY <4>3 DEF IsRatio
    <3>4. input.value + input.gasPrice * input.gas =
            input.value + input.gasPrice * input.gasUsed
              + input.gasPrice * (input.gas - input.gasUsed)
      <4>1. \A v, p, g, h \in Nat : v + p * g = v + p * h + p * (g - h)
        OBVIOUS
      <4>. QED BY <2>2, <4>1
    <3>. HIDE DEF trade, receipt, whole
    <3>. QED BY <2>8, <3>2, <3>3, <3>4 DEF ReportExactOrNone
  <2>. QED BY <2>7, <2>8
<1>. QED BY <1>1, Computed, PTL

\* An amount of wei comes back from a float within two units of the last place, and
\* within one wei below half of 2 ^ Precision: for any precision and any unit, and for
\* all the amounts that the exponents reach.
THEOREM AmountsAreKept == Spec => []AmountsAreClose
<1>1. Answered => AmountsAreClose
  <2>. SUFFICES ASSUME Answered, Done("amount"), NEW back \in ToSet(verdict)
       PROVE  /\ back \in input - 2 * Ulp(input) .. input + 2 * Ulp(input)
              /\ input < Pow2[Precision - 1] => back \in {input - 1, input}
    BY DEF AmountsAreClose
  <2>1. /\ input \in 0 .. MaxAmount
        /\ verdict = <<ToWei(FromWei(input, Unit), Unit), InTokenBuyAmount(input)>>
    BY DEF Answered, Done
  <2>2. back \in {ToWei(FromWei(input, Unit), Unit), InTokenBuyAmount(input)}
    BY <2>1 DEF ToSet
  <2>. QED BY <2>1, <2>2, RoundTrip DEF Low
<1>. QED BY <1>1, Computed, PTL

-----------------------------------------------------------------------------
(* The configuration.                                                      *)

\* The fields of a file that parseValues reads.
LEMMA RawFields ==
  ASSUME NEW raw \in MCRaws
  PROVE  /\ raw.url \in Urls
         /\ raw.buyAmount \in FileAmounts \cup {Inf, NaN}
         /\ \A f \in AddressFields : raw.addresses[f] \in Entries
         /\ raw.liquidityProviders \in ProviderLists
<1>. DEFINE Fields ==
       /\ raw.url \in Urls
       /\ raw.buyAmount \in FileAmounts \cup {Inf, NaN}
       /\ \A f \in AddressFields : raw.addresses[f] \in Entries
       /\ raw.liquidityProviders \in ProviderLists
<1>1. /\ SomeEntry \in Entries /\ <<"http", "host">> \in Urls
      /\ <<>> \in [1 .. 0 -> Entries] /\ 0 \in 0 .. 2
  BY DecodersAssumption DEF SomeEntry, Urls
<1>2. <<>> \in ProviderLists
  BY <1>1 DEF ProviderLists
<1>3. ASSUME NEW u \in Urls, NEW l \in BOOLEAN, NEW a \in FileAmounts \cup {Inf, NaN},
             NEW p \in BOOLEAN, raw = NodeFile(u, l, a, p)
      PROVE  Fields
  <2>1. /\ raw.url = u /\ raw.buyAmount = a /\ raw.liquidityProviders = <<>>
        /\ raw.addresses = [f \in AddressFields |-> SomeEntry]
    BY <1>3 DEF NodeFile, PlainFile
  <2>. QED BY <1>1, <1>2, <2>1
<1>4. ASSUME NEW a \in FileAmounts, NEW i \in {1, 56}, NEW d \in Instants \cup {Unparsable},
             NEW e \in Instants \cup {Unparsable}, raw = InstantFile(a, i, d, e)
      PROVE  Fields
  <2>1. /\ raw.url = <<"http", "host">> /\ raw.buyAmount = a /\ raw.liquidityProviders = <<>>
        /\ raw.addresses = [f \in AddressFields |-> SomeEntry]
    BY <1>4 DEF InstantFile, PlainFile
  <2>. QED BY <1>1, <1>2, <2>1
<1>5. ASSUME NEW a \in FileAmounts, NEW f \in AddressFields, NEW str \in Entries,
             raw = AddressFile(a, f, str)
      PROVE  Fields
  <2>1. /\ raw.url = <<"http", "host">> /\ raw.buyAmount = a /\ raw.liquidityProviders = <<>>
        /\ raw.addresses = [[g \in AddressFields |-> SomeEntry] EXCEPT ![f] = str]
    BY <1>5 DEF AddressFile, PlainFile
  <2>2. \A g \in AddressFields : raw.addresses[g] \in Entries
    BY <1>1, <2>1
  <2>. QED BY <1>1, <1>2, <2>1, <2>2
<1>6. ASSUME NEW a \in FileAmounts, NEW l \in ProviderLists, raw = ProviderFile(a, l)
      PROVE  Fields
  <2>1. /\ raw.url = <<"http", "host">> /\ raw.buyAmount = a /\ raw.liquidityProviders = l
        /\ raw.addresses = [f \in AddressFields |-> SomeEntry]
    BY <1>6 DEF ProviderFile, PlainFile
  <2>. QED BY <1>1, <2>1
<1>7. \/ \E u \in Urls, l \in BOOLEAN, a \in FileAmounts \cup {Inf, NaN}, p \in BOOLEAN :
           raw = NodeFile(u, l, a, p)
      \/ \E a \in FileAmounts, i \in {1, 56}, d \in Instants \cup {Unparsable},
           e \in Instants \cup {Unparsable} : raw = InstantFile(a, i, d, e)
      \/ \E a \in FileAmounts, f \in AddressFields, str \in Entries : raw = AddressFile(a, f, str)
      \/ \E a \in FileAmounts, l \in ProviderLists : raw = ProviderFile(a, l)
  BY DEF MCRaws
<1>8. Fields
  <2>. HIDE DEF Fields
  <2>. QED BY <1>3, <1>4, <1>5, <1>6, <1>7
<1>. QED BY <1>8

\* An address that is written as it should be is the address that is read.
LEMMA AddressIsKept ==
  ASSUME NEW str \in Entries, IsAddress(str)
  PROVE  HexToAddress(str) = str
<1>1. str \in Seq(0 .. 255 \cup {BadPair}) /\ AddressLength \in Nat \ {0}
  BY DecodersAssumption, ConfigAssumption
<1>2. Len(str) = AddressLength /\ \A i \in 1 .. Len(str) : str[i] # BadPair
  BY DEF IsAddress
<1>. DEFINE Good(n) == /\ \A i \in 1 .. n : str[i] # BadPair
                       /\ n = Len(str) \/ str[n + 1] = BadPair
<1>3. Len(str) \in 0 .. Len(str) /\ Good(Len(str))
  BY <1>1, <1>2
<1>4. \A n \in 0 .. Len(str) : Good(n) => n = Len(str)
  BY <1>1, <1>2
<1>5. (CHOOSE n \in 0 .. Len(str) : Good(n)) = Len(str)
  BY <1>3, <1>4
<1>6. Decoded(str) = SubSeq(str, 1, Len(str))
  BY <1>5 DEF Decoded
<1>7. Decoded(str) = str
  <2>. HIDE DEF Good
  <2>. QED BY <1>1, <1>6
<1>8. HexToAddress(str) = [i \in 1 .. AddressLength |-> str[i]]
  BY <1>1, <1>2, <1>7 DEF HexToAddress
<1>. QED BY <1>1, <1>2, <1>8

\* What a program that starts has parsed.
LEMMA Started ==
  ASSUME Answered, Done("config"), verdict[1] = "config"
  PROVE  /\ input.raw \in MCRaws /\ verdict[2] = Parsed(input.raw)
         /\ ~UrlPanics(input.raw) /\ input.raw.buyAmount \notin {Inf, NaN}
<1>1. verdict = FromYaml(input) /\ input \in MCFiles
  BY DEF Answered, Done
<1>2. input.kind = "yaml" /\ verdict = parseValues(input.raw) /\ input.raw \in MCRaws
  BY <1>1 DEF FromYaml, MCFiles
<1>. QED
  BY <1>2 DEF parseValues, AmountPanics, AmountIsFatal

\* The program that starts does so with the amount, to within two units of the last
\* place, the node, the chain, the instants and the well-written addresses of its file.
THEOREM StartsWithItsFile == Spec => []StartsAsWritten
<1>1. Answered => StartsAsWritten
  <2>. DEFINE raw    == input.raw
              config == verdict[2]
              wei    == raw.buyAmount
              ulp    == Ulp(IF wei < 0 THEN -wei ELSE wei)
  <2>. SUFFICES ASSUME Answered, Done("config"), verdict[1] = "config"
       PROVE  /\ wei \notin {Inf, NaN}
              /\ config.InTokenBuyAmount \in wei - 2 * ulp .. wei + 2 * ulp
              /\ config.RpcUrl.rest = "host" /\ config.RpcUrl.auth = raw.login
              /\ config.ChainID = raw.chainID
              /\ \A f \in AddressFields :
                   IsAddress(raw.addresses[f]) => config.Addresses[f] = raw.addresses[f]
              /\ raw.deadline # Unparsable => config.Deadline = raw.deadline
              /\ raw.sellDeadline # Unparsable => config.SellDeadline = raw.sellDeadline
    BY DEF StartsAsWritten
  <2>1. /\ raw \in MCRaws /\ config = Parsed(raw) /\ ~UrlPanics(raw) /\ wei \notin {Inf, NaN}
    BY Started
  <2>2. /\ config.InTokenBuyAmount = InTokenBuyAmount(wei)
        /\ config.RpcUrl = RpcUrl(raw) /\ config.ChainID = raw.chainID
        /\ config.Addresses = [f \in AddressFields |-> HexToAddress(raw.addresses[f])]
        /\ config.Deadline = parseTimeStr(raw.deadline)
        /\ config.SellDeadline = parseTimeStr(raw.sellDeadline)
    BY <2>1 DEF Parsed
  <2>3. InTokenBuyAmount(wei) \in wei - 2 * ulp .. wei + 2 * ulp
    <3>. HIDE DEF raw, config
    <3>1. wei \in -MaxAmount .. MaxAmount /\ MaxAmount \in Nat
      BY <2>1, RawFields, DecodersAssumption, AmountsFit
    <3>. HIDE DEF wei
    <3>2. CASE wei >= 0
      <4>1. wei \in 0 .. MaxAmount /\ ulp = Ulp(wei)
        BY <3>1, <3>2
      <4>. QED BY <4>1, RoundTrip
    <3>3. CASE wei < 0
      <4>1. -wei \in 0 .. MaxAmount /\ ulp = Ulp(-wei) /\ ~(-wei < 0)
        BY <3>1, <3>3
      <4>2. InTokenBuyAmount(wei) = -InTokenBuyAmount(-wei)
        BY <3>3, <4>1 DEF InTokenBuyAmount
      <4>3. InTokenBuyAmount(-wei) \in (-wei) - 2 * ulp .. (-wei) + 2 * ulp
        BY <4>1, RoundTrip
      <4>4. Ulp(-wei) \in Nat \ {0}
        BY <4>1, UlpIsSpacing
      <4>5. \A m, x \in Int, u \in Nat : x \in (-m) - 2 * u .. (-m) + 2 * u
                                           => -x \in m - 2 * u .. m + 2 * u
        OBVIOUS
      <4>6. wei \in Int /\ ulp \in Nat /\ InTokenBuyAmount(-wei) \in Int
        BY <3>1, <4>1, <4>3, <4>4
      <4>. HIDE DEF ulp
      <4>. QED BY <4>2, <4>3, <4>5, <4>6
    <3>. QED BY <3>1, <3>2, <3>3
  <2>4. raw.url[2] = "host"
    BY <2>1, RawFields DEF UrlPanics, Urls
  <2>5. \A f \in AddressFields :
          IsAddress(raw.addresses[f]) => config.Addresses[f] = raw.addresses[f]
    <3>. HIDE DEF raw, config
    <3>. QED BY <2>1, <2>2, RawFields, AddressIsKept
  <2>. QED BY <2>1, <2>2, <2>3, <2>4, <2>5 DEF RpcUrl, parseTimeStr
<1>. QED BY <1>1, Computed, PTL

\* Broken entries do not empty the list of providers, push out the good ones or make it
\* longer, and a broken instant never comes.
THEOREM MistakesStayContained == Spec => []MistakesAreContained
<1>1. Answered => MistakesAreContained
  <2>. DEFINE raw     == input.raw
              lp      == raw.liquidityProviders
              written == ToSet(lp)
              from    == verdict[2].From
  <2>. SUFFICES ASSUME Answered, Done("config"), verdict[1] = "config"
       PROVE  /\ from = {} <=> written = {}
              /\ \A str \in written : IsAddress(str) => str \in from
              /\ Cardinality(from) <= Cardinality(written)
              /\ raw.deadline = Unparsable => verdict[2].Deadline = Never
              /\ raw.sellDeadline = Unparsable => verdict[2].SellDeadline = Never
    BY DEF MistakesAreContained
  <2>1. raw \in MCRaws /\ verdict[2] = Parsed(raw)
    BY Started
  <2>2. /\ from = {HexToAddress(str) : str \in written}
        /\ verdict[2].Deadline = parseTimeStr(raw.deadline)
        /\ verdict[2].SellDeadline = parseTimeStr(raw.sellDeadline)
    BY <2>1 DEF Parsed, Providers
  <2>3. PICK n \in 0 .. 2 : lp \in [1 .. n -> Entries]
    <3>. HIDE DEF raw
    <3>. QED BY <2>1, RawFields DEF ProviderLists
  <2>4. written = {lp[i] : i \in 1 .. n} /\ written \subseteq Entries
    <3>. HIDE DEF raw
    <3>. QED BY <2>3 DEF ToSet
  <2>5. \A str \in written : IsAddress(str) => str \in from
    <3>. HIDE DEF raw, from, written
    <3>. QED BY <2>2, <2>4, AddressIsKept
  <2>6. Cardinality(from) <= Cardinality(written)
    <3>. HIDE DEF raw, lp, from, written
    <3>1. IsFiniteSet(1 .. n)
      BY <2>3, FS_Interval
    <3>2. [i \in 1 .. n |-> lp[i]] \in Surjection(1 .. n, written)
      BY <2>4 DEF Surjection
    <3>3. IsFiniteSet(written)
      BY <3>1, <3>2, FS_Surjection
    <3>4. [str \in written |-> HexToAddress(str)] \in Surjection(written, from)
      BY <2>2 DEF Surjection
    <3>. QED BY <3>3, <3>4, FS_Surjection
  <2>. QED BY <2>2, <2>5, <2>6 DEF parseTimeStr
<1>. QED BY <1>1, Computed, PTL
=============================================================================
