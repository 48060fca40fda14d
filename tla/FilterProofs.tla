---------------------------- MODULE FilterProofs ----------------------------
(***************************************************************************)
(* Theorems about AddressFilter and RemoteGetter, for every set of         *)
(* addresses and ports, every table, output, buffer size and limit: what   *)
(* the two getters print and what parseFilter makes of it.                 *)
(*                                                                         *)
(* Numbers are written and read by recursive functions.  An induction is   *)
(* an argument about the least number of a set, which needs no theorem     *)
(* with an operator as a parameter.  About the text there is no induction: *)
(* its addresses are the pieces between the dashes, told by their places.  *)
(***************************************************************************)
EXTENDS RemoteGetter, WellFoundedInduction, SequenceTheorems, FiniteSetTheorems, TLAPS

(* A set of numbers has a least.                                           *)
LEMMA NatLeast ==
  ASSUME NEW T \in SUBSET Nat, T # {}
  PROVE  \E m \in T : \A k \in T : m <= k
<1> DEFINE L == OpToRel(<, Nat)
<1>1. IsWellFoundedOn(L, Nat)
  BY NatLessThanWellFounded
<1>2. \A x, y \in Nat : <<y, x>> \in L <=> y < x
  BY DEF OpToRel
<1> HIDE DEF L
<1>3. PICK x \in T : \A y \in T : <<y, x>> \notin L
  BY <1>1, WFMin
<1>4. ASSUME NEW k \in T PROVE x <= k
  <2>1. x \in Nat /\ k \in Nat /\ <<k, x>> \notin L
    BY <1>3
  <2> QED
    BY <1>2, <2>1
<1> QED
  BY <1>4

(* A set of numbers with 0 and, with a number, the next one, has them all. *)
LEMMA NatAll ==
  ASSUME NEW T \in SUBSET Nat, 0 \in T, \A n \in T : n + 1 \in T
  PROVE  T = Nat
<1> SUFFICES ASSUME Nat \ T # {} PROVE FALSE
  OBVIOUS
<1>1. PICK m \in Nat \ T : \A k \in Nat \ T : m <= k
  BY NatLeast
<1>2. m - 1 \in Nat /\ m - 1 \notin Nat \ T
  BY <1>1
<1> QED
  BY <1>1, <1>2

(* A definition from the value at a predecessor, the rank of which is less *)
Descends(X, V, rank, pred, base, step) ==
  /\ rank \in [X -> Nat] /\ pred \in [X -> X]
  /\ base \in [X -> V] /\ step \in [X -> [V -> V]]
  /\ \A x \in X : rank[x] # 0 => rank[pred[x]] < rank[x]

Defines(f, X, V, rank, pred, base, step) ==
  /\ f \in [X -> V]
  /\ \A x \in X : f[x] = IF rank[x] = 0 THEN base[x] ELSE step[x][f[pred[x]]]

(* defines a function.                                                     *)
LEMMA Recursion ==
  ASSUME NEW X, NEW V, NEW rank, NEW pred, NEW base, NEW step,
         Descends(X, V, rank, pred, base, step)
  PROVE  \E f : Defines(f, X, V, rank, pred, base, step)
<1> USE DEF Descends
<1> DEFINE UpTo(m, f) == \A x \in X :
             rank[x] <= m =>
               f[x] = IF rank[x] = 0 THEN base[x] ELSE step[x][f[pred[x]]]
           T == {m \in Nat : \E f \in [X -> V] : UpTo(m, f)}
<1>1. T = Nat
  <2>1. 0 \in T
    <3>1. UpTo(0, base)
      OBVIOUS
    <3> QED
      BY <3>1
  <2>2. ASSUME NEW m \in T PROVE m + 1 \in T
    <3>1. m \in Nat /\ \E f \in [X -> V] : UpTo(m, f)
      OBVIOUS
    <3>2. PICK f \in [X -> V] : UpTo(m, f)
      BY <3>1
    <3> DEFINE g == [x \in X |-> IF rank[x] <= m THEN f[x] ELSE step[x][f[pred[x]]]]
    <3>3. g \in [X -> V]
      OBVIOUS
    <3>4. ASSUME NEW x \in X, rank[x] <= m + 1
          PROVE  g[x] = IF rank[x] = 0 THEN base[x] ELSE step[x][g[pred[x]]]
      <4>1. CASE rank[x] = 0
        BY <3>1, <3>2, <4>1
      <4>2. CASE rank[x] # 0
        <5>1. rank[pred[x]] <= m
          BY <3>1, <3>4, <4>2
        <5>2. g[pred[x]] = f[pred[x]]
          BY <5>1
        <5>3. g[x] = step[x][f[pred[x]]]
          BY <3>2, <4>2
        <5> QED
          BY <4>2, <5>2, <5>3
      <4> QED
        BY <4>1, <4>2
    <3>5. UpTo(m + 1, g)
      <4> HIDE DEF g
      <4> QED
        BY <3>4
    <3> HIDE DEF g
    <3> QED
      BY <3>1, <3>3, <3>5
  <2> HIDE DEF T
  <2> QED
    BY <2>1, <2>2, NatAll DEF T
<1>2. ASSUME NEW m \in Nat, NEW n \in Nat, NEW f, NEW g, UpTo(m, f), UpTo(n, g)
      PROVE  \A x \in X : rank[x] <= m /\ rank[x] <= n => f[x] = g[x]
  <2> DEFINE Odd(x) == rank[x] <= m /\ rank[x] <= n /\ f[x] # g[x]
             R == {r \in Nat : \E x \in X : r = rank[x] /\ Odd(x)}
  <2> SUFFICES ASSUME NEW y \in X, Odd(y) PROVE FALSE
    OBVIOUS
  <2>1. R \in SUBSET Nat /\ R # {}
    OBVIOUS
  <2>2. PICK r \in R : \A k \in R : r <= k
    <3> HIDE DEF R
    <3> QED
      BY <2>1, NatLeast
  <2>3. PICK x \in X : r = rank[x] /\ Odd(x)
    OBVIOUS
  <2>4. rank[x] # 0
    BY <1>2, <2>3
  <2>5. pred[x] \in X /\ rank[pred[x]] < rank[x] /\ rank[pred[x]] \in Nat /\ rank[x] \in Nat
    BY <2>4
  <2>6. ~Odd(pred[x])
    BY <2>2, <2>3, <2>5
  <2>7. f[pred[x]] = g[pred[x]]
    BY <2>3, <2>5, <2>6
  <2> QED
    BY <1>2, <2>3, <2>4, <2>7
<1> DEFINE h(m) == CHOOSE f \in [X -> V] : UpTo(m, f)
           F == [x \in X |-> h(rank[x])[x]]
<1>3. \A m \in Nat : h(m) \in [X -> V] /\ UpTo(m, h(m))
  <2> HIDE DEF UpTo
  <2>1. \A m \in Nat : \E f \in [X -> V] : UpTo(m, f)
    BY <1>1
  <2> QED
    BY <2>1
<1> HIDE DEF h
<1>4. F \in [X -> V]
  BY <1>3
<1>5. ASSUME NEW x \in X
      PROVE  F[x] = IF rank[x] = 0 THEN base[x] ELSE step[x][F[pred[x]]]
  <2>1. F[x] = IF rank[x] = 0 THEN base[x] ELSE step[x][h(rank[x])[pred[x]]]
    BY <1>3
  <2>2. CASE rank[x] # 0
    <3>1. /\ rank[x] \in Nat /\ rank[pred[x]] \in Nat /\ pred[x] \in X
          /\ rank[pred[x]] <= rank[x]
      BY <2>2
    <3>2. h(rank[x])[pred[x]] = h(rank[pred[x]])[pred[x]]
      <4> HIDE DEF UpTo, F
      <4> QED
        BY <1>2, <1>3, <3>1
    <3>3. F[pred[x]] = h(rank[pred[x]])[pred[x]]
      BY <3>1
    <3> HIDE DEF F
    <3> QED
      BY <2>1, <3>2, <3>3
  <2> HIDE DEF F
  <2> QED
    BY <2>1, <2>2
<1> HIDE DEF F
<1> QED
  BY <1>4, <1>5 DEF Defines

-----------------------------------------------------------------------------
(* Numbers and digits.                                                     *)

Digits == 0 .. 9
Numerals == Seq(Digits) \ {<<>>}

(* A number that is not another but no more is less.                       *)
LEMMA NatNext == \A x, y \in Nat : x <= y /\ x # y => x + 1 <= y
OBVIOUS

(* Division by ten.                                                        *)
LEMMA DivTen ==
  \A n \in Nat :
    /\ n \div 10 \in Nat /\ n % 10 \in Digits /\ n = 10 * (n \div 10) + (n % 10)
    /\ n >= 10 => n \div 10 < n
BY DEF Digits

(* A number is the one digit, or what is written of its tenth and a digit. *)
LEMMA DecimalDef ==
  /\ Decimal \in [Nat -> Numerals]
  /\ \A n \in Nat :
       Decimal[n] = IF n < 10 THEN <<n>> ELSE Append(Decimal[n \div 10], n % 10)
<1> DEFINE rank == [n \in Nat |-> IF n < 10 THEN 0 ELSE n]
           pred == [n \in Nat |-> n \div 10]
           base == [n \in Nat |-> <<n % 10>>]
           step == [n \in Nat |-> [s \in Numerals |-> Append(s, n % 10)]]
<1>1. /\ rank \in [Nat -> Nat] /\ pred \in [Nat -> Nat]
      /\ \A n \in Nat : rank[n] # 0 => rank[pred[n]] < rank[n]
  BY DivTen
<1>2. base \in [Nat -> Numerals]
  BY DivTen DEF Numerals
<1>3. step \in [Nat -> [Numerals -> Numerals]]
  <2>1. ASSUME NEW n \in Nat, NEW s \in Numerals PROVE Append(s, n % 10) \in Numerals
    BY DivTen, AppendProperties DEF Numerals
  <2> QED
    BY <2>1
<1>4. PICK f \in [Nat -> Numerals] : \A n \in Nat :
        f[n] = IF rank[n] = 0 THEN base[n] ELSE step[n][f[pred[n]]]
  <2>1. Descends(Nat, Numerals, rank, pred, base, step)
    BY <1>1, <1>2, <1>3 DEF Descends
  <2> HIDE DEF rank, pred, base, step
  <2>2. \E f : Defines(f, Nat, Numerals, rank, pred, base, step)
    BY <2>1, Recursion
  <2> QED
    BY <2>2 DEF Defines
<1>5. ASSUME NEW n \in Nat
      PROVE  f[n] = IF n < 10 THEN <<n>> ELSE Append(f[n \div 10], n % 10)
  <2>1. CASE n < 10
    <3>1. n % 10 = n
      BY <2>1
    <3> QED
      BY <1>4, <2>1, <3>1
  <2>2. CASE n >= 10
    <3>1. n \div 10 \in Nat /\ f[n \div 10] \in Numerals /\ rank[n] # 0
      BY <2>2, DivTen
    <3>2. f[n] = step[n][f[n \div 10]]
      BY <1>4, <3>1
    <3> QED
      BY <2>2, <3>1, <3>2
  <2> QED
    BY <2>1, <2>2
<1>6. f = [n \in Nat |-> IF n < 10 THEN <<n>> ELSE Append(f[n \div 10], n % 10)]
  BY <1>5
<1>7. Decimal = [n \in Nat |->
                  IF n < 10 THEN <<n>> ELSE Append(Decimal[n \div 10], n % 10)]
  BY <1>6 DEF Decimal
<1>8. \A n \in Nat : Decimal[n] = f[n]
  <2> DEFINE R == {n \in Nat : Decimal[n] # f[n]}
  <2> SUFFICES ASSUME R # {} PROVE FALSE
    OBVIOUS
  <2>1. PICK n \in R : \A k \in R : n <= k
    <3>1. R \in SUBSET Nat
      OBVIOUS
    <3> HIDE DEF R
    <3> QED
      BY <3>1, NatLeast
  <2>2. n >= 10 => n \div 10 \in Nat /\ n \div 10 < n
    BY DivTen
  <2>3. n >= 10 => Decimal[n \div 10] = f[n \div 10]
    BY <2>1, <2>2
  <2>4. Decimal[n] = IF n < 10 THEN <<n>> ELSE Append(Decimal[n \div 10], n % 10)
    BY <1>7
  <2>5. f[n] = IF n < 10 THEN <<n>> ELSE Append(f[n \div 10], n % 10)
    BY <1>5
  <2>6. Decimal[n] # f[n] /\ n \in Nat
    OBVIOUS
  <2> QED
    BY <2>3, <2>4, <2>5, <2>6
<1> QED
  BY <1>5, <1>7, <1>8

(* The part of a sequence from one place to another.                       *)
LEMMA Part ==
  ASSUME NEW S, NEW s \in Seq(S), NEW i \in 1 .. Len(s) + 1, NEW j \in i - 1 .. Len(s)
  PROVE  /\ SubSeq(s, i, j) \in Seq(S) /\ Len(SubSeq(s, i, j)) = j - i + 1
         /\ \A k \in 1 .. j - i + 1 : SubSeq(s, i, j)[k] = s[i + k - 1]
OBVIOUS

(* Sequences of one length with the same elements are one.                 *)
LEMMA SameSeq ==
  ASSUME NEW S, NEW s \in Seq(S), NEW t \in Seq(S), Len(s) = Len(t),
         \A k \in 1 .. Len(s) : s[k] = t[k]
  PROVE  s = t
OBVIOUS

(* All but the last element, and the last.                                 *)
LEMMA FrontLast ==
  ASSUME NEW S, NEW s \in Seq(S), s # <<>>
  PROVE  /\ Front(s) \in Seq(S) /\ Len(Front(s)) = Len(s) - 1 /\ Last(s) \in S
         /\ \A i \in 1 .. Len(s) - 1 : Front(s)[i] = s[i]
         /\ Last(s) = s[Len(s)]
<1>1. Len(s) \in Nat \ {0} /\ \A i \in 1 .. Len(s) : s[i] \in S
  OBVIOUS
<1>2. 1 \in 1 .. Len(s) + 1 /\ Len(s) - 1 \in 1 - 1 .. Len(s)
  BY <1>1
<1>3. /\ Front(s) \in Seq(S) /\ Len(Front(s)) = Len(s) - 1 - 1 + 1
      /\ \A k \in 1 .. Len(s) - 1 - 1 + 1 : Front(s)[k] = s[1 + k - 1]
  BY <1>2, Part DEF Front
<1> QED
  BY <1>1, <1>3 DEF Last

(* They are what has been put together.                                    *)
LEMMA FrontAppend ==
  ASSUME NEW S, NEW s \in Seq(S), NEW e \in S
  PROVE  Front(Append(s, e)) = s /\ Last(Append(s, e)) = e
<1>1. /\ Append(s, e) \in Seq(S) /\ Front(Append(s, e)) \in Seq(S)
      /\ Len(Front(Append(s, e))) = Len(s) /\ Last(Append(s, e)) = e
      /\ \A i \in 1 .. Len(s) : Front(Append(s, e))[i] = s[i]
  BY DEF Front, Last
<1> QED
  BY <1>1

(* The number that is written is ten times that of all but the last digit, *)
(* and the last digit.                                                     *)
LEMMA NumberDef ==
  /\ Number \in [Seq(Digits) -> Nat]
  /\ \A s \in Seq(Digits) :
       Number[s] = IF s = <<>> THEN 0 ELSE 10 * Number[Front(s)] + Last(s)
<1> DEFINE X == Seq(Digits)
           rank == [s \in X |-> Len(s)]
           pred == [s \in X |-> IF s = <<>> THEN s ELSE Front(s)]
           base == [s \in X |-> 0]
           step == [s \in X |-> [n \in Nat |-> IF s = <<>> THEN 0 ELSE 10 * n + Last(s)]]
           Next1(s, f) == IF s = <<>> THEN 0 ELSE 10 * f[Front(s)] + Last(s)
<1>1. ASSUME NEW s \in X
      PROVE  /\ Len(s) \in Nat /\ (s = <<>> <=> Len(s) = 0)
             /\ s # <<>> => Front(s) \in X /\ Len(Front(s)) < Len(s) /\ Last(s) \in Nat
  BY DEF Front, Last, Digits
<1> HIDE DEF X
<1>2. Descends(X, Nat, rank, pred, base, step)
  BY <1>1 DEF Descends
<1>3. PICK f : Defines(f, X, Nat, rank, pred, base, step)
  <2> HIDE DEF rank, pred, base, step
  <2> QED
    BY <1>2, Recursion
<1>4. ASSUME NEW s \in X PROVE f[s] = Next1(s, f)
  <2>1. f[s] = IF rank[s] = 0 THEN base[s] ELSE step[s][f[pred[s]]]
    BY <1>3 DEF Defines
  <2>2. CASE s = <<>>
    BY <1>1, <2>1, <2>2
  <2>3. CASE s # <<>>
    <3>1. f[Front(s)] \in Nat /\ rank[s] # 0 /\ pred[s] = Front(s)
      BY <1>1, <1>3, <2>3 DEF Defines
    <3> QED
      BY <2>1, <2>3, <3>1
  <2> QED
    BY <2>2, <2>3
<1>5. f \in [X -> Nat]
  BY <1>3 DEF Defines
<1>6. f = [s \in X |-> Next1(s, f)]
  BY <1>4, <1>5
<1>7. Number = [s \in X |-> Next1(s, Number)]
  BY <1>6 DEF Number, X, Digits
<1>8. \A s \in X : Number[s] = f[s]
  <2> DEFINE R == {n \in Nat : \E s \in X : n = Len(s) /\ Number[s] # f[s]}
  <2> SUFFICES ASSUME NEW t \in X, Number[t] # f[t] PROVE FALSE
    OBVIOUS
  <2>1. PICK n \in R : \A k \in R : n <= k
    <3>1. R \in SUBSET Nat /\ R # {}
      BY <1>1
    <3> HIDE DEF R
    <3> QED
      BY <3>1, NatLeast
  <2>2. PICK s \in X : n = Len(s) /\ Number[s] # f[s]
    OBVIOUS
  <2>3. s # <<>> => Number[Front(s)] = f[Front(s)]
    BY <1>1, <2>1, <2>2
  <2>4. Number[s] = Next1(s, Number) /\ f[s] = Next1(s, f)
    BY <1>4, <1>7
  <2> QED
    BY <2>2, <2>3, <2>4
<1>9. Number \in [X -> Nat]
  BY <1>5, <1>7, <1>8
<1> QED
  BY <1>7, <1>9 DEF X

(* The text of a number, read again, is the number.                        *)
LEMMA DecimalRead ==
  ASSUME NEW n \in Nat
  PROVE  Number[Decimal[n]] = n
<1>1. Decimal \in [Nat -> Numerals] /\ Number \in [Seq(Digits) -> Nat]
  BY DecimalDef, NumberDef
<1> DEFINE R == {m \in Nat : Number[Decimal[m]] # m}
<1> SUFFICES ASSUME R # {} PROVE FALSE
  OBVIOUS
<1>2. PICK m \in R : \A k \in R : m <= k
  <2>1. R \in SUBSET Nat
    OBVIOUS
  <2> HIDE DEF R
  <2> QED
    BY <2>1, NatLeast
<1>3. m \in Nat /\ Number[Decimal[m]] # m
  OBVIOUS
<1>4. CASE m < 10
  <2>1. Decimal[m] = <<m>> /\ <<m>> \in Seq(Digits) /\ <<m>> # <<>>
    BY <1>3, <1>4, DecimalDef DEF Digits
  <2>2. <<m>> = Append(<<>>, m) /\ <<>> \in Seq(Digits) /\ m \in Digits
    BY <1>3, <1>4 DEF Digits
  <2>3. Front(<<m>>) = <<>> /\ Last(<<m>>) = m
    BY <2>2, FrontAppend
  <2>4. Number[<<m>>] = 10 * Number[<<>>] + m /\ Number[<<>>] = 0
    BY <2>1, <2>2, <2>3, NumberDef
  <2> QED
    BY <1>3, <2>1, <2>4
<1>5. CASE m >= 10
  <2>1. /\ m \div 10 \in Nat /\ m % 10 \in Digits /\ m = 10 * (m \div 10) + (m % 10)
        /\ m \div 10 < m
    BY <1>3, <1>5, DivTen
  <2>2. Number[Decimal[m \div 10]] = m \div 10
    BY <1>2, <2>1
  <2>3. /\ Decimal[m] = Append(Decimal[m \div 10], m % 10)
        /\ Decimal[m \div 10] \in Seq(Digits) /\ Decimal[m] \in Seq(Digits)
        /\ Decimal[m] # <<>>
    <3>1. \A k \in Nat : Decimal[k] \in Seq(Digits) /\ Decimal[k] # <<>>
      BY <1>1 DEF Numerals
    <3>2. Decimal[m] = Append(Decimal[m \div 10], m % 10)
      BY <1>3, <1>5, DecimalDef
    <3> QED
      BY <1>3, <2>1, <3>1, <3>2
  <2>4. Front(Decimal[m]) = Decimal[m \div 10] /\ Last(Decimal[m]) = m % 10
    <3>1. \A s \in Seq(Digits), e \in Digits : Front(Append(s, e)) = s /\ Last(Append(s, e)) = e
      BY FrontAppend
    <3> QED
      BY <2>1, <2>3, <3>1
  <2>5. Number[Decimal[m]] = 10 * (m \div 10) + (m % 10)
    BY <2>2, <2>3, <2>4, NumberDef
  <2> QED
    BY <1>3, <2>1, <2>5
<1> QED
  BY <1>3, <1>4, <1>5

-----------------------------------------------------------------------------
(* Addresses and their bytes.                                              *)

(* Quotient and remainder are what they should be, and nothing else is.    *)
LEMMA Division ==
  ASSUME NEW n \in Nat, NEW d \in Nat \ {0}
  PROVE  /\ n \div d \in Nat /\ n % d \in 0 .. d - 1
         /\ n = d * (n \div d) + (n % d)
         /\ \A q \in Nat, r \in 0 .. d - 1 : n = d * q + r => q = n \div d
<1>1. /\ n \div d \in Nat /\ n % d \in 0 .. d - 1
      /\ n = d * (n \div d) + (n % d)
  OBVIOUS
<1>2. ASSUME NEW p \in Nat, NEW q \in Nat, NEW r \in 0 .. d - 1, NEW u \in 0 .. d - 1,
             d * p + r = d * q + u
      PROVE  p <= q
  <2> SUFFICES ASSUME p >= q + 1 PROVE FALSE
    OBVIOUS
  <2>1. PICK e \in Nat : p = q + 1 + e
    <3>1. p - q - 1 \in Nat /\ p = q + 1 + (p - q - 1)
      OBVIOUS
    <3> QED
      BY <3>1
  <2>2. d * p = d * q + d + d * e /\ d * e \in Nat /\ d * q \in Nat
    BY <2>1
  <2> QED
    BY <1>2, <2>2
<1>3. \A q \in Nat, r \in 0 .. d - 1 : n = d * q + r => q <= n \div d /\ n \div d <= q
  BY <1>1, <1>2
<1> QED
  BY <1>1, <1>3

(* Shifting twice is shifting by as much as both.                          *)
LEMMA DivDiv ==
  ASSUME NEW n \in Nat, NEW a \in Nat \ {0}, NEW b \in Nat \ {0}
  PROVE  n \div (b * a) = (n \div a) \div b
<1> DEFINE p == n \div a
           q == p \div b
<1>1. /\ p \in Nat /\ n % a \in 0 .. a - 1 /\ n = a * p + (n % a)
  BY Division
<1>2. /\ q \in Nat /\ p % b \in 0 .. b - 1 /\ p = b * q + (p % b)
  BY <1>1, Division
<1> HIDE DEF p, q
<1>3. PICK r \in 0 .. a - 1 : n = a * p + r
  BY <1>1
<1>4. PICK u \in 0 .. b - 1 : p = b * q + u
  BY <1>2
<1>5. a * p = (b * a) * q + a * u
  <2>1. a * (b * q + u) = (b * a) * q + a * u
    BY <1>2
  <2> QED
    BY <1>4, <2>1
<1>6. a * u + r \in 0 .. (b * a) - 1 /\ b * a \in Nat \ {0}
  <2>1. PICK e \in Nat : b = u + 1 + e
    <3>1. b - u - 1 \in Nat /\ b = u + 1 + (b - u - 1)
      OBVIOUS
    <3> QED
      BY <3>1
  <2>2. b * a = a * u + a + a * e /\ a * e \in Nat /\ a * u \in Nat
    <3>1. (u + 1 + e) * a = a * u + a + a * e /\ a * e \in Nat /\ a * u \in Nat
      OBVIOUS
    <3> QED
      BY <2>1, <3>1
  <2> QED
    BY <2>2
<1>7. n = (b * a) * q + (a * u + r)
  <2>1. a * u \in Nat /\ (b * a) * q \in Nat
    BY <1>2
  <2> QED
    BY <1>3, <1>5, <2>1
<1>8. q = n \div (b * a)
  BY <1>2, <1>6, <1>7, Division
<1> QED
  BY <1>8 DEF p, q

Addresses == 0 .. (Octet * Octet * Octet * Octet) - 1

(* The bytes of an address are bytes and stand for it.                     *)
LEMMA OctetsStand ==
  ASSUME NEW n \in Nat
  PROVE  /\ Octets(n) \in [0 .. 3 -> 0 .. Octet - 1]
         /\ n \in Addresses => HostNumber(Octets(n)) = n
<1> DEFINE O == Octet
           a == n \div O
           b == a \div O
           c == b \div O
<1>0. O \in Nat \ {0} /\ O * O \in Nat \ {0} /\ O * O * O \in Nat \ {0}
  <2>1. O \in Nat \ {0}
    BY FilterAssumption
  <2>2. \A x, y \in Nat \ {0} : x * y \in Nat \ {0}
    OBVIOUS
  <2> HIDE DEF O
  <2> QED
    BY <2>1, <2>2
<1> HIDE DEF O
<1>1. a \in Nat /\ b \in Nat /\ c \in Nat
  BY <1>0, Division
<1>2. Place[1] = 1 /\ Place[2] = O /\ Place[3] = O * O /\ Place[4] = O * O * O
  BY DEF Place, O
<1>3. /\ n \div Place[1] = n /\ n \div Place[2] = a
      /\ n \div Place[3] = b /\ n \div Place[4] = c
  <2>1. n \div 1 = n
    OBVIOUS
  <2>2. n \div (O * O) = b
    BY <1>0, DivDiv
  <2>3. n \div ((O * O) * O) = (n \div O) \div (O * O)
    BY <1>0, DivDiv
  <2>4. a \div (O * O) = c
    BY <1>0, <1>1, DivDiv
  <2> QED
    BY <1>2, <2>1, <2>2, <2>3, <2>4
<1>4. /\ Octets(n)[0] = n % O /\ Octets(n)[1] = a % O
      /\ Octets(n)[2] = b % O /\ Octets(n)[3] = c % O
  BY <1>3 DEF Octets, O
<1>5. Octets(n) \in [0 .. 3 -> 0 .. O - 1]
  <2>1. \A m \in Nat : m % O \in 0 .. O - 1
    BY <1>0, Division
  <2>2. Octets(n) = [k \in 0 .. 3 |-> Octets(n)[k]]
    BY DEF Octets
  <2>3. \A k \in 0 .. 3 : k = 0 \/ k = 1 \/ k = 2 \/ k = 3
    OBVIOUS
  <2>4. \A k \in 0 .. 3 : Octets(n)[k] \in 0 .. O - 1
    BY <1>1, <1>4, <2>1, <2>3
  <2> QED
    BY <2>2, <2>4
<1>6. ASSUME n \in Addresses PROVE HostNumber(Octets(n)) = n
  <2>1. /\ n = O * a + (n % O) /\ a = O * b + (a % O) /\ b = O * c + (b % O)
        /\ n % O \in Nat /\ a % O \in Nat /\ b % O \in Nat
    BY <1>0, <1>1, Division
  <2>2. c < O
    <3> SUFFICES ASSUME c >= O PROVE FALSE
      BY <1>0, <1>1
    <3>1. \A x, y \in Nat : x >= y => O * x >= O * y
      BY <1>0
    <3>2. b >= O * O
      <4>1. O * c >= O * O
        BY <1>0, <1>1, <3>1
      <4> QED
        BY <1>0, <1>1, <2>1, <4>1
    <3>3. a >= O * (O * O)
      <4>1. O * b >= O * (O * O)
        BY <1>0, <1>1, <3>1, <3>2
      <4> QED
        BY <1>0, <1>1, <2>1, <4>1
    <3>4. n >= O * (O * (O * O))
      <4>1. O * a >= O * (O * (O * O))
        BY <1>0, <1>1, <3>1, <3>3
      <4> QED
        BY <1>0, <1>1, <2>1, <4>1
    <3>5. O * (O * (O * O)) = O * O * O * O
      BY <1>0
    <3> QED
      BY <1>0, <1>6, <3>4, <3>5 DEF Addresses, O
  <2>3. c % O = c
    BY <1>0, <1>1, <2>2
  <2>4. HostNumber(Octets(n)) = (n % O) + O * ((a % O) + O * ((b % O) + O * c))
    BY <1>4, <2>3 DEF HostNumber, O
  <2>5. (b % O) + O * c = b /\ (a % O) + O * b = a /\ (n % O) + O * a = n
    BY <1>0, <1>1, <2>1
  <2> QED
    BY <2>4, <2>5
<1> QED
  BY <1>5, <1>6 DEF O

-----------------------------------------------------------------------------
(* Characters and texts.                                                   *)

Characters == 0 .. 11
Plain == 0 .. 10

(* The least element is one and is least.                                  *)
LEMMA MinIsLeast ==
  ASSUME NEW T \in SUBSET Nat, T # {}
  PROVE  Min(T) \in T /\ \A k \in T : Min(T) <= k
<1>1. \E m \in T : \A k \in T : m <= k
  BY NatLeast
<1> QED
  BY <1>1 DEF Min

(* strchr finds the first dot.                                             *)
LEMMA DotFound ==
  ASSUME NEW s \in Seq(Characters)
  PROVE  /\ DotIn(s) \in 0 .. Len(s)
         /\ \A k \in 1 .. Len(s) : s[k] = Dot => DotIn(s) # 0 /\ DotIn(s) <= k
         /\ DotIn(s) # 0 => s[DotIn(s)] = Dot
<1> DEFINE I == {i \in 1 .. Len(s) : s[i] = Dot}
<1>1. DotIn(s) = IF I # {} THEN Min(I) ELSE 0
  BY DEF DotIn, SelectInSeq
<1>2. I \in SUBSET Nat /\ Len(s) \in Nat
  OBVIOUS
<1>3. ASSUME I # {} PROVE Min(I) \in I /\ \A k \in I : Min(I) <= k
  <2> HIDE DEF I
  <2> QED
    BY <1>2, <1>3, MinIsLeast
<1>4. CASE I = {}
  <2>1. DotIn(s) = 0
    BY <1>1, <1>4
  <2> QED
    BY <1>2, <1>4, <2>1
<1>5. CASE I # {}
  <2>1. DotIn(s) = Min(I)
    BY <1>1, <1>5
  <2>2. DotIn(s) \in I /\ \A k \in I : DotIn(s) <= k
    BY <1>3, <1>5, <2>1
  <2> QED
    BY <1>2, <2>2
<1> QED
  BY <1>4, <1>5

(* strtok_r finds the first stretch without dashes.                        *)
Stretch(t, i, j) ==
  /\ i \in 1 .. Len(t) /\ j \in i .. Len(t)
  /\ \A k \in i .. j : t[k] # Dash
  /\ j = Len(t) \/ t[j + 1] = Dash

(* Only dashes go before it, and the dash after it is skipped.             *)
LEMMA TokenFound ==
  ASSUME NEW t \in Seq(Characters)
  PROVE  /\ Token(t).some \in BOOLEAN
         /\ ~Token(t).some => \A k \in 1 .. Len(t) : t[k] = Dash
         /\ Token(t).some =>
              \E i, j : /\ Stretch(t, i, j)
                        /\ \A k \in 1 .. i - 1 : t[k] = Dash
                        /\ Token(t).chars = SubSeq(t, i, j)
                        /\ Token(t).after = SubSeq(t, j + 2, Len(t))
<1> DEFINE I == {i \in 1 .. Len(t) : t[i] # Dash}
           first == IF I # {} THEN Min(I) ELSE 0
           J == {i \in first .. Len(t) : t[i] = Dash}
           dash == IF J # {} THEN Min(J) ELSE 0
           last == IF dash = 0 THEN Len(t) ELSE dash - 1
<1>1. Token(t) =
        IF first = 0
        THEN [some |-> FALSE, chars |-> <<>>, after |-> <<>>]
        ELSE [some |-> TRUE, chars |-> SubSeq(t, first, last),
              after |-> SubSeq(t, last + 2, Len(t))]
  BY DEF Token, SelectInSeq, SelectInSubSeq
<1>2. Len(t) \in Nat /\ I \in SUBSET Nat
  OBVIOUS
<1>3. I # {} => first \in I /\ \A k \in I : first <= k
  <2>1. I # {} => Min(I) \in I /\ \A k \in I : Min(I) <= k
    <3> HIDE DEF I
    <3> QED
      BY <1>2, MinIsLeast
  <2> HIDE DEF I
  <2> QED
    BY <2>1
<1>4. I = {} <=> first = 0
  <2>1. \A i \in I : i # 0
    BY <1>2
  <2> HIDE DEF I
  <2> QED
    BY <1>3, <2>1
<1>5. CASE I = {}
  <2>1. Token(t) = [some |-> FALSE, chars |-> <<>>, after |-> <<>>]
    <3> HIDE DEF last, first
    <3> QED
      BY <1>1, <1>4, <1>5
  <2> QED
    BY <1>5, <2>1
<1>6. CASE I # {}
  <2>1. /\ first \in 1 .. Len(t) /\ t[first] # Dash
        /\ \A k \in 1 .. first - 1 : t[k] = Dash
    <3>1. first \in 1 .. Len(t) /\ t[first] # Dash /\ \A k \in I : first <= k
      BY <1>3, <1>6
    <3> HIDE DEF first
    <3>2. ASSUME NEW k \in 1 .. first - 1 PROVE t[k] = Dash
      <4>1. k \in 1 .. Len(t) /\ ~(first <= k)
        BY <1>2, <3>1
      <4> QED
        BY <3>1, <4>1
    <3> QED
      BY <3>1, <3>2
  <2> HIDE DEF first, I
  <2>2. J \in SUBSET Nat
    BY <1>2, <2>1
  <2>3. J # {} => dash \in J /\ \A k \in J : dash <= k
    <3>1. J # {} => Min(J) \in J /\ \A k \in J : Min(J) <= k
      <4> HIDE DEF J
      <4> QED
        BY <2>2, MinIsLeast
    <3> HIDE DEF J
    <3> QED
      BY <3>1
  <2>4. Stretch(t, first, last)
    <3>1. CASE J = {}
      <4>1. last = Len(t)
        <5> HIDE DEF J
        <5> QED
          BY <3>1
      <4>2. \A k \in first .. Len(t) : t[k] # Dash
        BY <3>1
      <4> HIDE DEF last
      <4> QED
        BY <1>2, <2>1, <4>1, <4>2 DEF Stretch
    <3>2. CASE J # {}
      <4>1. dash \in first .. Len(t) /\ t[dash] = Dash /\ \A k \in J : dash <= k
        BY <2>3, <3>2
      <4>2. last = dash - 1
        <5>1. dash # 0
          BY <2>1, <4>1
        <5> HIDE DEF dash
        <5> QED
          BY <5>1
      <4> HIDE DEF last, dash
      <4>3. dash # first
        BY <2>1, <4>1
      <4>4. ASSUME NEW k \in first .. last PROVE t[k] # Dash
        <5>1. k \in first .. Len(t) /\ ~(dash <= k)
          BY <1>2, <2>1, <4>1, <4>2
        <5> QED
          BY <4>1, <5>1
      <4> QED
        BY <1>2, <2>1, <4>1, <4>2, <4>3, <4>4 DEF Stretch
    <3> QED
      BY <3>1, <3>2
  <2> DEFINE c == SubSeq(t, first, last)
             a == SubSeq(t, last + 2, Len(t))
  <2>5. Token(t) = [some |-> TRUE, chars |-> c, after |-> a]
    <3> HIDE DEF last
    <3> QED
      BY <1>1, <2>1
  <2> HIDE DEF last, c, a
  <2>6. Token(t).some /\ Token(t).chars = c /\ Token(t).after = a
    BY <2>5
  <2>7. \E i, j : /\ Stretch(t, i, j)
                  /\ \A k \in 1 .. i - 1 : t[k] = Dash
                  /\ Token(t).chars = SubSeq(t, i, j)
                  /\ Token(t).after = SubSeq(t, j + 2, Len(t))
    <3> WITNESS first, last
    <3> QED
      BY <2>1, <2>4, <2>6 DEF c, a
  <2> QED
    BY <2>6, <2>7
<1> QED
  BY <1>5, <1>6

(* The text of an address, place by place.                                 *)
LEMMA TextShape ==
  ASSUME NEW r, r.ip \in Nat, r.port \in Nat
  PROVE  LET d == Len(Decimal[r.ip])
             p == Len(Decimal[r.port])
         IN  /\ Decimal[r.ip] \in Seq(Digits) /\ Decimal[r.port] \in Seq(Digits)
             /\ d \in Nat \ {0} /\ p \in Nat \ {0}
             /\ TextOf(r) \in Seq(Plain) /\ Len(TextOf(r)) = d + 1 + p
             /\ \A k \in 1 .. d : TextOf(r)[k] = Decimal[r.ip][k]
             /\ TextOf(r)[d + 1] = Dot
             /\ \A k \in 1 .. p : TextOf(r)[d + 1 + k] = Decimal[r.port][k]
<1>1. \A n \in Nat : Decimal[n] \in Seq(Digits) /\ Decimal[n] # <<>>
  BY DecimalDef DEF Numerals
<1>2. ASSUME NEW a \in Seq(Digits), NEW b \in Seq(Digits), a # <<>>, b # <<>>
      PROVE  LET t == a \o <<Dot>> \o b
             IN  /\ Len(a) \in Nat \ {0} /\ Len(b) \in Nat \ {0}
                 /\ t \in Seq(Plain) /\ Len(t) = Len(a) + 1 + Len(b)
                 /\ \A k \in 1 .. Len(a) : t[k] = a[k]
                 /\ t[Len(a) + 1] = Dot
                 /\ \A k \in 1 .. Len(b) : t[Len(a) + 1 + k] = b[k]
  <2>1. a \in Seq(Plain) /\ b \in Seq(Plain) /\ <<Dot>> \in Seq(Plain)
    BY DEF Plain, Dot, Digits
  <2> QED
    BY <1>2, <2>1
<1> QED
  BY <1>1, <1>2 DEF TextOf

(* A clause that parseFilter makes of a token.                             *)
Parsed(c, s) ==
  /\ DotIn(s) # 0
  /\ c.port = SubSeq(s, DotIn(s) + 1, Len(s))
  /\ \E ip \in Atol(SubSeq(s, 1, DotIn(s) - 1)) : c.host = Octets(ip)

(* What atol may return.                                                   *)
LEMMA AtolReturns ==
  ASSUME NEW d \in Seq(Digits)
  PROVE  /\ Atol(d) \subseteq Nat
         /\ Atol(d) \subseteq {Number[d]} \cup (IF Number[d] > LongMax THEN {LongMax} ELSE {})
<1>1. Number[d] \in Nat /\ LongMax \in Nat
  BY NumberDef, FilterAssumption
<1> QED
  BY <1>1 DEF Atol

(* A clause has the bytes of an address and the characters of a port.      *)
LEMMA ParsedType ==
  ASSUME NEW s \in Seq(Characters), \A k \in 1 .. Len(s) : s[k] # Dash, DotIn(s) # 0,
         NEW ip \in Atol(SubSeq(s, 1, DotIn(s) - 1))
  PROVE  /\ Octets(ip) \in [0 .. 3 -> 0 .. Octet - 1]
         /\ SubSeq(s, DotIn(s) + 1, Len(s)) \in Seq(0 .. Dot)
<1> DEFINE d == DotIn(s)
<1>1. /\ d \in 1 .. Len(s) /\ Len(s) \in Nat
      /\ \A k \in 1 .. Len(s) : s[k] = Dot => d <= k
  BY DotFound
<1>2. \A k \in 1 .. Len(s) : s[k] \in Plain
  BY DEF Plain, Characters, Dash
<1> HIDE DEF d
<1>3. SubSeq(s, d + 1, Len(s)) \in Seq(Plain)
  BY <1>1, <1>2, SubSeqProperties
<1>4. SubSeq(s, 1, d - 1) \in Seq(Digits)
  <2>1. \A k \in 1 .. d - 1 : s[k] \in Digits
    BY <1>1, <1>2 DEF Digits, Plain, Dot
  <2> QED
    BY <1>1, <2>1, SubSeqProperties
<1>5. ip \in Nat
  BY <1>4, AtolReturns DEF d
<1> QED
  BY <1>3, <1>5, OctetsStand DEF d, Plain, Dot

(* A clause parsed from the text of an address is made from it: the number *)
(* is right, or the largest long.                                          *)
LEMMA ParsedMadeFrom ==
  ASSUME NEW r, r.ip \in Addresses, r.port \in Nat, NEW c, Parsed(c, TextOf(r))
  PROVE  MadeFrom(c, r)
<1> DEFINE t == TextOf(r)
           a == Decimal[r.ip]
           b == Decimal[r.port]
           d == Len(a)
<1>0. r.ip \in Nat
  BY FilterAssumption DEF Addresses
<1>1. /\ a \in Seq(Digits) /\ b \in Seq(Digits) /\ d \in Nat \ {0} /\ Len(b) \in Nat \ {0}
      /\ t \in Seq(Plain) /\ Len(t) = d + 1 + Len(b)
      /\ \A k \in 1 .. d : t[k] = a[k]
      /\ t[d + 1] = Dot
      /\ \A k \in 1 .. Len(b) : t[d + 1 + k] = b[k]
  BY <1>0, TextShape
<1>2. t \in Seq(Characters)
  BY <1>1 DEF Characters, Plain
<1> HIDE DEF t, a, b, d
<1>3. DotIn(t) = d + 1
  <2>1. /\ DotIn(t) \in 0 .. Len(t)
        /\ \A k \in 1 .. Len(t) : t[k] = Dot => DotIn(t) # 0 /\ DotIn(t) <= k
        /\ DotIn(t) # 0 => t[DotIn(t)] = Dot
    BY <1>2, DotFound
  <2>2. DotIn(t) \in 1 .. d + 1
    BY <1>1, <2>1
  <2>3. \A k \in 1 .. d : t[k] # Dot
    <3>0. a \in Seq(Digits) /\ d = Len(a)
      BY <1>1 DEF d
    <3>1. \A k \in 1 .. d : a[k] \in Digits
      BY <3>0
    <3>2. \A x \in Digits : x # Dot
      BY DEF Digits, Dot
    <3> QED
      BY <1>1, <3>1, <3>2
  <2> QED
    BY <1>1, <2>1, <2>2, <2>3
<1>4. SubSeq(t, 1, d) = a
  <2>1. 1 \in 1 .. Len(t) + 1 /\ d \in 1 - 1 .. Len(t) /\ Len(a) = d /\ a \in Seq(Plain)
    BY <1>1 DEF d, Digits, Plain
  <2>2. /\ SubSeq(t, 1, d) \in Seq(Plain) /\ Len(SubSeq(t, 1, d)) = d - 1 + 1
        /\ \A k \in 1 .. d - 1 + 1 : SubSeq(t, 1, d)[k] = t[1 + k - 1]
    BY <1>1, <2>1, Part
  <2> DEFINE q == SubSeq(t, 1, d)
  <2> HIDE DEF q
  <2>3. q \in Seq(Plain) /\ Len(q) = Len(a) /\ \A k \in 1 .. Len(q) : q[k] = a[k]
    BY <1>1, <2>1, <2>2 DEF q
  <2>4. q = a
    BY <2>1, <2>3
  <2> QED
    BY <2>4 DEF q
<1>5. SubSeq(t, d + 2, Len(t)) = b
  <2>1. d + 2 \in 1 .. Len(t) + 1 /\ Len(t) \in d + 2 - 1 .. Len(t) /\ b \in Seq(Plain)
    BY <1>1 DEF Digits, Plain
  <2>2. /\ SubSeq(t, d + 2, Len(t)) \in Seq(Plain)
        /\ Len(SubSeq(t, d + 2, Len(t))) = Len(t) - (d + 2) + 1
        /\ \A k \in 1 .. Len(t) - (d + 2) + 1 : SubSeq(t, d + 2, Len(t))[k] = t[d + 2 + k - 1]
    BY <1>1, <2>1, Part
  <2>3. \A k \in 1 .. Len(b) : d + 2 + k - 1 = d + 1 + k
    BY <1>1
  <2> QED
    BY <1>1, <2>1, <2>2, <2>3
<1>6. Number[a] = r.ip /\ LongMax \in Nat
  BY <1>0, DecimalRead, FilterAssumption DEF a
<1>7. PICK ip \in Atol(a) : c.host = Octets(ip)
  <2>1. DotIn(t) - 1 = d
    BY <1>1, <1>3
  <2>2. \E ip \in Atol(SubSeq(t, 1, DotIn(t) - 1)) : c.host = Octets(ip)
    BY DEF Parsed, t
  <2>3. SubSeq(t, 1, DotIn(t) - 1) = a
    BY <1>4, <2>1
  <2> QED
    BY <2>2, <2>3, Zenon
<1>8. c.port = b
  <2>1. d + 1 + 1 = d + 2
    BY <1>1
  <2>2. c.port = SubSeq(t, DotIn(t) + 1, Len(t))
    BY DEF Parsed, t
  <2> QED
    BY <1>3, <1>5, <2>1, <2>2
<1>9. ip \in {r.ip} \cup (IF r.ip > LongMax THEN {LongMax} ELSE {})
  BY <1>1, <1>6, <1>7, AtolReturns
<1>10. HostNumber(Octets(ip)) = ip
  <2>1. ip \in Addresses
    <3>1. \A n \in Addresses, l \in Nat : l < n => l \in Addresses
      <4> DEFINE top == (Octet * Octet * Octet * Octet) - 1
      <4>1. Octet \in Nat
        BY FilterAssumption
      <4>2. top \in Int
        BY <4>1
      <4> HIDE DEF top
      <4>3. \A n \in 0 .. top, l \in Nat : l < n => l \in 0 .. top
        BY <4>2
      <4> QED
        BY <4>3 DEF Addresses, top
    <3> QED
      BY <1>0, <1>6, <1>9, <3>1
  <2> QED
    BY <1>0, <1>6, <1>9, <2>1, OctetsStand
<1> QED
  BY <1>7, <1>8, <1>9, <1>10 DEF MadeFrom, IsFor, InsteadOf, b

-----------------------------------------------------------------------------
(* The pieces of a text between dashes.                                    *)

(* What lies between two dashes, or before the first or after the last     *)
(* one.                                                                    *)
Piece(t, i, j) == Stretch(t, i, j) /\ (i = 1 \/ t[i - 1] = Dash)

(* Two pieces that are not apart are one.                                  *)
LEMMA PieceUnique ==
  ASSUME NEW t \in Seq(Characters), NEW i, NEW j, NEW a, NEW b,
         Piece(t, i, j), Piece(t, a, b), i <= b, a <= j
  PROVE  i = a /\ j = b
<1>1. /\ Len(t) \in Nat /\ i \in 1 .. Len(t) /\ j \in i .. Len(t)
      /\ a \in 1 .. Len(t) /\ b \in a .. Len(t)
  BY DEF Piece, Stretch
<1>2. /\ \A k \in i .. j : t[k] # Dash
      /\ \A k \in a .. b : t[k] # Dash
      /\ i = 1 \/ t[i - 1] = Dash
      /\ a = 1 \/ t[a - 1] = Dash
      /\ j = Len(t) \/ t[j + 1] = Dash
      /\ b = Len(t) \/ t[b + 1] = Dash
  BY DEF Piece, Stretch
<1>3. i = a
  <2>1. CASE i < a
    <3>1. a - 1 \in i .. j
      BY <1>1, <2>1
    <3> QED
      BY <1>1, <1>2, <2>1, <3>1
  <2>2. CASE a < i
    <3>1. i - 1 \in a .. b
      BY <1>1, <2>2
    <3> QED
      BY <1>1, <1>2, <2>2, <3>1
  <2> QED
    BY <1>1, <2>1, <2>2
<1>4. j = b
  <2>1. CASE j < b
    <3>1. j + 1 \in a .. b
      BY <1>1, <2>1
    <3> QED
      BY <1>1, <1>2, <2>1, <3>1
  <2>2. CASE b < j
    <3>1. b + 1 \in i .. j
      BY <1>1, <2>2
    <3> QED
      BY <1>1, <1>2, <2>2, <3>1
  <2> QED
    BY <1>1, <2>1, <2>2
<1> QED
  BY <1>3, <1>4

(* t is u and, beginning after place n, a and perhaps a dash, as much as   *)
(* there is room for.                                                      *)
Grown(u, t, n, a) ==
  /\ u \in Seq(Characters) /\ t \in Seq(Characters)
  /\ a \in Seq(Plain) /\ a # <<>>
  /\ n \in Len(u) .. Len(u) + 1 /\ Len(t) \in n .. n + Len(a) + 1
  /\ \A k \in 1 .. Len(u) : t[k] = u[k]
  /\ n # 0 => t[n] = Dash
  /\ \A k \in 1 .. Len(a) : n + k <= Len(t) => t[n + k] = a[k]
  /\ Len(t) = n + Len(a) + 1 => t[Len(t)] = Dash

(* The pieces of a part that two texts share.                              *)
LEMMA SameChars ==
  ASSUME NEW u \in Seq(Characters), NEW t \in Seq(Characters),
         NEW i \in 1 .. Len(t), NEW j \in i .. Len(t), NEW d \in Int,
         i + d \in 1 .. Len(u), j + d \in i + d .. Len(u),
         \A k \in i .. j : t[k] = u[k + d]
  PROVE  SubSeq(t, i, j) = SubSeq(u, i + d, j + d)
<1> DEFINE q == SubSeq(t, i, j)
           r == SubSeq(u, i + d, j + d)
           e == i + d
           f == j + d
<1>1. /\ q \in Seq(Characters) /\ Len(q) = j - i + 1
      /\ \A k \in 1 .. j - i + 1 : q[k] = t[i + k - 1]
  OBVIOUS
<1>2. /\ r \in Seq(Characters) /\ Len(r) = j - i + 1
      /\ \A k \in 1 .. j - i + 1 : r[k] = u[(i + d) + k - 1]
  <2>1. e \in 1 .. Len(u) + 1 /\ f \in e - 1 .. Len(u) /\ f - e + 1 = j - i + 1
    OBVIOUS
  <2> HIDE DEF e, f
  <2>2. /\ SubSeq(u, e, f) \in Seq(Characters) /\ Len(SubSeq(u, e, f)) = f - e + 1
        /\ \A k \in 1 .. f - e + 1 : SubSeq(u, e, f)[k] = u[e + k - 1]
    BY <2>1, Part
  <2> QED
    BY <2>1, <2>2 DEF e, f
<1>3. \A k \in 1 .. j - i + 1 : q[k] = r[k]
  <2> TAKE k \in 1 .. j - i + 1
  <2>1. i + k - 1 \in i .. j /\ (i + k - 1) + d = (i + d) + k - 1
    OBVIOUS
  <2> HIDE DEF q, r
  <2> QED
    BY <1>1, <1>2, <2>1
<1> HIDE DEF q, r
<1>4. q = r
  <2>1. /\ q \in Seq(Characters) /\ r \in Seq(Characters) /\ Len(q) = Len(r)
        /\ \A k \in 1 .. Len(q) : q[k] = r[k]
    BY <1>1, <1>2, <1>3
  <2> QED
    BY <2>1, SameSeq
<1> QED
  BY <1>4 DEF q, r

(* What has been written stays, and one piece is new at most: what has     *)
(* been added, or the part of it for which there was room.                 *)
LEMMA Growth ==
  ASSUME NEW u, NEW t, NEW n, NEW a, Grown(u, t, n, a),
         NEW i, NEW j, Piece(t, i, j)
  PROVE  \/ Piece(u, i, j) /\ SubSeq(t, i, j) = SubSeq(u, i, j)
         \/ i = n + 1 /\ j = n + Len(a) /\ SubSeq(t, i, j) = a
         \/ i = n + 1 /\ j = Len(t) /\ Len(t) < n + Len(a)
<1>1. /\ u \in Seq(Characters) /\ t \in Seq(Characters)
      /\ a \in Seq(Plain) /\ a # <<>> /\ Len(a) \in Nat \ {0}
      /\ Len(u) \in Nat /\ Len(t) \in Nat
      /\ n \in Len(u) .. Len(u) + 1 /\ Len(t) \in n .. n + Len(a) + 1
  BY DEF Grown
<1>2. /\ \A k \in 1 .. Len(u) : t[k] = u[k]
      /\ n # 0 => t[n] = Dash
      /\ \A k \in 1 .. Len(a) : n + k <= Len(t) => t[n + k] = a[k]
      /\ Len(t) = n + Len(a) + 1 => t[Len(t)] = Dash
  BY DEF Grown
<1>3. /\ i \in 1 .. Len(t) /\ j \in i .. Len(t)
      /\ \A k \in i .. j : t[k] # Dash
      /\ j = Len(t) \/ t[j + 1] = Dash
      /\ i = 1 \/ t[i - 1] = Dash
  BY DEF Piece, Stretch
<1>4. \A k \in 1 .. Len(a) : a[k] # Dash
  <2>1. \A k \in 1 .. Len(a) : a[k] \in Plain
    BY <1>1
  <2>2. \A x \in Plain : x # Dash
    BY DEF Plain, Dash
  <2> QED
    BY <2>1, <2>2
<1>5. CASE i <= n
  <2>1. j < n
    <3> SUFFICES ASSUME n <= j PROVE FALSE
      BY <1>1, <1>3
    <3>1. n \in i .. j /\ n # 0
      BY <1>1, <1>3, <1>5
    <3> QED
      BY <1>2, <1>3, <3>1
  <2>2. i \in 1 .. Len(u) /\ j \in i .. Len(u)
    BY <1>1, <1>3, <1>5, <2>1
  <2>3. \A k \in i .. j : t[k] = u[k] /\ u[k] # Dash
    BY <1>1, <1>2, <1>3, <2>2
  <2>4. j = Len(u) \/ u[j + 1] = Dash
    <3> SUFFICES ASSUME j # Len(u) PROVE u[j + 1] = Dash
      OBVIOUS
    <3>1. j + 1 \in 1 .. Len(u) /\ j # Len(t)
      BY <1>1, <1>3, <2>1, <2>2
    <3> QED
      BY <1>2, <1>3, <3>1
  <2>5. i = 1 \/ u[i - 1] = Dash
    <3> SUFFICES ASSUME i # 1 PROVE u[i - 1] = Dash
      OBVIOUS
    <3>1. i - 1 \in 1 .. Len(u)
      BY <1>1, <1>3, <2>2
    <3> QED
      BY <1>2, <1>3, <3>1
  <2>6. Piece(u, i, j)
    BY <2>2, <2>3, <2>4, <2>5 DEF Piece, Stretch
  <2>7. SubSeq(t, i, j) = SubSeq(u, i, j)
    <3>1. 0 \in Int /\ i + 0 = i /\ j + 0 = j /\ \A k \in i .. j : k + 0 = k
      BY <1>1, <1>3
    <3>2. SubSeq(t, i, j) = SubSeq(u, i + 0, j + 0)
      <4>1. i + 0 \in 1 .. Len(u) /\ j + 0 \in i + 0 .. Len(u)
        BY <2>2, <3>1
      <4>2. \A k \in i .. j : t[k] = u[k + 0]
        BY <2>3, <3>1
      <4> QED
        BY <1>1, <1>3, <3>1, <4>1, <4>2, SameChars
    <3> QED
      BY <3>1, <3>2
  <2> QED
    BY <2>6, <2>7
<1>6. CASE i > n
  <2>1. i = n + 1
    <3> SUFFICES ASSUME i > n + 1 PROVE FALSE
      BY <1>1, <1>3, <1>6
    <3>1. i - 1 - n \in 1 .. Len(a) /\ n + (i - 1 - n) = i - 1 /\ n + (i - 1 - n) <= Len(t)
      <4>1. i <= n + Len(a) + 1
        BY <1>1, <1>3
      <4> QED
        BY <1>1, <1>3, <4>1
    <3>2. t[i - 1] = a[i - 1 - n] /\ a[i - 1 - n] # Dash /\ i # 1
      BY <1>1, <1>2, <1>4, <3>1
    <3> QED
      BY <1>3, <3>2
  <2>2. j <= n + Len(a)
    <3> SUFFICES ASSUME j = n + Len(a) + 1 PROVE FALSE
      BY <1>1, <1>3
    <3>1. j = Len(t) /\ j \in i .. j
      BY <1>1, <1>3
    <3> QED
      BY <1>2, <1>3, <3>1
  <2>3. j = n + Len(a) \/ j = Len(t)
    <3> SUFFICES ASSUME j < n + Len(a), j < Len(t) PROVE FALSE
      <4>1. j \in Nat /\ n + Len(a) \in Nat /\ Len(t) \in Nat /\ j <= n + Len(a) /\ j <= Len(t)
        BY <1>1, <1>3, <2>2
      <4> QED
        BY <4>1
    <3>1. j + 1 - n \in 1 .. Len(a) /\ n + (j + 1 - n) = j + 1 /\ n + (j + 1 - n) <= Len(t)
      BY <1>1, <1>3, <2>1
    <3>2. t[j + 1] = a[j + 1 - n] /\ a[j + 1 - n] # Dash
      BY <1>2, <1>4, <3>1
    <3> QED
      BY <1>3, <3>2
  <2>4. CASE j = n + Len(a)
    <3>1. SubSeq(t, i, j) = a
      <4> DEFINE q == SubSeq(t, i, j)
      <4>1. /\ q \in Seq(Characters) /\ Len(q) = j - i + 1
            /\ \A k \in 1 .. j - i + 1 : q[k] = t[i + k - 1]
        BY <1>1, <1>3
      <4>2. j - i + 1 = Len(a) /\ a \in Seq(Characters)
        BY <1>1, <2>1, <2>4 DEF Plain, Characters
      <4>3. \A k \in 1 .. Len(a) : i + k - 1 = n + k /\ n + k <= Len(t)
        BY <1>1, <1>3, <2>1, <2>4
      <4> HIDE DEF q
      <4>4. \A k \in 1 .. Len(a) : q[k] = a[k]
        BY <1>2, <4>1, <4>2, <4>3
      <4>5. q = a
        BY <4>1, <4>2, <4>4
      <4> QED
        BY <4>5 DEF q
    <3> QED
      BY <2>1, <2>4, <3>1
  <2>5. CASE j # n + Len(a)
    BY <1>1, <1>3, <2>1, <2>2, <2>3, <2>5
  <2> QED
    BY <2>4, <2>5
<1> QED
  BY <1>1, <1>3, <1>5, <1>6

(* snprintf keeps what fits.                                               *)
LEMMA FitShape ==
  ASSUME NEW s \in Seq(Characters)
  PROVE  /\ Fit(s) \in Seq(Characters) /\ Len(Fit(s)) <= TextRoom
         /\ Len(Fit(s)) = IF Len(s) < TextRoom THEN Len(s) ELSE TextRoom
         /\ \A k \in 1 .. Len(Fit(s)) : Fit(s)[k] = s[k]
<1> DEFINE m == IF Len(s) < TextRoom THEN Len(s) ELSE TextRoom
<1>1. TextRoom \in Nat /\ Len(s) \in Nat /\ m \in 0 .. Len(s) /\ m <= TextRoom
  BY FilterAssumption
<1>2. Fit(s) = SubSeq(s, 1, m)
  BY DEF Fit
<1> HIDE DEF m
<1>3. 1 \in 1 .. Len(s) + 1 /\ m \in 1 - 1 .. Len(s)
  BY <1>1
<1>4. /\ Fit(s) \in Seq(Characters) /\ Len(Fit(s)) = m - 1 + 1
      /\ \A k \in 1 .. m - 1 + 1 : Fit(s)[k] = s[1 + k - 1]
  BY <1>2, <1>3, Part
<1>5. Len(Fit(s)) = m /\ \A k \in 1 .. m : Fit(s)[k] = s[k]
  BY <1>1, <1>4
<1> QED
  BY <1>1, <1>4, <1>5 DEF m

(* A text that fills the buffer stays as it is.                            *)
LEMMA FitFull ==
  ASSUME NEW u \in Seq(Characters), NEW v \in Seq(Characters), Len(u) = TextRoom
  PROVE  Fit(u \o v) = u
<1>1. /\ u \o v \in Seq(Characters) /\ Len(u \o v) >= Len(u) /\ Len(u) \in Nat
      /\ Len(u \o v) \in Nat /\ TextRoom \in Nat
      /\ \A k \in 1 .. Len(u) : (u \o v)[k] = u[k]
  BY FilterAssumption
<1> DEFINE w == u \o v
<1> HIDE DEF w
<1>2. /\ Fit(w) \in Seq(Characters)
      /\ Len(Fit(w)) = Len(u)
      /\ \A k \in 1 .. Len(Fit(w)) : Fit(w)[k] = w[k]
  <2>1. w \in Seq(Characters) /\ Len(w) >= TextRoom /\ Len(w) \in Nat /\ TextRoom \in Nat
    BY <1>1 DEF w
  <2>2. /\ Fit(w) \in Seq(Characters)
        /\ Len(Fit(w)) = IF Len(w) < TextRoom THEN Len(w) ELSE TextRoom
        /\ \A k \in 1 .. Len(Fit(w)) : Fit(w)[k] = w[k]
    BY <2>1, FitShape
  <2> QED
    BY <2>1, <2>2
<1>3. \A k \in 1 .. Len(Fit(w)) : Fit(w)[k] = u[k]
  BY <1>1, <1>2 DEF w
<1> QED
  BY <1>2, <1>3, SameSeq DEF w

(* An address that filterGetter.exe lists goes after a dash;               *)
LEMMA FitLocal ==
  ASSUME NEW u \in Seq(Characters), Len(u) < TextRoom, NEW a \in Seq(Plain), a # <<>>
  PROVE  LET t == Fit(u \o <<Dash>> \o a)
         IN  /\ Grown(u, t, Len(u) + 1, a) /\ Len(t) <= TextRoom
             /\ Len(t) = TextRoom \/ Len(t) = Len(u) + 1 + Len(a)
<1> DEFINE w == u \o <<Dash>> \o a
           t == Fit(w)
<1>0. /\ a \in Seq(Characters) /\ <<Dash>> \in Seq(Characters)
      /\ Len(a) \in Nat \ {0} /\ Len(u) \in Nat /\ TextRoom \in Nat
  BY FilterAssumption DEF Plain, Characters, Dash
<1>1. /\ w \in Seq(Characters) /\ Len(w) = Len(u) + 1 + Len(a)
      /\ \A k \in 1 .. Len(u) : w[k] = u[k]
      /\ w[Len(u) + 1] = Dash
      /\ \A k \in 1 .. Len(a) : w[Len(u) + 1 + k] = a[k]
  BY <1>0
<1> HIDE DEF w
<1> HIDE DEF t
<1>2. /\ t \in Seq(Characters) /\ Len(t) <= TextRoom /\ Len(t) \in Nat
      /\ Len(t) = IF Len(w) < TextRoom THEN Len(w) ELSE TextRoom
      /\ \A k \in 1 .. Len(t) : t[k] = w[k]
  <2>1. w \in Seq(Characters)
    BY <1>1
  <2>2. /\ t \in Seq(Characters) /\ Len(t) <= TextRoom
        /\ Len(t) = IF Len(w) < TextRoom THEN Len(w) ELSE TextRoom
        /\ \A k \in 1 .. Len(t) : t[k] = w[k]
    BY <2>1, FitShape DEF t
  <2> QED
    BY <2>2
<1>3. Len(t) \in Len(u) + 1 .. Len(u) + 1 + Len(a)
  BY <1>0, <1>1, <1>2
<1>4. /\ \A k \in 1 .. Len(u) : t[k] = u[k]
      /\ t[Len(u) + 1] = Dash
  BY <1>0, <1>1, <1>2, <1>3
<1>5. ASSUME NEW k \in 1 .. Len(a), Len(u) + 1 + k <= Len(t)
      PROVE  t[Len(u) + 1 + k] = a[k]
  <2>1. Len(u) + 1 + k \in 1 .. Len(t)
    BY <1>0, <1>2, <1>5
  <2> QED
    BY <1>1, <1>2, <2>1
<1>6. Grown(u, t, Len(u) + 1, a)
  <2>1. Len(u) + 1 \in Len(u) .. Len(u) + 1 /\ Len(t) \in Len(u) + 1 .. (Len(u) + 1) + Len(a) + 1
    BY <1>0, <1>3
  <2>2. Len(t) # (Len(u) + 1) + Len(a) + 1
    BY <1>0, <1>3
  <2> QED
    BY <1>0, <1>2, <1>4, <1>5, <2>1, <2>2 DEF Grown
<1>7. Len(t) = TextRoom \/ Len(t) = Len(u) + 1 + Len(a)
  BY <1>0, <1>1, <1>2
<1> QED
  BY <1>2, <1>6, <1>7 DEF t, w

(* one that filterGetterForRemoteAddr.exe lists goes before a dash.        *)
LEMMA FitRemote ==
  ASSUME NEW u \in Seq(Characters), Len(u) < TextRoom, NEW a \in Seq(Plain), a # <<>>,
         u # <<>> => u[Len(u)] = Dash
  PROVE  LET t == Fit(u \o (a \o <<Dash>>))
         IN  /\ Grown(u, t, Len(u), a) /\ Len(t) <= TextRoom
             /\ Len(t) = TextRoom \/ Len(t) = Len(u) + Len(a) + 1
<1> DEFINE w == u \o (a \o <<Dash>>)
           t == Fit(w)
<1>0. /\ a \in Seq(Characters) /\ <<Dash>> \in Seq(Characters)
      /\ Len(a) \in Nat \ {0} /\ Len(u) \in Nat /\ TextRoom \in Nat
      /\ Len(u) # 0 => u # <<>>
  BY FilterAssumption DEF Plain, Characters, Dash
<1>1. /\ w \in Seq(Characters) /\ Len(w) = Len(u) + Len(a) + 1
      /\ \A k \in 1 .. Len(u) : w[k] = u[k]
      /\ \A k \in 1 .. Len(a) : w[Len(u) + k] = a[k]
      /\ w[Len(u) + Len(a) + 1] = Dash
  BY <1>0
<1> HIDE DEF w
<1> HIDE DEF t
<1>2. /\ t \in Seq(Characters) /\ Len(t) <= TextRoom /\ Len(t) \in Nat
      /\ Len(t) = IF Len(w) < TextRoom THEN Len(w) ELSE TextRoom
      /\ \A k \in 1 .. Len(t) : t[k] = w[k]
  <2>1. w \in Seq(Characters)
    BY <1>1
  <2>2. /\ t \in Seq(Characters) /\ Len(t) <= TextRoom
        /\ Len(t) = IF Len(w) < TextRoom THEN Len(w) ELSE TextRoom
        /\ \A k \in 1 .. Len(t) : t[k] = w[k]
    BY <2>1, FitShape DEF t
  <2> QED
    BY <2>2
<1>3. Len(t) \in Len(u) .. Len(u) + Len(a) + 1
  BY <1>0, <1>1, <1>2
<1>4. \A k \in 1 .. Len(u) : t[k] = u[k]
  BY <1>0, <1>1, <1>2, <1>3
<1>5. ASSUME NEW k \in 1 .. Len(a), Len(u) + k <= Len(t)
      PROVE  t[Len(u) + k] = a[k]
  <2>1. Len(u) + k \in 1 .. Len(t)
    BY <1>0, <1>2, <1>5
  <2> QED
    BY <1>1, <1>2, <2>1
<1>6. Grown(u, t, Len(u), a)
  <2>1. Len(u) \in Len(u) .. Len(u) + 1
    BY <1>0
  <2>2. Len(t) = Len(u) + Len(a) + 1 => t[Len(t)] = Dash
    <3> SUFFICES ASSUME Len(t) = Len(u) + Len(a) + 1 PROVE t[Len(t)] = Dash
      OBVIOUS
    <3>1. Len(t) \in 1 .. Len(t)
      BY <1>0, <1>2
    <3>2. t[Len(t)] = w[Len(t)] /\ w[Len(t)] = Dash
      BY <1>1, <1>2, <3>1
    <3> QED
      BY <3>2
  <2>3. Len(u) # 0 => t[Len(u)] = Dash
    BY <1>0, <1>4
  <2> QED
    BY <1>0, <1>2, <1>3, <1>4, <1>5, <2>1, <2>2, <2>3 DEF Grown
<1>7. Len(t) = TextRoom \/ Len(t) = Len(u) + Len(a) + 1
  BY <1>0, <1>1, <1>2
<1> QED
  BY <1>2, <1>6, <1>7 DEF t, w

-----------------------------------------------------------------------------
(* What strstr finds.                                                      *)

(* s stands in t after place i.                                            *)
At(s, t, i) == \A k \in 1 .. Len(s) : t[i + k] = s[k]

(* strstr looks at one place after the other.                              *)
LEMMA OccursAt ==
  ASSUME NEW s \in Seq(Characters), NEW t \in Seq(Characters), s # <<>>
  PROVE  OccursIn(s, t) <=> \E i \in 0 .. Len(t) - Len(s) : At(s, t, i)
<1>1. Len(s) \in Nat \ {0} /\ Len(t) \in Nat
  OBVIOUS
<1>2. ASSUME NEW i \in 0 .. Len(t) - Len(s)
      PROVE  SubSeq(t, i + 1, i + Len(s)) = s <=> At(s, t, i)
  <2> DEFINE q == SubSeq(t, i + 1, i + Len(s))
             e == i + 1
             f == i + Len(s)
  <2>1. e \in 1 .. Len(t) + 1 /\ f \in e - 1 .. Len(t) /\ f - e + 1 = Len(s) /\ e \in Nat
    BY <1>1
  <2>2. /\ q \in Seq(Characters) /\ Len(q) = Len(s)
        /\ \A k \in 1 .. Len(s) : q[k] = t[e + k - 1]
    <3> HIDE DEF e, f
    <3>1. /\ SubSeq(t, e, f) \in Seq(Characters) /\ Len(SubSeq(t, e, f)) = f - e + 1
          /\ \A k \in 1 .. f - e + 1 : SubSeq(t, e, f)[k] = t[e + k - 1]
      BY <2>1, Part
    <3> QED
      BY <2>1, <3>1 DEF e, f
  <2>3. \A k \in 1 .. Len(s) : e + k - 1 = i + k
    BY <1>1
  <2> HIDE DEF q, e, f
  <2>4. \A k \in 1 .. Len(s) : q[k] = t[i + k]
    BY <2>2, <2>3
  <2>5. q = s => At(s, t, i)
    BY <2>4 DEF At
  <2>6. At(s, t, i) => q = s
    <3> SUFFICES ASSUME At(s, t, i) PROVE q = s
      OBVIOUS
    <3>1. \A k \in 1 .. Len(q) : q[k] = s[k]
      BY <2>2, <2>4 DEF At
    <3> QED
      BY <2>2, <3>1, SameSeq
  <2> QED
    BY <2>5, <2>6 DEF q
<1> QED
  BY <1>2 DEF OccursIn

(* t begins with u.                                                        *)
Begins(u, t) == Len(u) <= Len(t) /\ \A k \in 1 .. Len(u) : t[k] = u[k]

(* What occurs in a text still does when more has been written.            *)
LEMMA OccursKept ==
  ASSUME NEW s \in Seq(Characters), NEW u \in Seq(Characters), NEW t \in Seq(Characters),
         s # <<>>, Begins(u, t), OccursIn(s, u)
  PROVE  OccursIn(s, t)
<1>1. Len(s) \in Nat \ {0} /\ Len(t) \in Nat /\ Len(u) \in Nat
  OBVIOUS
<1>2. PICK i \in 0 .. Len(u) - Len(s) : At(s, u, i)
  BY OccursAt
<1>3. i \in 0 .. Len(t) - Len(s)
  BY <1>1 DEF Begins
<1>4. At(s, t, i)
  <2>1. \A k \in 1 .. Len(s) : i + k \in 1 .. Len(u)
    BY <1>1
  <2> QED
    BY <1>2, <2>1 DEF At, Begins
<1> QED
  BY <1>3, <1>4, OccursAt

(* A text and a dash.                                                      *)
LEMMA WithDash ==
  ASSUME NEW q \in Seq(Characters)
  PROVE  /\ q \o <<Dash>> \in Seq(Characters) /\ Len(q \o <<Dash>>) = Len(q) + 1
         /\ q \o <<Dash>> # <<>>
         /\ \A k \in 1 .. Len(q) : (q \o <<Dash>>)[k] = q[k]
         /\ (q \o <<Dash>>)[Len(q) + 1] = Dash
<1>1. <<Dash>> \in Seq(Characters)
  BY DEF Dash, Characters
<1> QED
  BY <1>1

(* The lengths.                                                            *)
LEMMA GrownSizes ==
  ASSUME NEW u, NEW t, NEW n, NEW a, Grown(u, t, n, a)
  PROVE  /\ u \in Seq(Characters) /\ t \in Seq(Characters)
         /\ Len(u) \in Nat /\ Len(t) \in Nat /\ n \in Nat /\ Len(a) \in Nat \ {0}
BY DEF Grown

(* What has been added whole occurs in the text, with the dash after it.   *)
LEMMA GrownOccurs ==
  ASSUME NEW u, NEW t, NEW n, NEW a, Grown(u, t, n, a)
  PROVE  /\ Begins(u, t)
         /\ n + Len(a) <= Len(t) => OccursIn(a, t)
         /\ Len(t) = n + Len(a) + 1 => OccursIn(a \o <<Dash>>, t)
<1>1. /\ u \in Seq(Characters) /\ t \in Seq(Characters)
      /\ a \in Seq(Plain) /\ a # <<>> /\ Len(a) \in Nat \ {0}
      /\ Len(u) \in Nat /\ Len(t) \in Nat
      /\ n \in Len(u) .. Len(u) + 1 /\ Len(t) \in n .. n + Len(a) + 1
  BY DEF Grown
<1>2. /\ \A k \in 1 .. Len(u) : t[k] = u[k]
      /\ \A k \in 1 .. Len(a) : n + k <= Len(t) => t[n + k] = a[k]
      /\ Len(t) = n + Len(a) + 1 => t[Len(t)] = Dash
  BY DEF Grown
<1>3. a \in Seq(Characters)
  BY <1>1 DEF Plain, Characters
<1>4. Begins(u, t)
  BY <1>1, <1>2 DEF Begins
<1>5. ASSUME n + Len(a) <= Len(t) PROVE OccursIn(a, t)
  <2>1. n \in 0 .. Len(t) - Len(a)
    BY <1>1, <1>5
  <2>2. At(a, t, n)
    BY <1>1, <1>2, <1>5 DEF At
  <2> QED
    BY <1>1, <1>3, <2>1, <2>2, OccursAt
<1>6. ASSUME Len(t) = n + Len(a) + 1 PROVE OccursIn(a \o <<Dash>>, t)
  <2> DEFINE b == a \o <<Dash>>
  <2>1. /\ b \in Seq(Characters) /\ Len(b) = Len(a) + 1 /\ b # <<>>
        /\ \A k \in 1 .. Len(a) : b[k] = a[k]
        /\ b[Len(a) + 1] = Dash
    BY <1>3, WithDash
  <2> HIDE DEF b
  <2>2. n \in 0 .. Len(t) - Len(b)
    BY <1>1, <1>6, <2>1
  <2>3. At(b, t, n)
    <3>1. ASSUME NEW k \in 1 .. Len(a) PROVE t[n + k] = b[k]
      <4>1. n + k <= Len(t)
        BY <1>1, <1>6
      <4> QED
        BY <1>2, <2>1, <4>1
    <3>2. t[n + (Len(a) + 1)] = b[Len(a) + 1]
      <4>1. n + (Len(a) + 1) = Len(t)
        BY <1>1, <1>6
      <4> QED
        BY <1>2, <1>6, <2>1, <4>1
    <3>3. \A k \in 1 .. Len(b) : k \in 1 .. Len(a) \/ k = Len(a) + 1
      BY <1>1, <2>1
    <3> QED
      BY <3>1, <3>2, <3>3 DEF At
  <2> QED
    BY <1>1, <2>1, <2>2, <2>3, OccursAt DEF b
<1> QED
  BY <1>4, <1>5, <1>6

(* The characters of a piece.                                              *)
LEMMA PieceChars ==
  ASSUME NEW t \in Seq(Characters), NEW i, NEW j, Piece(t, i, j)
  PROVE  /\ SubSeq(t, i, j) \in Seq(Characters) /\ SubSeq(t, i, j) # <<>>
         /\ Len(SubSeq(t, i, j)) = j - i + 1 /\ Len(SubSeq(t, i, j)) \in Nat \ {0}
         /\ \A k \in 1 .. j - i + 1 : SubSeq(t, i, j)[k] = t[i - 1 + k]
         /\ \A k \in 1 .. j - i + 1 : SubSeq(t, i, j)[k] # Dash
         /\ i \in 1 .. Len(t) /\ j \in i .. Len(t) /\ Len(t) \in Nat
<1> DEFINE q == SubSeq(t, i, j)
<1>1. /\ i \in 1 .. Len(t) /\ j \in i .. Len(t) /\ Len(t) \in Nat
      /\ \A k \in i .. j : t[k] # Dash
  BY DEF Piece, Stretch
<1>2. i \in 1 .. Len(t) + 1 /\ j \in i - 1 .. Len(t)
  BY <1>1
<1>3. /\ q \in Seq(Characters) /\ Len(q) = j - i + 1
      /\ \A k \in 1 .. j - i + 1 : q[k] = t[i + k - 1]
  BY <1>2, Part
<1> HIDE DEF q
<1>4. q # <<>> /\ Len(q) \in Nat \ {0}
  BY <1>1, <1>3
<1>5. \A k \in 1 .. j - i + 1 : i + k - 1 = i - 1 + k /\ i + k - 1 \in i .. j
  BY <1>1
<1>6. \A k \in 1 .. j - i + 1 : q[k] = t[i - 1 + k] /\ q[k] # Dash
  BY <1>1, <1>3, <1>5
<1> QED
  BY <1>1, <1>3, <1>4, <1>6 DEF q

(* A piece occurs in its text, with a dash unless it is the last.          *)
LEMMA PieceOccurs ==
  ASSUME NEW t \in Seq(Characters), NEW i, NEW j, Piece(t, i, j)
  PROVE  /\ OccursIn(SubSeq(t, i, j), t)
         /\ j # Len(t) => OccursIn(SubSeq(t, i, j) \o <<Dash>>, t)
<1> DEFINE q == SubSeq(t, i, j)
<1>1. /\ q \in Seq(Characters) /\ q # <<>>
      /\ Len(q) = j - i + 1 /\ Len(q) \in Nat \ {0}
      /\ \A k \in 1 .. j - i + 1 : q[k] = t[i - 1 + k]
      /\ i \in 1 .. Len(t) /\ j \in i .. Len(t) /\ Len(t) \in Nat
  BY PieceChars
<1> HIDE DEF q
<1>2. OccursIn(q, t)
  <2>1. i - 1 \in 0 .. Len(t) - Len(q)
    BY <1>1
  <2>2. At(q, t, i - 1)
    BY <1>1 DEF At
  <2> QED
    BY <1>1, <2>1, <2>2, OccursAt
<1>3. ASSUME j # Len(t) PROVE OccursIn(q \o <<Dash>>, t)
  <2> DEFINE b == q \o <<Dash>>
  <2>1. /\ b \in Seq(Characters) /\ Len(b) = Len(q) + 1 /\ b # <<>>
        /\ \A k \in 1 .. Len(q) : b[k] = q[k]
        /\ b[Len(q) + 1] = Dash
    BY <1>1, WithDash
  <2> HIDE DEF b
  <2>2. i - 1 \in 0 .. Len(t) - Len(b)
    BY <1>1, <1>3, <2>1
  <2>3. At(b, t, i - 1)
    <3>1. \A k \in 1 .. Len(q) : t[i - 1 + k] = b[k]
      BY <1>1, <2>1
    <3>2. t[i - 1 + (Len(q) + 1)] = b[Len(q) + 1]
      <4>1. i - 1 + (Len(q) + 1) = j + 1
        BY <1>1
      <4>2. t[j + 1] = Dash
        BY <1>3 DEF Piece, Stretch
      <4> QED
        BY <2>1, <4>1, <4>2
    <3>3. \A k \in 1 .. Len(b) : k \in 1 .. Len(q) \/ k = Len(q) + 1
      BY <1>1, <2>1
    <3> QED
      BY <3>1, <3>2, <3>3 DEF At
  <2> QED
    BY <1>1, <2>1, <2>2, <2>3, OccursAt DEF b
<1> QED
  BY <1>2, <1>3 DEF q

(* What has no dash is in one piece.                                       *)
LEMMA PieceAround ==
  ASSUME NEW t \in Seq(Characters), NEW i \in 1 .. Len(t), NEW j \in i .. Len(t),
         \A k \in i .. j : t[k] # Dash
  PROVE  \E a \in 1 .. i, b \in j .. Len(t) : Piece(t, a, b)
<1> DEFINE B == {m \in j .. Len(t) : m = Len(t) \/ t[m + 1] = Dash}
           A == {m \in 0 .. i - 1 : i - m = 1 \/ t[i - m - 1] = Dash}
<1>1. Len(t) \in Nat /\ i \in Nat /\ j \in Nat
  OBVIOUS
<1>2. PICK b \in B : \A m \in B : b <= m
  <2>1. B \in SUBSET Nat /\ Len(t) \in B
    OBVIOUS
  <2> HIDE DEF B
  <2> QED
    BY <2>1, NatLeast
<1>3. PICK d \in A : \A m \in A : d <= m
  <2>1. A \in SUBSET Nat
    BY <1>1
  <2>2. i - 1 \in A
    BY <1>1
  <2> HIDE DEF A
  <2> QED
    BY <2>1, <2>2, NatLeast
<1>4. b \in j .. Len(t) /\ (b = Len(t) \/ t[b + 1] = Dash)
  BY <1>2
<1>5. d \in 0 .. i - 1 /\ (i - d = 1 \/ t[i - d - 1] = Dash)
  BY <1>3
<1>6. \A k \in j + 1 .. b : t[k] # Dash
  <2> SUFFICES ASSUME NEW k \in j + 1 .. b, t[k] = Dash PROVE FALSE
    OBVIOUS
  <2>1. k - 1 \in j .. Len(t) /\ k - 1 + 1 = k /\ ~(b <= k - 1)
    BY <1>1, <1>4
  <2>2. k - 1 \in B
    BY <2>1
  <2> HIDE DEF B
  <2> QED
    BY <1>2, <2>1, <2>2
<1>7. \A k \in i - d .. i - 1 : t[k] # Dash
  <2> SUFFICES ASSUME NEW k \in i - d .. i - 1, t[k] = Dash PROVE FALSE
    OBVIOUS
  <2>1. i - k - 1 \in 0 .. i - 1 /\ i - (i - k - 1) - 1 = k /\ ~(d <= i - k - 1)
    BY <1>1, <1>5
  <2>2. i - k - 1 \in A
    BY <2>1
  <2> HIDE DEF A
  <2> QED
    BY <1>3, <2>1, <2>2
<1> DEFINE a == i - d
<1>8. a \in 1 .. i /\ (a = 1 \/ t[a - 1] = Dash)
  BY <1>1, <1>5
<1>9. \A k \in a .. b : t[k] # Dash
  <2>1. \A k \in a .. b : k \in i - d .. i - 1 \/ k \in i .. j \/ k \in j + 1 .. b
    BY <1>1, <1>4, <1>5
  <2> QED
    BY <1>6, <1>7, <2>1
<1> HIDE DEF a
<1>10. Piece(t, a, b)
  <2>1. a \in 1 .. Len(t) /\ b \in a .. Len(t)
    BY <1>1, <1>4, <1>8
  <2> QED
    BY <1>4, <1>8, <1>9, <2>1 DEF Piece, Stretch
<1> QED
  BY <1>4, <1>8, <1>10

-----------------------------------------------------------------------------
(* What the pieces of a text are.                                          *)

(* What stands there is the text of an address in R.                       *)
IsText(t, i, j, R) == \E r \in R : SubSeq(t, i, j) = TextOf(r)

(* Some piece is a.                                                        *)
Among(u, a) == \E i, j : Piece(u, i, j) /\ SubSeq(u, i, j) = a

(* Every piece is the text of an address; or the last is cut perhaps.      *)
Source(R, t) == \A i, j : Piece(t, i, j) => IsText(t, i, j, R)

(* Of all pieces only the last may be another text: one that was cut.      *)
CutSource(R, t) == \A i, j : Piece(t, i, j) => IsText(t, i, j, R) \/ j = Len(t)

Distinct(t) ==
  \A i, j, a, b :
    Piece(t, i, j) /\ Piece(t, a, b) /\ SubSeq(t, i, j) = SubSeq(t, a, b) => j = b

(* Where pieces end that are the text of no address of R.                  *)
WrongEnds(R, t) == {j \in 1 .. Len(t) : \E i : Piece(t, i, j) /\ ~IsText(t, i, j, R)}

(* The text with one more address has its pieces from one more;            *)
LEMMA GrownSource ==
  ASSUME NEW u, NEW t, NEW n, NEW r, Grown(u, t, n, TextOf(r)),
         NEW R, NEW Q, R \subseteq Q, r \in Q, Source(R, u)
  PROVE  /\ CutSource(Q, t)
         /\ n + Len(TextOf(r)) <= Len(t) => Source(Q, t)
<1> DEFINE a == TextOf(r)
<1>1. Len(t) \in Nat /\ n + Len(a) \in Nat
  BY GrownSizes
<1>2. ASSUME NEW i, NEW j, Piece(t, i, j)
      PROVE  IsText(t, i, j, Q) \/ (j = Len(t) /\ Len(t) < n + Len(a))
  <2>1. \/ Piece(u, i, j) /\ SubSeq(t, i, j) = SubSeq(u, i, j)
        \/ i = n + 1 /\ j = n + Len(a) /\ SubSeq(t, i, j) = a
        \/ i = n + 1 /\ j = Len(t) /\ Len(t) < n + Len(a)
    BY <1>2, Growth
  <2>2. CASE Piece(u, i, j) /\ SubSeq(t, i, j) = SubSeq(u, i, j)
    <3>1. IsText(u, i, j, R)
      BY <2>2 DEF Source
    <3> QED
      BY <2>2, <3>1 DEF IsText
  <2>3. CASE i = n + 1 /\ j = n + Len(a) /\ SubSeq(t, i, j) = a
    BY <2>3 DEF IsText
  <2> HIDE DEF a
  <2> QED
    BY <2>1, <2>2, <2>3
<1>3. CutSource(Q, t)
  BY <1>2 DEF CutSource
<1>4. ASSUME n + Len(a) <= Len(t) PROVE Source(Q, t)
  <2>1. ~(Len(t) < n + Len(a))
    BY <1>1, <1>4
  <2> QED
    BY <1>2, <2>1 DEF Source
<1> QED
  BY <1>3, <1>4

(* they stay distinct when the address was not there;                      *)
LEMMA GrownDistinct ==
  ASSUME NEW u, NEW t, NEW n, NEW a, Grown(u, t, n, a), n + Len(a) <= Len(t),
         Distinct(u), ~Among(u, a)
  PROVE  Distinct(t)
<1>1. Len(t) \in Nat /\ n + Len(a) \in Nat /\ ~(Len(t) < n + Len(a))
  BY GrownSizes
<1>2. ASSUME NEW i, NEW j, Piece(t, i, j)
      PROVE  \/ Piece(u, i, j) /\ SubSeq(t, i, j) = SubSeq(u, i, j)
             \/ j = n + Len(a) /\ SubSeq(t, i, j) = a
  <2>1. \/ Piece(u, i, j) /\ SubSeq(t, i, j) = SubSeq(u, i, j)
        \/ i = n + 1 /\ j = n + Len(a) /\ SubSeq(t, i, j) = a
        \/ i = n + 1 /\ j = Len(t) /\ Len(t) < n + Len(a)
    BY <1>2, Growth
  <2> QED
    BY <1>1, <2>1
<1> SUFFICES ASSUME NEW i, NEW j, NEW b, NEW c, Piece(t, i, j), Piece(t, b, c),
                    SubSeq(t, i, j) = SubSeq(t, b, c)
             PROVE  j = c
  BY DEF Distinct
<1> DEFINE x == SubSeq(t, i, j)
           y == SubSeq(t, b, c)
           v == SubSeq(u, i, j)
           w == SubSeq(u, b, c)
<1>3. (Piece(u, i, j) /\ x = v) \/ (j = n + Len(a) /\ x = a)
  BY <1>2
<1>4. (Piece(u, b, c) /\ y = w) \/ (c = n + Len(a) /\ y = a)
  BY <1>2
<1>5. (Piece(u, i, j) => v # a) /\ (Piece(u, b, c) => w # a)
  BY DEF Among
<1>6. Piece(u, i, j) /\ Piece(u, b, c) /\ v = w => j = c
  BY DEF Distinct
<1>7. x = y
  OBVIOUS
<1> HIDE DEF x, y, v, w
<1> QED
  BY <1>3, <1>4, <1>5, <1>6, <1>7

(* one end is wrong that was not, at most, and none when all is written.   *)
LEMMA GrownWrong ==
  ASSUME NEW u, NEW t, NEW n, NEW r, Grown(u, t, n, TextOf(r)),
         NEW R, NEW Q, R \subseteq Q
  PROVE  /\ \E e : WrongEnds(Q, t) \subseteq WrongEnds(R, u) \cup {e}
         /\ r \in Q /\ n + Len(TextOf(r)) <= Len(t) => WrongEnds(Q, t) \subseteq WrongEnds(R, u)
<1> DEFINE a == TextOf(r)
           e == IF n + Len(a) <= Len(t) THEN n + Len(a) ELSE Len(t)
<1>1. /\ Len(t) \in Nat /\ n + Len(a) \in Nat /\ Len(u) \in Nat
      /\ u \in Seq(Characters)
  BY DEF Grown
<1>2. ASSUME NEW j \in WrongEnds(Q, t)
      PROVE  \/ j \in WrongEnds(R, u)
             \/ j = e /\ ~(r \in Q /\ n + Len(a) <= Len(t))
  <2>1. PICK i : Piece(t, i, j) /\ ~IsText(t, i, j, Q)
    BY DEF WrongEnds
  <2>2. \/ Piece(u, i, j) /\ SubSeq(t, i, j) = SubSeq(u, i, j)
        \/ i = n + 1 /\ j = n + Len(a) /\ SubSeq(t, i, j) = a
        \/ i = n + 1 /\ j = Len(t) /\ Len(t) < n + Len(a)
    BY <2>1, Growth
  <2>3. CASE Piece(u, i, j) /\ SubSeq(t, i, j) = SubSeq(u, i, j)
    <3>1. ~IsText(u, i, j, R)
      BY <2>1, <2>3 DEF IsText
    <3>2. j \in 1 .. Len(u)
      BY <1>1, <2>3 DEF Piece, Stretch
    <3> QED
      BY <2>3, <3>1, <3>2 DEF WrongEnds
  <2>4. CASE i = n + 1 /\ j = n + Len(a) /\ SubSeq(t, i, j) = a
    <3>1. r \notin Q
      BY <2>1, <2>4 DEF IsText
    <3>2. j <= Len(t)
      BY <1>1, <2>1 DEF Piece, Stretch
    <3> HIDE DEF a
    <3> QED
      BY <2>4, <3>1, <3>2
  <2>5. CASE i = n + 1 /\ j = Len(t) /\ Len(t) < n + Len(a)
    <3> HIDE DEF a
    <3> QED
      BY <1>1, <2>5
  <2> HIDE DEF a, e
  <2> QED
    BY <2>2, <2>3, <2>4, <2>5
<1> HIDE DEF e
<1> QED
  BY <1>2

(* The first dash is cut off.                                              *)
LEMMA TailPieces ==
  ASSUME NEW t \in Seq(Characters), t # <<>>, t[1] = Dash, NEW i, NEW j,
         Piece(Tail(t), i, j)
  PROVE  Piece(t, i + 1, j + 1) /\ SubSeq(Tail(t), i, j) = SubSeq(t, i + 1, j + 1)
<1> DEFINE u == Tail(t)
<1>1. /\ u \in Seq(Characters) /\ Len(u) = Len(t) - 1 /\ Len(t) \in Nat \ {0}
      /\ \A k \in 1 .. Len(u) : u[k] = t[k + 1]
  OBVIOUS
<1>2. Piece(u, i, j)
  OBVIOUS
<1> HIDE DEF u
<1>3. /\ i \in 1 .. Len(u) /\ j \in i .. Len(u)
      /\ \A k \in i .. j : u[k] # Dash
      /\ j = Len(u) \/ u[j + 1] = Dash
      /\ i = 1 \/ u[i - 1] = Dash
  BY <1>2 DEF Piece, Stretch
<1>4. i + 1 \in 1 .. Len(t) /\ j + 1 \in i + 1 .. Len(t)
  BY <1>1, <1>3
<1>5. \A k \in i + 1 .. j + 1 : t[k] # Dash
  <2> TAKE k \in i + 1 .. j + 1
  <2>1. k - 1 \in i .. j /\ k - 1 + 1 = k /\ k - 1 \in 1 .. Len(u)
    BY <1>1, <1>3
  <2> QED
    BY <1>1, <1>3, <2>1
<1>6. j + 1 = Len(t) \/ t[j + 1 + 1] = Dash
  <2> SUFFICES ASSUME j + 1 # Len(t) PROVE t[j + 1 + 1] = Dash
    OBVIOUS
  <2>1. j \in Nat /\ Len(u) \in Nat /\ j <= Len(u)
    BY <1>1, <1>3
  <2>2. j # Len(u) /\ j + 1 \in 1 .. Len(u)
    BY <1>1, <2>1
  <2> QED
    BY <1>1, <1>3, <2>2
<1>7. i + 1 = 1 \/ t[i + 1 - 1] = Dash
  <2>1. i + 1 - 1 = i
    BY <1>3
  <2>2. CASE i = 1
    BY <2>1, <2>2
  <2>3. CASE i # 1
    <3>1. i - 1 \in 1 .. Len(u) /\ i - 1 + 1 = i
      BY <1>1, <1>3, <2>3
    <3> QED
      BY <1>1, <1>3, <2>1, <2>3, <3>1
  <2> QED
    BY <2>2, <2>3
<1>8. Piece(t, i + 1, j + 1)
  BY <1>4, <1>5, <1>6, <1>7 DEF Piece, Stretch
<1>9. SubSeq(u, i, j) = SubSeq(t, i + 1, j + 1)
  <2>1. \A k \in i .. j : u[k] = t[k + 1]
    BY <1>1, <1>3
  <2>2. 1 \in Int
    OBVIOUS
  <2> QED
    BY <1>1, <1>3, <1>4, <2>1, <2>2, SameChars
<1> QED
  BY <1>8, <1>9 DEF u

(* It is part of no address.                                               *)
LEMMA TailOccurs ==
  ASSUME NEW t \in Seq(Characters), t # <<>>, t[1] = Dash,
         NEW s \in Seq(Characters), s # <<>>, s[1] # Dash, OccursIn(s, t)
  PROVE  OccursIn(s, Tail(t))
<1> DEFINE u == Tail(t)
<1>1. /\ u \in Seq(Characters) /\ Len(u) = Len(t) - 1 /\ Len(t) \in Nat \ {0}
      /\ \A k \in 1 .. Len(u) : u[k] = t[k + 1]
  OBVIOUS
<1> HIDE DEF u
<1>2. Len(s) \in Nat \ {0}
  OBVIOUS
<1>3. PICK i \in 0 .. Len(t) - Len(s) : At(s, t, i)
  BY OccursAt
<1>4. i # 0
  <2> SUFFICES ASSUME i = 0 PROVE FALSE
    OBVIOUS
  <2>1. 1 \in 1 .. Len(s) /\ 0 + 1 = 1
    BY <1>2
  <2>2. t[0 + 1] = s[1]
    BY <1>3, <2>1 DEF At
  <2> QED
    BY <2>1, <2>2
<1>5. i - 1 \in 0 .. Len(u) - Len(s)
  BY <1>1, <1>2, <1>4
<1>6. At(s, u, i - 1)
  <2>1. ASSUME NEW k \in 1 .. Len(s) PROVE u[i - 1 + k] = s[k]
    <3>1. i - 1 + k \in 1 .. Len(u) /\ i - 1 + k + 1 = i + k
      BY <1>1, <1>2, <1>5
    <3>2. t[i + k] = s[k]
      BY <1>3 DEF At
    <3> QED
      BY <1>1, <3>1, <3>2
  <2> QED
    BY <2>1 DEF At
<1> QED
  BY <1>1, <1>5, <1>6, OccursAt DEF u

(* The last dash is cut off.                                               *)
LEMMA FrontPieces ==
  ASSUME NEW t \in Seq(Characters), t # <<>>, Last(t) = Dash
  PROVE  /\ Front(t) \in Seq(Characters) /\ Len(Front(t)) = Len(t) - 1
         /\ Front(t) \o <<Dash>> = t
         /\ \A i, j : Piece(Front(t), i, j) =>
              Piece(t, i, j) /\ SubSeq(Front(t), i, j) = SubSeq(t, i, j)
<1> DEFINE u == Front(t)
<1>1. /\ u \in Seq(Characters) /\ Len(u) = Len(t) - 1 /\ Len(t) \in Nat \ {0}
      /\ \A k \in 1 .. Len(t) - 1 : u[k] = t[k]
      /\ t[Len(t)] = Dash
  BY FrontLast
<1> HIDE DEF u
<1>2. u \o <<Dash>> = t
  <2> DEFINE v == u \o <<Dash>>
  <2>1. /\ v \in Seq(Characters) /\ Len(v) = Len(u) + 1
        /\ \A k \in 1 .. Len(u) : v[k] = u[k]
        /\ v[Len(u) + 1] = Dash
    BY <1>1, WithDash
  <2> HIDE DEF v
  <2>2. Len(v) = Len(t)
    BY <1>1, <2>1
  <2>3. \A k \in 1 .. Len(v) : v[k] = t[k]
    <3>1. \A k \in 1 .. Len(v) : (k \in 1 .. Len(u) /\ k \in 1 .. Len(t) - 1) \/ (k = Len(u) + 1 /\ k = Len(t))
      BY <1>1, <2>2
    <3> QED
      BY <1>1, <2>1, <3>1
  <2> QED
    BY <2>1, <2>2, <2>3, SameSeq DEF v
<1>3. ASSUME NEW i, NEW j, Piece(u, i, j)
      PROVE  Piece(t, i, j) /\ SubSeq(u, i, j) = SubSeq(t, i, j)
  <2>1. /\ i \in 1 .. Len(u) /\ j \in i .. Len(u)
        /\ \A k \in i .. j : u[k] # Dash
        /\ j = Len(u) \/ u[j + 1] = Dash
        /\ i = 1 \/ u[i - 1] = Dash
    BY <1>3 DEF Piece, Stretch
  <2>2. i \in 1 .. Len(t) /\ j \in i .. Len(t)
    BY <1>1, <2>1
  <2>3. \A k \in i .. j : u[k] = t[k] /\ t[k] # Dash
    BY <1>1, <2>1
  <2>4. t[j + 1] = Dash
    <3>1. CASE j = Len(u)
      <4>1. j + 1 = Len(t)
        BY <1>1, <3>1
      <4> QED
        BY <1>1, <4>1
    <3>2. CASE j # Len(u)
      <4>1. j + 1 \in 1 .. Len(t) - 1
        <5>1. j \in Nat /\ Len(u) \in Nat /\ j <= Len(u)
          BY <1>1, <2>1
        <5> QED
          BY <1>1, <3>2, <5>1
      <4> QED
        BY <1>1, <2>1, <3>2, <4>1
    <3> QED
      BY <3>1, <3>2
  <2>5. i = 1 \/ t[i - 1] = Dash
    <3> SUFFICES ASSUME i # 1 PROVE t[i - 1] = Dash
      OBVIOUS
    <3>1. i - 1 \in 1 .. Len(t) - 1
      BY <1>1, <2>1
    <3> QED
      BY <1>1, <2>1, <3>1
  <2>6. Piece(t, i, j)
    BY <2>2, <2>3, <2>4, <2>5 DEF Piece, Stretch
  <2>7. SubSeq(u, i, j) = SubSeq(t, i, j)
    <3>1. /\ 0 \in Int /\ i + 0 = i /\ j + 0 = j
          /\ \A k \in i .. j : k + 0 = k
      BY <1>1, <2>1
    <3>2. /\ i + 0 \in 1 .. Len(t) /\ j + 0 \in i + 0 .. Len(t)
          /\ \A k \in i .. j : u[k] = t[k + 0]
      BY <2>2, <2>3, <3>1
    <3>3. SubSeq(u, i, j) = SubSeq(t, i + 0, j + 0)
      BY <1>1, <2>1, <3>1, <3>2, SameChars
    <3> QED
      BY <3>1, <3>3
  <2> QED
    BY <2>6, <2>7
<1> QED
  BY <1>1, <1>2, <1>3 DEF u

-----------------------------------------------------------------------------
(* strtok_r takes the pieces one after the other.                          *)

(* Between two pieces, or at an end of the text.                           *)
Between(t, p) == p \in 0 .. Len(t) /\ (p = 0 \/ p = Len(t) \/ t[p] = Dash)

(* What strtok_r has left when it stands at place p.                       *)
Remainder(t, p) == SubSeq(t, p + 1, Len(t))

(* The characters that are left.                                           *)
LEMMA RemainderChars ==
  ASSUME NEW t \in Seq(Characters), NEW p \in 0 .. Len(t)
  PROVE  /\ Remainder(t, p) \in Seq(Characters) /\ Len(Remainder(t, p)) = Len(t) - p
         /\ Len(t) \in Nat /\ p \in Nat
         /\ \A k \in 1 .. Len(t) - p : Remainder(t, p)[k] = t[k + p]
<1>1. Len(t) \in Nat /\ p \in Nat /\ p + 1 \in 1 .. Len(t) + 1 /\ Len(t) \in p + 1 - 1 .. Len(t)
  OBVIOUS
<1>2. /\ Remainder(t, p) \in Seq(Characters) /\ Len(Remainder(t, p)) = Len(t) - (p + 1) + 1
      /\ \A k \in 1 .. Len(t) - (p + 1) + 1 : Remainder(t, p)[k] = t[p + 1 + k - 1]
  BY <1>1, Part DEF Remainder
<1>3. Len(t) - (p + 1) + 1 = Len(t) - p /\ \A k \in 1 .. Len(t) - p : p + 1 + k - 1 = k + p
  BY <1>1
<1> QED
  BY <1>1, <1>2, <1>3

(* What is left after taking some of what is left.                         *)
LEMMA RemainderOf ==
  ASSUME NEW t \in Seq(Characters), NEW p \in 0 .. Len(t), NEW j \in 1 .. Len(t) - p
  PROVE  SubSeq(Remainder(t, p), j + 2, Len(Remainder(t, p))) =
           Remainder(t, IF j + p = Len(t) THEN Len(t) ELSE j + p + 1)
<1> DEFINE r == Remainder(t, p)
           q == IF j + p = Len(t) THEN Len(t) ELSE j + p + 1
           x == SubSeq(r, j + 2, Len(r))
           y == Remainder(t, q)
<1>1. /\ r \in Seq(Characters) /\ Len(r) = Len(t) - p /\ Len(t) \in Nat /\ p \in Nat
      /\ \A k \in 1 .. Len(t) - p : r[k] = t[k + p]
  BY RemainderChars
<1>0. j \in Nat /\ j + p \in Nat /\ j + p <= Len(t)
  BY <1>1
<1>2. q \in 0 .. Len(t)
  <2>1. j + p # Len(t) => j + p + 1 <= Len(t)
    BY <1>0, <1>1, NatNext
  <2> QED
    BY <1>0, <1>1, <2>1
<1> HIDE DEF r, q
<1>3. /\ y \in Seq(Characters) /\ Len(y) = Len(t) - q
      /\ \A k \in 1 .. Len(t) - q : y[k] = t[k + q]
  BY <1>2, RemainderChars
<1>4. CASE j + p = Len(t)
  <2>1. q = Len(t)
    BY <1>4 DEF q
  <2>2. j + 2 \in Int /\ Len(r) \in Int /\ Len(r) < j + 2
    BY <1>0, <1>1, <1>4
  <2>3. x = <<>>
    BY <2>2, SubSeqEmpty
  <2> HIDE DEF x, y
  <2>4. y = <<>>
    BY <1>1, <1>3, <2>1
  <2> QED
    BY <2>3, <2>4 DEF x, y, r, q
<1>5. CASE j + p # Len(t)
  <2>1. q = j + p + 1
    BY <1>5 DEF q
  <2>2. /\ j + 2 \in 1 .. Len(r) + 1 /\ Len(r) \in j + 2 - 1 .. Len(r)
        /\ Len(r) - (j + 2) + 1 = Len(t) - q
    BY <1>0, <1>1, <1>5, <2>1
  <2>3. /\ x \in Seq(Characters) /\ Len(x) = Len(r) - (j + 2) + 1
        /\ \A k \in 1 .. Len(r) - (j + 2) + 1 : x[k] = r[j + 2 + k - 1]
    <3>1. r \in Seq(Characters)
      BY <1>1
    <3> QED
      BY <2>2, <3>1, Part
  <2> HIDE DEF x, y
  <2>4. ASSUME NEW k \in 1 .. Len(t) - q PROVE x[k] = y[k]
    <3>1. j + 2 + k - 1 \in 1 .. Len(t) - p /\ (j + 2 + k - 1) + p = k + q
      BY <1>0, <1>1, <1>2, <2>1
    <3> QED
      BY <1>1, <1>3, <2>2, <2>3, <3>1
  <2>5. x = y
    <3>1. Len(x) = Len(y) /\ \A k \in 1 .. Len(x) : x[k] = y[k]
      BY <1>3, <2>2, <2>3, <2>4
    <3> QED
      BY <1>3, <2>3, <3>1, SameSeq
  <2> QED
    BY <2>5 DEF x, y, r, q
<1> QED
  BY <1>4, <1>5

(* strtok_r returns the next piece and is between two pieces again.        *)
LEMMA TokenPiece ==
  ASSUME NEW t \in Seq(Characters), NEW p, Between(t, p), Token(Remainder(t, p)).some
  PROVE  \E i, j, q :
           /\ Piece(t, i, j) /\ Between(t, q) /\ p < j /\ j <= q
           /\ Token(Remainder(t, p)).chars = SubSeq(t, i, j)
           /\ Token(Remainder(t, p)).after = Remainder(t, q)
           /\ \A a, b : Piece(t, a, b) /\ b <= q => b <= p \/ b = j
<1> DEFINE r == Remainder(t, p)
<1>1. p \in 0 .. Len(t) /\ (p = 0 \/ p = Len(t) \/ t[p] = Dash)
  BY DEF Between
<1>2. /\ r \in Seq(Characters) /\ Len(r) = Len(t) - p /\ Len(t) \in Nat /\ p \in Nat
      /\ \A k \in 1 .. Len(t) - p : r[k] = t[k + p]
  BY <1>1, RemainderChars
<1>3. Token(r).some
  OBVIOUS
<1>4. PICK d, f : /\ Stretch(r, d, f)
                  /\ \A k \in 1 .. d - 1 : r[k] = Dash
                  /\ Token(r).chars = SubSeq(r, d, f)
                  /\ Token(r).after = SubSeq(r, f + 2, Len(r))
  <2> HIDE DEF r
  <2> QED
    BY <1>2, <1>3, TokenFound
<1>5. /\ d \in 1 .. Len(r) /\ f \in d .. Len(r)
      /\ \A k \in d .. f : r[k] # Dash
      /\ f = Len(r) \/ r[f + 1] = Dash
  BY <1>4 DEF Stretch
<1> DEFINE i == d + p
           j == f + p
           q == IF f + p = Len(t) THEN Len(t) ELSE f + p + 1
<1>6. Token(r).after = Remainder(t, q)
  <2>1. f \in 1 .. Len(t) - p
    BY <1>2, <1>5
  <2>2. SubSeq(r, f + 2, Len(r)) = Remainder(t, q)
    BY <1>1, <2>1, RemainderOf
  <2> HIDE DEF r, q
  <2> QED
    BY <1>4, <2>2
<1> HIDE DEF r
<1>7. /\ i \in 1 .. Len(t) /\ j \in i .. Len(t) /\ d \in Nat /\ f \in Nat
      /\ p < i /\ p < j
  BY <1>2, <1>5
<1>8. \A k \in i .. j : t[k] # Dash
  <2> TAKE k \in i .. j
  <2>1. k - p \in d .. f /\ k - p \in 1 .. Len(t) - p /\ k - p + p = k
    BY <1>2, <1>5, <1>7
  <2> QED
    BY <1>2, <1>5, <2>1
<1>9. j = Len(t) \/ t[j + 1] = Dash
  <2> SUFFICES ASSUME j # Len(t) PROVE t[j + 1] = Dash
    OBVIOUS
  <2>0. f + p <= Len(t) /\ f + p # Len(t)
    BY <1>7
  <2>1. f # Len(r) /\ f + 1 \in 1 .. Len(t) - p /\ f + 1 + p = j + 1
    <3>0. f + p \in Nat /\ Len(t) \in Nat
      BY <1>2, <1>7
    <3>1. f + p \in Nat /\ f + p + 1 <= Len(t)
      BY <2>0, <3>0, NatNext
    <3>2. Len(r) = Len(t) - p /\ p \in Nat /\ f \in Nat /\ f # 0 /\ Len(t) \in Nat
      BY <1>2, <1>5, <1>7
    <3> QED
      BY <3>1, <3>2
  <2> QED
    BY <1>2, <1>5, <2>1
<1>10. i = 1 \/ t[i - 1] = Dash
  <2>1. CASE d = 1
    <3>1. i - 1 = p /\ p # Len(t)
      BY <1>2, <1>5, <2>1
    <3> QED
      BY <1>1, <2>1, <3>1
  <2>2. CASE d # 1
    <3>1. d - 1 \in 1 .. d - 1 /\ d - 1 \in 1 .. Len(t) - p /\ d - 1 + p = i - 1
      BY <1>2, <1>5, <2>2
    <3> QED
      BY <1>2, <1>4, <3>1
  <2> QED
    BY <2>1, <2>2
<1>11. SubSeq(r, d, f) = SubSeq(t, i, j)
  <2>1. \A k \in d .. f : r[k] = t[k + p]
    BY <1>2, <1>5
  <2>2. /\ d \in 1 .. Len(r) /\ f \in d .. Len(r) /\ p \in Int
        /\ d + p \in 1 .. Len(t) /\ f + p \in d + p .. Len(t)
    BY <1>2, <1>5, <1>7
  <2>3. SubSeq(r, d, f) = SubSeq(t, d + p, f + p)
    <3> HIDE DEF i, j, q
    <3> QED
      BY <1>2, <2>1, <2>2, SameChars
  <2> QED
    BY <2>3
<1>12. q \in 0 .. Len(t) /\ j <= q /\ (j = q \/ q = j + 1)
  <2>1. f + p <= Len(t) /\ f + p \in Nat
    BY <1>2, <1>7
  <2>2. f + p # Len(t) => f + p + 1 <= Len(t)
    BY <1>2, <2>1
  <2> QED
    BY <1>2, <2>1, <2>2
<1>13. q = Len(t) \/ t[q] = Dash
  BY <1>2, <1>7, <1>9
<1>14. j # q => t[q] = Dash
  BY <1>2, <1>7, <1>9
<1> HIDE DEF i, j, q
<1>15. Piece(t, i, j)
  BY <1>7, <1>8, <1>9, <1>10 DEF Piece, Stretch
<1>16. Between(t, q)
  BY <1>12, <1>13 DEF Between
<1>17. ASSUME NEW a, NEW b, Piece(t, a, b), b <= q, ~(b <= p) PROVE b = j
  <2>1. /\ a \in 1 .. Len(t) /\ b \in a .. Len(t) /\ t[b] # Dash
    BY <1>17 DEF Piece, Stretch
  <2>2. b <= j
    <3>1. b # q \/ j = q
      BY <1>14, <2>1
    <3>2. b \in Nat /\ j \in Nat /\ q \in Nat
      BY <1>7, <1>12, <2>1
    <3> QED
      BY <1>12, <1>17, <3>1, <3>2
  <2>3. i <= b
    <3> SUFFICES ASSUME b < i PROVE FALSE
      BY <1>7, <2>1
    <3>1. b - p \in 1 .. d - 1 /\ b - p \in 1 .. Len(t) - p /\ b - p + p = b
      BY <1>2, <1>5, <1>7, <1>17, <2>1 DEF i
    <3>2. r[b - p] = Dash /\ r[b - p] = t[b]
      BY <1>2, <1>4, <3>1
    <3> QED
      BY <2>1, <3>2
  <2>4. a <= j
    BY <1>7, <2>1, <2>2
  <2> QED
    BY <1>15, <1>17, <2>3, <2>4, PieceUnique
<1>18. /\ Token(r).chars = SubSeq(t, i, j)
       /\ \A a, b : Piece(t, a, b) /\ b <= q => b <= p \/ b = j
  BY <1>4, <1>11, <1>17
<1> QED
  <2>1. /\ Piece(t, i, j) /\ Between(t, q) /\ p < j /\ j <= q
        /\ Token(Remainder(t, p)).chars = SubSeq(t, i, j)
        /\ Token(Remainder(t, p)).after = Remainder(t, q)
        /\ \A a, b : Piece(t, a, b) /\ b <= q => b <= p \/ b = j
    BY <1>6, <1>7, <1>12, <1>15, <1>16, <1>18 DEF r
  <2> WITNESS i, j, q
  <2> QED
    BY <2>1

-----------------------------------------------------------------------------
(* What one more address does to the text.                                 *)

(* The text of the address of a row.                                       *)
LEMMA RowText ==
  ASSUME NEW r \in Rows
  PROVE  /\ r.ip \in Addresses /\ r.ip \in Nat /\ r.port \in Nat
         /\ TextOf(r) \in Seq(Plain) /\ TextOf(r) \in Seq(Characters) /\ TextOf(r) # <<>>
         /\ Len(TextOf(r)) \in Nat \ {0}
         /\ \A k \in 1 .. Len(TextOf(r)) : TextOf(r)[k] # Dash
<1>1. r.ip \in Ips /\ r.port \in Ports
  BY DEF Rows
<1>2. r.ip \in Addresses /\ r.ip \in Nat /\ r.port \in Nat
  <2>1. r.ip \in Addresses /\ r.port \in Nat
    BY <1>1, FilterAssumption DEF Addresses
  <2>2. \A x \in Addresses : x \in Nat
    BY DEF Addresses
  <2> QED
    BY <2>1, <2>2
<1>3. /\ TextOf(r) \in Seq(Plain) /\ Len(TextOf(r)) \in Nat \ {0}
  <2>1. /\ Len(Decimal[r.ip]) \in Nat \ {0} /\ Len(Decimal[r.port]) \in Nat \ {0}
        /\ TextOf(r) \in Seq(Plain)
        /\ Len(TextOf(r)) = Len(Decimal[r.ip]) + 1 + Len(Decimal[r.port])
    BY <1>2, TextShape
  <2>2. \A d, p \in Nat \ {0} : d + 1 + p \in Nat \ {0}
    OBVIOUS
  <2> QED
    BY <2>1, <2>2
<1> DEFINE t == TextOf(r)
<1> HIDE DEF t
<1>4. t \in Seq(Plain) /\ Len(t) \in Nat \ {0}
  BY <1>3 DEF t
<1>5. t \in Seq(Characters) /\ t # <<>>
  BY <1>4 DEF Plain, Characters
<1>6. \A k \in 1 .. Len(t) : t[k] # Dash
  <2>1. \A k \in 1 .. Len(t) : t[k] \in Plain
    BY <1>4
  <2>2. \A x \in Plain : x # Dash
    BY DEF Plain, Dash
  <2> QED
    BY <2>1, <2>2
<1> QED
  BY <1>2, <1>4, <1>5, <1>6 DEF t

(* The address of a row with a dash.                                       *)
LEMMA RemoteRowText ==
  ASSUME NEW r \in Rows
  PROVE  /\ RemoteText(r) \in Seq(Characters) /\ RemoteText(r) # <<>>
         /\ RemoteText(r) = TextOf(r) \o <<Dash>>
         /\ Len(RemoteText(r)) = Len(TextOf(r)) + 1
<1>1. TextOf(r) \in Seq(Characters)
  BY RowText
<1> QED
  BY <1>1, WithDash DEF RemoteText

(* An empty text has no pieces.                                            *)
LEMMA EmptyText ==
  ASSUME NEW R
  PROVE  /\ \A i, j : ~Piece(<<>>, i, j)
         /\ Source(R, <<>>) /\ CutSource(R, <<>>) /\ Distinct(<<>>)
         /\ WrongEnds(R, <<>>) = {}
<1>1. \A i, j : ~Piece(<<>>, i, j)
  <2>1. 1 .. Len(<<>>) = {}
    OBVIOUS
  <2> QED
    BY <2>1 DEF Piece, Stretch
<1> QED
  BY <1>1 DEF Source, CutSource, Distinct, WrongEnds

(* What else may be right makes no end wrong.                              *)
LEMMA WrongFewer ==
  ASSUME NEW t, NEW R, NEW Q, R \subseteq Q
  PROVE  WrongEnds(Q, t) \subseteq WrongEnds(R, t)
BY DEF WrongEnds, IsText

(* A wrong end is a place of the text.                                     *)
LEMMA WrongFinite ==
  ASSUME NEW t \in Seq(Characters), NEW R
  PROVE  IsFiniteSet(WrongEnds(R, t))
<1>1. IsFiniteSet(1 .. Len(t))
  <2>1. 1 \in Int /\ Len(t) \in Int
    OBVIOUS
  <2> QED
    BY <2>1, FS_Interval
<1>2. WrongEnds(R, t) \in SUBSET (1 .. Len(t))
  BY DEF WrongEnds
<1> QED
  BY <1>1, <1>2, FS_Subset

(* One more element at most.                                               *)
LEMMA OneMore ==
  ASSUME NEW S, IsFiniteSet(S), NEW T
  PROVE  /\ Cardinality(S) \in Nat
         /\ T \subseteq S => IsFiniteSet(T) /\ Cardinality(T) <= Cardinality(S)
         /\ \A x : T \subseteq S \cup {x} =>
              IsFiniteSet(T) /\ Cardinality(T) \in Nat /\ Cardinality(T) <= Cardinality(S) + 1
<1>1. Cardinality(S) \in Nat
  BY FS_CardinalityType
<1>2. ASSUME T \subseteq S PROVE IsFiniteSet(T) /\ Cardinality(T) <= Cardinality(S)
  BY <1>2, FS_Subset
<1>3. ASSUME NEW x, T \subseteq S \cup {x}
      PROVE  IsFiniteSet(T) /\ Cardinality(T) \in Nat /\ Cardinality(T) <= Cardinality(S) + 1
  <2>1. /\ IsFiniteSet(S \cup {x})
        /\ Cardinality(S \cup {x}) = IF x \in S THEN Cardinality(S) ELSE Cardinality(S) + 1
    BY FS_AddElement
  <2>2. IsFiniteSet(T) /\ Cardinality(T) <= Cardinality(S \cup {x})
    BY <1>3, <2>1, FS_Subset
  <2>3. Cardinality(T) \in Nat
    BY <2>2, FS_CardinalityType
  <2> QED
    BY <1>1, <2>1, <2>2, <2>3
<1> QED
  BY <1>1, <1>2, <1>3

(* What both getters keep of their text: its pieces are addresses of R, of *)
(* which none is there twice; the last may be cut when the buffer is full. *)
Whole(R, t) == CutSource(R, t) /\ (Len(t) < TextRoom => Source(R, t) /\ Distinct(t))

(* filterGetter.exe lists one more address.                                *)
LEMMA LocalAdds ==
  ASSUME NEW u \in Seq(Characters), Len(u) <= TextRoom, u # <<>> => u[1] = Dash,
         NEW R, NEW Q, R \subseteq Q, NEW r \in Q, r \in Rows, Whole(R, u),
         ~OccursIn(TextOf(r), u), NEW t, t = Fit(u \o <<Dash>> \o TextOf(r))
  PROVE  /\ t \in Seq(Characters) /\ Len(t) <= TextRoom
         /\ t # <<>> /\ t[1] = Dash
         /\ Begins(u, t) /\ Whole(Q, t)
         /\ Len(t) < TextRoom => Len(u) < TextRoom /\ OccursIn(TextOf(r), t)
<1> DEFINE a == TextOf(r)
<1>0. TextRoom \in Nat \ {0} /\ Len(u) \in Nat
  BY FilterAssumption
<1>1. a \in Seq(Plain) /\ a \in Seq(Characters) /\ a # <<>> /\ Len(a) \in Nat \ {0}
  BY RowText
<1>2. CASE Len(u) = TextRoom
  <2>1. t = u
    <3> HIDE DEF a
    <3>1. <<Dash>> \o a \in Seq(Characters) /\ u \o <<Dash>> \o a = u \o (<<Dash>> \o a)
      <4>1. <<Dash>> \in Seq(Characters)
        BY DEF Dash, Characters
      <4> QED
        BY <1>1, <4>1
    <3>2. Fit(u \o (<<Dash>> \o a)) = u
      BY <1>2, <3>1, FitFull
    <3> QED
      BY <3>1, <3>2 DEF a
  <2>2. u # <<>> /\ Begins(u, u)
    BY <1>0, <1>2 DEF Begins
  <2>3. Whole(Q, u)
    <3>1. CutSource(R, u) /\ ~(Len(u) < TextRoom)
      BY <1>0, <1>2 DEF Whole
    <3> QED
      BY <3>1 DEF Whole, CutSource, IsText
  <2>4. ~(Len(u) < TextRoom)
    BY <1>0, <1>2
  <2> QED
    BY <2>1, <2>2, <2>3, <2>4
<1>3. CASE Len(u) < TextRoom
  <2>1. /\ Grown(u, t, Len(u) + 1, a) /\ Len(t) <= TextRoom
        /\ Len(t) = TextRoom \/ Len(t) = Len(u) + 1 + Len(a)
    <3>1. t = Fit(u \o <<Dash>> \o a)
      OBVIOUS
    <3> HIDE DEF a
    <3> QED
      BY <1>1, <1>3, <3>1, FitLocal
  <2>2. t \in Seq(Characters) /\ Len(t) \in Nat /\ Begins(u, t)
    BY <2>1, GrownSizes, GrownOccurs
  <2>3. t # <<>> /\ t[1] = Dash
    <3>1. Len(t) >= Len(u) + 1 /\ t[Len(u) + 1] = Dash
      <4> HIDE DEF a
      <4> QED
        BY <1>0, <2>1 DEF Grown
    <3>2. u # <<>> => t[1] = u[1]
      <4> SUFFICES ASSUME u # <<>> PROVE t[1] = u[1]
        OBVIOUS
      <4>1. 1 \in 1 .. Len(u)
        BY <1>0
      <4> QED
        BY <2>2, <4>1 DEF Begins
    <3>3. u = <<>> => Len(u) + 1 = 1
      OBVIOUS
    <3> QED
      BY <1>0, <2>2, <3>1, <3>2, <3>3
  <2>4. Source(R, u) /\ Distinct(u)
    BY <1>3 DEF Whole
  <2>5. CutSource(Q, t) /\ ((Len(u) + 1) + Len(a) <= Len(t) => Source(Q, t))
    BY <2>1, <2>4, GrownSource
  <2>6. ASSUME Len(t) < TextRoom PROVE Source(Q, t) /\ Distinct(t) /\ OccursIn(a, t)
    <3>1. (Len(u) + 1) + Len(a) <= Len(t)
      BY <1>0, <1>1, <2>1, <2>2, <2>6
    <3>2. ~Among(u, a)
      <4> SUFFICES ASSUME Among(u, a) PROVE FALSE
        OBVIOUS
      <4>1. PICK i, j : Piece(u, i, j) /\ SubSeq(u, i, j) = a
        BY DEF Among
      <4>2. OccursIn(SubSeq(u, i, j), u)
        BY <4>1, PieceOccurs
      <4> QED
        BY <4>1, <4>2
    <3>3. Distinct(t)
      BY <2>1, <2>4, <3>1, <3>2, GrownDistinct
    <3>4. OccursIn(a, t)
      BY <2>1, <3>1, GrownOccurs
    <3> QED
      BY <2>5, <3>1, <3>3, <3>4
  <2>7. Whole(Q, t)
    BY <2>5, <2>6 DEF Whole
  <2> QED
    BY <1>3, <2>1, <2>2, <2>3, <2>6, <2>7
<1> QED
  BY <1>0, <1>2, <1>3

(* The text of filterGetterForRemoteAddr.exe ends with a dash.             *)
Closed(t) == t = <<>> \/ Len(t) = TextRoom \/ t[Len(t)] = Dash

(* filterGetterForRemoteAddr.exe lists one more address, unless it is      *)
(* there.                                                                  *)
Added(u, r) == IF OccursIn(RemoteText(r), u) THEN u ELSE Fit(u \o RemoteText(r))

(* At most one more.                                                       *)
OneBeyond(V, W) == \E e : V \subseteq W \cup {e}

(* What that does to its text.                                             *)
LEMMA RemoteAdds ==
  ASSUME NEW u \in Seq(Characters), Len(u) <= TextRoom, Closed(u), Whole(Rows, u),
         NEW r \in Rows, NEW R, NEW Q, R \subseteq Q, NEW t,
         t = Added(u, r)
  PROVE  /\ t \in Seq(Characters) /\ Len(t) <= TextRoom /\ Closed(t)
         /\ Begins(u, t) /\ Whole(Rows, t)
         /\ Len(t) < TextRoom => Len(u) < TextRoom /\ OccursIn(RemoteText(r), t)
         /\ OneBeyond(WrongEnds(Q, t), WrongEnds(R, u))
         /\ Len(u) = TextRoom => WrongEnds(Q, t) \subseteq WrongEnds(R, u)
         /\ r \in Q /\ Len(t) < TextRoom => WrongEnds(Q, t) \subseteq WrongEnds(R, u)
<1> DEFINE a == TextOf(r)
           W == WrongEnds(R, u)
<1>0. TextRoom \in Nat \ {0} /\ Len(u) \in Nat
  BY FilterAssumption
<1>1. a \in Seq(Plain) /\ a \in Seq(Characters) /\ a # <<>> /\ Len(a) \in Nat \ {0}
  BY RowText
<1>2. CASE t = u
  <2>1. WrongEnds(Q, u) \subseteq W /\ OneBeyond(WrongEnds(Q, u), W)
    <3>1. WrongEnds(Q, u) \subseteq W
      BY WrongFewer
    <3> QED
      BY <3>1 DEF OneBeyond
  <2>2. Begins(u, u)
    BY <1>0 DEF Begins
  <2>3. Len(u) < TextRoom => OccursIn(RemoteText(r), u)
    <3> SUFFICES ASSUME Len(u) < TextRoom, ~OccursIn(RemoteText(r), u) PROVE FALSE
      OBVIOUS
    <3>1. t = Fit(u \o RemoteText(r))
      BY DEF Added
    <3>2. u # <<>> => u[Len(u)] = Dash
      BY <1>0 DEF Closed
    <3>3. u \o RemoteText(r) = u \o (a \o <<Dash>>)
      BY RemoteRowText
    <3>4. Len(Fit(u \o (a \o <<Dash>>))) = TextRoom \/ Len(Fit(u \o (a \o <<Dash>>))) = Len(u) + Len(a) + 1
      <4> HIDE DEF a
      <4> QED
        BY <1>1, <3>2, FitRemote
    <3>5. Len(t) = TextRoom \/ Len(t) = Len(u) + Len(a) + 1
      BY <3>1, <3>3, <3>4
    <3>6. Len(t) = Len(u)
      BY <1>2
    <3> HIDE DEF a
    <3> QED
      BY <1>0, <1>1, <3>5, <3>6
  <2> HIDE DEF W
  <2> QED
    BY <1>2, <2>1, <2>2, <2>3 DEF W
<1>3. CASE Len(u) = TextRoom /\ ~OccursIn(RemoteText(r), u)
  <2>1. t = Fit(u \o RemoteText(r))
    BY <1>3 DEF Added
  <2>2. RemoteText(r) \in Seq(Characters)
    BY RemoteRowText
  <2>3. Fit(u \o RemoteText(r)) = u
    BY <1>3, <2>2, FitFull
  <2> QED
    BY <1>2, <2>1, <2>3
<1>4. CASE Len(u) < TextRoom /\ ~OccursIn(RemoteText(r), u)
  <2>1. u # <<>> => u[Len(u)] = Dash
    BY <1>0, <1>4 DEF Closed
  <2>2. /\ Grown(u, t, Len(u), a) /\ Len(t) <= TextRoom
        /\ Len(t) = TextRoom \/ Len(t) = Len(u) + Len(a) + 1
    <3>1. t = Fit(u \o (a \o <<Dash>>))
      BY <1>4, RemoteRowText DEF Added
    <3> HIDE DEF a
    <3> QED
      BY <1>1, <1>4, <2>1, <3>1, FitRemote
  <2>3. t \in Seq(Characters) /\ Len(t) \in Nat /\ Begins(u, t)
    BY <2>2, GrownSizes, GrownOccurs
  <2>4. Closed(t)
    <3>1. CASE Len(t) = Len(u) + Len(a) + 1
      <4> HIDE DEF a
      <4> QED
        BY <2>2, <3>1 DEF Grown, Closed
    <3> QED
      BY <2>2, <3>1 DEF Closed
  <2>5. Source(Rows, u) /\ Distinct(u)
    BY <1>4 DEF Whole
  <2>6. CutSource(Rows, t) /\ (Len(u) + Len(a) <= Len(t) => Source(Rows, t))
    BY <2>2, <2>5, GrownSource
  <2>7. ASSUME Len(t) < TextRoom PROVE Len(t) = Len(u) + Len(a) + 1 /\ Len(u) + Len(a) <= Len(t)
    <3> HIDE DEF a
    <3> QED
      BY <1>0, <1>1, <2>2, <2>3, <2>7
  <2>8. ASSUME Len(t) < TextRoom PROVE Distinct(t) /\ OccursIn(RemoteText(r), t)
    <3>1. ~Among(u, a)
      <4> SUFFICES ASSUME Among(u, a) PROVE FALSE
        OBVIOUS
      <4>1. PICK i, j : Piece(u, i, j) /\ SubSeq(u, i, j) = a
        BY DEF Among
      <4>2. j # Len(u)
        <5>1. u # <<>> /\ u[j] # Dash
          BY <1>0, <4>1 DEF Piece, Stretch
        <5> QED
          BY <2>1, <5>1
      <4>3. OccursIn(SubSeq(u, i, j) \o <<Dash>>, u)
        BY <4>1, <4>2, PieceOccurs
      <4> QED
        BY <1>4, <4>1, <4>3, RemoteRowText
    <3>2. Distinct(t)
      BY <2>2, <2>5, <2>7, <2>8, <3>1, GrownDistinct
    <3>3. OccursIn(a \o <<Dash>>, t)
      BY <2>2, <2>7, <2>8, GrownOccurs
    <3> QED
      BY <3>2, <3>3, RemoteRowText
  <2>9. Whole(Rows, t)
    BY <2>6, <2>7, <2>8 DEF Whole
  <2>10. /\ OneBeyond(WrongEnds(Q, t), W)
         /\ r \in Q /\ Len(u) + Len(a) <= Len(t) => WrongEnds(Q, t) \subseteq W
    BY <2>2, GrownWrong DEF OneBeyond
  <2>11. Len(u) # TextRoom
    BY <1>0, <1>4
  <2> HIDE DEF W, a
  <2> QED
    BY <1>4, <2>2, <2>3, <2>4, <2>7, <2>8, <2>9, <2>10, <2>11 DEF W
<1>5. OccursIn(RemoteText(r), u) => t = u
  BY DEF Added
<1>6. Len(u) = TextRoom \/ Len(u) < TextRoom
  BY <1>0
<1> QED
  BY <1>2, <1>3, <1>4, <1>5, <1>6

(* Whole, for the text that has been handed over.                          *)
Handed(R, t) == CutSource(R, t) /\ (Len(t) < TextRoom - 1 => Source(R, t) /\ Distinct(t))

(* The text that filterGetter.exe prints.                                  *)
LEMMA LocalHandsOver ==
  ASSUME NEW u \in Seq(Characters), Len(u) <= TextRoom, u # <<>>, u[1] = Dash,
         NEW R, Whole(R, u)
  PROVE  /\ Tail(u) \in Seq(Characters) /\ Len(Tail(u)) <= TextRoom
         /\ Len(Tail(u)) = Len(u) - 1 /\ Handed(R, Tail(u))
<1> DEFINE t == Tail(u)
<1>0. TextRoom \in Nat \ {0} /\ Len(u) \in Nat \ {0}
  BY FilterAssumption
<1>1. t \in Seq(Characters) /\ Len(t) = Len(u) - 1
  OBVIOUS
<1>2. \A i, j : Piece(t, i, j) =>
        /\ Piece(u, i + 1, j + 1) /\ SubSeq(t, i, j) = SubSeq(u, i + 1, j + 1)
        /\ i \in Nat /\ j \in Nat
  <2>2. \A i, j : Piece(t, i, j) =>
          Piece(u, i + 1, j + 1) /\ SubSeq(t, i, j) = SubSeq(u, i + 1, j + 1)
    BY TailPieces
  <2> HIDE DEF t
  <2>1. \A i, j : Piece(t, i, j) => i \in Nat /\ j \in Nat
    <3>1. Len(t) \in Nat
      BY <1>1
    <3> QED
      BY <3>1 DEF Piece, Stretch
  <2> QED
    BY <2>1, <2>2
<1> HIDE DEF t
<1>3. CutSource(R, t)
  <2> SUFFICES ASSUME NEW i, NEW j, Piece(t, i, j)
               PROVE  IsText(t, i, j, R) \/ j = Len(t)
    BY DEF CutSource
  <2>1. IsText(u, i + 1, j + 1, R) \/ j + 1 = Len(u)
    BY <1>2 DEF Whole, CutSource
  <2>2. SubSeq(t, i, j) = SubSeq(u, i + 1, j + 1) /\ j \in Nat
    BY <1>2
  <2>3. j + 1 = Len(u) => j = Len(t)
    BY <1>0, <1>1, <2>2
  <2> QED
    BY <2>1, <2>2, <2>3 DEF IsText
<1>4. ASSUME Len(t) < TextRoom - 1 PROVE Source(R, t) /\ Distinct(t)
  <2>1. Len(u) < TextRoom
    BY <1>0, <1>1, <1>4
  <2>2. Source(R, u) /\ Distinct(u)
    BY <2>1 DEF Whole
  <2>3. Source(R, t)
    <3> SUFFICES ASSUME NEW i, NEW j, Piece(t, i, j) PROVE IsText(t, i, j, R)
      BY DEF Source
    <3>1. IsText(u, i + 1, j + 1, R)
      BY <1>2, <2>2 DEF Source
    <3>2. SubSeq(t, i, j) = SubSeq(u, i + 1, j + 1)
      BY <1>2
    <3> QED
      BY <3>1, <3>2 DEF IsText
  <2>4. Distinct(t)
    <3> SUFFICES ASSUME NEW i, NEW j, NEW a, NEW b, Piece(t, i, j), Piece(t, a, b),
                        SubSeq(t, i, j) = SubSeq(t, a, b)
                 PROVE  j = b
      BY DEF Distinct
    <3> DEFINE x == SubSeq(t, i, j)
               y == SubSeq(t, a, b)
               v == SubSeq(u, i + 1, j + 1)
               w == SubSeq(u, a + 1, b + 1)
    <3>1. Piece(u, i + 1, j + 1) /\ x = v /\ j \in Nat
      BY <1>2
    <3>2. Piece(u, a + 1, b + 1) /\ y = w /\ b \in Nat
      BY <1>2
    <3>3. v = w => j + 1 = b + 1
      BY <2>2, <3>1, <3>2 DEF Distinct
    <3>4. x = y
      OBVIOUS
    <3> HIDE DEF x, y, v, w
    <3> QED
      BY <3>1, <3>2, <3>3, <3>4
  <2> QED
    BY <2>3, <2>4
<1>5. Len(t) <= TextRoom
  BY <1>0, <1>1
<1> QED
  BY <1>1, <1>3, <1>4, <1>5 DEF Handed, t

(* The text that filterGetterForRemoteAddr.exe prints.                     *)
LEMMA RemoteHandsOver ==
  ASSUME NEW u \in Seq(Characters), Len(u) <= TextRoom, Closed(u), Whole(Rows, u),
         NEW R, NEW t, t = IF u # <<>> /\ Last(u) = Dash THEN Front(u) ELSE u
  PROVE  /\ t \in Seq(Characters) /\ Len(t) <= TextRoom /\ Handed(Rows, t)
         /\ WrongEnds(R, t) \subseteq WrongEnds(R, u)
         /\ Len(u) = TextRoom => ~(Len(t) < TextRoom - 1)
         /\ t \o <<Dash>> = u \/ (u = <<>> /\ t = <<>>) \/ ~(Len(t) < TextRoom - 1)
<1>0. TextRoom \in Nat \ {0} /\ Len(u) \in Nat
  BY FilterAssumption
<1>1. CASE u # <<>> /\ Last(u) = Dash
  <2>0. t = Front(u)
    BY <1>1
  <2>1. /\ t \in Seq(Characters) /\ Len(t) = Len(u) - 1 /\ t \o <<Dash>> = u
        /\ \A i, j : Piece(t, i, j) =>
             Piece(u, i, j) /\ SubSeq(t, i, j) = SubSeq(u, i, j)
    <3> DEFINE v == Front(u)
    <3>1. /\ v \in Seq(Characters) /\ Len(v) = Len(u) - 1 /\ v \o <<Dash>> = u
          /\ \A i, j : Piece(v, i, j) =>
               Piece(u, i, j) /\ SubSeq(v, i, j) = SubSeq(u, i, j)
      BY <1>1, FrontPieces
    <3> HIDE DEF v
    <3> QED
      BY <2>0, <3>1 DEF v
  <2>2. Len(t) <= TextRoom
    BY <1>0, <2>1
  <2>3. Len(u) = TextRoom => ~(Len(t) < TextRoom - 1)
    BY <1>0, <2>1
  <2>4. \A i, j : Piece(t, i, j) => j \in 1 .. Len(t) /\ j # Len(u)
    BY <1>0, <2>1 DEF Piece, Stretch
  <2>5. \A i, j, S : Piece(t, i, j) => (IsText(t, i, j, S) <=> IsText(u, i, j, S))
    BY <2>1 DEF IsText
  <2>6. CutSource(Rows, t)
    <3>1. CutSource(Rows, u)
      BY DEF Whole
    <3> QED
      BY <2>1, <2>4, <2>5, <3>1 DEF CutSource
  <2>7. ASSUME Len(t) < TextRoom - 1 PROVE Source(Rows, t) /\ Distinct(t)
    <3>1. Len(u) < TextRoom
      BY <1>0, <2>1, <2>7
    <3>2. Source(Rows, u) /\ Distinct(u)
      BY <3>1 DEF Whole
    <3>3. Source(Rows, t)
      BY <2>1, <2>5, <3>2 DEF Source
    <3>4. Distinct(t)
      <4> SUFFICES ASSUME NEW i, NEW j, NEW a, NEW b, Piece(t, i, j), Piece(t, a, b),
                          SubSeq(t, i, j) = SubSeq(t, a, b)
                   PROVE  j = b
        BY DEF Distinct
      <4>1. Piece(u, i, j) /\ Piece(u, a, b)
        BY <2>1
      <4>2. SubSeq(u, i, j) = SubSeq(u, a, b)
        BY <2>1
      <4> QED
        BY <3>2, <4>1, <4>2 DEF Distinct
    <3> QED
      BY <3>3, <3>4
  <2>8. WrongEnds(R, t) \subseteq WrongEnds(R, u)
    <3> SUFFICES ASSUME NEW j \in WrongEnds(R, t) PROVE j \in WrongEnds(R, u)
      OBVIOUS
    <3>1. PICK i : Piece(t, i, j) /\ ~IsText(t, i, j, R)
      BY DEF WrongEnds
    <3>2. Piece(u, i, j) /\ ~IsText(u, i, j, R)
      BY <2>1, <2>5, <3>1
    <3>3. j \in 1 .. Len(u)
      BY <3>2 DEF Piece, Stretch
    <3> QED
      BY <3>2, <3>3 DEF WrongEnds
  <2> QED
    BY <2>1, <2>2, <2>3, <2>6, <2>7, <2>8 DEF Handed
<1>2. CASE ~(u # <<>> /\ Last(u) = Dash)
  <2>0. t = u
    BY <1>2
  <2>1. u = <<>> \/ Len(u) = TextRoom
    BY <1>2 DEF Closed, Last
  <2>2. CASE u = <<>>
    <3>1. Len(u) = 0 /\ ~(Len(u) = TextRoom)
      BY <1>0, <2>2
    <3>2. Handed(Rows, u)
      BY <2>2, EmptyText DEF Handed
    <3> QED
      BY <2>0, <2>2, <3>1, <3>2
  <2>3. CASE Len(u) = TextRoom
    <3>1. ~(Len(u) < TextRoom - 1)
      BY <1>0, <2>3
    <3>2. Handed(Rows, u)
      BY <3>1 DEF Whole, Handed
    <3> QED
      BY <2>0, <3>1, <3>2
  <2> QED
    BY <2>1, <2>2, <2>3
<1> QED
  BY <1>1, <1>2

-----------------------------------------------------------------------------
(* The processes, the table and the output.                                *)

Processes == UNION {[1 .. n -> BOOLEAN] : n \in 0 .. MaxProcesses}

(* getPidByName returns a process of that name, or 0.                      *)
LEMMA FirstNamedFound ==
  ASSUME NEW ps, ps \in Processes, ps = processes
  PROVE  FirstNamed \in {0} \cup {p \in DOMAIN processes : processes[p]}
<1> DEFINE I == {i \in 1 .. Len(processes) : processes[i]}
<1>1. FirstNamed = IF I # {} THEN Min(I) ELSE 0
  BY DEF FirstNamed, SelectInSeq
<1>2. PICK n \in 0 .. MaxProcesses : processes \in [1 .. n -> BOOLEAN]
  BY DEF Processes
<1>3. Len(processes) = n /\ DOMAIN processes = 1 .. n
  BY <1>2
<1>4. I = {p \in DOMAIN processes : processes[p]}
  BY <1>3, Zenon
<1>5. I \in SUBSET Nat
  OBVIOUS
<1> HIDE DEF I
<1>6. I # {} => Min(I) \in I
  BY <1>5, MinIsLeast
<1> QED
  BY <1>1, <1>4, <1>6

(* The rows of a table,                                                    *)
LEMMA TableRows ==
  ASSUME NEW t \in Tables
  PROVE  /\ t \in Seq(Rows) /\ Len(t) \in 0 .. MaxRows /\ DOMAIN t = 1 .. Len(t)
         /\ \A i \in 1 .. Len(t) : t[i] \in Rows
<1>1. PICK n \in 0 .. MaxRows : t \in [1 .. n -> Rows]
  BY DEF Tables
<1>2. Len(t) = n /\ DOMAIN t = 1 .. n /\ t \in Seq(Rows)
  BY <1>1, FilterAssumption
<1> QED
  BY <1>1, <1>2

(* the lines of an output.                                                 *)
LEMMA OutputLines ==
  ASSUME NEW t \in Outputs
  PROVE  /\ t \in Seq(Lines) /\ Len(t) \in 0 .. MaxLines /\ DOMAIN t = 1 .. Len(t)
         /\ \A i \in 1 .. Len(t) : t[i] \in Lines
<1>1. PICK n \in 0 .. MaxLines : t \in [1 .. n -> Lines]
  BY DEF Outputs
<1>2. Len(t) = n /\ DOMAIN t = 1 .. n /\ t \in Seq(Lines)
  BY <1>1, RemoteAssumption
<1> QED
  BY <1>1, <1>2

-----------------------------------------------------------------------------
(* The inductive invariant.                                                *)

Typed == RemoteTypeOK /\ processes \in Processes

(* Nothing has been read yet, or nothing has been parsed.                  *)
Starting ==
  /\ pc \in {"lookup", "read"} =>
       /\ table = <<>> /\ row = 1 /\ output = <<>> /\ line = 1 /\ cuts = 0
       /\ text = <<>>
  /\ pc \in {"lookup", "read", "scan", "lines"} => rest = <<>> /\ clauses = <<>>

(* The addresses of the process in the rows that have been looked at.      *)
Seen == {table[k] : k \in {m \in 1 .. row - 1 : Own(table[m])}}

(* createFilterForPid has listed the addresses of rows of the process,     *)
(* whole and each once, and unless the buffer is full it has passed over   *)
(* only such as occur in the text.                                         *)
ScanText ==
  pc = "scan" =>
    /\ tool = "local" /\ row <= Len(table) + 1
    /\ text # <<>> => text[1] = Dash
    /\ Got => text # <<>>
    /\ ~Got => text = <<>>
    /\ Whole(Seen, text)
    /\ Len(text) < TextRoom => \A r \in Seen : OccursIn(TextOf(r), text)

(* The addresses in the lines that have been looked at and taken for lines *)
(* of the process; those of its lines of which the address is not in t.    *)
Heard == {output[k] : k \in {m \in 1 .. line - 1 : OwnLine(output[m])}}

(* netstat printed it for the process.                                     *)
Peer(l) == l # Star /\ l.pid = pid
Missing(t) ==
  {l \in {output[k] : k \in 1 .. line - 1} : Peer(l) /\ ~OccursIn(RemoteText(l), t)}

(* getRemoteUDPAddr has listed addresses with a dash after each. Each      *)
(* line that was cut accounts for at most one address too many, and for    *)
(* at most one too few.                                                    *)
LinesText ==
  pc = "lines" =>
    /\ tool = "remote" /\ Closed(text) /\ Whole(Rows, text)
    /\ Cardinality(WrongEnds(Heard, text)) <= cuts + (IF Len(text) = TextRoom THEN 1 ELSE 0)
    /\ Len(text) < TextRoom /\ pid < PidSpan => Cardinality(Missing(text)) <= cuts

(* The same of the text that is printed, which lacks the first or the      *)
(* last dash.                                                              *)
HandedOver ==
  pc \in {"parse", "capture"} =>
    /\ tool = "local" =>
         /\ Handed(OwnRows, text)
         /\ ~Filled => \A r \in OwnRows : OccursIn(TextOf(r), text)
    /\ tool = "remote" =>
         /\ line = Len(output) + 1 /\ Handed(Rows, text)
         /\ Cardinality(WrongEnds(Heard, text)) <= cuts + (IF Filled THEN 1 ELSE 0)
         /\ ~Filled /\ pid < PidSpan => Cardinality(Missing(text \o <<Dash>>)) <= cuts

(* The clauses are made of the pieces up to place p, in order: e tells     *)
(* where they end.                                                         *)
Taken(p, e) ==
  /\ Between(text, p) /\ e \in Seq(Nat) /\ Len(e) = Len(clauses)
  /\ \A c \in 1 .. Len(e) :
       e[c] <= p /\ \E i : Piece(text, i, e[c]) /\ Parsed(clauses[c], SubSeq(text, i, e[c]))
  /\ \A c, d \in 1 .. Len(e) : c < d => e[c] < e[d]
  /\ \A i, j : Piece(text, i, j) /\ j <= p => \E c \in 1 .. Len(e) : e[c] = j

(* parseFilter is between two pieces; at the end it has taken all.         *)
ParsedSoFar ==
  /\ pc = "parse" => \E p, e : Taken(p, e) /\ rest = Remainder(text, p)
  /\ pc = "capture" => clauses # <<>> /\ \E e : Taken(Len(text), e)

(* The inductive invariant, with a part for each stage.                    *)
GettersInv == Typed /\ Starting /\ ScanText /\ LinesText /\ HandedOver /\ ParsedSoFar

(* It holds at the start.                                                  *)
LEMMA GettersInitInv == GettersInit => GettersInv
<1> SUFFICES ASSUME GettersInit PROVE GettersInv
  OBVIOUS
<1> USE DEF GettersInit, FilterInit
<1>1. Typed
  <2>1. PICK n \in 0 .. MaxProcesses : processes \in [1 .. n -> BOOLEAN]
    OBVIOUS
  <2>2. DOMAIN processes \in {1 .. k : k \in 0 .. MaxProcesses} /\ processes \in Processes
    BY <2>1 DEF Processes
  <2>3. table \in Tables
    <3>1. 0 \in 0 .. MaxRows /\ <<>> \in [1 .. 0 -> Rows]
      BY FilterAssumption
    <3> QED
      BY <3>1 DEF Tables
  <2>4. output \in Outputs
    <3>1. 0 \in 0 .. MaxLines /\ <<>> \in [1 .. 0 -> Lines]
      BY RemoteAssumption
    <3> QED
      BY <3>1 DEF Outputs
  <2>5. row \in 1 .. MaxRows + 1 /\ line \in 1 .. MaxLines + 1
    BY FilterAssumption, RemoteAssumption
  <2>6. \A S : <<>> \in Seq(S) /\ Len(<<>>) = 0
    OBVIOUS
  <2> QED
    BY <2>2, <2>3, <2>4, <2>5, <2>6, FilterAssumption DEF Typed, RemoteTypeOK, FilterTypeOK
<1>2. Starting
  BY DEF Starting
<1>3. ScanText /\ LinesText /\ HandedOver /\ ParsedSoFar
  BY DEF ScanText, LinesText, HandedOver, ParsedSoFar
<1> QED
  BY <1>1, <1>2, <1>3 DEF GettersInv

(* It is about these variables alone.                                      *)
LEMMA GettersStutter == GettersInv /\ UNCHANGED gettersVars => GettersInv'
<1> SUFFICES ASSUME GettersInv, UNCHANGED gettersVars PROVE GettersInv'
  OBVIOUS
<1> USE DEF gettersVars, filterVars, remoteVars
<1>1. Typed'
  BY DEF GettersInv, Typed, RemoteTypeOK, FilterTypeOK
<1>2. Starting'
  BY DEF GettersInv, Starting
<1>3. ScanText'
  BY DEF GettersInv, ScanText, Seen, Own, Got
<1>4. LinesText'
  BY DEF GettersInv, LinesText, Heard, Missing, OwnLine, LinePid, Peer
<1>5. HandedOver'
  BY DEF GettersInv, HandedOver, Heard, Missing, OwnLine, LinePid, Peer, OwnRows, Own, Filled
<1>6. ParsedSoFar'
  BY DEF GettersInv, ParsedSoFar, Taken
<1> QED
  BY <1>1, <1>2, <1>3, <1>4, <1>5, <1>6 DEF GettersInv

-----------------------------------------------------------------------------
(* The steps of transport.exe.                                             *)

Clauses == [host : [0 .. 3 -> 0 .. Octet - 1], port : Seq(0 .. Dot)]

(* What the invariant says of the variables one by one.                    *)
LEMMA TypesOf ==
  ASSUME GettersInv
  PROVE  /\ TextRoom \in Nat \ {0} /\ MaxRows \in Nat /\ MaxLines \in Nat /\ PidSpan \in Nat \ {0}
         /\ processes \in Processes /\ table \in Tables /\ output \in Outputs
         /\ text \in Seq(Characters) /\ Len(text) \in Nat /\ Len(text) <= TextRoom
         /\ rest \in Seq(Characters) /\ Len(rest) <= TextRoom
         /\ clauses \in Seq(Clauses)
         /\ row \in 1 .. MaxRows + 1 /\ row \in Nat
         /\ line \in 1 .. MaxLines + 1 /\ line \in Nat /\ line <= Len(output) + 1
         /\ cuts \in 0 .. line - 1 /\ cuts \in Nat
<1>1. /\ processes \in Processes /\ table \in Tables /\ output \in Outputs
      /\ text \in Seq(Characters) /\ Len(text) <= TextRoom
      /\ rest \in Seq(Characters) /\ Len(rest) <= TextRoom
      /\ clauses \in Seq(Clauses)
      /\ row \in 1 .. MaxRows + 1 /\ line \in 1 .. MaxLines + 1 /\ line <= Len(output) + 1
      /\ cuts \in 0 .. line - 1
  BY DEF GettersInv, Typed, RemoteTypeOK, FilterTypeOK, Characters, Clauses
<1>2. /\ TextRoom \in Nat \ {0} /\ MaxRows \in Nat /\ MaxLines \in Nat
      /\ PidSpan \in Nat \ {0}
  BY FilterAssumption, RemoteAssumption
<1>3. Len(text) \in Nat
  BY <1>1
<1>4. row \in Nat /\ line \in Nat /\ cuts \in Nat
  <2>1. line \in Nat /\ row \in Nat
    BY <1>1, <1>2
  <2> QED
    BY <1>1, <2>1
<1> QED
  BY <1>1, <1>2, <1>3, <1>4

(* parseFilter takes the next piece and makes a clause of it.              *)
LEMMA TokenTaken ==
  ASSUME GettersInv, ParseToken
  PROVE  /\ clauses' \in Seq(Clauses)
         /\ rest' \in Seq(Characters) /\ Len(rest') <= TextRoom
         /\ ParsedSoFar'
<1>0. /\ TextRoom \in Nat /\ text \in Seq(Characters) /\ Len(text) \in Nat
      /\ Len(text) <= TextRoom /\ clauses \in Seq(Clauses)
  BY TypesOf
<1>1. pc = "parse" /\ text' = text /\ pc' = pc
  BY DEF ParseToken
<1>2. PICK p, e : Taken(p, e) /\ rest = Remainder(text, p)
  BY <1>1 DEF GettersInv, ParsedSoFar
<1>3. /\ Token(rest).some /\ DotIn(Token(rest).chars) # 0
      /\ rest' = Token(rest).after
      /\ \E ip \in Atol(SubSeq(Token(rest).chars, 1, DotIn(Token(rest).chars) - 1)) :
           clauses' = Append(clauses, [host |-> Octets(ip),
                        port |-> SubSeq(Token(rest).chars, DotIn(Token(rest).chars) + 1,
                                        Len(Token(rest).chars))])
  BY DEF ParseToken
<1>4. PICK i, j, q :
        /\ Piece(text, i, j) /\ Between(text, q) /\ p < j /\ j <= q
        /\ Token(rest).chars = SubSeq(text, i, j)
        /\ Token(rest).after = Remainder(text, q)
        /\ \A a, b : Piece(text, a, b) /\ b <= q => b <= p \/ b = j
  <2>1. Between(text, p) /\ Token(Remainder(text, p)).some
    BY <1>2, <1>3 DEF Taken
  <2> QED
    BY <1>0, <1>2, <2>1, TokenPiece
<1> DEFINE s == SubSeq(text, i, j)
<1>5. /\ s \in Seq(Characters) /\ \A k \in 1 .. Len(s) : s[k] # Dash
      /\ j \in Nat
  <2>1. /\ s \in Seq(Characters)
        /\ Len(s) = j - i + 1
        /\ \A k \in 1 .. j - i + 1 : s[k] # Dash
        /\ i \in 1 .. Len(text) /\ j \in i .. Len(text)
    BY <1>0, <1>4, PieceChars
  <2> HIDE DEF s
  <2> QED
    BY <1>0, <2>1
<1>6. PICK ip \in Atol(SubSeq(s, 1, DotIn(s) - 1)) :
        clauses' = Append(clauses, [host |-> Octets(ip), port |-> SubSeq(s, DotIn(s) + 1, Len(s))])
  <2>1. Token(rest).chars = s
    BY <1>4
  <2> HIDE DEF s
  <2> QED
    BY <1>3, <2>1, Zenon
<1>7. DotIn(s) # 0
  BY <1>3, <1>4
<1> DEFINE port == SubSeq(s, DotIn(s) + 1, Len(s))
           c == [host |-> Octets(ip), port |-> port]
<1> HIDE DEF s
<1>8. Octets(ip) \in [0 .. 3 -> 0 .. Octet - 1] /\ port \in Seq(0 .. Dot)
  BY <1>5, <1>6, <1>7, ParsedType
<1>9. Parsed(c, s)
  <2>1. c.host = Octets(ip) /\ c.port = port
    BY Zenon
  <2> HIDE DEF c
  <2> QED
    BY <1>6, <1>7, <2>1 DEF Parsed
<1>10. c \in Clauses
  <2> HIDE DEF port
  <2> QED
    BY <1>8 DEF Clauses
<1>11. clauses' = Append(clauses, c)
  BY <1>6
<1> HIDE DEF c
<1>12. /\ clauses' \in Seq(Clauses) /\ Len(clauses') = Len(clauses) + 1
       /\ \A k \in 1 .. Len(clauses) : clauses'[k] = clauses[k]
       /\ clauses'[Len(clauses) + 1] = c /\ Len(clauses) \in Nat
  BY <1>0, <1>10, <1>11
<1>13. q \in 0 .. Len(text) /\ q \in Nat
  BY <1>0, <1>4 DEF Between
<1>14. rest' = Remainder(text, q)
  BY <1>3, <1>4
<1>15. rest' \in Seq(Characters) /\ Len(rest') <= TextRoom
  <2>1. Remainder(text, q) \in Seq(Characters) /\ Len(Remainder(text, q)) = Len(text) - q
    BY <1>0, <1>13, RemainderChars
  <2> QED
    BY <1>0, <1>13, <1>14, <2>1
<1>16. /\ e \in Seq(Nat) /\ Len(e) = Len(clauses) /\ p \in Nat
       /\ \A k \in 1 .. Len(e) : e[k] <= p
       /\ \A k \in 1 .. Len(e) : \E a : Piece(text, a, e[k]) /\ Parsed(clauses[k], SubSeq(text, a, e[k]))
       /\ \A k, d \in 1 .. Len(e) : k < d => e[k] < e[d]
       /\ \A a, b : Piece(text, a, b) /\ b <= p => \E k \in 1 .. Len(e) : e[k] = b
  BY <1>0, <1>2 DEF Taken, Between
<1> DEFINE f == Append(e, j)
           n == Len(e)
<1>17. /\ f \in Seq(Nat) /\ Len(f) = n + 1 /\ n \in Nat
       /\ \A k \in 1 .. n : f[k] = e[k] /\ e[k] \in Nat
       /\ f[n + 1] = j
  BY <1>5, <1>16
<1> HIDE DEF f
<1>18. \A k \in 1 .. n + 1 : k \in 1 .. n \/ k = n + 1
  BY <1>17
<1>19. \A k \in 1 .. Len(f) :
         /\ f[k] <= q
         /\ \E a : Piece(text, a, f[k]) /\ Parsed(clauses'[k], SubSeq(text, a, f[k]))
  <2> SUFFICES ASSUME NEW k \in 1 .. n + 1
               PROVE  /\ f[k] <= q
                      /\ \E a : Piece(text, a, f[k]) /\ Parsed(clauses'[k], SubSeq(text, a, f[k]))
    BY <1>17
  <2>1. CASE k \in 1 .. n
    <3>1. f[k] = e[k] /\ e[k] \in Nat /\ e[k] <= p /\ clauses'[k] = clauses[k]
      BY <1>12, <1>16, <1>17, <2>1
    <3>2. f[k] <= q
      BY <1>4, <1>5, <1>13, <1>16, <3>1
    <3>3. \E a : Piece(text, a, e[k]) /\ Parsed(clauses[k], SubSeq(text, a, e[k]))
      BY <1>16, <2>1
    <3> QED
      BY <3>1, <3>2, <3>3
  <2>2. CASE k = n + 1
    <3>1. f[k] = j /\ clauses'[k] = c
      BY <1>12, <1>16, <1>17, <2>2
    <3>2. Piece(text, i, j) /\ Parsed(c, SubSeq(text, i, j))
      BY <1>4, <1>9 DEF s
    <3> QED
      BY <1>4, <3>1, <3>2
  <2> QED
    BY <1>18, <2>1, <2>2
<1>20. \A k, d \in 1 .. Len(f) : k < d => f[k] < f[d]
  <2> SUFFICES ASSUME NEW k \in 1 .. n + 1, NEW d \in 1 .. n + 1, k < d
               PROVE  f[k] < f[d]
    BY <1>17
  <2>1. k \in 1 .. n
    BY <1>17
  <2>2. f[k] = e[k] /\ e[k] \in Nat /\ e[k] <= p
    BY <1>16, <1>17, <2>1
  <2>3. CASE d \in 1 .. n
    BY <1>16, <1>17, <2>1, <2>2, <2>3
  <2>4. CASE d = n + 1
    BY <1>4, <1>5, <1>16, <1>17, <2>2, <2>4
  <2> QED
    BY <1>18, <2>3, <2>4
<1>21. ASSUME NEW a, NEW b, Piece(text, a, b), b <= q
       PROVE  \E k \in 1 .. Len(f) : f[k] = b
  <2>1. b <= p \/ b = j
    BY <1>4, <1>21
  <2>2. CASE b = j
    <3>1. n + 1 \in 1 .. Len(f)
      BY <1>17
    <3> QED
      BY <1>17, <2>2, <3>1
  <2>3. CASE b <= p
    <3>1. PICK k \in 1 .. n : e[k] = b
      BY <1>16, <1>21, <2>3
    <3>2. k \in 1 .. Len(f) /\ f[k] = b
      BY <1>17, <3>1
    <3> QED
      BY <3>2
  <2> QED
    BY <2>1, <2>2, <2>3
<1>22. Len(f) = Len(clauses')
  BY <1>12, <1>16, <1>17
<1>23. Taken(q, f)'
  BY <1>1, <1>4, <1>17, <1>19, <1>20, <1>21, <1>22 DEF Taken
<1>24. ParsedSoFar'
  <2>1. pc' = "parse"
    BY <1>1
  <2>2. rest' = Remainder(text, q)'
    BY <1>1, <1>14 DEF Remainder
  <2>3. \E p1, e1 : Taken(p1, e1)' /\ rest' = Remainder(text, p1)'
    BY <1>23, <2>2
  <2> QED
    BY <2>1, <2>3 DEF ParsedSoFar
<1> QED
  BY <1>12, <1>15, <1>24

(* It has taken all pieces when nothing but dashes is left.                *)
LEMMA AllTaken ==
  ASSUME GettersInv, StartCapture
  PROVE  ParsedSoFar'
<1>0. text \in Seq(Characters) /\ Len(text) \in Nat
  BY TypesOf
<1>1. /\ pc = "parse" /\ pc' = "capture" /\ text' = text /\ clauses' = clauses
      /\ clauses # <<>>
      /\ ~Token(rest).some
  BY DEF StartCapture
<1>2. PICK p, e : Taken(p, e) /\ rest = Remainder(text, p)
  BY <1>1 DEF GettersInv, ParsedSoFar
<1>3. p \in 0 .. Len(text) /\ p \in Nat
  BY <1>0, <1>2 DEF Taken, Between
<1>4. /\ rest \in Seq(Characters) /\ Len(rest) = Len(text) - p
      /\ \A k \in 1 .. Len(text) - p : rest[k] = text[k + p]
  BY <1>0, <1>2, <1>3, RemainderChars
<1>5. \A k \in 1 .. Len(rest) : rest[k] = Dash
  BY <1>1, <1>4, TokenFound
<1>6. ASSUME NEW i, NEW j, Piece(text, i, j) PROVE j <= p
  <2>1. i \in 1 .. Len(text) /\ j \in i .. Len(text) /\ \A k \in i .. j : text[k] # Dash
    BY <1>6 DEF Piece, Stretch
  <2>2. j \in Nat /\ j <= Len(text) /\ text[j] # Dash
    BY <1>0, <2>1
  <2> SUFFICES ASSUME ~(j <= p) PROVE FALSE
    OBVIOUS
  <2>3. j - p \in 1 .. Len(rest) /\ j - p \in 1 .. Len(text) - p /\ (j - p) + p = j
    BY <1>0, <1>3, <1>4, <2>2
  <2> QED
    BY <1>4, <1>5, <2>2, <2>3
<1>7. /\ e \in Seq(Nat) /\ Len(e) = Len(clauses)
      /\ \A k \in 1 .. Len(e) :
           e[k] <= p /\ \E i : Piece(text, i, e[k]) /\ Parsed(clauses[k], SubSeq(text, i, e[k]))
      /\ \A k, d \in 1 .. Len(e) : k < d => e[k] < e[d]
      /\ \A i, j : Piece(text, i, j) /\ j <= p => \E k \in 1 .. Len(e) : e[k] = j
  BY <1>2 DEF Taken
<1>8. \A k \in 1 .. Len(e) : e[k] <= Len(text)
  <2>1. \A k \in 1 .. Len(e) : e[k] \in Nat /\ e[k] <= p
    BY <1>7
  <2> QED
    BY <1>0, <1>3, <2>1
<1>9. Between(text, Len(text))
  BY <1>0 DEF Between
<1>10. \A i, j : Piece(text, i, j) => \E k \in 1 .. Len(e) : e[k] = j
  BY <1>6, <1>7
<1>11. Taken(Len(text), e)'
  BY <1>1, <1>7, <1>8, <1>9, <1>10 DEF Taken
<1> QED
  BY <1>1, <1>11 DEF ParsedSoFar

(* It has taken none at first.                                             *)
LEMMA NoneTaken ==
  ASSUME text' \in Seq(Characters), rest' = text', clauses' = <<>>, pc' = "parse"
  PROVE  ParsedSoFar'
<1> DEFINE t == text'
<1>1. t \in Seq(Characters) /\ Len(t) \in Nat /\ 0 \in 0 .. Len(t)
  OBVIOUS
<1> HIDE DEF t
<1>2. Remainder(t, 0) = t
  <2> DEFINE r == Remainder(t, 0)
  <2>1. /\ r \in Seq(Characters) /\ Len(r) = Len(t) - 0
        /\ \A k \in 1 .. Len(t) - 0 : r[k] = t[k + 0]
    BY <1>1, RemainderChars
  <2> HIDE DEF r
  <2>2. Len(r) = Len(t) /\ \A k \in 1 .. Len(t) : r[k] = t[k]
    BY <1>1, <2>1
  <2>3. r = t
    BY <1>1, <2>1, <2>2, SameSeq
  <2> QED
    BY <2>3 DEF r
<1>3. Between(t, 0)
  BY <1>1 DEF Between
<1>4. ASSUME NEW i, NEW j, Piece(t, i, j) PROVE ~(j <= 0)
  <2>1. i \in 1 .. Len(t) /\ j \in i .. Len(t)
    BY <1>4 DEF Piece, Stretch
  <2> QED
    BY <1>1, <2>1
<1>5. <<>> \in Seq(Nat) /\ Len(<<>>) = 0 /\ 1 .. Len(<<>>) = {}
  OBVIOUS
<1>6. Taken(0, <<>>)'
  BY <1>3, <1>4, <1>5 DEF Taken, t
<1>7. rest' = Remainder(text, 0)'
  BY <1>2 DEF t, Remainder
<1> QED
  BY <1>6, <1>7 DEF ParsedSoFar

(* The text and the clauses in every step.                                 *)
LEMMA ParsedStep == GettersInv /\ GettersNext => ParsedSoFar'
<1> SUFFICES ASSUME GettersInv, GettersNext PROVE ParsedSoFar'
  OBVIOUS
<1>0. text \in Seq(Characters)
  BY TypesOf
<1>1. CASE NoProcess \/ TableUnreadable
  <2>1. text' = <<>> /\ rest' = <<>> /\ clauses' = <<>> /\ pc' = "parse"
    BY <1>1 DEF NoProcess, TableUnreadable, GettersInv, Starting
  <2>2. text' \in Seq(Characters)
    BY <2>1
  <2> QED
    BY <2>1, <2>2, NoneTaken
<1>2. CASE HandOver
  <2>1. /\ text' = Tail(text) /\ rest' = text' /\ clauses' = <<>> /\ pc' = "parse"
        /\ text # <<>>
    BY <1>2 DEF HandOver, GettersInv, Starting, ScanText
  <2>2. text' \in Seq(Characters)
    BY <1>0, <2>1
  <2> QED
    BY <2>1, <2>2, NoneTaken
<1>3. CASE NothingToHandOver
  <2>1. text' = <<>> /\ rest' = <<>> /\ clauses' = <<>> /\ pc' = "parse"
    BY <1>3 DEF NothingToHandOver, GettersInv, Starting, ScanText
  <2>2. text' \in Seq(Characters)
    BY <2>1
  <2> QED
    BY <2>1, <2>2, NoneTaken
<1>4. CASE HandOverRemotes
  <2>1. /\ text' = (IF text # <<>> /\ Last(text) = Dash THEN Front(text) ELSE text)
        /\ rest' = text' /\ clauses' = <<>> /\ pc' = "parse"
    BY <1>4 DEF HandOverRemotes, GettersInv, Starting
  <2>2. text' \in Seq(Characters)
    <3>1. text # <<>> => Front(text) \in Seq(Characters)
      BY <1>0, FrontLast
    <3> QED
      BY <1>0, <2>1, <3>1
  <2> QED
    BY <2>1, <2>2, NoneTaken
<1>5. CASE ParseToken
  BY <1>5, TokenTaken
<1>6. CASE StartCapture
  BY <1>6, AllTaken
<1>7. CASE FindProcess \/ ReadTable \/ RejectToken \/ RejectEmpty \/ RunNetstat
  <2>1. pc' \notin {"parse", "capture"}
    BY <1>7 DEF FindProcess, ReadTable, RejectToken, RejectEmpty, RunNetstat
  <2> QED
    BY <2>1 DEF ParsedSoFar
<1>8. CASE SkipRow \/ PassOverRow \/ ListRow
  <2>1. pc' \notin {"parse", "capture"}
    BY <1>8 DEF SkipRow, PassOverRow, ListRow, Scanning
  <2> QED
    BY <2>1 DEF ParsedSoFar
<1>9. CASE SkipLine \/ ListRemote \/ CutLine
  <2>1. pc' \notin {"parse", "capture"}
    BY <1>9 DEF SkipLine, ListRemote, CutLine, NextLine
  <2> QED
    BY <2>1 DEF ParsedSoFar
<1>10. CASE Ended
  <2>1. UNCHANGED <<text, rest, clauses, pc>>
    BY <1>10 DEF Ended, filterVars
  <2> QED
    BY <2>1 DEF GettersInv, ParsedSoFar, Taken
<1> QED
  BY <1>1, <1>2, <1>3, <1>4, <1>5, <1>6, <1>7, <1>8, <1>9, <1>10 DEF GettersNext, FilterNext

-----------------------------------------------------------------------------
(* The steps of filterGetter.exe.                                          *)

(* More addresses make nothing worse.                                      *)
LEMMA WholeMore ==
  ASSUME NEW R, NEW Q, R \subseteq Q, NEW t, Whole(R, t)
  PROVE  Whole(Q, t)
<1>1. \A i, j : IsText(t, i, j, R) => IsText(t, i, j, Q)
  BY DEF IsText
<1> QED
  BY <1>1 DEF Whole, CutSource, Source

(* One more row has been looked at.                                        *)
LEMMA SeenNext ==
  ASSUME row \in Nat, row >= 1, row' = row + 1, table' = table, pid' = pid
  PROVE  /\ Own(table[row]) => Seen' = Seen \cup {table[row]} /\ Got'
         /\ ~Own(table[row]) => Seen' = Seen /\ (Got' <=> Got)
<1>1. 1 .. row' - 1 = (1 .. row - 1) \cup {row}
  OBVIOUS
<1>2. \A m : Own(table[m])' <=> Own(table[m])
  BY DEF Own
<1>3. Seen' = {table[k] : k \in {m \in (1 .. row - 1) \cup {row} : Own(table[m])}}
  BY <1>1, <1>2 DEF Seen
<1>4. Got' <=> \E i \in (1 .. row - 1) \cup {row} : Own(table[i])
  BY <1>1, <1>2 DEF Got
<1>5. Own(table[row]) => Seen' = Seen \cup {table[row]}
  BY <1>3, Zenon DEF Seen
<1>6. ~Own(table[row]) => Seen' = Seen
  BY <1>3, Zenon DEF Seen
<1> QED
  BY <1>4, <1>5, <1>6 DEF Got

(* The address of one more row is in the text.                             *)
LEMMA RowListed ==
  ASSUME GettersInv, ListRow
  PROVE  text' \in Seq(Characters) /\ Len(text') <= TextRoom /\ ScanText'
<1>0. /\ TextRoom \in Nat \ {0} /\ text \in Seq(Characters) /\ Len(text) \in Nat
      /\ Len(text) <= TextRoom /\ table \in Tables /\ row \in Nat /\ row >= 1
  BY TypesOf
<1>1. /\ pc = "scan" /\ row <= Len(table) /\ row' = row + 1
      /\ text' = Fit(text \o <<Dash>> \o TextOf(table[row]))
      /\ Own(table[row]) /\ ~OccursIn(TextOf(table[row]), text)
      /\ UNCHANGED <<tool, pc, pid, table>>
  BY DEF ListRow, Scanning, AlreadyListed
<1>2. /\ tool = "local" /\ Whole(Seen, text)
      /\ text # <<>> => text[1] = Dash
      /\ Len(text) < TextRoom => \A r \in Seen : OccursIn(TextOf(r), text)
  BY <1>1 DEF GettersInv, ScanText
<1> DEFINE r == table[row]
<1>3. r \in Rows /\ Seen \subseteq Rows
  <2>1. Len(table) \in Nat /\ \A i \in 1 .. Len(table) : table[i] \in Rows
    BY <1>0, TableRows, FilterAssumption
  <2>2. \A m \in 1 .. row - 1 : m \in 1 .. Len(table)
    BY <1>0, <1>1, <2>1
  <2> QED
    BY <1>0, <1>1, <2>1, <2>2 DEF Seen
<1>4. Seen' = Seen \cup {r} /\ Got'
  BY <1>0, <1>1, SeenNext
<1>5. /\ text' \in Seq(Characters) /\ Len(text') <= TextRoom
      /\ text' # <<>> /\ text'[1] = Dash
      /\ Begins(text, text') /\ Whole(Seen \cup {r}, text')
      /\ Len(text') < TextRoom => Len(text) < TextRoom /\ OccursIn(TextOf(r), text')
  <2> DEFINE Q == Seen \cup {r}
             t == text'
  <2>1. Seen \subseteq Q /\ r \in Q
    OBVIOUS
  <2>2. t = Fit(text \o <<Dash>> \o TextOf(r)) /\ ~OccursIn(TextOf(r), text)
    BY <1>1
  <2> HIDE DEF r, Q, t
  <2>3. /\ text \in Seq(Characters) /\ Len(text) <= TextRoom /\ (text # <<>> => text[1] = Dash)
        /\ Seen \subseteq Q /\ r \in Q /\ r \in Rows /\ Whole(Seen, text)
    BY <1>0, <1>2, <1>3, <2>1
  <2>4. /\ t \in Seq(Characters) /\ Len(t) <= TextRoom
        /\ t # <<>> /\ t[1] = Dash
        /\ Begins(text, t) /\ Whole(Q, t)
        /\ Len(t) < TextRoom => Len(text) < TextRoom /\ OccursIn(TextOf(r), t)
    BY <2>2, <2>3, LocalAdds
  <2> QED
    BY <2>4 DEF Q, t
<1> HIDE DEF r
<1>6. ASSUME Len(text') < TextRoom, NEW x \in Seen \cup {r} PROVE OccursIn(TextOf(x), text')
  <2>1. CASE x = r
    BY <1>5, <1>6, <2>1
  <2>2. CASE x \in Seen
    <3>1. OccursIn(TextOf(x), text)
      BY <1>2, <1>5, <1>6, <2>2
    <3>2. TextOf(x) \in Seq(Characters) /\ TextOf(x) # <<>>
      BY <1>3, <2>2, RowText
    <3> QED
      BY <1>0, <1>5, <3>1, <3>2, OccursKept
  <2> QED
    BY <2>1, <2>2
<1>7. row' <= Len(table') + 1
  <2>1. Len(table) \in Nat
    BY <1>0, TableRows, FilterAssumption
  <2> QED
    BY <1>0, <1>1, <2>1
<1>8. Whole(Seen, text)'
  BY <1>4, <1>5 DEF Whole, CutSource, Source, IsText, Distinct
<1>9. (\A x \in Seen : OccursIn(TextOf(x), text))' <=> \A x \in Seen \cup {r} : OccursIn(TextOf(x), text')
  BY <1>4 DEF OccursIn, TextOf
<1> QED
  BY <1>1, <1>2, <1>4, <1>5, <1>6, <1>7, <1>8, <1>9 DEF ScanText

(* The rows and the text in every step.                                    *)
LEMMA ScanTextStep == GettersInv /\ GettersNext => ScanText'
<1> SUFFICES ASSUME GettersInv, GettersNext PROVE ScanText'
  OBVIOUS
<1>0. /\ text \in Seq(Characters) /\ Len(text) \in Nat /\ table \in Tables
      /\ row \in Nat /\ row >= 1 /\ Len(table) \in Nat
  <2>1. table \in Tables
    BY TypesOf
  <2>2. Len(table) \in Nat
    BY <2>1, TableRows, FilterAssumption
  <2> QED
    BY <2>2, TypesOf
<1>1. CASE ReadTable
  <2>1. /\ pc = "read" /\ tool' = "local" /\ row' = 1 /\ text' = <<>> /\ table' \in Tables
    BY <1>1 DEF ReadTable, GettersInv, Starting
  <2>2. 1 .. row' - 1 = {}
    BY <2>1
  <2>3. Seen' = {} /\ ~Got'
    BY <2>2 DEF Seen, Got
  <2>4. Whole({}, <<>>)
    BY EmptyText DEF Whole
  <2>5. Whole(Seen, text)'
    BY <2>1, <2>3, <2>4 DEF Whole, CutSource, Source, IsText, Distinct
  <2>6. row' <= Len(table') + 1
    <3>1. Len(table') \in Nat
      BY <2>1, TableRows, FilterAssumption
    <3> QED
      BY <2>1, <3>1
  <2>7. (\A r \in Seen : OccursIn(TextOf(r), text))'
    BY <2>3
  <2> QED
    BY <2>1, <2>3, <2>5, <2>6, <2>7 DEF ScanText
<1>2. CASE SkipRow \/ PassOverRow
  <2> DEFINE r == table[row]
  <2>1. /\ pc = "scan" /\ row <= Len(table) /\ row' = row + 1
        /\ Own(r) => OccursIn(TextOf(r), text)
        /\ UNCHANGED <<tool, pc, pid, table, text>>
    BY <1>2 DEF SkipRow, PassOverRow, Scanning, AlreadyListed
  <2>2. /\ tool = "local" /\ Whole(Seen, text)
        /\ text # <<>> => text[1] = Dash
        /\ Got => text # <<>>
        /\ ~Got => text = <<>>
        /\ Len(text) < TextRoom => \A x \in Seen : OccursIn(TextOf(x), text)
    BY <2>1 DEF GettersInv, ScanText
  <2>3. r \in Rows
    BY <1>0, <2>1, TableRows
  <2>4. Own(r) => text # <<>>
    <3> SUFFICES ASSUME Own(r), text = <<>> PROVE FALSE
      OBVIOUS
    <3>1. Len(TextOf(r)) \in Nat \ {0}
      BY <2>3, RowText
    <3>2. OccursIn(TextOf(r), <<>>) /\ Len(<<>>) = 0
      BY <2>1
    <3>3. PICK i \in 0 .. 0 - Len(TextOf(r)) : TRUE
      BY <3>2 DEF OccursIn
    <3> QED
      BY <3>1, <3>3
  <2>5. /\ Own(r) => Seen' = Seen \cup {r} /\ Got'
        /\ ~Own(r) => Seen' = Seen /\ (Got' <=> Got)
    BY <1>0, <2>1, SeenNext
  <2> HIDE DEF r
  <2>6. (Got' => text # <<>>) /\ (~Got' => text = <<>>)
    BY <2>2, <2>4, <2>5
  <2>7. Whole(Seen', text)
    <3>1. Seen \subseteq Seen'
      BY <2>5
    <3> QED
      BY <2>2, <3>1, WholeMore
  <2>8. Len(text) < TextRoom => \A x \in Seen' : OccursIn(TextOf(x), text)
    BY <2>1, <2>2, <2>5
  <2>9. Whole(Seen, text)' <=> Whole(Seen', text)
    BY <2>1 DEF Whole, CutSource, Source, IsText, Distinct
  <2>10. (\A x \in Seen : OccursIn(TextOf(x), text))' <=> \A x \in Seen' : OccursIn(TextOf(x), text)
    BY <2>1 DEF OccursIn, TextOf
  <2>11. row' <= Len(table') + 1
    BY <1>0, <2>1
  <2> QED
    BY <2>1, <2>2, <2>6, <2>7, <2>8, <2>9, <2>10, <2>11 DEF ScanText
<1>3. CASE ListRow
  BY <1>3, RowListed
<1>4. CASE FindProcess \/ NoProcess \/ TableUnreadable \/ HandOver \/ NothingToHandOver
             \/ ParseToken \/ RejectToken \/ RejectEmpty \/ StartCapture
  <2>1. pc' # "scan"
    BY <1>4 DEF FindProcess, NoProcess, TableUnreadable, HandOver, NothingToHandOver,
                ParseToken, RejectToken, RejectEmpty, StartCapture
  <2> QED
    BY <2>1 DEF ScanText
<1>5. CASE RunNetstat \/ SkipLine \/ ListRemote \/ CutLine \/ HandOverRemotes
  <2>1. pc' # "scan"
    BY <1>5 DEF RunNetstat, SkipLine, ListRemote, CutLine, HandOverRemotes, NextLine
  <2> QED
    BY <2>1 DEF ScanText
<1>6. CASE Ended
  <2>1. pc' # "scan"
    BY <1>6 DEF Ended, filterVars
  <2> QED
    BY <2>1 DEF ScanText
<1> QED
  BY <1>1, <1>2, <1>3, <1>4, <1>5, <1>6 DEF GettersNext, FilterNext

-----------------------------------------------------------------------------
(* The steps of filterGetterForRemoteAddr.exe.                             *)

(* The process id of a line of the process is read right.                  *)
LEMMA PeerOwn ==
  ASSUME GettersInv, pid < PidSpan, NEW l, Peer(l)
  PROVE  OwnLine(l)
<1>1. pid \in Nat /\ PidSpan \in Nat \ {0}
  <2>1. pid \in {0} \cup {p \in DOMAIN processes : processes[p]} /\ processes \in Processes
    BY DEF GettersInv, Typed, RemoteTypeOK, FilterTypeOK
  <2>2. PICK n \in 0 .. MaxProcesses : processes \in [1 .. n -> BOOLEAN]
    BY <2>1 DEF Processes
  <2>3. DOMAIN processes = 1 .. n
    BY <2>2
  <2> QED
    BY <2>1, <2>3, RemoteAssumption
<1>2. pid % PidSpan = pid
  BY <1>1
<1> QED
  BY <1>2 DEF Peer, OwnLine, LinePid

(* One more line has been looked at.                                       *)
LEMMA HeardNext ==
  ASSUME line \in Nat, line >= 1, line' = line + 1, output' = output, pid' = pid
  PROVE  /\ Heard' = IF OwnLine(output[line]) THEN Heard \cup {output[line]} ELSE Heard
         /\ Missing(text)' =
              {l \in {output[k] : k \in 1 .. line - 1} \cup {output[line]} :
                 Peer(l) /\ ~OccursIn(RemoteText(l), text')}
<1>1. 1 .. line' - 1 = (1 .. line - 1) \cup {line}
  OBVIOUS
<1>2. \A m : OwnLine(output[m])' <=> OwnLine(output[m])
  BY DEF OwnLine, LinePid
<1>3. Heard' = {output[k] : k \in {m \in (1 .. line - 1) \cup {line} : OwnLine(output[m])}}
  BY <1>1, <1>2 DEF Heard
<1>4. OwnLine(output[line]) => Heard' = Heard \cup {output[line]}
  BY <1>3, Zenon DEF Heard
<1>5. ~OwnLine(output[line]) => Heard' = Heard
  BY <1>3, Zenon DEF Heard
<1>6. Missing(text)' = {l \in {output[k] : k \in 1 .. line - 1} \cup {output[line]} :
                          Peer(l) /\ ~OccursIn(RemoteText(l), text')}
  <2>1. {output[k] : k \in (1 .. line - 1) \cup {line}} = {output[k] : k \in 1 .. line - 1} \cup {output[line]}
    OBVIOUS
  <2>2. \A l : Peer(l)' <=> Peer(l)
    BY DEF Peer
  <2>3. Missing(text)' =
          {l \in {output[k] : k \in 1 .. line' - 1} : Peer(l)' /\ ~OccursIn(RemoteText(l), text')}
    BY DEF Missing, OccursIn, RemoteText, TextOf
  <2> QED
    BY <1>1, <2>1, <2>2, <2>3
<1> QED
  BY <1>4, <1>5, <1>6

(* What is missing of the lines of the process, once more has been         *)
(* written: at most this line.                                             *)
LEMMA MissingNext ==
  ASSUME GettersInv, NextLine, pid' = pid, Begins(text, text'), text' \in Seq(Characters)
  PROVE  /\ IsFiniteSet(Missing(text)) /\ Cardinality(Missing(text)) \in Nat
         /\ IsFiniteSet(Missing(text)') /\ Cardinality(Missing(text)') \in Nat
         /\ Cardinality(Missing(text)') <= Cardinality(Missing(text)) + 1
         /\ ~Peer(output[line]) \/ OccursIn(RemoteText(output[line]), text') =>
              Cardinality(Missing(text)') <= Cardinality(Missing(text))
<1> DEFINE S == {output[k] : k \in 1 .. line - 1}
           x == output[line]
           M == Missing(text)
           N == Missing(text)'
<1>0. /\ text \in Seq(Characters) /\ line \in Nat /\ line >= 1 /\ output \in Outputs
      /\ line <= Len(output) /\ line' = line + 1 /\ output' = output
  BY TypesOf DEF NextLine
<1>1. \A k \in 1 .. line - 1 : output[k] \in Lines
  <2>1. Len(output) \in Nat /\ \A k \in 1 .. Len(output) : output[k] \in Lines
    BY <1>0, OutputLines, RemoteAssumption
  <2> QED
    BY <1>0, <2>1
<1>2. IsFiniteSet(S)
  <2> DEFINE f == [k \in 1 .. line - 1 |-> output[k]]
  <2>1. IsFiniteSet(1 .. line - 1)
    BY <1>0, FS_Interval
  <2>2. f \in Surjection(1 .. line - 1, S)
    BY DEF Surjection
  <2> HIDE DEF f, S
  <2> QED
    BY <2>1, <2>2, FS_Surjection
<1>3. N = {l \in S \cup {x} : Peer(l) /\ ~OccursIn(RemoteText(l), text')}
  BY <1>0, HeardNext
<1>4. M = {l \in S : Peer(l) /\ ~OccursIn(RemoteText(l), text)}
  BY DEF Missing
<1>5. \A l \in S : Peer(l) => l \in Rows
  BY <1>1 DEF Lines, Peer
<1> HIDE DEF S, x, M, N
<1>6. IsFiniteSet(M)
  BY <1>2, <1>4, FS_Subset
<1>7. ASSUME NEW l \in N, l # x PROVE l \in M
  <2>1. l \in S /\ Peer(l) /\ ~OccursIn(RemoteText(l), text')
    BY <1>3, <1>7
  <2>2. RemoteText(l) \in Seq(Characters) /\ RemoteText(l) # <<>>
    BY <1>5, <2>1, RemoteRowText
  <2>3. ~OccursIn(RemoteText(l), text)
    BY <1>0, <2>1, <2>2, OccursKept
  <2> QED
    BY <1>4, <2>1, <2>3
<1>8. N \subseteq M \cup {x}
  BY <1>7
<1>9. ~Peer(x) \/ OccursIn(RemoteText(x), text') => N \subseteq M
  BY <1>3, <1>7
<1>10. /\ Cardinality(M) \in Nat /\ IsFiniteSet(N) /\ Cardinality(N) \in Nat
       /\ Cardinality(N) <= Cardinality(M) + 1
       /\ N \subseteq M => Cardinality(N) <= Cardinality(M)
  BY <1>6, <1>8, OneMore
<1> QED
  BY <1>6, <1>9, <1>10 DEF M, N, x

(* The wrong pieces, once an address more has been listed.                 *)
LEMMA WrongNext ==
  ASSUME GettersInv, pc = "lines", NEW r \in Rows, text' = WithRemote(r),
         Heard \subseteq Heard'
  PROVE  /\ text' \in Seq(Characters) /\ Len(text') <= TextRoom /\ Closed(text')
         /\ Begins(text, text') /\ Whole(Rows, text')
         /\ Len(text') < TextRoom => Len(text) < TextRoom /\ OccursIn(RemoteText(r), text')
         /\ LET before == Cardinality(WrongEnds(Heard, text))
                after == Cardinality(WrongEnds(Heard', text'))
            IN  /\ before \in Nat /\ after \in Nat /\ after <= before + 1
                /\ Len(text) = TextRoom => after <= before
                /\ r \in Heard' /\ Len(text') < TextRoom => after <= before
<1> DEFINE Q == Heard'
           t == text'
           W == WrongEnds(Heard, text)
           V == WrongEnds(Q, t)
<1>0. /\ text \in Seq(Characters) /\ Len(text) <= TextRoom
      /\ Closed(text) /\ Whole(Rows, text)
  BY TypesOf DEF GettersInv, LinesText
<1>1. t = Added(text, r)
  BY DEF WithRemote, RemoteListed, Added
<1>2. Heard \subseteq Q
  OBVIOUS
<1> HIDE DEF Q, t
<1>3. /\ t \in Seq(Characters) /\ Len(t) <= TextRoom /\ Closed(t)
      /\ Begins(text, t) /\ Whole(Rows, t)
      /\ Len(t) < TextRoom => Len(text) < TextRoom /\ OccursIn(RemoteText(r), t)
      /\ OneBeyond(V, W)
      /\ Len(text) = TextRoom => V \subseteq W
      /\ r \in Q /\ Len(t) < TextRoom => V \subseteq W
  <2> DEFINE u == text
             R == Heard
  <2> HIDE DEF W, V, u, R
  <2>1. /\ u \in Seq(Characters) /\ Len(u) <= TextRoom /\ Closed(u) /\ Whole(Rows, u)
        /\ R \subseteq Q
        /\ t = Added(u, r)
    BY <1>0, <1>1, <1>2 DEF u, R
  <2>2. /\ t \in Seq(Characters) /\ Len(t) <= TextRoom /\ Closed(t)
        /\ Begins(u, t) /\ Whole(Rows, t)
        /\ Len(t) < TextRoom => Len(u) < TextRoom /\ OccursIn(RemoteText(r), t)
        /\ OneBeyond(WrongEnds(Q, t), WrongEnds(R, u))
        /\ Len(u) = TextRoom => WrongEnds(Q, t) \subseteq WrongEnds(R, u)
        /\ r \in Q /\ Len(t) < TextRoom => WrongEnds(Q, t) \subseteq WrongEnds(R, u)
    BY <2>1, RemoteAdds
  <2> QED
    BY <2>2 DEF W, V, u, R
<1>4. IsFiniteSet(W) /\ IsFiniteSet(V)
  BY <1>0, <1>3, WrongFinite
<1> HIDE DEF W, V
<1>5. /\ Cardinality(W) \in Nat /\ Cardinality(V) \in Nat
      /\ V \subseteq W => Cardinality(V) <= Cardinality(W)
      /\ Cardinality(V) <= Cardinality(W) + 1
  BY <1>3, <1>4, OneMore DEF OneBeyond
<1> QED
  BY <1>3, <1>5 DEF Q, t, W, V

(* The lines and the text in every step.                                   *)
LEMMA LinesTextStep == GettersInv /\ GettersNext => LinesText'
<1> SUFFICES ASSUME GettersInv, GettersNext PROVE LinesText'
  OBVIOUS
<1>0. /\ TextRoom \in Nat \ {0} /\ text \in Seq(Characters) /\ Len(text) \in Nat
      /\ Len(text) <= TextRoom /\ output \in Outputs /\ cuts \in Nat
      /\ line \in Nat /\ line >= 1
  BY TypesOf
<1> DEFINE wrong == Cardinality(WrongEnds(Heard, text))
           missing == Cardinality(Missing(text))
           full == IF Len(text) = TextRoom THEN 1 ELSE 0
<1>1. CASE RunNetstat
  <2>1. /\ tool' = "remote" /\ line' = 1 /\ text' = <<>> /\ cuts' = 0
    BY <1>1 DEF RunNetstat, GettersInv, Starting
  <2>2. 1 .. line' - 1 = {}
    BY <2>1
  <2>3. Heard' = {}
    BY <2>2 DEF Heard
  <2>4. Missing(text)' = {}
    BY <2>2 DEF Missing
  <2>5. WrongEnds(Heard, text)' = {}
    <3>1. WrongEnds({}, <<>>) = {}
      BY EmptyText
    <3> QED
      BY <2>1, <2>3, <3>1 DEF WrongEnds
  <2>6. Cardinality(WrongEnds(Heard, text))' = 0 /\ Cardinality(Missing(text))' = 0
    BY <2>4, <2>5, FS_EmptySet
  <2>7. Closed(<<>>) /\ Whole(Rows, <<>>) /\ Len(<<>>) = 0
    BY EmptyText DEF Closed, Whole
  <2>8. Closed(text)' /\ Whole(Rows, text)'
    BY <2>1, <2>7 DEF Closed, Whole
  <2> QED
    BY <1>0, <2>1, <2>6, <2>7, <2>8 DEF LinesText
<1>2. CASE SkipLine \/ ListRemote \/ CutLine
  <2> DEFINE x == output[line]
             wrong2 == Cardinality(WrongEnds(Heard', text'))
             missing2 == Cardinality(Missing(text)')
             full2 == IF Len(text') = TextRoom THEN 1 ELSE 0
             cuts2 == cuts'
  <2>1. /\ NextLine /\ pc = "lines" /\ line <= Len(output) /\ line' = line + 1
        /\ UNCHANGED <<tool, pc, pid, output>>
        /\ cuts' = cuts \/ cuts' = cuts + 1
    BY <1>2 DEF SkipLine, ListRemote, CutLine, NextLine
  <2>2. /\ tool = "remote" /\ Closed(text) /\ Whole(Rows, text)
        /\ wrong <= cuts + full
        /\ Len(text) < TextRoom /\ pid < PidSpan => missing <= cuts
    BY <2>1 DEF GettersInv, LinesText
  <2>3. /\ OwnLine(x) => Heard' = Heard \cup {x}
        /\ ~OwnLine(x) => Heard' = Heard
    BY <1>0, <2>1, HeardNext
  <2>4. Heard \subseteq Heard'
    BY <2>3
  <2>5. OwnLine(x) => x \in Rows
    <3>1. x \in Lines
      BY <1>0, <2>1, OutputLines
    <3> QED
      BY <3>1 DEF OwnLine, Lines
  <2>6. pid < PidSpan /\ Peer(x) => OwnLine(x)
    BY PeerOwn
  <2>7. cuts2 \in Nat /\ (cuts2 = cuts \/ cuts2 = cuts + 1)
    BY <1>0, <2>1
  <2>8. (WrongEnds(Heard, text))' = WrongEnds(Heard', text')
    BY DEF WrongEnds, IsText, Piece, Stretch, TextOf
  <2>9. /\ full \in Nat /\ (Len(text) = TextRoom => full = 1) /\ (Len(text) # TextRoom => full = 0)
         /\ full2 \in Nat /\ (Len(text') = TextRoom => full2 = 1) /\ (Len(text') # TextRoom => full2 = 0)
    OBVIOUS
  <2> SUFFICES /\ Closed(text') /\ Whole(Rows, text')
               /\ wrong2 <= cuts2 + full2
               /\ Len(text') < TextRoom /\ pid < PidSpan => missing2 <= cuts2
    <3>1. Closed(text)' <=> Closed(text')
      BY DEF Closed
    <3>2. Whole(Rows, text)' <=> Whole(Rows, text')
      BY DEF Whole
    <3>3. Cardinality(WrongEnds(Heard, text))' = wrong2 /\ Cardinality(Missing(text))' = missing2
      BY <2>8
    <3>4. tool' = "remote" /\ Closed(text)' /\ Whole(Rows, text)'
      BY <2>1, <2>2, <3>1, <3>2
    <3>5. (Cardinality(WrongEnds(Heard, text)) <= cuts + (IF Len(text) = TextRoom THEN 1 ELSE 0))'
      BY <3>3
    <3>6. (Len(text) < TextRoom /\ pid < PidSpan => Cardinality(Missing(text)) <= cuts)'
      BY <2>1, <3>3
    <3> QED
      BY <3>4, <3>5, <3>6, Zenon DEF LinesText
  <2>10. CASE SkipLine \/ (CutLine /\ text' = text)
    <3>0. text' = text
      BY <2>10 DEF SkipLine
    <3>1. Begins(text, text') /\ text' \in Seq(Characters)
      BY <1>0, <3>0 DEF Begins
    <3>2. /\ missing \in Nat /\ missing2 \in Nat /\ missing2 <= missing + 1
          /\ ~Peer(x) => missing2 <= missing
      BY <2>1, <3>1, MissingNext
    <3>3. /\ wrong \in Nat /\ wrong2 \in Nat /\ wrong2 <= wrong
      <4> DEFINE W == WrongEnds(Heard, text)
                 V == WrongEnds(Heard', text)
      <4>1. V \subseteq W
        BY <2>4, WrongFewer
      <4>2. IsFiniteSet(W)
        BY <1>0, WrongFinite
      <4>0. wrong = Cardinality(W) /\ wrong2 = Cardinality(V)
        BY <3>0
      <4> HIDE DEF W, V, wrong, wrong2
      <4>3. Cardinality(W) \in Nat /\ IsFiniteSet(V) /\ Cardinality(V) <= Cardinality(W)
        BY <4>1, <4>2, OneMore
      <4>4. Cardinality(V) \in Nat
        BY <4>3, FS_CardinalityType
      <4> QED
        BY <4>0, <4>3, <4>4
    <3>4. pid < PidSpan /\ Peer(x) => cuts2 = cuts + 1
      BY <2>6, <2>10 DEF SkipLine, CutLine
    <3>5. Closed(text') /\ Whole(Rows, text') /\ full2 = full /\ Len(text') = Len(text)
      BY <2>2, <3>0
    <3> HIDE DEF wrong, wrong2, missing, missing2, x, full, full2, cuts2
    <3>6. wrong2 <= cuts2 + full2
      BY <1>0, <2>1, <2>2, <2>7, <2>9, <3>3, <3>5
    <3>7. Len(text') < TextRoom /\ pid < PidSpan => missing2 <= cuts2
      BY <1>0, <2>1, <2>2, <2>7, <3>2, <3>4, <3>5
    <3> QED
      BY <3>5, <3>6, <3>7
  <2>11. ASSUME NEW r \in Rows, text' = WithRemote(r),
                cuts2 = cuts + 1 \/ (r = x /\ OwnLine(x))
         PROVE  /\ Closed(text') /\ Whole(Rows, text')
                /\ wrong2 <= cuts2 + full2
                /\ Len(text') < TextRoom /\ pid < PidSpan => missing2 <= cuts2
    <3>1. /\ text' \in Seq(Characters) /\ Len(text') <= TextRoom /\ Closed(text')
          /\ Begins(text, text') /\ Whole(Rows, text')
          /\ Len(text') < TextRoom => Len(text) < TextRoom /\ OccursIn(RemoteText(r), text')
          /\ wrong \in Nat /\ wrong2 \in Nat /\ wrong2 <= wrong + 1
          /\ Len(text) = TextRoom => wrong2 <= wrong
          /\ r \in Heard' /\ Len(text') < TextRoom => wrong2 <= wrong
      BY <2>1, <2>4, <2>11, WrongNext
    <3>2. /\ missing \in Nat /\ missing2 \in Nat /\ missing2 <= missing + 1
          /\ OccursIn(RemoteText(x), text') => missing2 <= missing
      BY <2>1, <3>1, MissingNext
    <3>3. cuts2 = cuts + 1 \/ r \in Heard'
      BY <2>3, <2>11
    <3>4. Len(text') < TextRoom => cuts2 = cuts + 1 \/ OccursIn(RemoteText(x), text')
      BY <2>11, <3>1
    <3>5. Len(text') \in Nat
      BY <3>1
    <3>6. Len(text) = TextRoom => Len(text') = TextRoom
      BY <1>0, <3>1, <3>5 DEF Begins
    <3> HIDE DEF wrong, wrong2, missing, missing2, x, full, full2, cuts2
    <3>7. wrong2 <= cuts2 + full2
      <4>1. CASE Len(text') < TextRoom
        BY <1>0, <2>1, <2>2, <2>7, <2>9, <3>1, <3>3, <3>5, <4>1
      <4>2. CASE Len(text') = TextRoom /\ Len(text) = TextRoom
        BY <1>0, <2>1, <2>2, <2>7, <2>9, <3>1, <4>2
      <4>3. CASE Len(text') = TextRoom /\ Len(text) < TextRoom
        BY <1>0, <2>1, <2>2, <2>7, <2>9, <3>1, <4>3
      <4> QED
        BY <1>0, <3>1, <3>5, <4>1, <4>2, <4>3
    <3>8. Len(text') < TextRoom /\ pid < PidSpan => missing2 <= cuts2
      BY <1>0, <2>1, <2>2, <2>7, <3>1, <3>2, <3>4
    <3> QED
      BY <3>1, <3>7, <3>8
  <2>12. CASE ListRemote
    <3>1. OwnLine(x) /\ text' = WithRemote(x)
      BY <2>12 DEF ListRemote
    <3> HIDE DEF x, wrong2, missing2, full2, cuts2
    <3> QED
      BY <2>5, <2>11, <3>1
  <2>13. CASE CutLine /\ text' # text
    <3>1. cuts2 = cuts + 1 /\ \E r \in Rows : text' = WithRemote(r)
      BY <2>13 DEF CutLine
    <3> HIDE DEF x, wrong2, missing2, full2, cuts2
    <3> QED
      BY <2>11, <3>1
  <2> HIDE DEF wrong, missing, x, wrong2, missing2, full, full2, cuts2
  <2> QED
    BY <1>2, <2>10, <2>12, <2>13, Zenon
<1>3. CASE FindProcess \/ NoProcess \/ TableUnreadable \/ ReadTable \/ HandOver
             \/ NothingToHandOver \/ ParseToken \/ RejectToken \/ RejectEmpty \/ StartCapture
  <2>1. pc' # "lines"
    BY <1>3 DEF FindProcess, NoProcess, TableUnreadable, ReadTable, HandOver, NothingToHandOver,
                ParseToken, RejectToken, RejectEmpty, StartCapture
  <2> QED
    BY <2>1 DEF LinesText
<1>4. CASE SkipRow \/ PassOverRow \/ ListRow
  <2>1. pc' # "lines"
    BY <1>4 DEF SkipRow, PassOverRow, ListRow, Scanning
  <2> QED
    BY <2>1 DEF LinesText
<1>5. CASE HandOverRemotes \/ Ended
  <2>1. pc' # "lines"
    BY <1>5 DEF HandOverRemotes, Ended, filterVars
  <2> QED
    BY <2>1 DEF LinesText
<1> QED
  BY <1>1, <1>2, <1>3, <1>4, <1>5 DEF GettersNext, FilterNext

-----------------------------------------------------------------------------
(* The text is handed over.                                                *)

(* It is empty when nothing has been found.                                *)
LEMMA NothingHanded ==
  ASSUME text' = <<>>, tool' = "local" => OwnRows' = {},
         tool' = "remote" => line' = 1 /\ output' = <<>> /\ cuts' = 0
  PROVE  HandedOver'
<1>1. \A R : Handed(R, <<>>) /\ WrongEnds(R, <<>>) = {}
  BY EmptyText DEF Handed
<1>2. CASE tool' = "local"
  <2>1. Handed(OwnRows, text)'
    <3>1. Handed({}, <<>>)
      BY <1>1
    <3>2. OwnRows' = {} /\ text' = <<>>
      BY <1>2
    <3>3. Handed(OwnRows', text')
      BY <3>1, <3>2
    <3> QED
      BY <3>3, Zenon DEF Handed, CutSource, Source, IsText, Distinct
  <2>2. (\A r \in OwnRows : OccursIn(TextOf(r), text))'
    <3>1. OwnRows' = {}
      BY <1>2
    <3> QED
      BY <3>1
  <2> QED
    BY <1>2, <2>1, <2>2 DEF HandedOver
<1>3. CASE tool' = "remote"
  <2>1. line' = 1 /\ output' = <<>> /\ cuts' = 0 /\ 1 .. line' - 1 = {}
    BY <1>3
  <2>2. Handed(Rows, text)'
    <3>1. Handed(Rows, <<>>)
      BY <1>1
    <3> QED
      BY <3>1 DEF Handed
  <2>3. WrongEnds(Heard, text)' = {}
    <3>1. WrongEnds(Heard', <<>>) = {}
      BY <1>1
    <3> QED
      BY <3>1 DEF WrongEnds
  <2>4. Missing(text \o <<Dash>>)' = {}
    BY <2>1 DEF Missing
  <2>5. Cardinality(WrongEnds(Heard, text))' = 0 /\ Cardinality(Missing(text \o <<Dash>>))' = 0
    BY <2>3, <2>4, FS_EmptySet
  <2>6. line' = Len(output') + 1
    BY <2>1
  <2>7. (Cardinality(WrongEnds(Heard, text)) <= cuts + (IF Filled THEN 1 ELSE 0))'
    BY <2>1, <2>5
  <2>8. (Cardinality(Missing(text \o <<Dash>>)) <= cuts)'
    BY <2>1, <2>5
  <2> QED
    BY <1>3, <2>2, <2>6, <2>7, <2>8, Zenon DEF HandedOver
<1> QED
  BY <1>2, <1>3 DEF HandedOver

(* filterGetter.exe has looked at all rows.                                *)
LEMMA LocalHanded ==
  ASSUME GettersInv, pc = "scan", row > Len(table)
  PROVE  tool = "local" /\ Seen = OwnRows /\ (~Got => OwnRows = {})
<1>0. table \in Tables /\ row \in Nat
  BY TypesOf
<1>1. Len(table) \in Nat /\ DOMAIN table = 1 .. Len(table)
  BY <1>0, TableRows, FilterAssumption
<1>2. tool = "local" /\ row <= Len(table) + 1
  BY DEF GettersInv, ScanText
<1>3. row - 1 = Len(table)
  BY <1>0, <1>1, <1>2
<1>4. Seen = OwnRows
  BY <1>1, <1>3 DEF Seen, OwnRows
<1>5. ~Got => OwnRows = {}
  BY <1>1, <1>3 DEF Got, OwnRows
<1> QED
  BY <1>2, <1>4, <1>5

(* filterGetter.exe prints its text.                                       *)
LEMMA LocalPrinted ==
  ASSUME GettersInv, HandOver
  PROVE  text' \in Seq(Characters) /\ Len(text') <= TextRoom /\ HandedOver'
<1>0. /\ TextRoom \in Nat \ {0} /\ text \in Seq(Characters) /\ Len(text) \in Nat
      /\ Len(text) <= TextRoom /\ table \in Tables
  BY TypesOf
<1>1. /\ pc = "scan" /\ row > Len(table) /\ Got /\ text' = Tail(text)
      /\ UNCHANGED <<tool, table, pid>>
  BY DEF HandOver
<1>2. tool = "local" /\ Seen = OwnRows
  BY <1>1, LocalHanded
<1>3. /\ text # <<>> /\ text[1] = Dash /\ Whole(OwnRows, text)
      /\ Len(text) < TextRoom => \A r \in OwnRows : OccursIn(TextOf(r), text)
  BY <1>1, <1>2 DEF GettersInv, ScanText
<1> DEFINE t == Tail(text)
<1>4. /\ t \in Seq(Characters) /\ Len(t) <= TextRoom
      /\ Len(t) = Len(text) - 1 /\ Handed(OwnRows, t)
  BY <1>0, <1>3, LocalHandsOver
<1>5. OwnRows' = OwnRows
  BY <1>1 DEF OwnRows, Own
<1>6. OwnRows \subseteq Rows
  BY <1>0, TableRows DEF OwnRows
<1>7. ASSUME ~(Len(t) >= TextRoom - 1), NEW r \in OwnRows PROVE OccursIn(TextOf(r), t)
  <2>1. Len(text) < TextRoom
    <3> HIDE DEF t
    <3> QED
      BY <1>0, <1>4, <1>7
  <2>2. OccursIn(TextOf(r), text)
    BY <1>3, <1>7, <2>1
  <2>3. /\ TextOf(r) \in Seq(Characters) /\ TextOf(r) # <<>> /\ Len(TextOf(r)) \in Nat \ {0}
        /\ \A k \in 1 .. Len(TextOf(r)) : TextOf(r)[k] # Dash
    BY <1>6, <1>7, RowText
  <2>4. TextOf(r)[1] # Dash
    BY <2>3
  <2> QED
    BY <1>0, <1>3, <2>2, <2>3, <2>4, TailOccurs
<1>8. text' = t
  BY <1>1
<1> HIDE DEF t
<1>9. Handed(OwnRows, text)'
  BY <1>4, <1>5, <1>8 DEF Handed, CutSource, Source, IsText, Distinct
<1>10. Filled' <=> Len(t) >= TextRoom - 1
  BY <1>8 DEF Filled
<1>11. (\A r \in OwnRows : OccursIn(TextOf(r), text))' <=> \A r \in OwnRows : OccursIn(TextOf(r), t)
  BY <1>5, <1>8 DEF OccursIn, TextOf
<1> QED
  BY <1>1, <1>2, <1>4, <1>7, <1>8, <1>9, <1>10, <1>11 DEF HandedOver

(* filterGetterForRemoteAddr.exe prints its text.                          *)
LEMMA RemotePrinted ==
  ASSUME GettersInv, HandOverRemotes
  PROVE  text' \in Seq(Characters) /\ Len(text') <= TextRoom /\ HandedOver'
<1>0. /\ TextRoom \in Nat \ {0} /\ text \in Seq(Characters) /\ Len(text) \in Nat
      /\ Len(text) <= TextRoom /\ output \in Outputs /\ cuts \in Nat
      /\ line \in Nat /\ line <= Len(output) + 1
  BY TypesOf
<1> DEFINE t == IF text # <<>> /\ Last(text) = Dash THEN Front(text) ELSE text
           W == WrongEnds(Heard, text)
           V == WrongEnds(Heard, t)
           M == Missing(text)
           N == Missing(t \o <<Dash>>)
<1>1. /\ pc = "lines" /\ line > Len(output) /\ text' = t
      /\ UNCHANGED <<tool, pid, output, line, cuts>>
  BY DEF HandOverRemotes, remoteVars
<1>2. /\ tool = "remote" /\ Closed(text) /\ Whole(Rows, text)
      /\ Cardinality(W) <= cuts + (IF Len(text) = TextRoom THEN 1 ELSE 0)
      /\ Len(text) < TextRoom /\ pid < PidSpan => Cardinality(M) <= cuts
  BY <1>1 DEF GettersInv, LinesText
<1>3. line = Len(output) + 1
  <2>1. Len(output) \in Nat
    BY <1>0, OutputLines, RemoteAssumption
  <2> QED
    BY <1>0, <1>1, <2>1
<1>4. t = IF text # <<>> /\ Last(text) = Dash THEN Front(text) ELSE text
  OBVIOUS
<1> HIDE DEF t
<1>5. /\ t \in Seq(Characters) /\ Len(t) <= TextRoom /\ Handed(Rows, t)
      /\ V \subseteq W
      /\ Len(text) = TextRoom => ~(Len(t) < TextRoom - 1)
      /\ t \o <<Dash>> = text \/ (text = <<>> /\ t = <<>>) \/ ~(Len(t) < TextRoom - 1)
  <2> HIDE DEF W, V
  <2> QED
    BY <1>0, <1>2, <1>4, RemoteHandsOver DEF W, V
<1>6. Len(t) \in Nat
  BY <1>5
<1> DEFINE full == IF Len(text) = TextRoom THEN 1 ELSE 0
           full2 == IF Len(t) >= TextRoom - 1 THEN 1 ELSE 0
<1>7. Cardinality(V) <= cuts + full2
  <2>1. IsFiniteSet(W)
    BY <1>0, WrongFinite
  <2>2. /\ full \in Nat /\ full2 \in Nat /\ full <= full2
    BY <1>0, <1>5, <1>6
  <2>3. Cardinality(W) <= cuts + full
    BY <1>2
  <2> HIDE DEF W, V, full, full2
  <2>4. Cardinality(W) \in Nat /\ IsFiniteSet(V) /\ Cardinality(V) <= Cardinality(W)
    BY <1>5, <2>1, OneMore
  <2>5. Cardinality(V) \in Nat
    BY <2>4, FS_CardinalityType
  <2> QED
    BY <1>0, <2>2, <2>3, <2>4, <2>5
<1>8. ASSUME ~(Len(t) >= TextRoom - 1), pid < PidSpan PROVE Cardinality(N) <= cuts
  <2>1. Len(text) < TextRoom /\ Len(t) < TextRoom - 1
    BY <1>0, <1>5, <1>6, <1>8
  <2>2. Cardinality(M) <= cuts
    BY <1>2, <1>8, <2>1
  <2>3. N \subseteq M
    <3>1. CASE t \o <<Dash>> = text
      BY <3>1
    <3>2. CASE text = <<>>
      <4>1. ASSUME NEW l, Peer(l), l \in {output[k] : k \in 1 .. line - 1}
            PROVE  ~OccursIn(RemoteText(l), text)
        <5>1. \A k \in 1 .. Len(output) : output[k] \in Lines
          BY <1>0, OutputLines
        <5>2. l \in Rows
          BY <1>3, <4>1, <5>1, <1>0 DEF Lines, Peer
        <5>3. Len(RemoteText(l)) \in Nat \ {0}
          <6>1. RemoteText(l) \in Seq(Characters) /\ RemoteText(l) # <<>>
            BY <5>2, RemoteRowText
          <6> QED
            BY <6>1
        <5>4. Len(text) = 0 /\ 0 .. 0 - Len(RemoteText(l)) = {}
          BY <3>2, <5>3
        <5> QED
          BY <5>4 DEF OccursIn
      <4> QED
        BY <4>1 DEF Missing
    <3> QED
      BY <1>5, <2>1, <3>1, <3>2
  <2>4. IsFiniteSet(M)
    <3> DEFINE S == {output[k] : k \in 1 .. line - 1}
               f == [k \in 1 .. line - 1 |-> output[k]]
    <3>1. IsFiniteSet(1 .. line - 1)
      BY <1>0, FS_Interval
    <3>2. f \in Surjection(1 .. line - 1, S)
      BY DEF Surjection
    <3>3. M \subseteq S
      BY DEF Missing
    <3> HIDE DEF f, S, M
    <3>4. IsFiniteSet(S)
      BY <3>1, <3>2, FS_Surjection
    <3> QED
      BY <3>3, <3>4, FS_Subset
  <2> HIDE DEF M, N
  <2>5. Cardinality(M) \in Nat /\ IsFiniteSet(N) /\ Cardinality(N) <= Cardinality(M)
    BY <2>3, <2>4, OneMore
  <2>6. Cardinality(N) \in Nat
    BY <2>5, FS_CardinalityType
  <2> QED
    BY <1>0, <2>2, <2>5, <2>6
<1>9. /\ WrongEnds(Heard, text)' = V
      /\ Missing(text \o <<Dash>>)' = N
  <2>1. Heard' = Heard
    BY <1>1 DEF Heard, OwnLine, LinePid
  <2>2. WrongEnds(Heard, text)' = V
    BY <1>1, <2>1 DEF WrongEnds, IsText, Piece, Stretch, TextOf
  <2>3. Missing(text \o <<Dash>>)' = N
    BY <1>1 DEF Missing, Peer, OccursIn, RemoteText, TextOf
  <2> QED
    BY <2>2, <2>3
<1>10. /\ tool' = "remote" /\ line' = Len(output') + 1 /\ cuts' = cuts /\ pid' = pid
       /\ Filled' <=> Len(t) >= TextRoom - 1
  BY <1>1, <1>2, <1>3 DEF Filled
<1>11. Handed(Rows, text)'
  BY <1>1, <1>5 DEF Handed
<1>12. (Cardinality(WrongEnds(Heard, text)) <= cuts + (IF Filled THEN 1 ELSE 0))'
  <2> HIDE DEF V
  <2> QED
    BY <1>7, <1>9, <1>10
<1>13. (~Filled /\ pid < PidSpan => Cardinality(Missing(text \o <<Dash>>)) <= cuts)'
  <2> HIDE DEF N
  <2> QED
    BY <1>8, <1>9, <1>10
<1>14. HandedOver'
  BY <1>10, <1>11, <1>12, <1>13, Zenon DEF HandedOver
<1> QED
  BY <1>1, <1>5, <1>14

(* The text that has been handed over in every step.                       *)
LEMMA HandedOverStep == GettersInv /\ GettersNext => HandedOver'
<1> SUFFICES ASSUME GettersInv, GettersNext PROVE HandedOver'
  OBVIOUS
<1>1. CASE NoProcess \/ TableUnreadable
  <2>1. /\ text' = <<>> /\ table' = <<>> /\ line' = 1 /\ output' = <<>> /\ cuts' = 0
    <3>1. pc \in {"lookup", "read"} /\ UNCHANGED <<text, table>>
      BY <1>1 DEF NoProcess, TableUnreadable
    <3>2. UNCHANGED <<line, output, cuts>>
      BY <1>1, <3>1 DEF GettersNext, remoteVars, NoProcess, TableUnreadable, RunNetstat,
                        SkipLine, ListRemote, CutLine, NextLine, HandOverRemotes
    <3> QED
      BY <3>1, <3>2 DEF GettersInv, Starting
  <2>2. OwnRows' = {}
    BY <2>1 DEF OwnRows
  <2> QED
    BY <2>1, <2>2, NothingHanded
<1>2. CASE HandOver
  BY <1>2, LocalPrinted
<1>3. CASE NothingToHandOver
  <2>1. /\ pc = "scan" /\ row > Len(table) /\ ~Got /\ UNCHANGED <<tool, text, table, pid>>
    BY <1>3 DEF NothingToHandOver
  <2>2. tool' = "local" /\ OwnRows = {}
    BY <2>1, LocalHanded
  <2>3. OwnRows' = {}
    BY <2>1, <2>2 DEF OwnRows, Own
  <2>4. text' = <<>>
    BY <2>1 DEF GettersInv, ScanText
  <2> QED
    BY <2>2, <2>3, <2>4, NothingHanded
<1>4. CASE HandOverRemotes
  BY <1>4, RemotePrinted
<1>5. CASE ParseToken \/ StartCapture \/ Ended
  <2>1. pc \in {"parse", "capture", "exit"} /\ (pc' = "capture" => pc # "exit") /\ (pc' = "parse" => pc = "parse")
    BY <1>5 DEF ParseToken, StartCapture, Ended, filterVars
  <2>2. UNCHANGED <<tool, text, table, pid>>
    BY <1>5 DEF ParseToken, StartCapture, Ended, filterVars
  <2>3. UNCHANGED <<line, output, cuts>>
    BY <2>1 DEF GettersNext, remoteVars, RunNetstat,
                SkipLine, ListRemote, CutLine, NextLine, HandOverRemotes
  <2>4. pc' \in {"parse", "capture"} => HandedOver /\ pc \in {"parse", "capture"}
    BY <2>1 DEF GettersInv
  <2> QED
    BY <2>2, <2>3, <2>4 DEF HandedOver, Heard, Missing, OwnLine, LinePid, Peer, OwnRows, Own, Filled
<1>6. CASE FindProcess \/ ReadTable \/ RejectToken \/ RejectEmpty \/ RunNetstat
  <2>1. pc' \notin {"parse", "capture"}
    BY <1>6 DEF FindProcess, ReadTable, RejectToken, RejectEmpty, RunNetstat
  <2> QED
    BY <2>1 DEF HandedOver
<1>7. CASE SkipRow \/ PassOverRow \/ ListRow
  <2>1. pc' \notin {"parse", "capture"}
    BY <1>7 DEF SkipRow, PassOverRow, ListRow, Scanning
  <2> QED
    BY <2>1 DEF HandedOver
<1>8. CASE SkipLine \/ ListRemote \/ CutLine
  <2>1. pc' \notin {"parse", "capture"}
    BY <1>8 DEF SkipLine, ListRemote, CutLine, NextLine
  <2> QED
    BY <2>1 DEF HandedOver
<1> QED
  BY <1>1, <1>2, <1>3, <1>4, <1>5, <1>6, <1>7, <1>8 DEF GettersNext, FilterNext

-----------------------------------------------------------------------------
(* The types.                                                              *)

Named == {0} \cup {p \in DOMAIN processes : processes[p]}
Places == {"lookup", "read", "scan", "lines", "parse", "capture", "exit"}

(* Every variable has its type if each has.                                *)
LEMMA TypedNext ==
  ASSUME GettersInv, UNCHANGED <<tool, processes>>, pid' \in Named, pc' \in Places,
         table' \in Tables, row' \in 1 .. MaxRows + 1,
         text' \in Seq(Characters), Len(text') <= TextRoom,
         rest' \in Seq(Characters), Len(rest') <= TextRoom, clauses' \in Seq(Clauses),
         output' \in Outputs, line' \in 1 .. MaxLines + 1, line' <= Len(output') + 1,
         cuts' \in 0 .. line' - 1
  PROVE  Typed'
<1>1. /\ tool \in Tools /\ processes \in Processes
      /\ DOMAIN processes \in {1 .. n : n \in 0 .. MaxProcesses}
  BY DEF GettersInv, Typed, RemoteTypeOK, FilterTypeOK
<1>2. /\ tool' \in Tools /\ processes' \in Processes
      /\ DOMAIN processes' \in {1 .. n : n \in 0 .. MaxProcesses}
      /\ pid' \in {0} \cup {p \in DOMAIN processes' : processes'[p]}
  BY <1>1, Zenon DEF Named
<1> QED
  BY <1>2, Zenon DEF Typed, RemoteTypeOK, FilterTypeOK, Characters, Clauses, Places

(* The types in every step.                                                *)
LEMMA TypedStep == GettersInv /\ GettersNext => Typed'
<1> SUFFICES ASSUME GettersInv, GettersNext PROVE Typed'
  OBVIOUS
<1>0. /\ TextRoom \in Nat \ {0} /\ MaxRows \in Nat /\ MaxLines \in Nat
      /\ processes \in Processes /\ table \in Tables /\ output \in Outputs
      /\ text \in Seq(Characters) /\ Len(text) <= TextRoom
      /\ rest \in Seq(Characters) /\ Len(rest) <= TextRoom /\ clauses \in Seq(Clauses)
      /\ row \in 1 .. MaxRows + 1 /\ row \in Nat
      /\ line \in 1 .. MaxLines + 1 /\ line \in Nat /\ line <= Len(output) + 1
      /\ cuts \in 0 .. line - 1 /\ cuts \in Nat
  BY TypesOf
<1>01. pid \in Named /\ pc \in Places
  BY DEF GettersInv, Typed, RemoteTypeOK, FilterTypeOK, Named, Places
<1>02. Len(table) \in 0 .. MaxRows /\ Len(output) \in 0 .. MaxLines
  BY <1>0, TableRows, OutputLines
<1>03. pc' \in Places
  BY <1>01 DEF Places, GettersNext, FilterNext, FindProcess, NoProcess, TableUnreadable,
    ReadTable, SkipRow, PassOverRow, ListRow, Scanning, HandOver, NothingToHandOver,
    ParseToken, RejectToken, RejectEmpty, StartCapture, Ended, filterVars,
    RunNetstat, SkipLine, ListRemote, CutLine, NextLine, HandOverRemotes
<1>1. CASE FindProcess /\ UNCHANGED remoteVars
  <2>1. pid' \in Named
    BY <1>0, <1>1, FirstNamedFound DEF FindProcess, Named
  <2> QED
    BY <1>0, <1>03, <1>1, <2>1, TypedNext DEF FindProcess, remoteVars
<1>2. CASE /\ NoProcess \/ TableUnreadable \/ NothingToHandOver
              \/ RejectToken \/ RejectEmpty \/ StartCapture
           /\ UNCHANGED remoteVars
  <2>1. UNCHANGED <<tool, processes, pid, table, row, text, rest, clauses>>
    BY <1>2 DEF NoProcess, TableUnreadable, NothingToHandOver, RejectToken, RejectEmpty,
                StartCapture
  <2> QED
    BY <1>0, <1>01, <1>03, <1>2, <2>1, TypedNext DEF remoteVars
<1>3. CASE ReadTable /\ UNCHANGED remoteVars
  BY <1>0, <1>01, <1>03, <1>3, TypedNext DEF ReadTable, remoteVars
<1>4. CASE (SkipRow \/ PassOverRow \/ ListRow) /\ UNCHANGED remoteVars
  <2>1. /\ row <= Len(table) /\ row' = row + 1
        /\ UNCHANGED <<tool, processes, pid, table, rest, clauses>>
    BY <1>4 DEF SkipRow, PassOverRow, ListRow, Scanning
  <2>2. row + 1 \in 1 .. MaxRows + 1
    BY <1>0, <1>02, <2>1
  <2>3. text' \in Seq(Characters) /\ Len(text') <= TextRoom
    BY <1>0, <1>4, RowListed DEF SkipRow, PassOverRow
  <2> QED
    BY <1>0, <1>01, <1>03, <1>4, <2>1, <2>2, <2>3, TypedNext DEF remoteVars
<1>5. CASE HandOver /\ UNCHANGED remoteVars
  <2>1. UNCHANGED <<tool, processes, pid, table, row, clauses>> /\ rest' = text'
    BY <1>5 DEF HandOver
  <2>2. text' \in Seq(Characters) /\ Len(text') <= TextRoom
    BY <1>5, LocalPrinted
  <2> QED
    BY <1>0, <1>01, <1>03, <1>5, <2>1, <2>2, TypedNext DEF remoteVars
<1>6. CASE ParseToken /\ UNCHANGED remoteVars
  <2>1. UNCHANGED <<tool, processes, pid, table, row, text>>
    BY <1>6 DEF ParseToken
  <2>2. clauses' \in Seq(Clauses) /\ rest' \in Seq(Characters) /\ Len(rest') <= TextRoom
    BY <1>6, TokenTaken
  <2> QED
    BY <1>0, <1>01, <1>03, <1>6, <2>1, <2>2, TypedNext DEF remoteVars
<1>7. CASE Ended /\ UNCHANGED remoteVars
  BY <1>0, <1>01, <1>03, <1>7, TypedNext DEF Ended, filterVars, remoteVars
<1>8. CASE RunNetstat
  <2>1. /\ output' \in Outputs /\ line = 1 /\ cuts = 0
        /\ UNCHANGED <<tool, processes, pid, table, row, text, rest, clauses, line, cuts>>
    BY <1>8 DEF RunNetstat, GettersInv, Starting
  <2> DEFINE out == output'
  <2>2. Len(out) \in Nat
    <3>1. out \in Outputs
      BY <2>1
    <3> HIDE DEF out
    <3> QED
      BY <3>1, OutputLines, RemoteAssumption
  <2>3. line <= Len(out) + 1
    <3> HIDE DEF out
    <3> QED
      BY <2>1, <2>2
  <2> QED
    BY <1>0, <1>01, <1>03, <2>1, <2>3, TypedNext
<1>9. CASE SkipLine \/ ListRemote \/ CutLine
  <2>1. /\ pc = "lines" /\ line <= Len(output) /\ line' = line + 1
        /\ UNCHANGED <<tool, processes, pid, table, row, rest, clauses, output>>
        /\ cuts' = cuts \/ cuts' = cuts + 1
    BY <1>9 DEF SkipLine, ListRemote, CutLine, NextLine
  <2>2. /\ line + 1 \in 1 .. MaxLines + 1 /\ line + 1 <= Len(output) + 1
        /\ cuts \in 0 .. (line + 1) - 1 /\ cuts + 1 \in 0 .. (line + 1) - 1
    BY <1>0, <1>02, <2>1
  <2>3. text' \in Seq(Characters) /\ Len(text') <= TextRoom
    <3>1. Heard \subseteq Heard'
      <4>1. /\ OwnLine(output[line]) => Heard' = Heard \cup {output[line]}
            /\ ~OwnLine(output[line]) => Heard' = Heard
        BY <1>0, <2>1, HeardNext
      <4> QED
        BY <4>1
    <3>2. text' = text \/ \E r \in Rows : text' = WithRemote(r)
      <4>1. OwnLine(output[line]) => output[line] \in Rows
        <5>1. output[line] \in Lines
          BY <1>0, <2>1, OutputLines
        <5> QED
          BY <5>1 DEF OwnLine, Lines
      <4> QED
        BY <1>9, <4>1 DEF SkipLine, ListRemote, CutLine
    <3>3. CASE text' = text
      BY <1>0, <3>3
    <3>4. ASSUME NEW r \in Rows, text' = WithRemote(r)
          PROVE  text' \in Seq(Characters) /\ Len(text') <= TextRoom
      BY <2>1, <3>1, <3>4, WrongNext
    <3> QED
      BY <3>2, <3>3, <3>4
  <2>4. /\ line' \in 1 .. MaxLines + 1 /\ line' <= Len(output') + 1 /\ cuts' \in 0 .. line' - 1
    <3>1. cuts' \in 0 .. (line + 1) - 1
      BY <2>1, <2>2
    <3> QED
      BY <2>1, <2>2, <3>1
  <2> QED
    BY <1>0, <1>01, <1>03, <2>1, <2>3, <2>4, TypedNext
<1>10. CASE HandOverRemotes
  <2>1. UNCHANGED <<tool, processes, pid, table, row, clauses, output, line, cuts>> /\ rest' = text'
    BY <1>10 DEF HandOverRemotes, remoteVars
  <2>2. text' \in Seq(Characters) /\ Len(text') <= TextRoom
    BY <1>10, RemotePrinted
  <2> QED
    BY <1>0, <1>01, <1>03, <2>1, <2>2, TypedNext
<1> QED
  BY <1>1, <1>2, <1>3, <1>4, <1>5, <1>6, <1>7, <1>8, <1>9, <1>10 DEF GettersNext, FilterNext

(* The start in every step.                                                *)
LEMMA StartingStep == GettersInv /\ GettersNext => Starting'
<1> SUFFICES ASSUME GettersInv, GettersNext PROVE Starting'
  OBVIOUS
<1>0. Starting
  BY DEF GettersInv
<1>1. CASE FindProcess /\ UNCHANGED remoteVars
  BY <1>0, <1>1 DEF FindProcess, remoteVars, Starting
<1>2. CASE ReadTable
  BY <1>0, <1>2 DEF ReadTable, Starting
<1>3. CASE SkipRow \/ PassOverRow \/ ListRow
  BY <1>0, <1>3 DEF SkipRow, PassOverRow, ListRow, Scanning, Starting
<1>4. CASE RunNetstat
  BY <1>0, <1>4 DEF RunNetstat, Starting
<1>5. CASE SkipLine \/ ListRemote \/ CutLine
  BY <1>0, <1>5 DEF SkipLine, ListRemote, CutLine, NextLine, Starting
<1>6. CASE NoProcess \/ TableUnreadable \/ HandOver \/ NothingToHandOver
             \/ ParseToken \/ RejectToken \/ RejectEmpty \/ StartCapture \/ Ended \/ HandOverRemotes
  <2>1. pc' \in {"parse", "capture", "exit"}
    BY <1>6 DEF NoProcess, TableUnreadable, HandOver, NothingToHandOver, ParseToken,
                RejectToken, RejectEmpty, StartCapture, Ended, filterVars, HandOverRemotes
  <2> QED
    BY <2>1 DEF Starting
<1> QED
  BY <1>1, <1>2, <1>3, <1>4, <1>5, <1>6 DEF GettersNext, FilterNext

(* The invariant holds in every step,                                      *)
LEMMA GettersStep == GettersInv /\ [GettersNext]_gettersVars => GettersInv'
BY TypedStep, StartingStep, ScanTextStep, LinesTextStep, HandedOverStep, ParsedStep,
   GettersStutter DEF GettersInv

(* and so always.                                                          *)
THEOREM GettersAlwaysInv == GettersSpec => []GettersInv
BY GettersInitInv, GettersStep, PTL DEF GettersSpec

(* Every variable of the two getters and of parseFilter has its type: the  *)
(* buffer of 2048 characters is never exceeded, a clause never has a byte  *)
(* beyond 255.                                                             *)
THEOREM GettersTyped == GettersSpec => []RemoteTypeOK
<1>1. GettersInv => RemoteTypeOK
  BY DEF GettersInv, Typed
<1> QED
  BY <1>1, GettersAlwaysInv, PTL

-----------------------------------------------------------------------------
(* What the invariant says of the filter.                                  *)

(* The places where the pieces of the clauses end.                         *)
Ends(e) ==
  /\ e \in [DOMAIN clauses -> 1 .. Len(text)]
  /\ \A c \in DOMAIN clauses :
       \E i : Piece(text, i, e[c]) /\ Parsed(clauses[c], SubSeq(text, i, e[c]))
  /\ \A c, d \in DOMAIN clauses : c < d => e[c] < e[d]

(* All pieces of the text, and nothing else, have become clauses.          *)
LEMMA AllRead ==
  ASSUME GettersInv, pc = "capture"
  PROVE  /\ clauses # <<>> /\ clauses \in Seq(Clauses) /\ text \in Seq(Characters)
         /\ Len(text) \in Nat /\ DOMAIN clauses = 1 .. Len(clauses) /\ Len(clauses) \in Nat \ {0}
         /\ \E e : Ends(e)
         /\ \A a, b : Piece(text, a, b) =>
              \E c \in DOMAIN clauses : Parsed(clauses[c], SubSeq(text, a, b))
<1>0. clauses \in Seq(Clauses) /\ text \in Seq(Characters) /\ Len(text) \in Nat
  BY TypesOf
<1>1. clauses # <<>> /\ \E e : Taken(Len(text), e)
  BY DEF GettersInv, ParsedSoFar
<1>2. PICK e : Taken(Len(text), e)
  BY <1>1
<1>3. DOMAIN clauses = 1 .. Len(clauses) /\ Len(clauses) \in Nat \ {0}
  BY <1>0, <1>1
<1>4. /\ e \in Seq(Nat) /\ Len(e) = Len(clauses)
      /\ \A c \in 1 .. Len(e) :
           \E i : Piece(text, i, e[c]) /\ Parsed(clauses[c], SubSeq(text, i, e[c]))
      /\ \A c, d \in 1 .. Len(e) : c < d => e[c] < e[d]
      /\ \A i, j : Piece(text, i, j) /\ j <= Len(text) => \E c \in 1 .. Len(e) : e[c] = j
  BY <1>2 DEF Taken
<1>5. e \in [DOMAIN clauses -> 1 .. Len(text)]
  <2>1. e \in [1 .. Len(clauses) -> Nat]
    BY <1>4
  <2>2. \A c \in 1 .. Len(clauses) : e[c] \in 1 .. Len(text)
    BY <1>0, <1>4 DEF Piece, Stretch
  <2> QED
    BY <1>3, <2>1, <2>2
<1>6. Ends(e)
  BY <1>3, <1>4, <1>5 DEF Ends
<1>7. ASSUME NEW a, NEW b, Piece(text, a, b)
      PROVE  \E c \in DOMAIN clauses : Parsed(clauses[c], SubSeq(text, a, b))
  <2>1. a \in 1 .. Len(text) /\ b \in a .. Len(text)
    BY <1>7 DEF Piece, Stretch
  <2>2. b <= Len(text)
    BY <1>0, <2>1
  <2>3. PICK c \in 1 .. Len(e) : e[c] = b
    BY <1>4, <1>7, <2>2
  <2>4. PICK i : Piece(text, i, b) /\ Parsed(clauses[c], SubSeq(text, i, b))
    BY <1>4, <2>3
  <2>5. i = a
    <3>1. i \in 1 .. Len(text) /\ b \in i .. Len(text)
      BY <2>4 DEF Piece, Stretch
    <3>2. i <= b /\ a <= b
      BY <1>0, <2>1, <3>1
    <3> QED
      BY <1>0, <1>7, <2>4, <3>2, PieceUnique
  <2> QED
    BY <1>3, <1>4, <2>3, <2>4, <2>5
<1> QED
  BY <1>0, <1>1, <1>3, <1>6, <1>7

(* A clause is made from the address whose text a piece of the text is.    *)
ForOne(c, q, R) == \E r \in R : MadeFrom(c, r) /\ q = TextOf(r)

(* A clause parsed from the text of a row is made from it.                 *)
LEMMA ClauseFor ==
  ASSUME NEW R, R \subseteq Rows, NEW c, NEW t, NEW a, NEW b,
         IsText(t, a, b, R), Parsed(c, SubSeq(t, a, b))
  PROVE  ForOne(c, SubSeq(t, a, b), R)
<1>1. PICK r \in R : SubSeq(t, a, b) = TextOf(r)
  BY DEF IsText
<1>2. Parsed(c, TextOf(r))
  BY <1>1
<1>3. r.ip \in Addresses /\ r.port \in Nat
  BY RowText
<1> QED
  BY <1>1, <1>2, <1>3, ParsedMadeFrom DEF ForOne

(* The addresses of the process are rows.                                  *)
LEMMA OwnAreRows ==
  ASSUME GettersInv
  PROVE  OwnRows \subseteq Rows
<1>1. table \in Tables
  BY TypesOf
<1> QED
  BY <1>1, TableRows DEF OwnRows

(* Nobody else's traffic is captured,                                      *)
LEMMA CapturesOwn == GettersInv => CapturesOwnOnly
<1> SUFFICES ASSUME GettersInv, tool = "local", pc = "capture"
             PROVE  /\ clauses # <<>>
                    /\ \A i \in DOMAIN clauses :
                         \/ \E r \in OwnRows : MadeFrom(clauses[i], r)
                         \/ Filled /\ i = Len(clauses)
  BY DEF CapturesOwnOnly, MadeFrom
<1>1. /\ clauses # <<>> /\ Len(text) \in Nat
      /\ DOMAIN clauses = 1 .. Len(clauses) /\ Len(clauses) \in Nat \ {0}
  BY AllRead
<1>2. PICK e : Ends(e)
  BY AllRead
<1>3. Handed(OwnRows, text)
  BY DEF GettersInv, HandedOver
<1>4. ASSUME NEW i \in DOMAIN clauses, ~\E r \in OwnRows : MadeFrom(clauses[i], r)
      PROVE  Filled /\ i = Len(clauses)
  <2>1. PICK a : Piece(text, a, e[i]) /\ Parsed(clauses[i], SubSeq(text, a, e[i]))
    BY <1>2 DEF Ends
  <2>2. ~IsText(text, a, e[i], OwnRows)
    <3> SUFFICES ASSUME IsText(text, a, e[i], OwnRows) PROVE FALSE
      OBVIOUS
    <3>1. ForOne(clauses[i], SubSeq(text, a, e[i]), OwnRows)
      BY <2>1, ClauseFor, OwnAreRows
    <3> QED
      BY <1>4, <3>1 DEF ForOne
  <2>3. e[i] = Len(text) /\ ~(Len(text) < TextRoom - 1)
    BY <1>3, <2>1, <2>2 DEF Handed, CutSource, Source
  <2>4. Filled
    BY <1>1, <2>3, FilterAssumption DEF Filled
  <2>5. i = Len(clauses)
    <3>1. i \in 1 .. Len(clauses) /\ Len(clauses) \in DOMAIN clauses
      BY <1>1
    <3>2. i < Len(clauses) => e[i] < e[Len(clauses)]
      BY <1>2, <3>1 DEF Ends
    <3>3. e[Len(clauses)] \in 1 .. Len(text)
      BY <1>2, <3>1 DEF Ends
    <3> QED
      BY <1>1, <2>3, <3>1, <3>2, <3>3
  <2> QED
    BY <2>4, <2>5
<1> QED
  BY <1>1, <1>4

(* What is in a text is in the piece around it, with the dash that follows *)
(* if it is the end of the piece.                                          *)
LEMMA Inside ==
  ASSUME NEW t \in Seq(Characters), NEW s \in Seq(Characters), s # <<>>,
         NEW k \in 0 .. Len(t) - Len(s), At(s, t, k),
         NEW a, NEW b, Piece(t, a, b), a <= k + 1, k + Len(s) <= b
  PROVE  /\ OccursIn(s, SubSeq(t, a, b))
         /\ b = k + Len(s) => OccursIn(s \o <<Dash>>, SubSeq(t, a, b) \o <<Dash>>)
<1> DEFINE q == SubSeq(t, a, b)
           n == Len(s)
           m == k + 1 - a
<1>1. /\ q \in Seq(Characters) /\ Len(q) = b - a + 1
      /\ \A h \in 1 .. b - a + 1 : q[h] = t[a - 1 + h]
      /\ a \in 1 .. Len(t) /\ b \in a .. Len(t) /\ Len(t) \in Nat
  BY PieceChars
<1>2. n \in Nat \ {0} /\ \A h \in 1 .. n : t[k + h] = s[h]
  BY DEF At
<1>0. k \in Nat /\ a \in Nat /\ b \in Nat
  BY <1>1, <1>2
<1> HIDE DEF q
<1>3. m \in 0 .. Len(q) - n
  BY <1>0, <1>1, <1>2
<1>4. \A h \in 1 .. n : q[m + h] = s[h] /\ m + h \in 1 .. Len(q)
  <2> SUFFICES ASSUME NEW h \in 1 .. n PROVE q[m + h] = s[h] /\ m + h \in 1 .. Len(q)
    OBVIOUS
  <2>1. m + h \in 1 .. b - a + 1 /\ a - 1 + (m + h) = k + h
    BY <1>0, <1>1, <1>2
  <2> QED
    BY <1>1, <1>2, <2>1
<1>5. OccursIn(s, q)
  BY <1>1, <1>3, <1>4, OccursAt DEF At
<1>6. ASSUME b = k + n PROVE OccursIn(s \o <<Dash>>, q \o <<Dash>>)
  <2> DEFINE v == s \o <<Dash>>
             w == q \o <<Dash>>
  <2>1. /\ v \in Seq(Characters) /\ Len(v) = n + 1 /\ v # <<>>
        /\ \A h \in 1 .. n : v[h] = s[h]
        /\ v[n + 1] = Dash
    BY WithDash
  <2>2. /\ w \in Seq(Characters) /\ Len(w) = Len(q) + 1
        /\ \A h \in 1 .. Len(q) : w[h] = q[h]
        /\ w[Len(q) + 1] = Dash
    BY <1>1, WithDash
  <2> HIDE DEF v, w
  <2>3. m \in 0 .. Len(w) - Len(v) /\ m + (n + 1) = Len(q) + 1
    BY <1>0, <1>1, <1>2, <1>6, <2>1, <2>2
  <2>4. ASSUME NEW h \in 1 .. Len(v) PROVE w[m + h] = v[h]
    <3>1. h \in 1 .. n \/ h = n + 1
      BY <1>2, <2>1
    <3>2. CASE h \in 1 .. n
      BY <1>4, <2>1, <2>2, <3>2
    <3>3. CASE h = n + 1
      BY <2>1, <2>2, <2>3, <3>3
    <3> QED
      BY <3>1, <3>2, <3>3
  <2>5. OccursIn(v, w)
    BY <2>1, <2>2, <2>3, <2>4, OccursAt DEF At
  <2> QED
    BY <2>5 DEF v, w
<1> QED
  BY <1>5, <1>6 DEF q

(* What is not captured is replaced by the largest long, or part of        *)
(* another address from which a clause was made.                           *)
LEMMA LostInOthers == GettersInv => LostOnlyInOthers
<1> SUFFICES ASSUME GettersInv, tool = "local", pc = "capture", ~Filled, NEW r \in OwnRows
             PROVE  \E other \in OwnRows :
                      /\ OccursIn(TextOf(r), TextOf(other))
                      /\ \E i \in DOMAIN clauses : MadeFrom(clauses[i], other)
  BY Zenon DEF LostOnlyInOthers, MadeFrom
<1>1. /\ text \in Seq(Characters) /\ Len(text) \in Nat
      /\ \A a, b : Piece(text, a, b) =>
           \E c \in DOMAIN clauses : Parsed(clauses[c], SubSeq(text, a, b))
  BY AllRead
<1>2. Source(OwnRows, text) /\ OccursIn(TextOf(r), text)
  <2>1. /\ Handed(OwnRows, text)
        /\ \A x \in OwnRows : OccursIn(TextOf(x), text)
    BY DEF GettersInv, HandedOver
  <2>2. Len(text) < TextRoom - 1
    BY <1>1, FilterAssumption DEF Filled
  <2> QED
    BY <2>1, <2>2 DEF Handed
<1> DEFINE s == TextOf(r)
           n == Len(s)
<1>3. /\ s \in Seq(Characters) /\ s # <<>> /\ n \in Nat \ {0}
      /\ \A k \in 1 .. n : s[k] # Dash
  BY RowText, OwnAreRows
<1> HIDE DEF s
<1>4. PICK k \in 0 .. Len(text) - n : At(s, text, k)
  <2>1. OccursIn(s, text)
    BY <1>2 DEF s
  <2> QED
    BY <1>1, <1>3, <2>1, OccursAt
<1>5. PICK a \in 1 .. k + 1, b \in k + n .. Len(text) : Piece(text, a, b)
  <2>1. k + 1 \in 1 .. Len(text) /\ k + n \in k + 1 .. Len(text)
    BY <1>1, <1>3
  <2>2. \A h \in k + 1 .. k + n : text[h] # Dash
    <3> SUFFICES ASSUME NEW h \in k + 1 .. k + n PROVE text[h] # Dash
      OBVIOUS
    <3>1. h - k \in 1 .. n /\ k + (h - k) = h
      BY <1>1, <1>3
    <3> QED
      BY <1>3, <1>4, <3>1 DEF At
  <2> QED
    BY <1>1, <2>1, <2>2, PieceAround
<1>6. OccursIn(s, SubSeq(text, a, b))
  <2>1. a <= k + 1 /\ k + Len(s) <= b
    BY <1>1, <1>3
  <2> QED
    BY <1>1, <1>3, <1>4, <1>5, <2>1, Inside
<1>7. PICK c \in DOMAIN clauses : Parsed(clauses[c], SubSeq(text, a, b))
  BY <1>1, <1>5
<1>8. IsText(text, a, b, OwnRows)
  BY <1>2, <1>5 DEF Source
<1>9. PICK other \in OwnRows : MadeFrom(clauses[c], other) /\ SubSeq(text, a, b) = TextOf(other)
  <2>1. ForOne(clauses[c], SubSeq(text, a, b), OwnRows)
    BY <1>7, <1>8, ClauseFor, OwnAreRows
  <2> QED
    BY <2>1 DEF ForOne
<1> QED
  BY <1>6, <1>9 DEF s

(* Two clauses are for two addresses.                                      *)
LEMMA NoneTwice == GettersInv => NoAddressTwice
<1> SUFFICES ASSUME GettersInv, pc = "capture", ~Filled,
                    NEW i \in DOMAIN clauses, NEW j \in DOMAIN clauses, i < j,
                    clauses[i] = clauses[j], HostNumber(clauses[i].host) # LongMax
             PROVE  FALSE
  BY DEF NoAddressTwice
<1>1. Len(text) \in Nat /\ Len(text) < TextRoom - 1
  BY AllRead, FilterAssumption DEF Filled
<1>2. PICK R : R \subseteq Rows /\ Handed(R, text)
  <2>1. tool \in {"local", "remote"}
    BY FilterAssumption DEF GettersInv, Typed, RemoteTypeOK, FilterTypeOK
  <2>2. CASE tool = "local"
    <3>1. Handed(OwnRows, text) /\ OwnRows \subseteq Rows
      BY <2>2, OwnAreRows DEF GettersInv, HandedOver
    <3> QED
      BY <3>1
  <2>3. CASE tool = "remote"
    <3>1. Handed(Rows, text) /\ Rows \subseteq Rows
      BY <2>3 DEF GettersInv, HandedOver
    <3> QED
      BY <3>1
  <2> QED
    BY <2>1, <2>2, <2>3
<1>3. Source(R, text) /\ Distinct(text)
  BY <1>1, <1>2 DEF Handed
<1>4. PICK e : Ends(e)
  BY AllRead
<1>5. PICK a : Piece(text, a, e[i]) /\ Parsed(clauses[i], SubSeq(text, a, e[i]))
  BY <1>4 DEF Ends
<1>6. PICK b : Piece(text, b, e[j]) /\ Parsed(clauses[j], SubSeq(text, b, e[j]))
  BY <1>4 DEF Ends
<1>7. PICK r \in R : MadeFrom(clauses[i], r) /\ SubSeq(text, a, e[i]) = TextOf(r)
  <2>1. IsText(text, a, e[i], R)
    BY <1>3, <1>5 DEF Source
  <2>2. ForOne(clauses[i], SubSeq(text, a, e[i]), R)
    BY <1>2, <1>5, <2>1, ClauseFor
  <2> QED
    BY <2>2 DEF ForOne
<1>8. PICK x \in R : MadeFrom(clauses[j], x) /\ SubSeq(text, b, e[j]) = TextOf(x)
  <2>1. IsText(text, b, e[j], R)
    BY <1>3, <1>6 DEF Source
  <2>2. ForOne(clauses[j], SubSeq(text, b, e[j]), R)
    BY <1>2, <1>6, <2>1, ClauseFor
  <2> QED
    BY <2>2 DEF ForOne
<1>9. TextOf(r) = TextOf(x)
  <2>1. IsFor(clauses[i], r) /\ IsFor(clauses[j], x)
    BY <1>7, <1>8 DEF MadeFrom, InsteadOf
  <2> QED
    BY <2>1 DEF IsFor, TextOf
<1>10. e[i] = e[j]
  BY <1>3, <1>5, <1>6, <1>7, <1>8, <1>9 DEF Distinct
<1>11. e[i] < e[j] /\ e[i] \in 1 .. Len(text)
  BY <1>4 DEF Ends
<1> QED
  BY <1>1, <1>10, <1>11

(* A line that is taken for a line of the process is one, or is misread.   *)
LEMMA OwnOrMisread ==
  ASSUME NEW k \in DOMAIN output, output[k] \in Rows, OwnLine(output[k])
  PROVE  output[k] \in PeerLines \cup MisreadLines
<1> DEFINE l == output[k]
<1>1. l.pid \in Nat /\ PidSpan \in Nat \ {0}
  BY FilterAssumption, RemoteAssumption DEF Rows
<1>2. l.pid < PidSpan => l.pid % PidSpan = l.pid
  BY <1>1
<1>3. l.pid = pid \/ l.pid >= PidSpan
  BY <1>1, <1>2 DEF OwnLine, LinePid
<1>4. l # Star /\ LinePid(l) = pid
  BY DEF OwnLine
<1> QED
  BY <1>3, <1>4 DEF PeerLines, MisreadLines

(* Each clause that is wrong has a wrong piece of its own.                 *)
LEMMA PeersOnly == GettersInv => CapturesPeersOnly
<1> DEFINE Wrong == {i \in DOMAIN clauses : ~\E l \in PeerLines : IsFor(clauses[i], l)}
           D == {i \in Wrong :
                  /\ ~\E l \in PeerLines : InsteadOf(clauses[i], l)
                  /\ ~\E l \in MisreadLines : MadeFrom(clauses[i], l)}
           W == WrongEnds(Heard, text)
<1> SUFFICES ASSUME GettersInv, tool = "remote", pc = "capture"
             PROVE  Cardinality(D) <= cuts + (IF Filled THEN 1 ELSE 0)
  BY DEF CapturesPeersOnly
<1>1. text \in Seq(Characters) /\ DOMAIN clauses = 1 .. Len(clauses) /\ Len(clauses) \in Nat
  BY AllRead
<1>2. PICK e : Ends(e)
  BY AllRead
<1>3. /\ line = Len(output) + 1
      /\ Cardinality(W) <= cuts + (IF Filled THEN 1 ELSE 0)
  BY DEF GettersInv, HandedOver
<1>4. output \in Outputs /\ cuts \in Nat
  BY TypesOf
<1>5. DOMAIN output = 1 .. Len(output) /\ Len(output) \in Nat
      /\ \A k \in 1 .. Len(output) : output[k] \in Lines
  BY <1>4, OutputLines, RemoteAssumption
<1>6. Heard \subseteq Rows /\ \A l \in Heard : \E k \in DOMAIN output : output[k] = l /\ OwnLine(l)
  <2>1. line - 1 = Len(output)
    BY <1>3, <1>5
  <2>2. \A k \in 1 .. Len(output) : OwnLine(output[k]) => output[k] \in Rows
    BY <1>5 DEF OwnLine, Lines
  <2> QED
    BY <1>5, <2>1, <2>2 DEF Heard
<1>7. ASSUME NEW i \in D PROVE e[i] \in W
  <2>1. PICK a : Piece(text, a, e[i]) /\ Parsed(clauses[i], SubSeq(text, a, e[i]))
    BY <1>2 DEF Ends
  <2>2. ASSUME IsText(text, a, e[i], Heard) PROVE FALSE
    <3>1. PICK l \in Heard : MadeFrom(clauses[i], l)
      <4>1. ForOne(clauses[i], SubSeq(text, a, e[i]), Heard)
        BY <1>6, <2>1, <2>2, ClauseFor
      <4> QED
        BY <4>1 DEF ForOne
    <3>2. PICK k \in DOMAIN output : output[k] = l /\ OwnLine(l)
      BY <1>6
    <3>3. l \in PeerLines \cup MisreadLines
      BY <1>6, <3>2, OwnOrMisread
    <3> QED
      BY <1>7, <3>1, <3>3 DEF MadeFrom
  <2>3. e[i] \in 1 .. Len(text)
    BY <1>2 DEF Ends
  <2> QED
    BY <2>1, <2>2, <2>3 DEF WrongEnds
<1>8. D \subseteq DOMAIN clauses
  OBVIOUS
<1> HIDE DEF D, W
<1>9. ASSUME NEW i \in D, NEW j \in D, e[i] = e[j] PROVE i = j
  <2>1. i \in Nat /\ j \in Nat
    BY <1>1, <1>8
  <2>2. e[i] \in 1 .. Len(text) /\ e[j] \in 1 .. Len(text)
        /\ (i < j => e[i] < e[j]) /\ (j < i => e[j] < e[i])
    BY <1>2, <1>8 DEF Ends
  <2>3. Len(text) \in Nat
    BY <1>1
  <2> QED
    BY <1>9, <2>1, <2>2, <2>3
<1>10. IsFiniteSet(W)
  BY <1>1, WrongFinite DEF W
<1>11. IsFiniteSet(D) /\ Cardinality(D) <= Cardinality(W)
  <2> DEFINE f == [i \in D |-> e[i]]
  <2>1. f \in Injection(D, W)
    BY <1>7, <1>9 DEF Injection, IsInjective
  <2> HIDE DEF f
  <2> QED
    BY <1>10, <2>1, FS_Injection
<1>12. Cardinality(D) \in Nat /\ Cardinality(W) \in Nat
  BY <1>10, <1>11, FS_CardinalityType
<1> QED
  BY <1>3, <1>4, <1>11, <1>12

(* What is lost of the lines is missing in the text, or replaced by the    *)
(* largest long, or the end of another address from which a clause was     *)
(* made.                                                                   *)
LEMMA LostInEnds == GettersInv => LostPeersInOthers
<1> DEFINE Lost == {l \in PeerLines \ CapturedRows :
                     /\ ~\E i \in DOMAIN clauses : InsteadOf(clauses[i], l)
                     /\ ~\E r \in NamedRows : OccursIn(RemoteText(l), RemoteText(r))}
           M == Missing(text \o <<Dash>>)
<1> SUFFICES ASSUME GettersInv, tool = "remote", pc = "capture", ~Filled, pid < PidSpan
             PROVE  Cardinality(Lost) <= cuts
  BY DEF LostPeersInOthers
<1>1. /\ text \in Seq(Characters) /\ Len(text) \in Nat
      /\ \A a, b : Piece(text, a, b) =>
           \E c \in DOMAIN clauses : Parsed(clauses[c], SubSeq(text, a, b))
  BY AllRead
<1>2. line = Len(output) + 1 /\ Handed(Rows, text) /\ Cardinality(M) <= cuts
  BY DEF GettersInv, HandedOver
<1>3. Source(Rows, text)
  <2>1. Len(text) < TextRoom - 1
    BY <1>1, FilterAssumption DEF Filled
  <2> QED
    BY <1>2, <2>1 DEF Handed
<1>4. output \in Outputs /\ cuts \in Nat
  BY TypesOf
<1>5. DOMAIN output = 1 .. Len(output) /\ Len(output) \in Nat
      /\ \A k \in 1 .. Len(output) : output[k] \in Lines
  BY <1>4, OutputLines, RemoteAssumption
<1>6. line - 1 = Len(output)
  BY <1>2, <1>5
<1>7. ASSUME NEW l \in Rows, OccursIn(RemoteText(l), text \o <<Dash>>)
      PROVE  \E r \in NamedRows : OccursIn(RemoteText(l), RemoteText(r))
  <2> DEFINE s == TextOf(l)
             n == Len(s)
             v == s \o <<Dash>>
             w == text \o <<Dash>>
  <2>1. /\ s \in Seq(Characters) /\ s # <<>> /\ n \in Nat \ {0}
        /\ \A k \in 1 .. n : s[k] # Dash
    BY RowText
  <2>0. RemoteText(l) = v
    BY RemoteRowText
  <2> HIDE DEF s
  <2>2. /\ v \in Seq(Characters) /\ Len(v) = n + 1 /\ v # <<>>
        /\ \A h \in 1 .. n : v[h] = s[h]
        /\ v[n + 1] = Dash
    BY <2>1, WithDash
  <2>3. /\ w \in Seq(Characters) /\ Len(w) = Len(text) + 1
        /\ \A h \in 1 .. Len(text) : w[h] = text[h]
    BY <1>1, WithDash
  <2>4. OccursIn(v, w)
    BY <1>7, <2>0
  <2> HIDE DEF v, w
  <2>5. PICK k \in 0 .. Len(w) - Len(v) : At(v, w, k)
    BY <2>2, <2>3, <2>4, OccursAt
  <2>6. k \in 0 .. Len(text) - n /\ k \in Nat
    BY <1>1, <2>1, <2>2, <2>3
  <2>7. ASSUME NEW h \in 1 .. n PROVE text[k + h] = s[h]
    <3>1. h \in 1 .. Len(v) /\ k + h \in 1 .. Len(text)
      BY <1>1, <2>1, <2>2, <2>6
    <3> QED
      BY <2>2, <2>3, <2>5, <3>1 DEF At
  <2>8. k + n = Len(text) \/ (k + n + 1 \in 1 .. Len(text) /\ text[k + n + 1] = Dash)
    <3>1. n + 1 \in 1 .. Len(v)
      BY <2>1, <2>2
    <3>2. w[k + (n + 1)] = Dash /\ k + (n + 1) = k + n + 1
      BY <2>1, <2>2, <2>5, <2>6, <3>1 DEF At
    <3>3. k + n # Len(text) => k + n + 1 \in 1 .. Len(text)
      BY <1>1, <2>1, <2>6
    <3> QED
      BY <2>3, <3>2, <3>3
  <2>9. PICK a \in 1 .. k + 1, b \in k + n .. Len(text) : Piece(text, a, b)
    <3>1. k + 1 \in 1 .. Len(text) /\ k + n \in k + 1 .. Len(text)
      BY <1>1, <2>1, <2>6
    <3>2. \A h \in k + 1 .. k + n : text[h] # Dash
      <4> SUFFICES ASSUME NEW h \in k + 1 .. k + n PROVE text[h] # Dash
        OBVIOUS
      <4>1. h - k \in 1 .. n /\ k + (h - k) = h
        BY <2>1, <2>6
      <4> QED
        BY <2>1, <2>7, <4>1
    <3> QED
      BY <1>1, <3>1, <3>2, PieceAround
  <2>10. b = k + n
    <3> SUFFICES ASSUME b # k + n PROVE FALSE
      OBVIOUS
    <3>1. k + n + 1 \in a .. b /\ k + n # Len(text)
      BY <1>1, <2>1, <2>6, <2>9
    <3>2. text[k + n + 1] # Dash
      BY <2>9, <3>1 DEF Piece, Stretch
    <3> QED
      BY <2>8, <3>1, <3>2
  <2>11. OccursIn(v, SubSeq(text, a, b) \o <<Dash>>)
    <3>1. a <= k + 1 /\ k + Len(s) <= b /\ b = k + Len(s) /\ k \in 0 .. Len(text) - Len(s)
      BY <1>1, <2>1, <2>6, <2>10
    <3>2. At(s, text, k)
      BY <2>7 DEF At
    <3> QED
      BY <1>1, <2>1, <2>9, <3>1, <3>2, Inside DEF v
  <2>12. PICK c \in DOMAIN clauses : Parsed(clauses[c], SubSeq(text, a, b))
    BY <1>1, <2>9
  <2>13. PICK r \in Rows : MadeFrom(clauses[c], r) /\ SubSeq(text, a, b) = TextOf(r)
    <3>1. IsText(text, a, b, Rows)
      BY <1>3, <2>9 DEF Source
    <3>2. ForOne(clauses[c], SubSeq(text, a, b), Rows)
      BY <2>12, <3>1, ClauseFor
    <3> QED
      BY <3>2 DEF ForOne
  <2>14. r \in NamedRows
    BY <2>13 DEF NamedRows
  <2>15. OccursIn(RemoteText(l), RemoteText(r))
    BY <2>0, <2>11, <2>13, RemoteRowText
  <2> QED
    BY <2>14, <2>15
<1>8. Lost \subseteq M
  <2> SUFFICES ASSUME NEW l \in Lost PROVE l \in M
    OBVIOUS
  <2>1. l \in {output[k] : k \in 1 .. line - 1} /\ Peer(l)
    BY <1>5, <1>6 DEF PeerLines, Peer
  <2>2. l \in Rows
    BY <1>5, <1>6, <2>1 DEF Lines, Peer
  <2>3. ~OccursIn(RemoteText(l), text \o <<Dash>>)
    BY <1>7, <2>2
  <2> QED
    BY <2>1, <2>3 DEF Missing
<1>9. IsFiniteSet(M)
  <2> DEFINE S == {output[k] : k \in 1 .. line - 1}
             f == [k \in 1 .. line - 1 |-> output[k]]
  <2>1. IsFiniteSet(1 .. line - 1)
    BY <1>5, <1>6, FS_Interval
  <2>2. f \in Surjection(1 .. line - 1, S)
    BY DEF Surjection
  <2>3. M \subseteq S
    BY DEF Missing
  <2> HIDE DEF f, S, M
  <2>4. IsFiniteSet(S)
    BY <2>1, <2>2, FS_Surjection
  <2> QED
    BY <2>3, <2>4, FS_Subset
<1> HIDE DEF Lost, M
<1>10. Cardinality(M) \in Nat /\ IsFiniteSet(Lost) /\ Cardinality(Lost) <= Cardinality(M)
  BY <1>8, <1>9, OneMore
<1>11. Cardinality(Lost) \in Nat
  BY <1>10, FS_CardinalityType
<1> QED
  BY <1>2, <1>4, <1>10, <1>11

(* Nobody else's traffic is captured: each host and port that parseFilter  *)
(* makes of filterGetter.exe's text is an address of the process, or the   *)
(* largest long in place of one beyond it, but for the last when the       *)
(* buffer was filled.                                                      *)
THEOREM OwnOnlyCaptured == GettersSpec => []CapturesOwnOnly
BY CapturesOwn, GettersAlwaysInv, PTL

(* Short of a filled buffer, an address is lost only if strstr finds its   *)
(* text in that of another, from which a clause was made, or if it is      *)
(* beyond a long and the filter has the largest long in its place.         *)
THEOREM LostAreParts == GettersSpec => []LostOnlyInOthers
BY LostInOthers, GettersAlwaysInv, PTL

(* No address is in the filter twice, whichever getter is run.             *)
THEOREM AddressesDiffer == GettersSpec => []NoAddressTwice
BY NoneTwice, GettersAlwaysInv, PTL

(* Each cut line of netstat's output makes at most one wrong address in    *)
(* the filter, the end of the buffer one more; the other wrong ones are    *)
(* the largest long in place of an address beyond it, or come of lines     *)
(* with ids of six digits.                                                 *)
THEOREM PeersOnlyCaptured == GettersSpec => []CapturesPeersOnly
BY PeersOnly, GettersAlwaysInv, PTL

(* For ids of five digits and short of a filled buffer, each cut line      *)
(* costs at most one address of the process; the others that are lost are  *)
(* beyond a long, with the largest long in the filter, or the end of one   *)
(* from which a clause was made.                                           *)
THEOREM LostAreEnds == GettersSpec => []LostPeersInOthers
BY LostInEnds, GettersAlwaysInv, PTL
=============================================================================
