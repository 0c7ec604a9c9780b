------------------------------ MODULE SumsProofs ------------------------------
(***************************************************************************)
(* Lemmas about sums of sequences, by induction on the natural numbers in  *)
(* the form that needs no operator as a parameter: a set that holds zero   *)
(* and the successor of each of its elements is Nat.                       *)
(***************************************************************************)
EXTENDS Sums, WellFoundedInduction, TLAPS

\* Every set of natural numbers but the empty one has a least element.
LEMMA Least ==
  ASSUME NEW T, T \subseteq Nat, T # {}
  PROVE  \E n \in T : \A m \in T : n <= m
<1>1. \A m, n \in Nat : m < n => <<m, n>> \in OpToRel(<, Nat)
  BY DEF OpToRel
<1>2. PICK n \in T : \A m \in T : ~(<<m, n>> \in OpToRel(<, Nat))
  BY NatLessThanWellFounded, WFMin
<1>3. \A m \in T : ~(m < n)
  BY <1>1, <1>2
<1>4. n \in Nat /\ \A m \in T : m \in Nat
  OBVIOUS
<1> QED
  BY <1>3, <1>4

\* Induction.
LEMMA Induction ==
  ASSUME NEW S, S \subseteq Nat, 0 \in S, \A n \in S : n + 1 \in S
  PROVE  S = Nat
<1> SUFFICES ASSUME S # Nat PROVE FALSE
  OBVIOUS
<1>1. PICK n \in Nat \ S : \A m \in Nat \ S : n <= m
  BY Least
<1>2. n # 0 /\ n - 1 \in Nat /\ n - 1 \in S
  BY <1>1
<1>3. n - 1 + 1 \in S
  BY <1>2
<1> QED
  BY <1>1, <1>2, <1>3

\* Induction up to a bound.
LEMMA InductionUpTo ==
  ASSUME NEW k \in Nat, NEW S, 0 \in S, \A n \in 0 .. k : n \in S /\ n < k => n + 1 \in S
  PROVE  \A n \in 0 .. k : n \in S
<1> DEFINE T == {n \in Nat : n <= k => n \in S}
<1>1. 0 \in T
  OBVIOUS
<1>2. \A n \in T : n + 1 \in T
  OBVIOUS
<1>3. T = Nat
  <2> HIDE DEF T
  <2>1. T \subseteq Nat
    BY DEF T
  <2> QED
    BY <1>1, <1>2, <2>1, Induction
<1> QED
  BY <1>3

------------------------------------------------------------------------------
\* The functions that sum the first k elements of s.
IsSums(f, s, k) ==
  /\ f \in [0 .. k -> Int]
  /\ f[0] = 0
  /\ \A i \in 1 .. k : f[i] = f[i - 1] + s[i]

\* There is one for every k.
LEMMA SumsExist ==
  ASSUME NEW s \in Seq(Int)
  PROVE  \E f : IsSums(f, s, Len(s))
<1> DEFINE S == {k \in 0 .. Len(s) : \E f : IsSums(f, s, k)}
<1>l. Len(s) \in Nat
  OBVIOUS
<1>1. 0 \in S
  <2>1. IsSums([i \in 0 .. 0 |-> 0], s, 0)
    BY DEF IsSums
  <2> QED
    BY <1>l, <2>1
<1>2. ASSUME NEW k \in 0 .. Len(s), k \in S, k < Len(s) PROVE k + 1 \in S
  <2>1. PICK f : IsSums(f, s, k)
    BY <1>2
  <2> DEFINE g == [i \in 0 .. k + 1 |-> IF i = k + 1 THEN f[k] + s[k + 1] ELSE f[i]]
  <2>2. k \in Nat /\ s[k + 1] \in Int /\ f[k] \in Int
    BY <1>2, <2>1 DEF IsSums
  <2>3. g \in [0 .. k + 1 -> Int]
    BY <2>1, <2>2 DEF IsSums
  <2>4. g[0] = 0
    BY <2>1, <2>2 DEF IsSums
  <2>5. ASSUME NEW i \in 1 .. k + 1 PROVE g[i] = g[i - 1] + s[i]
    <3>1. CASE i = k + 1
      BY <2>2, <3>1
    <3>2. CASE i # k + 1
      <4>1. i \in 1 .. k /\ i - 1 \in 0 .. k
        BY <2>2, <3>2
      <4> QED
        BY <2>1, <2>2, <4>1 DEF IsSums
    <3> QED
      BY <3>1, <3>2
  <2> HIDE DEF g
  <2>6. IsSums(g, s, k + 1)
    BY <2>3, <2>4, <2>5 DEF IsSums
  <2> QED
    BY <1>2, <2>2, <2>6
<1> HIDE DEF S
<1>3. \A n \in 0 .. Len(s) : n \in S
  BY <1>l, <1>1, <1>2, InductionUpTo
<1> QED
  BY <1>l, <1>3 DEF S

\* The definition of Sums is one of them.
LEMMA SumsOf ==
  ASSUME NEW s \in Seq(Int)
  PROVE  IsSums(Sums(s), s, Len(s))
<1>l. Len(s) \in Nat
  OBVIOUS
<1> DEFINE Step(f) == [i \in 0 .. Len(s) |-> IF i = 0 THEN 0 ELSE f[i - 1] + s[i]]
<1>1. PICK f : IsSums(f, s, Len(s))
  BY SumsExist
<1>2. f = Step(f)
  BY <1>1 DEF IsSums
<1>3. Sums(s) = CHOOSE g : g = Step(g)
  BY DEF Sums
<1>4. Sums(s) = Step(Sums(s))
  <2> HIDE DEF Step
  <2> QED
    BY <1>2, <1>3
<1> DEFINE F == Sums(s)
           S == {n \in 0 .. Len(s) : F[n] \in Int}
<1>5. F = Step(F)
  BY <1>4
<1> HIDE DEF F
<1>a. F = [i \in 0 .. Len(s) |-> F[i]] /\ F[0] = 0
  BY <1>l, <1>5
<1>b. \A i \in 1 .. Len(s) : F[i] = F[i - 1] + s[i]
  BY <1>l, <1>5
<1>6. 0 \in S
  BY <1>l, <1>a
<1>7. ASSUME NEW n \in 0 .. Len(s), n \in S, n < Len(s) PROVE n + 1 \in S
  <2> DEFINE m == n + 1
  <2>1. m \in 1 .. Len(s) /\ m - 1 = n /\ s[m] \in Int /\ m \in 0 .. Len(s)
    BY <1>l, <1>7
  <2>2. F[n] \in Int
    BY <1>7
  <2> HIDE DEF m, S
  <2>3. F[m] = F[m - 1] + s[m]
    BY <1>b, <2>1
  <2>4. F[m] \in Int
    BY <2>1, <2>2, <2>3
  <2> QED
    BY <2>1, <2>4 DEF m, S
<1> HIDE DEF S
<1>8. \A n \in 0 .. Len(s) : n \in S
  BY <1>l, <1>6, <1>7, InductionUpTo
<1> QED
  BY <1>a, <1>b, <1>8 DEF IsSums, S, F

\* The sums are integers, the first is zero, and each adds an element.
LEMMA SumsSteps ==
  ASSUME NEW s \in Seq(Int)
  PROVE  /\ Sums(s)[0] = 0 /\ Sum(s) \in Int
         /\ \A i \in 0 .. Len(s) : Sums(s)[i] \in Int
         /\ \A i \in 1 .. Len(s) : Sums(s)[i] = Sums(s)[i - 1] + s[i]
<1>1. Len(s) \in 0 .. Len(s)
  OBVIOUS
<1> QED
  BY <1>1, SumsOf DEF IsSums, Sum

\* Nothing sums to zero.
LEMMA SumEmpty == Sum(<<>>) = 0
<1>1. <<>> \in Seq(Int) /\ Len(<<>>) = 0
  OBVIOUS
<1> QED
  BY <1>1, SumsSteps DEF Sum

\* Two sequences that agree up to an element have the same sums up to it, but for
\* the difference of what they sum before.
LEMMA SumsAgree ==
  ASSUME NEW s \in Seq(Int), NEW t \in Seq(Int), NEW j \in Nat, NEW k \in Nat,
         j <= k, k <= Len(s), k <= Len(t),
         NEW d \in Int, Sums(t)[j] = Sums(s)[j] + d,
         \A i \in 1 .. k : i > j => t[i] = s[i]
  PROVE  \A i \in 0 .. k : i >= j => Sums(t)[i] = Sums(s)[i] + d
<1> DEFINE S == {n \in 0 .. k : n >= j => Sums(t)[n] = Sums(s)[n] + d}
<1>1. 0 \in S
  OBVIOUS
<1>2. ASSUME NEW n \in 0 .. k, n \in S, n < k PROVE n + 1 \in S
  <2>1. CASE n + 1 <= j
    BY <1>2, <2>1
  <2>2. CASE n + 1 > j
    <3>1. /\ n + 1 \in 1 .. k /\ n + 1 > j /\ n + 1 \in 1 .. Len(s) /\ n + 1 \in 1 .. Len(t)
          /\ n \in 0 .. Len(s) /\ n \in 0 .. Len(t) /\ n + 1 - 1 = n
      BY <1>2, <2>2
    <3>2. /\ Sums(t)[n + 1] = Sums(t)[n] + t[n + 1]
          /\ Sums(s)[n + 1] = Sums(s)[n] + s[n + 1]
          /\ Sums(s)[n] \in Int /\ s[n + 1] \in Int
      BY <3>1, SumsSteps
    <3>3. Sums(t)[n] = Sums(s)[n] + d /\ t[n + 1] = s[n + 1]
      BY <1>2, <2>2, <3>1
    <3> QED
      BY <1>2, <3>2, <3>3
  <2> QED
    BY <2>1, <2>2
<1> HIDE DEF S
<1>3. \A n \in 0 .. k : n \in S
  BY <1>1, <1>2, InductionUpTo
<1> QED
  BY <1>3 DEF S

\* One more element adds to the sum, and leaves the sums before it.
LEMMA SumAppend ==
  ASSUME NEW s \in Seq(Int), NEW x \in Int
  PROVE  /\ Sum(Append(s, x)) = Sum(s) + x
         /\ \A i \in 0 .. Len(s) : Sums(Append(s, x))[i] = Sums(s)[i]
<1> DEFINE t == Append(s, x)
           n == Len(s)
<1>1. t \in Seq(Int) /\ Len(t) = n + 1 /\ n \in Nat /\ t[n + 1] = x
      /\ \A i \in 1 .. n : t[i] = s[i]
  OBVIOUS
<1>2. n + 1 \in 1 .. Len(t) /\ n + 1 - 1 = n
  BY <1>1
<1> HIDE DEF t
<1>3. Sums(t)[0] = 0 /\ Sums(s)[0] = 0
  BY <1>1, SumsSteps
<1>4. \A i \in 0 .. n : Sums(s)[i] \in Int
  BY SumsSteps
<1>5. \A i \in 0 .. n : Sums(t)[i] = Sums(s)[i] + 0
  <2>1. \A i \in 1 .. n : i > 0 => t[i] = s[i]
    BY <1>1
  <2>2. n <= Len(s) /\ n <= Len(t) /\ 0 <= n /\ 0 \in Nat /\ 0 \in Int /\ s \in Seq(Int)
    BY <1>1
  <2>3. Sums(t)[0] = Sums(s)[0] + 0
    BY <1>3
  <2> HIDE DEF n
  <2>4. \A i \in 0 .. n : i >= 0 => Sums(t)[i] = Sums(s)[i] + 0
    BY <1>1, <2>1, <2>2, <2>3, SumsAgree
  <2> QED
    BY <1>1, <2>4
<1>6. Sums(t)[n + 1] = Sums(t)[n] + x
  BY <1>1, <1>2, SumsSteps
<1> QED
  BY <1>1, <1>4, <1>5, <1>6 DEF Sum, t

\* Replacing an element changes the sum by the difference.
LEMMA SumExcept ==
  ASSUME NEW s \in Seq(Int), NEW j \in 1 .. Len(s), NEW x \in Int
  PROVE  Sum([s EXCEPT ![j] = x]) = Sum(s) + (x - s[j])
<1> DEFINE t == [s EXCEPT ![j] = x]
           n == Len(s)
           d == x - s[j]
<1>1. t \in Seq(Int) /\ Len(t) = n /\ n \in Nat /\ t[j] = x /\ s[j] \in Int
      /\ \A i \in 1 .. n : i # j => t[i] = s[i]
  OBVIOUS
<1>2. j \in Nat /\ j - 1 \in Nat /\ j <= n /\ 0 \in Nat /\ 0 <= j - 1
      /\ j \in 1 .. Len(t) /\ j \in 1 .. n /\ j - 1 \in 0 .. n /\ d \in Int
  BY <1>1
<1> HIDE DEF t
<1>3. Sums(t)[0] = 0 /\ Sums(s)[0] = 0
  BY <1>1, SumsSteps
<1>4. Sums(t)[j - 1] = Sums(s)[j - 1] + 0
  <2>1. \A i \in 1 .. j - 1 : i > 0 => t[i] = s[i]
    BY <1>1, <1>2
  <2>2. /\ j - 1 <= Len(s) /\ j - 1 <= Len(t) /\ s \in Seq(Int) /\ t \in Seq(Int)
        /\ 0 \in Nat /\ j - 1 \in Nat /\ 0 <= j - 1 /\ 0 \in Int
    BY <1>1, <1>2
  <2>3. Sums(t)[0] = Sums(s)[0] + 0
    BY <1>3
  <2>4. \A i \in 0 .. j - 1 : i >= 0 => Sums(t)[i] = Sums(s)[i] + 0
    <3> HIDE DEF n, d
    <3> QED
      BY <2>1, <2>2, <2>3, SumsAgree
  <2>5. j - 1 \in 0 .. j - 1 /\ j - 1 >= 0
    BY <1>2
  <2> QED
    BY <2>4, <2>5
<1>5. Sums(t)[j] = Sums(s)[j] + d
  <2>1. /\ Sums(t)[j] = Sums(t)[j - 1] + x /\ Sums(s)[j] = Sums(s)[j - 1] + s[j]
        /\ Sums(s)[j - 1] \in Int
    BY <1>1, <1>2, SumsSteps
  <2> QED
    BY <1>1, <1>4, <2>1
<1>6. Sums(t)[n] = Sums(s)[n] + d
  <2>1. \A i \in 1 .. n : i > j => t[i] = s[i]
    BY <1>1
  <2>2. /\ n <= Len(s) /\ n <= Len(t) /\ s \in Seq(Int) /\ t \in Seq(Int)
        /\ j \in Nat /\ n \in Nat /\ j <= n /\ d \in Int
    BY <1>1, <1>2
  <2>3. \A i \in 0 .. n : i >= j => Sums(t)[i] = Sums(s)[i] + d
    <3> HIDE DEF n, d
    <3> QED
      BY <1>5, <2>1, <2>2, SumsAgree
  <2>4. n \in 0 .. n /\ n >= j
    BY <1>1, <1>2
  <2> QED
    BY <2>3, <2>4
<1>7. Sum(t) = Sums(t)[n] /\ Sum(s) = Sums(s)[n]
  BY <1>1 DEF Sum
<1> HIDE DEF n
<1> QED
  BY <1>6, <1>7 DEF t, d
==============================================================================
