------------------------------- MODULE Lemmas -------------------------------
(***************************************************************************)
(* Facts about numbers and sequences that the proofs of several components *)
(* need.                                                                   *)
(***************************************************************************)
EXTENDS Sums, SequenceTheorems, WellFoundedInduction, TLAPS

\* A set of naturals that is not empty has a least element.
LEMMA LeastElement ==
  ASSUME NEW S \in SUBSET Nat, S # {}
  PROVE  \E m \in S : \A k \in S : m <= k
<1> DEFINE R == OpToRel(<, Nat)
<1>1. IsWellFoundedOn(R, Nat)
  BY NatLessThanWellFounded
<1>2. \A x, y \in Nat : x < y => <<x, y>> \in R
  BY DEF OpToRel
<1> HIDE DEF R
<1>3. \E x \in S : \A y \in S : ~ (<<y, x>> \in R)
  BY <1>1, WFMin
<1>4. PICK m \in S : \A y \in S : ~ (<<y, m>> \in R)
  BY <1>3
<1>5. ASSUME NEW k \in S PROVE m <= k
  <2>1. ~ (k < m)
    BY <1>2, <1>4
  <2>2. QED
    BY <2>1
<1>6. QED
  BY <1>4, <1>5

\* Induction over the naturals: a set with 0, and with n + 1 whenever with n, has them
\* all.
LEMMA InductiveSet ==
  ASSUME NEW S, 0 \in S, \A n \in Nat : n \in S => n + 1 \in S
  PROVE  Nat \subseteq S
<1>1. SUFFICES ASSUME Nat \ S # {} PROVE FALSE
  OBVIOUS
<1>2. PICK m \in Nat \ S : \A k \in Nat \ S : m <= k
  BY <1>1, LeastElement
<1>3. m # 0
  BY <1>2
<1>4. m - 1 \in Nat /\ m - 1 \notin Nat \ S
  BY <1>2, <1>3
<1>5. m - 1 \in S /\ (m - 1) + 1 = m
  BY <1>4
<1>6. QED
  BY <1>2, <1>4, <1>5

\* Quotient and remainder by n.
LEMMA Division ==
  ASSUME NEW n \in Nat \ {0}, NEW q \in Nat, NEW r \in 0 .. n - 1
  PROVE  (n * q + r) \div n = q /\ (n * q + r) % n = r
<1>1. (n * q + r) \div n = q
  OBVIOUS
<1>2. (n * q + r) % n = r
  OBVIOUS
<1> QED BY <1>1, <1>2

\* Remainders: below n, of less than n, and of n itself.
LEMMA Remainders ==
  ASSUME NEW n \in Nat \ {0}, NEW k \in Nat
  PROVE  k % n \in 0 .. n - 1 /\ (k < n => k % n = k) /\ n % n = 0
<1>1. k % n \in 0 .. n - 1
  OBVIOUS
<1>2. k < n => k % n = k
  OBVIOUS
<1>3. n % n = 0
  OBVIOUS
<1> QED BY <1>1, <1>2, <1>3

\* Steps taken one after the other from x, each a function: g are the values in between.
Iterated(N, X, x, h, g) ==
  g \in [0 .. N -> X] /\ g[0] = x /\ \A k \in 1 .. N : g[k] = h[k][g[k - 1]]

\* There are such values, for any steps.
LEMMA Iterates ==
  ASSUME NEW N \in Nat, NEW X, NEW x \in X, NEW h \in [1 .. N -> [X -> X]]
  PROVE  \E g : Iterated(N, X, x, h, g)
<1> DEFINE P(n) == \E g \in [0 .. n -> X] : g[0] = x /\ \A k \in 1 .. n : g[k] = h[k][g[k - 1]]
           S == {n \in Nat : n <= N => P(n)}
<1>1. P(0)
  <2> DEFINE z == [k \in {0} |-> x]
  <2>1. z \in [0 .. 0 -> X] /\ z[0] = x /\ \A k \in 1 .. 0 : z[k] = h[k][z[k - 1]]
    OBVIOUS
  <2> QED BY <2>1, Zenon
<1>2. ASSUME NEW n \in Nat, P(n), n + 1 <= N PROVE P(n + 1)
  <2>1. PICK g \in [0 .. n -> X] : g[0] = x /\ \A k \in 1 .. n : g[k] = h[k][g[k - 1]]
    BY <1>2
  <2>2. n + 1 \in 1 .. N /\ g[n] \in X /\ h[n + 1] \in [X -> X]
    BY <1>2
  <2> DEFINE f == [k \in 0 .. n + 1 |-> IF k = n + 1 THEN h[n + 1][g[n]] ELSE g[k]]
  <2>3. f \in [0 .. n + 1 -> X] /\ f[0] = x
    BY <2>1, <2>2
  <2>4. ASSUME NEW k \in 1 .. n + 1 PROVE f[k] = h[k][f[k - 1]]
    <3>1. CASE k = n + 1
      BY <3>1
    <3>2. CASE k \in 1 .. n
      BY <2>1, <3>2
    <3> QED BY <3>1, <3>2
  <2> HIDE DEF f
  <2> QED BY <2>3, <2>4, Zenon
<1> HIDE DEF P
<1>3. Nat \subseteq S
  <2>1. 0 \in S
    BY <1>1
  <2>2. ASSUME NEW n \in Nat, n \in S PROVE n + 1 \in S
    BY <1>2, <2>2
  <2> HIDE DEF S
  <2> QED BY <2>1, <2>2, InductiveSet
<1>4. P(N)
  BY <1>3
<1> QED BY <1>4 DEF P, Iterated

\* What holds at first, and of each value if of the one before, holds of all.
LEMMA Throughout ==
  ASSUME NEW N \in Nat, NEW X, NEW u,
         u[0] \in X, \A k \in 1 .. N : u[k - 1] \in X => u[k] \in X
  PROVE  \A k \in 0 .. N : u[k] \in X
<1> DEFINE S == {n \in Nat : n <= N => u[n] \in X}
<1>1. 0 \in S
  OBVIOUS
<1>2. ASSUME NEW n \in Nat, n \in S PROVE n + 1 \in S
  <2>1. CASE n + 1 <= N
    <3>1. u[n] \in X /\ n + 1 \in 1 .. N /\ (n + 1) - 1 = n
      BY <1>2, <2>1
    <3> QED BY <3>1
  <2> QED BY <2>1
<1> HIDE DEF S
<1>3. Nat \subseteq S
  BY <1>1, <1>2, InductiveSet
<1> QED BY <1>3 DEF S

\* A sequence over a set is one over a larger set.
LEMMA SeqOfMore ==
  ASSUME NEW S, NEW T, S \subseteq T, NEW s \in Seq(S)
  PROVE  s \in Seq(T)
<1>1. Len(s) \in Nat /\ DOMAIN s = 1 .. Len(s) /\ \A j \in 1 .. Len(s) : s[j] \in S
  BY LenProperties
<1>2. s = [j \in 1 .. Len(s) |-> s[j]]
  OBVIOUS
<1>3. [j \in 1 .. Len(s) |-> s[j]] \in Seq(T)
  BY <1>1, IsASeq
<1>4. QED
  BY <1>2, <1>3

\* A stretch of a sequence, and two sequences joined.
LEMMA Stretch ==
  ASSUME NEW S, NEW s \in Seq(S), NEW from \in Nat \ {0}, NEW to \in Nat,
         from <= to + 1, to <= Len(s)
  PROVE  /\ SubSeq(s, from, to) \in Seq(S)
         /\ Len(SubSeq(s, from, to)) = to - from + 1
         /\ \A i \in 1 .. to - from + 1 : SubSeq(s, from, to)[i] = s[from - 1 + i]
<1>1. \A i \in from .. to : s[i] \in S
  BY LenProperties
<1>2. /\ SubSeq(s, from, to) \in Seq(S)
      /\ Len(SubSeq(s, from, to)) = IF from <= to THEN to - from + 1 ELSE 0
      /\ \A i \in 1 .. to - from + 1 : SubSeq(s, from, to)[i] = s[from + i - 1]
  BY <1>1, SubSeqProperties
<1> QED BY <1>2

\* A sequence behind another.
LEMMA Concatenated ==
  ASSUME NEW S, NEW s \in Seq(S), NEW t \in Seq(S)
  PROVE  /\ s \o t \in Seq(S)
         /\ Len(s \o t) = Len(s) + Len(t)
         /\ \A i \in 1 .. Len(s) : (s \o t)[i] = s[i]
         /\ \A i \in 1 .. Len(t) : (s \o t)[Len(s) + i] = t[i]
<1>1. /\ s \o t \in Seq(S) /\ Len(s \o t) = Len(s) + Len(t) /\ Len(s) \in Nat /\ Len(t) \in Nat
      /\ \A i \in 1 .. Len(s) + Len(t) : (s \o t)[i] = IF i <= Len(s) THEN s[i] ELSE t[i - Len(s)]
  BY ConcatProperties, LenProperties
<1> QED BY <1>1

\* One more item on a sequence.
LEMMA OneItemMore ==
  ASSUME NEW S, NEW s \in Seq(S), NEW x \in S, NEW p, p = s \o <<x>>
  PROVE  /\ p \in Seq(S)
         /\ Len(p) = Len(s) + 1
         /\ \A i \in 1 .. Len(s) : p[i] = s[i]
         /\ p[Len(s) + 1] = x
<1>1. PICK t \in Seq(S) : t = <<x>> /\ Len(t) = 1 /\ t[1] = x
  <2>1. <<x>> \in Seq(S) /\ Len(<<x>>) = 1 /\ <<x>>[1] = x
    OBVIOUS
  <2> QED BY <2>1
<1>2. 1 \in 1 .. Len(t)
  BY <1>1
<1> QED BY <1>1, <1>2, Concatenated

-----------------------------------------------------------------------------
(***************************************************************************)
(* Sums of sequences.                                                      *)
(***************************************************************************)

\* f[n] is the sum of the first n elements of s.
Sums(s, f) ==
  /\ f \in [0 .. Len(s) -> Int] /\ f[0] = 0
  /\ \A n \in 1 .. Len(s) : f[n] = f[n - 1] + s[n]

\* A sequence of integers has partial sums, and Sum is the last of them.
LEMMA PartialSums ==
  ASSUME NEW s \in Seq(Int)
  PROVE  \E f : Sums(s, f) /\ Sum(s) = f[Len(s)]
<1> DEFINE Up(g) == [n \in 0 .. Len(s) |-> IF n = 0 THEN 0 ELSE g[n - 1] + s[n]]
           u == CHOOSE g : g = Up(g)
<1>1. Sum(s) = u[Len(s)]
  BY DEF Sum
<1>2. Len(s) \in Nat /\ \A n \in 1 .. Len(s) : s[n] \in Int
  OBVIOUS
<1> DEFINE P(n) == \E g \in [0 .. n -> Int] :
                     g[0] = 0 /\ \A k \in 1 .. n : g[k] = g[k - 1] + s[k]
           S == {n \in Nat : n <= Len(s) => P(n)}
<1>3. P(0)
  <2> DEFINE z == [k \in {0} |-> 0]
  <2>1. z \in [0 .. 0 -> Int] /\ z[0] = 0 /\ \A k \in 1 .. 0 : z[k] = z[k - 1] + s[k]
    OBVIOUS
  <2> QED BY <2>1, Zenon
<1>4. ASSUME NEW n \in Nat, P(n), n + 1 <= Len(s) PROVE P(n + 1)
  <2>1. PICK g \in [0 .. n -> Int] : g[0] = 0 /\ \A k \in 1 .. n : g[k] = g[k - 1] + s[k]
    BY <1>4
  <2> DEFINE h == [k \in 0 .. n + 1 |-> IF k = n + 1 THEN g[n] + s[n + 1] ELSE g[k]]
  <2>2. h \in [0 .. n + 1 -> Int] /\ h[0] = 0
    BY <1>2, <1>4, <2>1
  <2>3. ASSUME NEW k \in 1 .. n + 1 PROVE h[k] = h[k - 1] + s[k]
    <3>1. CASE k = n + 1
      BY <3>1
    <3>2. CASE k \in 1 .. n
      BY <2>1, <3>2
    <3> QED BY <3>1, <3>2
  <2> HIDE DEF h
  <2> QED BY <2>2, <2>3, Zenon
<1> HIDE DEF P
<1>5. Nat \subseteq S
  <2>1. 0 \in S
    BY <1>3
  <2>2. ASSUME NEW n \in Nat, n \in S PROVE n + 1 \in S
    BY <1>2, <1>4, <2>2
  <2> HIDE DEF S
  <2> QED BY <2>1, <2>2, InductiveSet
<1>6. PICK g \in [0 .. Len(s) -> Int] :
        g[0] = 0 /\ \A k \in 1 .. Len(s) : g[k] = g[k - 1] + s[k]
  <2>1. P(Len(s))
    BY <1>2, <1>5
  <2> QED BY <2>1 DEF P
<1>7. g = Up(g)
  <2>1. \A n \in 0 .. Len(s) : g[n] = (IF n = 0 THEN 0 ELSE g[n - 1] + s[n])
    BY <1>2, <1>6
  <2> QED BY <2>1
<1> HIDE DEF S
<1>8. u = Up(u)
  <2> HIDE DEF Up
  <2> QED BY <1>7, Zenon
<1> HIDE DEF u
<1>9. /\ u[0] = 0
      /\ \A n \in 1 .. Len(s) : u[n] = u[n - 1] + s[n]
  <2>1. \A n \in 0 .. Len(s) : u[n] = (IF n = 0 THEN 0 ELSE u[n - 1] + s[n])
    BY <1>2, <1>8
  <2> QED BY <1>2, <2>1
<1> DEFINE T == {n \in Nat : n <= Len(s) => u[n] \in Int}
<1>10. 0 \in T
  BY <1>9
<1>11. ASSUME NEW n \in Nat, n \in T PROVE n + 1 \in T
  <2>1. CASE n + 1 <= Len(s)
    <3>1. u[n] \in Int /\ n + 1 \in 1 .. Len(s)
      BY <1>2, <1>11, <2>1
    <3>2. u[n + 1] = u[n] + s[n + 1]
      BY <1>9, <3>1
    <3> QED BY <1>2, <3>1, <3>2
  <2> QED BY <2>1
<1>12. Nat \subseteq T
  <2> HIDE DEF T
  <2> QED BY <1>10, <1>11, InductiveSet
<1>13. u \in [0 .. Len(s) -> Int]
  <2>1. \A n \in 0 .. Len(s) : u[n] \in Int
    BY <1>2, <1>12
  <2> QED BY <1>8, <2>1
<1> QED BY <1>1, <1>9, <1>13, Zenon DEF Sums

\* The sum of nothing.
LEMMA SumEmpty == Sum(<< >>) = 0
<1>1. << >> \in Seq(Int)
  OBVIOUS
<1>2. PICK s \in Seq(Int) : s = << >>
  BY <1>1, Zenon
<1>3. PICK f : Sums(s, f) /\ Sum(s) = f[Len(s)]
  BY PartialSums
<1>4. Len(s) = 0 /\ f[0] = 0
  BY <1>2, <1>3 DEF Sums
<1> QED BY <1>2, <1>3, <1>4

\* One more item.
LEMMA SumAppended ==
  ASSUME NEW s \in Seq(Int), NEW x \in Int
  PROVE  Sum(Append(s, x)) = Sum(s) + x /\ Sum(s) \in Int
<1>1. PICK f : Sums(s, f) /\ Sum(s) = f[Len(s)]
  BY PartialSums
<1>2. PICK t \in Seq(Int) : t = Append(s, x)
  <2>1. Append(s, x) \in Seq(Int)
    OBVIOUS
  <2> QED BY <2>1, Zenon
<1>3. PICK g : Sums(t, g) /\ Sum(t) = g[Len(t)]
  BY PartialSums
<1>4. Len(s) \in Nat /\ Len(t) = Len(s) + 1 /\ t[Len(s) + 1] = x
      /\ \A k \in 1 .. Len(s) : t[k] = s[k]
  BY <1>2
<1> DEFINE S == {n \in Nat : n <= Len(s) => g[n] = f[n]}
<1>5. 0 \in S
  BY <1>1, <1>3 DEF Sums
<1>6. ASSUME NEW n \in Nat, n \in S PROVE n + 1 \in S
  <2>1. CASE n + 1 <= Len(s)
    <3>1. n + 1 \in 1 .. Len(s) /\ n + 1 \in 1 .. Len(t)
      BY <1>4, <2>1
    <3>2. f[n + 1] = f[n] + s[n + 1] /\ g[n + 1] = g[n] + t[n + 1]
      BY <1>1, <1>3, <3>1 DEF Sums
    <3> QED BY <1>4, <1>6, <2>1, <3>1, <3>2
  <2> QED BY <2>1
<1>7. Nat \subseteq S
  <2> HIDE DEF S
  <2> QED BY <1>5, <1>6, InductiveSet
<1>8. g[Len(s)] = f[Len(s)] /\ f[Len(s)] \in Int
  BY <1>1, <1>4, <1>7 DEF Sums
<1>9. g[Len(t)] = g[Len(s)] + x
  BY <1>3, <1>4 DEF Sums
<1> QED BY <1>1, <1>2, <1>3, <1>8, <1>9

\* One item less.
LEMMA SumOfTail ==
  ASSUME NEW s \in Seq(Int), s # << >>
  PROVE  Sum(Tail(s)) = Sum(s) - s[1] /\ Sum(s) \in Int
<1>1. PICK f : Sums(s, f) /\ Sum(s) = f[Len(s)]
  BY PartialSums
<1>2. PICK t \in Seq(Int) : t = Tail(s)
  <2>1. Tail(s) \in Seq(Int)
    OBVIOUS
  <2> QED BY <2>1, Zenon
<1>3. PICK g : Sums(t, g) /\ Sum(t) = g[Len(t)]
  BY PartialSums
<1>4. Len(t) \in Nat /\ Len(s) = Len(t) + 1 /\ s[1] \in Int
      /\ \A k \in 1 .. Len(t) : t[k] = s[k + 1]
  BY <1>2
<1> DEFINE S == {n \in Nat : n <= Len(t) => g[n] = f[n + 1] - s[1]}
<1>5. 0 \in S
  <2>1. f[0] = 0 /\ f[1] = f[0] + s[1] /\ g[0] = 0
    BY <1>1, <1>3, <1>4 DEF Sums
  <2> QED BY <1>4, <2>1
<1>6. ASSUME NEW n \in Nat, n \in S PROVE n + 1 \in S
  <2>1. CASE n + 1 <= Len(t)
    <3>1. n + 1 \in 1 .. Len(t) /\ n + 2 \in 1 .. Len(s) /\ n + 1 \in 0 .. Len(s)
      BY <1>4, <2>1
    <3>2. f[n + 2] = f[n + 1] + s[n + 2] /\ g[n + 1] = g[n] + t[n + 1]
      BY <1>1, <1>3, <3>1 DEF Sums
    <3>3. g[n] = f[n + 1] - s[1] /\ t[n + 1] = s[n + 2]
      BY <1>4, <1>6, <2>1, <3>1
    <3>5. f[n + 1] \in Int /\ s[n + 2] \in Int
      BY <1>1, <3>1 DEF Sums
    <3>4. g[n + 1] = f[n + 2] - s[1]
      BY <1>4, <3>2, <3>3, <3>5
    <3> QED BY <3>4
  <2> QED BY <2>1
<1>7. Nat \subseteq S
  <2> HIDE DEF S
  <2> QED BY <1>5, <1>6, InductiveSet
<1>8. g[Len(t)] = f[Len(s)] - s[1] /\ f[Len(s)] \in Int
  <2>1. Len(t) \in S
    BY <1>4, <1>7
  <2>2. f[Len(s)] \in Int
    BY <1>1 DEF Sums
  <2> QED BY <1>4, <2>1, <2>2
<1> QED BY <1>1, <1>2, <1>3, <1>8

\* Elements of at most m have a sum of at most m for each.
LEMMA SumBounded ==
  ASSUME NEW s \in Seq(Int), NEW m \in Nat, \A k \in 1 .. Len(s) : s[k] \in 0 .. m
  PROVE  Sum(s) \in 0 .. Len(s) * m
<1>1. PICK f : Sums(s, f) /\ Sum(s) = f[Len(s)]
  BY PartialSums
<1> DEFINE S == {n \in Nat : n <= Len(s) => f[n] \in Int /\ 0 <= f[n] /\ f[n] <= n * m}
<1>2. Len(s) \in Nat
  OBVIOUS
<1>3. 0 \in S
  BY <1>1 DEF Sums
<1>4. ASSUME NEW n \in Nat, n \in S PROVE n + 1 \in S
  <2>1. CASE n + 1 <= Len(s)
    <3>1. n + 1 \in 1 .. Len(s)
      BY <1>2, <2>1
    <3>2. f[n + 1] = f[n] + s[n + 1] /\ s[n + 1] \in 0 .. m
      BY <1>1, <3>1 DEF Sums
    <3>3. f[n] \in Int /\ 0 <= f[n] /\ f[n] <= n * m
      BY <1>2, <1>4, <2>1
    <3>4. (n + 1) * m = n * m + m /\ n * m \in Int
      OBVIOUS
    <3> QED BY <3>2, <3>3, <3>4
  <2> QED BY <2>1
<1>5. Nat \subseteq S
  <2> HIDE DEF S
  <2> QED BY <1>3, <1>4, InductiveSet
<1>6. f[Len(s)] \in Int /\ 0 <= f[Len(s)] /\ f[Len(s)] <= Len(s) * m
  BY <1>2, <1>5
<1>7. Len(s) * m \in Int
  BY <1>2
<1> QED BY <1>1, <1>6, <1>7

\* One more for one element is one more for the sum.
LEMMA SumIncremented ==
  ASSUME NEW s \in Seq(Int), NEW d \in 1 .. Len(s)
  PROVE  Sum([s EXCEPT ![d] = @ + 1]) = Sum(s) + 1 /\ Sum(s) \in Int
<1>1. PICK f : Sums(s, f) /\ Sum(s) = f[Len(s)]
  BY PartialSums
<1>2. PICK t \in Seq(Int) : t = [s EXCEPT ![d] = s[d] + 1]
  <2>1. s[d] + 1 \in Int
    OBVIOUS
  <2>2. [s EXCEPT ![d] = s[d] + 1] \in Seq(Int)
    BY <2>1, ExceptSeq
  <2> QED BY <2>2, Zenon
<1>3. PICK g : Sums(t, g) /\ Sum(t) = g[Len(t)]
  BY PartialSums
<1>4. Len(s) \in Nat /\ Len(t) = Len(s)
      /\ \A k \in 1 .. Len(s) : t[k] = s[k] + (IF k = d THEN 1 ELSE 0) /\ s[k] \in Int
  BY <1>2
<1> DEFINE S == {n \in Nat : n <= Len(s) => g[n] = f[n] + (IF n < d THEN 0 ELSE 1)}
<1>5. 0 \in S
  BY <1>1, <1>3 DEF Sums
<1>6. ASSUME NEW n \in Nat, n \in S PROVE n + 1 \in S
  <2>1. CASE n + 1 <= Len(s)
    <3>1. n + 1 \in 1 .. Len(s) /\ n \in 0 .. Len(s)
      BY <1>4, <2>1
    <3>6. f[n] \in Int /\ d \in Nat
      BY <1>1, <3>1 DEF Sums
    <3>7. f[n + 1] = f[n] + s[n + 1]
      BY <1>1, <3>1 DEF Sums
    <3>2. f[n + 1] = f[n] + s[n + 1] /\ f[n] \in Int /\ d \in Nat
      BY <3>6, <3>7
    <3>5. g[n + 1] = g[n] + t[n + 1]
      BY <1>3, <1>4, <3>1 DEF Sums
    <3>3. g[n] = f[n] + (IF n < d THEN 0 ELSE 1)
      BY <1>6, <3>1
    <3>4. g[n + 1] = f[n + 1] + (IF n + 1 < d THEN 0 ELSE 1)
      <4>1. t[n + 1] = s[n + 1] + (IF n + 1 = d THEN 1 ELSE 0) /\ s[n + 1] \in Int
        BY <1>4, <3>1
      <4> HIDE DEF S
      <4>2. CASE n + 1 < d
        BY <3>2, <3>3, <3>5, <4>1, <4>2
      <4>3. CASE n + 1 = d
        <5>1. n < d /\ ~ (n + 1 < d)
          BY <3>2, <4>3
        <5>2. g[n] = f[n] /\ t[n + 1] = s[n + 1] + 1
          BY <3>2, <3>3, <4>1, <4>3, <5>1
        <5>4. PICK a \in Int, b \in Int : a = f[n] /\ b = s[n + 1]
          BY <3>2, <4>1
        <5>5. g[n + 1] = a + (b + 1) /\ f[n + 1] = a + b
          BY <3>2, <3>5, <5>2, <5>4
        <5>3. g[n + 1] = f[n + 1] + 1
          BY <5>5
        <5> QED BY <5>1, <5>3, Zenon
      <4>4. CASE d < n + 1
        <5>1. ~ (n < d) /\ n + 1 # d /\ ~ (n + 1 < d)
          BY <3>2, <4>4
        <5>2. g[n] = f[n] + 1 /\ t[n + 1] = s[n + 1]
          BY <3>3, <4>1, <5>1
        <5> QED BY <3>2, <3>5, <4>1, <5>1, <5>2
      <4> QED BY <3>2, <4>2, <4>3, <4>4
    <3> QED BY <3>4
  <2> QED BY <2>1
<1>7. Nat \subseteq S
  <2> HIDE DEF S
  <2> QED BY <1>5, <1>6, InductiveSet
<1>8. g[Len(s)] = f[Len(s)] + 1 /\ f[Len(s)] \in Int
  BY <1>1, <1>4, <1>7 DEF Sums
<1> QED BY <1>1, <1>2, <1>3, <1>4, <1>8

\* Naturals have a natural sum, and 0 only if they are all 0.
LEMMA SumOfNaturals ==
  ASSUME NEW s \in Seq(Int), \A k \in 1 .. Len(s) : s[k] \in Nat
  PROVE  Sum(s) \in Nat /\ \A k \in 1 .. Len(s) : s[k] <= Sum(s)
<1>1. PICK f : Sums(s, f) /\ Sum(s) = f[Len(s)]
  BY PartialSums
<1>2. Len(s) \in Nat /\ f[0] = 0 /\ \A n \in 1 .. Len(s) : f[n] = f[n - 1] + s[n]
  BY <1>1 DEF Sums
<1> DEFINE P(n) == f[n] \in Nat /\ \A k \in 1 .. n : s[k] <= f[n]
           S == {n \in Nat : n <= Len(s) => P(n)}
<1>3. 0 \in S
  BY <1>2
<1>4. ASSUME NEW n \in Nat, n \in S PROVE n + 1 \in S
  <2>1. CASE n + 1 <= Len(s)
    <3>1. n + 1 \in 1 .. Len(s) /\ (n + 1) - 1 = n
      BY <1>2, <2>1
    <3>2. f[n + 1] = f[n] + s[n + 1] /\ s[n + 1] \in Nat
      BY <1>2, <3>1
    <3>3. f[n] \in Nat /\ \A k \in 1 .. n : s[k] <= f[n]
      BY <1>4, <2>1
    <3>4. PICK a \in Nat, b \in Nat : a = f[n] /\ b = s[n + 1]
      BY <3>2, <3>3
    <3>5. f[n + 1] = a + b
      BY <3>2, <3>4
    <3>6. ASSUME NEW k \in 1 .. n + 1 PROVE s[k] <= f[n + 1]
      <4>1. CASE k = n + 1
        BY <3>4, <3>5, <4>1
      <4>2. CASE k \in 1 .. n
        <5>1. s[k] \in Nat /\ s[k] <= a
          BY <2>1, <3>3, <3>4, <4>2
        <5> QED BY <3>5, <5>1
      <4> QED BY <4>1, <4>2
    <3> QED BY <3>5, <3>6
  <2> QED BY <2>1
<1>5. Nat \subseteq S
  <2> HIDE DEF S
  <2> QED BY <1>3, <1>4, InductiveSet
<1>6. P(Len(s))
  BY <1>2, <1>5
<1> QED BY <1>1, <1>6

\* Item j of group k, of m items each.
LEMMA Places ==
  ASSUME NEW m \in Nat \ {0}, NEW N \in Nat, NEW k \in 1 .. N, NEW j \in 1 .. m,
         NEW i, i = m * (k - 1) + j
  PROVE  i \in 1 .. m * N /\ (i - 1) \div m + 1 = k /\ ((i - 1) % m) + 1 = j
<1>1. PICK q \in Nat, r \in 0 .. m - 1 : q = k - 1 /\ r = j - 1
  <2>1. k - 1 \in Nat /\ j - 1 \in 0 .. m - 1
    OBVIOUS
  <2> QED BY <2>1
<1>2. PICK x \in Nat : x = m * q
  OBVIOUS
<1>3. i - 1 = m * q + r /\ i = x + j
  BY <1>1, <1>2
<1>4. (m * q + r) \div m = q /\ (m * q + r) % m = r
  BY Division
<1>5. x + m <= m * N
  <2>1. PICK e \in Nat : N = q + 1 + e
    <3>1. N - q - 1 \in Nat /\ N = q + 1 + (N - q - 1)
      BY <1>1
    <3> QED BY <3>1
  <2>2. m * N = m * q + m + m * e /\ m * e \in Nat
    BY <2>1
  <2> QED BY <1>2, <2>2
<1>6. i \in 1 .. m * N
  <2>1. m * N \in Nat
    OBVIOUS
  <2> QED BY <1>2, <1>3, <1>5, <2>1
<1>7. (i - 1) \div m = q /\ (i - 1) % m = r
  BY <1>3, <1>4
<1> QED BY <1>1, <1>6, <1>7

\* A place in a block is a place in all of them.
LEMMA PlaceIn ==
  ASSUME NEW m \in Nat \ {0}, NEW N \in Nat, NEW k \in 1 .. N, NEW j \in 1 .. m
  PROVE  m * (k - 1) + j \in 1 .. m * N
<1>1. PICK i : i = m * (k - 1) + j
  OBVIOUS
<1> QED BY <1>1, Places

\* The group an item is in.
LEMMA PlaceOf ==
  ASSUME NEW m \in Nat \ {0}, NEW N \in Nat, NEW i \in 1 .. m * N
  PROVE  \E k \in 1 .. N : \E j \in 1 .. m : i = m * (k - 1) + j
<1>1. PICK q \in Nat, r \in 0 .. m - 1 : i - 1 = m * q + r
  <2>1. PICK a \in Nat : a = i - 1
    <3>1. m * N \in Nat
      OBVIOUS
    <3>2. i - 1 \in Nat
      BY <3>1
    <3> QED BY <3>2
  <2>2. a \div m \in Nat /\ a % m \in 0 .. m - 1 /\ a = m * (a \div m) + (a % m)
    OBVIOUS
  <2> QED BY <2>1, <2>2
<1>2. q + 1 <= N
  <2>1. SUFFICES ASSUME N <= q PROVE FALSE
    OBVIOUS
  <2>2. PICK e \in Nat : q = N + e
    <3>1. q - N \in Nat /\ q = N + (q - N)
      BY <2>1
    <3> QED BY <3>1
  <2>3. m * q = m * N + m * e /\ m * e \in Nat /\ m * N \in Nat
    BY <2>2
  <2> QED BY <1>1, <2>3
<1>3. q + 1 \in 1 .. N /\ r + 1 \in 1 .. m /\ i = m * ((q + 1) - 1) + (r + 1)
  <2>1. m * q \in Nat /\ m * ((q + 1) - 1) = m * q
    OBVIOUS
  <2> QED BY <1>1, <1>2, <2>1
<1> QED BY <1>3

-----------------------------------------------------------------------------
(***************************************************************************)
(* Sequences of blocks of one length.                                      *)
(***************************************************************************)

\* s is made of the blocks t, of m items each.
Blocks(S, m, s, t) ==
  /\ m \in Nat \ {0} /\ s \in Seq(S) /\ t \in Seq(Seq(S)) /\ Len(s) = m * Len(t)
  /\ \A k \in 1 .. Len(t) : /\ Len(t[k]) = m
                            /\ \A j \in 1 .. m : s[m * (k - 1) + j] = t[k][j]

\* No block at all.
LEMMA NoBlocks ==
  ASSUME NEW S, NEW m \in Nat \ {0}
  PROVE  Blocks(S, m, << >>, << >>)
<1>1. << >> \in Seq(S) /\ << >> \in Seq(Seq(S)) /\ Len(<< >>) = 0
  BY EmptySeq
<1>2. PICK e : e = << >>
  OBVIOUS
<1>3. e \in Seq(S) /\ e \in Seq(Seq(S)) /\ Len(e) = 0
  BY <1>1, <1>2
<1>4. Blocks(S, m, e, e)
  BY <1>3 DEF Blocks
<1> QED BY <1>2, <1>4

\* Something is left exactly if a block is.
LEMMA BlocksLeft ==
  ASSUME NEW S, NEW m, NEW s, NEW t, Blocks(S, m, s, t)
  PROVE  s = << >> <=> t = << >>
<1>1. m \in Nat \ {0} /\ s \in Seq(S) /\ t \in Seq(Seq(S)) /\ Len(s) = m * Len(t)
  BY DEF Blocks
<1>2. PICK N \in Nat, M \in Nat : N = Len(t) /\ M = Len(s)
  BY <1>1, LenProperties
<1>3. M = 0 <=> N = 0
  BY <1>1, <1>2
<1> QED BY <1>1, <1>2, <1>3, EmptySeq

\* A block behind the others.
LEMMA OneBlockMore ==
  ASSUME NEW S, NEW m \in Nat \ {0}, NEW s \in Seq(S), NEW t \in Seq(Seq(S)), Blocks(S, m, s, t),
         NEW b \in Seq(S), Len(b) = m
  PROVE  Blocks(S, m, s \o b, Append(t, b))
<1>1. m \in Nat \ {0} /\ s \in Seq(S) /\ t \in Seq(Seq(S)) /\ Len(s) = m * Len(t)
  BY DEF Blocks
<1>2. PICK N \in Nat : N = Len(t) /\ Len(s) = m * N
  BY <1>1, LenProperties
<1>3. PICK u : u = s \o b
  OBVIOUS
<1>6. PICK x \in Nat : x = m * N
  OBVIOUS
<1>4. /\ u \in Seq(S) /\ Len(u) = x + m
      /\ \A i \in 1 .. x : u[i] = s[i]
      /\ \A i \in 1 .. m : u[x + i] = b[i]
  <2>1. u \in Seq(S)
    BY <1>3, Concatenated
  <2>2. Len(u) = Len(s) + Len(b)
    BY <1>3, Concatenated
  <2>3. \A i \in 1 .. Len(s) : u[i] = s[i]
    BY <1>3, Concatenated
  <2>4. \A i \in 1 .. Len(b) : u[Len(s) + i] = b[i]
    BY <1>3, Concatenated
  <2> QED BY <1>2, <1>6, <2>1, <2>2, <2>3, <2>4
<1>10. PICK v : v = Append(t, b)
  OBVIOUS
<1>5. v \in Seq(Seq(S)) /\ Len(v) = N + 1 /\ v[N + 1] = b /\ \A k \in 1 .. N : v[k] = t[k]
  <2>1. v \in Seq(Seq(S)) /\ Len(v) = Len(t) + 1
    BY <1>10, AppendProperties
  <2>2. v[Len(t) + 1] = b
    BY <1>10, AppendProperties
  <2>3. \A k \in 1 .. Len(t) : v[k] = t[k]
    BY <1>10, AppendProperties
  <2> QED BY <1>2, <2>1, <2>2, <2>3
<1>7. m * (N + 1) = x + m
  BY <1>1, <1>6
<1>8. ASSUME NEW k \in 1 .. N + 1
      PROVE  Len(v[k]) = m /\ \A j \in 1 .. m : u[m * (k - 1) + j] = v[k][j]
  <2>1. CASE k = N + 1
    <3>1. v[k] = b
      BY <1>5, <2>1
    <3>2. m * (k - 1) = x
      BY <1>6, <2>1
    <3> QED BY <1>4, <3>1, <3>2
  <2>2. CASE k \in 1 .. N
    <3>1. v[k] = t[k] /\ Len(t[k]) = m
      BY <1>2, <1>5, <2>2 DEF Blocks
    <3>2. ASSUME NEW j \in 1 .. m PROVE u[m * (k - 1) + j] = t[k][j]
      <4>1. PICK i : i = m * (k - 1) + j
        OBVIOUS
      <4>2. i \in 1 .. m * N
        BY <2>2, <4>1, PlaceIn
      <4>4. u[i] = s[i]
        BY <1>4, <1>6, <4>2
      <4>5. s[m * (k - 1) + j] = t[k][j]
        BY <1>2, <2>2 DEF Blocks
      <4> QED BY <4>1, <4>4, <4>5
    <3> QED BY <3>1, <3>2
  <2> QED BY <2>1, <2>2
<1>9. Len(u) = m * Len(v)
  BY <1>4, <1>5, <1>6, <1>7
<1>11. Blocks(S, m, u, v)
  BY <1>4, <1>5, <1>8, <1>9 DEF Blocks
<1> QED BY <1>3, <1>10, <1>11

\* The first block, and the others without it.
LEMMA FirstBlock ==
  ASSUME NEW S, NEW m \in Nat \ {0}, NEW s \in Seq(S), NEW t \in Seq(Seq(S)), Blocks(S, m, s, t),
         t # << >>
  PROVE  /\ SubSeq(s, 1, m) = t[1] /\ m <= Len(s) /\ t[1] \in Seq(S)
         /\ Blocks(S, m, SubSeq(s, m + 1, Len(s)), Tail(t))
<1>1. Len(s) = m * Len(t)
  BY DEF Blocks
<1>2. PICK N \in Nat : Len(t) = N + 1
  <2>1. Len(t) \in Nat \ {0}
    BY <1>1, LenProperties, EmptySeq
  <2>2. Len(t) - 1 \in Nat /\ Len(t) = (Len(t) - 1) + 1
    BY <2>1
  <2> QED BY <2>2
<1>3. PICK x \in Nat : x = m * N /\ Len(s) = m + x
  <2>1. m * (N + 1) = m + m * N /\ m * N \in Nat
    BY <1>1
  <2> QED BY <1>1, <1>2, <2>1
<1>5. PICK f : f = SubSeq(s, 1, m)
  OBVIOUS
<1>12. f \in Seq(S) /\ Len(f) = m /\ \A i \in 1 .. m : f[i] = s[i]
  <2>1. 1 \in Nat \ {0} /\ 1 <= m + 1 /\ m <= Len(s) /\ m - 1 + 1 = m /\ 1 - 1 = 0
    BY <1>3
  <2>2. f \in Seq(S) /\ Len(f) = m - 1 + 1
    BY <1>5, <2>1, Stretch
  <2>3. \A i \in 1 .. m - 1 + 1 : f[i] = s[1 - 1 + i]
    BY <1>5, <2>1, Stretch
  <2> QED BY <2>1, <2>2, <2>3
<1>6. PICK r : r = SubSeq(s, m + 1, m + x)
  OBVIOUS
<1>13. r \in Seq(S) /\ Len(r) = x /\ \A i \in 1 .. x : r[i] = s[m + i]
  <2>1. PICK a \in Nat \ {0}, b \in Nat : a = m + 1 /\ b = m + x
    OBVIOUS
  <2>2. a <= b + 1 /\ b <= Len(s) /\ b - a + 1 = x /\ a - 1 = m
    BY <1>3, <2>1
  <2>3. r \in Seq(S) /\ Len(r) = b - a + 1
    BY <1>6, <2>1, <2>2, Stretch
  <2>4. \A i \in 1 .. b - a + 1 : r[i] = s[a - 1 + i]
    BY <1>6, <2>1, <2>2, Stretch
  <2> QED BY <2>2, <2>3, <2>4
<1>7. 1 \in 1 .. Len(t) /\ t[1] \in Seq(S) /\ Len(t[1]) = m
  <2>1. 1 \in 1 .. Len(t)
    BY <1>2
  <2> QED BY <1>1, <2>1, LenProperties DEF Blocks
<1>8. f = t[1]
  <2>1. ASSUME NEW j \in 1 .. m PROVE f[j] = t[1][j]
    <3>1. s[m * (1 - 1) + j] = t[1][j]
      BY <1>7 DEF Blocks
    <3>2. m * (1 - 1) + j = j
      BY <1>1
    <3> QED BY <1>12, <3>1, <3>2
  <2> QED BY <1>12, <1>7, <2>1, SeqEqual
<1>14. PICK v : v = Tail(t)
  OBVIOUS
<1>9. v \in Seq(Seq(S)) /\ Len(v) = N /\ \A k \in 1 .. N : v[k] = t[k + 1]
  <2>1. Tail(t) \in Seq(Seq(S)) /\ Len(Tail(t)) = Len(t) - 1
        /\ \A k \in 1 .. Len(Tail(t)) : Tail(t)[k] = t[k + 1]
    BY <1>1, HeadTailProperties
  <2> QED BY <1>2, <1>14, <2>1
<1>10. ASSUME NEW k \in 1 .. N
       PROVE  Len(v[k]) = m /\ \A j \in 1 .. m : r[m * (k - 1) + j] = v[k][j]
  <2>1. k + 1 \in 1 .. Len(t) /\ v[k] = t[k + 1]
    BY <1>2, <1>9
  <2>2. ASSUME NEW j \in 1 .. m PROVE r[m * (k - 1) + j] = t[k + 1][j]
    <3>1. PICK i : i = m * (k - 1) + j
      OBVIOUS
    <3>2. i \in 1 .. x
      <4>1. i \in 1 .. m * N
        BY <3>1, PlaceIn
      <4> QED BY <1>3, <4>1
    <3>3. s[m * ((k + 1) - 1) + j] = t[k + 1][j]
      BY <2>1 DEF Blocks
    <3>4. m * ((k + 1) - 1) + j = m + i
      BY <1>1, <3>1
    <3> QED BY <1>13, <3>1, <3>2, <3>3, <3>4
  <2> QED BY <2>1, <2>2 DEF Blocks
<1>11. Blocks(S, m, r, v)
  <2>1. Len(r) = m * Len(v)
    BY <1>3, <1>9, <1>13
  <2> QED BY <1>9, <1>10, <1>13, <2>1 DEF Blocks
<1>15. SubSeq(s, m + 1, Len(s)) = r /\ m <= Len(s)
  BY <1>3, <1>6
<1> QED BY <1>5, <1>7, <1>8, <1>11, <1>14, <1>15
=============================================================================
