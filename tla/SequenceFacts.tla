----------------------------- MODULE SequenceFacts -----------------------------
(***************************************************************************)
(* Facts about natural numbers and sequences that the proofs share.        *)
(***************************************************************************)
EXTENDS Naturals, Sequences, SequencesExt, NaturalsInduction,
        WellFoundedInduction, SequenceTheorems, FiniteSetTheorems, TLAPS

\* A set of natural numbers that is not empty has a least element: the form of
\* induction the provers can use, since it names no predicate.
LEMMA LeastNatural ==
  ASSUME NEW S, S \subseteq Nat, S # {}
  PROVE  \E n \in S : \A m \in S : ~(m < n)
  <1> DEFINE less == {p \in Nat \X Nat : p[1] < p[2]}
  <1>1. IsWellFoundedOn(less, Nat)
    BY NatLessThanWellFounded DEF OpToRel
  <1>2. \E n \in S : \A m \in S : <<m, n>> \notin less
    <2> HIDE DEF less
    <2>1. QED
      BY <1>1, WFMin
  <1>3. QED
    BY <1>2

\* Induction up to a bound, over a set: zero and every successor are in it.
LEMMA UpTo ==
  ASSUME NEW n \in Nat, NEW S, 0 \in S,
         \A i \in 0 .. n : i # 0 /\ i - 1 \in S => i \in S
  PROVE  \A i \in 0 .. n : i \in S
  <1> SUFFICES ASSUME NEW k \in 0 .. n, k \notin S
               PROVE  FALSE
    OBVIOUS
  <1> DEFINE missing == {i \in 0 .. n : i \notin S}
  <1>1. missing \subseteq Nat /\ missing # {}
    OBVIOUS
  <1>2. PICK i \in missing : \A m \in missing : ~(m < i)
    <2> HIDE DEF missing
    <2>1. QED
      BY <1>1, LeastNatural
  <1>3. i # 0 /\ i - 1 \in 0 .. n /\ i - 1 < i
    OBVIOUS
  <1>4. i - 1 \in S
    BY <1>2, <1>3
  <1>5. QED
    BY <1>3, <1>4

-------------------------------------------------------------------------------
\* What is in a sequence.
LEMMA RangeIs ==
  ASSUME NEW S, NEW s \in Seq(S)
  PROVE  Range(s) = {s[i] : i \in 1 .. Len(s)} /\ Range(s) \subseteq S
  <1>1. DOMAIN s = 1 .. Len(s) /\ \A i \in 1 .. Len(s) : s[i] \in S
    OBVIOUS
  <1>2. QED
    BY <1>1 DEF Range

\* What is in a sequence made of two.
LEMMA RangeConcat ==
  ASSUME NEW S, NEW s \in Seq(S), NEW t \in Seq(S)
  PROVE  s \o t \in Seq(S) /\ Range(s \o t) = Range(s) \cup Range(t)
  <1>1. s \o t \in Seq(S)
    OBVIOUS
  <1>2. ASSUME NEW x \in Range(s) PROVE x \in Range(s \o t)
    <2>1. PICK i \in DOMAIN s : x = s[i]
      BY <1>2 DEF Range
    <2>2. i \in DOMAIN (s \o t) /\ (s \o t)[i] = x
      BY <2>1
    <2>3. QED
      BY <2>2 DEF Range
  <1>3. ASSUME NEW x \in Range(t) PROVE x \in Range(s \o t)
    <2>1. PICK i \in DOMAIN t : x = t[i]
      BY <1>3 DEF Range
    <2>2. Len(s) + i \in DOMAIN (s \o t) /\ (s \o t)[Len(s) + i] = x
      BY <2>1
    <2>3. QED
      BY <2>2 DEF Range
  <1>4. ASSUME NEW x \in Range(s \o t) PROVE x \in Range(s) \cup Range(t)
    <2>1. PICK i \in DOMAIN (s \o t) : x = (s \o t)[i]
      BY <1>4 DEF Range
    <2>2. CASE i <= Len(s)
      <3>1. i \in DOMAIN s /\ x = s[i]
        BY <2>1, <2>2
      <3>2. QED
        BY <3>1 DEF Range
    <2>3. CASE i > Len(s)
      <3>1. i - Len(s) \in DOMAIN t /\ x = t[i - Len(s)]
        BY <2>1, <2>3
      <3>2. QED
        BY <3>1 DEF Range
    <2>4. QED
      BY <2>2, <2>3
  <1>5. QED
    BY <1>1, <1>2, <1>3, <1>4

\* What is in a sequence with an element at its end.
LEMMA RangeAppend ==
  ASSUME NEW S, NEW s \in Seq(S), NEW x \in S
  PROVE  Append(s, x) \in Seq(S) /\ Range(Append(s, x)) = Range(s) \cup {x}
  <1> DEFINE t == Append(s, x)
  <1>1. /\ t \in Seq(S) /\ Len(t) = Len(s) + 1 /\ Len(s) \in Nat
        /\ t[Len(t)] = x /\ \A i \in 1 .. Len(s) : t[i] = s[i]
    OBVIOUS
  <1> HIDE DEF t
  <1>2. /\ Range(s) = {s[i] : i \in 1 .. Len(s)}
        /\ Range(t) = {t[i] : i \in 1 .. Len(t)}
    BY <1>1, RangeIs
  <1>3. \A i \in 1 .. Len(t) : i \in 1 .. Len(s) \/ i = Len(t)
    BY <1>1
  <1>4. /\ \A i \in 1 .. Len(s) : i \in 1 .. Len(t)
        /\ Len(t) \in 1 .. Len(t)
    BY <1>1
  <1>5. QED
    BY <1>1, <1>2, <1>3, <1>4 DEF t

\* What is in a sequence is its head and what is in its tail.
LEMMA RangeTail ==
  ASSUME NEW S, NEW s \in Seq(S), s # <<>>
  PROVE  /\ Tail(s) \in Seq(S) /\ Head(s) \in S
         /\ Range(s) = {Head(s)} \cup Range(Tail(s))
  <1>1. Tail(s) \in Seq(S) /\ Head(s) \in S /\ Len(s) > 0
    OBVIOUS
  <1>2. ASSUME NEW x \in Range(s) PROVE x \in {Head(s)} \cup Range(Tail(s))
    <2>1. PICK i \in DOMAIN s : x = s[i]
      BY <1>2 DEF Range
    <2>2. CASE i = 1
      BY <2>1, <2>2
    <2>3. CASE i # 1
      <3>1. i - 1 \in DOMAIN Tail(s) /\ x = Tail(s)[i - 1]
        BY <2>1, <2>3
      <3>2. QED
        BY <3>1 DEF Range
    <2>4. QED
      BY <2>2, <2>3
  <1>3. ASSUME NEW x \in Range(Tail(s)) PROVE x \in Range(s)
    <2>1. PICK i \in DOMAIN Tail(s) : x = Tail(s)[i]
      BY <1>3 DEF Range
    <2>2. i + 1 \in DOMAIN s /\ x = s[i + 1]
      BY <2>1
    <2>3. QED
      BY <2>2 DEF Range
  <1>4. Head(s) \in Range(s)
    BY <1>1 DEF Range
  <1>5. QED
    BY <1>1, <1>2, <1>3, <1>4

\* Short sequences, written out.
LEMMA RangeOfTuple ==
  /\ Range(<<>>) = {}
  /\ \A a : Range(<<a>>) = {a}
  /\ \A a, b : Range(<<a, b>>) = {a, b}
  /\ \A a, b, c : Range(<<a, b, c>>) = {a, b, c}
  /\ \A a, b, c, d : Range(<<a, b, c, d>>) = {a, b, c, d}
  BY DEF Range

\* The least of two numbers.
LEMMA LeastOfPair ==
  ASSUME NEW a \in Nat, NEW b \in Nat
  PROVE  Min({a, b}) = IF a <= b THEN a ELSE b
  <1> DEFINE m == IF a <= b THEN a ELSE b
  <1>1. m \in {a, b} /\ \A y \in {a, b} : m <= y
    OBVIOUS
  <1>2. \A x \in {a, b} : (\A y \in {a, b} : x <= y) => x = m
    OBVIOUS
  <1>3. QED
    BY <1>1, <1>2 DEF Min

\* A sequence without its k-th element.
LEMMA RemoveAtIs ==
  ASSUME NEW S, NEW q \in Seq(S), NEW k \in 1 .. Len(q)
  PROVE  /\ RemoveAt(q, k) \in Seq(S) /\ Len(RemoveAt(q, k)) = Len(q) - 1
         /\ \A i \in 1 .. Len(q) - 1 :
              RemoveAt(q, k)[i] = q[IF i < k THEN i ELSE i + 1]
  <1> DEFINE a == SubSeq(q, 1, k - 1)
             b == SubSeq(q, k + 1, Len(q))
  <1>1. Len(q) \in Nat
    OBVIOUS
  <1>2. /\ a \in Seq(S) /\ Len(a) = k - 1
        /\ \A i \in 1 .. k - 1 : a[i] = q[i]
    BY <1>1
  <1>3. /\ b \in Seq(S) /\ Len(b) = Len(q) - k
        /\ \A i \in 1 .. Len(q) - k : b[i] = q[k + i]
    BY <1>1
  <1> HIDE DEF a, b
  <1>4. RemoveAt(q, k) = a \o b
    BY DEF RemoveAt, a, b
  <1>5. a \o b \in Seq(S) /\ Len(a \o b) = Len(q) - 1
    <2>1. a \o b \in Seq(S) /\ Len(a \o b) = Len(a) + Len(b)
      BY <1>2, <1>3, ConcatProperties
    <2>2. QED
      BY <1>1, <1>2, <1>3, <2>1
  <1>6. ASSUME NEW i \in 1 .. Len(q) - 1
        PROVE  (a \o b)[i] = q[IF i < k THEN i ELSE i + 1]
    <2>1. CASE i < k
      BY <1>1, <1>2, <1>3, <2>1
    <2>2. CASE ~(i < k)
      <3>1. i - Len(a) \in 1 .. Len(b) /\ (a \o b)[i] = b[i - Len(a)]
        BY <1>1, <1>2, <1>3, <2>2
      <3>2. k + (i - Len(a)) = i + 1 /\ i - Len(a) \in 1 .. Len(q) - k
        BY <1>1, <1>2, <1>3, <2>2
      <3>3. QED
        BY <1>1, <1>3, <2>2, <3>1, <3>2
    <2>3. QED
      BY <2>1, <2>2
  <1>7. QED
    BY <1>4, <1>5, <1>6

-------------------------------------------------------------------------------
(***************************************************************************)
(* The total size of what is in a queue, whose elements have a size.       *)
(***************************************************************************)

Measured(S) == \A x \in S : x.size \in Nat

\* sum is the table of partial sums of a queue.
IsSum(sum, queue) ==
  sum = [i \in 0 .. Len(queue) |->
           IF i = 0 THEN 0 ELSE sum[i - 1] + queue[i].size]

SumUpTo(n, sum, queue) ==
  \A i \in 0 .. n : sum[i] = IF i = 0 THEN 0 ELSE sum[i - 1] + queue[i].size

\* The last entry of that table.
Total(queue) == (CHOOSE g : IsSum(g, queue))[Len(queue)]

\* Every queue has a table of partial sums.
LEMMA SumExists ==
  ASSUME NEW S, Measured(S), NEW queue \in Seq(S)
  PROVE  \E sum \in [0 .. Len(queue) -> Nat] : IsSum(sum, queue)
  <1> DEFINE Has(n) == \E sum \in [0 .. n -> Nat] : SumUpTo(n, sum, queue)
             has == {n \in 0 .. Len(queue) : Has(n)}
  <1>1. Has(0)
    <2> DEFINE zero == [i \in 0 .. 0 |-> 0]
    <2>1. zero \in [0 .. 0 -> Nat] /\ SumUpTo(0, zero, queue)
      BY DEF SumUpTo
    <2> HIDE DEF zero
    <2>2. QED
      BY <2>1
  <1>2. ASSUME NEW n \in 0 .. Len(queue), n # 0, Has(n - 1)
        PROVE  Has(n)
    <2>1. PICK sum \in [0 .. (n - 1) -> Nat] : SumUpTo(n - 1, sum, queue)
      BY <1>2
    <2>2. queue[n] \in S
      BY <1>2
    <2>3. queue[n].size \in Nat
      BY <2>2 DEF Measured
    <2> DEFINE longer == [i \in 0 .. n |-> IF i = n
                                           THEN sum[n - 1] + queue[n].size
                                           ELSE sum[i]]
    <2>4. longer \in [0 .. n -> Nat]
      BY <1>2, <2>3
    <2>5. SumUpTo(n, longer, queue)
      BY <1>2, <2>1 DEF SumUpTo
    <2> HIDE DEF longer
    <2>6. QED
      BY <2>4, <2>5
  <1>3. 0 \in has /\ \A n \in 0 .. Len(queue) : n # 0 /\ n - 1 \in has
                                                   => n \in has
    <2> HIDE DEF Has
    <2>1. QED
      BY <1>1, <1>2
  <1>4. Len(queue) \in has
    <2> HIDE DEF has
    <2>1. Len(queue) \in 0 .. Len(queue) /\ Len(queue) \in Nat
      OBVIOUS
    <2>2. QED
      BY <1>3, <2>1, UpTo
  <1>5. PICK sum \in [0 .. Len(queue) -> Nat] : SumUpTo(Len(queue), sum, queue)
    BY <1>4
  <1>6. IsSum(sum, queue)
    BY <1>5 DEF IsSum, SumUpTo
  <1>7. QED
    BY <1>6

\* and only one, so it is the one that Total takes the last entry of.
LEMMA SumIsTotal ==
  ASSUME NEW S, Measured(S), NEW queue \in Seq(S),
         NEW sum, IsSum(sum, queue)
  PROVE  Total(queue) = sum[Len(queue)]
  <1> DEFINE table == CHOOSE g : IsSum(g, queue)
             agree == {i \in 0 .. Len(queue) : table[i] = sum[i]}
  <1>1. Total(queue) = table[Len(queue)]
    BY DEF Total
  <1>2. IsSum(table, queue)
    OBVIOUS
  <1> HIDE DEF table
  <1>3. 0 \in agree
    BY <1>2 DEF IsSum
  <1>4. ASSUME NEW i \in 0 .. Len(queue), i # 0, i - 1 \in agree
        PROVE  i \in agree
    BY <1>2, <1>4, SMTT(60) DEF IsSum
  <1>5. Len(queue) \in agree
    <2> HIDE DEF agree
    <2>1. Len(queue) \in 0 .. Len(queue) /\ Len(queue) \in Nat
      OBVIOUS
    <2>2. QED
      BY <1>3, <1>4, <2>1, UpTo
  <1>6. QED
    BY <1>1, <1>5

\* Nothing is in an empty queue.
LEMMA TotalOfEmpty == Total(<<>>) = 0
  <1>1. <<>> \in Seq({}) /\ Len(<<>>) = 0 /\ Measured({})
    BY DEF Measured
  <1>2. PICK sum : IsSum(sum, <<>>)
    BY <1>1, SumExists
  <1>3. Total(<<>>) = sum[0]
    BY <1>1, <1>2, SumIsTotal
  <1>4. QED
    BY <1>1, <1>2, <1>3 DEF IsSum

\* An element adds its size.
LEMMA TotalOfAppend ==
  ASSUME NEW S, Measured(S), NEW queue \in Seq(S), NEW w \in S
  PROVE  Total(Append(queue, w)) = Total(queue) + w.size
  <1>1. PICK sum : IsSum(sum, Append(queue, w))
    BY SumExists
  <1> DEFINE shorter == [i \in 0 .. Len(queue) |-> sum[i]]
  <1>2. IsSum(shorter, queue)
    BY <1>1 DEF IsSum
  <1>3. sum[Len(queue) + 1] = sum[Len(queue)] + w.size
    BY <1>1 DEF IsSum
  <1>4. QED
    BY <1>1, <1>2, <1>3, SumIsTotal

\* The front takes its size away, which is never too much.
LEMMA TotalOfTail ==
  ASSUME NEW S, Measured(S), NEW queue \in Seq(S), queue # <<>>
  PROVE  /\ Total(queue) \in Nat
         /\ Total(Tail(queue)) \in Nat
         /\ Total(Tail(queue)) = Total(queue) - Head(queue).size
  <1>0. Tail(queue) \in Seq(S) /\ Head(queue).size \in Nat
    <2>1. Tail(queue) \in Seq(S) /\ Head(queue) \in S
      OBVIOUS
    <2>2. QED
      BY <2>1 DEF Measured
  <1>1. PICK sum \in [0 .. Len(Tail(queue)) -> Nat] : IsSum(sum, Tail(queue))
    BY <1>0, SumExists
  <1> DEFINE longer == [i \in 0 .. Len(queue) |->
                          IF i = 0 THEN 0 ELSE Head(queue).size + sum[i - 1]]
  <1>2. IsSum(longer, queue)
    <2>1. ASSUME NEW i \in 0 .. Len(queue), i # 0
          PROVE  longer[i] = longer[i - 1] + queue[i].size
      <3>1. CASE i = 1
        BY <1>0, <1>1, <3>1 DEF IsSum
      <3>2. CASE i # 1
        <4>1. i - 1 \in 0 .. Len(Tail(queue)) /\ i - 1 # 0
          BY <2>1, <3>2
        <4>2. sum[i - 1] = sum[i - 2] + Tail(queue)[i - 1].size
          BY <1>1, <4>1 DEF IsSum
        <4>3. Tail(queue)[i - 1] = queue[i] /\ queue[i] \in S
          BY <4>1
        <4>4. queue[i].size \in Nat
          BY <4>3 DEF Measured
        <4>5. sum[i - 1] \in Nat /\ sum[i - 2] \in Nat
          BY <4>1
        <4>6. /\ longer[i] = Head(queue).size + sum[i - 1]
              /\ longer[i - 1] = Head(queue).size + sum[i - 2]
          BY <2>1, <4>1
        <4>7. sum[i - 1] = sum[i - 2] + queue[i].size
          BY <4>2, <4>3
        <4>8. \A a, b, c \in Nat : a + (b + c) = (a + b) + c
          OBVIOUS
        <4> HIDE DEF longer
        <4>9. QED
          BY <1>0, <4>4, <4>5, <4>6, <4>7, <4>8, SMTT(60)
      <3>3. QED
        BY <3>1, <3>2
    <2>2. QED
      BY <2>1 DEF IsSum
  <1>3. QED
    BY <1>0, <1>1, <1>2, SumIsTotal

-------------------------------------------------------------------------------
(***************************************************************************)
(* Concatenations, by position.                                            *)
(***************************************************************************)

\* Short sequences.
LEMMA Tuples ==
  ASSUME NEW S
  PROVE  /\ <<>> \in Seq(S)
         /\ \A a \in S : <<a>> \in Seq(S)
         /\ \A a, b \in S : <<a, b>> \in Seq(S)
         /\ \A a, b, c \in S : <<a, b, c>> \in Seq(S)
  OBVIOUS

\* A sequence made of two, by position.
LEMMA Concats ==
  ASSUME NEW S, NEW s \in Seq(S), NEW t \in Seq(S)
  PROVE  /\ s \o t \in Seq(S) /\ Len(s \o t) = Len(s) + Len(t)
         /\ Len(s) \in Nat /\ Len(t) \in Nat
         /\ \A j \in 1 .. Len(s) : (s \o t)[j] = s[j]
         /\ \A j \in 1 .. Len(t) : (s \o t)[Len(s) + j] = t[j]
  <1>1. \A j \in 1 .. Len(t) : (s \o t)[Len(s) + j] = t[j]
    <2> SUFFICES ASSUME NEW j \in 1 .. Len(t)
                 PROVE  (s \o t)[Len(s) + j] = t[j]
      OBVIOUS
    <2>1. Len(s) + j \in 1 .. Len(s) + Len(t) /\ Len(s) + j > Len(s)
          /\ (Len(s) + j) - Len(s) = j
      OBVIOUS
    <2>2. QED
      BY <2>1, ConcatProperties
  <1>2. QED
    BY <1>1, ConcatProperties

\* Tuples of at most one element, concatenated.
LEMMA Joined ==
  ASSUME NEW a, NEW b
  PROVE  /\ <<>> \o <<a>> = <<a>> /\ <<a>> \o <<>> = <<a>>
         /\ <<>> \o <<>> = <<>> /\ <<a>> \o <<b>> = <<a, b>>
  <1> DEFINE S == {a, b}
  <1>1. <<a>> \in Seq(S) /\ <<b>> \in Seq(S) /\ <<a, b>> \in Seq(S)
    OBVIOUS
  <1>2. /\ Len(<<a>>) = 1 /\ Len(<<b>>) = 1 /\ Len(<<a, b>>) = 2
        /\ <<a>>[1] = a /\ <<b>>[1] = b /\ <<a, b>>[1] = a /\ <<a, b>>[2] = b
    OBVIOUS
  <1>3. <<a>> \o <<b>> = <<a, b>>
    <2> DEFINE x == <<a>>
               y == <<b>>
               z == <<a, b>>
    <2> HIDE DEF S, x, y, z
    <2>1. /\ x \o y \in Seq(S) /\ Len(x \o y) = 2
          /\ (x \o y)[1] = x[1] /\ (x \o y)[2] = y[1]
      BY <1>1, <1>2, ConcatProperties DEF x, y
    <2>2. \A i \in 1 .. 2 : i = 1 \/ i = 2
      OBVIOUS
    <2>3. \A i \in 1 .. Len(z) : (x \o y)[i] = z[i]
      BY <1>2, <2>1, <2>2 DEF x, y, z
    <2>4. z \in Seq(S) /\ Len(z) = Len(x \o y)
      BY <1>1, <1>2, <2>1 DEF z
    <2>5. x \o y = z
      BY <2>1, <2>3, <2>4, SeqEqual
    <2>6. QED
      BY <2>5 DEF x, y, z
  <1>4. QED
    BY <1>1, <1>3

\* A sequence of four.
LEMMA JoinedLong ==
  ASSUME NEW a, NEW b, NEW c, NEW d
  PROVE  <<a>> \o <<b, c, d>> = <<a, b, c, d>>
  <1> DEFINE base == {a, b, c, d}
             one == <<a>>
             rest == <<b, c, d>>
             all == <<a, b, c, d>>
  <1>1. /\ one \in Seq(base) /\ rest \in Seq(base) /\ all \in Seq(base)
        /\ Len(one) = 1
        /\ Len(rest) = 3 /\ Len(all) = 4 /\ one[1] = all[1] /\ rest[1] = all[2]
        /\ rest[2] = all[3] /\ rest[3] = all[4]
    OBVIOUS
  <1> HIDE DEF base, one, rest, all
  <1>a. /\ one \o rest \in Seq(base) /\ Len(one \o rest) = Len(one) + Len(rest)
        /\ \A j \in 1 .. Len(one) : (one \o rest)[j] = one[j]
        /\ \A j \in 1 .. Len(rest) : (one \o rest)[Len(one) + j] = rest[j]
    <2>1. one \in Seq(base) /\ rest \in Seq(base)
      BY <1>1
    <2>2. QED
      BY ONLY <2>1, Concats
  <1>2. /\ one \o rest \in Seq(base) /\ Len(one \o rest) = 4
        /\ (one \o rest)[1] = all[1]
    BY <1>1, <1>a
  <1>3. \A j \in 1 .. 3 : (one \o rest)[1 + j] = rest[j]
    BY <1>1, <1>a
  <1>4. ASSUME NEW i \in 1 .. 4 PROVE (one \o rest)[i] = all[i]
    <2>1. i = 1 \/ i = 1 + 1 \/ i = 1 + 2 \/ i = 1 + 3
      OBVIOUS
    <2>2. QED
      BY <1>1, <1>2, <1>3, <2>1, SMTT(60)
  <1>5. one \o rest = all
    BY <1>1, <1>2, <1>4, SeqEqual
  <1>6. QED
    BY <1>5 DEF one, rest, all

\* A pair and one more.
LEMMA JoinedPair ==
  ASSUME NEW a, NEW b, NEW c
  PROVE  <<a, b>> \o <<c>> = <<a, b, c>>
  <1> DEFINE base == {a, b, c}
             pair == <<a, b>>
             one == <<c>>
             all == <<a, b, c>>
  <1>1. /\ pair \in Seq(base) /\ one \in Seq(base) /\ all \in Seq(base)
        /\ Len(pair) = 2 /\ Len(one) = 1 /\ Len(all) = 3
        /\ pair[1] = all[1] /\ pair[2] = all[2] /\ one[1] = all[3]
    OBVIOUS
  <1> HIDE DEF base, pair, one, all
  <1>2. /\ pair \o one \in Seq(base) /\ Len(pair \o one) = Len(pair) + Len(one)
        /\ \A j \in 1 .. Len(pair) : (pair \o one)[j] = pair[j]
        /\ \A j \in 1 .. Len(one) : (pair \o one)[Len(pair) + j] = one[j]
    <2>1. pair \in Seq(base) /\ one \in Seq(base)
      BY <1>1
    <2>2. QED
      BY ONLY <2>1, Concats
  <1>3. ASSUME NEW i \in 1 .. 3 PROVE (pair \o one)[i] = all[i]
    <2>1. i = 1 \/ i = 2 \/ i = 2 + 1
      OBVIOUS
    <2>2. QED
      BY <1>1, <1>2, <2>1
  <1>4. pair \o one = all
    BY <1>1, <1>2, <1>3, SeqEqual
  <1>5. QED
    BY <1>4 DEF pair, one, all

\* Every frame of s with an operation of E has one of c behind it.
Trailed(s, E, c) ==
  \A i \in 1 .. Len(s) : s[i].op \in E => i < Len(s) /\ s[i + 1].op = c

\* Frames pushed on such a stack, each followed as it should be.
LEMMA TrailedJoin ==
  ASSUME NEW F, NEW E, NEW c, NEW s \in Seq(F), NEW t \in Seq(F),
         Trailed(t, E, c),
         \A i \in 1 .. Len(s) :
           s[i].op \in E =>
             \/ i < Len(s) /\ s[i + 1].op = c
             \/ i = Len(s) /\ t # <<>> /\ Head(t).op = c
  PROVE  Trailed(s \o t, E, c)
  <1> DEFINE n == Len(s)
             both == s \o t
  <1>1. /\ n \in Nat /\ Len(t) \in Nat /\ Len(both) = n + Len(t)
        /\ \A j \in 1 .. n : both[j] = s[j]
        /\ \A j \in 1 .. Len(t) : both[n + j] = t[j]
    BY Concats
  <1>2. t # <<>> => Head(t) = t[1] /\ Len(t) > 0
    OBVIOUS
  <1> HIDE DEF both, n
  <1> SUFFICES ASSUME NEW i \in 1 .. Len(both), both[i].op \in E
               PROVE  i < Len(both) /\ both[i + 1].op = c
    BY DEF Trailed, both
  <1>3. CASE i \in 1 .. n
    <2>1. both[i] = s[i]
      BY <1>1, <1>3
    <2>2. CASE i < n /\ s[i + 1].op = c
      <3>1. i + 1 \in 1 .. n /\ i < Len(both)
        BY <1>1, <1>3, <2>2
      <3>2. QED
        BY <1>1, <2>2, <3>1
    <2>3. CASE i = n /\ t # <<>> /\ Head(t).op = c
      <3>1. 1 \in 1 .. Len(t) /\ i < Len(both)
        BY <1>1, <1>2, <2>3
      <3>2. both[n + 1] = t[1]
        BY <1>1, <3>1
      <3>3. QED
        BY <1>2, <2>3, <3>1, <3>2
    <2>4. QED
      BY <1>3, <2>1, <2>2, <2>3 DEF n
  <1>4. CASE i \notin 1 .. n
    <2> DEFINE j == i - n
    <2>1. j \in 1 .. Len(t) /\ i = n + j
      BY <1>1, <1>4
    <2>2. t[j].op \in E
      BY <1>1, <2>1
    <2>3. j < Len(t) /\ t[j + 1].op = c
      BY <2>1, <2>2 DEF Trailed
    <2>4. j + 1 \in 1 .. Len(t) /\ i + 1 = n + (j + 1) /\ i < Len(both)
      BY <1>1, <2>1, <2>3
    <2> HIDE DEF j
    <2>5. both[n + (j + 1)] = t[j + 1]
      BY <1>1, <2>4
    <2>6. QED
      BY <2>3, <2>4, <2>5
  <1>5. QED
    BY <1>3, <1>4

\* The first frame leaves such a stack.
LEMMA TrailedTail ==
  ASSUME NEW F, NEW E, NEW c, NEW t \in Seq(F), t # <<>>, Trailed(t, E, c)
  PROVE  /\ Tail(t) \in Seq(F) /\ Trailed(Tail(t), E, c)
         /\ Head(t).op \in E => Tail(t) # <<>> /\ Head(Tail(t)).op = c
  <1>1. /\ Len(t) \in Nat /\ Len(t) > 0 /\ Head(t) = t[1]
        /\ Tail(t) \in Seq(F) /\ Len(Tail(t)) = Len(t) - 1
        /\ \A j \in 1 .. Len(t) - 1 : Tail(t)[j] = t[j + 1]
    OBVIOUS
  <1> DEFINE rest == Tail(t)
  <1>2. rest # <<>> => Head(rest) = rest[1]
    BY <1>1
  <1> HIDE DEF rest
  <1>3. Trailed(rest, E, c)
    <2> SUFFICES ASSUME NEW i \in 1 .. Len(rest), rest[i].op \in E
                 PROVE  i < Len(rest) /\ rest[i + 1].op = c
      BY DEF Trailed
    <2>1. i + 1 \in 1 .. Len(t) /\ rest[i] = t[i + 1]
      BY <1>1 DEF rest
    <2>2. i + 1 < Len(t) /\ t[(i + 1) + 1].op = c
      BY <2>1 DEF Trailed
    <2>3. i < Len(rest) /\ rest[i + 1] = t[(i + 1) + 1]
      BY <1>1, <2>1, <2>2 DEF rest
    <2>4. QED
      BY <2>2, <2>3
  <1>4. ASSUME Head(t).op \in E
        PROVE  rest # <<>> /\ Head(rest).op = c
    <2>1. 1 < Len(t) /\ t[1 + 1].op = c
      BY <1>1, <1>4 DEF Trailed
    <2>2. rest # <<>> /\ rest[1] = t[1 + 1]
      <3>1. 1 \in 1 .. Len(t) - 1 /\ Len(rest) # 0
        BY <1>1, <2>1 DEF rest
      <3>2. rest[1] = t[1 + 1]
        BY <1>1, <3>1 DEF rest
      <3>3. rest # <<>>
        BY <3>1
      <3>4. QED
        BY <3>2, <3>3
    <2>3. QED
      BY <1>2, <2>1, <2>2
  <1>5. QED
    BY <1>1, <1>3, <1>4 DEF rest

\* Appending is concatenation with a single element.
LEMMA AppendIs ==
  ASSUME NEW S, NEW s \in Seq(S), NEW e \in S
  PROVE  /\ Append(s, e) = s \o <<e>> /\ <<e>> \in Seq(S)
         /\ Append(s, e) \in Seq(S)
  OBVIOUS

\* The responses in a queue of payloads that count.
Full(queue) == {i \in 1 .. Len(queue) : queue[i].part = "full"}

\* The responses in a queue are finitely many.
LEMMA FullFinite ==
  ASSUME NEW W, NEW queue \in Seq(W)
  PROVE  IsFiniteSet(Full(queue)) /\ Cardinality(Full(queue)) \in Nat
  <1>1. Len(queue) \in Nat /\ IsFiniteSet(1 .. Len(queue))
    BY FS_Interval
  <1>2. Full(queue) \in SUBSET (1 .. Len(queue))
    BY DEF Full
  <1>3. QED
    BY <1>1, <1>2, FS_Subset, FS_CardinalityType

\* One more payload, which counts if it is a full response.
LEMMA FullAppend ==
  ASSUME NEW W, NEW queue \in Seq(W), NEW w \in W
  PROVE  Cardinality(Full(Append(queue, w)))
           = Cardinality(Full(queue)) + (IF w.part = "full" THEN 1 ELSE 0)
  <1>1. /\ Len(queue) \in Nat /\ Len(Append(queue, w)) = Len(queue) + 1
        /\ \A i \in 1 .. Len(queue) : Append(queue, w)[i] = queue[i]
        /\ Append(queue, w)[Len(queue) + 1] = w
    OBVIOUS
  <1>2. Full(Append(queue, w))
          = Full(queue) \cup (IF w.part = "full" THEN {Len(queue) + 1} ELSE {})
    BY <1>1 DEF Full
  <1>3. Len(queue) + 1 \notin Full(queue)
    BY <1>1 DEF Full
  <1>4. CASE w.part = "full"
    <2>1. Full(Append(queue, w)) = Full(queue) \cup {Len(queue) + 1}
      BY <1>2, <1>4
    <2>2. QED
      BY <1>3, <1>4, <2>1, FullFinite, FS_AddElement
  <1>5. CASE w.part # "full"
    <2>1. Full(Append(queue, w)) = Full(queue)
      BY <1>2, <1>5
    <2>2. QED
      BY <1>5, <2>1, FullFinite
  <1>6. QED
    BY <1>4, <1>5

\* Parts of streamed responses do not count.
LEMMA FullMore ==
  ASSUME NEW W, NEW queue \in Seq(W), NEW more \in Seq(W),
         \A i \in 1 .. Len(more) : more[i].part # "full"
  PROVE  Full(queue \o more) = Full(queue)
  <1>1. /\ Len(queue) \in Nat /\ Len(more) \in Nat
        /\ Len(queue \o more) = Len(queue) + Len(more)
        /\ \A i \in 1 .. Len(queue) : (queue \o more)[i] = queue[i]
        /\ \A i \in 1 .. Len(queue) + Len(more) :
             i > Len(queue) => /\ (queue \o more)[i] = more[i - Len(queue)]
                               /\ i - Len(queue) \in 1 .. Len(more)
    OBVIOUS
  <1>2. \A i : i \in Full(queue \o more) <=> i \in Full(queue)
    BY <1>1 DEF Full
  <1>3. QED
    BY <1>2

\* The first payload is gone.
LEMMA FullTail ==
  ASSUME NEW W, NEW queue \in Seq(W), queue # <<>>
  PROVE  /\ Cardinality(Full(Tail(queue)))
              = Cardinality(Full(queue))
                  - (IF Head(queue).part = "full" THEN 1 ELSE 0)
         /\ Tail(queue) \in Seq(W) /\ Head(queue) \in W
  <1> DEFINE rest == Full(queue) \ {1}
             back == [i \in rest |-> i - 1]
  <1>1. /\ Tail(queue) \in Seq(W) /\ Head(queue) \in W
        /\ Len(queue) \in Nat /\ Len(queue) # 0
        /\ Len(Tail(queue)) = Len(queue) - 1 /\ Head(queue) = queue[1]
        /\ \A i \in 1 .. Len(queue) - 1 : Tail(queue)[i] = queue[i + 1]
    OBVIOUS
  <1>2. back \in [rest -> Full(Tail(queue))]
    BY <1>1 DEF Full
  <1>3. \A i, j \in rest : back[i] = back[j] => i = j
    BY <1>1 DEF Full
  <1>4. \A k \in Full(Tail(queue)) : k + 1 \in rest /\ back[k + 1] = k
    BY <1>1 DEF Full
  <1>5. ExistsBijection(rest, Full(Tail(queue)))
    <2> HIDE DEF back
    <2>1. back \in Bijection(rest, Full(Tail(queue)))
      BY <1>2, <1>3, <1>4 DEF Bijection, Injection, Surjection, IsInjective
    <2>2. QED
      BY <2>1 DEF ExistsBijection
  <1>6. /\ IsFiniteSet(rest)
        /\ Cardinality(rest) = Cardinality(Full(queue))
             - (IF Head(queue).part = "full" THEN 1 ELSE 0)
    <2>1. 1 \in Full(queue) <=> Head(queue).part = "full"
      BY <1>1 DEF Full
    <2>2. Cardinality(Full(queue)) \in Nat
      BY FullFinite
    <2>3. QED
      BY <2>1, <2>2, FullFinite, FS_RemoveElement
  <1>7. QED
    <2> HIDE DEF rest
    <2>1. QED
      BY <1>1, <1>5, <1>6, FS_Bijection

===============================================================================
