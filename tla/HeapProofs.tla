------------------------------ MODULE HeapProofs ------------------------------
(***************************************************************************)
(* The ORAM and DDR heaps of the AIP memory manager and the buffer pool of *)
(* IAIC, for memories of every size, any number of blocks and any calls in *)
(* any order.                                                              *)
(***************************************************************************)
EXTENDS BlockHeap, OramHeap, DdrHeap, IaicBoPool, ListProofs

-----------------------------------------------------------------------------
(* Lists of which a part is replaced.                                      *)

\* r is the list with the c others in the place of i..j.
IsReplaced(list, i, j, c, others, r) ==
  /\ Len(r) \in Nat /\ Len(r) = Len(list) - (j - i + 1) + c
  /\ \A k \in 1..i - 1 : r[k] = list[k]
  /\ \A k \in 1..c : r[i - 1 + k] = others[k]
  /\ \A k \in i + c..Len(r) : /\ k + (j - i + 1) - c \in j + 1..Len(list)
                              /\ r[k] = list[k + (j - i + 1) - c]

LEMMA ReplacedList ==
  ASSUME NEW S, NEW list \in Seq(S), NEW i \in 1..Len(list), NEW j \in i..Len(list),
         NEW others \in Seq(S), NEW c, c = Len(others),
         NEW r, r = Replaced(list, i, j, others)
  PROVE  r \in Seq(S) /\ IsReplaced(list, i, j, c, others, r)
  <1> DEFINE a == SubSeq(list, 1, i - 1)
             b == SubSeq(list, j + 1, Len(list))
  <1>1. Len(list) \in Nat /\ i \in Nat /\ j \in Nat /\ c \in Nat /\ 1 <= i /\ i <= j /\ j <= Len(list)
    BY LenProperties
  <1>2. a \in Seq(S) /\ Len(a) = i - 1 /\ \A k \in 1..i - 1 : a[k] = list[k]
    <2>1. \A k \in 1..i - 1 : list[k] \in S
      BY <1>1, ElementOfSeq
    <2>2. /\ a \in Seq(S) /\ Len(a) = IF 1 <= i - 1 THEN i - 1 - 1 + 1 ELSE 0
          /\ \A k \in 1..i - 1 - 1 + 1 : a[k] = list[1 + k - 1]
      BY <1>1, <2>1, SubSeqProperties
    <2>3. Len(a) = i - 1 /\ 1..i - 1 - 1 + 1 = 1..i - 1
      BY <1>1, <2>2
    <2>4. \A k \in 1..i - 1 : 1 + k - 1 = k
      BY <1>1
    <2> QED
      BY <2>2, <2>3, <2>4
  <1>3. b \in Seq(S) /\ Len(b) = Len(list) - j /\ \A k \in 1..Len(list) - j : b[k] = list[j + k]
    <2>1. \A k \in j + 1..Len(list) : list[k] \in S
      BY <1>1, ElementOfSeq
    <2>2. /\ b \in Seq(S) /\ Len(b) = IF j + 1 <= Len(list) THEN Len(list) - (j + 1) + 1 ELSE 0
          /\ \A k \in 1..Len(list) - (j + 1) + 1 : b[k] = list[j + 1 + k - 1]
      BY <1>1, <2>1, SubSeqProperties
    <2>3. Len(b) = Len(list) - j /\ 1..Len(list) - (j + 1) + 1 = 1..Len(list) - j
      BY <1>1, <2>2
    <2>4. \A k \in 1..Len(list) - j : j + 1 + k - 1 = j + k
      BY <1>1
    <2> QED
      BY <2>2, <2>3, <2>4
  <1>4. r = (a \o others) \o b
    BY DEF Replaced
  <1> HIDE DEF a, b
  <1>5. /\ a \o others \in Seq(S) /\ Len(a \o others) = i - 1 + c
        /\ \A k \in 1..i - 1 + c : (a \o others)[k] = IF k <= i - 1 THEN a[k] ELSE others[k - (i - 1)]
    BY <1>2, ConcatProperties
  <1>6. /\ r \in Seq(S) /\ Len(r) = (i - 1 + c) + (Len(list) - j)
        /\ \A k \in 1..(i - 1 + c) + (Len(list) - j) :
             r[k] = IF k <= i - 1 + c THEN (a \o others)[k] ELSE b[k - (i - 1 + c)]
    <2>1. PICK ab : ab = a \o others
      OBVIOUS
    <2>2. ab \in Seq(S) /\ Len(ab) = i - 1 + c
      BY <1>5, <2>1
    <2>3. /\ ab \o b \in Seq(S) /\ Len(ab \o b) = Len(ab) + Len(b)
          /\ \A k \in 1..Len(ab) + Len(b) : (ab \o b)[k] = IF k <= Len(ab) THEN ab[k] ELSE b[k - Len(ab)]
      <3>1. ab \in Seq(S) /\ b \in Seq(S)
        BY <1>3, <2>2
      <3> QED
        BY <3>1, ConcatProperties
    <2>4. r = ab \o b
      BY <1>4, <2>1
    <2> QED
      BY <1>3, <2>1, <2>2, <2>3, <2>4
  <1>7. Len(r) \in Nat /\ Len(r) = Len(list) - (j - i + 1) + c
    BY <1>1, <1>6
  <1>8. ASSUME NEW k \in 1..i - 1 PROVE r[k] = list[k]
    <2>1. k \in 1..i - 1 + c /\ k <= i - 1
      BY <1>1
    <2>2. k \in 1..(i - 1 + c) + (Len(list) - j) /\ k <= i - 1 + c
      BY <1>1
    <2>3. r[k] = (a \o others)[k]
      BY <1>6, <2>2
    <2>4. (a \o others)[k] = a[k]
      BY <1>5, <2>1
    <2> QED
      BY <1>2, <2>3, <2>4
  <1>9. ASSUME NEW k \in 1..c PROVE r[i - 1 + k] = others[k]
    <2>1. PICK q : q = i - 1 + k
      OBVIOUS
    <2>2. q \in 1..i - 1 + c /\ ~(q <= i - 1) /\ q - (i - 1) = k
      BY <1>1, <2>1
    <2>3. q \in 1..(i - 1 + c) + (Len(list) - j) /\ q <= i - 1 + c
      BY <1>1, <2>1
    <2>4. r[q] = (a \o others)[q]
      BY <1>6, <2>3
    <2>5. (a \o others)[q] = others[q - (i - 1)]
      BY <1>5, <2>2
    <2> QED
      BY <2>1, <2>2, <2>4, <2>5
  <1>10. ASSUME NEW k \in i + c..Len(r)
         PROVE  /\ k + (j - i + 1) - c \in j + 1..Len(list)
                /\ r[k] = list[k + (j - i + 1) - c]
    <2>1. k \in 1..(i - 1 + c) + (Len(list) - j) /\ ~(k <= i - 1 + c)
      BY <1>1, <1>6, SMTT(30)
    <2>2. r[k] = b[k - (i - 1 + c)]
      BY <1>6, <2>1
    <2>3. /\ k - (i - 1 + c) \in 1..Len(list) - j /\ j + (k - (i - 1 + c)) = k + (j - i + 1) - c
          /\ k + (j - i + 1) - c \in j + 1..Len(list)
      BY <1>1, <1>6
    <2> QED
      BY <1>3, <2>2, <2>3
  <1> QED
    BY <1>6, <1>7, <1>8, <1>9, <1>10 DEF IsReplaced

\* Where the elements come from, and the pairs of neighbours.
ElementFrom(list, i, j, c, others, r, k) ==
  \/ \E q \in 1..Len(list) : (q < i \/ j < q) /\ r[k] = list[q]
  \/ \E x \in 1..c : k = i - 1 + x /\ r[k] = others[x]

LEMMA ReplacedElement ==
  ASSUME NEW list, Len(list) \in Nat, NEW i \in 1..Len(list), NEW j \in i..Len(list), NEW c \in {1, 2},
         NEW others, NEW r, IsReplaced(list, i, j, c, others, r), NEW k \in 1..Len(r)
  PROVE  ElementFrom(list, i, j, c, others, r, k)
  <1> USE DEF ElementFrom
  <1>1. i \in Nat /\ j \in Nat /\ c \in Nat /\ 1 <= i /\ i <= j /\ j <= Len(list) /\ Len(r) \in Nat
    BY DEF IsReplaced
  <1>2. CASE k < i
    <2>1. k \in 1..i - 1 /\ k \in 1..Len(list)
      BY <1>1, <1>2
    <2> QED
      BY <1>2, <2>1 DEF IsReplaced
  <1>3. CASE k >= i + c
    <2>1. k \in i + c..Len(r)
      BY <1>1, <1>3
    <2>2. k + (j - i + 1) - c \in j + 1..Len(list) /\ r[k] = list[k + (j - i + 1) - c]
      BY <2>1 DEF IsReplaced
    <2>3. k + (j - i + 1) - c \in 1..Len(list) /\ j < k + (j - i + 1) - c
      BY <1>1, <2>2
    <2> QED
      BY <2>2, <2>3
  <1>4. CASE k >= i /\ k < i + c
    <2>1. k - i + 1 \in 1..c /\ k = i - 1 + (k - i + 1)
      BY <1>1, <1>4
    <2>2. r[i - 1 + (k - i + 1)] = others[k - i + 1]
      BY <2>1 DEF IsReplaced
    <2> QED
      BY <2>1, <2>2
  <1> QED
    BY <1>1, <1>2, <1>3, <1>4

PairFrom(list, i, j, c, others, r, k) ==
  \/ \E q \in 1..Len(list) - 1 : r[k] = list[q] /\ r[k + 1] = list[q + 1]
  \/ i > 1 /\ r[k] = list[i - 1] /\ r[k + 1] = others[1]
  \/ c = 2 /\ r[k] = others[1] /\ r[k + 1] = others[2]
  \/ j < Len(list) /\ r[k] = others[c] /\ r[k + 1] = list[j + 1]

LEMMA ReplacedPair ==
  ASSUME NEW list, Len(list) \in Nat, NEW i \in 1..Len(list), NEW j \in i..Len(list), NEW c \in {1, 2},
         NEW others, NEW r, IsReplaced(list, i, j, c, others, r), NEW k \in 1..Len(r) - 1
  PROVE  PairFrom(list, i, j, c, others, r, k)
  <1> USE DEF PairFrom
  <1>1. /\ i \in Nat /\ j \in Nat /\ c \in Nat /\ 1 <= i /\ i <= j /\ j <= Len(list)
        /\ Len(r) \in Nat /\ Len(r) = Len(list) - (j - i + 1) + c
    BY DEF IsReplaced
  <1>2. CASE k + 1 < i
    <2>1. k \in 1..i - 1 /\ k + 1 \in 1..i - 1 /\ k \in 1..Len(list) - 1
      BY <1>1, <1>2
    <2> QED
      BY <2>1 DEF IsReplaced
  <1>3. CASE k + 1 = i
    <2>1. k \in 1..i - 1 /\ 1 \in 1..c /\ i - 1 + 1 = k + 1 /\ k = i - 1 /\ i > 1
      BY <1>1, <1>3
    <2>2. r[k] = list[i - 1] /\ r[i - 1 + 1] = others[1]
      BY <2>1 DEF IsReplaced
    <2> QED
      BY <2>1, <2>2
  <1>4. CASE k = i /\ c = 2
    <2>1. 1 \in 1..c /\ 2 \in 1..c /\ i - 1 + 1 = k /\ i - 1 + 2 = k + 1
      BY <1>1, <1>4
    <2>2. r[i - 1 + 1] = others[1] /\ r[i - 1 + 2] = others[2]
      BY <2>1 DEF IsReplaced
    <2> QED
      BY <1>4, <2>1, <2>2
  <1>5. CASE k = i + c - 1
    <2>1. c \in 1..c /\ i - 1 + c = k /\ k + 1 \in i + c..Len(r) /\ k + 1 + (j - i + 1) - c = j + 1
      BY <1>1, <1>5
    <2>2. r[i - 1 + c] = others[c] /\ j + 1 \in j + 1..Len(list) /\ r[k + 1] = list[j + 1]
      BY <2>1 DEF IsReplaced
    <2>3. j < Len(list)
      BY <1>1, <2>2
    <2> QED
      BY <2>1, <2>2, <2>3
  <1>6. CASE k >= i + c
    <2>1. PICK q : q = k + (j - i + 1) - c
      OBVIOUS
    <2>2. /\ k \in i + c..Len(r) /\ k + 1 \in i + c..Len(r)
          /\ q + 1 = k + 1 + (j - i + 1) - c /\ q \in 1..Len(list) - 1
      BY <1>1, <1>6, <2>1
    <2>3. r[k] = list[q] /\ r[k + 1] = list[q + 1]
      BY <2>1, <2>2 DEF IsReplaced
    <2> QED
      BY <2>2, <2>3
  <1> QED
    BY <1>1, <1>2, <1>3, <1>4, <1>5, <1>6

\* What is at i..j of the list itself does not matter.
LEMMA ReplacedOf ==
  ASSUME NEW list, Len(list) \in Nat, NEW i \in 1..Len(list), NEW j \in i..Len(list), NEW c,
         NEW others, NEW r, NEW l2, IsReplaced(l2, i, j, c, others, r), Len(l2) = Len(list),
         \A k \in 1..Len(list) : k < i \/ j < k => l2[k] = list[k]
  PROVE  IsReplaced(list, i, j, c, others, r)
  <1>1. \A k \in 1..i - 1 : k \in 1..Len(list) /\ k < i
    OBVIOUS
  <1>2. \A k \in j + 1..Len(list) : k \in 1..Len(list) /\ j < k
    OBVIOUS
  <1>3. \A k \in i + c..Len(r) : /\ k + (j - i + 1) - c \in j + 1..Len(list)
                                /\ r[k] = list[k + (j - i + 1) - c]
    <2> SUFFICES ASSUME NEW k \in i + c..Len(r)
                 PROVE  /\ k + (j - i + 1) - c \in j + 1..Len(list)
                        /\ r[k] = list[k + (j - i + 1) - c]
      OBVIOUS
    <2>1. k + (j - i + 1) - c \in j + 1..Len(list) /\ r[k] = l2[k + (j - i + 1) - c]
      BY DEF IsReplaced
    <2> QED
      BY <1>2, <2>1
  <1> QED
    BY <1>1, <1>3 DEF IsReplaced

\* One element is changed.
LEMMA ReplacedOne ==
  ASSUME NEW S, NEW list \in Seq(S), NEW i \in 1..Len(list), NEW e \in S,
         NEW r, r = [list EXCEPT ![i] = e]
  PROVE  r \in Seq(S) /\ IsReplaced(list, i, i, 1, <<e>>, r)
  <1>1. Len(list) \in Nat /\ DOMAIN list = 1..Len(list) /\ i \in Nat /\ 1 <= i /\ i <= Len(list)
    BY LenProperties
  <1>2. r \in Seq(S) /\ Len(r) = Len(list)
    BY ExceptSeq
  <1>3. \A k \in 1..Len(list) : r[k] = IF k = i THEN e ELSE list[k]
    BY <1>1
  <1>4. i - 1 + 1 = i /\ i - i + 1 = 1 /\ Len(list) - 1 + 1 = Len(list)
    BY <1>1
  <1>5. \A k \in 1..1 : r[i - 1 + k] = <<e>>[k]
    BY <1>3, <1>4
  <1>6. \A k \in i + 1..Len(r) : k + (i - i + 1) - 1 \in i + 1..Len(list) /\ r[k] = list[k + (i - i + 1) - 1]
    BY <1>1, <1>2, <1>3
  <1> QED
    BY <1>1, <1>2, <1>3, <1>4, <1>5, <1>6 DEF IsReplaced

-----------------------------------------------------------------------------
(* Sums: P[k] is the sum of the first k of n numbers w.                    *)

Sums(n, w, P) == P \in [0..n -> Int] /\ P[0] = 0 /\ \A k \in 1..n : P[k] = P[k - 1] + w[k]

SumsBy(n, w, Q) == \A k \in 0..n : Q[k] = IF k = 0 THEN 0 ELSE Q[k - 1] + w[k]

LEMMA SumsUnique ==
  ASSUME NEW n \in Nat, NEW w \in [1..n -> Int], NEW P, NEW Q, Sums(n, w, P), SumsBy(n, w, Q)
  PROVE  \A k \in 0..n : Q[k] = P[k]
  <1> USE DEF SumsBy
  <1> DEFINE Bad == {k \in 0..n : Q[k] # P[k]}
  <1> SUFFICES ASSUME Bad # {} PROVE FALSE
    OBVIOUS
  <1>1. PICK m \in Bad : \A k \in Bad : m <= k
    <2>1. Bad \in SUBSET Nat
      OBVIOUS
    <2> HIDE DEF Bad
    <2> QED
      BY <2>1, LeastElement
  <1>2. m # 0
    BY <1>1 DEF Sums
  <1>3. m \in 1..n /\ m - 1 \in 0..n /\ ~(m <= m - 1)
    BY <1>1, <1>2
  <1>4. Q[m - 1] = P[m - 1]
    BY <1>1, <1>3
  <1> QED
    BY <1>1, <1>2, <1>3, <1>4 DEF Sums

LEMMA SumsExist ==
  ASSUME NEW n \in Nat, NEW w \in [1..n -> Int]
  PROVE  \E P : Sums(n, w, P)
  <1> DEFINE Bad == {m \in 0..n : ~\E P : Sums(m, w, P)}
  <1>0. n \in 0..n
    OBVIOUS
  <1> SUFFICES ASSUME Bad # {} PROVE FALSE
    BY <1>0
  <1>1. PICK m \in Bad : \A k \in Bad : m <= k
    <2>1. Bad \in SUBSET Nat
      OBVIOUS
    <2> HIDE DEF Bad
    <2> QED
      BY <2>1, LeastElement
  <1>2. m # 0
    <2>1. Sums(0, w, [k \in 0..0 |-> 0])
      BY DEF Sums
    <2> QED
      BY <1>1, <2>1
  <1>3. m \in 1..n /\ m - 1 \in 0..n /\ ~(m <= m - 1)
    BY <1>1, <1>2
  <1>4. PICK P : Sums(m - 1, w, P)
    BY <1>1, <1>3
  <1>5. Sums(m, w, [k \in 0..m |-> IF k = m THEN P[m - 1] + w[m] ELSE P[k]])
    <2>1. P[m - 1] \in Int /\ w[m] \in Int /\ m \in Nat
      BY <1>3, <1>4 DEF Sums
    <2> QED
      BY <1>3, <1>4, <2>1, SMTT(30) DEF Sums
  <1> QED
    BY <1>1, <1>5

\* What LengthOf computes.
LEMMA LengthOfIs ==
  ASSUME NEW list, NEW n \in Nat, n = Len(list), NEW w \in [1..n -> Int],
         \A k \in 1..n : w[k] = list[k].length, NEW P, Sums(n, w, P)
  PROVE  LengthOf(list) = P[n]
  <1> DEFINE F(f) == [k \in 0..n |-> IF k = 0 THEN 0 ELSE f[k - 1] + list[k].length]
             sum == CHOOSE f : f = F(f)
  <1>1. P = F(P)
    BY DEF Sums
  <1>2. sum = F(sum)
    BY <1>1
  <1>3. LengthOf(list) = sum[n]
    BY DEF LengthOf
  <1> HIDE DEF sum
  <1>4. \A k \in 0..n : sum[k] = IF k = 0 THEN 0 ELSE sum[k - 1] + w[k]
    <2>1. ASSUME NEW k \in 0..n PROVE sum[k] = IF k = 0 THEN 0 ELSE sum[k - 1] + list[k].length
      BY <1>2
    <2> QED
      BY <2>1
  <1>5. \A k \in 0..n : sum[k] = P[k]
    <2>1. SumsBy(n, w, sum)
      BY <1>4 DEF SumsBy
    <2> QED
      BY <2>1, SumsUnique
  <1>6. n \in 0..n
    OBVIOUS
  <1> QED
    BY <1>3, <1>5, <1>6

-----------------------------------------------------------------------------
(* Tilings: n pieces that begin at at[k] and are ln[k] long, from lo to hi *)
(* without a gap.                                                          *)

Tile(n, at, ln, lo, hi) ==
  /\ n \in Nat \ {0} /\ at \in [1..n -> Int] /\ ln \in [1..n -> Nat] /\ lo \in Int /\ hi \in Int
  /\ at[1] = lo /\ at[n] + ln[n] = hi
  /\ \A k \in 1..n - 1 : at[k + 1] = at[k] + ln[k]

LEMMA TileOrder ==
  ASSUME NEW n, NEW at, NEW ln, NEW lo, NEW hi, Tile(n, at, ln, lo, hi)
  PROVE  /\ \A i, k \in 1..n : i < k => at[i] + ln[i] <= at[k]
         /\ \A i \in 1..n : lo <= at[i] /\ at[i] + ln[i] <= hi
  <1>1. ASSUME NEW i \in 1..n, NEW k \in 1..n, i < k, ~(at[i] + ln[i] <= at[k]) PROVE FALSE
    <2> DEFINE Bad == {j \in 1..n : i < j /\ ~(at[i] + ln[i] <= at[j])}
    <2>1. Bad \in SUBSET Nat /\ k \in Bad
      BY <1>1 DEF Tile
    <2>2. PICK m \in Bad : \A j \in Bad : m <= j
      <3> HIDE DEF Bad
      <3> QED
        BY <2>1, LeastElement
    <2>3. m \in 1..n /\ i < m /\ ~(at[i] + ln[i] <= at[m])
      BY <2>2
    <2>4. m - 1 \in 1..n - 1 /\ (m - 1) + 1 = m /\ m - 1 \in 1..n
      BY <2>3 DEF Tile
    <2>5. at[m] = at[m - 1] + ln[m - 1] /\ at[m - 1] \in Int /\ ln[m - 1] \in Nat /\ at[i] \in Int /\ ln[i] \in Nat
      BY <2>4 DEF Tile
    <2>6. CASE m - 1 = i
      BY <2>3, <2>5, <2>6
    <2>7. CASE m - 1 # i
      <3>1. i < m - 1 /\ ~(m <= m - 1)
        BY <2>3, <2>7
      <3>2. at[i] + ln[i] <= at[m - 1]
        BY <2>2, <2>4, <3>1
      <3> QED
        BY <2>3, <2>5, <3>2
    <2> QED
      BY <2>6, <2>7
  <1>2. ASSUME NEW i \in 1..n PROVE lo <= at[i] /\ at[i] + ln[i] <= hi
    <2>1. 1 \in 1..n /\ n \in 1..n /\ at[1] = lo /\ at[n] + ln[n] = hi
      BY DEF Tile
    <2>2. at[i] \in Int /\ ln[i] \in Nat /\ at[1] \in Int /\ ln[1] \in Nat /\ at[n] \in Int /\ ln[n] \in Nat
      BY <2>1 DEF Tile
    <2>3. i = 1 \/ at[1] + ln[1] <= at[i]
      BY <1>1, <2>1
    <2>4. i = n \/ at[i] + ln[i] <= at[n]
      BY <1>1, <2>1
    <2> QED
      BY <2>1, <2>2, <2>3, <2>4
  <1> QED
    BY <1>1, <1>2

\* One piece or two take the place of the pieces i..j.
TileStep(n, at, ln, i, j, c, m, at2, ln2) ==
  /\ m = n - (j - i + 1) + c /\ at2 \in [1..m -> Int] /\ ln2 \in [1..m -> Nat]
  /\ \A k \in 1..i - 1 : at2[k] = at[k] /\ ln2[k] = ln[k]
  /\ \A k \in i + c..m : /\ at2[k] = at[k + (j - i + 1) - c]
                         /\ ln2[k] = ln[k + (j - i + 1) - c]
  /\ at2[i] = at[i] /\ at2[i + c - 1] + ln2[i + c - 1] = at[j] + ln[j]
  /\ c = 2 => at2[i + 1] = at2[i] + ln2[i]

LEMMA TileReplace ==
  ASSUME NEW n, NEW at, NEW ln, NEW lo, NEW hi, Tile(n, at, ln, lo, hi),
         NEW i \in 1..n, NEW j \in i..n, NEW c \in {1, 2}, NEW m, NEW at2, NEW ln2,
         TileStep(n, at, ln, i, j, c, m, at2, ln2)
  PROVE  Tile(m, at2, ln2, lo, hi)
  <1>a. /\ m = n - (j - i + 1) + c /\ at2 \in [1..m -> Int] /\ ln2 \in [1..m -> Nat]
        /\ at2[i] = at[i] /\ at2[i + c - 1] + ln2[i + c - 1] = at[j] + ln[j]
        /\ c = 2 => at2[i + 1] = at2[i] + ln2[i]
    BY DEF TileStep
  <1>b. \A k \in 1..i - 1 : at2[k] = at[k] /\ ln2[k] = ln[k]
    BY DEF TileStep
  <1>c. \A k \in i + c..m : /\ at2[k] = at[k + (j - i + 1) - c]
                             /\ ln2[k] = ln[k + (j - i + 1) - c]
    BY DEF TileStep
  <1>1. n \in Nat /\ n >= 1 /\ i \in Nat /\ j \in Nat /\ c \in Nat /\ 1 <= i /\ i <= j /\ j <= n /\ 1 <= c
    BY DEF Tile
  <1>2. m \in Nat \ {0} /\ i + c - 1 <= m
    BY <1>a, <1>b, <1>c, <1>1
  <1>3. at2[1] = lo
    <2>1. CASE i = 1
      BY <1>a, <1>b, <1>c, <2>1 DEF Tile
    <2>2. CASE i # 1
      <3>1. 1 \in 1..i - 1
        BY <1>a, <1>b, <1>c, <1>1, <2>2
      <3> QED
        BY <1>a, <1>b, <1>c, <3>1 DEF Tile
    <2> QED
      BY <1>a, <1>b, <1>c, <2>1, <2>2
  <1>4. at2[m] + ln2[m] = hi
    <2>1. CASE j = n
      <3>1. m = i + c - 1
        BY <1>a, <1>b, <1>c, <1>1, <2>1
      <3> QED
        BY <1>a, <1>b, <1>c, <2>1, <3>1 DEF Tile
    <2>2. CASE j # n
      <3>1. m \in i + c..m /\ m + (j - i + 1) - c = n
        BY <1>a, <1>b, <1>c, <1>1, <2>2
      <3> QED
        BY <1>a, <1>b, <1>c, <3>1 DEF Tile
    <2> QED
      BY <1>a, <1>b, <1>c, <2>1, <2>2
  <1>5. ASSUME NEW k \in 1..m - 1 PROVE at2[k + 1] = at2[k] + ln2[k]
    <2>1. CASE k + 1 <= i - 1
      <3>1. k \in 1..i - 1 /\ k + 1 \in 1..i - 1 /\ k \in 1..n - 1
        BY <1>a, <1>b, <1>c, <1>1, <1>2, <2>1
      <3> QED
        BY <1>a, <1>b, <1>c, <3>1 DEF Tile
    <2>2. CASE k + 1 = i
      <3>1. k \in 1..i - 1 /\ k \in 1..n - 1
        BY <1>a, <1>b, <1>c, <1>1, <2>2
      <3> QED
        BY <1>a, <1>b, <1>c, <2>2, <3>1 DEF Tile
    <2>3. CASE k = i /\ c = 2
      BY <1>a, <1>b, <1>c, <2>3
    <2>4. CASE k = i + c - 1
      <3>1. k + 1 \in i + c..m /\ k + 1 + (j - i + 1) - c = j + 1 /\ j \in 1..n - 1
        BY <1>a, <1>b, <1>c, <1>1, <1>2, <2>4
      <3>2. at2[k + 1] = at[j + 1]
        BY <1>a, <1>b, <1>c, <3>1
      <3>3. at[j + 1] = at[j] + ln[j]
        BY <1>a, <1>b, <1>c, <3>1 DEF Tile
      <3> QED
        BY <1>a, <1>b, <1>c, <2>4, <3>2, <3>3
    <2>5. CASE k >= i + c
      <3>1. k \in i + c..m /\ k + 1 \in i + c..m
        BY <1>a, <1>b, <1>c, <1>1, <1>2, <2>5
      <3>2. PICK q : q = k + (j - i + 1) - c
        OBVIOUS
      <3>3. q \in 1..n - 1 /\ q + 1 = k + 1 + (j - i + 1) - c
        BY <1>a, <1>b, <1>c, <1>1, <1>2, <3>1, <3>2
      <3>4. at2[k] = at[q] /\ ln2[k] = ln[q] /\ at2[k + 1] = at[q + 1]
        BY <1>a, <1>b, <1>c, <3>1, <3>2, <3>3
      <3> QED
        BY <1>a, <1>b, <1>c, <3>3, <3>4 DEF Tile
    <2> QED
      BY <1>1, <2>1, <2>2, <2>3, <2>4, <2>5
  <1> QED
    BY <1>a, <1>b, <1>c, <1>2, <1>3, <1>4, <1>5 DEF Tile

\* Pieces i..j together are as long as from the first to the last byte.
RunOf(ln, i, j) == [k \in 1..j - i + 1 |-> ln[i + k - 1]]

LEMMA TileRun ==
  ASSUME NEW n, NEW at, NEW ln, NEW lo, NEW hi, Tile(n, at, ln, lo, hi),
         NEW i \in 1..n, NEW j \in i..n, NEW w, w = RunOf(ln, i, j)
  PROVE  \E P : Sums(j - i + 1, w, P) /\ P[j - i + 1] = at[j] + ln[j] - at[i]
  <1> DEFINE P == [k \in 0..j - i + 1 |-> IF k = 0 THEN 0 ELSE at[i + k - 1] + ln[i + k - 1] - at[i]]
  <1>1. n \in Nat /\ i \in Nat /\ j \in Nat /\ 1 <= i /\ i <= j /\ j <= n /\ at[i] \in Int
    BY DEF Tile
  <1>2. \A k \in 1..j - i + 1 : i + k - 1 \in 1..n /\ at[i + k - 1] \in Int /\ ln[i + k - 1] \in Nat
    <2>1. \A k \in 1..j - i + 1 : i + k - 1 \in 1..n
      BY <1>1
    <2> QED
      BY <2>1 DEF Tile
  <1>3. P \in [0..j - i + 1 -> Int] /\ P[0] = 0
    <2>1. ASSUME NEW k \in 0..j - i + 1
          PROVE  (IF k = 0 THEN 0 ELSE at[i + k - 1] + ln[i + k - 1] - at[i]) \in Int
      <3>1. CASE k = 0
        BY <3>1
      <3>2. CASE k # 0
        <4>1. k \in 1..j - i + 1
          BY <1>1, <3>2
        <4> QED
          BY <1>1, <1>2, <3>2, <4>1
      <3> QED
        BY <3>1, <3>2
    <2>2. 0 \in 0..j - i + 1
      BY <1>1
    <2>3. P \in [0..j - i + 1 -> Int]
      BY <2>1
    <2> QED
      BY <2>2, <2>3
  <1>4. ASSUME NEW k \in 1..j - i + 1 PROVE P[k] = P[k - 1] + w[k]
    <2>1. k \in 0..j - i + 1 /\ k - 1 \in 0..j - i + 1 /\ k # 0 /\ w[k] = ln[i + k - 1]
      BY <1>1 DEF RunOf
    <2>2. P[k] = at[i + k - 1] + ln[i + k - 1] - at[i]
      BY <2>1
    <2>0. at[i + k - 1] \in Int /\ ln[i + k - 1] \in Nat
      BY <1>2
    <2>3. CASE k = 1
      <3>1. k - 1 = 0 /\ i + k - 1 = i
        BY <1>1, <2>3
      <3>2. P[k - 1] = 0
        BY <1>3, <3>1
      <3>3. at[i + k - 1] = at[i]
        BY <3>1
      <3> HIDE DEF P
      <3> QED
        BY <1>1, <2>0, <2>1, <2>2, <3>2, <3>3
    <2>4. CASE k # 1
      <3>1. k - 1 # 0 /\ i + (k - 1) - 1 \in 1..n - 1 /\ i + (k - 1) - 1 + 1 = i + k - 1
        BY <1>1, <2>4
      <3>2. P[k - 1] = at[i + (k - 1) - 1] + ln[i + (k - 1) - 1] - at[i]
        BY <2>1, <3>1
      <3>3. at[i + k - 1] = at[i + (k - 1) - 1] + ln[i + (k - 1) - 1]
        BY <3>1 DEF Tile
      <3>4. k - 1 \in 1..j - i + 1
        BY <1>1, <2>4
      <3>5. at[i + (k - 1) - 1] \in Int /\ ln[i + (k - 1) - 1] \in Nat
        BY <1>2, <3>4
      <3> HIDE DEF P
      <3>6. P[k - 1] = at[i + k - 1] - at[i]
        <4>1. at[i] \in Int
          BY <1>1
        <4> QED
          BY <2>0, <3>2, <3>3, <3>5, <4>1
      <3>7. P[k] = at[i + k - 1] + w[k] - at[i] /\ w[k] \in Nat /\ at[i] \in Int
        BY <1>1, <2>0, <2>1, <2>2
      <3> QED
        BY <2>0, <3>6, <3>7
    <2> QED
      BY <2>3, <2>4
  <1>5. P[j - i + 1] = at[j] + ln[j] - at[i]
    <2>1. j - i + 1 \in 0..j - i + 1 /\ j - i + 1 # 0 /\ i + (j - i + 1) - 1 = j
      BY <1>1
    <2> QED
      BY <2>1
  <1> HIDE DEF P
  <1> QED
    BY <1>3, <1>4, <1>5 DEF Sums

\* Parts of the pieces are together no longer than all.
LEMMA TileBound ==
  ASSUME NEW n, NEW at, NEW ln, NEW lo, NEW hi, Tile(n, at, ln, lo, hi),
         NEW w \in [1..n -> Nat], \A k \in 1..n : w[k] <= ln[k], NEW P, Sums(n, w, P)
  PROVE  /\ \A k \in 1..n : w[k] <= P[n]
         /\ P[n] \in Nat /\ P[n] <= hi - lo
  <1> DEFINE Bad == {k \in 1..n : ~(P[k] <= at[k] + ln[k] - lo /\ 0 <= P[k - 1] /\ P[k - 1] <= P[k])}
  <1>1. n \in Nat /\ n >= 1 /\ lo \in Int /\ hi \in Int /\ at[1] = lo /\ at[n] + ln[n] = hi /\ 0 \in 0..n
    BY DEF Tile
  <1>2. \A k \in 1..n : /\ at[k] \in Int /\ ln[k] \in Nat /\ w[k] \in Nat /\ P[k] \in Int /\ P[k - 1] \in Int
                        /\ P[k] = P[k - 1] + w[k] /\ w[k] <= ln[k]
    <2>1. \A k \in 1..n : k - 1 \in 0..n /\ k \in 0..n
      BY <1>1
    <2> QED
      BY <2>1 DEF Tile, Sums
  <1>3. Bad = {}
    <2> SUFFICES ASSUME Bad # {} PROVE FALSE
      OBVIOUS
    <2>1. PICK m \in Bad : \A k \in Bad : m <= k
      <3>1. Bad \in SUBSET Nat
        BY <1>1
      <3> HIDE DEF Bad
      <3> QED
        BY <3>1, LeastElement
    <2>2. m \in 1..n /\ ~(P[m] <= at[m] + ln[m] - lo /\ 0 <= P[m - 1] /\ P[m - 1] <= P[m])
      BY <2>1
    <2>3. CASE m = 1
      <3>1. m - 1 = 0 /\ P[0] = 0
        BY <2>3 DEF Sums
      <3>2. P[m - 1] = 0 /\ P[m] = P[m - 1] + w[m] /\ w[m] \in Nat /\ w[m] <= ln[m] /\ ln[m] \in Nat
        BY <1>2, <2>2, <3>1
      <3>3. at[m] = lo
        BY <1>1, <2>3
      <3> QED
        BY <1>1, <2>2, <3>2, <3>3
    <2>4. CASE m # 1
      <3>1. m - 1 \in 1..n /\ ~(m <= m - 1) /\ m - 1 \in 1..n - 1 /\ (m - 1) + 1 = m
        BY <1>1, <2>2, <2>4
      <3>2. P[m - 1] <= at[m - 1] + ln[m - 1] - lo /\ 0 <= P[m - 1 - 1] /\ P[m - 1 - 1] <= P[m - 1]
        BY <2>1, <3>1
      <3>3. at[m] = at[m - 1] + ln[m - 1]
        BY <3>1 DEF Tile
      <3>4. P[m - 1 - 1] \in Int
        BY <1>2, <3>1
      <3>5. /\ P[m] = P[m - 1] + w[m] /\ w[m] \in Nat /\ w[m] <= ln[m] /\ ln[m] \in Nat /\ P[m - 1] \in Int
            /\ at[m - 1] \in Int /\ ln[m - 1] \in Nat
        BY <1>2, <2>2, <3>1
      <3>6. P[m - 1] <= at[m] - lo /\ at[m] \in Int
        <4>1. lo \in Int
          BY <1>1
        <4> QED
          BY <3>2, <3>3, <3>5, <4>1, SMTT(30)
      <3>7. 0 <= P[m - 1] /\ P[m - 1] <= P[m]
        BY <3>2, <3>4, <3>5
      <3>8. P[m] <= at[m] + ln[m] - lo
        <4>1. lo \in Int
          BY <1>1
        <4> QED
          BY <3>5, <3>6, <4>1, SMTT(30)
      <3> QED
        BY <2>2, <3>7, <3>8
    <2> QED
      BY <2>3, <2>4
  <1>4. \A k \in 1..n : P[k] <= at[k] + ln[k] - lo /\ 0 <= P[k - 1] /\ P[k - 1] <= P[k]
    BY <1>3
  <1>5. P[n] \in Nat /\ P[n] <= hi - lo
    <2>1. n \in 1..n
      BY <1>1
    <2> QED
      <3>1. /\ P[n] <= at[n] + ln[n] - lo /\ 0 <= P[n - 1] /\ P[n - 1] <= P[n]
            /\ P[n] \in Int /\ P[n - 1] \in Int
        BY <1>2, <1>4, <2>1
      <3>2. at[n] + ln[n] = hi /\ lo \in Int /\ hi \in Int /\ at[n] \in Int /\ ln[n] \in Nat
        BY <1>1, <1>2, <2>1
      <3> QED
        BY <3>1, <3>2, SMTT(30)
  <1>6. ASSUME NEW i \in 1..n PROVE P[i] <= P[n]
    <2> DEFINE Low == {k \in 1..n : i <= k /\ ~(P[i] <= P[k])}
    <2> SUFFICES ASSUME Low # {} PROVE FALSE
      <3>1. n \in 1..n /\ i <= n
        BY <1>1
      <3> QED
        BY <3>1
    <2>1. PICK m \in Low : \A k \in Low : m <= k
      <3>1. Low \in SUBSET Nat
        BY <1>1
      <3> HIDE DEF Low
      <3> QED
        BY <3>1, LeastElement
    <2>2. m \in 1..n /\ i <= m /\ ~(P[i] <= P[m]) /\ m # i
      BY <1>2, <2>1
    <2>3. m - 1 \in 1..n /\ i <= m - 1 /\ ~(m <= m - 1)
      BY <1>1, <2>2
    <2>4. P[i] <= P[m - 1]
      BY <2>1, <2>3
    <2> QED
      BY <1>2, <1>4, <2>2, <2>3, <2>4, SMTT(30)
  <1>7. ASSUME NEW i \in 1..n PROVE w[i] <= P[n]
    <2>1. n \in 1..n /\ P[i] <= P[n] /\ 0 <= P[i - 1]
      <3>1. n \in 1..n
        BY <1>1
      <3> QED
        BY <1>4, <1>6, <3>1
    <2>2. P[i] = P[i - 1] + w[i] /\ P[i - 1] \in Int /\ w[i] \in Nat /\ P[n] \in Int
      BY <1>2, <2>1
    <2> QED
      BY <2>1, <2>2
  <1> QED
    BY <1>5, <1>7

\* c of m pieces take the place of pieces i..j of n; what bs says of the others stays.
Elsewhere(n, bs, i, j, c, m, bs2) ==
  /\ m = n - (j - i + 1) + c
  /\ \A k \in 1..i - 1 : bs2[k] = bs[k]
  /\ \A k \in i + c..m : bs2[k] = bs[k + (j - i + 1) - c]

\* By how much the sum grows.
Gain(P, w2, i, j, c) == (w2[i] + (IF c = 2 THEN w2[i + 1] ELSE 0)) - (P[j] - P[i - 1])

\* The sum after a replacement.
SumsStep(n, w, P, i, j, c, m, w2, d) ==
  /\ n \in Nat /\ w \in [1..n -> Int] /\ Sums(n, w, P)
  /\ i \in 1..n /\ j \in i..n /\ c \in {1, 2}
  /\ w2 \in [1..m -> Int] /\ Elsewhere(n, w, i, j, c, m, w2)
  /\ d \in Int /\ d = Gain(P, w2, i, j, c)

LEMMA SumsReplace ==
  ASSUME NEW n, NEW w, NEW P, NEW i, NEW j, NEW c, NEW m, NEW w2, NEW d,
         SumsStep(n, w, P, i, j, c, m, w2, d)
  PROVE  \E Q : Sums(m, w2, Q) /\ Q[m] = P[n] + d
  <1> SUFFICES ASSUME n \in Nat, w \in [1..n -> Int], Sums(n, w, P),
                      i \in 1..n, j \in i..n, c \in {1, 2},
                      w2 \in [1..m -> Int], Elsewhere(n, w, i, j, c, m, w2),
                      d \in Int, d = Gain(P, w2, i, j, c)
               PROVE  \E Q : Sums(m, w2, Q) /\ Q[m] = P[n] + d
    BY DEF SumsStep
  <1> DEFINE Q == [k \in 0..m |-> IF k < i THEN P[k]
                                  ELSE IF c = 2 /\ k = i THEN P[i - 1] + w2[i]
                                  ELSE P[k + (j - i + 1) - c] + d]
  <1>1. i \in Nat /\ j \in Nat /\ c \in Nat /\ 1 <= i /\ i <= j /\ j <= n /\ 1 <= c /\ m \in Nat /\ i + c - 1 <= m
    BY DEF Elsewhere
  <1>2. \A k \in 0..n : P[k] \in Int
    BY DEF Sums
  <1>m. m = n - (j - i + 1) + c
    BY DEF Elsewhere
  <1>3. ASSUME NEW k \in 0..m
        PROVE  /\ k < i => Q[k] = P[k] /\ P[k] \in Int
               /\ c = 2 /\ k = i => Q[k] = P[i - 1] + w2[i] /\ w2[i] \in Int /\ P[i - 1] \in Int
               /\ k >= i + c - 1 => /\ Q[k] = P[k + (j - i + 1) - c] + d
                                    /\ k + (j - i + 1) - c \in j..n
                                    /\ P[k + (j - i + 1) - c] \in Int
               /\ Q[k] \in Int
    <2>1. CASE k < i
      <3>1. k \in 0..n /\ ~(k >= i + c - 1) /\ k # i
        BY <1>1, <1>m, <2>1
      <3> QED
        BY <1>2, <2>1, <3>1
    <2>2. CASE c = 2 /\ k = i
      <3>1. i - 1 \in 0..n /\ i \in 1..m /\ ~(k < i) /\ ~(k >= i + c - 1)
        BY <1>1, <1>m, <2>2
      <3>2. Q[k] = P[i - 1] + w2[i]
        BY <2>2, <3>1
      <3>3. P[i - 1] \in Int /\ w2[i] \in Int
        BY <1>2, <3>1
      <3>4. Q[k] \in Int
        BY <3>2, <3>3, SMTT(30)
      <3> HIDE DEF Q
      <3> QED
        BY <2>2, <3>1, <3>2, <3>3, <3>4
    <2>3. CASE k >= i + c - 1
      <3>1. ~(k < i) /\ ~(c = 2 /\ k = i) /\ k + (j - i + 1) - c \in j..n /\ k + (j - i + 1) - c \in 0..n
        BY <1>1, <1>m, <2>3
      <3>2. Q[k] = P[k + (j - i + 1) - c] + d
        BY <3>1
      <3> QED
        BY <1>2, <2>3, <3>1, <3>2
    <2> QED
      BY <1>1, <2>1, <2>2, <2>3
  <1>4. Q \in [0..m -> Int]
    BY <1>3
  <1> HIDE DEF Q
  <1>5. Q[0] = 0
    <2>1. 0 \in 0..m /\ 0 < i
      BY <1>1, <1>m
    <2> QED
      BY <1>3, <2>1 DEF Sums
  <1>6. ASSUME NEW k \in 1..m PROVE Q[k] = Q[k - 1] + w2[k]
    <2>1. k \in 0..m /\ k - 1 \in 0..m
      BY <1>1, <1>m
    <2>2. CASE k < i
      <3>1. k - 1 < i /\ k \in 1..i - 1 /\ k \in 1..n
        BY <1>1, <1>m, <2>2
      <3>2. Q[k] = P[k] /\ Q[k - 1] = P[k - 1]
        BY <1>3, <2>1, <2>2, <3>1
      <3>3. w2[k] = w[k] /\ P[k] = P[k - 1] + w[k]
        BY <3>1 DEF Sums, Elsewhere
      <3> QED
        BY <3>2, <3>3
    <2>3. CASE k = i /\ c = 2
      <3>1. k - 1 < i
        BY <1>1, <1>m, <2>3
      <3>2. Q[k - 1] = P[k - 1]
        BY <1>3, <2>1, <3>1
      <3>3. Q[k] = P[i - 1] + w2[i]
        BY <1>3, <2>1, <2>3
      <3> QED
        BY <2>3, <3>2, <3>3
    <2>4. CASE k = i + c - 1
      <3>1. k + (j - i + 1) - c = j /\ k >= i + c - 1
        BY <1>1, <1>m, <2>4
      <3>2. Q[k] = P[j] + d /\ P[j] \in Int
        BY <1>3, <2>1, <3>1
      <3>3. CASE c = 1
        <4>1. k = i /\ k - 1 < i
          BY <1>1, <1>m, <2>4, <3>3
        <4>2. Q[k - 1] = P[i - 1] /\ P[i - 1] \in Int /\ w2[i] \in Int
          BY <1>3, <2>1, <4>1
        <4>3. d = w2[i] - (P[j] - P[i - 1]) /\ w2[k] = w2[i]
          BY <3>3, <4>1, <4>2 DEF Gain
        <4> QED
          BY <3>2, <4>2, <4>3, SMTT(30)
      <3>4. CASE c = 2
        <4>1. k = i + 1 /\ k - 1 = i
          BY <1>1, <1>m, <2>4, <3>4
        <4>2. Q[k - 1] = P[i - 1] + w2[i] /\ P[i - 1] \in Int /\ w2[i] \in Int /\ w2[i + 1] \in Int
          BY <1>3, <2>1, <3>4, <4>1
        <4>3. d = (w2[i] + w2[i + 1]) - (P[j] - P[i - 1]) /\ w2[k] = w2[i + 1]
          BY <3>4, <4>1 DEF Gain
        <4>4. PICK x \in Int, y \in Int, z \in Int, v \in Int :
                x = P[i - 1] /\ y = w2[i] /\ z = w2[i + 1] /\ v = P[j]
          BY <3>2, <4>2
        <4>5. d = (y + z) - (v - x) /\ Q[k] = v + d /\ Q[k - 1] = x + y /\ w2[k] = z
          BY <3>2, <4>2, <4>3, <4>4
        <4>6. Q[k] = (x + y) + z
          BY <4>5
        <4> QED
          BY <4>5, <4>6
      <3> QED
        BY <3>3, <3>4
    <2>5. CASE k >= i + c
      <3>1. k - 1 >= i + c - 1 /\ k >= i + c - 1 /\ k \in i + c..m
        BY <1>1, <1>m, <2>5
      <3>2. PICK q : q = k + (j - i + 1) - c
        OBVIOUS
      <3>3. q \in 1..n /\ q - 1 = (k - 1) + (j - i + 1) - c
        BY <1>1, <1>m, <3>1, <3>2
      <3>4. Q[k] = P[q] + d /\ Q[k - 1] = P[q - 1] + d /\ P[q] \in Int /\ P[q - 1] \in Int
        BY <1>3, <2>1, <3>1, <3>2, <3>3
      <3>5. w2[k] = w[q] /\ w[q] \in Int /\ P[q] = P[q - 1] + w[q]
        BY <3>1, <3>2, <3>3 DEF Sums, Elsewhere
      <3> QED
        BY <3>4, <3>5, SMTT(30)
    <2> QED
      BY <1>1, <2>2, <2>3, <2>4, <2>5, SMTT(30)
  <1>7. Q[m] = P[n] + d
    <2>1. m \in 0..m /\ m >= i + c - 1 /\ m + (j - i + 1) - c = n
      BY <1>1, <1>m
    <2> QED
      BY <1>3, <2>1
  <1> QED
    BY <1>4, <1>5, <1>6, <1>7 DEF Sums

-----------------------------------------------------------------------------
(* Blocks in pieces: bs[k] is the set of the blocks in piece k, one or     *)
(* none.                                                                   *)

AllBlocks(n, bs) == UNION {bs[k] : k \in 1..n}

InPieces(n, at, ln, bs) ==
  \A k \in 1..n :
    /\ \A x \in bs[k] : /\ x.addr \in Int /\ x.size \in Nat \ {0}
                        /\ at[k] <= x.addr /\ x.addr + x.size <= at[k] + ln[k]
    /\ \A x, y \in bs[k] : x = y

LEMMA BlocksApart ==
  ASSUME NEW n, NEW at, NEW ln, NEW lo, NEW hi, Tile(n, at, ln, lo, hi),
         NEW bs, InPieces(n, at, ln, bs), NEW k \in 1..n, NEW x \in bs[k]
  PROVE  /\ lo <= x.addr /\ x.addr + x.size <= hi
         /\ \A l \in 1..n : l # k => \A y \in bs[l] : Apart(x, y) /\ x.addr # y.addr
  <1>1. at[k] \in Int /\ ln[k] \in Nat /\ lo \in Int /\ hi \in Int /\ lo <= at[k] /\ at[k] + ln[k] <= hi
    BY TileOrder DEF Tile
  <1>2. /\ x.addr \in Int /\ x.size \in Nat /\ x.size >= 1
        /\ at[k] <= x.addr /\ x.addr + x.size <= at[k] + ln[k]
    BY DEF InPieces
  <1>3. ASSUME NEW l \in 1..n, l # k, NEW y \in bs[l] PROVE Apart(x, y) /\ x.addr # y.addr
    <2>1. /\ y.addr \in Int /\ y.size \in Nat /\ y.size >= 1
          /\ at[l] <= y.addr /\ y.addr + y.size <= at[l] + ln[l] /\ at[l] \in Int /\ ln[l] \in Nat
      BY SMTT(30) DEF InPieces, Tile
    <2>2. at[k] + ln[k] <= at[l] \/ at[l] + ln[l] <= at[k]
      <3>1. k \in Nat /\ l \in Nat
        BY DEF Tile
      <3>2. k < l \/ l < k
        BY <1>3, <3>1
      <3> QED
        BY <3>2, TileOrder
    <2>3. x.addr + x.size <= y.addr \/ y.addr + y.size <= x.addr
      BY <1>1, <1>2, <2>1, <2>2
    <2> QED
      BY <1>2, <2>1, <2>3 DEF Apart
  <1> QED
    BY <1>1, <1>2, <1>3

\* The blocks in c pieces from i on.
Fresh(bs, i, c) == bs[i] \cup (IF c = 2 THEN bs[i + 1] ELSE {})

\* The blocks outside pieces i..j.
Outside(n, bs, i, j) == UNION {bs[k] : k \in {q \in 1..n : q < i \/ j < q}}

\* The blocks after a replacement.
LEMMA BlocksReplace ==
  ASSUME NEW n \in Nat, NEW bs, NEW i \in 1..n, NEW j \in i..n, NEW c \in {1, 2},
         NEW m, NEW bs2, Elsewhere(n, bs, i, j, c, m, bs2)
  PROVE  AllBlocks(m, bs2) = Outside(n, bs, i, j) \cup Fresh(bs2, i, c)
  <1> DEFINE Out == {q \in 1..n : q < i \/ j < q}
             new == bs2[i] \cup (IF c = 2 THEN bs2[i + 1] ELSE {})
  <1>1. i \in Nat /\ j \in Nat /\ c \in Nat /\ 1 <= i /\ i <= j /\ j <= n /\ 1 <= c /\ m \in Nat /\ i + c - 1 <= m
    BY DEF Elsewhere
  <1>2. ASSUME NEW k \in 1..m, NEW x \in bs2[k] PROVE x \in new \/ \E q \in Out : x \in bs[q]
    <2>1. CASE k < i
      <3>1. k \in 1..i - 1 /\ k \in Out
        BY <1>1, <2>1 DEF Elsewhere
      <3> QED
        BY <1>2, <3>1 DEF Elsewhere
    <2>2. CASE k >= i + c
      <3>1. k \in i + c..m /\ k + (j - i + 1) - c \in Out
        BY <1>1, <2>2 DEF Elsewhere
      <3> QED
        BY <1>2, <3>1 DEF Elsewhere
    <2>3. CASE k >= i /\ k < i + c
      <3>1. k = i \/ (c = 2 /\ k = i + 1)
        BY <1>1, <2>3
      <3> QED
        BY <1>2, <3>1 DEF Elsewhere
    <2> QED
      BY <1>1, <2>1, <2>2, <2>3
  <1>3. ASSUME NEW q \in Out, NEW x \in bs[q] PROVE \E k \in 1..m : x \in bs2[k]
    <2>1. CASE q < i
      <3>1. q \in 1..i - 1 /\ q \in 1..m
        BY <1>1, <2>1 DEF Elsewhere
      <3> QED
        BY <1>3, <3>1 DEF Elsewhere
    <2>2. CASE j < q
      <3>1. PICK k : k = q - (j - i + 1) + c
        OBVIOUS
      <3>2. k \in i + c..m /\ k + (j - i + 1) - c = q /\ k \in 1..m
        BY <1>1, <2>2, <3>1 DEF Elsewhere
      <3> QED
        BY <1>3, <3>2 DEF Elsewhere
    <2> QED
      BY <2>1, <2>2
  <1>4. ASSUME NEW x \in new PROVE \E k \in 1..m : x \in bs2[k]
    <2>1. i \in 1..m /\ (c = 2 => i + 1 \in 1..m)
      BY <1>1
    <2> QED
      BY <1>4, <2>1
  <1> HIDE DEF Out, new
  <1>5. AllBlocks(m, bs2) = (UNION {bs[k] : k \in Out}) \cup new
    BY <1>2, <1>3, <1>4 DEF AllBlocks
  <1> QED
    BY <1>5 DEF Out, new, Outside, Fresh

\* A block appears in a piece that had none.
LEMMA BlocksAdd ==
  ASSUME NEW n \in Nat, NEW bs, NEW i \in 1..n, NEW c \in {1, 2}, NEW m, NEW bs2,
         Elsewhere(n, bs, i, i, c, m, bs2),
         bs[i] = {}, Fresh(bs2, i, c) = bs2[i]
  PROVE  AllBlocks(m, bs2) = AllBlocks(n, bs) \cup bs2[i]
  <1>1. i \in i..n
    OBVIOUS
  <1>3. AllBlocks(m, bs2) = Outside(n, bs, i, i) \cup Fresh(bs2, i, c)
    BY <1>1, BlocksReplace
  <1>4. Outside(n, bs, i, i) = AllBlocks(n, bs)
    <2>1. ASSUME NEW q \in 1..n, NEW x \in bs[q] PROVE q < i \/ i < q
      BY <2>1
    <2> QED
      BY <2>1 DEF AllBlocks, Outside
  <1> QED
    BY <1>3, <1>4

\* The block of piece i, the only one in i..j, disappears.
LEMMA BlocksRemove ==
  ASSUME NEW n, NEW at, NEW ln, NEW lo, NEW hi, Tile(n, at, ln, lo, hi),
         NEW bs, InPieces(n, at, ln, bs),
         NEW i \in 1..n, NEW j \in i..n, NEW m, NEW bs2,
         Elsewhere(n, bs, i, j, 1, m, bs2),
         bs2[i] = {}, NEW p \in i..j, \A k \in i..j : k # p => bs[k] = {}
  PROVE  AllBlocks(m, bs2) = AllBlocks(n, bs) \ bs[p]
  <1>1. n \in Nat /\ p \in 1..n
    BY DEF Tile
  <1>2. AllBlocks(m, bs2) = Outside(n, bs, i, j) \cup Fresh(bs2, i, 1)
    <2>1. 1 \in {1, 2}
      OBVIOUS
    <2> QED
      BY <1>1, <2>1, BlocksReplace
  <1>3. AllBlocks(m, bs2) = Outside(n, bs, i, j)
    BY <1>2 DEF Fresh
  <1>4. ASSUME NEW q \in 1..n, NEW x \in bs[q], q < i \/ j < q PROVE x \notin bs[p]
    <2>1. q # p
      BY <1>1, <1>4
    <2>2. \A y \in bs[p] : x.addr # y.addr
      BY <1>1, <1>4, <2>1, BlocksApart
    <2> QED
      BY <2>2
  <1>5. ASSUME NEW q \in 1..n, NEW x \in bs[q], x \notin bs[p] PROVE q < i \/ j < q
    <2>1. q # p /\ (q \in i..j \/ q < i \/ j < q)
      BY <1>1, <1>5
    <2> QED
      BY <1>5, <2>1
  <1> QED
    BY <1>3, <1>4, <1>5 DEF AllBlocks, Outside

\* A block in a piece that had none is apart from all others.
LEMMA BlocksFree ==
  ASSUME NEW n, NEW at, NEW ln, NEW lo, NEW hi, Tile(n, at, ln, lo, hi),
         NEW bs, InPieces(n, at, ln, bs), NEW i \in 1..n, bs[i] = {},
         NEW a \in Int, NEW s \in Nat \ {0}, at[i] <= a, a + s <= at[i] + ln[i],
         NEW x \in AllBlocks(n, bs)
  PROVE  /\ x.addr \in Int /\ x.size \in Nat \ {0} /\ x.addr # a
         /\ a + s <= x.addr \/ x.addr + x.size <= a
  <1>1. PICK k \in 1..n : x \in bs[k]
    BY DEF AllBlocks
  <1>2. k # i
    BY <1>1
  <1>3. /\ x.addr \in Int /\ x.size \in Nat \ {0} /\ at[k] <= x.addr /\ x.addr + x.size <= at[k] + ln[k]
    BY <1>1 DEF InPieces
  <1>4. at[k] \in Int /\ ln[k] \in Nat /\ at[i] \in Int /\ ln[i] \in Nat
    BY DEF Tile
  <1>5. at[k] + ln[k] <= at[i] \/ at[i] + ln[i] <= at[k]
    <2>1. k \in Nat /\ i \in Nat
      BY DEF Tile
    <2>2. k < i \/ i < k
      BY <1>2, <2>1
    <2> QED
      BY <2>2, TileOrder
  <1>6. a + s <= x.addr \/ x.addr + x.size <= a
    BY <1>3, <1>4, <1>5
  <1> QED
    BY <1>3, <1>6

LEMMA ModSmall ==
  ASSUME NEW a \in Nat, NEW b \in Nat, a < b
  PROVE  a % b = a
  OBVIOUS

LEMMA ModRange ==
  ASSUME NEW a \in Int, NEW b \in Nat \ {0}
  PROVE  a % b \in 0..b - 1
  OBVIOUS

\* First of a set of positions.
LEMMA FirstIs ==
  ASSUME NEW I, I \in SUBSET Nat, I # {}
  PROVE  First(I) \in I /\ \A k \in I : First(I) <= k
  BY LeastElement DEF First

-----------------------------------------------------------------------------
(* The list of the ORAM heap.                                              *)

ONode == [va : Nat, pa : Nat, usr_va : Nat, offset : Nat, length : Nat, status : {"free", "busy"}]

OAt(list) == [k \in 1..Len(list) |-> list[k].va]

OLn(list) == [k \in 1..Len(list) |-> list[k].length]

\* The list tiles the ORAM and has no two free neighbours.
OChain(list) ==
  /\ list \in Seq(ONode)
  /\ Tile(Len(list), OAt(list), OLn(list), OramVa, OramVa + OramSize)
  /\ \A k \in 1..Len(list) : list[k].pa - list[k].va = OramPa - OramVa
  /\ \A k \in 1..Len(list) - 1 : list[k].status = "busy" \/ list[k + 1].status = "busy"

\* What may take the place of nodes i..j.
OSuits(list, i, j, c, others) ==
  /\ c \in {1, 2} /\ \A x \in 1..c : others[x] \in ONode
  /\ others[1].va = list[i].va /\ others[1].pa = list[i].pa
  /\ others[c].va + others[c].length = list[j].va + list[j].length
  /\ c = 2 => /\ others[2].va = others[1].va + others[1].length
              /\ others[2].pa = others[1].pa + others[1].length
              /\ others[1].status = "busy"
  /\ i > 1 => list[i - 1].status = "busy" \/ others[1].status = "busy"
  /\ j < Len(list) => others[c].status = "busy" \/ list[j + 1].status = "busy"

LEMMA OFields ==
  ASSUME NEW list \in Seq(ONode), NEW k \in 1..Len(list)
  PROVE  /\ list[k] \in ONode
         /\ list[k].va \in Nat /\ list[k].pa \in Nat /\ list[k].usr_va \in Nat
         /\ list[k].offset \in Nat /\ list[k].length \in Nat /\ list[k].status \in {"free", "busy"}
  <1>1. list[k] \in ONode
    BY ElementOfSeq
  <1> QED
    BY <1>1 DEF ONode

LEMMA OChainReplace ==
  ASSUME OramAssumption, NEW list, OChain(list), NEW i \in 1..Len(list), NEW j \in i..Len(list),
         NEW c, NEW others, OSuits(list, i, j, c, others),
         NEW r \in Seq(ONode), IsReplaced(list, i, j, c, others, r)
  PROVE  OChain(r)
  <1>1. list \in Seq(ONode) /\ Len(list) \in Nat /\ Tile(Len(list), OAt(list), OLn(list), OramVa, OramVa + OramSize)
    BY LenProperties DEF OChain
  <1>2. /\ i \in Nat /\ j \in Nat /\ c \in {1, 2} /\ 1 <= i /\ i <= j /\ j <= Len(list)
        /\ Len(r) \in Nat /\ Len(r) = Len(list) - (j - i + 1) + c
    BY <1>1 DEF IsReplaced, OSuits
  <1>3. Tile(Len(r), OAt(r), OLn(r), OramVa, OramVa + OramSize)
    <2>1. OAt(r) \in [1..Len(r) -> Int] /\ OLn(r) \in [1..Len(r) -> Nat]
      <3>1. \A k \in 1..Len(r) : r[k].va \in Int /\ r[k].length \in Nat
        BY OFields
      <3> QED
        BY <3>1 DEF OAt, OLn
    <2>2. /\ \A k \in 1..Len(list) : OAt(list)[k] = list[k].va /\ OLn(list)[k] = list[k].length
          /\ \A k \in 1..Len(r) : OAt(r)[k] = r[k].va /\ OLn(r)[k] = r[k].length
      BY DEF OAt, OLn
    <2>3. ASSUME NEW k \in 1..i - 1 PROVE OAt(r)[k] = OAt(list)[k] /\ OLn(r)[k] = OLn(list)[k]
      <3>1. k \in 1..Len(list) /\ k \in 1..Len(r)
        BY <1>2
      <3>2. r[k] = list[k]
        BY DEF IsReplaced
      <3> QED
        BY <2>2, <3>1, <3>2
    <2>4. ASSUME NEW k \in i + c..Len(r)
          PROVE  /\ OAt(r)[k] = OAt(list)[k + (j - i + 1) - c]
                 /\ OLn(r)[k] = OLn(list)[k + (j - i + 1) - c]
      <3>1. k + (j - i + 1) - c \in j + 1..Len(list) /\ r[k] = list[k + (j - i + 1) - c]
        BY DEF IsReplaced
      <3>2. k + (j - i + 1) - c \in 1..Len(list) /\ k \in 1..Len(r)
        BY <1>2, <3>1, SMTT(30)
      <3> QED
        BY <2>2, <3>1, <3>2
    <2>5. /\ i \in 1..Len(r) /\ i + c - 1 \in 1..Len(r) /\ 1 \in 1..c /\ c \in 1..c
          /\ i - 1 + 1 = i /\ i - 1 + c = i + c - 1 /\ (c = 2 => i - 1 + c = i + 1)
      BY <1>2
    <2>6. r[i] = others[1] /\ r[i + c - 1] = others[c]
      <3>1. r[i - 1 + 1] = others[1] /\ r[i - 1 + c] = others[c]
        BY <2>5 DEF IsReplaced
      <3> QED
        BY <2>5, <3>1
    <2>7. OAt(r)[i] = OAt(list)[i]
      BY <2>2, <2>5, <2>6 DEF OSuits
    <2>8. OAt(r)[i + c - 1] + OLn(r)[i + c - 1] = OAt(list)[j] + OLn(list)[j]
      <3>1. j \in 1..Len(list)
        BY <1>2
      <3> QED
        BY <2>2, <2>5, <2>6, <3>1 DEF OSuits
    <2>9. c = 2 => OAt(r)[i + 1] = OAt(r)[i] + OLn(r)[i]
      <3> SUFFICES ASSUME c = 2 PROVE OAt(r)[i + 1] = OAt(r)[i] + OLn(r)[i]
        OBVIOUS
      <3>1. i + c - 1 = i + 1
        BY <1>2
      <3>2. OAt(r)[i + 1] = others[2].va /\ OAt(r)[i] = others[1].va /\ OLn(r)[i] = others[1].length
        BY <2>2, <2>5, <2>6, <3>1
      <3> QED
        BY <3>2 DEF OSuits
    <2>10. PICK at, ln, at2, ln2 : at = OAt(list) /\ ln = OLn(list) /\ at2 = OAt(r) /\ ln2 = OLn(r)
      OBVIOUS
    <2>11. PICK n, m, hi : n = Len(list) /\ m = Len(r) /\ hi = OramVa + OramSize
      OBVIOUS
    <2>12. Tile(n, at, ln, OramVa, hi) /\ i \in 1..n /\ j \in i..n
      BY <1>1, <2>10, <2>11
    <2>13. TileStep(n, at, ln, i, j, c, m, at2, ln2)
      BY <1>2, <2>1, <2>3, <2>4, <2>7, <2>8, <2>9, <2>10, <2>11 DEF TileStep
    <2>16. Tile(m, at2, ln2, OramVa, hi)
      BY <1>2, <2>12, <2>13, TileReplace
    <2> QED
      BY <2>10, <2>11, <2>16
  <1>4. ASSUME NEW k \in 1..Len(r) PROVE r[k].pa - r[k].va = OramPa - OramVa
    <2>1. CASE \E q \in 1..Len(list) : (q < i \/ j < q) /\ r[k] = list[q]
      BY <2>1 DEF OChain
    <2>2. CASE \E x \in 1..c : k = i - 1 + x /\ r[k] = others[x]
      <3>1. PICK x \in 1..c : r[k] = others[x]
        BY <2>2
      <3>2. others[1].pa - others[1].va = OramPa - OramVa
        BY DEF OSuits, OChain
      <3>3. x = 1 \/ (x = 2 /\ c = 2)
        BY <1>2
      <3>4. CASE x = 1
        BY <3>1, <3>2, <3>4
      <3>5. CASE x = 2 /\ c = 2
        <4>1. 1 \in 1..c
          BY <1>2
        <4>2. others[1] \in ONode
          BY <4>1 DEF OSuits
        <4>3. others[1].va \in Nat /\ others[1].length \in Nat /\ others[1].pa \in Nat
          BY <4>2 DEF ONode
        <4>4. r[k].pa = others[1].pa + others[1].length /\ r[k].va = others[1].va + others[1].length
          BY <3>1, <3>5 DEF OSuits
        <4>5. OramPa \in Int /\ OramVa \in Int
          BY DEF OramAssumption
        <4>6. PICK x1 \in Int, x2 \in Int, x3 \in Int :
                x1 = others[1].pa /\ x2 = others[1].va /\ x3 = others[1].length
          BY <4>3, SMTT(30)
        <4>7. r[k].pa = x1 + x3 /\ r[k].va = x2 + x3 /\ x1 - x2 = OramPa - OramVa
          BY <3>2, <4>4, <4>6
        <4>8. (x1 + x3) - (x2 + x3) = OramPa - OramVa
          BY <4>5, <4>7
        <4> QED
          BY <4>7, <4>8
      <3> QED
        BY <3>3, <3>4, <3>5
    <2>3. Len(list) \in Nat /\ c \in {1, 2}
      BY <1>1, <1>2
    <2>4. ElementFrom(list, i, j, c, others, r, k)
      BY <2>3, ReplacedElement
    <2> QED
      BY <2>1, <2>2, <2>4 DEF ElementFrom
  <1>5. ASSUME NEW k \in 1..Len(r) - 1 PROVE r[k].status = "busy" \/ r[k + 1].status = "busy"
    <2>1. PairFrom(list, i, j, c, others, r, k)
      <3>1. Len(list) \in Nat /\ c \in {1, 2}
        BY <1>1, <1>2
      <3> QED
        BY <3>1, ReplacedPair
    <2> QED
      BY <2>1 DEF PairFrom, OChain, OSuits
  <1> QED
    BY <1>3, <1>4, <1>5 DEF OChain

\* What nodes look like while programs keep the rules.
OGoodNode(n) ==
  IF n.status = "busy" THEN n.usr_va = n.va + n.offset /\ n.offset < n.length
  ELSE n.usr_va = 0 \/ (n.va <= n.usr_va /\ n.usr_va < n.va + n.length)

OGood(list) == \A k \in 1..Len(list) : OGoodNode(list[k])

\* The block in a node, and what it counts in mp_memory_used.
OBlock(n) == IF n.status = "busy" THEN {[addr |-> n.usr_va, size |-> n.length - n.offset]} ELSE {}

OWeight(n) == IF n.status = "busy" THEN n.length ELSE 0

OBs(list) == [k \in 1..Len(list) |-> OBlock(list[k])]

OWs(list) == [k \in 1..Len(list) |-> OWeight(list[k])]

OBlocks(list) == AllBlocks(Len(list), OBs(list))

OUsed(list, u) == \E P : Sums(Len(list), OWs(list), P) /\ P[Len(list)] = u

LEMMA OInPieces ==
  ASSUME NEW list, OChain(list), OGood(list)
  PROVE  InPieces(Len(list), OAt(list), OLn(list), OBs(list))
  <1>1. list \in Seq(ONode)
    BY DEF OChain
  <1>2. ASSUME NEW k \in 1..Len(list), NEW x \in OBs(list)[k]
        PROVE  /\ x.addr \in Int /\ x.size \in Nat \ {0}
               /\ OAt(list)[k] <= x.addr /\ x.addr + x.size <= OAt(list)[k] + OLn(list)[k]
    <2>1. /\ list[k].va \in Nat /\ list[k].offset \in Nat /\ list[k].length \in Nat
          /\ OAt(list)[k] = list[k].va /\ OLn(list)[k] = list[k].length
      BY <1>1, OFields DEF OAt, OLn
    <2>2. list[k].status = "busy" /\ x = [addr |-> list[k].usr_va, size |-> list[k].length - list[k].offset]
      BY <1>2 DEF OBs, OBlock
    <2>3. list[k].usr_va = list[k].va + list[k].offset /\ list[k].offset < list[k].length
      BY <2>2 DEF OGood, OGoodNode
    <2> QED
      BY <2>1, <2>2, <2>3
  <1>3. ASSUME NEW k \in 1..Len(list), NEW x \in OBs(list)[k], NEW y \in OBs(list)[k] PROVE x = y
    BY <1>3 DEF OBs, OBlock
  <1> QED
    BY <1>2, <1>3 DEF InPieces

LEMMA OWeights ==
  ASSUME NEW list \in Seq(ONode)
  PROVE  /\ Len(list) \in Nat /\ OWs(list) \in [1..Len(list) -> Nat] /\ OWs(list) \in [1..Len(list) -> Int]
         /\ \A k \in 1..Len(list) : OWs(list)[k] = OWeight(list[k]) /\ OWs(list)[k] <= OLn(list)[k]
  <1>1. \A k \in 1..Len(list) : list[k].length \in Nat
    BY OFields
  <1> QED
    BY <1>1, LenProperties DEF OWs, OWeight, OLn

LEMMA OGoodReplace ==
  ASSUME NEW list, Len(list) \in Nat, OGood(list), NEW i \in 1..Len(list), NEW j \in i..Len(list),
         NEW c \in {1, 2}, NEW others, \A x \in 1..c : OGoodNode(others[x]),
         NEW r, IsReplaced(list, i, j, c, others, r)
  PROVE  OGood(r)
  <1>1. ASSUME NEW k \in 1..Len(r) PROVE OGoodNode(r[k])
    <2>1. ElementFrom(list, i, j, c, others, r, k)
      BY ReplacedElement
    <2> QED
      BY <2>1 DEF ElementFrom, OGood
  <1> QED
    BY <1>1 DEF OGood

LEMMA OElsewhere ==
  ASSUME NEW list, Len(list) \in Nat, NEW i \in 1..Len(list), NEW j \in i..Len(list),
         NEW c \in {1, 2}, NEW others, NEW r, IsReplaced(list, i, j, c, others, r)
  PROVE  /\ Elsewhere(Len(list), OBs(list), i, j, c, Len(r), OBs(r))
         /\ Elsewhere(Len(list), OWs(list), i, j, c, Len(r), OWs(r))
         /\ i \in 1..Len(r) /\ OBs(r)[i] = OBlock(others[1]) /\ OWs(r)[i] = OWeight(others[1])
         /\ c = 2 => /\ i + 1 \in 1..Len(r)
                     /\ OBs(r)[i + 1] = OBlock(others[2]) /\ OWs(r)[i + 1] = OWeight(others[2])
  <1>1. /\ i \in Nat /\ j \in Nat /\ 1 <= i /\ i <= j /\ j <= Len(list)
        /\ Len(r) \in Nat /\ Len(r) = Len(list) - (j - i + 1) + c
    BY DEF IsReplaced
  <1>2. ASSUME NEW k \in 1..i - 1 PROVE OBs(r)[k] = OBs(list)[k] /\ OWs(r)[k] = OWs(list)[k]
    <2>1. k \in 1..Len(list) /\ k \in 1..Len(r)
      BY <1>1
    <2>2. r[k] = list[k]
      BY DEF IsReplaced
    <2> QED
      BY <2>1, <2>2 DEF OBs, OWs
  <1>3. ASSUME NEW k \in i + c..Len(r)
        PROVE  OBs(r)[k] = OBs(list)[k + (j - i + 1) - c] /\ OWs(r)[k] = OWs(list)[k + (j - i + 1) - c]
    <2>1. k + (j - i + 1) - c \in j + 1..Len(list) /\ r[k] = list[k + (j - i + 1) - c]
      BY DEF IsReplaced
    <2>2. k + (j - i + 1) - c \in 1..Len(list) /\ k \in 1..Len(r)
      BY <1>1, <2>1
    <2> QED
      BY <2>1, <2>2 DEF OBs, OWs
  <1>4. /\ i \in 1..Len(r) /\ 1 \in 1..c /\ i - 1 + 1 = i
        /\ c = 2 => i + 1 \in 1..Len(r) /\ 2 \in 1..c /\ i - 1 + 2 = i + 1
    BY <1>1
  <1>5. r[i] = others[1] /\ (c = 2 => r[i + 1] = others[2])
    <2>1. r[i - 1 + 1] = others[1] /\ (c = 2 => r[i - 1 + 2] = others[2])
      BY <1>4 DEF IsReplaced
    <2> QED
      BY <1>4, <2>1
  <1>6. /\ Elsewhere(Len(list), OBs(list), i, j, c, Len(r), OBs(r))
        /\ Elsewhere(Len(list), OWs(list), i, j, c, Len(r), OWs(r))
    BY <1>1, <1>2, <1>3 DEF Elsewhere
  <1>7. OBs(r)[i] = OBlock(others[1]) /\ OWs(r)[i] = OWeight(others[1])
    BY <1>4, <1>5 DEF OBs, OWs
  <1>8. c = 2 => OBs(r)[i + 1] = OBlock(others[2]) /\ OWs(r)[i + 1] = OWeight(others[2])
    BY <1>4, <1>5 DEF OBs, OWs
  <1> QED
    BY <1>4, <1>6, <1>7, <1>8

\* What is counted stays below the size of the ORAM.
LEMMA OUsedBound ==
  ASSUME OramAssumption, NEW list, OChain(list), NEW u, OUsed(list, u)
  PROVE  u \in Nat /\ u <= OramSize /\ \A k \in 1..Len(list) : OWeight(list[k]) <= u
  <1>1. list \in Seq(ONode) /\ Tile(Len(list), OAt(list), OLn(list), OramVa, OramVa + OramSize)
    BY DEF OChain
  <1>2. PICK P : Sums(Len(list), OWs(list), P) /\ P[Len(list)] = u
    BY DEF OUsed
  <1>3. PICK n, at, ln, hi, w : n = Len(list) /\ at = OAt(list) /\ ln = OLn(list) /\ hi = OramVa + OramSize /\ w = OWs(list)
    OBVIOUS
  <1>4. Tile(n, at, ln, OramVa, hi) /\ Sums(n, w, P)
    BY <1>1, <1>2, <1>3
  <1>5. w \in [1..n -> Nat] /\ \A k \in 1..n : w[k] <= ln[k]
    BY <1>1, <1>3, OWeights
  <1>6. (\A k \in 1..n : w[k] <= P[n]) /\ P[n] \in Nat /\ P[n] <= hi - OramVa
    BY <1>4, <1>5, TileBound
  <1>7. OramVa \in Nat /\ OramSize \in Nat
    BY DEF OramAssumption
  <1>8. u \in Nat /\ u <= OramSize
    BY <1>2, <1>3, <1>6, <1>7
  <1>9. \A k \in 1..Len(list) : OWeight(list[k]) <= u
    BY <1>1, <1>2, <1>3, <1>6, OWeights
  <1> QED
    BY <1>8, <1>9

ORest(n, len) ==
  [va |-> n.va + n.length, pa |-> n.pa + n.length, usr_va |-> 0, offset |-> 0,
   length |-> len - n.length, status |-> "free"]

OIsBusy(n, x, ofs, len) ==
  /\ n \in ONode /\ n.va = x.va /\ n.pa = x.pa /\ n.usr_va = x.va + ofs
  /\ n.offset = ofs /\ n.length = len /\ n.status = "busy"

LEMMA OBusy ==
  ASSUME NEW x \in ONode, NEW ofs \in Nat, NEW len \in Nat
  PROVE  OIsBusy(Busy(x, ofs, len), x, ofs, len)
  <1>1. x.va + ofs \in Nat
    BY DEF ONode
  <1>2. PICK v : v = x.va + ofs
    OBVIOUS
  <1>3. PICK n : n = [x EXCEPT !.status = "busy", !.length = len, !.offset = ofs, !.usr_va = v]
    OBVIOUS
  <1>4. n = Busy(x, ofs, len)
    BY <1>2, <1>3 DEF Busy
  <1>5. OIsBusy(n, x, ofs, len)
    BY <1>1, <1>2, <1>3 DEF ONode, OIsBusy
  <1> QED
    BY <1>4, <1>5

\* A free node is handed out, whole (c = 1) or with a rest behind it.
OHandsOut(list, i, ofs, len, c, others, r) ==
  /\ i \in 1..Len(list) /\ list[i].status = "free"
  /\ ofs \in Nat /\ len \in Nat /\ ofs <= len /\ len <= list[i].length
  /\ c \in {1, 2} /\ (c = 1 => len = list[i].length)
  /\ others[1] = Busy(list[i], ofs, len)
  /\ c = 2 => others[2] = ORest(others[1], list[i].length)
  /\ r \in Seq(ONode) /\ IsReplaced(list, i, i, c, others, r)

OHandedOut(list, i, ofs, len, r) ==
  /\ OGood(r)
  /\ OBlocks(r) = OBlocks(list) \cup {[addr |-> list[i].va + ofs, size |-> len - ofs]}
  /\ \A u : OUsed(list, u) => OUsed(r, u + len)

LEMMA OAlloc ==
  ASSUME OramAssumption, NEW list, OChain(list), NEW i, NEW ofs, NEW len, NEW c, NEW others, NEW r,
         OHandsOut(list, i, ofs, len, c, others, r)
  PROVE  OChain(r) /\ (OGood(list) /\ ofs < len => OHandedOut(list, i, ofs, len, r))
  <1>0. PICK n : n = others[1]
    OBVIOUS
  <1>h. /\ i \in 1..Len(list) /\ list[i].status = "free"
        /\ ofs \in Nat /\ len \in Nat /\ ofs <= len /\ len <= list[i].length
        /\ c \in {1, 2} /\ (c = 1 => len = list[i].length)
        /\ n = Busy(list[i], ofs, len)
        /\ others[1] = n
        /\ c = 2 => others[2] = ORest(n, list[i].length)
        /\ r \in Seq(ONode) /\ IsReplaced(list, i, i, c, others, r)
    BY <1>0 DEF OHandsOut
  <1> SUFFICES ASSUME i \in 1..Len(list), list[i].status = "free",
                      ofs \in Nat, len \in Nat, ofs <= len, len <= list[i].length,
                      n = Busy(list[i], ofs, len), c \in {1, 2}, c = 1 => len = list[i].length,
                      others[1] = n, c = 2 => others[2] = ORest(n, list[i].length),
                      r \in Seq(ONode), IsReplaced(list, i, i, c, others, r)
               PROVE  OChain(r) /\ (OGood(list) /\ ofs < len => OHandedOut(list, i, ofs, len, r))
    BY <1>h
  <1>1. list \in Seq(ONode) /\ Len(list) \in Nat /\ i \in i..Len(list) /\ 1 <= i /\ i <= Len(list)
    BY LenProperties DEF OChain
  <1>2. PICK x : x = list[i]
    OBVIOUS
  <1>3. /\ x \in ONode /\ x.va \in Nat /\ x.pa \in Nat /\ x.length \in Nat /\ len <= x.length
        /\ x.status = "free" /\ (c = 1 => len = x.length)
    <2>1. list[i] \in ONode
      BY <1>1, ElementOfSeq
    <2> QED
      BY <1>2, <2>1 DEF ONode
  <1>4. /\ n \in ONode /\ n.va = x.va /\ n.pa = x.pa /\ n.usr_va = x.va + ofs
        /\ n.offset = ofs /\ n.length = len /\ n.status = "busy"
    <2>1. x \in ONode /\ n = Busy(x, ofs, len)
      BY <1>2, <1>3
    <2>2. OIsBusy(n, x, ofs, len)
      BY <2>1, OBusy
    <2> QED
      BY <2>2 DEF OIsBusy
  <1>a. PICK rest : rest = ORest(n, x.length)
    OBVIOUS
  <1>5. /\ rest \in ONode /\ rest.va = x.va + len /\ rest.pa = x.pa + len
        /\ rest.usr_va = 0 /\ rest.length = x.length - len /\ rest.status = "free"
    <2>a. x.va + len \in Nat
      BY <1>3
    <2>b. x.pa + len \in Nat
      BY <1>3
    <2>c. x.length - len \in Nat
      BY <1>3
    <2>1. PICK v, p, l : v = x.va + len /\ p = x.pa + len /\ l = x.length - len
      OBVIOUS
    <2>2. rest = [va |-> v, pa |-> p, usr_va |-> 0, offset |-> 0, length |-> l, status |-> "free"]
      BY <1>4, <1>a, <2>1 DEF ORest
    <2> QED
      BY <2>a, <2>b, <2>c, <2>1, <2>2 DEF ONode
  <1>6. others[1] = n /\ (c = 2 => others[2] = rest) /\ (c = 1 \/ c = 2) /\ (c = 1 => others[c] = n) /\ (c = 2 => others[c] = rest)
    BY <1>2, <1>a
  <1>7. \A y \in 1..c : y = 1 \/ (c = 2 /\ y = 2)
    OBVIOUS
  <1>8. i > 1 => list[i - 1].status = "busy"
    <2> SUFFICES ASSUME i > 1 PROVE list[i - 1].status = "busy"
      OBVIOUS
    <2>1. i - 1 \in 1..Len(list) - 1 /\ i - 1 + 1 = i
      BY <1>1
    <2> QED
      BY <2>1 DEF OChain
  <1>9. i < Len(list) => list[i + 1].status = "busy"
    <2> SUFFICES ASSUME i < Len(list) PROVE list[i + 1].status = "busy"
      OBVIOUS
    <2>1. i \in 1..Len(list) - 1
      BY <1>1
    <2> QED
      BY <2>1 DEF OChain
  <1>10. others[c].va + others[c].length = x.va + x.length
    <2>1. CASE c = 1
      BY <1>3, <1>4, <1>6, <2>1
    <2>2. CASE c = 2
      <3>1. x.va \in Nat /\ x.length \in Nat /\ len \in Nat /\ others[c].va = x.va + len /\ others[c].length = x.length - len
        BY <1>3, <1>5, <1>6, <2>2
      <3>2. PICK v \in Int, l \in Int : v = x.va /\ l = x.length
        BY <3>1
      <3>3. (v + len) + (l - len) = v + l
        OBVIOUS
      <3> QED
        BY <3>1, <3>2, <3>3
    <2> QED
      BY <2>1, <2>2
  <1>11. OSuits(list, i, i, c, others)
    <2>1. \A y \in 1..c : others[y] \in ONode
      BY <1>4, <1>5, <1>6, <1>7
    <2>2. c = 2 => others[2].va = others[1].va + others[1].length /\ others[2].pa = others[1].pa + others[1].length
      BY <1>4, <1>5, <1>6
    <2> QED
      BY <1>2, <1>4, <1>6, <1>8, <1>9, <1>10, <2>1, <2>2 DEF OSuits
  <1>12. OChain(r)
    BY <1>1, <1>11, OChainReplace
  <1>13. ASSUME OGood(list), ofs < len
         PROVE  /\ OGood(r)
                /\ OBlocks(r) = OBlocks(list) \cup {[addr |-> list[i].va + ofs, size |-> len - ofs]}
    <2>1. \A y \in 1..c : OGoodNode(others[y])
      <3>1. OGoodNode(n) /\ OGoodNode(rest)
        BY <1>4, <1>5, <1>13 DEF OGoodNode
      <3> QED
        BY <1>6, <1>7, <3>1
    <2>2. OGood(r)
      BY <1>1, <1>13, <2>1, OGoodReplace
    <2>3. /\ Elsewhere(Len(list), OBs(list), i, i, c, Len(r), OBs(r))
          /\ OBs(r)[i] = OBlock(n) /\ (c = 2 => OBs(r)[i + 1] = OBlock(rest))
      BY <1>1, <1>6, OElsewhere
    <2>4. OBs(list)[i] = {} /\ OBlock(rest) = {}
      BY <1>5 DEF OBs, OBlock
    <2>5. OBlock(n) = {[addr |-> list[i].va + ofs, size |-> len - ofs]}
      BY <1>2, <1>4 DEF OBlock
    <2>6. PICK bs, bs2, q, m : bs = OBs(list) /\ bs2 = OBs(r) /\ q = Len(list) /\ m = Len(r)
      OBVIOUS
    <2>7. AllBlocks(m, bs2) = AllBlocks(q, bs) \cup bs2[i]
      <3>1. q \in Nat /\ i \in 1..q
        BY <1>1, <2>6
      <3>2. Elsewhere(q, bs, i, i, c, m, bs2) /\ bs[i] = {}
        BY <2>3, <2>4, <2>6
      <3>3. Fresh(bs2, i, c) = bs2[i]
        BY <2>3, <2>4, <2>6 DEF Fresh
      <3> QED
        BY <3>1, <3>2, <3>3, BlocksAdd
    <2> QED
      BY <2>2, <2>3, <2>5, <2>6, <2>7 DEF OBlocks
  <1>14. ASSUME NEW u, OUsed(list, u) PROVE OUsed(r, u + len)
    <2>1. PICK P : Sums(Len(list), OWs(list), P) /\ P[Len(list)] = u
      BY <1>14 DEF OUsed
    <2>2. /\ Elsewhere(Len(list), OWs(list), i, i, c, Len(r), OWs(r))
          /\ OWs(r)[i] = OWeight(n) /\ (c = 2 => OWs(r)[i + 1] = OWeight(rest))
      BY <1>1, <1>6, OElsewhere
    <2>3. OWs(list)[i] = 0 /\ OWeight(rest) = 0 /\ OWeight(n) = len
      BY <1>4, <1>5 DEF OWs, OWeight
    <2>4. OWs(list) \in [1..Len(list) -> Int] /\ OWs(r) \in [1..Len(r) -> Int]
      BY <1>1, OWeights
    <2>5. P[i] = P[i - 1] + OWs(list)[i] /\ i - 1 \in 0..Len(list) /\ P[i - 1] \in Int
      <3>1. i - 1 \in 0..Len(list)
        BY <1>1
      <3> QED
        BY <2>1, <3>1 DEF Sums
    <2>6. P[i] - P[i - 1] = 0
      BY <2>3, <2>5
    <2>7. len = Gain(P, OWs(r), i, i, c)
      BY <2>2, <2>3, <2>6 DEF Gain
    <2>8. PICK w, w2, q, m : w = OWs(list) /\ w2 = OWs(r) /\ q = Len(list) /\ m = Len(r)
      OBVIOUS
    <2>9. /\ w \in [1..q -> Int] /\ w2 \in [1..m -> Int] /\ Sums(q, w, P) /\ q \in Nat /\ i \in 1..q /\ i \in i..q
          /\ Elsewhere(q, w, i, i, c, m, w2) /\ len \in Int /\ len = Gain(P, w2, i, i, c)
      BY <1>1, <2>1, <2>2, <2>4, <2>7, <2>8
    <2>10. \E Q : Sums(m, w2, Q) /\ Q[m] = P[q] + len
      <3>1. PICK d : d = len
        OBVIOUS
      <3>2. c \in {1, 2} /\ d \in Int /\ d = Gain(P, w2, i, i, c)
        BY <2>9, <3>1
      <3>3. SumsStep(q, w, P, i, i, c, m, w2, d)
        BY <2>9, <3>2 DEF SumsStep
      <3>4. \E Q : Sums(m, w2, Q) /\ Q[m] = P[q] + d
        BY <3>3, SumsReplace
      <3> QED
        BY <3>1, <3>4
    <2> QED
      BY <2>1, <2>8, <2>10 DEF OUsed
  <1> QED
    BY <1>12, <1>13, <1>14 DEF OHandedOut

\* What becomes of the nodes lo..hi around node p.
OMerged(list, p, lo, hi, x, r) ==
  /\ lo \in 1..p /\ hi \in p..Len(list) /\ p - 1 <= lo /\ hi <= p + 1
  /\ r \in Seq(ONode) /\ IsReplaced(list, lo, hi, 1, <<x>>, r)
  /\ x \in ONode /\ x.status = "free" /\ x.va = list[lo].va /\ x.pa = list[lo].pa
  /\ x.usr_va = list[lo].usr_va /\ x.va + x.length = list[hi].va + list[hi].length
  /\ \A k \in lo..hi : k # p => list[k].status = "free"
  /\ lo > 1 => list[lo - 1].status = "busy"
  /\ hi < Len(list) => list[hi + 1].status = "busy"

LEMMA OMerge ==
  ASSUME OramAssumption, NEW list, OChain(list), NEW p \in 1..Len(list),
         NEW l2, l2 = [list EXCEPT ![p].status = "free"]
  PROVE  \E lo, hi, x : OMerged(list, p, lo, hi, x, buflist_merge_node(l2, p))
  <1>1. list \in Seq(ONode) /\ Len(list) \in Nat /\ p \in Nat /\ 1 <= p /\ p <= Len(list)
    BY LenProperties DEF OChain
  <1>2. PICK y : y = [list[p] EXCEPT !.status = "free"]
    OBVIOUS
  <1>3. y \in ONode /\ y.va = list[p].va /\ y.length = list[p].length /\ y.status = "free" /\ y.pa = list[p].pa /\ y.usr_va = list[p].usr_va
    <2>1. list[p] \in ONode
      BY <1>1, OFields
    <2> QED
      BY <1>2, <2>1 DEF ONode
  <1>4. l2 = [list EXCEPT ![p] = y]
    BY <1>2
  <1>5. l2 \in Seq(ONode) /\ Len(l2) = Len(list) /\ \A k \in 1..Len(list) : l2[k] = IF k = p THEN y ELSE list[k]
    <2>1. list \in Seq(ONode) /\ y \in ONode
      BY <1>1, <1>3
    <2>2. /\ [list EXCEPT ![p] = y] \in Seq(ONode) /\ Len([list EXCEPT ![p] = y]) = Len(list)
          /\ \A k \in 1..Len(list) : [list EXCEPT ![p] = y][k] = IF k = p THEN y ELSE list[k]
      BY <2>1, ExceptSeq
    <2> QED
      BY <1>4, <2>2
  <1>6. \A k \in 1..Len(list) : /\ l2[k].va = list[k].va /\ l2[k].length = list[k].length
                                /\ l2[k].pa = list[k].pa /\ l2[k].usr_va = list[k].usr_va
                                /\ k # p => l2[k].status = list[k].status
                                /\ k = p => l2[k].status = "free"
    BY <1>3, <1>5
  <1>7. \A k \in 1..Len(list) : list[k].status = "free" \/ list[k].status = "busy"
    BY <1>1, OFields
  <1>8. \A k \in 1..Len(list) - 1 : list[k].status = "busy" \/ list[k + 1].status = "busy"
    BY DEF OChain
  <1> DEFINE Low(k) == /\ \A j \in k..p : l2[j].status = "free"
                       /\ k > 1 => l2[k - 1].status # "free"
             High(k) == /\ \A j \in p..k : l2[j].status = "free"
                        /\ k < Len(l2) => l2[k + 1].status # "free"
  <1>9. \E k \in 1..p : Low(k)
    <2>1. CASE p > 1 /\ list[p - 1].status = "free"
      <3>1. p - 1 \in 1..p /\ p - 1 \in 1..Len(list) /\ p \in 1..Len(list) /\ \A j \in p - 1..p : j = p - 1 \/ j = p
        BY <1>1, <2>1
      <3>2. \A j \in p - 1..p : l2[j].status = "free"
        BY <1>1, <1>6, <2>1, <3>1
      <3>3. p - 1 > 1 => l2[p - 1 - 1].status # "free"
        <4> SUFFICES ASSUME p - 1 > 1 PROVE l2[p - 1 - 1].status # "free"
          OBVIOUS
        <4>1. p - 1 - 1 \in 1..Len(list) - 1 /\ p - 1 - 1 \in 1..Len(list) /\ p - 1 - 1 # p /\ p - 1 - 1 + 1 = p - 1
          BY <1>1
        <4>2. list[p - 1 - 1].status = "busy"
          BY <1>8, <2>1, <4>1
        <4> QED
          BY <1>6, <4>1, <4>2
      <3> QED
        BY <3>1, <3>2, <3>3
    <2>2. CASE ~(p > 1 /\ list[p - 1].status = "free")
      <3>1. p \in 1..p /\ p \in 1..Len(list) /\ \A j \in p..p : j = p
        BY <1>1
      <3>2. \A j \in p..p : l2[j].status = "free"
        BY <1>6, <3>1
      <3>3. p > 1 => l2[p - 1].status # "free"
        <4> SUFFICES ASSUME p > 1 PROVE l2[p - 1].status # "free"
          OBVIOUS
        <4>1. p - 1 \in 1..Len(list) /\ p - 1 # p
          BY <1>1
        <4> QED
          BY <1>6, <2>2, <4>1
      <3> QED
        BY <3>1, <3>2, <3>3
    <2> QED
      BY <2>1, <2>2
  <1>10. \E k \in p..Len(l2) : High(k)
    <2>1. CASE p < Len(list) /\ list[p + 1].status = "free"
      <3>1. p + 1 \in p..Len(l2) /\ p + 1 \in 1..Len(list) /\ p \in 1..Len(list) /\ \A j \in p..p + 1 : j = p + 1 \/ j = p
        BY <1>1, <1>5, <2>1
      <3>2. \A j \in p..p + 1 : l2[j].status = "free"
        BY <1>1, <1>6, <2>1, <3>1
      <3>3. p + 1 < Len(l2) => l2[p + 1 + 1].status # "free"
        <4> SUFFICES ASSUME p + 1 < Len(l2) PROVE l2[p + 1 + 1].status # "free"
          OBVIOUS
        <4>1. p + 1 \in 1..Len(list) - 1 /\ p + 1 + 1 \in 1..Len(list) /\ p + 1 + 1 # p
          BY <1>1, <1>5
        <4>2. list[p + 1 + 1].status = "busy"
          BY <1>8, <2>1, <4>1
        <4> QED
          BY <1>6, <4>1, <4>2
      <3> QED
        BY <3>1, <3>2, <3>3
    <2>2. CASE ~(p < Len(list) /\ list[p + 1].status = "free")
      <3>1. p \in p..Len(l2) /\ p \in 1..Len(list) /\ \A j \in p..p : j = p
        BY <1>1, <1>5
      <3>2. \A j \in p..p : l2[j].status = "free"
        BY <1>6, <3>1
      <3>3. p < Len(l2) => l2[p + 1].status # "free"
        <4> SUFFICES ASSUME p < Len(l2) PROVE l2[p + 1].status # "free"
          OBVIOUS
        <4>1. p + 1 \in 1..Len(list) /\ p + 1 # p /\ p < Len(list)
          BY <1>1, <1>5
        <4> QED
          BY <1>6, <2>2, <4>1
      <3> QED
        BY <3>1, <3>2, <3>3
    <2> QED
      BY <2>1, <2>2
  <1> HIDE DEF Low, High
  <1>11. PICK lo, hi : lo = (CHOOSE k \in 1..p : Low(k)) /\ hi = (CHOOSE k \in p..Len(l2) : High(k))
    OBVIOUS
  <1>12. lo \in 1..p /\ Low(lo) /\ hi \in p..Len(l2) /\ High(hi)
    BY <1>9, <1>10, <1>11
  <1>13. /\ lo \in Nat /\ hi \in Nat /\ 1 <= lo /\ lo <= p /\ p <= hi /\ hi <= Len(list)
         /\ lo \in 1..Len(list) /\ hi \in lo..Len(list) /\ hi \in p..Len(list)
    BY <1>1, <1>5, <1>12
  <1>14. ASSUME NEW k \in lo..hi PROVE l2[k].status = "free"
    <2>1. k \in lo..p \/ k \in p..hi
      BY <1>13
    <2> QED
      BY <1>12, <2>1 DEF Low, High
  <1>15. \A k \in lo..hi : k # p => list[k].status = "free"
    <2>1. \A k \in lo..hi : k \in 1..Len(list)
      BY <1>1, <1>13
    <2> QED
      BY <1>6, <1>14, <2>1
  <1>16. p - 1 <= lo
    <2> SUFFICES ASSUME lo < p - 1 PROVE FALSE
      BY <1>1, <1>13
    <2>1. p - 2 \in lo..hi /\ p - 1 \in lo..hi /\ p - 2 # p /\ p - 1 # p /\ p - 2 \in 1..Len(list) - 1 /\ p - 2 + 1 = p - 1
      BY <1>1, <1>13, SMTT(30)
    <2>2. list[p - 2].status = "free" /\ list[p - 1].status = "free"
      BY <1>15, <2>1
    <2> QED
      BY <1>8, <2>1, <2>2
  <1>17. hi <= p + 1
    <2> SUFFICES ASSUME p + 1 < hi PROVE FALSE
      BY <1>1, <1>13
    <2>1. p + 1 \in lo..hi /\ p + 2 \in lo..hi /\ p + 1 # p /\ p + 2 # p /\ p + 1 \in 1..Len(list) - 1 /\ p + 1 + 1 = p + 2
      BY <1>1, <1>13
    <2>2. list[p + 1].status = "free" /\ list[p + 2].status = "free"
      BY <1>15, <2>1
    <2> QED
      BY <1>8, <2>1, <2>2
  <1>18. lo > 1 => list[lo - 1].status = "busy"
    <2> SUFFICES ASSUME lo > 1 PROVE list[lo - 1].status = "busy"
      OBVIOUS
    <2>1. lo - 1 \in 1..Len(list) /\ lo - 1 # p
      BY <1>1, <1>13
    <2>2. l2[lo - 1].status # "free"
      BY <1>12 DEF Low
    <2> QED
      BY <1>6, <1>7, <2>1, <2>2
  <1>19. hi < Len(list) => list[hi + 1].status = "busy"
    <2> SUFFICES ASSUME hi < Len(list) PROVE list[hi + 1].status = "busy"
      OBVIOUS
    <2>1. hi + 1 \in 1..Len(list) /\ hi + 1 # p
      BY <1>1, <1>13
    <2>2. l2[hi + 1].status # "free"
      BY <1>5, <1>12 DEF High
    <2> QED
      BY <1>6, <1>7, <2>1, <2>2
  <1>20. PICK x : x = [l2[lo] EXCEPT !.length = LengthOf(SubSeq(l2, lo, hi))]
    OBVIOUS
  <1>21. buflist_merge_node(l2, p) = Replaced(l2, lo, hi, <<x>>)
    BY <1>11, <1>20 DEF buflist_merge_node, Low, High
  <1>22. /\ LengthOf(SubSeq(l2, lo, hi)) = list[hi].va + list[hi].length - list[lo].va
         /\ LengthOf(SubSeq(l2, lo, hi)) \in Nat
    <2>1. Tile(Len(list), OAt(list), OLn(list), OramVa, OramVa + OramSize)
      BY DEF OChain
    <2>2. PICK n, at, ln, top, w : /\ n = Len(list) /\ at = OAt(list) /\ ln = OLn(list) /\ top = OramVa + OramSize
                                   /\ w = RunOf(ln, lo, hi)
      OBVIOUS
    <2>3. Tile(n, at, ln, OramVa, top) /\ lo \in 1..n /\ hi \in lo..n
      BY <1>13, <2>1, <2>2
    <2>4. PICK P : Sums(hi - lo + 1, w, P) /\ P[hi - lo + 1] = at[hi] + ln[hi] - at[lo]
      <3>1. w = RunOf(ln, lo, hi)
        BY <2>2
      <3> QED
        BY <2>3, <3>1, TileRun
    <2>5. PICK s : s = SubSeq(l2, lo, hi)
      OBVIOUS
    <2>6. Len(s) = hi - lo + 1 /\ \A k \in 1..hi - lo + 1 : s[k] = l2[lo + k - 1]
      <3>1. \A k \in lo..hi : l2[k] \in ONode
        <4>1. \A k \in lo..hi : k \in 1..Len(l2)
          BY <1>1, <1>5, <1>13
        <4> QED
          BY <1>5, <4>1, OFields
      <3> QED
        BY <1>13, <2>5, <3>1, SubSeqProperties, SMTT(30)
    <2>7. w \in [1..hi - lo + 1 -> Int] /\ \A k \in 1..hi - lo + 1 : w[k] = s[k].length
      <3>1. ASSUME NEW k \in 1..hi - lo + 1 PROVE w[k] = s[k].length /\ w[k] \in Int
        <4>1. lo + k - 1 \in 1..Len(list)
          BY <1>1, <1>13
        <4>2. ln[lo + k - 1] = list[lo + k - 1].length /\ list[lo + k - 1].length \in Nat
          BY <1>1, <2>2, <4>1, OFields DEF OLn
        <4>3. s[k] = l2[lo + k - 1] /\ w[k] = ln[lo + k - 1]
          BY <2>2, <2>6 DEF RunOf
        <4>4. l2[lo + k - 1].length = list[lo + k - 1].length
          BY <1>6, <4>1
        <4> QED
          BY <4>2, <4>3, <4>4
      <3> QED
        BY <2>2, <3>1 DEF RunOf
    <2>8. hi - lo + 1 \in Nat
      BY <1>13
    <2>9. LengthOf(s) = P[hi - lo + 1]
      BY <2>4, <2>6, <2>7, <2>8, LengthOfIs, SMTT(30)
    <2>10. /\ at[hi] = list[hi].va /\ ln[hi] = list[hi].length /\ at[lo] = list[lo].va
           /\ list[hi].va \in Nat /\ list[hi].length \in Nat /\ list[lo].va \in Nat /\ ln[lo] \in Nat
      <3>1. hi \in 1..Len(list)
        BY <1>1, <1>13
      <3> QED
        BY <1>1, <1>13, <2>2, <3>1, OFields DEF OAt, OLn
    <2>11. lo = hi \/ at[lo] + ln[lo] <= at[hi]
      <3>1. lo = hi \/ lo < hi
        BY <1>13
      <3>2. hi \in 1..n
        BY <1>1, <1>13, <2>2
      <3> QED
        BY <2>3, <3>1, <3>2, TileOrder
    <2>12. PICK a \in Int, b \in Int, e \in Int, f \in Int : a = list[hi].va /\ b = list[hi].length /\ e = list[lo].va /\ f = ln[lo]
      BY <2>10, SMTT(30)
    <2>13. e <= a /\ b >= 0
      BY <2>10, <2>11, <2>12, SMTT(30)
    <2>14. a + b - e \in Nat
      BY <2>13
    <2> QED
      BY <2>4, <2>5, <2>9, <2>10, <2>12, <2>14
  <1>23. /\ x \in ONode /\ x.status = "free" /\ x.va = list[lo].va /\ x.pa = list[lo].pa
         /\ x.usr_va = list[lo].usr_va /\ x.length = LengthOf(SubSeq(l2, lo, hi))
    <2>1. l2[lo] \in ONode /\ l2[lo].status = "free" /\ lo \in lo..hi
      <3>1. lo \in lo..hi
        BY <1>13
      <3> QED
        BY <1>5, <1>13, <1>14, <3>1, OFields
    <2>2. PICK len \in Nat : len = LengthOf(SubSeq(l2, lo, hi))
      BY <1>22
    <2>3. x = [l2[lo] EXCEPT !.length = len]
      BY <1>20, <2>2
    <2>4. x \in ONode /\ x.status = "free" /\ x.va = l2[lo].va /\ x.pa = l2[lo].pa /\ x.usr_va = l2[lo].usr_va /\ x.length = len
      BY <2>1, <2>3 DEF ONode
    <2> QED
      BY <1>6, <1>13, <2>2, <2>4
  <1>24. x.va + x.length = list[hi].va + list[hi].length
    <2>1. list[hi].va \in Nat /\ list[hi].length \in Nat /\ list[lo].va \in Nat
      <3>1. hi \in 1..Len(list)
        BY <1>1, <1>13
      <3> QED
        BY <1>1, <1>13, <3>1, OFields
    <2>2. PICK a \in Int, b \in Int, e \in Int : a = list[hi].va /\ b = list[hi].length /\ e = list[lo].va
      BY <2>1, SMTT(30)
    <2>3. e + (a + b - e) = a + b
      OBVIOUS
    <2> QED
      BY <1>22, <1>23, <2>2, <2>3
  <1>25. PICK r : r = Replaced(l2, lo, hi, <<x>>)
    OBVIOUS
  <1>26. r \in Seq(ONode) /\ IsReplaced(list, lo, hi, 1, <<x>>, r)
    <2>1. <<x>> \in Seq(ONode) /\ Len(<<x>>) = 1
      BY <1>23
    <2>2. lo \in 1..Len(l2) /\ hi \in lo..Len(l2) /\ l2 \in Seq(ONode)
      BY <1>5, <1>13
    <2>3. PICK one, xs : one = 1 /\ xs = <<x>>
      OBVIOUS
    <2>4. xs \in Seq(ONode) /\ one = Len(xs) /\ r = Replaced(l2, lo, hi, xs)
      BY <1>25, <2>1, <2>3
    <2>5. r \in Seq(ONode) /\ IsReplaced(l2, lo, hi, one, xs, r)
      BY <2>2, <2>4, ReplacedList
    <2>6. \A k \in 1..Len(list) : k < lo \/ hi < k => l2[k] = list[k]
      BY <1>1, <1>5, <1>13
    <2>7. IsReplaced(list, lo, hi, one, xs, r)
      BY <1>1, <1>5, <1>13, <2>5, <2>6, ReplacedOf
    <2> QED
      BY <2>3, <2>5, <2>7
  <1>27. OMerged(list, p, lo, hi, x, r)
    BY <1>12, <1>13, <1>15, <1>16, <1>17, <1>18, <1>19, <1>23, <1>24, <1>26 DEF OMerged
  <1> QED
    BY <1>21, <1>25, <1>27

\* A node is freed.
LEMMA OFree ==
  ASSUME OramAssumption, NEW list, OChain(list), NEW p \in 1..Len(list),
         NEW lo, NEW hi, NEW x, NEW r, OMerged(list, p, lo, hi, x, r)
  PROVE  /\ OChain(r)
         /\ OGood(list) /\ list[p].status = "busy" =>
              /\ OGood(r)
              /\ OBlocks(r) = OBlocks(list) \ OBlock(list[p])
              /\ \A u : OUsed(list, u) => OUsed(r, u - list[p].length)
  <1>1. list \in Seq(ONode) /\ Len(list) \in Nat /\ p \in Nat /\ 1 <= p /\ p <= Len(list)
    BY LenProperties DEF OChain
  <1>2. /\ lo \in 1..p /\ hi \in p..Len(list) /\ p - 1 <= lo /\ hi <= p + 1
        /\ r \in Seq(ONode) /\ IsReplaced(list, lo, hi, 1, <<x>>, r)
        /\ x \in ONode /\ x.status = "free" /\ x.va = list[lo].va /\ x.pa = list[lo].pa
        /\ x.usr_va = list[lo].usr_va /\ x.va + x.length = list[hi].va + list[hi].length
    BY DEF OMerged
  <1>3. /\ \A k \in lo..hi : k # p => list[k].status = "free"
        /\ lo > 1 => list[lo - 1].status = "busy"
        /\ hi < Len(list) => list[hi + 1].status = "busy"
    BY DEF OMerged
  <1>4. /\ lo \in Nat /\ hi \in Nat /\ 1 <= lo /\ lo <= p /\ p <= hi /\ hi <= Len(list)
        /\ lo \in 1..Len(list) /\ hi \in 1..Len(list) /\ hi \in lo..Len(list) /\ p \in lo..hi
    BY <1>1, <1>2
  <1>5. PICK c, others : c = 1 /\ others = <<x>>
    OBVIOUS
  <1>6. /\ c \in {1, 2} /\ others[1] = x /\ others[c] = x /\ (\A y \in 1..c : others[y] = x)
        /\ IsReplaced(list, lo, hi, c, others, r)
    BY <1>2, <1>5
  <1>7. OSuits(list, lo, hi, c, others)
    BY <1>2, <1>3, <1>5, <1>6 DEF OSuits
  <1>8. OChain(r)
    <2>1. r \in Seq(ONode)
      BY <1>2
    <2> QED
      BY <1>4, <1>6, <1>7, <2>1, OChainReplace
  <1>9. ASSUME OGood(list) PROVE OGood(r)
    <2>1. list[lo].length <= x.length
      <3>1. /\ list[lo].va \in Nat /\ list[lo].length \in Nat /\ list[hi].va \in Nat /\ list[hi].length \in Nat
            /\ x.length \in Nat
        BY <1>1, <1>2, <1>4, OFields DEF ONode
      <3>2. lo = hi \/ list[lo].va + list[lo].length <= list[hi].va
        <4>1. lo = hi \/ lo < hi
          BY <1>4
        <4>2. PICK at, ln, n, top : at = OAt(list) /\ ln = OLn(list) /\ n = Len(list) /\ top = OramVa + OramSize
          OBVIOUS
        <4>3. Tile(n, at, ln, OramVa, top) /\ lo \in 1..n /\ hi \in 1..n
          BY <1>4, <4>2 DEF OChain
        <4>4. lo = hi \/ at[lo] + ln[lo] <= at[hi]
          BY <4>1, <4>3, TileOrder
        <4> QED
          BY <1>4, <4>2, <4>4 DEF OAt, OLn
      <3>3. PICK a, b, e, f, g :
              a = list[hi].va /\ b = list[hi].length /\ e = list[lo].va /\ f = list[lo].length /\ g = x.length
        OBVIOUS
      <3>4. e + g = a + b /\ a \in Nat /\ b \in Nat /\ e \in Nat /\ f \in Nat /\ g \in Nat
        BY <1>2, <3>1, <3>3
      <3>5. lo = hi \/ e + f <= a
        BY <3>2, <3>3
      <3>6. lo = hi => a = e /\ b = f
        BY <3>3
      <3>7. f <= g
        BY <3>4, <3>5, <3>6
      <3> QED
        BY <3>3, <3>7
    <2>2. OGoodNode(x)
      <3>1. /\ list[lo].va \in Nat /\ list[lo].length \in Nat /\ list[lo].offset \in Nat /\ list[lo].usr_va \in Nat
            /\ x.length \in Nat
        BY <1>1, <1>2, <1>4, OFields DEF ONode
      <3>2. OGoodNode(list[lo])
        BY <1>4, <1>9 DEF OGood
      <3>a. PICK e, f, g, h, o :
              e = list[lo].va /\ f = list[lo].length /\ g = x.length /\ h = list[lo].usr_va /\ o = list[lo].offset
        OBVIOUS
      <3>b. e \in Nat /\ f \in Nat /\ g \in Nat /\ h \in Nat /\ o \in Nat
        BY <3>1, <3>a
      <3>3. /\ e = list[lo].va /\ f = list[lo].length /\ g = x.length /\ h = list[lo].usr_va /\ o = list[lo].offset
            /\ e \in Nat /\ f \in Nat /\ g \in Nat /\ h \in Nat /\ o \in Nat
        BY <3>a, <3>b
      <3>4. h = 0 \/ (e <= h /\ h < e + f)
        <4>1. CASE list[lo].status = "busy"
          <5>1. h = e + o /\ o < f /\ o >= 0
            BY <3>1, <3>2, <3>3, <4>1 DEF OGoodNode
          <5> QED
            BY <3>b, <5>1
        <4>2. CASE list[lo].status # "busy"
          BY <3>2, <3>3, <4>2 DEF OGoodNode
        <4> QED
          BY <4>1, <4>2
      <3>5. h = 0 \/ (e <= h /\ h < e + g)
        <4>1. f <= g
          BY <2>1, <3>3
        <4> QED
          BY <3>b, <3>4, <4>1
      <3>6. x.usr_va = 0 \/ (x.va <= x.usr_va /\ x.usr_va < x.va + x.length)
        BY <1>2, <3>3, <3>5
      <3>7. x.status # "busy"
        BY <1>2
      <3> QED
        BY <3>6, <3>7 DEF OGoodNode
    <2>3. \A y \in 1..c : OGoodNode(others[y])
      BY <1>6, <2>2
    <2> QED
      BY <1>1, <1>4, <1>6, <1>9, <2>3, OGoodReplace
  <1>10. ASSUME OGood(list), list[p].status = "busy" PROVE OBlocks(r) = OBlocks(list) \ OBlock(list[p])
    <2>1. Elsewhere(Len(list), OBs(list), lo, hi, c, Len(r), OBs(r)) /\ OBs(r)[lo] = OBlock(x)
      BY <1>1, <1>4, <1>6, OElsewhere
    <2>2. OBlock(x) = {}
      BY <1>2 DEF OBlock
    <2>3. PICK n, at, ln, top, bs, bs2, m :
            /\ n = Len(list) /\ at = OAt(list) /\ ln = OLn(list) /\ top = OramVa + OramSize
            /\ bs = OBs(list) /\ bs2 = OBs(r) /\ m = Len(r)
      OBVIOUS
    <2>4. Tile(n, at, ln, OramVa, top)
      BY <2>3 DEF OChain
    <2>5. InPieces(n, at, ln, bs)
      BY <1>10, <2>3, OInPieces
    <2>6. Elsewhere(n, bs, lo, hi, 1, m, bs2) /\ bs2[lo] = {} /\ lo \in 1..n /\ hi \in lo..n
      BY <1>4, <1>5, <2>1, <2>2, <2>3
    <2>7. \A k \in lo..hi : k # p => bs[k] = {}
      <3>1. \A k \in lo..hi : k \in 1..Len(list)
        BY <1>1, <1>4
      <3> QED
        BY <1>3, <2>3, <3>1 DEF OBs, OBlock
    <2>8. AllBlocks(m, bs2) = AllBlocks(n, bs) \ bs[p]
      BY <1>4, <2>4, <2>5, <2>6, <2>7, BlocksRemove
    <2>9. bs[p] = OBlock(list[p])
      BY <2>3 DEF OBs
    <2> QED
      BY <2>3, <2>8, <2>9 DEF OBlocks
  <1>11. ASSUME list[p].status = "busy", NEW u, OUsed(list, u) PROVE OUsed(r, u - list[p].length)
    <2>1. PICK P : Sums(Len(list), OWs(list), P) /\ P[Len(list)] = u
      BY <1>11 DEF OUsed
    <2>2. Elsewhere(Len(list), OWs(list), lo, hi, c, Len(r), OWs(r)) /\ OWs(r)[lo] = OWeight(x)
      BY <1>1, <1>4, <1>6, OElsewhere
    <2>3. OWeight(x) = 0
      BY <1>2 DEF OWeight
    <2>4. OWs(list) \in [1..Len(list) -> Int] /\ OWs(r) \in [1..Len(r) -> Int]
      BY <1>1, <1>2, OWeights
    <2>5. \A k \in lo..hi : k # p => OWs(list)[k] = 0
      <3>1. \A k \in lo..hi : k \in 1..Len(list)
        BY <1>1, <1>4
      <3> QED
        BY <1>3, <3>1 DEF OWs, OWeight
    <2>6. \A k \in 1..Len(list) : P[k] = P[k - 1] + OWs(list)[k]
      BY <2>1 DEF Sums
    <2>7. \A k \in 0..Len(list) : P[k] \in Int
      BY <2>1 DEF Sums
    <2>8. P[p] \in Int /\ P[p - 1] \in Int /\ P[p] = P[p - 1] + list[p].length /\ list[p].length \in Nat
      <3>1. p \in 0..Len(list) /\ p - 1 \in 0..Len(list)
        BY <1>1
      <3>2. OWs(list)[p] = list[p].length /\ list[p].length \in Nat
        BY <1>1, <1>11, OFields DEF OWs, OWeight
      <3> QED
        BY <1>1, <2>6, <2>7, <3>1, <3>2
    <2>9. P[hi] = P[p]
      <3>1. CASE hi = p
        BY <3>1
      <3>2. CASE hi # p
        <4>1. hi = p + 1 /\ hi - 1 = p /\ hi \in lo..hi
          BY <1>1, <1>2, <1>4, <3>2
        <4>2. P[hi] = P[hi - 1] + OWs(list)[hi] /\ OWs(list)[hi] = 0
          BY <1>4, <2>5, <2>6, <3>2, <4>1
        <4> QED
          BY <2>8, <4>1, <4>2
      <3> QED
        BY <3>1, <3>2
    <2>10. P[lo - 1] = P[p - 1]
      <3>1. CASE lo = p
        BY <3>1
      <3>2. CASE lo # p
        <4>1. lo = p - 1 /\ lo \in lo..hi /\ lo - 1 \in 0..Len(list)
          BY <1>1, <1>2, <1>4, <3>2
        <4>2. P[lo] = P[lo - 1] + OWs(list)[lo] /\ OWs(list)[lo] = 0 /\ P[lo - 1] \in Int
          BY <1>4, <2>5, <2>6, <2>7, <3>2, <4>1
        <4> QED
          BY <4>1, <4>2
      <3> QED
        BY <3>1, <3>2
    <2>11. PICK d, w, w2, n, m : /\ d = -list[p].length /\ w = OWs(list) /\ w2 = OWs(r)
                                 /\ n = Len(list) /\ m = Len(r)
      OBVIOUS
    <2>12. d \in Int /\ d = Gain(P, w2, lo, hi, c)
      <3>1. P[hi] - P[lo - 1] = list[p].length /\ w2[lo] = 0 /\ c # 2
        BY <1>5, <2>2, <2>3, <2>8, <2>9, <2>10, <2>11
      <3> QED
        BY <2>8, <2>11, <3>1 DEF Gain
    <2>13. /\ w \in [1..n -> Int] /\ w2 \in [1..m -> Int] /\ Sums(n, w, P) /\ n \in Nat
           /\ lo \in 1..n /\ hi \in lo..n /\ Elsewhere(n, w, lo, hi, c, m, w2)
      BY <1>1, <1>4, <2>1, <2>2, <2>4, <2>11
    <2>14. \E Q : Sums(m, w2, Q) /\ Q[m] = P[n] + d
      <3>1. c \in {1, 2}
        BY <1>5
      <3> QED
        <4>1. SumsStep(n, w, P, lo, hi, c, m, w2, d)
          BY <2>12, <2>13, <3>1 DEF SumsStep
        <4> QED
          BY <4>1, SumsReplace
    <2>15. P[n] + d = u - list[p].length
      <3>1. n \in 0..n
        BY <2>13
      <3>2. u \in Int
        BY <2>1, <2>7, <2>11, <3>1
      <3> QED
        BY <2>1, <2>8, <2>11, <3>2
    <2> QED
      BY <2>11, <2>14, <2>15 DEF OUsed
  <1> QED
    BY <1>8, <1>9, <1>10, <1>11

-----------------------------------------------------------------------------
(* The calls of the ORAM heap.                                             *)

\* Each block of a program is in a busy node, and the other way round.
OHeld(H, B) ==
  /\ \A b \in H : \E x \in B : x.addr = b.addr /\ x.size >= b.size
  /\ \A x \in B : \E b \in H : b.addr = x.addr
  /\ \A b, c \in H : b.addr = c.addr => b = c

OTyped ==
  /\ used \in 0..Word - 1 /\ wrong \in 0..MaxWrong
  /\ \A b \in held : b.addr \in Nat /\ b.size \in OramSizes

\* The inductive invariant of the ORAM heap.
OInv ==
  /\ OTyped
  /\ nodes = << >> \/ OChain(nodes)
  /\ nodes = << >> => held = {} /\ used = 0
  /\ wrong = 0 /\ nodes # << >> =>
       OGood(nodes) /\ OUsed(nodes, used) /\ OHeld(held, OBlocks(nodes))

LEMMA OGoodRange ==
  ASSUME NEW list \in Seq(ONode), NEW k \in 1..Len(list), OGoodNode(list[k])
  PROVE  list[k].usr_va = 0 \/ (list[k].va <= list[k].usr_va /\ list[k].usr_va < list[k].va + list[k].length)
  <1>1. /\ list[k].va \in Nat /\ list[k].length \in Nat /\ list[k].offset \in Nat /\ list[k].usr_va \in Nat
    BY OFields
  <1> QED
    BY <1>1 DEF OGoodNode

\* A block is found again by its address.
OFound(list, x, p) ==
  /\ p \in 1..Len(list) /\ list[p].status = "busy" /\ OBlock(list[p]) = {x}
  /\ x = [addr |-> list[p].usr_va, size |-> list[p].length - list[p].offset]
  /\ buflist_find_node(list, x.addr) = {p}

LEMMA OFind ==
  ASSUME OramAssumption, NEW list, OChain(list), OGood(list), NEW x \in OBlocks(list)
  PROVE  \E p : OFound(list, x, p)
  <1>1. list \in Seq(ONode) /\ Len(list) \in Nat /\ DOMAIN list = 1..Len(list)
    BY LenProperties DEF OChain
  <1>2. PICK p \in 1..Len(list) : x \in OBlock(list[p])
    BY DEF OBlocks, AllBlocks, OBs
  <1>3. /\ list[p].status = "busy" /\ OBlock(list[p]) = {x}
        /\ x = [addr |-> list[p].usr_va, size |-> list[p].length - list[p].offset] /\ x.addr = list[p].usr_va
    BY <1>2 DEF OBlock
  <1>4. PICK n, at, ln, top : n = Len(list) /\ at = OAt(list) /\ ln = OLn(list) /\ top = OramVa + OramSize
    OBVIOUS
  <1>5. Tile(n, at, ln, OramVa, top)
    BY <1>4 DEF OChain
  <1>6. \A k \in 1..Len(list) : /\ at[k] = list[k].va /\ ln[k] = list[k].length
                                /\ at[k] \in Nat /\ ln[k] \in Nat /\ list[k].usr_va \in Nat /\ list[k].offset \in Nat
    BY <1>1, <1>4, OFields DEF OAt, OLn
  <1>7. list[p].usr_va = at[p] + list[p].offset /\ list[p].offset < ln[p]
    BY <1>3, <1>6 DEF OGood, OGoodNode
  <1>8. OramVa <= at[p] /\ OramVa > 0 /\ OramVa \in Nat
    BY <1>4, <1>5, TileOrder DEF OramAssumption
  <1>9. at[p] <= x.addr /\ x.addr < at[p] + ln[p] /\ x.addr # 0 /\ x.addr \in Nat
    <2>1. at[p] \in Nat /\ ln[p] \in Nat /\ list[p].offset \in Nat
      BY <1>6
    <2> QED
      BY <1>3, <1>7, <1>8, <2>1
  <1>10. ASSUME NEW k \in 1..Len(list), list[k].usr_va = x.addr PROVE k = p
    <2>1. at[k] <= x.addr /\ x.addr < at[k] + ln[k]
      BY <1>1, <1>6, <1>9, <1>10, OGoodRange DEF OGood
    <2> SUFFICES ASSUME k # p PROVE FALSE
      OBVIOUS
    <2>2. k < p \/ p < k
      BY <1>1
    <2>3. at[k] + ln[k] <= at[p] \/ at[p] + ln[p] <= at[k]
      BY <1>4, <1>5, <2>2, TileOrder
    <2>4. at[k] \in Nat /\ ln[k] \in Nat /\ at[p] \in Nat /\ ln[p] \in Nat
      BY <1>6
    <2> QED
      BY <1>9, <2>1, <2>3, <2>4, SMTT(30)
  <1>11. buflist_find_node(list, x.addr) = {p}
    BY <1>1, <1>3, <1>10 DEF buflist_find_node
  <1> QED
    BY <1>3, <1>11 DEF OFound

\* What a call that hands a block out does, and what it means for the blocks.
OTakes(i, ofs, len, size) ==
  /\ i \in 1..Len(nodes) /\ nodes[i].status = "free" /\ size \in OramSizes
  /\ ofs \in Nat /\ len \in Nat /\ ofs + size <= len /\ len <= nodes[i].length
  /\ \/ nodes' = [nodes EXCEPT ![i] = Busy(nodes[i], ofs, len)] /\ len = nodes[i].length
     \/ nodes' = Split(i, Busy(nodes[i], ofs, len))
  /\ used' = (used + len) % Word
  /\ Hand(nodes[i].va + ofs, size)

OGiven ==
  \E x : /\ x.addr \in Int /\ x.size \in Nat \ {0} /\ OramVa <= x.addr /\ x.addr + x.size <= OramVa + OramSize
         /\ \A y \in OBlocks(nodes) : Apart(x, y)
         /\ OBlocks(nodes)' = OBlocks(nodes) \cup {x}

LEMMA OTake ==
  ASSUME OramAssumption, HeapListsAssumption, OInv, NEW i, NEW ofs, NEW len, NEW size, OTakes(i, ofs, len, size)
  PROVE  OInv' /\ (wrong' = 0 => wrong = 0 /\ nodes # << >> /\ OGiven)
  <1>1. /\ i \in 1..Len(nodes) /\ nodes[i].status = "free" /\ size \in OramSizes
        /\ ofs \in Nat /\ len \in Nat /\ ofs + size <= len /\ len <= nodes[i].length /\ size \in Nat
    BY DEF OTakes, OramAssumption
  <1>2. nodes # << >>
    BY <1>1
  <1>3. OChain(nodes) /\ nodes \in Seq(ONode) /\ Len(nodes) \in Nat
    BY <1>2, LenProperties DEF OInv, OChain
  <1>4. /\ nodes[i] \in ONode /\ nodes[i].va \in Nat /\ nodes[i].length \in Nat /\ ofs <= len
    <2>1. ofs <= len
      BY <1>1
    <2> QED
      BY <1>1, <1>3, <2>1, OFields
  <1>5. PICK n, rest, new : n = Busy(nodes[i], ofs, len) /\ rest = ORest(n, nodes[i].length) /\ new = nodes'
    OBVIOUS
  <1>6. n \in ONode /\ n.va = nodes[i].va /\ n.pa = nodes[i].pa /\ n.length = len
    <2>1. OIsBusy(Busy(nodes[i], ofs, len), nodes[i], ofs, len)
      BY <1>1, <1>4, OBusy
    <2> QED
      BY <1>5, <2>1 DEF OIsBusy
  <1>7. rest \in ONode
    <2>1. nodes[i].va \in Nat /\ nodes[i].pa \in Nat /\ nodes[i].length \in Nat
      BY <1>1, <1>3, OFields
    <2>2. PICK v, p, l : v = nodes[i].va + len /\ p = nodes[i].pa + len /\ l = nodes[i].length - len
      OBVIOUS
    <2>3. v \in Nat
      BY <1>1, <2>1, <2>2, SMTT(30)
    <2>4. p \in Nat
      BY <1>1, <2>1, <2>2, SMTT(30)
    <2>5. l \in Nat
      BY <1>1, <2>1, <2>2, SMTT(30)
    <2>6. rest = [va |-> v, pa |-> p, usr_va |-> 0, offset |-> 0, length |-> l, status |-> "free"]
      BY <1>5, <1>6, <2>2 DEF ORest
    <2> QED
      BY <2>3, <2>4, <2>5, <2>6 DEF ONode
  <1>8. PICK c, others : /\ c \in {1, 2} /\ (c = 1 => len = nodes[i].length) /\ others[1] = n /\ (c = 2 => others[2] = rest)
                         /\ new \in Seq(ONode) /\ IsReplaced(nodes, i, i, c, others, new)
    <2>1. CASE nodes' = [nodes EXCEPT ![i] = Busy(nodes[i], ofs, len)] /\ len = nodes[i].length
      <3>1. new = [nodes EXCEPT ![i] = n]
        BY <1>5, <2>1
      <3>2. new \in Seq(ONode) /\ IsReplaced(nodes, i, i, 1, <<n>>, new)
        BY <1>1, <1>3, <1>6, <3>1, ReplacedOne
      <3>3. 1 \in {1, 2} /\ <<n>>[1] = n /\ (1 = 2 => <<n>>[2] = rest) /\ (1 = 1 => len = nodes[i].length)
        BY <2>1
      <3> QED
        BY <3>2, <3>3
    <2>2. CASE nodes' = Split(i, Busy(nodes[i], ofs, len))
      <3>1. PICK two, o : two = 2 /\ o = <<n, rest>>
        OBVIOUS
      <3>2. new = Replaced(nodes, i, i, o)
        BY <1>5, <2>2, <3>1 DEF Split, ORest
      <3>3. o \in Seq(ONode) /\ two = Len(o) /\ o[1] = n /\ o[2] = rest
        BY <1>6, <1>7, <3>1
      <3>4. i \in i..Len(nodes)
        BY <1>1, <1>3
      <3>5. new \in Seq(ONode) /\ IsReplaced(nodes, i, i, two, o, new)
        BY <1>1, <1>3, <3>2, <3>3, <3>4, ReplacedList
      <3> QED
        BY <3>1, <3>3, <3>5
    <2> QED
      BY <2>1, <2>2 DEF OTakes
  <1>9. /\ OChain(new)
        /\ OGood(nodes) /\ ofs < len =>
              /\ OGood(new)
              /\ OBlocks(new) = OBlocks(nodes) \cup {[addr |-> nodes[i].va + ofs, size |-> len - ofs]}
              /\ \A u : OUsed(nodes, u) => OUsed(new, u + len)
    <2>1. OHandsOut(nodes, i, ofs, len, c, others, new)
      BY <1>1, <1>4, <1>5, <1>8 DEF OHandsOut
    <2>2. OChain(new) /\ (OGood(nodes) /\ ofs < len => OHandedOut(nodes, i, ofs, len, new))
      BY <1>3, <2>1, OAlloc
    <2> QED
      BY <2>2 DEF OHandedOut
  <1>10. PICK b : b = [addr |-> nodes[i].va + ofs, size |-> size]
    OBVIOUS
  <1>11. /\ used' = (used + len) % Word /\ held' = held \cup {b}
         /\ IF size = 0 THEN wrong < MaxWrong /\ wrong' = wrong + 1 ELSE wrong' = wrong
    BY <1>10 DEF OTakes, Hand
  <1>12. b.addr = nodes[i].va + ofs /\ b.size = size /\ b.addr \in Nat
    BY <1>1, <1>4, <1>10
  <1>13. used \in Nat /\ wrong \in 0..MaxWrong /\ MaxWrong \in Nat /\ Word \in Nat \ {0} /\ OramSize \in Nat /\ OramSize < Word
    BY DEF OInv, OTyped, HeapListsAssumption, OramAssumption
  <1>14. OTyped'
    <2>1. used' \in 0..Word - 1
      <3>1. used + len \in Int
        BY <1>1, <1>13
      <3> QED
        BY <1>11, <1>13, <3>1, ModRange
    <2>2. wrong' \in 0..MaxWrong
      BY <1>11, <1>13
    <2>3. \A d \in held' : d.addr \in Nat /\ d.size \in OramSizes
      BY <1>1, <1>11, <1>12 DEF OInv, OTyped
    <2> QED
      BY <2>1, <2>2, <2>3 DEF OTyped
  <1>15. nodes' # << >> /\ OChain(nodes')
    <2>1. Len(new) \in Nat \ {0}
      BY <1>9 DEF OChain, Tile
    <2> QED
      BY <1>5, <1>9, <2>1
  <1>16. ASSUME wrong' = 0
         PROVE  /\ wrong = 0 /\ OGiven
                /\ OGood(nodes') /\ OUsed(nodes', used') /\ OHeld(held', OBlocks(nodes'))
    <2>1. wrong = 0 /\ size # 0
      BY <1>11, <1>13, <1>16
    <2>2. OGood(nodes) /\ OUsed(nodes, used) /\ OHeld(held, OBlocks(nodes))
      BY <1>2, <2>1 DEF OInv
    <2>3. ofs < len /\ len - ofs \in Nat \ {0} /\ len - ofs >= size
      BY <1>1, <2>1
    <2>4. PICK x : x = [addr |-> nodes[i].va + ofs, size |-> len - ofs]
      OBVIOUS
    <2>5. x.addr = nodes[i].va + ofs /\ x.size = len - ofs /\ x.addr = b.addr /\ x.addr \in Int
      BY <1>12, <2>4
    <2>6. OGood(new) /\ OBlocks(new) = OBlocks(nodes) \cup {x} /\ OUsed(new, used + len)
      BY <1>9, <2>2, <2>3, <2>4
    <2>7. used' = used + len
      <3>1. used + len \in Nat /\ used + len <= OramSize
        BY <1>9, <2>6, OUsedBound
      <3>2. PICK u : u = used + len
        OBVIOUS
      <3>3. u \in Nat /\ u < Word
        BY <1>13, <3>1, <3>2
      <3>4. u % Word = u
        BY <1>13, <3>3, ModSmall
      <3> QED
        BY <1>11, <3>2, <3>4
    <2>8. PICK q, at, ln, top, bs : q = Len(nodes) /\ at = OAt(nodes) /\ ln = OLn(nodes) /\ top = OramVa + OramSize /\ bs = OBs(nodes)
      OBVIOUS
    <2>9. Tile(q, at, ln, OramVa, top) /\ InPieces(q, at, ln, bs) /\ OBlocks(nodes) = AllBlocks(q, bs)
      BY <1>3, <2>2, <2>8, OInPieces DEF OChain, OBlocks
    <2>10. at[i] = nodes[i].va /\ ln[i] = nodes[i].length /\ bs[i] = {} /\ i \in 1..q
      BY <1>1, <2>8 DEF OAt, OLn, OBs, OBlock
    <2>11. PICK a, s : a = nodes[i].va + ofs /\ s = len - ofs
      OBVIOUS
    <2>12. a \in Int /\ s \in Nat \ {0} /\ at[i] <= a
      BY <1>1, <1>4, <2>3, <2>10, <2>11
    <2>13. a + s <= at[i] + ln[i]
      <3>1. PICK v \in Int, l \in Int : v = nodes[i].va /\ l = nodes[i].length
        BY <1>4
      <3>2. len <= l /\ a = v + ofs /\ at[i] = v /\ ln[i] = l
        BY <1>1, <2>10, <2>11, <3>1
      <3>3. (v + ofs) + (len - ofs) <= v + l
        BY <1>1, <3>2
      <3> QED
        BY <2>11, <3>2, <3>3
    <2>14. ASSUME NEW y \in OBlocks(nodes)
           PROVE  /\ y.addr \in Int /\ y.size \in Nat \ {0} /\ y.addr # a
                  /\ a + s <= y.addr \/ y.addr + y.size <= a
      <3>1. y \in AllBlocks(q, bs)
        BY <2>9
      <3> QED
        BY <2>9, <2>10, <2>12, <2>13, <3>1, BlocksFree
    <2>15. OGiven
      <3>1. \A y \in OBlocks(nodes) : Apart(x, y)
        BY <2>5, <2>11, <2>14 DEF Apart
      <3>2. OramVa <= a /\ a + s <= OramVa + OramSize
        <4>1. OramVa <= at[i] /\ at[i] + ln[i] <= top
          BY <2>9, <2>10, TileOrder
        <4>2. OramVa \in Nat /\ top = OramVa + OramSize /\ top \in Int /\ at[i] \in Nat /\ ln[i] \in Nat
          BY <1>4, <1>13, <2>8, <2>10 DEF OramAssumption
        <4> QED
          BY <2>12, <2>13, <4>1, <4>2
      <3>3. OBlocks(nodes)' = OBlocks(nodes) \cup {x}
        BY <1>5, <2>6
      <3> QED
        BY <2>5, <2>11, <2>12, <3>1, <3>2, <3>3 DEF OGiven
    <2>16. OHeld(held', OBlocks(new))
      <3>1. \A d \in held' : \E y \in OBlocks(new) : y.addr = d.addr /\ y.size >= d.size
        <4>1. x \in OBlocks(new) /\ x.addr = b.addr /\ x.size >= b.size
          BY <1>12, <2>3, <2>5, <2>6
        <4>2. \A d \in held : \E y \in OBlocks(new) : y.addr = d.addr /\ y.size >= d.size
          BY <2>2, <2>6 DEF OHeld
        <4> QED
          BY <1>11, <4>1, <4>2
      <3>2. \A y \in OBlocks(new) : \E d \in held' : d.addr = y.addr
        BY <1>11, <2>2, <2>5, <2>6 DEF OHeld
      <3>3. \A d \in held : d.addr # b.addr
        <4>1. \A d \in held : \E y \in OBlocks(nodes) : y.addr = d.addr
          BY <2>2 DEF OHeld
        <4> QED
          BY <1>12, <2>11, <2>14, <4>1
      <3>4. \A d, e \in held' : d.addr = e.addr => d = e
        BY <1>11, <2>2, <3>3 DEF OHeld
      <3> QED
        BY <3>1, <3>2, <3>4 DEF OHeld
    <2> QED
      BY <1>5, <2>1, <2>6, <2>7, <2>15, <2>16
  <1>17. OInv'
    BY <1>14, <1>15, <1>16 DEF OInv
  <1> QED
    BY <1>2, <1>16, <1>17

\* FreeNode, whatever address it is given.
LEMMA OFreeNode ==
  ASSUME OramAssumption, HeapListsAssumption, OChain(nodes), used \in 0..Word - 1, NEW addr, FreeNode(addr)
  PROVE  /\ OChain(nodes') /\ used' \in 0..Word - 1
         /\ OGood(nodes) /\ OUsed(nodes, used) =>
              \A p \in 1..Len(nodes) :
                nodes[p].status = "busy" /\ buflist_find_node(nodes, addr) = {p} =>
                  /\ OGood(nodes') /\ OUsed(nodes', used')
                  /\ OBlocks(nodes') = OBlocks(nodes) \ OBlock(nodes[p])
  <1>1. nodes \in Seq(ONode) /\ Len(nodes) \in Nat /\ DOMAIN nodes = 1..Len(nodes)
    BY LenProperties DEF OChain
  <1>2. PICK I, old, new : I = buflist_find_node(nodes, addr) /\ old = nodes /\ new = nodes'
    OBVIOUS
  <1>3. CASE I = {}
    <2>1. nodes' = nodes /\ used' = used
      BY <1>2, <1>3 DEF FreeNode
    <2>2. \A p : {p} # {}
      OBVIOUS
    <2> QED
      BY <1>2, <1>3, <2>1, <2>2
  <1>4. CASE I # {}
    <2>1. I \in SUBSET Nat /\ I \subseteq 1..Len(nodes)
      BY <1>1, <1>2 DEF buflist_find_node
    <2>2. PICK p : p = First(I)
      OBVIOUS
    <2>3. p \in 1..Len(old) /\ OChain(old)
      BY <1>2, <1>4, <2>1, <2>2, FirstIs
    <2>4. PICK l2 : l2 = [old EXCEPT ![p].status = "free"]
      OBVIOUS
    <2>5. new = buflist_merge_node(l2, p) /\ used' = (used - nodes[p].length) % Word
      BY <1>2, <1>4, <2>2, <2>4 DEF FreeNode
    <2>6. PICK lo, hi, x : OMerged(old, p, lo, hi, x, buflist_merge_node(l2, p))
      BY <2>3, <2>4, OMerge
    <2>7. OMerged(old, p, lo, hi, x, new)
      BY <2>5, <2>6
    <2>8. /\ OChain(new)
          /\ OGood(old) /\ old[p].status = "busy" =>
              /\ OGood(new)
              /\ OBlocks(new) = OBlocks(old) \ OBlock(old[p])
              /\ \A u : OUsed(old, u) => OUsed(new, u - old[p].length)
      BY <2>3, <2>7, OFree
    <2>9. used \in Nat /\ Word \in Nat \ {0} /\ nodes[p].length \in Nat /\ Word > OramSize /\ OramSize \in Nat
      BY <1>1, <1>2, <2>3, OFields DEF HeapListsAssumption, OramAssumption
    <2>10. used' \in 0..Word - 1
      <3>1. used - nodes[p].length \in Int
        BY <2>9
      <3> QED
        BY <2>5, <2>9, <3>1, ModRange
    <2>11. ASSUME OGood(nodes), OUsed(nodes, used), NEW k \in 1..Len(nodes), nodes[k].status = "busy", I = {k}
           PROVE  /\ OGood(nodes') /\ OUsed(nodes', used')
                  /\ OBlocks(nodes') = OBlocks(nodes) \ OBlock(nodes[k])
      <3>1. p = k
        BY <2>1, <2>2, <2>11, FirstIs
      <3>2. /\ OGood(new) /\ OBlocks(new) = OBlocks(old) \ OBlock(old[p])
            /\ OUsed(new, used - old[p].length)
        BY <1>2, <2>8, <2>11, <3>1
      <3>3. PICK u : u = used - nodes[p].length
        OBVIOUS
      <3>4. u \in Nat /\ u <= OramSize
        BY <1>2, <2>8, <3>2, <3>3, OUsedBound
      <3>5. used' = u
        <4>1. Word \in Nat /\ u < Word
          BY <2>9, <3>4
        <4>2. u % Word = u
          BY <3>4, <4>1, ModSmall
        <4> QED
          BY <2>5, <3>3, <4>2
      <3> QED
        BY <1>2, <3>1, <3>2, <3>3, <3>5
    <2> QED
      BY <1>2, <2>8, <2>10, <2>11
  <1> QED
    BY <1>3, <1>4

OTaken == \E x \in OBlocks(nodes) : OBlocks(nodes)' = OBlocks(nodes) \ {x}

LEMMA OPutBack ==
  ASSUME OramAssumption, HeapListsAssumption, OInv, NEW b, oram_free(b)
  PROVE  OInv' /\ (wrong' = 0 => wrong = 0 /\ nodes # << >> /\ OTaken)
  <1>1. nodes # << >> /\ b \in held /\ FreeNode(b.addr) /\ held' = held \ {b} /\ wrong' = wrong
    BY DEF oram_free
  <1>2. OChain(nodes) /\ used \in 0..Word - 1 /\ wrong \in 0..MaxWrong
    BY <1>1 DEF OInv, OTyped
  <1>3. OChain(nodes') /\ used' \in 0..Word - 1
    BY <1>1, <1>2, OFreeNode
  <1>4. nodes' # << >>
    <2>1. Len(nodes') \in Nat \ {0}
      BY <1>3 DEF OChain, Tile
    <2> QED
      BY <2>1
  <1>5. OTyped'
    BY <1>1, <1>2, <1>3 DEF OInv, OTyped
  <1>6. ASSUME wrong = 0
        PROVE  OTaken /\ OGood(nodes') /\ OUsed(nodes', used') /\ OHeld(held', OBlocks(nodes'))
    <2>1. OGood(nodes) /\ OUsed(nodes, used) /\ OHeld(held, OBlocks(nodes))
      BY <1>1, <1>6 DEF OInv
    <2>2. PICK x \in OBlocks(nodes) : x.addr = b.addr
      BY <1>1, <2>1 DEF OHeld
    <2>a. PICK p : OFound(nodes, x, p)
      BY <1>2, <2>1, OFind
    <2>3. /\ p \in 1..Len(nodes) /\ nodes[p].status = "busy" /\ OBlock(nodes[p]) = {x}
          /\ buflist_find_node(nodes, x.addr) = {p}
      BY <2>a DEF OFound
    <2>4. OGood(nodes') /\ OUsed(nodes', used') /\ OBlocks(nodes') = OBlocks(nodes) \ {x}
      BY <1>1, <1>2, <2>1, <2>2, <2>3, OFreeNode
    <2>5. \A y \in OBlocks(nodes) : y.addr = x.addr => y = x
      <3> SUFFICES ASSUME NEW y \in OBlocks(nodes), y.addr = x.addr PROVE y = x
        OBVIOUS
      <3>1. PICK q : OFound(nodes, y, q)
        BY <1>2, <2>1, OFind
      <3>2. OBlock(nodes[q]) = {y} /\ buflist_find_node(nodes, y.addr) = {q}
        BY <3>1 DEF OFound
      <3>3. {q} = {p}
        BY <2>3, <3>2
      <3> QED
        BY <2>3, <3>2, <3>3
    <2>6. OHeld(held \ {b}, OBlocks(nodes) \ {x})
      <3>1. \A d \in held \ {b} : d.addr # b.addr
        BY <1>1, <2>1 DEF OHeld
      <3>2. \A d \in held \ {b} : \E y \in OBlocks(nodes) \ {x} : y.addr = d.addr /\ y.size >= d.size
        BY <2>1, <2>2, <3>1 DEF OHeld
      <3>3. \A y \in OBlocks(nodes) \ {x} : \E d \in held \ {b} : d.addr = y.addr
        BY <2>1, <2>2, <2>5 DEF OHeld
      <3> QED
        BY <2>1, <3>2, <3>3 DEF OHeld
    <2>7. OTaken
      BY <2>4 DEF OTaken
    <2> QED
      BY <1>1, <2>4, <2>6, <2>7
  <1>7. OInv'
    BY <1>1, <1>3, <1>4, <1>5, <1>6 DEF OInv
  <1> QED
    BY <1>1, <1>6, <1>7

LEMMA OMisuse ==
  ASSUME OramAssumption, HeapListsAssumption, OInv, NEW addr, WrongFree(addr)
  PROVE  OInv' /\ wrong' # 0
  <1>1. /\ nodes # << >> /\ FreeNode(addr) /\ held' = held /\ wrong < MaxWrong /\ wrong' = wrong + 1
        /\ wrong \in 0..MaxWrong /\ MaxWrong \in Nat
    BY DEF WrongFree, OInv, OTyped, HeapListsAssumption
  <1>2. OChain(nodes) /\ used \in 0..Word - 1
    BY <1>1 DEF OInv, OTyped
  <1>3. OChain(nodes') /\ used' \in 0..Word - 1
    BY <1>1, <1>2, OFreeNode
  <1>4. nodes' # << >>
    <2>1. Len(nodes') \in Nat \ {0}
      BY <1>3 DEF OChain, Tile
    <2> QED
      BY <2>1
  <1>5. wrong' \in 0..MaxWrong /\ wrong' # 0
    BY <1>1
  <1>6. OTyped'
    BY <1>1, <1>3, <1>5 DEF OInv, OTyped
  <1> QED
    BY <1>3, <1>4, <1>5, <1>6 DEF OInv

LEMMA OStart ==
  ASSUME OramAssumption, HeapListsAssumption, OInv, oram_memory_init
  PROVE  OInv' /\ wrong' = wrong /\ nodes = << >> /\ OBlocks(nodes)' = {}
  <1>1. PICK n : n = [va |-> OramVa, pa |-> OramPa, usr_va |-> OramVa, offset |-> 0, length |-> OramSize, status |-> "free"]
    OBVIOUS
  <1>2. nodes = << >> /\ nodes' = <<n>> /\ used' = 0 /\ held' = held /\ wrong' = wrong /\ held = {}
    BY <1>1 DEF oram_memory_init, OInv
  <1>3. OramVa \in Nat /\ OramPa \in Nat /\ OramSize \in Nat /\ OramSize > 0 /\ Word \in Nat \ {0}
    BY DEF OramAssumption, HeapListsAssumption
  <1>4. n \in ONode /\ n.va = OramVa /\ n.pa = OramPa /\ n.usr_va = OramVa /\ n.length = OramSize /\ n.status = "free"
    BY <1>1, <1>3 DEF ONode
  <1>5. PICK list : list = <<n>>
    OBVIOUS
  <1>6. list \in Seq(ONode) /\ Len(list) = 1 /\ list[1] = n /\ \A k \in 1..1 : k = 1
    BY <1>4, <1>5
  <1>7. OAt(list) = [k \in 1..1 |-> OramVa] /\ OLn(list) = [k \in 1..1 |-> OramSize]
    BY <1>4, <1>6 DEF OAt, OLn
  <1>8. Tile(1, [k \in 1..1 |-> OramVa], [k \in 1..1 |-> OramSize], OramVa, OramVa + OramSize)
    BY <1>3 DEF Tile
  <1>9. OChain(list)
    BY <1>4, <1>6, <1>7, <1>8 DEF OChain
  <1>10. OGood(list)
    BY <1>3, <1>4, <1>6 DEF OGood, OGoodNode
  <1>11. OBlocks(list) = {}
    BY <1>4, <1>6 DEF OBlocks, AllBlocks, OBs, OBlock
  <1>12. OUsed(list, 0)
    <2>1. OWs(list) = [k \in 1..1 |-> 0]
      BY <1>4, <1>6 DEF OWs, OWeight
    <2>2. Sums(1, OWs(list), [k \in 0..1 |-> 0])
      BY <2>1 DEF Sums
    <2>3. [k \in 0..1 |-> 0][1] = 0
      OBVIOUS
    <2> QED
      BY <1>6, <2>2, <2>3 DEF OUsed
  <1>13. OHeld({}, {})
    BY DEF OHeld
  <1>14. OTyped'
    BY <1>2, <1>3 DEF OInv, OTyped
  <1>15. nodes' = list /\ nodes' # << >>
    BY <1>2, <1>5
  <1> QED
    BY <1>2, <1>9, <1>10, <1>11, <1>12, <1>13, <1>14, <1>15 DEF OInv

LEMMA OStop ==
  ASSUME HeapListsAssumption, OInv, oram_memory_deinit
  PROVE  OInv' /\ wrong' = wrong /\ OBlocks(nodes)' = {}
  <1>1. OInv' /\ wrong' = wrong /\ nodes' = << >>
    BY DEF OInv, OTyped, oram_memory_deinit, HeapListsAssumption
  <1>2. OBlocks(nodes)' = {}
    <2>1. Len(nodes') = 0 /\ 1..0 = {}
      BY <1>1
    <2> QED
      BY <2>1 DEF OBlocks, AllBlocks
  <1> QED
    BY <1>1, <1>2

\* What a call is to the abstract heap.
OMove ==
  wrong' # 0 \/ (wrong' = wrong /\ (OGiven \/ OTaken \/ OBlocks(nodes)' = {}))

OFitting(i, al, size) ==
  /\ i \in 1..Len(nodes) /\ nodes[i] \in ONode
  /\ nodes[i].va \in Nat /\ nodes[i].length \in Nat /\ nodes[i].status = "free"
  /\ Offset(nodes[i], al) \in Nat /\ size \in Nat
  /\ nodes[i].length >= size + Offset(nodes[i], al)

LEMMA OFit ==
  ASSUME OramAssumption, OInv, NEW al \in Nat \ {0}, NEW size \in OramSizes, OramFits(al, size) # {},
         NEW i, i = First(OramFits(al, size))
  PROVE  OFitting(i, al, size)
  <1>1. DOMAIN nodes = 1..Len(nodes) /\ Len(nodes) \in Nat
    <2>1. nodes = << >> \/ nodes \in Seq(ONode)
      BY DEF OInv, OChain
    <2> QED
      BY <2>1, LenProperties
  <1>2. PICK I : I = OramFits(al, size)
    OBVIOUS
  <1>3. I \subseteq 1..Len(nodes)
    BY <1>1, <1>2 DEF OramFits
  <1>4. I \in SUBSET Nat
    BY <1>1, <1>3
  <1>5. i \in I
    BY <1>2, <1>4, FirstIs
  <1>6. i \in 1..Len(nodes) /\ nodes[i].status = "free" /\ nodes[i].length >= size + Offset(nodes[i], al)
    BY <1>2, <1>3, <1>5 DEF OramFits
  <1>7. nodes \in Seq(ONode)
    <2>1. nodes # << >>
      BY <1>6
    <2> QED
      BY <2>1 DEF OInv, OChain
  <1>8. nodes[i] \in ONode /\ nodes[i].va \in Nat /\ nodes[i].pa \in Nat /\ nodes[i].length \in Nat
    BY <1>6, <1>7, OFields
  <1>9. Offset(nodes[i], al) \in Nat
    <2>1. PICK a, m : a = nodes[i].pa /\ m = a % al
      OBVIOUS
    <2>2. a \in Int
      BY <1>8, <2>1
    <2>3. m \in 0..al - 1
      BY <2>1, <2>2, ModRange
    <2>4. Offset(nodes[i], al) = IF m = 0 THEN 0 ELSE al - m
      BY <2>1 DEF Offset
    <2> QED
      BY <2>3, <2>4
  <1>10. size \in Nat
    BY DEF OramAssumption
  <1> QED
    BY <1>6, <1>8, <1>9, <1>10 DEF OFitting

LEMMA OStep ==
  ASSUME OramAssumption, HeapListsAssumption, OInv, OramNext
  PROVE  OInv' /\ OMove
  <1>1. CASE oram_memory_init
    BY <1>1, OStart DEF OMove
  <1>2. CASE oram_memory_deinit
    BY <1>2, OStop DEF OMove
  <1>3. ASSUME NEW size \in OramSizes, oram_malloc(size) PROVE OInv' /\ OMove
    <2>1. PICK i : i = First(OramFits(1, size))
      OBVIOUS
    <2>2. OramFits(1, size) # {}
      BY <1>3 DEF oram_malloc
    <2>3. /\ i \in 1..Len(nodes) /\ nodes[i] \in ONode
          /\ nodes[i].va \in Nat /\ nodes[i].length \in Nat /\ nodes[i].status = "free"
          /\ Offset(nodes[i], 1) \in Nat /\ size \in Nat
          /\ nodes[i].length >= size + Offset(nodes[i], 1)
      <3>1. PICK one : one = 1
        OBVIOUS
      <3>2. one \in Nat \ {0} /\ OramFits(one, size) # {} /\ i = First(OramFits(one, size))
        BY <2>1, <2>2, <3>1
      <3>3. OFitting(i, one, size)
        BY <3>2, OFit
      <3> QED
        BY <3>1, <3>3 DEF OFitting
    <2>8. nodes[i].length >= size
      BY <2>3
    <2>9. PICK n : n = Busy(nodes[i], 0, size)
      OBVIOUS
    <2>10. n.usr_va = nodes[i].va + 0
      <3>1. OIsBusy(Busy(nodes[i], 0, size), nodes[i], 0, size)
        BY <2>3, OBusy
      <3> QED
        BY <2>9, <3>1 DEF OIsBusy
    <2>11. nodes' = Split(i, n) /\ used' = (used + size) % Word /\ Hand(n.usr_va, size)
      BY <1>3, <2>1, <2>9 DEF oram_malloc
    <2>12. OTakes(i, 0, size, size)
      BY <2>3, <2>8, <2>9, <2>10, <2>11 DEF OTakes
    <2> QED
      BY <2>12, OTake DEF OMove
  <1>4. ASSUME NEW al \in OramAligns, NEW size \in OramSizes, oram_memalign(al, size) PROVE OInv' /\ OMove
    <2>1. PICK i : i = First(OramFits(al, size))
      OBVIOUS
    <2>2. OramFits(al, size) # {} /\ al \in Nat \ {0}
      BY <1>4 DEF oram_memalign, OramAssumption
    <2>3. /\ i \in 1..Len(nodes) /\ nodes[i] \in ONode
          /\ nodes[i].va \in Nat /\ nodes[i].length \in Nat /\ nodes[i].status = "free"
          /\ Offset(nodes[i], al) \in Nat /\ size \in Nat
          /\ nodes[i].length >= size + Offset(nodes[i], al)
      <3>1. OFitting(i, al, size)
        BY <2>1, <2>2, OFit
      <3> QED
        BY <3>1 DEF OFitting
    <2>6. PICK ofs : ofs = Offset(nodes[i], al)
      OBVIOUS
    <2>8. ofs \in Nat /\ nodes[i].length >= size + ofs
      BY <2>3, <2>6
    <2>9. PICK whole, len, n :
            /\ whole = (nodes[i].length - (size + ofs) < MinRest)
            /\ len = (IF whole THEN nodes[i].length ELSE size + ofs)
            /\ n = Busy(nodes[i], ofs, len)
      OBVIOUS
    <2>10. len \in Nat /\ ofs + size <= len /\ len <= nodes[i].length
      <3>1. len = nodes[i].length \/ len = size + ofs
        BY <2>9
      <3> QED
        BY <2>3, <2>8, <3>1
    <2>11. n.usr_va = nodes[i].va + ofs /\ n.length = len
      <3>1. OIsBusy(Busy(nodes[i], ofs, len), nodes[i], ofs, len)
        BY <2>3, <2>8, <2>10, OBusy
      <3> QED
        BY <2>9, <3>1 DEF OIsBusy
    <2>12. /\ nodes' = IF whole THEN [nodes EXCEPT ![i] = n] ELSE Split(i, n)
           /\ used' = (used + n.length) % Word /\ Hand(n.usr_va, size)
      BY <1>4, <2>1, <2>6, <2>9 DEF oram_memalign
    <2>13. \/ nodes' = [nodes EXCEPT ![i] = Busy(nodes[i], ofs, len)] /\ len = nodes[i].length
           \/ nodes' = Split(i, Busy(nodes[i], ofs, len))
      BY <2>9, <2>12
    <2>14. used' = (used + len) % Word /\ Hand(nodes[i].va + ofs, size)
      BY <2>11, <2>12
    <2>15. OTakes(i, ofs, len, size)
      BY <2>3, <2>8, <2>10, <2>13, <2>14 DEF OTakes
    <2> QED
      BY <2>15, OTake DEF OMove
  <1>5. ASSUME NEW b \in held, oram_free(b) PROVE OInv' /\ OMove
    BY <1>5, OPutBack DEF OMove
  <1>6. ASSUME NEW addr, WrongFree(addr) PROVE OInv' /\ OMove
    BY <1>6, OMisuse DEF OMove
  <1> QED
    BY <1>1, <1>2, <1>3, <1>4, <1>5, <1>6 DEF OramNext

\* What is counted is what LengthOf adds up.
LEMMA OUsedIs ==
  ASSUME NEW list \in Seq(ONode), NEW u, OUsed(list, u), NEW B, B = {i \in DOMAIN list : list[i].status = "busy"}
  PROVE  u = LengthOf([i \in DOMAIN list |-> [length |-> IF i \in B THEN list[i].length ELSE 0]])
  <1>1. Len(list) \in Nat /\ DOMAIN list = 1..Len(list)
    BY LenProperties
  <1>2. PICK n, s : n = Len(list) /\ s = [i \in 1..n |-> [length |-> IF i \in B THEN list[i].length ELSE 0]]
    OBVIOUS
  <1>3. n \in Nat /\ n = Len(s)
    BY <1>1, <1>2
  <1>4. OWs(list) \in [1..n -> Int] /\ \A k \in 1..n : OWs(list)[k] = s[k].length
    BY <1>1, <1>2, OWeights DEF OWeight
  <1>5. PICK P : Sums(n, OWs(list), P) /\ P[n] = u
    BY <1>2 DEF OUsed
  <1>6. LengthOf(s) = P[n]
    BY <1>3, <1>4, <1>5, LengthOfIs
  <1> QED
    BY <1>1, <1>2, <1>5, <1>6

LEMMA OInitInv ==
  ASSUME HeapListsAssumption, OramInit
  PROVE  OInv
  BY DEF OramInit, OInv, OTyped, HeapListsAssumption

LEMMA OStutter ==
  ASSUME OInv, UNCHANGED oramVars
  PROVE  OInv'
  BY DEF OInv, OTyped, OChain, OGood, OUsed, OBlocks, OBs, OWs, OAt, OLn, oramVars

LEMMA OTilesInv ==
  ASSUME OInv
  PROVE  OramTiles
  <1>1. OramTypeOK
    <2>1. nodes \in Seq(ONode)
      <3>1. CASE nodes = << >>
        BY <3>1, EmptySeq
      <3>2. CASE OChain(nodes)
        BY <3>2 DEF OChain
      <3> QED
        BY <3>1, <3>2 DEF OInv
    <2> QED
      BY <2>1 DEF OInv, OTyped, OramTypeOK, ONode
  <1>2. ASSUME nodes # << >>, NEW n, n = Len(nodes)
        PROVE  /\ nodes[1].va = OramVa /\ nodes[n].va + nodes[n].length = OramVa + OramSize
               /\ \A i \in 1..n : nodes[i].pa - nodes[i].va = OramPa - OramVa
               /\ \A i \in 1..n - 1 : /\ nodes[i + 1].va = nodes[i].va + nodes[i].length
                                      /\ nodes[i].status = "busy" \/ nodes[i + 1].status = "busy"
    <2>1. OChain(nodes)
      BY <1>2 DEF OInv
    <2>2. n \in Nat \ {0} /\ 1 \in 1..n /\ n \in 1..n /\ \A i \in 1..n - 1 : i \in 1..n /\ i + 1 \in 1..n
      BY <1>2, <2>1 DEF OChain, Tile
    <2>3. \A i \in 1..n : OAt(nodes)[i] = nodes[i].va /\ OLn(nodes)[i] = nodes[i].length
      BY <1>2 DEF OAt, OLn
    <2>4. /\ OAt(nodes)[1] = OramVa /\ OAt(nodes)[n] + OLn(nodes)[n] = OramVa + OramSize
          /\ \A i \in 1..n - 1 : OAt(nodes)[i + 1] = OAt(nodes)[i] + OLn(nodes)[i]
      BY <1>2, <2>1 DEF OChain, Tile
    <2>5. \A i \in 1..n - 1 : nodes[i + 1].va = nodes[i].va + nodes[i].length
      BY <2>2, <2>3, <2>4
    <2>6. nodes[1].va = OramVa /\ nodes[n].va + nodes[n].length = OramVa + OramSize
      BY <2>2, <2>3, <2>4
    <2> QED
      BY <1>2, <2>1, <2>5, <2>6 DEF OChain
  <1> QED
    BY <1>1, <1>2 DEF OramTiles

LEMMA OFindsInv ==
  ASSUME OramAssumption, OInv
  PROVE  OramFindsOwn
  <1> SUFFICES ASSUME wrong = 0
               PROVE  /\ \A b \in held : LET I == buflist_find_node(nodes, b.addr) IN
                           /\ I # {} /\ nodes[First(I)].status = "busy"
                           /\ nodes[First(I)].length - nodes[First(I)].offset >= b.size
                      /\ \A i \in BusyNodes : \E b \in held : b.addr = nodes[i].usr_va
                      /\ used = LengthOf([i \in DOMAIN nodes |->
                                  [length |-> IF i \in BusyNodes THEN nodes[i].length ELSE 0]])
    BY DEF OramFindsOwn
  <1>1. CASE nodes = << >>
    <2>1. held = {} /\ used = 0
      BY <1>1 DEF OInv
    <2>2. PICK list : list = << >>
      OBVIOUS
    <2>3. list \in Seq(ONode) /\ Len(list) = 0 /\ nodes = list
      BY <1>1, <2>2
    <2>4. OUsed(list, 0)
      <3>1. OWs(list) \in [1..0 -> Int]
        BY <2>3 DEF OWs
      <3>2. Sums(0, OWs(list), [k \in 0..0 |-> 0])
        BY <3>1 DEF Sums
      <3>3. [k \in 0..0 |-> 0][0] = 0
        OBVIOUS
      <3> QED
        BY <2>3, <3>2, <3>3 DEF OUsed
    <2>5. nodes \in Seq(ONode) /\ OUsed(nodes, used)
      BY <2>1, <2>3, <2>4
    <2>6. used = LengthOf([i \in DOMAIN nodes |-> [length |-> IF i \in BusyNodes THEN nodes[i].length ELSE 0]])
      BY <2>5, OUsedIs DEF BusyNodes
    <2>7. BusyNodes = {}
      BY <1>1 DEF BusyNodes
    <2> QED
      BY <2>1, <2>6, <2>7
  <1>2. CASE nodes # << >>
    <2>1. OChain(nodes) /\ OGood(nodes) /\ OUsed(nodes, used) /\ OHeld(held, OBlocks(nodes)) /\ nodes \in Seq(ONode)
      BY <1>2 DEF OInv, OChain
    <2>2. used = LengthOf([i \in DOMAIN nodes |-> [length |-> IF i \in BusyNodes THEN nodes[i].length ELSE 0]])
      BY <2>1, OUsedIs DEF BusyNodes
    <2>3. ASSUME NEW i \in BusyNodes PROVE \E b \in held : b.addr = nodes[i].usr_va
      <3>1. i \in 1..Len(nodes) /\ nodes[i].status = "busy"
        BY <2>1, <2>3, LenProperties DEF BusyNodes
      <3>2. PICK x : x = [addr |-> nodes[i].usr_va, size |-> nodes[i].length - nodes[i].offset]
        OBVIOUS
      <3>3. x \in OBs(nodes)[i]
        BY <3>1, <3>2 DEF OBs, OBlock
      <3>4. x \in OBlocks(nodes)
        BY <3>1, <3>3 DEF OBlocks, AllBlocks
      <3> QED
        BY <2>1, <3>2, <3>4 DEF OHeld
    <2>4. ASSUME NEW b \in held, NEW I, I = buflist_find_node(nodes, b.addr)
          PROVE  /\ I # {} /\ nodes[First(I)].status = "busy"
                 /\ nodes[First(I)].length - nodes[First(I)].offset >= b.size
      <3>1. PICK x \in OBlocks(nodes) : x.addr = b.addr /\ x.size >= b.size
        BY <2>1 DEF OHeld
      <3>2. PICK p : OFound(nodes, x, p)
        BY <2>1, OFind
      <3>3. /\ p \in 1..Len(nodes) /\ nodes[p].status = "busy" /\ I = {p}
            /\ x.size = nodes[p].length - nodes[p].offset
        BY <2>4, <3>1, <3>2 DEF OFound
      <3>4. First(I) = p
        BY <3>3 DEF First
      <3> QED
        BY <3>1, <3>3, <3>4
    <2> QED
      BY <2>2, <2>3, <2>4
  <1> QED
    BY <1>1, <1>2

-----------------------------------------------------------------------------
(* The theorems about the ORAM heap.                                       *)

LEMMA OramInvariant == OramSpec => []OInv
<1>1. OramInit => OInv
  BY OInitInv, HeapListsAssumption
<1>2. OInv /\ [OramNext]_oramVars => OInv'
  BY OStep, OStutter, HeapListsAssumption, OramAssumption
<1> QED
  BY <1>1, <1>2, PTL DEF OramSpec

\* Whatever programs do with oram_malloc, oram_memalign and oram_free, blocks
\* of size 0 and wrong frees included, in an ORAM of any size: buf_list.cc loses
\* no memory, keeps virtual and physical addresses in step, and leaves no two
\* free nodes side by side.
THEOREM OramTilesAlways == OramSpec => []OramTiles
<1>1. OInv => OramTiles
  BY OTilesInv
<1> QED
  BY <1>1, OramInvariant, PTL

\* While programs keep the rules, oram_free finds the node of the block it is
\* given, although the search does not look at the status of nodes and free
\* nodes keep the address they were handed out with; and mp_memory_used is
\* exactly the memory in busy nodes.
THEOREM OramFindsOwnAlways == OramSpec => []OramFindsOwn
<1>1. OInv => OramFindsOwn
  BY OFindsInv, OramAssumption
<1> QED
  BY <1>1, OramInvariant, PTL

\* The ORAM heap implements the abstract heap: oram_malloc and oram_memalign
\* hand out memory inside the ORAM and apart from every busy node, and
\* oram_free and the merging that follows disturb no other block.
THEOREM OramRefinesHeap == OramSpec => OramImplementsHeap
<1> DEFINE B == {[addr |-> nodes[i].usr_va, size |-> nodes[i].length - nodes[i].offset] : i \in BusyNodes}
<1>1. ASSUME OInv PROVE B = OBlocks(nodes)
  <2>1. nodes = << >> \/ nodes \in Seq(ONode)
    BY <1>1 DEF OInv, OChain
  <2>2. DOMAIN nodes = 1..Len(nodes)
    BY <2>1, LenProperties
  <2> QED
    BY <2>2 DEF BusyNodes, OBlocks, AllBlocks, OBs, OBlock
<1>2. OramInit => OramBlocks!Init
  BY DEF OramInit, OramBlocks!Init, BusyNodes
<1>3. ASSUME OInv, OInv', OramNext PROVE [OramBlocks!Next]_<<B, (wrong = 0)>>
  <2>1. OMove
    BY <1>3, OStep, HeapListsAssumption, OramAssumption
  <2>2. B = OBlocks(nodes) /\ B' = OBlocks(nodes)'
    <3>1. B = OBlocks(nodes)
      BY <1>1, <1>3
    <3>2. (OInv => B = OBlocks(nodes))'
      BY <1>1, PTL
    <3> QED
      BY <1>3, <3>1, <3>2
  <2> HIDE DEF B
  <2>3. CASE wrong' # 0
    BY <2>3 DEF OramBlocks!Next, OramBlocks!Misuse
  <2>4. CASE wrong' = wrong /\ OGiven
    <3>1. PICK x : /\ x.addr \in Int /\ x.size \in Nat \ {0} /\ OramVa <= x.addr /\ x.addr + x.size <= OramVa + OramSize
                   /\ \A y \in B : Apart(x, y)
                   /\ B' = B \cup {x}
      BY <2>2, <2>4 DEF OGiven
    <3>2. OramBlocks!Alloc
      BY <3>1 DEF OramBlocks!Alloc, OramBlocks!Within, OramBlocks!Apart, Apart, B
    <3> QED
      BY <2>4, <3>2 DEF OramBlocks!Next
  <2>5. CASE wrong' = wrong /\ OTaken
    BY <2>2, <2>5 DEF OTaken, OramBlocks!Next, OramBlocks!Free, B
  <2>6. CASE wrong' = wrong /\ OBlocks(nodes)' = {}
    BY <2>2, <2>6 DEF OramBlocks!Next, OramBlocks!Reset, B
  <2> QED
    BY <2>1, <2>3, <2>4, <2>5, <2>6 DEF OMove
<1>4. UNCHANGED oramVars => UNCHANGED <<B, (wrong = 0)>>
  BY DEF oramVars, BusyNodes
<1>5. OInv /\ OInv' /\ [OramNext]_oramVars => [OramBlocks!Next]_<<B, (wrong = 0)>>
  BY <1>3, <1>4
<1> QED
  BY <1>2, <1>5, OramInvariant, PTL DEF OramSpec, OramImplementsHeap, OramBlocks!Spec

-----------------------------------------------------------------------------
(* The list of the DDR heap.                                               *)

DNode == [vaddr : Int, length : Nat, offset : Nat, status : {"free", "busy"}]

DAt(list) == [k \in 1..Len(list) |-> Begin(list[k])]

DLn(list) == [k \in 1..Len(list) |-> list[k].length]

\* No unit is empty, and the address of a busy one is inside it.
DGood(u) == u.length >= 1 /\ (u.status = "busy" => u.offset < u.length)

\* The list tiles the heap and has no two free neighbours.
DChain(list) ==
  /\ list \in Seq(DNode)
  /\ Tile(Len(list), DAt(list), DLn(list), Start, HeapBase + HeapSize)
  /\ \A k \in 1..Len(list) : DGood(list[k])
  /\ \A k \in 1..Len(list) - 1 : list[k].status = "busy" \/ list[k + 1].status = "busy"

\* What may take the place of units i..j.
DSuits(list, i, j, c, others) ==
  /\ c \in {1, 2} /\ \A x \in 1..c : others[x] \in DNode /\ DGood(others[x])
  /\ Begin(others[1]) = Begin(list[i])
  /\ Begin(others[c]) + others[c].length = Begin(list[j]) + list[j].length
  /\ c = 2 => Begin(others[2]) = Begin(others[1]) + others[1].length /\ others[1].status = "busy"
  /\ i > 1 => list[i - 1].status = "busy" \/ others[1].status = "busy"
  /\ j < Len(list) => others[c].status = "busy" \/ list[j + 1].status = "busy"

LEMMA DFields ==
  ASSUME NEW list \in Seq(DNode), NEW k \in 1..Len(list)
  PROVE  /\ list[k] \in DNode /\ list[k].vaddr \in Int /\ list[k].offset \in Nat /\ list[k].length \in Nat
         /\ list[k].status \in {"free", "busy"} /\ Begin(list[k]) \in Int
  <1>1. list[k] \in DNode
    BY ElementOfSeq
  <1>2. /\ list[k].vaddr \in Int /\ list[k].offset \in Nat /\ list[k].length \in Nat
        /\ list[k].status \in {"free", "busy"}
    BY <1>1 DEF DNode
  <1>3. Begin(list[k]) \in Int
    BY <1>2 DEF Begin
  <1> QED
    BY <1>1, <1>2, <1>3

LEMMA DChainReplace ==
  ASSUME NEW list, DChain(list), NEW i \in 1..Len(list), NEW j \in i..Len(list),
         NEW c, NEW others, DSuits(list, i, j, c, others),
         NEW r \in Seq(DNode), IsReplaced(list, i, j, c, others, r)
  PROVE  DChain(r)
  <1>1. list \in Seq(DNode) /\ Len(list) \in Nat /\ Tile(Len(list), DAt(list), DLn(list), Start, HeapBase + HeapSize)
    BY LenProperties DEF DChain
  <1>2. /\ i \in Nat /\ j \in Nat /\ c \in {1, 2} /\ 1 <= i /\ i <= j /\ j <= Len(list)
        /\ Len(r) \in Nat /\ Len(r) = Len(list) - (j - i + 1) + c
    BY <1>1 DEF IsReplaced, DSuits
  <1>3. Tile(Len(r), DAt(r), DLn(r), Start, HeapBase + HeapSize)
    <2>1. DAt(r) \in [1..Len(r) -> Int] /\ DLn(r) \in [1..Len(r) -> Nat]
      <3>1. \A k \in 1..Len(r) : Begin(r[k]) \in Int /\ r[k].length \in Nat
        BY DFields
      <3> QED
        BY <3>1 DEF DAt, DLn
    <2>2. /\ \A k \in 1..Len(list) : DAt(list)[k] = Begin(list[k]) /\ DLn(list)[k] = list[k].length
          /\ \A k \in 1..Len(r) : DAt(r)[k] = Begin(r[k]) /\ DLn(r)[k] = r[k].length
      BY DEF DAt, DLn
    <2>3. ASSUME NEW k \in 1..i - 1 PROVE DAt(r)[k] = DAt(list)[k] /\ DLn(r)[k] = DLn(list)[k]
      <3>1. k \in 1..Len(list) /\ k \in 1..Len(r)
        BY <1>2
      <3>2. r[k] = list[k]
        BY DEF IsReplaced
      <3> QED
        BY <2>2, <3>1, <3>2
    <2>4. ASSUME NEW k \in i + c..Len(r)
          PROVE  /\ DAt(r)[k] = DAt(list)[k + (j - i + 1) - c]
                 /\ DLn(r)[k] = DLn(list)[k + (j - i + 1) - c]
      <3>1. k + (j - i + 1) - c \in j + 1..Len(list) /\ r[k] = list[k + (j - i + 1) - c]
        BY DEF IsReplaced
      <3>2. k + (j - i + 1) - c \in 1..Len(list) /\ k \in 1..Len(r)
        BY <1>2, <3>1
      <3> QED
        BY <2>2, <3>1, <3>2
    <2>5. /\ i \in 1..Len(r) /\ i + c - 1 \in 1..Len(r) /\ 1 \in 1..c /\ c \in 1..c
          /\ i - 1 + 1 = i /\ i - 1 + c = i + c - 1 /\ (c = 2 => i - 1 + c = i + 1)
      BY <1>2
    <2>6. r[i] = others[1] /\ r[i + c - 1] = others[c]
      <3>1. r[i - 1 + 1] = others[1] /\ r[i - 1 + c] = others[c]
        BY <2>5 DEF IsReplaced
      <3> QED
        BY <2>5, <3>1
    <2>7. DAt(r)[i] = DAt(list)[i]
      BY <2>2, <2>5, <2>6 DEF DSuits
    <2>8. DAt(r)[i + c - 1] + DLn(r)[i + c - 1] = DAt(list)[j] + DLn(list)[j]
      <3>1. j \in 1..Len(list)
        BY <1>2
      <3> QED
        BY <2>2, <2>5, <2>6, <3>1 DEF DSuits
    <2>9. c = 2 => DAt(r)[i + 1] = DAt(r)[i] + DLn(r)[i]
      <3> SUFFICES ASSUME c = 2 PROVE DAt(r)[i + 1] = DAt(r)[i] + DLn(r)[i]
        OBVIOUS
      <3>1. i + c - 1 = i + 1
        BY <1>2
      <3>2. DAt(r)[i + 1] = Begin(others[2]) /\ DAt(r)[i] = Begin(others[1]) /\ DLn(r)[i] = others[1].length
        BY <2>2, <2>5, <2>6, <3>1
      <3> QED
        BY <3>2 DEF DSuits
    <2>10. PICK at, ln, at2, ln2 : at = DAt(list) /\ ln = DLn(list) /\ at2 = DAt(r) /\ ln2 = DLn(r)
      OBVIOUS
    <2>11. PICK n, m, hi : n = Len(list) /\ m = Len(r) /\ hi = HeapBase + HeapSize
      OBVIOUS
    <2>12. Tile(n, at, ln, Start, hi) /\ i \in 1..n /\ j \in i..n
      BY <1>1, <2>10, <2>11
    <2>13. TileStep(n, at, ln, i, j, c, m, at2, ln2)
      BY <1>2, <2>1, <2>3, <2>4, <2>7, <2>8, <2>9, <2>10, <2>11 DEF TileStep
    <2>14. Tile(m, at2, ln2, Start, hi)
      BY <1>2, <2>12, <2>13, TileReplace
    <2> QED
      BY <2>10, <2>11, <2>14
  <1>4. ASSUME NEW k \in 1..Len(r) PROVE DGood(r[k])
    <2>1. Len(list) \in Nat /\ c \in {1, 2}
      BY <1>1, <1>2
    <2>2. ElementFrom(list, i, j, c, others, r, k)
      BY <2>1, ReplacedElement
    <2> QED
      BY <2>2 DEF ElementFrom, DChain, DSuits
  <1>5. ASSUME NEW k \in 1..Len(r) - 1 PROVE r[k].status = "busy" \/ r[k + 1].status = "busy"
    <2>1. PairFrom(list, i, j, c, others, r, k)
      <3>1. Len(list) \in Nat /\ c \in {1, 2}
        BY <1>1, <1>2
      <3> QED
        BY <3>1, ReplacedPair
    <2> QED
      BY <2>1 DEF PairFrom, DChain, DSuits
  <1> QED
    BY <1>3, <1>4, <1>5 DEF DChain

\* The block in a unit, and its size.
DBlock(u) == IF u.status = "busy" THEN {[addr |-> u.vaddr, size |-> u.length - u.offset]} ELSE {}

DWeight(u) == IF u.status = "busy" THEN u.length - u.offset ELSE 0

DBs(list) == [k \in 1..Len(list) |-> DBlock(list[k])]

DWs(list) == [k \in 1..Len(list) |-> DWeight(list[k])]

DBlocks(list) == AllBlocks(Len(list), DBs(list))

DUsed(list, u) == \E P : Sums(Len(list), DWs(list), P) /\ P[Len(list)] = u

LEMMA DInPieces ==
  ASSUME NEW list, DChain(list)
  PROVE  InPieces(Len(list), DAt(list), DLn(list), DBs(list))
  <1>1. list \in Seq(DNode)
    BY DEF DChain
  <1>2. ASSUME NEW k \in 1..Len(list), NEW x \in DBs(list)[k]
        PROVE  /\ x.addr \in Int /\ x.size \in Nat \ {0}
               /\ DAt(list)[k] <= x.addr /\ x.addr + x.size <= DAt(list)[k] + DLn(list)[k]
    <2>1. /\ list[k].vaddr \in Int /\ list[k].offset \in Nat /\ list[k].length \in Nat
          /\ DAt(list)[k] = Begin(list[k]) /\ DLn(list)[k] = list[k].length
      BY <1>1, DFields DEF DAt, DLn
    <2>2. list[k].status = "busy" /\ x = [addr |-> list[k].vaddr, size |-> list[k].length - list[k].offset]
      BY <1>2 DEF DBs, DBlock
    <2>3. list[k].offset < list[k].length
      BY <2>2 DEF DChain, DGood
    <2>4. Begin(list[k]) = list[k].vaddr - list[k].offset
      BY <2>2 DEF Begin
    <2> QED
      BY <2>1, <2>2, <2>3, <2>4
  <1>3. ASSUME NEW k \in 1..Len(list), NEW x \in DBs(list)[k], NEW y \in DBs(list)[k] PROVE x = y
    BY <1>3 DEF DBs, DBlock
  <1> QED
    BY <1>2, <1>3 DEF InPieces

LEMMA DWeights ==
  ASSUME NEW list, DChain(list)
  PROVE  /\ Len(list) \in Nat /\ DWs(list) \in [1..Len(list) -> Nat] /\ DWs(list) \in [1..Len(list) -> Int]
         /\ \A k \in 1..Len(list) : DWs(list)[k] = DWeight(list[k]) /\ DWs(list)[k] <= DLn(list)[k]
  <1>0. list \in Seq(DNode)
    BY DEF DChain
  <1>1. \A k \in 1..Len(list) : /\ DWeight(list[k]) \in Nat /\ DWeight(list[k]) <= list[k].length
    <2> SUFFICES ASSUME NEW k \in 1..Len(list) PROVE DWeight(list[k]) \in Nat /\ DWeight(list[k]) <= list[k].length
      OBVIOUS
    <2>1. list[k].length \in Nat /\ list[k].offset \in Nat /\ DGood(list[k])
      BY <1>0, DFields DEF DChain
    <2> QED
      BY <2>1 DEF DWeight, DGood
  <1> QED
    BY <1>0, <1>1, LenProperties DEF DWs, DLn

LEMMA DElsewhere ==
  ASSUME NEW list, Len(list) \in Nat, NEW i \in 1..Len(list), NEW j \in i..Len(list),
         NEW c \in {1, 2}, NEW others, NEW r, IsReplaced(list, i, j, c, others, r)
  PROVE  /\ Elsewhere(Len(list), DBs(list), i, j, c, Len(r), DBs(r))
         /\ Elsewhere(Len(list), DWs(list), i, j, c, Len(r), DWs(r))
         /\ i \in 1..Len(r) /\ DBs(r)[i] = DBlock(others[1]) /\ DWs(r)[i] = DWeight(others[1])
         /\ c = 2 => /\ i + 1 \in 1..Len(r)
                     /\ DBs(r)[i + 1] = DBlock(others[2]) /\ DWs(r)[i + 1] = DWeight(others[2])
  <1>1. /\ i \in Nat /\ j \in Nat /\ 1 <= i /\ i <= j /\ j <= Len(list)
        /\ Len(r) \in Nat /\ Len(r) = Len(list) - (j - i + 1) + c
    BY DEF IsReplaced
  <1>2. ASSUME NEW k \in 1..i - 1 PROVE DBs(r)[k] = DBs(list)[k] /\ DWs(r)[k] = DWs(list)[k]
    <2>1. k \in 1..Len(list) /\ k \in 1..Len(r)
      BY <1>1
    <2>2. r[k] = list[k]
      BY DEF IsReplaced
    <2> QED
      BY <2>1, <2>2 DEF DBs, DWs
  <1>3. ASSUME NEW k \in i + c..Len(r)
        PROVE  DBs(r)[k] = DBs(list)[k + (j - i + 1) - c] /\ DWs(r)[k] = DWs(list)[k + (j - i + 1) - c]
    <2>1. k + (j - i + 1) - c \in j + 1..Len(list) /\ r[k] = list[k + (j - i + 1) - c]
      BY DEF IsReplaced
    <2>2. k + (j - i + 1) - c \in 1..Len(list) /\ k \in 1..Len(r)
      BY <1>1, <2>1
    <2> QED
      BY <2>1, <2>2 DEF DBs, DWs
  <1>4. /\ i \in 1..Len(r) /\ 1 \in 1..c /\ i - 1 + 1 = i
        /\ c = 2 => i + 1 \in 1..Len(r) /\ 2 \in 1..c /\ i - 1 + 2 = i + 1
    BY <1>1
  <1>5. r[i] = others[1] /\ (c = 2 => r[i + 1] = others[2])
    <2>1. r[i - 1 + 1] = others[1] /\ (c = 2 => r[i - 1 + 2] = others[2])
      BY <1>4 DEF IsReplaced
    <2> QED
      BY <1>4, <2>1
  <1>6. /\ Elsewhere(Len(list), DBs(list), i, j, c, Len(r), DBs(r))
        /\ Elsewhere(Len(list), DWs(list), i, j, c, Len(r), DWs(r))
    BY <1>1, <1>2, <1>3 DEF Elsewhere
  <1>7. DBs(r)[i] = DBlock(others[1]) /\ DWs(r)[i] = DWeight(others[1])
    BY <1>4, <1>5 DEF DBs, DWs
  <1>8. c = 2 => DBs(r)[i + 1] = DBlock(others[2]) /\ DWs(r)[i + 1] = DWeight(others[2])
    BY <1>4, <1>5 DEF DBs, DWs
  <1> QED
    BY <1>4, <1>6, <1>7, <1>8

\* What programs have is less than the size of the heap.
LEMMA DUsedBound ==
  ASSUME DdrAssumption, NEW list, DChain(list), NEW u, DUsed(list, u)
  PROVE  u \in Nat /\ u <= HeapSize
  <1>1. Tile(Len(list), DAt(list), DLn(list), Start, HeapBase + HeapSize)
    BY DEF DChain
  <1>2. PICK P : Sums(Len(list), DWs(list), P) /\ P[Len(list)] = u
    BY DEF DUsed
  <1>3. PICK n, at, ln, hi, w : n = Len(list) /\ at = DAt(list) /\ ln = DLn(list) /\ hi = HeapBase + HeapSize /\ w = DWs(list)
    OBVIOUS
  <1>4. Tile(n, at, ln, Start, hi) /\ Sums(n, w, P)
    BY <1>1, <1>2, <1>3
  <1>5. w \in [1..n -> Nat] /\ \A k \in 1..n : w[k] <= ln[k]
    BY <1>3, DWeights
  <1>6. P[n] \in Nat /\ P[n] <= hi - Start
    BY <1>4, <1>5, TileBound
  <1>7. HeapBase \in Nat /\ HeapSize \in Nat /\ PtrSize \in Nat
    BY DEF DdrAssumption
  <1> QED
    BY <1>2, <1>3, <1>6, <1>7 DEF Start

DBusy(u, ofs, size) ==
  [u EXCEPT !.vaddr = u.vaddr + ofs, !.length = size + ofs, !.offset = ofs, !.status = "busy"]

DRest(u, ofs, size) ==
  [vaddr |-> u.vaddr + size + ofs, length |-> u.length - size - ofs, offset |-> 0, status |-> "free"]

DIsBusy(b, u, ofs, size) ==
  /\ b \in DNode /\ b.vaddr = u.vaddr + ofs /\ b.length = size + ofs
  /\ b.offset = ofs /\ b.status = "busy"

LEMMA DBusyIs ==
  ASSUME NEW u \in DNode, NEW ofs \in Nat, NEW size \in Nat
  PROVE  DIsBusy(DBusy(u, ofs, size), u, ofs, size)
  <1>1. u.vaddr + ofs \in Int /\ size + ofs \in Nat
    BY DEF DNode
  <1>2. PICK v, l : v = u.vaddr + ofs /\ l = size + ofs
    OBVIOUS
  <1>3. PICK b : b = [u EXCEPT !.vaddr = v, !.length = l, !.offset = ofs, !.status = "busy"]
    OBVIOUS
  <1>4. b = DBusy(u, ofs, size)
    BY <1>2, <1>3 DEF DBusy
  <1>5. DIsBusy(b, u, ofs, size)
    BY <1>1, <1>2, <1>3 DEF DNode, DIsBusy
  <1> QED
    BY <1>4, <1>5

DIsRest(b, u, ofs, size) ==
  /\ b \in DNode /\ b.vaddr = u.vaddr + (size + ofs) /\ b.length = u.length - (size + ofs)
  /\ b.status = "free"

LEMMA DRestIs ==
  ASSUME NEW u \in DNode, NEW ofs \in Nat, NEW size \in Nat, u.length >= size + ofs
  PROVE  DIsRest(DRest(u, ofs, size), u, ofs, size)
  <1>1. u.vaddr \in Int /\ u.length \in Nat
    BY DEF DNode
  <1>2. PICK v, l : v = u.vaddr + size + ofs /\ l = u.length - size - ofs
    OBVIOUS
  <1>3. v \in Int /\ v = u.vaddr + (size + ofs)
    BY <1>1, <1>2
  <1>4. l \in Nat /\ l = u.length - (size + ofs)
    BY <1>1, <1>2
  <1>5. PICK b : b = [vaddr |-> v, length |-> l, offset |-> 0, status |-> "free"]
    OBVIOUS
  <1>6. b = DRest(u, ofs, size)
    BY <1>2, <1>5 DEF DRest
  <1>7. DIsRest(b, u, ofs, size)
    BY <1>3, <1>4, <1>5 DEF DNode, DIsRest
  <1> QED
    BY <1>6, <1>7

\* A free unit is handed out, whole (c = 1) or with a rest behind it.
DHandsOut(list, i, ofs, size, c, others, r) ==
  /\ i \in 1..Len(list) /\ list[i].status = "free"
  /\ ofs \in Nat /\ size \in Nat /\ c \in {1, 2}
  /\ c = 1 => list[i].length = size + ofs
  /\ c = 2 => list[i].length > size + ofs
  /\ others[1] = DBusy(list[i], ofs, size)
  /\ c = 2 => others[2] = DRest(list[i], ofs, size)
  /\ r \in Seq(DNode) /\ IsReplaced(list, i, i, c, others, r)

DHandedOut(list, i, ofs, size, r) ==
  /\ DChain(r)
  /\ DBlocks(r) = DBlocks(list) \cup {[addr |-> list[i].vaddr + ofs, size |-> size]}
  /\ \A u : DUsed(list, u) => DUsed(r, u + size)

LEMMA DAlloc ==
  ASSUME NEW list, DChain(list), NEW i, NEW ofs, NEW size, size # 0, NEW c, NEW others, NEW r,
         DHandsOut(list, i, ofs, size, c, others, r)
  PROVE  DHandedOut(list, i, ofs, size, r)
  <1>1. /\ i \in 1..Len(list) /\ list[i].status = "free"
        /\ ofs \in Nat /\ size \in Nat /\ c \in {1, 2}
        /\ c = 1 => list[i].length = size + ofs
        /\ c = 2 => list[i].length > size + ofs
        /\ r \in Seq(DNode) /\ IsReplaced(list, i, i, c, others, r)
    BY DEF DHandsOut
  <1>2. list \in Seq(DNode) /\ Len(list) \in Nat /\ i \in i..Len(list) /\ 1 <= i /\ i <= Len(list)
    BY <1>1, LenProperties DEF DChain
  <1>3. PICK x, n, rest : x = list[i] /\ n = DBusy(list[i], ofs, size) /\ rest = DRest(list[i], ofs, size)
    OBVIOUS
  <1>4. /\ x \in DNode /\ x.vaddr \in Int /\ x.length \in Nat /\ x.status = "free" /\ x.length >= size + ofs
        /\ c = 1 => x.length = size + ofs
        /\ c = 2 => x.length > size + ofs
    <2>1. list[i] \in DNode /\ list[i].vaddr \in Int /\ list[i].length \in Nat
      BY <1>1, <1>2, DFields
    <2> QED
      BY <1>1, <1>3, <2>1
  <1>5. /\ n \in DNode /\ n.vaddr = x.vaddr + ofs /\ n.length = size + ofs
        /\ n.offset = ofs /\ n.status = "busy"
    <2>1. DIsBusy(n, x, ofs, size)
      BY <1>1, <1>3, <1>4, DBusyIs
    <2> QED
      BY <2>1 DEF DIsBusy
  <1>6. /\ rest \in DNode /\ rest.vaddr = x.vaddr + (size + ofs) /\ rest.length = x.length - (size + ofs)
        /\ rest.status = "free"
    <2>1. DIsRest(rest, x, ofs, size)
      BY <1>1, <1>3, <1>4, DRestIs
    <2> QED
      BY <2>1 DEF DIsRest
  <1>7. /\ others[1] = n /\ (c = 2 => others[2] = rest) /\ (c = 1 \/ c = 2)
        /\ (c = 1 => others[c] = n) /\ (c = 2 => others[c] = rest)
    BY <1>1, <1>3 DEF DHandsOut
  <1>8. \A y \in 1..c : y = 1 \/ (c = 2 /\ y = 2)
    BY <1>1
  <1>9. i > 1 => list[i - 1].status = "busy"
    <2> SUFFICES ASSUME i > 1 PROVE list[i - 1].status = "busy"
      OBVIOUS
    <2>1. i - 1 \in 1..Len(list) - 1 /\ i - 1 + 1 = i
      BY <1>2
    <2> QED
      BY <1>1, <2>1 DEF DChain
  <1>10. i < Len(list) => list[i + 1].status = "busy"
    <2> SUFFICES ASSUME i < Len(list) PROVE list[i + 1].status = "busy"
      OBVIOUS
    <2>1. i \in 1..Len(list) - 1
      BY <1>2
    <2> QED
      BY <1>1, <2>1 DEF DChain
  <1>11. Begin(x) = x.vaddr /\ Begin(n) = x.vaddr /\ Begin(rest) = x.vaddr + (size + ofs)
    <2>1. (x.vaddr + ofs) - ofs = x.vaddr
      BY <1>1, <1>4
    <2> QED
      BY <1>4, <1>5, <1>6, <2>1 DEF Begin
  <1>12. Begin(others[c]) + others[c].length = Begin(x) + x.length
    <2>1. CASE c = 1
      BY <1>4, <1>5, <1>7, <1>11, <2>1
    <2>2. CASE c = 2
      <3>1. (x.vaddr + (size + ofs)) + (x.length - (size + ofs)) = x.vaddr + x.length
        BY <1>1, <1>4
      <3> QED
        BY <1>6, <1>7, <1>11, <2>2, <3>1
    <2> QED
      BY <1>7, <2>1, <2>2
  <1>13. DGood(n) /\ (c = 2 => DGood(rest))
    <2>1. DGood(n)
      BY <1>1, <1>5 DEF DGood
    <2>2. c = 2 => rest.length >= 1
      BY <1>1, <1>4, <1>6
    <2> QED
      BY <1>6, <2>1, <2>2 DEF DGood
  <1>14. DSuits(list, i, i, c, others)
    <2>1. \A y \in 1..c : others[y] \in DNode /\ DGood(others[y])
      BY <1>5, <1>6, <1>7, <1>8, <1>13
    <2>2. c = 2 => Begin(others[2]) = Begin(others[1]) + others[1].length /\ others[1].status = "busy"
      BY <1>5, <1>7, <1>11
    <2>3. Begin(others[1]) = Begin(list[i])
      BY <1>3, <1>7, <1>11
    <2>4. i < Len(list) => others[c].status = "busy" \/ list[i + 1].status = "busy"
      BY <1>10
    <2> QED
      BY <1>1, <1>3, <1>9, <1>12, <2>1, <2>2, <2>3, <2>4 DEF DSuits
  <1>15. DChain(r)
    BY <1>1, <1>2, <1>14, DChainReplace
  <1>16. DBlocks(r) = DBlocks(list) \cup {[addr |-> list[i].vaddr + ofs, size |-> size]}
    <2>1. /\ Elsewhere(Len(list), DBs(list), i, i, c, Len(r), DBs(r))
          /\ DBs(r)[i] = DBlock(n) /\ (c = 2 => DBs(r)[i + 1] = DBlock(rest))
      BY <1>1, <1>2, <1>7, DElsewhere
    <2>2. DBs(list)[i] = {} /\ DBlock(rest) = {}
      BY <1>1, <1>6 DEF DBs, DBlock
    <2>3. DBlock(n) = {[addr |-> list[i].vaddr + ofs, size |-> size]}
      <3>1. (size + ofs) - ofs = size
        BY <1>1
      <3> QED
        BY <1>3, <1>5, <3>1 DEF DBlock
    <2>4. PICK bs, bs2, q, m : bs = DBs(list) /\ bs2 = DBs(r) /\ q = Len(list) /\ m = Len(r)
      OBVIOUS
    <2>5. AllBlocks(m, bs2) = AllBlocks(q, bs) \cup bs2[i]
      <3>1. q \in Nat /\ i \in 1..q /\ c \in {1, 2}
        BY <1>1, <1>2, <2>4
      <3>2. Elsewhere(q, bs, i, i, c, m, bs2) /\ bs[i] = {}
        BY <2>1, <2>2, <2>4
      <3>3. Fresh(bs2, i, c) = bs2[i]
        BY <2>1, <2>2, <2>4 DEF Fresh
      <3> QED
        BY <3>1, <3>2, <3>3, BlocksAdd
    <2> QED
      BY <2>1, <2>3, <2>4, <2>5 DEF DBlocks
  <1>17. ASSUME NEW u, DUsed(list, u) PROVE DUsed(r, u + size)
    <2>1. PICK P : Sums(Len(list), DWs(list), P) /\ P[Len(list)] = u
      BY <1>17 DEF DUsed
    <2>2. /\ Elsewhere(Len(list), DWs(list), i, i, c, Len(r), DWs(r))
          /\ DWs(r)[i] = DWeight(n) /\ (c = 2 => DWs(r)[i + 1] = DWeight(rest))
      BY <1>1, <1>2, <1>7, DElsewhere
    <2>3. DWs(list)[i] = 0 /\ DWeight(rest) = 0 /\ DWeight(n) = size
      <3>1. (size + ofs) - ofs = size
        BY <1>1
      <3> QED
        BY <1>1, <1>5, <1>6, <3>1 DEF DWs, DWeight
    <2>4. DWs(list) \in [1..Len(list) -> Int] /\ DWs(r) \in [1..Len(r) -> Int]
      BY <1>15, DWeights
    <2>5. P[i] = P[i - 1] + DWs(list)[i] /\ i - 1 \in 0..Len(list) /\ P[i - 1] \in Int
      <3>1. i - 1 \in 0..Len(list)
        BY <1>2
      <3> QED
        BY <1>1, <2>1, <3>1 DEF Sums
    <2>6. P[i] - P[i - 1] = 0
      BY <2>3, <2>5
    <2>7. size = Gain(P, DWs(r), i, i, c)
      BY <1>1, <2>2, <2>3, <2>6 DEF Gain
    <2>8. PICK w, w2, q, m : w = DWs(list) /\ w2 = DWs(r) /\ q = Len(list) /\ m = Len(r)
      OBVIOUS
    <2>9. /\ w \in [1..q -> Int] /\ w2 \in [1..m -> Int] /\ Sums(q, w, P) /\ q \in Nat /\ i \in 1..q /\ i \in i..q
          /\ Elsewhere(q, w, i, i, c, m, w2) /\ size \in Int /\ size = Gain(P, w2, i, i, c)
      BY <1>1, <1>2, <2>1, <2>2, <2>4, <2>7, <2>8
    <2>10. \E Q : Sums(m, w2, Q) /\ Q[m] = P[q] + size
      <3>1. SumsStep(q, w, P, i, i, c, m, w2, size)
        BY <1>1, <2>9 DEF SumsStep
      <3> QED
        BY <3>1, SumsReplace
    <2> QED
      BY <2>1, <2>8, <2>10 DEF DUsed
  <1> QED
    BY <1>15, <1>16, <1>17 DEF DHandedOut

\* What free_bufunit makes of units lo..hi around unit p.
DMerges(list, p, lo, hi, x, r) ==
  /\ lo \in 1..p /\ hi \in p..Len(list) /\ p - 1 <= lo /\ hi <= p + 1
  /\ r \in Seq(DNode) /\ IsReplaced(list, lo, hi, 1, <<x>>, r)
  /\ x \in DNode /\ x.status = "free"
  /\ x.vaddr = IF lo = p THEN list[p].vaddr - list[p].offset ELSE list[lo].vaddr
  /\ x.length = (IF lo = p THEN 0 ELSE list[lo].length)
                  + (list[p].length + (IF hi = p THEN 0 ELSE list[hi].length))
  /\ \A k \in lo..hi : k # p => list[k].status = "free"
  /\ lo > 1 /\ lo = p => list[p - 1].status # "free"
  /\ hi < Len(list) /\ hi = p => list[p + 1].status # "free"

LEMMA DMergedTo ==
  ASSUME NEW list, DChain(list), NEW p \in 1..Len(list), list[p].status = "busy",
         NEW lo, NEW hi, NEW x, NEW r, DMerges(list, p, lo, hi, x, r)
  PROVE  /\ Begin(x) = Begin(list[lo]) /\ Begin(x) + x.length = Begin(list[hi]) + list[hi].length
         /\ DGood(x)
         /\ lo > 1 => list[lo - 1].status = "busy"
         /\ hi < Len(list) => list[hi + 1].status = "busy"
  <1>1. /\ list \in Seq(DNode) /\ Len(list) \in Nat /\ p \in Nat /\ 1 <= p /\ p <= Len(list)
        /\ \A k \in 1..Len(list) : list[k].status \in {"free", "busy"}
    BY LenProperties, DFields DEF DChain
  <1>2. /\ lo \in 1..p /\ hi \in p..Len(list) /\ p - 1 <= lo /\ hi <= p + 1 /\ x.status = "free"
        /\ x.vaddr = IF lo = p THEN list[p].vaddr - list[p].offset ELSE list[lo].vaddr
        /\ x.length = (IF lo = p THEN 0 ELSE list[lo].length)
                        + (list[p].length + (IF hi = p THEN 0 ELSE list[hi].length))
    BY DEF DMerges
  <1>3. /\ \A k \in lo..hi : k # p => list[k].status = "free"
        /\ lo > 1 /\ lo = p => list[p - 1].status # "free"
        /\ hi < Len(list) /\ hi = p => list[p + 1].status # "free"
    BY DEF DMerges
  <1>4. /\ lo \in 1..Len(list) /\ hi \in 1..Len(list) /\ lo \in Nat /\ hi \in Nat /\ lo \in lo..hi /\ hi \in lo..hi
        /\ lo = p \/ lo = p - 1
        /\ hi = p \/ hi = p + 1
    BY <1>1, <1>2
  <1>5. /\ list[lo].vaddr \in Int /\ list[lo].length \in Nat /\ list[hi].length \in Nat /\ list[p].length \in Nat
        /\ list[p].vaddr \in Int /\ list[p].offset \in Nat
        /\ Begin(list[lo]) \in Int /\ Begin(list[p]) \in Int /\ Begin(list[hi]) \in Int
    BY <1>1, <1>4, DFields
  <1>6. Begin(x) = Begin(list[lo])
    <2>1. CASE lo = p
      BY <1>2, <2>1 DEF Begin
    <2>2. CASE lo # p
      BY <1>2, <1>3, <1>4, <2>2 DEF Begin
    <2> QED
      BY <2>1, <2>2
  <1>7. \A k \in 1..Len(list) - 1 : Begin(list[k + 1]) = Begin(list[k]) + list[k].length
    <2> SUFFICES ASSUME NEW k \in 1..Len(list) - 1
                 PROVE  Begin(list[k + 1]) = Begin(list[k]) + list[k].length
      OBVIOUS
    <2>1. k \in 1..Len(list) /\ k + 1 \in 1..Len(list)
      BY <1>1
    <2>2. DAt(list)[k + 1] = DAt(list)[k] + DLn(list)[k]
      BY DEF DChain, Tile
    <2> QED
      BY <2>1, <2>2 DEF DAt, DLn
  <1>8. Begin(list[p]) = IF lo = p THEN Begin(list[lo]) ELSE Begin(list[lo]) + list[lo].length
    <2>1. CASE lo = p
      BY <2>1
    <2>2. CASE lo # p
      <3>1. lo \in 1..Len(list) - 1 /\ lo + 1 = p
        BY <1>1, <1>4, <2>2
      <3> QED
        BY <1>7, <2>2, <3>1
    <2> QED
      BY <2>1, <2>2
  <1>9. hi # p => Begin(list[hi]) = Begin(list[p]) + list[p].length
    <2> SUFFICES ASSUME hi # p PROVE Begin(list[hi]) = Begin(list[p]) + list[p].length
      OBVIOUS
    <2>1. p \in 1..Len(list) - 1 /\ hi = p + 1
      BY <1>1, <1>4
    <2> QED
      BY <1>7, <2>1
  <1>10. PICK a, b, c, d, e, f : /\ a = Begin(list[lo]) /\ b = list[lo].length /\ c = Begin(list[p])
                                 /\ d = list[p].length /\ e = Begin(list[hi]) /\ f = list[hi].length
    OBVIOUS
  <1>11. a \in Int /\ b \in Nat /\ c \in Int /\ d \in Nat /\ e \in Int /\ f \in Nat
    BY <1>5, <1>10
  <1>12. /\ x.length = (IF lo = p THEN 0 ELSE b) + (d + (IF hi = p THEN 0 ELSE f))
         /\ c = IF lo = p THEN a ELSE a + b
         /\ hi # p => e = c + d
         /\ hi = p => e = c /\ f = d
    BY <1>2, <1>8, <1>9, <1>10
  <1>13. a + x.length = e + f /\ x.length >= d
    <2>1. PICK l, g, h : l = x.length /\ g = (IF lo = p THEN 0 ELSE b) /\ h = (IF hi = p THEN 0 ELSE f)
      OBVIOUS
    <2>2. l = g + (d + h) /\ g \in Nat /\ h \in Nat
      BY <1>11, <1>12, <2>1
    <2>3. c = a + g
      BY <1>11, <1>12, <2>1
    <2>4. e + f = c + (d + h)
      BY <1>11, <1>12, <2>1
    <2>5. a + l = e + f /\ l >= d
      BY <1>11, <2>2, <2>3, <2>4
    <2> QED
      BY <2>1, <2>5
  <1>14. DGood(x)
    <2>1. d >= 1
      BY <1>10 DEF DChain, DGood
    <2>2. x.length >= 1
      BY <1>11, <1>12, <2>1, SMTT(30)
    <2> QED
      BY <1>2, <2>2 DEF DGood
  <1>15. lo > 1 => list[lo - 1].status = "busy"
    <2> SUFFICES ASSUME lo > 1 PROVE list[lo - 1].status = "busy"
      OBVIOUS
    <2>1. lo - 1 \in 1..Len(list) - 1 /\ lo - 1 + 1 = lo /\ lo - 1 \in 1..Len(list)
      BY <1>1, <1>4
    <2>2. CASE lo = p
      BY <1>1, <1>3, <2>1, <2>2
    <2>3. CASE lo # p
      BY <1>3, <1>4, <2>1, <2>3 DEF DChain
    <2> QED
      BY <2>2, <2>3
  <1>16. hi < Len(list) => list[hi + 1].status = "busy"
    <2> SUFFICES ASSUME hi < Len(list) PROVE list[hi + 1].status = "busy"
      OBVIOUS
    <2>1. hi \in 1..Len(list) - 1 /\ hi + 1 \in 1..Len(list)
      BY <1>1, <1>4
    <2>2. CASE hi = p
      BY <1>1, <1>3, <2>1, <2>2
    <2>3. CASE hi # p
      BY <1>3, <1>4, <2>1, <2>3 DEF DChain
    <2> QED
      BY <2>2, <2>3
  <1> QED
    BY <1>6, <1>10, <1>13, <1>14, <1>15, <1>16

DFreed(list, p, r) ==
  /\ DChain(r)
  /\ DBlocks(r) = DBlocks(list) \ DBlock(list[p])
  /\ \A u : DUsed(list, u) => DUsed(r, u - (list[p].length - list[p].offset))

\* A busy unit is freed.
LEMMA DFree ==
  ASSUME NEW list, DChain(list), NEW p \in 1..Len(list), list[p].status = "busy",
         NEW lo, NEW hi, NEW x, NEW r, DMerges(list, p, lo, hi, x, r)
  PROVE  DFreed(list, p, r)
  <1>1. list \in Seq(DNode) /\ Len(list) \in Nat /\ p \in Nat /\ 1 <= p /\ p <= Len(list)
    BY LenProperties DEF DChain
  <1>2. /\ lo \in 1..p /\ hi \in p..Len(list) /\ p - 1 <= lo /\ hi <= p + 1
        /\ r \in Seq(DNode) /\ IsReplaced(list, lo, hi, 1, <<x>>, r)
        /\ x \in DNode /\ x.status = "free"
        /\ \A k \in lo..hi : k # p => list[k].status = "free"
    BY DEF DMerges
  <1>3. /\ Begin(x) = Begin(list[lo]) /\ Begin(x) + x.length = Begin(list[hi]) + list[hi].length
        /\ DGood(x)
        /\ lo > 1 => list[lo - 1].status = "busy"
        /\ hi < Len(list) => list[hi + 1].status = "busy"
    BY DMergedTo
  <1>4. /\ lo \in Nat /\ hi \in Nat /\ 1 <= lo /\ lo <= p /\ p <= hi /\ hi <= Len(list)
        /\ lo \in 1..Len(list) /\ hi \in 1..Len(list) /\ hi \in lo..Len(list) /\ p \in lo..hi
    BY <1>1, <1>2
  <1>5. PICK c, others : c = 1 /\ others = <<x>>
    OBVIOUS
  <1>6. /\ c \in {1, 2} /\ others[1] = x /\ others[c] = x /\ (\A y \in 1..c : others[y] = x)
        /\ IsReplaced(list, lo, hi, c, others, r)
    BY <1>2, <1>5
  <1>7. DSuits(list, lo, hi, c, others)
    BY <1>2, <1>3, <1>5, <1>6 DEF DSuits
  <1>8. DChain(r)
    <2>1. r \in Seq(DNode)
      BY <1>2
    <2> QED
      BY <1>4, <1>6, <1>7, <2>1, DChainReplace
  <1>9. DBlocks(r) = DBlocks(list) \ DBlock(list[p])
    <2>1. Elsewhere(Len(list), DBs(list), lo, hi, c, Len(r), DBs(r)) /\ DBs(r)[lo] = DBlock(x)
      BY <1>1, <1>4, <1>6, DElsewhere
    <2>2. DBlock(x) = {}
      BY <1>2 DEF DBlock
    <2>3. PICK n, at, ln, top, bs, bs2, m :
            /\ n = Len(list) /\ at = DAt(list) /\ ln = DLn(list) /\ top = HeapBase + HeapSize
            /\ bs = DBs(list) /\ bs2 = DBs(r) /\ m = Len(r)
      OBVIOUS
    <2>4. Tile(n, at, ln, Start, top)
      BY <2>3 DEF DChain
    <2>5. InPieces(n, at, ln, bs)
      BY <2>3, DInPieces
    <2>6. Elsewhere(n, bs, lo, hi, 1, m, bs2) /\ bs2[lo] = {} /\ lo \in 1..n /\ hi \in lo..n
      BY <1>4, <1>5, <2>1, <2>2, <2>3
    <2>7. \A k \in lo..hi : k # p => bs[k] = {}
      <3>1. \A k \in lo..hi : k \in 1..Len(list)
        BY <1>1, <1>4
      <3> QED
        BY <1>2, <2>3, <3>1 DEF DBs, DBlock
    <2>8. AllBlocks(m, bs2) = AllBlocks(n, bs) \ bs[p]
      BY <1>4, <2>4, <2>5, <2>6, <2>7, BlocksRemove
    <2>9. bs[p] = DBlock(list[p])
      BY <2>3 DEF DBs
    <2> QED
      BY <2>3, <2>8, <2>9 DEF DBlocks
  <1>10. ASSUME NEW u, DUsed(list, u) PROVE DUsed(r, u - (list[p].length - list[p].offset))
    <2>1. PICK P : Sums(Len(list), DWs(list), P) /\ P[Len(list)] = u
      BY <1>10 DEF DUsed
    <2>2. Elsewhere(Len(list), DWs(list), lo, hi, c, Len(r), DWs(r)) /\ DWs(r)[lo] = DWeight(x)
      BY <1>1, <1>4, <1>6, DElsewhere
    <2>3. DWeight(x) = 0
      BY <1>2 DEF DWeight
    <2>4. DWs(list) \in [1..Len(list) -> Int] /\ DWs(r) \in [1..Len(r) -> Int]
      BY <1>8, DWeights
    <2>5. \A k \in lo..hi : k # p => DWs(list)[k] = 0
      <3>1. \A k \in lo..hi : k \in 1..Len(list)
        BY <1>1, <1>4
      <3> QED
        BY <1>2, <3>1 DEF DWs, DWeight
    <2>6. \A k \in 1..Len(list) : P[k] = P[k - 1] + DWs(list)[k]
      BY <2>1 DEF Sums
    <2>7. \A k \in 0..Len(list) : P[k] \in Int
      BY <2>1 DEF Sums
    <2>8. PICK s : s = list[p].length - list[p].offset
      OBVIOUS
    <2>9. P[p] \in Int /\ P[p - 1] \in Int /\ P[p] = P[p - 1] + s /\ s \in Int
      <3>1. p \in 0..Len(list) /\ p - 1 \in 0..Len(list)
        BY <1>1
      <3>2. DWs(list)[p] = s
        BY <2>8 DEF DWs, DWeight
      <3>3. list[p].length \in Nat /\ list[p].offset \in Nat
        BY <1>1, DFields
      <3> QED
        BY <2>6, <2>7, <2>8, <3>1, <3>2, <3>3
    <2>10. P[hi] = P[p]
      <3>1. CASE hi = p
        BY <3>1
      <3>2. CASE hi # p
        <4>1. hi = p + 1 /\ hi - 1 = p /\ hi \in lo..hi
          BY <1>1, <1>2, <1>4, <3>2
        <4>2. P[hi] = P[hi - 1] + DWs(list)[hi] /\ DWs(list)[hi] = 0
          BY <1>4, <2>5, <2>6, <3>2, <4>1
        <4> QED
          BY <2>9, <4>1, <4>2
      <3> QED
        BY <3>1, <3>2
    <2>11. P[lo - 1] = P[p - 1]
      <3>1. CASE lo = p
        BY <3>1
      <3>2. CASE lo # p
        <4>1. lo = p - 1 /\ lo \in lo..hi /\ lo - 1 \in 0..Len(list)
          BY <1>1, <1>2, <1>4, <3>2
        <4>2. P[lo] = P[lo - 1] + DWs(list)[lo] /\ DWs(list)[lo] = 0 /\ P[lo - 1] \in Int
          BY <1>4, <2>5, <2>6, <2>7, <3>2, <4>1
        <4> QED
          BY <4>1, <4>2
      <3> QED
        BY <3>1, <3>2
    <2>12. PICK d, w, w2, n, m : /\ d = -s /\ w = DWs(list) /\ w2 = DWs(r)
                                 /\ n = Len(list) /\ m = Len(r)
      OBVIOUS
    <2>13. d \in Int /\ d = Gain(P, w2, lo, hi, c)
      <3>1. P[hi] - P[lo - 1] = s /\ w2[lo] = 0 /\ c # 2
        BY <1>5, <2>2, <2>3, <2>9, <2>10, <2>11, <2>12
      <3> QED
        BY <2>9, <2>12, <3>1 DEF Gain
    <2>14. /\ w \in [1..n -> Int] /\ w2 \in [1..m -> Int] /\ Sums(n, w, P) /\ n \in Nat
           /\ lo \in 1..n /\ hi \in lo..n /\ Elsewhere(n, w, lo, hi, c, m, w2)
      BY <1>1, <1>4, <2>1, <2>2, <2>4, <2>12
    <2>15. \E Q : Sums(m, w2, Q) /\ Q[m] = P[n] + d
      <3>1. c \in {1, 2}
        BY <1>5
      <3>2. SumsStep(n, w, P, lo, hi, c, m, w2, d)
        BY <2>13, <2>14, <3>1 DEF SumsStep
      <3> QED
        BY <3>2, SumsReplace
    <2>16. P[n] + d = u - s
      <3>1. n \in 0..n
        BY <2>14
      <3>2. u \in Int
        BY <2>1, <2>7, <2>12, <3>1
      <3> QED
        BY <2>1, <2>9, <2>12, <3>2
    <2> QED
      BY <2>8, <2>12, <2>15, <2>16 DEF DUsed
  <1> QED
    BY <1>8, <1>9, <1>10 DEF DFreed

\* A block is found again by its address, and no free unit has it.
DFound(list, x, p) ==
  /\ p \in 1..Len(list) /\ list[p].status = "busy" /\ DBlock(list[p]) = {x}
  /\ x = [addr |-> list[p].vaddr, size |-> list[p].length - list[p].offset]
  /\ \A k \in 1..Len(list) : list[k].vaddr = x.addr => k = p

LEMMA DFind ==
  ASSUME NEW list, DChain(list), NEW x \in DBlocks(list)
  PROVE  \E p : DFound(list, x, p)
  <1>1. list \in Seq(DNode) /\ Len(list) \in Nat
    BY LenProperties DEF DChain
  <1>2. PICK p \in 1..Len(list) : x \in DBlock(list[p])
    BY DEF DBlocks, AllBlocks, DBs
  <1>3. /\ list[p].status = "busy" /\ DBlock(list[p]) = {x}
        /\ x = [addr |-> list[p].vaddr, size |-> list[p].length - list[p].offset] /\ x.addr = list[p].vaddr
    BY <1>2 DEF DBlock
  <1>4. PICK n, at, ln, top : n = Len(list) /\ at = DAt(list) /\ ln = DLn(list) /\ top = HeapBase + HeapSize
    OBVIOUS
  <1>5. Tile(n, at, ln, Start, top)
    BY <1>4 DEF DChain
  <1>6. \A k \in 1..Len(list) : /\ at[k] = Begin(list[k]) /\ ln[k] = list[k].length
                                /\ at[k] \in Int /\ ln[k] \in Nat
    BY <1>1, <1>4, DFields DEF DAt, DLn
  <1>7. ASSUME NEW k \in 1..Len(list) PROVE at[k] <= list[k].vaddr /\ list[k].vaddr < at[k] + ln[k] /\ list[k].vaddr \in Int
    <2>1. /\ list[k].vaddr \in Int /\ list[k].offset \in Nat /\ list[k].length \in Nat /\ DGood(list[k])
          /\ at[k] = Begin(list[k]) /\ ln[k] = list[k].length
      BY <1>1, <1>6, DFields DEF DChain
    <2>2. CASE list[k].status = "busy"
      BY <2>1, <2>2 DEF Begin, DGood
    <2>3. CASE list[k].status # "busy"
      BY <2>1, <2>3 DEF Begin, DGood
    <2> QED
      BY <2>2, <2>3
  <1>8. ASSUME NEW k \in 1..Len(list), list[k].vaddr = x.addr PROVE k = p
    <2> SUFFICES ASSUME k # p PROVE FALSE
      OBVIOUS
    <2>1. k < p \/ p < k
      BY <1>1
    <2>2. at[k] + ln[k] <= at[p] \/ at[p] + ln[p] <= at[k]
      BY <1>4, <1>5, <2>1, TileOrder
    <2>3. at[k] \in Int /\ ln[k] \in Nat /\ at[p] \in Int /\ ln[p] \in Nat
      BY <1>6
    <2>4. /\ at[k] <= x.addr /\ x.addr < at[k] + ln[k] /\ x.addr \in Int
          /\ at[p] <= x.addr /\ x.addr < at[p] + ln[p]
      BY <1>3, <1>7, <1>8
    <2> QED
      BY <2>2, <2>3, <2>4
  <1> QED
    BY <1>3, <1>8 DEF DFound

-----------------------------------------------------------------------------
(* The calls of the DDR heap.                                              *)

\* Each block of a program is in a busy unit of just its size, and the other
\* way round.
DHeld(H, B) ==
  /\ \A b \in H : \E x \in B : x.addr = b.addr /\ x.size = b.asked
  /\ \A x \in B : \E b \in H : b.addr = x.addr
  /\ \A b, c \in H : b.addr = c.addr => b = c

DTyped ==
  /\ units \in Seq(DNode) /\ spare \in Nat /\ chunks \in 0..MaxChunks
  /\ ddr_used \in 0..Word - 1 /\ padded \in BOOLEAN /\ ddr_wrong \in 0..MaxWrong
  /\ \A b \in owned : b.addr \in Int /\ b.size \in Nat /\ b.asked \in Nat

\* Every unit structure is buf_root, in the list or in the free list.
DCount == 1 + (Len(units) + spare) = IncUnits * (1 + chunks)

DKept ==
  /\ DChain(units) /\ DHeld(owned, DBlocks(units))
  /\ ~padded => DUsed(units, ddr_used)

\* The inductive invariant of the DDR heap.
DInv ==
  /\ DTyped
  /\ units = << >> => owned = {}
  /\ units # << >> => DCount
  /\ units # << >> /\ ddr_wrong = 0 => DKept

DGiven ==
  \E x : /\ x.addr \in Int /\ x.size \in Nat \ {0} /\ Start <= x.addr /\ x.addr + x.size <= HeapBase + HeapSize
         /\ \A y \in DBlocks(units) : Apart(x, y)
         /\ DBlocks(units)' = DBlocks(units) \cup {x}

DTaken == \E x \in DBlocks(units) : DBlocks(units)' = DBlocks(units) \ {x}

\* The list is never empty after a replacement.
DLength(list, i, j, c, r) ==
  r # << >> /\ Len(r) \in Nat /\ Len(r) = Len(list) - (j - i + 1) + c

LEMMA DNotEmpty ==
  ASSUME NEW list \in Seq(DNode), NEW i \in 1..Len(list), NEW j \in i..Len(list), NEW c \in {1, 2},
         NEW others, NEW r \in Seq(DNode), IsReplaced(list, i, j, c, others, r)
  PROVE  DLength(list, i, j, c, r)
  <1>1. Len(list) \in Nat /\ Len(r) \in Nat /\ Len(r) = Len(list) - (j - i + 1) + c
    BY LenProperties DEF IsReplaced
  <1>2. Len(r) >= 1
    BY <1>1
  <1> QED
    BY <1>1, <1>2 DEF DLength

\* A chunk more.
LEMMA DMore ==
  ASSUME NEW a \in Nat, NEW b \in Nat
  PROVE  a * (1 + (b + 1)) = a * (1 + b) + a /\ a * (1 + b) \in Nat
  OBVIOUS

DFitting(i, al, size) ==
  /\ i \in 1..Len(units) /\ units[i].status = "free"
  /\ Misaligned(units[i], al) \in Nat
  /\ units[i].length >= size + Misaligned(units[i], al)

LEMMA DFit ==
  ASSUME DInv, NEW al \in Nat \ {0}, NEW size \in Nat, DdrFits(al, size) # {},
         NEW i, i = First(DdrFits(al, size))
  PROVE  DFitting(i, al, size)
  <1>1. units \in Seq(DNode) /\ DOMAIN units = 1..Len(units) /\ Len(units) \in Nat
    BY LenProperties DEF DInv, DTyped
  <1>2. PICK I : I = DdrFits(al, size)
    OBVIOUS
  <1>3. I \subseteq 1..Len(units)
    BY <1>1, <1>2 DEF DdrFits
  <1>4. I \in SUBSET Nat
    BY <1>1, <1>3
  <1>5. i \in I
    BY <1>2, <1>4, FirstIs
  <1>6. i \in 1..Len(units) /\ units[i].status = "free" /\ units[i].length >= size + Misaligned(units[i], al)
    BY <1>2, <1>3, <1>5 DEF DdrFits
  <1>7. units[i].vaddr \in Int
    BY <1>1, <1>6, DFields
  <1>8. Misaligned(units[i], al) \in Nat
    <2>1. PICK a, m : a = units[i].vaddr /\ m = a % al
      OBVIOUS
    <2>2. a \in Int
      BY <1>7, <2>1
    <2>3. m \in 0..al - 1
      BY <2>1, <2>2, ModRange
    <2>4. Misaligned(units[i], al) = IF m = 0 THEN 0 ELSE al - m
      BY <2>1 DEF Misaligned
    <2> QED
      BY <2>3, <2>4
  <1> QED
    BY <1>6, <1>8 DEF DFitting

\* alloc_bufunit: how the list changes, and that no structure is lost.
LEMMA DCut ==
  ASSUME DdrAssumption, DTyped, DCount, NEW al, NEW size \in Nat, NEW i \in 1..Len(units),
         units[i].status = "free", NEW ofs \in Nat, ofs = Misaligned(units[i], al),
         units[i].length >= size + ofs, alloc_bufunit(al, size, i)
  PROVE  /\ \E c, others : DHandsOut(units, i, ofs, size, c, others, units')
         /\ units' \in Seq(DNode) /\ units' # << >>
         /\ spare' \in Nat /\ chunks' \in 0..MaxChunks /\ DCount'
  <1>1. /\ units \in Seq(DNode) /\ Len(units) \in Nat /\ spare \in Nat /\ chunks \in 0..MaxChunks
        /\ MaxChunks \in Nat /\ IncUnits \in Nat /\ IncUnits >= 2 /\ i \in i..Len(units)
    BY LenProperties DEF DTyped, DdrAssumption
  <1>2. PICK u, n, rest, new : u = units[i] /\ n = DBusy(u, ofs, size) /\ rest = DRest(u, ofs, size) /\ new = units'
    OBVIOUS
  <1>3. u \in DNode /\ u.length \in Nat /\ u.length >= size + ofs
    BY <1>1, <1>2, DFields
  <1>4. n \in DNode /\ rest \in DNode
    <2>1. DIsBusy(n, u, ofs, size) /\ DIsRest(rest, u, ofs, size)
      BY <1>2, <1>3, DBusyIs, DRestIs
    <2> QED
      BY <2>1 DEF DIsBusy, DIsRest
  <1>5. IF u.length > size + ofs
        THEN IMP_alloc_unit /\ new = Replaced(units, i, i, <<n, rest>>)
        ELSE new = Replaced(units, i, i, <<n>>) /\ spare' = spare /\ chunks' = chunks
    BY <1>2 DEF alloc_bufunit, DBusy, DRest
  <1>6. CASE u.length > size + ofs
    <2>1. PICK two, o : two = 2 /\ o = <<n, rest>>
      OBVIOUS
    <2>2. o \in Seq(DNode) /\ two = Len(o) /\ o[1] = n /\ o[2] = rest /\ new = Replaced(units, i, i, o)
      BY <1>4, <1>5, <1>6, <2>1
    <2>3. new \in Seq(DNode) /\ IsReplaced(units, i, i, two, o, new)
      BY <1>1, <2>2, ReplacedList
    <2>4. two \in {1, 2} /\ two # 1
      BY <2>1
    <2>5. DHandsOut(units, i, ofs, size, two, o, new)
      BY <1>2, <1>6, <2>2, <2>3, <2>4 DEF DHandsOut
    <2>6. new # << >> /\ Len(new) \in Nat /\ Len(new) = Len(units) - (i - i + 1) + two
      <3>1. DLength(units, i, i, two, new)
        BY <1>1, <2>3, <2>4, DNotEmpty
      <3> QED
        BY <3>1 DEF DLength
    <2>7. Len(new) = Len(units) + 1
      BY <1>1, <2>1, <2>6
    <2>8. CASE spare > 0
      <3>1. spare' = spare - 1 /\ chunks' = chunks /\ spare' \in Nat
        BY <1>1, <1>5, <1>6, <2>8 DEF IMP_alloc_unit
      <3>2. Len(units') + spare' = Len(units) + spare
        BY <1>1, <1>2, <2>7, <3>1
      <3>3. DCount'
        BY <3>1, <3>2 DEF DCount
      <3> QED
        BY <1>1, <1>2, <2>3, <2>5, <2>6, <3>1, <3>3
    <2>9. CASE ~(spare > 0)
      <3>1. chunks < MaxChunks /\ chunks' = chunks + 1 /\ spare' = IncUnits - 1 /\ spare = 0
        BY <1>1, <1>5, <1>6, <2>9 DEF IMP_alloc_unit
      <3>2. spare' \in Nat /\ chunks' \in 0..MaxChunks
        BY <1>1, <3>1
      <3>3. PICK P : P = IncUnits * (1 + chunks)
        OBVIOUS
      <3>4. IncUnits * (1 + (chunks + 1)) = P + IncUnits /\ P \in Nat
        <4>1. chunks \in Nat
          BY <1>1
        <4> QED
          BY <1>1, <3>3, <4>1, DMore
      <3>5. 1 + (Len(units) + 0) = P
        BY <3>1, <3>3 DEF DCount
      <3>6. 1 + (Len(units) + 1 + (IncUnits - 1)) = P + IncUnits
        BY <1>1, <3>4, <3>5
      <3>7. DCount'
        BY <1>2, <2>7, <3>1, <3>4, <3>6 DEF DCount
      <3> QED
        BY <1>2, <2>3, <2>5, <2>6, <3>2, <3>7
    <2> QED
      BY <2>8, <2>9
  <1>7. CASE ~(u.length > size + ofs)
    <2>1. PICK one, o : one = 1 /\ o = <<n>>
      OBVIOUS
    <2>2. o \in Seq(DNode) /\ one = Len(o) /\ o[1] = n /\ new = Replaced(units, i, i, o)
      BY <1>4, <1>5, <1>7, <2>1
    <2>3. new \in Seq(DNode) /\ IsReplaced(units, i, i, one, o, new)
      BY <1>1, <2>2, ReplacedList
    <2>4. one \in {1, 2} /\ one # 2
      BY <2>1
    <2>5. u.length = size + ofs
      BY <1>3, <1>7
    <2>6. DHandsOut(units, i, ofs, size, one, o, new)
      BY <1>2, <2>2, <2>3, <2>4, <2>5 DEF DHandsOut
    <2>7. new # << >> /\ Len(new) \in Nat /\ Len(new) = Len(units) - (i - i + 1) + one
      <3>1. DLength(units, i, i, one, new)
        BY <1>1, <2>3, <2>4, DNotEmpty
      <3> QED
        BY <3>1 DEF DLength
    <2>8. Len(new) = Len(units)
      BY <1>1, <2>1, <2>7
    <2>9. spare' = spare /\ chunks' = chunks
      BY <1>5, <1>7
    <2>10. DCount'
      BY <1>2, <2>8, <2>9 DEF DCount
    <2> QED
      BY <1>1, <1>2, <2>3, <2>6, <2>7, <2>9, <2>10
  <1> QED
    BY <1>6, <1>7

\* free_bufunit: the same.
LEMMA DRelease ==
  ASSUME DTyped, NEW p \in 1..Len(units), free_bufunit(p)
  PROVE  /\ \E lo, hi, x : DMerges(units, p, lo, hi, x, units')
         /\ units' \in Seq(DNode) /\ units' # << >> /\ spare' \in Nat
         /\ Len(units') + spare' = Len(units) + spare
  <1>1. /\ units \in Seq(DNode) /\ Len(units) \in Nat /\ p \in Nat /\ 1 <= p /\ p <= Len(units) /\ spare \in Nat
        /\ \A k \in 1..Len(units) : /\ units[k] \in DNode /\ units[k].vaddr \in Int /\ units[k].offset \in Nat
                                    /\ units[k].length \in Nat
    BY LenProperties, DFields DEF DTyped
  <1> DEFINE next == p < Len(units) /\ units[p + 1].status = "free"
             prev == p > 1 /\ units[p - 1].status = "free"
             Low   == IF prev THEN p - 1 ELSE p
             Top   == IF next THEN p + 1 ELSE p
             Self == [units[p] EXCEPT !.status = "free", !.vaddr = @ - units[p].offset,
                        !.length = @ + (IF next THEN units[p + 1].length ELSE 0)]
             X    == IF prev THEN [units[p - 1] EXCEPT !.length = @ + Self.length] ELSE Self
  <1>2. units' = Replaced(units, Low, Top, <<X>>) /\ spare' = spare + Top - Low
    BY DEF free_bufunit
  <1>3. PICK more, v, new : /\ more = (IF next THEN units[p + 1].length ELSE 0)
                            /\ v = units[p].vaddr - units[p].offset /\ new = units'
    OBVIOUS
  <1>4. /\ prev = (p > 1 /\ units[p - 1].status = "free")
        /\ next = (p < Len(units) /\ units[p + 1].status = "free")
    OBVIOUS
  <1> HIDE DEF next, prev
  <1>5. Self = [units[p] EXCEPT !.status = "free", !.vaddr = v, !.length = units[p].length + more]
    BY <1>3
  <1> HIDE DEF Self
  <1>a. /\ Low = (IF prev THEN p - 1 ELSE p) /\ Top = (IF next THEN p + 1 ELSE p)
        /\ X = (IF prev THEN [units[p - 1] EXCEPT !.length = @ + Self.length] ELSE Self)
    OBVIOUS
  <1> HIDE DEF Low, Top, X
  <1>b. PICK lo, hi, self, x : lo = Low /\ hi = Top /\ self = Self /\ x = X
    OBVIOUS
  <1>6. /\ self = [units[p] EXCEPT !.status = "free", !.vaddr = v, !.length = units[p].length + more]
        /\ x = (IF prev THEN [units[p - 1] EXCEPT !.length = @ + self.length] ELSE self)
        /\ lo = (IF prev THEN p - 1 ELSE p) /\ hi = (IF next THEN p + 1 ELSE p)
    BY <1>5, <1>a, <1>b
  <1>7. new = Replaced(units, lo, hi, <<x>>) /\ spare' = spare + hi - lo
    BY <1>2, <1>3, <1>b
  <1>8. /\ lo \in 1..p /\ hi \in p..Len(units) /\ p - 1 <= lo /\ hi <= p + 1 /\ lo \in Nat /\ hi \in Nat
        /\ lo \in 1..Len(units) /\ hi \in lo..Len(units) /\ hi \in 1..Len(units)
        /\ (lo = p <=> ~prev) /\ (hi = p <=> ~next)
        /\ (prev => lo = p - 1) /\ (next => hi = p + 1)
    <2>1. prev => p > 1
      BY <1>4
    <2>2. next => p < Len(units)
      BY <1>4
    <2>3. (prev /\ lo = p - 1) \/ (~prev /\ lo = p)
      BY <1>6
    <2>4. (next /\ hi = p + 1) \/ (~next /\ hi = p)
      BY <1>6
    <2>5. p \in Nat /\ Len(units) \in Nat /\ 1 <= p /\ p <= Len(units)
      BY <1>1
    <2>6. lo \in 1..p /\ p - 1 <= lo /\ lo \in Nat /\ lo \in 1..Len(units)
      BY <2>1, <2>3, <2>5
    <2>7. hi \in p..Len(units) /\ hi <= p + 1 /\ hi \in Nat /\ hi \in 1..Len(units)
      BY <2>2, <2>4, <2>5
    <2>8. hi \in lo..Len(units)
      BY <2>5, <2>6, <2>7
    <2>9. (lo = p <=> ~prev) /\ (prev => lo = p - 1)
      BY <2>3, <2>5
    <2>10. (hi = p <=> ~next) /\ (next => hi = p + 1)
      BY <2>4, <2>5
    <2> QED
      BY <2>6, <2>7, <2>8, <2>9, <2>10
  <1>9. more \in Nat /\ more = (IF hi = p THEN 0 ELSE units[hi].length)
    BY <1>1, <1>3, <1>8
  <1>10. self \in DNode /\ self.status = "free" /\ self.vaddr = v /\ self.length = units[p].length + more
    <2>1. PICK l : l = units[p].length + more
      OBVIOUS
    <2>2. v \in Int /\ l \in Nat
      BY <1>1, <1>3, <1>9, <2>1, SMTT(30)
    <2>3. self = [units[p] EXCEPT !.status = "free", !.vaddr = v, !.length = l]
      BY <1>6, <2>1
    <2>4. units[p] \in DNode
      BY <1>1
    <2> QED
      BY <2>1, <2>2, <2>3, <2>4 DEF DNode
  <1>11. /\ x \in DNode /\ x.status = "free"
         /\ x.vaddr = IF lo = p THEN units[p].vaddr - units[p].offset ELSE units[lo].vaddr
         /\ x.length = (IF lo = p THEN 0 ELSE units[lo].length)
                         + (units[p].length + (IF hi = p THEN 0 ELSE units[hi].length))
    <2>1. CASE ~prev
      <3>1. x = self /\ lo = p
        BY <1>6, <1>8, <2>1
      <3>2. PICK l : l = units[p].length + more
        OBVIOUS
      <3>3. l \in Nat /\ l = 0 + l
        BY <1>1, <1>9, <3>2
      <3> QED
        BY <1>3, <1>9, <1>10, <3>1, <3>2, <3>3
    <2>2. CASE prev
      <3>1. lo = p - 1 /\ lo # p /\ units[lo].status = "free" /\ units[lo] \in DNode /\ units[lo].length \in Nat
        BY <1>1, <1>4, <1>8, <2>2
      <3>2. PICK l : l = units[lo].length + self.length
        OBVIOUS
      <3>3. x = [units[lo] EXCEPT !.length = l]
        BY <1>6, <2>2, <3>1, <3>2
      <3>4. self.length \in Nat
        BY <1>10 DEF DNode
      <3>5. l \in Nat
        BY <3>1, <3>2, <3>4
      <3>6. x \in DNode /\ x.status = "free" /\ x.vaddr = units[lo].vaddr /\ x.length = l
        BY <3>1, <3>3, <3>5 DEF DNode
      <3> QED
        BY <1>9, <1>10, <3>1, <3>2, <3>6
    <2> QED
      BY <2>1, <2>2
  <1>12. PICK one, xs : one = 1 /\ xs = <<x>>
    OBVIOUS
  <1>13. xs \in Seq(DNode) /\ one = Len(xs) /\ one \in {1, 2}
    BY <1>11, <1>12
  <1>14. new \in Seq(DNode) /\ IsReplaced(units, lo, hi, one, xs, new)
    BY <1>1, <1>7, <1>8, <1>12, <1>13, ReplacedList
  <1>15. new # << >> /\ Len(new) \in Nat /\ Len(new) = Len(units) - (hi - lo + 1) + one
    <2>1. units \in Seq(DNode) /\ lo \in 1..Len(units) /\ hi \in lo..Len(units)
      BY <1>1, <1>8
    <2>2. DLength(units, lo, hi, one, new)
      BY <1>13, <1>14, <2>1, DNotEmpty
    <2> QED
      BY <2>2 DEF DLength
  <1>16. spare' \in Nat /\ Len(new) + spare' = Len(units) + spare
    <2>1. PICK n, m, s : n = Len(units) /\ m = Len(new) /\ s = spare'
      OBVIOUS
    <2>2. m = n - (hi - lo + 1) + 1 /\ s = spare + hi - lo /\ lo <= hi
      BY <1>7, <1>8, <1>12, <1>15, <2>1
    <2>3. n \in Nat /\ m \in Nat /\ spare \in Nat /\ hi \in Nat /\ lo \in Nat
      BY <1>1, <1>8, <1>15, <2>1
    <2>4. s \in Nat /\ m + s = n + spare
      BY <2>2, <2>3
    <2> QED
      BY <2>1, <2>4
  <1>17. \A k \in lo..hi : k # p => units[k].status = "free"
    <2> SUFFICES ASSUME NEW k \in lo..hi, k # p PROVE units[k].status = "free"
      OBVIOUS
    <2>1. (k = p - 1 /\ lo # p) \/ (k = p + 1 /\ hi # p)
      BY <1>1, <1>8
    <2> QED
      BY <1>4, <1>8, <2>1
  <1>18. /\ lo > 1 /\ lo = p => units[p - 1].status # "free"
         /\ hi < Len(units) /\ hi = p => units[p + 1].status # "free"
    BY <1>4, <1>8
  <1>19. IsReplaced(units, lo, hi, 1, <<x>>, new)
    BY <1>12, <1>14
  <1>20. DMerges(units, p, lo, hi, x, new)
    BY <1>8, <1>11, <1>14, <1>17, <1>18, <1>19 DEF DMerges
  <1> QED
    BY <1>3, <1>14, <1>15, <1>16, <1>20

\* What a call adds to mp_memory_used is what it takes, unless it says it padded.
DCounts(size, count) == padded' \in BOOLEAN /\ (~padded' => ~padded /\ count = size)

\* A call that hands a block out.
LEMMA DTake ==
  ASSUME DdrAssumption, HeapListsAssumption, DInv, NEW al \in Nat \ {0}, NEW size \in Nat,
         NEW asked \in Nat, NEW count \in Nat, Local_alignAlloc(al, size, asked, count),
         DCounts(size, count)
  PROVE  DInv' /\ (ddr_wrong' = 0 => ddr_wrong = 0 /\ DGiven)
  <1>1. PICK i, ofs, new : /\ i = First(DdrFits(al, size)) /\ ofs = Misaligned(units[i], al)
                           /\ new = units'
    OBVIOUS
  <1>2. /\ i \in 1..Len(units) /\ units[i].status = "free"
        /\ ofs \in Nat /\ units[i].length >= size + ofs
    <2>1. DdrFits(al, size) # {} /\ i = First(DdrFits(al, size))
      BY <1>1 DEF Local_alignAlloc
    <2>2. DFitting(i, al, size)
      BY <2>1, DFit
    <2> QED
      BY <1>1, <2>2 DEF DFitting
  <1>3. PICK b : b = [addr |-> units[i].vaddr + ofs, size |-> size, asked |-> asked]
    OBVIOUS
  <1>4. /\ alloc_bufunit(al, size, i) /\ owned' = owned \cup {b}
        /\ ddr_used' = (ddr_used + count) % Word
        /\ IF size = 0 \/ size # asked
           THEN ddr_wrong < MaxWrong /\ ddr_wrong' = ddr_wrong + 1 ELSE ddr_wrong' = ddr_wrong
    BY <1>1, <1>3 DEF Local_alignAlloc
  <1>5. units # << >> /\ DTyped /\ DCount /\ units \in Seq(DNode)
    <2>1. units # << >>
      BY <1>2
    <2> QED
      BY <2>1 DEF DInv, DTyped
  <1>6. /\ \E c, others : DHandsOut(units, i, ofs, size, c, others, units')
        /\ units' \in Seq(DNode) /\ units' # << >>
        /\ spare' \in Nat /\ chunks' \in 0..MaxChunks /\ DCount'
    BY <1>1, <1>2, <1>4, <1>5, DCut
  <1>7. units[i].vaddr \in Int /\ units[i].length \in Nat
    BY <1>2, <1>5, DFields
  <1>8. b.addr = units[i].vaddr + ofs /\ b.size = size /\ b.asked = asked /\ b.addr \in Int
    BY <1>2, <1>3, <1>7, SMTT(30)
  <1>9. ddr_used \in Nat /\ ddr_wrong \in 0..MaxWrong /\ MaxWrong \in Nat /\ Word \in Nat \ {0} /\ HeapSize \in Nat /\ HeapSize < Word
    BY DEF DInv, DTyped, HeapListsAssumption, DdrAssumption
  <1>10. DTyped'
    <2>1. ddr_used' \in 0..Word - 1
      <3>1. ddr_used + count \in Int
        BY <1>9
      <3> QED
        BY <1>4, <1>9, <3>1, ModRange
    <2>2. ddr_wrong' \in 0..MaxWrong
      BY <1>4, <1>9
    <2>3. \A d \in owned' : d.addr \in Int /\ d.size \in Nat /\ d.asked \in Nat
      BY <1>4, <1>5, <1>8 DEF DTyped
    <2> QED
      BY <1>6, <2>1, <2>2, <2>3 DEF DTyped, DCounts
  <1>11. ASSUME ddr_wrong' = 0 PROVE ddr_wrong = 0 /\ DGiven /\ DKept'
    <2>1. ddr_wrong = 0 /\ size # 0 /\ size = asked
      BY <1>4, <1>9, <1>11
    <2>2. DChain(units) /\ DHeld(owned, DBlocks(units)) /\ (~padded => DUsed(units, ddr_used))
      BY <1>5, <2>1 DEF DInv, DKept
    <2>3. DHandedOut(units, i, ofs, size, new)
      <3>1. PICK c, others : DHandsOut(units, i, ofs, size, c, others, new)
        BY <1>1, <1>6
      <3> QED
        BY <2>1, <2>2, <3>1, DAlloc
    <2>4. PICK x : x = [addr |-> units[i].vaddr + ofs, size |-> size]
      OBVIOUS
    <2>5. x.addr = units[i].vaddr + ofs /\ x.size = size /\ x.addr = b.addr /\ x.addr \in Int
      BY <1>8, <2>4
    <2>6. DChain(new) /\ DBlocks(new) = DBlocks(units) \cup {x}
      BY <2>3, <2>4 DEF DHandedOut
    <2>7. ~padded' => DUsed(new, ddr_used')
      <3> SUFFICES ASSUME ~padded' PROVE DUsed(new, ddr_used')
        OBVIOUS
      <3>1. ~padded /\ count = size
        BY DEF DCounts
      <3>2. DUsed(new, ddr_used + size)
        BY <2>2, <2>3, <3>1 DEF DHandedOut
      <3>3. ddr_used + size \in Nat /\ ddr_used + size <= HeapSize
        BY <2>6, <3>2, DUsedBound
      <3>4. ddr_used' = ddr_used + size
        <4>1. PICK u : u = ddr_used + size
          OBVIOUS
        <4>2. u \in Nat /\ u < Word
          BY <1>9, <3>3, <4>1
        <4>3. u % Word = u
          BY <1>9, <4>2, ModSmall
        <4> QED
          BY <1>4, <3>1, <4>1, <4>3
      <3> QED
        BY <3>2, <3>4
    <2>8. PICK q, at, ln, top, bs : /\ q = Len(units) /\ at = DAt(units) /\ ln = DLn(units)
                                    /\ top = HeapBase + HeapSize /\ bs = DBs(units)
      OBVIOUS
    <2>9. Tile(q, at, ln, Start, top) /\ InPieces(q, at, ln, bs) /\ DBlocks(units) = AllBlocks(q, bs)
      BY <2>2, <2>8, DInPieces DEF DChain, DBlocks
    <2>10. at[i] = units[i].vaddr /\ ln[i] = units[i].length /\ bs[i] = {} /\ i \in 1..q
      BY <1>2, <2>8 DEF DAt, DLn, DBs, DBlock, Begin
    <2>11. PICK a : a = units[i].vaddr + ofs
      OBVIOUS
    <2>12. a \in Int /\ size \in Nat \ {0} /\ at[i] <= a
      <3>1. PICK v : v = units[i].vaddr
        OBVIOUS
      <3>2. v \in Int /\ a = v + ofs /\ ofs \in Nat /\ at[i] = v
        BY <1>2, <1>7, <2>10, <2>11, <3>1
      <3>3. a \in Int /\ v <= a
        BY <3>2
      <3> QED
        BY <2>1, <3>2, <3>3
    <2>13. a + size <= at[i] + ln[i]
      <3>1. PICK v, l : v = units[i].vaddr /\ l = units[i].length
        OBVIOUS
      <3>2. l >= size + ofs /\ a = v + ofs /\ at[i] = v /\ ln[i] = l /\ v \in Int /\ l \in Nat /\ ofs \in Nat
        BY <1>2, <1>7, <2>10, <2>11, <3>1
      <3>3. (v + ofs) + size <= v + l
        BY <3>2
      <3> QED
        BY <3>2, <3>3
    <2>14. ASSUME NEW y \in DBlocks(units)
           PROVE  /\ y.addr \in Int /\ y.size \in Nat \ {0} /\ y.addr # a
                  /\ a + size <= y.addr \/ y.addr + y.size <= a
      <3>1. y \in AllBlocks(q, bs)
        BY <2>9
      <3> QED
        BY <2>9, <2>10, <2>12, <2>13, <3>1, BlocksFree
    <2>15. DGiven
      <3>1. \A y \in DBlocks(units) : Apart(x, y)
        BY <2>5, <2>11, <2>14 DEF Apart
      <3>2. Start <= a /\ a + size <= HeapBase + HeapSize
        <4>1. Start <= at[i] /\ at[i] + ln[i] <= top
          BY <2>9, <2>10, TileOrder
        <4>2. Start \in Int /\ top = HeapBase + HeapSize /\ top \in Int /\ at[i] \in Int /\ ln[i] \in Nat
          BY <1>7, <2>8, <2>10 DEF DdrAssumption, Start
        <4> QED
          BY <2>12, <2>13, <4>1, <4>2
      <3>3. DBlocks(units)' = DBlocks(units) \cup {x}
        BY <1>1, <2>6
      <3> QED
        BY <2>5, <2>11, <2>12, <3>1, <3>2, <3>3 DEF DGiven
    <2>16. DHeld(owned', DBlocks(new))
      <3>1. \A d \in owned' : \E y \in DBlocks(new) : y.addr = d.addr /\ y.size = d.asked
        <4>1. x \in DBlocks(new) /\ x.addr = b.addr /\ x.size = b.asked
          BY <1>8, <2>1, <2>5, <2>6
        <4>2. \A d \in owned : \E y \in DBlocks(new) : y.addr = d.addr /\ y.size = d.asked
          BY <2>2, <2>6 DEF DHeld
        <4> QED
          BY <1>4, <4>1, <4>2
      <3>2. \A y \in DBlocks(new) : \E d \in owned' : d.addr = y.addr
        BY <1>4, <2>2, <2>5, <2>6 DEF DHeld
      <3>3. \A d \in owned : d.addr # b.addr
        <4>1. \A d \in owned : \E y \in DBlocks(units) : y.addr = d.addr
          BY <2>2 DEF DHeld
        <4> QED
          BY <1>8, <2>11, <2>14, <4>1
      <3>4. \A d, e \in owned' : d.addr = e.addr => d = e
        BY <1>4, <2>2, <3>3 DEF DHeld
      <3> QED
        BY <3>1, <3>2, <3>4 DEF DHeld
    <2>17. DKept'
      BY <1>1, <2>6, <2>7, <2>16 DEF DKept
    <2> QED
      BY <2>1, <2>15, <2>17
  <1>12. DInv'
    BY <1>6, <1>10, <1>11 DEF DInv
  <1> QED
    BY <1>11, <1>12

\* Local_Dealloc, whatever address it is given.
LEMMA DDealloc ==
  ASSUME HeapListsAssumption, DTyped, units # << >>, DCount, NEW addr, Local_Dealloc(addr)
  PROVE  /\ units' \in Seq(DNode) /\ units' # << >> /\ spare' \in Nat /\ DCount'
         /\ ddr_used' \in 0..Word - 1 /\ chunks' = chunks /\ padded' = padded
         /\ \A p \in 1..Len(units) :
              /\ DChain(units) /\ units[p].status = "busy" /\ units[p].vaddr = addr
              /\ \A k \in 1..Len(units) : units[k].vaddr = addr => k = p
              => /\ DFreed(units, p, units')
                 /\ ddr_used' = (ddr_used - (units[p].length - units[p].offset)) % Word
  <1>1. /\ units \in Seq(DNode) /\ Len(units) \in Nat /\ DOMAIN units = 1..Len(units)
        /\ ddr_used \in 0..Word - 1 /\ spare \in Nat /\ Word \in Nat \ {0}
        /\ chunks' = chunks /\ padded' = padded
    BY LenProperties DEF DTyped, Local_Dealloc, HeapListsAssumption
  <1>2. PICK I, new : I = find_bufunit_byaddr(addr) /\ new = units'
    OBVIOUS
  <1>3. I = {k \in 1..Len(units) : units[k].vaddr = addr}
    BY <1>1, <1>2 DEF find_bufunit_byaddr
  <1>4. CASE I = {}
    <2>1. units' = units /\ spare' = spare /\ ddr_used' = ddr_used
      BY <1>2, <1>4 DEF Local_Dealloc
    <2>2. DCount'
      BY <1>1, <2>1 DEF DCount
    <2>3. \A p \in 1..Len(units) : units[p].vaddr # addr
      BY <1>3, <1>4
    <2> QED
      BY <1>1, <2>1, <2>2, <2>3
  <1>5. CASE I # {}
    <2>1. I \in SUBSET Nat
      BY <1>1, <1>3
    <2>2. PICK i : i = First(I)
      OBVIOUS
    <2>3. i \in I /\ i \in 1..Len(units) /\ units[i].vaddr = addr
      BY <1>3, <1>5, <2>1, <2>2, FirstIs
    <2>4. free_bufunit(i) /\ ddr_used' = (ddr_used - (units[i].length - units[i].offset)) % Word
      BY <1>2, <1>5, <2>2 DEF Local_Dealloc
    <2>5. /\ \E lo, hi, x : DMerges(units, i, lo, hi, x, units')
          /\ units' \in Seq(DNode) /\ units' # << >> /\ spare' \in Nat
          /\ Len(units') + spare' = Len(units) + spare
      BY <2>3, <2>4, DRelease
    <2>6. DCount'
      BY <1>1, <2>5 DEF DCount
    <2>7. ddr_used' \in 0..Word - 1
      <3>1. ddr_used - (units[i].length - units[i].offset) \in Int
        BY <1>1, <2>3, DFields
      <3> QED
        BY <1>1, <2>4, <3>1, ModRange
    <2>8. ASSUME NEW p \in 1..Len(units), DChain(units), units[p].status = "busy",
                 \A k \in 1..Len(units) : units[k].vaddr = addr => k = p
          PROVE  /\ DFreed(units, p, units')
                 /\ ddr_used' = (ddr_used - (units[p].length - units[p].offset)) % Word
      <3>1. i = p
        BY <2>3, <2>8
      <3>2. PICK lo, hi, x : DMerges(units, p, lo, hi, x, new)
        BY <1>2, <2>5, <3>1
      <3>3. DFreed(units, p, new)
        BY <2>8, <3>2, DFree
      <3> QED
        BY <1>2, <2>4, <3>1, <3>3
    <2> QED
      BY <1>1, <2>5, <2>6, <2>7, <2>8
  <1> QED
    BY <1>4, <1>5

LEMMA DPutBack ==
  ASSUME DdrAssumption, HeapListsAssumption, DInv, NEW b, ddr_free(b)
  PROVE  DInv' /\ (ddr_wrong' = 0 => ddr_wrong = 0 /\ DTaken)
  <1>1. units # << >> /\ b \in owned /\ Local_Dealloc(b.addr) /\ owned' = owned \ {b} /\ ddr_wrong' = ddr_wrong
    BY DEF ddr_free
  <1>2. DTyped /\ DCount
    BY <1>1 DEF DInv
  <1>3. /\ units' \in Seq(DNode) /\ units' # << >> /\ spare' \in Nat /\ DCount'
        /\ ddr_used' \in 0..Word - 1 /\ chunks' = chunks /\ padded' = padded
    BY <1>1, <1>2, DDealloc
  <1>4. DTyped'
    BY <1>1, <1>2, <1>3 DEF DTyped
  <1>5. ASSUME ddr_wrong = 0 PROVE DTaken /\ DKept'
    <2>1. DChain(units) /\ DHeld(owned, DBlocks(units)) /\ (~padded => DUsed(units, ddr_used))
      BY <1>1, <1>5 DEF DInv, DKept
    <2>2. PICK x \in DBlocks(units) : x.addr = b.addr
      BY <1>1, <2>1 DEF DHeld
    <2>3. PICK p : DFound(units, x, p)
      BY <2>1, DFind
    <2>4. /\ p \in 1..Len(units) /\ units[p].status = "busy" /\ DBlock(units[p]) = {x}
          /\ x.addr = units[p].vaddr
          /\ \A k \in 1..Len(units) : units[k].vaddr = x.addr => k = p
      BY <2>3 DEF DFound
    <2>5. /\ DFreed(units, p, units')
          /\ ddr_used' = (ddr_used - (units[p].length - units[p].offset)) % Word
      BY <1>1, <1>2, <2>1, <2>2, <2>4, DDealloc
    <2>6. PICK new, s : new = units' /\ s = units[p].length - units[p].offset
      OBVIOUS
    <2>7. /\ DChain(new) /\ DBlocks(new) = DBlocks(units) \ {x}
          /\ \A u : DUsed(units, u) => DUsed(new, u - s)
      BY <2>4, <2>5, <2>6 DEF DFreed
    <2>8. ~padded => DUsed(new, ddr_used')
      <3> SUFFICES ASSUME ~padded PROVE DUsed(new, ddr_used')
        OBVIOUS
      <3>1. PICK u : u = ddr_used - s
        OBVIOUS
      <3>2. DUsed(new, u)
        BY <2>1, <2>7, <3>1
      <3>3. u \in Nat /\ u <= HeapSize
        BY <2>7, <3>2, DUsedBound
      <3>4. HeapSize \in Nat /\ Word \in Nat /\ HeapSize < Word
        BY DEF DdrAssumption, HeapListsAssumption
      <3>5. ddr_used' = u
        <4>1. u < Word
          BY <3>3, <3>4
        <4>2. u % Word = u
          BY <3>3, <3>4, <4>1, ModSmall
        <4> QED
          BY <2>5, <2>6, <3>1, <4>2
      <3> QED
        BY <3>2, <3>5
    <2>9. \A y \in DBlocks(units) : y.addr = x.addr => y = x
      <3> SUFFICES ASSUME NEW y \in DBlocks(units), y.addr = x.addr PROVE y = x
        OBVIOUS
      <3>1. PICK q : DFound(units, y, q)
        BY <2>1, DFind
      <3>2. DBlock(units[q]) = {y} /\ q \in 1..Len(units) /\ units[q].vaddr = x.addr
        BY <3>1 DEF DFound
      <3>3. q = p
        BY <2>4, <3>2
      <3> QED
        BY <2>4, <3>2, <3>3
    <2>10. DHeld(owned \ {b}, DBlocks(units) \ {x})
      <3>1. \A d \in owned \ {b} : d.addr # b.addr
        BY <1>1, <2>1 DEF DHeld
      <3>2. \A d \in owned \ {b} : \E y \in DBlocks(units) \ {x} : y.addr = d.addr /\ y.size = d.asked
        BY <2>1, <2>2, <3>1 DEF DHeld
      <3>3. \A y \in DBlocks(units) \ {x} : \E d \in owned \ {b} : d.addr = y.addr
        BY <2>1, <2>2, <2>9 DEF DHeld
      <3> QED
        BY <2>1, <3>2, <3>3 DEF DHeld
    <2>11. DTaken
      BY <2>6, <2>7 DEF DTaken
    <2> QED
      BY <1>1, <1>3, <2>6, <2>7, <2>8, <2>10, <2>11 DEF DKept
  <1>6. DInv'
    BY <1>1, <1>3, <1>4, <1>5 DEF DInv
  <1> QED
    BY <1>1, <1>5, <1>6

LEMMA DMisuse ==
  ASSUME HeapListsAssumption, DInv, NEW addr, DdrWrongFree(addr)
  PROVE  DInv' /\ ddr_wrong' # 0
  <1>1. /\ Local_Dealloc(addr) /\ owned' = owned /\ ddr_wrong < MaxWrong /\ ddr_wrong' = ddr_wrong + 1
        /\ ddr_wrong \in 0..MaxWrong /\ MaxWrong \in Nat /\ find_bufunit_byaddr(addr) # {}
    BY DEF DdrWrongFree, DInv, DTyped, HeapListsAssumption
  <1>2. units # << >>
    BY <1>1 DEF find_bufunit_byaddr
  <1>3. DTyped /\ DCount
    BY <1>2 DEF DInv
  <1>4. /\ units' \in Seq(DNode) /\ units' # << >> /\ spare' \in Nat /\ DCount'
        /\ ddr_used' \in 0..Word - 1 /\ chunks' = chunks /\ padded' = padded
    BY <1>1, <1>2, <1>3, DDealloc
  <1>5. ddr_wrong' \in 0..MaxWrong /\ ddr_wrong' # 0
    BY <1>1
  <1>6. DTyped'
    BY <1>1, <1>3, <1>4, <1>5 DEF DTyped
  <1> QED
    BY <1>4, <1>5, <1>6 DEF DInv

LEMMA DStart ==
  ASSUME DdrAssumption, HeapListsAssumption, DInv, ddr_memory_init
  PROVE  DInv' /\ ddr_wrong' = ddr_wrong /\ DBlocks(units)' = {}
  <1>1. PICK len : len = HeapSize - PtrSize
    OBVIOUS
  <1>2. PICK u : u = [vaddr |-> Start, length |-> len, offset |-> 0, status |-> "free"]
    OBVIOUS
  <1>3. /\ units = << >> /\ units' = <<u>> /\ ddr_used' = 0 /\ owned' = owned /\ ddr_wrong' = ddr_wrong /\ owned = {}
        /\ spare' = IncUnits - 2 /\ chunks' = 0 /\ padded' = FALSE /\ ddr_wrong \in 0..MaxWrong
    BY <1>1, <1>2 DEF ddr_memory_init, DInv, DTyped
  <1>4. /\ HeapBase \in Nat /\ HeapSize \in Nat /\ PtrSize \in Nat /\ HeapSize > PtrSize /\ Word \in Nat \ {0}
        /\ IncUnits \in Nat /\ IncUnits >= 2 /\ MaxChunks \in Nat
    BY DEF DdrAssumption, HeapListsAssumption
  <1>5. Start \in Int /\ len \in Nat /\ len >= 1 /\ Start + len = HeapBase + HeapSize
    BY <1>1, <1>4 DEF Start
  <1>6. u \in DNode /\ u.vaddr = Start /\ u.length = len /\ u.status = "free" /\ Begin(u) = Start /\ DGood(u)
    <2>1. u \in DNode /\ u.vaddr = Start /\ u.length = len /\ u.status = "free"
      BY <1>2, <1>5 DEF DNode
    <2> QED
      BY <1>5, <2>1 DEF Begin, DGood
  <1>7. PICK list : list = <<u>>
    OBVIOUS
  <1>8. list \in Seq(DNode) /\ Len(list) = 1 /\ list[1] = u /\ \A k \in 1..1 : k = 1
    BY <1>6, <1>7
  <1>9. DAt(list) = [k \in 1..1 |-> Start] /\ DLn(list) = [k \in 1..1 |-> len]
    BY <1>6, <1>8 DEF DAt, DLn
  <1>10. Tile(1, [k \in 1..1 |-> Start], [k \in 1..1 |-> len], Start, HeapBase + HeapSize)
    <2>1. HeapBase + HeapSize \in Int
      BY <1>4
    <2> QED
      BY <1>5, <2>1 DEF Tile
  <1>11. DChain(list)
    BY <1>6, <1>8, <1>9, <1>10 DEF DChain
  <1>12. DBlocks(list) = {}
    BY <1>6, <1>8 DEF DBlocks, AllBlocks, DBs, DBlock
  <1>13. DUsed(list, 0)
    <2>1. DWs(list) = [k \in 1..1 |-> 0]
      BY <1>6, <1>8 DEF DWs, DWeight
    <2>2. Sums(1, DWs(list), [k \in 0..1 |-> 0])
      BY <2>1 DEF Sums
    <2>3. [k \in 0..1 |-> 0][1] = 0
      OBVIOUS
    <2> QED
      BY <1>8, <2>2, <2>3 DEF DUsed
  <1>14. DHeld({}, {})
    BY DEF DHeld
  <1>15. units' = list /\ units' # << >>
    BY <1>3, <1>7
  <1>16. DTyped'
    <2>1. spare' \in Nat /\ chunks' \in 0..MaxChunks /\ ddr_used' \in 0..Word - 1
      BY <1>3, <1>4
    <2>2. owned' = {} /\ padded' \in BOOLEAN /\ units' \in Seq(DNode) /\ ddr_wrong' \in 0..MaxWrong
      BY <1>3, <1>8, <1>15
    <2> QED
      BY <2>1, <2>2 DEF DTyped
  <1>17. DCount'
    <2>1. Len(units') = 1
      BY <1>8, <1>15
    <2>2. 1 + (1 + (IncUnits - 2)) = IncUnits * (1 + 0)
      BY <1>4
    <2> QED
      BY <1>3, <2>1, <2>2 DEF DCount
  <1>18. DKept'
    <2>1. ddr_used' = 0 /\ owned' = {}
      BY <1>3
    <2>2. DChain(units') /\ DHeld(owned', DBlocks(units')) /\ DUsed(units', ddr_used')
      BY <1>11, <1>12, <1>13, <1>14, <1>15, <2>1
    <2> QED
      BY <2>2 DEF DKept
  <1>19. DInv'
    BY <1>15, <1>16, <1>17, <1>18 DEF DInv
  <1> QED
    BY <1>3, <1>12, <1>15, <1>19

LEMMA DStop ==
  ASSUME DdrAssumption, DInv, ddr_memory_deinit
  PROVE  DInv' /\ ddr_wrong' = ddr_wrong /\ DBlocks(units)' = {}
  <1>1. /\ units' = << >> /\ spare' = 0 /\ chunks' = 0 /\ owned' = {}
        /\ ddr_used' = ddr_used /\ padded' = padded /\ ddr_wrong' = ddr_wrong
    BY DEF ddr_memory_deinit
  <1>2. DTyped'
    <2>1. chunks' \in 0..MaxChunks /\ spare' \in Nat
      BY <1>1 DEF DdrAssumption
    <2>2. units' \in Seq(DNode)
      BY <1>1, EmptySeq
    <2> QED
      BY <1>1, <2>1, <2>2 DEF DInv, DTyped
  <1>3. DBlocks(units)' = {}
    <2>1. Len(units') = 0 /\ 1..0 = {}
      BY <1>1
    <2> QED
      BY <2>1 DEF DBlocks, AllBlocks
  <1> QED
    BY <1>1, <1>2, <1>3 DEF DInv

\* What a call is to the abstract heap.
DMove ==
  ddr_wrong' # 0 \/ (ddr_wrong' = ddr_wrong /\ (DGiven \/ DTaken \/ DBlocks(units)' = {}))

LEMMA DStep ==
  ASSUME DdrAssumption, HeapListsAssumption, DInv, DdrNext
  PROVE  DInv' /\ DMove
  <1>1. padded \in BOOLEAN /\ Word \in Nat \ {0}
    BY DEF DInv, DTyped, HeapListsAssumption
  <1>2. CASE ddr_memory_init
    BY <1>2, DStart DEF DMove
  <1>3. CASE ddr_memory_deinit
    BY <1>3, DStop DEF DMove
  <1>4. ASSUME NEW size \in DdrSizes, ddr_malloc(size) PROVE DInv' /\ DMove
    <2>1. size \in Nat /\ 1 \in Nat \ {0}
      BY DEF DdrAssumption
    <2>2. Local_alignAlloc(1, size, size, size) /\ padded' = padded
      BY <1>4 DEF ddr_malloc
    <2>3. DCounts(size, size)
      BY <1>1, <2>2 DEF DCounts
    <2> QED
      BY <2>1, <2>2, <2>3, DTake DEF DMove
  <1>5. ASSUME NEW c \in Callocs, ddr_calloc(c[1], c[2]) PROVE DInv' /\ DMove
    <2>1. c[1] \in Nat /\ c[2] \in Nat /\ 1 \in Nat \ {0}
      BY DEF DdrAssumption
    <2>2. PICK prod : prod = c[1] * c[2]
      OBVIOUS
    <2>3. prod \in Nat
      BY <2>1, <2>2
    <2>4. PICK size : size = prod % Word
      OBVIOUS
    <2>5. size \in Nat
      <3>1. prod \in Int
        BY <2>3
      <3>2. prod % Word \in 0..Word - 1
        BY <1>1, <3>1, ModRange
      <3> QED
        BY <2>4, <3>2
    <2>6. Local_alignAlloc(1, size, prod, size) /\ padded' = padded
      BY <1>5, <2>2, <2>4 DEF ddr_calloc
    <2>7. DCounts(size, size)
      BY <1>1, <2>6 DEF DCounts
    <2> QED
      BY <2>1, <2>3, <2>5, <2>6, <2>7, DTake DEF DMove
  <1>6. ASSUME NEW al \in DdrAligns, NEW size \in DdrSizes, ddr_memalign(al, size) PROVE DInv' /\ DMove
    <2>1. size \in Nat /\ al \in Nat \ {0}
      BY DEF DdrAssumption
    <2>2. PICK pad : pad = IF size % al = 0 THEN 0 ELSE al - (size % al)
      OBVIOUS
    <2>3. pad \in Nat
      <3>1. size % al \in 0..al - 1
        BY <2>1, ModRange
      <3>2. PICK m : m = size % al
        OBVIOUS
      <3>3. m \in 0..al - 1 /\ pad = IF m = 0 THEN 0 ELSE al - m
        BY <2>2, <3>1, <3>2
      <3> QED
        BY <2>1, <3>3
    <2>4. Local_alignAlloc(al, size, size, size + pad) /\ padded' = (padded \/ pad > 0)
      BY <1>6, <2>2 DEF ddr_memalign
    <2>5. PICK count : count = size + pad
      OBVIOUS
    <2>6. count \in Nat /\ (~(pad > 0) => count = size)
      BY <2>1, <2>3, <2>5
    <2>7. DCounts(size, count)
      <3>1. padded' \in BOOLEAN
        BY <2>4
      <3>2. ~padded' => ~padded /\ ~(pad > 0)
        BY <2>4
      <3> QED
        BY <2>6, <3>1, <3>2 DEF DCounts
    <2> QED
      BY <2>1, <2>4, <2>5, <2>6, <2>7, DTake DEF DMove
  <1>7. ASSUME NEW b \in owned, ddr_free(b) PROVE DInv' /\ DMove
    BY <1>7, DPutBack DEF DMove
  <1>8. ASSUME NEW addr, DdrWrongFree(addr) PROVE DInv' /\ DMove
    BY <1>8, DMisuse DEF DMove
  <1> QED
    BY <1>2, <1>3, <1>4, <1>5, <1>6, <1>7, <1>8 DEF DdrNext

\* What is counted is what LengthOf adds up.
LEMMA DUsedIs ==
  ASSUME NEW list, DChain(list), NEW u, DUsed(list, u), NEW B, B = {i \in DOMAIN list : list[i].status = "busy"}
  PROVE  u = LengthOf([i \in DOMAIN list |->
               [length |-> IF i \in B THEN list[i].length - list[i].offset ELSE 0]])
  <1>1. Len(list) \in Nat /\ DOMAIN list = 1..Len(list)
    BY LenProperties DEF DChain
  <1>2. PICK n, s : /\ n = Len(list)
                    /\ s = [i \in 1..n |-> [length |-> IF i \in B THEN list[i].length - list[i].offset ELSE 0]]
    OBVIOUS
  <1>3. n \in Nat /\ n = Len(s)
    BY <1>1, <1>2
  <1>4. DWs(list) \in [1..n -> Int] /\ \A k \in 1..n : DWs(list)[k] = s[k].length
    BY <1>1, <1>2, DWeights DEF DWeight
  <1>5. PICK P : Sums(n, DWs(list), P) /\ P[n] = u
    BY <1>2 DEF DUsed
  <1>6. LengthOf(s) = P[n]
    BY <1>3, <1>4, <1>5, LengthOfIs
  <1> QED
    BY <1>1, <1>2, <1>5, <1>6

LEMMA DInitInv ==
  ASSUME HeapListsAssumption, DdrAssumption, DdrInit
  PROVE  DInv
  <1>1. units \in Seq(DNode) /\ units = << >> /\ owned = {} /\ padded \in BOOLEAN
    BY EmptySeq DEF DdrInit
  <1>2. spare \in Nat /\ chunks \in 0..MaxChunks /\ ddr_used \in 0..Word - 1 /\ ddr_wrong \in 0..MaxWrong
    BY DEF DdrInit, HeapListsAssumption, DdrAssumption
  <1>3. DTyped
    BY <1>1, <1>2 DEF DTyped
  <1> QED
    BY <1>1, <1>3 DEF DInv

LEMMA DStutter ==
  ASSUME DInv, UNCHANGED ddrVars
  PROVE  DInv'
  BY DEF DInv, DTyped, DCount, DKept, DChain, DUsed, DBlocks, DBs, DWs, DAt, DLn, ddrVars

LEMMA DTilesInv ==
  ASSUME DdrAssumption, DInv
  PROVE  DdrTiles
  <1>1. DdrTypeOK
    BY DEF DInv, DTyped, DdrTypeOK, DNode
  <1>2. ASSUME units # << >> PROVE 1 + Len(units) + spare = IncUnits * (1 + chunks)
    <2>1. Len(units) \in Nat /\ spare \in Nat
      BY LenProperties DEF DInv, DTyped
    <2>2. 1 + Len(units) + spare = 1 + (Len(units) + spare)
      BY <2>1
    <2> QED
      BY <1>2, <2>2 DEF DInv, DCount
  <1>3. ASSUME units # << >>, ddr_wrong = 0, NEW n, n = Len(units)
        PROVE  /\ Begin(units[1]) = Start /\ Begin(units[n]) + units[n].length = HeapBase + HeapSize
               /\ \A i \in 1..n - 1 : /\ Begin(units[i + 1]) = Begin(units[i]) + units[i].length
                                      /\ units[i].status = "busy" \/ units[i + 1].status = "busy"
    <2>1. DChain(units)
      BY <1>3 DEF DInv, DKept
    <2>2. n \in Nat \ {0} /\ 1 \in 1..n /\ n \in 1..n /\ \A i \in 1..n - 1 : i \in 1..n /\ i + 1 \in 1..n
      BY <1>3, <2>1 DEF DChain, Tile
    <2>3. \A i \in 1..n : DAt(units)[i] = Begin(units[i]) /\ DLn(units)[i] = units[i].length
      BY <1>3 DEF DAt, DLn
    <2>4. /\ DAt(units)[1] = Start /\ DAt(units)[n] + DLn(units)[n] = HeapBase + HeapSize
          /\ \A i \in 1..n - 1 : DAt(units)[i + 1] = DAt(units)[i] + DLn(units)[i]
      BY <1>3, <2>1 DEF DChain, Tile
    <2>5. \A i \in 1..n - 1 : Begin(units[i + 1]) = Begin(units[i]) + units[i].length
      BY <2>2, <2>3, <2>4
    <2>6. Begin(units[1]) = Start /\ Begin(units[n]) + units[n].length = HeapBase + HeapSize
      BY <2>2, <2>3, <2>4
    <2> QED
      BY <1>3, <2>1, <2>5, <2>6 DEF DChain
  <1> QED
    BY <1>1, <1>2, <1>3 DEF DdrTiles

LEMMA DFindsInv ==
  ASSUME DInv
  PROVE  DdrFindsOwn
  <1> SUFFICES ASSUME ddr_wrong = 0
               PROVE  /\ \A b \in owned : LET I == find_bufunit_byaddr(b.addr) IN
                           /\ I # {} /\ units[First(I)].status = "busy"
                           /\ units[First(I)].length - units[First(I)].offset = b.asked
                      /\ \A i \in BusyUnits : \E b \in owned : b.addr = units[i].vaddr
                      /\ ~padded /\ units # << >> =>
                           ddr_used = LengthOf([i \in DOMAIN units |->
                             [length |-> IF i \in BusyUnits THEN units[i].length - units[i].offset ELSE 0]])
    BY DEF DdrFindsOwn
  <1>1. CASE units = << >>
    BY <1>1 DEF DInv, BusyUnits
  <1>2. CASE units # << >>
    <2>1. DChain(units) /\ DHeld(owned, DBlocks(units)) /\ (~padded => DUsed(units, ddr_used)) /\ units \in Seq(DNode)
      BY <1>2 DEF DInv, DTyped, DKept
    <2>2. ~padded => ddr_used = LengthOf([i \in DOMAIN units |->
                       [length |-> IF i \in BusyUnits THEN units[i].length - units[i].offset ELSE 0]])
      BY <2>1, DUsedIs DEF BusyUnits
    <2>3. DOMAIN units = 1..Len(units)
      BY <2>1, LenProperties
    <2>4. ASSUME NEW i \in BusyUnits PROVE \E b \in owned : b.addr = units[i].vaddr
      <3>1. i \in 1..Len(units) /\ units[i].status = "busy"
        BY <2>3, <2>4 DEF BusyUnits
      <3>2. PICK x : x = [addr |-> units[i].vaddr, size |-> units[i].length - units[i].offset]
        OBVIOUS
      <3>3. x \in DBs(units)[i]
        BY <3>1, <3>2 DEF DBs, DBlock
      <3>4. x \in DBlocks(units)
        BY <3>1, <3>3 DEF DBlocks, AllBlocks
      <3> QED
        BY <2>1, <3>2, <3>4 DEF DHeld
    <2>5. ASSUME NEW b \in owned, NEW I, I = find_bufunit_byaddr(b.addr)
          PROVE  /\ I # {} /\ units[First(I)].status = "busy"
                 /\ units[First(I)].length - units[First(I)].offset = b.asked
      <3>1. PICK x \in DBlocks(units) : x.addr = b.addr /\ x.size = b.asked
        BY <2>1 DEF DHeld
      <3>2. PICK p : DFound(units, x, p)
        BY <2>1, DFind
      <3>3. /\ p \in 1..Len(units) /\ units[p].status = "busy" /\ x.addr = units[p].vaddr
            /\ x.size = units[p].length - units[p].offset
            /\ \A k \in 1..Len(units) : units[k].vaddr = x.addr => k = p
        BY <3>2 DEF DFound
      <3>4. I = {p}
        BY <2>3, <2>5, <3>1, <3>3 DEF find_bufunit_byaddr
      <3>5. First(I) = p
        BY <3>3, <3>4 DEF First
      <3> QED
        BY <3>1, <3>3, <3>4, <3>5
    <2> QED
      BY <2>2, <2>4, <2>5
  <1> QED
    BY <1>1, <1>2

-----------------------------------------------------------------------------
(* The theorems about the DDR heap.                                        *)

LEMMA DdrInvariant == DdrSpec => []DInv
<1>1. DdrInit => DInv
  BY DInitInv, HeapListsAssumption, DdrAssumption
<1>2. DInv /\ [DdrNext]_ddrVars => DInv'
  BY DStep, DStutter, HeapListsAssumption, DdrAssumption
<1> QED
  BY <1>1, <1>2, PTL DEF DdrSpec

\* For a heap of any size and programs that call ddr_malloc, ddr_calloc,
\* ddr_memalign and ddr_free as they like: no unit structure of the manager is
\* lost or used twice, even after a wrong free or a calloc whose product
\* wrapped; and while nothing of that kind has happened, alloc_bufunit and
\* free_bufunit lose no memory and leave no two free units side by side.
THEOREM DdrTilesAlways == DdrSpec => []DdrTiles
<1>1. DInv => DdrTiles
  BY DTilesInv, DdrAssumption
<1> QED
  BY <1>1, DdrInvariant, PTL

\* While programs keep the rules, find_bufunit_byaddr finds the busy unit of
\* the block ddr_free is given, although it takes the first unit with the
\* address whatever its status; the block has the size that was asked for; and
\* mp_memory_used is exact until ddr_memalign counts padding.
THEOREM DdrFindsOwnAlways == DdrSpec => []DdrFindsOwn
<1>1. DInv => DdrFindsOwn
  BY DFindsInv
<1> QED
  BY <1>1, DdrInvariant, PTL

\* The DDR heap implements the abstract heap: alloc_bufunit hands out memory
\* inside the heap and apart from every busy unit, and free_bufunit, with the
\* merging of its neighbours, disturbs no other block.
THEOREM DdrRefinesHeap == DdrSpec => DdrImplementsHeap
<1> DEFINE B == {[addr |-> units[i].vaddr, size |-> units[i].length - units[i].offset] : i \in BusyUnits}
<1>1. ASSUME DInv PROVE B = DBlocks(units)
  <2>1. DOMAIN units = 1..Len(units)
    BY <1>1, LenProperties DEF DInv, DTyped
  <2> QED
    BY <2>1 DEF BusyUnits, DBlocks, AllBlocks, DBs, DBlock
<1>2. DdrInit => DdrBlocks!Init
  BY DEF DdrInit, DdrBlocks!Init, BusyUnits
<1>3. ASSUME DInv, DInv', DdrNext PROVE [DdrBlocks!Next]_<<B, (ddr_wrong = 0)>>
  <2>1. DMove
    BY <1>3, DStep, HeapListsAssumption, DdrAssumption
  <2>2. B = DBlocks(units) /\ B' = DBlocks(units)'
    <3>1. B = DBlocks(units)
      BY <1>1, <1>3
    <3>2. (DInv => B = DBlocks(units))'
      BY <1>1, PTL
    <3> QED
      BY <1>3, <3>1, <3>2
  <2> HIDE DEF B
  <2>3. CASE ddr_wrong' # 0
    BY <2>3 DEF DdrBlocks!Next, DdrBlocks!Misuse
  <2>4. CASE ddr_wrong' = ddr_wrong /\ DGiven
    <3>1. PICK x : /\ x.addr \in Int /\ x.size \in Nat \ {0} /\ Start <= x.addr /\ x.addr + x.size <= HeapBase + HeapSize
                   /\ \A y \in B : Apart(x, y)
                   /\ B' = B \cup {x}
      BY <2>2, <2>4 DEF DGiven
    <3>2. DdrBlocks!Alloc
      BY <3>1 DEF DdrBlocks!Alloc, DdrBlocks!Within, DdrBlocks!Apart, Apart, B
    <3> QED
      BY <2>4, <3>2 DEF DdrBlocks!Next
  <2>5. CASE ddr_wrong' = ddr_wrong /\ DTaken
    BY <2>2, <2>5 DEF DTaken, DdrBlocks!Next, DdrBlocks!Free, B
  <2>6. CASE ddr_wrong' = ddr_wrong /\ DBlocks(units)' = {}
    BY <2>2, <2>6 DEF DdrBlocks!Next, DdrBlocks!Reset, B
  <2> QED
    BY <2>1, <2>3, <2>4, <2>5, <2>6 DEF DMove
<1>4. UNCHANGED ddrVars => UNCHANGED <<B, (ddr_wrong = 0)>>
  BY DEF ddrVars, BusyUnits
<1>5. DInv /\ DInv' /\ [DdrNext]_ddrVars => [DdrBlocks!Next]_<<B, (ddr_wrong = 0)>>
  BY <1>3, <1>4
<1> QED
  BY <1>2, <1>5, DdrInvariant, PTL DEF DdrSpec, DdrImplementsHeap, DdrBlocks!Spec

-----------------------------------------------------------------------------
(* What an implementation of BlockHeap promises.                           *)

\* One step of the heap keeps the blocks apart.
LEMMA StepKeepsApart ==
  ASSUME BlocksDisjoint, Next
  PROVE  BlocksDisjoint'
<1>1. CASE Misuse
  BY <1>1 DEF Misuse, BlocksDisjoint
<1>2. CASE kept' = kept /\ Alloc
  BY <1>2 DEF Alloc, BlocksDisjoint, Apart, Within
<1>3. CASE kept' = kept /\ Free
  BY <1>3 DEF Free, BlocksDisjoint, Apart, Within
<1>4. CASE kept' = kept /\ Reset
  BY <1>4 DEF Reset, BlocksDisjoint
<1> QED
  BY <1>1, <1>2, <1>3, <1>4 DEF Next

\* Blocks that oram_malloc, ddr_malloc and their kin hand out never overlap
\* and never leave the heap, while programs free only what they were given.
THEOREM HeapKeepsApart == Spec => []BlocksDisjoint
<1>1. Init => BlocksDisjoint
  BY DEF Init, BlocksDisjoint
<1>2. BlocksDisjoint /\ UNCHANGED <<blocks, kept>> => BlocksDisjoint'
  BY DEF BlocksDisjoint, Apart, Within
<1>3. BlocksDisjoint /\ [Next]_<<blocks, kept>> => BlocksDisjoint'
  BY <1>2, StepKeepsApart
<1> QED
  BY <1>1, <1>3, PTL DEF Spec

-----------------------------------------------------------------------------
(* The buffer pool of an IAIC context.                                     *)

\* Another BO is added to the list without the mutex: the pool of a program
\* that lets it grow is used by one thread.
SoleGrower == Grow => \A t, u \in Threads : t = u

\* The block of shared_bo.
SharedBlock(h) ==
  LET n == align(SharedSize)
  IN [paddr |-> Base[h], size |-> IF PoolSize - n < MinRemain THEN PoolSize ELSE n,
      idle |-> 0, is_bo |-> 1, handle |-> h, live |-> 1]

PAt(list, m) == [k \in 1..m |-> list[k].paddr]

PLn(list, m) == [k \in 1..m |-> list[k].size]

\* A block of the pool behind the first.
PoolBlock(b, h) == b.handle = h /\ b.is_bo = 0 /\ b.live = 1

\* A BO by which the pool has grown.
GrownBlock(b, h) ==
  /\ b.handle # h /\ b.is_bo = 1 /\ b.paddr = Base[b.handle] /\ b.size \in Sizes \ {0}
  /\ b.live = 0 => b.idle = 1

\* The first m blocks of the list tile kernel BO h, with no two idle
\* neighbours; the others are BOs of their own.
PoolChain(list, m, h) ==
  /\ list \in Seq(Blocks) /\ m \in 1..Len(list) /\ h \in 1..MaxBos
  /\ Tile(m, PAt(list, m), PLn(list, m), Base[h], Base[h] + PoolSize)
  /\ list[1] = SharedBlock(h)
  /\ \A k \in 2..m : PoolBlock(list[k], h)
  /\ \A k \in 1..m : list[k].paddr < Base[h] + PoolSize
  /\ \A k \in 1..m - 1 : list[k].idle = 0 \/ list[k + 1].idle = 0
  /\ \A k \in m + 1..Len(list) : GrownBlock(list[k], h)
  /\ \A k, l \in m + 1..Len(list) : list[k].handle = list[l].handle => k = l

\* No block is empty.
Solid(list) == \A k \in 1..Len(list) : list[k].size >= 1

\* The memory of a buffer, and of the busy blocks behind the first.
Part(b) == [paddr |-> b.paddr, esize |-> b.esize, handle |-> b.handle]

BusyPart(b) == IF b.idle = 0 THEN {[paddr |-> b.paddr, esize |-> b.size, handle |-> b.handle]} ELSE {}

PBs(list) == [k \in 1..Len(list) |-> IF k = 1 THEN {} ELSE BusyPart(list[k])]

BusyParts(list) == AllBlocks(Len(list), PBs(list))

\* The buffers whose blocks are found by their addresses: all of them, until a
\* block of size 0 was cut from the pool; the other BOs then.
Sure == {b \in Buffers : zero = 0 \/ b.handle # bo_list[1].handle}

\* A buffer is large enough, and behind the first block if it is from the pool.
Sized(b, h) ==
  /\ b.size \in Sizes /\ b.esize >= b.size /\ b.paddr \in Nat /\ b.esize \in Nat
  /\ b.handle = h => Base[h] < b.paddr /\ b.paddr < Base[h] + PoolSize

\* Buffers are busy blocks, each of one thread, and large enough.
BufferInv ==
  /\ zero = 0 => \A t, u \in Threads : t # u => mine[t] \cap mine[u] = {}
  /\ \A b, c \in Sure : b.paddr = c.paddr => b = c
  /\ \A b \in Sure : Part(b) \in BusyParts(bo_list)
  /\ \A b \in Buffers : Sized(b, bo_list[1].handle)

\* BOs behind the pool that are neither handed out nor destroyed.
Loose(list, m) == {k \in m + 1..Len(list) : list[k].idle = 1 /\ list[k].live = 1}

\* Such a BO has just been made or is about to be destroyed.
CallInv(t, m) ==
  /\ pc[t] \in {"idle", "grow"} => Loose(bo_list, m) = {}
  /\ pc[t] \in {"grow", "take"} => want[t] \in Sizes
  /\ pc[t] = "take" => Loose(bo_list, m) = {Len(bo_list)} /\ bo_list[Len(bo_list)].size = want[t]
  /\ pc[t] = "destroy" => \E d \in Loose(bo_list, m) : Loose(bo_list, m) = {d} /\ bo_list[d].paddr = curr[t]
  /\ pc[t] # "idle" => Grow

\* Live BOs exist and are mapped, and the pool grows only if it may.
GrownInv(m) ==
  /\ \A k \in 1..Len(bo_list) : bo_list[k].live = 1 =>
       bo_list[k].handle \in kernel /\ (bo_list[k].handle \in mapped \/ Torn)
  /\ \A k \in 1..Len(bo_list) : bo_list[k].handle <= bos
  /\ Len(bo_list) > m => Grow
  /\ corrupt = 0 => \A t \in Threads : CallInv(t, m)

PoolKept(m, h) ==
  /\ PoolChain(bo_list, m, h) /\ GrownInv(m) /\ h \in kernel
  /\ zero = 0 => Solid(bo_list) /\ (corrupt = 0 => BusyParts(bo_list) = {Part(b) : b \in Buffers})
  /\ corrupt = 1 => Len(bo_list) > m

PoolTypes ==
  /\ ctx \in {0, 1} /\ corrupt \in {0, 1} /\ bos \in 0..MaxBos /\ kernel \subseteq 1..bos
  /\ pc \in [Threads -> {"idle", "grow", "take", "destroy"}]
  /\ want \in [Threads -> Sizes \cup {0}] /\ curr \in [Threads -> Nat]
  /\ DOMAIN mine = Threads /\ mapped \subseteq kernel /\ zero \in {0, 1}

PoolInv ==
  /\ PoolTypes /\ BufferInv
  /\ ctx = 0 => bo_list = << >> /\ Buffers = {} /\ \A t \in Threads : pc[t] = "idle"
  /\ ctx = 1 => \E m \in 1..Len(bo_list), h \in 1..MaxBos : PoolKept(m, h)

-----------------------------------------------------------------------------
LEMMA PoolFields ==
  ASSUME NEW list \in Seq(Blocks), NEW k \in 1..Len(list)
  PROVE  /\ list[k] \in Blocks
         /\ list[k].paddr \in Nat /\ list[k].size \in Nat /\ list[k].idle \in {0, 1}
         /\ list[k].is_bo \in {0, 1} /\ list[k].handle \in 1..MaxBos /\ list[k].live \in {0, 1}
  <1>1. list[k] \in Blocks
    BY ElementOfSeq
  <1> QED
    BY <1>1 DEF Blocks

\* Rounding up to a multiple of the granule.
LEMMA DivBounds ==
  ASSUME NEW x \in Nat, NEW g \in Nat \ {0}
  PROVE  x \div g \in Nat /\ (x \div g) * g \in Nat /\ (x \div g) * g <= x /\ x < (x \div g) * g + g
  OBVIOUS

LEMMA AlignUp ==
  ASSUME PoolAssumption, NEW size \in Nat
  PROVE  align(size) \in Nat /\ align(size) >= size /\ align(size) < size + Granule
  <1>1. Granule \in Nat \ {0} /\ size + Granule - 1 \in Nat
    BY DEF PoolAssumption
  <1>2. PICK x, a : x = size + Granule - 1 /\ a = (x \div Granule) * Granule
    OBVIOUS
  <1>3. a \in Nat /\ a <= x /\ x < a + Granule
    BY <1>1, <1>2, DivBounds
  <1>4. align(size) = a
    BY <1>2 DEF align
  <1> QED
    BY <1>1, <1>2, <1>3, <1>4

\* The context's own block.
LEMMA SharedIs ==
  ASSUME PoolAssumption, BaseAssumption, NEW h \in 1..MaxBos
  PROVE  /\ SharedBlock(h) \in Blocks
         /\ SharedBlock(h).paddr = Base[h] /\ SharedBlock(h).idle = 0 /\ SharedBlock(h).is_bo = 1
         /\ SharedBlock(h).handle = h /\ SharedBlock(h).live = 1
         /\ SharedBlock(h).size \in Nat \ {0} /\ SharedBlock(h).size <= PoolSize
         /\ Base[h] \in Nat /\ PoolSize \in Nat
  <1>1. /\ SharedSize \in Nat \ {0} /\ PoolSize \in Nat /\ Granule \in Nat \ {0} /\ MinRemain \in Nat
        /\ SharedSize + Granule <= PoolSize
    BY DEF PoolAssumption
  <1>2. PICK n : n = align(SharedSize)
    OBVIOUS
  <1>3. n \in Nat /\ n >= SharedSize /\ n < SharedSize + Granule
    BY <1>1, <1>2, AlignUp
  <1>4. PICK s : s = IF PoolSize - n < MinRemain THEN PoolSize ELSE n
    OBVIOUS
  <1>5. s \in Nat \ {0} /\ s <= PoolSize
    BY <1>1, <1>3, <1>4
  <1>6. SharedBlock(h) = [paddr |-> Base[h], size |-> s, idle |-> 0, is_bo |-> 1, handle |-> h, live |-> 1]
    BY <1>2, <1>4 DEF SharedBlock
  <1>7. Base[h] \in Nat
    BY DEF BaseAssumption
  <1> QED
    BY <1>1, <1>5, <1>6, <1>7 DEF Blocks

LEMMA BasesApart ==
  ASSUME PoolAssumption, BaseAssumption, NEW j \in 1..MaxBos, NEW k \in 1..MaxBos, j # k,
         NEW s \in Sizes \cup {PoolSize}, NEW r \in Sizes \cup {PoolSize}
  PROVE  Base[j] + s <= Base[k] \/ Base[k] + r <= Base[j]
  <1>1. /\ Base[j] + s <= Base[k] \/ Base[k] + s <= Base[j]
        /\ Base[j] + r <= Base[k] \/ Base[k] + r <= Base[j]
    BY DEF BaseAssumption
  <1>2. Base[j] \in Nat /\ Base[k] \in Nat /\ s \in Nat /\ r \in Nat
    BY DEF BaseAssumption, PoolAssumption
  <1>3. /\ Base[j] + PoolSize <= Base[k] \/ Base[k] + PoolSize <= Base[j]
        /\ PoolSize \in Nat \ {0}
    BY DEF BaseAssumption, PoolAssumption
  <1> QED
    BY <1>1, <1>2, <1>3

\* The extent of the blocks of the list.
LEMMA PoolExtent ==
  ASSUME PoolAssumption, BaseAssumption, NEW list, NEW m, NEW h, PoolChain(list, m, h)
  PROVE  /\ \A k \in 1..m : /\ k \in 1..Len(list) /\ list[k].handle = h
                            /\ Base[h] <= list[k].paddr /\ list[k].paddr + list[k].size <= Base[h] + PoolSize
         /\ \A k, l \in 1..m : k < l => list[k].paddr + list[k].size <= list[l].paddr
  <1>1. list \in Seq(Blocks) /\ m \in 1..Len(list) /\ h \in 1..MaxBos /\ list[1] = SharedBlock(h)
    BY DEF PoolChain
  <1>2. PICK at, ln, lo, hi : at = PAt(list, m) /\ ln = PLn(list, m) /\ lo = Base[h] /\ hi = Base[h] + PoolSize
    OBVIOUS
  <1>3. Tile(m, at, ln, lo, hi)
    BY <1>2 DEF PoolChain
  <1>4. \A k \in 1..m : at[k] = list[k].paddr /\ ln[k] = list[k].size
    BY <1>2 DEF PAt, PLn
  <1>5. /\ \A i, k \in 1..m : i < k => at[i] + ln[i] <= at[k]
        /\ \A i \in 1..m : lo <= at[i] /\ at[i] + ln[i] <= hi
    BY <1>3, TileOrder
  <1>6. ASSUME NEW k \in 1..m PROVE k \in 1..Len(list) /\ list[k].handle = h
    <2>1. k \in 1..Len(list)
      BY <1>1, LenProperties
    <2>2. CASE k = 1
      BY <1>1, <2>1, <2>2, SharedIs
    <2>3. CASE k # 1
      <3>1. k \in 2..m
        BY <1>1, <2>3, LenProperties
      <3> QED
        BY <2>1, <3>1 DEF PoolChain, PoolBlock
    <2> QED
      BY <2>2, <2>3
  <1> QED
    BY <1>2, <1>4, <1>5, <1>6

LEMMA PoolApart ==
  ASSUME PoolAssumption, BaseAssumption, NEW list, NEW m, NEW h, PoolChain(list, m, h),
         NEW k \in 1..Len(list), NEW l \in 1..Len(list), k # l
  PROVE  /\ list[k].paddr + list[k].size <= list[l].paddr \/ list[l].paddr + list[l].size <= list[k].paddr
         /\ Solid(list) \/ k > m \/ l > m => list[k].paddr # list[l].paddr
  <1>1. /\ list \in Seq(Blocks) /\ Len(list) \in Nat /\ m \in 1..Len(list) /\ h \in 1..MaxBos
        /\ k \in Nat /\ l \in Nat /\ m \in Nat
    BY LenProperties DEF PoolChain
  <1>2. /\ list[k].paddr \in Nat /\ list[k].size \in Nat /\ list[k].handle \in 1..MaxBos
        /\ list[l].paddr \in Nat /\ list[l].size \in Nat /\ list[l].handle \in 1..MaxBos
    BY <1>1, PoolFields
  <1>3. /\ Sizes \subseteq Nat /\ PoolSize \in Nat /\ Base[h] \in Nat
        /\ PoolSize \in Sizes \cup {PoolSize}
    BY <1>1, SharedIs DEF PoolAssumption
  <1>4. \A q \in m + 1..Len(list) : GrownBlock(list[q], h)
    BY DEF PoolChain
  <1>5. ASSUME NEW q \in 1..Len(list), q > m PROVE q \in m + 1..Len(list) /\ list[q].size >= 1
    <2>1. q \in m + 1..Len(list)
      BY <1>1, <1>5
    <2>2. list[q].size \in Nat \ {0}
      BY <1>3, <1>4, <2>1 DEF GrownBlock
    <2> QED
      BY <2>1, <2>2
  <1>6. list[k].paddr + list[k].size <= list[l].paddr \/ list[l].paddr + list[l].size <= list[k].paddr
    <2>1. CASE k \in 1..m /\ l \in 1..m
      <3>1. k < l \/ l < k
        BY <1>1
      <3> QED
        BY <2>1, <3>1, PoolExtent
    <2>2. ASSUME NEW p \in 1..m, NEW q \in m + 1..Len(list)
          PROVE  list[p].paddr + list[p].size <= list[q].paddr \/ list[q].paddr + list[q].size <= list[p].paddr
      <3>1. p \in 1..Len(list) /\ q \in 1..Len(list)
        BY <1>1
      <3>2. /\ list[p].paddr \in Nat /\ list[p].size \in Nat
            /\ list[q].paddr \in Nat /\ list[q].size \in Nat /\ list[q].handle \in 1..MaxBos
        BY <1>1, <3>1, PoolFields
      <3>3. Base[h] <= list[p].paddr /\ list[p].paddr + list[p].size <= Base[h] + PoolSize
        BY PoolExtent
      <3>4. list[q].handle # h /\ list[q].paddr = Base[list[q].handle] /\ list[q].size \in Sizes \cup {PoolSize}
        BY <1>4 DEF GrownBlock
      <3>5. Base[h] + PoolSize <= Base[list[q].handle] \/ Base[list[q].handle] + list[q].size <= Base[h]
        BY <1>1, <1>3, <3>2, <3>4, BasesApart
      <3>6. PICK a, b, c, d, e, f : /\ a = list[p].paddr /\ b = list[p].size /\ c = list[q].paddr
                                    /\ d = list[q].size /\ e = Base[h] /\ f = PoolSize
        OBVIOUS
      <3>7. a \in Nat /\ b \in Nat /\ c \in Nat /\ d \in Nat /\ e \in Nat /\ f \in Nat
        BY <1>3, <3>2, <3>6
      <3>8. e <= a /\ a + b <= e + f /\ (e + f <= c \/ c + d <= e)
        BY <3>3, <3>4, <3>5, <3>6
      <3>9. a + b <= c \/ c + d <= a
        BY <3>7, <3>8
      <3> QED
        BY <3>6, <3>9
    <2>3. CASE k \in m + 1..Len(list) /\ l \in m + 1..Len(list)
      <3>1. list[k].handle # list[l].handle
        BY <2>3 DEF PoolChain
      <3>2. /\ list[k].paddr = Base[list[k].handle] /\ list[k].size \in Sizes \cup {PoolSize}
            /\ list[l].paddr = Base[list[l].handle] /\ list[l].size \in Sizes \cup {PoolSize}
        BY <1>4, <2>3 DEF GrownBlock
      <3> QED
        BY <1>2, <3>1, <3>2, BasesApart
    <2>4. (k \in 1..m \/ k \in m + 1..Len(list)) /\ (l \in 1..m \/ l \in m + 1..Len(list))
      BY <1>1
    <2> QED
      BY <2>1, <2>2, <2>3, <2>4
  <1>7. ASSUME NEW p \in 1..Len(list), NEW q \in 1..Len(list), p # q, q > m PROVE list[p].paddr # list[q].paddr
    <2>1. q \in m + 1..Len(list) /\ list[q].size >= 1
      BY <1>5, <1>7
    <2>2. /\ list[p].paddr \in Nat /\ list[p].size \in Nat /\ list[p].handle \in 1..MaxBos
          /\ list[q].paddr \in Nat /\ list[q].size \in Nat /\ list[q].handle \in 1..MaxBos
      BY <1>1, PoolFields
    <2>3. list[q].handle # h /\ list[q].paddr = Base[list[q].handle] /\ list[q].size \in Sizes \cup {PoolSize}
      BY <1>4, <2>1 DEF GrownBlock
    <2>4. CASE p > m
      <3>1. p \in m + 1..Len(list) /\ list[p].size >= 1
        BY <1>5, <2>4
      <3>2. list[p].paddr = Base[list[p].handle] /\ list[p].size \in Sizes \cup {PoolSize}
        BY <1>4, <3>1 DEF GrownBlock
      <3>3. list[p].handle # list[q].handle
        BY <1>7, <2>1, <3>1 DEF PoolChain
      <3>4. \/ list[p].paddr + list[p].size <= list[q].paddr
            \/ list[q].paddr + list[q].size <= list[p].paddr
        BY <2>2, <2>3, <3>2, <3>3, BasesApart
      <3> QED
        BY <2>1, <2>2, <3>1, <3>4, SMTT(30)
    <2>5. CASE ~(p > m)
      <3>1. p \in 1..m
        BY <1>1, <2>5
      <3>2. Base[h] <= list[p].paddr /\ list[p].paddr < Base[h] + PoolSize
        BY <3>1, PoolExtent DEF PoolChain
      <3>3. Base[h] + PoolSize <= Base[list[q].handle] \/ Base[list[q].handle] + list[q].size <= Base[h]
        BY <1>1, <1>3, <2>2, <2>3, BasesApart
      <3>4. PICK a, c, d, e, f : /\ a = list[p].paddr /\ c = list[q].paddr
                                 /\ d = list[q].size /\ e = Base[h] /\ f = PoolSize
        OBVIOUS
      <3>5. a \in Nat /\ c \in Nat /\ d \in Nat /\ e \in Nat /\ f \in Nat
        BY <1>3, <2>2, <3>4
      <3>6. e <= a /\ a < e + f /\ (e + f <= c \/ c + d <= e) /\ d >= 1
        BY <2>1, <2>3, <3>2, <3>3, <3>4
      <3>7. a # c
        BY <3>5, <3>6
      <3> QED
        BY <3>4, <3>7
    <2> QED
      BY <2>4, <2>5
  <1>8. ASSUME Solid(list) PROVE list[k].paddr # list[l].paddr
    <2>1. list[k].size >= 1 /\ list[l].size >= 1
      BY <1>8 DEF Solid
    <2> QED
      BY <1>2, <1>6, <2>1, SMTT(30)
  <1>9. ASSUME k > m \/ l > m PROVE list[k].paddr # list[l].paddr
    BY <1>7, <1>9
  <1> QED
    BY <1>6, <1>8, <1>9

\* What may take the place of blocks i..j of the pool.
PoolSuits(list, m, h, i, j, c, others) ==
  /\ c \in {1, 2} /\ i \in 2..m /\ j \in i..m
  /\ \A x \in 1..c : others[x] \in Blocks /\ PoolBlock(others[x], h) /\ others[x].paddr < Base[h] + PoolSize
  /\ others[1].paddr = list[i].paddr
  /\ others[c].paddr + others[c].size = list[j].paddr + list[j].size
  /\ c = 2 => others[2].paddr = others[1].paddr + others[1].size /\ others[1].idle = 0
  /\ list[i - 1].idle = 0 \/ others[1].idle = 0
  /\ j < m => others[c].idle = 0 \/ list[j + 1].idle = 0

\* Where the blocks of the list come from: d is by how much it shrinks.
PoolShift(list, m, i, j, c, others, r, m2, d) ==
  /\ d \in Int /\ d = (j - i + 1) - c /\ m2 \in 1..Len(r) /\ m2 = m - d /\ Len(r) \in Nat
  /\ i \in Nat /\ c \in Nat /\ 2 <= i /\ i + c - 1 <= m2
  /\ \A k \in 1..i - 1 : k \in 1..m /\ r[k] = list[k]
  /\ r[i] = others[1] /\ r[i + c - 1] = others[c] /\ (c = 2 => r[i + 1] = others[2])
  /\ \A k \in i + c..m2 : k + d \in j + 1..m /\ r[k] = list[k + d]
  /\ \A k \in m2 + 1..Len(r) : k + d \in m + 1..Len(list) /\ r[k] = list[k + d]

LEMMA PoolShifted ==
  ASSUME NEW list \in Seq(Blocks), NEW m \in 1..Len(list), NEW i \in 2..m, NEW j \in i..m, NEW c \in {1, 2},
         NEW others, NEW r, IsReplaced(list, i, j, c, others, r)
  PROVE  PoolShift(list, m, i, j, c, others, r, m - ((j - i + 1) - c), (j - i + 1) - c)
  <1>1. /\ Len(list) \in Nat /\ m \in Nat /\ i \in Nat /\ j \in Nat /\ c \in Nat /\ 2 <= i /\ i <= j /\ j <= m
        /\ m <= Len(list) /\ c \in {1, 2} /\ Len(r) \in Nat /\ Len(r) = Len(list) - (j - i + 1) + c
    BY LenProperties DEF IsReplaced
  <1>2. PICK d, m2 : d = (j - i + 1) - c /\ m2 = m - d
    OBVIOUS
  <1>3. d \in Int /\ m2 \in 1..Len(r) /\ i + c - 1 <= m2 /\ Len(r) = Len(list) - d
    BY <1>1, <1>2
  <1>4. \A k \in 1..i - 1 : k \in 1..m /\ r[k] = list[k]
    BY <1>1 DEF IsReplaced
  <1>5. \A k \in 1..c : r[i - 1 + k] = others[k]
    BY DEF IsReplaced
  <1>6. 1 \in 1..c /\ c \in 1..c /\ i - 1 + 1 = i /\ i - 1 + c = i + c - 1 /\ (c = 2 => i - 1 + c = i + 1)
    BY <1>1
  <1>7. r[i] = others[1] /\ r[i + c - 1] = others[c] /\ (c = 2 => r[i + 1] = others[2])
    BY <1>5, <1>6
  <1>8. ASSUME NEW k \in i + c..Len(r) PROVE k + d \in j + 1..Len(list) /\ r[k] = list[k + d]
    <2>1. k + (j - i + 1) - c \in j + 1..Len(list) /\ r[k] = list[k + (j - i + 1) - c]
      BY DEF IsReplaced
    <2>2. k + (j - i + 1) - c = k + d
      BY <1>1, <1>2, <1>3
    <2> QED
      BY <2>1, <2>2
  <1>9. \A k \in i + c..m2 : k + d \in j + 1..m /\ r[k] = list[k + d]
    <2> SUFFICES ASSUME NEW k \in i + c..m2 PROVE k + d \in j + 1..m /\ r[k] = list[k + d]
      OBVIOUS
    <2>1. k \in i + c..Len(r)
      BY <1>1, <1>3
    <2>2. k + d \in j + 1..Len(list) /\ r[k] = list[k + d]
      BY <1>8, <2>1
    <2> QED
      BY <1>1, <1>2, <1>3, <2>2
  <1>10. \A k \in m2 + 1..Len(r) : k + d \in m + 1..Len(list) /\ r[k] = list[k + d]
    <2> SUFFICES ASSUME NEW k \in m2 + 1..Len(r) PROVE k + d \in m + 1..Len(list) /\ r[k] = list[k + d]
      OBVIOUS
    <2>1. k \in i + c..Len(r)
      BY <1>1, <1>3
    <2>2. k + d \in j + 1..Len(list) /\ r[k] = list[k + d]
      BY <1>8, <2>1
    <2> QED
      BY <1>1, <1>2, <1>3, <2>2
  <1>11. PoolShift(list, m, i, j, c, others, r, m2, d)
    BY <1>1, <1>2, <1>3, <1>4, <1>7, <1>9, <1>10 DEF PoolShift
  <1> QED
    BY <1>2, <1>11

LEMMA PoolReplace ==
  ASSUME PoolAssumption, BaseAssumption, NEW list, NEW m, NEW h, PoolChain(list, m, h),
         NEW i, NEW j, NEW c, NEW others, PoolSuits(list, m, h, i, j, c, others),
         NEW r \in Seq(Blocks), NEW m2, NEW d, PoolShift(list, m, i, j, c, others, r, m2, d)
  PROVE  PoolChain(r, m2, h)
  <1>1. /\ list \in Seq(Blocks) /\ Len(list) \in Nat /\ m \in 1..Len(list) /\ m \in Nat /\ h \in 1..MaxBos
        /\ c \in {1, 2} /\ i \in 2..m /\ j \in i..m /\ i \in Nat /\ j \in Nat
    BY LenProperties DEF PoolChain, PoolSuits
  <1>2. /\ d \in Int /\ d = (j - i + 1) - c /\ m2 \in 1..Len(r) /\ m2 \in Nat /\ m2 = m - d /\ Len(r) \in Nat
        /\ 2 <= i /\ i + c - 1 <= m2
    BY DEF PoolShift
  <1>3. \A k \in 1..i - 1 : k \in 1..m /\ r[k] = list[k]
    BY DEF PoolShift
  <1>4. r[i] = others[1] /\ r[i + c - 1] = others[c] /\ (c = 2 => r[i + 1] = others[2])
    BY DEF PoolShift
  <1>5. \A k \in i + c..m2 : k + d \in j + 1..m /\ r[k] = list[k + d]
    BY DEF PoolShift
  <1>6. \A k \in m2 + 1..Len(r) : k + d \in m + 1..Len(list) /\ r[k] = list[k + d]
    BY DEF PoolShift
  <1>7. Tile(m2, PAt(r, m2), PLn(r, m2), Base[h], Base[h] + PoolSize)
    <2>1. PICK at, ln, at2, ln2, lo, hi : /\ at = PAt(list, m) /\ ln = PLn(list, m) /\ at2 = PAt(r, m2)
                                          /\ ln2 = PLn(r, m2) /\ lo = Base[h] /\ hi = Base[h] + PoolSize
      OBVIOUS
    <2>2. /\ \A k \in 1..m : at[k] = list[k].paddr /\ ln[k] = list[k].size
          /\ \A k \in 1..m2 : at2[k] = r[k].paddr /\ ln2[k] = r[k].size
      BY <2>1 DEF PAt, PLn
    <2>3. at2 \in [1..m2 -> Int] /\ ln2 \in [1..m2 -> Nat]
      <3>1. \A k \in 1..m2 : k \in 1..Len(r)
        BY <1>2
      <3>2. \A k \in 1..m2 : r[k].paddr \in Int /\ r[k].size \in Nat
        BY <3>1, PoolFields
      <3> QED
        BY <2>1, <3>2 DEF PAt, PLn
    <2>4. ASSUME NEW k \in 1..i - 1 PROVE at2[k] = at[k] /\ ln2[k] = ln[k]
      <3>1. k \in 1..m2 /\ k \in 1..m
        BY <1>1, <1>2, SMTT(30)
      <3> QED
        BY <1>3, <2>2, <3>1
    <2>5. ASSUME NEW k \in i + c..m2
          PROVE  /\ at2[k] = at[k + (j - i + 1) - c] /\ ln2[k] = ln[k + (j - i + 1) - c]
      <3>1. k \in 1..m2 /\ k + (j - i + 1) - c = k + d
        BY <1>1, <1>2
      <3>2. k + d \in j + 1..m /\ r[k] = list[k + d]
        BY <1>5
      <3>3. k + d \in 1..m
        BY <1>1, <3>2
      <3> QED
        BY <2>2, <3>1, <3>2, <3>3
    <2>6. i \in 1..m /\ i \in 1..m2 /\ j \in 1..m /\ i + c - 1 \in 1..m2 /\ (c = 2 => i + 1 \in 1..m2)
      BY <1>1, <1>2, SMTT(30)
    <2>7. at2[i] = at[i]
      BY <1>4, <2>2, <2>6 DEF PoolSuits
    <2>8. at2[i + c - 1] + ln2[i + c - 1] = at[j] + ln[j]
      BY <1>4, <2>2, <2>6 DEF PoolSuits
    <2>9. c = 2 => at2[i + 1] = at2[i] + ln2[i]
      BY <1>4, <2>2, <2>6 DEF PoolSuits
    <2>10. m2 = m - (j - i + 1) + c
      BY <1>1, <1>2
    <2>11. Tile(m, at, ln, lo, hi)
      BY <2>1 DEF PoolChain
    <2>12. TileStep(m, at, ln, i, j, c, m2, at2, ln2)
      BY <2>3, <2>4, <2>5, <2>7, <2>8, <2>9, <2>10 DEF TileStep
    <2>13. Tile(m2, at2, ln2, lo, hi)
      <3>1. i \in 1..m /\ j \in i..m /\ c \in {1, 2}
        BY <1>1, <2>6
      <3> HIDE DEF Tile
      <3> QED
        BY <2>11, <2>12, <3>1, TileReplace
    <2> QED
      BY <2>1, <2>13
  <1>8. r[1] = SharedBlock(h)
    <2>1. 1 \in 1..i - 1
      BY <1>1
    <2> QED
      BY <1>3, <2>1 DEF PoolChain
  <1>9. ASSUME NEW k \in 2..m2 PROVE PoolBlock(r[k], h)
    <2>1. k \in 1..i - 1 \/ k = i \/ (c = 2 /\ k = i + 1) \/ k \in i + c..m2
      BY <1>1, <1>2
    <2>2. CASE k \in 1..i - 1
      <3>1. k \in 2..m
        BY <1>1, <2>2
      <3> QED
        BY <1>3, <2>2, <3>1 DEF PoolChain
    <2>3. CASE k = i \/ (c = 2 /\ k = i + 1)
      <3>1. 1 \in 1..c /\ (c = 2 => 2 \in 1..c)
        BY <1>1
      <3> QED
        BY <1>4, <2>3, <3>1 DEF PoolSuits
    <2>4. CASE k \in i + c..m2
      <3>1. k + d \in j + 1..m /\ r[k] = list[k + d]
        BY <1>5, <2>4
      <3>2. k + d \in 2..m
        BY <1>1, <3>1
      <3> QED
        BY <3>1, <3>2 DEF PoolChain
    <2> QED
      BY <2>1, <2>2, <2>3, <2>4
  <1>a. ASSUME NEW k \in 1..m2 PROVE r[k].paddr < Base[h] + PoolSize
    <2>0. \A q \in 1..m : list[q].paddr < Base[h] + PoolSize
      BY DEF PoolChain
    <2>1. k \in 1..i - 1 \/ k = i \/ (c = 2 /\ k = i + 1) \/ k \in i + c..m2
      BY <1>1, <1>2
    <2>2. CASE k \in 1..i - 1
      BY <1>3, <2>0, <2>2
    <2>3. CASE k = i \/ (c = 2 /\ k = i + 1)
      <3>1. 1 \in 1..c /\ (c = 2 => 2 \in 1..c)
        BY <1>1
      <3> QED
        BY <1>4, <2>3, <3>1 DEF PoolSuits
    <2>4. CASE k \in i + c..m2
      <3>1. k + d \in j + 1..m /\ r[k] = list[k + d]
        BY <1>5, <2>4
      <3>2. k + d \in 1..m
        BY <1>1, <3>1
      <3> QED
        BY <2>0, <3>1, <3>2
    <2> QED
      BY <2>1, <2>2, <2>3, <2>4
  <1>10. ASSUME NEW k \in 1..m2 - 1 PROVE r[k].idle = 0 \/ r[k + 1].idle = 0
    <2>0. \A q \in 1..m - 1 : list[q].idle = 0 \/ list[q + 1].idle = 0
      BY DEF PoolChain
    <2>1. \/ k + 1 \in 1..i - 1 \/ k + 1 = i \/ (c = 2 /\ k = i)
          \/ k = i + c - 1 \/ k \in i + c..m2
      BY <1>1, <1>2
    <2>2. CASE k + 1 \in 1..i - 1
      <3>1. k \in 1..i - 1 /\ k \in 1..m - 1
        BY <1>1, <2>2
      <3> QED
        BY <1>3, <2>0, <2>2, <3>1
    <2>3. CASE k + 1 = i
      <3>1. k \in 1..i - 1 /\ k = i - 1
        BY <1>1, <2>3
      <3> QED
        BY <1>3, <1>4, <2>3, <3>1 DEF PoolSuits
    <2>4. CASE c = 2 /\ k = i
      BY <1>4, <2>4 DEF PoolSuits
    <2>5. CASE k = i + c - 1
      <3>1. k + 1 \in i + c..m2 /\ k + 1 + d = j + 1
        BY <1>1, <1>2, <2>5
      <3>2. r[k + 1] = list[j + 1] /\ j < m
        <4>1. j + 1 \in j + 1..m /\ r[k + 1] = list[j + 1]
          BY <1>5, <3>1
        <4> QED
          BY <1>1, <4>1
      <3> QED
        BY <1>4, <2>5, <3>2 DEF PoolSuits
    <2>6. CASE k \in i + c..m2
      <3>1. k + 1 \in i + c..m2 /\ (k + 1) + d = (k + d) + 1
        BY <1>1, <1>2, <2>6
      <3>2. r[k] = list[k + d] /\ r[k + 1] = list[(k + d) + 1] /\ k + d \in j + 1..m /\ (k + d) + 1 \in j + 1..m
        BY <1>5, <2>6, <3>1
      <3>3. k + d \in 1..m - 1
        <4>1. PICK q : q = k + d
          OBVIOUS
        <4>2. q \in j + 1..m /\ q + 1 \in j + 1..m
          BY <3>2, <4>1
        <4>3. q \in 1..m - 1
          BY <1>1, <4>2
        <4> QED
          BY <4>1, <4>3
      <3> QED
        BY <2>0, <3>2, <3>3
    <2> QED
      BY <2>1, <2>2, <2>3, <2>4, <2>5, <2>6
  <1>11. ASSUME NEW k \in m2 + 1..Len(r) PROVE GrownBlock(r[k], h)
    BY <1>6 DEF PoolChain
  <1>12. ASSUME NEW k \in m2 + 1..Len(r), NEW l \in m2 + 1..Len(r), r[k].handle = r[l].handle PROVE k = l
    <2>1. /\ k + d \in m + 1..Len(list) /\ r[k] = list[k + d]
          /\ l + d \in m + 1..Len(list) /\ r[l] = list[l + d]
      BY <1>6
    <2>2. k + d = l + d
      BY <1>12, <2>1 DEF PoolChain
    <2> QED
      BY <1>2, <2>2
  <1> QED
    BY <1>1, <1>2, <1>7, <1>8, <1>9, <1>a, <1>10, <1>11, <1>12 DEF PoolChain

-----------------------------------------------------------------------------
(* The busy blocks of the pool.                                            *)

LEMMA PoolElsewhere ==
  ASSUME NEW list, Len(list) \in Nat, NEW i \in 2..Len(list), NEW j \in i..Len(list),
         NEW c \in {1, 2}, NEW others, NEW r, IsReplaced(list, i, j, c, others, r)
  PROVE  /\ Elsewhere(Len(list), PBs(list), i, j, c, Len(r), PBs(r))
         /\ i \in 1..Len(r) /\ PBs(r)[i] = BusyPart(others[1])
         /\ c = 2 => PBs(r)[i + 1] = BusyPart(others[2])
  <1>1. /\ i \in Nat /\ j \in Nat /\ 2 <= i /\ i <= j /\ j <= Len(list)
        /\ Len(r) \in Nat /\ Len(r) = Len(list) - (j - i + 1) + c
    BY DEF IsReplaced
  <1>2. ASSUME NEW k \in 1..i - 1 PROVE PBs(r)[k] = PBs(list)[k]
    <2>1. k \in 1..Len(list) /\ k \in 1..Len(r)
      BY <1>1
    <2>2. r[k] = list[k]
      BY DEF IsReplaced
    <2> QED
      BY <2>1, <2>2 DEF PBs
  <1>3. ASSUME NEW k \in i + c..Len(r)
        PROVE  PBs(r)[k] = PBs(list)[k + (j - i + 1) - c]
    <2>1. k + (j - i + 1) - c \in j + 1..Len(list) /\ r[k] = list[k + (j - i + 1) - c]
      BY DEF IsReplaced
    <2>2. PICK q : q = k + (j - i + 1) - c
      OBVIOUS
    <2>3. q \in 1..Len(list) /\ k \in 1..Len(r) /\ q # 1 /\ k # 1 /\ r[k] = list[q]
      <3>1. q \in j + 1..Len(list) /\ r[k] = list[q]
        BY <2>1, <2>2
      <3>2. k \in Nat /\ k >= i + c /\ k <= Len(r)
        BY <1>1
      <3> QED
        BY <1>1, <3>1, <3>2
    <2>4. PBs(r)[k] = PBs(list)[q]
      BY <2>3 DEF PBs
    <2> QED
      BY <2>2, <2>4
  <1>4. /\ i \in 1..Len(r) /\ i # 1 /\ 1 \in 1..c /\ i - 1 + 1 = i
        /\ c = 2 => i + 1 \in 1..Len(r) /\ i + 1 # 1 /\ 2 \in 1..c /\ i - 1 + 2 = i + 1
    BY <1>1
  <1>5. r[i] = others[1] /\ (c = 2 => r[i + 1] = others[2])
    <2>1. r[i - 1 + 1] = others[1] /\ (c = 2 => r[i - 1 + 2] = others[2])
      BY <1>4 DEF IsReplaced
    <2> QED
      BY <1>4, <2>1
  <1>6. Elsewhere(Len(list), PBs(list), i, j, c, Len(r), PBs(r))
    BY <1>1, <1>2, <1>3 DEF Elsewhere
  <1>7. PBs(r)[i] = BusyPart(others[1]) /\ (c = 2 => PBs(r)[i + 1] = BusyPart(others[2]))
    BY <1>4, <1>5 DEF PBs
  <1> QED
    BY <1>4, <1>6, <1>7

\* An idle block is taken.
LEMMA PartsAdd ==
  ASSUME NEW list, Len(list) \in Nat, NEW i \in 2..Len(list), list[i].idle = 1,
         NEW c \in {1, 2}, NEW others, NEW r, IsReplaced(list, i, i, c, others, r),
         c = 2 => others[2].idle = 1
  PROVE  BusyParts(r) = BusyParts(list) \cup BusyPart(others[1])
  <1>1. i \in i..Len(list) /\ i \in 1..Len(list) /\ i # 1
    OBVIOUS
  <1>2. PICK n, bs, m, bs2 : n = Len(list) /\ bs = PBs(list) /\ m = Len(r) /\ bs2 = PBs(r)
    OBVIOUS
  <1>3. /\ Elsewhere(n, bs, i, i, c, m, bs2) /\ bs2[i] = BusyPart(others[1])
        /\ c = 2 => bs2[i + 1] = BusyPart(others[2])
    BY <1>1, <1>2, PoolElsewhere
  <1>4. bs[i] = {}
    BY <1>1, <1>2 DEF PBs, BusyPart
  <1>5. Fresh(bs2, i, c) = bs2[i]
    BY <1>3 DEF Fresh, BusyPart
  <1>6. n \in Nat /\ i \in 1..n
    BY <1>1, <1>2
  <1>7. AllBlocks(m, bs2) = AllBlocks(n, bs) \cup bs2[i]
    BY <1>3, <1>4, <1>5, <1>6, BlocksAdd, SMTT(30)
  <1> QED
    BY <1>2, <1>3, <1>7 DEF BusyParts

\* Nothing takes the place of pieces i..j.
Vacated(n, bs, i, j, c, m, bs2) ==
  /\ n \in Nat /\ i \in 1..n /\ j \in i..n /\ c \in {1, 2}
  /\ Elsewhere(n, bs, i, j, c, m, bs2) /\ Fresh(bs2, i, c) = {}

LEMMA BlocksGone ==
  ASSUME NEW n, NEW bs, NEW i, NEW j, NEW c, NEW m, NEW bs2, Vacated(n, bs, i, j, c, m, bs2)
  PROVE  AllBlocks(m, bs2) = Outside(n, bs, i, j)
  <1>1. AllBlocks(m, bs2) = Outside(n, bs, i, j) \cup Fresh(bs2, i, c)
    BY BlocksReplace DEF Vacated
  <1> QED
    BY <1>1 DEF Vacated

\* Blocks become idle.
LEMMA PartsOut ==
  ASSUME NEW list, Len(list) \in Nat, NEW i \in 2..Len(list), NEW j \in i..Len(list),
         NEW c \in {1, 2}, NEW others, NEW r, IsReplaced(list, i, j, c, others, r),
         others[1].idle = 1, c = 2 => others[2].idle = 1
  PROVE  BusyParts(r) = Outside(Len(list), PBs(list), i, j)
  <1>1. i \in 1..Len(list)
    OBVIOUS
  <1>2. PICK n, bs, m, bs2 : n = Len(list) /\ bs = PBs(list) /\ m = Len(r) /\ bs2 = PBs(r)
    OBVIOUS
  <1>3. /\ Elsewhere(n, bs, i, j, c, m, bs2) /\ bs2[i] = BusyPart(others[1])
        /\ c = 2 => bs2[i + 1] = BusyPart(others[2])
    BY <1>2, PoolElsewhere
  <1>4. Fresh(bs2, i, c) = {}
    BY <1>3 DEF Fresh, BusyPart
  <1>5. n \in Nat /\ i \in 1..n /\ j \in i..n
    BY <1>1, <1>2
  <1>6. AllBlocks(m, bs2) = Outside(n, bs, i, j)
    <2>1. Vacated(n, bs, i, j, c, m, bs2)
      BY <1>3, <1>4, <1>5 DEF Vacated
    <2> QED
      BY <2>1, BlocksGone
  <1> QED
    BY <1>2, <1>6 DEF BusyParts

\* A busy block is freed, and merged with idle neighbours.
Removes(list, i, j, others, r, p) ==
  /\ i \in 2..Len(list) /\ j \in i..Len(list) /\ IsReplaced(list, i, j, 1, others, r)
  /\ others[1].idle = 1 /\ p \in i..j /\ \A k \in i..j : k # p => list[k].idle = 1

LEMMA PartsRemove ==
  ASSUME PoolAssumption, BaseAssumption, NEW list, NEW q, NEW h, PoolChain(list, q, h),
         NEW i, NEW j, NEW others, NEW r, NEW p, Removes(list, i, j, others, r, p), Solid(list) \/ p > q
  PROVE  BusyParts(r) = BusyParts(list) \ BusyPart(list[p])
  <1> SUFFICES ASSUME i \in 2..Len(list), j \in i..Len(list), IsReplaced(list, i, j, 1, others, r),
                      others[1].idle = 1, p \in i..j, \A k \in i..j : k # p => list[k].idle = 1
               PROVE  BusyParts(r) = BusyParts(list) \ BusyPart(list[p])
    BY DEF Removes
  <1>1. /\ list \in Seq(Blocks) /\ Len(list) \in Nat /\ i \in 1..Len(list) /\ p \in 1..Len(list) /\ p # 1
        /\ 1 \in {1, 2} /\ i \in Nat /\ j \in Nat
    BY LenProperties DEF PoolChain
  <1>2. PICK n, bs, one : n = Len(list) /\ bs = PBs(list) /\ one = 1
    OBVIOUS
  <1>3. IsReplaced(list, i, j, one, others, r) /\ one \in {1, 2}
    BY <1>2
  <1>4. n \in Nat
    BY <1>1, <1>2
  <1>6. BusyParts(r) = Outside(n, bs, i, j)
    BY <1>1, <1>2, <1>3, PartsOut
  <1>7. ASSUME NEW k \in 1..n, NEW x \in bs[k], k < i \/ j < k PROVE x \notin BusyPart(list[p])
    <2>1. k # p /\ k \in 1..Len(list)
      BY <1>1, <1>2, <1>7
    <2>2. list[k].paddr # list[p].paddr
      BY <1>1, <2>1, PoolApart
    <2>3. x.paddr = list[k].paddr
      BY <1>2, <1>7 DEF PBs, BusyPart
    <2> QED
      BY <2>2, <2>3 DEF BusyPart
  <1>8. ASSUME NEW k \in 1..n, NEW x \in bs[k], x \notin BusyPart(list[p]) PROVE k < i \/ j < k
    <2>1. k # p
      BY <1>1, <1>2, <1>8 DEF PBs
    <2>2. k \in i..j \/ k < i \/ j < k
      BY <1>1, <1>4
    <2>3. CASE k \in i..j
      <3>1. list[k].idle = 1
        BY <2>1, <2>3
      <3> QED
        BY <1>2, <1>8, <3>1 DEF PBs, BusyPart
    <2> QED
      BY <2>2, <2>3
  <1>9. BusyParts(r) = AllBlocks(n, bs) \ BusyPart(list[p])
    BY <1>6, <1>7, <1>8 DEF AllBlocks, Outside
  <1> QED
    BY <1>2, <1>9 DEF BusyParts

-----------------------------------------------------------------------------
(* Cutting and merging.                                                    *)

\* The BOs behind the pool are the same.
SameGrown(list, m, r, m2) ==
  /\ Len(r) > m2 => Len(list) > m
  /\ Len(list) > m => Len(r) > m2
  /\ \A k \in m2 + 1..Len(r) : \E q \in m + 1..Len(list) : r[k] = list[q]
  /\ \A q \in m + 1..Len(list) : \E k \in m2 + 1..Len(r) : r[k] = list[q]

LEMMA PoolChanged ==
  ASSUME PoolAssumption, BaseAssumption, NEW list, NEW m, NEW h, PoolChain(list, m, h),
         NEW i, NEW j, NEW c, NEW others, PoolSuits(list, m, h, i, j, c, others),
         NEW r \in Seq(Blocks), IsReplaced(list, i, j, c, others, r)
  PROVE  \E m2 \in 1..Len(r) : PoolChain(r, m2, h) /\ SameGrown(list, m, r, m2)
  <1>1. /\ list \in Seq(Blocks) /\ m \in 1..Len(list) /\ i \in 2..m /\ j \in i..m /\ c \in {1, 2}
        /\ Len(list) \in Nat /\ Len(r) \in Nat
    BY LenProperties DEF PoolChain, PoolSuits
  <1>2. PICK d, m2 : d = (j - i + 1) - c /\ m2 = m - ((j - i + 1) - c)
    OBVIOUS
  <1>3. PoolShift(list, m, i, j, c, others, r, m2, d)
    BY <1>1, <1>2, PoolShifted
  <1>4. PoolChain(r, m2, h)
    BY <1>3, PoolReplace
  <1>5. m2 \in 1..Len(r) /\ d \in Int /\ m2 = m - d
    BY <1>3 DEF PoolShift
  <1>6. \A k \in m2 + 1..Len(r) : k + d \in m + 1..Len(list) /\ r[k] = list[k + d]
    BY <1>3 DEF PoolShift
  <1>7. Len(r) = Len(list) - d
    <2>1. Len(r) = Len(list) - (j - i + 1) + c
      BY DEF IsReplaced
    <2>2. i \in Int /\ j \in Int /\ c \in Int
      BY <1>1
    <2> QED
      BY <1>1, <1>2, <2>1, <2>2
  <1>8. SameGrown(list, m, r, m2)
    <2>1. m \in Int /\ m2 \in Int
      BY <1>1, <1>5
    <2>2. (Len(r) > m2 => Len(list) > m) /\ (Len(list) > m => Len(r) > m2)
      BY <1>1, <1>5, <1>7, <2>1
    <2>3. ASSUME NEW q \in m + 1..Len(list) PROVE \E k \in m2 + 1..Len(r) : r[k] = list[q]
      <3>1. PICK k : k = q - d
        OBVIOUS
      <3>2. k \in m2 + 1..Len(r) /\ k + d = q
        BY <1>1, <1>5, <1>7, <2>1, <3>1
      <3> QED
        BY <1>6, <3>2
    <2> QED
      BY <1>6, <2>2, <2>3 DEF SameGrown
  <1> QED
    BY <1>4, <1>5, <1>8

\* A list over a BO and one more after it.
LEMMA BlockIs ==
  ASSUME NEW paddr \in Nat, NEW size \in Nat, NEW is_bo \in {0, 1}, NEW handle \in 1..MaxBos
  PROVE  /\ Block(paddr, size, is_bo, handle) \in Blocks
         /\ Block(paddr, size, is_bo, handle).paddr = paddr /\ Block(paddr, size, is_bo, handle).size = size
         /\ Block(paddr, size, is_bo, handle).idle = 1 /\ Block(paddr, size, is_bo, handle).is_bo = is_bo
         /\ Block(paddr, size, is_bo, handle).handle = handle /\ Block(paddr, size, is_bo, handle).live = 1
  BY DEF Block, Blocks

\* What Cut puts in the place of a block.
CutInto(b, n) ==
  IF b.size - n < MinRemain THEN <<[b EXCEPT !.idle = 0]>>
  ELSE <<[b EXCEPT !.idle = 0, !.size = n], Block(b.paddr + n, b.size - n, 0, b.handle)>>

\* The pieces of a block of which n are taken.
IsCut(b, n, c, others) ==
  /\ c \in {1, 2} /\ others \in Seq(Blocks) /\ c = Len(others) /\ \A x \in 1..c : others[x] \in Blocks
  /\ others[1].idle = 0 /\ others[1].paddr = b.paddr /\ others[1].is_bo = b.is_bo
  /\ others[1].handle = b.handle /\ others[1].live = b.live
  /\ others[1].size \in Nat /\ n <= others[1].size /\ others[1].size <= b.size
  /\ c = 1 => others[1].size = b.size /\ b.size - n < MinRemain
  /\ c = 2 => /\ others[2].idle = 1 /\ others[2].is_bo = 0 /\ others[2].live = 1 /\ others[2].handle = b.handle
              /\ others[2].paddr = b.paddr + others[1].size /\ others[2].size \in Nat \ {0}
              /\ others[1].size + others[2].size = b.size /\ others[1].size = n /\ ~(b.size - n < MinRemain)

LEMMA CutPieces ==
  ASSUME PoolAssumption, NEW b \in Blocks, NEW n \in Nat, n <= b.size
  PROVE  \E c : IsCut(b, n, c, CutInto(b, n))
  <1>1. /\ b.paddr \in Nat /\ b.size \in Nat /\ b.is_bo \in {0, 1} /\ b.handle \in 1..MaxBos /\ b.live \in {0, 1}
        /\ b = [paddr |-> b.paddr, size |-> b.size, idle |-> b.idle, is_bo |-> b.is_bo, handle |-> b.handle,
                live |-> b.live]
    BY DEF Blocks
  <1>2. MinRemain \in Nat \ {0}
    BY DEF PoolAssumption
  <1>3. CASE b.size - n < MinRemain
    <2>1. PICK x : x = [b EXCEPT !.idle = 0]
      OBVIOUS
    <2>2. /\ x \in Blocks /\ x.idle = 0 /\ x.paddr = b.paddr /\ x.size = b.size /\ x.is_bo = b.is_bo
          /\ x.handle = b.handle /\ x.live = b.live
      BY <2>1 DEF Blocks
    <2>3. PICK o : o = <<x>>
      OBVIOUS
    <2>4. o \in Seq(Blocks) /\ Len(o) = 1 /\ o[1] = x /\ \A y \in 1..1 : o[y] \in Blocks
      BY <2>2, <2>3
    <2>5. CutInto(b, n) = o
      BY <1>3, <2>1, <2>3 DEF CutInto
    <2>6. IsCut(b, n, 1, o)
      BY <1>1, <1>3, <2>2, <2>4 DEF IsCut
    <2> QED
      BY <2>5, <2>6
  <1>4. CASE ~(b.size - n < MinRemain)
    <2>1. PICK x, y, a, s : /\ x = [b EXCEPT !.idle = 0, !.size = n] /\ a = b.paddr + n /\ s = b.size - n
                            /\ y = Block(a, s, 0, b.handle)
      OBVIOUS
    <2>2. /\ x \in Blocks /\ x.idle = 0 /\ x.paddr = b.paddr /\ x.size = n /\ x.is_bo = b.is_bo
          /\ x.handle = b.handle /\ x.live = b.live
      BY <2>1 DEF Blocks
    <2>3. a \in Nat /\ s \in Nat \ {0} /\ n + s = b.size /\ 0 \in {0, 1}
      BY <1>1, <1>2, <1>4, <2>1
    <2>4. /\ y \in Blocks /\ y.paddr = a /\ y.size = s /\ y.idle = 1 /\ y.is_bo = 0 /\ y.handle = b.handle /\ y.live = 1
      BY <1>1, <2>1, <2>3, BlockIs
    <2>5. PICK o : o = <<x, y>>
      OBVIOUS
    <2>6. o \in Seq(Blocks) /\ Len(o) = 2 /\ o[1] = x /\ o[2] = y /\ \A z \in 1..2 : o[z] \in Blocks
      BY <2>2, <2>4, <2>5
    <2>7. CutInto(b, n) = o
      BY <1>4, <2>1, <2>5 DEF CutInto
    <2>8. IsCut(b, n, 2, o)
      BY <1>1, <1>4, <2>1, <2>2, <2>3, <2>4, <2>6, SMTT(30) DEF IsCut
    <2> QED
      BY <2>7, <2>8
  <1> QED
    BY <1>3, <1>4

LEMMA CutIs ==
  ASSUME NEW list, NEW i, NEW size, Len(list) \in Nat
  PROVE  Cut(list, i, size) = Replaced(list, i, i, CutInto(list[i], align(size)))
  BY DEF Cut, CutInto, Replaced

\* A block behind the first is cut and handed out.
Cuttable(list, m, h, i, size, r) ==
  /\ PoolChain(list, m, h) /\ i \in 2..m /\ list[i].idle = 1
  /\ size \in Nat /\ list[i].size >= align(size) /\ r = Cut(list, i, size)

WasCut(list, m, h, i, size, r) ==
  /\ r \in Seq(Blocks) /\ i \in 1..Len(r)
  /\ \E m2 \in 1..Len(r) : PoolChain(r, m2, h) /\ SameGrown(list, m, r, m2)
  /\ r[i].paddr = list[i].paddr /\ r[i].handle = h /\ r[i].size >= size /\ r[i].idle = 0
  /\ BusyParts(r) = BusyParts(list) \cup BusyPart(r[i])
  /\ Solid(list) /\ ~CutsNothing(list, i, size) => Solid(r)

\* The memory behind the first block of the pool.
LEMMA BehindFirst ==
  ASSUME PoolAssumption, BaseAssumption, NEW list, NEW m, NEW h, PoolChain(list, m, h), NEW k \in 2..m
  PROVE  Base[h] < list[k].paddr /\ list[k].paddr < Base[h] + PoolSize
  <1>1. /\ list \in Seq(Blocks) /\ Len(list) \in Nat /\ m \in 1..Len(list) /\ h \in 1..MaxBos
        /\ list[1] = SharedBlock(h) /\ \A q \in 1..m : list[q].paddr < Base[h] + PoolSize
    BY LenProperties DEF PoolChain
  <1>2. k \in 1..m /\ 1 \in 1..m /\ 1 < k /\ k \in 1..Len(list)
    BY <1>1
  <1>3. list[1].paddr + list[1].size <= list[k].paddr
    BY <1>2, PoolExtent
  <1>4. list[1].paddr = Base[h] /\ list[1].size \in Nat \ {0} /\ Base[h] \in Nat
    BY <1>1, SharedIs
  <1>5. list[k].paddr \in Nat
    BY <1>1, <1>2, PoolFields
  <1>6. Base[h] < list[k].paddr
    BY <1>3, <1>4, <1>5
  <1> QED
    BY <1>1, <1>2, <1>6

LEMMA SolidReplaced ==
  ASSUME NEW list, Len(list) \in Nat, Solid(list), NEW i \in 1..Len(list), NEW j \in i..Len(list),
         NEW c \in {1, 2}, NEW others, NEW r, IsReplaced(list, i, j, c, others, r),
         \A x \in 1..c : others[x].size >= 1
  PROVE  Solid(r)
  <1>1. i \in Nat /\ j \in Nat /\ i <= j /\ j <= Len(list) /\ Len(r) \in Nat
    BY DEF IsReplaced
  <1>2. ASSUME NEW k \in 1..Len(r) PROVE r[k].size >= 1
    <2>1. k \in 1..i - 1 \/ k - (i - 1) \in 1..c \/ k \in i + c..Len(r)
      BY <1>1
    <2>2. CASE k \in 1..i - 1
      <3>1. r[k] = list[k] /\ k \in 1..Len(list)
        BY <1>1, <2>2 DEF IsReplaced
      <3> QED
        BY <3>1 DEF Solid
    <2>3. CASE k - (i - 1) \in 1..c
      <3>1. PICK x : x = k - (i - 1)
        OBVIOUS
      <3>2. x \in 1..c /\ i - 1 + x = k
        BY <1>1, <2>3, <3>1
      <3>3. r[i - 1 + x] = others[x]
        BY <3>2 DEF IsReplaced
      <3> QED
        BY <3>2, <3>3
    <2>4. CASE k \in i + c..Len(r)
      <3>1. k + (j - i + 1) - c \in j + 1..Len(list) /\ r[k] = list[k + (j - i + 1) - c]
        BY <2>4 DEF IsReplaced
      <3>2. PICK q : q = k + (j - i + 1) - c
        OBVIOUS
      <3>3. q \in 1..Len(list) /\ r[k] = list[q]
        BY <1>1, <3>1, <3>2
      <3> QED
        BY <3>3 DEF Solid
    <2> QED
      BY <2>1, <2>2, <2>3, <2>4
  <1> QED
    BY <1>2 DEF Solid

LEMMA PoolCut ==
  ASSUME PoolAssumption, BaseAssumption, NEW list, NEW m, NEW h, NEW i, NEW size, NEW r,
         Cuttable(list, m, h, i, size, r)
  PROVE  WasCut(list, m, h, i, size, r)
  <1> SUFFICES ASSUME PoolChain(list, m, h), i \in 2..m, list[i].idle = 1, size \in Nat,
                      list[i].size >= align(size), r = Cut(list, i, size)
               PROVE  WasCut(list, m, h, i, size, r)
    BY DEF Cuttable
  <1>1. /\ list \in Seq(Blocks) /\ Len(list) \in Nat /\ m \in Nat /\ m <= Len(list) /\ i \in Nat /\ 2 <= i /\ i <= m
        /\ i \in 1..Len(list) /\ i \in 2..Len(list) /\ i \in i..Len(list) /\ i \in i..m
    BY LenProperties DEF PoolChain
  <1>2. PICK n, b, others : n = align(size) /\ b = list[i] /\ others = CutInto(b, n)
    OBVIOUS
  <1>3. n \in Nat /\ n >= size /\ size \in Nat
    BY <1>2, AlignUp
  <1>4. /\ b \in Blocks /\ b.paddr \in Nat /\ b.size \in Nat /\ n <= b.size
        /\ b.is_bo = 0 /\ b.live = 1 /\ b.handle = h
    <2>1. b \in Blocks /\ b.paddr \in Nat /\ b.size \in Nat
      BY <1>1, <1>2, PoolFields
    <2>2. n <= b.size
      BY <1>2, <1>3, <2>1
    <2> QED
      BY <1>2, <2>1, <2>2 DEF PoolChain, PoolBlock
  <1>5. PICK c : IsCut(b, n, c, others)
    BY <1>2, <1>3, <1>4, CutPieces
  <1>6. r = Replaced(list, i, i, others)
    BY <1>1, <1>2, CutIs
  <1>7. r \in Seq(Blocks) /\ IsReplaced(list, i, i, c, others, r)
    <2>1. others \in Seq(Blocks) /\ c = Len(others)
      BY <1>5 DEF IsCut
    <2> QED
      BY <1>1, <1>6, <2>1, ReplacedList
  <1>8. PoolSuits(list, m, h, i, i, c, others)
    <2>1. c \in {1, 2} /\ (\A x \in 1..c : others[x] \in Blocks) /\ others[1].idle = 0 /\ others[1].paddr = list[i].paddr
      BY <1>2, <1>5 DEF IsCut
    <2>2. \A x \in 1..c : PoolBlock(others[x], h) /\ others[x].paddr < Base[h] + PoolSize
      <3>0. b.paddr < Base[h] + PoolSize /\ b.paddr + b.size <= Base[h] + PoolSize /\ Base[h] + PoolSize \in Nat
        <4>1. b.paddr < Base[h] + PoolSize
          BY <1>1, <1>2, BehindFirst
        <4>2. i \in 1..m
          BY <1>1
        <4>3. b.paddr + b.size <= Base[h] + PoolSize
          BY <1>2, <4>2, PoolExtent
        <4>4. h \in 1..MaxBos
          BY DEF PoolChain
        <4> QED
          BY <4>1, <4>3, <4>4, SharedIs
      <3>1. PoolBlock(others[1], h) /\ others[1].paddr < Base[h] + PoolSize
        BY <1>4, <1>5, <3>0 DEF IsCut, PoolBlock
      <3>2. c = 2 => PoolBlock(others[2], h) /\ others[2].paddr < Base[h] + PoolSize
        <4> SUFFICES ASSUME c = 2 PROVE PoolBlock(others[2], h) /\ others[2].paddr < Base[h] + PoolSize
          OBVIOUS
        <4>1. /\ others[2].paddr = b.paddr + others[1].size /\ others[2].size \in Nat \ {0}
              /\ others[1].size + others[2].size = b.size /\ others[1].size \in Nat
          BY <1>5 DEF IsCut
        <4>2. others[2].paddr < Base[h] + PoolSize
          <5>1. PICK top, x, y, z, w : /\ top = Base[h] + PoolSize /\ x = others[1].size /\ y = others[2].size
                                       /\ z = b.paddr /\ w = b.size
            OBVIOUS
          <5>2. top \in Nat /\ x \in Nat /\ y \in Nat \ {0} /\ z \in Nat /\ z + w <= top /\ x + y = w
            BY <1>4, <3>0, <4>1, <5>1
          <5>3. z + x < top
            BY <5>2
          <5> QED
            BY <4>1, <5>1, <5>3
        <4> QED
          BY <1>4, <1>5, <4>2 DEF IsCut, PoolBlock
      <3>3. \A x \in 1..c : x = 1 \/ (c = 2 /\ x = 2)
        BY <2>1
      <3> QED
        BY <3>1, <3>2, <3>3
    <2>3. others[c].paddr + others[c].size = list[i].paddr + list[i].size
      <3>1. CASE c = 1
        BY <1>2, <1>5, <3>1 DEF IsCut
      <3>2. CASE c = 2
        <4>1. /\ others[2].paddr = b.paddr + others[1].size /\ others[2].size \in Nat \ {0}
              /\ others[1].size + others[2].size = b.size /\ others[1].size \in Nat
          BY <1>5, <3>2 DEF IsCut
        <4>2. others[2].paddr + others[2].size = b.paddr + b.size
          BY <1>4, <4>1
        <4> QED
          BY <1>2, <3>2, <4>2
      <3> QED
        BY <2>1, <3>1, <3>2
    <2>4. c = 2 => others[2].paddr = others[1].paddr + others[1].size /\ others[1].idle = 0
      BY <1>5 DEF IsCut
    <2>5. i < m => others[c].idle = 0 \/ list[i + 1].idle = 0
      <3> SUFFICES ASSUME i < m PROVE list[i + 1].idle = 0
        OBVIOUS
      <3>1. i \in 1..m - 1
        BY <1>1
      <3>2. \A k \in 1..m - 1 : list[k].idle = 0 \/ list[k + 1].idle = 0
        BY DEF PoolChain
      <3> QED
        BY <3>1, <3>2
    <2> QED
      BY <1>1, <2>1, <2>2, <2>3, <2>4, <2>5 DEF PoolSuits
  <1>9. \E m2 \in 1..Len(r) : PoolChain(r, m2, h) /\ SameGrown(list, m, r, m2)
    BY <1>7, <1>8, PoolChanged
  <1>10. i \in 1..Len(r) /\ r[i] = others[1]
    <2>1. c \in {1, 2}
      BY <1>5 DEF IsCut
    <2>2. /\ Len(r) \in Nat /\ Len(r) = Len(list) - (i - i + 1) + c /\ \A k \in 1..c : r[i - 1 + k] = others[k]
      BY <1>7 DEF IsReplaced
    <2>3. i \in 1..Len(r)
      BY <1>1, <2>1, <2>2
    <2>4. 1 \in 1..c /\ i - 1 + 1 = i
      BY <1>1, <2>1
    <2> QED
      BY <2>2, <2>3, <2>4
  <1>11. BusyParts(r) = BusyParts(list) \cup BusyPart(r[i])
    <2>1. c \in {1, 2} /\ (c = 2 => others[2].idle = 1)
      BY <1>5 DEF IsCut
    <2>2. BusyParts(r) = BusyParts(list) \cup BusyPart(others[1])
      BY <1>1, <1>7, <2>1, PartsAdd
    <2> QED
      BY <1>10, <2>2
  <1>12. r[i].paddr = list[i].paddr /\ r[i].handle = h /\ r[i].size >= size /\ r[i].idle = 0
    <2>1. others[1].size \in Nat /\ n <= others[1].size
      BY <1>5 DEF IsCut
    <2>2. others[1].size >= size
      BY <1>3, <2>1
    <2> QED
      BY <1>2, <1>4, <1>5, <1>10, <2>2 DEF IsCut
  <1>13. ASSUME Solid(list), ~CutsNothing(list, i, size) PROVE Solid(r)
    <2>1. b.size >= 1
      BY <1>1, <1>2, <1>13 DEF Solid
    <2>2. n >= 1 \/ b.size < MinRemain
      <3>1. ~(n = 0 /\ b.size >= MinRemain)
        BY <1>2, <1>13 DEF CutsNothing
      <3>2. MinRemain \in Nat
        BY DEF PoolAssumption
      <3> QED
        BY <1>3, <1>4, <3>1, <3>2
    <2>3. c \in {1, 2} /\ others[1].size \in Nat /\ n <= others[1].size
      BY <1>5 DEF IsCut
    <2>4. others[1].size >= 1
      <3>1. CASE c = 1
        BY <1>5, <2>1, <3>1 DEF IsCut
      <3>2. CASE c = 2
        <4>1. ~(b.size - n < MinRemain)
          BY <1>5, <3>2 DEF IsCut
        <4>2. MinRemain \in Nat
          BY DEF PoolAssumption
        <4>3. n >= 1
          BY <1>3, <1>4, <2>2, <4>1, <4>2
        <4> QED
          BY <1>3, <2>3, <4>3
      <3> QED
        BY <2>3, <3>1, <3>2
    <2>5. c = 2 => others[2].size >= 1
      <3>1. c = 2 => others[2].size \in Nat \ {0}
        BY <1>5 DEF IsCut
      <3> QED
        BY <3>1
    <2>6. \A x \in 1..c : others[x].size >= 1
      <3>1. \A x \in 1..c : x = 1 \/ (c = 2 /\ x = 2)
        BY <2>3
      <3> QED
        BY <2>4, <2>5, <3>1
    <2> QED
      BY <1>1, <1>7, <1>13, <2>3, <2>6, SolidReplaced
  <1> QED
    BY <1>7, <1>9, <1>10, <1>11, <1>12, <1>13 DEF WasCut

\* What SumSizes computes.
LEMMA SumSizesIs ==
  ASSUME NEW list, NEW n \in Nat, n = Len(list), NEW w \in [1..n -> Int],
         \A k \in 1..n : w[k] = list[k].size, NEW P, Sums(n, w, P)
  PROVE  SumSizes(list) = P[n]
  <1> DEFINE F(f) == [k \in 0..n |-> IF k = 0 THEN 0 ELSE f[k - 1] + list[k].size]
             sum == CHOOSE f : f = F(f)
  <1>1. P = F(P)
    BY DEF Sums
  <1>2. sum = F(sum)
    BY <1>1
  <1>3. SumSizes(list) = sum[n]
    BY DEF SumSizes
  <1> HIDE DEF sum
  <1>4. \A k \in 0..n : sum[k] = IF k = 0 THEN 0 ELSE sum[k - 1] + w[k]
    <2>1. ASSUME NEW k \in 0..n PROVE sum[k] = IF k = 0 THEN 0 ELSE sum[k - 1] + list[k].size
      BY <1>2
    <2> QED
      BY <2>1
  <1>5. \A k \in 0..n : sum[k] = P[k]
    <2>1. SumsBy(n, w, sum)
      BY <1>4 DEF SumsBy
    <2> QED
      BY <2>1, SumsUnique
  <1>6. n \in 0..n
    OBVIOUS
  <1> QED
    BY <1>3, <1>5, <1>6

SizesOf(list, n, w, P) ==
  /\ n \in Nat /\ n = Len(list) /\ w \in [1..n -> Int] /\ \A k \in 1..n : w[k] = list[k].size
  /\ Sums(n, w, P)

LEMMA SizesAre ==
  ASSUME NEW list, NEW n, NEW w, NEW P, SizesOf(list, n, w, P)
  PROVE  SumSizes(list) = P[n]
  <1> HIDE DEF SumSizes
  <1>1. n \in Nat /\ n = Len(list)
    BY DEF SizesOf
  <1>2. w \in [1..n -> Int]
    BY DEF SizesOf
  <1>3. \A k \in 1..n : w[k] = list[k].size
    BY DEF SizesOf
  <1>4. Sums(n, w, P)
    BY DEF SizesOf
  <1> QED
    BY <1>1, <1>2, <1>3, <1>4, SumSizesIs

LEMMA HighestIs ==
  ASSUME NEW list \in Seq(Blocks), NEW i \in 1..Len(list), NEW hi, hi = Highest(list, i)
  PROVE  /\ hi \in i..Len(list)
         /\ \A j \in i + 1..hi : list[j].idle = 1
         /\ hi < Len(list) => list[hi + 1].idle = 0
  <1> DEFINE High(x) == /\ \A j \in i + 1..x : list[j].idle = 1
                        /\ x < Len(list) => list[x + 1].idle = 0
             Stop == {k \in i..Len(list) : k < Len(list) => list[k + 1].idle = 0}
  <1>1. Len(list) \in Nat /\ i \in Nat /\ 1 <= i /\ i <= Len(list)
    BY LenProperties
  <1>2. Stop \in SUBSET Nat /\ Stop # {}
    <2>1. Len(list) \in Stop
      BY <1>1
    <2> QED
      BY <1>1, <2>1
  <1>3. PICK x \in Stop : \A k \in Stop : x <= k
    <2> HIDE DEF Stop
    <2> QED
      BY <1>2, LeastElement
  <1>4. x \in i..Len(list) /\ (x < Len(list) => list[x + 1].idle = 0)
    BY <1>3
  <1>5. ASSUME NEW j \in i + 1..x PROVE list[j].idle = 1
    <2>1. j - 1 \in i..Len(list) /\ ~(x <= j - 1) /\ j - 1 + 1 = j /\ j \in 1..Len(list)
      BY <1>1, <1>4
    <2>2. j - 1 \notin Stop
      BY <1>3, <2>1
    <2>3. list[j].idle # 0
      BY <2>1, <2>2
    <2>4. list[j].idle \in {0, 1}
      BY <2>1, PoolFields
    <2> QED
      BY <2>3, <2>4
  <1>6. High(x)
    BY <1>4, <1>5
  <1> HIDE DEF Stop
  <1>7. hi = CHOOSE k \in i..Len(list) : High(k)
    BY DEF Highest
  <1>8. hi \in i..Len(list) /\ High(hi)
    <2> HIDE DEF High
    <2> QED
      BY <1>4, <1>6, <1>7
  <1> QED
    BY <1>8

\* Backwards from a block of the pool.
LEMMA LowestIs ==
  ASSUME PoolAssumption, BaseAssumption, NEW list, NEW m, NEW h, PoolChain(list, m, h),
         NEW i \in 2..m, NEW lo, lo = Lowest(list, i)
  PROVE  /\ lo \in 2..i /\ i - 1 <= lo
         /\ \A j \in lo..i - 1 : list[j].idle = 1
         /\ list[lo - 1].idle = 0
  <1> DEFINE Low(x) == /\ \A j \in x..i - 1 : list[j].idle = 1 /\ list[j + 1].is_bo = 0
                       /\ x > 1 => list[x - 1].idle = 0 \/ list[x].is_bo = 1
  <1>1. /\ list \in Seq(Blocks) /\ Len(list) \in Nat /\ m \in Nat /\ m <= Len(list)
        /\ i \in Nat /\ 2 <= i /\ i <= m
    BY LenProperties DEF PoolChain
  <1>2. \A k \in 2..m : list[k].is_bo = 0
    BY DEF PoolChain, PoolBlock
  <1>3. list[1].idle = 0
    BY SharedIs DEF PoolChain
  <1>4. \A k \in 1..m - 1 : list[k].idle = 0 \/ list[k + 1].idle = 0
    BY DEF PoolChain
  <1>5. \A k \in 1..m : list[k].idle \in {0, 1}
    <2>1. \A k \in 1..m : k \in 1..Len(list)
      BY <1>1
    <2> QED
      BY <1>1, <2>1, PoolFields
  <1>6. \E x \in 1..i : Low(x)
    <2>1. CASE list[i - 1].idle = 1
      <3>1. i - 1 # 1
        BY <1>3, <2>1
      <3>2. /\ i - 1 \in 1..i /\ i - 1 - 1 \in 1..m - 1 /\ i - 1 - 1 + 1 = i - 1
            /\ \A j \in i - 1..i - 1 : j = i - 1 /\ j + 1 = i
        BY <1>1, <3>1
      <3>3. list[i - 1 - 1].idle = 0
        BY <1>4, <2>1, <3>2
      <3>4. list[i].is_bo = 0
        BY <1>1, <1>2
      <3>5. Low(i - 1)
        BY <2>1, <3>2, <3>3, <3>4
      <3> QED
        BY <3>2, <3>5
    <2>2. CASE list[i - 1].idle # 1
      <3>1. i - 1 \in 1..m /\ i \in 1..i /\ i..i - 1 = {}
        BY <1>1
      <3>2. list[i - 1].idle = 0
        BY <1>5, <2>2, <3>1
      <3>3. Low(i)
        BY <3>1, <3>2
      <3> QED
        BY <3>1, <3>3
    <2> QED
      BY <2>1, <2>2
  <1>7. lo = CHOOSE k \in 1..i : Low(k)
    BY DEF Lowest
  <1>8. lo \in 1..i /\ Low(lo)
    <2> HIDE DEF Low
    <2> QED
      BY <1>6, <1>7
  <1>9. lo # 1
    <2> SUFFICES ASSUME lo = 1 PROVE FALSE
      OBVIOUS
    <2>1. 1 \in lo..i - 1
      BY <1>1
    <2> QED
      BY <1>3, <1>8, <2>1
  <1>10. lo \in 2..i /\ lo \in 2..m /\ lo > 1
    BY <1>1, <1>8, <1>9
  <1>11. i - 1 <= lo
    <2> SUFFICES ASSUME lo < i - 1 PROVE FALSE
      BY <1>1, <1>10
    <2>1. i - 2 \in lo..i - 1 /\ i - 1 \in lo..i - 1 /\ i - 2 \in 1..m - 1 /\ i - 2 + 1 = i - 1
      BY <1>1, <1>10
    <2>2. list[i - 2].idle = 1 /\ list[i - 1].idle = 1
      BY <1>8, <2>1
    <2> QED
      BY <1>4, <2>1, <2>2
  <1>12. list[lo - 1].idle = 0
    BY <1>2, <1>8, <1>10
  <1> QED
    BY <1>8, <1>10, <1>11, <1>12

\* The first block of a BO is not merged with what precedes it.
LEMMA LowestGrown ==
  ASSUME NEW list, NEW i \in Nat \ {0}, list[i].is_bo = 1
  PROVE  Lowest(list, i) = i
  <1> DEFINE Low(x) == /\ \A j \in x..i - 1 : list[j].idle = 1 /\ list[j + 1].is_bo = 0
                       /\ x > 1 => list[x - 1].idle = 0 \/ list[x].is_bo = 1
  <1>1. i \in 1..i /\ i..i - 1 = {}
    OBVIOUS
  <1>2. Low(i)
    BY <1>1
  <1>3. PICK lo : lo = Lowest(list, i)
    OBVIOUS
  <1>4. lo = CHOOSE k \in 1..i : Low(k)
    BY <1>3 DEF Lowest
  <1>5. lo \in 1..i /\ Low(lo)
    <2> HIDE DEF Low
    <2> QED
      BY <1>1, <1>2, <1>4
  <1>6. ~(lo < i)
    <2> SUFFICES ASSUME lo < i PROVE FALSE
      OBVIOUS
    <2>1. i - 1 \in lo..i - 1 /\ i - 1 + 1 = i
      BY <1>5
    <2> QED
      BY <1>5, <2>1
  <1> QED
    BY <1>3, <1>5, <1>6

\* The blocks lo..hi of the pool are as large as the memory they cover.
LEMMA PoolSum ==
  ASSUME PoolAssumption, BaseAssumption, NEW list, NEW m, NEW h, PoolChain(list, m, h),
         NEW lo \in 1..m, NEW hi \in lo..m
  PROVE  /\ SumSizes(SubSeq(list, lo, hi)) \in Nat
         /\ Solid(list) => SumSizes(SubSeq(list, lo, hi)) >= 1
         /\ list[lo].paddr + SumSizes(SubSeq(list, lo, hi)) = list[hi].paddr + list[hi].size
  <1>1. /\ list \in Seq(Blocks) /\ Len(list) \in Nat /\ m \in Nat /\ m <= Len(list) /\ lo \in Nat /\ hi \in Nat
        /\ 1 <= lo /\ lo <= hi /\ hi <= m /\ hi \in 1..m /\ lo \in 1..Len(list) /\ hi \in 1..Len(list)
    BY LenProperties DEF PoolChain
  <1>2. PICK at, ln, bot, top, w : /\ at = PAt(list, m) /\ ln = PLn(list, m) /\ bot = Base[h]
                                   /\ top = Base[h] + PoolSize /\ w = RunOf(ln, lo, hi)
    OBVIOUS
  <1>3. Tile(m, at, ln, bot, top)
    BY <1>2 DEF PoolChain
  <1>4. PICK P : Sums(hi - lo + 1, w, P) /\ P[hi - lo + 1] = at[hi] + ln[hi] - at[lo]
    BY <1>2, <1>3, TileRun
  <1>5. PICK s : s = SubSeq(list, lo, hi)
    OBVIOUS
  <1>6. Len(s) = hi - lo + 1 /\ \A k \in 1..hi - lo + 1 : s[k] = list[lo + k - 1]
    <2>1. \A k \in lo..hi : list[k] \in Blocks
      <3>1. \A k \in lo..hi : k \in 1..Len(list)
        BY <1>1
      <3> QED
        BY <1>1, <3>1, PoolFields
    <2> QED
      BY <1>1, <1>5, <2>1, SubSeqProperties
  <1>7. w \in [1..hi - lo + 1 -> Int] /\ \A k \in 1..hi - lo + 1 : w[k] = s[k].size
    <2>1. ASSUME NEW k \in 1..hi - lo + 1 PROVE w[k] = s[k].size /\ w[k] \in Int
      <3>1. PICK q : q = lo + k - 1
        OBVIOUS
      <3>2. q \in 1..m /\ q \in 1..Len(list)
        BY <1>1, <3>1
      <3>3. ln[q] = list[q].size /\ list[q].size \in Nat
        BY <1>1, <1>2, <3>2, PoolFields DEF PLn
      <3>4. s[k] = list[q] /\ w[k] = ln[q]
        BY <1>2, <1>6, <3>1 DEF RunOf
      <3> QED
        BY <3>3, <3>4
    <2> QED
      BY <1>2, <2>1 DEF RunOf
  <1>8. hi - lo + 1 \in Nat
    BY <1>1
  <1>9. SumSizes(s) = P[hi - lo + 1]
    <2>1. PICK n : n = hi - lo + 1
      OBVIOUS
    <2>2. n \in Nat /\ n = Len(s) /\ w \in [1..n -> Int]
      BY <1>6, <1>7, <1>8, <2>1
    <2>3. \A k \in 1..n : w[k] = s[k].size
      BY <1>7, <2>1
    <2>4. Sums(n, w, P)
      BY <1>4, <2>1
    <2>5. SumSizes(s) = P[n]
      <3>1. SizesOf(s, n, w, P)
        BY <2>2, <2>3, <2>4 DEF SizesOf
      <3> QED
        BY <3>1, SizesAre
    <2> QED
      BY <2>1, <2>5
  <1>10. /\ at[hi] = list[hi].paddr /\ ln[hi] = list[hi].size /\ at[lo] = list[lo].paddr /\ ln[lo] = list[lo].size
         /\ list[hi].paddr \in Nat /\ list[hi].size \in Nat /\ list[lo].paddr \in Nat /\ list[lo].size \in Nat
    BY <1>1, <1>2, PoolFields DEF PAt, PLn
  <1>11. Solid(list) => list[hi].size >= 1
    BY <1>1 DEF Solid
  <1>12. lo = hi \/ list[lo].paddr + list[lo].size <= list[hi].paddr
    <2>1. lo = hi \/ lo < hi
      BY <1>1
    <2> QED
      BY <1>1, <2>1, PoolExtent
  <1>13. PICK a, b, e, f, g : /\ a = list[hi].paddr /\ b = list[hi].size /\ e = list[lo].paddr
                              /\ f = list[lo].size /\ g = SumSizes(s)
    OBVIOUS
  <1>14. a \in Nat /\ b \in Nat /\ e \in Nat /\ f \in Nat
    BY <1>10, <1>13
  <1>15. g = a + b - e /\ (Solid(list) => b >= 1) /\ ((a = e /\ b = f) \/ e + f <= a)
    <2>1. g = a + b - e
      BY <1>4, <1>9, <1>10, <1>13
    <2> QED
      BY <1>11, <1>12, <1>13, <2>1
  <1>16. g \in Nat /\ (b >= 1 => g >= 1) /\ e + g = a + b
    BY <1>14, <1>15
  <1> QED
    BY <1>5, <1>13, <1>15, <1>16

\* A block of the pool is freed; nothing is freed memory up to the next busy one.
LEMMA PoolMerge ==
  ASSUME PoolAssumption, BaseAssumption, NEW list, NEW m, NEW h, PoolChain(list, m, h),
         NEW i \in 2..m, Loose(list, m) = {}, ~Dead(list, 1..Highest(list, i) + 1),
         NEW r, r = Merge(list, i)
  PROVE  /\ r \in Seq(Blocks)
         /\ \E m2 \in 1..Len(r) : PoolChain(r, m2, h) /\ SameGrown(list, m, r, m2)
         /\ Solid(list) => Solid(r) /\ BusyParts(r) = BusyParts(list) \ BusyPart(list[i])
         /\ \A y \in BusyParts(list) : y.handle # h => y \in BusyParts(r)
         /\ list[Lowest(list, i)].is_bo = 0
  <1>1. /\ list \in Seq(Blocks) /\ Len(list) \in Nat /\ m \in Nat /\ m <= Len(list) /\ i \in Nat /\ 2 <= i /\ i <= m
        /\ i \in 1..Len(list)
    BY LenProperties DEF PoolChain
  <1>2. PICK lo, hi : lo = Lowest(list, i) /\ hi = Highest(list, i)
    OBVIOUS
  <1>3. lo \in 2..i /\ (\A j \in lo..i - 1 : list[j].idle = 1) /\ list[lo - 1].idle = 0
    BY <1>2, LowestIs
  <1>4. /\ hi \in i..Len(list) /\ \A j \in i + 1..hi : list[j].idle = 1
        /\ hi < Len(list) => list[hi + 1].idle = 0
    <2>1. list \in Seq(Blocks) /\ i \in 1..Len(list) /\ hi = Highest(list, i)
      BY <1>1, <1>2
    <2> QED
      BY <2>1, HighestIs
  <1>5. hi <= m
    <2> SUFFICES ASSUME ~(hi <= m) PROVE FALSE
      OBVIOUS
    <2>1. /\ m + 1 \in i + 1..hi /\ m + 1 \in 1..hi + 1 /\ m + 1 \in 1..Len(list) /\ m + 1 \in m + 1..Len(list)
      BY <1>1, <1>4
    <2>2. DOMAIN list = 1..Len(list)
      BY <1>1, LenProperties
    <2>3. list[m + 1].live # 0
      BY <1>2, <2>1, <2>2 DEF Dead
    <2>4. list[m + 1].live = 1
      BY <1>1, <2>1, <2>3, PoolFields
    <2> QED
      BY <1>4, <2>1, <2>4 DEF Loose
  <1>6. /\ lo \in Nat /\ hi \in Nat /\ 2 <= lo /\ lo <= i /\ i <= hi /\ lo \in 2..m /\ hi \in lo..m /\ lo \in 1..m
        /\ lo \in 2..Len(list) /\ lo \in 1..Len(list) /\ hi \in lo..Len(list) /\ i \in lo..hi
    BY <1>1, <1>3, <1>4, <1>5
  <1>7. PICK s : s = SumSizes(SubSeq(list, lo, hi))
    OBVIOUS
  <1>8. s \in Nat /\ (Solid(list) => s >= 1) /\ list[lo].paddr + s = list[hi].paddr + list[hi].size
    BY <1>6, <1>7, PoolSum
  <1>9. /\ list[lo] \in Blocks /\ list[lo].handle = h /\ list[lo].is_bo = 0 /\ list[lo].live = 1
    BY <1>1, <1>6, PoolFields DEF PoolChain, PoolBlock
  <1>10. PICK x : x = [list[lo] EXCEPT !.idle = 1, !.size = s]
    OBVIOUS
  <1>11. /\ x \in Blocks /\ x.idle = 1 /\ x.size = s /\ x.paddr = list[lo].paddr /\ x.handle = h /\ x.is_bo = 0
         /\ x.live = 1
    BY <1>8, <1>9, <1>10 DEF Blocks
  <1>12. PICK others : others = <<x>>
    OBVIOUS
  <1>13. others \in Seq(Blocks) /\ Len(others) = 1 /\ others[1] = x /\ \A y \in 1..1 : others[y] \in Blocks
    BY <1>11, <1>12
  <1>14. r = Replaced(list, lo, hi, others)
    BY <1>2, <1>7, <1>10, <1>12 DEF Merge, Replaced
  <1>15. r \in Seq(Blocks) /\ IsReplaced(list, lo, hi, 1, others, r)
    <2>1. PICK one : one = Len(others)
      OBVIOUS
    <2>2. r \in Seq(Blocks) /\ IsReplaced(list, lo, hi, one, others, r)
      BY <1>1, <1>6, <1>13, <1>14, <2>1, ReplacedList
    <2> QED
      BY <1>13, <2>1, <2>2
  <1>16. PoolSuits(list, m, h, lo, hi, 1, others)
    <2>1. x.paddr < Base[h] + PoolSize
      BY <1>6, <1>11, BehindFirst
    <2>2. PoolBlock(x, h)
      BY <1>11 DEF PoolBlock
    <2>3. \A y \in 1..1 : y = 1
      OBVIOUS
    <2>4. hi < m => list[hi + 1].idle = 0
      BY <1>1, <1>4, <1>6
    <2>5. x.paddr + x.size = list[hi].paddr + list[hi].size
      BY <1>8, <1>11
    <2> QED
      BY <1>3, <1>6, <1>11, <1>13, <2>1, <2>2, <2>3, <2>4, <2>5 DEF PoolSuits
  <1>17. \E m2 \in 1..Len(r) : PoolChain(r, m2, h) /\ SameGrown(list, m, r, m2)
    BY <1>15, <1>16, PoolChanged
  <1>18. \A k \in lo..hi : k # i => list[k].idle = 1
    <2>1. \A k \in lo..hi : k # i => k \in lo..i - 1 \/ k \in i + 1..hi
      BY <1>1, <1>6
    <2> QED
      BY <1>3, <1>4, <2>1
  <1>19. ASSUME Solid(list) PROVE BusyParts(r) = BusyParts(list) \ BusyPart(list[i])
    <2>1. lo \in 2..Len(list) /\ hi \in lo..Len(list) /\ others[1].idle = 1 /\ i \in lo..hi
      BY <1>6, <1>11, <1>13
    <2>2. IsReplaced(list, lo, hi, 1, others, r)
      BY <1>15
    <2>3. Removes(list, lo, hi, others, r, i)
      BY <1>18, <2>1, <2>2 DEF Removes
    <2> QED
      BY <1>19, <2>3, PartsRemove
  <1>20. ASSUME Solid(list) PROVE Solid(r)
    <2>1. PICK one : one = 1
      OBVIOUS
    <2>2. others[1].size >= 1
      BY <1>8, <1>11, <1>13, <1>20
    <2>3. one \in {1, 2} /\ IsReplaced(list, lo, hi, one, others, r) /\ \A y \in 1..one : others[y].size >= 1
      <3>1. \A y \in 1..one : y = 1
        BY <2>1
      <3> QED
        BY <1>15, <2>1, <2>2, <3>1
    <2> QED
      BY <1>1, <1>6, <1>20, <2>3, SolidReplaced
  <1>21. ASSUME NEW y \in BusyParts(list), y.handle # h PROVE y \in BusyParts(r)
    <2>1. PICK n, bs, one : n = Len(list) /\ bs = PBs(list) /\ one = 1
      OBVIOUS
    <2>2. BusyParts(r) = Outside(n, bs, lo, hi)
      <3>1. one \in {1, 2} /\ IsReplaced(list, lo, hi, one, others, r) /\ others[1].idle = 1 /\ one # 2
        BY <1>11, <1>13, <1>15, <2>1
      <3> QED
        BY <1>1, <1>6, <2>1, <3>1, PartsOut
    <2>3. PICK k \in 1..n : y \in bs[k]
      BY <2>1 DEF BusyParts, AllBlocks
    <2>4. k # 1 /\ y \in BusyPart(list[k]) /\ k \in 1..Len(list)
      BY <2>1, <2>3 DEF PBs
    <2>5. list[k].handle # h
      BY <1>21, <2>4 DEF BusyPart
    <2>6. ~(k \in 1..m)
      BY <2>5, PoolExtent
    <2>7. hi < k
      BY <1>1, <1>6, <2>4, <2>6
    <2> QED
      BY <2>2, <2>3, <2>7 DEF Outside
  <1> QED
    BY <1>2, <1>9, <1>15, <1>17, <1>19, <1>20, <1>21

\* Only the head of a list over the pool is not one of its pieces.
LEMMA PoolHead ==
  ASSUME PoolAssumption, BaseAssumption, NEW list, NEW m, NEW h, PoolChain(list, m, h)
  PROVE  /\ list \in Seq(Blocks) /\ Len(list) \in Nat /\ m \in Nat /\ 1 <= m /\ m <= Len(list) /\ h \in 1..MaxBos
         /\ DOMAIN list = 1..Len(list)
         /\ list[1].idle = 0
         /\ \A k \in 1..m : list[k].live = 1
         /\ \A k \in m + 1..Len(list) : list[k].is_bo = 1 /\ list[k].handle # h
  <1>1. list \in Seq(Blocks) /\ Len(list) \in Nat /\ m \in Nat /\ 1 <= m /\ m <= Len(list) /\ h \in 1..MaxBos
    BY LenProperties DEF PoolChain
  <1>2. DOMAIN list = 1..Len(list)
    BY <1>1, LenProperties
  <1>3. list[1].idle = 0 /\ list[1].live = 1
    <2>1. list[1] = SharedBlock(h)
      BY DEF PoolChain
    <2>2. SharedBlock(h).idle = 0 /\ SharedBlock(h).live = 1
      BY <1>1, SharedIs
    <2> QED
      BY <2>1, <2>2
  <1>4. ASSUME NEW k \in 1..m PROVE list[k].live = 1
    <2>1. k = 1 \/ k \in 2..m
      BY <1>1
    <2> QED
      BY <1>3, <2>1 DEF PoolChain, PoolBlock
  <1>5. \A k \in m + 1..Len(list) : list[k].is_bo = 1 /\ list[k].handle # h
    BY DEF PoolChain, GrownBlock
  <1> QED
    BY <1>1, <1>2, <1>3, <1>4, <1>5

LEMMA HeadHandle ==
  ASSUME PoolAssumption, BaseAssumption, NEW list, NEW m, NEW h, PoolChain(list, m, h)
  PROVE  list[1].handle = h /\ list[1].live = 1
  <1>1. list[1] = SharedBlock(h) /\ h \in 1..MaxBos
    BY DEF PoolChain
  <1> QED
    BY <1>1, SharedIs

\* Freed memory is linked only behind the pool.
LEMMA DeadBehind ==
  ASSUME PoolAssumption, BaseAssumption, NEW list, NEW m, NEW h, PoolChain(list, m, h),
         NEW I, Dead(list, I)
  PROVE  Len(list) > m
  <1>1. PICK k \in I \cap DOMAIN list : list[k].live = 0
    BY DEF Dead
  <1>2. k \in 1..Len(list) /\ ~(k \in 1..m) /\ Len(list) \in Nat /\ m \in Nat
    BY <1>1, PoolHead
  <1> QED
    BY <1>2

-----------------------------------------------------------------------------
(* The buffers.                                                            *)

LEMMA BusyIs ==
  ASSUME NEW list, Len(list) \in Nat, NEW x, x \in BusyParts(list)
  PROVE  \E k \in 2..Len(list) :
           /\ list[k].idle = 0 /\ x = [paddr |-> list[k].paddr, esize |-> list[k].size, handle |-> list[k].handle]
  <1>1. PICK k \in 1..Len(list) : x \in PBs(list)[k]
    BY DEF BusyParts, AllBlocks
  <1>2. k # 1 /\ x \in BusyPart(list[k])
    BY <1>1 DEF PBs
  <1>3. k \in 2..Len(list)
    BY <1>2
  <1>4. list[k].idle = 0
    BY <1>2 DEF BusyPart
  <1> QED
    BY <1>2, <1>3, <1>4 DEF BusyPart

LEMMA BusyIn ==
  ASSUME NEW list, Len(list) \in Nat, NEW k \in 2..Len(list), list[k].idle = 0
  PROVE  [paddr |-> list[k].paddr, esize |-> list[k].size, handle |-> list[k].handle] \in BusyParts(list)
  <1>1. k \in 1..Len(list) /\ k # 1
    OBVIOUS
  <1>2. PBs(list)[k] = BusyPart(list[k])
    BY <1>1 DEF PBs
  <1> QED
    BY <1>1, <1>2 DEF BusyParts, AllBlocks, BusyPart

\* A thread is given a buffer; no buffer found by its address begins there.
IsGiven(t, b) ==
  /\ BufferInv /\ DOMAIN mine = Threads /\ bo_list'[1].handle = bo_list[1].handle
  /\ zero' = zero \/ zero' = 1
  /\ zero' = 0 \/ b.handle # bo_list[1].handle => \A c \in Sure : c.paddr # b.paddr
  /\ mine' = [mine EXCEPT ![t] = @ \cup {b}]
  /\ BusyParts(bo_list') = BusyParts(bo_list) \cup {Part(b)}
  /\ Sized(b, bo_list[1].handle)

LEMMA BufferGiven ==
  ASSUME NEW t \in Threads, NEW b, IsGiven(t, b)
  PROVE  /\ BufferInv' /\ Buffers' = Buffers \cup {b} /\ DOMAIN mine' = Threads
         /\ BusyParts(bo_list) = {Part(c) : c \in Buffers} => BusyParts(bo_list') = {Part(c) : c \in Buffers'}
  <1> SUFFICES ASSUME BufferInv, DOMAIN mine = Threads, bo_list'[1].handle = bo_list[1].handle,
                      zero' = zero \/ zero' = 1,
                      zero' = 0 \/ b.handle # bo_list[1].handle => \A c \in Sure : c.paddr # b.paddr,
                      mine' = [mine EXCEPT ![t] = @ \cup {b}],
                      BusyParts(bo_list') = BusyParts(bo_list) \cup {Part(b)},
                      Sized(b, bo_list[1].handle)
               PROVE  /\ BufferInv' /\ Buffers' = Buffers \cup {b} /\ DOMAIN mine' = Threads
                      /\ BusyParts(bo_list) = {Part(c) : c \in Buffers} =>
                           BusyParts(bo_list') = {Part(c) : c \in Buffers'}
    BY DEF IsGiven
  <1>1. \A u \in Threads : mine'[u] = IF u = t THEN mine[u] \cup {b} ELSE mine[u]
    OBVIOUS
  <1>2. Buffers' = Buffers \cup {b}
    BY <1>1 DEF Buffers
  <1>3. zero' = 0 => zero = 0
    OBVIOUS
  <1>4. ASSUME NEW c \in Sure' PROVE c \in Sure \/ (c = b /\ \A d \in Sure : d.paddr # b.paddr)
    <2>1. c \in Buffers' /\ (zero' = 0 \/ c.handle # bo_list[1].handle)
      BY DEF Sure
    <2>2. CASE c \in Buffers
      BY <1>3, <2>1, <2>2 DEF Sure
    <2>3. CASE c = b
      BY <2>1, <2>3
    <2> QED
      BY <1>2, <2>1, <2>2, <2>3
  <1>5. ASSUME NEW u \in Threads, NEW v \in Threads, u # v, zero' = 0 PROVE mine'[u] \cap mine'[v] = {}
    <2>1. mine[u] \cap mine[v] = {} /\ Sure = Buffers
      BY <1>3, <1>5 DEF BufferInv, Sure
    <2>2. b \notin mine[u] /\ b \notin mine[v]
      BY <1>5, <2>1 DEF Buffers
    <2> QED
      BY <1>1, <1>5, <2>1, <2>2
  <1>6. ASSUME NEW c \in Sure', NEW d \in Sure', c.paddr = d.paddr PROVE c = d
    BY <1>4, <1>6 DEF BufferInv
  <1>7. ASSUME NEW c \in Sure' PROVE Part(c) \in BusyParts(bo_list')
    BY <1>4 DEF BufferInv
  <1>8. ASSUME NEW c \in Buffers' PROVE Sized(c, bo_list'[1].handle)
    <2>1. Sized(c, bo_list[1].handle)
      BY <1>2 DEF BufferInv
    <2> QED
      BY <2>1
  <1>9. BufferInv'
    <2>1. zero' = 0 => \A u, v \in Threads : u # v => mine'[u] \cap mine'[v] = {}
      BY <1>5
    <2>2. \A c, d \in Sure' : c.paddr = d.paddr => c = d
      BY <1>6
    <2>3. \A c \in Sure' : Part(c) \in BusyParts(bo_list')
      BY <1>7
    <2>4. \A c \in Buffers' : Sized(c, bo_list'[1].handle)
      BY <1>8
    <2>5. \A c \in Sure' : (Part(c) \in BusyParts(bo_list))'
      BY <2>3 DEF Part, BusyParts, PBs
    <2>6. \A c \in Buffers' : Sized(c, bo_list[1].handle)'
      BY <2>4 DEF Sized
    <2> QED
      BY <2>1, <2>2, <2>5, <2>6 DEF BufferInv
  <1>10. BusyParts(bo_list) = {Part(c) : c \in Buffers} => BusyParts(bo_list') = {Part(c) : c \in Buffers'}
    BY <1>2
  <1> QED
    BY <1>2, <1>9, <1>10

\* No thread gets or loses a buffer.
LEMMA BufferSame ==
  ASSUME BufferInv, mine' = mine, zero' = zero, bo_list'[1].handle = bo_list[1].handle,
         BusyParts(bo_list') = BusyParts(bo_list)
  PROVE  BufferInv' /\ Buffers' = Buffers
  <1>1. Buffers' = Buffers
    BY DEF Buffers
  <1>2. Sure' = Sure
    BY <1>1 DEF Sure
  <1>3. \A c \in Sure' : (Part(c) \in BusyParts(bo_list))'
    <2>1. \A c \in Sure' : Part(c) \in BusyParts(bo_list')
      BY <1>2 DEF BufferInv
    <2> QED
      BY <2>1 DEF Part, BusyParts, PBs
  <1>4. \A c \in Buffers' : Sized(c, bo_list[1].handle)'
    <2>1. \A c \in Buffers' : Sized(c, bo_list[1].handle)
      BY <1>1 DEF BufferInv
    <2> QED
      BY <2>1 DEF Sized
  <1>5. zero' = 0 => \A u, v \in Threads : u # v => mine'[u] \cap mine'[v] = {}
    BY DEF BufferInv
  <1>6. \A c, d \in Sure' : c.paddr = d.paddr => c = d
    BY <1>2 DEF BufferInv
  <1> QED
    BY <1>1, <1>3, <1>4, <1>5, <1>6 DEF BufferInv

\* A thread gives a buffer back.
LEMMA BufferTaken ==
  ASSUME BufferInv, DOMAIN mine = Threads, NEW t \in Threads, NEW b \in mine[t],
         mine' = [mine EXCEPT ![t] = @ \ {b}], zero' = zero, bo_list'[1].handle = bo_list[1].handle,
         \A c \in Sure' : Part(c) \in BusyParts(bo_list')
  PROVE  BufferInv' /\ DOMAIN mine' = Threads
  <1>1. \A u \in Threads : mine'[u] = IF u = t THEN mine[u] \ {b} ELSE mine[u]
    OBVIOUS
  <1>2. Buffers' \subseteq Buffers
    BY <1>1 DEF Buffers
  <1>3. Sure' \subseteq Sure
    BY <1>2 DEF Sure
  <1>4. ASSUME NEW u \in Threads, NEW v \in Threads, u # v, zero' = 0 PROVE mine'[u] \cap mine'[v] = {}
    <2>1. mine[u] \cap mine[v] = {}
      BY <1>4 DEF BufferInv
    <2> QED
      BY <1>1, <1>4, <2>1
  <1>5. \A c, d \in Sure' : c.paddr = d.paddr => c = d
    BY <1>3 DEF BufferInv
  <1>6. \A c \in Sure' : (Part(c) \in BusyParts(bo_list))'
    BY DEF Part, BusyParts, PBs
  <1>7. \A c \in Buffers' : Sized(c, bo_list[1].handle)'
    <2>1. \A c \in Buffers' : Sized(c, bo_list[1].handle)
      BY <1>2 DEF BufferInv
    <2> QED
      BY <2>1 DEF Sized
  <1> QED
    BY <1>4, <1>5, <1>6, <1>7 DEF BufferInv

\* Only one thread had a buffer that is found by its address.
LEMMA BufferOut ==
  ASSUME BufferInv, NEW t \in Threads, NEW b \in mine[t], b \in Sure, DOMAIN mine = Threads,
         zero = 0 \/ \A u, v \in Threads : u = v,
         mine' = [mine EXCEPT ![t] = @ \ {b}], zero' = zero, bo_list'[1].handle = bo_list[1].handle
  PROVE  /\ \A c \in Sure' : c \in Sure /\ Part(c) # Part(b)
         /\ BusyParts(bo_list) = {Part(c) : c \in Buffers} /\ zero = 0
              => BusyParts(bo_list) \ {Part(b)} = {Part(c) : c \in Buffers'}
  <1>1. \A u \in Threads : mine'[u] = IF u = t THEN mine[u] \ {b} ELSE mine[u]
    OBVIOUS
  <1>2. Buffers' = Buffers \ {b}
    <2>1. ASSUME NEW u \in Threads, u # t PROVE b \notin mine[u]
      BY <2>1 DEF BufferInv
    <2> QED
      BY <1>1, <2>1 DEF Buffers
  <1>3. ASSUME NEW c \in Sure' PROVE c \in Sure /\ Part(c) # Part(b)
    <2>1. c \in Sure /\ c # b
      BY <1>2 DEF Sure
    <2>2. c.paddr # b.paddr
      BY <2>1 DEF BufferInv
    <2> QED
      BY <2>1, <2>2 DEF Part
  <1>4. ASSUME zero = 0 PROVE \A c \in Buffers' : Part(c) # Part(b)
    BY <1>3, <1>4 DEF Sure
  <1>5. b \in Buffers
    BY DEF Sure
  <1>6. BusyParts(bo_list) = {Part(c) : c \in Buffers} /\ zero = 0
          => BusyParts(bo_list) \ {Part(b)} = {Part(c) : c \in Buffers'}
    BY <1>2, <1>4, <1>5
  <1> QED
    BY <1>3, <1>6

-----------------------------------------------------------------------------
(* The steps.                                                              *)

\* While a thread is not in a call, none is.
LEMMA NoCall ==
  ASSUME SoleGrower, NEW m, GrownInv(m), corrupt = 0, NEW t \in Threads, pc[t] = "idle"
  PROVE  (\A u \in Threads : pc[u] = "idle") /\ Loose(bo_list, m) = {}
  <1>1. ASSUME NEW u \in Threads PROVE pc[u] = "idle"
    <2>1. pc[u] # "idle" => Grow
      BY DEF GrownInv, CallInv
    <2> QED
      BY <2>1 DEF SoleGrower
  <1>2. Loose(bo_list, m) = {}
    BY DEF GrownInv, CallInv
  <1> QED
    BY <1>1, <1>2

\* A smaller BO was destroyed, and its block stays linked.
LEMMA TornStays ==
  ASSUME Torn, bo_list \in Seq(Blocks), bo_list' \in Seq(Blocks), Len(bo_list) <= Len(bo_list'),
         \A k \in 1..Len(bo_list) : bo_list[k].live = 0 =>
           bo_list'[k].live = 0 /\ bo_list'[k].size = bo_list[k].size
  PROVE  Torn'
  <1>1. /\ DOMAIN bo_list = 1..Len(bo_list) /\ Len(bo_list) \in Nat
        /\ DOMAIN bo_list' = 1..Len(bo_list') /\ Len(bo_list') \in Nat
    BY LenProperties
  <1>2. PICK k \in DOMAIN bo_list : bo_list[k].live = 0 /\ bo_list[k].size < PoolSize
    BY DEF Torn
  <1>3. k \in 1..Len(bo_list) /\ k \in DOMAIN bo_list'
    BY <1>1, <1>2
  <1> QED
    BY <1>2, <1>3 DEF Torn

\* The pool itself changes, and no thread is in a call.
LEMMA GrownKept ==
  ASSUME PoolAssumption, BaseAssumption,
         NEW m, NEW h, PoolKept(m, h), PoolTypes, NEW r, NEW m2 \in 1..Len(r), PoolChain(r, m2, h),
         SameGrown(bo_list, m, r, m2), Loose(bo_list, m) = {}, \A u \in Threads : pc[u] = "idle",
         bo_list' = r, kernel' = kernel, bos' = bos, pc' = pc, mapped' = mapped
  PROVE  GrownInv(m2)'
  <1>1. /\ r \in Seq(Blocks) /\ Len(r) \in Nat /\ m2 \in Nat /\ Len(bo_list) \in Nat /\ m \in 1..Len(bo_list) /\ m \in Nat
        /\ bos \in Nat
    BY LenProperties DEF PoolKept, PoolChain, PoolTypes
  <1>2. h \in kernel /\ h <= bos /\ (h \in mapped \/ Torn)
    <2>1. h \in kernel /\ h <= bos
      BY DEF PoolKept, PoolTypes
    <2>2. PoolChain(bo_list, m, h)
      BY DEF PoolKept
    <2>3. 1 \in 1..Len(bo_list) /\ bo_list[1].live = 1 /\ bo_list[1].handle = h
      <3>1. 1 \in 1..m
        BY <1>1
      <3> QED
        BY <1>1, <2>2, <3>1, PoolHead, PoolExtent
    <2> QED
      BY <2>1, <2>3 DEF PoolKept, GrownInv
  <1>0. ASSUME Torn PROVE Torn'
    <2>1. PICK k \in DOMAIN bo_list : bo_list[k].live = 0 /\ bo_list[k].size < PoolSize
      BY <1>0 DEF Torn
    <2>2. k \in m + 1..Len(bo_list)
      <3>1. PoolChain(bo_list, m, h)
        BY DEF PoolKept
      <3>2. k \in 1..Len(bo_list) /\ ~(k \in 1..m)
        BY <2>1, <3>1, PoolHead, SMTT(30)
      <3> QED
        BY <1>1, <3>2
    <2>3. PICK q \in m2 + 1..Len(r) : r[q] = bo_list[k]
      BY <2>2 DEF SameGrown
    <2>4. q \in DOMAIN r
      BY <1>1, <2>3, LenProperties
    <2> QED
      BY <2>1, <2>3, <2>4 DEF Torn
  <1>3. ASSUME NEW k \in 1..Len(r)
        PROVE  /\ r[k].live = 1 => r[k].handle \in kernel /\ (r[k].handle \in mapped \/ Torn)
               /\ r[k].handle <= bos
    <2>1. k \in 1..m2 \/ k \in m2 + 1..Len(r)
      BY <1>1
    <2>2. CASE k \in 1..m2
      <3>1. k = 1 \/ k \in 2..m2
        BY <1>1, <2>2
      <3>2. r[k].handle = h
        BY <3>1 DEF PoolChain, PoolBlock, SharedBlock
      <3> QED
        BY <1>2, <3>2
    <2>3. CASE k \in m2 + 1..Len(r)
      <3>1. PICK q \in m + 1..Len(bo_list) : r[k] = bo_list[q]
        BY <2>3 DEF SameGrown
      <3>2. q \in 1..Len(bo_list)
        BY <1>1
      <3> QED
        BY <3>1, <3>2 DEF PoolKept, GrownInv
    <2> QED
      BY <2>1, <2>2, <2>3
  <1>4. Len(r) > m2 => Grow
    BY DEF SameGrown, PoolKept, GrownInv
  <1>5. Loose(r, m2) = {}
    <2> SUFFICES ASSUME NEW k \in Loose(r, m2) PROVE FALSE
      OBVIOUS
    <2>1. k \in m2 + 1..Len(r) /\ r[k].idle = 1 /\ r[k].live = 1
      BY DEF Loose
    <2>2. PICK q \in m + 1..Len(bo_list) : r[k] = bo_list[q]
      BY <2>1 DEF SameGrown
    <2> QED
      BY <2>1, <2>2 DEF Loose
  <1>6. \A u \in Threads : CallInv(u, m2)'
    BY <1>5 DEF CallInv
  <1> QED
    BY <1>0, <1>3, <1>4, <1>6 DEF GrownInv

LEMMA FirstFitIs ==
  ASSUME NEW list \in Seq(Blocks), NEW size, Fits(list, size) # {}, NEW i, i = FirstFit(list, size)
  PROVE  i \in 1..Len(list) /\ list[i].idle = 1 /\ list[i].size >= align(size)
  <1>1. PICK F : F = Fits(list, size)
    OBVIOUS
  <1>2. F \in SUBSET Nat /\ F # {}
    BY <1>1, LenProperties DEF Fits
  <1>3. \E x \in F : \A k \in F : x <= k
    BY <1>2, LeastElement
  <1>4. i = CHOOSE x \in F : \A k \in F : x <= k
    BY <1>1 DEF FirstFit
  <1>5. i \in F
    BY <1>3, <1>4
  <1>6. DOMAIN list = 1..Len(list)
    BY LenProperties
  <1> QED
    BY <1>1, <1>5, <1>6 DEF Fits

\* A buffer's memory and the block it was cut from.
LEMMA BufferOf ==
  ASSUME PoolAssumption, BaseAssumption, NEW m, NEW h, PoolChain(bo_list, m, h), BufferInv,
         NEW b \in Sure
  PROVE  \E k \in 2..Len(bo_list) :
           /\ bo_list[k].idle = 0 /\ bo_list[k].paddr = b.paddr /\ bo_list[k].size = b.esize
           /\ bo_list[k].handle = b.handle /\ {Part(b)} = BusyPart(bo_list[k])
           /\ zero = 0 \/ k > m
  <1>1. Part(b) \in BusyParts(bo_list) /\ Len(bo_list) \in Nat /\ m \in Nat
    BY PoolHead DEF BufferInv
  <1>2. PICK x : x = Part(b)
    OBVIOUS
  <1>3. PICK k \in 2..Len(bo_list) :
          /\ bo_list[k].idle = 0
          /\ x = [paddr |-> bo_list[k].paddr, esize |-> bo_list[k].size, handle |-> bo_list[k].handle]
    <2>1. x \in BusyParts(bo_list)
      BY <1>1, <1>2
    <2> QED
      BY <1>1, <2>1, BusyIs
  <1>4. x.paddr = b.paddr /\ x.esize = b.esize /\ x.handle = b.handle
    BY <1>2 DEF Part
  <1>5. {Part(b)} = BusyPart(bo_list[k])
    BY <1>2, <1>3 DEF BusyPart
  <1>6. zero = 0 \/ k > m
    <2> SUFFICES ASSUME ~(k > m) PROVE zero = 0
      OBVIOUS
    <2>1. k \in 1..m /\ 1 \in 1..m
      BY <1>1, PoolHead
    <2>2. bo_list[k].handle = h /\ bo_list[1].handle = h
      BY <2>1, PoolExtent
    <2> QED
      BY <1>3, <1>4, <2>2 DEF Sure
  <1> QED
    BY <1>3, <1>4, <1>5, <1>6

LEMMA PoolAlloc ==
  ASSUME PoolAssumption, BaseAssumption, SoleGrower, PoolInv, NEW t \in Threads, NEW size \in Sizes,
         iaic_fast_alloc_bo(t, size)
  PROVE  PoolInv'
  <1>1. /\ ctx = 1 /\ corrupt = 0 /\ pc[t] = "idle" /\ Fits(bo_list, size) # {}
        /\ UNCHANGED <<ctx, kernel, bos, pc, want, curr, mapped>>
    BY DEF iaic_fast_alloc_bo
  <1>2. PICK m \in 1..Len(bo_list), h \in 1..MaxBos : PoolKept(m, h)
    BY <1>1 DEF PoolInv
  <1>3. PoolTypes /\ BufferInv
    BY DEF PoolInv
  <1>4. /\ PoolChain(bo_list, m, h) /\ GrownInv(m) /\ h \in kernel
        /\ zero = 0 => Solid(bo_list) /\ BusyParts(bo_list) = {Part(b) : b \in Buffers}
    BY <1>1, <1>2 DEF PoolKept
  <1>5. (\A u \in Threads : pc[u] = "idle") /\ Loose(bo_list, m) = {}
    BY <1>1, <1>4, NoCall
  <1>6. PICK i : i = FirstFit(bo_list, size)
    OBVIOUS
  <1>7. i \in 1..Len(bo_list) /\ bo_list[i].idle = 1 /\ bo_list[i].size >= align(size)
    <2>1. bo_list \in Seq(Blocks)
      BY <1>4, PoolHead
    <2> QED
      BY <1>1, <1>6, <2>1, FirstFitIs
  <1>8. CASE Dead(bo_list, 1..i)
    <2>1. corrupt' = 1 /\ bo_list' = bo_list /\ mine' = mine /\ zero' = zero
      BY <1>6, <1>8 DEF iaic_fast_alloc_bo
    <2>2. Len(bo_list) > m
      BY <1>4, <1>8, DeadBehind
    <2>3. GrownInv(m)'
      BY <1>1, <1>4, <2>1 DEF GrownInv, Torn
    <2>4. PoolKept(m, h)'
      BY <1>1, <1>4, <2>1, <2>2, <2>3 DEF PoolKept
    <2>5. PoolTypes'
      BY <1>1, <1>3, <2>1 DEF PoolTypes
    <2>6. BufferInv'
      BY <1>3, <2>1, BufferSame
    <2> QED
      BY <1>1, <1>2, <2>1, <2>4, <2>5, <2>6 DEF PoolInv
  <1>9. CASE ~Dead(bo_list, 1..i)
    <2>1. /\ bo_list' = Cut(bo_list, i, size) /\ Give(t, bo_list'[i], size) /\ corrupt' = corrupt
          /\ zero' = IF CutsNothing(bo_list, i, size) THEN 1 ELSE zero
      BY <1>6, <1>9 DEF iaic_fast_alloc_bo
    <2>2. i \in 2..m
      <3>0. /\ Len(bo_list) \in Nat /\ m \in Nat /\ bo_list \in Seq(Blocks) /\ DOMAIN bo_list = 1..Len(bo_list)
            /\ bo_list[1].idle = 0
        BY <1>4, PoolHead
      <3>1. i # 1
        BY <1>7, <3>0
      <3>2. bo_list[i].live = 1
        <4>1. i \in 1..i
          BY <1>7, <3>0
        <4>2. bo_list[i].live # 0
          BY <1>7, <1>9, <3>0, <4>1 DEF Dead
        <4> QED
          BY <1>7, <3>0, <4>2, PoolFields
      <3>3. ~(i \in m + 1..Len(bo_list))
        BY <1>5, <1>7, <3>2 DEF Loose
      <3> QED
        BY <1>7, <3>0, <3>1, <3>3
    <2>3. size \in Nat
      BY DEF PoolAssumption
    <2>4. PICK r : r = Cut(bo_list, i, size)
      OBVIOUS
    <2>5. /\ r \in Seq(Blocks) /\ i \in 1..Len(r)
          /\ \E m2 \in 1..Len(r) : PoolChain(r, m2, h) /\ SameGrown(bo_list, m, r, m2)
          /\ r[i].paddr = bo_list[i].paddr /\ r[i].handle = h /\ r[i].size >= size /\ r[i].idle = 0
          /\ BusyParts(r) = BusyParts(bo_list) \cup BusyPart(r[i])
          /\ Solid(bo_list) /\ ~CutsNothing(bo_list, i, size) => Solid(r)
      <3>1. PoolChain(bo_list, m, h) /\ bo_list[i].idle = 1
        BY <1>4, <1>7
      <3>2. bo_list[i].size >= align(size)
        BY <1>7
      <3>3. Cuttable(bo_list, m, h, i, size, r)
        BY <2>2, <2>3, <2>4, <3>1, <3>2 DEF Cuttable
      <3>4. WasCut(bo_list, m, h, i, size, r)
        BY <3>3, PoolCut
      <3> QED
        BY <3>4 DEF WasCut
    <2>6. PICK m2 \in 1..Len(r) : PoolChain(r, m2, h) /\ SameGrown(bo_list, m, r, m2)
      BY <2>5
    <2>7. bo_list' = r
      BY <2>1, <2>4
    <2>8. GrownInv(m2)'
      BY <1>1, <1>2, <1>3, <1>5, <2>6, <2>7, GrownKept
    <2>9. PICK b : b = [paddr |-> r[i].paddr, size |-> size, esize |-> r[i].size, handle |-> r[i].handle]
      OBVIOUS
    <2>10. b.paddr = bo_list[i].paddr /\ b.size = size /\ b.esize = r[i].size /\ b.handle = h
      BY <2>5, <2>9
    <2>11. mine' = [mine EXCEPT ![t] = @ \cup {b}]
      BY <2>1, <2>7, <2>9 DEF Give
    <2>12. {Part(b)} = BusyPart(r[i])
      BY <2>5, <2>9 DEF Part, BusyPart
    <2>13. zero' = zero \/ zero' = 1
      BY <2>1
    <2>14. zero' = 0 => zero = 0 /\ ~CutsNothing(bo_list, i, size)
      BY <2>1
    <2>15. ASSUME zero' = 0, NEW c \in Sure PROVE c.paddr # b.paddr
      <3>1. PICK k \in 2..Len(bo_list) : bo_list[k].idle = 0 /\ bo_list[k].paddr = c.paddr
        BY <1>3, <1>4, BufferOf
      <3>2. k # i /\ k \in 1..Len(bo_list)
        BY <1>7, <3>1
      <3>3. Solid(bo_list)
        BY <1>4, <2>14, <2>15
      <3>4. bo_list[k].paddr # bo_list[i].paddr
        BY <1>4, <1>7, <3>2, <3>3, PoolApart
      <3> QED
        BY <2>10, <3>1, <3>4
    <2>16. bo_list[1].handle = h /\ bo_list'[1].handle = h
      BY <1>4, <2>6, <2>7, HeadHandle
    <2>17. Sized(b, h)
      <3>1. r[i].paddr \in Nat /\ r[i].size \in Nat
        BY <2>5, PoolFields
      <3>2. Base[h] < bo_list[i].paddr /\ bo_list[i].paddr < Base[h] + PoolSize
        BY <1>4, <2>2, BehindFirst
      <3>3. b.paddr \in Nat /\ b.esize \in Nat /\ b.esize >= b.size /\ b.size \in Sizes
        BY <2>5, <2>10, <3>1
      <3> QED
        BY <2>10, <3>2, <3>3 DEF Sized
    <2>18. /\ BufferInv' /\ DOMAIN mine' = Threads
           /\ zero' = 0 => BusyParts(bo_list') = {Part(c) : c \in Buffers'}
      <3>1. BusyParts(bo_list') = BusyParts(bo_list) \cup {Part(b)}
        BY <2>5, <2>7, <2>12
      <3>2. DOMAIN mine = Threads
        BY <1>3 DEF PoolTypes
      <3>3. zero' = 0 \/ b.handle # bo_list[1].handle => \A c \in Sure : c.paddr # b.paddr
        BY <2>10, <2>15, <2>16
      <3>4. bo_list'[1].handle = bo_list[1].handle /\ Sized(b, bo_list[1].handle)
        BY <2>16, <2>17
      <3>5. IsGiven(t, b)
        BY <1>3, <2>11, <2>13, <3>1, <3>2, <3>3, <3>4 DEF IsGiven
      <3>6. /\ BufferInv' /\ DOMAIN mine' = Threads
            /\ BusyParts(bo_list) = {Part(c) : c \in Buffers} => BusyParts(bo_list') = {Part(c) : c \in Buffers'}
        BY <3>5, BufferGiven
      <3> QED
        BY <1>4, <2>14, <3>6
    <2>19. PoolKept(m2, h)'
      <3>1. zero' = 0 => Solid(r)
        BY <1>4, <2>5, <2>14
      <3>2. corrupt' = 0
        BY <1>1, <2>1
      <3> QED
        BY <1>1, <1>4, <2>6, <2>7, <2>8, <2>18, <3>1, <3>2 DEF PoolKept
    <2>20. PoolTypes'
      <3>1. zero' \in {0, 1}
        BY <1>3, <2>13 DEF PoolTypes
      <3> QED
        BY <1>1, <1>3, <2>1, <2>18, <3>1 DEF PoolTypes
    <2> QED
      BY <1>1, <2>6, <2>7, <2>18, <2>19, <2>20 DEF PoolInv
  <1> QED
    BY <1>8, <1>9

LEMMA ReplacedSame ==
  ASSUME NEW list, Len(list) \in Nat, NEW i \in 1..Len(list), NEW others, NEW r, IsReplaced(list, i, i, 1, others, r)
  PROVE  /\ Len(r) = Len(list) /\ r[i] = others[1]
         /\ \A k \in 1..Len(list) : k # i => r[k] = list[k]
  <1>1. i \in Nat /\ 1 <= i /\ i <= Len(list) /\ i - i + 1 = 1
    OBVIOUS
  <1>2. Len(r) \in Nat /\ Len(r) = Len(list) - 1 + 1
    BY <1>1 DEF IsReplaced
  <1>3. Len(r) = Len(list)
    BY <1>2
  <1>4. r[i] = others[1]
    <2>1. 1 \in 1..1 /\ i - 1 + 1 = i
      BY <1>1
    <2>2. r[i - 1 + 1] = others[1]
      BY <2>1 DEF IsReplaced
    <2> QED
      BY <2>1, <2>2
  <1>5. ASSUME NEW k \in 1..Len(list), k # i PROVE r[k] = list[k]
    <2>1. CASE k < i
      <3>1. k \in 1..i - 1
        BY <1>1, <2>1
      <3> QED
        BY <3>1 DEF IsReplaced
    <2>2. CASE k > i
      <3>1. k \in i + 1..Len(r) /\ k + (i - i + 1) - 1 = k
        BY <1>1, <1>3, <2>2
      <3>2. r[k] = list[k + (i - i + 1) - 1]
        BY <3>1 DEF IsReplaced
      <3> QED
        BY <3>1, <3>2
    <2> QED
      BY <1>1, <1>5, <2>1, <2>2
  <1> QED
    BY <1>3, <1>4, <1>5

\* Only what is behind the pool changes.
LEMMA PoolBehind ==
  ASSUME PoolAssumption, BaseAssumption, NEW list, NEW m, NEW h, PoolChain(list, m, h),
         NEW r \in Seq(Blocks), m <= Len(r), \A k \in 1..m : r[k] = list[k],
         \A k \in m + 1..Len(r) : GrownBlock(r[k], h),
         \A k, l \in m + 1..Len(r) : r[k].handle = r[l].handle => k = l
  PROVE  PoolChain(r, m, h)
  <1>1. m \in Nat /\ 1 <= m /\ h \in 1..MaxBos /\ Len(r) \in Nat
    BY PoolHead, LenProperties
  <1>2. m \in 1..Len(r)
    BY <1>1
  <1>3. PAt(r, m) = PAt(list, m) /\ PLn(r, m) = PLn(list, m)
    BY DEF PAt, PLn
  <1>4. Tile(m, PAt(r, m), PLn(r, m), Base[h], Base[h] + PoolSize)
    BY <1>3 DEF PoolChain
  <1>5. r[1] = SharedBlock(h)
    <2>1. 1 \in 1..m
      BY <1>1
    <2> QED
      BY <2>1 DEF PoolChain
  <1>6. \A k \in 2..m : PoolBlock(r[k], h)
    <2>1. \A k \in 2..m : k \in 1..m
      BY <1>1
    <2> QED
      BY <2>1 DEF PoolChain
  <1>7. \A k \in 1..m - 1 : r[k].idle = 0 \/ r[k + 1].idle = 0
    <2>1. \A k \in 1..m - 1 : k \in 1..m /\ k + 1 \in 1..m
      BY <1>1
    <2> QED
      BY <2>1 DEF PoolChain
  <1>8. \A k \in 1..m : r[k].paddr < Base[h] + PoolSize
    BY DEF PoolChain
  <1> QED
    BY <1>1, <1>2, <1>4, <1>5, <1>6, <1>7, <1>8 DEF PoolChain

\* A block behind the pool changes its state.
GrownSet(list, m, i, e, r) ==
  /\ i \in m + 1..Len(list) /\ e \in Blocks /\ r \in Seq(Blocks) /\ Len(r) = Len(list)
  /\ e.paddr = list[i].paddr /\ e.size = list[i].size /\ e.is_bo = list[i].is_bo /\ e.handle = list[i].handle
  /\ e.live = 0 => e.idle = 1
  /\ r[i] = e /\ \A k \in 1..Len(list) : k # i => r[k] = list[k]

LEMMA GrownSetKeeps ==
  ASSUME PoolAssumption, BaseAssumption, NEW list, NEW m, NEW h, PoolChain(list, m, h),
         NEW i, NEW e, NEW r, GrownSet(list, m, i, e, r)
  PROVE  PoolChain(r, m, h) /\ i \in 2..Len(list)
  <1>1. Len(list) \in Nat /\ m \in Nat /\ 1 <= m /\ m <= Len(list)
    BY PoolHead
  <1>2. /\ i \in m + 1..Len(list) /\ r \in Seq(Blocks) /\ Len(r) = Len(list)
        /\ r[i] = e /\ \A k \in 1..Len(list) : k # i => r[k] = list[k]
    BY DEF GrownSet
  <1>3. \A k \in 1..m : r[k] = list[k]
    <2>1. \A k \in 1..m : k \in 1..Len(list) /\ k # i
      BY <1>1, <1>2
    <2> QED
      BY <1>2, <2>1
  <1>4. ASSUME NEW k \in m + 1..Len(r) PROVE GrownBlock(r[k], h) /\ r[k].handle = list[k].handle
    <2>1. k \in 1..Len(list) /\ k \in m + 1..Len(list)
      BY <1>1, <1>2
    <2>2. GrownBlock(list[k], h)
      BY <2>1 DEF PoolChain
    <2>3. CASE k = i
      BY <1>2, <2>2, <2>3 DEF GrownSet, GrownBlock
    <2>4. CASE k # i
      BY <1>2, <2>1, <2>2, <2>4
    <2> QED
      BY <2>3, <2>4
  <1>5. ASSUME NEW k \in m + 1..Len(r), NEW l \in m + 1..Len(r), r[k].handle = r[l].handle PROVE k = l
    <2>1. k \in m + 1..Len(list) /\ l \in m + 1..Len(list) /\ list[k].handle = list[l].handle
      BY <1>2, <1>4, <1>5
    <2> QED
      BY <2>1 DEF PoolChain
  <1>6. m <= Len(r)
    BY <1>1, <1>2
  <1>7. PoolChain(r, m, h)
    BY <1>2, <1>3, <1>4, <1>5, <1>6, PoolBehind
  <1>8. i \in 2..Len(list)
    BY <1>1, <1>2
  <1> QED
    BY <1>7, <1>8

\* Behind the pool, only the thread that lets it grow is at work.
LEMMA OneGrower ==
  ASSUME SoleGrower, NEW m, GrownInv(m), corrupt = 0, NEW t \in Threads,
         Len(bo_list) > m \/ pc[t] # "idle"
  PROVE  Grow /\ \A u \in Threads : u = t
  <1>1. Grow
    BY DEF GrownInv, CallInv
  <1> QED
    BY <1>1 DEF SoleGrower

\* A BO the pool has grown by is freed.
FreedBlock(b) == [b EXCEPT !.idle = 1]

GrownFreed(list, m, h, i, r, e) ==
  /\ PoolChain(list, m, h) /\ i \in m + 1..Len(list) /\ list[i].idle = 0 /\ Loose(list, m) = {}
  /\ ~Dead(list, 1..Highest(list, i) + 1) /\ r = Merge(list, i) /\ e = FreedBlock(list[i])

LEMMA MergeGrown ==
  ASSUME PoolAssumption, BaseAssumption, NEW list, NEW m, NEW h, NEW i, NEW r, NEW e,
         GrownFreed(list, m, h, i, r, e)
  PROVE  /\ Lowest(list, i) = i /\ list[i].live = 1 /\ list[i].is_bo = 1
         /\ GrownSet(list, m, i, e, r)
         /\ BusyParts(r) = BusyParts(list) \ BusyPart(list[i])
  <1>0. /\ PoolChain(list, m, h) /\ i \in m + 1..Len(list) /\ list[i].idle = 0 /\ Loose(list, m) = {}
        /\ ~Dead(list, 1..Highest(list, i) + 1) /\ r = Merge(list, i) /\ e = FreedBlock(list[i])
    BY DEF GrownFreed
  <1>1. /\ list \in Seq(Blocks) /\ Len(list) \in Nat /\ m \in Nat /\ 1 <= m /\ m <= Len(list)
        /\ DOMAIN list = 1..Len(list) /\ list[i].is_bo = 1
    BY <1>0, PoolHead
  <1>2. i \in Nat \ {0} /\ 2 <= i /\ i <= Len(list) /\ m < i /\ i \in 1..Len(list) /\ i \in 2..Len(list) /\ i \in i..Len(list)
    BY <1>0, <1>1
  <1>3. Lowest(list, i) = i
    BY <1>1, <1>2, LowestGrown
  <1>4. list[i].live = 1
    <2>1. list[i].live # 0
      <3>1. GrownBlock(list[i], h)
        BY <1>0 DEF PoolChain
      <3> QED
        BY <1>0, <3>1 DEF GrownBlock
    <2> QED
      BY <1>1, <1>2, <2>1, PoolFields
  <1>5. PICK hi : hi = Highest(list, i)
    OBVIOUS
  <1>6. hi \in i..Len(list) /\ \A j \in i + 1..hi : list[j].idle = 1
    BY <1>1, <1>2, <1>5, HighestIs
  <1>7. hi = i
    <2> SUFFICES ASSUME hi # i PROVE FALSE
      OBVIOUS
    <2>1. i + 1 \in i + 1..hi /\ i + 1 \in 1..hi + 1 /\ i + 1 \in 1..Len(list) /\ i + 1 \in m + 1..Len(list)
      BY <1>1, <1>2, <1>6
    <2>2. list[i + 1].live # 0
      BY <1>0, <1>1, <1>5, <2>1 DEF Dead
    <2>3. list[i + 1].live = 1
      BY <1>1, <2>1, <2>2, PoolFields
    <2> QED
      BY <1>0, <1>6, <2>1, <2>3 DEF Loose
  <1>8. PICK b, s : b = list[i] /\ s = SubSeq(list, i, i)
    OBVIOUS
  <1>9. b \in Blocks /\ b.size \in Nat
    BY <1>1, <1>2, <1>8, PoolFields
  <1>10. SumSizes(s) = b.size
    <2>1. Len(s) = 1 /\ s[1] = b
      <3>1. \A k \in i..i : list[k] \in Blocks
        BY <1>8, <1>9
      <3>2. /\ Len(s) = IF i <= i THEN i - i + 1 ELSE 0
            /\ \A k \in 1..i - i + 1 : s[k] = list[i + k - 1]
        BY <1>1, <1>2, <1>8, <3>1, SubSeqProperties
      <3>3. i - i + 1 = 1 /\ i + 1 - 1 = i /\ 1 \in 1..1
        BY <1>2
      <3>4. Len(s) = 1 /\ s[1] = list[i + 1 - 1]
        <4>1. 1 \in 1..i - i + 1 /\ i <= i
          BY <1>2, <3>3
        <4>2. s[1] = list[i + 1 - 1]
          BY <3>2, <4>1
        <4>3. Len(s) = i - i + 1
          BY <3>2, <4>1
        <4> QED
          BY <3>3, <4>2, <4>3
      <3> QED
        BY <1>8, <3>3, <3>4
    <2>2. PICK w, P : w = [k \in 1..1 |-> b.size] /\ P = [k \in 0..1 |-> IF k = 0 THEN 0 ELSE b.size]
      OBVIOUS
    <2>3. Sums(1, w, P) /\ P[1] = b.size
      BY <1>9, <2>2 DEF Sums
    <2>4. SizesOf(s, 1, w, P)
      <3>1. w \in [1..1 -> Int]
        BY <1>9, <2>2
      <3>2. \A k \in 1..1 : w[k] = s[k].size
        BY <2>1, <2>2
      <3> QED
        BY <2>1, <2>3, <3>1, <3>2 DEF SizesOf
    <2>5. SumSizes(s) = P[1]
      BY <2>4, SizesAre
    <2> QED
      BY <2>3, <2>5
  <1>11. e = [b EXCEPT !.idle = 1]
    BY <1>0, <1>8 DEF FreedBlock
  <1>12. e = [b EXCEPT !.idle = 1, !.size = SumSizes(s)]
    BY <1>9, <1>10, <1>11 DEF Blocks
  <1>13. /\ e \in Blocks /\ e.idle = 1 /\ e.paddr = b.paddr /\ e.size = b.size /\ e.is_bo = b.is_bo
         /\ e.handle = b.handle /\ e.live = b.live
    BY <1>9, <1>11 DEF Blocks
  <1>14. PICK others : others = <<e>>
    OBVIOUS
  <1>15. others \in Seq(Blocks) /\ Len(others) = 1 /\ others[1] = e
    BY <1>13, <1>14
  <1>16. r = Replaced(list, i, i, others)
    BY <1>0, <1>3, <1>5, <1>7, <1>8, <1>12, <1>14 DEF Merge, Replaced
  <1>17. r \in Seq(Blocks) /\ IsReplaced(list, i, i, 1, others, r)
    <2>1. PICK one : one = Len(others)
      OBVIOUS
    <2>2. r \in Seq(Blocks) /\ IsReplaced(list, i, i, one, others, r)
      BY <1>1, <1>2, <1>15, <1>16, <2>1, ReplacedList
    <2> QED
      BY <1>15, <2>1, <2>2
  <1>18. Len(r) = Len(list) /\ r[i] = e /\ \A k \in 1..Len(list) : k # i => r[k] = list[k]
    <2>1. i \in 1..Len(list) /\ Len(list) \in Nat
      BY <1>1, <1>2
    <2> QED
      BY <1>15, <1>17, <2>1, ReplacedSame
  <1>19. GrownSet(list, m, i, e, r)
    BY <1>0, <1>8, <1>13, <1>17, <1>18 DEF GrownSet
  <1>20. BusyParts(r) = BusyParts(list) \ BusyPart(list[i])
    <2>1. i \in 2..Len(list) /\ i \in i..Len(list) /\ others[1].idle = 1 /\ i \in i..i
      BY <1>2, <1>13, <1>15
    <2>2. IsReplaced(list, i, i, 1, others, r)
      BY <1>17
    <2>3. \A k \in i..i : k # i => list[k].idle = 1
      BY <1>2
    <2> QED
      <3>1. PoolChain(list, m, h)
        BY <1>0
      <3>2. Removes(list, i, i, others, r, i)
        BY <2>1, <2>2, <2>3 DEF Removes
      <3>3. i > m
        BY <1>2
      <3> QED
        BY <3>1, <3>2, <3>3, PartsRemove
  <1> QED
    BY <1>1, <1>3, <1>4, <1>8, <1>11, <1>19, <1>20

\* The block iaic_fast_free_bo finds by an address.
Finds(list, paddr, i) ==
  /\ i \in 1..Len(list) /\ list[i].paddr = paddr
  /\ \A j \in 1..Len(list) : list[j].paddr = paddr => i <= j

LEMMA FreeFirst ==
  ASSUME NEW list \in Seq(Blocks), NEW paddr, NEW i, \E k \in DOMAIN list : list[k].paddr = paddr,
         i = CHOOSE k \in DOMAIN list : list[k].paddr = paddr /\ \A j \in 1..k - 1 : list[j].paddr # paddr
  PROVE  Finds(list, paddr, i)
  <1> DEFINE Is(k) == list[k].paddr = paddr /\ \A j \in 1..k - 1 : list[j].paddr # paddr
             At == {k \in DOMAIN list : list[k].paddr = paddr}
  <1>1. DOMAIN list = 1..Len(list) /\ Len(list) \in Nat
    BY LenProperties
  <1>2. At \in SUBSET Nat /\ At # {}
    BY <1>1
  <1>3. PICK x \in At : \A k \in At : x <= k
    <2> HIDE DEF At
    <2> QED
      BY <1>2, LeastElement
  <1>4. x \in DOMAIN list /\ Is(x)
    <2>1. ASSUME NEW j \in 1..x - 1 PROVE list[j].paddr # paddr
      <3>1. j \in DOMAIN list /\ ~(x <= j)
        BY <1>1, <1>3
      <3> QED
        BY <1>3, <3>1
    <2> QED
      BY <1>3, <2>1
  <1>5. i = CHOOSE k \in DOMAIN list : Is(k)
    OBVIOUS
  <1>6. i \in DOMAIN list /\ Is(i)
    <2> HIDE DEF Is
    <2> QED
      BY <1>4, <1>5
  <1>7. ASSUME NEW j \in 1..Len(list), list[j].paddr = paddr PROVE i <= j
    <2>1. ~(j \in 1..i - 1)
      BY <1>6, <1>7
    <2> QED
      BY <1>1, <1>6, <2>1
  <1> QED
    BY <1>1, <1>6, <1>7 DEF Finds

\* The block of a buffer is found,
LEMMA FreeFinds ==
  ASSUME PoolAssumption, BaseAssumption, NEW m, NEW h, PoolChain(bo_list, m, h), BufferInv,
         zero = 0 => Solid(bo_list), NEW b \in Sure, NEW i, Finds(bo_list, b.paddr, i)
  PROVE  /\ i \in 2..Len(bo_list) /\ bo_list[i].idle = 0 /\ {Part(b)} = BusyPart(bo_list[i])
         /\ zero = 0 \/ i > m
  <1>1. PICK k \in 2..Len(bo_list) : /\ bo_list[k].idle = 0 /\ bo_list[k].paddr = b.paddr
                                     /\ {Part(b)} = BusyPart(bo_list[k]) /\ (zero = 0 \/ k > m)
    BY BufferOf
  <1>2. k \in 1..Len(bo_list) /\ i \in 1..Len(bo_list) /\ bo_list[i].paddr = b.paddr
    BY <1>1 DEF Finds
  <1>3. i = k
    <2> SUFFICES ASSUME i # k PROVE FALSE
      OBVIOUS
    <2>1. Solid(bo_list) \/ k > m
      BY <1>1
    <2>2. bo_list[i].paddr # bo_list[k].paddr
      BY <1>2, <2>1, PoolApart
    <2> QED
      BY <1>1, <1>2, <2>2
  <1> QED
    BY <1>1, <1>3

\* or at least one behind the first of the pool.
LEMMA FreeInPool ==
  ASSUME PoolAssumption, BaseAssumption, NEW m, NEW h, PoolChain(bo_list, m, h), BufferInv,
         NEW b \in Buffers, b.handle = h, NEW i, Finds(bo_list, b.paddr, i)
  PROVE  i \in 2..m
  <1>1. Len(bo_list) \in Nat /\ m \in Nat /\ 1 <= m /\ m <= Len(bo_list) /\ h \in 1..MaxBos
    BY PoolHead
  <1>2. bo_list[1].handle = h /\ bo_list[1].paddr = Base[h]
    <2>1. bo_list[1] = SharedBlock(h)
      BY DEF PoolChain
    <2> QED
      BY <1>1, <2>1, SharedIs
  <1>3. Base[h] < b.paddr /\ b.paddr < Base[h] + PoolSize
    BY <1>2 DEF BufferInv, Sized
  <1>4. i \in 1..Len(bo_list) /\ bo_list[i].paddr = b.paddr
    BY DEF Finds
  <1>5. Base[h] \in Nat /\ PoolSize \in Nat
    BY <1>1, SharedIs
  <1>6. i # 1
    BY <1>2, <1>3, <1>4, <1>5
  <1>7. ~(i \in m + 1..Len(bo_list))
    <2> SUFFICES ASSUME i \in m + 1..Len(bo_list) PROVE FALSE
      OBVIOUS
    <2>1. GrownBlock(bo_list[i], h)
      BY DEF PoolChain
    <2>2. PICK g, s : g = bo_list[i].handle /\ s = bo_list[i].size
      OBVIOUS
    <2>3. g \in 1..MaxBos /\ g # h /\ b.paddr = Base[g] /\ s \in Sizes \ {0}
      <3>1. bo_list \in Seq(Blocks)
        BY PoolHead
      <3>2. g \in 1..MaxBos
        BY <1>4, <2>2, <3>1, PoolFields
      <3> QED
        BY <1>4, <2>1, <2>2, <3>2 DEF GrownBlock
    <2>4. Base[h] + PoolSize <= Base[g] \/ Base[g] + s <= Base[h]
      <3>1. PoolSize \in Sizes \cup {PoolSize} /\ s \in Sizes \cup {PoolSize} /\ h # g
        BY <2>3
      <3> QED
        BY <1>1, <2>3, <3>1, BasesApart
    <2>5. Base[g] \in Nat /\ s \in Nat
      BY <2>3, SharedIs DEF PoolAssumption
    <2> QED
      BY <1>3, <1>5, <2>3, <2>4, <2>5
  <1> QED
    BY <1>1, <1>4, <1>6, <1>7

\* iaic_fast_free_bo has found a block and merged it.
Freed(t, b, m, h, i, r, first) ==
  /\ PoolTypes /\ BufferInv /\ b \in mine[t] /\ ctx = 1 /\ corrupt = 0 /\ pc[t] = "idle"
  /\ GrownInv(m) /\ PoolKept(m, h) /\ \A u \in Threads : pc[u] = "idle"
  /\ m \in 1..Len(bo_list) /\ h \in 1..MaxBos
  /\ Loose(bo_list, m) = {} /\ ~Dead(bo_list, 1..Highest(bo_list, i) + 1)
  /\ b \in Sure => bo_list[i].idle = 0 /\ {Part(b)} = BusyPart(bo_list[i])
  /\ r = Merge(bo_list, i) /\ first = bo_list[Lowest(bo_list, i)]
  /\ bo_list' = r /\ corrupt' = 0 /\ mine' = [mine EXCEPT ![t] = @ \ {b}]
  /\ curr' = [curr EXCEPT ![t] = IF first.is_bo = 1 THEN first.paddr ELSE 0]
  /\ pc' = [pc EXCEPT ![t] = IF first.is_bo = 1 THEN "destroy" ELSE "idle"]
  /\ UNCHANGED <<ctx, kernel, bos, want, mapped, zero>>

LEMMA FreedFacts ==
  ASSUME PoolAssumption, BaseAssumption, NEW t \in Threads, NEW b, NEW m, NEW h, NEW i, NEW r, NEW first,
         Freed(t, b, m, h, i, r, first)
  PROVE  /\ PoolTypes /\ BufferInv /\ DOMAIN mine = Threads /\ b \in mine[t] /\ b \in Buffers
         /\ PoolChain(bo_list, m, h) /\ GrownInv(m) /\ h \in kernel
         /\ zero = 0 => Solid(bo_list) /\ BusyParts(bo_list) = {Part(c) : c \in Buffers} /\ b \in Sure
         /\ bo_list[1].handle = h
         /\ zero = 1 => \A c \in Sure : c.handle # h
         /\ zero \in {0, 1}
  <1>1. PoolTypes /\ BufferInv /\ b \in mine[t] /\ GrownInv(m) /\ PoolKept(m, h) /\ corrupt = 0
    BY DEF Freed
  <1>2. DOMAIN mine = Threads /\ b \in Buffers /\ zero \in {0, 1}
    BY <1>1 DEF PoolTypes, Buffers
  <1>3. /\ PoolChain(bo_list, m, h) /\ h \in kernel
        /\ zero = 0 => Solid(bo_list) /\ BusyParts(bo_list) = {Part(c) : c \in Buffers}
    BY <1>1 DEF PoolKept
  <1>4. bo_list[1].handle = h
    BY <1>3, HeadHandle
  <1>5. (zero = 0 => b \in Sure) /\ (zero = 1 => \A c \in Sure : c.handle # h)
    BY <1>2, <1>4 DEF Sure
  <1> QED
    BY <1>1, <1>2, <1>3, <1>4, <1>5

LEMMA FreedInPool ==
  ASSUME PoolAssumption, BaseAssumption, NEW t \in Threads, NEW b, NEW m, NEW h, NEW i \in 2..m, NEW r, NEW first,
         Freed(t, b, m, h, i, r, first)
  PROVE  PoolInv'
  <1>1. /\ PoolTypes /\ BufferInv /\ DOMAIN mine = Threads /\ b \in mine[t] /\ b \in Buffers
        /\ PoolChain(bo_list, m, h) /\ GrownInv(m) /\ h \in kernel
        /\ zero = 0 => Solid(bo_list) /\ BusyParts(bo_list) = {Part(c) : c \in Buffers} /\ b \in Sure
        /\ bo_list[1].handle = h
        /\ zero = 1 => \A c \in Sure : c.handle # h
        /\ zero \in {0, 1}
    BY FreedFacts
  <1>2. /\ r \in Seq(Blocks)
        /\ \E m2 \in 1..Len(r) : PoolChain(r, m2, h) /\ SameGrown(bo_list, m, r, m2)
        /\ Solid(bo_list) => Solid(r) /\ BusyParts(r) = BusyParts(bo_list) \ BusyPart(bo_list[i])
        /\ \A y \in BusyParts(bo_list) : y.handle # h => y \in BusyParts(r)
        /\ first.is_bo = 0
    <2>1. Loose(bo_list, m) = {} /\ ~Dead(bo_list, 1..Highest(bo_list, i) + 1) /\ r = Merge(bo_list, i)
      BY DEF Freed
    <2>2. first = bo_list[Lowest(bo_list, i)]
      BY DEF Freed
    <2>3. /\ r \in Seq(Blocks)
          /\ \E m2 \in 1..Len(r) : PoolChain(r, m2, h) /\ SameGrown(bo_list, m, r, m2)
          /\ Solid(bo_list) => Solid(r) /\ BusyParts(r) = BusyParts(bo_list) \ BusyPart(bo_list[i])
          /\ \A y \in BusyParts(bo_list) : y.handle # h => y \in BusyParts(r)
          /\ bo_list[Lowest(bo_list, i)].is_bo = 0
      BY <1>1, <2>1, PoolMerge
    <2> QED
      BY <2>2, <2>3
  <1>3. PICK m2 \in 1..Len(r) : PoolChain(r, m2, h) /\ SameGrown(bo_list, m, r, m2)
    BY <1>2
  <1>4. bo_list'[1].handle = h
    <2>1. bo_list' = r
      BY DEF Freed
    <2> QED
      BY <1>3, <2>1, HeadHandle
  <1>5. mine' = [mine EXCEPT ![t] = @ \ {b}] /\ zero' = zero /\ bo_list' = r
    BY DEF Freed
  <1>6. ASSUME zero = 0
        PROVE  /\ \A c \in Sure' : Part(c) \in BusyParts(bo_list')
               /\ Solid(r) /\ BusyParts(r) = {Part(c) : c \in Buffers'}
    <2>1. b \in Sure /\ {Part(b)} = BusyPart(bo_list[i])
      BY <1>1, <1>6 DEF Freed
    <2>2. Solid(r) /\ BusyParts(r) = BusyParts(bo_list) \ {Part(b)}
      BY <1>1, <1>2, <1>6, <2>1
    <2>3. /\ \A c \in Sure' : c \in Sure /\ Part(c) # Part(b)
          /\ BusyParts(bo_list) = {Part(c) : c \in Buffers} /\ zero = 0
               => BusyParts(bo_list) \ {Part(b)} = {Part(c) : c \in Buffers'}
      BY <1>1, <1>4, <1>5, <1>6, <2>1, BufferOut
    <2>4. \A c \in Sure' : Part(c) \in BusyParts(bo_list)
      BY <1>1, <2>3 DEF BufferInv
    <2>5. \A c \in Sure' : Part(c) \in BusyParts(bo_list')
      BY <1>5, <2>2, <2>3, <2>4
    <2>6. BusyParts(r) = {Part(c) : c \in Buffers'}
      BY <1>1, <1>6, <2>2, <2>3
    <2> QED
      BY <2>2, <2>5, <2>6
  <1>7. ASSUME zero = 1, NEW c \in Sure' PROVE Part(c) \in BusyParts(bo_list')
    <2>1. Buffers' \subseteq Buffers
      BY <1>1, <1>5 DEF Buffers
    <2>2. c \in Sure
      BY <1>1, <1>4, <1>5, <2>1 DEF Sure
    <2>3. Part(c) \in BusyParts(bo_list) /\ Part(c).handle # h
      BY <1>1, <1>7, <2>2 DEF BufferInv, Part
    <2> QED
      BY <1>2, <1>5, <2>3
  <1>8. BufferInv' /\ DOMAIN mine' = Threads
    <2>1. \A c \in Sure' : Part(c) \in BusyParts(bo_list')
      BY <1>1, <1>6, <1>7
    <2> QED
      BY <1>1, <1>4, <1>5, <2>1, BufferTaken
  <1>9. pc' = pc
    <2>1. pc' = [pc EXCEPT ![t] = IF first.is_bo = 1 THEN "destroy" ELSE "idle"] /\ pc[t] = "idle"
      BY DEF Freed
    <2> QED
      BY <1>1, <1>2, <2>1 DEF PoolTypes
  <1>10. GrownInv(m2)'
    <2>1. /\ PoolKept(m, h) /\ Loose(bo_list, m) = {} /\ (\A u \in Threads : pc[u] = "idle")
          /\ kernel' = kernel /\ bos' = bos /\ mapped' = mapped
      BY DEF Freed
    <2> QED
      BY <1>1, <1>3, <1>5, <1>9, <2>1, GrownKept
  <1>11. PoolKept(m2, h)'
    <2>1. h \in kernel' /\ corrupt' = 0
      BY <1>1 DEF Freed
    <2>2. PoolChain(bo_list', m2, h)
      BY <1>3, <1>5
    <2>3. zero' = 0 => Solid(bo_list') /\ BusyParts(bo_list') = {Part(c) : c \in Buffers'}
      BY <1>5, <1>6
    <2> QED
      BY <1>10, <2>1, <2>2, <2>3 DEF PoolKept
  <1>12. PoolTypes'
    <2>1. curr' \in [Threads -> Nat]
      <3>1. curr' = [curr EXCEPT ![t] = IF first.is_bo = 1 THEN first.paddr ELSE 0]
        BY DEF Freed
      <3> QED
        BY <1>1, <1>2, <3>1 DEF PoolTypes
    <2>2. ctx = 1 /\ corrupt' = 0 /\ UNCHANGED <<ctx, kernel, bos, want, mapped, zero>>
      BY DEF Freed
    <2> QED
      BY <1>1, <1>8, <1>9, <2>1, <2>2 DEF PoolTypes
  <1>13. ctx' = 1 /\ h \in 1..MaxBos
    BY DEF Freed
  <1> QED
    BY <1>3, <1>5, <1>8, <1>11, <1>12, <1>13 DEF PoolInv

LEMMA FreedBehind ==
  ASSUME PoolAssumption, BaseAssumption, SoleGrower, NEW t \in Threads, NEW b \in Sure, NEW m, NEW h,
         NEW i \in m + 1..Len(bo_list), NEW r, NEW first, Freed(t, b, m, h, i, r, first)
  PROVE  PoolInv'
  <1>1. /\ PoolTypes /\ BufferInv /\ DOMAIN mine = Threads /\ b \in mine[t] /\ b \in Buffers
        /\ PoolChain(bo_list, m, h) /\ GrownInv(m) /\ h \in kernel
        /\ zero = 0 => Solid(bo_list) /\ BusyParts(bo_list) = {Part(c) : c \in Buffers} /\ b \in Sure
        /\ bo_list[1].handle = h
        /\ zero \in {0, 1}
    BY FreedFacts
  <1>2. PICK e : e = FreedBlock(bo_list[i])
    OBVIOUS
  <1>3. /\ Lowest(bo_list, i) = i /\ bo_list[i].live = 1 /\ bo_list[i].is_bo = 1
        /\ GrownSet(bo_list, m, i, e, r)
        /\ BusyParts(r) = BusyParts(bo_list) \ BusyPart(bo_list[i])
    <2>1. /\ Loose(bo_list, m) = {} /\ ~Dead(bo_list, 1..Highest(bo_list, i) + 1) /\ r = Merge(bo_list, i)
          /\ bo_list[i].idle = 0
      BY DEF Freed
    <2>2. GrownFreed(bo_list, m, h, i, r, e)
      BY <1>1, <1>2, <2>1 DEF GrownFreed
    <2> QED
      BY <2>2, MergeGrown
  <1>4. /\ bo_list \in Seq(Blocks) /\ Len(bo_list) \in Nat /\ m \in Nat /\ 1 <= m /\ m <= Len(bo_list)
        /\ i \in 1..Len(bo_list) /\ Len(bo_list) > m
    <2>1. bo_list \in Seq(Blocks) /\ Len(bo_list) \in Nat /\ m \in Nat /\ 1 <= m /\ m <= Len(bo_list)
      BY <1>1, PoolHead
    <2> QED
      BY <2>1
  <1>5. /\ bo_list[i] \in Blocks /\ bo_list[i].paddr \in Nat /\ e.idle = 1 /\ e.live = 1
        /\ e.paddr = bo_list[i].paddr /\ e.handle = bo_list[i].handle /\ e.size = bo_list[i].size
    BY <1>2, <1>3, <1>4, PoolFields DEF Blocks, FreedBlock
  <1>6. PoolChain(r, m, h)
    BY <1>1, <1>3, GrownSetKeeps
  <1>7. r \in Seq(Blocks) /\ Len(r) = Len(bo_list) /\ r[i] = e /\ \A k \in 1..Len(bo_list) : k # i => r[k] = bo_list[k]
    BY <1>3 DEF GrownSet
  <1>8. /\ bo_list' = r /\ corrupt' = 0 /\ corrupt = 0 /\ mine' = [mine EXCEPT ![t] = @ \ {b}]
        /\ UNCHANGED <<ctx, kernel, bos, want, mapped, zero>>
        /\ {Part(b)} = BusyPart(bo_list[i]) /\ Loose(bo_list, m) = {}
    BY DEF Freed
  <1>9. pc' = [pc EXCEPT ![t] = "destroy"] /\ curr' = [curr EXCEPT ![t] = e.paddr]
    <2>1. first.is_bo = 1 /\ first.paddr = e.paddr
      BY <1>3, <1>5 DEF Freed
    <2> QED
      BY <2>1 DEF Freed
  <1>10. Grow /\ \A u \in Threads : u = t
    BY <1>1, <1>4, <1>8, OneGrower
  <1>11. Loose(r, m) = {i}
    <2>1. ASSUME NEW k \in m + 1..Len(r), r[k].idle = 1, r[k].live = 1 PROVE k = i
      <3> SUFFICES ASSUME k # i PROVE FALSE
        OBVIOUS
      <3>1. r[k] = bo_list[k] /\ k \in m + 1..Len(bo_list)
        BY <1>4, <1>7
      <3> QED
        BY <1>8, <2>1, <3>1 DEF Loose
    <2>2. i \in m + 1..Len(r) /\ r[i].idle = 1 /\ r[i].live = 1
      BY <1>5, <1>7
    <2> QED
      BY <2>1, <2>2 DEF Loose
  <1>12. Torn => Torn'
    <2> SUFFICES ASSUME Torn PROVE Torn'
      OBVIOUS
    <2>1. \A k \in 1..Len(bo_list) : bo_list[k].live = 0 => r[k] = bo_list[k]
      BY <1>3, <1>7
    <2>2. bo_list' \in Seq(Blocks) /\ Len(bo_list) <= Len(bo_list')
      BY <1>4, <1>7, <1>8
    <2> QED
      BY <1>4, <1>8, <2>1, <2>2, TornStays
  <1>13. GrownInv(m)'
    <2>1. ASSUME NEW k \in 1..Len(r)
          PROVE  /\ r[k].live = 1 => r[k].handle \in kernel /\ (r[k].handle \in mapped \/ Torn')
                 /\ r[k].handle <= bos
      <3>1. r[k].handle = bo_list[k].handle /\ (r[k].live = 1 => bo_list[k].live = 1) /\ k \in 1..Len(bo_list)
        BY <1>3, <1>5, <1>7
      <3> QED
        BY <1>1, <1>12, <3>1 DEF GrownInv
    <2>2. ASSUME NEW u \in Threads PROVE CallInv(u, m)'
      <3>1. u = t /\ pc'[u] = "destroy" /\ curr'[u] = e.paddr
        BY <1>1, <1>9, <1>10 DEF PoolTypes
      <3>2. i \in Loose(r, m) /\ Loose(r, m) = {i} /\ r[i].paddr = curr'[u]
        BY <1>5, <1>7, <1>11, <3>1
      <3> QED
        BY <1>8, <1>10, <3>1, <3>2 DEF CallInv
    <2> QED
      BY <1>8, <1>10, <2>1, <2>2 DEF GrownInv
  <1>14. bo_list'[1].handle = bo_list[1].handle
    BY <1>1, <1>6, <1>8, HeadHandle
  <1>15. /\ \A c \in Sure' : c \in Sure /\ Part(c) # Part(b)
         /\ BusyParts(bo_list) = {Part(c) : c \in Buffers} /\ zero = 0
              => BusyParts(bo_list) \ {Part(b)} = {Part(c) : c \in Buffers'}
    <2>1. \A u, v \in Threads : u = v
      BY <1>10
    <2> QED
      BY <1>1, <1>8, <1>14, <2>1, BufferOut
  <1>16. BusyParts(bo_list') = BusyParts(bo_list) \ {Part(b)}
    BY <1>3, <1>8
  <1>17. BufferInv' /\ DOMAIN mine' = Threads
    <2>1. \A c \in Sure' : Part(c) \in BusyParts(bo_list)
      BY <1>1, <1>15 DEF BufferInv
    <2>2. \A c \in Sure' : Part(c) \in BusyParts(bo_list')
      BY <1>15, <1>16, <2>1
    <2> QED
      BY <1>1, <1>8, <1>14, <2>2, BufferTaken
  <1>18. PoolKept(m, h)'
    <2>1. zero' = 0 => Solid(bo_list') /\ BusyParts(bo_list') = {Part(c) : c \in Buffers'}
      <3> SUFFICES ASSUME zero = 0 PROVE Solid(r) /\ BusyParts(bo_list') = {Part(c) : c \in Buffers'}
        BY <1>8
      <3>1. \A k \in 1..Len(bo_list) : bo_list[k].size >= 1
        BY <1>1 DEF Solid
      <3>2. \A k \in 1..Len(r) : r[k].size >= 1
        BY <1>4, <1>5, <1>7, <3>1
      <3> QED
        BY <1>1, <1>15, <1>16, <3>2 DEF Solid
    <2>2. PoolChain(bo_list', m, h) /\ h \in kernel' /\ corrupt' = 0
      BY <1>1, <1>6, <1>8
    <2> QED
      BY <1>13, <2>1, <2>2 DEF PoolKept
  <1>19. PoolTypes'
    <2>1. curr' \in [Threads -> Nat] /\ pc' \in [Threads -> {"idle", "grow", "take", "destroy"}]
      BY <1>1, <1>5, <1>9 DEF PoolTypes
    <2> QED
      BY <1>1, <1>8, <1>17, <2>1 DEF PoolTypes
  <1>20. m \in 1..Len(r) /\ h \in 1..MaxBos /\ ctx' = 1
    BY <1>7 DEF Freed
  <1> QED
    BY <1>8, <1>17, <1>18, <1>19, <1>20 DEF PoolInv

LEMMA PoolFree ==
  ASSUME PoolAssumption, BaseAssumption, SoleGrower, PoolInv, NEW t \in Threads, NEW b \in mine[t],
         iaic_fast_free_bo(t, b)
  PROVE  PoolInv'
  <1>1. /\ ctx = 1 /\ corrupt = 0 /\ pc[t] = "idle" /\ mine' = [mine EXCEPT ![t] = @ \ {b}]
        /\ UNCHANGED <<ctx, kernel, bos, want, mapped, zero>>
    BY DEF iaic_fast_free_bo
  <1>2. PICK m \in 1..Len(bo_list), h \in 1..MaxBos : PoolKept(m, h)
    BY <1>1 DEF PoolInv
  <1>3. PoolTypes /\ BufferInv /\ DOMAIN mine = Threads /\ b \in Buffers
    BY DEF PoolInv, PoolTypes, Buffers
  <1>4. /\ PoolChain(bo_list, m, h) /\ GrownInv(m) /\ h \in kernel
        /\ zero = 0 => Solid(bo_list) /\ BusyParts(bo_list) = {Part(c) : c \in Buffers}
    BY <1>1, <1>2 DEF PoolKept
  <1>5. (\A u \in Threads : pc[u] = "idle") /\ Loose(bo_list, m) = {}
    BY <1>1, <1>4, NoCall
  <1>6. /\ bo_list \in Seq(Blocks) /\ Len(bo_list) \in Nat /\ m \in Nat /\ 1 <= m /\ m <= Len(bo_list)
        /\ DOMAIN bo_list = 1..Len(bo_list)
    BY <1>4, PoolHead
  <1>7. bo_list[1].handle = h
    BY <1>4, HeadHandle
  <1>8. /\ zero = 0 => b \in Sure
        /\ b \notin Sure => b.handle = h
    BY <1>3, <1>7 DEF Sure
  <1>9. Sure' \subseteq Sure \/ bo_list'[1].handle # h
    <2>1. Buffers' \subseteq Buffers
      BY <1>1, <1>3 DEF Buffers
    <2> QED
      BY <1>1, <1>7, <2>1 DEF Sure
  <1>10. CASE \A k \in DOMAIN bo_list : bo_list[k].paddr # b.paddr
    <2>1. bo_list' = bo_list /\ corrupt' = corrupt /\ pc' = pc /\ curr' = curr
      BY <1>10 DEF iaic_fast_free_bo
    <2>2. zero # 0
      <3> SUFFICES ASSUME zero = 0 PROVE FALSE
        OBVIOUS
      <3>1. PICK k \in 2..Len(bo_list) : bo_list[k].paddr = b.paddr
        BY <1>3, <1>4, <1>8, BufferOf
      <3>2. k \in DOMAIN bo_list
        BY <1>6, <3>1
      <3> QED
        BY <1>10, <3>1, <3>2
    <2>3. BufferInv' /\ DOMAIN mine' = Threads
      <3>1. \A c \in Sure' : Part(c) \in BusyParts(bo_list')
        BY <1>3, <1>7, <1>9, <2>1 DEF BufferInv
      <3> QED
        BY <1>1, <1>3, <2>1, <3>1, BufferTaken
    <2>4. GrownInv(m)'
      BY <1>1, <1>4, <2>1 DEF GrownInv, CallInv, Torn
    <2>5. PoolKept(m, h)'
      BY <1>1, <1>4, <2>1, <2>2, <2>4 DEF PoolKept
    <2>6. PoolTypes'
      BY <1>1, <1>3, <2>1, <2>3 DEF PoolTypes
    <2> QED
      BY <1>1, <1>2, <2>1, <2>3, <2>5, <2>6 DEF PoolInv
  <1>11. ASSUME ~(\A k \in DOMAIN bo_list : bo_list[k].paddr # b.paddr) PROVE PoolInv'
    <2>1. PICK i : i = CHOOSE k \in DOMAIN bo_list : /\ bo_list[k].paddr = b.paddr
                                                     /\ \A j \in 1..k - 1 : bo_list[j].paddr # b.paddr
      OBVIOUS
    <2>2. Finds(bo_list, b.paddr, i)
      BY <1>6, <1>11, <2>1, FreeFirst
    <2>3. i \in 1..Len(bo_list)
      BY <2>2 DEF Finds
    <2>4. b \in Sure => /\ i \in 2..Len(bo_list) /\ bo_list[i].idle = 0 /\ {Part(b)} = BusyPart(bo_list[i])
                        /\ zero = 0 \/ i > m
      BY <1>3, <1>4, <2>2, FreeFinds
    <2>5. b \notin Sure => i \in 2..m
      BY <1>3, <1>4, <1>8, <2>2, FreeInPool
    <2>6. PICK first : first = bo_list[Lowest(bo_list, i)]
      OBVIOUS
    <2>7. IF Dead(bo_list, 1..Highest(bo_list, i) + 1)
          THEN corrupt' = 1 /\ UNCHANGED <<bo_list, pc, curr>>
          ELSE /\ bo_list' = Merge(bo_list, i)
               /\ curr' = [curr EXCEPT ![t] = IF first.is_bo = 1 THEN first.paddr ELSE 0]
               /\ pc' = [pc EXCEPT ![t] = IF first.is_bo = 1 THEN "destroy" ELSE "idle"]
               /\ corrupt' = corrupt
      BY <1>11, <2>1, <2>6 DEF iaic_fast_free_bo, Goto
    <2>8. CASE Dead(bo_list, 1..Highest(bo_list, i) + 1)
      <3>1. corrupt' = 1 /\ bo_list' = bo_list /\ pc' = pc /\ curr' = curr
        BY <2>7, <2>8
      <3>2. Len(bo_list) > m
        BY <1>4, <2>8, DeadBehind
      <3>3. GrownInv(m)'
        BY <1>1, <1>4, <3>1 DEF GrownInv, Torn
      <3>4. PoolKept(m, h)'
        BY <1>1, <1>4, <3>1, <3>2, <3>3 DEF PoolKept
      <3>5. BufferInv' /\ DOMAIN mine' = Threads
        <4>1. \A c \in Sure' : Part(c) \in BusyParts(bo_list')
          BY <1>3, <1>7, <1>9, <3>1 DEF BufferInv
        <4> QED
          BY <1>1, <1>3, <3>1, <4>1, BufferTaken
      <3>6. PoolTypes'
        BY <1>1, <1>3, <3>1, <3>5 DEF PoolTypes
      <3> QED
        BY <1>1, <1>2, <3>1, <3>4, <3>5, <3>6 DEF PoolInv
    <2>9. CASE ~Dead(bo_list, 1..Highest(bo_list, i) + 1)
      <3>1. PICK r : r = Merge(bo_list, i)
        OBVIOUS
      <3>2. /\ bo_list' = r /\ corrupt' = 0
            /\ curr' = [curr EXCEPT ![t] = IF first.is_bo = 1 THEN first.paddr ELSE 0]
            /\ pc' = [pc EXCEPT ![t] = IF first.is_bo = 1 THEN "destroy" ELSE "idle"]
        BY <1>1, <2>7, <2>9, <3>1
      <3>3. CASE i \in 2..m
        BY <1>1, <1>2, <1>3, <1>4, <1>5, <2>4, <2>6, <2>9, <3>1, <3>2, <3>3, FreedInPool DEF Freed
      <3>4. CASE i \in m + 1..Len(bo_list)
        <4>1. ~(i \in 2..m)
          BY <1>6, <3>4
        <4>2. b \in Sure
          BY <2>5, <4>1
        <4> QED
          BY <1>1, <1>2, <1>3, <1>4, <1>5, <2>4, <2>6, <2>9, <3>1, <3>2, <3>4, <4>2, FreedBehind DEF Freed
      <3>5. i \in 2..m \/ i \in m + 1..Len(bo_list)
        BY <1>6, <2>3, <2>4, <2>5
      <3> QED
        BY <3>3, <3>4, <3>5
    <2> QED
      BY <2>8, <2>9
  <1> QED
    BY <1>10, <1>11

LEMMA PoolExhausted ==
  ASSUME PoolAssumption, BaseAssumption, SoleGrower, PoolInv, NEW t \in Threads, NEW size \in Sizes,
         Exhausted(t, size)
  PROVE  PoolInv'
  <1>1. /\ Grow /\ ctx = 1 /\ corrupt = 0 /\ pc[t] = "idle"
        /\ corrupt' = (IF Dead(bo_list, DOMAIN bo_list) THEN 1 ELSE 0)
        /\ want' = [want EXCEPT ![t] = size] /\ pc' = [pc EXCEPT ![t] = "grow"]
        /\ UNCHANGED <<ctx, bo_list, kernel, bos, curr, mine, mapped, zero>>
    BY DEF Exhausted, Goto
  <1>2. PICK m \in 1..Len(bo_list), h \in 1..MaxBos : PoolKept(m, h)
    BY <1>1 DEF PoolInv
  <1>3. PoolTypes /\ BufferInv
    BY DEF PoolInv
  <1>4. /\ PoolChain(bo_list, m, h) /\ GrownInv(m) /\ h \in kernel
        /\ zero = 0 => Solid(bo_list) /\ BusyParts(bo_list) = {Part(c) : c \in Buffers}
    BY <1>1, <1>2 DEF PoolKept
  <1>5. Loose(bo_list, m) = {} /\ \A u \in Threads : u = t
    BY <1>1, <1>4, NoCall DEF SoleGrower
  <1>6. corrupt' = 1 => Len(bo_list) > m
    <2> SUFFICES ASSUME corrupt' = 1 PROVE Len(bo_list) > m
      OBVIOUS
    <2>1. Dead(bo_list, DOMAIN bo_list)
      BY <1>1
    <2> QED
      BY <1>4, <2>1, DeadBehind
  <1>7. GrownInv(m)'
    <2>1. ASSUME NEW u \in Threads PROVE CallInv(u, m)'
      <3>1. pc'[u] = "grow" /\ want'[u] = size
        BY <1>1, <1>3, <1>5 DEF PoolTypes
      <3> QED
        BY <1>1, <1>5, <3>1 DEF CallInv
    <2> QED
      BY <1>1, <1>4, <2>1 DEF GrownInv, Torn
  <1>8. PoolKept(m, h)'
    <2>1. Buffers' = Buffers
      BY <1>1 DEF Buffers
    <2> QED
      BY <1>1, <1>4, <1>6, <1>7, <2>1 DEF PoolKept
  <1>9. PoolTypes'
    <2>1. want' \in [Threads -> Sizes \cup {0}] /\ pc' \in [Threads -> {"idle", "grow", "take", "destroy"}]
      BY <1>1, <1>3 DEF PoolTypes
    <2> QED
      BY <1>1, <1>3, <2>1 DEF PoolTypes
  <1>10. BufferInv'
    BY <1>1, <1>3, BufferSame
  <1> QED
    BY <1>1, <1>2, <1>8, <1>9, <1>10 DEF PoolInv

\* An idle block is appended.
Appended(list, e, r) == list \in Seq(Blocks) /\ e \in Blocks /\ e.idle = 1 /\ r = Append(list, e)

LEMMA BusyAppend ==
  ASSUME NEW list, NEW e, NEW r, Appended(list, e, r)
  PROVE  /\ r \in Seq(Blocks) /\ Len(r) = Len(list) + 1 /\ r[Len(r)] = e
         /\ \A k \in 1..Len(list) : r[k] = list[k]
         /\ BusyParts(r) = BusyParts(list)
  <1>0. list \in Seq(Blocks) /\ e \in Blocks /\ e.idle = 1 /\ r = Append(list, e)
    BY DEF Appended
  <1>1. Len(list) \in Nat
    BY <1>0, LenProperties
  <1>2. /\ r \in Seq(Blocks) /\ Len(r) = Len(list) + 1 /\ r[Len(r)] = e
        /\ \A k \in 1..Len(list) : r[k] = list[k]
    BY <1>0, <1>1, AppendProperties
  <1>3. ASSUME NEW k \in 1..Len(list) PROVE PBs(r)[k] = PBs(list)[k]
    <2>1. k \in 1..Len(r)
      BY <1>1, <1>2
    <2> QED
      BY <1>2, <2>1 DEF PBs
  <1>4. PBs(r)[Len(r)] = {}
    <2>1. Len(r) \in 1..Len(r)
      BY <1>1, <1>2
    <2> QED
      BY <1>0, <1>2, <2>1 DEF PBs, BusyPart
  <1>5. \A k \in 1..Len(r) : k \in 1..Len(list) \/ k = Len(r)
    BY <1>1, <1>2
  <1>6. \A k \in 1..Len(list) : k \in 1..Len(r)
    BY <1>1, <1>2
  <1>7. BusyParts(r) = BusyParts(list)
    BY <1>3, <1>4, <1>5, <1>6 DEF BusyParts, AllBlocks
  <1> QED
    BY <1>2, <1>7

LEMMA PoolCreate ==
  ASSUME PoolAssumption, BaseAssumption, SoleGrower, PoolInv, NEW t \in Threads, create_bo_node(t)
  PROVE  PoolInv'
  <1>1. corrupt = 0 /\ pc[t] = "grow" /\ UNCHANGED <<ctx, curr, mine, zero, corrupt>>
    BY DEF create_bo_node
  <1>2. ctx = 1
    BY <1>1 DEF PoolInv, PoolTypes
  <1>3. PICK m \in 1..Len(bo_list), h \in 1..MaxBos : PoolKept(m, h)
    BY <1>2 DEF PoolInv
  <1>4. PoolTypes /\ BufferInv
    BY DEF PoolInv
  <1>5. /\ PoolChain(bo_list, m, h) /\ GrownInv(m) /\ h \in kernel
        /\ zero = 0 => Solid(bo_list) /\ BusyParts(bo_list) = {Part(c) : c \in Buffers}
    BY <1>1, <1>3 DEF PoolKept
  <1>6. Grow /\ \A u \in Threads : u = t
    BY <1>1, <1>5, OneGrower
  <1>7. Loose(bo_list, m) = {} /\ want[t] \in Sizes
    BY <1>1, <1>5 DEF GrownInv, CallInv
  <1>8. Buffers' = Buffers
    BY <1>1 DEF Buffers
  <1>9. CASE /\ bos < MaxBos /\ want[t] > 0
             /\ bos' = bos + 1 /\ kernel' = kernel \cup {bos + 1} /\ mapped' = mapped \cup {bos + 1}
             /\ bo_list' = Append(bo_list, Block(Base[bos + 1], want[t], 1, bos + 1))
             /\ Goto(t, "take")
             /\ UNCHANGED want
    <2>1. PICK n, e, r : /\ n = bos + 1 /\ e = Block(Base[n], want[t], 1, n) /\ r = Append(bo_list, e)
      OBVIOUS
    <2>2. /\ bos \in Nat /\ n \in 1..MaxBos /\ n \in Nat /\ n > bos /\ h \in 1..bos /\ h # n
          /\ Base[n] \in Nat /\ want[t] \in Nat
      <3>1. bos \in 0..MaxBos /\ h \in 1..bos /\ MaxBos \in Nat
        BY <1>4, <1>5 DEF PoolTypes, PoolAssumption
      <3>2. n \in 1..MaxBos
        BY <1>9, <2>1, <3>1
      <3>3. Base[n] \in Nat
        BY <3>2 DEF BaseAssumption
      <3>4. want[t] \in Nat
        BY <1>7 DEF PoolAssumption
      <3>5. bos \in Nat /\ n = bos + 1
        BY <2>1, <3>1
      <3>6. n \in Nat /\ n > bos /\ h # n
        BY <3>1, <3>5
      <3> QED
        BY <3>1, <3>2, <3>3, <3>4, <3>5, <3>6
    <2>3. /\ e \in Blocks /\ e.paddr = Base[n] /\ e.size = want[t] /\ e.idle = 1 /\ e.is_bo = 1
          /\ e.handle = n /\ e.live = 1
      <3>1. PICK a, w, one : a = Base[n] /\ w = want[t] /\ one = 1
        OBVIOUS
      <3>2. a \in Nat /\ w \in Nat /\ one \in {0, 1} /\ n \in 1..MaxBos
        BY <2>2, <3>1
      <3>3. e = Block(a, w, one, n)
        BY <2>1, <3>1
      <3>4. /\ e \in Blocks /\ e.paddr = a /\ e.size = w /\ e.idle = 1 /\ e.is_bo = one
            /\ e.handle = n /\ e.live = 1
        <4>1. e = [paddr |-> a, size |-> w, idle |-> 1, is_bo |-> one, handle |-> n, live |-> 1]
          BY <3>3 DEF Block
        <4> QED
          BY <3>2, <4>1 DEF Blocks
      <3> QED
        BY <3>1, <3>4
    <2>4. bo_list \in Seq(Blocks) /\ Len(bo_list) \in Nat /\ m \in Nat /\ 1 <= m /\ m <= Len(bo_list)
      BY <1>5, PoolHead
    <2>5. /\ r \in Seq(Blocks) /\ Len(r) = Len(bo_list) + 1 /\ r[Len(r)] = e
          /\ \A k \in 1..Len(bo_list) : r[k] = bo_list[k]
          /\ BusyParts(r) = BusyParts(bo_list)
      <3>1. bo_list \in Seq(Blocks) /\ e \in Blocks /\ e.idle = 1
        BY <2>3, <2>4
      <3>2. r = Append(bo_list, e)
        BY <2>1
      <3> QED
        <4>1. PICK list : list = bo_list
          OBVIOUS
        <4>2. list \in Seq(Blocks) /\ r = Append(list, e)
          BY <3>1, <3>2, <4>1
        <4>3. /\ r \in Seq(Blocks) /\ Len(r) = Len(list) + 1 /\ r[Len(r)] = e
              /\ \A k \in 1..Len(list) : r[k] = list[k]
              /\ BusyParts(r) = BusyParts(list)
          <5>1. Appended(list, e, r)
            BY <3>1, <4>2 DEF Appended
          <5> QED
            BY <5>1, BusyAppend
        <4> QED
          BY <4>1, <4>3
    <2>6. bo_list' = r /\ pc' = [pc EXCEPT ![t] = "take"]
      BY <1>9, <2>1 DEF Goto
    <2>7. ASSUME NEW k \in 1..Len(r)
          PROVE  \/ k = Len(r) /\ r[k] = e
                 \/ k \in 1..Len(bo_list) /\ r[k] = bo_list[k] /\ r[k].handle <= bos /\ r[k].handle # n
      <3>1. k = Len(r) \/ k \in 1..Len(bo_list)
        BY <2>4, <2>5
      <3>2. CASE k \in 1..Len(bo_list)
        <4>1. bo_list[k].handle <= bos /\ bo_list[k].handle \in 1..MaxBos
          BY <1>5, <2>4, <3>2, PoolFields DEF GrownInv
        <4>2. bo_list[k].handle # n
          BY <2>2, <4>1
        <4> QED
          BY <2>5, <3>2, <4>1, <4>2
      <3> QED
        BY <2>5, <3>1, <3>2
    <2>8. PoolChain(r, m, h)
      <3>1. m <= Len(r) /\ \A k \in 1..m : k \in 1..Len(bo_list)
        BY <2>4, <2>5
      <3>2. \A k \in 1..m : r[k] = bo_list[k]
        BY <2>5, <3>1
      <3>3. ASSUME NEW k \in m + 1..Len(r) PROVE GrownBlock(r[k], h)
        <4>1. k \in 1..Len(r) /\ (k \in 1..Len(bo_list) => k \in m + 1..Len(bo_list))
          BY <2>4, <2>5
        <4>2. GrownBlock(e, h)
          <5>1. want[t] \in Sizes \ {0}
            BY <1>7, <1>9, <2>2
          <5> QED
            BY <2>2, <2>3, <5>1 DEF GrownBlock
        <4> QED
          BY <1>5, <2>7, <4>1, <4>2 DEF PoolChain
      <3>4. ASSUME NEW k \in m + 1..Len(r), NEW l \in m + 1..Len(r), r[k].handle = r[l].handle PROVE k = l
        <4>1. /\ k \in 1..Len(r) /\ (k \in 1..Len(bo_list) => k \in m + 1..Len(bo_list))
              /\ l \in 1..Len(r) /\ (l \in 1..Len(bo_list) => l \in m + 1..Len(bo_list))
          BY <2>4, <2>5
        <4>2. \/ k = Len(r) /\ r[k] = e
              \/ k \in 1..Len(bo_list) /\ r[k] = bo_list[k] /\ r[k].handle # n
          BY <2>7, <4>1
        <4>3. \/ l = Len(r) /\ r[l] = e
              \/ l \in 1..Len(bo_list) /\ r[l] = bo_list[l] /\ r[l].handle # n
          BY <2>7, <4>1
        <4>4. CASE k \in 1..Len(bo_list) /\ r[k] = bo_list[k] /\ l \in 1..Len(bo_list) /\ r[l] = bo_list[l]
          BY <1>5, <3>4, <4>1, <4>4 DEF PoolChain
        <4> QED
          BY <2>3, <3>4, <4>2, <4>3, <4>4
      <3> QED
        BY <1>5, <2>5, <3>1, <3>2, <3>3, <3>4, PoolBehind
    <2>9. Loose(r, m) = {Len(r)}
      <3>1. ASSUME NEW k \in m + 1..Len(r), r[k].idle = 1, r[k].live = 1 PROVE k = Len(r)
        <4> SUFFICES ASSUME k # Len(r) PROVE FALSE
          OBVIOUS
        <4>1. k \in m + 1..Len(bo_list)
          <5>1. PICK x, y : x = Len(r) /\ y = Len(bo_list)
            OBVIOUS
          <5>2. x = y + 1 /\ y \in Nat /\ m \in Nat /\ k \in m + 1..x /\ k # x
            BY <2>4, <2>5, <5>1
          <5>3. k \in m + 1..y
            BY <5>2
          <5> QED
            BY <5>1, <5>3
        <4>2. k \in 1..Len(bo_list)
          BY <2>4, <4>1
        <4>3. bo_list[k].idle = 1 /\ bo_list[k].live = 1
          BY <2>5, <3>1, <4>2
        <4> QED
          BY <1>7, <4>1, <4>3 DEF Loose
      <3>2. Len(r) \in m + 1..Len(r)
        BY <2>4, <2>5
      <3> QED
        BY <2>3, <2>5, <3>1, <3>2 DEF Loose
    <2>10. GrownInv(m)'
      <3>0. Torn => Torn'
        <4>1. bo_list \in Seq(Blocks) /\ bo_list' \in Seq(Blocks) /\ Len(bo_list) <= Len(bo_list')
          BY <2>4, <2>5, <2>6
        <4> QED
          BY <2>5, <2>6, <4>1, TornStays
      <3>1. ASSUME NEW k \in 1..Len(r)
            PROVE  /\ r[k].live = 1 => r[k].handle \in kernel' /\ (r[k].handle \in mapped' \/ Torn')
                   /\ r[k].handle <= bos'
        <4>0. n \in kernel' /\ n \in mapped' /\ bos' = n /\ n <= n
          BY <1>9, <2>1, <2>2
        <4>1. CASE r[k] = e
          BY <2>3, <4>0, <4>1
        <4>2. CASE k \in 1..Len(bo_list) /\ r[k] = bo_list[k] /\ r[k].handle <= bos
          <5>1. r[k].handle <= bos'
            <6>1. bo_list[k].handle \in 1..MaxBos
              BY <2>4, <4>2, PoolFields
            <6> QED
              BY <1>9, <2>2, <4>2, <6>1
          <5>2. r[k].live = 1 => r[k].handle \in kernel /\ (r[k].handle \in mapped \/ Torn)
            BY <1>5, <4>2 DEF GrownInv
          <5> QED
            BY <1>9, <3>0, <5>1, <5>2
        <4> QED
          BY <2>7, <4>1, <4>2
      <3>2. ASSUME NEW u \in Threads PROVE CallInv(u, m)'
        <4>1. u = t /\ pc'[u] = "take" /\ want'[u] \in Sizes
          BY <1>4, <1>6, <1>7, <1>9, <2>6 DEF PoolTypes
        <4>2. Loose(r, m) = {Len(r)} /\ r[Len(r)].size = want'[u]
          BY <1>9, <2>3, <2>5, <2>9, <4>1
        <4> QED
          BY <1>6, <2>6, <4>1, <4>2 DEF CallInv
      <3> QED
        BY <1>1, <1>6, <2>6, <3>1, <3>2 DEF GrownInv
    <2>11. PoolKept(m, h)'
      <3>1. PoolChain(bo_list', m, h) /\ h \in kernel'
        BY <1>5, <1>9, <2>6, <2>8
      <3>2. zero' = 0 => Solid(bo_list') /\ BusyParts(bo_list') = {Part(c) : c \in Buffers'}
        <4>1. ASSUME zero = 0, NEW k \in 1..Len(r) PROVE r[k].size >= 1
          <5>1. e.size >= 1
            BY <1>9, <2>2, <2>3
          <5>2. k \in 1..Len(bo_list) => bo_list[k].size >= 1
            BY <1>5, <4>1 DEF Solid
          <5> QED
            BY <2>7, <5>1, <5>2
        <4> QED
          BY <1>1, <1>5, <1>8, <2>5, <2>6, <4>1 DEF Solid
      <3> QED
        BY <1>1, <2>10, <3>1, <3>2 DEF PoolKept
    <2>12. PoolTypes'
      <3>1. bos' \in 0..MaxBos /\ kernel' \subseteq 1..bos'
        <4>1. kernel \subseteq 1..bos /\ MaxBos \in Nat
          BY <1>4 DEF PoolTypes, PoolAssumption
        <4>2. kernel' = kernel \cup {n} /\ bos' = n
          BY <1>9, <2>1, Zenon
        <4>3. 1..bos \subseteq 1..n /\ n \in 1..n /\ n \in 0..MaxBos
          BY <2>2, <4>1
        <4> QED
          BY <4>1, <4>2, <4>3
      <3>2. pc' \in [Threads -> {"idle", "grow", "take", "destroy"}]
        BY <1>4, <2>6 DEF PoolTypes
      <3>3. mapped' \subseteq kernel'
        BY <1>4, <1>9 DEF PoolTypes
      <3> QED
        BY <1>1, <1>4, <1>9, <3>1, <3>2, <3>3 DEF PoolTypes
    <2>13. BufferInv'
      <3>1. bo_list'[1].handle = bo_list[1].handle
        BY <1>5, <2>6, <2>8, HeadHandle
      <3> QED
        BY <1>1, <1>4, <2>5, <2>6, <3>1, BufferSame
    <2>14. m \in 1..Len(r)
      BY <2>4, <2>5
    <2> QED
      BY <1>1, <1>2, <1>3, <2>6, <2>11, <2>12, <2>13, <2>14 DEF PoolInv
  <1>10. CASE /\ Goto(t, "idle") /\ want' = [want EXCEPT ![t] = 0]
              /\ UNCHANGED <<bos, kernel, mapped, bo_list>>
    <2>1. pc' = [pc EXCEPT ![t] = "idle"]
      BY <1>10 DEF Goto
    <2>2. GrownInv(m)'
      <3>1. ASSUME NEW u \in Threads PROVE CallInv(u, m)'
        <4>1. pc'[u] = "idle"
          BY <1>4, <1>6, <2>1 DEF PoolTypes
        <4> QED
          BY <1>7, <1>10, <4>1 DEF CallInv
      <3> QED
        BY <1>5, <1>10, <3>1 DEF GrownInv, Torn
    <2>3. PoolKept(m, h)'
      BY <1>1, <1>5, <1>8, <1>10, <2>2 DEF PoolKept
    <2>4. PoolTypes'
      <3>1. want' \in [Threads -> Sizes \cup {0}] /\ pc' \in [Threads -> {"idle", "grow", "take", "destroy"}]
        BY <1>4, <1>10, <2>1 DEF PoolTypes
      <3> QED
        BY <1>1, <1>4, <1>10, <3>1 DEF PoolTypes
    <2>5. BufferInv'
      BY <1>1, <1>4, <1>10, BufferSame
    <2> QED
      BY <1>1, <1>2, <1>3, <1>10, <2>3, <2>4, <2>5 DEF PoolInv
  <1> QED
    BY <1>9, <1>10 DEF create_bo_node

\* A block behind the pool is marked.
Marked(list, m, h, i, e, r) ==
  /\ PoolChain(list, m, h) /\ i \in m + 1..Len(list) /\ list[i].idle = 1
  /\ e \in Blocks /\ e.paddr = list[i].paddr /\ e.size = list[i].size /\ e.is_bo = list[i].is_bo
  /\ e.handle = list[i].handle /\ (e.live = 0 => e.idle = 1)
  /\ r = [list EXCEPT ![i] = e]

LEMMA MarkedIs ==
  ASSUME PoolAssumption, BaseAssumption, NEW list, NEW m, NEW h, NEW i, NEW e, NEW r, Marked(list, m, h, i, e, r)
  PROVE  /\ PoolChain(r, m, h) /\ Len(r) = Len(list) /\ i \in 2..Len(list) /\ m \in 1..Len(r)
         /\ r[i] = e /\ \A k \in 1..Len(list) : k # i => r[k] = list[k]
         /\ BusyParts(r) = BusyParts(list) \cup BusyPart(e)
         /\ Solid(list) => Solid(r)
  <1>1. /\ PoolChain(list, m, h) /\ i \in m + 1..Len(list) /\ list[i].idle = 1 /\ e \in Blocks
        /\ r = [list EXCEPT ![i] = e]
    BY DEF Marked
  <1>2. list \in Seq(Blocks) /\ Len(list) \in Nat /\ m \in Nat /\ 1 <= m /\ m <= Len(list)
    BY <1>1, PoolHead
  <1>3. i \in 1..Len(list) /\ i \in 2..Len(list)
    BY <1>1, <1>2
  <1>4. PICK others : others = <<e>>
    OBVIOUS
  <1>5. r \in Seq(Blocks) /\ IsReplaced(list, i, i, 1, others, r)
    BY <1>1, <1>2, <1>3, <1>4, ReplacedOne
  <1>6. others[1] = e
    BY <1>4
  <1>7. Len(r) = Len(list) /\ r[i] = e /\ \A k \in 1..Len(list) : k # i => r[k] = list[k]
    <2>1. Len(list) \in Nat /\ i \in 1..Len(list)
      BY <1>2, <1>3
    <2>2. IsReplaced(list, i, i, 1, others, r)
      BY <1>5
    <2>3. Len(r) = Len(list) /\ r[i] = others[1] /\ \A k \in 1..Len(list) : k # i => r[k] = list[k]
      BY <2>1, <2>2, ReplacedSame
    <2> QED
      BY <1>6, <2>3
  <1>8. GrownSet(list, m, i, e, r)
    BY <1>5, <1>7 DEF Marked, GrownSet
  <1>9. PoolChain(r, m, h)
    BY <1>1, <1>8, GrownSetKeeps
  <1>10. BusyParts(r) = BusyParts(list) \cup BusyPart(e)
    <2>1. PICK one : one = 1
      OBVIOUS
    <2>2. one \in {1, 2} /\ (one = 2 => others[2].idle = 1) /\ IsReplaced(list, i, i, one, others, r)
      BY <1>5, <2>1
    <2>3. BusyParts(r) = BusyParts(list) \cup BusyPart(others[1])
      BY <1>1, <1>2, <1>3, <2>2, PartsAdd
    <2> QED
      BY <1>6, <2>3
  <1>11. m \in 1..Len(r)
    BY <1>2, <1>7
  <1>12. Solid(list) => Solid(r)
    <2>1. \A k \in 1..Len(list) : r[k].size = list[k].size
      BY <1>7 DEF Marked
    <2> QED
      BY <1>7, <2>1 DEF Solid
  <1> QED
    BY <1>3, <1>7, <1>9, <1>10, <1>11, <1>12

LEMMA PoolTake ==
  ASSUME PoolAssumption, BaseAssumption, SoleGrower, PoolInv, NEW t \in Threads, TakeLast(t)
  PROVE  PoolInv'
  <1>1. corrupt = 0 /\ pc[t] = "take" /\ UNCHANGED <<ctx, kernel, bos, curr, mapped, zero>>
    BY DEF TakeLast
  <1>2. ctx = 1
    BY <1>1 DEF PoolInv, PoolTypes
  <1>3. PICK m \in 1..Len(bo_list), h \in 1..MaxBos : PoolKept(m, h)
    BY <1>2 DEF PoolInv
  <1>4. PoolTypes /\ BufferInv /\ DOMAIN mine = Threads
    BY DEF PoolInv, PoolTypes
  <1>5. /\ PoolChain(bo_list, m, h) /\ GrownInv(m) /\ h \in kernel
        /\ zero = 0 => Solid(bo_list) /\ BusyParts(bo_list) = {Part(c) : c \in Buffers}
    BY <1>1, <1>3 DEF PoolKept
  <1>6. Grow /\ \A u \in Threads : u = t
    BY <1>1, <1>5, OneGrower
  <1>7. PICK n, s : n = Len(bo_list) /\ s = want[t]
    OBVIOUS
  <1>8. Loose(bo_list, m) = {n} /\ s \in Sizes /\ bo_list[n].size = s
    BY <1>1, <1>5, <1>7 DEF GrownInv, CallInv
  <1>9. n \in m + 1..Len(bo_list) /\ bo_list[n].idle = 1 /\ bo_list[n].live = 1
    <2>1. n \in Loose(bo_list, m)
      BY <1>8
    <2> QED
      BY <2>1 DEF Loose
  <1>10. bo_list \in Seq(Blocks) /\ Len(bo_list) \in Nat /\ m \in Nat /\ 1 <= m /\ n \in 1..Len(bo_list)
    <2>1. bo_list \in Seq(Blocks) /\ Len(bo_list) \in Nat /\ m \in Nat /\ 1 <= m /\ m <= Len(bo_list)
      BY <1>5, PoolHead
    <2> QED
      BY <1>9, <2>1
  <1>11. bo_list[n] \in Blocks
    BY <1>10, PoolFields
  <1>12. PICK e : e = [bo_list[n] EXCEPT !.idle = 0]
    OBVIOUS
  <1>13. /\ e \in Blocks /\ e.idle = 0 /\ e.live = 1 /\ e.paddr = bo_list[n].paddr /\ e.size = bo_list[n].size
         /\ e.is_bo = bo_list[n].is_bo /\ e.handle = bo_list[n].handle
    BY <1>9, <1>11, <1>12 DEF Blocks
  <1>14. PICK r : r = [bo_list EXCEPT ![n] = e]
    OBVIOUS
  <1>15. /\ bo_list' = r /\ Give(t, bo_list[n], s) /\ corrupt' = 0
         /\ pc' = [pc EXCEPT ![t] = "idle"] /\ want' = [want EXCEPT ![t] = 0]
    <2>1. bo_list[n].live # 0
      BY <1>9
    <2>2. bo_list' = [bo_list EXCEPT ![n].idle = 0] /\ Give(t, bo_list[n], s) /\ corrupt' = corrupt
      BY <1>7, <2>1 DEF TakeLast
    <2>3. r = [bo_list EXCEPT ![n].idle = 0]
      BY <1>12, <1>14
    <2>4. pc' = [pc EXCEPT ![t] = "idle"] /\ want' = [want EXCEPT ![t] = 0]
      BY DEF TakeLast, Goto
    <2> QED
      BY <1>1, <2>2, <2>3, <2>4
  <1>16. Marked(bo_list, m, h, n, e, r)
    BY <1>5, <1>9, <1>13, <1>14 DEF Marked
  <1>17. /\ PoolChain(r, m, h) /\ Len(r) = Len(bo_list) /\ n \in 2..Len(bo_list) /\ m \in 1..Len(r)
         /\ r[n] = e /\ \A k \in 1..Len(bo_list) : k # n => r[k] = bo_list[k]
         /\ BusyParts(r) = BusyParts(bo_list) \cup BusyPart(e)
         /\ Solid(bo_list) => Solid(r)
    BY <1>16, MarkedIs
  <1>18. PICK b : b = [paddr |-> bo_list[n].paddr, size |-> s, esize |-> bo_list[n].size, handle |-> bo_list[n].handle]
    OBVIOUS
  <1>19. b.paddr = bo_list[n].paddr /\ b.size = s /\ b.esize = s /\ {Part(b)} = BusyPart(e)
    BY <1>8, <1>13, <1>18 DEF Part, BusyPart
  <1>20. ASSUME NEW c \in Sure PROVE c.paddr # b.paddr
    <2>1. PICK k \in 2..Len(bo_list) : bo_list[k].idle = 0 /\ bo_list[k].paddr = c.paddr
      BY <1>4, <1>5, BufferOf
    <2>2. k # n /\ k \in 1..Len(bo_list)
      BY <1>9, <2>1
    <2>3. bo_list[k].paddr # bo_list[n].paddr
      <3>1. n > m
        BY <1>9, <1>10
      <3> QED
        BY <1>5, <1>10, <2>2, <3>1, PoolApart
    <2> QED
      BY <1>19, <2>1, <2>3
  <1>21. /\ BufferInv' /\ DOMAIN mine' = Threads
         /\ zero = 0 => BusyParts(bo_list') = {Part(c) : c \in Buffers'}
    <2>1. BusyParts(bo_list') = BusyParts(bo_list) \cup {Part(b)}
      BY <1>15, <1>17, <1>19
    <2>2. mine' = [mine EXCEPT ![t] = @ \cup {b}]
      BY <1>15, <1>18 DEF Give
    <2>3. Sized(b, bo_list[1].handle) /\ bo_list'[1].handle = bo_list[1].handle
      <3>1. s \in Nat
        BY <1>8 DEF PoolAssumption
      <3>2. b.handle # h
        BY <1>5, <1>9, <1>18, PoolHead
      <3>3. bo_list[1].handle = h /\ bo_list'[1].handle = h
        BY <1>5, <1>15, <1>17, HeadHandle
      <3>4. b.paddr \in Nat
        BY <1>10, <1>19, PoolFields
      <3> QED
        BY <1>8, <1>19, <3>1, <3>2, <3>3, <3>4 DEF Sized
    <2>4. BufferInv /\ DOMAIN mine = Threads
      BY <1>4
    <2>5. /\ BufferInv' /\ DOMAIN mine' = Threads
          /\ BusyParts(bo_list) = {Part(c) : c \in Buffers} => BusyParts(bo_list') = {Part(c) : c \in Buffers'}
      <3>1. IsGiven(t, b)
        BY <1>1, <1>20, <2>1, <2>2, <2>3, <2>4 DEF IsGiven
      <3> QED
        BY <3>1, BufferGiven
    <2> QED
      BY <1>5, <2>5
  <1>22. Loose(r, m) = {}
    <2> SUFFICES ASSUME NEW k \in Loose(r, m) PROVE FALSE
      OBVIOUS
    <2>1. k \in m + 1..Len(r) /\ r[k].idle = 1 /\ r[k].live = 1
      BY DEF Loose
    <2>2. k # n /\ k \in 1..Len(bo_list) /\ k \in m + 1..Len(bo_list)
      BY <1>10, <1>13, <1>17, <2>1
    <2>3. r[k] = bo_list[k]
      BY <1>17, <2>2
    <2>4. k \in Loose(bo_list, m)
      BY <2>1, <2>2, <2>3 DEF Loose
    <2> QED
      BY <1>8, <2>2, <2>4
  <1>23. GrownInv(m)'
    <2>0. Torn => Torn'
      <3>1. bo_list' \in Seq(Blocks) /\ Len(bo_list) <= Len(bo_list')
        BY <1>10, <1>15, <1>17, PoolHead
      <3>2. \A k \in 1..Len(bo_list) : bo_list[k].live = 0 => bo_list'[k] = bo_list[k]
        BY <1>9, <1>15, <1>17, SMTT(30)
      <3> QED
        BY <1>10, <3>1, <3>2, TornStays
    <2>1. ASSUME NEW k \in 1..Len(r)
          PROVE  /\ r[k].live = 1 => r[k].handle \in kernel /\ (r[k].handle \in mapped \/ Torn)
                 /\ r[k].handle <= bos
      <3>1. r[k].handle = bo_list[k].handle /\ r[k].live = bo_list[k].live /\ k \in 1..Len(bo_list)
        BY <1>9, <1>13, <1>17
      <3> QED
        BY <1>5, <3>1 DEF GrownInv
    <2>2. ASSUME NEW u \in Threads PROVE CallInv(u, m)'
      <3>1. pc'[u] = "idle"
        BY <1>4, <1>6, <1>15 DEF PoolTypes
      <3> QED
        BY <1>15, <1>22, <3>1 DEF CallInv
    <2> QED
      BY <1>1, <1>6, <1>15, <2>0, <2>1, <2>2 DEF GrownInv
  <1>24. PoolKept(m, h)'
    <2>1. PoolChain(bo_list', m, h) /\ h \in kernel' /\ corrupt' = 0
      BY <1>1, <1>5, <1>15, <1>17
    <2>2. zero' = 0 => Solid(bo_list') /\ BusyParts(bo_list') = {Part(c) : c \in Buffers'}
      BY <1>1, <1>5, <1>15, <1>17, <1>21
    <2> QED
      BY <1>23, <2>1, <2>2 DEF PoolKept
  <1>25. PoolTypes'
    <2>1. want' \in [Threads -> Sizes \cup {0}] /\ pc' \in [Threads -> {"idle", "grow", "take", "destroy"}]
      BY <1>4, <1>15 DEF PoolTypes
    <2> QED
      BY <1>1, <1>4, <1>15, <1>21, <2>1 DEF PoolTypes
  <1> QED
    BY <1>1, <1>2, <1>3, <1>15, <1>17, <1>21, <1>24, <1>25 DEF PoolInv

LEMMA PoolDestroy ==
  ASSUME PoolAssumption, BaseAssumption, SoleGrower, PoolInv, NEW t \in Threads, DestroyBo(t)
  PROVE  PoolInv'
  <1>1. corrupt = 0 /\ pc[t] = "destroy" /\ UNCHANGED <<ctx, bos, want, mine, zero>>
    BY DEF DestroyBo
  <1>2. ctx = 1
    BY <1>1 DEF PoolInv, PoolTypes
  <1>3. PICK m \in 1..Len(bo_list), h \in 1..MaxBos : PoolKept(m, h)
    BY <1>2 DEF PoolInv
  <1>4. PoolTypes /\ BufferInv /\ DOMAIN mine = Threads
    BY DEF PoolInv, PoolTypes
  <1>5. /\ PoolChain(bo_list, m, h) /\ GrownInv(m) /\ h \in kernel
        /\ zero = 0 => Solid(bo_list) /\ BusyParts(bo_list) = {Part(c) : c \in Buffers}
    BY <1>1, <1>3 DEF PoolKept
  <1>6. Grow /\ \A u \in Threads : u = t
    BY <1>1, <1>5, OneGrower
  <1>7. PICK d \in Loose(bo_list, m) : Loose(bo_list, m) = {d} /\ bo_list[d].paddr = curr[t]
    BY <1>1, <1>5 DEF GrownInv, CallInv
  <1>8. d \in m + 1..Len(bo_list) /\ bo_list[d].idle = 1 /\ bo_list[d].live = 1
    BY DEF Loose
  <1>9. /\ bo_list \in Seq(Blocks) /\ Len(bo_list) \in Nat /\ m \in Nat /\ 1 <= m /\ d \in 1..Len(bo_list)
        /\ DOMAIN bo_list = 1..Len(bo_list)
    <2>1. /\ bo_list \in Seq(Blocks) /\ Len(bo_list) \in Nat /\ m \in Nat /\ 1 <= m /\ m <= Len(bo_list)
          /\ DOMAIN bo_list = 1..Len(bo_list)
      BY <1>5, PoolHead
    <2> QED
      BY <1>8, <2>1
  <1>10. PICK I : I = {i \in DOMAIN bo_list : bo_list[i].paddr = curr[t] /\ bo_list[i].live = 1}
    OBVIOUS
  <1>11. I = {d}
    <2>1. ASSUME NEW k \in 1..Len(bo_list), k # d PROVE bo_list[k].paddr # bo_list[d].paddr
      <3>1. d > m
        BY <1>8, <1>9
      <3> QED
        BY <1>5, <1>9, <2>1, <3>1, PoolApart
    <2> QED
      BY <1>7, <1>8, <1>9, <1>10, <2>1
  <1>12. bo_list[d] \in Blocks /\ bo_list[d].handle # h
    BY <1>5, <1>8, <1>9, PoolFields, PoolHead, SMTT(30)
  <1>13. PICK e : e = [bo_list[d] EXCEPT !.live = 0]
    OBVIOUS
  <1>14. /\ e \in Blocks /\ e.idle = 1 /\ e.live = 0 /\ e.paddr = bo_list[d].paddr /\ e.size = bo_list[d].size
         /\ e.is_bo = bo_list[d].is_bo /\ e.handle = bo_list[d].handle
    BY <1>8, <1>12, <1>13 DEF Blocks
  <1>15. PICK r : r = [bo_list EXCEPT ![d] = e]
    OBVIOUS
  <1>16. /\ bo_list' = r /\ kernel' = kernel \ {bo_list[d].handle} /\ corrupt' = 0
         /\ pc' = [pc EXCEPT ![t] = "idle"] /\ curr' = [curr EXCEPT ![t] = 0]
         /\ \E hit \in SUBSET mapped : /\ bo_list[d].size >= PoolSize => hit = {}
                                       /\ mapped' = mapped \ (hit \cup {bo_list[d].handle})
    <2>1. PICK j : j = CHOOSE k \in I : TRUE
      OBVIOUS
    <2>2. j = d /\ I # {}
      BY <1>11, <2>1
    <2>3. /\ kernel' = kernel \ {bo_list[j].handle} /\ bo_list' = [bo_list EXCEPT ![j].live = 0] /\ corrupt' = corrupt
          /\ \E hit \in SUBSET mapped : /\ bo_list[j].size >= PoolSize => hit = {}
                                        /\ mapped' = mapped \ (hit \cup {bo_list[j].handle})
      BY <1>10, <2>1, <2>2 DEF DestroyBo
    <2>4. r = [bo_list EXCEPT ![d].live = 0]
      BY <1>13, <1>15
    <2>5. pc' = [pc EXCEPT ![t] = "idle"] /\ curr' = [curr EXCEPT ![t] = 0]
      BY DEF DestroyBo, Goto
    <2> QED
      BY <1>1, <2>2, <2>3, <2>4, <2>5
  <1>17. Marked(bo_list, m, h, d, e, r)
    BY <1>5, <1>8, <1>14, <1>15 DEF Marked
  <1>18. /\ PoolChain(r, m, h) /\ Len(r) = Len(bo_list) /\ d \in 2..Len(bo_list) /\ m \in 1..Len(r)
         /\ r[d] = e /\ \A k \in 1..Len(bo_list) : k # d => r[k] = bo_list[k]
         /\ BusyParts(r) = BusyParts(bo_list) \cup BusyPart(e)
         /\ Solid(bo_list) => Solid(r)
    BY <1>17, MarkedIs
  <1>19. BusyParts(r) = BusyParts(bo_list)
    <2>1. BusyPart(e) = {}
      BY <1>14 DEF BusyPart
    <2> QED
      BY <1>18, <2>1
  <1>20. Buffers' = Buffers
    BY <1>1 DEF Buffers
  <1>21. Loose(r, m) = {}
    <2> SUFFICES ASSUME NEW k \in Loose(r, m) PROVE FALSE
      OBVIOUS
    <2>1. k \in m + 1..Len(r) /\ r[k].idle = 1 /\ r[k].live = 1
      BY DEF Loose
    <2>2. k # d /\ k \in 1..Len(bo_list) /\ k \in m + 1..Len(bo_list)
      BY <1>9, <1>14, <1>18, <2>1
    <2>3. r[k] = bo_list[k]
      BY <1>18, <2>2
    <2>4. k \in Loose(bo_list, m)
      BY <2>1, <2>2, <2>3 DEF Loose
    <2> QED
      BY <1>7, <2>2, <2>4
  <1>22. GrownInv(m)'
    <2>0. Torn \/ bo_list[d].size < PoolSize => Torn'
      <3>1. bo_list' \in Seq(Blocks) /\ Len(bo_list) <= Len(bo_list') /\ Len(bo_list') = Len(bo_list)
        BY <1>9, <1>16, <1>18, PoolHead
      <3>2. Torn => Torn'
        <4>1. \A k \in 1..Len(bo_list) : bo_list[k].live = 0 => bo_list'[k] = bo_list[k]
          BY <1>8, <1>16, <1>18, SMTT(30)
        <4> QED
          BY <1>9, <3>1, <4>1, TornStays
      <3>3. bo_list[d].size < PoolSize => Torn'
        <4>1. d \in DOMAIN bo_list'
          BY <1>9, <3>1, LenProperties
        <4>2. bo_list'[d].live = 0 /\ bo_list'[d].size = bo_list[d].size
          BY <1>14, <1>16, <1>18
        <4> QED
          BY <4>1, <4>2 DEF Torn
      <3> QED
        BY <3>2, <3>3
    <2>1. ASSUME NEW k \in 1..Len(r)
          PROVE  /\ r[k].live = 1 => r[k].handle \in kernel' /\ (r[k].handle \in mapped' \/ Torn')
                 /\ r[k].handle <= bos
      <3>1. r[k].handle = bo_list[k].handle /\ k \in 1..Len(bo_list)
        BY <1>14, <1>18
      <3>2. ASSUME r[k].live = 1 PROVE r[k].handle \in kernel' /\ (r[k].handle \in mapped' \/ Torn')
        <4>1. k # d /\ r[k] = bo_list[k]
          BY <1>14, <1>18, <3>1, <3>2
        <4>2. bo_list[k].handle \in kernel /\ (bo_list[k].handle \in mapped \/ Torn)
          BY <1>5, <3>1, <3>2, <4>1 DEF GrownInv
        <4>3. bo_list[k].handle # bo_list[d].handle
          <5>1. k \in 1..m \/ k \in m + 1..Len(bo_list)
            BY <1>9, <3>1
          <5>2. CASE k \in 1..m
            BY <1>5, <1>12, <5>2, PoolExtent
          <5>3. CASE k \in m + 1..Len(bo_list)
            BY <1>5, <1>8, <4>1, <5>3 DEF PoolChain
          <5> QED
            BY <5>1, <5>2, <5>3
        <4>4. bo_list[d].size >= PoolSize \/ bo_list[d].size < PoolSize
          <5>1. bo_list[d].size \in Nat /\ PoolSize \in Nat
            BY <1>9, PoolFields DEF PoolAssumption
          <5> QED
            BY <5>1
        <4>5. bo_list[k].handle \in mapped' \/ Torn'
          BY <1>16, <2>0, <4>2, <4>3, <4>4
        <4> QED
          BY <1>16, <4>1, <4>2, <4>3, <4>5
      <3> QED
        BY <1>5, <3>1, <3>2 DEF GrownInv
    <2>2. ASSUME NEW u \in Threads PROVE CallInv(u, m)'
      <3>1. pc'[u] = "idle"
        BY <1>4, <1>6, <1>16 DEF PoolTypes
      <3> QED
        BY <1>16, <1>21, <3>1 DEF CallInv
    <2> QED
      BY <1>1, <1>6, <1>16, <2>1, <2>2 DEF GrownInv
  <1>23. h \in kernel'
    BY <1>5, <1>12, <1>16
  <1>24. PoolKept(m, h)'
    <2>1. PoolChain(bo_list', m, h)
      BY <1>16, <1>18
    <2>2. zero' = 0 => Solid(bo_list') /\ BusyParts(bo_list') = {Part(c) : c \in Buffers'}
      BY <1>1, <1>5, <1>16, <1>18, <1>19, <1>20
    <2> QED
      BY <1>16, <1>22, <1>23, <2>1, <2>2 DEF PoolKept
  <1>25. PoolTypes'
    <2>1. curr' \in [Threads -> Nat] /\ pc' \in [Threads -> {"idle", "grow", "take", "destroy"}]
      BY <1>4, <1>16 DEF PoolTypes
    <2>2. kernel' \subseteq 1..bos /\ mapped' \subseteq kernel'
      BY <1>4, <1>16 DEF PoolTypes
    <2> QED
      BY <1>1, <1>4, <1>16, <2>1, <2>2 DEF PoolTypes
  <1>26. BufferInv'
    <2>1. bo_list'[1].handle = bo_list[1].handle
      BY <1>5, <1>16, <1>18, HeadHandle
    <2> QED
      BY <1>1, <1>4, <1>16, <1>19, <2>1, BufferSame
  <1> QED
    BY <1>1, <1>2, <1>3, <1>16, <1>18, <1>24, <1>25, <1>26 DEF PoolInv

\* The pool of a new context.
IsNew(h, n, c, r) ==
  /\ c \in {1, 2} /\ r \in Seq(Blocks) /\ Len(r) = c /\ r[1] = SharedBlock(h)
  /\ n = align(SharedSize) /\ n \in Nat /\ n >= 1 /\ n <= PoolSize
  /\ c = 1 => PoolSize - n < MinRemain
  /\ c = 2 => /\ ~(PoolSize - n < MinRemain)
              /\ r[2] = Block(Base[h] + n, PoolSize - n, 0, h)

LEMMA NewIs ==
  ASSUME PoolAssumption, BaseAssumption, NEW h \in 1..MaxBos
  PROVE  \E n, c : IsNew(h, n, c, NewContext(h))
  <1>1. /\ SharedSize \in Nat \ {0} /\ PoolSize \in Nat /\ Granule \in Nat \ {0} /\ MinRemain \in Nat \ {0}
        /\ SharedSize + Granule <= PoolSize /\ Base[h] \in Nat
    BY DEF PoolAssumption, BaseAssumption
  <1>2. PICK b, n, l, others, r : /\ b = Block(Base[h], PoolSize, 1, h) /\ n = align(SharedSize) /\ l = <<b>>
                                  /\ others = CutInto(b, n) /\ r = NewContext(h)
    OBVIOUS
  <1>3. b = [paddr |-> Base[h], size |-> PoolSize, idle |-> 1, is_bo |-> 1, handle |-> h, live |-> 1]
    BY <1>2 DEF Block
  <1>4. b \in Blocks /\ b.paddr = Base[h] /\ b.size = PoolSize /\ b.is_bo = 1 /\ b.handle = h /\ b.live = 1
    BY <1>1, <1>3 DEF Blocks
  <1>5. n \in Nat /\ n >= 1 /\ n <= PoolSize
    <2>1. n \in Nat /\ n >= SharedSize /\ n < SharedSize + Granule
      BY <1>1, <1>2, AlignUp
    <2> QED
      BY <1>1, <2>1
  <1>6. l \in Seq(Blocks) /\ Len(l) = 1 /\ l[1] = b
    BY <1>2, <1>4
  <1>7. r = Replaced(l, 1, 1, others)
    <2>1. r = Cut(l, 1, SharedSize)
      BY <1>2 DEF NewContext
    <2>2. Cut(l, 1, SharedSize) = Replaced(l, 1, 1, CutInto(l[1], align(SharedSize)))
      BY <1>6, CutIs
    <2> QED
      BY <1>2, <1>6, <2>1, <2>2
  <1>8. r = others
    <2>1. SubSeq(l, 1, 0) = << >> /\ SubSeq(l, 2, 1) = << >>
      BY <1>6, EmptySeq
    <2>2. others \in Seq(Blocks)
      <3>1. PICK c : IsCut(b, n, c, others)
        BY <1>2, <1>4, <1>5, CutPieces
      <3> QED
        BY <3>1 DEF IsCut
    <2>3. 1 - 1 = 0 /\ 1 + 1 = 2
      OBVIOUS
    <2>4. r = (SubSeq(l, 1, 0) \o others) \o SubSeq(l, 2, 1)
      BY <1>6, <1>7, <2>3 DEF Replaced
    <2> QED
      BY <2>1, <2>2, <2>4
  <1>9. CASE PoolSize - n < MinRemain
    <2>1. PICK x : x = [b EXCEPT !.idle = 0]
      OBVIOUS
    <2>2. r = <<x>>
      BY <1>2, <1>4, <1>8, <1>9, <2>1 DEF CutInto
    <2>3. x = SharedBlock(h) /\ x \in Blocks
      <3>1. x = [paddr |-> Base[h], size |-> PoolSize, idle |-> 0, is_bo |-> 1, handle |-> h, live |-> 1]
        BY <1>3, <2>1
      <3>2. SharedBlock(h) = [paddr |-> Base[h], size |-> PoolSize, idle |-> 0, is_bo |-> 1, handle |-> h, live |-> 1]
        BY <1>2, <1>9 DEF SharedBlock
      <3> QED
        BY <3>1, <3>2, SharedIs
    <2>4. r \in Seq(Blocks) /\ Len(r) = 1 /\ r[1] = x
      BY <2>2, <2>3
    <2>5. IsNew(h, n, 1, r)
      BY <1>2, <1>5, <1>9, <2>3, <2>4 DEF IsNew
    <2> QED
      BY <1>2, <2>5
  <1>10. CASE ~(PoolSize - n < MinRemain)
    <2>1. PICK x, y : x = [b EXCEPT !.idle = 0, !.size = n] /\ y = Block(Base[h] + n, PoolSize - n, 0, h)
      OBVIOUS
    <2>2. r = <<x, y>>
      BY <1>2, <1>4, <1>8, <1>10, <2>1 DEF CutInto
    <2>3. x = SharedBlock(h) /\ x \in Blocks
      <3>1. x = [paddr |-> Base[h], size |-> n, idle |-> 0, is_bo |-> 1, handle |-> h, live |-> 1]
        BY <1>3, <2>1
      <3>2. SharedBlock(h) = [paddr |-> Base[h], size |-> n, idle |-> 0, is_bo |-> 1, handle |-> h, live |-> 1]
        BY <1>2, <1>10 DEF SharedBlock
      <3> QED
        BY <3>1, <3>2, SharedIs
    <2>4. y \in Blocks
      <3>1. Base[h] + n \in Nat /\ PoolSize - n \in Nat
        BY <1>1, <1>5
      <3>2. y = [paddr |-> Base[h] + n, size |-> PoolSize - n, idle |-> 1, is_bo |-> 0, handle |-> h, live |-> 1]
        BY <2>1 DEF Block
      <3> QED
        BY <3>1, <3>2 DEF Blocks
    <2>5. r \in Seq(Blocks) /\ Len(r) = 2 /\ r[1] = x /\ r[2] = y
      BY <2>2, <2>3, <2>4
    <2>6. IsNew(h, n, 2, r)
      BY <1>2, <1>5, <1>10, <2>1, <2>3, <2>5 DEF IsNew
    <2> QED
      BY <1>2, <2>6
  <1> QED
    BY <1>9, <1>10

LEMMA NewChain ==
  ASSUME PoolAssumption, BaseAssumption, NEW h \in 1..MaxBos, NEW n, NEW c, NEW r, IsNew(h, n, c, r)
  PROVE  PoolChain(r, c, h) /\ Len(r) = c /\ c \in 1..Len(r) /\ BusyParts(r) = {} /\ Solid(r)
  <1>1. /\ c \in {1, 2} /\ r \in Seq(Blocks) /\ Len(r) = c /\ r[1] = SharedBlock(h) /\ c \in 1..Len(r)
        /\ n = align(SharedSize) /\ n \in Nat /\ n >= 1 /\ n <= PoolSize
    BY DEF IsNew
  <1>2. /\ MinRemain \in Nat \ {0} /\ PoolSize \in Nat /\ Base[h] \in Nat /\ PoolSize >= 1
    <2>1. MinRemain \in Nat \ {0} /\ PoolSize \in Nat /\ Base[h] \in Nat
      BY DEF PoolAssumption, BaseAssumption
    <2> QED
      BY <1>1, <2>1
  <1>3. /\ r[1].paddr = Base[h] /\ r[1].idle = 0
        /\ r[1].size = IF PoolSize - n < MinRemain THEN PoolSize ELSE n
    BY <1>1 DEF SharedBlock
  <1>4. c = 2 => /\ r[2].paddr = Base[h] + n /\ r[2].size = PoolSize - n /\ r[2].idle = 1 /\ r[2].is_bo = 0
                 /\ r[2].handle = h /\ r[2].live = 1 /\ PoolSize - n >= 1 /\ ~(PoolSize - n < MinRemain)
    <2> SUFFICES ASSUME c = 2
                 PROVE  /\ r[2].paddr = Base[h] + n /\ r[2].size = PoolSize - n /\ r[2].idle = 1 /\ r[2].is_bo = 0
                        /\ r[2].handle = h /\ r[2].live = 1 /\ PoolSize - n >= 1 /\ ~(PoolSize - n < MinRemain)
      OBVIOUS
    <2>1. r[2] = [paddr |-> Base[h] + n, size |-> PoolSize - n, idle |-> 1, is_bo |-> 0, handle |-> h, live |-> 1]
      BY DEF IsNew, Block
    <2>2. ~(PoolSize - n < MinRemain)
      BY DEF IsNew
    <2>3. PoolSize - n >= 1
      BY <1>1, <1>2, <2>2
    <2> QED
      BY <2>1, <2>2, <2>3
  <1>5. Tile(c, PAt(r, c), PLn(r, c), Base[h], Base[h] + PoolSize)
    <2>1. PICK at, ln, lo, hi : at = PAt(r, c) /\ ln = PLn(r, c) /\ lo = Base[h] /\ hi = Base[h] + PoolSize
      OBVIOUS
    <2>2. at \in [1..c -> Int] /\ ln \in [1..c -> Nat] /\ \A k \in 1..c : at[k] = r[k].paddr /\ ln[k] = r[k].size
      <3>1. ASSUME NEW k \in 1..c PROVE r[k].paddr \in Int /\ r[k].size \in Nat
        <4>1. r \in Seq(Blocks) /\ k \in 1..Len(r)
          BY <1>1
        <4> QED
          BY <4>1, PoolFields
      <3> QED
        BY <2>1, <3>1 DEF PAt, PLn
    <2>3. CASE c = 1
      <3>1. PoolSize - n < MinRemain
        BY <2>3 DEF IsNew
      <3>2. at[1] = lo /\ at[1] + ln[1] = hi
        <4>1. 1 \in 1..c
          BY <2>3
        <4> QED
          BY <1>3, <2>1, <2>2, <3>1, <4>1
      <3> QED
        BY <1>2, <2>1, <2>2, <2>3, <3>2 DEF Tile
    <2>4. CASE c = 2
      <3>1. 1 \in 1..c /\ 2 \in 1..c
        BY <2>4
      <3>2. at[1] = lo /\ ln[1] = n /\ at[2] = lo + n /\ ln[2] = PoolSize - n
        BY <1>3, <1>4, <2>1, <2>2, <2>4, <3>1
      <3>3. at[2] + ln[2] = hi
        BY <1>1, <1>2, <2>1, <3>2
      <3>4. \A k \in 1..c - 1 : k = 1 /\ k + 1 = 2
        BY <2>4
      <3>5. lo \in Int /\ hi \in Int /\ c \in Nat \ {0}
        BY <1>2, <2>1, <2>4
      <3>6. \A k \in 1..c - 1 : at[k + 1] = at[k] + ln[k]
        BY <3>2, <3>4
      <3>7. Tile(c, at, ln, lo, hi)
        BY <2>2, <2>4, <3>2, <3>3, <3>5, <3>6 DEF Tile
      <3> QED
        BY <2>1, <3>7
    <2>5. c = 1 \/ c = 2
      BY <1>1
    <2> QED
      BY <2>3, <2>4, <2>5
  <1>6. \A k \in 2..c : c = 2 /\ k = 2
    BY <1>1
  <1>7. \A k \in 2..c : PoolBlock(r[k], h)
    <2>1. c = 2 => PoolBlock(r[2], h)
      BY <1>4 DEF PoolBlock
    <2> QED
      BY <1>6, <2>1
  <1>8. \A k \in 1..c - 1 : r[k].idle = 0 \/ r[k + 1].idle = 0
    <2>1. \A k \in 1..c - 1 : k = 1
      BY <1>1
    <2> QED
      BY <1>3, <2>1
  <1>9. c + 1..Len(r) = {}
    BY <1>1
  <1>12. \A k \in 1..c : r[k].paddr < Base[h] + PoolSize /\ r[k].size >= 1
    <2>1. r[1].paddr < Base[h] + PoolSize /\ r[1].size >= 1
      BY <1>1, <1>2, <1>3
    <2>2. c = 2 => r[2].paddr < Base[h] + PoolSize /\ r[2].size >= 1
      BY <1>1, <1>2, <1>4
    <2>3. \A k \in 1..c : k = 1 \/ (c = 2 /\ k = 2)
      BY <1>1
    <2> QED
      BY <2>1, <2>2, <2>3
  <1>10. PoolChain(r, c, h)
    BY <1>1, <1>5, <1>7, <1>8, <1>9, <1>12 DEF PoolChain
  <1>11. BusyParts(r) = {}
    <2> SUFFICES ASSUME NEW x \in BusyParts(r) PROVE FALSE
      OBVIOUS
    <2>1. Len(r) \in Nat
      BY <1>1
    <2>2. PICK k \in 2..Len(r) : r[k].idle = 0
      BY <2>1, BusyIs
    <2> QED
      BY <1>1, <1>4, <1>6, <2>2
  <1>13. Solid(r)
    BY <1>1, <1>12 DEF Solid
  <1> QED
    BY <1>1, <1>10, <1>11, <1>13

LEMMA PoolStart ==
  ASSUME PoolAssumption, BaseAssumption, SoleGrower, PoolInv, iaic_ctx_init
  PROVE  PoolInv'
  <1>1. /\ ctx = 0 /\ corrupt = 0 /\ bos < MaxBos /\ ctx' = 1 /\ bos' = bos + 1 /\ kernel' = {bos + 1}
        /\ bo_list' = NewContext(bos + 1) /\ UNCHANGED <<pc, want, curr, mine, corrupt>>
        /\ mapped' = {bos + 1} /\ zero' = 0
    BY DEF iaic_ctx_init
  <1>2. PoolTypes /\ BufferInv /\ Buffers = {} /\ \A t \in Threads : pc[t] = "idle"
    BY <1>1 DEF PoolInv
  <1>3. PICK h : h = bos + 1
    OBVIOUS
  <1>4. h \in 1..MaxBos /\ h \in 0..MaxBos /\ h \in Nat /\ h \in 1..h
    <2>1. bos \in 0..MaxBos /\ MaxBos \in Nat
      BY <1>2 DEF PoolTypes, PoolAssumption
    <2> QED
      BY <1>1, <1>3, <2>1
  <1>5. PICK r : r = NewContext(h)
    OBVIOUS
  <1>6. PICK n, c : IsNew(h, n, c, r)
    BY <1>4, <1>5, NewIs
  <1>7. PoolChain(r, c, h) /\ Len(r) = c /\ c \in 1..Len(r) /\ BusyParts(r) = {} /\ Solid(r)
    BY <1>4, <1>6, NewChain
  <1>8. bo_list' = r /\ kernel' = {h} /\ bos' = h /\ mapped' = {h} /\ zero' = 0
    BY <1>1, <1>3, <1>5
  <1>9. Buffers' = {}
    BY <1>1, <1>2 DEF Buffers
  <1>10. GrownInv(c)'
    <2>1. ASSUME NEW k \in 1..Len(r) PROVE r[k].handle = h
      BY <1>7, PoolExtent
    <2>2. c \in Nat /\ h <= h
      BY <1>4, <1>7
    <2>3. ~(Len(r) > c)
      BY <1>7, <2>2
    <2>4. c + 1..Len(r) = {}
      BY <1>7, <2>2
    <2>5. Loose(r, c) = {}
      BY <2>4 DEF Loose
    <2>6. ASSUME NEW u \in Threads PROVE CallInv(u, c)'
      BY <1>1, <1>2, <1>8, <2>5 DEF CallInv
    <2>7. ASSUME NEW k \in 1..Len(r) PROVE r[k].handle \in kernel' /\ r[k].handle \in mapped' /\ r[k].handle <= bos'
      BY <1>8, <2>1, <2>2
    <2> QED
      BY <1>8, <2>3, <2>6, <2>7 DEF GrownInv
  <1>11. PoolKept(c, h)'
    <2>1. PoolChain(bo_list', c, h) /\ h \in kernel' /\ corrupt' = 0
      BY <1>1, <1>7, <1>8
    <2>2. Solid(bo_list') /\ BusyParts(bo_list') = {Part(b) : b \in Buffers'}
      BY <1>7, <1>8, <1>9
    <2> QED
      BY <1>10, <2>1, <2>2 DEF PoolKept
  <1>12. PoolTypes'
    BY <1>1, <1>2, <1>4, <1>8 DEF PoolTypes
  <1>13. BufferInv'
    <2>1. \A t, u \in Threads : mine'[t] \cap mine'[u] = {}
      BY <1>9 DEF Buffers
    <2>2. Sure' = {}
      BY <1>9 DEF Sure
    <2> QED
      BY <1>9, <2>1, <2>2 DEF BufferInv
  <1> QED
    BY <1>1, <1>4, <1>7, <1>8, <1>11, <1>12, <1>13 DEF PoolInv

LEMMA PoolStop ==
  ASSUME PoolAssumption, BaseAssumption, SoleGrower, PoolInv, iaic_ctx_destroy
  PROVE  PoolInv'
  <1>1. /\ \A t \in Threads : pc[t] = "idle" /\ mine[t] = {}
        /\ ctx' = 0 /\ kernel' = {} /\ bo_list' = << >> /\ corrupt' \in {0, 1}
        /\ UNCHANGED <<bos, pc, want, curr, mine>> /\ mapped' = {} /\ zero' = 0
    BY DEF iaic_ctx_destroy
  <1>2. PoolTypes
    BY DEF PoolInv
  <1>3. Buffers' = {} /\ \A t \in Threads : mine'[t] = {}
    BY <1>1 DEF Buffers
  <1>4. PoolTypes'
    BY <1>1, <1>2 DEF PoolTypes
  <1>5. BufferInv'
    BY <1>3 DEF BufferInv, Sure
  <1> QED
    BY <1>1, <1>3, <1>4, <1>5 DEF PoolInv

LEMMA PoolStep ==
  ASSUME PoolAssumption, BaseAssumption, SoleGrower, PoolInv, [PoolNext]_poolVars
  PROVE  PoolInv'
  <1>1. CASE iaic_ctx_init
    BY <1>1, PoolStart
  <1>2. CASE iaic_ctx_destroy
    BY <1>2, PoolStop
  <1>3. ASSUME NEW t \in Threads, Thread(t) PROVE PoolInv'
    <2>1. CASE \E size \in Sizes : iaic_fast_alloc_bo(t, size) \/ Exhausted(t, size)
      BY <2>1, PoolAlloc, PoolExhausted
    <2>2. CASE create_bo_node(t)
      BY <2>2, PoolCreate
    <2>3. CASE TakeLast(t)
      BY <2>3, PoolTake
    <2>4. CASE \E b \in mine[t] : iaic_fast_free_bo(t, b)
      BY <2>4, PoolFree
    <2>5. CASE DestroyBo(t)
      BY <2>5, PoolDestroy
    <2> QED
      BY <1>3, <2>1, <2>2, <2>3, <2>4, <2>5 DEF Thread
  <1>4. CASE UNCHANGED poolVars
    <2>1. UNCHANGED <<ctx, bo_list, kernel, bos, pc, want, curr, mine, mapped, zero, corrupt>>
      BY <1>4 DEF poolVars
    <2>0. PoolTypes /\ BufferInv
      BY DEF PoolInv
    <2>2. PoolTypes' /\ BufferInv' /\ Buffers' = Buffers
      <3>1. PoolTypes'
        BY <2>0, <2>1 DEF PoolTypes
      <3>2. Buffers' = Buffers
        BY <2>1 DEF Buffers
      <3>3. BufferInv'
        BY <2>0, <2>1, BufferSame
      <3> QED
        BY <3>1, <3>2, <3>3
    <2>3. ASSUME NEW m, NEW h, PoolKept(m, h) PROVE PoolKept(m, h)'
      <3>1. GrownInv(m)'
        BY <2>1, <2>3 DEF PoolKept, GrownInv, CallInv, Torn
      <3> QED
        BY <2>1, <2>2, <2>3, <3>1 DEF PoolKept
    <2> QED
      BY <2>1, <2>2, <2>3 DEF PoolInv
  <1> QED
    BY <1>1, <1>2, <1>3, <1>4 DEF PoolNext

LEMMA PoolInitInv ==
  ASSUME PoolAssumption, PoolInit
  PROVE  PoolInv
  <1>1. Buffers = {}
    BY DEF PoolInit, Buffers
  <1>2. PoolTypes
    BY DEF PoolInit, PoolTypes, PoolAssumption
  <1>3. BufferInv
    BY <1>1 DEF PoolInit, BufferInv, Sure
  <1> QED
    BY <1>1, <1>2, <1>3 DEF PoolInit, PoolInv

\* The pool of a context that has not grown, when nothing is handed out.
LEMMA AllIdleIsNew ==
  ASSUME PoolAssumption, BaseAssumption, NEW list, NEW m, NEW h, PoolChain(list, m, h), Len(list) = m,
         Solid(list), \A k \in 2..m : list[k].idle = 1
  PROVE  list = NewContext(h)
  <1>1. list \in Seq(Blocks) /\ m \in Nat /\ 1 <= m /\ h \in 1..MaxBos
    BY PoolHead
  <1>2. list[1] = SharedBlock(h)
    BY DEF PoolChain
  <1>3. m <= 2
    <2> SUFFICES ASSUME ~(m <= 2) PROVE FALSE
      OBVIOUS
    <2>1. 2 \in 1..m - 1 /\ 2 \in 2..m /\ 2 + 1 \in 2..m
      BY <1>1
    <2>2. list[2].idle = 0 \/ list[2 + 1].idle = 0
      BY <2>1 DEF PoolChain
    <2> QED
      BY <2>1, <2>2
  <1>4. PICK r : r = NewContext(h)
    OBVIOUS
  <1>5. PICK n, c : IsNew(h, n, c, r)
    BY <1>1, <1>4, NewIs
  <1>6. /\ c \in {1, 2} /\ r \in Seq(Blocks) /\ Len(r) = c /\ r[1] = SharedBlock(h)
        /\ n = align(SharedSize) /\ n \in Nat /\ n >= 1 /\ n <= PoolSize
    BY <1>5 DEF IsNew
  <1>7. MinRemain \in Nat \ {0} /\ PoolSize \in Nat /\ Base[h] \in Nat
    BY <1>1 DEF PoolAssumption, BaseAssumption
  <1>8. /\ SharedBlock(h).paddr = Base[h]
        /\ SharedBlock(h).size = IF PoolSize - n < MinRemain THEN PoolSize ELSE n
    BY <1>6 DEF SharedBlock
  <1>9. PICK at, ln, lo, hi : at = PAt(list, m) /\ ln = PLn(list, m) /\ lo = Base[h] /\ hi = Base[h] + PoolSize
    OBVIOUS
  <1>10. Tile(m, at, ln, lo, hi)
    BY <1>9 DEF PoolChain
  <1>11. \A k \in 1..m : at[k] = list[k].paddr /\ ln[k] = list[k].size
    BY <1>9 DEF PAt, PLn
  <1>12. CASE m = 1
    <2>1. at[1] + ln[1] = hi /\ 1 \in 1..m
      BY <1>10, <1>12 DEF Tile
    <2>2. SharedBlock(h).size = PoolSize
      <3>1. PICK s : s = SharedBlock(h).size
        OBVIOUS
      <3>2. Base[h] + s = Base[h] + PoolSize
        BY <1>2, <1>8, <1>9, <1>11, <2>1, <3>1
      <3>3. s = PoolSize \/ s = n
        BY <1>8, <3>1
      <3>4. s = PoolSize
        BY <1>6, <1>7, <3>2, <3>3
      <3> QED
        BY <3>1, <3>4
    <2>3. PoolSize - n < MinRemain
      BY <1>6, <1>7, <1>8, <2>2
    <2>4. c = 1
      BY <1>5, <1>6, <2>3 DEF IsNew
    <2>5. Len(list) = Len(r) /\ \A k \in 1..Len(list) : list[k] = r[k]
      <3>1. Len(list) = 1 /\ Len(r) = 1
        BY <1>6, <1>12, <2>4
      <3>2. \A k \in 1..Len(list) : k = 1
        BY <3>1
      <3> QED
        BY <1>2, <1>6, <3>1, <3>2
    <2> QED
      BY <1>1, <1>4, <1>6, <2>5, SeqEqual
  <1>13. CASE m = 2
    <2>1. /\ 1 \in 1..m - 1 /\ 1 \in 1..m /\ 2 \in 1..m /\ 2 \in 2..m /\ 2 \in 1..Len(list)
      BY <1>13
    <2>2. at[1] = lo /\ at[2] = at[1] + ln[1] /\ at[2] + ln[2] = hi
      <3>1. at[1 + 1] = at[1] + ln[1]
        BY <1>10, <2>1 DEF Tile
      <3> QED
        BY <1>10, <1>13, <3>1 DEF Tile
    <2>3. PICK b : b = list[2]
      OBVIOUS
    <2>4. b \in Blocks /\ b.paddr \in Nat /\ b.size \in Nat
      BY <1>1, <2>1, <2>3, PoolFields
    <2>5. b.idle = 1 /\ b.handle = h /\ b.is_bo = 0 /\ b.live = 1 /\ b.size >= 1
      BY <2>1, <2>3 DEF PoolChain, PoolBlock, Solid
    <2>6. PICK s : s = SharedBlock(h).size
      OBVIOUS
    <2>7. b.paddr = Base[h] + s /\ b.paddr + b.size = Base[h] + PoolSize
      BY <1>2, <1>8, <1>9, <1>11, <2>1, <2>2, <2>3, <2>6
    <2>8. s = IF PoolSize - n < MinRemain THEN PoolSize ELSE n
      BY <1>8, <2>6
    <2>9. s # PoolSize
      BY <1>7, <2>4, <2>5, <2>7
    <2>10. ~(PoolSize - n < MinRemain) /\ s = n
      BY <2>8, <2>9
    <2>11. b.paddr = Base[h] + n /\ b.size = PoolSize - n
      <3>1. PICK x, y, p, q : x = b.paddr /\ y = b.size /\ p = Base[h] /\ q = PoolSize
        OBVIOUS
      <3>2. x \in Nat /\ y \in Nat /\ p \in Nat /\ q \in Nat /\ n \in Nat
        BY <1>6, <1>7, <2>4, <3>1
      <3>3. x = p + n /\ x + y = p + q
        BY <2>7, <2>10, <3>1
      <3>4. x = p + n /\ y = q - n
        BY <3>2, <3>3
      <3> QED
        BY <3>1, <3>4
    <2>12. b = [paddr |-> Base[h] + n, size |-> PoolSize - n, idle |-> 1, is_bo |-> 0, handle |-> h, live |-> 1]
      BY <2>4, <2>5, <2>11 DEF Blocks
    <2>13. c = 2 /\ r[2] = b
      <3>1. c = 2
        BY <1>5, <1>6, <2>10 DEF IsNew
      <3>2. r[2] = Block(Base[h] + n, PoolSize - n, 0, h)
        BY <1>5, <3>1 DEF IsNew
      <3> QED
        BY <2>12, <3>1, <3>2 DEF Block
    <2>14. Len(list) = Len(r) /\ \A k \in 1..Len(list) : list[k] = r[k]
      <3>1. Len(list) = 2 /\ Len(r) = 2
        BY <1>6, <1>13, <2>13
      <3>2. \A k \in 1..Len(list) : k = 1 \/ k = 2
        BY <3>1
      <3> QED
        BY <1>2, <1>6, <2>3, <2>13, <3>1, <3>2
    <2> QED
      BY <1>1, <1>4, <1>6, <2>14, SeqEqual
  <1>14. m = 1 \/ m = 2
    BY <1>1, <1>3
  <1> QED
    BY <1>12, <1>13, <1>14

LEMMA PoolTilesInv ==
  ASSUME PoolAssumption, BaseAssumption, PoolInv
  PROVE  Tiles
  <1> SUFFICES ASSUME ctx = 1, Ungrown PROVE Tiles
    BY DEF Tiles
  <1>1. PICK m \in 1..Len(bo_list), h \in 1..MaxBos : PoolKept(m, h)
    BY DEF PoolInv
  <1>2. PoolChain(bo_list, m, h) /\ PoolTypes
    BY <1>1 DEF PoolKept, PoolInv
  <1>a. \A k \in m + 1..Len(bo_list) : bo_list[k].handle # h
    BY <1>2, PoolHead
  <1>3. /\ bo_list \in Seq(Blocks) /\ Len(bo_list) \in Nat /\ m \in Nat /\ 1 <= m /\ m <= Len(bo_list)
        /\ DOMAIN bo_list = 1..Len(bo_list)
    BY <1>2, PoolHead
  <1>4. bo_list[1].handle = h
    BY <1>2, SharedIs DEF PoolChain
  <1>5. Len(bo_list) = m
    <2>1. Len(bo_list) \in Nat /\ m \in Nat /\ 1 <= m /\ m <= Len(bo_list)
      BY <1>3, Zenon
    <2>2. ASSUME Len(bo_list) > m PROVE FALSE
      <3>1. m + 1 \in m + 1..Len(bo_list) /\ m + 1 \in 1..Len(bo_list)
        BY <2>1, <2>2
      <3>2. m + 1 \in DOMAIN bo_list
        BY <1>3, <3>1, Zenon
      <3>3. bo_list[m + 1].handle = h
        BY <1>4, <3>2, Zenon DEF Ungrown
      <3>4. bo_list[m + 1].handle # h
        BY <1>a, <3>1, Zenon
      <3> QED
        BY <3>3, <3>4
    <2> QED
      BY <2>1, <2>2
  <1>6. corrupt = 0
    <2>1. ~(Len(bo_list) > m)
      BY <1>3, <1>5
    <2> QED
      BY <1>1, <1>2, <2>1 DEF PoolKept, PoolTypes
  <1>7. PICK n, at, ln, lo, hi : /\ n = Len(bo_list) /\ at = PAt(bo_list, m) /\ ln = PLn(bo_list, m)
                                 /\ lo = Base[h] /\ hi = Base[h] + PoolSize
    OBVIOUS
  <1>8. Tile(n, at, ln, lo, hi)
    BY <1>2, <1>5, <1>7 DEF PoolChain
  <1>9. \A k \in 1..n : at[k] = bo_list[k].paddr /\ ln[k] = bo_list[k].size
    BY <1>5, <1>7 DEF PAt, PLn
  <1>10. n \in Nat /\ n >= 1 /\ 1 \in 1..n /\ n \in 1..n /\ \A k \in 1..n - 1 : k \in 1..n /\ k + 1 \in 1..n
    BY <1>3, <1>5, <1>7
  <1>11. bo_list[1].paddr = Base[h] /\ bo_list[n].paddr + bo_list[n].size = Base[h] + PoolSize
    BY <1>7, <1>8, <1>9, <1>10 DEF Tile
  <1>12. ASSUME NEW k \in 1..n - 1 PROVE bo_list[k + 1].paddr = bo_list[k].paddr + bo_list[k].size
    <2>1. at[k + 1] = at[k] + ln[k]
      BY <1>8 DEF Tile
    <2>2. k \in 1..n /\ k + 1 \in 1..n
      BY <1>10
    <2> QED
      BY <1>9, <2>1, <2>2
  <1>13. ASSUME zero = 0, Buffers = {} PROVE bo_list = NewContext(h)
    <2>1. Solid(bo_list) /\ BusyParts(bo_list) = {}
      BY <1>1, <1>6, <1>13 DEF PoolKept
    <2>2. ASSUME NEW k \in 2..m PROVE bo_list[k].idle = 1
      <3>1. k \in 2..Len(bo_list) /\ k \in 1..Len(bo_list)
        BY <1>3, <1>5
      <3>2. bo_list[k].idle # 0
        BY <1>3, <2>1, <3>1, BusyIn
      <3> QED
        BY <1>3, <3>1, <3>2, PoolFields
    <2> QED
      BY <1>2, <1>5, <2>1, <2>2, AllIdleIsNew
  <1> QED
    BY <1>4, <1>6, <1>7, <1>11, <1>12, <1>13 DEF Tiles

LEMMA PoolDisjointInv ==
  ASSUME PoolAssumption, BaseAssumption, PoolInv
  PROVE  Disjoint
  <1>1. PoolTypes /\ BufferInv
    BY DEF PoolInv
  <1>2. ctx = 0 => bo_list = << >> /\ Buffers = {}
    BY DEF PoolInv
  <1>3. ASSUME NEW b \in Buffers
        PROVE  \E m, h : PoolKept(m, h)
    <2>1. ctx = 1
      BY <1>1, <1>2 DEF PoolTypes
    <2> QED
      BY <2>1 DEF PoolInv
  <1>4. ASSUME NEW b \in Buffers
        PROVE  /\ b.paddr \in Nat /\ b.size \in Sizes /\ b.esize \in Nat /\ b.handle \in 1..MaxBos
               /\ b.handle \in kernel /\ b.esize >= b.size /\ (b.handle \in mapped \/ Torn)
    <2>1. PICK m, h : PoolKept(m, h)
      BY <1>3
    <2>2. PoolChain(bo_list, m, h) /\ GrownInv(m)
      BY <2>1 DEF PoolKept
    <2>3. /\ bo_list \in Seq(Blocks) /\ Len(bo_list) \in Nat /\ m \in Nat /\ 1 <= m /\ m <= Len(bo_list)
          /\ \A q \in 1..m : bo_list[q].live = 1
      BY <2>2, PoolHead
    <2>4. \E k \in 1..Len(bo_list) : bo_list[k].handle = b.handle /\ bo_list[k].live = 1
      <3>1. CASE b \in Sure
        <4>1. PICK k \in 2..Len(bo_list) : bo_list[k].idle = 0 /\ bo_list[k].handle = b.handle
          BY <1>1, <2>2, <3>1, BufferOf
        <4>2. k \in 1..Len(bo_list) /\ (k \in 1..m \/ k \in m + 1..Len(bo_list))
          BY <2>3, <4>1
        <4>3. bo_list[k].live \in {0, 1}
          BY <2>3, <4>2, PoolFields
        <4>4. ASSUME k \in m + 1..Len(bo_list) PROVE bo_list[k].live # 0
          <5>1. GrownBlock(bo_list[k], h)
            BY <2>2, <4>4 DEF PoolChain
          <5> QED
            BY <4>1, <5>1 DEF GrownBlock
        <4> QED
          BY <2>3, <4>1, <4>2, <4>3, <4>4
      <3>2. CASE b \notin Sure
        <4>1. bo_list[1].handle = b.handle
          BY <3>2 DEF Sure
        <4>2. bo_list[1].live = 1 /\ 1 \in 1..Len(bo_list)
          BY <2>2, <2>3, HeadHandle
        <4> QED
          BY <4>1, <4>2
      <3> QED
        BY <3>1, <3>2
    <2>5. PICK k \in 1..Len(bo_list) : bo_list[k].handle = b.handle /\ bo_list[k].live = 1
      BY <2>4
    <2>6. bo_list[k].handle \in kernel /\ (bo_list[k].handle \in mapped \/ Torn)
      BY <2>2, <2>5 DEF GrownInv
    <2>7. bo_list[k].handle \in 1..MaxBos
      BY <2>3, PoolFields
    <2>8. b.paddr \in Nat /\ b.size \in Sizes /\ b.esize \in Nat /\ b.esize >= b.size
      BY <1>1 DEF BufferInv, Sized
    <2> QED
      BY <2>5, <2>6, <2>7, <2>8
  <1>5. ASSUME zero = 0, NEW b \in Buffers, NEW c \in Buffers, b # c
        PROVE  b.paddr + b.esize <= c.paddr \/ c.paddr + c.esize <= b.paddr
    <2>0. b \in Sure /\ c \in Sure
      BY <1>5 DEF Sure
    <2>1. PICK m, h : PoolKept(m, h)
      BY <1>3
    <2>2. PoolChain(bo_list, m, h)
      BY <2>1 DEF PoolKept
    <2>3. PICK k \in 2..Len(bo_list) : bo_list[k].paddr = b.paddr /\ bo_list[k].size = b.esize
      BY <1>1, <2>0, <2>2, BufferOf
    <2>4. PICK l \in 2..Len(bo_list) : bo_list[l].paddr = c.paddr /\ bo_list[l].size = c.esize
      BY <1>1, <2>0, <2>2, BufferOf
    <2>5. k # l
      BY <1>1, <1>5, <2>0, <2>3, <2>4 DEF BufferInv
    <2>6. k \in 1..Len(bo_list) /\ l \in 1..Len(bo_list)
      BY <2>3, <2>4
    <2>7. /\ \/ bo_list[k].paddr + bo_list[k].size <= bo_list[l].paddr
             \/ bo_list[l].paddr + bo_list[l].size <= bo_list[k].paddr
      BY <2>2, <2>5, <2>6, PoolApart
    <2> QED
      BY <2>3, <2>4, <2>7
  <1>6. bo_list \in Seq(Blocks)
    <2>1. CASE ctx = 1
      <3>1. PICK m, h : PoolKept(m, h)
        BY <2>1 DEF PoolInv
      <3> QED
        BY <3>1 DEF PoolKept, PoolChain
    <2>2. CASE ctx = 0
      BY <1>2, <2>2
    <2> QED
      BY <1>1, <2>1, <2>2 DEF PoolTypes
  <1>7. kernel \subseteq 1..MaxBos
    <2>1. kernel \subseteq 1..bos /\ bos \in 0..MaxBos /\ MaxBos \in Nat
      BY <1>1 DEF PoolTypes, PoolAssumption
    <2> QED
      BY <2>1
  <1>8. PoolTypeOK
    BY <1>1, <1>4, <1>6, <1>7 DEF PoolTypes, PoolTypeOK
  <1>9. zero = 0 => \A t, u \in Threads : t # u => mine[t] \cap mine[u] = {}
    BY <1>1 DEF BufferInv
  <1> QED
    BY <1>4, <1>5, <1>8, <1>9 DEF Disjoint

\* Every state of the pool satisfies the invariant, for any threads if the
\* pool does not grow and for one thread if it does.
LEMMA PoolInvariant ==
  ASSUME SoleGrower
  PROVE  PoolSpec => []PoolInv
  <1>1. PoolInit => PoolInv
    BY PoolAssumption, PoolInitInv
  <1>2. PoolInv /\ [PoolNext]_poolVars => PoolInv'
    BY PoolAssumption, BaseAssumption, PoolStep
  <1> QED
    BY <1>1, <1>2, PTL DEF PoolSpec

\* While the pool has not grown, its blocks tile the kernel BO, with no gap and
\* no overlap, whatever iaic_fast_alloc_bo has cut and iaic_fast_free_bo has
\* merged, a block of size 0 among them; giving everything back restores the
\* pool of iaic_ctx_init, unless a block of size 0 was cut from it; and the
\* list leads through freed memory only after the pool has grown.  This is for
\* kernel BOs of every size at any addresses and any requests, by any number
\* of threads unless the pool may grow, and by one if it may.
THEOREM PoolTilesAlways ==
  ASSUME SoleGrower
  PROVE  PoolSpec => []Tiles
  <1>1. PoolInv => Tiles
    BY PoolAssumption, BaseAssumption, PoolTilesInv
  <1> QED
    BY <1>1, PoolInvariant, PTL

\* Until iaic_fast_alloc_bo cuts a block of size 0 from the pool, no two
\* buffers it has handed out overlap and no two threads hold the same one.
\* Always, each is as large as was asked and lies in a kernel BO that exists,
\* although iaic_fast_free_bo destroys a kernel BO with its first block and
\* leaves the block in the list; and the BO is mapped from end to end unless
\* iaic_fast_free_bo has unmapped a smaller one with the length of the pool.
THEOREM PoolKeepsApart ==
  ASSUME SoleGrower
  PROVE  PoolSpec => []Disjoint
  <1>1. PoolInv => Disjoint
    BY PoolAssumption, BaseAssumption, PoolDisjointInv
  <1> QED
    BY <1>1, PoolInvariant, PTL
=============================================================================
