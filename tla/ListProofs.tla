----------------------------- MODULE ListProofs -----------------------------
(***************************************************************************)
(* Facts about filtered lists and about numbers taken from a pool that the *)
(* proofs of several components use.                                       *)
(***************************************************************************)
EXTENDS JobLists, SequenceTheorems, FiniteSetTheorems, WellFoundedInduction, TLAPS

LEMMA FilteredForm ==
  ASSUME NEW list, NEW K, NEW r \in Filtered(list, K)
  PROVE  \E n \in 0..Len(list) : \E f \in [1..n -> K] :
           Enumerates(f, n, K) /\ r = [i \in 1..n |-> list[f[i]]]
  BY DEF Filtered

\* What a filtered list is: its entries are the kept ones, in their order.
LEMMA FilteredList ==
  ASSUME NEW S, NEW list \in Seq(S), NEW K \in SUBSET DOMAIN list,
         NEW r \in Filtered(list, K)
  PROVE  /\ r \in Seq(S)
         /\ \E f \in [1..Len(r) -> K] :
              /\ Enumerates(f, Len(r), K)
              /\ \A i \in 1..Len(r) : r[i] = list[f[i]]
  <1>0. PICK n \in 0..Len(list) : \E f \in [1..n -> K] :
          Enumerates(f, n, K) /\ r = [i \in 1..n |-> list[f[i]]]
    BY FilteredForm
  <1>1. PICK f \in [1..n -> K] : Enumerates(f, n, K) /\ r = [i \in 1..n |-> list[f[i]]]
    BY <1>0
  <1>2. n \in Nat /\ DOMAIN list = 1..Len(list)
    BY LenProperties
  <1>3. \A i \in 1..n : list[f[i]] \in S
    BY <1>1, <1>2, ElementOfSeq
  <1>4. r \in [1..n -> S]
    BY <1>1, <1>3
  <1>5. r \in Seq(S)
    BY <1>2, <1>4, IsASeq
  <1>6. Len(r) = n
    BY <1>2, <1>4, <1>5, LenProperties
  <1> QED
    BY <1>1, <1>5, <1>6

\* An enumeration of the kept positions gives an element of Filtered.
LEMMA FilteredHas ==
  ASSUME NEW list, NEW K, NEW n \in 0..Len(list), NEW f \in [1..n -> K], Enumerates(f, n, K)
  PROVE  [i \in 1..n |-> list[f[i]]] \in Filtered(list, K)
  <1> DEFINE En(m) == {g \in [1..m -> K] : Enumerates(g, m, K)}
             Lists(m) == {[i \in 1..m |-> list[g[i]]] : g \in En(m)}
  <1>1. f \in En(n)
    OBVIOUS
  <1>2. [i \in 1..n |-> list[f[i]]] \in Lists(n)
    BY <1>1
  <1>3. Filtered(list, K) = UNION {Lists(m) : m \in 0..Len(list)}
    BY DEF Filtered
  <1> HIDE DEF Lists
  <1> QED
    BY <1>2, <1>3

\* Nothing kept, nothing left.
LEMMA FilteredNone ==
  ASSUME NEW S, NEW list \in Seq(S), NEW r \in Filtered(list, {})
  PROVE  r = << >>
  <1>1. r \in Seq(S) /\ \E f \in [1..Len(r) -> {}] : TRUE
    BY FilteredList
  <1>2. Len(r) \in Nat /\ ~(1 \in 1..Len(r))
    BY <1>1, LenProperties
  <1>3. Len(r) = 0
    BY <1>2
  <1> QED
    BY <1>1, <1>3, EmptySeq

\* The only entry kept.
LEMMA FilteredOne ==
  ASSUME NEW e, NEW r \in Filtered(<<e>>, {1})
  PROVE  r = <<e>>
  <1>1. <<e>> \in Seq({e}) /\ Len(<<e>>) = 1 /\ <<e>>[1] = e /\ DOMAIN <<e>> = {1}
    OBVIOUS
  <1>2. r \in Seq({e})
    BY <1>1, FilteredList
  <1>3. PICK f \in [1..Len(r) -> {1}] : Enumerates(f, Len(r), {1})
    BY <1>1, FilteredList
  <1>4. Len(r) \in Nat /\ DOMAIN r = 1..Len(r)
    BY <1>2, LenProperties
  <1>5. \E i \in 1..Len(r) : f[i] = 1
    BY <1>3 DEF Enumerates
  <1>6. ~(Len(r) >= 2)
    <2> SUFFICES ASSUME Len(r) >= 2 PROVE FALSE
      OBVIOUS
    <2>1. 1 \in 1..Len(r) /\ 2 \in 1..Len(r)
      BY <1>4
    <2>2. f[1] = 1 /\ f[2] = 1 /\ f[1] < f[2]
      BY <1>3, <2>1 DEF Enumerates
    <2> QED
      BY <2>2
  <1>7. Len(r) = 1
    BY <1>4, <1>5, <1>6
  <1>8. r[1] = e
    BY <1>2, <1>7, ElementOfSeq
  <1> QED
    BY <1>1, <1>2, <1>7, <1>8, SeqEqual

\* What the abstract queue of JobFifo sees of a job list.
View(list) == [i \in DOMAIN list |-> [seq |-> list[i].seq, pid |-> list[i].pid]]

Views(S) == {[seq |-> e.seq, pid |-> e.pid] : e \in S}

LEMMA ViewList ==
  ASSUME NEW S, NEW list \in Seq(S)
  PROVE  /\ View(list) \in Seq(Views(S))
         /\ Len(View(list)) = Len(list)
         /\ \A i \in 1..Len(list) : View(list)[i] = [seq |-> list[i].seq, pid |-> list[i].pid]
  <1>1. DOMAIN list = 1..Len(list) /\ Len(list) \in Nat
    BY LenProperties
  <1>2. \A i \in 1..Len(list) : [seq |-> list[i].seq, pid |-> list[i].pid] \in Views(S)
    <2>1. \A i \in 1..Len(list) : list[i] \in S
      BY ElementOfSeq
    <2> QED
      BY <2>1 DEF Views
  <1>3. View(list) \in [1..Len(list) -> Views(S)]
    BY <1>1, <1>2 DEF View
  <1>4. View(list) \in Seq(Views(S))
    BY <1>1, <1>3, IsASeq
  <1>5. Len(View(list)) = Len(list)
    BY <1>1, <1>3, <1>4, LenProperties
  <1> QED
    BY <1>1, <1>4, <1>5 DEF View

LEMMA ViewAppend ==
  ASSUME NEW S, NEW list \in Seq(S), NEW job \in S
  PROVE  View(Append(list, job)) = Append(View(list), [seq |-> job.seq, pid |-> job.pid])
  <1> DEFINE l == Append(list, job)
             e == [seq |-> job.seq, pid |-> job.pid]
             v == Append(View(list), e)
  <1>1. /\ l \in Seq(S) /\ Len(l) = Len(list) + 1
        /\ \A i \in 1..Len(list) : l[i] = list[i]
        /\ l[Len(list) + 1] = job
        /\ Len(list) \in Nat
    BY AppendProperties, LenProperties
  <1>2. e \in Views(S)
    BY DEF Views
  <1> HIDE DEF l
  <1>3. /\ View(l) \in Seq(Views(S)) /\ Len(View(l)) = Len(list) + 1
        /\ \A i \in 1..Len(l) : View(l)[i] = [seq |-> l[i].seq, pid |-> l[i].pid]
        /\ View(list) \in Seq(Views(S)) /\ Len(View(list)) = Len(list)
        /\ \A i \in 1..Len(list) : View(list)[i] = [seq |-> list[i].seq, pid |-> list[i].pid]
    BY <1>1, ViewList
  <1>4. View(l)[Len(list) + 1] = e
    BY <1>1, <1>3
  <1>5. \A i \in 1..Len(list) : View(l)[i] = View(list)[i]
    BY <1>1, <1>3
  <1> HIDE DEF e
  <1>6. /\ v \in Seq(Views(S)) /\ Len(v) = Len(list) + 1
        /\ \A i \in 1..Len(list) : v[i] = View(list)[i]
        /\ v[Len(list) + 1] = e
    BY <1>2, <1>3, AppendProperties
  <1> HIDE DEF v
  <1>7. \A i \in 1..Len(View(l)) : View(l)[i] = v[i]
    BY <1>1, <1>3, <1>4, <1>5, <1>6
  <1>8. View(l) = v
    BY <1>3, <1>6, <1>7, SeqEqual
  <1> QED
    BY <1>8 DEF l, v, e

LEMMA ViewTail ==
  ASSUME NEW S, NEW list \in Seq(S), list # << >>
  PROVE  /\ View(list) # << >>
         /\ Head(View(list)).seq = list[1].seq
         /\ View(Tail(list)) = Tail(View(list))
  <1> DEFINE l == Tail(list)
             v == Tail(View(list))
  <1>1. /\ l \in Seq(S) /\ Len(l) = Len(list) - 1
        /\ \A i \in 1..Len(l) : l[i] = list[i + 1]
        /\ Len(list) \in Nat /\ Len(list) >= 1
    BY HeadTailProperties, LenProperties, EmptySeq
  <1> HIDE DEF l
  <1>2. /\ View(l) \in Seq(Views(S)) /\ Len(View(l)) = Len(l)
        /\ \A i \in 1..Len(l) : View(l)[i] = [seq |-> l[i].seq, pid |-> l[i].pid]
        /\ View(list) \in Seq(Views(S)) /\ Len(View(list)) = Len(list)
        /\ \A i \in 1..Len(list) : View(list)[i] = [seq |-> list[i].seq, pid |-> list[i].pid]
    BY <1>1, ViewList
  <1>3. View(list) # << >> /\ Head(View(list)) = View(list)[1]
    BY <1>1, <1>2, EmptySeq, HeadTailProperties
  <1>4. /\ v \in Seq(Views(S)) /\ Len(v) = Len(list) - 1
        /\ \A i \in 1..Len(v) : v[i] = View(list)[i + 1]
    BY <1>2, <1>3, HeadTailProperties
  <1> HIDE DEF v
  <1>5. \A i \in 1..Len(View(l)) : View(l)[i] = v[i]
    <2> SUFFICES ASSUME NEW i \in 1..Len(l) PROVE View(l)[i] = v[i]
      BY <1>2
    <2>1. i + 1 \in 1..Len(list) /\ l[i] = list[i + 1] /\ v[i] = View(list)[i + 1]
      BY <1>1, <1>4
    <2> QED
      BY <1>2, <2>1
  <1>6. View(l) = v
    BY <1>1, <1>2, <1>4, <1>5, SeqEqual
  <1>7. 1 \in 1..Len(list)
    BY <1>1
  <1>8. Head(View(list)).seq = list[1].seq
    <2>1. Head(View(list)) = [seq |-> list[1].seq, pid |-> list[1].pid]
      BY <1>2, <1>3, <1>7
    <2> QED
      BY <2>1
  <1> QED
    BY <1>3, <1>6, <1>8 DEF l, v

\* Dropping jobs of a process from a list drops them from its view.
LEMMA ViewFiltered ==
  ASSUME NEW S, NEW list \in Seq(S), NEW pid,
         NEW r \in Filtered(list, {i \in DOMAIN list : list[i].pid # pid})
  PROVE  View(r) \in Filtered(View(list), {i \in DOMAIN View(list) : View(list)[i].pid # pid})
  <1> DEFINE V == View(list)
             K == {i \in DOMAIN list : list[i].pid # pid}
  <1>0. DOMAIN list = 1..Len(list) /\ Len(list) \in Nat
    BY LenProperties
  <1>1. /\ V \in Seq(Views(S)) /\ Len(V) = Len(list)
        /\ \A i \in 1..Len(list) : V[i] = [seq |-> list[i].seq, pid |-> list[i].pid]
    BY ViewList
  <1>2. DOMAIN V = DOMAIN list
    BY DEF View
  <1>3. {i \in DOMAIN V : V[i].pid # pid} = K
    BY <1>0, <1>1, <1>2
  <1>3a. r \in Filtered(list, K) /\ K \subseteq DOMAIN list
    OBVIOUS
  <1> HIDE DEF K
  <1>4. PICK n \in 0..Len(list) : \E f \in [1..n -> K] :
          Enumerates(f, n, K) /\ r = [i \in 1..n |-> list[f[i]]]
    BY <1>3a, FilteredForm
  <1>5. PICK f \in [1..n -> K] : Enumerates(f, n, K) /\ r = [i \in 1..n |-> list[f[i]]]
    BY <1>4
  <1>6. \A i \in 1..n : f[i] \in 1..Len(list)
    BY <1>0, <1>5, <1>3a
  <1>7. View(r) = [i \in 1..n |-> V[f[i]]]
    BY <1>1, <1>5, <1>6 DEF View
  <1> HIDE DEF V
  <1>8. View(r) \in Filtered(V, K)
    <2>1. n \in 0..Len(V) /\ f \in [1..n -> K] /\ Enumerates(f, n, K)
      BY <1>1, <1>4, <1>5
    <2>2. [i \in 1..n |-> V[f[i]]] \in Filtered(V, K)
      BY <2>1, FilteredHas, Zenon
    <2> QED
      BY <1>7, <2>2
  <1> QED
    BY <1>3, <1>8 DEF V

-----------------------------------------------------------------------------
\* A set of natural numbers has a least element.
LEMMA LeastElement ==
  ASSUME NEW S \in SUBSET Nat, S # {}
  PROVE  \E m \in S : \A k \in S : m <= k
  <1> DEFINE R == OpToRel(<, Nat)
  <1>1. IsWellFoundedOn(R, Nat)
    BY NatLessThanWellFounded, Zenon
  <1>2. \A x, y \in Nat : <<x, y>> \in R <=> x < y
    BY DEF OpToRel
  <1> HIDE DEF R
  <1>3. PICK m \in S : \A y \in S : ~(<<y, m>> \in R)
    BY <1>1, WFMin
  <1>4. \A k \in S : ~(k < m)
    BY <1>2, <1>3
  <1>5. \A k \in S : m <= k
    BY <1>4
  <1> QED
    BY <1>5

\* Of n + 1 consecutive numbers one is not among n.
LEMMA FreeNumber ==
  ASSUME NEW used, IsFiniteSet(used), NEW s \in Nat
  PROVE  \E h \in s..s + Cardinality(used) : h \notin used /\ \A k \in s..h - 1 : k \in used
  <1> DEFINE n == Cardinality(used)
             F == {h \in s..s + n : h \notin used}
  <1>1. n \in Nat
    BY FS_CardinalityType
  <1> HIDE DEF n
  <1>2. F # {}
    <2> SUFFICES ASSUME s..s + n \subseteq used PROVE FALSE
      OBVIOUS
    <2>1. Cardinality(s..s + n) = n + 1
      BY <1>1, FS_Interval
    <2>2. Cardinality(s..s + n) <= n
      BY FS_Subset DEF n
    <2> QED
      BY <1>1, <2>1, <2>2
  <1>3. F \in SUBSET Nat
    BY <1>1
  <1>4. PICK m \in F : \A k \in F : m <= k
    BY <1>2, <1>3, LeastElement
  <1>5. \A k \in s..m - 1 : k \in used
    BY <1>1, <1>4
  <1> QED
    BY <1>4, <1>5 DEF n
=============================================================================
