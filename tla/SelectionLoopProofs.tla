--------------------------- MODULE SelectionLoopProofs --------------------------
(***************************************************************************)
(* Proofs about SelectionLoop.tla and IPSelection.tla, for every finite    *)
(* set of addresses: the sort, rotation and walk of Allocate end with the  *)
(* address LastFreeIP names, there is one whenever an address is free, and *)
(* it is the one freed last when that is in the pool and free.             *)
(***************************************************************************)
EXTENDS SelectionLoop, FiniteSetTheorems, SequenceTheorems, TLAPS

W == INSTANCE WellFoundedInduction

USE SelectionAssumption

--------------------------------------------------------------------------------
(* Sorting a finite set of addresses. *)

LEMMA LeastExists ==
    ASSUME NEW T \in SUBSET Nat, T # {}
    PROVE  \E m \in T : \A n \in T : m <= n
<1> DEFINE less == W!OpToRel(<, Nat)
<1>1. W!IsWellFoundedOn(less, Nat)
    BY W!NatLessThanWellFounded
<1>2. PICK m \in T : \A n \in T : ~(<<n, m>> \in less)
    <2> HIDE DEF less
    <2>. QED BY <1>1, W!WFMin
<1>3. \A n \in T : n < m => <<n, m>> \in less
    BY DEF W!OpToRel
<1>4. \A n \in T : ~(n < m)
    <2> HIDE DEF less
    <2>. QED BY <1>2, <1>3
<1>. QED BY <1>4

(* A function on 1..n is a sequence of length n. *)
LEMMA FunctionIsSeq ==
    ASSUME NEW S, NEW n \in Nat, NEW s \in [1..n -> S]
    PROVE  s \in Seq(S) /\ Len(s) = n
<1>1. s \in Seq(S)
    BY SeqDef
<1>2. Len(s) \in Nat /\ 1..Len(s) = 1..n
    BY <1>1, LenProperties
<1>. QED BY <1>1, <1>2

Sortable(p) == \E s \in [1..Cardinality(p) -> p] : Ascending(s)

(* The least address goes in front of the others, sorted. *)
LEMMA SortOneMore ==
    ASSUME NEW p \in SUBSET IP, NEW m \in p, \A a \in p : m <= a,
           Sortable(p \ {m})
    PROVE  Sortable(p)
<1> DEFINE n == Cardinality(p)
<1>1. IsFiniteSet(p)
    BY FS_Subset
<1>2. n \in Nat \ {0} /\ Cardinality(p \ {m}) = n - 1
    BY <1>1, FS_CardinalityType, FS_RemoveElement, FS_EmptySet
<1> HIDE DEF n
<1>3. PICK s \in [1..(n - 1) -> p \ {m}] : Ascending(s)
    BY <1>2 DEF Sortable
<1>4. Len(s) = n - 1
    BY <1>2, FunctionIsSeq
<1> DEFINE t == [k \in 1..n |-> IF k = 1 THEN m ELSE s[k - 1]]
<1>5. t \in [1..n -> p]
    BY <1>2
<1>6. Len(t) = n
    BY <1>2, <1>5, FunctionIsSeq
<1>7. ASSUME NEW j \in 1..n, NEW k \in 1..n, j < k
      PROVE  t[j] < t[k]
    <2>1. k - 1 \in 1..(n - 1) /\ t[k] = s[k - 1]
        BY <1>2, <1>7
    <2>2. CASE j = 1
        <3>1. t[j] = m /\ s[k - 1] \in p \ {m}
            BY <2>1, <2>2
        <3>2. s[k - 1] \in Nat /\ m \in Nat /\ s[k - 1] # m /\ m <= s[k - 1]
            BY <3>1
        <3>. QED BY <2>1, <3>1, <3>2
    <2>3. CASE j # 1
        <3>1. j - 1 \in 1..(n - 1) /\ t[j] = s[j - 1] /\ j - 1 < k - 1
            BY <1>2, <1>7, <2>3
        <3>. QED BY <1>3, <1>4, <2>1, <3>1 DEF Ascending
    <2>. QED BY <2>2, <2>3
<1>8. Ascending(t)
    <2> HIDE DEF t
    <2>. QED BY <1>6, <1>7 DEF Ascending
<1>. QED BY <1>5, <1>8 DEF Sortable, n

LEMMA EverythingSortable ==
    ASSUME NEW p \in SUBSET IP
    PROVE  Sortable(p)
<1> DEFINE Unsorted == {q \in SUBSET IP : ~Sortable(q)}
           sizes == {Cardinality(q) : q \in Unsorted}
<1> SUFFICES ASSUME Unsorted # {} PROVE FALSE
    OBVIOUS
<1>1. \A q \in SUBSET IP : IsFiniteSet(q) /\ Cardinality(q) \in Nat
    BY FS_Subset, FS_CardinalityType
<1>2. sizes \in SUBSET Nat /\ sizes # {}
    BY <1>1
<1>3. PICK q \in Unsorted : \A r \in Unsorted : Cardinality(q) <= Cardinality(r)
    <2>1. PICK n \in sizes : \A m \in sizes : n <= m
        <3> HIDE DEF sizes
        <3>. QED BY <1>2, LeastExists
    <2>. QED BY <2>1
<1>4. q # {}
    <2>1. Sortable({})
        <3>1. Cardinality({}) = 0
            BY FS_EmptySet
        <3>2. <<>> \in [1..0 -> {}] /\ Len(<<>>) = 0
            OBVIOUS
        <3>3. Ascending(<<>>)
            BY <3>2 DEF Ascending
        <3>. QED BY <3>1, <3>2, <3>3 DEF Sortable
    <2>. QED BY <2>1
<1>5. PICK m \in q : \A a \in q : m <= a
    BY <1>4, LeastExists
<1>6. Cardinality(q \ {m}) < Cardinality(q)
    BY <1>1, FS_RemoveElement
<1>7. q \ {m} \in SUBSET IP
    OBVIOUS
<1>8. q \ {m} \notin Unsorted
    BY <1>1, <1>3, <1>6, <1>7
<1>9. Sortable(q \ {m})
    BY <1>7, <1>8
<1>. QED BY <1>5, <1>9, SortOneMore

(* sort.Sort lists the pool in ascending order, each address once. *)
LEMMA SortedListsPool ==
    ASSUME NEW p \in SUBSET IP
    PROVE  /\ SortedIPs(p) \in Seq(p) /\ Ascending(SortedIPs(p))
           /\ Len(SortedIPs(p)) = Cardinality(p)
           /\ \A ip \in p : \E k \in 1..Len(SortedIPs(p)) : SortedIPs(p)[k] = ip
<1> DEFINE s == SortedIPs(p)
           n == Cardinality(p)
<1>1. n \in Nat /\ IsFiniteSet(p)
    BY FS_Subset, FS_CardinalityType
<1>2. s \in [1..n -> p] /\ Ascending(s)
    BY EverythingSortable DEF Sortable, SortedIPs
<1> HIDE DEF s, n
<1>3. s \in Seq(p) /\ Len(s) = n
    BY <1>1, <1>2, FunctionIsSeq
<1>4. \A j, k \in 1..n : s[j] = s[k] => j = k
    <2> SUFFICES ASSUME NEW j \in 1..n, NEW k \in 1..n, j < k
                 PROVE  s[j] # s[k]
        BY <1>1
    <2>1. s[j] \in Nat /\ s[k] \in Nat /\ s[j] < s[k]
        BY <1>2, <1>3 DEF Ascending
    <2>. QED BY <2>1
<1>5. s \in Injection(1..n, p)
    BY <1>2, <1>4 DEF Injection, IsInjective
<1>6. Cardinality(1..n) = n
    BY <1>1, FS_Interval
<1>7. s \in Surjection(1..n, p)
    BY <1>1, <1>5, <1>6, FS_Injection DEF n
<1>. QED BY <1>2, <1>3, <1>7 DEF Surjection, s, n

--------------------------------------------------------------------------------
(* Rotation. *)

LEMMA RotatedElements ==
    ASSUME NEW S, NEW s \in Seq(S), NEW n \in 1..Len(s)
    PROVE  /\ Rotated(s, n) \in Seq(S) /\ Len(Rotated(s, n)) = Len(s)
           /\ \A k \in 1..Len(s) :
                 Rotated(s, n)[k] = IF k <= Len(s) - n THEN s[n + k]
                                    ELSE s[k - (Len(s) - n)]
<1> DEFINE L == Len(s)
           back == SubSeq(s, n + 1, L)
           front == SubSeq(s, 1, n)
<1>1. L \in Nat /\ n \in Nat /\ n <= L /\ \A k \in 1..L : s[k] \in S
    BY ElementOfSeq, LenProperties
<1>2. /\ back \in Seq(S) /\ Len(back) = L - n
      /\ \A k \in 1..(L - n) : back[k] = s[n + k]
    <2>1. \A k \in (n + 1)..L : s[k] \in S
        BY <1>1
    <2>2. n + 1 \in Int /\ L \in Int
        BY <1>1
    <2> HIDE DEF L
    <2>3. /\ back \in Seq(S) /\ Len(back) = IF n + 1 <= L THEN L - (n + 1) + 1 ELSE 0
          /\ \A k \in 1..(L - (n + 1) + 1) : back[k] = s[(n + 1) + k - 1]
        BY <2>1, <2>2, SubSeqProperties
    <2>4. L - (n + 1) + 1 = L - n
        BY <1>1
    <2>5. \A k \in 1..(L - n) : (n + 1) + k - 1 = n + k
        BY <1>1
    <2> HIDE DEF back
    <2>. QED BY <1>1, <2>3, <2>4, <2>5
<1>3. /\ front \in Seq(S) /\ Len(front) = n
      /\ \A k \in 1..n : front[k] = s[k]
    <2>1. \A k \in 1..n : s[k] \in S
        BY <1>1
    <2>2. /\ front \in Seq(S) /\ Len(front) = IF 1 <= n THEN n - 1 + 1 ELSE 0
          /\ \A k \in 1..(n - 1 + 1) : front[k] = s[1 + k - 1]
        BY <1>1, <2>1, SubSeqProperties
    <2>3. n - 1 + 1 = n /\ \A k \in 1..n : 1 + k - 1 = k
        BY <1>1
    <2> HIDE DEF front
    <2>. QED BY <1>1, <2>2, <2>3
<1>4. Rotated(s, n) = back \o front
    BY DEF Rotated
<1> HIDE DEF back, front
<1>5. /\ back \o front \in Seq(S)
      /\ Len(back \o front) = Len(back) + Len(front)
      /\ \A k \in 1..(Len(back) + Len(front)) :
            (back \o front)[k] = IF k <= Len(back) THEN back[k]
                                 ELSE front[k - Len(back)]
    BY <1>2, <1>3, ConcatProperties
<1> HIDE DEF L
<1>6. Len(back) + Len(front) = L
    BY <1>1, <1>2, <1>3
<1>7. ASSUME NEW k \in 1..L
      PROVE  Rotated(s, n)[k] = IF k <= L - n THEN s[n + k] ELSE s[k - (L - n)]
    <2>1. Rotated(s, n)[k] = IF k <= L - n THEN back[k] ELSE front[k - (L - n)]
        BY <1>2, <1>4, <1>5, <1>6
    <2>2. CASE k <= L - n
        BY <1>1, <1>2, <2>1, <2>2
    <2>3. CASE ~(k <= L - n)
        <3>1. k - (L - n) \in 1..n
            BY <1>1, <2>3
        <3>. QED BY <1>3, <2>1, <2>3, <3>1
    <2>. QED BY <2>2, <2>3
<1>. QED BY <1>4, <1>5, <1>6, <1>7 DEF L

LEMMA InitInv == Init => IInv
<1> SUFFICES ASSUME Init PROVE IInv
    OBVIOUS
<1>1. /\ pool \in SUBSET IP /\ ips = SortedIPs(pool) /\ i = 1
      /\ reservedIP = NoIP /\ lastFreed \in IP \union {NoIP}
      /\ used \in SUBSET IP
      /\ loop = IF lastFreed = NoIP THEN "walk" ELSE "rotate"
    BY DEF Init
<1>2. /\ ips \in Seq(pool) /\ Ascending(ips) /\ Len(ips) = Cardinality(pool)
      /\ \A ip \in pool : \E k \in 1..Len(ips) : ips[k] = ip
    BY <1>1, SortedListsPool
<1>3. Len(ips) \in Nat
    BY <1>2, LenProperties
<1>4. TypeOK /\ Listed
    BY <1>1, <1>2, <1>3 DEF TypeOK, Listed
<1>5. RotateInv
    BY <1>1, <1>2 DEF RotateInv
<1>6. WalkInv
    <2> SUFFICES ASSUME loop # "rotate" PROVE WalkInv
        BY DEF WalkInv
    <2>1. lastFreed = NoIP /\ loop = "walk"
        BY <1>1
    <2>2. InOrder
        BY <1>1, <1>2, <2>1 DEF InOrder, Ascending, RotatedBefore
    <2>. QED BY <1>1, <2>1, <2>2 DEF WalkInv
<1>. QED BY <1>4, <1>5, <1>6 DEF IInv

--------------------------------------------------------------------------------
(* The steps. *)

(* What a free slot of the loops' index says: it is one of the slice's.      *)
LEMMA IndexInRange ==
    ASSUME TypeOK
    PROVE  /\ Len(ips) \in Nat /\ i \in Nat \ {0} /\ i <= Len(ips) + 1
           /\ \A k \in 1..Len(ips) : ips[k] \in pool /\ ips[k] \in Nat
<1>1. Len(ips) \in Nat
    BY LenProperties DEF TypeOK
<1>2. \A k \in 1..Len(ips) : ips[k] \in pool
    BY ElementOfSeq DEF TypeOK
<1>3. pool \subseteq Nat
    BY DEF TypeOK
<1>4. i \in Nat \ {0} /\ i <= Len(ips) + 1
    BY <1>1 DEF TypeOK
<1>. QED BY <1>1, <1>2, <1>3, <1>4

(* The rotated slice of a sorted one: what is above the last freed address   *)
(* comes first, and each part stays sorted.                                  *)
LEMMA RotatedInOrder ==
    ASSUME TypeOK, i <= Len(ips), ips[i] = lastFreed, Ascending(ips),
           NEW j \in 1..Len(ips), NEW k \in 1..Len(ips), j < k
    PROVE  RotatedBefore(Rotated(ips, i)[j], Rotated(ips, i)[k], pool, lastFreed)
<1> DEFINE L == Len(ips)
           r == Rotated(ips, i)
<1>1. /\ L \in Nat /\ i \in 1..L /\ \A m \in 1..L : ips[m] \in pool /\ ips[m] \in Nat
    BY IndexInRange
<1>2. \A m \in 1..L : r[m] = IF m <= L - i THEN ips[i + m] ELSE ips[m - (L - i)]
    BY <1>1, RotatedElements DEF TypeOK
<1>3. lastFreed \in pool /\ lastFreed \in Nat
    BY <1>1
<1>4. \A m, n \in 1..L : m < n => ips[m] < ips[n]
    BY DEF Ascending
<1> HIDE DEF L, r
<1>5. ASSUME NEW m \in 1..L, m <= L - i
      PROVE  i + m \in 1..L /\ r[m] = ips[i + m] /\ r[m] > lastFreed /\ r[m] \in Nat
    <2>1. i + m \in 1..L /\ i < i + m
        BY <1>1, <1>5
    <2>2. ips[i] < ips[i + m]
        BY <1>1, <1>4, <2>1
    <2>. QED BY <1>1, <1>2, <1>5, <2>1, <2>2
<1>6. ASSUME NEW m \in 1..L, ~(m <= L - i)
      PROVE  /\ m - (L - i) \in 1..i /\ r[m] = ips[m - (L - i)]
             /\ r[m] <= lastFreed /\ r[m] \in Nat
    <2>1. m - (L - i) \in 1..i /\ m - (L - i) \in 1..L
        BY <1>1, <1>6
    <2>2. r[m] = ips[m - (L - i)] /\ r[m] \in Nat
        BY <1>1, <1>2, <1>6, <2>1
    <2>3. CASE m - (L - i) = i
        BY <2>1, <2>2, <2>3, <1>3
    <2>4. CASE m - (L - i) < i
        BY <1>1, <1>4, <2>1, <2>2, <2>4, <1>3
    <2>. QED BY <1>1, <2>1, <2>2, <2>3, <2>4
<1>7. CASE k <= L - i
    <2>1. j <= L - i
        BY <1>1, <1>7 DEF L
    <2>2. i + j < i + k
        BY <1>1 DEF L
    <2>3. r[j] < r[k]
        BY <1>4, <1>5, <1>7, <2>1, <2>2 DEF L
    <2>. QED BY <1>3, <1>5, <1>7, <2>1, <2>3 DEF RotatedBefore, L, r
<1>8. CASE ~(k <= L - i) /\ j <= L - i
    BY <1>3, <1>5, <1>6, <1>8 DEF RotatedBefore, L, r
<1>9. CASE ~(k <= L - i) /\ ~(j <= L - i)
    <2>1. j - (L - i) < k - (L - i)
        BY <1>1 DEF L
    <2>2. j - (L - i) \in 1..L /\ k - (L - i) \in 1..L
        BY <1>1, <1>6, <1>9 DEF L
    <2>3. r[j] < r[k]
        BY <1>4, <1>6, <1>9, <2>1, <2>2 DEF L
    <2>4. /\ r[j] \in Nat /\ r[k] \in Nat
          /\ r[j] <= lastFreed /\ r[k] <= lastFreed
        BY <1>6, <1>9 DEF L
    <2>. QED BY <1>3, <2>3, <2>4 DEF RotatedBefore, L, r
<1>. QED BY <1>7, <1>8, <1>9

(* In a slice that is in order the last freed address has the last place.    *)
LEMMA LastFreedIsLast ==
    ASSUME TypeOK, InOrder, lastFreed \in pool,
           NEW k \in 1..Len(ips), ips[k] = lastFreed
    PROVE  k = Len(ips)
<1> SUFFICES ASSUME k < Len(ips) PROVE FALSE
    BY IndexInRange
<1>1. Len(ips) \in 1..Len(ips) /\ ips[Len(ips)] \in Nat /\ lastFreed \in Nat
    BY IndexInRange
<1>2. RotatedBefore(lastFreed, ips[Len(ips)], pool, lastFreed)
    BY <1>1 DEF InOrder
<1>. QED BY <1>1, <1>2 DEF RotatedBefore

LEMMA RotateKeeps ==
    ASSUME IInv, Rotate
    PROVE  IInv'
<1>1. /\ loop = "rotate" /\ i <= Len(ips) /\ i' = i + 1
      /\ UNCHANGED <<pool, used, lastFreed, loop, reservedIP>>
    BY DEF Rotate, inputs
<1>2. /\ TypeOK /\ Len(ips) = Cardinality(pool)
      /\ \A ip \in pool : \E k \in 1..Len(ips) : ips[k] = ip
    BY DEF IInv, Listed
<1>3. Len(ips) \in Nat /\ i \in 1..Len(ips)
    BY <1>1, <1>2, IndexInRange
<1>4. /\ lastFreed # NoIP /\ reservedIP = NoIP
      /\ \/ Ascending(ips) /\ \A k \in 1..(i - 1) : ips[k] # lastFreed
         \/ InOrder /\ lastFreed \in pool
    BY <1>1 DEF IInv, RotateInv
<1>5. CASE ips[i] # lastFreed
    <2>1. ips' = ips
        BY <1>5 DEF Rotate
    <2>2. TypeOK' /\ Listed'
        BY <1>1, <1>2, <1>3, <2>1 DEF TypeOK, Listed
    <2>3. RotateInv'
        <3>1. CASE Ascending(ips) /\ \A k \in 1..(i - 1) : ips[k] # lastFreed
            <4>1. \A k \in 1..(i' - 1) : k = i \/ k \in 1..(i - 1)
                BY <1>1, <1>3
            <4>2. Ascending(ips)' /\ \A k \in 1..(i' - 1) : ips'[k] # lastFreed'
                BY <1>1, <1>5, <2>1, <3>1, <4>1 DEF Ascending
            <4>. QED BY <1>1, <1>4, <4>2 DEF RotateInv
        <3>2. CASE InOrder /\ lastFreed \in pool
            BY <1>1, <1>4, <2>1, <3>2 DEF RotateInv, InOrder
        <3>. QED BY <1>4, <3>1, <3>2
    <2>4. WalkInv'
        BY <1>1 DEF WalkInv
    <2>. QED BY <2>2, <2>3, <2>4 DEF IInv
<1>6. CASE ips[i] = lastFreed
    <2>1. ips' = Rotated(ips, i)
        BY <1>6 DEF Rotate
    <2>2. /\ ips' \in Seq(pool) /\ Len(ips') = Len(ips)
          /\ \A k \in 1..Len(ips) :
                ips'[k] = IF k <= Len(ips) - i THEN ips[i + k]
                          ELSE ips[k - (Len(ips) - i)]
        BY <1>2, <1>3, <2>1, RotatedElements DEF TypeOK
    <2>3. TypeOK'
        BY <1>1, <1>2, <1>3, <2>2 DEF TypeOK
    <2>4. Listed'
        <3>1. ASSUME NEW k \in 1..Len(ips)
              PROVE  \E m \in 1..Len(ips) : ips'[m] = ips[k]
            <4>1. CASE k <= i
                <5>1. PICK m \in 1..Len(ips) :
                         ~(m <= Len(ips) - i) /\ m - (Len(ips) - i) = k
                    <6>1. k + (Len(ips) - i) \in 1..Len(ips)
                        BY <1>3, <4>1
                    <6>. QED BY <1>3, <6>1
                <5>. QED BY <2>2, <5>1
            <4>2. CASE k > i
                <5>1. k - i \in 1..Len(ips) /\ k - i <= Len(ips) - i
                      /\ i + (k - i) = k
                    BY <1>3, <4>2
                <5>. QED BY <2>2, <5>1
            <4>. QED BY <1>3, <4>1, <4>2
        <3>. QED BY <1>1, <1>2, <2>2, <3>1 DEF Listed
    <2>5. lastFreed \in pool
        BY <1>2, <1>3, <1>6, IndexInRange
    <2>6. InOrder'
        <3>1. CASE Ascending(ips)
            <4>1. \A j, k \in 1..Len(ips) : j < k =>
                     RotatedBefore(ips'[j], ips'[k], pool, lastFreed)
                BY <1>1, <1>2, <1>6, <2>1, <3>1, RotatedInOrder
            <4>. QED BY <1>1, <2>2, <4>1 DEF InOrder
        <3>2. CASE InOrder /\ lastFreed \in pool
            <4>1. i = Len(ips)
                BY <1>2, <1>3, <1>6, <3>2, LastFreedIsLast
            <4>2. \A k \in 1..Len(ips) : ~(k <= Len(ips) - i)
                                         /\ k - (Len(ips) - i) = k
                BY <1>3, <4>1
            <4>3. \A k \in 1..Len(ips) : ips'[k] = ips[k]
                BY <2>2, <4>2
            <4>. QED BY <1>1, <2>2, <3>2, <4>3 DEF InOrder
        <3>. QED BY <1>4, <3>1, <3>2
    <2>7. RotateInv'
        BY <1>1, <1>4, <2>5, <2>6 DEF RotateInv
    <2>8. WalkInv'
        BY <1>1 DEF WalkInv
    <2>. QED BY <2>3, <2>4, <2>7, <2>8 DEF IInv
<1>. QED BY <1>5, <1>6

LEMMA EndRotateKeeps ==
    ASSUME IInv, EndRotate
    PROVE  IInv'
<1>1. /\ loop = "rotate" /\ i > Len(ips) /\ loop' = "walk" /\ i' = 1
      /\ UNCHANGED <<pool, used, lastFreed, ips, reservedIP>>
    BY DEF EndRotate, inputs
<1>2. TypeOK /\ Listed
    BY DEF IInv
<1>3. Len(ips) \in Nat /\ \A k \in 1..Len(ips) : ips[k] \in Nat /\ k \in 1..(i - 1)
    BY <1>1, <1>2, IndexInRange
<1>4. TypeOK' /\ Listed'
    BY <1>1, <1>2, <1>3 DEF TypeOK, Listed
<1>5. /\ reservedIP = NoIP
      /\ \/ Ascending(ips) /\ \A k \in 1..(i - 1) : ips[k] # lastFreed
         \/ InOrder /\ lastFreed \in pool
    BY <1>1 DEF IInv, RotateInv
<1>6. InOrder
    <2> SUFFICES ASSUME Ascending(ips), \A k \in 1..(i - 1) : ips[k] # lastFreed
                 PROVE  InOrder
        BY <1>5
    <2>1. lastFreed \notin pool
        BY <1>2, <1>3 DEF Listed
    <2>. QED BY <2>1 DEF InOrder, Ascending, RotatedBefore
<1>7. WalkInv'
    <2>1. InOrder'
        BY <1>1, <1>6 DEF InOrder
    <2>. QED BY <1>1, <1>5, <2>1 DEF WalkInv
<1>8. RotateInv'
    BY <1>1 DEF RotateInv
<1>. QED BY <1>4, <1>7, <1>8 DEF IInv

LEMMA WalkKeeps ==
    ASSUME IInv, Walk
    PROVE  IInv'
<1>1. /\ loop = "walk" /\ i <= Len(ips) /\ i' = i + 1
      /\ reservedIP' = IF ips[i] \in used THEN reservedIP ELSE ips[i]
      /\ UNCHANGED <<pool, used, lastFreed, loop, ips>>
    BY DEF Walk, inputs, Candidate
<1>2. TypeOK /\ Listed
    BY DEF IInv
<1>3. /\ Len(ips) \in Nat /\ i \in 1..Len(ips)
      /\ ips[i] \in pool /\ ips[i] # NoIP
    BY <1>1, <1>2, IndexInRange DEF TypeOK
<1>4. TypeOK' /\ Listed'
    BY <1>1, <1>2, <1>3 DEF TypeOK, Listed
<1>5. /\ InOrder
      /\ IF reservedIP = NoIP
           THEN \A k \in 1..(i - 1) : ips[k] \in used
           ELSE \E j \in 1..(i - 1) :
                   /\ ips[j] = reservedIP /\ reservedIP \notin used
                   /\ \A k \in (j + 1)..(i - 1) : ips[k] \in used
    BY <1>1 DEF IInv, WalkInv
<1>6. InOrder'
    BY <1>1, <1>5 DEF InOrder
<1>7. IF reservedIP' = NoIP
        THEN \A k \in 1..(i' - 1) : ips[k] \in used
        ELSE \E j \in 1..(i' - 1) :
                /\ ips[j] = reservedIP' /\ reservedIP' \notin used
                /\ \A k \in (j + 1)..(i' - 1) : ips[k] \in used
    <2>1. CASE ips[i] \notin used
        <3>1. i \in 1..(i' - 1) /\ (i + 1)..(i' - 1) = {}
            BY <1>1, <1>3
        <3>. QED BY <1>1, <1>3, <2>1, <3>1
    <2>2. CASE ips[i] \in used /\ reservedIP = NoIP
        <3>1. \A k \in 1..(i' - 1) : k = i \/ k \in 1..(i - 1)
            BY <1>1, <1>3
        <3>. QED BY <1>1, <1>5, <2>2, <3>1
    <2>3. CASE ips[i] \in used /\ reservedIP # NoIP
        <3>1. PICK j \in 1..(i - 1) :
                 /\ ips[j] = reservedIP /\ reservedIP \notin used
                 /\ \A k \in (j + 1)..(i - 1) : ips[k] \in used
            BY <1>5, <2>3
        <3>2. j \in 1..(i' - 1)
              /\ \A k \in (j + 1)..(i' - 1) : k = i \/ k \in (j + 1)..(i - 1)
            BY <1>1, <1>3
        <3>. QED BY <1>1, <2>3, <3>1, <3>2
    <2>. QED BY <2>1, <2>2, <2>3
<1>8. WalkInv'
    BY <1>1, <1>6, <1>7 DEF WalkInv
<1>9. RotateInv'
    BY <1>1 DEF RotateInv
<1>. QED BY <1>4, <1>8, <1>9 DEF IInv

LEMMA EndWalkKeeps ==
    ASSUME IInv, EndWalk
    PROVE  IInv'
<1>1. /\ loop = "walk" /\ i > Len(ips) /\ loop' = "done"
      /\ UNCHANGED <<pool, used, lastFreed, ips, i, reservedIP>>
    BY DEF EndWalk, inputs
<1>2. TypeOK' /\ Listed'
    BY <1>1 DEF IInv, TypeOK, Listed
<1>3. i = Len(ips) + 1
    BY <1>1, IndexInRange DEF IInv
<1>4. WalkInv' /\ RotateInv'
    BY <1>1, <1>3 DEF IInv, WalkInv, RotateInv, InOrder
<1>. QED BY <1>2, <1>4 DEF IInv

--------------------------------------------------------------------------------
(* The loops of Allocate (allocator.go:104-137) keep the slice a listing of  *)
(* the pool, in the rotated order once the first loop is over, and hold the  *)
(* last free address of what the second has walked.                          *)
THEOREM Invariance == Spec => []IInv
<1>1. Init => IInv
    BY InitInv
<1>2. IInv /\ [Next]_vars => IInv'
    <2> SUFFICES ASSUME IInv, [Next]_vars PROVE IInv'
        OBVIOUS
    <2>1. CASE UNCHANGED vars
        BY <2>1 DEF vars, inputs, IInv, TypeOK, Listed, RotateInv, WalkInv,
           InOrder
    <2>. QED BY <2>1, RotateKeeps, EndRotateKeeps, WalkKeeps, EndWalkKeeps
             DEF Next
<1>. QED BY <1>1, <1>2, PTL DEF Spec

LEMMA OrderIsAsymmetric ==
    ASSUME NEW a \in Nat, NEW b \in Nat, NEW p \in SUBSET Nat, NEW f,
           RotatedBefore(a, b, p, f), RotatedBefore(b, a, p, f)
    PROVE  FALSE
<1>1. CASE f \in p
    BY <1>1 DEF RotatedBefore
<1>2. CASE f \notin p
    BY <1>2 DEF RotatedBefore
<1>. QED BY <1>1, <1>2

(* No two addresses are both the one to hand out. *)
LEMMA OneAtMost ==
    ASSUME NEW p \in SUBSET Nat, NEW u, NEW f,
           NEW a \in LastFreeIP(p, u, f), NEW b \in LastFreeIP(p, u, f)
    PROVE  a = b
<1> SUFFICES ASSUME a # b PROVE FALSE
    OBVIOUS
<1>1. RotatedBefore(a, b, p, f) /\ RotatedBefore(b, a, p, f)
    BY DEF LastFreeIP
<1>2. a \in Nat /\ b \in Nat
    BY DEF LastFreeIP
<1>. QED BY <1>1, <1>2, OrderIsAsymmetric

(* The walk, when it is over, has found the address the set-based definition *)
(* of the allocator's model names, and none when every address of the pool   *)
(* is taken.                                                                 *)
THEOREM SelectsLastFree == Spec => []SelectionAgrees
<1>1. IInv => SelectionAgrees
    <2> SUFFICES ASSUME IInv, loop = "done"
                 PROVE  LastFreeIP(pool, used, lastFreed) = {reservedIP} \ {NoIP}
        BY DEF SelectionAgrees
    <2>1. TypeOK /\ Listed /\ InOrder /\ i = Len(ips) + 1
        BY DEF IInv, WalkInv
    <2>2. Len(ips) \in Nat /\ \A k \in 1..Len(ips) : k \in 1..(i - 1)
                                                     /\ ips[k] \in pool
        BY <2>1, IndexInRange
    <2>3. CASE reservedIP = NoIP
        <3>1. \A k \in 1..(i - 1) : ips[k] \in used
            BY <2>3 DEF IInv, WalkInv
        <3>2. \A ip \in pool : ip \in used
            BY <2>1, <2>2, <3>1 DEF Listed
        <3>. QED BY <2>3, <3>2 DEF LastFreeIP
    <2>4. CASE reservedIP # NoIP
        <3>1. PICK j \in 1..(i - 1) :
                 /\ ips[j] = reservedIP /\ reservedIP \notin used
                 /\ \A k \in (j + 1)..(i - 1) : ips[k] \in used
            BY <2>4 DEF IInv, WalkInv
        <3>2. j \in 1..Len(ips)
            BY <2>1, <2>2
        <3>3. ASSUME NEW other \in (pool \ used) \ {reservedIP}
              PROVE  RotatedBefore(other, reservedIP, pool, lastFreed)
            <4>1. PICK k \in 1..Len(ips) : ips[k] = other
                BY <2>1 DEF Listed
            <4>2. ~(k \in (j + 1)..(i - 1)) /\ k # j
                BY <3>1, <4>1
            <4>3. k < j
                BY <2>1, <2>2, <3>2, <4>2
            <4>. QED BY <2>1, <3>1, <3>2, <4>1, <4>3 DEF InOrder
        <3>4. reservedIP \in LastFreeIP(pool, used, lastFreed)
            BY <2>2, <3>1, <3>2, <3>3 DEF LastFreeIP
        <3>5. pool \in SUBSET Nat
            BY <2>1 DEF TypeOK
        <3>6. LastFreeIP(pool, used, lastFreed) = {reservedIP}
            BY <3>4, <3>5, OneAtMost
        <3>. QED BY <2>4, <3>6
    <2>. QED BY <2>3, <2>4
<1>. QED BY <1>1, Invariance, PTL

(* The slice Allocate walks holds each address of the pool once, with the    *)
(* last freed one in last place: a rotation in the middle of its own loop    *)
(* neither loses nor repeats an address.                                     *)
THEOREM SliceIsPool == Spec => []RotationKeepsPool
<1>1. IInv => RotationKeepsPool
    <2> SUFFICES ASSUME IInv PROVE RotationKeepsPool
        OBVIOUS
    <2>1. TypeOK /\ Listed
        BY DEF IInv
    <2>2. {ips[k] : k \in 1..Len(ips)} = pool
        BY <2>1, IndexInRange DEF Listed
    <2>3. ASSUME loop # "rotate", lastFreed \in pool
          PROVE  ips[Len(ips)] = lastFreed
        <3>1. PICK k \in 1..Len(ips) : ips[k] = lastFreed
            BY <2>1, <2>3 DEF Listed
        <3>2. InOrder
            BY <2>3 DEF IInv, WalkInv
        <3>. QED BY <2>1, <2>3, <3>1, <3>2, LastFreedIsLast
    <2>. QED BY <2>1, <2>2, <2>3 DEF RotationKeepsPool, Listed
<1>. QED BY <1>1, Invariance, PTL

--------------------------------------------------------------------------------
(* What the definition means for Allocate.                                   *)

LEMMA GreatestExists ==
    ASSUME NEW p \in SUBSET IP, p # {}
    PROVE  \E m \in p : \A a \in p : a <= m
<1>1. /\ SortedIPs(p) \in Seq(p) /\ Ascending(SortedIPs(p))
      /\ \A ip \in p : \E k \in 1..Len(SortedIPs(p)) : SortedIPs(p)[k] = ip
    BY SortedListsPool
<1> DEFINE s == SortedIPs(p)
           L == Len(s)
<1>2. L \in Nat /\ \A k \in 1..L : s[k] \in p
    BY <1>1, LenProperties, ElementOfSeq
<1>3. \A j, k \in 1..L : j < k => s[j] < s[k]
    BY <1>1 DEF Ascending
<1>4. \A ip \in p : \E k \in 1..L : s[k] = ip
    BY <1>1
<1> HIDE DEF s, L
<1>5. L \in 1..L
    <2>1. PICK k \in 1..L : s[k] \in p
        BY <1>4
    <2>. QED BY <1>2, <2>1
<1>6. ASSUME NEW a \in p PROVE a <= s[L]
    <2>1. PICK k \in 1..L : s[k] = a
        BY <1>4
    <2>2. a \in Nat /\ s[L] \in Nat
        BY <1>2, <1>5
    <2>3. CASE k = L
        BY <2>1, <2>2, <2>3
    <2>4. CASE k # L
        BY <1>2, <1>3, <1>5, <2>1, <2>2, <2>4
    <2>. QED BY <2>3, <2>4
<1>. QED BY <1>2, <1>5, <1>6

(* Allocate finds an address whenever the pool has a free one, and only one  *)
(* can be meant: the walk never ends empty-handed on a pool that is not full *)
(* (allocator.go:139).                                                       *)
THEOREM FreeIsFound ==
    ASSUME NEW p \in SUBSET IP, NEW u, NEW f \in IP \union {NoIP}, p \ u # {}
    PROVE  \E ip \in p \ u : LastFreeIP(p, u, f) = {ip}
<1>1. p \in SUBSET Nat
    OBVIOUS
<1>2. \E ip : ip \in LastFreeIP(p, u, f)
    <2>1. CASE f \in p /\ \E a \in p \ u : a <= f
        <3> DEFINE below == {a \in p \ u : a <= f}
        <3>1. PICK m \in below : \A a \in below : a <= m
            <4>1. below \in SUBSET IP /\ below # {}
                BY <2>1
            <4> HIDE DEF below
            <4>. QED BY <4>1, GreatestExists
        <3>2. ASSUME NEW a \in p \ u, a # m
              PROVE  RotatedBefore(a, m, p, f)
            <4>1. /\ a \in Nat /\ m \in Nat /\ f \in Nat /\ m <= f
                  /\ a <= f => a <= m
                BY <2>1, <3>1, <3>2
            <4>. QED BY <2>1, <3>2, <4>1 DEF RotatedBefore
        <3>. QED BY <3>2 DEF LastFreeIP
    <2>2. CASE ~(f \in p /\ \E a \in p \ u : a <= f)
        <3>1. PICK m \in p \ u : \A a \in p \ u : a <= m
            <4>1. p \ u \in SUBSET IP
                OBVIOUS
            <4>. QED BY <4>1, GreatestExists
        <3>2. \A a \in p \ u : a # m => RotatedBefore(a, m, p, f)
            <4>1. CASE f \notin p
                BY <1>1, <3>1, <4>1 DEF RotatedBefore
            <4>2. CASE f \in p /\ \A a \in p \ u : ~(a <= f)
                BY <1>1, <3>1, <4>2 DEF RotatedBefore
            <4>. QED BY <2>2, <4>1, <4>2
        <3>. QED BY <3>2 DEF LastFreeIP
    <2>. QED BY <2>1, <2>2
<1>3. LastFreeIP(p, u, f) \subseteq p \ u
    BY DEF LastFreeIP
<1>4. PICK ip : ip \in LastFreeIP(p, u, f)
    BY <1>2
<1>5. LastFreeIP(p, u, f) = {ip}
    BY <1>1, <1>4, OneAtMost
<1>. QED BY <1>3, <1>4, <1>5

(* The address freed last is the one that is handed out next as long as it   *)
(* is free and in the pool: moved to the end of the slice, it is the last    *)
(* free address of a walk without a break (allocator.go:115-137).            *)
THEOREM FreedComesBack ==
    ASSUME NEW p \in SUBSET IP, NEW u, NEW f \in p \ u
    PROVE  LastFreeIP(p, u, f) = {f}
<1>1. p \in SUBSET Nat
    OBVIOUS
<1>2. \A a \in p \ u : a # f => RotatedBefore(a, f, p, f)
    BY <1>1 DEF RotatedBefore
<1>3. f \in LastFreeIP(p, u, f)
    BY <1>2 DEF LastFreeIP
<1>. QED BY <1>1, <1>3, OneAtMost
================================================================================
