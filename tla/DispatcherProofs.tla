-------------------------- MODULE DispatcherProofs --------------------------
(***************************************************************************)
(* Proofs about Dispatcher for any prefixes, handlers and bounds.          *)
(***************************************************************************)
EXTENDS Dispatcher, SequenceTheorems, FiniteSetTheorems, TLAPS

Entries == [data : Data, fresh : BOOLEAN]
Calling == [set : BOOLEAN, top : TopPrefixes, rel : Rels]
Filters == [top : TopPrefixes, rel : Rels]

-----------------------------------------------------------------------------
(* Sequences and sets.                                                     *)

LEMMA TailSet ==
    ASSUME NEW S, NEW s \in Seq(S), s # <<>>
    PROVE  /\ Tail(s) \in Seq(S) /\ Head(s) \in S
           /\ Len(s) = Len(Tail(s)) + 1 /\ Len(Tail(s)) \in Nat
           /\ ToSet(s) = {Head(s)} \cup ToSet(Tail(s))
<1> DEFINE n == Len(Tail(s))
<1>1. /\ Tail(s) \in Seq(S) /\ Head(s) \in S /\ n \in Nat /\ Len(s) = n + 1
      /\ s[1] = Head(s) /\ \A i \in 1 .. n : Tail(s)[i] = s[i + 1]
      /\ DOMAIN s = 1 .. n + 1 /\ DOMAIN Tail(s) = 1 .. n
  BY HeadTailProperties, LenProperties
<1>2. \A x : x \in ToSet(s) <=> x = Head(s) \/ x \in ToSet(Tail(s))
  <2> TAKE x
  <2>1. ASSUME NEW i \in 1 .. n + 1, s[i] = x PROVE x = Head(s) \/ x \in ToSet(Tail(s))
    <3>1. CASE i = 1
      BY <1>1, <2>1, <3>1
    <3>2. CASE i # 1
      <4>1. i - 1 \in 1 .. n /\ Tail(s)[i - 1] = s[(i - 1) + 1] /\ (i - 1) + 1 = i
        BY <1>1, <3>2
      <4> QED BY <1>1, <2>1, <4>1 DEF ToSet
    <3> QED BY <3>1, <3>2
  <2>2. ASSUME NEW i \in 1 .. n, Tail(s)[i] = x PROVE x \in ToSet(s)
    BY <1>1, <2>2 DEF ToSet
  <2>3. Head(s) \in ToSet(s)
    <3>1. 1 \in DOMAIN s
      BY <1>1
    <3> QED BY <1>1, <3>1 DEF ToSet
  <2> QED BY <1>1, <2>1, <2>2, <2>3 DEF ToSet
<1> QED BY <1>1, <1>2

LEMMA AppendSet ==
    ASSUME NEW S, NEW s \in Seq(S), NEW e \in S
    PROVE  /\ Append(s, e) \in Seq(S) /\ ToSet(Append(s, e)) = ToSet(s) \cup {e}
<1>1. /\ Append(s, e) \in Seq(S) /\ Len(s) \in Nat /\ DOMAIN s = 1 .. Len(s)
      /\ DOMAIN Append(s, e) = 1 .. Len(s) + 1 /\ Append(s, e)[Len(s) + 1] = e
      /\ \A i \in 1 .. Len(s) : Append(s, e)[i] = s[i]
  BY AppendProperties, LenProperties
<1>2. \A i \in 1 .. Len(s) + 1 : i \in 1 .. Len(s) \/ i = Len(s) + 1
  BY <1>1
<1>3. Len(s) + 1 \in 1 .. Len(s) + 1 /\ 1 .. Len(s) \subseteq 1 .. Len(s) + 1
  BY <1>1
<1> QED BY <1>1, <1>2, <1>3 DEF ToSet

LEMMA ConcatSet ==
    ASSUME NEW S, NEW s \in Seq(S), NEW t \in Seq(S)
    PROVE  /\ s \o t \in Seq(S) /\ Len(s \o t) = Len(s) + Len(t)
           /\ ToSet(s \o t) = ToSet(s) \cup ToSet(t)
<1> DEFINE m == Len(s)
           n == Len(t)
<1>1. /\ s \o t \in Seq(S) /\ Len(s \o t) = m + n /\ m \in Nat /\ n \in Nat
      /\ DOMAIN s = 1 .. m /\ DOMAIN t = 1 .. n /\ DOMAIN (s \o t) = 1 .. m + n
      /\ \A i \in 1 .. m + n : (s \o t)[i] = IF i <= m THEN s[i] ELSE t[i - m]
  BY ConcatProperties, LenProperties
<1>2. \A x \in ToSet(s \o t) : x \in ToSet(s) \cup ToSet(t)
  <2> HIDE DEF m, n
  <2> SUFFICES ASSUME NEW i \in 1 .. m + n PROVE (s \o t)[i] \in ToSet(s) \cup ToSet(t)
    BY <1>1 DEF ToSet
  <2>1. CASE i <= m
    BY <1>1, <2>1 DEF ToSet
  <2>2. CASE ~(i <= m)
    <3>1. i - m \in 1 .. n
      BY <1>1, <2>2
    <3> QED BY <1>1, <2>2, <3>1 DEF ToSet
  <2> QED BY <2>1, <2>2
<1>3. \A x \in ToSet(s) \cup ToSet(t) : x \in ToSet(s \o t)
  <2> HIDE DEF m, n
  <2>1. \A i \in 1 .. m : s[i] \in ToSet(s \o t)
    <3> TAKE i \in 1 .. m
    <3>1. i \in 1 .. m + n /\ (s \o t)[i] = s[i]
      BY <1>1
    <3> QED BY <1>1, <3>1 DEF ToSet
  <2>2. \A i \in 1 .. n : t[i] \in ToSet(s \o t)
    <3> TAKE i \in 1 .. n
    <3>1. i + m \in 1 .. m + n /\ (i + m) - m = i /\ ~(i + m <= m)
      BY <1>1
    <3>2. (s \o t)[i + m] = t[i]
      BY <1>1, <3>1
    <3> QED BY <1>1, <3>1, <3>2 DEF ToSet
  <2> QED BY <1>1, <2>1, <2>2 DEF ToSet
<1> QED BY <1>1, <1>2, <1>3

\* An enumeration of a finite set has each of its elements once.
LEMMA Enumeration ==
    ASSUME NEW S, IsFiniteSet(S)
    PROVE  LET s == SetToSeq(S) IN
           /\ s \in Seq(S) /\ Len(s) \in Nat /\ DOMAIN s = 1 .. Len(s)
           /\ ToSet(s) = S /\ IsInjective(s)
<1> DEFINE n == Cardinality(S)
           s == SetToSeq(S)
<1>1. n \in Nat /\ \E f \in [1 .. n -> S] : IsInjective(f)
  <2>1. n \in Nat /\ ExistsBijection(1 .. n, S)
    BY FS_CardinalityType
  <2> QED BY <2>1 DEF ExistsBijection, Bijection, Injection
<1>2. s \in Injection(1 .. n, S)
  BY <1>1 DEF SetToSeq, Injection
<1>3. IsFiniteSet(1 .. n) /\ Cardinality(1 .. n) = n
  BY <1>1, FS_Interval
<1>4. s \in Surjection(1 .. n, S)
  BY <1>2, <1>3, FS_Injection
<1>5. /\ s \in [1 .. n -> S] /\ IsInjective(s)
      /\ \A x \in S : \E i \in 1 .. n : s[i] = x
  BY <1>2, <1>4 DEF Injection, Surjection
<1>6. s \in Seq(S) /\ Len(s) = n /\ DOMAIN s = 1 .. n
  BY <1>1, <1>5, SeqDef, LenProperties
<1> HIDE DEF s, n
<1>7. ToSet(s) = S
  BY <1>5, <1>6 DEF ToSet
<1> QED BY <1>1, <1>5, <1>6, <1>7 DEF s

\* RemoveFirst takes away one occurrence, where there is one.
LEMMA FirstRemoved ==
    ASSUME NEW S, NEW s \in Seq(S), NEW e, IsInjective(s)
    PROVE  LET r == RemoveFirst(s, e) IN
           /\ r \in Seq(S) /\ IsInjective(r) /\ ToSet(r) = ToSet(s) \ {e}
<1> DEFINE r == RemoveFirst(s, e)
           n == Len(s)
<1>0. n \in Nat /\ DOMAIN s = 1 .. n /\ \A i \in 1 .. n : s[i] \in S
  BY LenProperties, ElementOfSeq
<1>1. CASE ~\E i \in 1 .. n : s[i] = e
  <2>1. r = s
    BY <1>1 DEF RemoveFirst
  <2> QED BY <1>0, <1>1, <2>1 DEF ToSet
<1>2. CASE \E i \in 1 .. n : s[i] = e
  <2>1. PICK k \in 1 .. n : s[k] = e
    BY <1>2
  <2>2. r = RemoveAt(s, SelectInSeq(s, LAMBDA v : v = e))
    BY <1>2 DEF RemoveFirst
  <2>3. {i \in 1 .. n : s[i] = e} = {k}
    BY <1>0, <2>1 DEF IsInjective
  <2>4. SelectInSeq(s, LAMBDA v : v = e) = Min({k})
    <3>1. SelectInSeq(s, LAMBDA v : v = e) =
            LET I == {i \in 1 .. n : s[i] = e} IN IF I # {} THEN Min(I) ELSE 0
      BY DEF SelectInSeq
    <3> QED BY <2>3, <3>1
  <2>5. Min({k}) = k
    BY DEF Min
  <2>6. r = SubSeq(s, 1, k - 1) \o SubSeq(s, k + 1, n)
    BY <2>2, <2>4, <2>5 DEF RemoveAt
  <2> DEFINE a == SubSeq(s, 1, k - 1)
             b == SubSeq(s, k + 1, n)
  <2>7. /\ a \in Seq(S) /\ Len(a) = k - 1 /\ \A i \in 1 .. k - 1 : a[i] = s[i]
    BY <1>0, SubSeqProperties
  <2>8. /\ b \in Seq(S) /\ Len(b) = n - k /\ \A i \in 1 .. n - k : b[i] = s[k + i]
    <3>1. /\ b \in Seq(S)
          /\ Len(b) = IF k + 1 <= n THEN n - (k + 1) + 1 ELSE 0
          /\ \A i \in 1 .. n - (k + 1) + 1 : b[i] = s[(k + 1) + i - 1]
      <4>1. k + 1 \in Int /\ n \in Int /\ \A i \in k + 1 .. n : s[i] \in S
        BY <1>0
      <4> QED BY <4>1, SubSeqProperties
    <3>2. n - (k + 1) + 1 = n - k
      BY <1>0
    <3>3. \A i \in 1 .. n - k : (k + 1) + i - 1 = k + i
      BY <1>0
    <3> HIDE DEF b, n
    <3>4. Len(b) = n - k
      BY <1>0, <3>1
    <3>5. \A i \in 1 .. n - k : b[i] = s[k + i]
      BY <3>1, <3>2, <3>3
    <3> QED BY <3>1, <3>4, <3>5
  <2> HIDE DEF a, b
  <2>9. /\ r \in Seq(S) /\ Len(r) = n - 1
        /\ \A i \in 1 .. n - 1 : r[i] = IF i <= k - 1 THEN a[i] ELSE b[i - (k - 1)]
    <3>1. (k - 1) + (n - k) = n - 1
      BY <1>0
    <3>2. r = a \o b
      BY <2>6 DEF a, b
    <3> HIDE DEF r, n
    <3>3. /\ a \o b \in Seq(S) /\ Len(a \o b) = Len(a) + Len(b)
          /\ \A i \in 1 .. Len(a) + Len(b) :
                (a \o b)[i] = IF i <= Len(a) THEN a[i] ELSE b[i - Len(a)]
      BY <2>7, <2>8, ConcatProperties
    <3> QED BY <2>7, <2>8, <3>1, <3>2, <3>3
  <2>10. \A i \in 1 .. n - 1 : r[i] = IF i < k THEN s[i] ELSE s[i + 1]
    <3> TAKE i \in 1 .. n - 1
    <3>1. CASE i < k
      BY <1>0, <2>7, <2>9, <3>1
    <3>2. CASE ~(i < k)
      <4>1. i - (k - 1) \in 1 .. n - k /\ k + (i - (k - 1)) = i + 1 /\ ~(i <= k - 1)
        BY <1>0, <3>2
      <4> QED BY <2>8, <2>9, <3>2, <4>1
    <3> QED BY <3>1, <3>2
  <2>11. DOMAIN r = 1 .. n - 1
    BY <2>9, LenProperties
  <2> HIDE DEF r, n
  <2>12. IsInjective(r)
    BY <1>0, <2>10, <2>11 DEF IsInjective
  <2>13. \A i \in 1 .. n - 1 : r[i] \in ToSet(s) \ {e}
    <3> TAKE i \in 1 .. n - 1
    <3> DEFINE j == IF i < k THEN i ELSE i + 1
    <3>1. j \in 1 .. n /\ j # k /\ r[i] = s[j]
      BY <1>0, <2>10
    <3> QED BY <1>0, <2>1, <3>1 DEF IsInjective, ToSet
  <2>14. \A j \in 1 .. n : s[j] # e => s[j] \in ToSet(r)
    <3> TAKE j \in 1 .. n
    <3> HAVE s[j] # e
    <3> DEFINE i == IF j < k THEN j ELSE j - 1
    <3>1. i \in 1 .. n - 1 /\ r[i] = s[j]
      BY <1>0, <2>1, <2>10
    <3> QED BY <2>11, <3>1 DEF ToSet
  <2> QED BY <1>0, <2>9, <2>11, <2>12, <2>13, <2>14 DEF ToSet, r
<1> QED BY <1>1, <1>2

-----------------------------------------------------------------------------
(* The helpers of Dispatcher.                                              *)

LEMMA PutProperties ==
    ASSUME NEW T, NEW map, map \in [DOMAIN map -> T], NEW key, NEW value \in T
    PROVE  LET p == Put(map, key, value) IN
           /\ DOMAIN p = DOMAIN map \cup {key} /\ p[key] = value
           /\ \A k \in DOMAIN map : k # key => p[k] = map[k]
           /\ p \in [DOMAIN p -> T]
BY DEF Put

\* What is stored is no longer than the capacity, and was there or is new.
LEMMA StoredProperties ==
    ASSUME NEW s \in Seq(Entries), NEW ds \in Seq(Data)
    PROVE  LET r == Stored(s, ds) IN
           /\ r \in Seq(Entries) /\ Len(r) <= Capacity
           /\ \A e \in ToSet(r) :
                e \in ToSet(s) \/ (e.fresh /\ e.data \in ToSet(ds) /\ e \in Entries)
<1> DEFINE new == [k \in DOMAIN ds |-> [data |-> ds[k], fresh |-> TRUE]]
           all == s \o new
           r == Stored(s, ds)
           surplus == Len(all) - Capacity
<1>1. /\ new \in Seq(Entries) /\ Len(new) = Len(ds)
      /\ \A e \in ToSet(new) : e.fresh /\ e.data \in ToSet(ds) /\ e \in Entries
  <2>1. Len(ds) \in Nat /\ DOMAIN ds = 1 .. Len(ds) /\ \A k \in 1 .. Len(ds) : ds[k] \in Data
    BY LenProperties, ElementOfSeq
  <2>2. new \in [1 .. Len(ds) -> Entries]
    BY <2>1 DEF Entries
  <2>3. new \in Seq(Entries) /\ Len(new) = Len(ds) /\ DOMAIN new = DOMAIN ds
    BY <2>1, <2>2, SeqDef, LenProperties
  <2> QED BY <2>1, <2>2, <2>3 DEF ToSet
<1> HIDE DEF new
<1>2. /\ all \in Seq(Entries) /\ Len(all) \in Nat
      /\ ToSet(all) = ToSet(s) \cup ToSet(new)
  BY <1>1, ConcatSet, LenProperties
<1>3. r = Evicted(all)
  BY DEF Stored, new
<1>4. Capacity \in Nat
  BY BoundsAssumption
<1> HIDE DEF all, r
<1>5. r \in Seq(Entries) /\ Len(r) <= Capacity /\ \A e \in ToSet(r) : e \in ToSet(all)
  <2>1. CASE ~(surplus > 0)
    BY <1>2, <1>3, <1>4, <2>1 DEF Evicted
  <2>2. CASE surplus > 0
    <3> DEFINE n == Len(all)
    <3>1. /\ n \in Nat /\ surplus \in 1 .. n /\ n - surplus = Capacity
          /\ DOMAIN all = 1 .. n /\ \A i \in 1 .. n : all[i] \in Entries
      BY <1>2, <1>4, <2>2, LenProperties, ElementOfSeq
    <3>2. r = SubSeq(all, surplus + 1, n)
      BY <1>3, <2>2 DEF Evicted
    <3> HIDE DEF surplus, n
    <3>3. /\ r \in Seq(Entries)
          /\ Len(r) = IF surplus + 1 <= n THEN n - (surplus + 1) + 1 ELSE 0
          /\ \A i \in 1 .. n - (surplus + 1) + 1 : r[i] = all[(surplus + 1) + i - 1]
      <4>1. surplus + 1 \in Int /\ n \in Int /\ \A i \in surplus + 1 .. n : all[i] \in Entries
        BY <3>1
      <4> QED BY <3>2, <4>1, SubSeqProperties
    <3>4. n - (surplus + 1) + 1 = Capacity
      BY <1>4, <3>1
    <3>5. Len(r) = Capacity /\ DOMAIN r = 1 .. Capacity
      <4>1. Len(r) = Capacity
        BY <1>4, <3>1, <3>3
      <4> QED BY <3>3, <4>1, LenProperties
    <3>6. \A i \in 1 .. Capacity : r[i] \in ToSet(all)
      <4> TAKE i \in 1 .. Capacity
      <4>1. (surplus + 1) + i - 1 \in 1 .. n
        BY <1>4, <3>1
      <4> QED BY <3>1, <3>3, <3>4, <4>1 DEF ToSet
    <3> QED BY <1>4, <3>3, <3>5, <3>6 DEF ToSet
  <2> QED BY <2>1, <2>2
<1> QED BY <1>1, <1>2, <1>5 DEF r

\* One call for each handler, in some order.
LEMMA CallsProperties ==
    ASSUME IsFiniteSet(DOMAIN handlers), DOMAIN handlers \subseteq Rels,
           NEW t \in TopPrefixes, NEW set, set \in BOOLEAN
    PROVE  LET c == Calls(set, t) IN
           /\ c \in Seq(Calling) /\ Len(c) \in Nat
           /\ \A k \in 1 .. Len(c) :
                c[k].set = set /\ c[k].top = t /\ c[k].rel \in DOMAIN handlers
           /\ \A j, k \in 1 .. Len(c) : c[j].rel = c[k].rel => j = k
           /\ \A r \in DOMAIN handlers : \E k \in 1 .. Len(c) : c[k].rel = r
<1> DEFINE rs == SetToSeq(DOMAIN handlers)
           n == Len(rs)
           c == Calls(set, t)
<1>1. /\ rs \in Seq(DOMAIN handlers) /\ n \in Nat /\ DOMAIN rs = 1 .. n
      /\ ToSet(rs) = DOMAIN handlers /\ IsInjective(rs)
  BY Enumeration
<1>2. c = [i \in 1 .. n |-> [set |-> set, top |-> t, rel |-> rs[i]]]
  BY <1>1 DEF Calls
<1>3. \A i \in 1 .. n : rs[i] \in DOMAIN handlers
  BY <1>1, ElementOfSeq
<1> HIDE DEF rs, n, c
<1>4. c \in [1 .. n -> Calling]
  BY <1>2, <1>3 DEF Calling
<1>5. c \in Seq(Calling) /\ Len(c) = n
  BY <1>1, <1>2, <1>4, SeqDef, LenProperties
<1>6. \A k \in 1 .. n : c[k].set = set /\ c[k].top = t /\ c[k].rel = rs[k]
  BY <1>2
<1>7. \A j, k \in 1 .. n : c[j].rel = c[k].rel => j = k
  BY <1>1, <1>6 DEF IsInjective
<1>8. \A r \in DOMAIN handlers : \E k \in 1 .. n : c[k].rel = r
  BY <1>1, <1>6 DEF ToSet
<1>9. \A k \in 1 .. n : c[k].set = set /\ c[k].top = t /\ c[k].rel \in DOMAIN handlers
  BY <1>3, <1>6
<1> QED BY <1>1, <1>5, <1>7, <1>8, <1>9 DEF c

-----------------------------------------------------------------------------
(* Counting notifications.                                                 *)

\* How many of the first k notifications have name n.
Count(s, n, k) == Cardinality({j \in 1 .. k : s[j].name = n})

LEMMA CountBound ==
    ASSUME NEW s, Len(s) \in Nat, NEW n
    PROVE  Count(s, n, Len(s)) \in 0 .. Len(s)
<1> DEFINE S == {j \in 1 .. Len(s) : s[j].name = n}
<1>1. IsFiniteSet(1 .. Len(s)) /\ Cardinality(1 .. Len(s)) = Len(s)
  BY FS_Interval
<1>2. S \subseteq 1 .. Len(s)
  OBVIOUS
<1> HIDE DEF S
<1>3. IsFiniteSet(S) /\ Cardinality(S) <= Len(s)
  BY <1>1, <1>2, FS_Subset
<1> QED BY <1>3, FS_CardinalityType DEF Count, S

LEMMA CountAppend ==
    ASSUME NEW s \in Seq(Data), NEW d \in Data
    PROVE  LET r == Append(s, d)
               m == Len(s) IN
           /\ Len(r) = m + 1 /\ m \in Nat
           /\ \A n : \A k \in 0 .. m : Count(r, n, k) = Count(s, n, k)
           /\ \A n : Count(r, n, m + 1) =
                        IF d.name = n THEN Count(s, n, m) + 1 ELSE Count(s, n, m)
<1> DEFINE r == Append(s, d)
           m == Len(s)
<1>1. /\ m \in Nat /\ Len(r) = m + 1 /\ r[m + 1] = d
      /\ \A i \in 1 .. m : r[i] = s[i]
  BY AppendProperties, LenProperties
<1> HIDE DEF r, m
<1>2. ASSUME NEW n, NEW k \in 0 .. m PROVE Count(r, n, k) = Count(s, n, k)
  <2>1. {j \in 1 .. k : r[j].name = n} = {j \in 1 .. k : s[j].name = n}
    BY <1>1
  <2> QED BY <2>1 DEF Count
<1>3. ASSUME NEW n
      PROVE  Count(r, n, m + 1) =
                IF d.name = n THEN Count(s, n, m) + 1 ELSE Count(s, n, m)
  <2> DEFINE old == {j \in 1 .. m : s[j].name = n}
             new == {j \in 1 .. m + 1 : r[j].name = n}
  <2>1. IsFiniteSet(old) /\ Cardinality(old) \in Nat
    <3>1. IsFiniteSet(1 .. m) /\ Cardinality(1 .. m) = m
      BY <1>1, FS_Interval
    <3>2. old \subseteq 1 .. m
      OBVIOUS
    <3> HIDE DEF old
    <3>3. IsFiniteSet(old) /\ Cardinality(old) <= m
      BY <3>1, <3>2, FS_Subset
    <3> QED BY <3>3, FS_CardinalityType
  <2>2. CASE d.name = n
    <3>1. new = old \cup {m + 1} /\ m + 1 \notin old
      BY <1>1, <2>2
    <3> HIDE DEF old, new
    <3>2. Cardinality(new) = Cardinality(old) + 1
      BY <2>1, <3>1, FS_AddElement
    <3> QED BY <1>1, <2>1, <2>2, <3>2 DEF Count, old, new
  <2>3. CASE d.name # n
    <3>1. new = old
      BY <1>1, <2>3
    <3> HIDE DEF old, new
    <3>2. Cardinality(new) = Cardinality(old)
      BY <3>1
    <3> QED BY <1>1, <2>1, <2>3, <3>2 DEF Count, old, new
  <2> QED BY <2>2, <2>3
<1> QED BY <1>1, <1>2, <1>3 DEF r, m

\* A name that no notification has.
LEMMA CountNone ==
    ASSUME NEW s \in Seq(Data), NEW n, \A k \in DOMAIN s : s[k].name # n
    PROVE  Count(s, n, Len(s)) = 0
<1>1. Len(s) \in Nat /\ DOMAIN s = 1 .. Len(s)
  BY LenProperties
<1>2. {j \in 1 .. Len(s) : s[j].name = n} = {}
  BY <1>1
<1> QED BY <1>2, FS_EmptySet DEF Count

-----------------------------------------------------------------------------
(* Types, and what is counted.                                             *)

\* A name's counter is the number of its notifications; a name without a
\* counter has none.
Counted ==
    /\ Len(notes) + versions <= MaxMade
    /\ \A k \in DOMAIN notes : notes[k].name \in DOMAIN streams
    /\ \A n \in DOMAIN streams : streams[n] = Count(notes, n, Len(notes))

\* Who asks for a version has heard of it.
Heard == \A i \in pit : ~i.any => i.data.version <= versions

\* A filter, or one that is on its way, has a handler.
Known ==
    /\ \A p \in ToSet(posts) : p.rel \in DOMAIN handlers
    /\ \A f \in ToSet(filters) : f.rel \in DOMAIN handlers

Types ==
    DispatcherTypeOK /\ IsFiniteSet(DOMAIN handlers) /\ Counted /\ Heard /\ Known

LEMMA InitTypes == ASSUME Init PROVE Types /\ NumberedInOrder
<1>1. DispatcherTypeOK
  <2>1. \A S : <<>> \in Seq(S)
    BY EmptySeq
  <2>2. MaxMade \in Nat /\ Capacity \in Nat
    BY BoundsAssumption
  <2> QED BY <2>1, <2>2 DEF Init, DispatcherTypeOK
<1>2. IsFiniteSet(DOMAIN handlers)
  BY FS_EmptySet DEF Init
<1>3. Counted
  BY BoundsAssumption DEF Init, Counted
<1>4. Known
  BY DEF Init, Known, ToSet
<1> QED BY <1>1, <1>2, <1>3, <1>4 DEF Init, Types, Heard, NumberedInOrder

LEMMA Overlapping == ASSUME NEW S, NEW n \in Seq(S) PROVE Overlap(n, n)
BY LenProperties DEF Overlap, IsPrefix

\* A handler that is added, and the notification that is posted.
LEMMA OfferTypes ==
    ASSUME Types, NEW o \in Offers, AddHandler(o)
    PROVE  /\ o.rel \in Rels /\ o.kind \in Kinds /\ o.rel \in Seq(Components)
           /\ o.rel \notin Taken
           /\ DOMAIN handlers' = DOMAIN handlers \cup {o.rel}
           /\ IsFiniteSet(DOMAIN handlers')
           /\ handlers' \in [DOMAIN handlers' -> Kinds]
           /\ streams' \in [DOMAIN streams' -> 0 .. MaxMade]
           /\ DOMAIN streams \subseteq DOMAIN streams'
           /\ DOMAIN streams' \subseteq DOMAIN streams \cup {o.rel}
           /\ \A n \in DOMAIN streams : streams'[n] = streams[n]
           /\ o.rel \in DOMAIN streams' => streams'[o.rel] = 0
<1>1. /\ o.rel \in Rels /\ o.kind \in Kinds /\ o.rel \in Seq(Components)
  BY NamesAssumption DEF Rels
<1>2. o.rel \notin Taken
  BY <1>1, Overlapping DEF AddHandler
<1>3. /\ handlers \in [DOMAIN handlers -> Kinds] /\ IsFiniteSet(DOMAIN handlers)
      /\ streams \in [DOMAIN streams -> 0 .. MaxMade] /\ MaxMade \in Nat
  BY BoundsAssumption DEF Types, DispatcherTypeOK
<1>4. /\ handlers' = Put(handlers, o.rel, o.kind)
      /\ streams' = IF o.kind = "STREAM" THEN Put(streams, o.rel, 0) ELSE streams
  BY DEF AddHandler
<1>5. /\ DOMAIN handlers' = DOMAIN handlers \cup {o.rel}
      /\ handlers' \in [DOMAIN handlers' -> Kinds]
  <2> DEFINE key == o.rel
             kind == o.kind
  <2>1. handlers \in [DOMAIN handlers -> Kinds] /\ kind \in Kinds
    BY <1>1, <1>3
  <2> HIDE DEF kind, key
  <2> DEFINE p == Put(handlers, key, kind)
  <2>2. DOMAIN p = DOMAIN handlers \cup {key} /\ p \in [DOMAIN p -> Kinds]
    BY <2>1 DEF Put
  <2> HIDE DEF p
  <2> QED BY <1>4, <2>2 DEF p, key, kind
<1>6. IsFiniteSet(DOMAIN handlers')
  BY <1>3, <1>5, FS_AddElement
<1>7. CASE o.kind = "STREAM"
  <2>1. /\ DOMAIN streams' = DOMAIN streams \cup {o.rel} /\ streams'[o.rel] = 0
        /\ \A k \in DOMAIN streams : k # o.rel => streams'[k] = streams[k]
        /\ streams' \in [DOMAIN streams' -> 0 .. MaxMade]
    <3> DEFINE p == Put(streams, o.rel, 0)
               T == 0 .. MaxMade
    <3>1. streams \in [DOMAIN streams -> T] /\ 0 \in T
      BY <1>3
    <3> HIDE DEF T
    <3>2. /\ DOMAIN p = DOMAIN streams \cup {o.rel} /\ p[o.rel] = 0
          /\ \A k \in DOMAIN streams : k # o.rel => p[k] = streams[k]
          /\ p \in [DOMAIN p -> T]
      BY <3>1, PutProperties
    <3> HIDE DEF p
    <3> QED BY <1>4, <1>7, <3>2 DEF p, T
  <2> QED BY <1>1, <1>2, <1>5, <1>6, <2>1 DEF Taken
<1>8. CASE o.kind # "STREAM"
  BY <1>1, <1>2, <1>3, <1>4, <1>5, <1>6, <1>8 DEF Taken
<1> QED BY <1>7, <1>8

LEMMA NotificationTypes ==
    ASSUME Types, NEW r \in Rels, PostNotification(r)
    PROVE  \E t \in TopPrefixes : \E no \in 0 .. Len(notes) :
             LET n == t \o r
                 d == Notification(n, no) IN
             /\ t \in tops /\ n \in Names /\ d \in Data
             /\ no = Count(notes, n, Len(notes))
             /\ DOMAIN streams' = DOMAIN streams \cup {n} /\ streams'[n] = no + 1
             /\ \A k \in DOMAIN streams : k # n => streams'[k] = streams[k]
             /\ streams' \in [DOMAIN streams' -> 0 .. MaxMade]
             /\ storage' = Stored(storage, <<d>>)
             /\ outbound' = Append(outbound, d) /\ notes' = Append(notes, d)
             /\ Len(notes') + versions <= MaxMade
<1>1. PICK t \in tops :
        LET key == StreamKey(t, r)
            no  == IF key \in DOMAIN streams THEN streams[key] ELSE 0
            d   == Notification(t \o r, no)
        IN  /\ streams' = Put(streams, key, no + 1)
            /\ storage' = Stored(storage, <<d>>)
            /\ outbound' = Announced(outbound, d)
            /\ notes' = Append(notes, d)
  BY DEF PostNotification
<1> DEFINE n  == t \o r
           no == IF n \in DOMAIN streams THEN streams[n] ELSE 0
           d  == Notification(n, no)
<1>2. /\ streams' = Put(streams, n, no + 1)
      /\ storage' = Stored(storage, <<d>>)
      /\ outbound' = Append(outbound, d) /\ notes' = Append(notes, d)
  BY <1>1 DEF StreamKey, Announced
<1>3. /\ t \in TopPrefixes /\ n \in Names
      /\ streams \in [DOMAIN streams -> 0 .. MaxMade]
      /\ notes \in Seq(Data) /\ versions \in Nat
      /\ MaxMade \in Nat /\ LastPart \in Nat /\ Len(notes) + versions < MaxMade
  <2>1. /\ tops \subseteq TopPrefixes /\ streams \in [DOMAIN streams -> 0 .. MaxMade]
        /\ notes \in Seq(Data) /\ versions \in 0 .. MaxMade
    BY DEF Types, DispatcherTypeOK
  <2>2. t \in TopPrefixes /\ n \in Names
    BY <2>1 DEF Names
  <2> QED BY <2>1, <2>2, BoundsAssumption DEF PostNotification
<1>4. no = Count(notes, n, Len(notes))
  <2>1. CASE n \in DOMAIN streams
    BY <2>1 DEF Types, Counted
  <2>2. CASE n \notin DOMAIN streams
    BY <1>3, <2>2, CountNone DEF Types, Counted
  <2> QED BY <2>1, <2>2
<1> HIDE DEF n, no, d
<1>5. Len(notes) \in Nat /\ no \in 0 .. Len(notes)
  <2>1. Len(notes) \in Nat
    BY <1>3, LenProperties
  <2> QED BY <1>4, <2>1, CountBound
<1>6. d \in Data
  <2>1. no \in 0 .. LastPart + MaxMade /\ 0 \in 0 .. MaxMade
    BY <1>3, <1>5
  <2> QED BY <1>3, <2>1 DEF d, Data, Parts, Notification
<1>7. Len(notes') + versions <= MaxMade
  <2>1. Len(notes') = Len(notes) + 1
    BY <1>2, <1>3, <1>6, AppendProperties
  <2> QED BY <1>3, <1>5, <2>1
<1>8. no + 1 \in 0 .. MaxMade
  BY <1>3, <1>5
<1>9. /\ DOMAIN streams' = DOMAIN streams \cup {n} /\ streams'[n] = no + 1
      /\ \A k \in DOMAIN streams : k # n => streams'[k] = streams[k]
      /\ streams' \in [DOMAIN streams' -> 0 .. MaxMade]
  <2> DEFINE p == Put(streams, n, no + 1)
             T == 0 .. MaxMade
  <2>1. streams \in [DOMAIN streams -> T] /\ no + 1 \in T
    BY <1>3, <1>8
  <2> HIDE DEF T
  <2>2. /\ DOMAIN p = DOMAIN streams \cup {n} /\ p[n] = no + 1
        /\ \A k \in DOMAIN streams : k # n => p[k] = streams[k]
        /\ p \in [DOMAIN p -> T]
    BY <2>1, PutProperties
  <2> HIDE DEF p
  <2> QED BY <1>2, <2>2 DEF p, T
<1> QED BY <1>2, <1>3, <1>4, <1>5, <1>6, <1>7, <1>9 DEF n, d

\* The segments that a dataset's handler makes.
LEMMA DatasetTypes ==
    ASSUME Types, NEW i \in Interests, MakeDataset(i)
    PROVE  /\ Found(i) = {} /\ i.any
           /\ versions' = versions + 1 /\ versions' \in 0 .. MaxMade
           /\ Len(notes) + versions' <= MaxMade
           /\ \E ds \in Seq(Data) : \E first \in Data :
                /\ storage' = Stored(storage, ds)
                /\ outbound' = Append(outbound, first) /\ first.name = i.name
                /\ \A d \in ToSet(ds) : d.name = i.name /\ d.version = versions'
<1> DEFINE v  == versions + 1
           ds == [k \in 1 .. LastPart + 1 |-> Segment(i.name, v, k - 1)]
<1>1. /\ Found(i) = {} /\ i.any /\ Len(notes) + versions < MaxMade /\ versions' = v
      /\ storage' = Stored(storage, ds) /\ outbound' = Append(outbound, ds[1])
  BY DEF MakeDataset
<1>2. /\ versions \in 0 .. MaxMade /\ MaxMade \in Nat /\ LastPart \in Nat
      /\ Len(notes) \in Nat
  <2>1. versions \in 0 .. MaxMade /\ notes \in Seq(Data)
    BY DEF Types, DispatcherTypeOK
  <2> QED BY <2>1, BoundsAssumption, LenProperties
<1>3. i.name \in Names
  BY DEF Interests, Whole, Exactly, Data
<1>4. v \in 0 .. MaxMade /\ Len(notes) + v <= MaxMade
  BY <1>1, <1>2
<1>5. \A k \in 1 .. LastPart + 1 :
        ds[k] \in Data /\ ds[k].name = i.name /\ ds[k].version = v
  <2> TAKE k \in 1 .. LastPart + 1
  <2>1. k - 1 \in 0 .. LastPart + MaxMade
    BY <1>2
  <2> QED BY <1>3, <1>4, <2>1 DEF Data, Parts, Segment
<1>6. ds \in [1 .. LastPart + 1 -> Data]
  BY <1>5
<1>7. ds \in Seq(Data) /\ DOMAIN ds = 1 .. LastPart + 1 /\ 1 \in 1 .. LastPart + 1
  <2>1. LastPart + 1 \in Nat /\ 1 \in 1 .. LastPart + 1
    BY <1>2
  <2> QED BY <1>6, <2>1, SeqDef
<1> HIDE DEF ds, v
<1>8. \A d \in ToSet(ds) : d.name = i.name /\ d.version = v
  BY <1>5, <1>7 DEF ToSet
<1> QED BY <1>1, <1>2, <1>4, <1>5, <1>7, <1>8 DEF v

\* What a handler may do with the Interest that is delivered.
LEMMA Handled ==
    ASSUME Types, DeliverInterest
    PROVE  LET i == Head(inbound)
               had == \/ reached' = reached
                      \/ Found(i) = {} /\ reached' = reached \cup ({i} \cap pit)
           IN
           /\ i \in Interests
           /\ inbound' \in Seq(Interests)
           /\ \/ Silent /\ had
              \/ Respond(i) /\ had
              \/ FromStorage(i) /\ reached' = reached \cup ({i} \cap pit)
              \/ MakeDataset(i) /\ reached' = reached \cup ({i} \cap pit)
<1> DEFINE i == Head(inbound)
           more == reached \cup ({i} \cap pit)
           had == reached' = reached \/ (Found(i) = {} /\ reached' = more)
<1>1. i \in Interests /\ inbound' \in Seq(Interests)
  <2>1. inbound \in Seq(Interests) /\ inbound # <<>> /\ inbound' = Tail(inbound)
    BY DEF Types, DispatcherTypeOK, DeliverInterest
  <2> QED BY <2>1, TailSet
<1> HIDE DEF i, more
<1>2. \/ Silent /\ reached' = reached
      \/ \E f \in Matching(i) :
            /\ Handle(handlers[f.rel], i)
            /\ reached' = IF handlers[f.rel] = "COMMAND" THEN reached ELSE more
  BY DEF DeliverInterest, i, more
<1>3. CASE Silent /\ reached' = reached
  BY <1>1, <1>3 DEF i
<1>4. ASSUME NEW f \in Matching(i), Handle(handlers[f.rel], i),
             reached' = IF handlers[f.rel] = "COMMAND" THEN reached ELSE more
      PROVE  \/ Silent /\ had
             \/ Respond(i) /\ had
             \/ FromStorage(i) /\ reached' = more
             \/ MakeDataset(i) /\ reached' = more
  <2>1. handlers[f.rel] \in Kinds
    <3>1. f.rel \in DOMAIN handlers
      BY DEF Matching, Types, Known
    <3> QED BY <3>1 DEF Types, DispatcherTypeOK
  <2> DEFINE kind == handlers[f.rel]
  <2> HIDE DEF kind
  <2>2. kind \in Kinds /\ Handle(kind, i)
        /\ reached' = IF kind = "COMMAND" THEN reached ELSE more
    BY <1>4, <2>1 DEF kind
  <2>3. CASE kind = "COMMAND"
    <3>1. Respond(i) \/ Silent
      BY <2>2, <2>3 DEF Handle
    <3> QED BY <2>2, <2>3, <3>1
  <2>4. CASE kind = "STREAM"
    <3>1. FromStorage(i) \/ (Found(i) = {} /\ Silent)
      BY <2>2, <2>4 DEF Handle
    <3> QED BY <2>2, <2>4, <3>1
  <2>5. CASE kind = "DATASET"
    <3>1. \/ FromStorage(i) \/ MakeDataset(i)
          \/ (Found(i) = {} /\ ((i.any /\ Respond(i)) \/ Silent))
      BY <2>2, <2>5 DEF Handle
    <3> QED BY <2>2, <2>5, <3>1
  <2> QED BY <2>2, <2>3, <2>4, <2>5 DEF Kinds
<1> QED BY <1>1, <1>2, <1>3, <1>4 DEF i, more

\* Entries go stale, and change in nothing else.
LEMMA StaleTypes ==
    ASSUME Types, NEW e \in ToSet(storage), MarkStale(e)
    PROVE  /\ storage' \in Seq(Entries) /\ Len(storage') = Len(storage)
           /\ \A x \in ToSet(storage') : \E y \in ToSet(storage) :
                x.data = y.data /\ (x.fresh => y.fresh)
<1> DEFINE keeps(k) == ~Together(storage[k].data, e.data)
           new(k) == [storage[k] EXCEPT !.fresh = @ /\ keeps(k)]
           n == Len(storage)
<1>1. storage \in Seq(Entries)
  BY DEF Types, DispatcherTypeOK, Entries
<1>2. n \in Nat /\ DOMAIN storage = 1 .. n /\ \A k \in 1 .. n : storage[k] \in Entries
  BY <1>1, LenProperties, ElementOfSeq
<1>3. storage' = [k \in 1 .. n |-> new(k)]
  BY <1>2 DEF MarkStale
<1>4. ASSUME NEW k \in 1 .. n
      PROVE  /\ new(k) \in Entries /\ new(k).data = storage[k].data
             /\ new(k).fresh => storage[k].fresh
  <2>1. storage[k] \in [data : Data, fresh : BOOLEAN]
    BY <1>2 DEF Entries
  <2>2. (storage[k].fresh /\ keeps(k)) \in BOOLEAN
    OBVIOUS
  <2> QED BY <2>1, <2>2 DEF Entries
<1> HIDE DEF new, keeps, n
<1>5. storage' \in [1 .. n -> Entries] /\ \A k \in 1 .. n : storage'[k] = new(k)
  BY <1>3, <1>4
<1>6. storage' \in Seq(Entries) /\ Len(storage') = n /\ DOMAIN storage' = 1 .. n
  BY <1>2, <1>5, SeqDef, LenProperties
<1>7. ASSUME NEW x \in ToSet(storage')
      PROVE  \E y \in ToSet(storage) : x.data = y.data /\ (x.fresh => y.fresh)
  <2>1. PICK k \in 1 .. n : x = storage'[k]
    BY <1>6 DEF ToSet
  <2>2. storage[k] \in ToSet(storage)
    BY <1>2 DEF ToSet
  <2> QED BY <1>4, <1>5, <2>1, <2>2
<1> QED BY <1>6, <1>7 DEF n

\* A step of the forwarder or the storage, which the Dispatcher has no part in.
Forwarding ==
    \/ \E e \in ToSet(storage) : MarkStale(e)
    \/ \E i \in Interests : Express(i) \/ Expire(i)
    \/ DeliverData

\* A step of the Dispatcher's users.
Registering ==
    \/ \E o \in Offers : AddHandler(o)
    \/ \E t \in TopPrefixes : AddTopPrefix(t) \/ RemoveTopPrefix(t)
    \/ RunPost

LEMMA StorageTypes ==
    ASSUME Types, NEW ds \in Seq(Data), storage' = Stored(storage, ds)
    PROVE  /\ storage' \in Seq([data : Data, fresh : BOOLEAN])
           /\ Len(storage') <= Capacity
<1>1. storage \in Seq(Entries)
  BY DEF Types, DispatcherTypeOK, Entries
<1> QED BY <1>1, StoredProperties DEF Entries

LEMMA RegisteringTypes ==
    ASSUME Types, IsInjective(filters), Registering
    PROVE  Types'
<1> USE DEF Types, DispatcherTypeOK
<1>1. ASSUME NEW o \in Offers, AddHandler(o) PROVE Types'
  <2>1. /\ o.rel \in Rels /\ o.rel \notin Taken
        /\ DOMAIN handlers' = DOMAIN handlers \cup {o.rel}
        /\ IsFiniteSet(DOMAIN handlers')
        /\ handlers' \in [DOMAIN handlers' -> Kinds]
        /\ streams' \in [DOMAIN streams' -> 0 .. MaxMade]
        /\ DOMAIN streams \subseteq DOMAIN streams'
        /\ DOMAIN streams' \subseteq DOMAIN streams \cup {o.rel}
        /\ \A n \in DOMAIN streams : streams'[n] = streams[n]
        /\ o.rel \in DOMAIN streams' => streams'[o.rel] = 0
    BY <1>1, OfferTypes
  <2>2. UNCHANGED <<tops, storage, posts, filters, pit, inbound, outbound, reached,
                    notes, versions>>
    BY <1>1 DEF AddHandler, face, forwarder, counters
  <2>3. DispatcherTypeOK'
    BY <2>1, <2>2
  <2>4. Counted'
    <3>1. o.rel \notin DOMAIN streams /\ \A k \in DOMAIN notes : notes[k].name # o.rel
      BY <2>1 DEF Taken, Counted
    <3>2. Count(notes, o.rel, Len(notes)) = 0
      BY <3>1, CountNone
    <3> QED BY <2>1, <2>2, <3>2 DEF Counted
  <2>5. Heard' /\ Known'
    BY <2>1, <2>2 DEF Heard, Known
  <2> QED BY <2>1, <2>3, <2>4, <2>5
<1>2. ASSUME NEW t \in TopPrefixes, AddTopPrefix(t) \/ RemoveTopPrefix(t) PROVE Types'
  <2>1. /\ tops' \subseteq TopPrefixes
        /\ UNCHANGED <<handlers, streams, storage, filters, pit, inbound, outbound,
                       reached, notes, versions>>
        /\ \E set \in BOOLEAN : posts' = posts \o Calls(set, t)
    BY <1>2 DEF AddTopPrefix, RemoveTopPrefix, SetAll, UnsetAll, forwarder, counters
  <2>2. PICK set \in BOOLEAN : posts' = posts \o Calls(set, t)
    BY <2>1
  <2>3. /\ Calls(set, t) \in Seq(Calling)
        /\ \A p \in ToSet(Calls(set, t)) : p.rel \in DOMAIN handlers
    <3> DEFINE c == Calls(set, t)
    <3>1. IsFiniteSet(DOMAIN handlers) /\ DOMAIN handlers \subseteq Rels
      OBVIOUS
    <3>2. c \in Seq(Calling) /\ \A k \in 1 .. Len(c) : c[k].rel \in DOMAIN handlers
      BY <3>1, CallsProperties
    <3> HIDE DEF c
    <3>3. DOMAIN c = 1 .. Len(c)
      BY <3>2, LenProperties
    <3> QED BY <3>2, <3>3 DEF ToSet, c
  <2>4. posts' \in Seq(Calling) /\ ToSet(posts') = ToSet(posts) \cup ToSet(Calls(set, t))
    <3>1. posts \in Seq(Calling)
      BY DEF Calling
    <3> QED BY <2>2, <2>3, <3>1, ConcatSet
  <2>5. DispatcherTypeOK'
    BY <2>1, <2>4 DEF Calling
  <2>6. Counted' /\ Heard' /\ Known'
    BY <2>1, <2>3, <2>4 DEF Counted, Heard, Known
  <2> QED BY <2>1, <2>5, <2>6
<1>3. CASE RunPost
  <2>1. /\ UNCHANGED <<handlers, streams, tops, storage, pit, inbound, outbound, reached,
                       notes, versions>>
        /\ posts # <<>> /\ posts' = Tail(posts)
    BY <1>3 DEF RunPost, dispatcher, forwarder, counters
  <2>2. posts \in Seq(Calling) /\ filters \in Seq(Filters)
    BY DEF Calling, Filters
  <2>3. /\ posts' \in Seq(Calling) /\ Head(posts) \in Calling
        /\ ToSet(posts) = {Head(posts)} \cup ToSet(posts')
    BY <2>1, <2>2, TailSet
  <2> DEFINE p == Head(posts)
             f == [top |-> p.top, rel |-> p.rel]
  <2>4. f \in Filters /\ f.rel \in DOMAIN handlers
    <3>1. p \in ToSet(posts) /\ p \in Calling
      BY <2>3
    <3> QED BY <3>1 DEF Known, Calling, Filters
  <2>5. filters' = IF p.set THEN Append(filters, f) ELSE RemoveFirst(filters, f)
    BY <1>3 DEF RunPost
  <2> HIDE DEF f
  <2>6. filters' \in Seq(Filters) /\ ToSet(filters') \subseteq ToSet(filters) \cup {f}
    <3>1. CASE p.set
      BY <2>2, <2>4, <2>5, <3>1, AppendSet
    <3>2. CASE ~p.set
      BY <2>2, <2>5, <3>2, FirstRemoved
    <3> QED BY <3>1, <3>2
  <2>7. DispatcherTypeOK'
    BY <2>1, <2>3, <2>6 DEF Calling, Filters
  <2>8. Counted' /\ Heard' /\ Known'
    BY <2>1, <2>3, <2>4, <2>6 DEF Counted, Heard, Known
  <2> QED BY <2>1, <2>7, <2>8
<1> QED BY <1>1, <1>2, <1>3 DEF Registering

LEMMA PostingTypes ==
    ASSUME Types, NEW r \in Rels, PostNotification(r)
    PROVE  Types'
<1> USE DEF Types, DispatcherTypeOK
<1>1. UNCHANGED <<handlers, tops, posts, filters, pit, inbound, reached, versions>>
  BY DEF PostNotification, face
<1>2. PICK t \in TopPrefixes, no \in 0 .. Len(notes) :
        LET n == t \o r
            d == Notification(n, no) IN
        /\ t \in tops /\ n \in Names /\ d \in Data
        /\ no = Count(notes, n, Len(notes))
        /\ DOMAIN streams' = DOMAIN streams \cup {n} /\ streams'[n] = no + 1
        /\ \A k \in DOMAIN streams : k # n => streams'[k] = streams[k]
        /\ streams' \in [DOMAIN streams' -> 0 .. MaxMade]
        /\ storage' = Stored(storage, <<d>>)
        /\ outbound' = Append(outbound, d) /\ notes' = Append(notes, d)
        /\ Len(notes') + versions <= MaxMade
  BY NotificationTypes
<1> DEFINE n == t \o r
           d == Notification(n, no)
<1>3. d.name = n
  BY DEF Notification
<1> HIDE DEF n, d
<1>4. d \in Data /\ <<d>> \in Seq(Data)
  BY <1>2 DEF n, d
<1>5. storage' \in Seq([data : Data, fresh : BOOLEAN]) /\ Len(storage') <= Capacity
  BY <1>2, <1>4, StorageTypes DEF n, d
<1>6. outbound' \in Seq(Data) /\ notes' \in Seq(Data)
  BY <1>2, <1>4, AppendProperties DEF n, d
<1>7. /\ DOMAIN streams' = DOMAIN streams \cup {n} /\ n \in Names
      /\ streams' \in [DOMAIN streams' -> 0 .. MaxMade]
  BY <1>2 DEF n
<1>8. DispatcherTypeOK'
  BY <1>1, <1>5, <1>6, <1>7
<1>9. Counted'
  <2>1. /\ Len(notes') = Len(notes) + 1 /\ Len(notes) \in Nat
        /\ \A m : Count(notes', m, Len(notes) + 1) =
              IF d.name = m THEN Count(notes, m, Len(notes)) + 1
              ELSE Count(notes, m, Len(notes))
    BY <1>2, <1>4, CountAppend DEF n, d
  <2>2. /\ no = Count(notes, n, Len(notes)) /\ streams'[n] = no + 1
        /\ \A k \in DOMAIN streams : k # n => streams'[k] = streams[k]
        /\ notes' = Append(notes, d) /\ Len(notes') + versions <= MaxMade
    BY <1>2 DEF n, d
  <2>3. \A k \in DOMAIN notes' : notes'[k].name \in DOMAIN streams'
    <3>1. ToSet(notes') = ToSet(notes) \cup {d}
      BY <1>4, <2>2, AppendSet
    <3>2. \A x \in ToSet(notes) : x.name \in DOMAIN streams
      BY DEF Counted, ToSet
    <3>3. \A x \in ToSet(notes') : x.name \in DOMAIN streams'
      BY <1>3, <1>7, <3>1, <3>2
    <3> QED BY <3>3 DEF ToSet
  <2>4. \A m \in DOMAIN streams' : streams'[m] = Count(notes', m, Len(notes'))
    <3> TAKE m \in DOMAIN streams'
    <3>1. CASE m = n
      BY <1>3, <2>1, <2>2, <3>1
    <3>2. CASE m # n
      BY <1>3, <1>7, <2>1, <2>2, <3>2 DEF Counted
    <3> QED BY <3>1, <3>2
  <2> QED BY <1>1, <2>2, <2>3, <2>4 DEF Counted
<1>10. Heard' /\ Known'
  BY <1>1 DEF Heard, Known
<1> QED BY <1>1, <1>8, <1>9, <1>10

LEMMA AnsweringTypes ==
    ASSUME Types, DeliverInterest
    PROVE  Types'
<1> USE DEF Types, DispatcherTypeOK
<1>1. UNCHANGED <<handlers, streams, tops, posts, filters, pit, notes>>
  BY DEF DeliverInterest, face
<1> DEFINE i == Head(inbound)
<1>2. /\ i \in Interests /\ inbound' \in Seq(Interests)
      /\ Silent \/ Respond(i) \/ FromStorage(i) \/ MakeDataset(i)
      /\ reached' = reached \/ reached' = reached \cup ({i} \cap pit)
  BY Handled
<1>3. reached' \subseteq pit'
  BY <1>1, <1>2
<1> HIDE DEF i
<1>4. /\ storage' \in Seq([data : Data, fresh : BOOLEAN]) /\ Len(storage') <= Capacity
      /\ outbound' \in Seq(Data) /\ versions' \in 0 .. MaxMade
      /\ Len(notes) + versions' <= MaxMade /\ versions <= versions'
  <2>0. versions \in Nat /\ Len(notes) + versions <= MaxMade
    BY DEF Counted
  <2>1. CASE Silent
    BY <2>0, <2>1 DEF Silent
  <2>2. CASE Respond(i)
    <3>1. i.name \in Names
      BY <1>2 DEF Interests, Whole, Exactly, Data
    <3>2. Response(i.name) \in Data
      <4>1. 0 \in 0 .. MaxMade /\ 0 \in 0 .. LastPart + MaxMade
        BY BoundsAssumption
      <4> QED BY <3>1, <4>1 DEF Response, Data, Parts
    <3> QED BY <2>0, <2>2, <3>2, AppendProperties DEF Respond
  <2>3. CASE FromStorage(i)
    <3>1. PICK e \in Found(i) : outbound' = Append(outbound, e.data)
      BY <2>3 DEF FromStorage
    <3>2. e \in [data : Data, fresh : BOOLEAN]
      <4>1. PICK k \in DOMAIN storage : e = storage[k]
        BY DEF Found, ToSet
      <4> QED BY <4>1, ElementOfSeq, LenProperties
    <3> QED BY <2>0, <2>3, <3>1, <3>2, AppendProperties DEF FromStorage
  <2>4. CASE MakeDataset(i)
    <3>1. /\ versions' = versions + 1 /\ versions' \in 0 .. MaxMade
          /\ Len(notes) + versions' <= MaxMade
          /\ \E ds \in Seq(Data) : \E first \in Data :
               storage' = Stored(storage, ds) /\ outbound' = Append(outbound, first)
      BY <1>2, <2>4, DatasetTypes
    <3>2. outbound' \in Seq(Data)
      BY <3>1, AppendProperties
    <3>3. storage' \in Seq([data : Data, fresh : BOOLEAN]) /\ Len(storage') <= Capacity
      BY <3>1, StorageTypes
    <3> QED BY <2>0, <3>1, <3>2, <3>3
  <2> QED BY <1>2, <2>1, <2>2, <2>3, <2>4
<1>5. DispatcherTypeOK'
  BY <1>1, <1>2, <1>3, <1>4
<1>6. Counted' /\ Known'
  BY <1>1, <1>4 DEF Counted, Known
<1>7. Heard'
  <2> SUFFICES ASSUME NEW j \in pit, ~j.any PROVE j.data.version <= versions'
    BY <1>1 DEF Heard
  <2>1. j.data.version <= versions /\ j.data.version \in Int
    <3>1. j.data \in Data
      <4>1. j \in Interests
        OBVIOUS
      <4>2. Notification(j.name, 0) \in Data
        <5>1. j.name \in Names
          BY <4>1 DEF Interests, Whole, Exactly, Data
        <5>2. 0 \in 0 .. MaxMade /\ 0 \in 0 .. LastPart + MaxMade
          BY BoundsAssumption
        <5> QED BY <5>1, <5>2 DEF Notification, Data, Parts
      <4> QED BY <4>1, <4>2 DEF Interests, Whole, Exactly
    <3> QED BY <3>1 DEF Heard, Data
  <2> QED BY <1>4, <2>1
<1> QED BY <1>1, <1>5, <1>6, <1>7

LEMMA ForwardingTypes ==
    ASSUME Types, Forwarding
    PROVE  Types'
<1> USE DEF Types, DispatcherTypeOK
<1>1. ASSUME NEW e \in ToSet(storage), MarkStale(e) PROVE Types'
  <2>1. /\ UNCHANGED <<handlers, streams, tops, posts, filters, pit, inbound, outbound,
                       reached, notes, versions>>
        /\ storage' \in Seq(Entries) /\ Len(storage') = Len(storage)
    BY <1>1, StaleTypes DEF MarkStale, face, forwarder, counters
  <2> QED BY <2>1 DEF Entries, Counted, Heard, Known
<1>2. ASSUME NEW i \in Interests, Express(i) PROVE Types'
  <2>1. /\ UNCHANGED <<handlers, streams, tops, storage, posts, filters, outbound, reached,
                       notes, versions>>
        /\ pit' = pit \cup {i} /\ inbound' = Append(inbound, i)
    BY <1>2 DEF Express, dispatcher, face, counters
  <2>2. inbound' \in Seq(Interests)
    BY <2>1, AppendProperties
  <2>3. ~i.any => i.data.version <= versions
    <3>1. CASE i \in {Whole(n) : n \in Names}
      BY <3>1 DEF Whole
    <3>2. \A m, d : i = Whole(m) => i.any
      BY DEF Whole
    <3>3. ASSUME NEW d, i = Exactly(d), d \in {Notification(x.name, x.part + 1) : x \in ToSet(notes)}
          PROVE  i.data.version <= versions
      BY <3>3 DEF Exactly, Notification
    <3>4. ASSUME NEW m, NEW v \in 1 .. versions, NEW k, i = Exactly(Segment(m, v, k))
          PROVE  i.data.version <= versions
      BY <3>4 DEF Exactly, Segment
    <3>5. i \in Wanted
      BY <1>2 DEF Express
    <3> QED BY <3>2, <3>3, <3>4, <3>5 DEF Wanted
  <2>4. Heard'
    BY <2>1, <2>3 DEF Heard
  <2>5. Counted' /\ Known'
    BY <2>1 DEF Counted, Known
  <2>6. DispatcherTypeOK'
    BY <2>1, <2>2
  <2> QED BY <2>1, <2>4, <2>5, <2>6
<1>3. ASSUME NEW i \in Interests, Expire(i) PROVE Types'
  BY <1>3 DEF Expire, dispatcher, face, counters, Heard, Counted, Known
<1>4. CASE DeliverData
  <2>1. /\ UNCHANGED <<handlers, streams, tops, storage, posts, filters, inbound,
                       notes, versions>>
        /\ outbound' \in Seq(Data)
        /\ pit' \subseteq pit /\ reached' \subseteq pit'
    <3>1. outbound \in Seq(Data) /\ outbound # <<>> /\ outbound' = Tail(outbound)
      BY <1>4 DEF DeliverData
    <3>2. outbound' \in Seq(Data)
      BY <3>1, TailSet
    <3> QED BY <1>4, <3>2 DEF DeliverData, dispatcher, face, counters
  <2> QED BY <2>1 DEF Heard, Counted, Known
<1> QED BY <1>1, <1>2, <1>3, <1>4 DEF Forwarding

LEMMA NextTypes ==
    ASSUME Types, IsInjective(filters), [Next]_vars
    PROVE  Types'
<1>1. CASE Registering
  BY <1>1, RegisteringTypes
<1>2. ASSUME NEW r \in Rels, PostNotification(r) PROVE Types'
  BY <1>2, PostingTypes
<1>3. CASE DeliverInterest
  BY <1>3, AnsweringTypes
<1>4. CASE Forwarding
  BY <1>4, ForwardingTypes
<1>5. CASE UNCHANGED vars
  BY <1>5 DEF vars, dispatcher, face, forwarder, counters, Types, DispatcherTypeOK,
              Counted, Heard, Known
<1> QED BY <1>1, <1>2, <1>3, <1>4, <1>5 DEF Next, Registering, Forwarding

-----------------------------------------------------------------------------
(* Numbers, and what is stored.                                            *)

LEMMA NextNumbered ==
    ASSUME Types, NumberedInOrder, [Next]_vars
    PROVE  NumberedInOrder'
<1>1. CASE UNCHANGED notes
  BY <1>1 DEF NumberedInOrder
<1>2. ASSUME NEW r \in Rels, PostNotification(r) PROVE NumberedInOrder'
  <2>0. PICK t \in TopPrefixes, no \in 0 .. Len(notes) :
            LET n == t \o r
                d == Notification(n, no) IN
            d \in Data /\ no = Count(notes, n, Len(notes)) /\ notes' = Append(notes, d)
    BY <1>2, NotificationTypes
  <2> DEFINE n == t \o r
             d == Notification(n, no)
  <2>1. /\ d \in Data /\ d = Notification(n, no) /\ no = Count(notes, n, Len(notes))
        /\ notes' = Append(notes, d)
    BY <2>0
  <2> HIDE DEF n, d
  <2>2. notes \in Seq(Data)
    BY DEF Types, DispatcherTypeOK
  <2>3. /\ Len(notes') = Len(notes) + 1 /\ Len(notes) \in Nat
        /\ \A m : \A k \in 0 .. Len(notes) : Count(notes', m, k) = Count(notes, m, k)
    BY <2>1, <2>2, CountAppend
  <2>4. /\ notes' \in Seq(Data) /\ notes'[Len(notes) + 1] = d
        /\ \A k \in 1 .. Len(notes) : notes'[k] = notes[k]
    BY <2>1, <2>2, AppendProperties
  <2>5. d.name = n /\ d.part = no
    BY <2>1 DEF Notification
  <2>6. DOMAIN notes' = 1 .. Len(notes) + 1 /\ DOMAIN notes = 1 .. Len(notes)
    BY <2>2, <2>3, <2>4, LenProperties
  <2>7. \A k \in DOMAIN notes' : notes'[k].part = Count(notes', notes'[k].name, k - 1)
    <3> TAKE k \in DOMAIN notes'
    <3>1. CASE k = Len(notes) + 1
      <4>1. k - 1 = Len(notes) /\ Len(notes) \in 0 .. Len(notes)
        BY <2>3, <3>1
      <4>2. Count(notes', n, Len(notes)) = no
        BY <2>1, <2>3, <4>1
      <4> QED BY <2>4, <2>5, <3>1, <4>1, <4>2
    <3>2. CASE k # Len(notes) + 1
      <4>1. k \in DOMAIN notes /\ k - 1 \in 0 .. Len(notes)
        BY <2>3, <2>6, <3>2
      <4>2. notes[k].part = Count(notes, notes[k].name, k - 1)
        BY <4>1 DEF NumberedInOrder, Count
      <4>3. Count(notes', notes[k].name, k - 1) = Count(notes, notes[k].name, k - 1)
        BY <2>3, <4>1
      <4>4. notes'[k] = notes[k]
        BY <2>4, <2>6, <4>1
      <4> QED BY <4>2, <4>3, <4>4
    <3> QED BY <3>1, <3>2
  <2> QED BY <2>7 DEF NumberedInOrder, Count
<1> QED BY <1>1, <1>2 DEF Next, vars, counters, AddHandler, AddTopPrefix,
            RemoveTopPrefix, DeliverInterest, RunPost, DeliverData, MarkStale,
            Express, Expire

\* What is found later was there, or is new.
LEMMA FoundStored ==
    ASSUME Types, NEW ds \in Seq(Data), storage' = Stored(storage, ds), NEW i
    PROVE  \A e \in Found(i)' :
                e \in Found(i) \/ (e.data \in ToSet(ds) /\ Satisfies(e.data, i))
<1>1. storage \in Seq(Entries)
  BY DEF Types, DispatcherTypeOK, Entries
<1>2. \A e \in ToSet(storage') :
            e \in ToSet(storage) \/ (e.fresh /\ e.data \in ToSet(ds))
  BY <1>1, StoredProperties
<1> QED BY <1>2 DEF Found

LEMMA FoundStale ==
    ASSUME Types, NEW e \in ToSet(storage), MarkStale(e), NEW i, Found(i)' # {}
    PROVE  Found(i) # {}
<1>1. PICK x \in ToSet(storage') : Satisfies(x.data, i) /\ (i.any => x.fresh)
  BY DEF Found
<1>2. PICK y \in ToSet(storage) : x.data = y.data /\ (x.fresh => y.fresh)
  BY StaleTypes
<1> QED BY <1>1, <1>2 DEF Found

LEMMA NextMissed ==
    ASSUME Types, NobodyMissed, [Next]_vars
    PROVE  NobodyMissed'
<1>0. outbound \in Seq(Data) /\ storage \in Seq(Entries) /\ reached \subseteq pit
  BY DEF Types, DispatcherTypeOK, Entries
<1>1. CASE UNCHANGED <<storage, outbound>> /\ reached' \subseteq reached
  BY <1>1 DEF NobodyMissed, Found
<1>2. ASSUME NEW r \in Rels, PostNotification(r) PROVE NobodyMissed'
  <2>1. PICK d \in Data : storage' = Stored(storage, <<d>>) /\ outbound' = Append(outbound, d)
    BY <1>2, NotificationTypes
  <2>2. reached' = reached
    BY <1>2 DEF PostNotification
  <2>3. <<d>> \in Seq(Data) /\ ToSet(<<d>>) = {d} /\ ToSet(outbound') = ToSet(outbound) \cup {d}
    <3>1. ToSet(outbound') = ToSet(outbound) \cup {d}
      BY <1>0, <2>1, AppendSet
    <3> QED BY <3>1 DEF ToSet
  <2> SUFFICES ASSUME NEW i \in reached, NEW e \in Found(i)'
               PROVE  \E x \in ToSet(outbound') : Satisfies(x, i)
    BY <2>2 DEF NobodyMissed
  <2>4. e \in Found(i) \/ (e.data = d /\ Satisfies(e.data, i))
    BY <2>1, <2>3, FoundStored
  <2> QED BY <2>3, <2>4 DEF NobodyMissed
<1>3. CASE DeliverInterest
  <2> DEFINE i == Head(inbound)
             more == reached \cup ({i} \cap pit)
             had == reached' = reached \/ (Found(i) = {} /\ reached' = more)
  <2>1. /\ i \in Interests
        /\ \/ Silent /\ had
           \/ Respond(i) /\ had
           \/ FromStorage(i) /\ reached' = more
           \/ MakeDataset(i) /\ reached' = more
    BY <1>3, Handled
  <2> HIDE DEF i
  <2>2. CASE Silent /\ had
    BY <2>2 DEF Silent, NobodyMissed, Found
  <2>3. CASE Respond(i) /\ had
    <3>1. /\ ToSet(outbound) \subseteq ToSet(outbound') /\ storage' = storage
      <4>1. i.name \in Names
        BY <2>1 DEF Interests, Whole, Exactly, Data
      <4>2. 0 \in 0 .. MaxMade /\ 0 \in 0 .. LastPart + MaxMade
        BY BoundsAssumption
      <4>3. Response(i.name) \in Data
        BY <4>1, <4>2 DEF Response, Data, Parts
      <4> QED BY <1>0, <2>3, <4>3, AppendSet DEF Respond
    <3> QED BY <2>3, <3>1 DEF NobodyMissed, Found
  <2>4. CASE FromStorage(i) /\ reached' = more
    <3>1. PICK e \in Found(i) : outbound' = Append(outbound, e.data)
      BY <2>4 DEF FromStorage
    <3>2. e.data \in Data /\ Satisfies(e.data, i)
      <4>1. PICK k \in DOMAIN storage : e = storage[k]
        BY DEF Found, ToSet
      <4>2. e \in Entries
        BY <1>0, <4>1, ElementOfSeq, LenProperties
      <4> QED BY <4>2 DEF Entries, Found
    <3>3. ToSet(outbound') = ToSet(outbound) \cup {e.data}
      BY <1>0, <3>1, <3>2, AppendSet
    <3>4. storage' = storage /\ reached' \subseteq reached \cup {i}
      BY <2>4 DEF FromStorage
    <3> QED BY <3>2, <3>3, <3>4 DEF NobodyMissed, Found
  <2>5. CASE MakeDataset(i) /\ reached' = more
    <3>1. /\ i.any /\ versions' = versions + 1
          /\ \E ds \in Seq(Data) : \E first \in Data :
                /\ storage' = Stored(storage, ds)
                /\ outbound' = Append(outbound, first) /\ first.name = i.name
                /\ \A d \in ToSet(ds) : d.name = i.name /\ d.version = versions'
      BY <2>1, <2>5, DatasetTypes
    <3>2. PICK ds \in Seq(Data), first \in Data :
                /\ storage' = Stored(storage, ds)
                /\ outbound' = Append(outbound, first) /\ first.name = i.name
                /\ \A d \in ToSet(ds) : d.name = i.name /\ d.version = versions'
      BY <3>1
    <3>3. ToSet(outbound') = ToSet(outbound) \cup {first}
      BY <1>0, <3>2, AppendSet
    <3>4. versions \in Int
      BY DEF Types, DispatcherTypeOK
    <3>5. ASSUME NEW j \in pit, NEW d \in ToSet(ds), Satisfies(d, j)
          PROVE  Satisfies(first, j)
      <4>1. j.any
        <5> SUFFICES ASSUME ~j.any PROVE FALSE
          OBVIOUS
        <5>1. d = j.data /\ d.version = versions + 1
          BY <3>1, <3>2, <3>5 DEF Satisfies
        <5>2. j.data.version <= versions
          BY DEF Types, Heard
        <5> QED BY <3>4, <5>1, <5>2
      <4> QED BY <3>2, <3>5, <4>1 DEF Satisfies
    <3> SUFFICES ASSUME NEW j \in reached', NEW e \in Found(j)'
                 PROVE  \E x \in ToSet(outbound') : Satisfies(x, j)
      BY DEF NobodyMissed
    <3>6. j \in pit /\ (j \in reached \/ j = i)
      BY <1>0, <2>5
    <3>7. e \in Found(j) \/ (e.data \in ToSet(ds) /\ Satisfies(e.data, j))
      BY <3>2, FoundStored
    <3>8. CASE e \in Found(j)
      <4>1. j # i
        BY <3>8 , <2>5 DEF MakeDataset
      <4>2. \E x \in ToSet(outbound) : Satisfies(x, j)
        BY <3>6, <3>8, <4>1 DEF NobodyMissed
      <4> QED BY <3>3, <4>2
    <3>9. CASE e.data \in ToSet(ds) /\ Satisfies(e.data, j)
      BY <3>3, <3>5, <3>6, <3>9
    <3> QED BY <3>7, <3>8, <3>9
  <2> QED BY <2>1, <2>2, <2>3, <2>4, <2>5
<1>4. ASSUME NEW e \in ToSet(storage), MarkStale(e) PROVE NobodyMissed'
  <2>1. reached' = reached /\ outbound' = outbound
    BY <1>4 DEF MarkStale, forwarder
  <2>2. \A i : Found(i)' # {} => Found(i) # {}
    BY <1>4, FoundStale
  <2> QED BY <2>1, <2>2 DEF NobodyMissed
<1>5. CASE DeliverData
  <2>1. /\ outbound # <<>> /\ outbound' = Tail(outbound) /\ storage' = storage
        /\ reached' = reached \ {i \in pit : Satisfies(Head(outbound), i)}
    BY <1>5 DEF DeliverData, dispatcher
  <2>2. ToSet(outbound) = {Head(outbound)} \cup ToSet(outbound')
    BY <1>0, <2>1, TailSet
  <2> QED BY <1>0, <2>1, <2>2 DEF NobodyMissed, Found
<1>6. ASSUME NEW i \in Interests, Express(i) PROVE NobodyMissed'
  BY <1>6 DEF Express, dispatcher, NobodyMissed, Found
<1>7. ASSUME NEW i \in Interests, Expire(i) PROVE NobodyMissed'
  BY <1>7 DEF Expire, dispatcher, NobodyMissed, Found
<1>8. CASE \/ \E o \in Offers : AddHandler(o)
           \/ \E t \in TopPrefixes : AddTopPrefix(t) \/ RemoveTopPrefix(t)
           \/ RunPost
           \/ UNCHANGED vars
  BY <1>1, <1>8 DEF AddHandler, AddTopPrefix, RemoveTopPrefix, RunPost, vars,
                    dispatcher, forwarder
<1> QED BY <1>2, <1>3, <1>4, <1>5, <1>6, <1>7, <1>8 DEF Next

LEMMA NextFresh ==
    ASSUME Types, OneFreshVersion, [Next]_vars
    PROVE  OneFreshVersion'
<1>0. storage \in Seq(Entries)
  BY DEF Types, DispatcherTypeOK, Entries
<1>1. CASE UNCHANGED storage
  BY <1>1 DEF OneFreshVersion
<1>2. ASSUME NEW r \in Rels, PostNotification(r) PROVE OneFreshVersion'
  <2>0. PICK t \in TopPrefixes, no \in 0 .. Len(notes) :
            LET d == Notification(t \o r, no) IN
            d \in Data /\ storage' = Stored(storage, <<d>>)
    BY <1>2, NotificationTypes
  <2> DEFINE d == Notification(t \o r, no)
  <2>1. d \in Data /\ d = Notification(t \o r, no) /\ storage' = Stored(storage, <<d>>)
    BY <2>0
  <2> HIDE DEF d
  <2>2. <<d>> \in Seq(Data) /\ ToSet(<<d>>) = {d} /\ d.version = 0
    <3>1. d.version = 0
      BY <2>1 DEF Notification
    <3>2. <<d>> \in Seq(Data) /\ ToSet(<<d>>) = {d}
      BY <2>1 DEF ToSet
    <3> QED BY <3>1, <3>2
  <2>3. \A e \in ToSet(storage') : e \in ToSet(storage) \/ e.data = d
    BY <1>0, <2>1, <2>2, StoredProperties
  <2> QED BY <2>2, <2>3 DEF OneFreshVersion
<1>3. ASSUME NEW i \in Interests, MakeDataset(i) PROVE OneFreshVersion'
  <2>1. /\ Found(i) = {} /\ i.any
        /\ \E ds \in Seq(Data) :
             /\ storage' = Stored(storage, ds)
             /\ \A d \in ToSet(ds) : d.name = i.name /\ d.version = versions'
    BY <1>3, DatasetTypes
  <2>2. \A e \in ToSet(storage') :
            \/ e \in ToSet(storage)
            \/ e.data.name = i.name /\ e.data.version = versions'
    BY <1>0, <2>1, StoredProperties
  <2>3. \A e \in ToSet(storage) : e.fresh => e.data.name # i.name
    BY <2>1 DEF Found, Satisfies
  <2> QED BY <2>2, <2>3 DEF OneFreshVersion
<1>4. ASSUME NEW e \in ToSet(storage), MarkStale(e) PROVE OneFreshVersion'
  <2>1. \A x \in ToSet(storage') : \E y \in ToSet(storage) :
            x.data = y.data /\ (x.fresh => y.fresh)
    BY <1>4, StaleTypes
  <2> SUFFICES ASSUME NEW a \in ToSet(storage'), NEW b \in ToSet(storage'),
                      a.fresh, b.fresh, a.data.name = b.data.name,
                      a.data.version > 0, b.data.version > 0
               PROVE  a.data.version = b.data.version
    BY DEF OneFreshVersion
  <2>2. PICK x \in ToSet(storage) : x.data = a.data /\ (a.fresh => x.fresh)
    BY <2>1
  <2>3. PICK y \in ToSet(storage) : y.data = b.data /\ (b.fresh => y.fresh)
    BY <2>1
  <2> QED BY <2>2, <2>3 DEF OneFreshVersion
<1>5. CASE DeliverInterest
  <2>1. PICK i \in Interests : storage' = storage \/ MakeDataset(i)
    BY <1>5, Handled DEF Silent, Respond, FromStorage
  <2> QED BY <1>1, <1>3, <2>1
<1> QED BY <1>1, <1>2, <1>4, <1>5 DEF Next, vars, dispatcher, AddHandler, AddTopPrefix,
            RemoveTopPrefix, RunPost, DeliverData, Express, Expire

-----------------------------------------------------------------------------
(* The filters that the Face will have.                                    *)

Target(p) == [top |-> p.top, rel |-> p.rel]
Full(f)   == f.top \o f.rel

\* The Face has filter f when the first n calls of q are made, if it has those of
\* now: the last of the calls for f tells.
Will(q, now, f, n) ==
    \/ \E k \in 1 .. n : /\ q[k].set /\ Target(q[k]) = f
                         /\ \A j \in k + 1 .. n : Target(q[j]) # f
    \/ f \in now /\ \A k \in 1 .. n : Target(q[k]) # f

\* After each of the calls that wait no two filters overlap, no call sets a
\* filter that is there, and after the last there are those that are wanted.
Apart(q, now) ==
    \A n \in 0 .. Len(q) : \A f, g \in Filters :
        Will(q, now, f, n) /\ Will(q, now, g, n) /\ f # g => ~Overlap(Full(f), Full(g))
SetOnce(q, now) ==
    \A n \in 1 .. Len(q) : q[n].set => ~Will(q, now, Target(q[n]), n - 1)
InTheEnd(q, now) ==
    \A f \in Filters : Will(q, now, f, Len(q)) <=> f.top \in tops /\ f.rel \in DOMAIN handlers

Distinct(S) == \A m, n \in S : m # n => ~Overlap(m, n)

Followed ==
    /\ IsInjective(filters)
    /\ Apart(posts, ToSet(filters))
    /\ SetOnce(posts, ToSet(filters))
    /\ InTheEnd(posts, ToSet(filters))
    /\ Distinct(tops) /\ Distinct(DOMAIN handlers)

(* Names.                                                                  *)

LEMMA PrefixPointwise ==
    ASSUME NEW s \in Seq(Components), NEW t \in Seq(Components)
    PROVE  IsPrefix(s, t) <=>
                Len(s) <= Len(t) /\ \A i \in 1 .. Len(s) : s[i] = t[i]
<1> DEFINE n == Len(s)
<1>1. n \in Nat /\ Len(t) \in Nat
  BY LenProperties
<1>2. CASE ~(n <= Len(t))
  BY <1>2 DEF IsPrefix
<1>3. CASE n <= Len(t)
  <2>1. /\ SubSeq(s, 1, n) \in Seq(Components) /\ Len(SubSeq(s, 1, n)) = n
        /\ \A i \in 1 .. n : SubSeq(s, 1, n)[i] = s[i]
    <3>1. \A i \in 1 .. n : s[i] \in Components /\ 1 + i - 1 = i
      BY <1>1, ElementOfSeq
    <3>2. n - 1 + 1 = n /\ 1 \in Int /\ n \in Int
      BY <1>1
    <3>3. \A i \in 1 .. n : s[i] \in Components
      BY <3>1
    <3> HIDE DEF n
    <3>4. /\ SubSeq(s, 1, n) \in Seq(Components)
          /\ Len(SubSeq(s, 1, n)) = IF 1 <= n THEN n - 1 + 1 ELSE 0
          /\ \A i \in 1 .. n - 1 + 1 : SubSeq(s, 1, n)[i] = s[1 + i - 1]
      BY <3>2, <3>3, SubSeqProperties
    <3> QED BY <1>1, <3>1, <3>2, <3>4
  <2>2. /\ SubSeq(t, 1, n) \in Seq(Components) /\ Len(SubSeq(t, 1, n)) = n
        /\ \A i \in 1 .. n : SubSeq(t, 1, n)[i] = t[i]
    <3>1. \A i \in 1 .. n : t[i] \in Components /\ 1 + i - 1 = i
      BY <1>1, <1>3, ElementOfSeq
    <3>2. n - 1 + 1 = n /\ 1 \in Int /\ n \in Int
      BY <1>1
    <3>3. \A i \in 1 .. n : t[i] \in Components
      BY <3>1
    <3> HIDE DEF n
    <3>4. /\ SubSeq(t, 1, n) \in Seq(Components)
          /\ Len(SubSeq(t, 1, n)) = IF 1 <= n THEN n - 1 + 1 ELSE 0
          /\ \A i \in 1 .. n - 1 + 1 : SubSeq(t, 1, n)[i] = t[1 + i - 1]
      BY <3>2, <3>3, SubSeqProperties
    <3> QED BY <1>1, <3>1, <3>2, <3>4
  <2> DEFINE a == SubSeq(s, 1, n)
             b == SubSeq(t, 1, n)
  <2> HIDE DEF a, b
  <2>3. a = b <=> \A i \in 1 .. n : s[i] = t[i]
    <3>1. /\ a \in Seq(Components) /\ b \in Seq(Components) /\ Len(a) = n /\ Len(b) = n
          /\ \A i \in 1 .. n : a[i] = s[i] /\ b[i] = t[i]
      BY <2>1, <2>2 DEF a, b
    <3>2. ASSUME \A i \in 1 .. n : s[i] = t[i] PROVE a = b
      BY <3>1, <3>2, SeqEqual
    <3> QED BY <3>1, <3>2
  <2> QED BY <1>3, <2>3 DEF IsPrefix, a, b
<1> QED BY <1>2, <1>3

\* Two names above a third one are one above the other.
LEMMA AboveOverlaps ==
    ASSUME NEW s \in Seq(Components), NEW t \in Seq(Components),
           NEW u \in Seq(Components), IsPrefix(s, u), IsPrefix(t, u)
    PROVE  Overlap(s, t)
<1>1. /\ Len(s) \in Nat /\ Len(t) \in Nat
      /\ Len(s) <= Len(u) /\ \A i \in 1 .. Len(s) : s[i] = u[i]
      /\ Len(t) <= Len(u) /\ \A i \in 1 .. Len(t) : t[i] = u[i]
  BY PrefixPointwise, LenProperties
<1>2. CASE Len(s) <= Len(t)
  <2>1. \A i \in 1 .. Len(s) : s[i] = t[i]
    BY <1>1, <1>2
  <2> QED BY <1>2, <2>1, PrefixPointwise DEF Overlap
<1>3. CASE ~(Len(s) <= Len(t))
  <2>1. Len(t) <= Len(s) /\ \A i \in 1 .. Len(t) : t[i] = s[i]
    BY <1>1, <1>3
  <2> QED BY <2>1, PrefixPointwise DEF Overlap
<1> QED BY <1>2, <1>3

\* If a name below top prefix t is above one below u, t and u overlap; and so do
\* the rests, if t is u.
LEMMA BelowPrefix ==
    ASSUME NEW t \in Seq(Components), NEW r \in Seq(Components),
           NEW u \in Seq(Components), NEW v \in Seq(Components),
           IsPrefix(t \o r, u \o v)
    PROVE  Overlap(t, u) /\ (t = u => IsPrefix(r, v))
<1> DEFINE a == t \o r
           b == u \o v
<1>1. /\ a \in Seq(Components) /\ Len(a) = Len(t) + Len(r)
      /\ \A i \in 1 .. Len(t) + Len(r) : a[i] = IF i <= Len(t) THEN t[i] ELSE r[i - Len(t)]
  BY ConcatProperties
<1>2. /\ b \in Seq(Components) /\ Len(b) = Len(u) + Len(v)
      /\ \A i \in 1 .. Len(u) + Len(v) : b[i] = IF i <= Len(u) THEN u[i] ELSE v[i - Len(u)]
  BY ConcatProperties
<1>3. /\ Len(t) \in Nat /\ Len(r) \in Nat /\ Len(u) \in Nat /\ Len(v) \in Nat
  BY LenProperties
<1>4. IsPrefix(a, b)
  OBVIOUS
<1> HIDE DEF a, b
<1>5. Len(a) <= Len(b) /\ \A i \in 1 .. Len(a) : a[i] = b[i]
  BY <1>1, <1>2, <1>4, PrefixPointwise
<1>6. IsPrefix(t, b)
  <2>1. Len(t) <= Len(b) /\ \A i \in 1 .. Len(t) : t[i] = b[i]
    BY <1>1, <1>3, <1>5
  <2> QED BY <1>2, <2>1, PrefixPointwise
<1>7. IsPrefix(u, b)
  <2>1. Len(u) <= Len(b) /\ \A i \in 1 .. Len(u) : u[i] = b[i]
    BY <1>2, <1>3
  <2> QED BY <1>2, <2>1, PrefixPointwise
<1>8. ASSUME t = u PROVE IsPrefix(r, v)
  <2>1. Len(r) <= Len(v)
    BY <1>1, <1>2, <1>3, <1>5, <1>8
  <2>2. \A i \in 1 .. Len(r) : r[i] = v[i]
    <3> TAKE i \in 1 .. Len(r)
    <3> DEFINE k == i + Len(t)
    <3>1. /\ k \in 1 .. Len(t) + Len(r) /\ k \in 1 .. Len(u) + Len(v)
          /\ ~(k <= Len(t)) /\ k - Len(t) = i /\ ~(k <= Len(u)) /\ k - Len(u) = i
      BY <1>3, <1>8, <2>1
    <3> HIDE DEF k
    <3>2. a[k] = r[i] /\ b[k] = v[i] /\ a[k] = b[k]
      BY <1>1, <1>2, <1>5, <3>1
    <3> QED BY <3>2
  <2> QED BY <2>1, <2>2, PrefixPointwise
<1> QED BY <1>2, <1>6, <1>7, <1>8, AboveOverlaps

LEMMA FilterNames ==
    ASSUME NEW f \in Filters, NEW g \in Filters, Overlap(Full(f), Full(g))
    PROVE  Overlap(f.top, g.top) /\ (f.top = g.top => Overlap(f.rel, g.rel))
<1>1. /\ f.top \in Seq(Components) /\ f.rel \in Seq(Components)
      /\ g.top \in Seq(Components) /\ g.rel \in Seq(Components)
  BY NamesAssumption DEF Filters, Rels
<1> QED BY <1>1, BelowPrefix DEF Overlap, Full

-----------------------------------------------------------------------------
(* The calls that wait.                                                    *)

LEMMA WillNone == ASSUME NEW q, NEW now, NEW f
    PROVE Will(q, now, f, 0) <=> f \in now
BY DEF Will

\* The first call is made.
LEMMA WillTail ==
    ASSUME NEW q \in Seq(Calling), q # <<>>, NEW now, NEW next,
           next = IF Head(q).set THEN now \cup {Target(Head(q))}
                  ELSE now \ {Target(Head(q))}
    PROVE  \A f : \A n \in 0 .. Len(Tail(q)) :
                Will(Tail(q), next, f, n) <=> Will(q, now, f, n + 1)
<1> DEFINE t == Tail(q)
           h == Head(q)
<1>1. /\ Len(t) \in Nat /\ \A i \in 1 .. Len(t) : t[i] = q[i + 1]
      /\ q[1] = h
  BY HeadTailProperties
<1>2. h.set \in BOOLEAN
  <2>1. h \in Calling
    BY TailSet
  <2> QED BY <2>1 DEF Calling
<1> HIDE DEF t, h
<1> SUFFICES ASSUME NEW f, NEW n \in 0 .. Len(t)
             PROVE  Will(t, next, f, n) <=> Will(q, now, f, n + 1)
  BY DEF t
<1>3. /\ n \in Nat /\ \A i \in 1 .. n : t[i] = q[i + 1]
      /\ \A k \in 2 .. n + 1 : k - 1 \in 1 .. n /\ q[k] = t[k - 1]
  <2>1. n \in Nat /\ \A i \in 1 .. n : t[i] = q[i + 1]
    BY <1>1
  <2>2. \A k \in 2 .. n + 1 : k - 1 \in 1 .. n /\ (k - 1) + 1 = k
    BY <2>1
  <2> QED BY <2>1, <2>2
<1>4. f \in next <=> (h.set /\ Target(h) = f) \/ (f \in now /\ Target(h) # f)
  BY DEF h
<1>5. ASSUME Will(t, next, f, n) PROVE Will(q, now, f, n + 1)
  <2>1. ASSUME NEW k \in 1 .. n, t[k].set, Target(t[k]) = f,
               \A j \in k + 1 .. n : Target(t[j]) # f
        PROVE  Will(q, now, f, n + 1)
    <3>1. \A j \in k + 2 .. n + 1 : Target(q[j]) # f
      <4> TAKE j \in k + 2 .. n + 1
      <4>1. j \in 2 .. n + 1 /\ j - 1 \in k + 1 .. n
        BY <1>3
      <4> QED BY <1>3, <2>1, <4>1
    <3>2. k + 1 \in 1 .. n + 1 /\ q[k + 1] = t[k] /\ (k + 1) + 1 = k + 2
      BY <1>3
    <3> QED BY <2>1, <3>1, <3>2 DEF Will
  <2>2. ASSUME f \in next, \A k \in 1 .. n : Target(t[k]) # f
        PROVE  Will(q, now, f, n + 1)
    <3>1. \A k \in 2 .. n + 1 : Target(q[k]) # f
      BY <1>3, <2>2
    <3>2. CASE h.set /\ Target(h) = f
      BY <1>1, <1>3, <3>1, <3>2 DEF Will
    <3>3. CASE f \in now /\ Target(h) # f
      <4>1. \A k \in 1 .. n + 1 : k = 1 \/ k \in 2 .. n + 1
        BY <1>3
      <4> QED BY <1>1, <3>1, <3>3, <4>1 DEF Will
    <3> QED BY <1>4, <2>2, <3>2, <3>3
  <2> QED BY <1>5, <2>1, <2>2 DEF Will
<1>6. ASSUME Will(q, now, f, n + 1) PROVE Will(t, next, f, n)
  <2>1. ASSUME NEW k \in 1 .. n + 1, q[k].set, Target(q[k]) = f,
               \A j \in k + 1 .. n + 1 : Target(q[j]) # f
        PROVE  Will(t, next, f, n)
    <3>1. \A j \in k .. n : j \in 1 .. n => Target(t[j]) # f
      <4> TAKE j \in k .. n
      <4>1. j + 1 \in k + 1 .. n + 1
        BY <1>3
      <4> QED BY <1>3, <2>1, <4>1
    <3>2. CASE k = 1
      BY <1>1, <1>3, <1>4, <2>1, <3>1, <3>2 DEF Will
    <3>3. CASE k # 1
      <4>1. k \in 2 .. n + 1 /\ k - 1 \in 1 .. n /\ q[k] = t[k - 1] /\ (k - 1) + 1 = k
        BY <1>3, <3>3
      <4>2. \A j \in k .. n : j \in 1 .. n
        BY <1>3
      <4> QED BY <2>1, <3>1, <4>1, <4>2 DEF Will
    <3> QED BY <3>2, <3>3
  <2>2. ASSUME f \in now, \A k \in 1 .. n + 1 : Target(q[k]) # f
        PROVE  Will(t, next, f, n)
    <3>1. 1 \in 1 .. n + 1 /\ \A i \in 1 .. n : i + 1 \in 1 .. n + 1
      BY <1>3
    <3> QED BY <1>1, <1>3, <1>4, <2>2, <3>1 DEF Will
  <2> QED BY <1>6, <2>1, <2>2 DEF Will
<1> QED BY <1>5, <1>6

Different(c) == \A j, k \in 1 .. Len(c) : Target(c[j]) = Target(c[k]) => j = k

\* What r makes of the filters, if it is q with calls c added.
Extended(r, q, c, now) ==
    /\ Len(r) = Len(q) + Len(c) /\ Len(q) \in Nat /\ Len(c) \in Nat
    /\ \A k \in 1 .. Len(q) : r[k] = q[k]
    /\ \A k \in 1 .. Len(c) : r[Len(q) + k] = c[k]
    /\ \A f : \A k \in 0 .. Len(q) : Will(r, now, f, k) <=> Will(q, now, f, k)
    /\ \A f : \A m \in 0 .. Len(c) :
            Will(r, now, f, Len(q) + m) <=>
                \/ \E k \in 1 .. m : c[k].set /\ Target(c[k]) = f
                \/ Will(q, now, f, Len(q)) /\ \A k \in 1 .. m : Target(c[k]) # f

\* Calls for different filters are added.
LEMMA WillBlock ==
    ASSUME NEW q \in Seq(Calling), NEW c \in Seq(Calling), NEW now, Different(c)
    PROVE  Extended(q \o c, q, c, now)
<1> DEFINE r == q \o c
           n == Len(q)
<1>1. /\ r \in Seq(Calling) /\ Len(r) = n + Len(c) /\ n \in Nat /\ Len(c) \in Nat
      /\ \A k \in 1 .. n + Len(c) : r[k] = IF k <= n THEN q[k] ELSE c[k - n]
  BY ConcatProperties, LenProperties
<1> HIDE DEF r, n
<1>2. \A k \in 1 .. n : r[k] = q[k]
  BY <1>1
<1>3. \A k \in 1 .. Len(c) : r[n + k] = c[k]
  <2> TAKE k \in 1 .. Len(c)
  <2>1. n + k \in 1 .. n + Len(c) /\ ~(n + k <= n) /\ (n + k) - n = k
    BY <1>1
  <2> QED BY <1>1, <2>1
<1>4. ASSUME NEW f, NEW k \in 0 .. n
      PROVE  Will(r, now, f, k) <=> Will(q, now, f, k)
  <2>1. k \in Nat /\ \A i \in 1 .. k : i \in 1 .. n
    BY <1>1
  <2>2. \A i \in 1 .. k : r[i] = q[i] /\ \A j \in i + 1 .. k : j \in 1 .. k
    BY <1>2, <2>1
  <2>3. ASSUME Will(r, now, f, k) PROVE Will(q, now, f, k)
    BY <2>2, <2>3 DEF Will
  <2>4. ASSUME Will(q, now, f, k) PROVE Will(r, now, f, k)
    BY <2>2, <2>4 DEF Will
  <2> QED BY <2>3, <2>4
<1>5. ASSUME NEW f, NEW m \in 0 .. Len(c)
      PROVE  Will(r, now, f, n + m) <=>
                \/ \E k \in 1 .. m : c[k].set /\ Target(c[k]) = f
                \/ Will(q, now, f, n) /\ \A k \in 1 .. m : Target(c[k]) # f
  <2>1. /\ m \in Nat /\ \A k \in 1 .. m : k \in 1 .. Len(c)
        /\ \A k \in n + 1 .. n + m : k - n \in 1 .. m /\ r[k] = c[k - n]
    <3>1. m \in Nat /\ \A k \in 1 .. m : k \in 1 .. Len(c)
      BY <1>1
    <3>2. \A k \in n + 1 .. n + m : k - n \in 1 .. m /\ n + (k - n) = k
      BY <1>1, <3>1
    <3> QED BY <1>3, <3>1, <3>2
  <2>2. CASE \E k \in 1 .. m : Target(c[k]) = f
    <3>1. PICK k \in 1 .. m : Target(c[k]) = f
      BY <2>2
    <3>2. /\ r[n + k] = c[k] /\ n + k \in 1 .. n + m
          /\ \A i \in 1 .. m : Target(c[i]) = f => i = k
      BY <1>1, <1>3, <2>1, <3>1 DEF Different
    <3>3. \A j \in n + k + 1 .. n + m : Target(r[j]) # f
      <4> TAKE j \in n + k + 1 .. n + m
      <4>1. j \in n + 1 .. n + m /\ j - n \in 1 .. m /\ j - n # k
        BY <1>1, <2>1
      <4> QED BY <2>1, <3>2, <4>1
    <3>4. CASE c[k].set
      BY <2>2, <3>1, <3>2, <3>3, <3>4 DEF Will
    <3>5. CASE ~c[k].set
      <4>1. ASSUME NEW i \in 1 .. n + m, r[i].set, Target(r[i]) = f,
                   \A j \in i + 1 .. n + m : Target(r[j]) # f
            PROVE  FALSE
        <5>1. CASE i > n
          <6>1. i \in n + 1 .. n + m
            BY <1>1, <2>1, <5>1
          <6> QED BY <2>1, <3>2, <3>5, <4>1, <6>1
        <5>2. CASE ~(i > n)
          <6>1. n + k \in i + 1 .. n + m
            BY <1>1, <2>1, <5>2
          <6> QED BY <3>1, <3>2, <4>1, <6>1
        <5> QED BY <5>1, <5>2
      <4>2. ~Will(r, now, f, n + m)
        BY <3>1, <3>2, <4>1 DEF Will
      <4> QED BY <3>1, <3>2, <3>5, <4>2
    <3> QED BY <3>4, <3>5
  <2>3. CASE ~\E k \in 1 .. m : Target(c[k]) = f
    <3>1. \A k \in n + 1 .. n + m : Target(r[k]) # f
      BY <2>1, <2>3
    <3>2. \A i \in 1 .. n + m : i \in 1 .. n \/ i \in n + 1 .. n + m
      BY <1>1, <2>1
    <3>3. \A i \in 1 .. n : i \in 1 .. n + m
      BY <1>1, <2>1
    <3>4. ASSUME Will(r, now, f, n + m) PROVE Will(q, now, f, n)
      <4>1. ASSUME NEW i \in 1 .. n + m, r[i].set, Target(r[i]) = f,
                   \A j \in i + 1 .. n + m : Target(r[j]) # f
            PROVE  Will(q, now, f, n)
        <5>1. i \in 1 .. n
          BY <3>1, <3>2, <4>1
        <5>2. \A j \in i + 1 .. n : j \in 1 .. n /\ j \in i + 1 .. n + m
          BY <1>1, <2>1
        <5>3. \A j \in i + 1 .. n : Target(q[j]) # f
          BY <1>2, <4>1, <5>2
        <5> QED BY <1>2, <4>1, <5>1, <5>3 DEF Will
      <4>2. ASSUME f \in now, \A i \in 1 .. n + m : Target(r[i]) # f
            PROVE  Will(q, now, f, n)
        BY <1>2, <3>3, <4>2 DEF Will
      <4> QED BY <3>4, <4>1, <4>2 DEF Will
    <3>5. ASSUME Will(q, now, f, n) PROVE Will(r, now, f, n + m)
      <4>1. ASSUME NEW i \in 1 .. n, q[i].set, Target(q[i]) = f,
                   \A j \in i + 1 .. n : Target(q[j]) # f
            PROVE  Will(r, now, f, n + m)
        <5>1. \A j \in i + 1 .. n + m : (j \in i + 1 .. n /\ j \in 1 .. n)
                                            \/ j \in n + 1 .. n + m
          BY <1>1, <2>1
        <5>2. \A j \in i + 1 .. n + m : Target(r[j]) # f
          BY <1>2, <3>1, <4>1, <5>1
        <5> QED BY <1>2, <3>3, <4>1, <5>2 DEF Will
      <4>2. ASSUME f \in now, \A i \in 1 .. n : Target(q[i]) # f
            PROVE  Will(r, now, f, n + m)
        BY <1>2, <3>1, <3>2, <4>2 DEF Will
      <4> QED BY <3>5, <4>1, <4>2 DEF Will
    <3> QED BY <2>3, <3>4, <3>5
  <2> QED BY <2>2, <2>3
<1> QED BY <1>1, <1>2, <1>3, <1>4, <1>5 DEF r, n, Extended

-----------------------------------------------------------------------------
(* A step and the filters.                                                 *)

LEMMA PostTypes ==
    ASSUME Types
    PROVE  /\ posts \in Seq(Calling) /\ filters \in Seq(Filters)
           /\ tops \subseteq TopPrefixes
           /\ IsFiniteSet(DOMAIN handlers) /\ DOMAIN handlers \subseteq Rels
BY DEF Types, DispatcherTypeOK, Calling, Filters

LEMMA FollowedRunPost ==
    ASSUME Types, Followed, RunPost
    PROVE  Followed'
<1>1. /\ posts \in Seq(Calling) /\ filters \in Seq(Filters) /\ posts # <<>>
      /\ posts' = Tail(posts) /\ tops' = tops /\ handlers' = handlers
  BY PostTypes DEF RunPost, dispatcher
<1> DEFINE p == Head(posts)
           now == ToSet(filters)
           next == IF p.set THEN now \cup {Target(p)} ELSE now \ {Target(p)}
<1>2. /\ p \in Calling /\ Target(p) \in Filters /\ p = posts[1]
      /\ Len(posts) = Len(posts') + 1 /\ Len(posts') \in Nat
      /\ \A i \in 1 .. Len(posts') : posts'[i] = posts[i + 1]
  <2>1. p \in Calling /\ Len(posts) = Len(posts') + 1 /\ Len(posts') \in Nat
    BY <1>1, TailSet
  <2>2. p = posts[1] /\ \A i \in 1 .. Len(posts') : posts'[i] = posts[i + 1]
    BY <1>1, HeadTailProperties
  <2>3. Target(p) \in Filters
    BY <2>1 DEF Calling, Filters, Target
  <2> QED BY <2>1, <2>2, <2>3
<1>3. filters' = IF p.set THEN Append(filters, Target(p)) ELSE RemoveFirst(filters, Target(p))
  BY DEF RunPost, Target
<1>4. IsInjective(filters') /\ ToSet(filters') = next
  <2>1. CASE p.set
    <3>1. ~Will(posts, now, Target(p), 0)
      <4>1. 1 \in 1 .. Len(posts) /\ 1 - 1 = 0
        BY <1>2
      <4> QED BY <1>2, <2>1, <4>1 DEF Followed, SetOnce
    <3>2. Target(p) \notin now
      BY <3>1, WillNone
    <3>3. /\ DOMAIN filters = 1 .. Len(filters) /\ Len(filters) \in Nat
          /\ filters' = Append(filters, Target(p))
          /\ DOMAIN filters' = 1 .. Len(filters) + 1
          /\ filters'[Len(filters) + 1] = Target(p)
          /\ \A i \in 1 .. Len(filters) : filters'[i] = filters[i]
      <4>1. filters' = Append(filters, Target(p))
        BY <1>3, <2>1
      <4>2. /\ filters' \in Seq(Filters) /\ Len(filters') = Len(filters) + 1
            /\ filters'[Len(filters) + 1] = Target(p)
            /\ \A i \in 1 .. Len(filters) : filters'[i] = filters[i]
        BY <1>1, <1>2, <4>1, AppendProperties
      <4> QED BY <1>1, <4>1, <4>2, LenProperties
    <3>4. IsInjective(filters')
      <4>1. \A i \in 1 .. Len(filters) : filters[i] # Target(p)
        BY <3>2, <3>3 DEF ToSet
      <4>2. \A i, j \in 1 .. Len(filters) : filters[i] = filters[j] => i = j
        BY <3>3 DEF Followed, IsInjective
      <4>3. \A i \in 1 .. Len(filters) + 1 : i \in 1 .. Len(filters) \/ i = Len(filters) + 1
        BY <3>3
      <4> QED BY <3>3, <4>1, <4>2, <4>3 DEF IsInjective
    <3> QED BY <1>1, <1>2, <2>1, <3>3, <3>4, AppendSet
  <2>2. CASE ~p.set
    BY <1>1, <1>3, <2>2, FirstRemoved DEF Followed
  <2> QED BY <2>1, <2>2
<1>5. \A f : \A n \in 0 .. Len(posts') :
        Will(posts', ToSet(filters'), f, n) <=> Will(posts, now, f, n + 1)
  BY <1>1, <1>4, WillTail
<1> HIDE DEF now, next
<1>6. Apart(posts', ToSet(filters'))
  <2>1. \A n \in 0 .. Len(posts') : n + 1 \in 0 .. Len(posts)
    BY <1>2
  <2> QED BY <1>5, <2>1 DEF Followed, Apart, now
<1>7. SetOnce(posts', ToSet(filters'))
  <2> SUFFICES ASSUME NEW n \in 1 .. Len(posts'), posts'[n].set
               PROVE  ~Will(posts', ToSet(filters'), Target(posts'[n]), n - 1)
    BY DEF SetOnce
  <2>1. /\ n + 1 \in 1 .. Len(posts) /\ (n + 1) - 1 = n /\ posts'[n] = posts[n + 1]
        /\ n - 1 \in 0 .. Len(posts') /\ (n - 1) + 1 = n
    BY <1>2
  <2>2. ~Will(posts, now, Target(posts[n + 1]), n)
    BY <2>1 DEF Followed, SetOnce, now
  <2> QED BY <1>5, <2>1, <2>2
<1>8. InTheEnd(posts, ToSet(filters))'
  <2>1. Len(posts') \in 0 .. Len(posts')
    BY <1>2
  <2> QED BY <1>1, <1>2, <1>5, <2>1 DEF Followed, InTheEnd, now
<1> QED BY <1>1, <1>4, <1>6, <1>7, <1>8 DEF Followed

LEMMA FollowedAdd ==
    ASSUME Types, Followed, NEW t \in TopPrefixes, AddTopPrefix(t)
    PROVE  Followed'
<1> DEFINE c == Calls(TRUE, t)
           now == ToSet(filters)
           N == Len(posts)
<1>1. /\ posts \in Seq(Calling) /\ filters \in Seq(Filters)
      /\ IsFiniteSet(DOMAIN handlers) /\ DOMAIN handlers \subseteq Rels
      /\ tops \subseteq TopPrefixes
  BY PostTypes
<1>2. /\ \A u \in tops : ~Overlap(u, t)
      /\ tops' = tops \cup {t} /\ posts' = posts \o c
      /\ filters' = filters /\ handlers' = handlers
  BY DEF AddTopPrefix, SetAll
<1>3. t \notin tops
  <2>1. t \in Seq(Components)
    BY NamesAssumption
  <2> QED BY <1>2, <2>1, Overlapping
<1>4. /\ c \in Seq(Calling) /\ Len(c) \in Nat
      /\ \A k \in 1 .. Len(c) : c[k].set /\ c[k].top = t /\ c[k].rel \in DOMAIN handlers
      /\ \A j, k \in 1 .. Len(c) : c[j].rel = c[k].rel => j = k
      /\ \A r \in DOMAIN handlers : \E k \in 1 .. Len(c) : c[k].rel = r
  BY <1>1, CallsProperties
<1> HIDE DEF c, now, N
<1>5. /\ \A k \in 1 .. Len(c) : Target(c[k]).top = t /\ Target(c[k]).rel = c[k].rel
      /\ \A j, k \in 1 .. Len(c) : Target(c[j]) = Target(c[k]) => j = k
  BY <1>4 DEF Target
<1>6. /\ Len(posts') = N + Len(c) /\ N \in Nat
      /\ \A k \in 1 .. N : posts'[k] = posts[k]
      /\ \A k \in 1 .. Len(c) : posts'[N + k] = c[k]
      /\ \A f : \A k \in 0 .. N : Will(posts', now, f, k) <=> Will(posts, now, f, k)
      /\ \A f : \A m \in 0 .. Len(c) :
            Will(posts', now, f, N + m) <=>
                (\E k \in 1 .. m : Target(c[k]) = f) \/ Will(posts, now, f, N)
  <2>1. /\ Len(posts') = N + Len(c) /\ N \in Nat
        /\ \A k \in 1 .. N : posts'[k] = posts[k]
        /\ \A k \in 1 .. Len(c) : posts'[N + k] = c[k]
        /\ \A f : \A k \in 0 .. N : Will(posts', now, f, k) <=> Will(posts, now, f, k)
        /\ \A f : \A m \in 0 .. Len(c) :
              Will(posts', now, f, N + m) <=>
                  \/ \E k \in 1 .. m : c[k].set /\ Target(c[k]) = f
                  \/ Will(posts, now, f, N) /\ \A k \in 1 .. m : Target(c[k]) # f
    <3>1. /\ posts \in Seq(Calling) /\ c \in Seq(Calling)
          /\ Different(c)
      BY <1>1, <1>4, <1>5 DEF Different
    <3>2. Extended(posts \o c, posts, c, now)
      BY <3>1, WillBlock
    <3> QED BY <1>2, <3>2 DEF N, Extended
  <2>2. \A m \in 0 .. Len(c) : \A k \in 1 .. m : c[k].set
    BY <1>4
  <2> QED BY <2>1, <2>2
<1>7. \A f \in Filters : Will(posts, now, f, N) <=> f.top \in tops /\ f.rel \in DOMAIN handlers
  BY DEF Followed, InTheEnd, now, N
<1>8. Apart(posts', now)
  <2> SUFFICES ASSUME NEW n \in 0 .. Len(posts'), NEW f \in Filters, NEW g \in Filters,
                      Will(posts', now, f, n), Will(posts', now, g, n), f # g
               PROVE  ~Overlap(Full(f), Full(g))
    BY DEF Apart
  <2>1. CASE n <= N
    <3>1. n \in 0 .. N
      BY <1>6, <2>1
    <3>2. Will(posts, now, f, n) /\ Will(posts, now, g, n)
      BY <1>6, <3>1
    <3> QED BY <3>1, <3>2 DEF Followed, Apart, now, N
  <2>2. CASE ~(n <= N)
    <3> DEFINE m == n - N
    <3>1. m \in 1 .. Len(c) /\ m \in 0 .. Len(c) /\ N + m = n /\ \A k \in 1 .. m : k \in 1 .. Len(c)
      BY <1>4, <1>6, <2>2
    <3> HIDE DEF m
    <3>2. \A h \in {f, g} :
            \/ h.top = t /\ h.rel \in DOMAIN handlers
            \/ Will(posts, now, h, N) /\ h.top \in tops /\ h.rel \in DOMAIN handlers
      <4> TAKE h \in {f, g}
      <4>1. (\E k \in 1 .. m : Target(c[k]) = h) \/ Will(posts, now, h, N)
        BY <1>6, <3>1
      <4>2. ASSUME NEW k \in 1 .. m, Target(c[k]) = h
            PROVE  h.top = t /\ h.rel \in DOMAIN handlers
        BY <1>4, <1>5, <3>1, <4>2
      <4> QED BY <1>7, <4>1, <4>2
    <3>3. CASE f.top = t /\ g.top = t
      <4>1. f.rel # g.rel
        BY <3>3 DEF Filters
      <4>2. ~Overlap(f.rel, g.rel)
        BY <3>2, <4>1 DEF Followed, Distinct
      <4> QED BY <3>3, <4>2, FilterNames
    <3>4. CASE f.top = t /\ g.top # t
      <4>1. g.top \in tops
        BY <3>2, <3>4
      <4>2. ~Overlap(f.top, g.top)
        BY <1>2, <3>4, <4>1 DEF Overlap
      <4> QED BY <4>2, FilterNames
    <3>5. CASE f.top # t /\ g.top = t
      <4>1. f.top \in tops
        BY <3>2, <3>5
      <4>2. ~Overlap(f.top, g.top)
        BY <1>2, <3>5, <4>1 DEF Overlap
      <4> QED BY <4>2, FilterNames
    <3>6. CASE f.top # t /\ g.top # t
      <4>1. N \in 0 .. N /\ Will(posts, now, f, N) /\ Will(posts, now, g, N)
        BY <1>6, <3>2, <3>6
      <4> QED BY <4>1 DEF Followed, Apart, now, N
    <3> QED BY <3>3, <3>4, <3>5, <3>6
  <2> QED BY <2>1, <2>2
<1>9. SetOnce(posts', now)
  <2> SUFFICES ASSUME NEW n \in 1 .. Len(posts'), posts'[n].set
               PROVE  ~Will(posts', now, Target(posts'[n]), n - 1)
    BY DEF SetOnce
  <2>1. CASE n <= N
    <3>1. n \in 1 .. N /\ n - 1 \in 0 .. N
      BY <1>6, <2>1
    <3>2. ~Will(posts, now, Target(posts[n]), n - 1)
      BY <1>6, <3>1 DEF Followed, SetOnce, now, N
    <3> QED BY <1>6, <3>1, <3>2
  <2>2. CASE ~(n <= N)
    <3> DEFINE m == n - N
    <3>1. /\ m \in 1 .. Len(c) /\ m - 1 \in 0 .. Len(c) /\ N + m = n /\ N + (m - 1) = n - 1
          /\ \A k \in 1 .. m - 1 : k \in 1 .. Len(c) /\ k # m
      BY <1>4, <1>6, <2>2
    <3> HIDE DEF m
    <3>2. posts'[n] = c[m]
      BY <1>6, <3>1
    <3>3. Target(c[m]) \in Filters /\ Target(c[m]).top \notin tops
      <4>1. c[m] \in Calling
        BY <1>4, <3>1, ElementOfSeq
      <4>2. Target(c[m]) \in Filters
        BY <4>1 DEF Calling, Target, Filters
      <4> QED BY <1>3, <1>5, <3>1, <4>2
    <3>4. ~Will(posts, now, Target(c[m]), N)
      BY <1>7, <3>3
    <3>5. ~\E k \in 1 .. m - 1 : Target(c[k]) = Target(c[m])
      BY <1>5, <3>1
    <3> QED BY <1>6, <3>1, <3>2, <3>4, <3>5
  <2> QED BY <2>1, <2>2
<1>10. \A f \in Filters :
        Will(posts', now, f, Len(posts')) <=> f.top \in tops' /\ f.rel \in DOMAIN handlers
  <2> TAKE f \in Filters
  <2>1. Will(posts', now, f, Len(posts')) <=>
            (\E k \in 1 .. Len(c) : Target(c[k]) = f) \/ Will(posts, now, f, N)
    <3>1. Len(c) \in 0 .. Len(c)
      BY <1>4
    <3> QED BY <1>6, <3>1
  <2>2. (\E k \in 1 .. Len(c) : Target(c[k]) = f) <=> f.top = t /\ f.rel \in DOMAIN handlers
    <3>1. ASSUME f.top = t, f.rel \in DOMAIN handlers
          PROVE  \E k \in 1 .. Len(c) : Target(c[k]) = f
      <4>1. PICK k \in 1 .. Len(c) : c[k].rel = f.rel
        BY <1>4, <3>1
      <4>2. Target(c[k]) = f
        BY <1>4, <3>1, <4>1 DEF Target, Filters
      <4> QED BY <4>2
    <3> QED BY <1>4, <1>5, <3>1
  <2> QED BY <1>2, <1>7, <2>1, <2>2
<1>11. Distinct(tops')
  BY <1>2 DEF Followed, Distinct, Overlap
<1> QED BY <1>2, <1>8, <1>9, <1>10, <1>11 DEF Followed, InTheEnd, now

LEMMA FollowedRemove ==
    ASSUME Types, Followed, NEW t \in TopPrefixes, RemoveTopPrefix(t)
    PROVE  Followed'
<1> DEFINE c == Calls(FALSE, t)
           now == ToSet(filters)
           N == Len(posts)
<1>1. /\ posts \in Seq(Calling) /\ filters \in Seq(Filters)
      /\ IsFiniteSet(DOMAIN handlers) /\ DOMAIN handlers \subseteq Rels
  BY PostTypes
<1>2. /\ tops' = tops \ {t} /\ posts' = posts \o c
      /\ filters' = filters /\ handlers' = handlers
  BY DEF RemoveTopPrefix, UnsetAll
<1>4. /\ c \in Seq(Calling) /\ Len(c) \in Nat
      /\ \A k \in 1 .. Len(c) : c[k].set = FALSE /\ c[k].top = t /\ c[k].rel \in DOMAIN handlers
      /\ \A j, k \in 1 .. Len(c) : c[j].rel = c[k].rel => j = k
      /\ \A r \in DOMAIN handlers : \E k \in 1 .. Len(c) : c[k].rel = r
  BY <1>1, CallsProperties
<1> HIDE DEF c, now, N
<1>5. /\ \A k \in 1 .. Len(c) : Target(c[k]).top = t /\ Target(c[k]).rel = c[k].rel
      /\ \A j, k \in 1 .. Len(c) : Target(c[j]) = Target(c[k]) => j = k
  BY <1>4 DEF Target
<1>6. /\ Len(posts') = N + Len(c) /\ N \in Nat
      /\ \A k \in 1 .. N : posts'[k] = posts[k]
      /\ \A k \in 1 .. Len(c) : posts'[N + k] = c[k]
      /\ \A f : \A k \in 0 .. N : Will(posts', now, f, k) <=> Will(posts, now, f, k)
      /\ \A f : \A m \in 0 .. Len(c) :
            Will(posts', now, f, N + m) <=>
                ~(\E k \in 1 .. m : Target(c[k]) = f) /\ Will(posts, now, f, N)
  <2>1. /\ Len(posts') = N + Len(c) /\ N \in Nat
        /\ \A k \in 1 .. N : posts'[k] = posts[k]
        /\ \A k \in 1 .. Len(c) : posts'[N + k] = c[k]
        /\ \A f : \A k \in 0 .. N : Will(posts', now, f, k) <=> Will(posts, now, f, k)
        /\ \A f : \A m \in 0 .. Len(c) :
              Will(posts', now, f, N + m) <=>
                  \/ \E k \in 1 .. m : c[k].set /\ Target(c[k]) = f
                  \/ Will(posts, now, f, N) /\ \A k \in 1 .. m : Target(c[k]) # f
    <3>1. /\ posts \in Seq(Calling) /\ c \in Seq(Calling)
          /\ Different(c)
      BY <1>1, <1>4, <1>5 DEF Different
    <3>2. Extended(posts \o c, posts, c, now)
      BY <3>1, WillBlock
    <3> QED BY <1>2, <3>2 DEF N, Extended
  <2>2. \A m \in 0 .. Len(c) : \A k \in 1 .. m : ~c[k].set
    BY <1>4
  <2> QED BY <2>1, <2>2
<1>7. Apart(posts', now)
  <2> SUFFICES ASSUME NEW n \in 0 .. Len(posts'), NEW f \in Filters, NEW g \in Filters,
                      Will(posts', now, f, n), Will(posts', now, g, n), f # g
               PROVE  ~Overlap(Full(f), Full(g))
    BY DEF Apart
  <2>1. \E k \in 0 .. N : Will(posts, now, f, k) /\ Will(posts, now, g, k)
    <3>1. CASE n <= N
      BY <1>6, <3>1
    <3>2. CASE ~(n <= N)
      <4>1. n - N \in 0 .. Len(c) /\ N + (n - N) = n /\ N \in 0 .. N
        BY <1>4, <1>6, <3>2
      <4>2. Will(posts, now, f, N) /\ Will(posts, now, g, N)
        BY <1>6, <4>1
      <4> QED BY <4>1, <4>2
    <3> QED BY <3>1, <3>2
  <2> QED BY <2>1 DEF Followed, Apart, now, N
<1>8. SetOnce(posts', now)
  <2> SUFFICES ASSUME NEW n \in 1 .. Len(posts'), posts'[n].set
               PROVE  ~Will(posts', now, Target(posts'[n]), n - 1)
    BY DEF SetOnce
  <2>1. n \in 1 .. N /\ n - 1 \in 0 .. N
    <3>1. CASE n <= N
      BY <1>6, <3>1
    <3>2. CASE ~(n <= N)
      <4>1. n - N \in 1 .. Len(c) /\ N + (n - N) = n
        BY <1>4, <1>6, <3>2
      <4> QED BY <1>4, <1>6, <4>1
    <3> QED BY <3>1, <3>2
  <2>2. ~Will(posts, now, Target(posts[n]), n - 1)
    BY <1>6, <2>1 DEF Followed, SetOnce, now, N
  <2> QED BY <1>6, <2>1, <2>2
<1>9. \A f \in Filters :
        Will(posts', now, f, Len(posts')) <=> f.top \in tops' /\ f.rel \in DOMAIN handlers
  <2> TAKE f \in Filters
  <2>1. Will(posts', now, f, Len(posts')) <=>
            ~(\E k \in 1 .. Len(c) : Target(c[k]) = f) /\ Will(posts, now, f, N)
    <3>1. Len(c) \in 0 .. Len(c)
      BY <1>4
    <3> QED BY <1>6, <3>1
  <2>2. (\E k \in 1 .. Len(c) : Target(c[k]) = f) <=> f.top = t /\ f.rel \in DOMAIN handlers
    <3>1. ASSUME f.top = t, f.rel \in DOMAIN handlers
          PROVE  \E k \in 1 .. Len(c) : Target(c[k]) = f
      <4>1. PICK k \in 1 .. Len(c) : c[k].rel = f.rel
        BY <1>4, <3>1
      <4>2. Target(c[k]) = f
        BY <1>4, <3>1, <4>1 DEF Target, Filters
      <4> QED BY <4>2
    <3> QED BY <1>4, <1>5, <3>1
  <2>3. Will(posts, now, f, N) <=> f.top \in tops /\ f.rel \in DOMAIN handlers
    BY DEF Followed, InTheEnd, now, N
  <2> QED BY <1>2, <2>1, <2>2, <2>3
<1>10. Distinct(tops')
  BY <1>2 DEF Followed, Distinct
<1> QED BY <1>2, <1>7, <1>8, <1>9, <1>10 DEF Followed, InTheEnd, now

LEMMA NextFollowed ==
    ASSUME Types, Followed, [Next]_vars
    PROVE  Followed'
<1>1. CASE UNCHANGED <<handlers, tops, posts, filters>>
  BY <1>1 DEF Followed, Apart, SetOnce, InTheEnd, Distinct
<1>2. ASSUME NEW o \in Offers, AddHandler(o) PROVE Followed'
  <2>1. /\ tops = {} /\ tops' = {} /\ posts' = posts /\ filters' = filters
        /\ \A n \in Taken : ~Overlap(n, o.rel)
    BY <1>2 DEF AddHandler, face
  <2>2. DOMAIN handlers' = DOMAIN handlers \cup {o.rel}
    BY <1>2, OfferTypes
  <2>3. Distinct(DOMAIN handlers')
    BY <2>1, <2>2 DEF Followed, Distinct, Taken, Overlap
  <2> QED BY <2>1, <2>3 DEF Followed, Apart, SetOnce, InTheEnd
<1>3. ASSUME NEW t \in TopPrefixes, AddTopPrefix(t) \/ RemoveTopPrefix(t) PROVE Followed'
  BY <1>3, FollowedAdd, FollowedRemove
<1>4. CASE RunPost
  BY <1>4, FollowedRunPost
<1> QED BY <1>1, <1>2, <1>3, <1>4 DEF Next, vars, dispatcher, face, PostNotification,
            DeliverInterest, DeliverData, MarkStale, Express, Expire

-----------------------------------------------------------------------------
(* The theorems.                                                           *)

IInv ==
    Types /\ Followed /\ NumberedInOrder /\ NobodyMissed /\ OneFreshVersion

LEMMA InitFollowed == ASSUME Init PROVE Followed
<1>1. posts = <<>> /\ filters = <<>> /\ tops = {} /\ handlers = <<>> /\ Len(posts) = 0
  BY DEF Init
<1>2. ToSet(filters) = {} /\ IsInjective(filters)
  BY <1>1 DEF ToSet, IsInjective
<1>3. \A f : ~Will(posts, ToSet(filters), f, 0)
  BY <1>2, WillNone
<1>4. \A n \in 0 .. Len(posts) : n = 0
  BY <1>1
<1>5. Distinct(tops) /\ Distinct(DOMAIN handlers)
  BY <1>1 DEF Distinct
<1> QED BY <1>1, <1>2, <1>3, <1>4, <1>5 DEF Followed, Apart, SetOnce, InTheEnd

LEMMA Inductive == Spec => []IInv
<1>1. Init => IInv
  BY InitTypes, InitFollowed DEF Init, IInv, NobodyMissed, OneFreshVersion, ToSet
<1>2. IInv /\ [Next]_vars => IInv'
  <2> SUFFICES ASSUME IInv, [Next]_vars PROVE IInv'
    OBVIOUS
  <2>1. Types' /\ Followed'
    BY NextTypes, NextFollowed DEF IInv, Followed
  <2>2. NumberedInOrder' /\ NobodyMissed' /\ OneFreshVersion'
    BY NextNumbered, NextMissed, NextFresh DEF IInv
  <2> QED BY <2>1, <2>2 DEF IInv
<1> QED BY <1>1, <1>2, PTL DEF Spec

\* Every variable keeps its type: the storage its capacity, the datasets and the
\* notifications their bound, and no name a number that was not given.
THEOREM DispatcherTypes == Spec => []DispatcherTypeOK
<1>1. IInv => DispatcherTypeOK
  BY DEF IInv, Types
<1> QED BY <1>1, Inductive, PTL

\* No two filters in the Face's table match one Interest, for any top prefixes and
\* relative prefixes, however many of the calls that add and remove them wait.
THEOREM OneHandlerAnswers == Spec => []AtMostOneHandler
<1>1. IInv => AtMostOneHandler
  <2> SUFFICES ASSUME IInv, NEW i \in DOMAIN filters, NEW j \in DOMAIN filters, i # j
               PROVE  ~Overlap(filters[i].top \o filters[i].rel,
                               filters[j].top \o filters[j].rel)
    BY DEF AtMostOneHandler
  <2>1. posts \in Seq(Calling) /\ filters \in Seq(Filters)
    BY PostTypes DEF IInv
  <2>2. /\ filters[i] \in Filters /\ filters[j] \in Filters /\ filters[i] # filters[j]
        /\ filters[i] \in ToSet(filters) /\ filters[j] \in ToSet(filters)
    BY <2>1, ElementOfSeq, LenProperties DEF IInv, Followed, IsInjective, ToSet
  <2>3. /\ Will(posts, ToSet(filters), filters[i], 0)
        /\ Will(posts, ToSet(filters), filters[j], 0)
    BY <2>2, WillNone
  <2>4. 0 \in 0 .. Len(posts)
    BY <2>1, LenProperties
  <2> QED BY <2>2, <2>3, <2>4 DEF IInv, Followed, Apart, Full
<1> QED BY <1>1, Inductive, PTL

\* What the handlers rely on: an Interest is given to one of them at most.
THEOREM HandledOnce ==
    Spec => [](\A i \in Interests : \A f, g \in Matching(i) : f = g)
<1>1. IInv => \A i \in Interests : \A f, g \in Matching(i) : f = g
  <2> SUFFICES ASSUME IInv, NEW i \in Interests, NEW f \in Matching(i),
                      NEW g \in Matching(i), f # g
               PROVE  FALSE
    OBVIOUS
  <2>1. /\ f \in ToSet(filters) /\ IsPrefix(Full(f), i.name)
        /\ g \in ToSet(filters) /\ IsPrefix(Full(g), i.name)
    BY DEF Matching, Full
  <2>2. posts \in Seq(Calling) /\ filters \in Seq(Filters)
    BY PostTypes DEF IInv
  <2>3. f \in Filters /\ g \in Filters
    BY <2>1, <2>2, ElementOfSeq, LenProperties DEF ToSet
  <2>4. /\ Full(f) \in Seq(Components) /\ Full(g) \in Seq(Components)
        /\ i.name \in Seq(Components)
    <3>1. \A t \in TopPrefixes, r \in Rels : t \o r \in Seq(Components)
      <4> TAKE t \in TopPrefixes, r \in Rels
      <4>1. t \in Seq(Components) /\ r \in Seq(Components)
        BY NamesAssumption DEF Rels
      <4> QED BY <4>1, ConcatProperties
    <3>2. i.name \in Names
      BY DEF Interests, Whole, Exactly, Data
    <3>3. i.name \in Seq(Components)
      <4>1. PICK t \in TopPrefixes, r \in Rels : i.name = t \o r
        BY <3>2 DEF Names
      <4> QED BY <3>1, <4>1
    <3>4. \A h \in Filters : Full(h) \in Seq(Components)
      <4> TAKE h \in Filters
      <4>1. h.top \in TopPrefixes /\ h.rel \in Rels
        BY DEF Filters
      <4> QED BY <3>1, <4>1 DEF Full
    <3> QED BY <2>3, <3>3, <3>4
  <2>5. Overlap(Full(f), Full(g))
    BY <2>1, <2>4, AboveOverlaps
  <2>6. Will(posts, ToSet(filters), f, 0) /\ Will(posts, ToSet(filters), g, 0)
    BY <2>1, WillNone
  <2>7. 0 \in 0 .. Len(posts)
    BY <2>2, LenProperties
  <2> QED BY <2>3, <2>5, <2>6, <2>7 DEF IInv, Followed, Apart
<1> QED BY <1>1, Inductive, PTL

\* When no call waits, the Face has the filter of each handler below each top
\* prefix once, and no other: none was lost and none was left behind.
THEOREM FiltersCatchUp == Spec => []FiltersFollow
<1>1. IInv => FiltersFollow
  <2> SUFFICES ASSUME IInv, posts = <<>>
               PROVE  /\ ToSet(filters) = {[top |-> t, rel |-> r] :
                                                t \in tops, r \in DOMAIN handlers}
                      /\ IsInjective(filters)
    BY DEF FiltersFollow
  <2>1. /\ filters \in Seq(Filters) /\ tops \subseteq TopPrefixes
        /\ DOMAIN handlers \subseteq Rels
    BY PostTypes DEF IInv
  <2>2. ToSet(filters) \subseteq Filters
    BY <2>1, ElementOfSeq, LenProperties DEF ToSet
  <2>3. \A f \in Filters :
            f \in ToSet(filters) <=> f.top \in tops /\ f.rel \in DOMAIN handlers
    <3>1. Len(posts) = 0
      OBVIOUS
    <3> QED BY <3>1, WillNone DEF IInv, Followed, InTheEnd
  <2>4. \A f \in Filters : f = [top |-> f.top, rel |-> f.rel]
    BY DEF Filters
  <2>5. \A t \in tops, r \in DOMAIN handlers :
            [top |-> t, rel |-> r] \in Filters
    BY <2>1 DEF Filters
  <2> QED BY <2>2, <2>3, <2>4, <2>5 DEF IInv, Followed
<1> QED BY <1>1, Inductive, PTL

\* The notifications under each name are numbered from 0 without a gap or a
\* repetition, whatever streams share the name.
THEOREM NumbersInOrder == Spec => []NumberedInOrder
<1>1. IInv => NumberedInOrder
  BY DEF IInv
<1> QED BY <1>1, Inductive, PTL

\* Nobody whom a dataset's or a stream's handler has heard waits for what the
\* storage has, for any capacity and however many datasets are made.
THEOREM NobodyIsMissed == Spec => []NobodyMissed
<1>1. IInv => NobodyMissed
  BY DEF IInv
<1> QED BY <1>1, Inductive, PTL

\* Of each dataset one version is fresh at most, whatever is evicted.
THEOREM OneVersionFresh == Spec => []OneFreshVersion
<1>1. IInv => OneFreshVersion
  BY DEF IInv
<1> QED BY <1>1, Inductive, PTL

=============================================================================
