---------------------------- MODULE SequenceLemmas ----------------------------
(***************************************************************************)
(* Facts about queues without repetitions, for the proofs about who refers *)
(* to an operation or a slot.  That nothing occurs twice in a sequence is  *)
(* that it is injective as a function of the place.                        *)
(***************************************************************************)
EXTENDS SequenceTheorems, FiniteSetTheorems, TLAPS

\* The empty sequence.
LEMMA DistinctEmpty == IsInjective(<<>>) /\ Range(<<>>) = {}
BY DEF IsInjective, Range

\* Appending an element.
LEMMA DistinctAppend ==
  ASSUME NEW S, NEW s \in Seq(S), NEW e \in S
  PROVE  /\ Range(Append(s, e)) = Range(s) \cup {e}
         /\ IsInjective(s) /\ e \notin Range(s) => IsInjective(Append(s, e))
<1> DEFINE t == Append(s, e)
<1>1. /\ DOMAIN s = 1 .. Len(s) /\ Len(s) \in Nat
      /\ DOMAIN t = 1 .. Len(s) + 1
      /\ \A i \in 1 .. Len(s) : t[i] = s[i]
      /\ t[Len(s) + 1] = e
  BY AppendProperties, LenProperties
<1> HIDE DEF t
<1>2. Range(t) = Range(s) \cup {e}
  <2>1. ASSUME NEW x \in Range(t) PROVE x \in Range(s) \cup {e}
    BY <1>1, <2>1 DEF Range
  <2>2. ASSUME NEW x \in Range(s) PROVE x \in Range(t)
    BY <1>1, <2>2 DEF Range
  <2>3. e \in Range(t)
    BY <1>1 DEF Range
  <2> QED
    BY <2>1, <2>2, <2>3
<1>3. ASSUME IsInjective(s), e \notin Range(s) PROVE IsInjective(t)
  BY <1>1, <1>3 DEF IsInjective, Range
<1> QED
  BY <1>2, <1>3 DEF t

\* Taking the first element of a queue.
LEMMA DistinctTail ==
  ASSUME NEW S, NEW s \in Seq(S), s # <<>>
  PROVE  /\ Head(s) \in Range(s)
         /\ Range(s) = Range(Tail(s)) \cup {Head(s)}
         /\ IsInjective(s) => IsInjective(Tail(s)) /\ Head(s) \notin Range(Tail(s))
<1> DEFINE t == Tail(s)
           e == Head(s)
<1>1. /\ DOMAIN s = 1 .. Len(s) /\ Len(s) \in Nat \ {0}
      /\ DOMAIN t = 1 .. Len(s) - 1
      /\ \A i \in 1 .. Len(s) - 1 : t[i] = s[i + 1]
      /\ e = s[1]
  BY HeadTailProperties, LenProperties, EmptySeq
<1> HIDE DEF t, e
<1>2. e \in Range(s)
  BY <1>1 DEF Range
<1>3. ASSUME NEW x \in Range(t) PROVE x \in Range(s)
  BY <1>1, <1>3 DEF Range
<1>4. ASSUME NEW x \in Range(s) PROVE x \in Range(t) \cup {e}
  <2>1. PICK i \in 1 .. Len(s) : x = s[i]
    BY <1>1, <1>4 DEF Range
  <2>2. CASE i = 1
    BY <1>1, <2>1, <2>2
  <2>3. CASE i # 1
    <3>1. i - 1 \in 1 .. Len(s) - 1 /\ t[i - 1] = s[i]
      BY <1>1, <2>3
    <3> QED
      BY <1>1, <2>1, <3>1 DEF Range
  <2> QED
    BY <2>2, <2>3
<1>5. ASSUME IsInjective(s) PROVE IsInjective(t) /\ e \notin Range(t)
  <2>1. ASSUME NEW i \in 1 .. Len(s) - 1, NEW j \in 1 .. Len(s) - 1,
               t[i] = t[j]
        PROVE  i = j
    <3>1. s[i + 1] = s[j + 1] /\ i + 1 \in 1 .. Len(s) /\ j + 1 \in 1 .. Len(s)
      BY <1>1, <2>1
    <3> QED
      BY <1>1, <1>5, <3>1 DEF IsInjective
  <2>2. ASSUME NEW i \in 1 .. Len(s) - 1 PROVE t[i] # e
    <3>1. t[i] = s[i + 1] /\ i + 1 \in 1 .. Len(s) /\ 1 \in 1 .. Len(s)
      BY <1>1, <2>2
    <3> QED
      BY <1>1, <1>5, <3>1 DEF IsInjective
  <2> QED
    BY <1>1, <2>1, <2>2 DEF IsInjective, Range
<1> QED
  BY <1>2, <1>3, <1>4, <1>5 DEF t, e

\* A sequence of distinct members of a finite set is no longer than the set.
LEMMA DistinctLength ==
  ASSUME NEW S, IsFiniteSet(S), NEW s \in Seq(S), IsInjective(s)
  PROVE  Len(s) <= Cardinality(S)
<1>1. /\ Len(s) \in Nat /\ DOMAIN s = 1 .. Len(s)
      /\ s \in [1 .. Len(s) -> S]
  BY LenProperties
<1>2. s \in Injection(1 .. Len(s), S)
  BY <1>1 DEF Injection, IsInjective
<1>3. Cardinality(1 .. Len(s)) <= Cardinality(S)
  BY <1>2, FS_Injection
<1>4. Cardinality(1 .. Len(s)) = Len(s)
  BY <1>1, FS_Interval
<1> QED
  BY <1>3, <1>4

\* One element.
LEMMA DistinctSingle ==
  ASSUME NEW e
  PROVE  IsInjective(<<e>>) /\ Range(<<e>>) = {e}
<1>1. DOMAIN <<e>> = {1} /\ <<e>>[1] = e
  OBVIOUS
<1> QED
  BY <1>1 DEF IsInjective, Range

\* The beginning of a sequence.
LEMMA PrefixIs ==
  ASSUME NEW S, NEW s \in Seq(S), NEW m \in 0 .. Len(s)
  PROVE  /\ SubSeq(s, 1, m) \in Seq(S) /\ Len(SubSeq(s, 1, m)) = m
         /\ DOMAIN SubSeq(s, 1, m) = 1 .. m
         /\ \A i \in 1 .. m : SubSeq(s, 1, m)[i] = s[i]
<1> DEFINE a == SubSeq(s, 1, m)
           n == Len(a)
<1>1. Len(s) \in Nat /\ \A i \in 1 .. Len(s) : s[i] \in S
  BY LenProperties, ElementOfSeq
<1>2. m \in Nat /\ \A i \in 1 .. m : s[i] \in S
  BY <1>1
<1>3. /\ a \in Seq(S) /\ n = IF 1 <= m THEN m - 1 + 1 ELSE 0
      /\ \A i \in 1 .. m - 1 + 1 : a[i] = s[1 + i - 1]
  BY <1>2, SubSeqProperties
<1>4. \A i \in 1 .. m : a[i] = s[i]
  <2> SUFFICES ASSUME NEW i \in 1 .. m PROVE a[i] = s[i]
    OBVIOUS
  <2>1. i \in 1 .. m - 1 + 1 /\ 1 + i - 1 = i
    BY <1>2
  <2> QED
    BY <1>3, <2>1
<1>5. DOMAIN a = 1 .. n
  BY <1>3, LenProperties
<1> HIDE DEF n
<1>6. n = m
  BY <1>2, <1>3
<1> QED
  BY <1>3, <1>4, <1>5, <1>6 DEF n

\* The end of a sequence.
LEMMA SuffixIs ==
  ASSUME NEW S, NEW s \in Seq(S), NEW m \in 0 .. Len(s)
  PROVE  /\ SubSeq(s, m + 1, Len(s)) \in Seq(S)
         /\ Len(SubSeq(s, m + 1, Len(s))) = Len(s) - m
         /\ \A i \in 1 .. Len(s) - m : SubSeq(s, m + 1, Len(s))[i] = s[m + i]
<1> DEFINE l == Len(s)
           a == SubSeq(s, m + 1, l)
           n == Len(a)
<1>1. l \in Nat /\ \A i \in 1 .. l : s[i] \in S
  BY LenProperties, ElementOfSeq
<1> HIDE DEF l
<1>2. m \in Nat /\ m <= l
  BY <1>1 DEF l
<1>3. \A i \in m + 1 .. l : s[i] \in S
  BY <1>1, <1>2
<1> DEFINE k == m + 1
<1>4. k \in Nat
  BY <1>2
<1> HIDE DEF k
<1>5. /\ SubSeq(s, k, l) \in Seq(S)
      /\ Len(SubSeq(s, k, l)) = IF k <= l THEN l - k + 1 ELSE 0
      /\ \A i \in 1 .. l - k + 1 : SubSeq(s, k, l)[i] = s[k + i - 1]
  BY <1>1, <1>3, <1>4, SubSeqProperties DEF k
<1>6. a \in Seq(S) /\ n = IF k <= l THEN l - k + 1 ELSE 0
  BY <1>5 DEF k
<1>7. \A i \in 1 .. l - m : a[i] = s[m + i]
  <2> SUFFICES ASSUME NEW i \in 1 .. l - m PROVE a[i] = s[m + i]
    OBVIOUS
  <2>1. i \in 1 .. l - k + 1 /\ k + i - 1 = m + i
    BY <1>1, <1>2 DEF k
  <2> QED
    BY <1>5, <2>1 DEF k
<1> HIDE DEF n, a
<1>8. n = l - m
  BY <1>1, <1>2, <1>6 DEF k
<1> QED
  BY <1>6, <1>7, <1>8 DEF n, a, l

\* A sequence s is cut: a has its beginning, b its last n elements in reverse.
Cut(s, n, a, b) ==
  /\ DOMAIN a = 1 .. Len(s) - n /\ \A i \in 1 .. Len(s) - n : a[i] = s[i]
  /\ DOMAIN b = 1 .. n /\ \A i \in 1 .. n : b[i] = s[Len(s) + 1 - i]

\* The two parts have the elements of the whole, each once.
LEMMA DistinctSplit ==
  ASSUME NEW S, NEW s \in Seq(S), NEW n \in 0 .. Len(s), NEW a, NEW b,
         Cut(s, n, a, b)
  PROVE  /\ Range(s) = Range(a) \cup Range(b)
         /\ IsInjective(s) => /\ IsInjective(a) /\ IsInjective(b)
                              /\ Range(a) \cap Range(b) = {}
<1> DEFINE l == Len(s)
<1>1. l \in Nat /\ DOMAIN s = 1 .. l /\ \A i \in 1 .. l : s[i] \in S
  BY LenProperties, ElementOfSeq
<1>2. DOMAIN a = 1 .. l - n /\ \A i \in 1 .. l - n : a[i] = s[i]
  BY DEF Cut
<1>3. DOMAIN b = 1 .. n /\ \A i \in 1 .. n : b[i] = s[l + 1 - i]
  BY DEF Cut
<1> HIDE DEF l
<1>4. n \in Nat /\ n <= l
  BY <1>1 DEF l
<1>5. \A i \in 1 .. n : l + 1 - i \in 1 .. l
  BY <1>1, <1>4
<1>6. \A j \in 1 .. l : j \in 1 .. l - n \/ (l + 1 - j \in 1 .. n /\ l + 1 - (l + 1 - j) = j)
  BY <1>1, <1>4
<1>7. Range(s) = Range(a) \cup Range(b)
  <2>1. ASSUME NEW x \in Range(s) PROVE x \in Range(a) \cup Range(b)
    <3>1. PICK j \in 1 .. l : x = s[j]
      BY <1>1 DEF Range
    <3>2. CASE j \in 1 .. l - n
      BY <1>2, <3>1, <3>2 DEF Range
    <3>3. CASE l + 1 - j \in 1 .. n /\ l + 1 - (l + 1 - j) = j
      BY <1>3, <3>1, <3>3 DEF Range
    <3> QED
      BY <1>6, <3>2, <3>3
  <2>2. ASSUME NEW x \in Range(a) PROVE x \in Range(s)
    <3>1. PICK j \in 1 .. l - n : x = s[j]
      BY <1>2 DEF Range
    <3>2. j \in 1 .. l
      BY <1>1, <1>4
    <3> QED
      BY <1>1, <3>1, <3>2 DEF Range
  <2>3. ASSUME NEW x \in Range(b) PROVE x \in Range(s)
    BY <1>1, <1>3, <1>5 DEF Range
  <2> QED
    BY <2>1, <2>2, <2>3
<1>8. ASSUME IsInjective(s) PROVE IsInjective(a)
  <2> SUFFICES ASSUME NEW i \in 1 .. l - n, NEW j \in 1 .. l - n, s[i] = s[j] PROVE i = j
    BY <1>2 DEF IsInjective
  <2>1. i \in 1 .. l /\ j \in 1 .. l
    BY <1>1, <1>4
  <2> QED
    BY <1>1, <1>8, <2>1 DEF IsInjective
<1>9. ASSUME IsInjective(s) PROVE IsInjective(b)
  <2> SUFFICES ASSUME NEW i \in 1 .. n, NEW j \in 1 .. n, s[l + 1 - i] = s[l + 1 - j]
               PROVE  i = j
    BY <1>3 DEF IsInjective
  <2>1. l + 1 - i = l + 1 - j
    BY <1>1, <1>5, <1>9 DEF IsInjective
  <2> QED
    BY <1>1, <1>4, <2>1
<1>10. ASSUME IsInjective(s), NEW x \in Range(a), x \in Range(b) PROVE FALSE
  <2>1. PICK i \in 1 .. l - n : x = s[i]
    BY <1>2 DEF Range
  <2>2. PICK j \in 1 .. n : x = s[l + 1 - j]
    BY <1>3, <1>10 DEF Range
  <2>3. i \in 1 .. l /\ i # l + 1 - j
    BY <1>1, <1>4
  <2> QED
    BY <1>1, <1>5, <1>10, <2>1, <2>2, <2>3 DEF IsInjective
<1> QED
  BY <1>7, <1>8, <1>9, <1>10

=============================================================================
