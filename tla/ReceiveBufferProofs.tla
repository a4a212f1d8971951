-------------------------- MODULE ReceiveBufferProofs --------------------------
(***************************************************************************)
(* Theorems about ReceiveBuffer, for any sizes of the buffer, the header   *)
(* and the messages, any number of messages and any way the stream is cut. *)
(***************************************************************************)
EXTENDS ReceiveBuffer, SequenceLemmas

-----------------------------------------------------------------------------
(* The stream of unread bytes.                                             *)

\* The byte u[i] is byte j of message n of s, and the rest of that message is
\* around it.
PartOf(u, N, t, s, i, n, j) ==
  /\ u[i] = <<n, j>> /\ n \in t + 1 .. Len(s) /\ j \in 1 .. Length(s[n])
  /\ j <= i /\ i - j + Length(s[n]) <= N
  /\ \A k \in 1 .. Length(s[n]) : u[i - j + k] = <<n, k>>

\* The byte that follows byte j of message n.
Following(s, n, j) == IF j < Length(s[n]) THEN <<n, j + 1>> ELSE <<n + 1, 1>>

\* The N bytes of u are the messages of s after the first t, all of them, one
\* after the other and each complete.
Ordered(u, N, t, s) ==
  /\ t <= Len(s) /\ (N = 0 <=> t = Len(s))
  /\ N > 0 => u[1] = <<t + 1, 1>> /\ u[N] = <<Len(s), Length(s[Len(s)])>>
  /\ \A i \in 1 .. N : PartOf(u, N, t, s, i, u[i][1], u[i][2])
  /\ \A i \in 1 .. N - 1 :
       u[i + 1] = Following(s, u[i][1], u[i][2])
  /\ \A i, k \in 1 .. N : i <= k => u[i][1] <= u[k][1]

\* The lengths of messages.
LEMMA LengthIs ==
  ASSUME NEW m \in Messages
  PROVE  /\ Length(m) \in Nat \ {0} /\ HeaderSize <= Length(m) /\ m.size \in Int
         /\ m.size >= HeaderSize => Length(m) = m.size
<1>1. HeaderSize \in Nat \ {0} /\ Sizes \subseteq Int
  BY BufferAssumption
<1>2. m.size \in Int
  BY <1>1 DEF Messages
<1> DEFINE z == m.size
<1>3. Length(m) = IF z < HeaderSize THEN HeaderSize ELSE z
  BY DEF Length
<1>4. z \in Int
  BY <1>2
<1> HIDE DEF z
<1>5. Length(m) \in Nat \ {0} /\ HeaderSize <= Length(m) /\ (z >= HeaderSize => Length(m) = z)
  BY <1>1, <1>3, <1>4
<1> QED
  BY <1>2, <1>5 DEF z

-----------------------------------------------------------------------------
(* The inductive invariant.                                                *)

\* The span of an outstanding receive is still what is free of the buffer.
SpanKept == pc = "receive" => span = GetRemainSpan

\* The session does not wait for bytes while a message is buffered.
NoneWaits == pc \in {"request", "receive"} => ~HasMessage

BytesOrdered == Ordered(Unread, commited_size + Len(wire), taken, sent)

ReceiveInv == TypeOK /\ SpanKept /\ NoneWaits /\ BytesOrdered

-----------------------------------------------------------------------------
(* How the stream grows and shrinks.                                       *)

\* A byte of an ordered stream.
LEMMA ByteIs ==
  ASSUME NEW u, NEW N, NEW t, NEW s, NEW i \in 1 .. N, Ordered(u, N, t, s)
  PROVE  /\ PartOf(u, N, t, s, i, u[i][1], u[i][2])
         /\ \A n, j : u[i] = <<n, j>> => PartOf(u, N, t, s, i, n, j)
BY DEF Ordered

\* Two neighbours in an ordered stream.
LEMMA NeighbourIs ==
  ASSUME NEW u, NEW N, NEW t, NEW s, NEW i \in 1 .. N - 1, Ordered(u, N, t, s),
         NEW n, NEW j, u[i] = <<n, j>>
  PROVE  u[i + 1] = Following(s, n, j)
<1>1. u[i][1] = n /\ u[i][2] = j
  OBVIOUS
<1> QED
  BY <1>1 DEF Ordered

\* v is u without its first L bytes.
Shifted(u, v, N, L) == \A i \in 1 .. N - L : v[i] = u[i + L]

\* There is a first message and it is complete: L bytes of the N there are.
FirstIs(N, t, s, L) == N > 0 /\ L = Length(s[t + 1]) /\ L <= N

\* The first message of an ordered stream is at its front, and what follows is
\* ordered again.
LEMMA StreamShift ==
  ASSUME NEW s \in Seq(Messages), NEW t \in Nat, NEW N \in Nat, NEW u, NEW v, NEW L,
         Ordered(u, N, t, s), FirstIs(N, t, s, L), Shifted(u, v, N, L)
  PROVE  /\ \A k \in 1 .. L : u[k] = <<t + 1, k>>
         /\ Ordered(v, N - L, t + 1, s)
<1> N > 0 /\ L = Length(s[t + 1]) /\ L <= N
  BY DEF FirstIs
<1>0. /\ Len(s) \in Nat /\ t < Len(s) /\ u[1] = <<t + 1, 1>>
      /\ u[N] = <<Len(s), Length(s[Len(s)])>>
  <2>1. Len(s) \in Nat
    BY LenProperties
  <2>2. t <= Len(s) /\ t # Len(s) /\ u[1] = <<t + 1, 1>>
        /\ u[N] = <<Len(s), Length(s[Len(s)])>>
    BY DEF Ordered
  <2> QED
    BY <2>1, <2>2
<1>1. \A n \in 1 .. Len(s) : Length(s[n]) \in Nat \ {0}
  BY ElementOfSeq, LengthIs
<1>2. L \in Nat \ {0}
  BY <1>0, <1>1
<1>3. \A k \in 1 .. L : u[k] = <<t + 1, k>>
  <2> DEFINE n == t + 1
             i == 1
             j == 1
  <2>1. i \in 1 .. N /\ u[i] = <<n, j>> /\ L = Length(s[n])
    BY <1>0
  <2> HIDE DEF n, i, j
  <2>2. PartOf(u, N, t, s, i, n, j)
    BY <2>1, ByteIs
  <2>3. \A k \in 1 .. L : u[i - j + k] = <<n, k>>
    BY <2>1, <2>2 DEF PartOf
  <2>4. \A k \in 1 .. L : i - j + k = k
    BY <1>2 DEF i, j
  <2> QED
    BY <2>3, <2>4 DEF n
<1>4. \A i \in 1 .. N - L : i + L \in 1 .. N /\ v[i] = u[i + L]
  BY <1>2 DEF Shifted
<1>5. u[L] = <<t + 1, L>>
  BY <1>2, <1>3
<1>6. L < N => u[L + 1] = <<t + 1 + 1, 1>>
  <2> HAVE L < N
  <2>1. L \in 1 .. N - 1
    BY <1>2
  <2>2. u[L + 1] = Following(s, t + 1, L)
    BY <1>5, <2>1, NeighbourIs
  <2> QED
    BY <1>2, <2>2 DEF Following
<1>7. \A i, k \in 1 .. N : i <= k => u[i][1] <= u[k][1]
  BY DEF Ordered
<1>8. ASSUME NEW i \in L + 1 .. N, NEW n, NEW j, u[i] = <<n, j>>, n \in t + 1 .. Len(s)
      PROVE  n \in t + 1 + 1 .. Len(s)
  <2>1. L < N /\ L + 1 \in 1 .. N /\ i \in 1 .. N /\ L + 1 <= i
    BY <1>2, <1>8
  <2>2. u[L + 1][1] = t + 1 + 1 /\ u[i][1] = n
    BY <1>6, <1>8, <2>1
  <2>3. t + 1 + 1 <= n
    BY <1>7, <2>1, <2>2
  <2> QED
    BY <1>0, <1>8, <2>3
<1>9. ASSUME NEW i \in 1 .. N - L 
      PROVE  PartOf(v, N - L, t + 1, s, i, v[i][1], v[i][2])
  <2> DEFINE q == i + L
  <2>1. q \in 1 .. N /\ v[i] = u[q] /\ q \in L + 1 .. N
    BY <1>2, <1>4
  <2> HIDE DEF q
  <2> DEFINE n == u[q][1]
             j == u[q][2]
             z == Length(s[n])
  <2>2. PartOf(u, N, t, s, q, n, j)
    BY <2>1, ByteIs
  <2>10. u[q] = <<n, j>> /\ n \in t + 1 .. Len(s)
    BY <2>2 DEF PartOf
  <2> HIDE DEF n, j
  <2>3. n \in t + 1 + 1 .. Len(s)
    BY <1>8, <2>1, <2>10
  <2>4. z \in Nat \ {0} /\ n \in 1 .. Len(s)
    BY <1>0, <1>1, <2>3
  <2>5. j \in 1 .. z /\ j <= q /\ q - j + z <= N /\ \A k \in 1 .. z : u[q - j + k] = <<n, k>>
    BY <2>2 DEF PartOf
  <2> HIDE DEF z
  <2>6. j <= i
    <3> SUFFICES ASSUME ~(j <= i) PROVE FALSE
      OBVIOUS
    <3> DEFINE p == q - j + 1
    <3>1. p \in 1 .. L /\ 1 \in 1 .. z
      BY <1>2, <2>4, <2>5 DEF q
    <3>2. u[p] = <<n, 1>>
      BY <2>5, <3>1
    <3>3. u[p] = <<t + 1, p>>
      BY <1>3, <3>1
    <3> HIDE DEF p
    <3>4. n = t + 1
      BY <3>2, <3>3
    <3> QED
      BY <2>3, <3>4
  <2>8. i - j + z <= N - L
    <3>1. /\ q = i + L /\ i \in Int /\ L \in Int /\ j \in Int /\ z \in Int
          /\ q - j + z <= N
      BY <1>2, <2>4, <2>5 DEF q
    <3> QED
      BY <3>1, SMTT(30)
  <2>7. ASSUME NEW k \in 1 .. z PROVE v[i - j + k] = <<n, k>>
    <3> DEFINE p == i - j + k
    <3>1. k \in Nat /\ 1 <= k /\ k <= z /\ j \in Nat /\ i \in Nat /\ L \in Nat /\ z \in Nat
      BY <1>2, <2>4, <2>5
    <3>3. q - j + z <= N /\ q = i + L /\ j <= i
      BY <2>5, <2>6 DEF q
    <3>5. p \in Int /\ 1 <= p
      BY <2>6, <3>1
    <3>8. N - L \in Int /\ i - j \in Int
      BY <3>1
    <3>6. p <= N - L
      BY <2>8, <3>1, <3>8
    <3>4. p \in 1 .. N - L /\ p + L = q - j + k
      BY <3>1, <3>3, <3>5, <3>6, SMTT(30)
    <3>2. v[p] = u[q - j + k]
      BY <1>4, <3>4
    <3> QED
      BY <2>5, <3>2
  <2>9. v[i] = <<n, j>> /\ v[i][1] = n /\ v[i][2] = j
    BY <2>1, <2>10
  <2>11. PartOf(v, N - L, t + 1, s, i, n, j)
    BY <2>3, <2>5, <2>6, <2>7, <2>8, <2>9 DEF z, PartOf
  <2> QED
    BY <2>9, <2>11
<1>10. ASSUME NEW i \in 1 .. N - L - 1
       PROVE  v[i + 1] = Following(s, v[i][1], v[i][2])
  <2>1. /\ i + L \in 1 .. N - 1 /\ i \in 1 .. N - L /\ i + 1 \in 1 .. N - L
        /\ i + 1 + L = i + L + 1
    BY <1>2
  <2>2. v[i] = u[i + L] /\ v[i + 1] = u[i + L + 1]
    BY <1>4, <2>1
  <2> QED
    BY <2>1, <2>2 DEF Ordered
<1>11. ASSUME NEW i \in 1 .. N - L, NEW k \in 1 .. N - L, i <= k PROVE v[i][1] <= v[k][1]
  <2>1. i + L \in 1 .. N /\ k + L \in 1 .. N /\ i + L <= k + L
    BY <1>2, <1>11
  <2> QED
    BY <1>4, <1>7, <2>1
<1>12. N - L = 0 <=> t + 1 = Len(s)
  <2>1. ASSUME N = L PROVE t + 1 = Len(s)
    BY <1>0, <1>5, <2>1
  <2>2. ASSUME N # L PROVE t + 1 # Len(s)
    <3>1. L < N /\ L + 1 \in 1 .. N
      BY <1>2, <2>2
    <3> DEFINE i == L + 1
               n == t + 1 + 1
               j == 1
    <3>2. i \in 1 .. N /\ u[i] = <<n, j>>
      BY <1>6, <3>1
    <3> HIDE DEF i, n, j
    <3>4. PartOf(u, N, t, s, i, n, j)
      BY <3>2, ByteIs
    <3>3. n \in t + 1 .. Len(s)
      BY <3>4 DEF PartOf
    <3> QED
      BY <1>0, <3>3 DEF n
  <2>3. N - L = 0 <=> N = L
    BY <1>2
  <2> QED
    BY <2>1, <2>2, <2>3
<1>13. N - L > 0 => v[1] = <<t + 1 + 1, 1>> /\ v[N - L] = <<Len(s), Length(s[Len(s)])>>
  <2> HAVE N - L > 0
  <2>1. L < N /\ 1 \in 1 .. N - L /\ N - L \in 1 .. N - L /\ N - L + L = N /\ 1 + L = L + 1
    BY <1>2
  <2> QED
    BY <1>0, <1>4, <1>6, <2>1
<1>14. t + 1 <= Len(s)
  BY <1>0
<1> QED
  BY <1>3, <1>9, <1>10, <1>11, <1>12, <1>13, <1>14 DEF Ordered

\* v is u followed by the L bytes of message n.
Extended(u, v, N, n, L) ==
  /\ \A i \in 1 .. N : v[i] = u[i]
  /\ \A i \in N + 1 .. N + L : v[i] = <<n, i - N>>

\* A message that is sent follows the others.
LEMMA StreamExtended ==
  ASSUME NEW s \in Seq(Messages), NEW m \in Messages, NEW t \in Nat, NEW N \in Nat,
         NEW u, NEW v, Ordered(u, N, t, s), Extended(u, v, N, Len(s) + 1, Length(m))
  PROVE  Ordered(v, N + Length(m), t, Append(s, m))
<1> DEFINE r == Append(s, m)
           L == Length(m)
           M == Len(s) + 1
<1>0. /\ Len(s) \in Nat /\ t <= Len(s) /\ L \in Nat \ {0}
      /\ (N = 0 <=> t = Len(s))
  BY LenProperties, LengthIs DEF Ordered
<1>1. Len(r) = M /\ r[M] = m /\ \A n \in 1 .. Len(s) : r[n] = s[n]
  BY AppendProperties
<1> HIDE DEF r
<1>2. Length(r[M]) = L /\ \A n \in 1 .. Len(s) : Length(r[n]) = Length(s[n])
  BY <1>1
<1>3. \A n \in 1 .. Len(s) : Length(s[n]) \in Nat \ {0}
  BY ElementOfSeq, LengthIs
<1>4. /\ \A i \in 1 .. N : v[i] = u[i]
      /\ \A i \in N + 1 .. N + L : v[i] = <<M, i - N>>
  BY DEF Extended
<1> HIDE DEF L, M
<1>5. M = Len(s) + 1 /\ M \in Nat
  BY <1>0 DEF M
<1>6. ASSUME NEW i \in 1 .. N PROVE PartOf(v, N + L, t, r, i, v[i][1], v[i][2])
  <2> DEFINE n == u[i][1]
             j == u[i][2]
             z == Length(s[n])
  <2>1. PartOf(u, N, t, s, i, n, j)
    BY ByteIs
  <2> HIDE DEF n, j
  <2>2. u[i] = <<n, j>> /\ n \in t + 1 .. Len(s)
    BY <2>1 DEF PartOf
  <2>3. n \in 1 .. Len(s) /\ n \in t + 1 .. Len(r)
    BY <1>0, <1>1, <1>5, <2>2
  <2>4. z \in Nat \ {0} /\ Length(r[n]) = z
    BY <1>2, <1>3, <2>3
  <2>5. j \in 1 .. z /\ j <= i /\ i - j + z <= N /\ \A k \in 1 .. z : u[i - j + k] = <<n, k>>
    BY <2>1 DEF PartOf
  <2> HIDE DEF z
  <2>6. ASSUME NEW k \in 1 .. z PROVE v[i - j + k] = <<n, k>>
    <3>1. k \in Nat /\ 1 <= k /\ k <= z /\ j \in Nat /\ i \in Nat /\ z \in Nat
          /\ j <= i /\ i - j + z <= N
      BY <2>4, <2>5
    <3>2. i - j + k \in 1 .. N
      BY <3>1
    <3> QED
      BY <1>4, <2>5, <3>2
  <2>7. v[i] = <<n, j>> /\ v[i][1] = n /\ v[i][2] = j
    BY <1>4, <2>2
  <2>8. i - j + z <= N + L
    <3>1. j \in Nat /\ i \in Nat /\ z \in Nat /\ i - j + z <= N
      BY <2>4, <2>5
    <3> QED
      BY <1>0, <3>1
  <2>9. PartOf(v, N + L, t, r, i, n, j)
    BY <2>3, <2>4, <2>5, <2>6, <2>7, <2>8 DEF PartOf
  <2> QED
    BY <2>7, <2>9
<1>7. ASSUME NEW i \in N + 1 .. N + L PROVE PartOf(v, N + L, t, r, i, v[i][1], v[i][2])
  <2> DEFINE j == i - N
  <2>1. v[i] = <<M, j>> /\ v[i][1] = M /\ v[i][2] = j
    BY <1>4
  <2>2. j \in 1 .. L /\ j <= i /\ i - j = N /\ M \in t + 1 .. Len(r)
    BY <1>0, <1>1, <1>5
  <2> HIDE DEF j
  <2>3. \A k \in 1 .. L : v[i - j + k] = <<M, k>>
    <3> SUFFICES ASSUME NEW k \in 1 .. L PROVE v[i - j + k] = <<M, k>>
      OBVIOUS
    <3> DEFINE q == N + k
    <3>1. q \in N + 1 .. N + L /\ q - N = k /\ i - j + k = q
      BY <1>0, <2>2
    <3> HIDE DEF q
    <3> QED
      BY <1>4, <3>1
  <2>5. i - j + L <= N + L
    BY <1>0, <2>2
  <2>4. PartOf(v, N + L, t, r, i, M, j)
    BY <1>2, <2>1, <2>2, <2>3, <2>5 DEF PartOf
  <2> QED
    BY <2>1, <2>4
<1>8. ASSUME NEW i \in 1 .. N + L - 1
      PROVE  v[i + 1] = Following(r, v[i][1], v[i][2])
  <2>1. CASE i \in 1 .. N - 1
    <3> DEFINE n == u[i][1]
               j == u[i][2]
    <3>1. i \in 1 .. N /\ i + 1 \in 1 .. N
      BY <2>1
    <3>2. PartOf(u, N, t, s, i, n, j)
      BY <3>1, ByteIs
    <3>3. n \in t + 1 .. Len(s)
      BY <3>2 DEF PartOf
    <3>4. u[i + 1] = Following(s, n, j)
      BY <2>1 DEF Ordered
    <3>5. v[i] = u[i] /\ v[i + 1] = u[i + 1]
      BY <1>4, <3>1
    <3>6. Length(r[n]) = Length(s[n])
      BY <1>0, <1>2, <3>3
    <3> QED
      BY <3>4, <3>5, <3>6 DEF Following
  <2>2. CASE i = N
    <3>1. N > 0 /\ N \in 1 .. N /\ N + 1 \in N + 1 .. N + L /\ N + 1 - N = 1
      BY <1>0, <2>2
    <3>2. u[N] = <<Len(s), Length(s[Len(s)])>>
      BY <3>1 DEF Ordered
    <3>3. v[N] = <<Len(s), Length(s[Len(s)])>> /\ v[N + 1] = <<M, 1>>
      BY <1>4, <3>1, <3>2
    <3>4. Len(s) \in 1 .. Len(s)
      BY <1>0, <3>1
    <3>5. Length(r[Len(s)]) = Length(s[Len(s)]) /\ Length(s[Len(s)]) \in Nat
      BY <1>2, <1>3, <3>4
    <3>6. v[i][1] = Len(s) /\ v[i][2] = Length(s[Len(s)])
      BY <2>2, <3>3
    <3>7. ~(v[i][2] < Length(r[v[i][1]]))
      BY <3>5, <3>6
    <3>8. <<v[i][1] + 1, 1>> = <<M, 1>>
      BY <1>5, <3>6
    <3> QED
      BY <2>2, <3>3, <3>7, <3>8 DEF Following
  <2>3. CASE i \in N + 1 .. N + L - 1
    <3>1. i \in N + 1 .. N + L /\ i + 1 \in N + 1 .. N + L /\ i + 1 - N = i - N + 1
          /\ i - N < L
      BY <1>0, <2>3
    <3>2. v[i] = <<M, i - N>> /\ v[i + 1] = <<M, i - N + 1>>
      BY <1>4, <3>1
    <3>3. v[i][1] = M /\ v[i][2] = i - N
      BY <3>2
    <3> QED
      BY <1>2, <3>1, <3>2, <3>3 DEF Following
  <2> QED
    BY <1>0, <2>1, <2>2, <2>3
<1>9. ASSUME NEW i \in 1 .. N + L, NEW k \in 1 .. N + L, i <= k PROVE v[i][1] <= v[k][1]
  <2>1. ASSUME NEW q \in 1 .. N PROVE v[q] = u[q] /\ u[q][1] \in Nat /\ u[q][1] <= M
    <3>1. PartOf(u, N, t, s, q, u[q][1], u[q][2])
      BY ByteIs
    <3>2. u[q][1] \in t + 1 .. Len(s)
      BY <3>1 DEF PartOf
    <3> QED
      BY <1>0, <1>4, <1>5, <3>2
  <2>2. ASSUME NEW q \in N + 1 .. N + L PROVE v[q][1] = M
    BY <1>4
  <2>3. CASE i \in 1 .. N /\ k \in 1 .. N
    <3>1. u[i][1] <= u[k][1]
      BY <1>9, <2>3 DEF Ordered
    <3> QED
      BY <2>1, <2>3, <3>1
  <2>4. CASE i \in 1 .. N /\ k \in N + 1 .. N + L
    <3>1. v[i][1] <= M /\ v[k][1] = M
      BY <2>1, <2>2, <2>4
    <3> QED
      BY <3>1
  <2>5. CASE i \in N + 1 .. N + L /\ k \in N + 1 .. N + L
    <3>1. v[i][1] = M /\ v[k][1] = M
      BY <2>2, <2>5
    <3> QED
      BY <1>5, <3>1
  <2>6. \/ i \in 1 .. N /\ k \in 1 .. N
        \/ i \in 1 .. N /\ k \in N + 1 .. N + L
        \/ i \in N + 1 .. N + L /\ k \in N + 1 .. N + L
    BY <1>0, <1>9
  <2> QED
    BY <2>3, <2>4, <2>5, <2>6
<1>10. v[1] = <<t + 1, 1>> /\ v[N + L] = <<M, L>>
  <2> DEFINE q == N + L
  <2>1. q \in N + 1 .. N + L /\ q - N = L
    BY <1>0
  <2> HIDE DEF q
  <2>5. v[q] = <<M, L>>
    BY <1>4, <2>1
  <2>4. v[N + L] = <<M, L>>
    BY <2>5 DEF q
  <2>2. CASE N = 0
    <3>1. 1 \in N + 1 .. N + L /\ 1 - N = 1 /\ M = t + 1
      BY <1>0, <1>5, <2>2
    <3>2. v[1] = <<M, 1 - N>>
      BY <1>4, <3>1
    <3> QED
      BY <2>4, <3>1, <3>2
  <2>3. CASE N > 0
    <3>1. 1 \in 1 .. N /\ u[1] = <<t + 1, 1>>
      BY <2>3 DEF Ordered
    <3> QED
      BY <1>4, <2>4, <3>1
  <2> QED
    BY <2>2, <2>3
<1>11. t <= M /\ t # M /\ N + L # 0 /\ N + L > 0
  BY <1>0, <1>5
<1>12. ASSUME NEW i \in 1 .. N + L PROVE PartOf(v, N + L, t, r, i, v[i][1], v[i][2])
  <2>1. i \in 1 .. N \/ i \in N + 1 .. N + L
    BY <1>0
  <2> QED
    BY <1>6, <1>7, <2>1
<1>13. Ordered(v, N + L, t, r)
  <2> DEFINE K == N + L
  <2>1. /\ t <= Len(r) /\ K # 0 /\ t # Len(r)
        /\ v[1] = <<t + 1, 1>> /\ v[K] = <<Len(r), Length(r[Len(r)])>>
    BY <1>1, <1>2, <1>10, <1>11
  <2>2. \A i, k \in 1 .. K : i <= k => v[i][1] <= v[k][1]
    BY <1>9
  <2>3. \A i \in 1 .. K - 1 :
          v[i + 1] = Following(r, v[i][1], v[i][2])
    <3>1. K - 1 = N + L - 1
      BY <1>0
    <3> QED
      BY <1>8, <3>1
  <2>4. \A i \in 1 .. K : PartOf(v, K, t, r, i, v[i][1], v[i][2])
    BY <1>12
  <2> HIDE DEF K
  <2>5. Ordered(v, K, t, r)
    BY <2>1, <2>2, <2>3, <2>4 DEF Ordered
  <2> QED
    BY <2>5 DEF K
<1> QED
  BY <1>13 DEF L, r

-----------------------------------------------------------------------------
(* The buffer and the wire.                                                *)

\* u is the first c bytes of b followed by w.
Joined(b, c, w, u) ==
  /\ u \in Seq(Byte) /\ Len(u) = c + Len(w)
  /\ \A i \in 1 .. c : u[i] = b[i]
  /\ \A i \in 1 .. Len(w) : u[c + i] = w[i]

\* The committed bytes and those on the wire.
LEMMA JoinIs ==
  ASSUME NEW b \in [1 .. MaxReceiveBufferSize -> Byte], NEW w \in Seq(Byte),
         NEW c \in 0 .. MaxReceiveBufferSize
  PROVE  Joined(b, c, w, SubSeq(b, 1, c) \o w)
<1>0. MaxReceiveBufferSize \in Nat /\ Len(w) \in Nat
  BY BufferAssumption, LenProperties
<1>1. b \in Seq(Byte) /\ Len(b) = MaxReceiveBufferSize
  <2>1. b \in Seq(Byte)
    BY <1>0, SeqDef
  <2> QED
    BY <1>0, <2>1, LenProperties
<1> DEFINE p == SubSeq(b, 1, c)
           u == p \o w
<1>2. p \in Seq(Byte) /\ Len(p) = c /\ \A i \in 1 .. c : p[i] = b[i]
  BY <1>1, PrefixIs
<1> HIDE DEF p
<1>3. /\ u \in Seq(Byte) /\ Len(u) = c + Len(w)
      /\ \A i \in 1 .. c + Len(w) : u[i] = IF i <= c THEN p[i] ELSE w[i - c]
  BY <1>2, ConcatProperties
<1> HIDE DEF u
<1>4. ASSUME NEW i \in 1 .. c PROVE u[i] = b[i]
  <2>1. i \in 1 .. c + Len(w) /\ i <= c
    BY <1>0
  <2> QED
    BY <1>2, <1>3, <2>1
<1>5. ASSUME NEW i \in 1 .. Len(w) PROVE u[c + i] = w[i]
  <2> DEFINE q == c + i
  <2>1. q \in 1 .. c + Len(w) /\ ~(q <= c) /\ q - c = i
    BY <1>0
  <2> HIDE DEF q
  <2>2. u[q] = w[i]
    BY <1>3, <2>1
  <2> QED
    BY <2>2 DEF q
<1> QED
  BY <1>3, <1>4, <1>5 DEF Joined, u, p

\* What the invariant says of the variables.
LEMMA BufferHas ==
  ASSUME ReceiveInv
  PROVE  /\ sent \in Seq(Messages) /\ ended \in BOOLEAN /\ wire \in Seq(Byte)
         /\ unsent \in 0 .. Len(wire) /\ unsent \in Nat
         /\ buffer \in [1 .. MaxReceiveBufferSize -> Byte]
         /\ commited_size \in 0 .. MaxReceiveBufferSize /\ commited_size \in Nat
         /\ span \in [at : 0 .. MaxReceiveBufferSize, size : 0 .. MaxReceiveBufferSize]
         /\ span.at + span.size <= MaxReceiveBufferSize
         /\ pc \in {"request", "receive", "parse", "closed", "dropped"}
         /\ taken \in Nat /\ handled \in Seq(Seq(Byte))
         /\ Len(wire) \in Nat /\ Len(sent) \in Nat
         /\ Joined(buffer, commited_size, wire, Unread)
         /\ Ordered(Unread, commited_size + Len(wire), taken, sent)
<1>1. TypeOK /\ BytesOrdered /\ MaxReceiveBufferSize \in Nat
  BY BufferAssumption DEF ReceiveInv
<1>2. Joined(buffer, commited_size, wire, Unread)
  BY <1>1, JoinIs DEF TypeOK, Unread
<1> QED
  BY <1>1, <1>2, LenProperties DEF TypeOK, BytesOrdered

\* The header at the front of the buffer is that of the next message.
LEMMA HeaderIs ==
  ASSUME ReceiveInv, commited_size > 0
  PROVE  /\ taken + 1 \in 1 .. Len(sent) /\ sent[taken + 1] \in Messages
         /\ buffer[1] = <<taken + 1, 1>> /\ Header = sent[taken + 1]
<1>0. /\ commited_size \in Nat /\ Len(wire) \in Nat /\ Len(sent) \in Nat /\ taken \in Nat
      /\ sent \in Seq(Messages)
      /\ Joined(buffer, commited_size, wire, Unread)
      /\ Ordered(Unread, commited_size + Len(wire), taken, sent)
  BY BufferHas
<1> DEFINE N == commited_size + Len(wire)
<1>1. N \in Nat /\ N > 0 /\ 1 \in 1 .. commited_size
  BY <1>0
<1> HIDE DEF N
<1>2. taken <= Len(sent) /\ taken # Len(sent) /\ Unread[1] = <<taken + 1, 1>>
  <2>1. Ordered(Unread, N, taken, sent)
    BY <1>0 DEF N
  <2>2. N # 0
    BY <1>1
  <2> QED
    BY <1>1, <2>1, <2>2 DEF Ordered
<1>3. buffer[1] = <<taken + 1, 1>>
  BY <1>0, <1>1, <1>2 DEF Joined
<1>4. buffer[1][1] = taken + 1
  BY <1>3
<1>5. taken + 1 \in 1 .. Len(sent)
  BY <1>0, <1>2
<1>6. sent[taken + 1] \in Messages
  BY <1>0, <1>5, ElementOfSeq
<1> QED
  BY <1>3, <1>4, <1>5, <1>6 DEF Header

\* The invariant holds when the session is created.
LEMMA ReceiveInit == Init => ReceiveInv
<1> SUFFICES ASSUME Init PROVE ReceiveInv
  OBVIOUS
<1>0. /\ HeaderSize \in Nat \ {0} /\ MaxReceiveBufferSize \in Nat
  BY BufferAssumption
<1>1. /\ sent = <<>> /\ ended = FALSE /\ wire = <<>> /\ unsent = 0 /\ commited_size = 0
      /\ pc = "request" /\ taken = 0 /\ handled = <<>>
      /\ span = [at |-> 0, size |-> 0]
      /\ buffer = [i \in 1 .. MaxReceiveBufferSize |-> Unwritten]
  BY DEF Init
<1>2. TypeOK
  <2>1. /\ sent \in Seq(Messages) /\ wire \in Seq(Byte) /\ handled \in Seq(Seq(Byte))
        /\ unsent \in 0 .. Len(wire)
    BY <1>1
  <2>2. buffer \in [1 .. MaxReceiveBufferSize -> Byte]
    BY <1>1 DEF Byte
  <2>3. /\ span \in [at : 0 .. MaxReceiveBufferSize, size : 0 .. MaxReceiveBufferSize]
        /\ span.at + span.size <= MaxReceiveBufferSize
    BY <1>0, <1>1
  <2> QED
    BY <1>0, <1>1, <2>1, <2>2, <2>3 DEF TypeOK
<1>3. SpanKept
  BY <1>1 DEF SpanKept
<1>4. NoneWaits
  <2>1. ~(commited_size >= HeaderSize)
    BY <1>0, <1>1
  <2> QED
    BY <2>1 DEF NoneWaits, HasMessage
<1>5. BytesOrdered
  <2> DEFINE N == commited_size + Len(wire)
  <2>1. N = 0 /\ Len(sent) = 0 /\ taken = 0
    BY <1>1
  <2> HIDE DEF N
  <2>2. 1 .. N = {} /\ 1 .. N - 1 = {} /\ ~(N > 0)
    BY <2>1
  <2>3. Ordered(Unread, N, taken, sent)
    BY <2>1, <2>2 DEF Ordered
  <2> QED
    BY <2>3 DEF BytesOrdered, N
<1> QED
  BY <1>2, <1>3, <1>4, <1>5 DEF ReceiveInv

\* A step that touches neither bytes nor messages.
LEMMA StillOrdered ==
  ASSUME ReceiveInv, UNCHANGED <<sent, wire, buffer, commited_size, taken>>
  PROVE  BytesOrdered' /\ (HasMessage' <=> HasMessage)
<1>1. BytesOrdered
  BY DEF ReceiveInv
<1> QED
  BY <1>1 DEF BytesOrdered, Unread, HasMessage, Header

\* Requesting a receive, leaving the loop, receives of nothing, failures and the
\* end of the stream.
LEMMA SessionStep ==
  ASSUME ReceiveInv,
         RequestReceive \/ DropReceive \/ ReceiveNothing \/ ReceiveFails \/ LeaveLoop
           \/ End
  PROVE  ReceiveInv'
<1>1. UNCHANGED <<sent, unsent, wire, buffer, commited_size, taken, handled>>
  BY DEF RequestReceive, DropReceive, ReceiveNothing, ReceiveFails, LeaveLoop, End, client
<1>2. TypeOK /\ SpanKept /\ NoneWaits /\ MaxReceiveBufferSize \in Nat
  BY BufferAssumption DEF ReceiveInv
<1>3. BytesOrdered' /\ (HasMessage' <=> HasMessage) /\ GetRemainSpan' = GetRemainSpan
  BY <1>1, StillOrdered DEF GetRemainSpan
<1>4. /\ pc' \in {"request", "receive", "parse", "closed", "dropped"}
      /\ span' = span \/ (span' = GetRemainSpan /\ pc = "request")
      /\ pc' = "receive" => \/ pc = "request" /\ span' = GetRemainSpan
                            \/ pc = "receive" /\ span' = span
      /\ pc' = "request" => ~HasMessage \/ pc = "request"
  <2>0. pc \in {"request", "receive", "parse", "closed", "dropped"}
    BY <1>2 DEF TypeOK
  <2>1. CASE RequestReceive
    BY <2>1 DEF RequestReceive
  <2>2. CASE DropReceive \/ ReceiveNothing \/ ReceiveFails
    <3>1. span' = span /\ pc' \in {"parse", "closed", "dropped"}
      BY <2>2 DEF DropReceive, ReceiveNothing, ReceiveFails
    <3> QED
      BY <3>1
  <2>3. CASE LeaveLoop
    BY <2>3 DEF LeaveLoop
  <2>4. CASE End
    BY <2>0, <2>4 DEF End
  <2> QED
    BY <2>1, <2>2, <2>3, <2>4
<1>5. /\ GetRemainSpan \in [at : 0 .. MaxReceiveBufferSize, size : 0 .. MaxReceiveBufferSize]
      /\ GetRemainSpan.at + GetRemainSpan.size <= MaxReceiveBufferSize
  BY <1>2 DEF TypeOK, GetRemainSpan
<1>6. ended' \in BOOLEAN
  <2>1. ended \in BOOLEAN
    BY <1>2 DEF TypeOK
  <2>2. ended' = ended \/ ended' = TRUE
    BY DEF RequestReceive, DropReceive, ReceiveNothing, ReceiveFails, LeaveLoop, End,
           client
  <2> QED
    BY <2>1, <2>2, Zenon
<1>7. TypeOK'
  BY <1>1, <1>2, <1>4, <1>5, <1>6 DEF TypeOK
<1>8. SpanKept'
  BY <1>2, <1>3, <1>4 DEF SpanKept
<1>9. NoneWaits'
  BY <1>2, <1>3, <1>4 DEF NoneWaits
<1> QED
  BY <1>3, <1>7, <1>8, <1>9 DEF ReceiveInv

\* Bytes go from the wire to the end of what is committed.
LEMMA ReceiveStep ==
  ASSUME ReceiveInv, NEW n \in 1 .. MaxReceiveBufferSize, Receive(n)
  PROVE  ReceiveInv'
<1> DEFINE c == commited_size
<1>0. /\ wire \in Seq(Byte) /\ buffer \in [1 .. MaxReceiveBufferSize -> Byte]
      /\ c \in 0 .. MaxReceiveBufferSize /\ c \in Nat /\ Len(wire) \in Nat
      /\ MaxReceiveBufferSize \in Nat
      /\ Joined(buffer, c, wire, Unread)
      /\ Ordered(Unread, c + Len(wire), taken, sent)
  BY BufferHas, BufferAssumption
<1>1. /\ pc' = "parse" /\ n <= Len(wire) - unsent /\ n \in 1 .. span.size
      /\ buffer' = [i \in DOMAIN buffer |->
                      IF i - span.at \in 1 .. n THEN wire[i - span.at] ELSE buffer[i]]
      /\ wire' = SubSeq(wire, n + 1, Len(wire)) /\ commited_size' = c + n
      /\ UNCHANGED <<sent, ended, unsent, span, taken, handled>>
  BY DEF Receive, client
<1>2. span.at = c /\ span.size = MaxReceiveBufferSize - c
  BY DEF Receive, ReceiveInv, SpanKept, GetRemainSpan
<1>3. /\ n \in Nat \ {0} /\ n \in 0 .. Len(wire) /\ c + n \in 0 .. MaxReceiveBufferSize
      /\ unsent \in 0 .. Len(wire) - n
  <2>1. unsent \in Nat
    BY BufferHas
  <2> QED
    BY <1>0, <1>1, <1>2, <2>1
<1>4. /\ wire' \in Seq(Byte) /\ Len(wire') = Len(wire) - n
      /\ \A i \in 1 .. Len(wire) - n : wire'[i] = wire[n + i]
  BY <1>0, <1>1, <1>3, SuffixIs
<1>5. /\ buffer' \in [1 .. MaxReceiveBufferSize -> Byte]
      /\ \A i \in 1 .. MaxReceiveBufferSize :
           buffer'[i] = IF i - c \in 1 .. n THEN wire[i - c] ELSE buffer[i]
  <2>1. \A k \in 1 .. Len(wire) : wire[k] \in Byte
    BY <1>0, ElementOfSeq
  <2>2. \A k \in 1 .. n : wire[k] \in Byte
    BY <1>0, <1>3, <2>1
  <2>3. buffer' = [i \in 1 .. MaxReceiveBufferSize |->
                     IF i - c \in 1 .. n THEN wire[i - c] ELSE buffer[i]]
    BY <1>0, <1>1, <1>2
  <2>4. \A i \in 1 .. MaxReceiveBufferSize : buffer[i] \in Byte
    BY <1>0
  <2> QED
    BY <2>2, <2>3, <2>4
<1> HIDE DEF c
<1>6. Joined(buffer', c + n, wire', Unread')
  BY <1>1, <1>3, <1>4, <1>5, JoinIs DEF Unread, c
<1>7. Len(Unread') = Len(Unread) /\ Len(Unread) = c + Len(wire)
  <2>1. Len(Unread') = c + n + Len(wire')
    BY <1>6 DEF Joined
  <2>2. Len(Unread) = c + Len(wire)
    BY <1>0 DEF Joined
  <2>3. c + n + Len(wire') = c + Len(wire)
    BY <1>0, <1>3, <1>4
  <2> QED
    BY <2>1, <2>2, <2>3
<1>8. ASSUME NEW i \in 1 .. Len(Unread) PROVE Unread'[i] = Unread[i]
  <2>0. i \in 1 .. c + Len(wire)
    BY <1>7
  <2>1. CASE i <= c
    <3>1. i \in 1 .. c /\ i \in 1 .. c + n /\ i \in 1 .. MaxReceiveBufferSize
          /\ i - c \notin 1 .. n
      BY <1>0, <1>3, <2>0, <2>1
    <3>2. Unread'[i] = buffer'[i] /\ Unread[i] = buffer[i]
      BY <1>0, <1>6, <3>1 DEF Joined
    <3> QED
      BY <1>5, <3>1, <3>2
  <2>2. CASE i > c /\ i <= c + n
    <3> DEFINE k == i - c
    <3>1. k \in 1 .. n /\ k \in 1 .. Len(wire) /\ i = c + k /\ i \in 1 .. c + n
          /\ i \in 1 .. MaxReceiveBufferSize
      BY <1>0, <1>3, <2>0, <2>2
    <3>2. buffer'[i] = wire[k]
      BY <1>5, <3>1
    <3> HIDE DEF k
    <3>3. Unread[c + k] = wire[k]
      BY <1>0, <3>1 DEF Joined
    <3>4. Unread'[i] = buffer'[i]
      BY <1>6, <3>1 DEF Joined
    <3> QED
      BY <3>1, <3>2, <3>3, <3>4
  <2>3. CASE i > c + n
    <3> DEFINE k == i - (c + n)
               q == n + k
               l == Len(wire)
    <3>5. c \in Nat /\ n \in Nat /\ l \in Nat /\ i \in 1 .. c + l /\ Len(wire') = l - n
      BY <1>0, <1>3, <1>4, <2>0
    <3> HIDE DEF l
    <3>6. k \in 1 .. l - n /\ q \in 1 .. l /\ i = c + n + k /\ i = c + q
      BY <2>3, <3>5
    <3>1. k \in 1 .. Len(wire') /\ k \in 1 .. Len(wire) - n /\ q \in 1 .. Len(wire)
          /\ i = c + n + k /\ i = c + q
      BY <3>5, <3>6 DEF l
    <3>2. wire'[k] = wire[q]
      BY <1>4, <3>1
    <3> HIDE DEF k, q
    <3>3. Unread[c + q] = wire[q]
      BY <1>0, <3>1 DEF Joined
    <3>4. Unread'[c + n + k] = wire'[k]
      BY <1>6, <3>1 DEF Joined
    <3> QED
      BY <3>1, <3>2, <3>3, <3>4
  <2> QED
    BY <1>0, <1>3, <2>0, <2>1, <2>2, <2>3
<1>9. Unread' = Unread
  <2>1. Unread \in Seq(Byte) /\ Unread' \in Seq(Byte)
    BY <1>0, <1>6 DEF Joined
  <2> QED
    BY <1>7, <1>8, <2>1, SeqEqual
<1>10. BytesOrdered'
  <2>1. commited_size' + Len(wire') = c + Len(wire)
    <3> DEFINE l == Len(wire)
    <3>1. c \in Nat /\ n \in Nat /\ l \in Nat /\ Len(wire') = l - n /\ commited_size' = c + n
      BY <1>0, <1>1, <1>3, <1>4 DEF c
    <3> HIDE DEF l
    <3>2. commited_size' + Len(wire') = c + l
      BY <3>1
    <3> QED
      BY <3>2 DEF l
  <2> QED
    BY <1>0, <1>1, <1>9, <2>1 DEF BytesOrdered
<1>11. TypeOK'
  BY <1>1, <1>3, <1>4, <1>5 DEF TypeOK, ReceiveInv, c
<1>12. SpanKept' /\ NoneWaits'
  BY <1>1 DEF SpanKept, NoneWaits
<1> QED
  BY <1>10, <1>11, <1>12 DEF ReceiveInv

\* The client sends a message, to its end or not.
LEMMA SendStep ==
  ASSUME ReceiveInv, NEW m \in Messages,
         Send(m) \/ \E k \in 1 .. Length(m) - 1 : SendPartly(m, k)
  PROVE  ReceiveInv'
<1> DEFINE c == commited_size
           M == Len(sent) + 1
           L == Length(m)
           b == Bytes(M, m)
<1>0. /\ sent \in Seq(Messages) /\ Len(sent) \in Nat /\ wire \in Seq(Byte)
      /\ buffer \in [1 .. MaxReceiveBufferSize -> Byte] /\ taken \in Nat
      /\ c \in 0 .. MaxReceiveBufferSize /\ c \in Nat /\ Len(wire) \in Nat
      /\ Joined(buffer, c, wire, Unread)
      /\ Ordered(Unread, c + Len(wire), taken, sent)
  BY BufferHas
<1>1. /\ sent' = Append(sent, m) /\ wire' = wire \o b
      /\ UNCHANGED <<buffer, commited_size, span, pc, taken, handled>>
      /\ \/ UNCHANGED <<ended, unsent>>
         \/ ended' = TRUE /\ unsent' \in 1 .. L - 1
  BY DEF Send, SendPartly
<1>2. L \in Nat \ {0} /\ M \in Nat
  BY <1>0, LengthIs
<1>3. b \in Seq(Byte) /\ Len(b) = L /\ \A j \in 1 .. L : b[j] = <<M, j>>
  <2>1. b = [j \in 1 .. L |-> <<M, j>>]
    BY DEF Bytes
  <2>2. \A j \in 1 .. L : <<M, j>> \in Byte
    BY <1>2 DEF Byte
  <2>3. b \in [1 .. L -> Byte]
    BY <2>1, <2>2
  <2>4. b \in Seq(Byte)
    BY <1>2, <2>3, SeqDef
  <2> QED
    BY <1>2, <2>1, <2>3, <2>4, LenProperties
<1> HIDE DEF c, M, L, b
<1>4. /\ wire' \in Seq(Byte) /\ Len(wire') = Len(wire) + L
      /\ \A i \in 1 .. Len(wire) + L :
           wire'[i] = IF i <= Len(wire) THEN wire[i] ELSE b[i - Len(wire)]
  BY <1>0, <1>1, <1>3, ConcatProperties
<1>5. Joined(buffer, c, wire', Unread')
  BY <1>0, <1>1, <1>4, JoinIs DEF Unread, c
<1> DEFINE N == c + Len(wire)
<1>6. ASSUME NEW i \in 1 .. N PROVE Unread'[i] = Unread[i]
  <2>1. CASE i <= c
    <3>1. i \in 1 .. c
      BY <1>0, <2>1
    <3> QED
      BY <1>0, <1>5, <3>1 DEF Joined
  <2>2. CASE i > c
    <3> DEFINE k == i - c
               l == Len(wire)
    <3>5. c \in Nat /\ L \in Nat /\ l \in Nat /\ i \in 1 .. c + l /\ Len(wire') = l + L
      BY <1>0, <1>2, <1>4
    <3> HIDE DEF l
    <3>6. k \in 1 .. l /\ i = c + k /\ k \in 1 .. l + L /\ k <= l
      BY <2>2, <3>5
    <3>1. k \in 1 .. Len(wire) /\ i = c + k /\ k \in 1 .. Len(wire') /\ k <= Len(wire)
          /\ k \in 1 .. Len(wire) + L
      BY <3>5, <3>6 DEF l
    <3> HIDE DEF k
    <3>2. wire'[k] = wire[k]
      BY <1>4, <3>1
    <3>3. Unread[c + k] = wire[k]
      BY <1>0, <3>1 DEF Joined
    <3>4. Unread'[c + k] = wire'[k]
      BY <1>5, <3>1 DEF Joined
    <3> QED
      BY <3>1, <3>2, <3>3, <3>4
  <2> QED
    BY <1>0, <2>1, <2>2
<1>7. ASSUME NEW i \in N + 1 .. N + L PROVE Unread'[i] = <<M, i - N>>
  <2> DEFINE k == i - c
             j == i - N
  <2>1. /\ k \in 1 .. Len(wire') /\ k \in 1 .. Len(wire) + L /\ ~(k <= Len(wire))
        /\ k - Len(wire) = j /\ j \in 1 .. L /\ i = c + k
    BY <1>0, <1>2, <1>4
  <2> HIDE DEF k, j
  <2>2. wire'[k] = b[j]
    BY <1>4, <2>1
  <2>3. b[j] = <<M, j>>
    BY <1>3, <2>1
  <2>4. Unread'[c + k] = wire'[k]
    BY <1>5, <2>1 DEF Joined
  <2>5. Unread'[i] = <<M, j>>
    BY <2>1, <2>2, <2>3, <2>4
  <2> QED
    BY <2>5 DEF j
<1>8. BytesOrdered'
  <2> DEFINE u == Unread
             v == Unread'
             t == taken
             s == sent
  <2>1. N \in Nat /\ Ordered(u, N, t, s) /\ s \in Seq(Messages) /\ t \in Nat
    BY <1>0
  <2>2. Extended(u, v, N, Len(s) + 1, Length(m))
    BY <1>6, <1>7 DEF Extended, M, L
  <2> HIDE DEF N, u, v, t, s
  <2>3. Ordered(v, N + Length(m), t, Append(s, m))
    BY <2>1, <2>2, StreamExtended
  <2>4. commited_size' + Len(wire') = N + Length(m)
    <3>1. c + (Len(wire) + L) = c + Len(wire) + L
      BY <1>0, <1>2
    <3> QED
      BY <1>1, <1>4, <3>1 DEF c, N, L
  <2> QED
    BY <1>1, <2>3, <2>4 DEF BytesOrdered, u, v, t, s
<1>9. TypeOK'
  <2>1. sent' \in Seq(Messages)
    BY <1>0, <1>1, AppendProperties
  <2>2. ended' \in BOOLEAN
    <3>1. ended \in BOOLEAN
      BY BufferHas
    <3>2. ended' = ended \/ ended' = TRUE
      BY <1>1
    <3> QED
      BY <3>1, <3>2, Zenon
  <2>3. unsent' \in 0 .. Len(wire')
    <3>1. unsent \in 0 .. Len(wire)
      BY BufferHas
    <3> QED
      BY <1>0, <1>1, <1>2, <1>4, <3>1
  <2> QED
    BY <1>1, <1>4, <2>1, <2>2, <2>3 DEF TypeOK, ReceiveInv
<1>10. SpanKept'
  BY <1>1 DEF SpanKept, ReceiveInv, GetRemainSpan
<1>11. HasMessage' => HasMessage
  <2> HAVE HasMessage'
  <2>1. HeaderSize \in Nat \ {0} /\ commited_size >= HeaderSize /\ commited_size > 0
    BY <1>0, <1>1, BufferAssumption DEF HasMessage, c
  <2>2. buffer[1] = <<taken + 1, 1>> /\ taken + 1 \in 1 .. Len(sent)
    BY <2>1, HeaderIs
  <2>3. buffer[1][1] \in 1 .. Len(sent)
    BY <2>2
  <2>4. Header' = Header
    BY <1>0, <1>1, <2>3, AppendProperties DEF Header
  <2> QED
    BY <1>1, <2>4 DEF HasMessage
<1>12. NoneWaits'
  BY <1>1, <1>11 DEF NoneWaits, ReceiveInv
<1> QED
  BY <1>8, <1>9, <1>10, <1>12 DEF ReceiveInv

\* What a turn of the loop works on: the next message, which is complete at the
\* front of the buffer.
LEMMA MessageIs ==
  ASSUME ReceiveInv, HasMessage
  PROVE  /\ taken + 1 \in 1 .. Len(sent) /\ Header = sent[taken + 1] /\ Header \in Messages
         /\ Header.size = Length(sent[taken + 1]) /\ Header.size \in 1 .. commited_size
         /\ commited_size > 0
<1>0. HeaderSize \in Nat \ {0} /\ commited_size \in Nat
  BY BufferHas, BufferAssumption
<1>1. commited_size >= HeaderSize /\ Header.size >= HeaderSize /\ commited_size >= Header.size
  BY DEF HasMessage
<1>2. commited_size > 0
  BY <1>0, <1>1
<1>3. taken + 1 \in 1 .. Len(sent) /\ Header = sent[taken + 1] /\ Header \in Messages
  BY <1>2, HeaderIs
<1>4. Header.size \in Int /\ Header.size = Length(Header)
  BY <1>1, <1>3, LengthIs
<1>5. Header.size \in 1 .. commited_size
  BY <1>0, <1>1, <1>4
<1> QED
  BY <1>2, <1>3, <1>4, <1>5

\* The front of the buffer is the next message, and what is left when it is
\* taken away is the rest of the stream.
LEMMA ParseIs ==
  ASSUME ReceiveInv, HasMessage, ProcessCompleted(Header.size), UNCHANGED <<sent, wire>>,
         taken' = taken + 1
  PROVE  /\ SubSeq(buffer, 1, Header.size) = Bytes(taken + 1, sent[taken + 1])
         /\ SubSeq(buffer, 1, Header.size) \in Seq(Byte)
         /\ buffer' \in [1 .. MaxReceiveBufferSize -> Byte]
         /\ commited_size' \in 0 .. MaxReceiveBufferSize
         /\ BytesOrdered'
<1> DEFINE c == commited_size
           L == Header.size
           M == taken + 1
           N == c + Len(wire)
           u == Unread
           v == Unread'
           t == taken
           s == sent
<1>0. /\ s \in Seq(Messages) /\ wire \in Seq(Byte) /\ t \in Nat
      /\ buffer \in [1 .. MaxReceiveBufferSize -> Byte]
      /\ c \in 0 .. MaxReceiveBufferSize /\ c \in Nat /\ Len(wire) \in Nat
      /\ MaxReceiveBufferSize \in Nat
      /\ Joined(buffer, c, wire, u) /\ Ordered(u, N, t, s)
  BY BufferHas, BufferAssumption
<1>1. L \in 1 .. c /\ L = Length(s[t + 1]) /\ c > 0
  BY MessageIs
<1>2. /\ buffer' = [i \in DOMAIN buffer |-> IF i + L <= c THEN buffer[i + L] ELSE buffer[i]]
      /\ commited_size' = c - L
  BY DEF ProcessCompleted
<1> HIDE DEF L
<1>3. L \in Nat \ {0} /\ L <= c /\ N \in Nat /\ N > 0 /\ L <= N
  BY <1>0, <1>1
<1>4. c - L \in 0 .. MaxReceiveBufferSize
  BY <1>0, <1>3
<1>5. buffer' \in [1 .. MaxReceiveBufferSize -> Byte]
  <2>1. \A i \in 1 .. MaxReceiveBufferSize : i + L <= c => i + L \in 1 .. MaxReceiveBufferSize
    BY <1>0, <1>3
  <2>2. \A i \in 1 .. MaxReceiveBufferSize : buffer[i] \in Byte
    BY <1>0
  <2>3. buffer' = [i \in 1 .. MaxReceiveBufferSize |->
                     IF i + L <= c THEN buffer[i + L] ELSE buffer[i]]
    BY <1>0, <1>2
  <2> QED
    BY <2>1, <2>2, <2>3
<1>6. \A i \in 1 .. c - L : buffer'[i] = buffer[i + L] /\ i + L \in 1 .. c
  BY <1>0, <1>2, <1>3
<1>7. Joined(buffer', c - L, wire, v)
  BY <1>0, <1>2, <1>4, <1>5, JoinIs DEF Unread
<1> HIDE DEF c, v
<1>8. Shifted(u, v, N, L)
  <2> SUFFICES ASSUME NEW i \in 1 .. N - L PROVE v[i] = u[i + L]
    BY DEF Shifted
  <2>1. CASE i <= c - L
    <3> DEFINE q == i + L
    <3>1. i \in 1 .. c - L
      BY <1>0, <1>3, <2>1
    <3>2. buffer'[i] = buffer[q] /\ q \in 1 .. c
      BY <1>6, <3>1
    <3> HIDE DEF q
    <3>3. v[i] = buffer'[i] /\ u[q] = buffer[q]
      BY <1>0, <1>7, <3>1, <3>2 DEF Joined
    <3> QED
      BY <3>2, <3>3 DEF q
  <2>2. CASE i > c - L
    <3> DEFINE k == i - (c - L)
               l == Len(wire)
    <3>1. c \in Nat /\ L \in Nat /\ l \in Nat /\ i \in 1 .. c + l - L
      BY <1>0, <1>3 DEF N
    <3> HIDE DEF l
    <3>2. k \in 1 .. l /\ i = c - L + k /\ i + L = c + k
      BY <1>3, <2>2, <3>1
    <3> HIDE DEF k
    <3>3. v[c - L + k] = wire[k]
      BY <1>7, <3>2 DEF Joined, l
    <3>4. u[c + k] = wire[k]
      BY <1>0, <3>2 DEF Joined, l
    <3> QED
      BY <3>2, <3>3, <3>4
  <2> QED
    BY <1>0, <1>3, <2>1, <2>2
<1> HIDE DEF N, u, t, s
<1>9. /\ \A k \in 1 .. L : u[k] = <<t + 1, k>>
      /\ Ordered(v, N - L, t + 1, s)
  <2>1. s \in Seq(Messages) /\ t \in Nat /\ N \in Nat /\ Ordered(u, N, t, s) /\ N > 0
    BY <1>0, <1>3
  <2>2. FirstIs(N, t, s, L)
    BY <1>1, <1>3 DEF FirstIs
  <2> QED
    BY <1>8, <2>1, <2>2, StreamShift
<1>10. BytesOrdered'
  <2>1. commited_size' + Len(wire') = N - L
    <3> DEFINE l == Len(wire)
    <3>1. commited_size' = c - L /\ Len(wire') = l /\ c \in Nat /\ l \in Nat /\ L \in Nat
      BY <1>0, <1>2, <1>3
    <3> HIDE DEF l
    <3>2. commited_size' + Len(wire') = (c + l) - L
      BY <3>1
    <3> QED
      BY <3>2 DEF N, l
  <2> QED
    BY <1>9, <2>1 DEF BytesOrdered, v, t, s
<1>11. SubSeq(buffer, 1, L) = Bytes(M, s[M]) /\ SubSeq(buffer, 1, L) \in Seq(Byte)
  <2> DEFINE a == SubSeq(buffer, 1, L)
             b == Bytes(M, s[M])
  <2>1. buffer \in Seq(Byte) /\ Len(buffer) = MaxReceiveBufferSize
    <3>1. buffer \in Seq(Byte)
      BY <1>0, SeqDef
    <3> QED
      BY <1>0, <3>1, LenProperties
  <2>2. L \in 0 .. Len(buffer)
    BY <1>0, <1>3, <2>1
  <2>3. a \in Seq(Byte) /\ Len(a) = L /\ \A i \in 1 .. L : a[i] = buffer[i]
    BY <2>1, <2>2, PrefixIs
  <2>4. M = t + 1 /\ M \in Nat
    BY <1>0 DEF t
  <2>5. b = [j \in 1 .. L |-> <<M, j>>]
    BY <1>1, <2>4 DEF Bytes
  <2> HIDE DEF a, b, M
  <2>6. \A j \in 1 .. L : <<M, j>> \in Byte
    BY <1>3, <2>4 DEF Byte
  <2>7. b \in [1 .. L -> Byte] /\ \A j \in 1 .. L : b[j] = <<M, j>>
    BY <2>5, <2>6
  <2>8. b \in Seq(Byte) /\ Len(b) = L
    <3>1. b \in Seq(Byte)
      BY <1>3, <2>7, SeqDef
    <3> QED
      BY <1>3, <2>7, <3>1, LenProperties
  <2>9. ASSUME NEW i \in 1 .. L PROVE a[i] = b[i]
    <3>1. i \in 1 .. c
      BY <1>0, <1>3
    <3>2. u[i] = buffer[i]
      BY <1>0, <3>1 DEF Joined
    <3> QED
      BY <1>9, <2>3, <2>4, <2>7, <3>2
  <2>10. a = b
    BY <2>3, <2>8, <2>9, SeqEqual
  <2> QED
    BY <2>3, <2>10 DEF a, b, M
<1> QED
  BY <1>2, <1>4, <1>5, <1>10, <1>11 DEF L, s

\* A message is handed to its handler and taken out of the buffer.
LEMMA ParseStep ==
  ASSUME ReceiveInv, ParseMessage
  PROVE  ReceiveInv'
<1>1. /\ pc = "parse" /\ HasMessage /\ Dispatch /\ ProcessCompleted(Header.size)
      /\ taken' = taken + 1 /\ UNCHANGED <<sent, ended, unsent, wire, span, pc>>
  BY DEF ParseMessage, client
<1>2. /\ SubSeq(buffer, 1, Header.size) \in Seq(Byte)
      /\ buffer' \in [1 .. MaxReceiveBufferSize -> Byte]
      /\ commited_size' \in 0 .. MaxReceiveBufferSize /\ BytesOrdered'
  BY <1>1, ParseIs
<1>3. handled' \in Seq(Seq(Byte)) /\ taken' \in Nat
  <2>1. handled \in Seq(Seq(Byte)) /\ taken \in Nat
    BY BufferHas
  <2>2. handled' = handled \/ handled' = Append(handled, SubSeq(buffer, 1, Header.size))
    BY <1>1 DEF Dispatch
  <2> HIDE DEF ReceiveInv
  <2>3. Append(handled, SubSeq(buffer, 1, Header.size)) \in Seq(Seq(Byte))
    <3> DEFINE x == SubSeq(buffer, 1, Header.size)
    <3>1. x \in Seq(Byte)
      BY <1>2
    <3> HIDE DEF x
    <3>2. Append(handled, x) \in Seq(Seq(Byte))
      BY <2>1, <3>1, AppendProperties
    <3> QED
      BY <3>2 DEF x
  <2>4. taken' \in Nat
    BY <1>1, <2>1
  <2> QED
    BY <2>1, <2>2, <2>3, <2>4
<1>4. TypeOK'
  BY <1>1, <1>2, <1>3 DEF TypeOK, ReceiveInv
<1>5. SpanKept' /\ NoneWaits'
  BY <1>1 DEF SpanKept, NoneWaits
<1> QED
  BY <1>2, <1>4, <1>5 DEF ReceiveInv

\* Every step keeps the invariant.
LEMMA ReceiveNext == ReceiveInv /\ [Next]_vars => ReceiveInv'
<1> SUFFICES ASSUME ReceiveInv, [Next]_vars PROVE ReceiveInv'
  OBVIOUS
<1>1. CASE UNCHANGED vars
  <2>1. UNCHANGED <<sent, ended, unsent, wire, buffer, commited_size, span, pc, taken, handled>>
    BY <1>1 DEF vars
  <2>2. BytesOrdered' /\ (HasMessage' <=> HasMessage)
    BY <2>1, StillOrdered
  <2>3. TypeOK'
    BY <2>1 DEF ReceiveInv, TypeOK
  <2>4. SpanKept' /\ NoneWaits'
    BY <2>1, <2>2 DEF ReceiveInv, SpanKept, NoneWaits, GetRemainSpan
  <2> QED
    BY <2>2, <2>3, <2>4 DEF ReceiveInv
<1>2. CASE Session \/ Kernel \/ ReceiveFails \/ End
  <2>1. \/ RequestReceive \/ DropReceive \/ ReceiveNothing \/ ReceiveFails \/ LeaveLoop
        \/ End \/ ParseMessage \/ \E n \in 1 .. MaxReceiveBufferSize : Receive(n)
    BY <1>2 DEF Session, Kernel
  <2> QED
    BY <2>1, SessionStep, ParseStep, ReceiveStep
<1>3. ASSUME NEW m \in Messages,
             Send(m) \/ \E k \in 1 .. Length(m) - 1 : SendPartly(m, k)
      PROVE  ReceiveInv'
  BY <1>3, SendStep
<1> QED
  BY <1>1, <1>2, <1>3 DEF Next

\* The session keeps the invariant.
LEMMA SessionKeeps == Spec => []ReceiveInv
BY ReceiveInit, ReceiveNext, PTL DEF Spec

-----------------------------------------------------------------------------
(* The theorems.                                                           *)

\* The variables of the receive path keep their types; what is committed and
\* what an outstanding receive may fill lie within the array, whatever sizes
\* the client declares.
THEOREM ReceiveTypeCorrect == Spec => []TypeOK
<1>1. ReceiveInv => TypeOK
  BY DEF ReceiveInv
<1> QED
  BY <1>1, SessionKeeps, PTL

\* An ordered stream is what the client sent after the messages taken.
LEMMA OrderedConserves == ReceiveInv => BytesConserved
<1> SUFFICES ASSUME ReceiveInv PROVE BytesConserved
  OBVIOUS
<1> DEFINE u == Unread
           N == commited_size + Len(wire)
           K == Len(sent)
<1>0. /\ u \in Seq(Byte) /\ Len(u) = N /\ N \in Nat /\ K \in Nat /\ sent \in Seq(Messages)
      /\ Ordered(u, N, taken, sent)
  BY BufferHas DEF Joined
<1> HIDE DEF N, u, K
<1>1. CASE taken = K
  <2>1. N = 0
    BY <1>0, <1>1 DEF Ordered, K
  <2>2. u = <<>>
    BY <1>0, <2>1, EmptySeq
  <2> QED
    BY <1>1, <2>2 DEF BytesConserved, u, K
<1>2. CASE taken # K
  <2>1. N # 0 /\ N > 0
    BY <1>0, <1>2 DEF Ordered, K
  <2>2. u # <<>> /\ u[1] = <<taken + 1, 1>> /\ u[N] = <<K, Length(sent[K])>>
    <3>1. u # <<>>
      BY <1>0, <2>1, EmptySeq
    <3>2. u[1] = <<taken + 1, 1>> /\ u[N] = <<K, Length(sent[K])>>
      BY <1>0, <2>1 DEF Ordered, K
    <3> QED
      BY <3>1, <3>2
  <2>3. \A b : After(b) = Following(sent, b[1], b[2])
    BY DEF After, Following
  <2>4. \A i \in 1 .. N - 1 : u[i + 1] = After(u[i])
    BY <1>0, <2>3 DEF Ordered
  <2>5. After(u[N]) = <<K + 1, 1>>
    <3>1. u[N][1] = K /\ u[N][2] = Length(sent[K])
      BY <2>2
    <3>2. Length(sent[K]) \in Nat
      <4>1. taken <= K /\ taken \in Nat
        BY <1>0, BufferHas DEF Ordered, K
      <4>2. K \in 1 .. K
        BY <1>0, <1>2, <4>1
      <4> QED
        BY <1>0, <4>2, ElementOfSeq, LengthIs DEF K
    <3>3. ~(Length(sent[K]) < Length(sent[K]))
      BY <3>2
    <3> QED
      BY <2>3, <3>1, <3>3 DEF Following
  <2> QED
    BY <1>0, <1>2, <2>2, <2>4, <2>5 DEF BytesConserved, u, K
<1> QED
  BY <1>1, <1>2

\* No byte is lost, repeated or overwritten between the client and the
\* handlers, however TCP cuts the stream, however many messages one receive
\* brings and whatever the headers declare.
THEOREM NoByteLost == Spec => []BytesConserved
BY SessionKeeps, OrderedConserves, PTL

\* A session that waits for bytes of a message that fits has room for them.
LEMMA WaitsWithRoom == ReceiveInv => RoomToReceive
<1> SUFFICES ASSUME ReceiveInv, pc = "receive",
                    taken < Len(sent) => Fits(sent[taken + 1])
             PROVE  span.size > 0
  BY DEF RoomToReceive
<1>0. /\ HeaderSize \in Nat \ {0} /\ MaxReceiveBufferSize \in Nat
      /\ HeaderSize <= MaxReceiveBufferSize
      /\ commited_size \in 0 .. MaxReceiveBufferSize /\ Len(sent) \in Nat /\ taken \in Nat
  BY BufferHas, BufferAssumption
<1>1. span.size = MaxReceiveBufferSize - commited_size /\ ~HasMessage
  BY DEF ReceiveInv, SpanKept, NoneWaits, GetRemainSpan
<1>2. SUFFICES ASSUME commited_size = MaxReceiveBufferSize PROVE FALSE
  BY <1>0, <1>1
<1>3. commited_size > 0 /\ commited_size >= HeaderSize
  BY <1>0, <1>2
<1>4. taken + 1 \in 1 .. Len(sent) /\ Header = sent[taken + 1]
  BY <1>3, HeaderIs
<1>5. Fits(Header)
  BY <1>0, <1>4
<1>6. Header.size \in HeaderSize .. MaxReceiveBufferSize
  BY <1>5 DEF Fits
<1>7. Header.size >= HeaderSize /\ commited_size >= Header.size
  BY <1>0, <1>2, <1>6
<1> QED
  BY <1>1, <1>3, <1>7 DEF HasMessage

\* A receive of no bytes, which would complete at once and turn the chain into
\* a busy loop, is never requested while the session waits for a message that
\* fits into the buffer.
THEOREM ReceivesHaveRoom == Spec => []RoomToReceive
BY SessionKeeps, WaitsWithRoom, PTL

\* The receive chain implements the stream of whole messages: the handlers are
\* called with the messages of registered types, complete, in the order they
\* were sent and each once; receives, partial messages and the moves of the
\* buffer do not show.
THEOREM ImplementsStream == Spec => StreamOfMessages
<1>1. Init => Stream!Init
  BY DEF Init, Stream!Init
<1>2. ReceiveInv /\ [Next]_vars => [Stream!Next]_(Stream!vars)
  <2> SUFFICES ASSUME ReceiveInv, [Next]_vars PROVE Stream!Next \/ UNCHANGED Stream!vars
    OBVIOUS
  <2>1. CASE UNCHANGED vars
    BY <2>1 DEF vars, Stream!vars
  <2>2. CASE \/ RequestReceive \/ DropReceive \/ LeaveLoop \/ ReceiveNothing
             \/ ReceiveFails \/ End
    BY <2>2 DEF RequestReceive, DropReceive, LeaveLoop, ReceiveNothing, ReceiveFails, End, client,
                Stream!vars
  <2>3. ASSUME NEW n, Receive(n) PROVE UNCHANGED Stream!vars
    BY <2>3 DEF Receive, client, Stream!vars
  <2>4. CASE ParseMessage
    <3>1. /\ HasMessage /\ Dispatch /\ ProcessCompleted(Header.size)
          /\ taken' = taken + 1 /\ UNCHANGED <<sent, wire>>
      BY <2>4 DEF ParseMessage, client
    <3>2. SubSeq(buffer, 1, Header.size) = Bytes(taken + 1, sent[taken + 1])
      BY <3>1, ParseIs
    <3>3. taken + 1 \in 1 .. Len(sent) /\ Header = sent[taken + 1]
      BY <3>1, MessageIs
    <3>4. taken < Len(sent)
      BY <3>3, BufferHas
    <3>5. Stream!Take
      BY <3>1, <3>2, <3>3, <3>4 DEF Dispatch, Stream!Take
    <3> QED
      BY <3>5 DEF Stream!Next
  <2>5. ASSUME NEW m \in Messages,
               Send(m) \/ \E k \in 1 .. Length(m) - 1 : SendPartly(m, k)
        PROVE  Stream!Next
    BY <2>5 DEF Send, SendPartly, Stream!Send, Stream!Next
  <2> QED
    BY <2>1, <2>2, <2>3, <2>4, <2>5 DEF Next, Session, Kernel
<1> QED
  BY <1>1, <1>2, SessionKeeps, PTL DEF Spec, StreamOfMessages, Stream!Spec

=============================================================================
