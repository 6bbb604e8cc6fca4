----------------------------- MODULE RingLemmas -----------------------------
(***************************************************************************)
(* Lemmas about a ring of n places: the number k + 1 is at place k % n,    *)
(* for the k from m up to i, and the other places are empty. The programs  *)
(* that keep their buffer this way share them.                             *)
(***************************************************************************)
EXTENDS Integers, Sequences, SequenceTheorems, TLAPS

\* A ring b of n places that holds the numbers after m, up to i, each at its place,
\* and no others.
RingHolds(b, n, m, i) ==
    /\ \A k \in m .. i - 1 : b[k % n] = k + 1
    /\ \A x \in 0 .. n - 1 : b[x] = 0 \/ \E k \in m .. i - 1 : x = k % n

\* What is read from there.
Window(b, n, m, i) == [k \in 1 .. i - m |-> b[(m + k - 1) % n]]

-----------------------------------------------------------------------------
(* Places.                                                                 *)

\* A number, its round and its place.
LEMMA Division ==
  ASSUME NEW k \in Nat, NEW n \in Nat, n > 0
  PROVE  k \div n \in Int /\ k % n \in 0 .. n - 1 /\ k = n * (k \div n) + (k % n)
  <1>1. k = n * (k \div n) + (k % n)
    BY SMTT(30)
  <1> QED BY <1>1

\* Numbers that differ by less than n are in different places.
LEMMA Different ==
  ASSUME NEW n \in Nat \ {0}, NEW j \in Nat, NEW k \in Nat, j <= k, k - j < n, j % n = k % n
  PROVE  j = k
  <1> DEFINE q == j \div n  r == k \div n
  <1>1. q \in Int /\ r \in Int /\ j = n * q + (j % n) /\ k = n * r + (k % n)
    BY Division
  <1> HIDE DEF q, r
  <1>2. k - j = n * (r - q)
    <2>1. n * r - n * q = n * (r - q)
      BY <1>1
    <2>2. k % n \in Int /\ n * r \in Int /\ n * q \in Int
      BY <1>1, Division
    <2> QED BY <1>1, <2>1, <2>2
  <1>3. r - q \in Int /\ n * (r - q) < n /\ n * (r - q) >= 0
    BY <1>1, <1>2
  <1>4. r - q < 1 /\ r - q >= 0
    BY <1>3
  <1>5. r - q = 0
    BY <1>3, <1>4
  <1> QED BY <1>2, <1>5

\* The number that goes in fills one place, and leaves the others.
LEMMA OtherPlaces ==
  ASSUME NEW n \in Nat \ {0}, NEW j \in Nat, NEW k \in Nat, j < k + n, k < j + n, j # k
  PROVE  j % n # k % n
  <1>1. CASE j <= k
    <2>1. k - j < n
      OBVIOUS
    <2> QED BY <1>1, <2>1, Different
  <1>2. CASE k <= j
    <2>1. j - k < n
      OBVIOUS
    <2> QED BY <1>2, <2>1, Different
  <1> QED BY <1>1, <1>2

-----------------------------------------------------------------------------
(* What goes in and out.                                                   *)

\* The place behind the last number is empty, and then holds the next.
LEMMA Fills ==
  ASSUME NEW n \in Nat \ {0}, NEW m \in Nat, NEW i \in Nat, m <= i, i < m + n,
         NEW b, NEW c, RingHolds(b, n, m, i),
         \A x \in 0 .. n - 1 : c[x] = IF x = i % n THEN i + 1 ELSE b[x]
  PROVE  b[i % n] = 0 /\ RingHolds(c, n, m, i + 1)
  <1>1. /\ \A k \in m .. i - 1 : b[k % n] = k + 1
        /\ \A x \in 0 .. n - 1 : b[x] = 0 \/ \E k \in m .. i - 1 : x = k % n
    BY DEF RingHolds
  <1>2. i % n \in 0 .. n - 1 /\ \A k \in m .. i : k \in Nat /\ k % n \in 0 .. n - 1
    BY Division
  <1>3. \A k \in m .. i - 1 : k % n # i % n
    <2> SUFFICES ASSUME NEW k \in m .. i - 1
                 PROVE  k % n # i % n
      OBVIOUS
    <2>1. k \in Nat /\ k < i + n /\ i < k + n /\ k # i
      OBVIOUS
    <2> QED BY <2>1, OtherPlaces
  <1>4. b[i % n] = 0
    BY <1>1, <1>2, <1>3
  <1>5. \A k \in m .. i : k \in m .. i - 1 \/ k = i
    OBVIOUS
  <1>6. \A k \in m .. i : c[k % n] = k + 1
    BY <1>1, <1>2, <1>3, <1>5
  <1>7. \A x \in 0 .. n - 1 : c[x] = 0 \/ \E k \in m .. i : x = k % n
    <2> TAKE x \in 0 .. n - 1
    <2>1. CASE x = i % n
      BY <2>1
    <2>2. CASE x # i % n /\ b[x] = 0
      BY <2>2
    <2>3. CASE \E k \in m .. i - 1 : x = k % n
      BY <2>3
    <2> QED BY <1>1, <2>1, <2>2, <2>3
  <1>8. (i + 1) - 1 = i
    OBVIOUS
  <1> QED BY <1>4, <1>6, <1>7, <1>8 DEF RingHolds

\* The oldest number is at the place of m, which then is empty.
LEMMA Drains ==
  ASSUME NEW n \in Nat \ {0}, NEW m \in Nat, NEW i \in Nat, m < i, i <= m + n,
         NEW b, NEW c, RingHolds(b, n, m, i),
         \A x \in 0 .. n - 1 : c[x] = IF x = m % n THEN 0 ELSE b[x]
  PROVE  b[m % n] = m + 1 /\ RingHolds(c, n, m + 1, i)
  <1>1. /\ \A k \in m .. i - 1 : b[k % n] = k + 1
        /\ \A x \in 0 .. n - 1 : b[x] = 0 \/ \E k \in m .. i - 1 : x = k % n
    BY DEF RingHolds
  <1>2. m % n \in 0 .. n - 1 /\ \A k \in m .. i : k \in Nat /\ k % n \in 0 .. n - 1
    BY Division
  <1>3. \A k \in m + 1 .. i - 1 : k % n # m % n
    <2> SUFFICES ASSUME NEW k \in m + 1 .. i - 1
                 PROVE  k % n # m % n
      OBVIOUS
    <2>1. k \in Nat /\ k < m + n /\ m < k + n /\ k # m
      OBVIOUS
    <2> QED BY <2>1, OtherPlaces
  <1>4. m \in m .. i - 1
    OBVIOUS
  <1>5. \A k \in m + 1 .. i - 1 : k \in m .. i - 1 /\ k \in m .. i
    OBVIOUS
  <1>6. \A k \in m + 1 .. i - 1 : c[k % n] = k + 1
    BY <1>1, <1>2, <1>3, <1>5
  <1>7. \A x \in 0 .. n - 1 : c[x] = 0 \/ \E k \in m + 1 .. i - 1 : x = k % n
    <2> TAKE x \in 0 .. n - 1
    <2>1. CASE x = m % n \/ b[x] = 0
      BY <2>1
    <2>2. ASSUME x # m % n, NEW k \in m .. i - 1, x = k % n
          PROVE  k \in m + 1 .. i - 1
      BY <2>2
    <2> QED BY <1>1, <2>1, <2>2
  <1> QED BY <1>1, <1>4, <1>6, <1>7 DEF RingHolds

\* The numbers are read in order.
LEMMA Reading ==
  ASSUME NEW n \in Nat \ {0}, NEW m \in Nat, NEW i \in Nat, m <= i, NEW b,
         RingHolds(b, n, m, i)
  PROVE  /\ Window(b, n, m, i) \in Seq(Nat) /\ Len(Window(b, n, m, i)) = i - m
         /\ \A k \in 1 .. i - m : Window(b, n, m, i)[k] = m + k
  <1> DEFINE l == i - m  s == [k \in 1 .. l |-> b[(m + k - 1) % n]]
  <1>1. l \in Nat
    OBVIOUS
  <1>2. ASSUME NEW k \in 1 .. l
        PROVE  b[(m + k - 1) % n] = m + k
    <2> DEFINE j == m + k - 1
    <2>1. j \in m .. i - 1 /\ j + 1 = m + k
      OBVIOUS
    <2> HIDE DEF j
    <2>2. b[j % n] = m + k
      BY <2>1 DEF RingHolds
    <2> QED BY <2>2 DEF j
  <1>3. \A k \in 1 .. l : s[k] = m + k
    BY <1>2
  <1>4. \A k \in 1 .. l : m + k \in Nat
    BY <1>1
  <1> HIDE DEF l
  <1>5. s \in [1 .. l -> Nat]
    BY <1>2, <1>4
  <1>6. s \in Seq(Nat) /\ Len(s) = l
    <2> HIDE DEF s
    <2> QED BY <1>1, <1>5, SeqDef
  <1> QED BY <1>3, <1>6 DEF l, Window

\* What goes in is read last.
LEMMA Puts ==
  ASSUME NEW n \in Nat \ {0}, NEW m \in Nat, NEW i \in Nat, m <= i, NEW b, NEW c,
         RingHolds(b, n, m, i), RingHolds(c, n, m, i + 1)
  PROVE  Window(c, n, m, i + 1) = Append(Window(b, n, m, i), i + 1)
  <1> DEFINE s == Window(b, n, m, i)  u == Window(c, n, m, i + 1)  t == Append(s, i + 1)
  <1>1. s \in Seq(Nat) /\ Len(s) = i - m /\ \A k \in 1 .. i - m : s[k] = m + k
    BY Reading
  <1>2. /\ u \in Seq(Nat) /\ Len(u) = (i + 1) - m
        /\ \A k \in 1 .. (i + 1) - m : u[k] = m + k
    <2>1. i + 1 \in Nat /\ m <= i + 1
      OBVIOUS
    <2> QED BY <2>1, Reading
  <1> HIDE DEF s, u
  <1>3. /\ t \in Seq(Nat) /\ Len(t) = (i - m) + 1
        /\ \A k \in 1 .. i - m : t[k] = m + k
        /\ t[(i - m) + 1] = i + 1
    BY <1>1
  <1> HIDE DEF t
  <1>4. \A k \in 1 .. (i - m) + 1 : k \in 1 .. i - m \/ k = (i - m) + 1
    OBVIOUS
  <1>5. m + ((i - m) + 1) = i + 1 /\ (i - m) + 1 = (i + 1) - m
    OBVIOUS
  <1>6. \A k \in 1 .. Len(t) : t[k] = u[k]
    BY <1>2, <1>3, <1>4, <1>5
  <1>7. t = u
    BY <1>2, <1>3, <1>5, <1>6, SeqEqual
  <1> QED BY <1>7 DEF s, u, t

\* What comes out was read first.
LEMMA Gets ==
  ASSUME NEW n \in Nat \ {0}, NEW m \in Nat, NEW i \in Nat, m < i, NEW b, NEW c,
         RingHolds(b, n, m, i), RingHolds(c, n, m + 1, i)
  PROVE  Window(b, n, m, i) # <<>> /\ Window(c, n, m + 1, i) = Tail(Window(b, n, m, i))
  <1> DEFINE s == Window(b, n, m, i)  u == Window(c, n, m + 1, i)  t == Tail(s)
  <1>1. s \in Seq(Nat) /\ Len(s) = i - m /\ \A k \in 1 .. i - m : s[k] = m + k
    BY Reading
  <1>2. /\ u \in Seq(Nat) /\ Len(u) = i - (m + 1)
        /\ \A k \in 1 .. i - (m + 1) : u[k] = (m + 1) + k
    <2>1. m + 1 \in Nat /\ m + 1 <= i
      OBVIOUS
    <2> QED BY <2>1, Reading
  <1> HIDE DEF s, u
  <1>3. s # <<>>
    BY <1>1
  <1>4. t \in Seq(Nat) /\ Len(t) = i - m - 1 /\ \A k \in 1 .. Len(t) : t[k] = s[k + 1]
    BY <1>1, <1>3
  <1> HIDE DEF t
  <1>5. i - m - 1 = i - (m + 1)
    OBVIOUS
  <1>6. \A k \in 1 .. i - m - 1 : k + 1 \in 1 .. i - m /\ m + (k + 1) = (m + 1) + k
    OBVIOUS
  <1>7. \A k \in 1 .. Len(t) : t[k] = u[k]
    BY <1>1, <1>2, <1>4, <1>5, <1>6
  <1>8. t = u
    BY <1>2, <1>4, <1>5, <1>7, SeqEqual
  <1> QED BY <1>3, <1>8 DEF s, u, t
=============================================================================
