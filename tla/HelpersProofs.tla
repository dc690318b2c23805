---------------------------- MODULE HelpersProofs ----------------------------
(***************************************************************************)
(* What the helpers compute, for every input.                              *)
(***************************************************************************)
EXTENDS Helpers, TLAPS

\* A more significant digit outweighs all below it.
LEMMA HigherDigitDecides ==
    ASSUME NEW B \in Nat \ {0}, NEW a \in Int, NEW b \in Int, NEW h \in Int, NEW k \in Int,
           a - b < B, b - a < B
    PROVE  /\ h < k => a + B * h < b + B * k
           /\ k < h => b + B * k < a + B * h
<1>1. ASSUME h < k PROVE a + B * h < b + B * k
  <2>1. PICK d \in Nat : k = h + 1 + d
    <3>1. k - h - 1 \in Nat /\ k = h + 1 + (k - h - 1)
      BY <1>1
    <3> QED BY <3>1
  <2>2. B * k = B * h + B + B * d /\ B * d \in Nat
    BY <2>1
  <2> QED BY <2>2
<1>2. ASSUME k < h PROVE b + B * k < a + B * h
  <2>1. PICK d \in Nat : h = k + 1 + d
    <3>1. h - k - 1 \in Nat /\ h = k + 1 + (h - k - 1)
      BY <1>2
    <3> QED BY <3>1
  <2>2. B * h = B * k + B + B * d /\ B * d \in Nat
    BY <2>1
  <2> QED BY <2>2
<1> QED BY <1>1, <1>2

\* Two numbers compare as what is above their last digits, then as these.
LEMMA LastDigit ==
    ASSUME NEW B \in Nat \ {0}, NEW a \in 0..(B - 1), NEW b \in 0..(B - 1),
           NEW h \in Int, NEW k \in Int
    PROVE  /\ a + B * h \in Int /\ b + B * k \in Int
           /\ a + B * h < b + B * k <=> h < k \/ (h = k /\ a < b)
           /\ a + B * h = b + B * k <=> h = k /\ a = b
<1>1. a \in Int /\ b \in Int /\ a - b < B /\ b - a < B
  OBVIOUS
<1>2. /\ h < k => a + B * h < b + B * k
      /\ k < h => b + B * k < a + B * h
  BY <1>1, HigherDigitDecides
<1>3. B * h \in Int /\ B * k \in Int
  OBVIOUS
<1>4. h < k \/ h = k \/ k < h
  OBVIOUS
<1> QED BY <1>1, <1>2, <1>3, <1>4

\* util.c's fulltest is the comparison of the two numbers: a hash is accepted
\* exactly when it is not above the target.  So the test of word 7 that
\* scanhash_cryptonight makes before it is redundant.
THEOREM FulltestCompares ==
    ASSUME NEW B \in Nat \ {0},
           NEW hash \in [0..7 -> 0..(B - 1)], NEW target \in [0..7 -> 0..(B - 1)]
    PROVE  fulltest(hash, target) <=> Number(B, hash) <= Number(B, target)
<1>1. \A i \in 0..7 : hash[i] \in 0..(B - 1) /\ target[i] \in 0..(B - 1)
  OBVIOUS
<1> DEFINE N6(w) == w[6] + B * w[7]
           N5(w) == w[5] + B * N6(w)
           N4(w) == w[4] + B * N5(w)
           N3(w) == w[3] + B * N4(w)
           N2(w) == w[2] + B * N3(w)
           N1(w) == w[1] + B * N2(w)
           N0(w) == w[0] + B * N1(w)
           Same(i) == \A j \in i..7 : hash[j] = target[j]
           Below(i) == \E j \in i..7 : hash[j] < target[j]
                          /\ \A l \in (j + 1)..7 : hash[l] = target[l]
<1>2. hash[7] \in Int /\ target[7] \in Int
      /\ (hash[7] = target[7] <=> Same(7)) /\ (hash[7] < target[7] <=> Below(7))
  BY <1>1
<1> DEFINE Compared(i, g, f) ==
             g \in Int /\ f \in Int /\ (g = f <=> Same(i)) /\ (g < f <=> Below(i))
<1>3. ASSUME NEW i \in 0..6, NEW n, n = i + 1, NEW h, NEW k, Compared(n, h, k),
             NEW g, NEW f, g = hash[i] + B * h, f = target[i] + B * k
      PROVE  Compared(i, g, f)
  <2>1. /\ hash[i] + B * h \in Int /\ target[i] + B * k \in Int
        /\ hash[i] + B * h < target[i] + B * k <=> h < k \/ (h = k /\ hash[i] < target[i])
        /\ hash[i] + B * h = target[i] + B * k <=> h = k /\ hash[i] = target[i]
    <3>1. hash[i] \in 0..(B - 1) /\ target[i] \in 0..(B - 1) /\ h \in Int /\ k \in Int
      BY <1>1, <1>3
    <3> HIDE DEF Same, Below
    <3> QED BY <3>1, LastDigit
  <2>2. Same(i) <=> Same(n) /\ hash[i] = target[i]
    BY <1>3
  <2>3. Below(i) <=> Below(n) \/ (Same(n) /\ hash[i] < target[i])
    BY <1>3
  <2> HIDE DEF Same, Below
  <2> QED BY <1>3, <2>1, <2>2, <2>3
<1> HIDE DEF Same, Below
<1>4. Compared(6, N6(hash), N6(target))
  <2>1. /\ N6(hash) = hash[6] + B * hash[7]
        /\ N6(target) = target[6] + B * target[7]
        /\ 6 \in 0..6 /\ 7 = 6 + 1
    OBVIOUS
  <2>2. Compared(7, hash[7], target[7])
    BY <1>2
  <2> HIDE DEF Compared, N0, N1, N2, N3, N4, N5, N6
  <2> QED BY <1>3, <2>2, <2>1
<1>5. Compared(5, N5(hash), N5(target))
  <2>1. /\ N5(hash) = hash[5] + B * N6(hash)
        /\ N5(target) = target[5] + B * N6(target)
        /\ 5 \in 0..6 /\ 6 = 5 + 1
    OBVIOUS
  <2> HIDE DEF Compared, N0, N1, N2, N3, N4, N5, N6
  <2> QED BY <1>3, <1>4, <2>1
<1>6. Compared(4, N4(hash), N4(target))
  <2>1. /\ N4(hash) = hash[4] + B * N5(hash)
        /\ N4(target) = target[4] + B * N5(target)
        /\ 4 \in 0..6 /\ 5 = 4 + 1
    OBVIOUS
  <2> HIDE DEF Compared, N0, N1, N2, N3, N4, N5, N6
  <2> QED BY <1>3, <1>5, <2>1
<1>7. Compared(3, N3(hash), N3(target))
  <2>1. /\ N3(hash) = hash[3] + B * N4(hash)
        /\ N3(target) = target[3] + B * N4(target)
        /\ 3 \in 0..6 /\ 4 = 3 + 1
    OBVIOUS
  <2> HIDE DEF Compared, N0, N1, N2, N3, N4, N5, N6
  <2> QED BY <1>3, <1>6, <2>1
<1>8. Compared(2, N2(hash), N2(target))
  <2>1. /\ N2(hash) = hash[2] + B * N3(hash)
        /\ N2(target) = target[2] + B * N3(target)
        /\ 2 \in 0..6 /\ 3 = 2 + 1
    OBVIOUS
  <2> HIDE DEF Compared, N0, N1, N2, N3, N4, N5, N6
  <2> QED BY <1>3, <1>7, <2>1
<1>9. Compared(1, N1(hash), N1(target))
  <2>1. /\ N1(hash) = hash[1] + B * N2(hash)
        /\ N1(target) = target[1] + B * N2(target)
        /\ 1 \in 0..6 /\ 2 = 1 + 1
    OBVIOUS
  <2> HIDE DEF Compared, N0, N1, N2, N3, N4, N5, N6
  <2> QED BY <1>3, <1>8, <2>1
<1>10. Compared(0, N0(hash), N0(target))
  <2>1. /\ N0(hash) = hash[0] + B * N1(hash)
        /\ N0(target) = target[0] + B * N1(target)
        /\ 0 \in 0..6 /\ 1 = 0 + 1
    OBVIOUS
  <2> HIDE DEF Compared, N0, N1, N2, N3, N4, N5, N6
  <2> QED BY <1>3, <1>9, <2>1
<1>11. Number(B, hash) = N0(hash) /\ Number(B, target) = N0(target)
  BY DEF Number
<1>12. fulltest(hash, target) <=> Same(0) \/ Below(0)
  BY <1>1 DEF fulltest, Same, Below
<1> HIDE DEF N0
<1> QED BY <1>10, <1>11, <1>12

LEMMA MillionFacts ==
    /\ Million \in Nat \ {0}
    /\ \A n \in 0..(Million - 1) : n \div Million = 0
<1>1. Million \in Nat \ {0}
  BY DEF Million
<1>2. ASSUME NEW n \in 0..(Million - 1) PROVE n \div Million = 0
  BY <1>1
<1> QED BY <1>1, <1>2

LEMMA Distributes ==
    ASSUME NEW M \in Int, NEW s \in Int, NEW t \in Int, NEW u \in Int, NEW v \in Int
    PROVE  /\ (u - v) + M * (s - t) = (u + M * s) - (v + M * t)
           /\ (u - v + M) + M * (s - t - 1) = (u + M * s) - (v + M * t)
OBVIOUS

\* For times as gettimeofday gives them the result of timeval_subtract is their
\* difference, its microseconds are in range, and its answer is the sign.
THEOREM SubtractsTimes ==
    ASSUME NEW x \in Times, NEW y \in Times
    PROVE  LET d == timeval_subtract(x, y) IN
           /\ Micro(d) = Micro(x) - Micro(y)
           /\ d.usec \in 0..(Million - 1)
           /\ SaysNegative(x, y) <=> Micro(x) < Micro(y)
<1>1. /\ x.sec \in Int /\ x.usec \in 0..(Million - 1)
      /\ y.sec \in Int /\ y.usec \in 0..(Million - 1)
  BY MillionFacts DEF Times
<1>2. Micro(x) < Micro(y) <=> x.sec < y.sec \/ (x.sec = y.sec /\ x.usec < y.usec)
  BY MillionFacts, <1>1, LastDigit DEF Micro
<1>3. CASE x.usec < y.usec
  <2>1. (y.usec - x.usec) \div Million = 0
    BY MillionFacts, <1>1, <1>3
  <2>2. Borrowed(x, y) = [sec |-> y.sec + 1, usec |-> y.usec - Million]
    BY MillionFacts, <1>1, <1>3, <2>1 DEF Borrowed
  <2> DEFINE b == Borrowed(x, y)
  <2>3. /\ b.sec = y.sec + 1 /\ b.usec = y.usec - Million
        /\ x.usec - b.usec \in 0..(Million - 1)
    BY MillionFacts, <1>1, <1>3, <2>2
  <2> HIDE DEF b
  <2>4. Carried(x, b) = b
    BY MillionFacts, <1>1, <2>3 DEF Carried
  <2>5. Corrected(x, y) = b
    BY <2>4 DEF Corrected, b
  <2>6. timeval_subtract(x, y) = [sec  |-> x.sec - y.sec - 1,
                                  usec |-> x.usec - y.usec + Million]
    BY MillionFacts, <1>1, <2>3, <2>5 DEF timeval_subtract
  <2>7. SaysNegative(x, y) <=> x.sec < y.sec + 1
    BY <2>3, <2>5 DEF SaysNegative
  <2>8. x.usec - y.usec + Million \in 0..(Million - 1)
    BY MillionFacts, <1>1, <1>3
  <2>9. (x.usec - y.usec + Million) + Million * (x.sec - y.sec - 1)
        = (x.usec + Million * x.sec) - (y.usec + Million * y.sec)
    <3>1. Million \in Int /\ {x.sec, y.sec, x.usec, y.usec} \subseteq Int
      BY MillionFacts, <1>1
    <3> QED BY <3>1, Distributes
  <2> QED BY <1>1, <1>2, <1>3, <2>6, <2>7, <2>8, <2>9 DEF Micro
<1>4. CASE ~(x.usec < y.usec)
  <2>1. Corrected(x, y) = y
    BY MillionFacts, <1>1, <1>4 DEF Borrowed, Carried, Corrected
  <2>2. timeval_subtract(x, y) = [sec |-> x.sec - y.sec, usec |-> x.usec - y.usec]
    BY <2>1 DEF timeval_subtract
  <2>3. (x.usec - y.usec) + Million * (x.sec - y.sec)
        = (x.usec + Million * x.sec) - (y.usec + Million * y.sec)
    <3>1. Million \in Int /\ {x.sec, y.sec, x.usec, y.usec} \subseteq Int
      BY MillionFacts, <1>1
    <3> QED BY <3>1, Distributes
  <2>4. x.usec - y.usec \in 0..(Million - 1)
    BY MillionFacts, <1>1, <1>4
  <2> QED BY <1>1, <1>2, <1>4, <2>1, <2>2, <2>3, <2>4 DEF SaysNegative, Micro
<1> QED BY <1>3, <1>4

\* The two digits of a byte.
LEMMA DigitsOfByte ==
    ASSUME NEW b \in Bytes
    PROVE  /\ b \div 16 \in Digits /\ b % 16 \in Digits
           /\ 16 * (b \div 16) + (b % 16) = b
<1>1. b \in Nat /\ b < 16 * 16
  BY DEF Bytes
<1>2. b % 16 \in 0..15
  BY <1>1
<1>3. b \div 16 \in Int
  BY <1>1
<1>4. 16 * (b \div 16) + (b % 16) = b
  BY <1>1
<1>5. b \div 16 \in 0..15
  BY <1>1, <1>2, <1>3, <1>4
<1> QED BY <1>2, <1>4, <1>5 DEF Digits

LEMMA ByteOfDigits ==
    ASSUME NEW a \in Digits, NEW b \in Digits
    PROVE  Consumed(a, b) /\ Byte(a, b) = 16 * a + b
BY DEF Consumed, Byte, Digits, Other

\* hex2bin undoes bin2hex.
THEOREM HexRoundTrip ==
    ASSUME NEW p \in Seq(Bytes), NEW q \in Seq(Bytes), Len(q) = Len(p)
    PROVE  /\ hex2bin(bin2hex(p), Len(p))
           /\ Filled(q, bin2hex(p), Len(p)) = p
<1> DEFINE s == bin2hex(p)
<1>1. s \in Seq(Digits) /\ Len(s) = 2 * Len(p)
  <2>1. ASSUME NEW i \in 1..(2 * Len(p)) PROVE s[i] \in Digits
    <3>1. (i + 1) \div 2 \in 1..Len(p)
      OBVIOUS
    <3>2. p[(i + 1) \div 2] \in Bytes
      BY <3>1
    <3> QED BY <3>2, DigitsOfByte DEF bin2hex
  <2>2. 2 * Len(p) \in Nat
    OBVIOUS
  <2>3. s \in [1..(2 * Len(p)) -> Digits]
    BY <2>1 DEF bin2hex
  <2> QED BY <2>2, <2>3
<1>2. ASSUME NEW i \in 1..Len(p)
      PROVE  /\ Good(s, i) /\ 2 * i <= Len(s)
             /\ Byte(s[2 * i - 1], s[2 * i]) = p[i]
  <2>1. 2 * i - 1 \in 1..(2 * Len(p)) /\ 2 * i \in 1..(2 * Len(p))
    OBVIOUS
  <2>2. (2 * i - 1 + 1) \div 2 = i /\ (2 * i + 1) \div 2 = i
        /\ (2 * i - 1) % 2 = 1 /\ (2 * i) % 2 = 0
    OBVIOUS
  <2>3. s[2 * i - 1] = p[i] \div 16 /\ s[2 * i] = p[i] % 16
    BY <2>1, <2>2 DEF bin2hex
  <2>4. /\ p[i] \div 16 \in Digits /\ p[i] % 16 \in Digits
        /\ 16 * (p[i] \div 16) + (p[i] % 16) = p[i]
    BY DigitsOfByte
  <2>5. /\ Consumed(p[i] \div 16, p[i] % 16)
        /\ Byte(p[i] \div 16, p[i] % 16) = p[i]
    <3> DEFINE a == p[i] \div 16
               b == p[i] % 16
    <3>1. a \in Digits /\ b \in Digits /\ 16 * a + b = p[i]
      BY <2>4
    <3> HIDE DEF a, b
    <3>2. Consumed(a, b) /\ Byte(a, b) = p[i]
      BY <3>1, ByteOfDigits
    <3> QED BY <3>2 DEF a, b
  <2> HIDE DEF s
  <2> QED BY <1>1, <2>3, <2>5 DEF Good
<1> HIDE DEF s
<1>3. \A i \in 1..Len(p) : i \in Written(s, Len(p))
  BY <1>2 DEF Written
<1>4. hex2bin(s, Len(p))
  BY <1>1, <1>2 DEF hex2bin
<1>5. Filled(q, s, Len(p)) = [i \in 1..Len(p) |-> p[i]]
  BY <1>2, <1>3 DEF Filled
<1> QED BY <1>4, <1>5 DEF s

\* A conversion that succeeds leaves no byte of what was in the buffer before.
THEOREM HexLeavesNothing ==
    ASSUME NEW len \in Nat, NEW s \in Seq(Characters), hex2bin(s, len),
           NEW p \in [1..len -> Bytes], NEW q \in [1..len -> Bytes]
    PROVE  Filled(p, s, len) = Filled(q, s, len)
<1>1. \A i \in 1..len : i \in Written(s, len)
  BY DEF hex2bin, Written
<1> QED BY <1>1 DEF Filled

\* One that fails has left alone what lies behind the pair where it stopped: the
\* target that rpc2_job_decode goes on with may be half new and half old.
THEOREM HexStopsAtBadPair ==
    ASSUME NEW len \in Nat, NEW s \in Seq(Characters), NEW p \in [1..len -> Bytes],
           NEW k \in 1..len, ~Good(s, k), NEW i \in (k + 1)..len
    PROVE  Filled(p, s, len)[i] = p[i]
<1>1. i \notin Written(s, len)
  BY DEF Written
<1> QED BY <1>1 DEF Filled
=============================================================================
