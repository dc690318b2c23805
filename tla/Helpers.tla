------------------------------- MODULE Helpers -------------------------------
(***************************************************************************)
(* The pure helpers of util.c that the running miner relies on: the        *)
(* comparison of a hash with a target, the difference of two times, and    *)
(* the two conversions between bytes and hexadecimal digits.               *)
(***************************************************************************)
EXTENDS Integers, Sequences

\* fulltest: word 7 is the most significant one and is looked at first; the
\* first word that differs decides, and equal numbers pass.
fulltest(hash, target) ==
    LET differ == {i \in 0..7 : hash[i] # target[i]} IN
    \A i \in differ : (\A j \in differ : j <= i) => hash[i] < target[i]

\* The number that eight words in base B stand for.
Number(B, w) ==
    w[0] + B * (w[1] + B * (w[2] + B * (w[3]
         + B * (w[4] + B * (w[5] + B * (w[6] + B * w[7]))))))

-----------------------------------------------------------------------------
Million == 10 * 10 * 10 * 10 * 10 * 10

\* y after the first of the two corrections in timeval_subtract, a borrow ...
Borrowed(x, y) ==
    LET nsec == (y.usec - x.usec) \div Million + 1 IN
    IF x.usec < y.usec
    THEN [sec |-> y.sec + nsec, usec |-> y.usec - Million * nsec]
    ELSE y

\* ... and after the second, for a difference of more than a second.
Carried(x, y) ==
    LET nsec == (x.usec - y.usec) \div Million IN
    IF x.usec - y.usec > Million
    THEN [sec |-> y.sec - nsec, usec |-> y.usec + Million * nsec]
    ELSE y

Corrected(x, y) == Carried(x, Borrowed(x, y))

\* timeval_subtract: what it stores in *result ...
timeval_subtract(x, y) ==
    [sec |-> x.sec - Corrected(x, y).sec, usec |-> x.usec - Corrected(x, y).usec]

\* ... and what it returns.
SaysNegative(x, y) == x.sec < Corrected(x, y).sec

\* What gettimeofday returns.
Times == [sec : Int, usec : 0..(Million - 1)]
Micro(t) == t.usec + Million * t.sec

-----------------------------------------------------------------------------
Bytes == 0..255
Digits == 0..15

\* A character: a digit, or what strtol skips or takes for a sign, or another.
Blank == 16
Plus == 17
Minus == 18
Other == 19
Characters == 0..19

\* bin2hex: two digits for each byte.
bin2hex(p) ==
    [i \in 1..(2 * Len(p)) |-> LET b == p[(i + 1) \div 2] IN
                               IF i % 2 = 1 THEN b \div 16 ELSE b % 16]

\* strtol(hex_byte, &ep, 16) consumes both characters ...
Consumed(a, b) == b \in Digits /\ a # Other

\* ... and a sign or a blank counts as no digit.  The result is cut to a byte.
Byte(a, b) ==
    IF ~Consumed(a, b) THEN (IF a \in Digits THEN a ELSE 0)
    ELSE IF a \in Digits THEN 16 * a + b
    ELSE IF a = Minus THEN (256 - b) % 256 ELSE b

\* hex2bin(p, s, len) stops at the first pair that strtol does not consume, at
\* the end of the string or at the end of the buffer.
Good(s, i) == Consumed(s[2 * i - 1], s[2 * i])
Written(s, len) ==
    {i \in 1..len : 2 * i <= Len(s) /\ \A j \in 1..(i - 1) : Good(s, j)}

\* Its answer: s was len bytes and no more.
hex2bin(s, len) == Len(s) = 2 * len /\ \A i \in 1..len : Good(s, i)

\* The buffer p afterwards: a pair is stored before it is known to be good.
Filled(p, s, len) ==
    [i \in DOMAIN p |-> IF i \in Written(s, len)
                        THEN Byte(s[2 * i - 1], s[2 * i]) ELSE p[i]]
=============================================================================
