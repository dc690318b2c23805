------------------------------ MODULE MCHelpers ------------------------------
\* Bounded inputs for the helpers, evaluated before the scan that uses them.
EXTENDS Integers, Sequences

LOCAL INSTANCE Helpers

LOCAL Numbers ==
    {[i \in 0..7 |-> CASE i = 7 -> a [] i = 3 -> b [] i = 0 -> c [] OTHER -> 1] :
        a, b, c \in 0..2}

\* A hash passes exactly when it is the smaller number, in base 3.
ASSUME FulltestAgrees ==
    \A h, t \in Numbers : fulltest(h, t) <=> Number(3, h) <= Number(3, t)

LOCAL Instants == [sec : 0..2, usec : {0, 1, Million - 2, Million - 1}]

\* The difference of two times and its sign.
ASSUME TimesAgree ==
    \A x, y \in Instants :
        /\ Micro(timeval_subtract(x, y)) = Micro(x) - Micro(y)
        /\ SaysNegative(x, y) <=> Micro(x) < Micro(y)

\* There and back, and what a bad third digit leaves of a buffer of three.
ASSUME HexAgrees ==
    /\ \A p \in [1..2 -> {0, 1, 15, 16, 200, 255}] :
          hex2bin(bin2hex(p), 2) /\ Filled(<<7, 7>>, bin2hex(p), 2) = p
    /\ \A c \in {Blank, Plus, Minus, Other} :
          LET s == <<1, 2, 3, c, 4, 5>> IN
          ~hex2bin(s, 3) /\ Filled(<<7, 7, 7>>, s, 3) = <<18, 3, 7>>
=============================================================================
